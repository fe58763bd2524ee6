--------------------------- MODULE DispatchProofs ---------------------------
(***************************************************************************)
(* What the router and the loops over its targets guarantee, for any       *)
(* routes, targets, prices, latency statistics and number of retries.      *)
(***************************************************************************)
EXTENDS Dispatch, TLAPS, FiniteSetTheorems, SequenceTheorems, WellFoundedInduction

-----------------------------------------------------------------------------
(* Finite sets with a total order                                          *)

\* A non-empty set of numbers has a smallest one.
LEMMA SmallestNumber ==
    ASSUME NEW S \in SUBSET Nat, S # {}
    PROVE  \E x \in S : \A y \in S : x =< y
  <1> DEFINE R == {p \in Nat \X Nat : p[1] < p[2]}
  <1>1. IsWellFoundedOn(R, Nat)
    BY NatLessThanWellFounded DEF OpToRel
  <1>2. \A x, y \in Nat : x < y => <<x, y>> \in R
    OBVIOUS
  <1> HIDE DEF R
  <1>3. PICK x \in S : \A y \in S : ~(<<y, x>> \in R)
    BY <1>1, WFMin
  <1>4. \A y \in S : x =< y
    <2> SUFFICES ASSUME NEW y \in S, y < x PROVE FALSE
      OBVIOUS
    <2>1. <<y, x>> \in R
      BY <1>2
    <2>2. QED
      BY <1>3, <2>1
  <1>5. QED
    BY <1>4

\* R orders the members of S, one after the other.
Orders(R, S) ==
    /\ \A x, y \in S : x # y => <<x, y>> \in R \/ <<y, x>> \in R
    /\ \A x, y, z \in S : <<x, y>> \in R /\ <<y, z>> \in R => <<x, z>> \in R

\* A subset of an ordered set is ordered.
LEMMA OrdersPart ==
    ASSUME NEW R, NEW S, Orders(R, S), NEW T \in SUBSET S
    PROVE  Orders(R, T)
  BY DEF Orders

\* A set without one of its members has one member less.
LEMMA OneLess ==
    ASSUME NEW S, IsFiniteSet(S), NEW x \in S
    PROVE  /\ IsFiniteSet(S \ {x}) /\ Cardinality(S) \in Nat /\ Cardinality(S \ {x}) \in Nat
           /\ Cardinality(S) = Cardinality(S \ {x}) + 1
  <1>1. IsFiniteSet(S \ {x}) /\ Cardinality(S \ {x}) = Cardinality(S) - 1
    BY FS_RemoveElement
  <1>2. QED
    BY <1>1, FS_CardinalityType

\* A finite ordered set has a last member.
LEMMA LastExists ==
    ASSUME NEW R, NEW U, IsFiniteSet(U), Orders(R, U), U # {}
    PROVE  \E x \in U : \A y \in U \ {x} : <<y, x>> \in R
  <1> DEFINE Has(S) == \E x \in S : \A y \in S \ {x} : <<y, x>> \in R
             P(n) == \A S \in SUBSET U : Cardinality(S) = n /\ S # {} => Has(S)
  <1>f. \A S \in SUBSET U : IsFiniteSet(S) /\ Cardinality(S) \in Nat /\ (Cardinality(S) = 0 <=> S = {})
    BY FS_Subset, FS_CardinalityType, FS_EmptySet
  <1>1. P(0)
    BY <1>f
  <1>2. ASSUME NEW n \in Nat, P(n) PROVE P(n + 1)
    <2> SUFFICES ASSUME NEW S \in SUBSET U, Cardinality(S) = n + 1 PROVE Has(S)
      OBVIOUS
    <2>1. S # {} /\ IsFiniteSet(S)
      BY <1>f
    <2>2. PICK z \in S : TRUE
      BY <2>1
    <2> DEFINE T == S \ {z}
    <2>3. T \in SUBSET U /\ Cardinality(T) = n
      BY <1>f, <2>1, OneLess
    <2>4. CASE T = {}
      <3>1. \A y \in S \ {z} : FALSE
        BY <2>4
      <3>2. QED
        BY <3>1
    <2>5. CASE T # {}
      <3>1. Has(T)
        BY <1>2, <2>3, <2>5
      <3>2. PICK x \in T : \A y \in T \ {x} : <<y, x>> \in R
        BY <3>1
      <3>3. x \in U /\ z \in U /\ x # z
        BY <3>2
      <3>4. CASE <<z, x>> \in R
        BY <3>2, <3>4
      <3>5. CASE <<x, z>> \in R
        <4>1. \A y \in S \ {z} : <<y, z>> \in R
          BY <3>2, <3>3, <3>5 DEF Orders
        <4>2. QED
          BY <4>1
      <3>6. QED
        BY <3>3, <3>4, <3>5 DEF Orders
    <2>6. QED
      BY <2>4, <2>5
  <1> HIDE DEF P
  <1>3. \A n \in Nat : P(n)
    <2> DEFINE B == {n \in Nat : ~P(n)}
    <2> SUFFICES ASSUME B # {} PROVE FALSE
      OBVIOUS
    <2>1. PICK m \in B : \A n \in B : m =< n
      BY SmallestNumber
    <2>2. m \in Nat /\ ~P(m) /\ m # 0
      BY <1>1, <2>1
    <2>3. m - 1 \in Nat /\ ~(m =< m - 1) /\ (m - 1) + 1 = m
      BY <2>2
    <2>4. P(m - 1)
      BY <2>1, <2>3
    <2>5. QED
      BY <1>2, <2>2, <2>3, <2>4
  <1>4. P(Cardinality(U))
    BY <1>3, <1>f
  <1>5. QED
    BY <1>4 DEF P

\* q has its members in the order R.
InOrder(R, q) == \A m, n \in DOMAIN q : m < n => <<q[m], q[n]>> \in R

\* The members of a finite ordered set can be put in order.
LEMMA OrderExists ==
    ASSUME NEW R, NEW U, IsFiniteSet(U), Orders(R, U)
    PROVE  \E q \in SetToSeqs(U) : InOrder(R, q)
  <1> DEFINE Has(S) == \E q \in SetToSeqs(S) : InOrder(R, q)
             P(n) == \A S \in SUBSET U : Cardinality(S) = n => Has(S)
  <1>f. \A S \in SUBSET U : IsFiniteSet(S) /\ Cardinality(S) \in Nat /\ (Cardinality(S) = 0 <=> S = {})
    BY FS_Subset, FS_CardinalityType, FS_EmptySet
  <1>1. P(0)
    <2> SUFFICES ASSUME NEW S \in SUBSET U, Cardinality(S) = 0 PROVE Has(S)
      OBVIOUS
    <2> DEFINE q == [n \in 1 .. 0 |-> n]
    <2>1. q \in [1 .. 0 -> S] /\ DOMAIN q = {}
      OBVIOUS
    <2>2. q \in SetToSeqs(S)
      BY <2>1 DEF SetToSeqs
    <2>3. InOrder(R, q)
      BY <2>1 DEF InOrder
    <2>4. QED
      BY <2>2, <2>3
  <1>2. ASSUME NEW n \in Nat, P(n) PROVE P(n + 1)
    <2> SUFFICES ASSUME NEW S \in SUBSET U, Cardinality(S) = n + 1 PROVE Has(S)
      OBVIOUS
    <2>1. S # {} /\ IsFiniteSet(S) /\ Orders(R, S)
      BY <1>f, OrdersPart
    <2>2. PICK z \in S : \A y \in S \ {z} : <<y, z>> \in R
      BY <2>1, LastExists
    <2> DEFINE T == S \ {z}
    <2>3. T \in SUBSET U /\ Cardinality(T) = n
      BY <1>f, <2>1, OneLess
    <2>4. PICK q \in SetToSeqs(T) : InOrder(R, q)
      BY <1>2, <2>3
    <2>5. q \in [1 .. n -> T] /\ \A a, b \in 1 .. n : a # b => q[a] # q[b]
      BY <2>3, <2>4 DEF SetToSeqs
    <2> DEFINE p == [a \in 1 .. n + 1 |-> IF a = n + 1 THEN z ELSE q[a]]
    <2>6. \A a \in 1 .. n + 1 : a = n + 1 \/ (a \in 1 .. n /\ a < n + 1)
      OBVIOUS
    <2>7. p \in [1 .. n + 1 -> S] /\ \A a \in 1 .. n : p[a] = q[a] /\ p[a] \in T
      BY <2>5, <2>6
    <2>8. p[n + 1] = z
      OBVIOUS
    <2> HIDE DEF p
    <2>9. p \in SetToSeqs(S)
      <3>1. ASSUME NEW a \in 1 .. n + 1, NEW b \in 1 .. n + 1, a # b PROVE p[a] # p[b]
        <4>1. CASE a = n + 1
          BY <2>6, <2>7, <2>8, <3>1, <4>1
        <4>2. CASE b = n + 1
          BY <2>6, <2>7, <2>8, <3>1, <4>2
        <4>3. CASE a \in 1 .. n /\ b \in 1 .. n
          BY <2>5, <2>7, <3>1, <4>3
        <4>4. QED
          BY <2>6, <4>1, <4>2, <4>3
      <3>2. QED
        BY <2>7, <3>1 DEF SetToSeqs
    <2>10. InOrder(R, p)
      <3>1. DOMAIN p = 1 .. n + 1 /\ DOMAIN q = 1 .. n
        BY <2>5, <2>7
      <3>2. ASSUME NEW a \in 1 .. n + 1, NEW b \in 1 .. n + 1, a < b PROVE <<p[a], p[b]>> \in R
        <4>1. a \in 1 .. n
          BY <3>2
        <4>2. CASE b = n + 1
          BY <2>2, <2>7, <2>8, <4>1, <4>2
        <4>3. CASE b \in 1 .. n
          BY <2>4, <2>7, <3>1, <3>2, <4>1, <4>3 DEF InOrder
        <4>4. QED
          BY <2>6, <4>2, <4>3
      <3>3. QED
        BY <3>1, <3>2 DEF InOrder
    <2>11. QED
      BY <2>9, <2>10
  <1> HIDE DEF P
  <1>3. \A n \in Nat : P(n)
    <2> DEFINE B == {n \in Nat : ~P(n)}
    <2> SUFFICES ASSUME B # {} PROVE FALSE
      OBVIOUS
    <2>1. PICK m \in B : \A n \in B : m =< n
      BY SmallestNumber
    <2>2. m \in Nat /\ ~P(m) /\ m # 0
      BY <1>1, <2>1
    <2>3. m - 1 \in Nat /\ ~(m =< m - 1) /\ (m - 1) + 1 = m
      BY <2>2
    <2>4. P(m - 1)
      BY <2>1, <2>3
    <2>5. QED
      BY <1>2, <2>2, <2>3, <2>4
  <1>4. P(Cardinality(U))
    BY <1>3, <1>f
  <1>5. QED
    BY <1>4 DEF P

-----------------------------------------------------------------------------
(* Routing: sorting                                                        *)

\* The first number in which two keys differ decides between them.
LEMMA KeysTotal ==
    ASSUME NEW d \in Nat, NEW k \in [1 .. d -> Nat], NEW l \in [1 .. d -> Nat], k # l
    PROVE  Precedes(k, l) \/ Precedes(l, k)
  <1> DEFINE D == {n \in 1 .. d : k[n] # l[n]}
  <1>1. D \in SUBSET Nat /\ D # {}
    OBVIOUS
  <1>2. PICK n \in D : \A m \in D : n =< m
    BY <1>1, SmallestNumber
  <1>3. n \in 1 .. d /\ (k[n] < l[n] \/ l[n] < k[n])
    OBVIOUS
  <1>4. \A m \in 1 .. n - 1 : k[m] = l[m]
    BY <1>2, <1>3
  <1>5. QED
    BY <1>3, <1>4 DEF Precedes

\* Keys are ordered like the words of a dictionary.
LEMMA KeysTransitive ==
    ASSUME NEW d \in Nat, NEW j \in [1 .. d -> Nat], NEW k \in [1 .. d -> Nat], NEW l \in [1 .. d -> Nat],
           Precedes(j, k), Precedes(k, l)
    PROVE  Precedes(j, l)
  <1>1. PICK n \in 1 .. d : j[n] < k[n] /\ \A m \in 1 .. n - 1 : j[m] = k[m]
    BY DEF Precedes
  <1>2. PICK o \in 1 .. d : k[o] < l[o] /\ \A m \in 1 .. o - 1 : k[m] = l[m]
    BY DEF Precedes
  <1>3. CASE n =< o
    <2>1. j[n] < l[n]
      <3>1. CASE n = o
        BY <1>1, <1>2, <3>1
      <3>2. CASE n < o
        BY <1>1, <1>2, <3>2
      <3>3. QED
        BY <1>3, <3>1, <3>2
    <2>2. \A m \in 1 .. n - 1 : j[m] = l[m]
      BY <1>1, <1>2, <1>3
    <2>3. QED
      BY <2>1, <2>2 DEF Precedes
  <1>4. CASE o < n
    <2>1. j[o] < l[o]
      BY <1>1, <1>2, <1>4
    <2>2. \A m \in 1 .. o - 1 : j[m] = l[m]
      BY <1>1, <1>2, <1>4
    <2>3. QED
      BY <2>1, <2>2 DEF Precedes
  <1>5. QED
    BY <1>3, <1>4

\* A sequence of SetToSeqs(S) visits every member of S.
LEMMA SeqsCover ==
    ASSUME NEW S, IsFiniteSet(S), NEW q \in SetToSeqs(S)
    PROVE  q \in Seq(S) /\ ToSet(q) = S
  <1> DEFINE n == Cardinality(S)
             D == 1 .. n
  <1>1. n \in Nat /\ IsFiniteSet(D) /\ Cardinality(D) = n
    BY FS_CardinalityType, FS_Interval
  <1>2. q \in [D -> S] /\ \A a, b \in D : a # b => q[a] # q[b]
    BY DEF SetToSeqs
  <1>3. q \in Injection(D, S)
    BY <1>2 DEF Injection, IsInjective
  <1>4. q \in Surjection(D, S)
    BY <1>1, <1>3, FS_Injection
  <1>5. DOMAIN q = D /\ \A c \in S : \E a \in D : q[a] = c
    BY <1>2, <1>4 DEF Surjection
  <1>6. ToSet(q) = S
    BY <1>2, <1>5 DEF ToSet
  <1>7. q \in Seq(S)
    BY <1>1, <1>2
  <1>8. QED
    BY <1>6, <1>7

\* What SortedBy returns: all targets, and first the one that precedes the others.
Heads(q, key, ts) ==
    /\ q \in Seq(ts) /\ ToSet(q) = ts
    /\ ts # {} => /\ q # <<>> /\ 1 \in DOMAIN q
                  /\ \A t \in ts : t = q[1] \/ Precedes(key[q[1]], key[t])

\* Targets with different keys can be sorted by them.
LEMMA SortedFirst ==
    ASSUME NEW d \in Nat, NEW ts, IsFiniteSet(ts), NEW key \in [ts -> [1 .. d -> Nat]],
           \A s, t \in ts : key[s] = key[t] => s = t
    PROVE  Heads(SortedBy(key, ts), key, ts)
  <1> DEFINE R == {p \in ts \X ts : Precedes(key[p[1]], key[p[2]])}
             q == SortedBy(key, ts)
  <1>1. \A s, t \in ts : <<s, t>> \in R <=> Precedes(key[s], key[t])
    OBVIOUS
  <1> HIDE DEF R
  <1>2. Orders(R, ts)
    <2>1. ASSUME NEW s \in ts, NEW t \in ts, s # t PROVE <<s, t>> \in R \/ <<t, s>> \in R
      BY <1>1, <2>1, KeysTotal
    <2>2. ASSUME NEW s \in ts, NEW t \in ts, NEW u \in ts, <<s, t>> \in R, <<t, u>> \in R PROVE <<s, u>> \in R
      <3>1. Precedes(key[s], key[t]) /\ Precedes(key[t], key[u])
        BY <1>1, <2>2
      <3>2. key[s] \in [1 .. d -> Nat] /\ key[t] \in [1 .. d -> Nat] /\ key[u] \in [1 .. d -> Nat]
        OBVIOUS
      <3>3. Precedes(key[s], key[u])
        BY <3>1, <3>2, KeysTransitive
      <3>4. QED
        BY <1>1, <3>3
    <2>3. QED
      BY <2>1, <2>2 DEF Orders
  <1>3. PICK p \in SetToSeqs(ts) : InOrder(R, p)
    BY <1>2, OrderExists
  <1>4. \A o \in SetToSeqs(ts) : \A m \in DOMAIN o : o[m] \in ts
    BY DEF SetToSeqs
  <1>5. \A m, n \in DOMAIN p : m < n => Precedes(key[p[m]], key[p[n]])
    BY <1>1, <1>3, <1>4 DEF InOrder
  <1>6. q \in SetToSeqs(ts) /\ \A m, n \in DOMAIN q : m < n => Precedes(key[q[m]], key[q[n]])
    BY <1>5 DEF SortedBy
  <1> HIDE DEF q
  <1>7. q \in Seq(ts) /\ ToSet(q) = ts
    BY <1>6, SeqsCover
  <1>8. ASSUME ts # {}
        PROVE  /\ q # <<>> /\ 1 \in DOMAIN q
               /\ \A t \in ts : t = q[1] \/ Precedes(key[q[1]], key[t])
    <2>1. DOMAIN q = 1 .. Len(q) /\ Len(q) \in Nat
      BY <1>7, LenProperties
    <2>2. \A t \in ts : \E n \in DOMAIN q : t = q[n]
      BY <1>7 DEF ToSet
    <2>3. 1 \in DOMAIN q
      BY <1>8, <2>1, <2>2
    <2>4. q # <<>>
      BY <2>3
    <2>5. ASSUME NEW t \in ts PROVE t = q[1] \/ Precedes(key[q[1]], key[t])
      <3>1. PICK n \in DOMAIN q : t = q[n]
        BY <2>2
      <3>2. n = 1 \/ 1 < n
        BY <2>1
      <3>3. QED
        BY <1>6, <2>3, <3>1, <3>2
    <2>6. QED
      BY <2>3, <2>4, <2>5
  <1>9. QED
    BY <1>7, <1>8 DEF Heads, q

\* Keys of two, three and five numbers.
LEMMA KeyTyped ==
    /\ \A a, b \in Nat : <<a, b>> \in [1 .. 2 -> Nat]
    /\ \A a, b, c \in Nat : <<a, b, c>> \in [1 .. 3 -> Nat]
    /\ \A a, b, c, d, e \in Nat : <<a, b, c, d, e>> \in [1 .. 5 -> Nat]
  OBVIOUS

\* Sorted by priority, the first target has the smallest one.
LEMMA PrioritySorted ==
    ASSUME NEW ts, RouteTargetsOK(ts), NEW us \in SUBSET ts
    PROVE  LET q == sortByPriority(us)
           IN  /\ q \in Seq(us) /\ ToSet(q) = us
               /\ us # {} => q # <<>> /\ 1 \in DOMAIN q /\ \A t \in us : q[1].priority =< t.priority
  <1> DEFINE key == [t \in us |-> PriorityKey(t)]
             q == sortByPriority(us)
  <1>1. /\ IsFiniteSet(us) /\ \A t \in us : t.id \in Nat /\ t.priority \in Nat
        /\ \A t, u \in us : t.id = u.id => t = u
    BY FS_Subset DEF RouteTargetsOK
  <1>2. \A t \in us : key[t] = <<t.priority, t.id>>
    BY DEF PriorityKey
  <1>3. key \in [us -> [1 .. 2 -> Nat]]
    BY <1>1, KeyTyped DEF PriorityKey
  <1> HIDE DEF key
  <1>4. \A t, u \in us : key[t] = key[u] => t = u
    BY <1>1, <1>2
  <1>5. Heads(SortedBy(key, us), key, us)
    BY <1>1, <1>3, <1>4, SortedFirst
  <1>6. q = SortedBy(key, us)
    BY DEF sortByPriority, key
  <1> HIDE DEF q
  <1>7. ASSUME us # {}, NEW t \in us PROVE q[1].priority =< t.priority
    <2>1. q[1] \in us
      BY <1>5, <1>6, <1>7 DEF Heads, ToSet
    <2>2. CASE t = q[1]
      BY <1>1, <2>1, <2>2
    <2>3. CASE Precedes(key[q[1]], key[t])
      <3>1. PICK n \in 1 .. 2 : /\ key[q[1]][n] < key[t][n]
                                /\ \A m \in 1 .. n - 1 : key[q[1]][m] = key[t][m]
        BY <1>2, <2>1, <2>3 DEF Precedes
      <3>2. CASE n = 1
        BY <1>1, <1>2, <2>1, <3>1, <3>2
      <3>3. CASE n = 2
        <4>1. key[q[1]][1] = key[t][1]
          BY <3>1, <3>3
        <4>2. QED
          BY <1>1, <1>2, <2>1, <4>1
      <3>4. QED
        BY <3>2, <3>3
    <2>4. QED
      BY <1>5, <1>6, <1>7, <2>2, <2>3 DEF Heads
  <1>8. QED
    BY <1>5, <1>6, <1>7 DEF Heads, q

\* What a completion costs is a number.
LEMMA CostTyped ==
    ASSUME NEW m, ModelOK(m), NEW p \in Nat, NEW c \in Nat
    PROVE  /\ costMicro(p, m.input) \in Nat /\ costMicro(c, m.output) \in Nat
           /\ Calculate(m, p, c) = costMicro(p, m.input) + costMicro(c, m.output)
           /\ Calculate(m, p, c) \in Nat
  <1>1. \A a, b \in Nat : a * b \in Nat
    OBVIOUS
  <1>2. \A a \in Nat : a \div 1000 \in Nat
    OBVIOUS
  <1>3. costMicro(p, m.input) \in Nat /\ costMicro(c, m.output) \in Nat
    BY <1>1, <1>2 DEF ModelOK, costMicro
  <1>4. QED
    BY <1>3 DEF Calculate

\* The value of an optional field, or the default.
LEMMA OptionTyped ==
    ASSUME NEW S, NEW x, IsOptional(x, S), NEW v \in S
    PROVE  OrElse(x, v) \in S /\ \A w \in x : OrElse(x, v) = w
  <1>1. CASE x = {}
    BY <1>1 DEF OrElse
  <1>2. CASE x # {}
    <2>1. (CHOOSE w \in x : TRUE) \in x
      BY <1>2
    <2>2. OrElse(x, v) = (CHOOSE w \in x : TRUE)
      BY <1>2 DEF OrElse
    <2>3. QED
      BY <2>1, <2>2 DEF IsOptional
  <1>3. QED
    BY <1>1, <1>2

\* Sorted by cost, the first target is a cheapest one.
LEMMA CostSorted ==
    ASSUME NEW cat, NEW ts, RouteTargetsOK(ts), NEW us \in SUBSET ts, NEW r, RequestOK(r),
           \A t \in us : ModelOK(cat.models[t.model])
    PROVE  LET q == sortLowestCostTargets(cat, us, r)
           IN  /\ q \in Seq(us) /\ ToSet(q) = us
               /\ us # {} => /\ q # <<>> /\ 1 \in DOMAIN q
                             /\ \A t \in us : estimatedCostMicroUSD(cat.models[q[1].model], r)
                                                =< estimatedCostMicroUSD(cat.models[t.model], r)
  <1> DEFINE Cost(t) == estimatedCostMicroUSD(cat.models[t.model], r)
             key == [t \in us |-> CostKey(cat, t, r)]
             q == sortLowestCostTargets(cat, us, r)
  <1>1. /\ IsFiniteSet(us) /\ \A t \in us : t.id \in Nat /\ t.priority \in Nat
        /\ \A t, u \in us : t.id = u.id => t = u
    BY FS_Subset DEF RouteTargetsOK
  <1>c. \A t \in us : Cost(t) \in Nat
    <2>1. r.prompt \in Nat /\ OrElse(r.maxTokens, 0) \in Nat
      BY OptionTyped DEF RequestOK
    <2>2. QED
      BY <2>1, CostTyped DEF estimatedCostMicroUSD
  <1>2. \A t \in us : key[t] = <<Cost(t), t.priority, t.id>>
    BY DEF CostKey
  <1>q. q = SortedBy(key, us)
    BY DEF sortLowestCostTargets
  <1>d. key = [t \in us |-> <<Cost(t), t.priority, t.id>>]
    BY DEF CostKey
  <1> HIDE DEF Cost
  <1>3. key \in [us -> [1 .. 3 -> Nat]]
    <2>1. \A t \in us : <<Cost(t), t.priority, t.id>> \in [1 .. 3 -> Nat]
      BY <1>1, <1>c, KeyTyped
    <2>2. QED
      BY <1>d, <2>1
  <1> HIDE DEF key, q
  <1>4. \A t, u \in us : key[t] = key[u] => t = u
    BY <1>1, <1>2
  <1>5. Heads(q, key, us)
    BY <1>1, <1>3, <1>4, <1>q, SortedFirst
  <1>7. ASSUME us # {}, NEW t \in us PROVE Cost(q[1]) =< Cost(t)
    <2>1. q[1] \in us
      BY <1>5, <1>7 DEF Heads, ToSet
    <2>2. CASE t = q[1]
      BY <1>c, <2>1, <2>2
    <2>3. CASE Precedes(key[q[1]], key[t])
      <3>1. PICK n \in 1 .. 3 : /\ key[q[1]][n] < key[t][n]
                                /\ \A m \in 1 .. n - 1 : key[q[1]][m] = key[t][m]
        BY <1>2, <2>1, <2>3 DEF Precedes
      <3>2. CASE n = 1
        BY <1>c, <1>2, <2>1, <3>1, <3>2
      <3>3. CASE n = 2 \/ n = 3
        <4>1. key[q[1]][1] = key[t][1]
          BY <3>1, <3>3
        <4>2. QED
          BY <1>c, <1>2, <2>1, <4>1
      <3>4. QED
        BY <3>2, <3>3
    <2>4. QED
      BY <1>5, <1>7, <2>2, <2>3 DEF Heads
  <1>8. QED
    BY <1>5, <1>7 DEF Heads, q, Cost

\* Sorted by latency, no target with statistics beats the first.
LEMMA LatencySorted ==
    ASSUME NEW ts, RouteTargetsOK(ts), NEW us \in SUBSET ts, NEW st,
           \A t \in us : IsOptional(st[t.model], Nat \X Nat)
    PROVE  LET q == sortLatencyTargets(us, st)
           IN  /\ q \in Seq(us) /\ ToSet(q) = us
               /\ us # {} => /\ q # <<>> /\ 1 \in DOMAIN q
                             /\ \A t \in us : \A b \in st[t.model] : \E a \in st[q[1].model] :
                                   a[1] < b[1] \/ (a[1] = b[1] /\ a[2] =< b[2])
  <1> DEFINE None(t) == IF st[t.model] = {} THEN 1 ELSE 0
             Stat(t) == OrElse(st[t.model], <<0, 0>>)
             key == [t \in us |-> LatencyKey(t, st[t.model])]
             q == sortLatencyTargets(us, st)
  <1>1. /\ IsFiniteSet(us) /\ \A t \in us : t.id \in Nat /\ t.priority \in Nat
        /\ \A t, u \in us : t.id = u.id => t = u
    BY FS_Subset DEF RouteTargetsOK
  <1>s. \A t \in us : /\ Stat(t)[1] \in Nat /\ Stat(t)[2] \in Nat
                      /\ \A b \in st[t.model] : b = Stat(t)
    <2> SUFFICES ASSUME NEW t \in us
                 PROVE  Stat(t) \in Nat \X Nat /\ \A b \in st[t.model] : b = Stat(t)
      OBVIOUS
    <2>1. <<0, 0>> \in Nat \X Nat
      OBVIOUS
    <2>2. QED
      BY <2>1, OptionTyped
  <1>n. \A t \in us : None(t) \in Nat /\ (None(t) = 0 <=> st[t.model] # {})
    OBVIOUS
  <1>m. \A t \in us : st[t.model] # {} => Stat(t) \in st[t.model]
    BY <1>s
  <1>2. \A t \in us : key[t] = <<None(t), Stat(t)[1], Stat(t)[2], t.priority, t.id>>
    BY DEF LatencyKey
  <1>q. q = SortedBy(key, us)
    BY DEF sortLatencyTargets
  <1>d. key = [t \in us |-> <<None(t), Stat(t)[1], Stat(t)[2], t.priority, t.id>>]
    BY DEF LatencyKey
  <1> HIDE DEF None, Stat
  <1>3. key \in [us -> [1 .. 5 -> Nat]]
    <2>1. \A t \in us : <<None(t), Stat(t)[1], Stat(t)[2], t.priority, t.id>> \in [1 .. 5 -> Nat]
      BY <1>1, <1>s, <1>n, KeyTyped
    <2>2. QED
      BY <1>d, <2>1
  <1> HIDE DEF key, q
  <1>4. \A t, u \in us : key[t] = key[u] => t = u
    BY <1>1, <1>2
  <1>5. Heads(q, key, us)
    BY <1>1, <1>3, <1>4, <1>q, SortedFirst
  <1>7. ASSUME us # {}, NEW t \in us, NEW b \in st[t.model]
        PROVE  \E a \in st[q[1].model] : a[1] < b[1] \/ (a[1] = b[1] /\ a[2] =< b[2])
    <2>1. q[1] \in us /\ b = Stat(t) /\ None(t) = 0
      BY <1>s, <1>n, <1>5, <1>7 DEF Heads, ToSet
    <2>2. CASE t = q[1]
      BY <1>s, <2>1, <2>2
    <2>3. CASE Precedes(key[q[1]], key[t])
      <3> DEFINE k == key[q[1]]
                 l == key[t]
      <3>1. PICK n \in 1 .. 5 : k[n] < l[n] /\ \A m \in 1 .. n - 1 : k[m] = l[m]
        BY <1>2, <2>1, <2>3 DEF Precedes
      <3>2. /\ k[1] = None(q[1]) /\ k[2] = Stat(q[1])[1] /\ k[3] = Stat(q[1])[2]
            /\ l[1] = 0 /\ l[2] = b[1] /\ l[3] = b[2]
            /\ k[1] \in Nat /\ k[2] \in Nat /\ k[3] \in Nat /\ l[2] \in Nat /\ l[3] \in Nat
        BY <1>2, <1>s, <1>n, <2>1
      <3> HIDE DEF k, l
      <3>3. n # 1
        BY <3>1, <3>2
      <3>4. k[1] = 0
        BY <3>1, <3>2, <3>3
      <3>5. k[2] < l[2] \/ (k[2] = l[2] /\ k[3] =< l[3])
        <4>1. CASE n = 2
          BY <3>1, <4>1
        <4>2. CASE n = 3
          BY <3>1, <3>2, <4>2
        <4>3. CASE n = 4 \/ n = 5
          BY <3>1, <3>2, <4>3
        <4>4. QED
          BY <3>3, <4>1, <4>2, <4>3
      <3>6. Stat(q[1]) \in st[q[1].model]
        BY <1>m, <1>n, <2>1, <3>2, <3>4
      <3>7. QED
        BY <3>2, <3>5, <3>6
    <2>4. QED
      BY <1>5, <1>7, <2>2, <2>3 DEF Heads
  <1>8. QED
    BY <1>5, <1>7 DEF Heads, q

-----------------------------------------------------------------------------
(* Routing: what ResolveTargets returns                                    *)

\* A route and the models of its targets, as the assumption on Settings has them.
LEMMA RouteTyped ==
    ASSUME setting \in Settings, NEW a \in DOMAIN setting.routes
    PROVE  /\ RouteTargetsOK(setting.routes[a].targets)
           /\ setting.routes[a].strategy \in Strategies
           /\ \A t \in setting.routes[a].targets :
                 /\ t.model \in DOMAIN setting.catalogue.models
                 /\ ModelOK(setting.catalogue.models[t.model])
  BY SettingAssumption DEF validateCreateRoutePolicyParams, validateTargetBelongsToOrg

\* What the invariant knows of the targets of a call in hand.
Chosen ==
    /\ setting \in Settings /\ RequestOK(req)
    /\ stats \in StatsRead
    /\ targets = Resolved(stats) /\ targets # <<>>

\* ErrRouteNotFound unless there is a route.
LEMMA ChosenRoute ==
    ASSUME Chosen
    PROVE  req.alias \in DOMAIN setting.routes
  BY DEF Chosen, Resolved, ResolveTargets

\* lowest_cost
LEMMA LowestCostBest ==
    ASSUME Chosen, Strategy = "lowest_cost"
    PROVE  /\ targets \in Seq(UsableTargets) /\ ToSet(targets) \subseteq UsableTargets
           /\ Affordable # {} => /\ targets[1] \in Affordable
                                 /\ \A t \in Affordable : CostFor(targets[1]) =< CostFor(t)
           /\ Affordable = {} => \A t \in UsableTargets : targets[1].priority =< t.priority
  <1> DEFINE r == setting.routes[req.alias]
             cat == setting.catalogue
             U == UsableTargets
             A == Affordable
  <1>1. req.alias \in DOMAIN setting.routes
    BY ChosenRoute
  <1>2. /\ RouteTargetsOK(r.targets) /\ RequestOK(req)
        /\ \A t \in r.targets : ModelOK(cat.models[t.model])
    BY <1>1, RouteTyped DEF Chosen
  <1>3. U \in SUBSET r.targets /\ A \in SUBSET U
    BY DEF UsableTargets, Affordable
  <1>4. targets = resolveLowestCostTargets(cat, r, U, req)
    BY <1>1 DEF Chosen, Resolved, ResolveTargets, Strategy, UsableTargets
  <1>5. targets = CASE A # {} -> sortLowestCostTargets(cat, A, req)
                    [] A = {} /\ r.toPriority -> sortByPriority(U)
                    [] OTHER -> <<>>
    BY <1>4 DEF resolveLowestCostTargets, Affordable, CostFor
  <1> HIDE DEF U, A, r
  <1>6. CASE A # {}
    <2> DEFINE q == sortLowestCostTargets(cat, A, req)
    <2>1. targets = q
      BY <1>5, <1>6
    <2>2. /\ q \in Seq(A) /\ ToSet(q) = A /\ q # <<>> /\ 1 \in DOMAIN q
          /\ \A t \in A : estimatedCostMicroUSD(cat.models[q[1].model], req)
                            =< estimatedCostMicroUSD(cat.models[t.model], req)
      BY <1>2, <1>3, <1>6, CostSorted
    <2> HIDE DEF q
    <2>3. q \in Seq(U)
      BY <1>3, <2>2
    <2>4. q[1] \in A
      BY <2>2 DEF ToSet
    <2>5. \A t \in A : CostFor(q[1]) =< CostFor(t)
      BY <2>2 DEF CostFor
    <2>6. QED
      BY <1>3, <1>6, <2>1, <2>2, <2>3, <2>4, <2>5 DEF U, A
  <1>7. CASE A = {}
    <2> DEFINE q == sortByPriority(U)
    <2>1. targets = q
      BY <1>5, <1>7 DEF Chosen
    <2>2. /\ q \in Seq(U) /\ ToSet(q) = U
          /\ U # {} => q # <<>> /\ 1 \in DOMAIN q /\ \A t \in U : q[1].priority =< t.priority
      BY <1>2, <1>3, PrioritySorted
    <2> HIDE DEF q
    <2>3. QED
      BY <1>7, <2>1, <2>2 DEF U, A
  <1>8. QED
    BY <1>6, <1>7

\* lowest_latency
LEMMA LowestLatencyBest ==
    ASSUME Chosen, Strategy = "lowest_latency"
    PROVE  /\ targets \in Seq(UsableTargets) /\ ToSet(targets) \subseteq UsableTargets
           /\ \A t \in UsableTargets : \A b \in stats[t.model] : \E a \in stats[targets[1].model] :
                 a[1] < b[1] \/ (a[1] = b[1] /\ a[2] =< b[2])
  <1> DEFINE r == setting.routes[req.alias]
             U == UsableTargets
             q == sortLatencyTargets(U, stats)
  <1>1. req.alias \in DOMAIN setting.routes
    BY ChosenRoute
  <1>2. RouteTargetsOK(r.targets) /\ \A t \in r.targets : t.model \in DOMAIN setting.catalogue.models
    BY <1>1, RouteTyped DEF Chosen
  <1>3. U \in SUBSET r.targets
    BY DEF UsableTargets
  <1>4. stats \in [DOMAIN setting.catalogue.models -> LatencyStats]
    BY <1>1 DEF Chosen, StatsRead
  <1>5. \A t \in U : IsOptional(stats[t.model], Nat \X Nat)
    <2>1. \A t \in U : stats[t.model] \in LatencyStats
      BY <1>2, <1>3, <1>4
    <2>2. QED
      BY <2>1, SettingAssumption
  <1>6. targets = q
    BY <1>1 DEF Chosen, Resolved, ResolveTargets, Strategy, UsableTargets
  <1> HIDE DEF U
  <1>7. /\ q \in Seq(U) /\ ToSet(q) = U
        /\ U # {} => \A t \in U : \A b \in stats[t.model] : \E a \in stats[q[1].model] :
                         a[1] < b[1] \/ (a[1] = b[1] /\ a[2] =< b[2])
    BY <1>2, <1>3, <1>5, LatencySorted
  <1> HIDE DEF q
  <1>8. QED
    BY <1>6, <1>7 DEF U

\* single and fallback
LEMMA InOrderBest ==
    ASSUME Chosen, Strategy # "lowest_cost", Strategy # "lowest_latency"
    PROVE  /\ targets \in Seq(UsableTargets) /\ ToSet(targets) \subseteq UsableTargets
           /\ ToSet(targets) = setting.routes[req.alias].targets
           /\ \A t \in UsableTargets : targets[1].priority =< t.priority
  <1> DEFINE r == setting.routes[req.alias]
             U == UsableTargets
             q == sortByPriority(U)
  <1>1. req.alias \in DOMAIN setting.routes
    BY ChosenRoute
  <1>2. RouteTargetsOK(r.targets)
    BY <1>1, RouteTyped DEF Chosen
  <1>3. U \in SUBSET r.targets
    BY DEF UsableTargets
  <1>4. targets = IF U = r.targets THEN q ELSE <<>>
    BY <1>1 DEF Chosen, Resolved, ResolveTargets, Strategy, UsableTargets
  <1>5. targets = q /\ U = r.targets
    BY <1>4 DEF Chosen
  <1> HIDE DEF U
  <1>6. /\ q \in Seq(U) /\ ToSet(q) = U
        /\ U # {} => \A t \in U : q[1].priority =< t.priority
    BY <1>2, <1>3, PrioritySorted
  <1> HIDE DEF q
  <1>7. QED
    BY <1>5, <1>6 DEF U

\* ResolveTargets returns what RouteBest says.
LEMMA ChosenBest ==
    ASSUME Chosen
    PROVE  /\ RouteBest
           /\ targets \in Seq(UsableTargets)
           /\ \A t \in UsableTargets : ModelOK(setting.catalogue.models[t.model])
  <1>1. \A t \in UsableTargets : ModelOK(setting.catalogue.models[t.model])
    BY ChosenRoute, RouteTyped DEF Chosen, UsableTargets
  <1>2. CASE Strategy = "lowest_cost"
    <2>1. RouteBest
      BY <1>2, LowestCostBest DEF RouteBest
    <2>2. QED
      BY <1>1, <1>2, <2>1, LowestCostBest
  <1>3. CASE Strategy = "lowest_latency"
    <2>1. RouteBest
      BY <1>3, LowestLatencyBest DEF RouteBest
    <2>2. QED
      BY <1>1, <1>3, <2>1, LowestLatencyBest
  <1>4. CASE Strategy # "lowest_cost" /\ Strategy # "lowest_latency"
    <2>1. RouteBest
      BY <1>4, InOrderBest DEF RouteBest
    <2>2. QED
      BY <1>1, <1>4, <2>1, InOrderBest
  <1>5. QED
    BY <1>2, <1>3, <1>4

-----------------------------------------------------------------------------
(* The inductive invariant of a call                                       *)

Codes == {"", "provider_unavailable", "provider_timeout", "provider_error", "usage_missing"}
Attempt == [target: Nat, result: {"error", "success"}, code: Codes, retryable: BOOLEAN, count: Nat]

\* How many requests the current target has been sent, in each phase of its loop.
SentFits ==
    /\ phase = "config" => attempt = 0 /\ sent[index] = 0
    /\ phase = "send" => attempt \in 1 .. MaxAttempts /\ sent[index] = attempt - 1
    /\ phase = "wait" => attempt \in 1 .. MaxAttempts /\ sent[index] = attempt
    /\ phase = "backoff" => attempt \in 1 .. MaxRetries /\ sent[index] = attempt

Outage == {"provider_unavailable", "provider_timeout"}

\* A target given up with a retryable error has had all the requests it could get; the
\* targets before the current one were, and all of them before an outage is reported.
Spent ==
    \A n \in DOMAIN attempts :
        attempts[n].retryable => n \in unusable \/ cancelled \/ sent[n] = MaxRetries + 1
GivenUp ==
    phase # "done" \/ code \in Outage => \A n \in DOMAIN attempts : attempts[n].retryable
UsedUp ==
    phase = "done" /\ code \in Outage /\ fallback => Len(attempts) = Len(targets)

\* A call that is trying its targets has an entry for each it has given up, has not
\* turned to those behind, and has had no answer before it is done.
LoopInv ==
    /\ index \in DOMAIN targets /\ cancelled \in BOOLEAN
    /\ attempts \in Seq(Attempt)
    /\ Len(attempts) = IF phase = "done" THEN index ELSE index - 1
    /\ sent \in [DOMAIN targets -> Nat]
    /\ \A n \in DOMAIN targets : n > index => sent[n] = 0
    /\ SentFits
    /\ phase # "done" => answered = 0
    /\ OneAnswer /\ AttemptsAccount
    /\ Spent /\ GivenUp /\ UsedUp

DispatchInv ==
    /\ setting \in Settings /\ RequestOK(req)
    /\ phase \in {"idle", "screen", "route", "reserve"} \cup AttemptPhases
    /\ phase \in {"idle", "screen", "route"} => targets = <<>>
    /\ phase \notin AttemptPhases => NoAttempts
    /\ phase \in {"reserve"} \cup AttemptPhases => Chosen
    /\ phase \in AttemptPhases => LoopInv

\* Error e has these fields.
ErrorIs(e, c, r, x) == e.code = c /\ e.retryable = r /\ e.cancelled = x

\* The errors, one by one.
LEMMA ErrorFields ==
    /\ ErrorIs(Errors["no_adapter"], "provider_unavailable", FALSE, FALSE)
    /\ ErrorIs(Errors["no_config"], "", FALSE, FALSE)
    /\ ErrorIs(Errors["timeout"], "provider_timeout", FALSE, FALSE)
    /\ ErrorIs(Errors["connection"], "provider_unavailable", FALSE, FALSE)
    /\ ErrorIs(Errors["left"], "provider_unavailable", FALSE, TRUE)
    /\ ErrorIs(Errors["status_5xx"], "provider_unavailable", TRUE, FALSE)
    /\ ErrorIs(Errors["status_429"], "provider_error", TRUE, FALSE)
    /\ ErrorIs(Errors["status_4xx"], "provider_error", FALSE, FALSE)
    /\ ErrorIs(Errors["bad_body"], "provider_error", FALSE, FALSE)
    /\ ErrorIs(Errors["no_usage"], "usage_missing", FALSE, FALSE)
    /\ ErrorIs(Errors["backoff_cut"], "", FALSE, TRUE)
  BY DEF Errors, ErrorIs

\* The errors a call of a target ends with: a cancelled call and an answer of no use
\* are not retried, and the latter is not taken to another target; what counts as an
\* outage is retried, and so is all that another target may be asked after.
LEMMA ErrorTyped ==
    ASSUME NEW why \in {"no_adapter", "no_config", "backoff_cut", "left"} \cup Replies,
           NEW e, e = Errors[why]
    PROVE  /\ providerErrorStatus(e) \in Codes /\ fallbackRetryable(e) \in BOOLEAN
           /\ why = "left" => ~ ShouldRetry(e)
           /\ why \in Answers => /\ ~ ShouldRetry(e) /\ ~ fallbackRetryable(e)
                                 /\ providerErrorStatus(e) \in {"provider_error", "usage_missing"}
           /\ providerErrorStatus(e) \in Outage => fallbackRetryable(e)
           /\ why \in Replies /\ fallbackRetryable(e) => ShouldRetry(e)
  <1>1. e.code \in Codes /\ e.retryable \in BOOLEAN /\ e.cancelled \in BOOLEAN
    BY ZenonT(30), ErrorFields DEF ErrorIs, Codes, Replies, Answers
  <1>2. why = "left" => e.cancelled
    BY ErrorFields DEF ErrorIs
  <1>3. why \in Answers => ~ e.retryable /\ e.code \in {"provider_error", "usage_missing"}
    BY ErrorFields DEF ErrorIs, Answers
  <1>4. providerErrorStatus(e) \in Codes
    BY <1>1 DEF providerErrorStatus, Codes
  <1>5. fallbackRetryable(e) \in BOOLEAN
    BY <1>1 DEF Transient, fallbackRetryable
  <1>6. why = "left" => ~ ShouldRetry(e)
    BY <1>2 DEF ShouldRetry
  <1>7. why \in Answers => /\ ~ ShouldRetry(e) /\ ~ fallbackRetryable(e)
                           /\ providerErrorStatus(e) \in {"provider_error", "usage_missing"}
    BY <1>3 DEF Transient, ShouldRetry, fallbackRetryable, providerErrorStatus
  <1>8. providerErrorStatus(e) \in Outage => fallbackRetryable(e)
    BY DEF Transient, fallbackRetryable, providerErrorStatus, Outage
  <1>9. why \in Replies => ~ e.cancelled
    BY ErrorFields DEF ErrorIs, Replies, Answers
  <1>10. why \in Replies /\ fallbackRetryable(e) => ShouldRetry(e)
    BY <1>9 DEF ShouldRetry, fallbackRetryable
  <1>11. QED
    BY <1>4, <1>5, <1>6, <1>7, <1>8, <1>10

\* The targets are a sequence of targets.
TargetsFit ==
    /\ DOMAIN targets = 1 .. Len(targets) /\ Len(targets) \in Nat
    /\ \A n \in DOMAIN targets : targets[n].id \in Nat

\* An entry more in the request log.
LEMMA EntryAdded ==
    ASSUME LoopInv, phase # "done", TargetsFit,
           NEW a \in Attempt, attempts' = Append(attempts, a), a.target = targets[index].id,
           UNCHANGED <<targets, sent>>, unusable \subseteq unusable', cancelled => cancelled',
           sent[index] =< a.count, a.count =< MaxRetries + 1,
           sent[index] < a.count => index \in unusable' \/ cancelled',
           a.retryable => index \in unusable' \/ cancelled' \/ sent[index] = MaxRetries + 1
    PROVE  /\ attempts' \in Seq(Attempt) /\ Len(attempts') = index
           /\ AttemptsAccount' /\ Spent'
           /\ a.retryable => \A n \in DOMAIN attempts' : attempts'[n].retryable
  <1>1. Len(attempts) = index - 1 /\ attempts \in Seq(Attempt) /\ index \in 1 .. Len(targets) /\ index \in Nat
    BY DEF LoopInv, TargetsFit
  <1>2. /\ attempts' \in Seq(Attempt) /\ Len(attempts') = Len(attempts) + 1
        /\ \A n \in 1 .. Len(attempts) : attempts'[n] = attempts[n]
        /\ attempts'[Len(attempts) + 1] = a
    BY <1>1, AppendProperties
  <1>3. DOMAIN attempts = 1 .. index - 1 /\ DOMAIN attempts' = 1 .. index
    BY <1>1, <1>2, LenProperties
  <1>4. \A n \in DOMAIN attempts' : (n = index /\ attempts'[n] = a) \/ (n \in DOMAIN attempts /\ attempts'[n] = attempts[n])
    BY <1>1, <1>2, <1>3
  <1>5. \A n \in DOMAIN attempts :
          /\ attempts[n].target = targets[n].id
          /\ sent[n] =< attempts[n].count /\ attempts[n].count =< MaxRetries + 1
          /\ sent[n] < attempts[n].count => n \in unusable \/ cancelled
    BY DEF LoopInv, AttemptsAccount
  <1>6. ASSUME NEW n \in DOMAIN attempts'
        PROVE  /\ attempts'[n].target = targets'[n].id
               /\ sent'[n] =< attempts'[n].count /\ attempts'[n].count =< MaxRetries + 1
               /\ sent'[n] < attempts'[n].count => n \in unusable' \/ cancelled'
    BY <1>4, <1>5
  <1>7. AttemptsAccount'
    BY <1>6 DEF AttemptsAccount
  <1>8. \A n \in DOMAIN attempts :
          /\ attempts[n].retryable
          /\ n \in unusable \/ cancelled \/ sent[n] = MaxRetries + 1
    BY DEF LoopInv, Spent, GivenUp
  <1>9. Spent'
    <2> SUFFICES ASSUME NEW n \in DOMAIN attempts', attempts'[n].retryable
                 PROVE  n \in unusable' \/ cancelled' \/ sent'[n] = MaxRetries + 1
      BY DEF Spent
    <2>1. QED
      BY <1>4, <1>8
  <1>10. a.retryable => \A n \in DOMAIN attempts' : attempts'[n].retryable
    BY <1>4, <1>8
  <1>11. QED
    BY <1>1, <1>2, <1>7, <1>9, <1>10

\* The current target is given up.
LEMMA TargetFailsStep ==
    ASSUME LoopInv, phase # "done", TargetsFit,
           NEW own \in Codes, NEW e, NEW retryable \in BOOLEAN, NEW n \in Nat,
           TargetFails(own, e, retryable, n), UNCHANGED <<targets, fallback, cancelled, sent>>,
           unusable \subseteq unusable', sent[index] =< n, n =< MaxRetries + 1,
           sent[index] < n => index \in unusable' \/ cancelled,
           retryable => index \in unusable' \/ cancelled \/ sent[index] = MaxRetries + 1,
           own \in Outage \/ fallbackRetryable(e) => retryable,
           \/ answered' = 0
           \/ /\ answered' = 1 /\ ~ retryable /\ ~ fallbackRetryable(e)
              /\ own \in {"provider_error", "usage_missing"}
    PROVE  LoopInv' /\ phase' \in AttemptPhases
  <1> DEFINE a == [target |-> targets[index].id, result |-> "error", code |-> own,
                   retryable |-> retryable, count |-> n]
  <1>1. attempts' = Append(attempts, a) /\ attempt' = 0
    BY DEF TargetFails
  <1>2. index \in DOMAIN targets /\ index \in Nat /\ cancelled \in BOOLEAN /\ sent \in [DOMAIN targets -> Nat]
        /\ \A k \in DOMAIN targets : k > index => sent[k] = 0
    BY DEF LoopInv, TargetsFit
  <1>3. a \in Attempt /\ a.target = targets[index].id /\ a.count = n /\ a.retryable = retryable
    BY <1>2 DEF Attempt, TargetsFit
  <1> HIDE DEF a
  <1>4. /\ attempts' \in Seq(Attempt) /\ Len(attempts') = index /\ AttemptsAccount' /\ Spent'
        /\ retryable => \A k \in DOMAIN attempts' : attempts'[k].retryable
    BY <1>1, <1>3, EntryAdded
  <1>5. CASE shouldTryNextFallbackTarget(retryable)
    <2>1. index' = index + 1 /\ phase' = "config" /\ retryable /\ index < Len(targets)
      BY <1>5 DEF TargetFails, shouldTryNextFallbackTarget
    <2>2. index' \in DOMAIN targets /\ index' > index
      BY <1>2, <2>1 DEF TargetsFit
    <2>3. sent[index'] = 0 /\ \A k \in DOMAIN targets : k > index' => sent[k] = 0
      BY <1>2, <2>1, <2>2 DEF TargetsFit
    <2>4. answered' = 0
      BY <2>1
    <2>5. Len(attempts') = index' - 1
      BY <1>2, <1>4, <2>1
    <2>6. SentFits'
      BY <1>1, <2>1, <2>3 DEF SentFits
    <2>7. OneAnswer'
      BY <2>4 DEF OneAnswer
    <2>8. GivenUp' /\ UsedUp'
      BY <1>4, <2>1 DEF GivenUp, UsedUp
    <2>9. QED
      BY <1>2, <1>4, <2>1, <2>2, <2>3, <2>4, <2>5, <2>6, <2>7, <2>8 DEF LoopInv, AttemptPhases
  <1>6. CASE ~ shouldTryNextFallbackTarget(retryable)
    <2>1. phase' = "done" /\ code' = FinalCode(own, e) /\ index' = index
      BY <1>6 DEF TargetFails
    <2>2. answered' = 1 => code' \notin {"provider_unavailable", "provider_timeout"}
      BY <2>1 DEF FinalCode
    <2>3. OneAnswer'
      BY <2>1, <2>2 DEF OneAnswer
    <2>4. SentFits'
      BY <2>1 DEF SentFits
    <2>5. code' \in Outage => retryable
      BY <2>1 DEF FinalCode
    <2>6. GivenUp'
      BY <1>4, <2>1, <2>5 DEF GivenUp
    <2>7. UsedUp'
      <3>1. fallback /\ retryable => index = Len(targets)
        BY <1>2, <1>6 DEF shouldTryNextFallbackTarget, TargetsFit
      <3>2. QED
        BY <1>4, <2>5, <3>1 DEF UsedUp
    <2>8. QED
      BY <1>2, <1>4, <2>1, <2>3, <2>4, <2>6, <2>7 DEF LoopInv, AttemptPhases
  <1>7. QED
    BY <1>5, <1>6

\* The loop goes on with the same target: the log has no new entry.
LEMMA SameTarget ==
    ASSUME LoopInv, phase # "done", TargetsFit, phase' # "done", SentFits',
           UNCHANGED <<targets, index, attempts, unusable, answered>>,
           cancelled' \in BOOLEAN, cancelled => cancelled',
           sent' \in [DOMAIN targets -> Nat],
           \A k \in DOMAIN targets : k # index => sent'[k] = sent[k]
    PROVE  LoopInv'
  <1>1. /\ index \in 1 .. Len(targets) /\ attempts \in Seq(Attempt) /\ Len(attempts) = index - 1
        /\ answered = 0 /\ \A k \in DOMAIN targets : k > index => sent[k] = 0
    BY DEF LoopInv, TargetsFit
  <1>2. DOMAIN attempts = 1 .. index - 1
    BY <1>1, LenProperties
  <1>3. \A k \in DOMAIN attempts : k \in DOMAIN targets /\ k # index
    BY <1>1, <1>2 DEF TargetsFit
  <1>4. \A k \in DOMAIN attempts : sent'[k] = sent[k]
    BY <1>3
  <1>5. AttemptsAccount'
    BY <1>4 DEF LoopInv, AttemptsAccount
  <1>6. OneAnswer'
    BY <1>1 DEF OneAnswer
  <1>7. \A k \in DOMAIN targets : k > index => sent'[k] = 0
    BY <1>1 DEF TargetsFit
  <1>8. index \in DOMAIN targets /\ Len(attempts) = index - 1
    BY <1>1 DEF TargetsFit
  <1>9. Spent' /\ GivenUp' /\ UsedUp'
    BY <1>4 DEF LoopInv, Spent, GivenUp, UsedUp
  <1>10. QED
    BY <1>1, <1>5, <1>6, <1>7, <1>8, <1>9 DEF LoopInv

\* adapter.Chat has returned an error.
LEMMA CallFailsStep ==
    ASSUME LoopInv, phase \in {"send", "wait"}, TargetsFit,
           NEW why \in Replies \cup {"left"}, CallFails(Errors[why]),
           phase = "send" => why = "left", why = "left" => cancelled,
           answered' = IF why \in Answers THEN answered + 1 ELSE answered,
           UNCHANGED <<targets, fallback, cancelled, unusable, sent>>
    PROVE  LoopInv' /\ phase' \in AttemptPhases
  <1> DEFINE e == Errors[why]
  <1>1. /\ providerErrorStatus(e) \in Codes /\ fallbackRetryable(e) \in BOOLEAN
        /\ why = "left" => ~ ShouldRetry(e)
        /\ why \in Answers => /\ ~ ShouldRetry(e) /\ ~ fallbackRetryable(e)
                              /\ providerErrorStatus(e) \in {"provider_error", "usage_missing"}
        /\ providerErrorStatus(e) \in Outage => fallbackRetryable(e)
        /\ why \in Replies /\ fallbackRetryable(e) => ShouldRetry(e)
    BY ErrorTyped
  <1>2. /\ attempt \in 1 .. MaxRetries + 1 /\ attempt \in Nat /\ answered = 0 /\ cancelled \in BOOLEAN
        /\ phase = "send" => sent[index] = attempt - 1
        /\ phase = "wait" => sent[index] = attempt
        /\ sent \in [DOMAIN targets -> Nat]
    BY AttemptAssumption DEF LoopInv, SentFits, MaxAttempts
  <1>3. /\ sent[index] =< attempt /\ attempt =< MaxRetries + 1
        /\ sent[index] < attempt => cancelled
    BY <1>2, AttemptAssumption
  <1>4. CASE attempt = MaxAttempts \/ ~ ShouldRetry(e)
    <2>1. TargetFails(providerErrorStatus(e), e, fallbackRetryable(e), attempt)
      BY <1>4 DEF CallFails
    <2>2. \/ answered' = 0
          \/ /\ answered' = 1 /\ ~ fallbackRetryable(e)
             /\ providerErrorStatus(e) \in {"provider_error", "usage_missing"}
      BY <1>1, <1>2
    <2>3. fallbackRetryable(e) => cancelled \/ sent[index] = MaxRetries + 1
      BY <1>1, <1>2, <1>4 DEF MaxAttempts
    <2> HIDE DEF e
    <2>4. phase # "done"
      OBVIOUS
    <2>5. QED
      BY <1>1, <1>2, <1>3, <2>1, <2>2, <2>3, <2>4, TargetFailsStep
  <1>5. CASE ~ (attempt = MaxAttempts \/ ~ ShouldRetry(e))
    <2>1. phase' = "backoff" /\ UNCHANGED <<index, attempt, attempts, code>>
      BY <1>5 DEF CallFails
    <2>2. phase = "wait" /\ answered' = answered
      BY <1>1, <1>5
    <2>3. attempt \in 1 .. MaxRetries
      BY <1>2, <1>5, AttemptAssumption DEF MaxAttempts
    <2>4. SentFits'
      BY <1>2, <2>1, <2>2, <2>3 DEF SentFits
    <2>5. LoopInv'
      BY <1>2, <2>1, <2>2, <2>4, SameTarget
    <2>6. QED
      BY <2>1, <2>5 DEF AttemptPhases
  <1>6. QED
    BY <1>4, <1>5

\* What a call does while it tries its targets, and the client, keep the invariant.
LEMMA LoopStep ==
    ASSUME LoopInv, phase \in AttemptPhases, TargetsFit, AttemptStep \/ ClientLeaves
    PROVE  LoopInv' /\ phase' \in AttemptPhases
  <1>1. /\ index \in DOMAIN targets /\ index \in Nat /\ cancelled \in BOOLEAN
        /\ sent \in [DOMAIN targets -> Nat]
        /\ phase # "done" => answered = 0
    BY DEF LoopInv, TargetsFit
  <1>2. CASE Configure
    <2>1. SentFits'
      BY <1>2, AttemptAssumption DEF Configure, LoopInv, SentFits, MaxAttempts
    <2>2. LoopInv'
      BY <1>1, <1>2, <2>1, SameTarget DEF Configure
    <2>3. QED
      BY <1>2, <2>2 DEF Configure, AttemptPhases
  <1>3. ASSUME NEW why \in {"no_adapter", "no_config"}, ConfigFails(why)
        PROVE  LoopInv' /\ phase' \in AttemptPhases
    <2>1. TargetFails("provider_unavailable", Errors[why], TRUE, 1) /\ "provider_unavailable" \in Codes
      BY <1>3 DEF ConfigFails, Codes
    <2>2. phase # "done" /\ sent[index] = 0 /\ answered' = 0
      BY <1>1, <1>3 DEF ConfigFails, LoopInv, SentFits
    <2>3. /\ unusable \subseteq unusable' /\ index \in unusable'
          /\ UNCHANGED <<targets, fallback, cancelled, sent>>
      BY <1>3 DEF ConfigFails
    <2>4. sent[index] =< 1 /\ 1 =< MaxRetries + 1
      BY <2>2, AttemptAssumption
    <2>5. QED
      BY <2>1, <2>2, <2>3, <2>4, TargetFailsStep
  <1>4. CASE Send
    <2>1. /\ sent' \in [DOMAIN targets -> Nat] /\ sent'[index] = sent[index] + 1
          /\ \A k \in DOMAIN targets : k # index => sent'[k] = sent[k]
      BY <1>1, <1>4 DEF Send
    <2>2. attempt \in 1 .. MaxAttempts /\ sent[index] = attempt - 1
      BY <1>4 DEF Send, LoopInv, SentFits
    <2>3. sent'[index] = attempt
      BY <2>1, <2>2, AttemptAssumption DEF MaxAttempts
    <2>4. SentFits'
      BY <1>4, <2>2, <2>3 DEF Send, SentFits
    <2>5. LoopInv'
      BY <1>1, <1>4, <2>1, <2>4, SameTarget DEF Send
    <2>6. QED
      BY <1>4, <2>5 DEF Send, AttemptPhases
  <1>5. CASE NotSent
    <2>1. "left" \in Replies \cup {"left"} /\ "left" \notin Answers
      BY DEF Answers
    <2>2. CallFails(Errors["left"]) /\ phase = "send" /\ cancelled
          /\ UNCHANGED <<targets, fallback, cancelled, unusable, sent, answered>>
      BY <1>5 DEF NotSent
    <2>3. QED
      BY <2>1, <2>2, CallFailsStep
  <1>6. CASE Completion
    <2> DEFINE a == [target |-> targets[index].id, result |-> "success", code |-> "",
                     retryable |-> FALSE, count |-> attempt]
    <2>0. attempts' = Append(attempts, a)
      BY <1>6 DEF Completion
    <2>1. /\ phase = "wait" /\ phase' = "done" /\ code' = "" /\ answered' = answered + 1
          /\ UNCHANGED <<targets, fallback, index, attempt, cancelled, unusable, sent>>
      BY <1>6 DEF Completion
    <2>2. attempt \in Nat /\ attempt =< MaxRetries + 1 /\ sent[index] = attempt
      <3>1. attempt \in 1 .. MaxAttempts /\ sent[index] = attempt
        BY <2>1 DEF LoopInv, SentFits
      <3>2. QED
        BY <3>1, AttemptAssumption DEF MaxAttempts
    <2>3. a \in Attempt /\ a.target = targets[index].id /\ a.count = attempt
          /\ ~ a.retryable
      BY <1>1, <2>2 DEF Attempt, Codes, TargetsFit
    <2> HIDE DEF a
    <2>4. attempts' \in Seq(Attempt) /\ Len(attempts') = index /\ AttemptsAccount' /\ Spent'
      <3>1. /\ sent[index] =< a.count /\ a.count =< MaxRetries + 1
            /\ ~ (sent[index] < a.count)
        BY <1>1, <2>2, <2>3
      <3>2. phase # "done"
        BY <2>1
      <3>3. QED
        BY <2>0, <2>1, <2>3, <3>1, <3>2, EntryAdded
    <2>5. OneAnswer'
      <3>1. answered = 0
        BY <2>1 DEF LoopInv
      <3>2. answered' = answered + 1
        BY <2>1
      <3>3. answered' = 1
        BY <3>1, <3>2
      <3>4. QED
        BY <2>1, <3>3 DEF OneAnswer
    <2>6. SentFits'
      BY <2>1 DEF SentFits
    <2>7. GivenUp' /\ UsedUp'
      BY <2>1 DEF GivenUp, UsedUp, Outage
    <2>8. QED
      BY <1>1, <2>1, <2>4, <2>5, <2>6, <2>7 DEF LoopInv, AttemptPhases
  <1>7. ASSUME NEW why \in Replies \cup {"left"}, NoCompletion(why)
        PROVE  LoopInv' /\ phase' \in AttemptPhases
    <2>1. /\ phase = "wait" /\ CallFails(Errors[why]) /\ (why = "left" => cancelled)
          /\ answered' = IF why \in Answers THEN answered + 1 ELSE answered
          /\ UNCHANGED <<targets, fallback, cancelled, unusable, sent>>
      BY <1>7 DEF NoCompletion, Replies, Answers
    <2>2. QED
      BY <2>1, CallFailsStep
  <1>8. CASE BackoffOver
    <2>1. attempt \in 1 .. MaxRetries /\ sent[index] = attempt
      BY <1>8 DEF BackoffOver, LoopInv, SentFits
    <2>2. attempt' = attempt + 1 /\ phase' = "send" /\ phase = "backoff"
      BY <1>8 DEF BackoffOver
    <2>3. attempt' \in 1 .. MaxAttempts /\ sent[index] = attempt' - 1
      BY <2>1, <2>2, AttemptAssumption DEF MaxAttempts
    <2>4. SentFits'
      BY <1>8, <2>2, <2>3 DEF BackoffOver, SentFits
    <2>5. LoopInv'
      BY <1>1, <1>8, <2>2, <2>4, SameTarget DEF BackoffOver
    <2>6. QED
      BY <2>2, <2>5 DEF AttemptPhases
  <1>9. CASE BackoffCut
    <2> DEFINE e == Errors["backoff_cut"]
    <2>1. /\ phase = "backoff" /\ TargetFails(providerErrorStatus(e), e, fallbackRetryable(e), attempt)
          /\ UNCHANGED <<targets, fallback, cancelled, unusable, sent, answered>>
      BY <1>9 DEF BackoffCut
    <2>c. cancelled
      BY <1>9 DEF BackoffCut
    <2>2. /\ providerErrorStatus(e) \in Codes /\ fallbackRetryable(e) \in BOOLEAN
          /\ providerErrorStatus(e) \in Outage => fallbackRetryable(e)
      BY ErrorTyped
    <2> HIDE DEF e
    <2>3. attempt \in 1 .. MaxRetries /\ sent[index] = attempt
      BY <2>1 DEF LoopInv, SentFits
    <2>4. attempt \in Nat /\ sent[index] =< attempt /\ attempt =< MaxRetries + 1 /\ ~ (sent[index] < attempt)
      BY <2>3, AttemptAssumption
    <2>5. answered' = 0 /\ phase # "done"
      BY <1>1, <2>1
    <2>6. QED
      BY <2>1, <2>c, <2>2, <2>4, <2>5, TargetFailsStep
  <1>10. CASE ClientLeaves
    <2>1. SentFits'
      BY <1>10 DEF ClientLeaves, LoopInv, SentFits
    <2>2. LoopInv'
      BY <1>1, <1>10, <2>1, SameTarget DEF ClientLeaves
    <2>3. QED
      BY <1>10, <2>2 DEF ClientLeaves
  <1>11. QED
    BY <1>2, <1>3, <1>4, <1>5, <1>6, <1>7, <1>8, <1>9, <1>10 DEF AttemptStep

-----------------------------------------------------------------------------
(* A call from its arrival to its end                                      *)

\* Resolved targets are rows of route_targets.
LEMMA ChosenFits ==
    ASSUME Chosen
    PROVE  TargetsFit /\ 1 \in DOMAIN targets
  <1>1. targets \in Seq(UsableTargets) /\ targets # <<>>
    BY ChosenBest DEF Chosen
  <1>2. DOMAIN targets = 1 .. Len(targets) /\ Len(targets) \in Nat /\ Len(targets) # 0
    BY <1>1, LenProperties, EmptySeq
  <1>3. \A n \in DOMAIN targets : targets[n] \in setting.routes[req.alias].targets
    <2>1. \A n \in DOMAIN targets : targets[n] \in UsableTargets
      BY <1>1
    <2>2. QED
      BY <2>1 DEF UsableTargets
  <1>4. RouteTargetsOK(setting.routes[req.alias].targets)
    BY ChosenRoute, RouteTyped DEF Chosen
  <1>5. QED
    BY <1>2, <1>3, <1>4 DEF TargetsFit, RouteTargetsOK

\* The choice stands while the request and its targets do.
LEMMA ChosenKept ==
    ASSUME Chosen, UNCHANGED <<setting, req, stats, targets>>
    PROVE  Chosen'
  BY DEF Chosen, Resolved, StatsRead, Strategy, NoStats

\* Every answer to the client ends the call.
LEMMA CallOver ==
    ASSUME DispatchInv, EndCall
    PROVE  DispatchInv'
  <1>1. RequestOK(NoRequest)
    BY DEF RequestOK, NoRequest, IsOptional
  <1>2. NoAttempts'
    BY DEF EndCall, EndAttempts, NoAttempts
  <1>3. /\ setting' = setting /\ req' = NoRequest /\ phase' = "idle" /\ targets' = <<>>
    BY DEF EndCall
  <1>4. RequestOK(req')
    BY <1>1, <1>3
  <1>5. setting' \in Settings
    BY <1>3 DEF DispatchInv
  <1>6. QED
    BY <1>2, <1>3, <1>4, <1>5 DEF DispatchInv, AttemptPhases

\* Steps before the targets are tried.
LEMMA NotTrying ==
    ASSUME DispatchInv, phase \in {"idle", "screen", "route"}, setting' = setting,
           UNCHANGED <<index, attempt, cancelled, attempts, code, unusable, sent, answered>>
    PROVE  setting' \in Settings /\ NoAttempts' /\ targets = <<>>
  <1>1. phase \notin AttemptPhases
    BY DEF AttemptPhases
  <1>2. NoAttempts /\ setting \in Settings /\ targets = <<>>
    BY <1>1 DEF DispatchInv
  <1>3. NoAttempts'
    BY <1>2 DEF NoAttempts
  <1>4. QED
    BY <1>2, <1>3

\* A call begins, and passes the rules.
LEMMA BeforeRoute ==
    ASSUME DispatchInv,
           (\E r \in setting.requests : Arrive(r)) \/ Pass
    PROVE  DispatchInv'
  <1>1. CASE \E r \in setting.requests : Arrive(r)
    <2>1. PICK r \in setting.requests : Arrive(r)
      BY <1>1
    <2>2. RequestOK(r)
      BY SettingAssumption DEF DispatchInv
    <2>3. /\ phase = "idle" /\ phase' = "screen" /\ req' = r
          /\ UNCHANGED <<setting, targets, index, attempt, cancelled, attempts, code, unusable, sent, answered>>
      BY <2>1 DEF Arrive, MayArrive, Step
    <2>4. setting' \in Settings /\ NoAttempts' /\ targets = <<>>
      BY <2>3, NotTrying
    <2>5. RequestOK(req')
      BY <2>2, <2>3
    <2>6. QED
      BY <2>3, <2>4, <2>5 DEF DispatchInv, AttemptPhases
  <1>2. CASE Pass
    <2>1. /\ phase = "screen" /\ phase' = "route" /\ req' = [req EXCEPT !.alias = Decision.model]
          /\ UNCHANGED <<setting, targets, index, attempt, cancelled, attempts, code, unusable, sent, answered>>
      BY <1>2 DEF Pass, Step
    <2>2. setting' \in Settings /\ NoAttempts' /\ targets = <<>>
      BY <2>1, NotTrying
    <2>3. RequestOK(req')
      BY <2>1 DEF DispatchInv, RequestOK
    <2>4. QED
      BY <2>1, <2>2, <2>3 DEF DispatchInv, AttemptPhases
  <1>3. QED
    BY <1>1, <1>2

\* The router answers.
LEMMA RouteStep ==
    ASSUME DispatchInv, NEW st \in StatsRead, Route(st)
    PROVE  DispatchInv'
  <1>1. /\ phase = "route" /\ phase' = "reserve" /\ Resolved(st) # <<>> /\ targets' = Resolved(st)
        /\ stats' = st /\ setting' = setting /\ req' = req
        /\ UNCHANGED <<index, attempt, cancelled, attempts, code, unusable, sent, answered>>
    BY DEF Route, Step
  <1>2. setting' \in Settings /\ NoAttempts'
    BY <1>1, NotTrying
  <1>3. RequestOK(req')
    BY <1>1 DEF DispatchInv
  <1>4. StatsRead' = StatsRead /\ Resolved(st)' = Resolved(st)
    BY <1>1 DEF StatsRead, Strategy, NoStats, Resolved
  <1>5. Chosen'
    BY <1>1, <1>2, <1>3, <1>4 DEF Chosen, Resolved, StatsRead, Strategy, NoStats
  <1>6. QED
    BY <1>1, <1>2, <1>3, <1>5 DEF DispatchInv, AttemptPhases

\* The reservation is made, and the loop begins.
LEMMA ReserveStep ==
    ASSUME DispatchInv, Reserve
    PROVE  DispatchInv'
  <1>1. /\ phase = "reserve" /\ phase' = "config"
        /\ sent' = [n \in DOMAIN targets |-> 0]
        /\ UNCHANGED <<setting, req, stats, targets, fallback, index, attempt, cancelled, attempts, code,
                       unusable, answered>>
    BY DEF Reserve, BeginAttempts
  <1>2. Chosen /\ NoAttempts /\ setting \in Settings /\ RequestOK(req)
    BY <1>1 DEF DispatchInv, AttemptPhases
  <1>3. Chosen'
    BY <1>1, <1>2, ChosenKept
  <1>4. DOMAIN targets = 1 .. Len(targets) /\ Len(targets) \in Nat /\ 1 \in DOMAIN targets
    BY <1>2, ChosenFits DEF TargetsFit
  <1>5. /\ index' = 1 /\ attempt' = 0 /\ cancelled' = FALSE /\ attempts' = <<>> /\ answered' = 0
    BY <1>1, <1>2 DEF NoAttempts
  <1>6. attempts' \in Seq(Attempt) /\ Len(attempts') = 0 /\ DOMAIN attempts' = {}
    BY <1>5, EmptySeq
  <1>7. SentFits'
    BY <1>1, <1>4, <1>5 DEF SentFits
  <1>8. OneAnswer' /\ AttemptsAccount' /\ Spent' /\ GivenUp' /\ UsedUp'
    BY <1>1, <1>5, <1>6 DEF OneAnswer, AttemptsAccount, Spent, GivenUp, UsedUp
  <1>9. LoopInv'
    <2>1. /\ sent' \in [DOMAIN targets' -> Nat] /\ \A n \in DOMAIN targets' : sent'[n] = 0
      BY <1>1
    <2>2. index' \in DOMAIN targets' /\ cancelled' \in BOOLEAN
      BY <1>1, <1>4, <1>5
    <2>3. phase' # "done" /\ Len(attempts') = index' - 1 /\ answered' = 0
      BY <1>1, <1>5, <1>6
    <2>4. QED
      BY <1>6, <1>7, <1>8, <2>1, <2>2, <2>3 DEF LoopInv
  <1>10. setting' \in Settings /\ RequestOK(req')
    BY <1>1, <1>2
  <1>11. QED
    BY <1>1, <1>3, <1>9, <1>10 DEF DispatchInv, AttemptPhases

\* The targets are tried.
LEMMA TryingStep ==
    ASSUME DispatchInv, AttemptStep \/ ClientLeaves, UNCHANGED <<setting, req, stats>>
    PROVE  DispatchInv'
  <1>1. phase \in AttemptPhases /\ targets' = targets
    BY DEF AttemptStep, ClientLeaves, Configure, ConfigFails, Send, NotSent, Completion, NoCompletion,
           BackoffOver, BackoffCut, AttemptPhases
  <1>2. Chosen /\ LoopInv /\ setting \in Settings /\ RequestOK(req)
    BY <1>1 DEF DispatchInv
  <1>3. TargetsFit
    BY <1>2, ChosenFits
  <1>4. LoopInv' /\ phase' \in AttemptPhases
    BY <1>1, <1>2, <1>3, LoopStep
  <1>5. Chosen'
    BY <1>1, <1>2, ChosenKept
  <1>6. setting' \in Settings /\ RequestOK(req')
    BY <1>2
  <1>7. QED
    BY <1>4, <1>5, <1>6 DEF DispatchInv, AttemptPhases

\* Steps that are none of the call's own.
LEMMA Bystander ==
    ASSUME DispatchInv, UNCHANGED <<setting, req, stats, pvars>>
    PROVE  DispatchInv'
  <1>1. UNCHANGED <<setting, req, stats, targets, fallback, phase, index, attempt, cancelled, attempts,
                    code, unusable, sent, answered>>
    BY DEF pvars
  <1>2. CASE phase \notin AttemptPhases
    <2>1. NoAttempts'
      BY <1>1, <1>2 DEF DispatchInv, NoAttempts
    <2>2. phase = "reserve" => Chosen'
      BY <1>1, ChosenKept DEF DispatchInv
    <2>3. setting' \in Settings /\ RequestOK(req')
      BY <1>1 DEF DispatchInv
    <2>4. QED
      BY <1>1, <1>2, <2>1, <2>2, <2>3 DEF DispatchInv
  <1>3. CASE phase \in AttemptPhases
    <2>1. Chosen /\ LoopInv
      BY <1>3 DEF DispatchInv
    <2>2. Chosen'
      BY <1>1, <2>1, ChosenKept
    <2>3. LoopInv'
      BY <1>1, <2>1 DEF LoopInv, SentFits, OneAnswer, AttemptsAccount, Spent, GivenUp, UsedUp
    <2>4. setting' \in Settings /\ RequestOK(req')
      BY <1>1 DEF DispatchInv
    <2>5. QED
      BY <1>1, <1>3, <2>2, <2>3, <2>4 DEF DispatchInv, AttemptPhases
  <1>4. QED
    BY <1>2, <1>3

-----------------------------------------------------------------------------
(* Theorems                                                                *)

\* The invariant holds before the first request.
LEMMA DispatchBegins ==
    ASSUME DispatchInit
    PROVE  DispatchInv
  <1>1. RequestOK(NoRequest)
    BY DEF RequestOK, NoRequest, IsOptional
  <1>2. QED
    BY <1>1 DEF DispatchInit, DispatchInv, AttemptPhases

\* Every step keeps it: the requests of clients, the call in hand, its client, time.
LEMMA DispatchKept ==
    ASSUME DispatchInv, [DispatchNext]_dvars
    PROVE  DispatchInv'
  <1>1. ASSUME NEW r \in setting.requests, RefusedEarly(r)
        PROVE  DispatchInv'
    BY <1>1, Bystander DEF RefusedEarly
  <1>2. CASE (\E r \in setting.requests : Arrive(r)) \/ Pass
    BY <1>2, BeforeRoute
  <1>3. CASE Block \/ Cached \/ ReserveRefused \/ Finish \/ DatabaseFails
    <2>1. EndCall
      BY <1>3 DEF Block, Cached, ReserveRefused, Finish, DatabaseFails, Return
    <2>2. QED
      BY <2>1, CallOver
  <1>4. CASE Reserve
    BY <1>4, ReserveStep
  <1>5. ASSUME NEW st \in StatsRead, Route(st) \/ RouteNotFound(st)
        PROVE  DispatchInv'
    <2>1. CASE Route(st)
      BY <2>1, RouteStep
    <2>2. CASE RouteNotFound(st)
      BY <2>2, CallOver DEF RouteNotFound, Return
    <2>3. QED
      BY <1>5, <2>1, <2>2
  <1>6. CASE (AttemptStep \/ ClientLeaves) /\ UNCHANGED <<setting, log, minute, req, stats>>
    BY <1>6, TryingStep
  <1>7. CASE Tick
    BY <1>7, Bystander DEF Tick
  <1>8. CASE UNCHANGED dvars
    BY <1>8, Bystander DEF dvars
  <1>9. QED
    BY <1>1, <1>2, <1>3, <1>4, <1>5, <1>6, <1>7, <1>8 DEF DispatchNext, CallStep

\* The invariant of the dispatch of calls.
LEMMA DispatchInvariant == DispatchSpec => []DispatchInv
  <1>1. DispatchInit => DispatchInv
    BY DispatchBegins
  <1>2. DispatchInv /\ [DispatchNext]_dvars => DispatchInv'
    BY DispatchKept
  <1>3. QED
    BY <1>1, <1>2, PTL DEF DispatchSpec

\* No provider is asked again once one has answered, with or without a usable body: the
\* loop of chatProviderWithRetry and the fallback loop of Chat both stop there.
THEOREM AnswersAreFinal == DispatchSpec => []OneAnswer
  <1>1. DispatchInv => OneAnswer
    <2>1. CASE phase \in AttemptPhases
      BY <2>1 DEF DispatchInv, LoopInv
    <2>2. ASSUME DispatchInv, phase \notin AttemptPhases PROVE OneAnswer
      <3>1. answered = 0
        BY <2>2 DEF DispatchInv, NoAttempts
      <3>2. QED
        BY <3>1 DEF OneAnswer
    <2>3. QED
      BY <2>1, <2>2
  <1>2. QED
    BY <1>1, DispatchInvariant, PTL

\* provider_attempts of the request log accounts for the requests that went out, for
\* every number of targets and retries and whenever the client leaves.
THEOREM LogAccounts == DispatchSpec => []AttemptsAccount
  <1>1. DispatchInv => AttemptsAccount
    <2>1. CASE phase \in AttemptPhases
      BY <2>1 DEF DispatchInv, LoopInv
    <2>2. ASSUME DispatchInv, phase \notin AttemptPhases PROVE AttemptsAccount
      <3>1. attempts = <<>>
        BY <2>2 DEF DispatchInv, NoAttempts
      <3>2. DOMAIN attempts = {}
        BY <3>1
      <3>3. QED
        BY <3>2 DEF AttemptsAccount
    <2>3. QED
      BY <2>1, <2>2
  <1>2. QED
    BY <1>1, DispatchInvariant, PTL

\* The first target of a call is the one its route promises (ResolveTargets), for every
\* catalogue, route and answer of the statistics, until the call is over.
THEOREM BestRoute == DispatchSpec => []RouteBest
  <1>1. DispatchInv => RouteBest
    <2> SUFFICES ASSUME DispatchInv, targets # <<>> PROVE RouteBest
      BY DEF RouteBest
    <2>1. Chosen
      BY DEF DispatchInv
    <2>2. QED
      BY <2>1, ChosenBest
  <1>2. QED
    BY <1>1, DispatchInvariant, PTL

\* A client that stayed is told of an outage only after every target its route allows
\* was tried as often as the retry policy allows, for every number of targets and
\* retries and every mixture of errors.
THEOREM OutagesAreReal == DispatchSpec => []OutageIsReal
  <1>1. DispatchInv => OutageIsReal
    BY DEF DispatchInv, AttemptPhases, LoopInv, Spent, GivenUp, UsedUp, Outage, OutageIsReal
  <1>2. QED
    BY <1>1, DispatchInvariant, PTL
=============================================================================
