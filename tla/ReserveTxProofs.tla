--------------------------- MODULE ReserveTxProofs ---------------------------
(***************************************************************************)
(* Proofs about ReserveTx: transactions that are open at the same time,    *)
(* statement by statement, act like one step of CostLimits each, and those *)
(* that visit the counters in the fixed order never wait in a circle.      *)
(***************************************************************************)
EXTENDS ReserveTx, CostLimitsProofs, SequenceTheorems

-----------------------------------------------------------------------------
(* The inductive invariant                                                 *)

\* loadBlockingConstraints, from the limits B and the day d.
ConstraintsAt(B, d, k) ==
    { <<s, periodWindow(d, s[2])>> : s \in {t \in ({Org, k} \X Periods) : B[t] # {}} }

OpenRows(i) == {c \in CounterKeys : Outstanding(i, c)}

\* The counter n of c as the Reserve in transaction r found it; what it was seeded
\* with, if it was new, is in what r has staged.
Found(r, n, c) ==
    IF n.state = "present" THEN n
    ELSE [state |-> "present", settled |-> r.staged[c].settled, reserved |-> 0]
UsedThen(r, n, c) == Found(r, n, c).settled + Found(r, n, c).reserved
LeftThen(r, n, c) == Min(r.limits[c[1]]) - UsedThen(r, n, c)

\* What r has staged for c is right for the counter n as it is now.
Taken(r, n, c) ==
    /\ r.staged[c] = [Found(r, n, c) EXCEPT !.reserved = @ + r.hold[c]]
    /\ LeftThen(r, n, c) > 0
    /\ r.amount > LeftThen(r, n, c) => UsedThen(r, n, c) = 0
    /\ r.hold[c] = IF r.amount > LeftThen(r, n, c) THEN LeftThen(r, n, c) ELSE r.amount

\* A Reserve that is open: it has visited, or has still to visit, the counters of
\* the limits it has read, and nobody has touched the ones it has locked.
ReserveHolds(i) ==
    /\ tx[i].amount \in Estimates
    /\ tx[i].mine \cup ToSet(tx[i].todo) = ConstraintsAt(tx[i].limits, tx[i].now, KeyOf[i])
    /\ \A c \in tx[i].mine : Taken(tx[i], counter[c], c)

\* A SettleTx or ReleaseTx that is open.
CloseHolds(i) ==
    /\ tx[i].mine \cup ToSet(tx[i].todo) = OpenRows(i)
    /\ \A c \in tx[i].mine :
          tx[i].staged[c] = [state |-> counter[c].state,
                             settled |-> counter[c].settled + tx[i].amount,
                             reserved |-> Lowered(c, i)]
    /\ tx[i].phase = "settle" => tx[i].amount \in Costs /\ logs[i] = "none" /\ tx[i].now =< day
    /\ tx[i].phase = "release" => tx[i].amount = 0

\* The counters are visited in the order of their rank.
Sorted(r) == InOrder(r.todo) /\ \A c \in r.mine : \A n \in DOMAIN r.todo : Rank(c) < Rank(r.todo[n])

TxHolds(i) ==
    /\ IsFiniteSet(OpenRows(i))
    /\ tx[i].phase \in {"idle", "reserve"} => \A c \in CounterKeys : resv[i][c].status = "none"
    /\ tx[i].phase \notin {"reserve"} \cup Closing => tx[i].todo = <<>> /\ tx[i].mine = {}
    /\ tx[i].phase = "reserve" => ReserveHolds(i)
    /\ tx[i].phase \in Closing => CloseHolds(i)
    /\ tx[i].phase = "reserve" \/ (tx[i].phase \in Closing /\ ordered) => Sorted(tx[i])

\* No counter is locked twice.
LocksApart == \A i, j \in Ids : i # j => tx[i].mine \cap tx[j].mine = {}

TxInv == TxTypeOK /\ LocksApart /\ \A i \in Ids : TxHolds(i)

-----------------------------------------------------------------------------
(* Sequences of counters                                                   *)

\* A sequence of SetToSeqs(S) visits every member of S.
LEMMA SeqsCover ==
    ASSUME NEW S, IsFiniteSet(S), NEW q \in SetToSeqs(S)
    PROVE  q \in Seq(S) /\ ToSet(q) = S
  <1> DEFINE n == Cardinality(S)
             D == 1 .. n
  <1>1. n \in Nat /\ IsFiniteSet(D) /\ Cardinality(D) = n
    BY FS_CardinalityType, FS_Interval
  <1>2. q \in [D -> S] /\ \A a, b \in D : a # b => q[a] # q[b]
    BY DEF SetToSeqs
  <1>3. q \in Injection(D, S)
    BY <1>2 DEF Injection, IsInjective
  <1>4. q \in Surjection(D, S)
    BY <1>1, <1>3, FS_Injection
  <1>5. DOMAIN q = D /\ \A c \in S : \E a \in D : q[a] = c
    BY <1>2, <1>4 DEF Surjection
  <1>6. ToSet(q) = S
    BY <1>2, <1>5 DEF ToSet
  <1>7. q \in Seq(S)
    BY <1>1, <1>2
  <1>8. QED
    BY <1>6, <1>7

\* The head of a sequence and what its tail leaves.
LEMMA TailVisits ==
    ASSUME NEW q \in Seq(CounterKeys), q # <<>>
    PROVE  /\ Head(q) \in CounterKeys /\ Tail(q) \in Seq(CounterKeys)
           /\ ToSet(q) = {Head(q)} \cup ToSet(Tail(q))
           /\ Head(q) = q[1] /\ 1 \in DOMAIN q
           /\ \A a \in DOMAIN Tail(q) : a + 1 \in DOMAIN q /\ a \in Nat /\ Tail(q)[a] = q[a + 1] /\ a + 1 > 1
  <1>1. /\ Len(q) \in Nat /\ Len(q) > 0 /\ DOMAIN q = 1 .. Len(q)
        /\ q \in [1 .. Len(q) -> CounterKeys]
    BY EmptySeq, LenProperties
  <1>2. /\ Head(q) \in CounterKeys /\ Tail(q) \in Seq(CounterKeys) /\ Len(Tail(q)) = Len(q) - 1
        /\ \A a \in 1 .. Len(Tail(q)) : Tail(q)[a] = q[a + 1]
    BY HeadTailProperties
  <1>3. DOMAIN Tail(q) = 1 .. Len(q) - 1
    BY <1>2, LenProperties
  <1>4. Head(q) = q[1]
    OBVIOUS
  <1>5. \A a \in DOMAIN Tail(q) : a + 1 \in DOMAIN q /\ a \in Nat /\ Tail(q)[a] = q[a + 1] /\ a + 1 > 1
    BY <1>1, <1>2, <1>3
  <1>6. \A b \in DOMAIN q : b = 1 \/ (b - 1 \in DOMAIN Tail(q) /\ Tail(q)[b - 1] = q[b])
    BY <1>1, <1>2, <1>3
  <1>7. ToSet(q) = {Head(q)} \cup ToSet(Tail(q))
    <2>1. ASSUME NEW c \in ToSet(q) PROVE c = Head(q) \/ c \in ToSet(Tail(q))
      <3>1. PICK b \in DOMAIN q : c = q[b]
        BY <2>1 DEF ToSet
      <3>2. QED
        BY <3>1, <1>4, <1>6 DEF ToSet
    <2>2. ASSUME NEW c \in ToSet(Tail(q)) PROVE c \in ToSet(q)
      <3>1. PICK a \in DOMAIN Tail(q) : c = Tail(q)[a]
        BY <2>2 DEF ToSet
      <3>2. QED
        BY <3>1, <1>5 DEF ToSet
    <2>3. Head(q) \in ToSet(q)
      BY <1>1, <1>4 DEF ToSet
    <2>4. QED
      BY <2>1, <2>2, <2>3
  <1>8. QED
    BY <1>1, <1>2, <1>4, <1>5, <1>7

\* Counters have one of four ranks.
LEMMA RankTyped ==
    ASSUME NEW c
    PROVE  Rank(c) \in 0 .. 3
  BY DEF Rank

\* Once the head is taken, what is left is still sorted.
LEMMA TailSorted ==
    ASSUME NEW q \in Seq(CounterKeys), q # <<>>, NEW m \in SUBSET CounterKeys,
           InOrder(q), \A c \in m : \A n \in DOMAIN q : Rank(c) < Rank(q[n])
    PROVE  /\ InOrder(Tail(q))
           /\ \A c \in m \cup {Head(q)} : \A n \in DOMAIN Tail(q) : Rank(c) < Rank(Tail(q)[n])
  <1>1. /\ Head(q) = q[1] /\ 1 \in DOMAIN q
        /\ \A a \in DOMAIN Tail(q) : a + 1 \in DOMAIN q /\ a \in Nat /\ Tail(q)[a] = q[a + 1] /\ a + 1 > 1
    BY TailVisits
  <1>2. \A a, b \in DOMAIN q : a < b => Rank(q[a]) < Rank(q[b])
    BY DEF InOrder
  <1>3. ASSUME NEW a \in DOMAIN Tail(q), NEW b \in DOMAIN Tail(q), a < b
        PROVE  Rank(Tail(q)[a]) < Rank(Tail(q)[b])
    <2>1. a + 1 < b + 1
      BY <1>1, <1>3
    <2>2. QED
      BY <1>1, <1>2, <2>1
  <1>4. ASSUME NEW n \in DOMAIN Tail(q) PROVE Rank(Head(q)) < Rank(Tail(q)[n])
    BY <1>1, <1>2
  <1>5. ASSUME NEW c \in m, NEW n \in DOMAIN Tail(q) PROVE Rank(c) < Rank(Tail(q)[n])
    BY <1>1
  <1>6. InOrder(Tail(q))
    BY <1>3 DEF InOrder
  <1>7. QED
    BY <1>4, <1>5, <1>6

\* Limits are read for at most four counters.
LEMMA ConstraintsFinite ==
    ASSUME NEW B \in [Slots -> SUBSET Nat], NEW d \in Days, NEW k \in Keys
    PROVE  /\ IsFiniteSet(ConstraintsAt(B, d, k))
           /\ ConstraintsAt(B, d, k) \subseteq CounterKeys
           /\ \A c \in ConstraintsAt(B, d, k) : B[c[1]] # {}
  <1> DEFINE K == ConstraintsAt(B, d, k)
  <1>1. \A p \in Periods : periodWindow(d, p) \in Days
    BY DaysAssumption DEF periodWindow
  <1>2. \A c \in K : c \in CounterKeys /\ B[c[1]] # {} /\ c[1] \in {Org, k} \X Periods /\ c[2] = periodWindow(d, c[1][2])
    BY <1>1 DEF ConstraintsAt, CounterKeys, Slots, Periods
  <1> DEFINE W == {periodWindow(d, "daily"), periodWindow(d, "monthly")}
             T == ({Org, k} \X Periods) \X W
  <1>3. IsFiniteSet({Org, k}) /\ IsFiniteSet(Periods) /\ IsFiniteSet(W)
    <2>1. ASSUME NEW x, NEW y PROVE IsFiniteSet({x, y})
      <3>1. IsFiniteSet({x}) /\ {x, y} = {x} \cup {y}
        BY FS_Singleton
      <3>2. QED
        BY <3>1, FS_AddElement
    <2>2. QED
      BY <2>1 DEF Periods
  <1>4. IsFiniteSet(T)
    BY <1>3, FS_Product
  <1>5. ASSUME NEW c \in K PROVE c \in T
    <2>1. c \in CounterKeys /\ c[1] \in {Org, k} \X Periods /\ c[2] = periodWindow(d, c[1][2])
      BY <1>2
    <2>2. c[1][2] \in Periods
      BY <2>1
    <2>3. c[2] \in W
      BY <2>1, <2>2 DEF Periods
    <2>4. c = <<c[1], c[2]>>
      BY <2>1 DEF CounterKeys
    <2>5. QED
      BY <2>1, <2>3, <2>4
  <1>6. QED
    BY <1>2, <1>4, <1>5, FS_Subset

-----------------------------------------------------------------------------
(* Waiting in a circle                                                     *)

\* Along a chain of waiting transactions that visit the counters in order the rank of
\* the counter they wait for grows; there are only four ranks.
LEMMA NoSortedCycle ==
    ASSUME TxInv, NEW S \in SUBSET Ids, Cycle(S)
    PROVE  ~ordered /\ \E i \in S : tx[i].phase \in Closing
  <1> SUFFICES ASSUME ordered \/ \A i \in S : tx[i].phase \notin Closing PROVE FALSE
    OBVIOUS
  <1> DEFINE R(i) == Rank(Head(tx[i].todo))
  <1>1. \A i \in S : tx[i].todo # <<>> /\ \E j \in S : Head(tx[i].todo) \in tx[j].mine
    BY DEF Cycle, WaitsFor
  <1>2. \A i \in S : Sorted(tx[i]) /\ tx[i].todo \in Seq(CounterKeys)
    BY <1>1 DEF TxInv, TxHolds, TxTypeOK, Tx
  <1>3. ASSUME NEW i \in S PROVE \E j \in S : R(i) < R(j)
    <2>1. PICK j \in S : Head(tx[i].todo) \in tx[j].mine
      BY <1>1
    <2>2. Head(tx[j].todo) = tx[j].todo[1] /\ 1 \in DOMAIN tx[j].todo
      BY <1>1, <1>2, TailVisits
    <2>3. QED
      BY <1>2, <2>1, <2>2 DEF Sorted
  <1>4. \A i \in S : R(i) \in 0 .. 3
    BY RankTyped
  <1> HIDE DEF R
  <1>5. PICK a \in S : TRUE
    BY DEF Cycle
  <1>6. PICK b \in S : R(a) < R(b)
    BY <1>3
  <1>7. PICK c \in S : R(b) < R(c)
    BY <1>3
  <1>8. PICK d \in S : R(c) < R(d)
    BY <1>3
  <1>9. PICK e \in S : R(d) < R(e)
    BY <1>3
  <1>10. QED
    BY <1>4, <1>6, <1>7, <1>8, <1>9

-----------------------------------------------------------------------------
(* Steps                                                                   *)

\* A transaction is not disturbed by a step that leaves it, its rows and its locked
\* counters alone.
LEMMA Undisturbed ==
    ASSUME TxInv, NEW j \in Ids, tx'[j] = tx[j], resv'[j] = resv[j], logs'[j] = logs[j],
           ordered' = ordered, day \in Nat, day' \in Nat, day =< day',
           \A c \in tx[j].mine : counter'[c] = counter[c]
    PROVE  TxHolds(j)'
  <1>1. OpenRows(j)' = OpenRows(j)
    BY DEF OpenRows, Outstanding
  <1>2. TxHolds(j) /\ tx[j] \in Tx
    BY DEF TxInv, TxTypeOK
  <1>3. \A c \in CounterKeys : resv'[j][c].status = resv[j][c].status
    OBVIOUS
  <1>4. ASSUME tx[j].phase = "reserve" PROVE ReserveHolds(j)'
    BY <1>2, <1>4 DEF TxHolds, ReserveHolds
  <1>5. ASSUME tx[j].phase \in Closing PROVE CloseHolds(j)'
    <2>1. CloseHolds(j)
      BY <1>2, <1>5 DEF TxHolds
    <2>2. \A c \in tx[j].mine : Lowered(c, j)' = Lowered(c, j)
      BY DEF Lowered
    <2>3. tx[j].now \in Nat
      BY <1>2 DEF Tx, Days
    <2>4. QED
      BY <1>1, <2>1, <2>2, <2>3 DEF CloseHolds
  <1>6. QED
    BY <1>1, <1>2, <1>3, <1>4, <1>5 DEF TxHolds

\* A step of transaction i: what is left to show of it.
LEMMA StepOf ==
    ASSUME TxInv, NEW i \in Ids, NEW r \in Tx, tx' = [tx EXCEPT ![i] = r], TypeOK',
           UNCHANGED <<day, ordered>>,
           \A j \in Ids \ {i} : resv'[j] = resv[j] /\ logs'[j] = logs[j],
           \A c \in CounterKeys : counter'[c] = counter[c] \/ c \in tx[i].mine,
           \A c \in r.mine : c \in tx[i].mine \/ ~Locked(c, i),
           TxHolds(i)'
    PROVE  TxInv'
  <1>1. /\ tx \in [Ids -> Tx] /\ LocksApart /\ ordered \in BOOLEAN /\ day \in Nat
        /\ \A j \in Ids : tx[j] \in Tx /\ tx[j].mine \subseteq CounterKeys
    BY DEF TxInv, TxTypeOK, Tx, TypeOK, Days
  <1>2. tx' \in [Ids -> Tx] /\ tx'[i] = r /\ \A j \in Ids \ {i} : tx'[j] = tx[j]
    BY <1>1
  <1>3. TxTypeOK'
    BY <1>1, <1>2 DEF TxTypeOK
  <1>4. ASSUME NEW j \in Ids \ {i} PROVE tx[j].mine \cap r.mine = {}
    BY <1>1 DEF LocksApart, Locked
  <1>5. LocksApart'
    BY <1>1, <1>2, <1>4 DEF LocksApart
  <1>6. ASSUME NEW j \in Ids \ {i} PROVE TxHolds(j)'
    <2>1. \A c \in tx[j].mine : counter'[c] = counter[c]
      BY <1>1 DEF LocksApart
    <2>2. QED
      BY <1>1, <1>2, <2>1, Undisturbed
  <1>7. QED
    BY <1>3, <1>5, <1>6 DEF TxInv

\* The transaction of a request that has none is well-formed.
LEMMA NoTxTyped == NoTx \in Tx
  <1> DEFINE limits == [s \in Slots |-> {}]
             staged == [c \in CounterKeys |-> NoCounter]
             hold == [c \in CounterKeys |-> 0]
  <1>1. limits \in [Slots -> SUBSET Nat]
    OBVIOUS
  <1>2. staged \in [CounterKeys -> Counter]
    BY DEF Counter, NoCounter
  <1>3. hold \in [CounterKeys -> Nat]
    OBVIOUS
  <1>4. 0 \in Days /\ <<>> \in Seq(CounterKeys)
    BY DaysAssumption, EmptySeq DEF Days
  <1>5. NoTx = [phase |-> "idle", limits |-> limits, now |-> 0, amount |-> 0, todo |-> <<>>,
                mine |-> {}, staged |-> staged, hold |-> hold]
    BY DEF NoTx
  <1> HIDE DEF limits, staged, hold
  <1>6. QED
    BY <1>1, <1>2, <1>3, <1>4, <1>5 DEF Tx, Phases

\* COMMIT and ROLLBACK: nothing is left to visit and nothing is locked.
LEMMA EndOf ==
    ASSUME TxInv, NEW i \in Ids, NEW phase \in {"held", "failed", "done"}, EndTx(i, phase), TypeOK',
           UNCHANGED <<day, ordered>>,
           \A j \in Ids \ {i} : resv'[j] = resv[j] /\ logs'[j] = logs[j],
           \A c \in CounterKeys : counter'[c] = counter[c] \/ c \in tx[i].mine,
           IsFiniteSet(OpenRows(i))'
    PROVE  TxInv'
  <1> DEFINE r == [NoTx EXCEPT !.phase = phase]
  <1>1. tx' = [tx EXCEPT ![i] = r]
    BY DEF EndTx
  <1>2. r \in Tx /\ r.phase = phase /\ r.todo = <<>> /\ r.mine = {}
    <2>1. NoTx \in Tx
      BY NoTxTyped
    <2>2. NoTx.todo = <<>> /\ NoTx.mine = {}
      BY DEF NoTx
    <2>3. QED
      BY <2>1, <2>2 DEF Tx, Phases
  <1>3. tx'[i] = r
    BY <1>1 DEF TxInv, TxTypeOK
  <1> HIDE DEF r
  <1>4. TxHolds(i)'
    BY <1>2, <1>3 DEF TxHolds, Closing
  <1>5. QED
    BY <1>1, <1>2, <1>4, StepOf

\* A transaction begins: it has everything to visit and holds no lock.
LEMMA BeginOf ==
    ASSUME TxInv, NEW i \in Ids, NEW r \in Tx, tx' = [tx EXCEPT ![i] = r],
           UNCHANGED <<vars, ordered>>, r.mine = {}, r.phase \in {"reserve"} \cup Closing,
           r.phase = "reserve" => /\ tx[i].phase = "idle" /\ r.amount \in Estimates
                                  /\ ToSet(r.todo) = ConstraintsAt(r.limits, r.now, KeyOf[i]),
           r.phase \in Closing => /\ ToSet(r.todo) = OpenRows(i)
                                  /\ r.phase = "settle" => r.amount \in Costs /\ logs[i] = "none"
                                                           /\ r.now = day
                                  /\ r.phase = "release" => r.amount = 0,
           r.phase = "reserve" \/ (r.phase \in Closing /\ ordered) => InOrder(r.todo)
    PROVE  TxInv'
  <1>1. /\ UNCHANGED <<day, budgets, counter, resv, logs, costs, recorded, openedWith>>
        /\ TxHolds(i) /\ TypeOK /\ day \in Nat
    BY DEF vars, ledger, TxInv, TxTypeOK, TypeOK, Days
  <1>2. TypeOK'
    BY <1>1 DEF TypeOK
  <1>3. tx'[i] = r
    BY DEF TxInv, TxTypeOK
  <1>4. OpenRows(i)' = OpenRows(i)
    BY <1>1 DEF OpenRows, Outstanding
  <1>5. IsFiniteSet(OpenRows(i))'
    BY <1>1, <1>4 DEF TxHolds
  <1>6. ASSUME r.phase = "reserve" PROVE ReserveHolds(i)' /\ \A c \in CounterKeys : resv'[i][c].status = "none"
    BY <1>1, <1>3, <1>6 DEF ReserveHolds, TxHolds
  <1>7. ASSUME r.phase \in Closing PROVE CloseHolds(i)'
    BY <1>1, <1>3, <1>4, <1>7 DEF CloseHolds
  <1>8. ASSUME InOrder(r.todo) PROVE Sorted(tx[i])'
    BY <1>3, <1>8 DEF Sorted
  <1>9. TxHolds(i)'
    BY <1>3, <1>5, <1>6, <1>7, <1>8 DEF TxHolds, Closing
  <1>10. QED
    BY <1>1, <1>2, <1>9, StepOf

\* BEGIN of Reserve: it reads the limits and the day and has their counters to visit.
LEMMA BeginReserveStep ==
    ASSUME TxInv, NEW i \in Ids, NEW e \in Estimates, BeginReserve(i, e)
    PROVE  TxInv'
  <1> DEFINE K == loadBlockingConstraints(KeyOf[i])
  <1>1. K = ConstraintsAt(budgets, day, KeyOf[i]) /\ TypeOK /\ KeyOf[i] \in Keys /\ e \in Nat
    BY KeyOfAssumption, AmountAssumption DEF loadBlockingConstraints, ConstraintsAt, TxInv, TxTypeOK
  <1>2. IsFiniteSet(K) /\ K \subseteq CounterKeys
    BY <1>1, ConstraintsFinite DEF TypeOK
  <1>3. PICK q \in VisitOrder(K) :
           tx' = [tx EXCEPT ![i] = [NoTx EXCEPT !.phase = "reserve", !.limits = budgets,
                                               !.now = day, !.amount = e, !.todo = q]]
    BY DEF BeginReserve
  <1>4. q \in SetToSeqs(K) /\ InOrder(q)
    BY DEF VisitOrder
  <1>5. q \in Seq(K) /\ ToSet(q) = K
    BY <1>2, <1>4, SeqsCover
  <1>6. q \in Seq(CounterKeys)
    BY <1>2, <1>5, SeqMonotonic
  <1> DEFINE r == [NoTx EXCEPT !.phase = "reserve", !.limits = budgets, !.now = day, !.amount = e,
                               !.todo = q]
  <1>7. NoTx \in Tx /\ NoTx.mine = {}
    BY NoTxTyped DEF NoTx
  <1>8. /\ r \in Tx /\ r.phase = "reserve" /\ r.limits = budgets /\ r.now = day /\ r.amount = e
        /\ r.todo = q /\ r.mine = {}
    BY <1>1, <1>6, <1>7 DEF Tx, TypeOK, Phases
  <1>9. tx[i].phase = "idle" /\ tx' = [tx EXCEPT ![i] = r] /\ UNCHANGED <<vars, ordered>>
    BY <1>3 DEF BeginReserve
  <1> HIDE DEF r, K
  <1>10. "reserve" \notin Closing
    BY DEF Closing
  <1>11. QED
    BY <1>1, <1>4, <1>5, <1>8, <1>9, <1>10, BeginOf

\* BEGIN of SettleTx and ReleaseTx: they have the counters of the open rows to visit.
LEMMA BeginCloseStep ==
    ASSUME TxInv, NEW i \in Ids, NEW phase, NEW x, BeginClose(i, phase, x),
           (phase = "settle" /\ x \in Costs) \/ (phase = "release" /\ x = 0)
    PROVE  TxInv'
  <1> DEFINE K == OpenRows(i)
  <1>1. IsFiniteSet(K) /\ K \subseteq CounterKeys /\ TypeOK /\ x \in Nat /\ ordered \in BOOLEAN
    BY AmountAssumption DEF TxInv, TxHolds, OpenRows, TxTypeOK
  <1>2. PICK q \in RowOrder(K) :
           tx' = [tx EXCEPT ![i] = [NoTx EXCEPT !.phase = phase, !.now = day, !.amount = x, !.todo = q]]
    BY DEF BeginClose, OpenRows
  <1>3. q \in SetToSeqs(K) /\ (ordered => InOrder(q))
    BY <1>1, <1>2 DEF RowOrder, VisitOrder
  <1>4. q \in Seq(K) /\ ToSet(q) = K
    BY <1>1, <1>3, SeqsCover
  <1>5. q \in Seq(CounterKeys)
    BY <1>1, <1>4, SeqMonotonic
  <1> DEFINE r == [NoTx EXCEPT !.phase = phase, !.now = day, !.amount = x, !.todo = q]
  <1>6. NoTx \in Tx /\ NoTx.mine = {}
    BY NoTxTyped DEF NoTx
  <1>7. r \in Tx /\ r.phase = phase /\ r.now = day /\ r.amount = x /\ r.todo = q /\ r.mine = {}
    BY <1>1, <1>5, <1>6 DEF Tx, TypeOK, Phases
  <1>8. /\ tx' = [tx EXCEPT ![i] = r] /\ UNCHANGED <<vars, ordered>>
        /\ phase \in Closing /\ phase # "reserve"
        /\ phase = "settle" => logs[i] = "none" /\ x \in Costs
        /\ phase = "release" => x = 0
    BY <1>2 DEF BeginClose, Closing
  <1> HIDE DEF r, K
  <1>9. ToSet(r.todo) = OpenRows(i)
    BY <1>4, <1>7 DEF K
  <1>10. QED
    BY <1>3, <1>7, <1>8, <1>9, BeginOf

\* What Reserve reads of the counter at hand.
LEMMA ReadTyped ==
    ASSUME TxInv, NEW i \in Ids, tx[i].phase = "reserve", tx[i].todo # <<>>,
           NEW c, c = Head(tx[i].todo)
    PROVE  /\ c \in CounterKeys /\ LimitRead(i, c) \in Nat /\ Used(c) \in Nat
           /\ ensureAndLockCounter(c) \in Counter /\ ensureAndLockCounter(c).state = "present"
           /\ tx[i].amount \in Nat
  <1>1. TypeOK /\ tx[i] \in Tx /\ ReserveHolds(i) /\ KeyOf[i] \in Keys
    BY KeyOfAssumption DEF TxInv, TxTypeOK, TxHolds
  <1>2. c \in CounterKeys /\ c \in ToSet(tx[i].todo)
    BY <1>1, TailVisits DEF Tx
  <1>3. c \in ConstraintsAt(tx[i].limits, tx[i].now, KeyOf[i])
    BY <1>1, <1>2 DEF ReserveHolds
  <1>4. tx[i].limits \in [Slots -> SUBSET Nat] /\ tx[i].now \in Days /\ tx[i].amount \in Nat
    BY <1>1 DEF Tx
  <1>5. tx[i].limits[c[1]] # {} /\ tx[i].limits[c[1]] \in SUBSET Nat
    <2>1. c[1] \in Slots
      BY <1>2 DEF CounterKeys
    <2>2. QED
      BY <1>1, <1>3, <1>4, <2>1, ConstraintsFinite
  <1>6. LimitRead(i, c) \in Nat
    BY <1>5, StrictestLimit DEF LimitRead
  <1>7. ensureAndLockCounter(c) \in Counter /\ ensureAndLockCounter(c).state = "present"
    BY <1>1, <1>2, EnsuredCounter
  <1>8. Used(c) \in Nat
    BY <1>7 DEF Used, Counter
  <1>9. QED
    BY <1>2, <1>4, <1>6, <1>7, <1>8

\* Reserve takes the counter at hand: what it stages is right for the counter as it is.
LEMMA TakeStep ==
    ASSUME TxInv, NEW i \in Ids, TakeCounter(i)
    PROVE  TxInv'
  <1> DEFINE c == Head(tx[i].todo)
             r == tx[i]
             h == HoldRead(i, c)
             n == ensureAndLockCounter(c)
             s == [n EXCEPT !.reserved = @ + h]
             t == [tx[i] EXCEPT !.todo = Tail(@), !.mine = @ \cup {c}, !.hold[c] = h, !.staged[c] = s]
  <1>1. /\ r.phase = "reserve" /\ r.todo # <<>> /\ ~Locked(c, i) /\ AdmitsRead(i, c)
        /\ UNCHANGED <<vars, ordered>>
    BY DEF TakeCounter
  <1>2. /\ TypeOK /\ r \in Tx /\ TxHolds(i) /\ ReserveHolds(i) /\ Sorted(r)
        /\ tx \in [Ids -> Tx]
    BY <1>1 DEF TxInv, TxTypeOK, TxHolds
  <1>3. c \in CounterKeys /\ LimitRead(i, c) \in Nat /\ Used(c) \in Nat /\ n \in Counter
        /\ n.state = "present" /\ r.amount \in Nat
    BY <1>1, ReadTyped
  <1>4. h \in Nat /\ h = IF r.amount > RemainingRead(i, c) THEN RemainingRead(i, c) ELSE r.amount
    BY <1>1, <1>3 DEF HoldRead, AdmitsRead, RemainingRead
  <1>5. s \in Counter /\ s.state = "present" /\ s.settled = n.settled /\ s.reserved = n.reserved + h
    BY <1>3, <1>4 DEF Counter
  <1>6. tx' = [tx EXCEPT ![i] = t]
    BY Zenon DEF TakeCounter
  <1>7. /\ Tail(r.todo) \in Seq(CounterKeys) /\ ToSet(r.todo) = {c} \cup ToSet(Tail(r.todo))
        /\ r.mine \subseteq CounterKeys
    BY <1>1, <1>2, TailVisits DEF Tx
  <1> HIDE DEF c, h, n, s
  <1>8. /\ t \in Tx /\ t.phase = "reserve" /\ t.limits = r.limits /\ t.now = r.now /\ t.amount = r.amount
        /\ t.todo = Tail(r.todo) /\ t.mine = r.mine \cup {c}
        /\ t.hold = [r.hold EXCEPT ![c] = h] /\ t.staged = [r.staged EXCEPT ![c] = s]
    BY <1>1, <1>2, <1>3, <1>4, <1>5, <1>7 DEF Tx
  <1>9. /\ t.hold[c] = h /\ t.staged[c] = s
        /\ \A d \in CounterKeys \ {c} : t.hold[d] = r.hold[d] /\ t.staged[d] = r.staged[d]
    BY <1>2, <1>3, <1>8 DEF Tx
  <1>10. UNCHANGED <<day, budgets, counter, resv, logs, costs, recorded, openedWith>>
    BY <1>1 DEF vars, ledger
  <1>11. tx'[i] = t
    BY <1>2, <1>6
  <1> HIDE DEF t
  <1>12. Taken(t, counter[c], c)
    <2>1. Found(t, counter[c], c) = n
      BY <1>5, <1>9 DEF Found, n, ensureAndLockCounter
    <2>2. UsedThen(t, counter[c], c) = Used(c)
      BY <2>1 DEF UsedThen, Used, n
    <2>3. LeftThen(t, counter[c], c) = RemainingRead(i, c)
      BY <2>2, <1>8 DEF LeftThen, RemainingRead, LimitRead
    <2>4. t.staged[c] = [Found(t, counter[c], c) EXCEPT !.reserved = @ + t.hold[c]]
      BY <1>9, <2>1 DEF s
    <2>5. RemainingRead(i, c) > 0 /\ (r.amount > RemainingRead(i, c) => Used(c) = 0)
      BY <1>1 DEF AdmitsRead
    <2>6. QED
      BY <1>4, <1>8, <1>9, <2>2, <2>3, <2>4, <2>5 DEF Taken
  <1>13. ASSUME NEW d \in r.mine PROVE Taken(t, counter[d], d)
    <2>1. CASE d = c
      BY <1>12, <2>1
    <2>2. CASE d # c
      <3>1. Taken(r, counter[d], d)
        BY <1>2 DEF ReserveHolds
      <3>2. t.staged[d] = r.staged[d] /\ t.hold[d] = r.hold[d] /\ t.limits = r.limits /\ t.amount = r.amount
        BY <1>7, <1>8, <1>9, <2>2
      <3>3. QED
        BY <3>1, <3>2 DEF Taken, LeftThen, UsedThen, Found
    <2>3. QED
      BY <2>1, <2>2
  <1>14. ReserveHolds(i)'
    BY <1>2, <1>7, <1>8, <1>10, <1>11, <1>12, <1>13 DEF ReserveHolds
  <1>15. Sorted(t)
    <2>1. r.todo \in Seq(CounterKeys) /\ r.mine \in SUBSET CounterKeys
      BY <1>2 DEF Tx
    <2>2. InOrder(r.todo) /\ \A d \in r.mine : \A m \in DOMAIN r.todo : Rank(d) < Rank(r.todo[m])
      BY <1>2 DEF Sorted
    <2>3. InOrder(Tail(r.todo)) /\ \A d \in r.mine \cup {c} :
             \A m \in DOMAIN Tail(r.todo) : Rank(d) < Rank(Tail(r.todo)[m])
      BY <1>1, <2>1, <2>2, TailSorted DEF c
    <2>4. QED
      BY <1>8, <2>3 DEF Sorted
  <1>16. OpenRows(i)' = OpenRows(i)
    BY <1>10 DEF OpenRows, Outstanding
  <1>17. TxHolds(i)'
    BY <1>1, <1>2, <1>8, <1>10, <1>11, <1>14, <1>15, <1>16 DEF TxHolds, Closing
  <1>18. TypeOK'
    BY <1>2, <1>10 DEF TypeOK
  <1>19. QED
    BY <1>1, <1>6, <1>8, <1>10, <1>17, <1>18, StepOf

\* ROLLBACK, after a refusal or as the victim of a deadlock.
LEMMA RefuseStep ==
    ASSUME TxInv, NEW i \in Ids, NEW phase \in {"held", "failed", "done"}, EndTx(i, phase),
           UNCHANGED <<vars, ordered>>
    PROVE  TxInv'
  <1>1. /\ UNCHANGED <<day, budgets, counter, resv, logs, costs, recorded, openedWith>>
        /\ TxHolds(i) /\ TypeOK
    BY DEF vars, ledger, TxInv, TxTypeOK
  <1>2. TypeOK'
    BY <1>1 DEF TypeOK
  <1>3. IsFiniteSet(OpenRows(i))'
    BY <1>1 DEF OpenRows, Outstanding, TxHolds
  <1>4. QED
    BY <1>1, <1>2, <1>3, EndOf

\* SettleTx and ReleaseTx take the counter at hand.
LEMMA CloseStep ==
    ASSUME TxInv, NEW i \in Ids, CloseCounter(i)
    PROVE  TxInv'
  <1> DEFINE c == Head(tx[i].todo)
             r == tx[i]
             s == [state |-> counter[c].state, settled |-> counter[c].settled + tx[i].amount,
                   reserved |-> Lowered(c, i)]
             t == [tx[i] EXCEPT !.todo = Tail(@), !.mine = @ \cup {c}, !.staged[c] = s]
  <1>1. /\ r.phase \in Closing /\ r.phase # "reserve" /\ r.phase # "idle"
        /\ r.todo # <<>> /\ ~Locked(c, i) /\ UNCHANGED <<vars, ordered>>
    BY DEF CloseCounter, Closing
  <1>2. TypeOK /\ r \in Tx /\ TxHolds(i) /\ CloseHolds(i) /\ (ordered => Sorted(r)) /\ tx \in [Ids -> Tx]
    BY <1>1 DEF TxInv, TxTypeOK, TxHolds
  <1>3. /\ Tail(r.todo) \in Seq(CounterKeys) /\ ToSet(r.todo) = {c} \cup ToSet(Tail(r.todo))
        /\ r.mine \subseteq CounterKeys /\ c \in CounterKeys /\ r.amount \in Nat
    BY <1>1, <1>2, TailVisits DEF Tx
  <1>4. Lowered(c, i) \in Nat /\ counter[c] \in Counter
    BY <1>2, <1>3, LoweredTyped DEF TypeOK
  <1>5. s \in Counter
    BY <1>3, <1>4 DEF Counter
  <1>6. tx' = [tx EXCEPT ![i] = t]
    BY Zenon DEF CloseCounter
  <1> HIDE DEF c, s
  <1>7. /\ t \in Tx /\ t.phase = r.phase /\ t.now = r.now /\ t.amount = r.amount
        /\ t.todo = Tail(r.todo) /\ t.mine = r.mine \cup {c} /\ t.staged = [r.staged EXCEPT ![c] = s]
    BY <1>1, <1>2, <1>3, <1>5 DEF Tx
  <1>8. t.staged[c] = s /\ \A d \in CounterKeys \ {c} : t.staged[d] = r.staged[d]
    BY <1>2, <1>3, <1>7 DEF Tx
  <1>9. UNCHANGED <<day, budgets, counter, resv, logs, costs, recorded, openedWith>>
    BY <1>1 DEF vars, ledger
  <1>10. tx'[i] = t
    BY <1>2, <1>6
  <1>11. OpenRows(i)' = OpenRows(i)
    BY <1>9 DEF OpenRows, Outstanding
  <1> HIDE DEF t
  <1>12. ASSUME NEW d \in t.mine
         PROVE  t.staged[d] = [state |-> counter[d].state, settled |-> counter[d].settled + r.amount,
                               reserved |-> Lowered(d, i)]
    <2>1. CASE d = c
      BY <1>8, <2>1 DEF s
    <2>2. CASE d # c
      <3>1. d \in r.mine /\ d \in CounterKeys
        BY <1>3, <1>7, <2>2
      <3>2. QED
        BY <1>2, <1>8, <2>2, <3>1 DEF CloseHolds
    <2>3. QED
      BY <2>1, <2>2
  <1>13. \A d \in CounterKeys : Lowered(d, i)' = Lowered(d, i)
    BY <1>9 DEF Lowered
  <1>14. CloseHolds(i)'
    <2>1. t.mine \cup ToSet(t.todo) = OpenRows(i)
      BY <1>2, <1>3, <1>7 DEF CloseHolds
    <2>2. t.mine \subseteq CounterKeys
      BY <1>3, <1>7
    <2>3. QED
      BY <1>2, <1>7, <1>9, <1>10, <1>11, <1>12, <1>13, <2>1, <2>2 DEF CloseHolds
  <1>15. ordered => Sorted(t)
    <2> SUFFICES ASSUME ordered PROVE Sorted(t)
      OBVIOUS
    <2>1. r.todo \in Seq(CounterKeys) /\ r.mine \in SUBSET CounterKeys
      BY <1>2 DEF Tx
    <2>2. InOrder(r.todo) /\ \A d \in r.mine : \A m \in DOMAIN r.todo : Rank(d) < Rank(r.todo[m])
      BY <1>2 DEF Sorted
    <2>3. InOrder(Tail(r.todo)) /\ \A d \in r.mine \cup {c} :
             \A m \in DOMAIN Tail(r.todo) : Rank(d) < Rank(Tail(r.todo)[m])
      BY <1>1, <2>1, <2>2, TailSorted DEF c
    <2>4. QED
      BY <1>7, <2>3 DEF Sorted
  <1>16. TxHolds(i)'
    BY <1>1, <1>2, <1>7, <1>10, <1>11, <1>14, <1>15 DEF TxHolds
  <1>17. TypeOK'
    BY <1>2, <1>9 DEF TypeOK
  <1>18. QED
    BY <1>1, <1>6, <1>7, <1>9, <1>16, <1>17, StepOf

\* COMMIT of Reserve: what it writes is well-formed, to counters it has locked.
LEMMA CommitReserveStep ==
    ASSUME TxInv, NEW i \in Ids, CommitReserve(i)
    PROVE  TxInv'
  <1> DEFINE r == tx[i]
             rows == [c \in CounterKeys |->
                        IF c \in r.mine /\ r.hold[c] > 0
                        THEN [status |-> "reserved", amount |-> r.hold[c], settled |-> 0]
                        ELSE resv[i][c]]
  <1>1. /\ r.phase = "reserve" /\ EndTx(i, "held")
        /\ counter' = Written(i) /\ resv' = [resv EXCEPT ![i] = rows]
        /\ openedWith' = [c \in CounterKeys |->
                            IF c \in r.mine /\ counter[c].state = "absent"
                            THEN r.staged[c].settled ELSE openedWith[c]]
        /\ UNCHANGED <<day, budgets, logs, costs, recorded, ordered>>
    BY DEF CommitReserve
  <1>2. TypeOK /\ r \in Tx /\ TxHolds(i) /\ ReserveHolds(i) /\ KeyOf[i] \in Keys
    BY <1>1, KeyOfAssumption DEF TxInv, TxTypeOK, TxHolds
  <1>3. /\ r.mine \subseteq CounterKeys /\ r.staged \in [CounterKeys -> Counter]
        /\ r.hold \in [CounterKeys -> Nat] /\ r.limits \in [Slots -> SUBSET Nat] /\ r.now \in Days
    BY <1>2 DEF Tx
  <1>4. rows \in [CounterKeys -> Row]
    BY <1>2, <1>3 DEF TypeOK, Row
  <1>5. counter' \in [CounterKeys -> Counter]
    BY <1>1, <1>2, <1>3 DEF Written, TypeOK
  <1>6. openedWith' \in [CounterKeys -> Nat]
    BY <1>1, <1>2, <1>3 DEF TypeOK, Counter
  <1>7. TypeOK'
    BY <1>1, <1>2, <1>4, <1>5, <1>6 DEF TypeOK
  <1>8. resv'[i] = rows /\ \A j \in Ids \ {i} : resv'[j] = resv[j]
    BY <1>1, <1>2 DEF TypeOK
  <1>9. OpenRows(i)' \subseteq r.mine
    <2>1. ASSUME NEW c \in CounterKeys, c \notin r.mine PROVE resv'[i][c].status = "none"
      BY <1>1, <1>2, <1>8, <2>1 DEF TxHolds
    <2>2. QED
      BY <2>1 DEF OpenRows, Outstanding
  <1>10. IsFiniteSet(OpenRows(i)')
    <2>1. IsFiniteSet(ConstraintsAt(r.limits, r.now, KeyOf[i]))
      BY <1>2, <1>3, ConstraintsFinite
    <2>2. OpenRows(i)' \subseteq ConstraintsAt(r.limits, r.now, KeyOf[i])
      BY <1>2, <1>9 DEF ReserveHolds
    <2>3. QED
      BY <2>1, <2>2, FS_Subset
  <1>11. \A c \in CounterKeys : counter'[c] = counter[c] \/ c \in r.mine
    BY <1>1 DEF Written
  <1>12. QED
    BY <1>1, <1>7, <1>8, <1>10, <1>11, EndOf

\* A Reserve that decided on nothing out of date is the atomic Reserve of CostLimits.
LEMMA CommitReserveAtomic ==
    ASSUME TxInv, NEW i \in Ids, CommitReserve(i), ~Stale(i)
    PROVE  Reserve(i, KeyOf[i], tx[i].amount) /\ tx[i].amount \in Estimates /\ KeyOf[i] \in Keys
  <1> DEFINE r == tx[i]
             K == loadBlockingConstraints(KeyOf[i])
             e == tx[i].amount
  <1>1. /\ r.phase = "reserve" /\ r.todo = <<>> /\ counter' = Written(i)
        /\ resv' = [resv EXCEPT ![i] =
                      [c \in CounterKeys |->
                         IF c \in r.mine /\ r.hold[c] > 0
                         THEN [status |-> "reserved", amount |-> r.hold[c], settled |-> 0]
                         ELSE resv[i][c]]]
        /\ openedWith' = [c \in CounterKeys |->
                            IF c \in r.mine /\ counter[c].state = "absent"
                            THEN r.staged[c].settled ELSE openedWith[c]]
        /\ UNCHANGED <<day, budgets, logs, costs, recorded>>
    BY DEF CommitReserve
  <1>2. /\ r.limits = budgets /\ r.now = day
        /\ \A c \in r.mine : counter[c].state = "absent" => r.staged[c].settled = recorded[c]
    BY DEF Stale
  <1>3. TypeOK /\ r \in Tx /\ TxHolds(i) /\ ReserveHolds(i) /\ KeyOf[i] \in Keys
    BY <1>1, KeyOfAssumption DEF TxInv, TxTypeOK, TxHolds
  <1>4. r.mine = K /\ r.mine \subseteq CounterKeys /\ e \in Estimates
    <2>1. ToSet(r.todo) = {}
      BY <1>1 DEF ToSet
    <2>2. K = ConstraintsAt(r.limits, r.now, KeyOf[i])
      BY <1>2 DEF loadBlockingConstraints, ConstraintsAt
    <2>3. QED
      BY <1>3, <2>1, <2>2 DEF ReserveHolds, Tx
  <1> HIDE DEF K
  <1>5. ASSUME NEW c \in r.mine
        PROVE  /\ Admits(c, e) /\ r.hold[c] = Hold(c, e) /\ resv[i][c].status = "none"
               /\ r.staged[c] = [ensureAndLockCounter(c) EXCEPT !.reserved = @ + Hold(c, e)]
    <2>1. Taken(r, counter[c], c)
      BY <1>3 DEF ReserveHolds
    <2>2. counter[c].state \in {"absent", "present"}
      BY <1>3, <1>4 DEF TypeOK, Counter
    <2>3. Found(r, counter[c], c) = ensureAndLockCounter(c)
      BY <1>2, <2>2 DEF Found, ensureAndLockCounter
    <2>4. UsedThen(r, counter[c], c) = Used(c) /\ LeftThen(r, counter[c], c) = Remaining(c)
      BY <1>2, <2>3 DEF UsedThen, Used, LeftThen, Remaining, LimitOf
    <2>5. Admits(c, e) /\ r.hold[c] = Hold(c, e)
      BY <2>1, <2>4 DEF Taken, Admits, Hold
    <2>6. r.staged[c] = [ensureAndLockCounter(c) EXCEPT !.reserved = @ + Hold(c, e)]
      BY <2>1, <2>3, <2>5 DEF Taken
    <2>7. resv[i][c].status = "none"
      BY <1>1, <1>3, <1>4 DEF TxHolds
    <2>8. QED
      BY <2>5, <2>6, <2>7
  <1>6. ReserveAllowed(i, KeyOf[i], e)
    BY <1>4, <1>5 DEF ReserveAllowed, Conflicts, K
  <1>7. counter' = [c \in CounterKeys |->
                      IF c \in K THEN [ensureAndLockCounter(c) EXCEPT !.reserved = @ + Hold(c, e)]
                      ELSE counter[c]]
    BY <1>1, <1>4, <1>5 DEF Written
  <1>8. resv' = [resv EXCEPT ![i] =
                   [c \in CounterKeys |->
                      IF c \in K /\ Hold(c, e) > 0
                      THEN [status |-> "reserved", amount |-> Hold(c, e), settled |-> 0]
                      ELSE resv[i][c]]]
    <2>1. [c \in CounterKeys |-> IF c \in r.mine /\ r.hold[c] > 0
                                 THEN [status |-> "reserved", amount |-> r.hold[c], settled |-> 0]
                                 ELSE resv[i][c]]
          = [c \in CounterKeys |-> IF c \in K /\ Hold(c, e) > 0
                                   THEN [status |-> "reserved", amount |-> Hold(c, e), settled |-> 0]
                                   ELSE resv[i][c]]
      BY <1>4, <1>5
    <2>2. QED
      BY <1>1, <2>1
  <1>9. openedWith' = [c \in CounterKeys |->
                         IF c \in K /\ counter[c].state = "absent" THEN recorded[c] ELSE openedWith[c]]
    BY <1>1, <1>2, <1>4
  <1>10. QED
    BY <1>1, <1>3, <1>4, <1>6, <1>7, <1>8, <1>9 DEF Reserve, K

\* COMMIT of a SettleTx or ReleaseTx is the atomic RecordSuccess or Release of CostLimits.
LEMMA CommitCloseAtomic ==
    ASSUME TxInv, NEW i \in Ids, CommitClose(i)
    PROVE  \/ /\ tx[i].amount \in Costs /\ tx[i].now \in 0 .. day /\ KeyOf[i] \in Keys
              /\ RecordSuccess(i, KeyOf[i], tx[i].amount, tx[i].now)
           \/ Release(i)
  <1> DEFINE r == tx[i]
  <1>1. /\ r.phase \in {"settle", "release"} /\ r.todo = <<>> /\ counter' = Written(i)
        /\ UNCHANGED <<day, budgets, openedWith>>
    BY DEF CommitClose, Closing
  <1>2. TypeOK /\ r \in Tx /\ TxHolds(i) /\ CloseHolds(i) /\ KeyOf[i] \in Keys
    BY <1>1, KeyOfAssumption DEF TxInv, TxTypeOK, TxHolds, Closing
  <1>3. \A c \in CounterKeys : c \in r.mine <=> Outstanding(i, c)
    <2>1. ToSet(r.todo) = {}
      BY <1>1 DEF ToSet
    <2>2. r.mine = OpenRows(i)
      BY <1>2, <2>1 DEF CloseHolds
    <2>3. QED
      BY <2>2 DEF OpenRows
  <1>4. counter' = [c \in CounterKeys |->
                      IF Outstanding(i, c)
                      THEN [state |-> counter[c].state, settled |-> counter[c].settled + r.amount,
                            reserved |-> Lowered(c, i)]
                      ELSE counter[c]]
    BY <1>1, <1>2, <1>3 DEF Written, CloseHolds
  <1>5. CASE r.phase = "settle"
    <2>1. r.amount \in Costs /\ logs[i] = "none" /\ r.now =< day /\ r.now \in Nat /\ day \in Nat
      BY <1>2, <1>5 DEF CloseHolds, Tx, Days, TypeOK
    <2>2. resv' = [resv EXCEPT ![i] =
                     [c \in CounterKeys |->
                        IF Outstanding(i, c)
                        THEN [status |-> "settled", amount |-> resv[i][c].amount, settled |-> r.amount]
                        ELSE resv[i][c]]]
      <3>1. [c \in CounterKeys |->
               IF ~Outstanding(i, c) THEN resv[i][c]
               ELSE IF r.phase = "settle"
               THEN [status |-> "settled", amount |-> resv[i][c].amount, settled |-> r.amount]
               ELSE [resv[i][c] EXCEPT !.status = "released"]]
            = [c \in CounterKeys |->
                 IF Outstanding(i, c)
                 THEN [status |-> "settled", amount |-> resv[i][c].amount, settled |-> r.amount]
                 ELSE resv[i][c]]
        BY <1>5
      <3>2. QED
        BY <3>1 DEF CommitClose
    <2>3. SettleTx(i, r.amount)
      BY <1>4, <2>2 DEF SettleTx
    <2>4. /\ logs' = [logs EXCEPT ![i] = "success"]
          /\ costs' = [costs EXCEPT ![i] = [state |-> "present", cost |-> r.amount, day |-> r.now]]
          /\ recorded' = [c \in CounterKeys |->
                            IF c[1][1] \in {Org, KeyOf[i]} /\ c[2] = periodWindow(r.now, c[1][2])
                            THEN recorded[c] + r.amount
                            ELSE recorded[c]]
      BY <1>5 DEF CommitClose
    <2>5. RecordSuccess(i, KeyOf[i], r.amount, r.now)
      BY <1>1, <2>1, <2>3, <2>4 DEF RecordSuccess
    <2>6. QED
      BY <1>2, <2>1, <2>5
  <1>6. CASE r.phase = "release"
    <2>1. r.amount = 0
      BY <1>2, <1>6 DEF CloseHolds
    <2>2. \A c \in CounterKeys :
             [state |-> counter[c].state, settled |-> counter[c].settled + r.amount,
              reserved |-> Lowered(c, i)] = [counter[c] EXCEPT !.reserved = Lowered(c, i)]
      <3>1. \A c \in CounterKeys : counter[c] \in Counter
        BY <1>2 DEF TypeOK
      <3>2. QED
        BY <2>1, <3>1 DEF Counter
    <2>3. counter' = [c \in CounterKeys |->
                        IF Outstanding(i, c) THEN [counter[c] EXCEPT !.reserved = Lowered(c, i)]
                        ELSE counter[c]]
      BY <1>4, <2>2
    <2>4. resv' = [resv EXCEPT ![i] =
                     [c \in CounterKeys |->
                        IF Outstanding(i, c) THEN [resv[i][c] EXCEPT !.status = "released"]
                        ELSE resv[i][c]]]
      <3>1. [c \in CounterKeys |->
               IF ~Outstanding(i, c) THEN resv[i][c]
               ELSE IF r.phase = "settle"
               THEN [status |-> "settled", amount |-> resv[i][c].amount, settled |-> r.amount]
               ELSE [resv[i][c] EXCEPT !.status = "released"]]
            = [c \in CounterKeys |->
                 IF Outstanding(i, c) THEN [resv[i][c] EXCEPT !.status = "released"] ELSE resv[i][c]]
        BY <1>6
      <3>2. QED
        BY <3>1 DEF CommitClose
    <2>5. UNCHANGED <<logs, costs, recorded>>
      BY <1>6 DEF CommitClose
    <2>6. QED
      BY <1>1, <2>3, <2>4, <2>5 DEF Release, ReleaseTx
  <1>7. QED
    BY <1>1, <1>5, <1>6

\* COMMIT of SettleTx and ReleaseTx leaves no open row.
LEMMA CommitCloseStep ==
    ASSUME TxInv, NEW i \in Ids, CommitClose(i)
    PROVE  TxInv'
  <1> DEFINE r == tx[i]
             rows == [c \in CounterKeys |->
                        IF ~Outstanding(i, c) THEN resv[i][c]
                        ELSE IF r.phase = "settle"
                        THEN [status |-> "settled", amount |-> resv[i][c].amount, settled |-> r.amount]
                        ELSE [resv[i][c] EXCEPT !.status = "released"]]
  <1>1. /\ EndTx(i, "done") /\ UNCHANGED <<day, ordered>> /\ counter' = Written(i)
        /\ resv' = [resv EXCEPT ![i] = rows]
        /\ logs' = [logs EXCEPT ![i] = "success"] \/ logs' = logs
    BY DEF CommitClose
  <1>2. TypeOK /\ TxHolds(i)
    BY DEF TxInv, TxTypeOK
  <1>3. TypeOK'
    <2>1. Next
      BY CommitCloseAtomic DEF Next
    <2>2. QED
      BY <1>2, <2>1, StepTyped
  <1>4. resv'[i] = rows /\ \A j \in Ids \ {i} : resv'[j] = resv[j] /\ logs'[j] = logs[j]
    BY <1>1, <1>2 DEF TypeOK
  <1>5. OpenRows(i)' = {}
    <2>1. ASSUME NEW c \in CounterKeys PROVE resv'[i][c].status # "reserved"
      <3>1. resv[i][c] \in Row
        BY <1>2 DEF TypeOK
      <3>2. [resv[i][c] EXCEPT !.status = "released"].status = "released"
        BY <3>1 DEF Row
      <3>3. resv'[i][c] = rows[c]
        BY <1>4
      <3>4. QED
        BY <3>2, <3>3 DEF Outstanding
    <2>2. QED
      BY <2>1 DEF OpenRows, Outstanding
  <1>6. IsFiniteSet(OpenRows(i)')
    BY <1>5, FS_EmptySet
  <1>7. \A c \in CounterKeys : counter'[c] = counter[c] \/ c \in r.mine
    BY <1>1 DEF Written
  <1>8. QED
    BY <1>1, <1>3, <1>4, <1>6, <1>7, EndOf

\* A new budget or a new day leaves the transactions alone.
LEMMA EnvironmentStep ==
    ASSUME TxInv, UNCHANGED txVars, UNCHANGED ledger, TypeOK', day =< day'
    PROVE  TxInv'
  <1>1. UNCHANGED <<tx, ordered, counter, resv, logs, costs, recorded, openedWith>>
    BY DEF txVars, ledger
  <1>2. day \in Nat /\ day' \in Nat
    BY DEF TxInv, TxTypeOK, TypeOK, Days
  <1>3. TxTypeOK' /\ LocksApart'
    BY <1>1 DEF TxInv, TxTypeOK, LocksApart
  <1>4. ASSUME NEW j \in Ids PROVE TxHolds(j)'
    BY <1>1, <1>2, Undisturbed
  <1>5. QED
    BY <1>3, <1>4 DEF TxInv

\* At the start no transaction is open.
LEMMA TxInitially == TInit => TxInv
  <1> SUFFICES ASSUME TInit PROVE TxInv
    OBVIOUS
  <1>1. TypeOK
    BY InitTyped DEF TInit
  <1>2. NoTx \in Tx /\ NoTx.phase = "idle" /\ NoTx.todo = <<>> /\ NoTx.mine = {}
    BY NoTxTyped DEF NoTx
  <1>3. tx = [i \in Ids |-> NoTx] /\ ordered \in BOOLEAN
    BY DEF TInit
  <1>4. TxTypeOK /\ LocksApart
    BY <1>1, <1>2, <1>3 DEF TxTypeOK, LocksApart
  <1>5. ASSUME NEW i \in Ids PROVE TxHolds(i)
    <2>1. \A c \in CounterKeys : resv[i][c].status = "none"
      BY DEF TInit, Init, NoRow
    <2>2. OpenRows(i) = {}
      BY <2>1 DEF OpenRows, Outstanding
    <2>3. IsFiniteSet(OpenRows(i))
      BY <2>2, FS_EmptySet
    <2>4. tx[i].phase = "idle" /\ tx[i].todo = <<>> /\ tx[i].mine = {}
      BY <1>2, <1>3
    <2>5. QED
      BY <2>1, <2>3, <2>4 DEF TxHolds, Closing
  <1>6. QED
    BY <1>4, <1>5 DEF TxInv

\* Every step keeps what the open transactions rely on.
LEMMA TxStep == TxInv /\ [TNext]_<<vars, txVars>> => TxInv'
  <1> SUFFICES ASSUME TxInv, [TNext]_<<vars, txVars>> PROVE TxInv'
    OBVIOUS
  <1>0. TypeOK /\ day \in Nat
    BY DEF TxInv, TxTypeOK, TypeOK, Days
  <1>1. ASSUME NEW i \in Ids, NEW e \in Estimates, BeginReserve(i, e) PROVE TxInv'
    BY <1>1, BeginReserveStep
  <1>2. ASSUME NEW i \in Ids, NEW x \in Costs, BeginClose(i, "settle", x) PROVE TxInv'
    BY <1>2, BeginCloseStep
  <1>3. ASSUME NEW i \in Ids, Step(i) PROVE TxInv'
    <2>1. CASE TakeCounter(i)
      BY <2>1, TakeStep
    <2>2. CASE RefuseReserve(i)
      BY <2>2, RefuseStep DEF RefuseReserve
    <2>3. CASE CommitReserve(i)
      BY <2>3, CommitReserveStep
    <2>4. CASE CloseCounter(i)
      BY <2>4, CloseStep
    <2>5. CASE CommitClose(i)
      BY <2>5, CommitCloseStep
    <2>6. CASE Victim(i)
      BY <2>6, RefuseStep DEF Victim
    <2>7. CASE BeginClose(i, "release", 0)
      BY <2>7, BeginCloseStep
    <2>8. QED
      BY <1>3, <2>1, <2>2, <2>3, <2>4, <2>5, <2>6, <2>7 DEF Step
  <1>4. ASSUME NEW p \in Periods, NEW l \in BudgetLimits, CreateBudget(p, l), UNCHANGED txVars PROVE TxInv'
    <2>1. Next
      BY <1>4 DEF Next
    <2>2. TypeOK'
      BY <1>0, <2>1, StepTyped
    <2>3. UNCHANGED <<day, ledger>>
      BY <1>4 DEF CreateBudget
    <2>4. QED
      BY <1>0, <1>4, <2>2, <2>3, EnvironmentStep
  <1>5. ASSUME AdvanceDay, UNCHANGED txVars PROVE TxInv'
    <2>1. Next
      BY <1>5 DEF Next
    <2>2. TypeOK'
      BY <1>0, <2>1, StepTyped
    <2>3. UNCHANGED ledger /\ day =< day'
      BY <1>0, <1>5 DEF AdvanceDay
    <2>4. QED
      BY <1>5, <2>2, <2>3, EnvironmentStep
  <1>6. CASE UNCHANGED <<vars, txVars>>
    <2>1. UNCHANGED ledger /\ UNCHANGED txVars /\ UNCHANGED day /\ UNCHANGED vars
      BY <1>6 DEF vars
    <2>2. TypeOK'
      BY <1>0, <2>1, StepTyped
    <2>3. QED
      BY <1>0, <2>1, <2>2, EnvironmentStep
  <1>7. QED
    BY <1>1, <1>2, <1>3, <1>4, <1>5, <1>6 DEF TNext

-----------------------------------------------------------------------------
(* Theorems                                                                *)

\* What open transactions have read, staged and locked stays true until they commit:
\* the row locks protect every counter a transaction has visited.
THEOREM OpenTransactionsHold == TSpec => []TxInv
  BY TxInitially, TxStep, PTL DEF TSpec

\* However many requests reserve, settle and release at the same time, a circle of
\* waiting transactions needs a SettleTx or ReleaseTx whose rows came back out of order:
\* Reserve by itself, and everything if the rows come back in order, never deadlocks.
THEOREM ReservationsNeverDeadlock == TSpec => []ReserveNeverDeadlocks
  <1>1. TxInv => ReserveNeverDeadlocks
    BY NoSortedCycle DEF ReserveNeverDeadlocks
  <1>2. QED
    BY <1>1, OpenTransactionsHold, PTL

\* Every commit of an interleaving of transactions, statement by statement, is one
\* atomic step of CostLimits, or of a Reserve that decided on a limit, a day or cost
\* records that have changed since; nothing else changes the tables.
THEOREM TransactionsAreAtomic == TSpec => CommitsAtomic
  <1> DEFINE A == Next \/ \E i \in Ids : Stale(i) /\ CommitReserve(i)
  <1>1. TxInv /\ [TNext]_<<vars, txVars>> => [A]_vars
    <2> SUFFICES ASSUME TxInv, [TNext]_<<vars, txVars>> PROVE [A]_vars
      OBVIOUS
    <2>1. ASSUME NEW i \in Ids, CommitReserve(i) PROVE A
      <3>1. CASE Stale(i)
        BY <2>1, <3>1
      <3>2. CASE ~Stale(i)
        BY <2>1, <3>2, CommitReserveAtomic DEF Next
      <3>3. QED
        BY <3>1, <3>2
    <2>2. ASSUME NEW i \in Ids, CommitClose(i) PROVE A
      BY <2>2, CommitCloseAtomic DEF Next
    <2>3. ASSUME NEW i \in Ids, Step(i) PROVE [A]_vars
      BY <2>1, <2>2, <2>3
      DEF Step, TakeCounter, RefuseReserve, CloseCounter, Victim, BeginClose
    <2>4. ASSUME NEW p \in Periods, NEW l \in BudgetLimits, CreateBudget(p, l) PROVE A
      BY <2>4 DEF Next
    <2>5. ASSUME AdvanceDay PROVE A
      BY <2>5 DEF Next
    <2> HIDE DEF A
    <2>6. QED
      BY <2>3, <2>4, <2>5 DEF TNext, BeginReserve, BeginClose
  <1>2. QED
    BY <1>1, OpenTransactionsHold, PTL DEF TSpec, CommitsAtomic
=============================================================================
