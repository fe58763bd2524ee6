------------------------- MODULE CostLimitsProofs -------------------------
(***************************************************************************)
(* What the cost ledger guarantees for every set of request ids and keys,  *)
(* every calendar and every choice of limits, estimates and costs.         *)
(***************************************************************************)
EXTENDS CostLimits, TLAPS, FiniteSetTheorems, WellFoundedInduction

\* The strictest of a non-empty set of limits is one of them and bounds the rest:
\* MIN(limit_micro_usd) of loadBlockingConstraints.
LEMMA StrictestLimit ==
    ASSUME NEW S \in SUBSET Nat, S # {}
    PROVE  Min(S) \in S /\ \A y \in S : Min(S) =< y
  <1> DEFINE R == {ss \in Nat \X Nat : ss[1] < ss[2]}
  <1>1. IsWellFoundedOn(R, Nat)
    BY NatLessThanWellFounded DEF OpToRel
  <1>2. \A x, y \in Nat : x < y => <<x, y>> \in R
    OBVIOUS
  <1> HIDE DEF R
  <1>3. PICK x \in S : \A y \in S : ~(<<y, x>> \in R)
    BY <1>1, WFMin
  <1>4. \A y \in S : x =< y
    <2> SUFFICES ASSUME NEW y \in S, y < x PROVE FALSE
      OBVIOUS
    <2>1. <<y, x>> \in R
      BY <1>2
    <2>2. QED
      BY <1>3, <2>1
  <1>5. QED
    BY <1>4 DEF Min

-----------------------------------------------------------------------------
(* The operators Reserve, SettleTx and ReleaseTx are built from            *)

\* Every constraint of a request names a counter with a limit that is a number.
LEMMA ConstraintsTyped ==
    ASSUME TypeOK, NEW k \in Keys, NEW c \in loadBlockingConstraints(k)
    PROVE  c \in CounterKeys /\ LimitOf(c) \in Nat
  <1>1. PICK s \in {Org, k} \X Periods : budgets[s] # {} /\ c = <<s, periodWindow(day, s[2])>>
    BY DEF loadBlockingConstraints
  <1>2. s \in Slots /\ s[2] \in Periods
    BY DEF Slots
  <1>3. periodWindow(day, s[2]) \in Days
    BY DaysAssumption DEF periodWindow, TypeOK
  <1>4. c \in CounterKeys
    BY <1>1, <1>2, <1>3 DEF CounterKeys
  <1>5. c[1] = s
    BY <1>1
  <1>6. budgets[s] \in SUBSET Nat
    BY <1>2 DEF TypeOK
  <1>7. QED
    BY <1>1, <1>4, <1>5, <1>6, StrictestLimit DEF LimitOf

\* A counter that is read exists afterwards and holds two numbers.
LEMMA EnsuredCounter ==
    ASSUME TypeOK, NEW c \in CounterKeys
    PROVE  /\ ensureAndLockCounter(c) \in Counter
           /\ ensureAndLockCounter(c).state = "present"
           /\ counter[c].state = "present" => ensureAndLockCounter(c) = counter[c]
           /\ Used(c) \in Nat
  BY DEF ensureAndLockCounter, TypeOK, Counter, Used

\* What Reserve takes from an admitting constraint fits into what is left.
LEMMA HoldFits ==
    ASSUME TypeOK, NEW k \in Keys, NEW c \in loadBlockingConstraints(k), NEW e \in Nat,
           Admits(c, e)
    PROVE  Hold(c, e) \in Nat /\ Used(c) + Hold(c, e) =< LimitOf(c)
  <1>1. LimitOf(c) \in Nat /\ Used(c) \in Nat
    BY ConstraintsTyped, EnsuredCounter
  <1>2. QED
    BY <1>1 DEF Hold, Remaining, Admits

\* GREATEST(.., 0) keeps the reserved amount a number and never raises it.
LEMMA LoweredTyped ==
    ASSUME TypeOK, NEW i \in Ids, NEW c \in CounterKeys
    PROVE  Lowered(c, i) \in Nat /\ Lowered(c, i) =< counter[c].reserved
  BY DEF Lowered, TypeOK, Counter, Row

-----------------------------------------------------------------------------
(* Type correctness                                                        *)

\* Reserve keeps the tables well-formed: what it adds to a counter is a number, since
\* the hold on an admitting constraint is clamped to what is left of the limit.
LEMMA ReserveTyped ==
    ASSUME TypeOK, NEW i \in Ids, NEW k \in Keys, NEW e \in Estimates, Reserve(i, k, e)
    PROVE  TypeOK'
  <1> DEFINE K == loadBlockingConstraints(k)
  <1>1. \A c \in K : c \in CounterKeys /\ Hold(c, e) \in Nat
    BY ConstraintsTyped, HoldFits, AmountAssumption DEF Reserve, ReserveAllowed
  <1>2. \A c \in CounterKeys : ensureAndLockCounter(c) \in Counter
    BY EnsuredCounter
  <1> HIDE DEF K
  <1>3. counter' \in [CounterKeys -> Counter]
    <2>1. \A c \in K : [ensureAndLockCounter(c) EXCEPT !.reserved = @ + Hold(c, e)] \in Counter
      BY <1>1, <1>2 DEF Counter
    <2>2. QED
      BY <1>1, <2>1 DEF Reserve, TypeOK, K
  <1>4. resv' \in [Ids -> [CounterKeys -> Row]]
    <2> DEFINE f == [c \in CounterKeys |->
                       IF c \in K /\ Hold(c, e) > 0
                       THEN [status |-> "reserved", amount |-> Hold(c, e), settled |-> 0]
                       ELSE resv[i][c]]
    <2>1. f \in [CounterKeys -> Row]
      BY <1>1 DEF Row, TypeOK
    <2>2. resv' = [resv EXCEPT ![i] = f]
      BY DEF Reserve, K
    <2> HIDE DEF f
    <2>3. QED
      BY <2>1, <2>2 DEF TypeOK
  <1>5. openedWith' \in [CounterKeys -> Nat]
    BY DEF Reserve, TypeOK
  <1>6. QED
    BY <1>3, <1>4, <1>5 DEF Reserve, TypeOK

\* SettleTx keeps counters and rows well-formed for any cost that is a number.
LEMMA SettleTyped ==
    ASSUME TypeOK, NEW i \in Ids, NEW x \in Nat, SettleTx(i, x)
    PROVE  counter' \in [CounterKeys -> Counter] /\ resv' \in [Ids -> [CounterKeys -> Row]]
  <1>1. \A c \in CounterKeys : Lowered(c, i) \in Nat
    BY LoweredTyped
  <1>2. counter' \in [CounterKeys -> Counter]
    <2>1. \A c \in CounterKeys : counter[c] \in Counter
      BY DEF TypeOK
    <2>2. \A c \in CounterKeys :
             [state |-> counter[c].state, settled |-> counter[c].settled + x,
              reserved |-> Lowered(c, i)] \in Counter
      BY <1>1, <2>1 DEF Counter
    <2>3. QED
      BY <2>1, <2>2 DEF SettleTx
  <1> DEFINE f == [c \in CounterKeys |->
                     IF Outstanding(i, c)
                     THEN [status |-> "settled", amount |-> resv[i][c].amount, settled |-> x]
                     ELSE resv[i][c]]
  <1>3. f \in [CounterKeys -> Row]
    <2>1. \A c \in CounterKeys : resv[i][c] \in Row
      BY DEF TypeOK
    <2>2. QED
      BY <2>1 DEF Row
  <1>4. resv' = [resv EXCEPT ![i] = f]
    BY DEF SettleTx
  <1> HIDE DEF f
  <1>5. resv' \in [Ids -> [CounterKeys -> Row]]
    BY <1>3, <1>4 DEF TypeOK
  <1>6. QED
    BY <1>2, <1>5

\* ReleaseTx keeps counters and rows well-formed.
LEMMA ReleaseTyped ==
    ASSUME TypeOK, NEW i \in Ids, ReleaseTx(i)
    PROVE  counter' \in [CounterKeys -> Counter] /\ resv' \in [Ids -> [CounterKeys -> Row]]
  <1>1. \A c \in CounterKeys : Lowered(c, i) \in Nat
    BY LoweredTyped
  <1>2. counter' \in [CounterKeys -> Counter]
    BY <1>1 DEF ReleaseTx, TypeOK, Counter
  <1> DEFINE f == [c \in CounterKeys |->
                     IF Outstanding(i, c)
                     THEN [resv[i][c] EXCEPT !.status = "released"]
                     ELSE resv[i][c]]
  <1>3. f \in [CounterKeys -> Row]
    BY DEF TypeOK, Row
  <1>4. resv' = [resv EXCEPT ![i] = f]
    BY DEF ReleaseTx
  <1> HIDE DEF f
  <1>5. resv' \in [Ids -> [CounterKeys -> Row]]
    BY <1>3, <1>4 DEF TypeOK
  <1>6. QED
    BY <1>2, <1>5

\* The empty tables, with the quotas the API keys came with, are well-formed.
LEMMA InitTyped == Init => TypeOK
  <1> SUFFICES ASSUME Init PROVE TypeOK
    OBVIOUS
  <1>1. 0 \in Days
    BY DaysAssumption DEF Days
  <1>2. budgets \in [Slots -> SUBSET Nat]
    <2>1. \A s \in Slots : s[1] # Org => s \in Keys \X Periods
      BY DEF Slots
    <2>2. QED
      BY <2>1, AmountAssumption DEF Init
  <1>3. NoCounter \in Counter /\ NoRow \in Row /\ NoCost \in CostRecord
    BY <1>1 DEF NoCounter, Counter, NoRow, Row, NoCost, CostRecord
  <1>4. QED
    BY <1>1, <1>2, <1>3 DEF Init, TypeOK

\* Every transaction, and every step of the environment, keeps the tables well-formed.
LEMMA StepTyped == TypeOK /\ [Next]_vars => TypeOK'
  <1> SUFFICES ASSUME TypeOK, [Next]_vars PROVE TypeOK'
    OBVIOUS
  <1>1. CASE \E i \in Ids, k \in Keys, e \in Estimates : Reserve(i, k, e)
    BY <1>1, ReserveTyped
  <1>2. ASSUME NEW i \in Ids, NEW k \in Keys, NEW x \in Costs, NEW d \in 0 .. day,
               RecordSuccess(i, k, x, d)
        PROVE  TypeOK'
    <2>1. x \in Nat /\ d \in Days
      BY AmountAssumption, DaysAssumption DEF TypeOK, Days
    <2>2. counter' \in [CounterKeys -> Counter] /\ resv' \in [Ids -> [CounterKeys -> Row]]
      BY <1>2, <2>1, SettleTyped DEF RecordSuccess
    <2>3. costs' \in [Ids -> CostRecord]
      BY <1>2, <2>1 DEF RecordSuccess, TypeOK, CostRecord
    <2>4. recorded' \in [CounterKeys -> Nat]
      BY <1>2, <2>1 DEF RecordSuccess, TypeOK
    <2>5. QED
      BY <1>2, <2>2, <2>3, <2>4 DEF RecordSuccess, TypeOK
  <1>3. ASSUME NEW i \in Ids, Release(i)
        PROVE  TypeOK'
    BY <1>3, ReleaseTyped DEF Release, TypeOK
  <1>4. ASSUME NEW i \in Ids, RecordFailure(i) \/ RecordCacheHit(i)
        PROVE  TypeOK'
    BY <1>4 DEF RecordFailure, RecordCacheHit, TypeOK
  <1>5. ASSUME NEW p \in Periods, NEW l \in BudgetLimits, CreateBudget(p, l)
        PROVE  TypeOK'
    BY <1>5, AmountAssumption DEF CreateBudget, ledger, TypeOK
  <1>6. CASE AdvanceDay
    BY <1>6, DaysAssumption DEF AdvanceDay, ledger, TypeOK, Days
  <1>7. CASE UNCHANGED vars
    BY <1>7 DEF vars, ledger, TypeOK
  <1>8. QED
    BY <1>1, <1>2, <1>3, <1>4, <1>5, <1>6, <1>7 DEF Next

\* The ledger's tables only ever hold well-formed rows: no reservation,
\* settlement or release, in any order and with any amounts, drives a counter
\* below zero.
THEOREM TypeCorrect == Spec => []TypeOK
  BY InitTyped, StepTyped, PTL DEF Spec

-----------------------------------------------------------------------------
(* What each transaction does to the reservation rows and to the counters  *)

\* What Reserve leaves in every row.
LEMMA ReserveWrites ==
    ASSUME TypeOK, NEW i \in Ids, NEW k \in Keys, NEW e \in Estimates, Reserve(i, k, e)
    PROVE  \A j \in Ids, c \in CounterKeys :
              resv'[j][c] = IF j = i /\ c \in loadBlockingConstraints(k) /\ Hold(c, e) > 0
                            THEN [status |-> "reserved", amount |-> Hold(c, e), settled |-> 0]
                            ELSE resv[j][c]
  <1> DEFINE f == [c \in CounterKeys |->
                     IF c \in loadBlockingConstraints(k) /\ Hold(c, e) > 0
                     THEN [status |-> "reserved", amount |-> Hold(c, e), settled |-> 0]
                     ELSE resv[i][c]]
  <1>1. resv' = [resv EXCEPT ![i] = f]
    BY DEF Reserve
  <1>2. \A j \in Ids : resv'[j] = IF j = i THEN f ELSE resv[j]
    <2> HIDE DEF f
    <2>1. QED
      BY <1>1 DEF TypeOK
  <1>3. QED
    <2>1. SUFFICES ASSUME NEW j \in Ids, NEW c \in CounterKeys
          PROVE  resv'[j][c] = IF j = i THEN f[c] ELSE resv[j][c]
      OBVIOUS
    <2> HIDE DEF f
    <2>2. QED
      BY <1>2

\* Reserve only adds rows where there were none, each next to its counter.
LEMMA ReserveEffect ==
    ASSUME TypeOK, NEW i \in Ids, NEW k \in Keys, NEW e \in Estimates, Reserve(i, k, e)
    PROVE  \A j \in Ids, c \in CounterKeys :
              /\ counter[c].state = "present" => counter'[c].state = "present"
              /\ \/ resv'[j][c] = resv[j][c]
                 \/ /\ resv[j][c].status = "none"
                    /\ resv'[j][c].status = "reserved"
                    /\ resv'[j][c].amount > 0
                    /\ counter'[c].state = "present"
  <1> DEFINE K == loadBlockingConstraints(k)
  <1>1. \A c \in CounterKeys :
           counter'[c] = IF c \in K
                         THEN [ensureAndLockCounter(c) EXCEPT !.reserved = @ + Hold(c, e)]
                         ELSE counter[c]
    BY DEF Reserve
  <1>2. \A j \in Ids, c \in CounterKeys :
           resv'[j][c] = IF j = i /\ c \in K /\ Hold(c, e) > 0
                         THEN [status |-> "reserved", amount |-> Hold(c, e), settled |-> 0]
                         ELSE resv[j][c]
    BY ReserveWrites
  <1>3. \A c \in K : Hold(c, e) > 0 => resv[i][c].status = "none"
    BY DEF Reserve, ReserveAllowed, Conflicts
  <1>4. \A c \in CounterKeys : /\ ensureAndLockCounter(c) \in Counter
                               /\ ensureAndLockCounter(c).state = "present"
    BY EnsuredCounter
  <1> HIDE DEF K
  <1>5. \A c \in CounterKeys : c \in K => counter'[c].state = "present"
    BY <1>1, <1>4 DEF Counter
  <1>6. ASSUME NEW j \in Ids, NEW c \in CounterKeys, resv'[j][c] # resv[j][c]
        PROVE  /\ resv[j][c].status = "none"
               /\ resv'[j][c].status = "reserved"
               /\ resv'[j][c].amount > 0
               /\ counter'[c].state = "present"
    <2>1. j = i /\ c \in K /\ Hold(c, e) > 0
      BY <1>2, <1>6
    <2>2. resv'[j][c] = [status |-> "reserved", amount |-> Hold(c, e), settled |-> 0]
      BY <1>2, <2>1
    <2>3. QED
      BY <1>3, <1>5, <2>1, <2>2
  <1>7. \A c \in CounterKeys : counter[c].state = "present" => counter'[c].state = "present"
    BY <1>1, <1>5
  <1>8. QED
    BY <1>6, <1>7

\* What SettleTx leaves in every row.
LEMMA SettleWrites ==
    ASSUME TypeOK, NEW i \in Ids, NEW x \in Nat, SettleTx(i, x)
    PROVE  \A j \in Ids, c \in CounterKeys :
              resv'[j][c] = IF j = i /\ Outstanding(i, c)
                            THEN [status |-> "settled", amount |-> resv[i][c].amount, settled |-> x]
                            ELSE resv[j][c]
  <1> DEFINE f == [c \in CounterKeys |->
                     IF Outstanding(i, c)
                     THEN [status |-> "settled", amount |-> resv[i][c].amount, settled |-> x]
                     ELSE resv[i][c]]
  <1>1. resv' = [resv EXCEPT ![i] = f]
    BY DEF SettleTx
  <1>2. \A j \in Ids : resv'[j] = IF j = i THEN f ELSE resv[j]
    <2> HIDE DEF f
    <2>1. QED
      BY <1>1 DEF TypeOK
  <1>3. QED
    BY <1>2

\* SettleTx closes the outstanding rows of its own request, with its own cost.
LEMMA SettleEffect ==
    ASSUME TypeOK, NEW i \in Ids, NEW x \in Nat, SettleTx(i, x)
    PROVE  \A j \in Ids, c \in CounterKeys :
              /\ counter'[c].state = counter[c].state
              /\ \/ resv'[j][c] = resv[j][c]
                 \/ /\ j = i
                    /\ resv[j][c].status = "reserved"
                    /\ resv'[j][c].status = "settled"
                    /\ resv'[j][c].settled = x
                    /\ resv'[j][c].amount = resv[j][c].amount
  <1>1. \A c \in CounterKeys : counter'[c].state = counter[c].state
    BY DEF SettleTx, TypeOK, Counter
  <1>2. \A j \in Ids, c \in CounterKeys :
           resv'[j][c] = IF j = i /\ Outstanding(i, c)
                         THEN [status |-> "settled", amount |-> resv[i][c].amount, settled |-> x]
                         ELSE resv[j][c]
    BY SettleWrites
  <1>3. ASSUME NEW j \in Ids, NEW c \in CounterKeys, resv'[j][c] # resv[j][c]
        PROVE  /\ j = i
               /\ resv[j][c].status = "reserved"
               /\ resv'[j][c].status = "settled"
               /\ resv'[j][c].settled = x
               /\ resv'[j][c].amount = resv[j][c].amount
    <2>1. j = i /\ Outstanding(i, c)
      BY <1>2, <1>3
    <2>2. resv'[j][c] = [status |-> "settled", amount |-> resv[i][c].amount, settled |-> x]
      BY <1>2, <2>1
    <2>3. QED
      BY <2>1, <2>2 DEF Outstanding
  <1>4. QED
    BY <1>1, <1>3

\* What ReleaseTx leaves in every row.
LEMMA ReleaseWrites ==
    ASSUME TypeOK, NEW i \in Ids, ReleaseTx(i)
    PROVE  \A j \in Ids, c \in CounterKeys :
              resv'[j][c] = IF j = i /\ Outstanding(i, c)
                            THEN [resv[i][c] EXCEPT !.status = "released"]
                            ELSE resv[j][c]
  <1> DEFINE f == [c \in CounterKeys |->
                     IF Outstanding(i, c)
                     THEN [resv[i][c] EXCEPT !.status = "released"]
                     ELSE resv[i][c]]
  <1>1. resv' = [resv EXCEPT ![i] = f]
    BY DEF ReleaseTx
  <1>2. \A j \in Ids : resv'[j] = IF j = i THEN f ELSE resv[j]
    <2> HIDE DEF f
    <2>1. QED
      BY <1>1 DEF TypeOK
  <1>3. QED
    BY <1>2

\* ReleaseTx closes the outstanding rows of its own request, without a cost.
LEMMA ReleaseEffect ==
    ASSUME TypeOK, NEW i \in Ids, ReleaseTx(i)
    PROVE  \A j \in Ids, c \in CounterKeys :
              /\ counter'[c].state = counter[c].state
              /\ \/ resv'[j][c] = resv[j][c]
                 \/ /\ resv[j][c].status = "reserved"
                    /\ resv'[j][c].status = "released"
                    /\ resv'[j][c].amount = resv[j][c].amount
  <1>1. \A c \in CounterKeys : counter'[c].state = counter[c].state
    BY DEF ReleaseTx, TypeOK, Counter
  <1>2. \A j \in Ids, c \in CounterKeys :
           resv'[j][c] = IF j = i /\ Outstanding(i, c)
                         THEN [resv[i][c] EXCEPT !.status = "released"]
                         ELSE resv[j][c]
    BY ReleaseWrites
  <1>3. \A j \in Ids, c \in CounterKeys : resv[j][c] \in Row
    BY DEF TypeOK
  <1>4. ASSUME NEW j \in Ids, NEW c \in CounterKeys, resv'[j][c] # resv[j][c]
        PROVE  /\ resv[j][c].status = "reserved"
               /\ resv'[j][c].status = "released"
               /\ resv'[j][c].amount = resv[j][c].amount
    <2>1. j = i /\ Outstanding(i, c)
      BY <1>2, <1>4
    <2>2. resv'[j][c] = [resv[i][c] EXCEPT !.status = "released"]
      BY <1>2, <2>1
    <2>3. QED
      BY <1>3, <2>1, <2>2 DEF Outstanding, Row
  <1>5. QED
    BY <1>1, <1>4

-----------------------------------------------------------------------------
(* Safety                                                                  *)

\* The empty ledger satisfies the inductive invariant.
LEMMA InitSafe == Init => LedgerInv
  <1> SUFFICES ASSUME Init PROVE LedgerInv
    OBVIOUS
  <1>1. TypeOK
    BY InitTyped
  <1>2. \A i \in Ids, c \in CounterKeys : resv[i][c].status = "none"
    BY DEF Init, NoRow
  <1>3. ChargedIffLogged
    BY DEF Init, NoCost, ChargedIffLogged
  <1>4. QED
    BY <1>1, <1>2, <1>3 DEF LedgerInv, SettledRowsCharged, RowsHaveCounters

\* Every transaction keeps the inductive invariant: RecordSuccess writes log, cost
\* record and settlement together, and the primary key of request_logs keeps any
\* later record from touching the log again.
LEMMA StepSafe == LedgerInv /\ [Next]_vars => LedgerInv'
  <1> SUFFICES ASSUME LedgerInv, [Next]_vars PROVE LedgerInv'
    OBVIOUS
  <1> USE DEF LedgerInv
  <1>0. TypeOK'
    BY StepTyped
  <1>1. ASSUME NEW i \in Ids, NEW k \in Keys, NEW e \in Estimates, Reserve(i, k, e)
        PROVE  LedgerInv'
    <2>1. UNCHANGED <<logs, costs>>
      BY <1>1 DEF Reserve
    <2>2. ChargedIffLogged'
      BY <2>1 DEF ChargedIffLogged
    <2>3. SettledRowsCharged'
      BY <1>1, <2>1, ReserveEffect DEF SettledRowsCharged
    <2>4. RowsHaveCounters'
      BY <1>1, ReserveEffect DEF RowsHaveCounters
    <2>5. QED
      BY <1>0, <2>2, <2>3, <2>4
  <1>2. ASSUME NEW i \in Ids, NEW k \in Keys, NEW x \in Costs, NEW d \in 0 .. day,
               RecordSuccess(i, k, x, d)
        PROVE  LedgerInv'
    <2>1. x \in Nat /\ SettleTx(i, x)
      BY <1>2, AmountAssumption DEF RecordSuccess
    <2>2. \A j \in Ids :
             costs'[j] = IF j = i THEN [state |-> "present", cost |-> x, day |-> d] ELSE costs[j]
      BY <1>2 DEF RecordSuccess, TypeOK
    <2>3. costs[i].state # "present"
      BY <1>2 DEF RecordSuccess, ChargedIffLogged
    <2>4. ChargedIffLogged'
      BY <1>2, <2>2 DEF RecordSuccess, ChargedIffLogged, TypeOK
    <2>5. SettledRowsCharged'
      BY <2>1, <2>2, <2>3, SettleEffect DEF SettledRowsCharged
    <2>6. RowsHaveCounters'
      BY <2>1, SettleEffect DEF RowsHaveCounters
    <2>7. QED
      BY <1>0, <2>4, <2>5, <2>6
  <1>3. ASSUME NEW i \in Ids, Release(i)
        PROVE  LedgerInv'
    <2>1. ReleaseTx(i) /\ UNCHANGED <<logs, costs>>
      BY <1>3 DEF Release
    <2>2. ChargedIffLogged'
      BY <2>1 DEF ChargedIffLogged
    <2>3. SettledRowsCharged'
      BY <2>1, ReleaseEffect DEF SettledRowsCharged
    <2>4. RowsHaveCounters'
      BY <2>1, ReleaseEffect DEF RowsHaveCounters
    <2>5. QED
      BY <1>0, <2>2, <2>3, <2>4
  <1>4. ASSUME NEW i \in Ids, RecordFailure(i) \/ RecordCacheHit(i)
        PROVE  LedgerInv'
    <2>1. ChargedIffLogged'
      BY <1>4 DEF RecordFailure, RecordCacheHit, ChargedIffLogged, TypeOK
    <2>2. UNCHANGED <<counter, resv, costs>>
      BY <1>4 DEF RecordFailure, RecordCacheHit
    <2>3. QED
      BY <1>0, <2>1, <2>2 DEF SettledRowsCharged, RowsHaveCounters
  <1>5. CASE \/ \E p \in Periods, l \in BudgetLimits : CreateBudget(p, l)
             \/ AdvanceDay
             \/ UNCHANGED vars
    <2>1. UNCHANGED ledger
      BY <1>5 DEF CreateBudget, AdvanceDay, vars
    <2>2. QED
      BY <1>0, <2>1 DEF ledger, ChargedIffLogged, SettledRowsCharged, RowsHaveCounters
  <1>6. QED
    BY <1>1, <1>2, <1>3, <1>4, <1>5 DEF Next

\* The inductive invariant holds in every reachable state of the ledger.
THEOREM LedgerSafe == Spec => []LedgerInv
  BY InitSafe, StepSafe, PTL DEF Spec

\* The metering transaction is all or nothing, for any interleaving of any
\* number of requests: whatever is settled on a counter has its cost record.
THEOREM SettledIsCharged == Spec => []SettledRowsCharged
  BY LedgerSafe, PTL DEF LedgerInv

\* Cost records and success logs come in pairs.
THEOREM ChargedIsLogged == Spec => []ChargedIffLogged
  BY LedgerSafe, PTL DEF LedgerInv

\* SettleTx and ReleaseTx always find the counter their rows name.
THEOREM CountersFound == Spec => []RowsHaveCounters
  BY LedgerSafe, PTL DEF LedgerInv

-----------------------------------------------------------------------------
(* What a step may never do                                                *)

\* Only Reserve raises what a counter holds, and it checks the limit it then fills.
LEMMA StepAdmits ==
    ASSUME TypeOK, [Next]_vars, NEW c \in CounterKeys,
           counter'[c].reserved > counter[c].reserved
    PROVE  counter'[c].settled + counter'[c].reserved =< LimitOf(c)
  <1>1. ASSUME NEW i \in Ids, NEW k \in Keys, NEW e \in Estimates, Reserve(i, k, e)
        PROVE  counter'[c].settled + counter'[c].reserved =< LimitOf(c)
    <2>1. counter'[c] = IF c \in loadBlockingConstraints(k)
                        THEN [ensureAndLockCounter(c) EXCEPT !.reserved = @ + Hold(c, e)]
                        ELSE counter[c]
      BY <1>1 DEF Reserve
    <2>2. c \in loadBlockingConstraints(k)
      BY <2>1 DEF TypeOK, Counter
    <2>3. /\ Hold(c, e) \in Nat
          /\ Used(c) + Hold(c, e) =< LimitOf(c)
          /\ LimitOf(c) \in Nat
      BY <1>1, <2>2, HoldFits, ConstraintsTyped, AmountAssumption DEF Reserve, ReserveAllowed
    <2>4. ensureAndLockCounter(c) \in Counter
      BY EnsuredCounter
    <2>5. /\ counter'[c].settled = ensureAndLockCounter(c).settled
          /\ counter'[c].reserved = ensureAndLockCounter(c).reserved + Hold(c, e)
      BY <2>1, <2>2, <2>4 DEF Counter
    <2>6. QED
      BY <2>3, <2>4, <2>5 DEF Used, Counter
  <1>2. ASSUME NEW i \in Ids, NEW k \in Keys, NEW x \in Costs, NEW d \in 0 .. day,
               RecordSuccess(i, k, x, d)
        PROVE  FALSE
    <2>1. counter'[c].reserved \in {counter[c].reserved, Lowered(c, i)}
      BY <1>2 DEF RecordSuccess, SettleTx
    <2>2. QED
      BY <2>1, LoweredTyped DEF TypeOK, Counter
  <1>3. ASSUME NEW i \in Ids, Release(i)
        PROVE  FALSE
    <2>1. counter[c] \in Counter
      BY DEF TypeOK
    <2>2. counter'[c].reserved \in {counter[c].reserved, Lowered(c, i)}
      BY <1>3, <2>1 DEF Release, ReleaseTx, Counter
    <2>3. QED
      BY <2>1, <2>2, LoweredTyped DEF Counter
  <1>4. CASE UNCHANGED counter
    BY <1>4 DEF TypeOK, Counter
  <1>5. QED
    BY <1>1, <1>2, <1>3, <1>4
       DEF Next, RecordFailure, RecordCacheHit, CreateBudget, AdvanceDay, vars, ledger

\* However requests interleave, no admission takes a window over the strictest
\* limit in force when it is made.
THEOREM AdmissionsFit == Spec => AdmissionWithinLimit
  <1>1. TypeOK /\ [Next]_vars =>
           [\A c \in CounterKeys :
               counter'[c].reserved > counter[c].reserved =>
                   counter'[c].settled + counter'[c].reserved =< LimitOf(c)]_vars
    BY StepAdmits
  <1>2. QED
    BY <1>1, TypeCorrect, PTL DEF Spec, AdmissionWithinLimit

\* Rows that are closed, amounts that are held and costs that are recorded.
Kept(i) ==
    /\ costs[i].state = "present" => costs'[i] = costs[i]
    /\ \A c \in CounterKeys :
          /\ resv[i][c].status \in {"settled", "released"} => resv'[i][c] = resv[i][c]
          /\ resv[i][c].status = "reserved" => resv'[i][c].amount = resv[i][c].amount

\* No transaction touches a closed row, an outstanding amount or a cost record: the
\* unique index stops Reserve, WHERE status = 'reserved' SettleTx and ReleaseTx, the
\* primary key of request_logs RecordSuccess.
LEMMA StepKeeps ==
    ASSUME LedgerInv, [Next]_vars, NEW i \in Ids
    PROVE  Kept(i)
  <1> USE DEF LedgerInv
  <1>1. ASSUME NEW j \in Ids, NEW k \in Keys, NEW e \in Estimates, Reserve(j, k, e)
        PROVE  Kept(i)
    <2>1. UNCHANGED costs
      BY <1>1 DEF Reserve
    <2>2. QED
      BY <1>1, <2>1, ReserveEffect DEF Kept
  <1>2. ASSUME NEW j \in Ids, NEW k \in Keys, NEW x \in Costs, NEW d \in 0 .. day,
               RecordSuccess(j, k, x, d)
        PROVE  Kept(i)
    <2>1. x \in Nat /\ SettleTx(j, x)
      BY <1>2, AmountAssumption DEF RecordSuccess
    <2>2. costs[i].state = "present" => costs'[i] = costs[i]
      BY <1>2 DEF RecordSuccess, ChargedIffLogged, TypeOK
    <2>3. QED
      BY <2>1, <2>2, SettleEffect DEF Kept
  <1>3. ASSUME NEW j \in Ids, Release(j)
        PROVE  Kept(i)
    <2>1. ReleaseTx(j) /\ UNCHANGED costs
      BY <1>3 DEF Release
    <2>2. QED
      BY <2>1, ReleaseEffect DEF Kept
  <1>4. CASE UNCHANGED <<resv, costs>>
    BY <1>4 DEF Kept
  <1>5. QED
    BY <1>1, <1>2, <1>3, <1>4
       DEF Next, RecordFailure, RecordCacheHit, CreateBudget, AdvanceDay, vars, ledger

\* Nothing is charged twice or given back twice, however often and in whatever
\* order Reserve, RecordSuccess and Release are called for a request id.
THEOREM ClosedStaysClosed == Spec => ClosedRowsFinal
  <1>1. LedgerInv /\ [Next]_vars => [\A i \in Ids : Kept(i)]_vars
    BY StepKeeps
  <1>2. QED
    BY <1>1, LedgerSafe, PTL DEF Spec, ClosedRowsFinal, Kept

-----------------------------------------------------------------------------
(* Sums                                                                    *)

\* The element a fold takes first, and one step of the fold.
Pick(s) == CHOOSE x \in s : TRUE
Adds(f, g, s) == IF s = {} THEN 0 ELSE f[Pick(s)] + g[s \ {Pick(s)}]

\* g sums up f over every subset of S.
Sums(g, f, S) == g = [s \in SUBSET S |-> Adds(f, g, s)]

\* The prover has no induction over sets: a statement about all subsets of a finite set
\* that fails somewhere fails for one with the fewest elements.
LEMMA SmallestSet ==
    ASSUME NEW S, IsFiniteSet(S), NEW B \in SUBSET SUBSET S, B # {}
    PROVE  \E s \in B : /\ IsFiniteSet(s)
                        /\ \A t \in B : IsFiniteSet(t) /\ Cardinality(s) =< Cardinality(t)
  <1> DEFINE N == {Cardinality(s) : s \in B}
  <1>1. \A s \in B : IsFiniteSet(s) /\ Cardinality(s) \in Nat
    BY FS_Subset, FS_CardinalityType
  <1>2. N \in SUBSET Nat /\ N # {}
    BY <1>1
  <1>3. Min(N) \in N /\ \A n \in N : Min(N) =< n
    BY <1>2, StrictestLimit
  <1>4. PICK s \in B : Cardinality(s) = Min(N)
    BY <1>3
  <1>5. QED
    BY <1>1, <1>3, <1>4

\* A finite set without one of its members has one member less.
LEMMA OneLess ==
    ASSUME NEW S, IsFiniteSet(S), NEW s \in SUBSET S, NEW x \in s
    PROVE  /\ IsFiniteSet(s) /\ IsFiniteSet(s \ {x}) /\ Cardinality(s) \in Nat /\ Cardinality(s \ {x}) \in Nat
           /\ Cardinality(s \ {x}) < Cardinality(s) /\ Cardinality(s \ {x}) = Cardinality(s) - 1
  <1>1. IsFiniteSet(s)
    BY FS_Subset
  <1>2. IsFiniteSet(s \ {x}) /\ Cardinality(s \ {x}) = Cardinality(s) - 1
    BY <1>1, FS_RemoveElement
  <1>3. QED
    BY <1>1, <1>2, FS_CardinalityType

\* The fold is well defined.
LEMMA SumsExist ==
    ASSUME NEW S, IsFiniteSet(S), NEW f, \A x \in S : f[x] \in Nat
    PROVE  \E g : Sums(g, f, S)
  <1> DEFINE L(n) == {s \in SUBSET S : Cardinality(s) =< n}
             P(n) == \E g \in [L(n) -> Nat] : \A s \in L(n) : g[s] = Adds(f, g, s)
  <1>1. P(0)
    <2> DEFINE g == [s \in L(0) |-> 0]
    <2>1. \A s \in L(0) : s = {}
      <3>1. \A s \in SUBSET S : IsFiniteSet(s) /\ Cardinality(s) \in Nat
        BY FS_Subset, FS_CardinalityType
      <3>2. QED
        BY <3>1, FS_EmptySet
    <2>2. g \in [L(0) -> Nat] /\ \A s \in L(0) : g[s] = Adds(f, g, s)
      BY <2>1 DEF Adds
    <2>3. QED
      BY <2>2
  <1>2. ASSUME NEW n \in Nat, P(n)
        PROVE  P(n + 1)
    <2>1. PICK g \in [L(n) -> Nat] : \A s \in L(n) : g[s] = Adds(f, g, s)
      BY <1>2
    <2> DEFINE h == [s \in L(n + 1) |-> Adds(f, g, s)]
    <2>2. ASSUME NEW s \in L(n + 1), s # {}
          PROVE  Pick(s) \in s /\ s \ {Pick(s)} \in L(n)
      <3>1. Pick(s) \in s
        BY <2>2 DEF Pick
      <3>2. Cardinality(s) \in Nat /\ Cardinality(s \ {Pick(s)}) = Cardinality(s) - 1
        BY <3>1, OneLess
      <3>3. QED
        BY <3>1, <3>2
    <2>3. \A s \in L(n) : s \in L(n + 1)
      <3>1. \A s \in SUBSET S : Cardinality(s) \in Nat
        BY FS_Subset, FS_CardinalityType
      <3>2. QED
        BY <3>1
    <2> HIDE DEF L
    <2>4. h \in [L(n + 1) -> Nat]
      <3> SUFFICES ASSUME NEW s \in L(n + 1) PROVE Adds(f, g, s) \in Nat
        OBVIOUS
      <3>1. CASE s = {}
        BY <3>1 DEF Adds
      <3>2. CASE s # {}
        <4>1. f[Pick(s)] \in Nat /\ g[s \ {Pick(s)}] \in Nat
          BY <2>1, <2>2, <3>2 DEF L
        <4>2. QED
          BY <3>2, <4>1 DEF Adds
      <3>3. QED
        BY <3>1, <3>2
    <2>5. \A t \in L(n) : h[t] = g[t]
      BY <2>1, <2>3
    <2>6. ASSUME NEW s \in L(n + 1)
          PROVE  h[s] = Adds(f, h, s)
      BY <2>2, <2>5 DEF Adds
    <2>7. QED
      BY <2>4, <2>6
  <1>3. \A n \in Nat : P(n)
    <2> DEFINE B == {n \in Nat : ~P(n)}
    <2> SUFFICES ASSUME B # {} PROVE FALSE
      OBVIOUS
    <2> HIDE DEF P
    <2>1. Min(B) \in B /\ \A n \in B : Min(B) =< n
      BY StrictestLimit
    <2>2. PICK m \in Nat : m = Min(B) /\ ~P(m)
      BY <2>1
    <2>3. m # 0
      BY <1>1, <2>2
    <2>4. m - 1 \in Nat /\ ~(m =< m - 1) /\ (m - 1) + 1 = m
      BY <2>2, <2>3
    <2>5. P(m - 1)
      BY <2>1, <2>2, <2>4
    <2>6. QED
      BY <1>2, <2>2, <2>4, <2>5
  <1>4. Cardinality(S) \in Nat /\ L(Cardinality(S)) = SUBSET S
    BY FS_CardinalityType, FS_Subset
  <1>5. PICK g \in [SUBSET S -> Nat] : \A s \in SUBSET S : g[s] = Adds(f, g, s)
    <2>1. P(Cardinality(S))
      BY <1>3, <1>4
    <2>2. QED
      BY <1>4, <2>1
  <1>6. QED
    BY <1>5 DEF Sums

\* Two sums over functions that agree are equal, wherever both are defined.
LEMMA SumsUnique ==
    ASSUME NEW S, IsFiniteSet(S), NEW T, NEW f, NEW h, NEW g, NEW k,
           Sums(g, f, S), Sums(k, h, T), S \subseteq T, \A x \in S : f[x] = h[x]
    PROVE  \A s \in SUBSET S : g[s] = k[s]
  <1> DEFINE B == {s \in SUBSET S : g[s] # k[s]}
  <1> SUFFICES ASSUME B # {} PROVE FALSE
    OBVIOUS
  <1>1. PICK s \in B : \A t \in B : Cardinality(s) =< Cardinality(t)
    BY SmallestSet
  <1>2. g[s] = Adds(f, g, s) /\ k[s] = Adds(h, k, s)
    BY DEF Sums
  <1>3. s # {}
    BY <1>1, <1>2 DEF Adds
  <1>4. Pick(s) \in s /\ Pick(s) \in S
    BY <1>3 DEF Pick
  <1>5. s \ {Pick(s)} \in B
    BY <1>1, <1>2, <1>3, <1>4 DEF Adds
  <1>6. /\ Cardinality(s) \in Nat /\ Cardinality(s \ {Pick(s)}) \in Nat
        /\ Cardinality(s \ {Pick(s)}) < Cardinality(s)
    BY <1>4, OneLess
  <1>7. Cardinality(s) =< Cardinality(s \ {Pick(s)})
    BY <1>1, <1>5
  <1>8. QED
    BY <1>6, <1>7

\* The sums of natural numbers are natural numbers.
LEMMA SumsTyped ==
    ASSUME NEW S, IsFiniteSet(S), NEW f, NEW g, Sums(g, f, S), \A x \in S : f[x] \in Nat
    PROVE  \A s \in SUBSET S : g[s] \in Nat
  <1> DEFINE B == {s \in SUBSET S : g[s] \notin Nat}
  <1> SUFFICES ASSUME B # {} PROVE FALSE
    OBVIOUS
  <1>1. PICK s \in B : \A t \in B : Cardinality(s) =< Cardinality(t)
    BY SmallestSet
  <1>2. g[s] = Adds(f, g, s)
    BY DEF Sums
  <1>3. s # {}
    BY <1>1, <1>2 DEF Adds
  <1>4. Pick(s) \in s /\ Pick(s) \in S
    BY <1>3 DEF Pick
  <1>5. s \ {Pick(s)} \in B
    <2>1. f[Pick(s)] \in Nat /\ s \ {Pick(s)} \in SUBSET S
      BY <1>4
    <2>2. g[s] = f[Pick(s)] + g[s \ {Pick(s)}]
      BY <1>2, <1>3 DEF Adds
    <2>3. QED
      BY <2>1, <2>2
  <1>6. /\ Cardinality(s) \in Nat /\ Cardinality(s \ {Pick(s)}) \in Nat
        /\ Cardinality(s \ {Pick(s)}) < Cardinality(s)
    BY <1>4, OneLess
  <1>7. Cardinality(s) =< Cardinality(s \ {Pick(s)})
    BY <1>1, <1>5
  <1>8. QED
    BY <1>6, <1>7

\* The order in which a fold takes the elements does not matter.
LEMMA AnyFirst ==
    ASSUME NEW S, IsFiniteSet(S), NEW f, NEW g, Sums(g, f, S), \A x \in S : f[x] \in Nat
    PROVE  \A s \in SUBSET S : \A y \in s : g[s] = f[y] + g[s \ {y}]
  <1> DEFINE B == {s \in SUBSET S : \E y \in s : g[s] # f[y] + g[s \ {y}]}
  <1> SUFFICES ASSUME B # {} PROVE FALSE
    OBVIOUS
  <1>1. PICK s \in B : \A t \in B : Cardinality(s) =< Cardinality(t)
    BY SmallestSet
  <1>2. PICK y \in s : g[s] # f[y] + g[s \ {y}]
    OBVIOUS
  <1> DEFINE x == Pick(s)
  <1>3. x \in s /\ g[s] = f[x] + g[s \ {x}]
    BY DEF Sums, Adds, Pick
  <1>4. x # y
    BY <1>2, <1>3
  <1>5. s \ {x} \notin B /\ s \ {y} \notin B
    <2>1. /\ Cardinality(s) \in Nat /\ Cardinality(s \ {x}) \in Nat /\ Cardinality(s \ {y}) \in Nat
          /\ Cardinality(s \ {x}) < Cardinality(s) /\ Cardinality(s \ {y}) < Cardinality(s)
      BY <1>3, OneLess
    <2>2. QED
      BY <1>1, <2>1
  <1>6. g[s \ {x}] = f[y] + g[(s \ {x}) \ {y}] /\ g[s \ {y}] = f[x] + g[(s \ {y}) \ {x}]
    <2>1. \A u \in SUBSET S : u \notin B => \A z \in u : g[u] = f[z] + g[u \ {z}]
      OBVIOUS
    <2>2. s \ {x} \in SUBSET S /\ s \ {y} \in SUBSET S /\ y \in s \ {x} /\ x \in s \ {y}
      BY <1>3, <1>4
    <2> HIDE DEF B, x
    <2>3. QED
      BY <1>5, <2>1, <2>2
  <1>7. (s \ {x}) \ {y} = (s \ {y}) \ {x}
    OBVIOUS
  <1>8. f[x] \in Nat /\ f[y] \in Nat /\ g[(s \ {x}) \ {y}] \in Nat
    BY <1>3, SumsTyped
  <1>9. f[x] + (f[y] + g[(s \ {x}) \ {y}]) = f[y] + (f[x] + g[(s \ {x}) \ {y}])
    BY <1>8
  <1> HIDE DEF x
  <1>10. QED
    BY <1>2, <1>3, <1>6, <1>7, <1>9

\* Total(f, S) is a sum in the sense of Sums.
LEMMA TotalSums ==
    ASSUME NEW S, IsFiniteSet(S), NEW f, \A x \in S : f[x] \in Nat
    PROVE  \E g : Sums(g, f, S) /\ Total(f, S) = g[S]
  <1> DEFINE r == CHOOSE g : Sums(g, f, S)
  <1>1. Total(f, S) = r[S]
    BY DEF Total, MapThenSumSet, MapThenFoldSet, Sums, Adds, Pick
  <1>2. Sums(r, f, S)
    BY SumsExist
  <1>3. QED
    BY <1>1, <1>2

\* A total of natural numbers is one.
LEMMA TotalTyped ==
    ASSUME NEW S, IsFiniteSet(S), NEW f, \A x \in S : f[x] \in Nat
    PROVE  Total(f, S) \in Nat
  BY TotalSums, SumsTyped

\* The total over nothing is 0.
LEMMA TotalEmpty ==
    ASSUME NEW f
    PROVE  Total(f, {}) = 0
  <1>1. PICK g : Sums(g, f, {}) /\ Total(f, {}) = g[{}]
    BY TotalSums, FS_EmptySet
  <1>2. QED
    BY <1>1 DEF Sums, Adds

\* A total depends only on the values on its set.
LEMMA TotalAgree ==
    ASSUME NEW S, IsFiniteSet(S), NEW f, NEW h, \A x \in S : f[x] \in Nat /\ h[x] = f[x]
    PROVE  Total(h, S) = Total(f, S)
  <1>1. PICK g : Sums(g, f, S) /\ Total(f, S) = g[S]
    BY TotalSums
  <1>2. PICK k : Sums(k, h, S) /\ Total(h, S) = k[S]
    BY TotalSums
  <1>3. \A s \in SUBSET S : g[s] = k[s]
    BY <1>1, <1>2, SumsUnique
  <1>4. QED
    BY <1>1, <1>2, <1>3

\* A sum without one of its terms, and with another one.
LEMMA TotalRemove ==
    ASSUME NEW S, IsFiniteSet(S), NEW x \in S, NEW f, NEW h,
           \A y \in S : f[y] \in Nat, \A y \in S \ {x} : h[y] = f[y]
    PROVE  Total(f, S) = f[x] + Total(h, S \ {x}) /\ Total(h, S \ {x}) \in Nat
  <1>f. IsFiniteSet(S \ {x})
    BY FS_RemoveElement
  <1>1. PICK g : Sums(g, f, S) /\ Total(f, S) = g[S]
    BY TotalSums
  <1>2. PICK k : Sums(k, h, S \ {x}) /\ Total(h, S \ {x}) = k[S \ {x}]
    BY <1>f, TotalSums
  <1>3. k[S \ {x}] = g[S \ {x}]
    <2>1. \A s \in SUBSET (S \ {x}) : k[s] = g[s]
      BY <1>f, <1>1, <1>2, SumsUnique
    <2>2. QED
      BY <2>1
  <1>4. g[S] = f[x] + g[S \ {x}]
    BY <1>1, AnyFirst
  <1>5. Total(h, S \ {x}) \in Nat
    BY <1>f, TotalTyped
  <1>6. QED
    BY <1>1, <1>2, <1>3, <1>4, <1>5

\* What a new member adds to a total.
LEMMA TotalAdd ==
    ASSUME NEW S, IsFiniteSet(S), NEW x, x \notin S, NEW T, T = S \cup {x},
           NEW f, NEW h, h[x] \in Nat, \A y \in S : f[y] \in Nat, \A y \in S : h[y] = f[y]
    PROVE  Total(h, T) = Total(f, S) + h[x] /\ Total(f, S) \in Nat
  <1>1. IsFiniteSet(T)
    BY FS_AddElement
  <1>2. x \in T /\ T \ {x} = S /\ \A y \in T : h[y] \in Nat
    OBVIOUS
  <1>3. Total(h, T) = h[x] + Total(f, T \ {x}) /\ Total(f, T \ {x}) \in Nat
    BY <1>1, <1>2, TotalRemove
  <1>4. Total(h, T) = h[x] + Total(f, S) /\ Total(f, S) \in Nat
    BY <1>2, <1>3
  <1>5. QED
    BY <1>4

-----------------------------------------------------------------------------
(* The reservation rows of one counter, as a function p from request ids   *)
(* to rows                                                                 *)

Opened(p) == {i \in Ids : p[i].status = "reserved"}
Settled(p) == {i \in Ids : p[i].status = "settled"}
Held(p) == Total([i \in Ids |-> p[i].amount], Opened(p))
Charged(p) == Total([i \in Ids |-> p[i].settled], Settled(p))
Over(p) == Total([i \in Ids |-> Excess(p[i])], Settled(p))

\* Reservations are made one by one, so a counter only ever has finitely many rows.
Finite(p) == IsFiniteSet({i \in Ids : p[i].status # "none"})

\* The sums over the rows on a counter are natural numbers.
LEMMA RowsTyped ==
    ASSUME NEW p \in [Ids -> Row], Finite(p)
    PROVE  /\ IsFiniteSet(Opened(p)) /\ IsFiniteSet(Settled(p))
           /\ Held(p) \in Nat /\ Charged(p) \in Nat /\ Over(p) \in Nat
  <1>1. IsFiniteSet(Opened(p)) /\ IsFiniteSet(Settled(p))
    <2>1. /\ Opened(p) \subseteq {i \in Ids : p[i].status # "none"}
          /\ Settled(p) \subseteq {i \in Ids : p[i].status # "none"}
      BY DEF Opened, Settled
    <2>2. QED
      BY <2>1, FS_Subset DEF Finite
  <1>2. \A i \in Ids : p[i].amount \in Nat /\ p[i].settled \in Nat /\ Excess(p[i]) \in Nat
    <2>1. \A i \in Ids : p[i].amount \in Nat /\ p[i].settled \in Nat
      BY DEF Row
    <2>2. QED
      BY <2>1 DEF Excess
  <1>3. Held(p) \in Nat
    BY <1>1, <1>2, TotalTyped DEF Held, Opened
  <1>4. Charged(p) \in Nat
    BY <1>1, <1>2, TotalTyped DEF Charged, Settled
  <1>5. Over(p) \in Nat
    BY <1>1, <1>2, TotalTyped DEF Over, Settled
  <1>6. QED
    BY <1>1, <1>3, <1>4, <1>5

\* A counter without rows.
LEMMA NoRowsNoSums ==
    ASSUME NEW p \in [Ids -> Row], \A i \in Ids : p[i].status = "none"
    PROVE  Held(p) = 0 /\ Charged(p) = 0 /\ Over(p) = 0 /\ Finite(p)
  <1>1. Opened(p) = {} /\ Settled(p) = {} /\ {i \in Ids : p[i].status # "none"} = {}
    BY DEF Opened, Settled
  <1>2. QED
    BY <1>1, TotalEmpty, FS_EmptySet DEF Held, Charged, Over, Finite

\* Reserve inserts one row of h.
LEMMA RowReserved ==
    ASSUME NEW p \in [Ids -> Row], NEW q \in [Ids -> Row], Finite(p), NEW i \in Ids,
           \A j \in Ids \ {i} : q[j] = p[j],
           p[i].status = "none", q[i].status = "reserved"
    PROVE  /\ Finite(q) /\ Held(q) = Held(p) + q[i].amount
           /\ Charged(q) = Charged(p) /\ Over(q) = Over(p)
  <1>1. /\ Opened(q) = Opened(p) \cup {i} /\ i \notin Opened(p) /\ Settled(q) = Settled(p)
        /\ {j \in Ids : q[j].status # "none"} = {j \in Ids : p[j].status # "none"} \cup {i}
    BY DEF Opened, Settled
  <1>2. /\ \A j \in Opened(p) : j \in Ids /\ q[j] = p[j]
        /\ \A j \in Settled(p) : j \in Ids /\ q[j] = p[j]
    BY DEF Opened, Settled
  <1>3. \A j \in Ids : p[j].amount \in Nat /\ p[j].settled \in Nat /\ q[j].amount \in Nat
    BY DEF Row
  <1>4. IsFiniteSet(Opened(p)) /\ IsFiniteSet(Settled(p))
    BY RowsTyped
  <1>5. Finite(q)
    <2> DEFINE S == {j \in Ids : p[j].status # "none"}
    <2>1. IsFiniteSet(S)
      BY DEF Finite
    <2> HIDE DEF S
    <2>2. IsFiniteSet(S \cup {i})
      BY <2>1, FS_AddElement
    <2>3. QED
      BY <1>1, <2>2 DEF Finite, S
  <1> DEFINE f == [j \in Ids |-> p[j].amount]
             h == [j \in Ids |-> q[j].amount]
             f2 == [j \in Ids |-> p[j].settled]
             h2 == [j \in Ids |-> q[j].settled]
             f3 == [j \in Ids |-> Excess(p[j])]
             h3 == [j \in Ids |-> Excess(q[j])]
  <1>6. h[i] = q[i].amount /\ h[i] \in Nat /\ \A j \in Opened(p) : f[j] \in Nat /\ h[j] = f[j]
    BY <1>2, <1>3
  <1>7. \A j \in Settled(p) : f2[j] \in Nat /\ h2[j] = f2[j]
    BY <1>2, <1>3
  <1>8. \A j \in Settled(p) : f3[j] \in Nat /\ h3[j] = f3[j]
    BY <1>2, <1>3 DEF Excess
  <1>9. Held(p) = Total(f, Opened(p)) /\ Held(q) = Total(h, Opened(q))
    BY DEF Held
  <1>10. Charged(p) = Total(f2, Settled(p)) /\ Charged(q) = Total(h2, Settled(q))
    BY DEF Charged
  <1>11. Over(p) = Total(f3, Settled(p)) /\ Over(q) = Total(h3, Settled(q))
    BY DEF Over
  <1> HIDE DEF f, h, f2, h2, f3, h3
  <1>12. Total(h, Opened(q)) = Total(f, Opened(p)) + h[i]
    BY <1>1, <1>4, <1>6, TotalAdd
  <1>13. Total(h2, Settled(p)) = Total(f2, Settled(p)) /\ Total(h3, Settled(p)) = Total(f3, Settled(p))
    BY <1>4, <1>7, <1>8, TotalAgree
  <1>14. QED
    BY <1>1, <1>5, <1>6, <1>9, <1>10, <1>11, <1>12, <1>13

\* SettleTx or ReleaseTx close one row: what it held leaves the outstanding amounts.
LEMMA RowClosed ==
    ASSUME NEW p \in [Ids -> Row], NEW q \in [Ids -> Row], Finite(p), NEW i \in Ids,
           \A j \in Ids \ {i} : q[j] = p[j],
           p[i].status = "reserved", q[i].status \in {"settled", "released"}
    PROVE  Finite(q) /\ Held(p) = p[i].amount + Held(q) /\ Held(q) \in Nat
  <1>1. /\ Opened(q) = Opened(p) \ {i} /\ i \in Opened(p)
        /\ {j \in Ids : q[j].status # "none"} = {j \in Ids : p[j].status # "none"}
    BY DEF Opened
  <1>2. \A j \in Opened(p) \ {i} : j \in Ids /\ q[j] = p[j]
    BY DEF Opened
  <1>3. \A j \in Ids : p[j].amount \in Nat
    BY DEF Row
  <1>4. IsFiniteSet(Opened(p))
    BY RowsTyped
  <1> DEFINE f == [j \in Ids |-> p[j].amount]
             h == [j \in Ids |-> q[j].amount]
  <1>5. /\ f[i] = p[i].amount
        /\ \A j \in Opened(p) : f[j] \in Nat
        /\ \A j \in Opened(p) \ {i} : h[j] = f[j]
    BY <1>2, <1>3 DEF Opened
  <1>6. Held(p) = Total(f, Opened(p)) /\ Held(q) = Total(h, Opened(q))
    BY DEF Held
  <1> HIDE DEF f, h
  <1>7. /\ Total(f, Opened(p)) = f[i] + Total(h, Opened(p) \ {i})
        /\ Total(h, Opened(p) \ {i}) \in Nat
    BY <1>1, <1>4, <1>5, TotalRemove
  <1>8. QED
    BY <1>1, <1>5, <1>6, <1>7 DEF Finite

\* A released row adds nothing to the settled ones.
LEMMA RowReleased ==
    ASSUME NEW p \in [Ids -> Row], NEW q \in [Ids -> Row], Finite(p), NEW i \in Ids,
           \A j \in Ids \ {i} : q[j] = p[j],
           p[i].status = "reserved", q[i].status = "released"
    PROVE  Charged(q) = Charged(p) /\ Over(q) = Over(p)
  <1>1. Settled(q) = Settled(p) /\ \A j \in Settled(p) : j \in Ids /\ q[j] = p[j]
    BY DEF Settled
  <1>2. \A j \in Ids : p[j].settled \in Nat /\ Excess(p[j]) \in Nat
    <2>1. \A j \in Ids : p[j].settled \in Nat /\ p[j].amount \in Nat
      BY DEF Row
    <2>2. QED
      BY <2>1 DEF Excess
  <1>3. IsFiniteSet(Settled(p))
    BY RowsTyped
  <1> DEFINE f2 == [j \in Ids |-> p[j].settled]
             h2 == [j \in Ids |-> q[j].settled]
             f3 == [j \in Ids |-> Excess(p[j])]
             h3 == [j \in Ids |-> Excess(q[j])]
  <1>4. \A j \in Settled(p) : f2[j] \in Nat /\ h2[j] = f2[j] /\ f3[j] \in Nat /\ h3[j] = f3[j]
    BY <1>1, <1>2
  <1>5. Charged(p) = Total(f2, Settled(p)) /\ Charged(q) = Total(h2, Settled(q))
    BY DEF Charged
  <1>6. Over(p) = Total(f3, Settled(p)) /\ Over(q) = Total(h3, Settled(q))
    BY DEF Over
  <1> HIDE DEF f2, h2, f3, h3
  <1>7. Total(h2, Settled(p)) = Total(f2, Settled(p)) /\ Total(h3, Settled(p)) = Total(f3, Settled(p))
    BY <1>3, <1>4, TotalAgree
  <1>8. QED
    BY <1>1, <1>5, <1>6, <1>7

\* A settled row adds its actual cost, and what that is above the amount held.
LEMMA RowSettled ==
    ASSUME NEW p \in [Ids -> Row], NEW q \in [Ids -> Row], Finite(p), NEW i \in Ids,
           \A j \in Ids \ {i} : q[j] = p[j],
           p[i].status = "reserved", q[i].status = "settled"
    PROVE  Charged(q) = Charged(p) + q[i].settled /\ Over(q) = Over(p) + Excess(q[i])
  <1>1. /\ Settled(q) = Settled(p) \cup {i} /\ i \notin Settled(p)
        /\ \A j \in Settled(p) : j \in Ids /\ q[j] = p[j]
    BY DEF Settled
  <1>2. \A j \in Ids : p[j].settled \in Nat /\ Excess(p[j]) \in Nat /\ q[j].settled \in Nat /\ Excess(q[j]) \in Nat
    <2>1. \A j \in Ids : p[j].settled \in Nat /\ p[j].amount \in Nat /\ q[j].settled \in Nat /\ q[j].amount \in Nat
      BY DEF Row
    <2>2. QED
      BY <2>1 DEF Excess
  <1>3. IsFiniteSet(Settled(p))
    BY RowsTyped
  <1> DEFINE f2 == [j \in Ids |-> p[j].settled]
             h2 == [j \in Ids |-> q[j].settled]
             f3 == [j \in Ids |-> Excess(p[j])]
             h3 == [j \in Ids |-> Excess(q[j])]
  <1>4. \A j \in Settled(p) : f2[j] \in Nat /\ h2[j] = f2[j]
    BY <1>1, <1>2
  <1>e. \A j \in Settled(p) : f3[j] \in Nat /\ h3[j] = f3[j]
    BY <1>1, <1>2
  <1>5. h2[i] = q[i].settled /\ h3[i] = Excess(q[i]) /\ h2[i] \in Nat /\ h3[i] \in Nat
    BY <1>2
  <1>6. Charged(p) = Total(f2, Settled(p)) /\ Charged(q) = Total(h2, Settled(q))
    BY DEF Charged
  <1>7. Over(p) = Total(f3, Settled(p)) /\ Over(q) = Total(h3, Settled(q))
    BY DEF Over
  <1> HIDE DEF f2, h2, f3, h3
  <1>8. Total(h2, Settled(q)) = Total(f2, Settled(p)) + h2[i]
    <2>1. h2[i] \in Nat
      BY <1>5
    <2>2. /\ \A j \in Settled(p) : f2[j] \in Nat
          /\ \A j \in Settled(p) : h2[j] = f2[j]
      BY <1>4
    <2>3. QED
      BY <1>1, <1>3, <2>1, <2>2, TotalAdd
  <1>9. Total(h3, Settled(q)) = Total(f3, Settled(p)) + h3[i]
    BY <1>1, <1>3, <1>e, <1>5, TotalAdd
  <1>10. QED
    BY <1>1, <1>5, <1>6, <1>7, <1>8, <1>9

-----------------------------------------------------------------------------
(* The books balance                                                       *)

\* The largest limit of a set that has one.
HasLargest(S) == \E m \in S : \A y \in S : y =< m
\* Max picks the largest limit where there is one.
LEMMA LargestLimit ==
    ASSUME NEW S \in SUBSET Nat, HasLargest(S)
    PROVE  Max(S) \in S /\ \A y \in S : y =< Max(S)
  <1>1. PICK m \in S : \A y \in S : m >= y
    BY DEF HasLargest
  <1>2. Max(S) \in S /\ \A y \in S : Max(S) >= y
    BY <1>1 DEF Max
  <1>3. QED
    BY <1>2

\* A counter n, seeded with o, under the limits B and with the reservation rows p.
BalancedWith(n, o, B, p) ==
    /\ Finite(p)
    /\ n.reserved = Held(p)
    /\ n.state = "present" =>
          /\ n.settled = o + Charged(p)
          /\ B # {}
          /\ n.settled + n.reserved =< Max(B) + Over(p)

RowsOn(c) == [i \in Ids |-> resv[i][c]]
Balanced(c) == BalancedWith(counter[c], openedWith[c], budgets[c[1]], RowsOn(c))

\* A scope has no, one or a few budgets per period, so there is a largest one.
LimitsBounded == \A s \in Slots : budgets[s] # {} => HasLargest(budgets[s])

\* The inductive invariant of the counters: each of them balances.  What Reserve
\* starts from an absent counter needs that such a counter has no rows.
BalanceInv == LedgerInv /\ LimitsBounded /\ \A c \in CounterKeys : Balanced(c)

\* The rows on a counter are rows.
LEMMA RowsOnTyped ==
    ASSUME TypeOK, NEW c \in CounterKeys
    PROVE  RowsOn(c) \in [Ids -> Row]
  <1>1. \A i \in Ids : resv[i][c] \in Row
    BY DEF TypeOK
  <1>2. QED
    BY <1>1 DEF RowsOn

\* Empty books balance.
LEMMA InitBalanced == Init => BalanceInv
  <1> SUFFICES ASSUME Init PROVE BalanceInv
    OBVIOUS
  <1>1. LedgerInv
    BY InitSafe
  <1>2. LimitsBounded
    <2> SUFFICES ASSUME NEW s \in Slots, budgets[s] # {} PROVE HasLargest(budgets[s])
      BY DEF LimitsBounded
    <2>1. s[1] # Org /\ budgets[s] = KeyQuota[s]
      BY DEF Init
    <2>2. s \in Keys \X Periods
      BY <2>1 DEF Slots
    <2>3. PICK m \in KeyQuota[s] : \A y \in KeyQuota[s] : y = m
      BY <2>1, <2>2, QuotaAssumption
    <2>4. m \in Nat
      BY <2>2, AmountAssumption
    <2>5. \A y \in KeyQuota[s] : y =< m
      BY <2>3, <2>4
    <2>6. QED
      BY <2>1, <2>5 DEF HasLargest
  <1>3. ASSUME NEW c \in CounterKeys
        PROVE  Balanced(c)
    <2>1. RowsOn(c) \in [Ids -> Row] /\ \A i \in Ids : RowsOn(c)[i].status = "none"
      <3>1. \A i \in Ids : resv[i][c].status = "none"
        BY DEF Init, NoRow
      <3>2. QED
        BY <1>1, <3>1, RowsOnTyped DEF LedgerInv, RowsOn
    <2>2. counter[c].reserved = 0 /\ counter[c].state = "absent"
      BY DEF Init, NoCounter
    <2>3. QED
      BY <2>1, <2>2, NoRowsNoSums DEF Balanced, BalancedWith
  <1>4. QED
    BY <1>1, <1>2, <1>3 DEF BalanceInv

\* Reserve adds to a counter what its row holds, and stays within the limit.
LEMMA ReserveBalances ==
    ASSUME BalanceInv, NEW i \in Ids, NEW k \in Keys, NEW e \in Estimates, Reserve(i, k, e),
           NEW c \in CounterKeys, TypeOK'
    PROVE  Balanced(c)'
  <1> DEFINE K == loadBlockingConstraints(k)
             p == RowsOn(c)
             q == [j \in Ids |-> resv'[j][c]]
             n == counter'[c]
             o == openedWith'[c]
             B == budgets[c[1]]
  <1> SUFFICES BalancedWith(n, o, B, q)
    BY DEF Balanced, RowsOn, Reserve
  <1>1. TypeOK /\ Balanced(c)
    BY DEF BalanceInv, LedgerInv
  <1>2. p \in [Ids -> Row]
    BY <1>1, RowsOnTyped
  <1>3. q \in [Ids -> Row]
    <2>1. \A j \in Ids : resv'[j][c] \in Row
      BY DEF TypeOK
    <2>2. QED
      BY <2>1
  <1>4. \A j \in Ids :
           q[j] = IF j = i /\ c \in K /\ Hold(c, e) > 0
                  THEN [status |-> "reserved", amount |-> Hold(c, e), settled |-> 0]
                  ELSE p[j]
    BY <1>1, ReserveWrites DEF RowsOn
  <1>5. n = IF c \in K THEN [ensureAndLockCounter(c) EXCEPT !.reserved = @ + Hold(c, e)]
                       ELSE counter[c]
    BY DEF Reserve
  <1>6. o = IF c \in K /\ counter[c].state = "absent" THEN recorded[c] ELSE openedWith[c]
    BY DEF Reserve
  <1>7. \A j \in Ids : p[j].status # "none" => counter[c].state = "present"
    BY DEF BalanceInv, LedgerInv, RowsHaveCounters, RowsOn
  <1>8. BalancedWith(counter[c], openedWith[c], B, p)
    BY <1>1 DEF Balanced
  <1>9. CASE c \notin K
    <2>1. q = p /\ n = counter[c] /\ o = openedWith[c]
      BY <1>2, <1>3, <1>4, <1>5, <1>6, <1>9
    <2>2. QED
      BY <1>8, <2>1
  <1>10. CASE c \in K
    <2> DEFINE m == ensureAndLockCounter(c)
    <2>1. /\ m \in Counter /\ m.state = "present" /\ Used(c) = m.settled + m.reserved
          /\ counter[c].state = "present" => m = counter[c]
      BY <1>1, EnsuredCounter DEF Used
    <2>2. /\ Hold(c, e) \in Nat /\ Used(c) + Hold(c, e) =< LimitOf(c)
      BY <1>1, <1>10, HoldFits, AmountAssumption DEF Reserve, ReserveAllowed
    <2>3. Hold(c, e) > 0 => p[i].status = "none"
      BY <1>10 DEF Reserve, ReserveAllowed, Conflicts, RowsOn
    <2>4. B # {} /\ LimitOf(c) \in Nat /\ Max(B) \in Nat /\ LimitOf(c) =< Max(B)
      <3>1. c[1] \in Slots
        BY DEF CounterKeys
      <3>2. B \in SUBSET Nat
        BY <1>1, <3>1 DEF TypeOK
      <3>3. B # {}
        BY <1>10 DEF loadBlockingConstraints
      <3>4. HasLargest(B)
        BY <3>1, <3>3 DEF BalanceInv, LimitsBounded
      <3>5. QED
        BY <3>2, <3>3, <3>4, LargestLimit, StrictestLimit DEF LimitOf
    <2>5. Finite(p) /\ Held(p) \in Nat /\ Charged(p) \in Nat /\ Over(p) \in Nat
      BY <1>2, <1>8, RowsTyped DEF BalancedWith
    <2>6. m.reserved = Held(p) /\ m.settled = o + Charged(p)
      <3>1. CASE counter[c].state = "present"
        BY <1>6, <1>8, <2>1, <3>1 DEF BalancedWith
      <3>2. CASE counter[c].state = "absent"
        <4>1. Held(p) = 0 /\ Charged(p) = 0
          BY <1>2, <1>7, <3>2, NoRowsNoSums
        <4>2. m.reserved = 0 /\ m.settled = recorded[c] /\ o = recorded[c]
          BY <1>6, <1>10, <3>2 DEF ensureAndLockCounter
        <4>3. recorded[c] \in Nat
          BY <1>1 DEF TypeOK
        <4>4. QED
          BY <4>1, <4>2, <4>3
      <3>3. QED
        BY <1>1, <3>1, <3>2 DEF TypeOK, Counter
    <2>7. /\ Finite(q) /\ Held(q) = Held(p) + Hold(c, e)
          /\ Charged(q) = Charged(p) /\ Over(q) = Over(p)
      <3>1. CASE Hold(c, e) > 0
        <4>1. /\ \A j \in Ids \ {i} : q[j] = p[j]
              /\ q[i].status = "reserved" /\ q[i].amount = Hold(c, e)
          BY <1>4, <1>10, <3>1
        <4> HIDE DEF p, q
        <4>2. QED
          BY <1>2, <1>3, <2>3, <2>5, <3>1, <4>1, RowReserved
      <3>2. CASE Hold(c, e) = 0
        <4>1. q = p
          BY <1>2, <1>3, <1>4, <3>2
        <4> HIDE DEF p, q
        <4>2. QED
          BY <2>5, <3>2, <4>1
      <3>3. QED
        BY <2>2, <3>1, <3>2
    <2>8. n.state = "present" /\ n.settled = m.settled /\ n.reserved = m.reserved + Hold(c, e)
      BY <1>5, <1>10, <2>1 DEF Counter
    <2>9. m.settled \in Nat /\ m.reserved \in Nat
      BY <2>1 DEF Counter
    <2> HIDE DEF m, n, o, B, p, q
    <2>10. n.settled + n.reserved =< Max(B) + Over(q)
      BY <2>1, <2>2, <2>4, <2>5, <2>7, <2>8, <2>9
    <2>11. QED
      BY <2>4, <2>6, <2>7, <2>8, <2>10 DEF BalancedWith
  <1>11. QED
    BY <1>9, <1>10

\* RecordSuccess takes the row's amount out of a counter and puts the actual cost in.
LEMMA SettleBalances ==
    ASSUME BalanceInv, NEW i \in Ids, NEW x \in Nat, SettleTx(i, x),
           UNCHANGED <<budgets, openedWith>>, NEW c \in CounterKeys, TypeOK'
    PROVE  Balanced(c)'
  <1> DEFINE p == RowsOn(c)
             q == [j \in Ids |-> resv'[j][c]]
             n == counter'[c]
             B == budgets[c[1]]
  <1> SUFFICES BalancedWith(n, openedWith[c], B, q)
    BY DEF Balanced, RowsOn
  <1>1. TypeOK /\ BalancedWith(counter[c], openedWith[c], B, p)
    BY DEF BalanceInv, LedgerInv, Balanced
  <1>2. p \in [Ids -> Row] /\ counter[c] \in Counter
    BY <1>1, RowsOnTyped DEF TypeOK
  <1>3. q \in [Ids -> Row]
    <2>1. \A j \in Ids : resv'[j][c] \in Row
      BY DEF TypeOK
    <2>2. QED
      BY <2>1
  <1>4. \A j \in Ids :
           q[j] = IF j = i /\ p[i].status = "reserved"
                  THEN [status |-> "settled", amount |-> p[i].amount, settled |-> x]
                  ELSE p[j]
    BY <1>1, SettleWrites DEF RowsOn, Outstanding
  <1>5. n = IF p[i].status = "reserved"
            THEN [state |-> counter[c].state, settled |-> counter[c].settled + x,
                  reserved |-> Lowered(c, i)]
            ELSE counter[c]
    BY DEF SettleTx, Outstanding, RowsOn
  <1>6. CASE p[i].status # "reserved"
    <2>1. q = p /\ n = counter[c]
      BY <1>2, <1>3, <1>4, <1>5, <1>6
    <2>2. QED
      BY <1>1, <2>1
  <1>7. CASE p[i].status = "reserved"
    <2>1. counter[c].state = "present"
      BY <1>7 DEF BalanceInv, LedgerInv, RowsHaveCounters, RowsOn
    <2>2. /\ \A j \in Ids \ {i} : q[j] = p[j]
          /\ q[i] = [status |-> "settled", amount |-> p[i].amount, settled |-> x]
      BY <1>4, <1>7
    <2>3. q[i].status = "settled" /\ q[i].settled = x /\ q[i].amount = p[i].amount
      BY <2>2
    <2>4. Lowered(c, i) = IF counter[c].reserved >= p[i].amount
                          THEN counter[c].reserved - p[i].amount ELSE 0
      BY DEF Lowered, RowsOn
    <2>5. p[i].amount \in Nat /\ counter[c].settled \in Nat /\ counter[c].reserved \in Nat
      BY <1>2 DEF Row, Counter
    <2>6. B # {} /\ Max(B) \in Nat
      <3>1. c[1] \in Slots
        BY DEF CounterKeys
      <3>2. B \in SUBSET Nat /\ B # {}
        BY <1>1, <2>1, <3>1 DEF TypeOK, BalancedWith
      <3>3. HasLargest(B)
        BY <3>1, <3>2 DEF BalanceInv, LimitsBounded
      <3>4. QED
        BY <3>2, <3>3, LargestLimit
    <2>7. n.state = "present" /\ n.settled = counter[c].settled + x /\ n.reserved = Lowered(c, i)
      BY <1>5, <1>7, <2>1
    <2>8. openedWith[c] \in Nat
      BY <1>1 DEF TypeOK
    <2> HIDE DEF p, q, n, B
    <2>9. Finite(p) /\ Charged(p) \in Nat /\ Over(p) \in Nat
      BY <1>1, <1>2, RowsTyped DEF BalancedWith
    <2>10. Finite(q) /\ Held(p) = p[i].amount + Held(q) /\ Held(q) \in Nat
      BY <1>2, <1>3, <1>7, <2>2, <2>3, <2>9, RowClosed
    <2>11. Charged(q) = Charged(p) + x /\ Over(q) = Over(p) + Excess(q[i])
      BY <1>2, <1>3, <1>7, <2>2, <2>3, <2>9, RowSettled
    <2>12. Excess(q[i]) \in Nat /\ x =< p[i].amount + Excess(q[i])
      BY <2>3, <2>5 DEF Excess
    <2>13. n.reserved = Held(q) /\ counter[c].reserved = p[i].amount + n.reserved
      BY <1>1, <2>4, <2>5, <2>7, <2>10 DEF BalancedWith
    <2>14. n.settled = openedWith[c] + Charged(q)
      BY <1>1, <2>1, <2>7, <2>8, <2>9, <2>11 DEF BalancedWith
    <2>15. n.settled + n.reserved =< Max(B) + Over(q)
      <3>1. counter[c].settled + counter[c].reserved =< Max(B) + Over(p)
        BY <1>1, <2>1 DEF BalancedWith
      <3>2. QED
        BY <2>5, <2>6, <2>7, <2>9, <2>10, <2>11, <2>12, <2>13, <3>1
    <2>16. QED
      BY <2>6, <2>10, <2>13, <2>14, <2>15 DEF BalancedWith
  <1>8. QED
    BY <1>6, <1>7

\* ReleaseTx takes the row's amount out of a counter.
LEMMA ReleaseBalances ==
    ASSUME BalanceInv, NEW i \in Ids, ReleaseTx(i),
           UNCHANGED <<budgets, openedWith>>, NEW c \in CounterKeys, TypeOK'
    PROVE  Balanced(c)'
  <1> DEFINE p == RowsOn(c)
             q == [j \in Ids |-> resv'[j][c]]
             n == counter'[c]
             B == budgets[c[1]]
  <1> SUFFICES BalancedWith(n, openedWith[c], B, q)
    BY DEF Balanced, RowsOn
  <1>1. TypeOK /\ BalancedWith(counter[c], openedWith[c], B, p)
    BY DEF BalanceInv, LedgerInv, Balanced
  <1>2. p \in [Ids -> Row] /\ counter[c] \in Counter
    BY <1>1, RowsOnTyped DEF TypeOK
  <1>3. q \in [Ids -> Row]
    <2>1. \A j \in Ids : resv'[j][c] \in Row
      BY DEF TypeOK
    <2>2. QED
      BY <2>1
  <1>4. \A j \in Ids :
           q[j] = IF j = i /\ p[i].status = "reserved"
                  THEN [p[i] EXCEPT !.status = "released"]
                  ELSE p[j]
    BY <1>1, ReleaseWrites DEF RowsOn, Outstanding
  <1>5. n = IF p[i].status = "reserved"
            THEN [counter[c] EXCEPT !.reserved = Lowered(c, i)]
            ELSE counter[c]
    BY DEF ReleaseTx, Outstanding, RowsOn
  <1>6. CASE p[i].status # "reserved"
    <2>1. q = p /\ n = counter[c]
      BY <1>2, <1>3, <1>4, <1>5, <1>6
    <2>2. QED
      BY <1>1, <2>1
  <1>7. CASE p[i].status = "reserved"
    <2>1. counter[c].state = "present"
      BY <1>7 DEF BalanceInv, LedgerInv, RowsHaveCounters, RowsOn
    <2>2. /\ \A j \in Ids \ {i} : q[j] = p[j]
          /\ q[i] = [p[i] EXCEPT !.status = "released"]
      BY <1>4, <1>7
    <2>3. q[i].status = "released"
      BY <1>2, <2>2 DEF Row
    <2>4. Lowered(c, i) = IF counter[c].reserved >= p[i].amount
                          THEN counter[c].reserved - p[i].amount ELSE 0
      BY DEF Lowered, RowsOn
    <2>5. p[i].amount \in Nat /\ counter[c].settled \in Nat /\ counter[c].reserved \in Nat
      BY <1>2 DEF Row, Counter
    <2>6. B # {} /\ Max(B) \in Nat
      <3>1. c[1] \in Slots
        BY DEF CounterKeys
      <3>2. B \in SUBSET Nat /\ B # {}
        BY <1>1, <2>1, <3>1 DEF TypeOK, BalancedWith
      <3>3. HasLargest(B)
        BY <3>1, <3>2 DEF BalanceInv, LimitsBounded
      <3>4. QED
        BY <3>2, <3>3, LargestLimit
    <2>7. n.state = "present" /\ n.settled = counter[c].settled /\ n.reserved = Lowered(c, i)
      BY <1>2, <1>5, <1>7, <2>1 DEF Counter
    <2> HIDE DEF p, q, n, B
    <2>8. Finite(p) /\ Charged(p) \in Nat /\ Over(p) \in Nat
      BY <1>1, <1>2, RowsTyped DEF BalancedWith
    <2>9. Finite(q) /\ Held(p) = p[i].amount + Held(q) /\ Held(q) \in Nat
      BY <1>2, <1>3, <1>7, <2>2, <2>3, <2>8, RowClosed
    <2>10. Charged(q) = Charged(p) /\ Over(q) = Over(p)
      BY <1>2, <1>3, <1>7, <2>2, <2>3, <2>8, RowReleased
    <2>11. n.reserved = Held(q) /\ counter[c].reserved = p[i].amount + n.reserved
      BY <1>1, <2>4, <2>5, <2>7, <2>9 DEF BalancedWith
    <2>12. n.settled = openedWith[c] + Charged(q)
      BY <1>1, <2>1, <2>7, <2>10 DEF BalancedWith
    <2>13. n.settled + n.reserved =< Max(B) + Over(q)
      <3>1. counter[c].settled + counter[c].reserved =< Max(B) + Over(p)
        BY <1>1, <2>1 DEF BalancedWith
      <3>2. QED
        BY <2>5, <2>6, <2>7, <2>8, <2>9, <2>10, <2>11, <3>1
    <2>14. QED
      BY <2>6, <2>9, <2>11, <2>12, <2>13 DEF BalancedWith
  <1>8. QED
    BY <1>6, <1>7

\* A new budget can only raise the largest limit.
LEMMA BudgetBalances ==
    ASSUME BalanceInv, NEW p \in Periods, NEW l \in BudgetLimits, CreateBudget(p, l)
    PROVE  LimitsBounded' /\ \A c \in CounterKeys : Balanced(c)'
  <1>1. /\ TypeOK /\ LimitsBounded /\ \A c \in CounterKeys : Balanced(c)
        /\ l \in Nat /\ UNCHANGED <<counter, resv, openedWith>>
    BY AmountAssumption DEF BalanceInv, LedgerInv, CreateBudget, ledger
  <1>2. \A s \in Slots : budgets[s] \in SUBSET Nat
    BY <1>1 DEF TypeOK
  <1>3. \A s \in Slots : budgets'[s] = budgets[s] \/ budgets'[s] = budgets[s] \cup {l}
    BY <1>1 DEF CreateBudget, TypeOK
  <1>4. ASSUME NEW s \in Slots
        PROVE  /\ budgets'[s] # {} => HasLargest(budgets'[s])
               /\ budgets[s] # {} => budgets'[s] # {} /\ Max(budgets[s]) =< Max(budgets'[s])
               /\ budgets[s] # {} => Max(budgets[s]) \in Nat /\ Max(budgets'[s]) \in Nat
    <2> DEFINE S == budgets[s]
               T == budgets'[s]
    <2>1. S \in SUBSET Nat /\ T \in SUBSET Nat /\ S \subseteq T
      BY <1>1, <1>2, <1>3
    <2>2. S # {} => HasLargest(S)
      BY <1>1 DEF LimitsBounded
    <2>3. T = S \/ T = S \cup {l}
      BY <1>3
    <2> HIDE DEF S, T
    <2>4. T # {} => HasLargest(T)
      <3>1. CASE S = {} /\ T # S
        <4>1. l \in T /\ \A y \in T : y = l
          BY <2>3, <3>1
        <4>2. l \in T /\ \A y \in T : y =< l
          BY <1>1, <4>1
        <4>3. QED
          BY <4>2 DEF HasLargest
      <3>2. CASE S # {}
        <4>1. PICK m \in S : \A y \in S : y =< m
          BY <2>2, <3>2 DEF HasLargest
        <4>2. m \in T /\ m \in Nat
          BY <2>1, <4>1
        <4>3. CASE T = S \/ l =< m
          <5>1. \A y \in T : y =< m
            BY <2>3, <4>1, <4>3
          <5>2. QED
            BY <4>2, <5>1 DEF HasLargest
        <4>4. CASE T = S \cup {l} /\ ~(l =< m)
          <5>1. \A y \in T : y =< l
            BY <1>1, <2>1, <4>1, <4>2, <4>4
          <5>2. QED
            BY <4>4, <5>1 DEF HasLargest
        <4>5. QED
          BY <2>3, <4>3, <4>4
      <3>3. QED
        BY <3>1, <3>2
    <2>5. S # {} => T # {} /\ Max(S) =< Max(T) /\ Max(S) \in Nat /\ Max(T) \in Nat
      BY <2>1, <2>2, <2>4, LargestLimit
    <2>6. QED
      BY <2>4, <2>5 DEF S, T
  <1>5. LimitsBounded'
    BY <1>4 DEF LimitsBounded
  <1>6. ASSUME NEW c \in CounterKeys
        PROVE  Balanced(c)'
    <2> DEFINE p0 == RowsOn(c)
    <2>1. c[1] \in Slots
      BY DEF CounterKeys
    <2>2. BalancedWith(counter[c], openedWith[c], budgets[c[1]], p0)
      BY <1>1 DEF Balanced
    <2>3. p0 \in [Ids -> Row] /\ counter[c].settled \in Nat /\ counter[c].reserved \in Nat
      BY <1>1, RowsOnTyped DEF TypeOK, Counter
    <2>4. RowsOn(c)' = p0
      BY <1>1 DEF RowsOn
    <2> HIDE DEF p0
    <2>5. Over(p0) \in Nat
      BY <2>2, <2>3, RowsTyped DEF BalancedWith
    <2>6. BalancedWith(counter[c], openedWith[c], budgets'[c[1]], p0)
      BY <1>4, <2>1, <2>2, <2>3, <2>5 DEF BalancedWith
    <2>7. QED
      BY <1>1, <2>4, <2>6 DEF Balanced
  <1>7. QED
    BY <1>5, <1>6

\* Every transaction, and every step of the environment, keeps the books balanced.
LEMMA StepBalanced == BalanceInv /\ [Next]_vars => BalanceInv'
  <1> SUFFICES ASSUME BalanceInv, [Next]_vars PROVE BalanceInv'
    OBVIOUS
  <1>1. LedgerInv'
    BY StepSafe DEF BalanceInv
  <1>2. TypeOK'
    BY <1>1 DEF LedgerInv
  <1>3. ASSUME NEW i \in Ids, NEW k \in Keys, NEW e \in Estimates, Reserve(i, k, e)
        PROVE  LimitsBounded' /\ \A c \in CounterKeys : Balanced(c)'
    <2>1. LimitsBounded'
      BY <1>3 DEF Reserve, BalanceInv, LimitsBounded
    <2>2. QED
      BY <1>2, <1>3, <2>1, ReserveBalances
  <1>4. ASSUME NEW i \in Ids, NEW k \in Keys, NEW x \in Costs, NEW d \in 0 .. day,
               RecordSuccess(i, k, x, d)
        PROVE  LimitsBounded' /\ \A c \in CounterKeys : Balanced(c)'
    <2>1. x \in Nat /\ SettleTx(i, x) /\ UNCHANGED <<budgets, openedWith>>
      BY <1>4, AmountAssumption DEF RecordSuccess
    <2>2. LimitsBounded'
      BY <2>1 DEF BalanceInv, LimitsBounded
    <2>3. QED
      BY <1>2, <2>1, <2>2, SettleBalances
  <1>5. ASSUME NEW i \in Ids, Release(i)
        PROVE  LimitsBounded' /\ \A c \in CounterKeys : Balanced(c)'
    <2>1. ReleaseTx(i) /\ UNCHANGED <<budgets, openedWith>>
      BY <1>5 DEF Release
    <2>2. LimitsBounded'
      BY <2>1 DEF BalanceInv, LimitsBounded
    <2>3. QED
      BY <1>2, <2>1, <2>2, ReleaseBalances
  <1>6. ASSUME NEW p \in Periods, NEW l \in BudgetLimits, CreateBudget(p, l)
        PROVE  LimitsBounded' /\ \A c \in CounterKeys : Balanced(c)'
    BY <1>6, BudgetBalances
  <1>7. ASSUME UNCHANGED <<budgets, counter, resv, openedWith>>
        PROVE  LimitsBounded' /\ \A c \in CounterKeys : Balanced(c)'
    <2>1. LimitsBounded'
      BY <1>7 DEF BalanceInv, LimitsBounded
    <2>2. ASSUME NEW c \in CounterKeys
          PROVE  Balanced(c)'
      <3>1. RowsOn(c)' = RowsOn(c)
        BY <1>7 DEF RowsOn
      <3>2. QED
        BY <1>7, <3>1 DEF BalanceInv, Balanced
    <2>3. QED
      BY <2>1, <2>2
  <1>8. LimitsBounded' /\ \A c \in CounterKeys : Balanced(c)'
    <2>1. ASSUME NEW i \in Ids, RecordFailure(i) \/ RecordCacheHit(i)
          PROVE  UNCHANGED <<budgets, counter, resv, openedWith>>
      BY <2>1 DEF RecordFailure, RecordCacheHit
    <2>2. AdvanceDay \/ UNCHANGED vars => UNCHANGED <<budgets, counter, resv, openedWith>>
      BY DEF AdvanceDay, vars, ledger
    <2>3. QED
      BY <1>3, <1>4, <1>5, <1>6, <1>7, <2>1, <2>2 DEF Next
  <1>9. QED
    BY <1>1, <1>8 DEF BalanceInv

\* A counter that balances says what the three properties say.
LEMMA BalanceMeans == BalanceInv => ReservedMatchesRows /\ CounterIsLedger /\ OverspendBounded
  <1> SUFFICES ASSUME BalanceInv, NEW c \in CounterKeys
               PROVE  /\ counter[c].reserved = Total([i \in Ids |-> resv[i][c].amount], OutstandingOn(c))
                      /\ counter[c].state = "present" =>
                            /\ counter[c].settled =
                                  openedWith[c] + Total([i \in Ids |-> resv[i][c].settled], SettledOn(c))
                            /\ counter[c].settled + counter[c].reserved
                                  =< Max(budgets[c[1]])
                                     + Total([i \in Ids |-> Excess(resv[i][c])], SettledOn(c))
    BY DEF ReservedMatchesRows, CounterIsLedger, OverspendBounded
  <1> DEFINE p == RowsOn(c)
  <1>1. BalancedWith(counter[c], openedWith[c], budgets[c[1]], p)
    BY DEF BalanceInv, Balanced
  <1>2. Opened(p) = OutstandingOn(c) /\ Settled(p) = SettledOn(c)
    BY DEF RowsOn, Opened, Settled, OutstandingOn, SettledOn, Outstanding
  <1>3. /\ [i \in Ids |-> p[i].amount] = [i \in Ids |-> resv[i][c].amount]
        /\ [i \in Ids |-> p[i].settled] = [i \in Ids |-> resv[i][c].settled]
        /\ [i \in Ids |-> Excess(p[i])] = [i \in Ids |-> Excess(resv[i][c])]
    BY DEF RowsOn
  <1>4. Held(p) = Total([i \in Ids |-> resv[i][c].amount], OutstandingOn(c))
    BY <1>2, <1>3 DEF Held
  <1>5. Charged(p) = Total([i \in Ids |-> resv[i][c].settled], SettledOn(c))
    BY <1>2, <1>3 DEF Charged
  <1>6. Over(p) = Total([i \in Ids |-> Excess(resv[i][c])], SettledOn(c))
    BY <1>2, <1>3 DEF Over
  <1> HIDE DEF p
  <1>7. QED
    BY <1>1, <1>4, <1>5, <1>6 DEF BalancedWith

\* Every counter balances in every reachable state.
THEOREM BooksBalance == Spec => []BalanceInv
  BY InitBalanced, StepBalanced, PTL DEF Spec

\* Whatever any number of requests do in whatever order, a counter holds in reserve
\* exactly what the outstanding reservations on it amount to.
THEOREM ReservedIsOutstanding == Spec => []ReservedMatchesRows
  BY BooksBalance, BalanceMeans, PTL

\* A counter's settled amount is its seed and the actual costs settled on it.
THEOREM SettledIsLedger == Spec => []CounterIsLedger
  BY BooksBalance, BalanceMeans, PTL

\* However many requests run at once, a window is overspent by no more than what
\* settled requests cost above their estimates.
THEOREM OverspendIsBounded == Spec => []OverspendBounded
  BY BooksBalance, BalanceMeans, PTL

=============================================================================
