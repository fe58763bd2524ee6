------------------------- MODULE ChatGatewayProofs -------------------------
(***************************************************************************)
(* What the chat handlers guarantee for any number of calls, any fault     *)
(* bound and any amounts.  The ledger's own theorems are carried over by   *)
(* GatewayUsesLedger: the gateway only ever takes steps of CostLimits.     *)
(***************************************************************************)
EXTENDS ChatGateway, CostLimitsProofs

\* CompletedAt is taken before the metering transaction, so the window a cost
\* is recorded in has begun when it is recorded.
GInv == GTypeOK /\ \A c \in Calls : doneAt[c] =< day

\* The ledger transaction of a gateway step, if it has one, and when in its life a call
\* reserves and when it records a success.
LedgerStep(c) ==
    \/ UNCHANGED vars
    \/ pc[c] = "reserve" /\ \E e \in Estimates : Reserve(IdOf[c], KeyOf[c], e)
    \/ pc[c] = "meter" /\ \E x \in Costs : RecordSuccess(IdOf[c], KeyOf[c], x, doneAt[c])
    \/ Release(IdOf[c]) \/ RecordFailure(IdOf[c]) \/ RecordCacheHit(IdOf[c])

CallStep(c) ==
    \/ Progress(c) \/ ReleaseFails(c)
    \/ \E e \in Estimates : ReserveCommitLost(c, e)
    \/ \E x \in Costs : MeterCommitLost(c, x)

\* Whatever a call does, the ledger sees at most one of its transactions.
LEMMA CallTouchesLedger ==
    ASSUME NEW c \in Calls, CallStep(c)
    PROVE  LedgerStep(c)
  <1>1. CASE \/ Intake(c) \/ BudgetCheck(c) \/ QuotaCheck(c) \/ Screen(c) \/ GateFails(c) \/ CacheMiss(c)
             \/ SkipReserve(c) \/ ProviderCall(c) \/ Relay(c) \/ MeterFails(c)
             \/ ReleaseFails(c) \/ \E e \in Estimates : ReserveRefused(c, e)
    BY <1>1 DEF LedgerStep, Intake, BudgetCheck, QuotaCheck, Screen, GateFails, CacheMiss, SkipReserve,
                ProviderCall, Relay, MeterFails, ReleaseFails, ReserveRefused
  <1>2. CASE CacheHit(c) \/ Reject(c) \/ RecordFail(c)
    BY <1>2 DEF LedgerStep, CacheHit, Reject, RecordFail
  <1>3. CASE \E e \in Estimates : ReserveGranted(c, e) \/ ReserveCommitLost(c, e)
    BY <1>3 DEF LedgerStep, ReserveGranted, ReserveCommitLost
  <1>4. CASE \E x \in Costs : Meter(c, x) \/ MeterCommitLost(c, x)
    BY <1>4 DEF LedgerStep, Meter, MeterCommitLost
  <1>5. CASE ReleaseHold(c)
    BY <1>5 DEF LedgerStep, ReleaseHold
  <1>6. QED
    BY <1>1, <1>2, <1>3, <1>4, <1>5 DEF CallStep, Progress

\* Every step of the gateway is a step of the ledger, or leaves it alone.
LEMMA StepUsesLedger == GInv /\ [GNext]_gvars => [Next]_vars
  <1> SUFFICES ASSUME GInv, [GNext]_gvars PROVE [Next]_vars
    OBVIOUS
  <1>1. ASSUME NEW c \in Calls, CallStep(c)
        PROVE  [Next]_vars
    <2>1. IdOf[c] \in Ids /\ KeyOf[c] \in Keys
      BY CallAssumption
    <2>2. doneAt[c] \in 0 .. day
      BY DaysAssumption DEF GInv, GTypeOK, TypeOK, Days
    <2>3. LedgerStep(c)
      BY <1>1, CallTouchesLedger
    <2>4. QED
      BY <2>1, <2>2, <2>3 DEF LedgerStep, Next
  <1>2. CASE Crash
    BY <1>2 DEF Crash
  <1>3. CASE Environment
    BY <1>3 DEF Environment, Next
  <1>4. CASE UNCHANGED gvars
    BY <1>4 DEF gvars
  <1>5. QED
    BY <1>1, <1>2, <1>3, <1>4 DEF GNext, CallStep

\* No transaction moves the clock.
LEMMA CallKeepsDay ==
    ASSUME NEW c \in Calls, CallStep(c)
    PROVE  UNCHANGED day
  BY CallTouchesLedger
     DEF LedgerStep, vars, Reserve, RecordSuccess, Release, RecordFailure, RecordCacheHit

\* The handlers' own variables keep their types.
LEMMA GStepTyped == GInv /\ [GNext]_gvars => GInv'
  <1> SUFFICES ASSUME GInv, [GNext]_gvars PROVE GInv'
    OBVIOUS
  <1>ledger. TypeOK /\ TypeOK'
    BY StepUsesLedger, StepTyped DEF GInv, GTypeOK
  <1>days. day \in Days /\ day' \in Days /\ Days \subseteq Nat
    BY <1>ledger, DaysAssumption DEF TypeOK, Days
  <1>1. ASSUME NEW c \in Calls, CallStep(c)
        PROVE  GInv'
    <2>1. pc' \in [Calls -> PCs]
      BY <1>1 DEF CallStep, Progress, GInv, GTypeOK, Goto, Respond, PCs, Holding, Ended,
             Intake, BudgetCheck, QuotaCheck, Screen, GateFails, CacheHit, CacheMiss, Reject, SkipReserve,
             ReserveGranted, ReserveRefused, ReserveCommitLost, MeterCommitLost, ProviderCall, Relay, Meter,
             MeterFails, RecordFail, ReleaseHold, ReleaseFails
    <2>2. active' \in SUBSET Calls /\ billed' \in SUBSET Calls
      BY <1>1 DEF CallStep, Progress, GInv, GTypeOK,
             Intake, BudgetCheck, QuotaCheck, Screen, GateFails, CacheHit, CacheMiss, Reject, SkipReserve,
             ReserveGranted, ReserveRefused, ReserveCommitLost, MeterCommitLost, ProviderCall, Relay, Meter,
             MeterFails, RecordFail, ReleaseHold, ReleaseFails
    <2>3. resp' \in [Calls -> {"none", "ok", "cached", "streamed", "rejected", "failed"}]
      BY <1>1 DEF CallStep, Progress, GInv, GTypeOK, Respond,
             Intake, BudgetCheck, QuotaCheck, Screen, GateFails, CacheHit, CacheMiss, Reject, SkipReserve,
             ReserveGranted, ReserveRefused, ReserveCommitLost, MeterCommitLost, ProviderCall, Relay, Meter,
             MeterFails, RecordFail, ReleaseHold, ReleaseFails
    <2>4. faults' \in 0 .. MaxFaults
      BY <1>1, CallAssumption DEF CallStep, Progress, GInv, GTypeOK, Fault,
             Intake, BudgetCheck, QuotaCheck, Screen, GateFails, CacheHit, CacheMiss, Reject, SkipReserve,
             ReserveGranted, ReserveRefused, ReserveCommitLost, MeterCommitLost, ProviderCall, Relay, Meter,
             MeterFails, RecordFail, ReleaseHold, ReleaseFails
    <2>5. doneAt' = doneAt \/ doneAt' = [doneAt EXCEPT ![c] = day]
      BY <1>1 DEF CallStep, Progress,
             Intake, BudgetCheck, QuotaCheck, Screen, GateFails, CacheHit, CacheMiss, Reject, SkipReserve,
             ReserveGranted, ReserveRefused, ReserveCommitLost, MeterCommitLost, ProviderCall, Relay, Meter,
             MeterFails, RecordFail, ReleaseHold, ReleaseFails
    <2>6. UNCHANGED day
      BY <1>1, CallKeepsDay
    <2>7. doneAt' \in [Calls -> Days] /\ \A d \in Calls : doneAt'[d] =< day'
      <3>1. doneAt \in [Calls -> Days] /\ \A d \in Calls : doneAt[d] =< day
        BY DEF GInv, GTypeOK
      <3>2. day =< day
        BY <1>days DEF Days
      <3>3. QED
        BY <1>days, <2>5, <2>6, <3>1, <3>2
    <2>8. QED
      BY <1>ledger, <2>1, <2>2, <2>3, <2>4, <2>7 DEF GInv, GTypeOK
  <1>2. CASE Crash
    <2>1. pc' \in [Calls -> PCs]
      BY <1>2 DEF Crash, GInv, GTypeOK, PCs, Ended
    <2>2. faults' \in 0 .. MaxFaults
      BY <1>2, CallAssumption DEF Crash, Fault, GInv, GTypeOK
    <2>3. UNCHANGED <<day, active, doneAt, billed, resp>>
      BY <1>2 DEF Crash, vars
    <2>4. QED
      BY <1>ledger, <2>1, <2>2, <2>3 DEF GInv, GTypeOK
  <1>3. CASE Environment
    <2>1. day' = day \/ day' = day + 1
      BY <1>3 DEF Environment, CreateBudget, AdvanceDay
    <2>2. UNCHANGED <<pc, active, doneAt, billed, resp, faults>>
      BY <1>3 DEF Environment, callVars
    <2>3. \A d \in Calls : doneAt'[d] =< day'
      <3>1. \A d \in Calls : doneAt[d] \in Nat /\ doneAt[d] =< day
        BY <1>days DEF GInv, GTypeOK
      <3>2. \A n \in Nat : n =< day => n =< day'
        BY <1>days, <2>1
      <3>3. QED
        BY <2>2, <3>1, <3>2
    <2>4. QED
      BY <1>ledger, <2>2, <2>3 DEF GInv, GTypeOK
  <1>4. CASE UNCHANGED gvars
    BY <1>ledger, <1>4 DEF gvars, vars, callVars, GInv, GTypeOK
  <1>5. QED
    BY <1>1, <1>2, <1>3, <1>4 DEF GNext, CallStep

\* The handlers start in a well-typed state.
LEMMA GInitTyped == GInit => GInv
  <1> SUFFICES ASSUME GInit PROVE GInv
    OBVIOUS
  <1>1. TypeOK /\ 0 \in Days /\ day = 0
    BY InitTyped, DaysAssumption DEF GInit, Init, Days
  <1>2. QED
    BY <1>1, CallAssumption DEF GInit, GInv, GTypeOK, PCs

\* The handlers' invariant, on which the other theorems build.
LEMMA GTyped == GSpec => []GInv
  BY GInitTyped, GStepTyped, PTL DEF GSpec

\* The chat handlers, with all their faults and crashes, implement the ledger:
\* its theorems hold of every behaviour of the gateway.
THEOREM GatewayUsesLedger == GSpec => ImplementsLedger
  <1>1. GInit => Init
    BY DEF GInit
  <1>2. QED
    BY <1>1, GTyped, StepUsesLedger, PTL DEF GSpec, ImplementsLedger, Spec

-----------------------------------------------------------------------------
(* Holds                                                                   *)

\* A call that may still settle or release, or that has lost the chance to.
Owner(c) == (c \in active /\ pc[c] \in Holding) \/ pc[c] \in {"crashed", "leaked"}

\* Reserve opens holds of its own request id only.
LEMMA ReserveOpens ==
    ASSUME TypeOK, NEW i \in Ids, NEW k \in Keys, NEW e \in Estimates, Reserve(i, k, e),
           NEW j \in Ids, NEW l \in CounterKeys, Outstanding(j, l)'
    PROVE  Outstanding(j, l) \/ j = i
  <1>1. \E f : resv' = [resv EXCEPT ![i] = f]
    BY DEF Reserve
  <1>2. QED
    BY <1>1 DEF TypeOK, Outstanding

\* After SettleTx its request id holds nothing, and no hold is new.
LEMMA SettleCloses ==
    ASSUME TypeOK, NEW i \in Ids, NEW x \in Nat, SettleTx(i, x),
           NEW j \in Ids, NEW l \in CounterKeys, Outstanding(j, l)'
    PROVE  Outstanding(j, l) /\ j # i
  <1>1. Outstanding(j, l)
    BY SettleEffect DEF Outstanding
  <1>2. ASSUME j = i PROVE FALSE
    <2>1. resv'[i] = [c \in CounterKeys |->
                        IF Outstanding(i, c)
                        THEN [status |-> "settled", amount |-> resv[i][c].amount, settled |-> x]
                        ELSE resv[i][c]]
      BY DEF SettleTx, TypeOK
    <2>2. resv'[i][l].status = "settled"
      BY <1>1, <1>2, <2>1
    <2>3. QED
      BY <1>2, <2>2 DEF Outstanding
  <1>3. QED
    BY <1>1, <1>2

\* After Release its request id holds nothing, and no hold is new.
LEMMA ReleaseCloses ==
    ASSUME TypeOK, NEW i \in Ids, ReleaseTx(i),
           NEW j \in Ids, NEW l \in CounterKeys, Outstanding(j, l)'
    PROVE  Outstanding(j, l) /\ j # i
  <1>1. Outstanding(j, l)
    BY ReleaseEffect DEF Outstanding
  <1>2. ASSUME j = i PROVE FALSE
    <2>1. resv'[i] = [c \in CounterKeys |->
                        IF Outstanding(i, c)
                        THEN [resv[i][c] EXCEPT !.status = "released"]
                        ELSE resv[i][c]]
      BY DEF ReleaseTx, TypeOK
    <2>2. resv[i][l] \in Row
      BY DEF TypeOK
    <2>3. resv'[i][l].status = "released"
      BY <1>1, <1>2, <2>1, <2>2 DEF Row
    <2>4. QED
      BY <1>2, <2>3 DEF Outstanding
  <1>3. QED
    BY <1>1, <1>2

\* A step of one call leaves the others where they are.
LEMMA CallKeepsOthers ==
    ASSUME GInv, NEW c \in Calls, CallStep(c), NEW d \in Calls, d # c
    PROVE  pc'[d] = pc[d] /\ (d \in active' <=> d \in active)
  <1>1. \E p : pc' = [pc EXCEPT ![c] = p]
    BY DEF CallStep, Progress, Goto, Respond,
           Intake, BudgetCheck, QuotaCheck, Screen, GateFails, CacheHit, CacheMiss, Reject, SkipReserve,
           ReserveGranted, ReserveRefused, ReserveCommitLost, MeterCommitLost, ProviderCall, Relay, Meter,
           MeterFails, RecordFail, ReleaseHold, ReleaseFails
  <1>2. active' = active \/ active' = active \cup {c} \/ active' = active \ {c}
    BY DEF CallStep, Progress,
           Intake, BudgetCheck, QuotaCheck, Screen, GateFails, CacheHit, CacheMiss, Reject, SkipReserve,
           ReserveGranted, ReserveRefused, ReserveCommitLost, MeterCommitLost, ProviderCall, Relay, Meter,
           MeterFails, RecordFail, ReleaseHold, ReleaseFails
  <1>3. QED
    BY <1>1, <1>2 DEF GInv, GTypeOK

\* A step of call c leaves every hold with an owner.
LEMMA CallKeepsOwners ==
    ASSUME GInv, HeldOnlyInFlight, NEW c \in Calls, CallStep(c)
    PROVE  HeldOnlyInFlight'
  <1> USE DEF GInv, GTypeOK
  <1> SUFFICES ASSUME NEW i \in Ids, NEW k \in CounterKeys, Outstanding(i, k)'
               PROVE  \E d \in Calls : IdOf[d] = i /\ Owner(d)'
    BY DEF HeldOnlyInFlight, Owner
  <1>1. IdOf[c] \in Ids /\ KeyOf[c] \in Keys
    BY CallAssumption
  <1>2. ASSUME Outstanding(i, k)
        PROVE  \E d \in Calls : IdOf[d] = i /\ Owner(d)
    BY <1>2 DEF HeldOnlyInFlight, Owner
  <1>3. \A d \in Calls : d # c /\ Owner(d) => Owner(d)'
    BY CallKeepsOthers DEF Owner
  <1>4. ASSUME NEW e \in Estimates, ReserveGranted(c, e) \/ ReserveCommitLost(c, e)
        PROVE  \E d \in Calls : IdOf[d] = i /\ Owner(d)'
    <2>1. Owner(c)'
      BY <1>4 DEF ReserveGranted, ReserveCommitLost, Goto, Respond, Owner, Holding
    <2>2. Outstanding(i, k) \/ i = IdOf[c]
      BY <1>1, <1>4, ReserveOpens DEF ReserveGranted, ReserveCommitLost
    <2>3. QED
      BY <1>2, <1>3, <2>1, <2>2
  <1>5. ASSUME NEW x \in Costs, Meter(c, x) \/ MeterCommitLost(c, x)
        PROVE  \E d \in Calls : IdOf[d] = i /\ Owner(d)'
    <2>1. x \in Nat /\ SettleTx(IdOf[c], x)
      BY <1>5, AmountAssumption DEF Meter, MeterCommitLost, RecordSuccess
    <2>2. Outstanding(i, k) /\ i # IdOf[c]
      BY <1>1, <2>1, SettleCloses
    <2>3. QED
      BY <1>2, <1>3, <2>2
  <1>6. CASE ReleaseHold(c) /\ c \in active
    <2>1. ReleaseTx(IdOf[c])
      BY <1>6 DEF ReleaseHold, Release
    <2>2. Outstanding(i, k) /\ i # IdOf[c]
      BY <1>1, <2>1, ReleaseCloses
    <2>3. QED
      BY <1>2, <1>3, <2>2
  <1>7. CASE ReleaseHold(c) /\ c \notin active
    <2>1. UNCHANGED resv /\ ~Owner(c)
      BY <1>7 DEF ReleaseHold, vars, ledger, Owner
    <2>2. QED
      BY <1>2, <1>3, <2>1 DEF Outstanding
  <1>8. CASE ProviderCall(c) \/ Relay(c) \/ MeterFails(c) \/ RecordFail(c) \/ ReleaseFails(c)
    <2>1. UNCHANGED resv
      BY <1>8 DEF ProviderCall, Relay, MeterFails, RecordFail, ReleaseFails, RecordFailure,
                  vars, ledger
    <2>2. Owner(c) => Owner(c)'
      BY <1>8 DEF ProviderCall, Relay, MeterFails, RecordFail, ReleaseFails, Goto, Respond,
                  Owner, Holding
    <2>3. QED
      BY <1>2, <1>3, <2>1, <2>2 DEF Outstanding
  <1>9. CASE \/ Intake(c) \/ BudgetCheck(c) \/ QuotaCheck(c) \/ Screen(c) \/ GateFails(c)
             \/ CacheHit(c) \/ CacheMiss(c) \/ Reject(c) \/ SkipReserve(c)
             \/ \E e \in Estimates : ReserveRefused(c, e)
    <2>1. UNCHANGED resv
      BY <1>9 DEF Intake, BudgetCheck, QuotaCheck, Screen, GateFails, CacheHit, CacheMiss, Reject,
                  SkipReserve, ReserveRefused, RecordFailure, RecordCacheHit, vars, ledger
    <2>2. ~Owner(c)
      BY <1>9 DEF Intake, BudgetCheck, QuotaCheck, Screen, GateFails, CacheHit, CacheMiss, Reject,
                  SkipReserve, ReserveRefused, Owner, Holding
    <2>3. QED
      BY <1>2, <1>3, <2>1, <2>2 DEF Outstanding
  <1>10. QED
    BY <1>4, <1>5, <1>6, <1>7, <1>8, <1>9 DEF CallStep, Progress

\* No money stays reserved for a request nobody is working on: a hold has an
\* owner, or that owner crashed or lost a database answer.  Unlike
\* HoldKeptUntilAnswer this needs no unique request ids.
THEOREM HoldsHaveOwners == GSpec => []HeldOnlyInFlight
  <1>1. GInit => HeldOnlyInFlight
    BY DEF GInit, Init, NoRow, HeldOnlyInFlight, Outstanding
  <1>2. GInv /\ HeldOnlyInFlight /\ [GNext]_gvars => HeldOnlyInFlight'
    <2> SUFFICES ASSUME GInv, HeldOnlyInFlight, [GNext]_gvars PROVE HeldOnlyInFlight'
      OBVIOUS
    <2>1. CASE \E c \in Calls : CallStep(c)
      BY <2>1, CallKeepsOwners
    <2>2. CASE Crash
      <3>1. UNCHANGED <<resv, active>>
        BY <2>2 DEF Crash, vars, ledger
      <3>2. \A d \in Calls : pc'[d] = pc[d] \/ pc'[d] = "crashed"
        BY <2>2 DEF Crash
      <3>3. QED
        BY <3>1, <3>2 DEF HeldOnlyInFlight, Outstanding
    <2>3. CASE Environment \/ UNCHANGED gvars
      <3>1. UNCHANGED <<resv, active, pc>>
        BY <2>3 DEF Environment, CreateBudget, AdvanceDay, ledger, gvars, vars, callVars
      <3>2. QED
        BY <3>1 DEF HeldOnlyInFlight, Outstanding
    <2>4. QED
      BY <2>1, <2>2, <2>3 DEF GNext, CallStep
  <1>3. QED
    BY <1>1, <1>2, GTyped, PTL DEF GSpec

-----------------------------------------------------------------------------
(* Charges                                                                 *)

\* The ledger's inductive invariant holds of the gateway.
LEMMA GatewayLedgerSafe == GSpec => []LedgerInv
  BY GatewayUsesLedger, LedgerSafe, PTL DEF ImplementsLedger

\* Only metering tells a client that its completion is done.
LEMMA OkComesFromMetering ==
    ASSUME GInv, [GNext]_gvars, NEW c \in Calls, resp'[c] = "ok", resp[c] # "ok"
    PROVE  \E x \in Costs : Meter(c, x) /\ \A d \in Calls \ {c} : resp'[d] = resp[d]
  <1> USE DEF GInv, GTypeOK
  <1>1. ASSUME NEW d \in Calls, CallStep(d), \A x \in Costs : ~Meter(d, x)
        PROVE  FALSE
    BY <1>1 DEF CallStep, Progress, Respond,
           Intake, BudgetCheck, QuotaCheck, Screen, GateFails, CacheHit, CacheMiss, Reject, SkipReserve,
           ReserveGranted, ReserveRefused, ReserveCommitLost, ProviderCall, Relay,
           MeterCommitLost, MeterFails, RecordFail, ReleaseHold, ReleaseFails
  <1>2. CASE Crash \/ Environment \/ UNCHANGED gvars
    BY <1>2 DEF Crash, Environment, callVars, gvars
  <1>3. ASSUME NEW d \in Calls, NEW x \in Costs, Meter(d, x)
        PROVE  d = c /\ \A b \in Calls \ {c} : resp'[b] = resp[b]
    BY <1>3 DEF Meter, Respond
  <1>4. QED
    BY <1>1, <1>2, <1>3 DEF GNext, CallStep

\* An answered completion has been paid for, once: whatever request ids clients
\* choose, no two answered completions share a charge.
THEOREM AnsweredIsCharged == GSpec => []OkMeansCharged
  <1>1. GInit => OkMeansCharged
    BY DEF GInit, OkMeansCharged
  <1>2. GInv /\ LedgerInv /\ OkMeansCharged /\ [GNext]_gvars => OkMeansCharged'
    <2> SUFFICES ASSUME GInv, LedgerInv, OkMeansCharged, [GNext]_gvars PROVE OkMeansCharged'
      OBVIOUS
    <2>1. \A i \in Ids : costs[i].state = "present" => costs'[i] = costs[i]
      BY StepUsesLedger, StepKeeps DEF Kept
    <2>2. \A c \in Calls : IdOf[c] \in Ids
      BY CallAssumption
    <2>3. ASSUME NEW c \in Calls, resp'[c] = "ok", resp[c] # "ok"
          PROVE  OkMeansCharged'
      <3>1. PICK x \in Costs : Meter(c, x) /\ \A d \in Calls \ {c} : resp'[d] = resp[d]
        BY <2>3, OkComesFromMetering
      <3>2. logs[IdOf[c]] = "none" /\ costs'[IdOf[c]].state = "present"
        BY <2>2, <3>1 DEF Meter, RecordSuccess, LedgerInv, TypeOK
      <3>3. costs[IdOf[c]].state # "present"
        BY <2>2, <3>2 DEF LedgerInv, ChargedIffLogged
      <3>4. \A d \in Calls \ {c} : IdOf[d] = IdOf[c] => resp'[d] # "ok"
        BY <3>1, <3>3 DEF OkMeansCharged
      <3>5. QED
        BY <2>1, <2>2, <3>1, <3>2, <3>4 DEF OkMeansCharged
    <2>4. CASE \A c \in Calls : resp'[c] = "ok" => resp[c] = "ok"
      BY <2>1, <2>2, <2>4 DEF OkMeansCharged
    <2>5. QED
      BY <2>3, <2>4
  <1>3. QED
    BY <1>1, <1>2, GTyped, GatewayLedgerSafe, PTL DEF GSpec

-----------------------------------------------------------------------------
(* With a request id of its own: nobody else works on a call's rows         *)

DistinctIds == \A c, d \in Calls : IdOf[c] = IdOf[d] => c = d

Untouched(i) ==
    costs[i].state = "absent" /\ \A k \in CounterKeys : resv[i][k].status = "none"

\* What the ledger has of a call, by where the call is.
OwnRows(c) ==
    /\ pc[c] \in {"start", "budget", "quota", "screen", "cache", "reserve", "reject"} =>
          Untouched(IdOf[c])
    /\ pc[c] \in Holding \ {"release"} =>
          \A k \in CounterKeys : resv[IdOf[c]][k].status \in {"none", "reserved"}
    /\ resp[c] = "rejected" => pc[c] = "done" /\ Untouched(IdOf[c])

\* The transactions of one call leave the rows of other request ids alone.
LEMMA OtherRowsKept ==
    ASSUME GInv, NEW c \in Calls, CallStep(c), NEW i \in Ids, i # IdOf[c]
    PROVE  resv'[i] = resv[i] /\ costs'[i] = costs[i]
  <1>1. /\ resv' = resv \/ (\E f : resv' = [resv EXCEPT ![IdOf[c]] = f])
        /\ costs' = costs \/ (\E r : costs' = [costs EXCEPT ![IdOf[c]] = r])
    BY CallTouchesLedger
       DEF LedgerStep, vars, ledger, Reserve, RecordSuccess, SettleTx, Release, ReleaseTx, RecordFailure,
           RecordCacheHit
  <1>2. QED
    BY <1>1 DEF GInv, GTypeOK, TypeOK

\* Reserve leaves rows that are open or were there before.
LEMMA ReserveOnlyOpens ==
    ASSUME TypeOK, NEW i \in Ids, NEW k \in Keys, NEW e \in Estimates, Reserve(i, k, e),
           NEW l \in CounterKeys, resv[i][l].status = "none"
    PROVE  resv'[i][l].status \in {"none", "reserved"}
  <1>1. resv'[i] = [c \in CounterKeys |->
                      IF c \in loadBlockingConstraints(k) /\ Hold(c, e) > 0
                      THEN [status |-> "reserved", amount |-> Hold(c, e), settled |-> 0]
                      ELSE resv[i][c]]
    BY DEF Reserve, TypeOK
  <1>2. QED
    BY <1>1

\* A step of a call keeps it in agreement with its own rows.
LEMMA OwnStep ==
    ASSUME GInv, NEW c \in Calls, CallStep(c), OwnRows(c)
    PROVE  OwnRows(c)'
  <1> USE DEF GInv, GTypeOK
  <1>i. IdOf[c] \in Ids /\ KeyOf[c] \in Keys
    BY CallAssumption
  <1>1. CASE Intake(c) \/ BudgetCheck(c) \/ QuotaCheck(c) \/ Screen(c) \/ GateFails(c) \/ CacheMiss(c)
             \/ CacheHit(c) \/ Reject(c) \/ SkipReserve(c) \/ \E e \in Estimates : ReserveRefused(c, e)
    <2>1. UNCHANGED <<resv, costs>> /\ Untouched(IdOf[c]) /\ resp[c] # "rejected"
      BY <1>1 DEF OwnRows, Intake, BudgetCheck, QuotaCheck, Screen, GateFails, CacheMiss, CacheHit, Reject,
                  SkipReserve, ReserveRefused, RecordFailure, RecordCacheHit, vars, ledger
    <2>2. resp'[c] = "rejected" => pc'[c] = "done"
      BY <1>1, <2>1 DEF Intake, BudgetCheck, QuotaCheck, Screen, GateFails, CacheMiss, CacheHit, Reject,
                  SkipReserve, ReserveRefused, Respond, Goto
    <2>3. Untouched(IdOf[c])'
      BY <2>1 DEF Untouched
    <2>4. QED
      BY <2>2, <2>3 DEF OwnRows, Untouched
  <1>2. ASSUME NEW e \in Estimates, ReserveGranted(c, e) \/ ReserveCommitLost(c, e)
        PROVE  OwnRows(c)'
    <2>1. Reserve(IdOf[c], KeyOf[c], e) /\ Untouched(IdOf[c]) /\ resp[c] # "rejected"
      BY <1>2 DEF OwnRows, ReserveGranted, ReserveCommitLost
    <2>2. \A k \in CounterKeys : resv'[IdOf[c]][k].status \in {"none", "reserved"}
      BY <1>i, <2>1, ReserveOnlyOpens DEF Untouched
    <2>3. pc'[c] \in {"provider", "leaked"} /\ resp'[c] # "rejected"
      BY <1>2, <2>1 DEF ReserveGranted, ReserveCommitLost, Goto, Respond
    <2>4. QED
      BY <2>2, <2>3 DEF OwnRows, Holding
  <1>3. CASE ProviderCall(c) \/ Relay(c) \/ MeterFails(c) \/ RecordFail(c) \/ ReleaseFails(c)
    <2>1. UNCHANGED resv /\ resp[c] # "rejected" /\ resp'[c] # "rejected"
      BY <1>3 DEF OwnRows, ProviderCall, Relay, MeterFails, RecordFail, ReleaseFails, RecordFailure, vars,
                  ledger, Respond
    <2>2. pc'[c] \in {"meter", "relay", "fail", "release", "leaked"}
          /\ (pc'[c] \in Holding \ {"release"} => pc[c] \in Holding \ {"release"})
      BY <1>3 DEF ProviderCall, Relay, MeterFails, RecordFail, ReleaseFails, Respond, Goto, Holding
    <2>3. QED
      BY <2>1, <2>2 DEF OwnRows
  <1>4. CASE ReleaseHold(c) \/ \E x \in Costs : Meter(c, x) \/ MeterCommitLost(c, x)
    <2>1. pc'[c] \in {"done", "release"} /\ resp'[c] # "rejected"
      BY <1>4 DEF OwnRows, ReleaseHold, Meter, MeterCommitLost, Goto, Respond
    <2>2. QED
      BY <2>1 DEF OwnRows, Holding
  <1>5. QED
    BY <1>1, <1>2, <1>3, <1>4 DEF CallStep, Progress

\* A step of another call, or of the environment, does not disturb it.
LEMMA OwnRowsStep ==
    ASSUME DistinctIds, GInv, \A c \in Calls : OwnRows(c), [GNext]_gvars
    PROVE  \A c \in Calls : OwnRows(c)'
  <1> SUFFICES ASSUME NEW c \in Calls PROVE OwnRows(c)'
    OBVIOUS
  <1>i. IdOf[c] \in Ids
    BY CallAssumption
  <1>1. ASSUME NEW d \in Calls, CallStep(d)
        PROVE  OwnRows(c)'
    <2>1. CASE d = c
      BY <1>1, <2>1, OwnStep
    <2>2. CASE d # c
      <3>1. IdOf[d] # IdOf[c]
        BY <2>2 DEF DistinctIds
      <3>2. resv'[IdOf[c]] = resv[IdOf[c]] /\ costs'[IdOf[c]] = costs[IdOf[c]]
        BY <1>1, <1>i, <3>1, OtherRowsKept
      <3>3. pc'[c] = pc[c]
        BY <1>1, <2>2, CallKeepsOthers
      <3>4. resp'[c] = resp[c]
        <4>1. resp' = resp \/ (\E r : resp' = [resp EXCEPT ![d] = r])
          BY <1>1 DEF CallStep, Progress, Respond,
                 Intake, BudgetCheck, QuotaCheck, Screen, GateFails, CacheHit, CacheMiss, Reject, SkipReserve,
                 ReserveGranted, ReserveRefused, ReserveCommitLost, MeterCommitLost, ProviderCall, Relay, Meter,
                 MeterFails, RecordFail, ReleaseHold, ReleaseFails
        <4>2. QED
          BY <2>2, <4>1 DEF GInv, GTypeOK
      <3>5. QED
        BY <3>2, <3>3, <3>4 DEF OwnRows, Untouched
    <2>3. QED
      BY <2>1, <2>2
  <1>2. CASE Crash
    <2>1. UNCHANGED <<resv, costs, resp>> /\ (pc'[c] = pc[c] \/ (pc'[c] = "crashed" /\ pc[c] # "done"))
      BY <1>2 DEF Crash, vars, ledger, Ended
    <2>2. QED
      BY <2>1 DEF OwnRows, Untouched, Holding
  <1>3. CASE Environment \/ UNCHANGED gvars
    <2>1. UNCHANGED <<resv, costs, resp, pc>>
      BY <1>3 DEF Environment, CreateBudget, AdvanceDay, ledger, gvars, vars, callVars
    <2>2. QED
      BY <2>1 DEF OwnRows, Untouched
  <1>4. QED
    BY <1>1, <1>2, <1>3 DEF GNext, CallStep

\* With ids of their own, calls have reservation rows of their own.
LEMMA CallsOwnRows ==
    ASSUME DistinctIds
    PROVE  GSpec => [](\A c \in Calls : OwnRows(c))
  <1>1. GInit => \A c \in Calls : OwnRows(c)
    BY CallAssumption DEF GInit, Init, NoRow, NoCost, OwnRows, Untouched, Holding
  <1>2. GInv /\ (\A c \in Calls : OwnRows(c)) /\ [GNext]_gvars => (\A c \in Calls : OwnRows(c))'
    BY OwnRowsStep
  <1>3. QED
    BY <1>1, <1>2, GTyped, PTL DEF GSpec

\* A call whose request id nobody shares keeps its money reserved until it is through
\* with the provider and with metering, whatever the other calls, crashes, new budgets
\* and the calendar do.
THEOREM HoldsAreKept ==
    ASSUME DistinctIds
    PROVE  GSpec => []HoldKeptUntilAnswer
  <1>1. GInv /\ (\A c \in Calls : OwnRows(c)) => HoldKeptUntilAnswer
    BY DEF GInv, GTypeOK, OwnRows, HoldKeptUntilAnswer
  <1>2. QED
    BY <1>1, CallsOwnRows, GTyped, PTL

\* A request that is refused, at whichever gate, leaves no hold and no cost behind.
THEOREM RefusedLeavesNothing ==
    ASSUME DistinctIds
    PROVE  GSpec => []RejectedIsClean
  <1>1. (\A c \in Calls : OwnRows(c)) => RejectedIsClean
    BY DEF OwnRows, Untouched, RejectedIsClean
  <1>2. QED
    BY <1>1, CallsOwnRows, PTL

-----------------------------------------------------------------------------
(* Counters and cost records                                               *)

\* The calls that have been charged.
Paid == {c \in Calls : costs[IdOf[c]].state = "present"}

\* What requests have added to a counter since it was seeded.
Drift(k) == IF counter[k].state = "present" THEN counter[k].settled - openedWith[k] ELSE 0
Tracks(k) == Drift(k) + Total(CostOf, Uncovered(k)) = recorded[k] + Total(CostOf, Strayed(k))

\* The inductive invariant: every counter, the absent ones included, since what has been
\* recorded before a counter exists is what it is seeded with.
TrackInv == IsFiniteSet(Paid) /\ \A k \in CounterKeys : Tracks(k)

\* The sums range over charged calls only, so over finitely many numbers.
LEMMA TracksTyped ==
    ASSUME LedgerInv, IsFiniteSet(Paid), NEW k \in CounterKeys
    PROVE  /\ IsFiniteSet(Uncovered(k)) /\ IsFiniteSet(Strayed(k))
           /\ Uncovered(k) \subseteq Paid /\ Strayed(k) \subseteq Paid /\ Paid \subseteq Calls
           /\ Total(CostOf, Uncovered(k)) \in Nat /\ Total(CostOf, Strayed(k)) \in Nat
           /\ CostOf \in [Calls -> Nat]
  <1>1. CostOf \in [Calls -> Nat]
    <2>1. \A c \in Calls : costs[IdOf[c]] \in CostRecord
      BY CallAssumption DEF LedgerInv, TypeOK
    <2>2. QED
      BY <2>1 DEF CostOf, CostRecord
  <1>2. Uncovered(k) \subseteq Paid /\ Strayed(k) \subseteq Paid /\ Paid \subseteq Calls
    BY CallAssumption DEF Uncovered, Strayed, Paid, LedgerInv, SettledRowsCharged
  <1>3. IsFiniteSet(Uncovered(k)) /\ IsFiniteSet(Strayed(k))
    BY <1>2, FS_Subset
  <1>4. Total(CostOf, Uncovered(k)) \in Nat /\ Total(CostOf, Strayed(k)) \in Nat
    BY <1>1, <1>2, <1>3, TotalTyped
  <1>5. QED
    BY <1>1, <1>2, <1>3, <1>4

\* A transaction that charges nobody and moves neither rows of charged calls nor what was
\* added to a counter.
LEMMA UnchargedTracks ==
    ASSUME TrackInv, UNCHANGED <<costs, recorded>>, NEW k \in CounterKeys, Drift(k)' = Drift(k),
           \A c \in Calls :
              /\ costs[IdOf[c]].state = "present" =>
                    (resv'[IdOf[c]][k].status = "none" <=> resv[IdOf[c]][k].status = "none")
              /\ resv'[IdOf[c]][k].status = "settled" <=> resv[IdOf[c]][k].status = "settled"
    PROVE  Tracks(k)'
  <1>1. CostOf' = CostOf /\ \A c \in Calls : InWindow(c, k)' <=> InWindow(c, k)
    BY DEF CostOf, InWindow
  <1>2. Uncovered(k)' = Uncovered(k) /\ Strayed(k)' = Strayed(k)
    BY <1>1 DEF Uncovered, Strayed
  <1>3. QED
    BY <1>1, <1>2 DEF TrackInv, Tracks

\* Opening a counter seeds it with what has been recorded, and a hold is made by a call
\* that has not been charged.
LEMMA ReserveTracks ==
    ASSUME DistinctIds, LedgerInv, TrackInv, NEW c \in Calls, Untouched(IdOf[c]),
           NEW e \in Estimates, Reserve(IdOf[c], KeyOf[c], e), NEW k \in CounterKeys
    PROVE  Tracks(k)'
  <1>1. IdOf[c] \in Ids /\ KeyOf[c] \in Keys /\ TypeOK /\ UNCHANGED <<costs, recorded>>
    BY CallAssumption DEF LedgerInv, Reserve
  <1>2. Drift(k)' = Drift(k)
    <2> DEFINE K == loadBlockingConstraints(KeyOf[c])
    <2>1. counter'[k] = IF k \in K
                        THEN [ensureAndLockCounter(k) EXCEPT !.reserved = @ + Hold(k, e)]
                        ELSE counter[k]
      BY DEF Reserve
    <2>2. openedWith'[k] = IF k \in K /\ counter[k].state = "absent" THEN recorded[k] ELSE openedWith[k]
      BY DEF Reserve
    <2>3. /\ ensureAndLockCounter(k) \in Counter /\ ensureAndLockCounter(k).state = "present"
          /\ counter[k].state = "present" => ensureAndLockCounter(k) = counter[k]
          /\ counter[k].state = "absent" => ensureAndLockCounter(k).settled = recorded[k]
      BY <1>1, EnsuredCounter DEF ensureAndLockCounter
    <2>4. counter[k] \in Counter /\ recorded[k] \in Nat
      BY <1>1 DEF TypeOK
    <2> HIDE DEF K
    <2>5. CASE k \notin K
      BY <2>1, <2>2, <2>5 DEF Drift
    <2>6. CASE k \in K
      <3>1. counter'[k].state = "present" /\ counter'[k].settled = ensureAndLockCounter(k).settled
        BY <2>1, <2>3, <2>6 DEF Counter
      <3>2. CASE counter[k].state = "present"
        BY <2>2, <2>3, <3>1, <3>2 DEF Drift
      <3>3. CASE counter[k].state = "absent"
        BY <2>2, <2>3, <2>4, <2>6, <3>1, <3>3 DEF Drift
      <3>4. QED
        BY <2>4, <3>2, <3>3 DEF Counter
    <2>7. QED
      BY <2>5, <2>6
  <1>3. ASSUME NEW d \in Calls
        PROVE  /\ costs[IdOf[d]].state = "present" =>
                     (resv'[IdOf[d]][k].status = "none" <=> resv[IdOf[d]][k].status = "none")
               /\ resv'[IdOf[d]][k].status = "settled" <=> resv[IdOf[d]][k].status = "settled"
    <2>1. IdOf[d] \in Ids
      BY CallAssumption
    <2>2. CASE d = c
      BY <1>1, <2>2, ReserveEffect DEF Untouched
    <2>3. CASE d # c
      <3>1. IdOf[d] # IdOf[c]
        BY <2>3 DEF DistinctIds
      <3>2. resv'[IdOf[d]][k] = resv[IdOf[d]][k]
        BY <2>1, <3>1 DEF Reserve, LedgerInv, TypeOK
      <3>3. QED
        BY <3>2
    <2>4. QED
      BY <2>2, <2>3
  <1>4. QED
    BY <1>1, <1>2, <1>3, UnchargedTracks

\* Giving a hold back changes neither what was charged nor to whom.
LEMMA ReleaseTracks ==
    ASSUME LedgerInv, TrackInv, NEW i \in Ids, Release(i), NEW k \in CounterKeys
    PROVE  Tracks(k)'
  <1>1. TypeOK /\ ReleaseTx(i) /\ UNCHANGED <<costs, recorded, openedWith>>
    BY DEF LedgerInv, Release
  <1>2. Drift(k)' = Drift(k)
    <2>1. counter[k] \in Counter
      BY <1>1 DEF TypeOK
    <2>2. counter'[k].state = counter[k].state /\ counter'[k].settled = counter[k].settled
      BY <1>1, <2>1 DEF ReleaseTx, Counter
    <2>3. QED
      BY <1>1, <2>2 DEF Drift
  <1>3. ASSUME NEW d \in Calls
        PROVE  /\ costs[IdOf[d]].state = "present" =>
                     (resv'[IdOf[d]][k].status = "none" <=> resv[IdOf[d]][k].status = "none")
               /\ resv'[IdOf[d]][k].status = "settled" <=> resv[IdOf[d]][k].status = "settled"
    <2>1. IdOf[d] \in Ids
      BY CallAssumption
    <2>2. QED
      BY <1>1, <2>1, ReleaseEffect
  <1>4. QED
    BY <1>1, <1>2, <1>3, UnchargedTracks

\* A charge reaches the cost records of its window and every counter it holds something on;
\* where it reaches only one of the two, its call joins the calls that explain the drift.
LEMMA MeterTracks ==
    ASSUME DistinctIds, LedgerInv, TrackInv, GInv, NEW c \in Calls, NEW x \in Costs,
           RecordSuccess(IdOf[c], KeyOf[c], x, doneAt[c]), NEW k \in CounterKeys,
           resv[IdOf[c]][k].status \in {"none", "reserved"}
    PROVE  Tracks(k)'
  <1> DEFINE i == IdOf[c]
             f == CostOf
             h == [d \in Calls |-> costs'[IdOf[d]].cost]
             U == Uncovered(k)
             S == Strayed(k)
             W == k[1][1] \in {Org, KeyOf[c]} /\ k[2] = periodWindow(doneAt[c], k[1][2])
             held == resv[i][k].status = "reserved"
  <1>1. i \in Ids /\ x \in Nat /\ TypeOK /\ SettleTx(i, x) /\ UNCHANGED openedWith
    BY CallAssumption, AmountAssumption DEF LedgerInv, RecordSuccess
  <1>2. costs[i].state = "absent"
    <2>1. costs[i].state # "present" /\ costs[i] \in CostRecord
      BY <1>1 DEF RecordSuccess, LedgerInv, ChargedIffLogged, TypeOK
    <2>2. QED
      BY <2>1 DEF CostRecord
  <1>3. \A d \in Calls : d # c => IdOf[d] # i /\ IdOf[d] \in Ids
    BY CallAssumption DEF DistinctIds
  <1>4. /\ costs'[i] = [state |-> "present", cost |-> x, day |-> doneAt[c]]
        /\ \A d \in Calls : d # c => costs'[IdOf[d]] = costs[IdOf[d]]
    BY <1>1, <1>3 DEF RecordSuccess, TypeOK
  <1>5. /\ \A d \in Calls : d # c => resv'[IdOf[d]][k] = resv[IdOf[d]][k]
        /\ resv'[i][k].status = IF held THEN "settled" ELSE "none"
    <2>1. \A d \in Calls : d # c => resv'[IdOf[d]][k] = resv[IdOf[d]][k]
      <3>1. \A j \in Ids : j # i => resv'[j][k] = resv[j][k]
        BY <1>1, SettleWrites
      <3>2. QED
        BY <1>3, <3>1
    <2>2. resv'[i][k] = IF held
                        THEN [status |-> "settled", amount |-> resv[i][k].amount, settled |-> x]
                        ELSE resv[i][k]
      BY <1>1, SettleWrites DEF Outstanding
    <2>3. QED
      BY <2>1, <2>2
  <1>6. recorded'[k] = (IF W THEN recorded[k] + x ELSE recorded[k]) /\ recorded[k] \in Nat
    BY <1>1 DEF RecordSuccess, TypeOK
  <1>7. Drift(k)' = (IF held THEN Drift(k) + x ELSE Drift(k)) /\ Drift(k) \in Int
    <2>1. counter[k] \in Counter /\ openedWith[k] \in Nat
      BY <1>1 DEF TypeOK
    <2>2. counter'[k] = IF held
                        THEN [state |-> counter[k].state, settled |-> counter[k].settled + x,
                              reserved |-> Lowered(k, i)]
                        ELSE counter[k]
      BY <1>1 DEF SettleTx, Outstanding
    <2>3. held => counter[k].state = "present"
      BY <1>1 DEF LedgerInv, RowsHaveCounters
    <2>4. counter[k].settled \in Nat
      BY <2>1 DEF Counter
    <2>5. CASE held
      <3>1. counter'[k].state = "present" /\ counter'[k].settled = counter[k].settled + x
        BY <2>2, <2>3, <2>5
      <3>2. QED
        BY <1>1, <2>1, <2>3, <2>4, <2>5, <3>1 DEF Drift
    <2>6. CASE ~held
      BY <1>1, <2>1, <2>2, <2>4, <2>6 DEF Drift
    <2>7. QED
      BY <2>5, <2>6
  <1>8. (InWindow(c, k)' <=> W) /\ \A d \in Calls : d # c => (InWindow(d, k)' <=> InWindow(d, k))
    BY <1>4 DEF InWindow
  <1>9. /\ Uncovered(k)' = IF W /\ ~held THEN U \cup {c} ELSE U
        /\ c \notin U
    BY <1>2, <1>4, <1>5, <1>8 DEF Uncovered
  <1>10. /\ Strayed(k)' = IF ~W /\ held THEN S \cup {c} ELSE S
         /\ c \notin S
    <2>1. resv[i][k].status # "settled"
      OBVIOUS
    <2>2. QED
      BY <1>5, <1>8, <2>1 DEF Strayed
  <1>11. CostOf' = h
    BY DEF CostOf
  <1>12. /\ IsFiniteSet(U) /\ IsFiniteSet(S) /\ U \subseteq Calls /\ S \subseteq Calls
         /\ Total(f, U) \in Nat /\ Total(f, S) \in Nat /\ f \in [Calls -> Nat]
    BY TracksTyped DEF TrackInv
  <1>13. h[c] = x /\ \A d \in Calls : d # c => h[d] = f[d]
    BY <1>4 DEF CostOf
  <1>14. Drift(k) + Total(f, U) = recorded[k] + Total(f, S)
    BY DEF TrackInv, Tracks
  <1> HIDE DEF f, h, U, S, W, held
  <1>15. /\ \A d \in U : f[d] \in Nat
         /\ \A d \in U : h[d] = f[d]
         /\ h[c] \in Nat
    BY <1>1, <1>9, <1>12, <1>13
  <1>16. /\ \A d \in S : f[d] \in Nat
         /\ \A d \in S : h[d] = f[d]
         /\ h[c] \in Nat
    BY <1>1, <1>10, <1>12, <1>13
  <1>17. Total(h, Uncovered(k)') = IF W /\ ~held THEN Total(f, U) + x ELSE Total(f, U)
    <2>1. CASE W /\ ~held
      <3>1. Uncovered(k)' = U \cup {c} /\ c \notin U /\ IsFiniteSet(U)
        BY <1>9, <1>12, <2>1
      <3>2. PICK T : T = Uncovered(k)'
        OBVIOUS
      <3>3. Total(h, T) = Total(f, U) + h[c]
        BY <1>15, <3>1, <3>2, TotalAdd
      <3>4. QED
        BY <1>13, <2>1, <3>2, <3>3
    <2>2. CASE ~(W /\ ~held)
      BY <1>9, <1>12, <1>15, <2>2, TotalAgree
    <2>3. QED
      BY <2>1, <2>2
  <1>18. Total(h, Strayed(k)') = IF ~W /\ held THEN Total(f, S) + x ELSE Total(f, S)
    <2>1. CASE ~W /\ held
      <3>1. Strayed(k)' = S \cup {c} /\ c \notin S /\ IsFiniteSet(S)
        BY <1>10, <1>12, <2>1
      <3>2. PICK T : T = Strayed(k)'
        OBVIOUS
      <3>3. Total(h, T) = Total(f, S) + h[c]
        BY <1>16, <3>1, <3>2, TotalAdd
      <3>4. QED
        BY <1>13, <2>1, <3>2, <3>3
    <2>2. CASE ~(~W /\ held)
      BY <1>10, <1>12, <1>16, <2>2, TotalAgree
    <2>3. QED
      BY <2>1, <2>2
  <1>19. Drift(k)' + Total(h, Uncovered(k)') = recorded'[k] + Total(h, Strayed(k)')
    BY <1>1, <1>6, <1>7, <1>12, <1>14, <1>17, <1>18
  <1>20. QED
    BY <1>11, <1>19 DEF Tracks

\* One call at most joins the charged ones.
LEMMA PaidGrows ==
    ASSUME LedgerInv, DistinctIds, IsFiniteSet(Paid), NEW c \in Calls,
           \A d \in Calls : d # c => costs'[IdOf[d]] = costs[IdOf[d]]
    PROVE  IsFiniteSet(Paid')
  <1>1. Paid' \subseteq Paid \cup {c}
    BY DEF Paid
  <1>2. IsFiniteSet(Paid \cup {c})
    BY FS_AddElement
  <1>3. QED
    BY <1>1, <1>2, FS_Subset

\* Every step keeps every counter in step with the cost records.
LEMMA StepTracks ==
    ASSUME DistinctIds, GInv, LedgerInv, \A c \in Calls : OwnRows(c), TrackInv, [GNext]_gvars
    PROVE  TrackInv'
  <1>1. ASSUME NEW c \in Calls, CallStep(c)
        PROVE  TrackInv'
    <2>1. IdOf[c] \in Ids /\ KeyOf[c] \in Keys
      BY CallAssumption
    <2>2. IsFiniteSet(Paid')
      <3>1. ASSUME NEW d \in Calls, d # c
            PROVE  costs'[IdOf[d]] = costs[IdOf[d]]
        <4>1. IdOf[d] \in Ids /\ IdOf[d] # IdOf[c]
          BY <3>1, CallAssumption DEF DistinctIds
        <4>2. QED
          BY <1>1, <4>1, OtherRowsKept
      <3>2. QED
        BY <3>1, PaidGrows DEF TrackInv
    <2>3. ASSUME NEW k \in CounterKeys
          PROVE  Tracks(k)'
      <3>1. ASSUME NEW e \in Estimates, pc[c] = "reserve", Reserve(IdOf[c], KeyOf[c], e)
            PROVE  Tracks(k)'
        <4>1. Untouched(IdOf[c])
          BY <3>1 DEF OwnRows
        <4>2. QED
          BY <3>1, <4>1, ReserveTracks
      <3>2. ASSUME NEW x \in Costs, pc[c] = "meter", RecordSuccess(IdOf[c], KeyOf[c], x, doneAt[c])
            PROVE  Tracks(k)'
        <4>1. resv[IdOf[c]][k].status \in {"none", "reserved"}
          BY <3>2 DEF OwnRows, Holding
        <4>2. QED
          BY <3>2, <4>1, MeterTracks
      <3>3. CASE Release(IdOf[c])
        BY <2>1, <3>3, ReleaseTracks
      <3>4. CASE UNCHANGED <<counter, resv, costs, recorded, openedWith>>
        BY <3>4, UnchargedTracks DEF Drift
      <3>5. QED
        BY <1>1, <3>1, <3>2, <3>3, <3>4, CallTouchesLedger
           DEF LedgerStep, RecordFailure, RecordCacheHit, vars, ledger
    <2>4. QED
      BY <2>2, <2>3 DEF TrackInv
  <1>2. CASE Crash \/ Environment \/ UNCHANGED gvars
    <2>1. UNCHANGED <<counter, resv, costs, recorded, openedWith>>
      BY <1>2 DEF Crash, Environment, CreateBudget, AdvanceDay, gvars, vars, ledger
    <2>2. Paid' = Paid
      BY <2>1 DEF Paid
    <2>3. \A k \in CounterKeys : Tracks(k)'
      BY <2>1, UnchargedTracks DEF Drift
    <2>4. QED
      BY <2>2, <2>3 DEF TrackInv
  <1>3. QED
    BY <1>1, <1>2 DEF GNext, CallStep

\* A counter differs from the cost records of its window by exactly the requests that held
\* nothing on it and the ones that were charged in another window.
THEOREM CountersTrackCosts ==
    ASSUME DistinctIds
    PROVE  GSpec => []CounterTracksCosts
  <1>1. GInit => TrackInv
    <2> SUFFICES ASSUME GInit PROVE TrackInv
      OBVIOUS
    <2>1. /\ \A c \in Calls : costs[IdOf[c]].state = "absent"
          /\ \A c \in Calls, k \in CounterKeys : resv[IdOf[c]][k].status = "none"
      BY CallAssumption DEF GInit, Init, NoCost, NoRow
    <2>2. Paid = {} /\ \A k \in CounterKeys : Uncovered(k) = {} /\ Strayed(k) = {}
      BY <2>1 DEF Paid, Uncovered, Strayed
    <2>3. \A k \in CounterKeys : Drift(k) = 0 /\ recorded[k] = 0
      BY DEF GInit, Init, NoCounter, Drift
    <2>4. \A k \in CounterKeys : Tracks(k)
      BY <2>2, <2>3, TotalEmpty DEF Tracks
    <2>5. QED
      BY <2>2, <2>4, FS_EmptySet DEF TrackInv
  <1>2. GInv /\ LedgerInv /\ (\A c \in Calls : OwnRows(c)) /\ TrackInv /\ [GNext]_gvars => TrackInv'
    BY StepTracks
  <1>3. TrackInv => CounterTracksCosts
    BY DEF TrackInv, Tracks, Drift, CounterTracksCosts
  <1>4. QED
    BY <1>1, <1>2, <1>3, GTyped, GatewayLedgerSafe, CallsOwnRows, PTL DEF GSpec
=============================================================================
