----------------------------- MODULE CostLimits -----------------------------
(***************************************************************************)
(* The cost ledger of the gateway: the tables cost_limit_counters,         *)
(* cost_reservations, cost_records, request_logs and budgets, and the      *)
(* transactions that change them.                                          *)
(*                                                                         *)
(*   internal/limits/reservation_service.go   Reserve, SettleTx, ReleaseTx *)
(*   internal/metering/service.go             RecordSuccess / Failure /    *)
(*                                            CacheHit                     *)
(*   internal/budget/service.go               CreateBudget                 *)
(*                                                                         *)
(* One action is one committed transaction.  Reserve holds FOR UPDATE row  *)
(* locks on every counter it read until it commits, so it is atomic with   *)
(* respect to the counters; module ReserveTx opens the transaction up and  *)
(* looks at the locks.  A transaction that is rolled back (a blocked or    *)
(* failed Reserve, a failed RecordSuccess) changes nothing here; what the  *)
(* caller does next is the business of module ChatGateway.                 *)
(*                                                                         *)
(* Spec is the service as such: any caller may call any operation with any *)
(* request id at any time, which is what the code accepts (the request id  *)
(* may come from the client's X-Request-Id header).  ChatGateway restricts *)
(* the calls to the ones the two chat handlers make.                       *)
(*                                                                         *)
(* A definition named X_Y is a faulty variant of X that no specification   *)
(* uses: it shows which property would notice the fault.                   *)
(***************************************************************************)
EXTENDS Integers, FiniteSetsExt

CONSTANTS
    Ids,         \* request ids
    Keys,        \* gateway API keys of the organisation
    Org,         \* the organisation
    MaxDay,      \* bound on the clock
    MonthStart,  \* calendar: first day of the month a day lies in
    KeyQuota,    \* [Keys \X Periods -> {} or {limit}] quotas with action block
    BudgetLimits,\* limits an admin may give to a new blocking budget
    Estimates,   \* cost estimates handed to Reserve
    Costs        \* actual costs computed by RecordSuccess

Periods == {"daily", "monthly"}
Days == 0 .. MaxDay

ASSUME DaysAssumption ==
    /\ MaxDay \in Nat
    /\ MonthStart \in [Days -> Days]
    /\ \A d \in Days : MonthStart[d] =< d /\ MonthStart[MonthStart[d]] = MonthStart[d]

ASSUME ScopeAssumption == Org \notin Keys

ASSUME AmountAssumption ==
    /\ KeyQuota \in [Keys \X Periods -> SUBSET Nat]
    /\ BudgetLimits \in SUBSET Nat
    /\ Estimates \in SUBSET Nat
    /\ Costs \in SUBSET Nat

\* A key has at most one quota per period.
ASSUME QuotaAssumption == \A s \in Keys \X Periods : \A l, m \in KeyQuota[s] : l = m

\* A limit applies to a scope (the organisation or one key) and a period; a
\* counter exists per limit and per window of the period, named by its first day.
Slots == ({Org} \cup Keys) \X Periods
CounterKeys == Slots \X Days

Counter == [state: {"absent", "present"}, settled: Nat, reserved: Nat]
NoCounter == [state |-> "absent", settled |-> 0, reserved |-> 0]

Row == [status: {"none", "reserved", "settled", "released"}, amount: Nat, settled: Nat]
NoRow == [status |-> "none", amount |-> 0, settled |-> 0]

CostRecord == [state: {"absent", "present"}, cost: Nat, day: Days]
NoCost == [state |-> "absent", cost |-> 0, day |-> 0]

VARIABLES
    day,        \* today (UTC)
    budgets,    \* [Slots -> limits of the active budgets with action block]
    counter,    \* cost_limit_counters
    resv,       \* cost_reservations: request id -> counter -> row
    logs,       \* request_logs: what was recorded under a request id, if anything
    costs,      \* cost_records, by request id
    recorded,   \* SUM(total_cost_micro) of the cost_records of a scope in a window
    openedWith  \* history: what a counter's settled amount was seeded with

ledger == <<counter, resv, logs, costs, recorded, openedWith>>
vars == <<day, budgets, ledger>>

TypeOK ==
    /\ day \in Days
    /\ budgets \in [Slots -> SUBSET Nat]
    /\ counter \in [CounterKeys -> Counter]
    /\ resv \in [Ids -> [CounterKeys -> Row]]
    /\ logs \in [Ids -> {"none", "success", "failure", "cache_hit"}]
    /\ costs \in [Ids -> CostRecord]
    /\ recorded \in [CounterKeys -> Nat]
    /\ openedWith \in [CounterKeys -> Nat]

\* API keys carry their quotas from creation on; budgets are added later.
Init ==
    /\ day = 0
    /\ budgets = [s \in Slots |-> IF s[1] = Org THEN {} ELSE KeyQuota[s]]
    /\ counter = [c \in CounterKeys |-> NoCounter]
    /\ resv = [i \in Ids |-> [c \in CounterKeys |-> NoRow]]
    /\ logs = [i \in Ids |-> "none"]
    /\ costs = [i \in Ids |-> NoCost]
    /\ recorded = [c \in CounterKeys |-> 0]
    /\ openedWith = [c \in CounterKeys |-> 0]

-----------------------------------------------------------------------------
(* Reserve                                                                 *)

periodWindow(d, period) == IF period = "daily" THEN d ELSE MonthStart[d]

\* The counters a request of key k is measured against now: one for every
\* period of the organisation with a blocking budget and of the key with a
\* blocking quota.
loadBlockingConstraints(k) ==
    { <<s, periodWindow(day, s[2])>> : s \in {t \in ({Org, k} \X Periods) : budgets[t] # {}} }

\* Several budgets may share a period; the strictest counts.
LimitOf(c) == Min(budgets[c[1]])

ensureAndLockCounter_Unseeded(c) ==
    IF counter[c].state = "present"
    THEN counter[c]
    ELSE [state |-> "present", settled |-> 0, reserved |-> 0]

\* A counter is created on first use and seeded with what has been recorded.
ensureAndLockCounter(c) ==
    IF counter[c].state = "present"
    THEN counter[c]
    ELSE [state |-> "present", settled |-> recorded[c], reserved |-> 0]

Used_SettledOnly(c) == ensureAndLockCounter(c).settled
Used(c) == ensureAndLockCounter(c).settled + ensureAndLockCounter(c).reserved
Remaining(c) == LimitOf(c) - Used(c)

Hold_Unclamped(c, e) == e

\* A request larger than what is left is let through only as the first of a window.
Admits(c, e) == Remaining(c) > 0 /\ (e > Remaining(c) => Used(c) = 0)
Hold(c, e) == IF e > Remaining(c) THEN Remaining(c) ELSE e

Conflicts_NoUniqueIndex(i, c, e) == FALSE

\* UNIQUE (request_id, scope_type, scope_id, period, window_start)
Conflicts(i, c, e) == Hold(c, e) > 0 /\ resv[i][c].status # "none"

ReserveAllowed(i, k, e) ==
    \A c \in loadBlockingConstraints(k) : Admits(c, e) /\ ~Conflicts(i, c, e)

\* The loop visits org daily, org monthly, key daily, key monthly and stops at
\* the first constraint that blocks (a result) or conflicts (an error).
Rank(c) == (IF c[1][1] = Org THEN 0 ELSE 2) + (IF c[1][2] = "daily" THEN 0 ELSE 1)
StopsAt(i, k, e, c) ==
    /\ c \in loadBlockingConstraints(k)
    /\ ~Admits(c, e) \/ Conflicts(i, c, e)
    /\ \A b \in loadBlockingConstraints(k) :
          Rank(b) < Rank(c) => Admits(b, e) /\ ~Conflicts(i, b, e)
ReserveBlockedBy(i, k, e, c) == StopsAt(i, k, e, c) /\ ~Admits(c, e)
ReserveError(i, k, e) ==
    \E c \in loadBlockingConstraints(k) : StopsAt(i, k, e, c) /\ Admits(c, e)

Reserve(i, k, e) ==
    /\ ReserveAllowed(i, k, e)
    /\ counter' = [c \in CounterKeys |->
                     IF c \in loadBlockingConstraints(k)
                     THEN [ensureAndLockCounter(c) EXCEPT !.reserved = @ + Hold(c, e)]
                     ELSE counter[c]]
    /\ resv' = [resv EXCEPT ![i] =
                  [c \in CounterKeys |->
                     IF c \in loadBlockingConstraints(k) /\ Hold(c, e) > 0
                     THEN [status |-> "reserved", amount |-> Hold(c, e), settled |-> 0]
                     ELSE resv[i][c]]]
    /\ openedWith' = [c \in CounterKeys |->
                        IF c \in loadBlockingConstraints(k) /\ counter[c].state = "absent"
                        THEN recorded[c]
                        ELSE openedWith[c]]
    /\ UNCHANGED <<day, budgets, logs, costs, recorded>>

-----------------------------------------------------------------------------
(* Settle and release                                                      *)

Outstanding(i, c) == resv[i][c].status = "reserved"

\* GREATEST(reserved_micro_usd - amount, 0)
Lowered(c, i) ==
    IF counter[c].reserved >= resv[i][c].amount
    THEN counter[c].reserved - resv[i][c].amount
    ELSE 0

SettleTx_ChargesHold(i, cost) ==
    /\ counter' = [c \in CounterKeys |->
                     IF Outstanding(i, c)
                     THEN [state |-> counter[c].state,
                           settled |-> counter[c].settled + resv[i][c].amount,
                           reserved |-> Lowered(c, i)]
                     ELSE counter[c]]
    /\ resv' = [resv EXCEPT ![i] =
                  [c \in CounterKeys |->
                     IF Outstanding(i, c)
                     THEN [status |-> "settled", amount |-> resv[i][c].amount,
                           settled |-> resv[i][c].amount]
                     ELSE resv[i][c]]]

SettleTx(i, cost) ==
    /\ counter' = [c \in CounterKeys |->
                     IF Outstanding(i, c)
                     THEN [state |-> counter[c].state,
                           settled |-> counter[c].settled + cost,
                           reserved |-> Lowered(c, i)]
                     ELSE counter[c]]
    /\ resv' = [resv EXCEPT ![i] =
                  [c \in CounterKeys |->
                     IF Outstanding(i, c)
                     THEN [status |-> "settled", amount |-> resv[i][c].amount, settled |-> cost]
                     ELSE resv[i][c]]]

ReleaseTx_RowsOnly(i) ==
    /\ UNCHANGED counter
    /\ resv' = [resv EXCEPT ![i] =
                  [c \in CounterKeys |->
                     IF Outstanding(i, c)
                     THEN [resv[i][c] EXCEPT !.status = "released"]
                     ELSE resv[i][c]]]

ReleaseTx(i) ==
    /\ counter' = [c \in CounterKeys |->
                     IF Outstanding(i, c)
                     THEN [counter[c] EXCEPT !.reserved = Lowered(c, i)]
                     ELSE counter[c]]
    /\ resv' = [resv EXCEPT ![i] =
                  [c \in CounterKeys |->
                     IF Outstanding(i, c)
                     THEN [resv[i][c] EXCEPT !.status = "released"]
                     ELSE resv[i][c]]]

Release(i) ==
    /\ ReleaseTx(i)
    /\ UNCHANGED <<day, budgets, logs, costs, recorded, openedWith>>

-----------------------------------------------------------------------------
(* Metering.  The request log's primary key is the request id, so a second *)
(* record under the same id fails and rolls its transaction back.          *)

RecordSuccess(i, k, cost, at) ==
    /\ logs[i] = "none"
    /\ logs' = [logs EXCEPT ![i] = "success"]
    /\ costs' = [costs EXCEPT ![i] = [state |-> "present", cost |-> cost, day |-> at]]
    /\ recorded' = [c \in CounterKeys |->
                      IF c[1][1] \in {Org, k} /\ c[2] = periodWindow(at, c[1][2])
                      THEN recorded[c] + cost
                      ELSE recorded[c]]
    /\ SettleTx(i, cost)
    /\ UNCHANGED <<day, budgets, openedWith>>

RecordFailure(i) ==
    /\ logs[i] = "none"
    /\ logs' = [logs EXCEPT ![i] = "failure"]
    /\ UNCHANGED <<day, budgets, counter, resv, costs, recorded, openedWith>>

RecordCacheHit(i) ==
    /\ logs[i] = "none"
    /\ logs' = [logs EXCEPT ![i] = "cache_hit"]
    /\ UNCHANGED <<day, budgets, counter, resv, costs, recorded, openedWith>>

-----------------------------------------------------------------------------
(* Environment: administrators and the calendar                            *)

\* A budget is created active, with a limit that may be zero (then it blocks every
\* request); there is no operation that changes or removes it.
CreateBudget(period, limit) ==
    /\ budgets' = [budgets EXCEPT ![<<Org, period>>] = @ \cup {limit}]
    /\ UNCHANGED <<day, ledger>>

AdvanceDay ==
    /\ day < MaxDay
    /\ day' = day + 1
    /\ UNCHANGED <<budgets, ledger>>

Next ==
    \/ \E i \in Ids, k \in Keys, e \in Estimates : Reserve(i, k, e)
    \/ \E i \in Ids, k \in Keys, x \in Costs, d \in 0 .. day : RecordSuccess(i, k, x, d)
    \/ \E i \in Ids : Release(i) \/ RecordFailure(i) \/ RecordCacheHit(i)
    \/ \E p \in Periods, l \in BudgetLimits : CreateBudget(p, l)
    \/ AdvanceDay

Spec == Init /\ [][Next]_vars

-----------------------------------------------------------------------------
(* Properties                                                              *)

\* The sum of f[i] over the members i of S.
Total(f, S) == MapThenSumSet(LAMBDA i : f[i], S)

OutstandingOn(c) == {i \in Ids : Outstanding(i, c)}
SettledOn(c) == {i \in Ids : resv[i][c].status = "settled"}

\* What a counter holds in reserve is exactly the sum of the outstanding
\* reservation rows on it: SettleTx and ReleaseTx give back what Reserve took,
\* once, and the GREATEST(.., 0) of their UPDATEs never has to cut anything off.
ReservedMatchesRows ==
    \A c \in CounterKeys :
        counter[c].reserved = Total([i \in Ids |-> resv[i][c].amount], OutstandingOn(c))

\* A counter's settled amount is what it was seeded with plus the actual cost of
\* every request whose reservation on it was settled, each counted once.
CounterIsLedger ==
    \A c \in CounterKeys : counter[c].state = "present" =>
        counter[c].settled =
            openedWith[c] + Total([i \in Ids |-> resv[i][c].settled], SettledOn(c))

Excess(row) == IF row.settled > row.amount THEN row.settled - row.amount ELSE 0

\* Spending passes a limit only by what requests cost more than was reserved for
\* them: concurrent requests never get more out of a window than its limit.  (A
\* later, stricter budget does not undo what the earlier one admitted.)
OverspendBounded ==
    \A c \in CounterKeys : counter[c].state = "present" =>
        counter[c].settled + counter[c].reserved
            =< Max(budgets[c[1]]) + Total([i \in Ids |-> Excess(resv[i][c])], SettledOn(c))

\* The metering transaction is all or nothing: a reservation is settled only
\* together with a cost record, and for exactly the cost that record states.
SettledRowsCharged ==
    \A i \in Ids, c \in CounterKeys : resv[i][c].status = "settled" =>
        costs[i].state = "present" /\ resv[i][c].settled = costs[i].cost

\* A cost record never stands without the request log it belongs to, nor a
\* success log without its cost record.
ChargedIffLogged == \A i \in Ids : costs[i].state = "present" <=> logs[i] = "success"

\* Every reservation row names a counter that exists, so the UPDATEs of SettleTx
\* and ReleaseTx (whose affected-row counts nobody looks at) find their counter.
RowsHaveCounters ==
    \A i \in Ids, c \in CounterKeys :
        resv[i][c].status # "none" => counter[c].state = "present" /\ resv[i][c].amount > 0

\* The inductive invariant of the ledger, the three statements above and the
\* types: that a settled row agrees with the cost record of its request needs the
\* request log, which keeps RecordSuccess from running a second time under one id.
LedgerInv == TypeOK /\ ChargedIffLogged /\ SettledRowsCharged /\ RowsHaveCounters

\* Whenever Reserve adds to what a counter holds, the window stays within the
\* strictest limit in force.
AdmissionWithinLimit ==
    [][\A c \in CounterKeys :
          counter'[c].reserved > counter[c].reserved =>
              counter'[c].settled + counter'[c].reserved =< LimitOf(c)]_vars

\* A reservation that was settled or released stays as it is, an outstanding one
\* keeps its amount, and no cost record is ever changed: nothing is charged twice
\* or given back twice however often Settle and Release are called.
ClosedRowsFinal ==
    [][\A i \in Ids :
          /\ costs[i].state = "present" => costs'[i] = costs[i]
          /\ \A c \in CounterKeys :
                /\ resv[i][c].status \in {"settled", "released"} => resv'[i][c] = resv[i][c]
                /\ resv[i][c].status = "reserved" => resv'[i][c].amount = resv[i][c].amount]_vars
=============================================================================
