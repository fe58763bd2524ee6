------------------------------ MODULE ReserveTx ------------------------------
(***************************************************************************)
(* The transactions of internal/limits/reservation_service.go statement by *)
(* statement, with the row locks PostgreSQL (READ COMMITTED) takes for     *)
(* them.  Reserve, RecordSuccess and Release of CostLimits are one step    *)
(* each; here several of them are open at once:                            *)
(*                                                                         *)
(*   - Reserve reads the limits and the clock once, at its start, then     *)
(*     inserts or locks one counter after the other, in a fixed order;     *)
(*   - SettleTx and ReleaseTx update the counters of their reservation     *)
(*     rows in whatever order the SELECT (it has no ORDER BY) returns them;*)
(*   - a row somebody inserted or updated is locked until the end of that  *)
(*     transaction; in a cycle of waiting transactions PostgreSQL aborts   *)
(*     one.                                                                *)
(*                                                                         *)
(* What a transaction has written is its own (staged) until it commits.    *)
(* Each request id makes one reservation and closes it.                    *)
(***************************************************************************)
EXTENDS CostLimits, SequencesExt

CONSTANT KeyOf  \* [Ids -> Keys]

ASSUME KeyOfAssumption == KeyOf \in [Ids -> Keys]

Phases == {"idle", "reserve", "held", "settle", "failed", "release", "done"}
Closing == {"settle", "release"}

VARIABLES
    tx,      \* the transaction a request is in, and what it has read and written
    ordered  \* whether SELECT .. FOR UPDATE returns rows in insertion order

txVars == <<tx, ordered>>

\* limits, now: read at the start of Reserve.  amount: estimate or actual cost.
\* todo: counters still to visit.  mine: counters inserted or updated, hence
\* locked.  staged: their uncommitted values.  hold: what Reserve took of each.
Tx == [phase: Phases, limits: [Slots -> SUBSET Nat], now: Days, amount: Nat,
       todo: Seq(CounterKeys), mine: SUBSET CounterKeys,
       staged: [CounterKeys -> Counter], hold: [CounterKeys -> Nat]]
NoTx == [phase |-> "idle", limits |-> [s \in Slots |-> {}], now |-> 0, amount |-> 0,
         todo |-> <<>>, mine |-> {},
         staged |-> [c \in CounterKeys |-> NoCounter], hold |-> [c \in CounterKeys |-> 0]]

TInit == Init /\ tx = [i \in Ids |-> NoTx] /\ ordered \in BOOLEAN

\* READ COMMITTED: a writer waits for the transaction that wrote the row before.
Locked(c, i) == \E j \in Ids \ {i} : c \in tx[j].mine

EndTx_KeepsLocks(i, phase) == tx' = [tx EXCEPT ![i].phase = phase, ![i].todo = <<>>]

\* COMMIT or ROLLBACK (it is deferred, so every return reaches one): the locks go.
EndTx(i, phase) == tx' = [tx EXCEPT ![i] = [NoTx EXCEPT !.phase = phase]]

InOrder(q) == \A a, b \in DOMAIN q : a < b => Rank(q[a]) < Rank(q[b])

-----------------------------------------------------------------------------
(* Reserve                                                                 *)

\* ORDER BY period for the organisation, then the key's daily and monthly quota.
VisitOrder_Unspecified(S) == SetToSeqs(S)
VisitOrder(S) == {q \in SetToSeqs(S) : InOrder(q)}

BeginReserve(i, e) ==
    /\ tx[i].phase = "idle"
    /\ \E q \in VisitOrder(loadBlockingConstraints(KeyOf[i])) :
          tx' = [tx EXCEPT ![i] = [NoTx EXCEPT !.phase = "reserve", !.limits = budgets,
                                               !.now = day, !.amount = e, !.todo = q]]
    /\ UNCHANGED <<vars, ordered>>

LimitRead(i, c) == Min(tx[i].limits[c[1]])
RemainingRead(i, c) == LimitRead(i, c) - Used(c)
AdmitsRead(i, c) ==
    /\ RemainingRead(i, c) > 0
    /\ tx[i].amount > RemainingRead(i, c) => Used(c) = 0
HoldRead(i, c) ==
    IF tx[i].amount > RemainingRead(i, c) THEN RemainingRead(i, c) ELSE tx[i].amount

\* INSERT .. ON CONFLICT DO NOTHING, SELECT .. FOR UPDATE, then the UPDATE and
\* the reservation row.  (One reservation per request id: its row is new.)
TakeCounter_NoLock(i) ==
    LET c == Head(tx[i].todo) IN
    /\ tx[i].phase = "reserve" /\ tx[i].todo # <<>>
    /\ AdmitsRead(i, c)
    /\ tx' = [tx EXCEPT ![i].todo = Tail(@),
                        ![i].mine = @ \cup {c},
                        ![i].hold[c] = HoldRead(i, c),
                        ![i].staged[c] = [ensureAndLockCounter(c) EXCEPT !.reserved = @ + HoldRead(i, c)]]
    /\ UNCHANGED <<vars, ordered>>

TakeCounter(i) ==
    LET c == Head(tx[i].todo) IN
    /\ tx[i].phase = "reserve" /\ tx[i].todo # <<>>
    /\ ~Locked(c, i)
    /\ AdmitsRead(i, c)
    /\ tx' = [tx EXCEPT ![i].todo = Tail(@),
                        ![i].mine = @ \cup {c},
                        ![i].hold[c] = HoldRead(i, c),
                        ![i].staged[c] = [ensureAndLockCounter(c) EXCEPT !.reserved = @ + HoldRead(i, c)]]
    /\ UNCHANGED <<vars, ordered>>

\* The deferred Rollback: the counters taken before are given back unchanged.
RefuseReserve(i) ==
    LET c == Head(tx[i].todo) IN
    /\ tx[i].phase = "reserve" /\ tx[i].todo # <<>>
    /\ ~Locked(c, i)
    /\ ~AdmitsRead(i, c)
    /\ EndTx(i, "done")
    /\ UNCHANGED <<vars, ordered>>

Written(i) == [c \in CounterKeys |-> IF c \in tx[i].mine THEN tx[i].staged[c] ELSE counter[c]]

CommitReserve(i) ==
    /\ tx[i].phase = "reserve" /\ tx[i].todo = <<>>
    /\ counter' = Written(i)
    /\ resv' = [resv EXCEPT ![i] =
                  [c \in CounterKeys |->
                     IF c \in tx[i].mine /\ tx[i].hold[c] > 0
                     THEN [status |-> "reserved", amount |-> tx[i].hold[c], settled |-> 0]
                     ELSE resv[i][c]]]
    /\ openedWith' = [c \in CounterKeys |->
                        IF c \in tx[i].mine /\ counter[c].state = "absent"
                        THEN tx[i].staged[c].settled
                        ELSE openedWith[c]]
    /\ EndTx(i, "held")
    /\ UNCHANGED <<day, budgets, logs, costs, recorded, ordered>>

-----------------------------------------------------------------------------
(* SettleTx (the last statement of RecordSuccess) and ReleaseTx            *)

\* Insertion order is the order Reserve visited the counters in.
RowOrder(S) == IF ordered THEN VisitOrder(S) ELSE SetToSeqs(S)

BeginClose(i, phase, x) ==
    /\ \/ phase = "settle" /\ tx[i].phase = "held" /\ logs[i] = "none"
       \/ phase = "release" /\ tx[i].phase \in {"held", "failed"}
    /\ \E q \in RowOrder({c \in CounterKeys : Outstanding(i, c)}) :
          tx' = [tx EXCEPT ![i] = [NoTx EXCEPT !.phase = phase, !.now = day,
                                               !.amount = x, !.todo = q]]
    /\ UNCHANGED <<vars, ordered>>

\* UPDATE cost_limit_counters, relative to the row as it is once the lock is ours.
CloseCounter(i) ==
    LET c == Head(tx[i].todo) IN
    /\ tx[i].phase \in Closing /\ tx[i].todo # <<>>
    /\ ~Locked(c, i)
    /\ tx' = [tx EXCEPT ![i].todo = Tail(@),
                        ![i].mine = @ \cup {c},
                        ![i].staged[c] =
                            [state |-> counter[c].state,
                             settled |-> counter[c].settled + tx[i].amount,
                             reserved |-> Lowered(c, i)]]
    /\ UNCHANGED <<vars, ordered>>

CommitClose(i) ==
    /\ tx[i].phase \in Closing /\ tx[i].todo = <<>>
    /\ counter' = Written(i)
    /\ resv' = [resv EXCEPT ![i] =
                  [c \in CounterKeys |->
                     IF ~Outstanding(i, c) THEN resv[i][c]
                     ELSE IF tx[i].phase = "settle"
                     THEN [status |-> "settled", amount |-> resv[i][c].amount, settled |-> tx[i].amount]
                     ELSE [resv[i][c] EXCEPT !.status = "released"]]]
    /\ IF tx[i].phase = "settle"
       THEN /\ logs' = [logs EXCEPT ![i] = "success"]
            /\ costs' = [costs EXCEPT ![i] =
                           [state |-> "present", cost |-> tx[i].amount, day |-> tx[i].now]]
            /\ recorded' = [c \in CounterKeys |->
                              IF c[1][1] \in {Org, KeyOf[i]} /\ c[2] = periodWindow(tx[i].now, c[1][2])
                              THEN recorded[c] + tx[i].amount
                              ELSE recorded[c]]
       ELSE UNCHANGED <<logs, costs, recorded>>
    /\ EndTx(i, "done")
    /\ UNCHANGED <<day, budgets, openedWith, ordered>>

-----------------------------------------------------------------------------
(* Deadlock                                                                *)

WaitsFor(i, j) == i # j /\ tx[i].todo # <<>> /\ Head(tx[i].todo) \in tx[j].mine

\* A cycle: everyone in it waits for someone in it and is waited for.
Cycle(S) ==
    /\ S # {}
    /\ \A i \in S : (\E j \in S : WaitsFor(i, j)) /\ (\E j \in S : WaitsFor(j, i))
Deadlocked(i) == \E S \in SUBSET Ids : i \in S /\ Cycle(S)

\* The victim is rolled back.  A failed RecordSuccess is followed by Release; the
\* error of a failed Release is ignored.
Victim(i) ==
    /\ Deadlocked(i)
    /\ EndTx(i, IF tx[i].phase = "settle" THEN "failed" ELSE "done")
    /\ UNCHANGED <<vars, ordered>>

Step(i) ==
    \/ TakeCounter(i) \/ RefuseReserve(i) \/ CommitReserve(i)
    \/ CloseCounter(i) \/ CommitClose(i) \/ Victim(i)
    \/ BeginClose(i, "release", 0)

TNext ==
    \/ \E i \in Ids, e \in Estimates : BeginReserve(i, e)
    \/ \E i \in Ids, x \in Costs : BeginClose(i, "settle", x)
    \/ \E i \in Ids : Step(i)
    \/ /\ \/ \E p \in Periods, l \in BudgetLimits : CreateBudget(p, l)
          \/ AdvanceDay
       /\ UNCHANGED txVars

\* The goroutine of a request runs on; PostgreSQL resolves deadlocks.
TSpec == TInit /\ [][TNext]_<<vars, txVars>> /\ \A i \in Ids : WF_<<vars, txVars>>(Step(i))

-----------------------------------------------------------------------------
(* Properties                                                              *)

\* What a transaction has read and staged stays well-formed.
TxTypeOK == TypeOK /\ tx \in [Ids -> Tx] /\ ordered \in BOOLEAN

\* Reservations alone never deadlock, because all visit the counters in one
\* order; and if the rows of a request come back in insertion order nothing ever
\* does.  Only a SettleTx or ReleaseTx that meets its rows in another order can
\* close a cycle (and lose the metering of a completed request to it).
ReserveNeverDeadlocks ==
    \A S \in SUBSET Ids : Cycle(S) => ~ordered /\ \E i \in S : tx[i].phase \in Closing

\* Reserve decided on something that is out of date when it commits: a limit, the
\* day, or the cost records a new counter was seeded from.
Stale(i) ==
    \/ tx[i].limits # budgets
    \/ tx[i].now # day
    \/ \E c \in tx[i].mine : counter[c].state = "absent" /\ tx[i].staged[c].settled # recorded[c]

\* Open transactions do not disturb one another: each commit is one atomic
\* Reserve, RecordSuccess or Release of CostLimits, without lost updates, unless
\* limits, day or cost records changed while a Reserve was open.
CommitsAtomic == [][Next \/ \E i \in Ids : Stale(i) /\ CommitReserve(i)]_vars

\* Every transaction ends: nobody waits for ever.
EveryTxEnds ==
    \A i \in Ids : tx[i].phase \in {"reserve", "settle", "release", "failed"} ~>
                   tx[i].phase \in {"held", "done"}
=============================================================================
