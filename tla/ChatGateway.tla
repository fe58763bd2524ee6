---------------------------- MODULE ChatGateway ----------------------------
(***************************************************************************)
(* The two chat handlers on top of the cost ledger:                        *)
(*                                                                         *)
(*   internal/gateway/chat_service.go          Chat, reserveProviderCost   *)
(*   internal/gateway/chat_stream_service.go   StreamChat, FinalizeStream  *)
(*   internal/http/handlers/gateway/chat_completions_handler.go            *)
(*                                                                         *)
(* Every call is one goroutine; its program counter names the next thing   *)
(* it does.  A step is one call the goroutine makes on the database or on  *)
(* a provider, so two calls interleave between any two of them.  What the  *)
(* content policy, the anomaly rules, the router, the caches and the       *)
(* provider answer is a free choice here: those parts are other modules.   *)
(*                                                                         *)
(* Infrastructure may fail (a database error, a cancelled request context, *)
(* a commit whose answer is lost, a crash of the process); MaxFaults       *)
(* bounds how often that happens in a behaviour.                           *)
(***************************************************************************)
EXTENDS CostLimits

CONSTANTS
    Calls,      \* requests that arrive at the gateway
    IdOf,       \* [Calls -> Ids]: X-Request-Id of the client, or a fresh id
    KeyOf,      \* [Calls -> Keys]: the authenticated API key
    Streaming,  \* the calls with "stream": true
    MaxFaults   \* bound on infrastructure failures

ASSUME CallAssumption ==
    /\ IdOf \in [Calls -> Ids]
    /\ KeyOf \in [Calls -> Keys]
    /\ Streaming \in SUBSET Calls
    /\ MaxFaults \in Nat

Ended == {"done", "crashed", "leaked"}
\* Between a successful Reserve and the settlement or release of its hold.
Holding == {"provider", "relay", "meter", "fail", "release"}
PCs == {"start", "budget", "quota", "screen", "cache", "reserve", "reject"} \cup Holding \cup Ended

VARIABLES
    pc,         \* what a call does next
    active,     \* reservationActive: the calls that must settle or release
    doneAt,     \* the day CompletedAt was taken on
    billed,     \* the calls for which a provider delivered a completion and its usage
    resp,       \* what the client was told
    faults      \* infrastructure failures so far

callVars == <<pc, active, doneAt, billed, resp, faults>>
gvars == <<vars, callVars>>

GTypeOK ==
    /\ TypeOK
    /\ pc \in [Calls -> PCs]
    /\ active \in SUBSET Calls
    /\ doneAt \in [Calls -> Days]
    /\ billed \in SUBSET Calls
    /\ resp \in [Calls -> {"none", "ok", "cached", "streamed", "rejected", "failed"}]
    /\ faults \in 0 .. MaxFaults

GInit ==
    /\ Init
    /\ pc = [c \in Calls |-> "start"]
    /\ active = {}
    /\ doneAt = [c \in Calls |-> 0]
    /\ billed = {}
    /\ resp = [c \in Calls |-> "none"]
    /\ faults = 0

-----------------------------------------------------------------------------
Goto(c, next) == pc' = [pc EXCEPT ![c] = next]

\* The call returns to the handler, which answers the client: of a stream, the
\* client has had the status line and the deltas already.
Respond(c, next, answer) ==
    /\ Goto(c, next)
    /\ resp' = [resp EXCEPT ![c] = IF @ = "streamed" THEN @ ELSE answer]

Fault == faults < MaxFaults /\ faults' = faults + 1

(* The gates in front of the provider                                      *)

\* Parsing, validation and content policy.  A malformed body is answered
\* without a log; a blocked or invalid one is logged first.
Intake(c) ==
    /\ pc[c] = "start"
    /\ \/ Goto(c, "budget") /\ UNCHANGED resp
       \/ Goto(c, "reject") /\ UNCHANGED resp
       \/ Respond(c, "done", "failed")
    /\ UNCHANGED <<vars, active, doneAt, billed, faults>>

\* budget.Service.Check and APIKeyQuotaService.Check compare a limit with the
\* recorded costs of the window, not with the counters.
Exceeded(s) == \E l \in budgets[s] : recorded[<<s, periodWindow(day, s[2])>>] >= l

BudgetCheck(c) ==
    /\ pc[c] = "budget"
    /\ Goto(c, IF \E p \in Periods : Exceeded(<<Org, p>>) THEN "reject" ELSE "quota")
    /\ UNCHANGED <<vars, active, doneAt, billed, resp, faults>>

QuotaCheck(c) ==
    /\ pc[c] = "quota"
    /\ Goto(c, IF \E p \in Periods : Exceeded(<<KeyOf[c], p>>) THEN "reject" ELSE "screen")
    /\ UNCHANGED <<vars, active, doneAt, billed, resp, faults>>

\* Anomaly rules, then the router: block or unknown route rejects.  A stream goes
\* past the caches.
Screen(c) ==
    /\ pc[c] = "screen"
    /\ \/ Goto(c, IF c \in Streaming THEN "reserve" ELSE "cache")
       \/ Goto(c, "reject")
    /\ UNCHANGED <<vars, active, doneAt, billed, resp, faults>>

\* A database error in one of the checks, in the log of a cache hit or in Reserve
\* (rolled back) is answered without a log.
GateFails(c) ==
    /\ pc[c] \in {"budget", "quota", "screen", "cache", "reserve"}
    /\ Fault
    /\ Respond(c, "done", "failed")
    /\ UNCHANGED <<vars, active, doneAt, billed>>

\* Prompt cache, then semantic cache.  A hit needs its log to be answered.
CacheHit(c) ==
    /\ pc[c] = "cache"
    /\ \/ RecordCacheHit(IdOf[c]) /\ Respond(c, "done", "cached")
       \/ logs[IdOf[c]] # "none" /\ Respond(c, "done", "failed") /\ UNCHANGED vars
    /\ UNCHANGED <<active, doneAt, billed, faults>>

CacheMiss(c) ==
    /\ pc[c] = "cache"
    /\ Goto(c, "reserve")
    /\ UNCHANGED <<vars, active, doneAt, billed, resp, faults>>

\* recordFailure in front of a 4xx answer; its error is ignored.
Reject(c) ==
    /\ pc[c] = "reject"
    /\ Respond(c, "done", "rejected")
    /\ \/ RecordFailure(IdOf[c]) /\ UNCHANGED faults
       \/ logs[IdOf[c]] # "none" /\ UNCHANGED <<vars, faults>>
       \/ Fault /\ UNCHANGED vars
    /\ UNCHANGED <<active, doneAt, billed>>

-----------------------------------------------------------------------------
(* reserveProviderCost                                                     *)

\* Nothing is reserved for an estimate that rounds to zero.
SkipReserve(c) ==
    /\ pc[c] = "reserve"
    /\ 0 \in Estimates
    /\ Goto(c, "provider")
    /\ UNCHANGED <<vars, active, doneAt, billed, resp, faults>>

ReserveGranted(c, e) ==
    /\ pc[c] = "reserve"
    /\ e > 0
    /\ Reserve(IdOf[c], KeyOf[c], e)
    /\ active' = active \cup {c}
    /\ Goto(c, "provider")
    /\ UNCHANGED <<doneAt, billed, resp, faults>>

ReserveRefused_NoRollback(c, e) ==
    /\ pc[c] = "reserve"
    /\ e > 0
    /\ \E b \in CounterKeys :
          /\ ReserveBlockedBy(IdOf[c], KeyOf[c], e, b)
          /\ resv' = [resv EXCEPT ![IdOf[c]] =
                        [k \in CounterKeys |->
                           IF k \in loadBlockingConstraints(KeyOf[c]) /\ Rank(k) < Rank(b)
                           THEN [status |-> "reserved", amount |-> Hold(k, e), settled |-> 0]
                           ELSE resv[IdOf[c]][k]]]
    /\ Goto(c, "reject")
    /\ UNCHANGED <<day, budgets, counter, logs, costs, recorded, openedWith,
                   active, doneAt, billed, resp, faults>>

ReserveRefused(c, e) ==
    /\ pc[c] = "reserve"
    /\ e > 0
    /\ \/ /\ \E b \in CounterKeys : ReserveBlockedBy(IdOf[c], KeyOf[c], e, b)
          /\ Goto(c, "reject") /\ UNCHANGED resp
       \/ /\ ReserveError(IdOf[c], KeyOf[c], e)
          /\ Respond(c, "done", "failed")
    /\ UNCHANGED <<vars, active, doneAt, billed, faults>>

\* The COMMIT took effect but its answer was lost (connection error, request
\* context cancelled): Reserve returns an error, nobody will release the hold.
ReserveCommitLost(c, e) ==
    /\ pc[c] = "reserve"
    /\ e > 0
    /\ Fault
    /\ Reserve(IdOf[c], KeyOf[c], e)
    /\ Respond(c, "leaked", "failed")
    /\ UNCHANGED <<active, doneAt, billed>>

-----------------------------------------------------------------------------
(* The provider and what follows                                           *)

ProviderCall_HoldNotTransferred(c) ==
    /\ pc[c] = "provider"
    /\ Goto(c, IF c \in Streaming THEN "relay" ELSE "meter")
    /\ Release(IdOf[c])
    /\ UNCHANGED <<active, doneAt, billed, resp, faults>>

\* All attempts of Chat's retry and fallback loops, or opening the stream.
ProviderCall(c) ==
    /\ pc[c] = "provider"
    /\ \/ /\ c \notin Streaming
          /\ Goto(c, "meter")
          /\ billed' = billed \cup {c}
          /\ doneAt' = [doneAt EXCEPT ![c] = day]
       \/ /\ c \in Streaming
          /\ Goto(c, "relay")
          /\ UNCHANGED <<billed, doneAt>>
       \/ /\ Goto(c, "fail")
          /\ UNCHANGED <<billed, doneAt>>
    /\ UNCHANGED <<vars, active, resp, faults>>

\* The stream has been relayed to its end: with usage it is metered; with an
\* error, or without a usage event, FinalizeStream records a failure.
Relay(c) ==
    /\ pc[c] = "relay"
    /\ resp' = [resp EXCEPT ![c] = "streamed"]
    /\ doneAt' = [doneAt EXCEPT ![c] = day]
    /\ \/ Goto(c, "meter") /\ billed' = billed \cup {c}
       \/ Goto(c, "fail") /\ UNCHANGED billed
    /\ UNCHANGED <<vars, active, faults>>

Meter_WithoutSettle(c, x) ==
    /\ pc[c] = "meter"
    /\ logs[IdOf[c]] = "none"
    /\ logs' = [logs EXCEPT ![IdOf[c]] = "success"]
    /\ costs' = [costs EXCEPT ![IdOf[c]] = [state |-> "present", cost |-> x, day |-> doneAt[c]]]
    /\ active' = active \ {c}
    /\ Respond(c, "done", "ok")
    /\ UNCHANGED <<day, budgets, counter, resv, recorded, openedWith, doneAt, billed, faults>>

Meter(c, x) ==
    /\ pc[c] = "meter"
    /\ RecordSuccess(IdOf[c], KeyOf[c], x, doneAt[c])
    /\ active' = active \ {c}
    /\ Respond(c, "done", "ok")
    /\ UNCHANGED <<doneAt, billed, faults>>

MeterFails_KeepsHold(c) ==
    /\ pc[c] = "meter"
    /\ logs[IdOf[c]] # "none" \/ faults < MaxFaults
    /\ Respond(c, "done", "failed")
    /\ UNCHANGED <<vars, active, doneAt, billed, faults>>

MeterFails_DuplicateIsOk(c) ==
    /\ pc[c] = "meter"
    /\ \/ logs[IdOf[c]] = "success" /\ Respond(c, "done", "ok") /\ UNCHANGED faults
       \/ /\ logs[IdOf[c]] \in {"failure", "cache_hit"}
          /\ Goto(c, "release") /\ UNCHANGED <<resp, faults>>
       \/ Fault /\ Goto(c, "release") /\ UNCHANGED resp
    /\ UNCHANGED <<vars, active, doneAt, billed>>

\* The metering transaction was rolled back: duplicate request id, or an error.
MeterFails(c) ==
    /\ pc[c] = "meter"
    /\ \/ logs[IdOf[c]] # "none" /\ UNCHANGED faults
       \/ Fault
    /\ Goto(c, "release")
    /\ UNCHANGED <<vars, active, doneAt, billed, resp>>

\* The COMMIT took effect but its answer was lost: the client gets an error, and
\* the Release that follows finds nothing to give back.
MeterCommitLost(c, x) ==
    /\ pc[c] = "meter"
    /\ Fault
    /\ RecordSuccess(IdOf[c], KeyOf[c], x, doneAt[c])
    /\ Goto(c, "release")
    /\ UNCHANGED <<active, doneAt, billed, resp>>

RecordFail(c) ==
    /\ pc[c] = "fail"
    /\ \/ RecordFailure(IdOf[c]) /\ UNCHANGED faults
       \/ logs[IdOf[c]] # "none" /\ UNCHANGED <<vars, faults>>
       \/ Fault /\ UNCHANGED vars
    /\ Goto(c, "release")
    /\ UNCHANGED <<active, doneAt, billed, resp>>

\* The deferred Release (context.Background()), or the one in FinalizeStream.
ReleaseHold(c) ==
    /\ pc[c] = "release"
    /\ IF c \in active THEN Release(IdOf[c]) ELSE UNCHANGED vars
    /\ active' = active \ {c}
    /\ Respond(c, "done", "failed")
    /\ UNCHANGED <<doneAt, billed, faults>>

\* Release's error is ignored, and nothing tries again.
ReleaseFails(c) ==
    /\ pc[c] = "release"
    /\ c \in active
    /\ Fault
    /\ Respond(c, "leaked", "failed")
    /\ UNCHANGED <<vars, active, doneAt, billed>>

\* The process dies with everything in flight; the database stays.
Crash ==
    /\ \E c \in Calls : pc[c] \notin Ended \cup {"start"}
    /\ Fault
    /\ pc' = [c \in Calls |-> IF pc[c] \in Ended \cup {"start"} THEN pc[c] ELSE "crashed"]
    /\ UNCHANGED <<vars, active, doneAt, billed, resp>>

-----------------------------------------------------------------------------
\* What a call does by itself when the infrastructure works.
Progress(c) ==
    \/ Intake(c) \/ BudgetCheck(c) \/ QuotaCheck(c) \/ Screen(c)
    \/ GateFails(c) \/ CacheHit(c) \/ CacheMiss(c) \/ Reject(c)
    \/ SkipReserve(c)
    \/ \E e \in Estimates : ReserveGranted(c, e) \/ ReserveRefused(c, e)
    \/ ProviderCall(c) \/ Relay(c)
    \/ \E x \in Costs : Meter(c, x)
    \/ MeterFails(c) \/ RecordFail(c) \/ ReleaseHold(c)

Environment ==
    /\ \/ \E p \in Periods, l \in BudgetLimits : CreateBudget(p, l)
       \/ AdvanceDay
    /\ UNCHANGED callVars

GNext ==
    \/ \E c \in Calls : Progress(c)
    \/ \E c \in Calls :
          \/ ReleaseFails(c)
          \/ \E e \in Estimates : ReserveCommitLost(c, e)
          \/ \E x \in Costs : MeterCommitLost(c, x)
    \/ Crash
    \/ Environment

GSpec == GInit /\ [][GNext]_gvars

\* Handlers run until they return: database calls end or fail, and provider calls
\* end by the provider's timeout.  Only the relay of a stream may last for ever,
\* if its client stays connected without reading (module StreamRelay).  No call need
\* be made.
GFairSpec ==
    GSpec /\ \A c \in Calls : WF_gvars(pc[c] \notin {"start", "relay"} /\ Progress(c))

-----------------------------------------------------------------------------
(* Properties                                                              *)

\* A hold never outlives the call it was made for: an outstanding reservation
\* belongs to a call still on its way to settle or release it, unless that call
\* crashed or its Reserve or Release lost its answer (nothing reclaims those).
HeldOnlyInFlight ==
    \A i \in Ids, k \in CounterKeys : Outstanding(i, k) =>
        \E c \in Calls :
            /\ IdOf[c] = i
            /\ (c \in active /\ pc[c] \in Holding) \/ pc[c] \in {"crashed", "leaked"}

\* Until its own call is through with the provider and with metering, nobody
\* settles or releases a hold: the money reserved for it stays reserved.
HoldKeptUntilAnswer ==
    \A c \in active : pc[c] \in Holding \ {"release"} =>
        \A k \in CounterKeys : resv[IdOf[c]][k].status \in {"none", "reserved"}

\* A completion that is not streamed is handed out only once its cost is
\* recorded, and a request id is charged for at most one such completion.
OkMeansCharged ==
    \A c \in Calls : resp[c] = "ok" =>
        /\ costs[IdOf[c]].state = "present"
        /\ \A d \in Calls \ {c} : IdOf[d] = IdOf[c] => resp[d] # "ok"

\* A refused request leaves nothing behind: no hold on any counter (the
\* constraints already taken are rolled back) and no cost.
RejectedIsClean ==
    \A c \in Calls : resp[c] = "rejected" =>
        /\ costs[IdOf[c]].state = "absent"
        /\ \A k \in CounterKeys : resv[IdOf[c]][k].status = "none"

CostOf == [c \in Calls |-> costs[IdOf[c]].cost]
InWindow(c, k) ==
    /\ k[1][1] \in {Org, KeyOf[c]}
    /\ k[2] = periodWindow(costs[IdOf[c]].day, k[1][2])
Uncovered(k) == {c \in Calls : /\ costs[IdOf[c]].state = "present"
                               /\ InWindow(c, k)
                               /\ resv[IdOf[c]][k].status = "none"}
Strayed(k) == {c \in Calls : resv[IdOf[c]][k].status = "settled" /\ ~InWindow(c, k)}

\* A counter and the cost records it stands for drift apart only through
\* requests that held nothing on it (admitted before the budget existed, with a
\* zero estimate, or in an earlier window) and were recorded after it was seeded,
\* and through requests admitted in its window but completed in the next.
CounterTracksCosts ==
    \A k \in CounterKeys : counter[k].state = "present" =>
        (counter[k].settled - openedWith[k]) + Total(CostOf, Uncovered(k))
            = recorded[k] + Total(CostOf, Strayed(k))

\* Whatever a provider delivered and charges for is recorded with its cost.
ProviderCostRecorded ==
    \A c \in billed : pc[c] = "done" => costs[IdOf[c]].state = "present"

\* The gateway uses the ledger only through its transactions.
ImplementsLedger == Spec

\* Every call is answered, and every hold comes to an end with it, unless the
\* process crashes, a Reserve or Release loses its answer, or a call (this one, or
\* another one under the same id) is left relaying its stream.
EveryHoldEnds ==
    \A c \in Calls :
        pc[c] \in Holding \ {"relay"} ~>
            \/ \E d \in Calls : IdOf[d] = IdOf[c] /\ pc[d] \in {"crashed", "leaked", "relay"}
            \/ pc[c] = "done" /\ \A k \in CounterKeys : ~Outstanding(IdOf[c], k)
=============================================================================
