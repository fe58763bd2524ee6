------------------------------ MODULE Pricing ------------------------------
(***************************************************************************)
(* The price of a model and the calls that are charged by it:              *)
(*                                                                         *)
(*   internal/costing/pricing_service.go   UpdateModelPricing              *)
(*   internal/gateway/chat_service.go      estimateReservationCost (reads  *)
(*                                         the price in models)            *)
(*   internal/metering/service.go          RecordSuccess (reads the active *)
(*                                         pricing version)                *)
(*                                                                         *)
(* An update is a transaction of several statements under READ COMMITTED;  *)
(* its timestamp is read before it begins.  Updates of one model run at    *)
(* the same time; the row lock on the active version and three constraints *)
(* of the table keep them apart: UNIQUE (model, version), one active row   *)
(* per model, and effective_to >= effective_from.  A price stands for the  *)
(* pair of input and output price.                                         *)
(***************************************************************************)
EXTENDS Naturals, FiniteSets, FiniteSetsExt

CONSTANTS
    Updaters,  \* requests of administrators to change the price
    Calls,     \* chat calls of the model
    Prices,    \* prices an administrator may set
    MaxTime    \* bound on the clock

ASSUME PricingAssumption == Prices \in SUBSET Nat /\ Prices # {} /\ MaxTime \in Nat

VARIABLES
    now,        \* the clock
    versions,   \* model_pricing_versions
    modelPrice, \* the price in models
    upd,        \* the updates
    call        \* the calls

prvars == <<now, versions, modelPrice, upd, call>>

Version == [version: Nat \ {0}, price: Nat, active: BOOLEAN, from: Nat, to: Nat]

\* at: time read first.  next: number of the new version.  seen: number of the
\* version that was active when the UPDATE began.
Update == [phase: {"idle", "begun", "numbered", "superseding", "locked", "ok", "lost", "failed"},
           price: Nat, at: Nat, next: Nat, seen: Nat]
NewUpdate == [phase |-> "idle", price |-> 0, at |-> 0, next |-> 0, seen |-> 0]

\* est: price of the estimate.  at: CompletedAt.  by: version it was charged by.
\* changed, raced: history (a price change since the estimate, an open or
\* committed update since the completion).
Call == [phase: {"idle", "provider", "meter", "done"}, est: Nat, at: Nat, by: Nat,
         changed: BOOLEAN, raced: BOOLEAN]
NewCall == [phase |-> "idle", est |-> 0, at |-> 0, by |-> 0, changed |-> FALSE, raced |-> FALSE]

\* CreateInitialVersion, in the transaction that creates the model
PricingInit ==
    /\ now = 0
    /\ \E p \in Prices :
          /\ modelPrice = p
          /\ versions = {[version |-> 1, price |-> p, active |-> TRUE, from |-> 0, to |-> 0]}
    /\ upd = [u \in Updaters |-> NewUpdate]
    /\ call = [c \in Calls |-> NewCall]

Active == {v \in versions : v.active}
Numbers == {v.version : v \in versions}
Open(u) == upd[u].phase \in {"begun", "numbered", "superseding", "locked"}

Tick ==
    /\ now < MaxTime
    /\ now' = now + 1
    /\ UNCHANGED <<versions, modelPrice, upd, call>>

-----------------------------------------------------------------------------
(* UpdateModelPricing                                                      *)

\* An update overlaps with every completion that waits for its metering.
Racing == [c \in Calls |-> IF call[c].phase = "meter" THEN [call[c] EXCEPT !.raced = TRUE] ELSE call[c]]

Begin(u, p) ==
    /\ upd[u].phase = "idle"
    /\ upd' = [upd EXCEPT ![u] = [NewUpdate EXCEPT !.phase = "begun", !.price = p, !.at = now]]
    /\ call' = Racing
    /\ UNCHANGED <<now, versions, modelPrice>>

NextNumber == Max(Numbers) + 1

\* GetNextModelPricingVersionNumber
ReadNext(u) ==
    /\ upd[u].phase = "begun"
    /\ upd' = [upd EXCEPT ![u].phase = "numbered", ![u].next = NextNumber]
    /\ UNCHANGED <<now, versions, modelPrice, call>>

\* SupersedeActiveModelPricingVersion: the UPDATE sees the rows committed so far.
Supersede(u) ==
    /\ upd[u].phase = "numbered"
    /\ \E v \in Active : upd' = [upd EXCEPT ![u].phase = "superseding", ![u].seen = v.version]
    /\ UNCHANGED <<now, versions, modelPrice, call>>

Unlocked(u) == \A w \in Updaters \ {u} : upd[w].phase # "locked"
\* With the lock its own, PostgreSQL looks at the row again; CHECK on the interval.
StillActive(u) == \E v \in Active : v.version = upd[u].seen
IntervalOK_NoCheck(u) == TRUE
IntervalOK(u) == \A v \in Active : upd[u].at >= v.from

Lock(u) ==
    /\ upd[u].phase = "superseding" /\ Unlocked(u)
    /\ StillActive(u) /\ IntervalOK(u)
    /\ upd' = [upd EXCEPT ![u].phase = "locked"]
    /\ UNCHANGED <<now, versions, modelPrice, call>>

LockFails_Ignored(u) ==
    /\ upd[u].phase = "superseding" /\ Unlocked(u)
    /\ ~(StillActive(u) /\ IntervalOK(u))
    /\ upd' = [upd EXCEPT ![u].phase = "ok"]
    /\ UNCHANGED <<now, versions, modelPrice, call>>

\* No row is left to update (reported as "not found"), or a constraint fails.
LockFails(u) ==
    /\ upd[u].phase = "superseding" /\ Unlocked(u)
    /\ ~(StillActive(u) /\ IntervalOK(u))
    /\ upd' = [upd EXCEPT ![u].phase = "failed"]
    /\ UNCHANGED <<now, versions, modelPrice, call>>

\* UpdateModelPricing of models, CreateModelPricingVersion, COMMIT.  The answer to
\* the COMMIT may be lost, and then the administrator sees an error.
Commit(u, result) ==
    LET new == [version |-> upd[u].next, price |-> upd[u].price, active |-> TRUE,
                from |-> upd[u].at, to |-> 0]
    IN
    /\ upd[u].phase = "locked"
    /\ upd[u].next \notin Numbers
    /\ versions' = {IF v.active THEN [v EXCEPT !.active = FALSE, !.to = upd[u].at] ELSE v :
                       v \in versions} \cup {new}
    /\ modelPrice' = upd[u].price
    /\ upd' = [upd EXCEPT ![u].phase = result]
    /\ call' = [c \in Calls |-> [Racing[c] EXCEPT !.changed = TRUE]]
    /\ UNCHANGED now

\* UNIQUE (org, model, version)
NumberTaken(u) ==
    /\ upd[u].phase = "locked"
    /\ upd[u].next \in Numbers
    /\ upd' = [upd EXCEPT ![u].phase = "failed"]
    /\ UNCHANGED <<now, versions, modelPrice, call>>

\* The request's context is cancelled, or the database fails: rolled back.
Cancelled(u) ==
    /\ Open(u)
    /\ upd' = [upd EXCEPT ![u].phase = "failed"]
    /\ UNCHANGED <<now, versions, modelPrice, call>>

-----------------------------------------------------------------------------
(* Calls                                                                   *)

\* The router reads the model, and the estimate is computed from its price.
Estimate(c) ==
    /\ call[c].phase = "idle"
    /\ call' = [call EXCEPT ![c] = [NewCall EXCEPT !.phase = "provider", !.est = modelPrice]]
    /\ UNCHANGED <<now, versions, modelPrice, upd>>

Complete(c) ==
    /\ call[c].phase = "provider"
    /\ call' = [call EXCEPT ![c].phase = "meter", ![c].at = now,
                            ![c].raced = \E u \in Updaters : Open(u)]
    /\ UNCHANGED <<now, versions, modelPrice, upd>>

ChargedBy_First == CHOOSE v \in versions : v.version = 1
ChargedBy == CHOOSE v \in Active : TRUE

\* GetActiveModelPricingVersion in RecordSuccess
Charge(c) ==
    /\ call[c].phase = "meter"
    /\ call' = [call EXCEPT ![c].phase = "done", ![c].by = ChargedBy.version]
    /\ UNCHANGED <<now, versions, modelPrice, upd>>

PricingNext ==
    \/ Tick
    \/ \E u \in Updaters :
          \/ \E p \in Prices : Begin(u, p)
          \/ ReadNext(u) \/ Supersede(u) \/ Lock(u) \/ LockFails(u)
          \/ \E result \in {"ok", "lost"} : Commit(u, result)
          \/ NumberTaken(u) \/ Cancelled(u)
    \/ \E c \in Calls : Estimate(c) \/ Complete(c) \/ Charge(c)

PricingSpec == PricingInit /\ [][PricingNext]_prvars

-----------------------------------------------------------------------------
(* Properties                                                              *)

\* Rows, updates and calls stay well-formed, and no timestamp lies in the future.
PricingTypeOK ==
    /\ now \in 0 .. MaxTime
    /\ versions \in SUBSET Version /\ modelPrice \in Prices
    /\ upd \in [Updaters -> Update] /\ call \in [Calls -> Call]
    /\ \A v \in versions : v.from =< now
    /\ \A u \in Updaters : upd[u].at =< now /\ (Open(u) => upd[u].price \in Prices)
    /\ \A c \in Calls : call[c].at =< now

\* However updates interleave, fail or meet a clock that was read too early, the
\* versions of a model are numbered without gap, each one ends when the next
\* begins, only the last is active, and its price is the one in models.
HistoryGapless ==
    /\ Numbers = 1 .. Cardinality(versions)
    /\ \A v \in versions : v.active <=> v.version = Cardinality(versions)
    /\ \A v \in Active : v.price = modelPrice
    /\ \A v, w \in versions : w.version = v.version + 1 => v.to = w.from /\ v.from =< v.to

\* An update that was acknowledged is one version of the history, and one that was
\* refused is none, unless it is the answer to the COMMIT that failed: no update
\* silently overwrites another.
UpdatesKept ==
    Cardinality(versions) = 1 + Cardinality({u \in Updaters : upd[u].phase \in {"ok", "lost"}})

\* A completion is charged the price in force when it completed, unless an update
\* was under way then or came before its metering; and the price it was estimated
\* with, unless an update came in between.
ChargedInForce ==
    \A c \in Calls : call[c].phase = "done" =>
        \E v \in versions :
            /\ v.version = call[c].by
            /\ v.price = call[c].est \/ call[c].changed
            /\ (v.from =< call[c].at /\ (v.active \/ call[c].at =< v.to)) \/ call[c].raced
=============================================================================
