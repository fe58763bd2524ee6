--------------------------- MODULE MeteringProofs ---------------------------
(***************************************************************************)
(* What is metered, what metering rests on and what it sets off.           *)
(*                                                                         *)
(*   StreamRelay    what is recorded for a stream, for any number of       *)
(*                  frames and wherever the provider, the client, the      *)
(*                  timeout and the two goroutines are when it breaks;     *)
(*   Pricing        what the constraints of model_pricing_versions and the *)
(*                  lock on its active row guarantee, for any number of    *)
(*                  concurrent updates and calls;                          *)
(*   BudgetAlerts   what the webhooks are told, for any number of checks   *)
(*                  that run at the same time, any budgets and calendar.   *)
(***************************************************************************)
EXTENDS StreamRelay, Pricing, BudgetAlerts, TLAPS, SequenceTheorems, FiniteSetTheorems

-----------------------------------------------------------------------------
(* Streams: the inductive invariant of the relay                           *)

\* The handler has noted a usage event before it writes it to the client, and what it
\* notes it never forgets.
UsageNoted == (written = "usage" => usage) /\ ("usage" \in got => usage)

\* Err() is set once, by a reader that is through: nothing changes why it returned.
ErrorFinal == err => reader = "ended" /\ ending = "broken"

\* FinalizeStream runs once, on the usage and the error the stream ended with.
OutcomeFits ==
    /\ handler = "returned" <=> outcome # "none"
    /\ outcome = "metered" => usage
    /\ outcome = "usage_missing" => ~usage
    /\ outcome = "provider_error" => err

\* The inductive invariant of the relay.
RelayInv == RelayTypeOK /\ UsageNoted /\ ErrorFinal /\ OutcomeFits

\* The variables keep their types.
LEMMA RelayStepTyped == RelayTypeOK /\ [RelayNext]_rvars => RelayTypeOK'
  <1> SUFFICES ASSUME RelayTypeOK, [RelayNext]_rvars PROVE RelayTypeOK'
    OBVIOUS
  <1> USE MaxFramesAssumption DEF RelayTypeOK, Frames, Endings, Outcomes
  <1>1. ASSUME NEW f \in Frames, ReadFrame(f)
        PROVE  RelayTypeOK'
    BY <1>1 DEF ReadFrame, handlerVars
  <1>2. ASSUME NEW f \in Frames, NEW why \in Endings \ {"no", "done"}, ReadTail(f, why)
        PROVE  RelayTypeOK'
    BY <1>2 DEF ReadTail, handlerVars
  <1>3. ASSUME NEW why \in Endings \ {"no", "done"}, ReadEnd(why)
        PROVE  RelayTypeOK'
    BY <1>3 DEF ReadEnd, handlerVars
  <1>4. CASE Deliver
    BY <1>4 DEF Deliver
  <1>5. CASE ReaderReturns
    <2>1. UNCHANGED <<frames, event, ending, client, handler, written, usage, got, brokeOff, outcome>>
      BY <1>5 DEF ReaderReturns, handlerVars
    <2>2. reader' = "ended" /\ err' \in BOOLEAN /\ ctxDone' \in BOOLEAN /\ bodyOpen' \in BOOLEAN
      BY <1>5 DEF ReaderReturns
    <2>3. QED
      BY <2>1, <2>2
  <1>6. CASE Write \/ WriteFails \/ Drained
    <2>1. CASE Write
      <3>1. got' \subseteq {"usage", "done"}
        BY <2>1 DEF Write
      <3>2. QED
        BY <2>1, <3>1 DEF Write, readerVars
    <2>2. CASE WriteFails
      BY <2>2 DEF WriteFails, readerVars
    <2>3. CASE Drained
      BY <2>3 DEF Drained, readerVars
    <2>4. QED
      BY <1>6, <2>1, <2>2, <2>3
  <1>7. CASE Finalize
    <2>1. UNCHANGED <<frames, reader, event, ending, err, written, usage, got, brokeOff, client>>
      BY <1>7 DEF Finalize, readerVars
    <2>2. handler' = "returned" /\ outcome' \in Outcomes /\ ctxDone' \in BOOLEAN /\ bodyOpen' \in BOOLEAN
      BY <1>7 DEF Finalize
    <2>3. QED
      BY <2>1, <2>2
  <1>8. CASE ClientLeaves \/ ClientStalls \/ Timeout
    <2>1. UNCHANGED <<frames, reader, event, ending, err, handler, written, usage, got, brokeOff, outcome,
                      bodyOpen>>
      BY <1>8 DEF ClientLeaves, ClientStalls, Timeout, readerVars, handlerVars
    <2>2. client' \in {"reading", "stalled", "gone"} /\ ctxDone' \in BOOLEAN
      BY <1>8 DEF ClientLeaves, ClientStalls, Timeout
    <2>3. QED
      BY <2>1, <2>2
  <1>9. CASE UNCHANGED rvars
    BY <1>9 DEF rvars, readerVars, handlerVars
  <1>10. QED
    BY <1>1, <1>2, <1>3, <1>4, <1>5, <1>6, <1>7, <1>8, <1>9 DEF RelayNext

\* Every step keeps the invariant: only Deliver notes usage, only ReaderReturns sets the
\* error, and Finalize reads both.
LEMMA RelayStep == RelayInv /\ [RelayNext]_rvars => RelayInv'
  <1> SUFFICES ASSUME RelayInv, [RelayNext]_rvars PROVE RelayInv'
    OBVIOUS
  <1> USE DEF RelayInv
  <1>0. RelayTypeOK'
    BY RelayStepTyped
  <1>1. ASSUME NEW f \in Frames, ReadFrame(f)
        PROVE  RelayInv'
    BY <1>0, <1>1 DEF ReadFrame, handlerVars, UsageNoted, ErrorFinal, OutcomeFits
  <1>2. ASSUME NEW f \in Frames, NEW why \in Endings \ {"no", "done"}, ReadTail(f, why)
        PROVE  RelayInv'
    BY <1>0, <1>2 DEF ReadTail, handlerVars, UsageNoted, ErrorFinal, OutcomeFits
  <1>3. ASSUME NEW why \in Endings \ {"no", "done"}, ReadEnd(why)
        PROVE  RelayInv'
    BY <1>0, <1>3 DEF ReadEnd, handlerVars, UsageNoted, ErrorFinal, OutcomeFits
  <1>4. CASE Deliver
    BY <1>0, <1>4 DEF Deliver, UsageNoted, ErrorFinal, OutcomeFits
  <1>5. CASE ReaderReturns
    BY <1>0, <1>5 DEF ReaderReturns, handlerVars, UsageNoted, ErrorFinal, OutcomeFits
  <1>6. CASE Write \/ WriteFails \/ Drained
    BY <1>0, <1>6 DEF Write, WriteFails, Drained, readerVars, UsageNoted, ErrorFinal, OutcomeFits
  <1>7. CASE Finalize
    BY <1>0, <1>7 DEF Finalize, readerVars, UsageNoted, ErrorFinal, OutcomeFits, RelayTypeOK
  <1>8. CASE ClientLeaves \/ ClientStalls \/ Timeout
    BY <1>0, <1>8 DEF ClientLeaves, ClientStalls, Timeout, readerVars, handlerVars, UsageNoted, ErrorFinal,
                      OutcomeFits
  <1>9. CASE UNCHANGED rvars
    BY <1>0, <1>9 DEF rvars, readerVars, handlerVars, UsageNoted, ErrorFinal, OutcomeFits
  <1>10. QED
    BY <1>1, <1>2, <1>3, <1>4, <1>5, <1>6, <1>7, <1>8, <1>9 DEF RelayNext

\* The invariant holds from the moment the provider has accepted the stream.
THEOREM RelaySafe == RelaySpec => []RelayInv
  <1>1. RelayInit => RelayInv
    <2> SUFFICES ASSUME RelayInit PROVE RelayInv
      OBVIOUS
    <2>1. RelayTypeOK
      <3>1. frames \in 0 .. MaxFrames
        BY MaxFramesAssumption DEF RelayInit
      <3>2. event \in Frames /\ written \in Frames /\ ending \in Endings /\ outcome \in Outcomes /\ got = {}
        BY DEF RelayInit, Frames, Endings, Outcomes
      <3>3. QED
        BY <3>1, <3>2 DEF RelayInit, RelayTypeOK
    <2>2. UsageNoted /\ ErrorFinal /\ OutcomeFits
      BY DEF RelayInit, UsageNoted, ErrorFinal, OutcomeFits
    <2>3. QED
      BY <2>1, <2>2 DEF RelayInv
  <1>2. QED
    BY <1>1, RelayStep, PTL DEF RelaySpec

\* Whoever was sent a whole completion is charged for it, however long the stream and
\* whenever its client leaves, its timeout expires or the reader is overtaken.
THEOREM WholeStreamsAreCharged == RelaySpec => []CompleteStreamMetered
  <1>1. RelayInv => CompleteStreamMetered
    BY DEF RelayInv, RelayTypeOK, Outcomes, UsageNoted, ErrorFinal, OutcomeFits, CompleteStreamMetered
  <1>2. QED
    BY <1>1, RelaySafe, PTL

\* Neither a client that leaves nor a timeout is recorded as a failure of the provider.
THEOREM ErrorsAreTheProviders == RelaySpec => []ErrorMeansBroken
  <1>1. RelayInv => ErrorMeansBroken
    BY DEF RelayInv, ErrorFinal, OutcomeFits, ErrorMeansBroken
  <1>2. QED
    BY <1>1, RelaySafe, PTL

-----------------------------------------------------------------------------
(* Pricing: the inductive invariant of the history                         *)

Newest == Cardinality(versions)

\* UNIQUE (org, model, version)
UniqueNumbers == \A v, w \in versions : v.version = w.version => v = w

\* A version number that was read is the next one or has been taken since.
NumbersFit ==
    \A u \in Updaters : upd[u].phase \in {"numbered", "superseding", "locked"} =>
        upd[u].next \in 1 .. Newest + 1

\* The row lock has one owner, and the interval it was checked with is still the right one.
OneLocked ==
    \A u, w \in Updaters : upd[u].phase = "locked" /\ upd[w].phase = "locked" => u = w
LockedFits == \A u \in Updaters : upd[u].phase = "locked" => IntervalOK(u)

HistoryInv ==
    /\ PricingTypeOK
    /\ IsFiniteSet(versions) /\ Newest \in Nat \ {0}
    /\ UniqueNumbers /\ HistoryGapless
    /\ NumbersFit /\ OneLocked /\ LockedFits

\* Rows with different numbers 1 .. m are m rows.
LEMMA CountRows ==
    ASSUME NEW V, NEW m \in Nat, {v.version : v \in V} = 1 .. m,
           \A v, w \in V : v.version = w.version => v = w
    PROVE  IsFiniteSet(V) /\ Cardinality(V) = m
  <1> DEFINE f == [v \in V |-> v.version]
  <1>1. f \in Injection(V, 1 .. m)
    BY DEF Injection, IsInjective
  <1>2. f \in Surjection(V, 1 .. m)
    BY DEF Surjection
  <1>3. IsFiniteSet(1 .. m) /\ Cardinality(1 .. m) = m
    BY FS_Interval
  <1> HIDE DEF f
  <1>4. QED
    BY <1>1, <1>2, <1>3, FS_Injection

\* SELECT COALESCE(MAX(version), 0) + 1
LEMMA NextIsNew ==
    ASSUME HistoryInv
    PROVE  NextNumber = Newest + 1
  <1>1. Numbers = 1 .. Newest /\ Newest \in Nat \ {0}
    BY DEF HistoryInv, HistoryGapless, Newest
  <1>2. Newest \in Numbers /\ \A n \in Numbers : Newest >= n /\ n \in Nat
    BY <1>1
  <1>3. Max(Numbers) \in Numbers /\ \A n \in Numbers : Max(Numbers) >= n
    BY <1>2 DEF Max
  <1>4. Max(Numbers) = Newest
    BY <1>1, <1>2, <1>3
  <1>5. QED
    BY <1>4 DEF NextNumber

\* The history a model is created with.
LEMMA PricingInitInv == PricingInit => HistoryInv
  <1> SUFFICES ASSUME PricingInit PROVE HistoryInv
    OBVIOUS
  <1>1. PICK p \in Prices :
           /\ modelPrice = p
           /\ versions = {[version |-> 1, price |-> p, active |-> TRUE, from |-> 0, to |-> 0]}
    BY DEF PricingInit
  <1> DEFINE v0 == [version |-> 1, price |-> p, active |-> TRUE, from |-> 0, to |-> 0]
  <1>2. versions = {v0} /\ v0 \in Version /\ p \in Nat
    BY <1>1, PricingAssumption DEF Version
  <1>3. v0.version = 1 /\ v0.price = p /\ v0.active = TRUE /\ v0.from = 0
    OBVIOUS
  <1> HIDE DEF v0
  <1>4. Numbers = 1 .. 1
    BY <1>2, <1>3 DEF Numbers
  <1>5. UniqueNumbers
    BY <1>2 DEF UniqueNumbers
  <1>6. IsFiniteSet(versions) /\ Newest = 1
    BY <1>4, <1>5, CountRows DEF Numbers, UniqueNumbers, Newest
  <1>7. HistoryGapless
    BY <1>1, <1>2, <1>3, <1>4, <1>6 DEF HistoryGapless, Active, Newest
  <1>8. /\ \A u \in Updaters : upd[u] = NewUpdate /\ upd[u].phase = "idle" /\ upd[u].at = 0
        /\ \A c \in Calls : call[c] = NewCall /\ call[c].at = 0
    BY DEF PricingInit, NewUpdate, NewCall
  <1>9. NewUpdate \in Update /\ NewCall \in Call
    BY DEF NewUpdate, Update, NewCall, Call
  <1>10. upd \in [Updaters -> Update] /\ call \in [Calls -> Call]
    BY <1>9 DEF PricingInit
  <1>11. PricingTypeOK
    <2>1. now = 0 /\ now \in 0 .. MaxTime
      BY PricingAssumption DEF PricingInit
    <2>2. QED
      BY <1>1, <1>2, <1>3, <1>8, <1>10, <2>1 DEF PricingTypeOK, Open
  <1>12. QED
    BY <1>5, <1>6, <1>7, <1>8, <1>11 DEF HistoryInv, NumbersFit, OneLocked, LockedFits

-----------------------------------------------------------------------------
(* Pricing: the steps of an update                                         *)

\* The statements of an update in front of its COMMIT, and every way it fails.
Before(u) ==
    \/ ReadNext(u) \/ Supersede(u) \/ Lock(u) \/ LockFails(u) \/ NumberTaken(u) \/ Cancelled(u)

\* What such a statement does: it only moves its own update on.
LEMMA BeforeEffect ==
    ASSUME HistoryInv, NEW u \in Updaters, Before(u)
    PROVE  /\ UNCHANGED <<now, versions, modelPrice, call>>
           /\ upd' \in [Updaters -> Update]
           /\ \A w \in Updaters : w # u => upd'[w] = upd[w]
           /\ upd'[u].at = upd[u].at /\ upd'[u].price = upd[u].price
           /\ Open(u)
           /\ \/ upd'[u].phase = "failed"
              \/ upd'[u].phase \in {"numbered", "superseding", "locked"} /\ upd'[u].next \in 1 .. Newest + 1
           /\ upd'[u].phase = "locked" => Unlocked(u) /\ IntervalOK(u)
  <1>1. upd \in [Updaters -> Update] /\ upd[u] \in Update /\ Newest \in Nat
    BY DEF HistoryInv, PricingTypeOK
  <1> DEFINE Goal(r) ==
                /\ r \in Update /\ r.at = upd[u].at /\ r.price = upd[u].price
                /\ \/ r.phase = "failed"
                   \/ r.phase \in {"numbered", "superseding", "locked"} /\ r.next \in 1 .. Newest + 1
                /\ r.phase = "locked" => Unlocked(u) /\ IntervalOK(u)
  <1>2. UNCHANGED <<now, versions, modelPrice, call>>
    BY DEF Before, ReadNext, Supersede, Lock, LockFails, NumberTaken, Cancelled
  <1>3. Open(u)
    BY DEF Before, ReadNext, Supersede, Lock, LockFails, NumberTaken, Cancelled, Open
  <1>4. \E r : Goal(r) /\ upd' = [upd EXCEPT ![u] = r]
    <2>1. CASE ReadNext(u)
      <3> DEFINE r == [upd[u] EXCEPT !.phase = "numbered", !.next = Newest + 1]
      <3>1. NextNumber = Newest + 1
        BY NextIsNew
      <3>2. upd' = [upd EXCEPT ![u] = r]
        BY <1>1, <2>1, <3>1 DEF ReadNext
      <3>3. Newest + 1 \in Nat /\ Newest + 1 \in 1 .. Newest + 1
        BY <1>1
      <3>4. /\ r \in Update /\ r.at = upd[u].at /\ r.price = upd[u].price
            /\ r.phase = "numbered" /\ r.next = Newest + 1
        BY <1>1, <3>3 DEF Update
      <3>5. QED
        BY <3>2, <3>3, <3>4
    <2>2. CASE Supersede(u)
      <3>1. PICK v \in Active : upd' = [upd EXCEPT ![u].phase = "superseding", ![u].seen = v.version]
        BY <2>2 DEF Supersede
      <3>2. v.version \in Nat
        BY DEF Active, HistoryInv, PricingTypeOK, Version
      <3> DEFINE r == [upd[u] EXCEPT !.phase = "superseding", !.seen = v.version]
      <3>3. upd' = [upd EXCEPT ![u] = r]
        BY <1>1, <3>1
      <3>4. upd[u].next \in 1 .. Newest + 1
        BY <2>2 DEF Supersede, HistoryInv, NumbersFit
      <3>5. Goal(r)
        BY <1>1, <3>2, <3>4 DEF Update
      <3>6. QED
        BY <3>3, <3>5
    <2>3. CASE Lock(u)
      <3> DEFINE r == [upd[u] EXCEPT !.phase = "locked"]
      <3>1. upd' = [upd EXCEPT ![u] = r]
        BY <1>1, <2>3 DEF Lock
      <3>2. upd[u].next \in 1 .. Newest + 1 /\ Unlocked(u) /\ IntervalOK(u)
        BY <2>3 DEF Lock, HistoryInv, NumbersFit
      <3>3. Goal(r)
        BY <1>1, <3>2 DEF Update
      <3>4. QED
        BY <3>1, <3>3
    <2>4. CASE LockFails(u) \/ NumberTaken(u) \/ Cancelled(u)
      <3> DEFINE r == [upd[u] EXCEPT !.phase = "failed"]
      <3>1. upd' = [upd EXCEPT ![u] = r]
        BY <1>1, <2>4 DEF LockFails, NumberTaken, Cancelled
      <3>2. Goal(r)
        BY <1>1 DEF Update
      <3>3. QED
        BY <3>1, <3>2
    <2>5. QED
      BY <2>1, <2>2, <2>3, <2>4 DEF Before
  <1>5. PICK r : Goal(r) /\ upd' = [upd EXCEPT ![u] = r]
    BY <1>4
  <1>6. upd' \in [Updaters -> Update] /\ upd'[u] = r /\ \A w \in Updaters : w # u => upd'[w] = upd[w]
    BY <1>1, <1>5
  <1>7. QED
    BY <1>2, <1>3, <1>5, <1>6

\* The statements in front of the COMMIT keep the invariant.
LEMMA BeforeKeeps ==
    ASSUME HistoryInv, NEW u \in Updaters, Before(u)
    PROVE  HistoryInv'
  <1>1. /\ UNCHANGED <<now, versions, modelPrice, call>>
        /\ upd' \in [Updaters -> Update]
        /\ \A w \in Updaters : w # u => upd'[w] = upd[w]
        /\ upd'[u].at = upd[u].at /\ upd'[u].price = upd[u].price
        /\ Open(u)
        /\ \/ upd'[u].phase = "failed"
           \/ upd'[u].phase \in {"numbered", "superseding", "locked"} /\ upd'[u].next \in 1 .. Newest + 1
        /\ upd'[u].phase = "locked" => Unlocked(u) /\ IntervalOK(u)
    BY BeforeEffect
  <1>2. Active' = Active /\ Numbers' = Numbers /\ Newest' = Newest
    BY <1>1 DEF Active, Numbers, Newest
  <1>3. PricingTypeOK'
    BY <1>1 DEF HistoryInv, PricingTypeOK, Open
  <1>4. HistoryGapless' /\ UniqueNumbers'
    BY <1>1, <1>2 DEF HistoryInv, HistoryGapless, UniqueNumbers
  <1>5. NumbersFit'
    BY <1>1, <1>2 DEF HistoryInv, NumbersFit
  <1>6. OneLocked'
    BY <1>1 DEF HistoryInv, OneLocked, Unlocked
  <1>7. LockedFits'
    BY <1>1, <1>2 DEF HistoryInv, LockedFits, IntervalOK
  <1>8. QED
    BY <1>1, <1>2, <1>3, <1>4, <1>5, <1>6, <1>7 DEF HistoryInv

-----------------------------------------------------------------------------
(* Pricing: the COMMIT of an update                                        *)

\* What SupersedeActiveModelPricingVersion makes of a row, and the row that is inserted.
Superseded(v, at) == IF v.active THEN [v EXCEPT !.active = FALSE, !.to = at] ELSE v
Inserted(u) == [version |-> upd[u].next, price |-> upd[u].price, active |-> TRUE,
                from |-> upd[u].at, to |-> 0]

\* A superseded row keeps its number, its price and its beginning.
LEMMA SupersededRow ==
    ASSUME NEW v \in Version, NEW at \in Nat
    PROVE  /\ Superseded(v, at) \in Version
           /\ Superseded(v, at).version = v.version
           /\ Superseded(v, at).price = v.price
           /\ Superseded(v, at).from = v.from
           /\ ~Superseded(v, at).active
           /\ Superseded(v, at).to = IF v.active THEN at ELSE v.to
           /\ ~v.active => Superseded(v, at) = v
  BY DEF Superseded, Version

\* The new row has the next number, and starts where the row it supersedes ends.
LEMMA CommitRows ==
    ASSUME HistoryInv, NEW u \in Updaters, NEW result, Commit(u, result)
    PROVE  /\ versions' = {Superseded(v, upd[u].at) : v \in versions} \cup {Inserted(u)}
           /\ Inserted(u) \in Version /\ upd[u].next = Newest + 1
           /\ upd[u].at \in Nat /\ upd[u].price \in Prices /\ upd[u].at =< now
           /\ modelPrice' = upd[u].price
           /\ \A v \in versions : v \in Version /\ v.version \in 1 .. Newest
           /\ IntervalOK(u)
  <1>1. upd[u].phase = "locked" /\ upd[u].next \notin Numbers
    BY DEF Commit
  <1>2. /\ upd[u] \in Update /\ upd[u].price \in Prices /\ upd[u].at =< now
        /\ \A v \in versions : v \in Version
    BY <1>1 DEF HistoryInv, PricingTypeOK, Open
  <1>3. Numbers = 1 .. Newest /\ Newest \in Nat \ {0} /\ upd[u].next \in 1 .. Newest + 1
    BY <1>1 DEF HistoryInv, HistoryGapless, NumbersFit, Newest
  <1>4. upd[u].next = Newest + 1
    BY <1>1, <1>3
  <1>5. \A v \in versions : v.version \in 1 .. Newest
    BY <1>3 DEF Numbers
  <1>6. Inserted(u) \in Version
    BY <1>2, <1>3, <1>4, PricingAssumption DEF Inserted, Version, Update
  <1>7. versions' = {Superseded(v, upd[u].at) : v \in versions} \cup {Inserted(u)}
    BY DEF Commit, Superseded, Inserted
  <1>8. IntervalOK(u)
    BY <1>1 DEF HistoryInv, LockedFits
  <1>9. modelPrice' = upd[u].price
    BY DEF Commit
  <1>10. QED
    BY <1>2, <1>4, <1>5, <1>6, <1>7, <1>8, <1>9 DEF Update

\* A committed update is the next version: the history stays without gap.
LEMMA CommitHistory ==
    ASSUME HistoryInv, NEW u \in Updaters, NEW result, Commit(u, result)
    PROVE  /\ IsFiniteSet(versions') /\ Newest' = Newest + 1
           /\ UniqueNumbers' /\ HistoryGapless'
           /\ versions' \in SUBSET Version
  <1> DEFINE at == upd[u].at
             new == Inserted(u)
             n == Newest
  <1>1. /\ versions' = {Superseded(v, at) : v \in versions} \cup {new}
        /\ new \in Version /\ upd[u].next = n + 1 /\ at \in Nat
        /\ modelPrice' = upd[u].price
        /\ \A v \in versions : v \in Version /\ v.version \in 1 .. n
        /\ IntervalOK(u)
    BY CommitRows
  <1>2. /\ new.version = n + 1 /\ new.price = upd[u].price /\ new.active = TRUE /\ new.from = at
    BY <1>1 DEF Inserted
  <1>3. /\ n \in Nat \ {0} /\ Numbers = 1 .. n
        /\ \A v \in versions : v.active <=> v.version = n
        /\ \A v, w \in versions : w.version = v.version + 1 => v.to = w.from /\ v.from =< v.to
    BY DEF HistoryInv, HistoryGapless, Newest
  <1>4. UniqueNumbers
    BY DEF HistoryInv
  <1>5. \A v \in versions : v.active => v.from =< at
    BY <1>1 DEF IntervalOK, Active, Version
  <1>6. \A w \in versions' :
           \/ w = new
           \/ \E v \in versions : /\ w = Superseded(v, at) /\ w \in Version /\ w.version = v.version
                                  /\ w.from = v.from /\ ~w.active
                                  /\ w.to = (IF v.active THEN at ELSE v.to)
    <2> SUFFICES ASSUME NEW w \in versions', w # new
                 PROVE  \E v \in versions :
                           /\ w = Superseded(v, at) /\ w \in Version /\ w.version = v.version
                           /\ w.from = v.from /\ ~w.active
                           /\ w.to = (IF v.active THEN at ELSE v.to)
      OBVIOUS
    <2>1. PICK v \in versions : w = Superseded(v, at)
      BY <1>1
    <2>2. v \in Version /\ at \in Nat
      BY <1>1
    <2> HIDE DEF at
    <2>3. /\ Superseded(v, at) \in Version /\ Superseded(v, at).version = v.version
          /\ Superseded(v, at).from = v.from /\ ~Superseded(v, at).active
          /\ Superseded(v, at).to = (IF v.active THEN at ELSE v.to)
      BY <2>2, SupersededRow
    <2>4. QED
      BY <2>1, <2>3
  <1> HIDE DEF at, new, n
  <1>7. versions' \in SUBSET Version
    BY <1>1, <1>6
  <1>8. UniqueNumbers'
    <2> SUFFICES ASSUME NEW v \in versions', NEW w \in versions', v.version = w.version
                 PROVE  v = w
      BY DEF UniqueNumbers
    <2>1. CASE v = new \/ w = new
      BY <1>1, <1>2, <1>3, <1>6, <2>1
    <2>2. CASE v # new /\ w # new
      BY <1>4, <1>6, <2>2 DEF UniqueNumbers
    <2>3. QED
      BY <2>1, <2>2
  <1>9. Numbers' = 1 .. n + 1
    <2>1. ASSUME NEW k \in Numbers'
          PROVE  k \in 1 .. n + 1
      <3>1. PICK w \in versions' : k = w.version
        BY <2>1 DEF Numbers
      <3>2. QED
        BY <1>1, <1>2, <1>3, <1>6, <3>1
    <2>2. ASSUME NEW k \in 1 .. n + 1
          PROVE  k \in Numbers'
      <3>1. CASE k = n + 1
        BY <1>1, <1>2, <3>1 DEF Numbers
      <3>2. CASE k # n + 1
        <4>1. k \in Numbers
          BY <1>3, <3>2
        <4>2. PICK v \in versions : k = v.version
          BY <4>1 DEF Numbers
        <4>3. Superseded(v, at) \in versions' /\ Superseded(v, at).version = k
          BY <1>1, <4>2, SupersededRow
        <4>4. QED
          BY <4>3 DEF Numbers
      <3>3. QED
        BY <3>1, <3>2
    <2>3. QED
      BY <2>1, <2>2
  <1>10. IsFiniteSet(versions') /\ Cardinality(versions') = n + 1
    <2>1. {v.version : v \in versions'} = 1 .. n + 1
      BY <1>9 DEF Numbers
    <2>2. QED
      BY <1>3, <1>8, <2>1, CountRows DEF UniqueNumbers
  <1>11. ASSUME NEW w \in versions'
         PROVE  w.active <=> w.version = n + 1
    <2>1. CASE w = new
      BY <1>2, <2>1
    <2>2. CASE w # new
      BY <1>1, <1>3, <1>6, <2>2
    <2>3. QED
      BY <2>1, <2>2
  <1>12. ASSUME NEW w \in versions', w.active
         PROVE  w.price = modelPrice'
    <2>1. w = new
      BY <1>6, <1>12
    <2>2. QED
      BY <1>1, <1>2, <2>1
  <1>13. ASSUME NEW v \in versions', NEW w \in versions', w.version = v.version + 1
         PROVE  v.to = w.from /\ v.from =< v.to
    <2>1. v # new
      BY <1>1, <1>2, <1>3, <1>6, <1>13
    <2>2. PICK x \in versions : /\ v.version = x.version /\ v.from = x.from
                                /\ v.to = (IF x.active THEN at ELSE x.to)
      BY <1>6, <2>1
    <2>3. CASE w = new
      <3>1. x.version = n /\ x.active
        BY <1>1, <1>2, <1>3, <1>13, <2>2, <2>3
      <3>2. QED
        BY <1>2, <1>5, <2>2, <2>3, <3>1
    <2>4. CASE w # new
      <3>1. PICK y \in versions : w.version = y.version /\ w.from = y.from
        BY <1>6, <2>4
      <3>2. y.version = x.version + 1
        BY <1>13, <2>2, <3>1
      <3>3. ~x.active
        BY <1>1, <1>3, <3>2
      <3>4. QED
        BY <1>3, <2>2, <3>1, <3>2, <3>3
    <2>5. QED
      BY <2>3, <2>4
  <1>14. HistoryGapless'
    BY <1>9, <1>10, <1>11, <1>12, <1>13 DEF HistoryGapless, Active
  <1>15. QED
    BY <1>7, <1>8, <1>10, <1>14 DEF Newest, n

\* What a COMMIT does to the updates and to the calls.
LEMMA CommitEffect ==
    ASSUME HistoryInv, NEW u \in Updaters, NEW result \in {"ok", "lost"}, Commit(u, result)
    PROVE  /\ UNCHANGED now
           /\ upd' \in [Updaters -> Update] /\ call' \in [Calls -> Call]
           /\ \A w \in Updaters : w # u => upd'[w] = upd[w]
           /\ upd'[u].phase = result /\ upd'[u].at = upd[u].at
           /\ \A c \in Calls : /\ call'[c].phase = call[c].phase /\ call'[c].at = call[c].at
                               /\ call'[c].est = call[c].est /\ call'[c].by = call[c].by
                               /\ call'[c].changed = TRUE
                               /\ call[c].raced => call'[c].raced
                               /\ call[c].phase = "meter" => call'[c].raced
  <1>1. upd \in [Updaters -> Update] /\ upd[u] \in Update /\ call \in [Calls -> Call]
    BY DEF HistoryInv, PricingTypeOK
  <1> DEFINE r == [upd[u] EXCEPT !.phase = result]
  <1>2. upd' = [upd EXCEPT ![u] = r]
    BY <1>1 DEF Commit
  <1>3. r \in Update /\ r.phase = result /\ r.at = upd[u].at
    BY <1>1 DEF Update
  <1> HIDE DEF r
  <1>4. upd' \in [Updaters -> Update] /\ upd'[u] = r /\ \A w \in Updaters : w # u => upd'[w] = upd[w]
    BY <1>1, <1>2, <1>3
  <1>5. ASSUME NEW c \in Calls
        PROVE  /\ call'[c] \in Call
               /\ call'[c].phase = call[c].phase /\ call'[c].at = call[c].at
               /\ call'[c].est = call[c].est /\ call'[c].by = call[c].by
               /\ call'[c].changed = TRUE
               /\ call[c].raced => call'[c].raced
               /\ call[c].phase = "meter" => call'[c].raced
    <2>1. call[c] \in Call
      BY <1>1
    <2>2. call'[c] = [Racing[c] EXCEPT !.changed = TRUE]
      BY DEF Commit
    <2>3. Racing[c] = IF call[c].phase = "meter" THEN [call[c] EXCEPT !.raced = TRUE] ELSE call[c]
      BY DEF Racing
    <2>4. /\ Racing[c] \in Call
          /\ Racing[c].phase = call[c].phase /\ Racing[c].at = call[c].at
          /\ Racing[c].est = call[c].est /\ Racing[c].by = call[c].by
          /\ call[c].raced => Racing[c].raced
          /\ call[c].phase = "meter" => Racing[c].raced
      <3>1. CASE call[c].phase = "meter"
        BY <2>1, <2>3, <3>1 DEF Call
      <3>2. CASE call[c].phase # "meter"
        BY <2>1, <2>3, <3>2 DEF Call
      <3>3. QED
        BY <3>1, <3>2
    <2>5. /\ call'[c] \in Call /\ call'[c].changed = TRUE
          /\ call'[c].phase = Racing[c].phase /\ call'[c].at = Racing[c].at
          /\ call'[c].est = Racing[c].est /\ call'[c].by = Racing[c].by
          /\ call'[c].raced = Racing[c].raced
      BY <2>2, <2>4 DEF Call
    <2>6. QED
      BY <2>4, <2>5
  <1>6. call' \in [Calls -> Call]
    <2>1. call' = [c \in Calls |-> [Racing[c] EXCEPT !.changed = TRUE]]
      BY DEF Commit
    <2>2. QED
      BY <1>5, <2>1
  <1>7. UNCHANGED now
    BY DEF Commit
  <1>8. QED
    BY <1>3, <1>4, <1>5, <1>6, <1>7

\* A COMMIT keeps the invariant: it gives the lock back, and numbers read before it stay
\* at most one above the last.
LEMMA CommitKeeps ==
    ASSUME HistoryInv, NEW u \in Updaters, NEW result \in {"ok", "lost"}, Commit(u, result)
    PROVE  HistoryInv'
  <1>1. /\ UNCHANGED now
        /\ upd' \in [Updaters -> Update] /\ call' \in [Calls -> Call]
        /\ \A w \in Updaters : w # u => upd'[w] = upd[w]
        /\ upd'[u].phase \in {"ok", "lost"} /\ upd'[u].at = upd[u].at
        /\ \A c \in Calls : call'[c].at = call[c].at
    BY CommitEffect
  <1>2. /\ IsFiniteSet(versions') /\ Newest' = Newest + 1 /\ UniqueNumbers' /\ HistoryGapless'
        /\ versions' \in SUBSET Version
    BY CommitHistory
  <1>3. /\ upd[u].phase = "locked" /\ upd[u].price \in Prices /\ modelPrice' = upd[u].price
        /\ upd[u].at =< now
    BY CommitRows DEF Commit
  <1>4. \A v \in versions' : v.from =< now'
    <2>1. /\ versions' = {Superseded(v, upd[u].at) : v \in versions} \cup {Inserted(u)}
          /\ upd[u].at \in Nat /\ \A v \in versions : v \in Version
      BY CommitRows
    <2>2. \A v \in versions : Superseded(v, upd[u].at).from = v.from /\ v.from =< now
      BY <2>1, SupersededRow DEF HistoryInv, PricingTypeOK
    <2>3. Inserted(u).from = upd[u].at
      BY DEF Inserted
    <2>4. QED
      BY <1>1, <1>3, <2>1, <2>2, <2>3
  <1>5. PricingTypeOK'
    BY <1>1, <1>2, <1>3, <1>4 DEF HistoryInv, PricingTypeOK, Open
  <1>6. NumbersFit' /\ Newest' \in Nat \ {0}
    <2>1. Newest \in Nat \ {0}
      BY DEF HistoryInv
    <2>2. QED
      BY <1>1, <1>2, <2>1 DEF HistoryInv, NumbersFit
  <1>7. OneLocked' /\ LockedFits'
    BY <1>1, <1>3 DEF HistoryInv, OneLocked, LockedFits
  <1>8. QED
    BY <1>2, <1>5, <1>6, <1>7 DEF HistoryInv

\* An update that begins, and the calls, leave history and locks alone.
LEMMA OthersKeep ==
    ASSUME HistoryInv,
           \/ \E u \in Updaters, p \in Prices : Begin(u, p)
           \/ \E c \in Calls : Estimate(c) \/ Complete(c) \/ Charge(c)
           \/ Tick \/ UNCHANGED prvars
    PROVE  HistoryInv'
  <1>1. UNCHANGED <<versions, modelPrice>>
    BY DEF Begin, Estimate, Complete, Charge, Tick, prvars
  <1>2. Active' = Active /\ Numbers' = Numbers /\ Newest' = Newest
    BY <1>1 DEF Active, Numbers, Newest
  <1>3. HistoryGapless' /\ UniqueNumbers'
    BY <1>1, <1>2 DEF HistoryInv, HistoryGapless, UniqueNumbers
  <1>4. now \in Nat /\ now' \in 0 .. MaxTime /\ now =< now'
    <2>1. now' = now \/ (now < MaxTime /\ now' = now + 1)
      BY DEF Begin, Estimate, Complete, Charge, Tick, prvars
    <2>2. QED
      BY <2>1, PricingAssumption DEF HistoryInv, PricingTypeOK
  <1>5. /\ upd' \in [Updaters -> Update]
        /\ \A u \in Updaters :
              \/ upd'[u] = upd[u]
              \/ upd'[u].phase = "begun" /\ upd'[u].at = now /\ upd'[u].price \in Prices
    <2>1. CASE UNCHANGED upd
      BY <2>1 DEF HistoryInv, PricingTypeOK
    <2>2. ASSUME NEW u \in Updaters, NEW p \in Prices, Begin(u, p)
          PROVE  /\ upd' \in [Updaters -> Update]
                 /\ \A w \in Updaters :
                       \/ upd'[w] = upd[w]
                       \/ upd'[w].phase = "begun" /\ upd'[w].at = now /\ upd'[w].price \in Prices
      <3> DEFINE r == [NewUpdate EXCEPT !.phase = "begun", !.price = p, !.at = now]
      <3>1. upd' = [upd EXCEPT ![u] = r]
        BY <2>2 DEF Begin
      <3>2. r \in Update /\ r.phase = "begun" /\ r.at = now /\ r.price = p
        BY <1>4, PricingAssumption DEF NewUpdate, Update
      <3> HIDE DEF r
      <3>3. QED
        BY <3>1, <3>2 DEF HistoryInv, PricingTypeOK
    <2>3. QED
      BY <2>1, <2>2 DEF Estimate, Complete, Charge, Tick, prvars
  <1>6. call' \in [Calls -> Call] /\ \A c \in Calls : call'[c].at =< now'
    <2>0. call \in [Calls -> Call] /\ \A c \in Calls : call[c].at \in Nat /\ call[c].at =< now
      BY DEF HistoryInv, PricingTypeOK, Call
    <2>1. CASE UNCHANGED call
      BY <1>4, <2>0, <2>1
    <2>2. CASE call' = Racing
      <3>1. \A c \in Calls : call'[c] \in Call /\ call'[c].at = call[c].at
        <4>1. ASSUME NEW c \in Calls
              PROVE  call'[c] \in Call /\ call'[c].at = call[c].at
          <5>1. call[c] \in Call
            BY <2>0
          <5>2. call'[c] = IF call[c].phase = "meter" THEN [call[c] EXCEPT !.raced = TRUE] ELSE call[c]
            BY <2>2 DEF Racing
          <5>3. QED
            BY <5>1, <5>2 DEF Call
        <4>2. QED
          BY <4>1
      <3>2. QED
        BY <1>4, <2>0, <2>2, <3>1 DEF Racing
    <2>3. ASSUME NEW c \in Calls, Estimate(c) \/ Complete(c) \/ Charge(c)
          PROVE  call' \in [Calls -> Call] /\ \A d \in Calls : call'[d].at =< now'
      <3>1. call[c] \in Call
        BY <2>0
      <3>2. \E r \in Call : call' = [call EXCEPT ![c] = r] /\ r.at =< now'
        <4>1. CASE Estimate(c)
          <5> DEFINE r == [NewCall EXCEPT !.phase = "provider", !.est = modelPrice]
          <5>1. modelPrice \in Nat
            BY PricingAssumption DEF HistoryInv, PricingTypeOK
          <5>2. call' = [call EXCEPT ![c] = r]
            BY <4>1 DEF Estimate
          <5>3. r \in Call /\ r.at = 0
            BY <5>1 DEF NewCall, Call
          <5>4. 0 =< now'
            BY <1>4
          <5> HIDE DEF r
          <5>5. QED
            BY <5>2, <5>3, <5>4
        <4>2. CASE Complete(c)
          <5> DEFINE r == [call[c] EXCEPT !.phase = "meter", !.at = now,
                                          !.raced = \E u \in Updaters : Open(u)]
          <5>1. call' = [call EXCEPT ![c] = r]
            BY <2>0, <4>2 DEF Complete
          <5>2. r \in Call /\ r.at = now
            BY <1>4, <3>1 DEF Call
          <5>3. QED
            BY <1>4, <5>1, <5>2
        <4>3. CASE Charge(c)
          <5> DEFINE r == [call[c] EXCEPT !.phase = "done", !.by = ChargedBy.version]
          <5>1. call' = [call EXCEPT ![c] = r]
            BY <2>0, <4>3 DEF Charge
          <5>2. ChargedBy.version \in Nat
            <6>1. PICK v \in versions : v.version = Newest
              BY DEF HistoryInv, HistoryGapless, Numbers, Newest
            <6>2. v \in Active
              BY <6>1 DEF HistoryInv, HistoryGapless, Active, Newest
            <6>3. ChargedBy \in Active
              BY <6>2 DEF ChargedBy
            <6>4. QED
              BY <6>3 DEF Active, HistoryInv, PricingTypeOK, Version
          <5>3. r \in Call /\ r.at = call[c].at
            BY <3>1, <5>2 DEF Call
          <5>4. call[c].at =< now'
            BY <1>4, <2>0
          <5> HIDE DEF r
          <5>5. QED
            BY <5>1, <5>3, <5>4
        <4>4. QED
          BY <2>3, <4>1, <4>2, <4>3
      <3>3. QED
        BY <1>4, <2>0, <3>2
    <2>4. QED
      BY <2>1, <2>2, <2>3 DEF Begin, Tick, prvars
  <1>7. PricingTypeOK'
    <2>1. \A v \in versions' : v.from =< now'
      BY <1>1, <1>4 DEF HistoryInv, PricingTypeOK, Version
    <2>2. \A u \in Updaters : upd'[u].at =< now'
      BY <1>4, <1>5 DEF HistoryInv, PricingTypeOK, Update
    <2>3. \A u \in Updaters : Open(u)' => upd'[u].price \in Prices
      BY <1>5 DEF HistoryInv, PricingTypeOK, Open
    <2>4. QED
      BY <1>1, <1>4, <1>5, <1>6, <2>1, <2>2, <2>3 DEF HistoryInv, PricingTypeOK
  <1>8. NumbersFit' /\ OneLocked' /\ LockedFits'
    BY <1>2, <1>5 DEF HistoryInv, NumbersFit, OneLocked, LockedFits, IntervalOK
  <1>9. QED
    BY <1>1, <1>2, <1>3, <1>7, <1>8 DEF HistoryInv

\* Every step keeps the history in order.
LEMMA HistoryStep == HistoryInv /\ [PricingNext]_prvars => HistoryInv'
  BY BeforeKeeps, CommitKeeps, OthersKeep DEF PricingNext, Before

\* However many updates run at once, and wherever they fail, the history of a model has no
\* gap, no overlap and exactly one active version, whose price is the one in models.
THEOREM HistoryIsGapless == PricingSpec => []HistoryGapless
  <1>1. HistoryInv => HistoryGapless
    BY DEF HistoryInv
  <1>2. QED
    BY <1>1, PricingInitInv, HistoryStep, PTL DEF PricingSpec

\* The history's invariant, for the theorems that follow.
LEMMA HistoryAlways == PricingSpec => []HistoryInv
  BY PricingInitInv, HistoryStep, PTL DEF PricingSpec

-----------------------------------------------------------------------------
(* Pricing: updates and versions                                           *)

Committed == {u \in Updaters : upd[u].phase \in {"ok", "lost"}}
KeptInv == IsFiniteSet(Committed) /\ UpdatesKept

\* Only a COMMIT adds an update to the committed ones, and it adds one version.
LEMMA KeptStep ==
    ASSUME HistoryInv, KeptInv, [PricingNext]_prvars
    PROVE  KeptInv'
  <1>1. ASSUME NEW u \in Updaters, NEW result \in {"ok", "lost"}, Commit(u, result)
        PROVE  KeptInv'
    <2>1. upd'[u].phase = result /\ \A w \in Updaters : w # u => upd'[w] = upd[w]
      BY <1>1, CommitEffect
    <2>2. upd[u].phase = "locked"
      BY <1>1 DEF Commit
    <2>3. Committed' = Committed \cup {u} /\ u \notin Committed
      BY <2>1, <2>2 DEF Committed
    <2>4. IsFiniteSet(Committed') /\ Cardinality(Committed') = Cardinality(Committed) + 1
      BY <2>3, FS_AddElement DEF KeptInv
    <2>5. Newest' = Newest + 1
      BY <1>1, CommitHistory
    <2>6. Cardinality(Committed) \in Nat /\ Newest = 1 + Cardinality(Committed)
      BY FS_CardinalityType DEF KeptInv, UpdatesKept, Committed, Newest
    <2>7. Newest' = 1 + Cardinality(Committed')
      BY <2>4, <2>5, <2>6
    <2>8. QED
      BY <2>4, <2>7 DEF KeptInv, UpdatesKept, Committed, Newest
  <1>2. ASSUME UNCHANGED versions, \A u \in Updaters : u \in Committed' <=> u \in Committed
        PROVE  KeptInv'
    <2>1. Committed' = Committed
      BY <1>2 DEF Committed
    <2>2. QED
      BY <1>2, <2>1 DEF KeptInv, UpdatesKept, Committed
  <1>3. ASSUME NEW u \in Updaters, Before(u)
        PROVE  KeptInv'
    <2>1. /\ UNCHANGED versions /\ \A w \in Updaters : w # u => upd'[w] = upd[w]
          /\ Open(u) /\ upd'[u].phase \in {"numbered", "superseding", "locked", "failed"}
      BY <1>3, BeforeEffect
    <2>2. QED
      BY <1>2, <2>1 DEF Committed, Open
  <1>4. ASSUME NEW u \in Updaters, NEW p \in Prices, Begin(u, p)
        PROVE  KeptInv'
    <2>1. /\ UNCHANGED versions /\ \A w \in Updaters : w # u => upd'[w] = upd[w]
          /\ upd[u].phase = "idle" /\ upd'[u].phase = "begun"
      BY <1>4 DEF Begin, NewUpdate, HistoryInv, PricingTypeOK
    <2>2. QED
      BY <1>2, <2>1 DEF Committed
  <1>5. CASE UNCHANGED <<versions, upd>>
    BY <1>2, <1>5 DEF Committed
  <1>6. QED
    BY <1>1, <1>3, <1>4, <1>5 DEF PricingNext, Before, Tick, Estimate, Complete, Charge, prvars

\* Every update that committed is one version, and nothing else is: whatever order
\* concurrent updates get the lock in, none of them silently overwrites another.
THEOREM NoUpdateLost == PricingSpec => []UpdatesKept
  <1>1. PricingInit => KeptInv
    <2> SUFFICES ASSUME PricingInit PROVE KeptInv
      OBVIOUS
    <2>1. Committed = {}
      BY DEF PricingInit, NewUpdate, Committed
    <2>2. Cardinality(versions) = 1
      <3>1. \E x : versions = {x}
        BY DEF PricingInit
      <3>2. QED
        BY <3>1, FS_Singleton
    <2>3. IsFiniteSet(Committed) /\ Cardinality(Committed) = 0
      BY <2>1, FS_EmptySet
    <2>4. UpdatesKept <=> Cardinality(versions) = 1 + Cardinality(Committed)
      BY DEF UpdatesKept, Committed
    <2>5. QED
      BY <2>2, <2>3, <2>4 DEF KeptInv
  <1>2. HistoryInv /\ KeptInv /\ [PricingNext]_prvars => KeptInv'
    BY KeptStep
  <1>3. KeptInv => UpdatesKept
    BY DEF KeptInv
  <1>4. QED
    BY <1>1, <1>2, <1>3, HistoryAlways, PTL DEF PricingSpec

-----------------------------------------------------------------------------
(* Pricing: calls and the price in force                                   *)

\* The price of the estimate is still the one in models, or somebody changed it.
EstimateHolds(c) ==
    call[c].phase \in {"provider", "meter"} => call[c].est = modelPrice \/ call[c].changed

\* While a completion waits for its metering no update is open, and the active version
\* began before it completed, unless the two raced.
MeterHolds(c) ==
    call[c].phase = "meter" /\ ~call[c].raced =>
        (\A u \in Updaters : ~Open(u)) /\ (\A v \in Active : v.from =< call[c].at)

\* An update that is open when a completion has been charged began after it completed.
DoneHolds(c) ==
    call[c].phase = "done" /\ ~call[c].raced =>
        \A u \in Updaters : Open(u) => call[c].at =< upd[u].at

\* The version a call was charged by.
ChargedRow(c, v) ==
    /\ v.version = call[c].by
    /\ v.price = call[c].est \/ call[c].changed
    /\ (v.from =< call[c].at /\ (v.active \/ call[c].at =< v.to)) \/ call[c].raced
RowHolds(c) == call[c].phase = "done" => \E v \in versions : ChargedRow(c, v)

CallHolds(c) == EstimateHolds(c) /\ MeterHolds(c) /\ DoneHolds(c) /\ RowHolds(c)
ChargeInv == \A c \in Calls : CallHolds(c)

\* A statement in front of the COMMIT opens no update.
LEMMA BeforeCalls ==
    ASSUME HistoryInv, ChargeInv, NEW u \in Updaters, Before(u), NEW c \in Calls
    PROVE  CallHolds(c)'
  <1>1. /\ UNCHANGED <<versions, modelPrice, call>>
        /\ \A w \in Updaters : w # u => upd'[w] = upd[w]
        /\ upd'[u].at = upd[u].at /\ Open(u)
    BY BeforeEffect
  <1>2. Active' = Active /\ \A w \in Updaters : (Open(w)' => Open(w)) /\ upd'[w].at = upd[w].at
    BY <1>1 DEF Active, Open
  <1>3. QED
    BY <1>1, <1>2 DEF ChargeInv, CallHolds, EstimateHolds, MeterHolds, DoneHolds, RowHolds, ChargedRow

\* A COMMIT changes the price of everybody in flight and ends the version that finished
\* calls were charged by, not before they completed.
LEMMA CommitCalls ==
    ASSUME HistoryInv, ChargeInv, NEW u \in Updaters, NEW result \in {"ok", "lost"},
           Commit(u, result), NEW c \in Calls
    PROVE  CallHolds(c)'
  <1>1. /\ \A w \in Updaters : w # u => upd'[w] = upd[w]
        /\ upd'[u].phase = result
        /\ call'[c].phase = call[c].phase /\ call'[c].at = call[c].at
        /\ call'[c].est = call[c].est /\ call'[c].by = call[c].by
        /\ call'[c].changed = TRUE
        /\ call[c].raced => call'[c].raced
        /\ call[c].phase = "meter" => call'[c].raced
    BY CommitEffect
  <1>2. CallHolds(c)
    BY DEF ChargeInv
  <1>3. Open(u)
    BY DEF Commit, Open
  <1>4. EstimateHolds(c)' /\ MeterHolds(c)'
    BY <1>1 DEF EstimateHolds, MeterHolds
  <1>5. DoneHolds(c)'
    BY <1>1, <1>2 DEF CallHolds, DoneHolds, Open
  <1>6. RowHolds(c)'
    <2> SUFFICES ASSUME call'[c].phase = "done" PROVE \E w \in versions' : ChargedRow(c, w)'
      BY DEF RowHolds
    <2> DEFINE at == upd[u].at
    <2>1. PICK v \in versions : ChargedRow(c, v)
      BY <1>1, <1>2 DEF CallHolds, RowHolds
    <2>2. call[c].raced \/ call[c].at =< at
      BY <1>1, <1>2, <1>3 DEF CallHolds, DoneHolds
    <2>3. Superseded(v, at) \in versions' /\ v \in Version /\ at \in Nat
      BY CommitRows
    <2> HIDE DEF at
    <2>4. /\ Superseded(v, at).version = v.version
          /\ Superseded(v, at).price = v.price
          /\ Superseded(v, at).from = v.from
          /\ v.active => Superseded(v, at).to = at
          /\ ~v.active => Superseded(v, at) = v
      BY <2>3, SupersededRow
    <2> DEFINE w == Superseded(v, at)
    <2>5. w.version = call'[c].by /\ call'[c].changed
      BY <1>1, <2>1, <2>4 DEF ChargedRow
    <2>6. (w.from =< call'[c].at /\ (w.active \/ call'[c].at =< w.to)) \/ call'[c].raced
      <3>1. CASE call[c].raced
        BY <1>1, <3>1
      <3>2. CASE ~call[c].raced
        <4>1. v.from =< call[c].at /\ (v.active \/ call[c].at =< v.to) /\ call[c].at =< at
          BY <2>1, <2>2, <3>2 DEF ChargedRow
        <4>2. CASE v.active
          BY <1>1, <2>4, <4>1, <4>2
        <4>3. CASE ~v.active
          BY <1>1, <2>4, <4>1, <4>3
        <4>4. QED
          BY <4>2, <4>3
      <3>3. QED
        BY <3>1, <3>2
    <2>7. QED
      BY <2>3, <2>5, <2>6 DEF ChargedRow
  <1>7. QED
    BY <1>4, <1>5, <1>6 DEF CallHolds

\* An update that begins races with every completion that waits, and is later than every
\* completion that has been charged.
LEMMA BeginCalls ==
    ASSUME HistoryInv, ChargeInv, NEW u \in Updaters, NEW p \in Prices, Begin(u, p), NEW c \in Calls
    PROVE  CallHolds(c)'
  <1>1. call[c] \in Call /\ CallHolds(c) /\ call[c].at =< now
    BY DEF HistoryInv, PricingTypeOK, ChargeInv
  <1>2. call'[c] = IF call[c].phase = "meter" THEN [call[c] EXCEPT !.raced = TRUE] ELSE call[c]
    BY DEF Begin, Racing
  <1>3. /\ UNCHANGED <<versions, modelPrice>>
        /\ \A w \in Updaters : w # u => upd'[w] = upd[w]
        /\ upd'[u].at = now
    BY DEF Begin, NewUpdate, HistoryInv, PricingTypeOK
  <1>4. CASE call[c].phase = "meter"
    <2>1. /\ call'[c].phase = "meter" /\ call'[c].raced /\ call'[c].est = call[c].est
          /\ call'[c].changed = call[c].changed
      BY <1>1, <1>2, <1>4 DEF Call
    <2>2. QED
      BY <1>1, <1>3, <1>4, <2>1 DEF CallHolds, EstimateHolds, MeterHolds, DoneHolds, RowHolds
  <1>5. CASE call[c].phase # "meter"
    <2>1. call'[c] = call[c]
      BY <1>2, <1>5
    <2>2. DoneHolds(c)'
      BY <1>1, <1>3, <2>1 DEF CallHolds, DoneHolds, Open
    <2>3. QED
      BY <1>1, <1>3, <1>5, <2>1, <2>2
         DEF CallHolds, EstimateHolds, MeterHolds, RowHolds, ChargedRow
  <1>6. QED
    BY <1>4, <1>5

\* A call's own steps: it takes its price from models, its time from the clock, and its
\* charge from the active version, of which there is exactly one.
LEMMA OwnCalls ==
    ASSUME HistoryInv, ChargeInv, NEW c \in Calls, Estimate(c) \/ Complete(c) \/ Charge(c)
    PROVE  CallHolds(c)'
  <1>1. call \in [Calls -> Call] /\ call[c] \in Call /\ CallHolds(c)
    BY DEF HistoryInv, PricingTypeOK, ChargeInv
  <1>2. UNCHANGED <<versions, modelPrice, upd>>
    BY DEF Estimate, Complete, Charge
  <1>3. CASE Estimate(c)
    <2> DEFINE r == [NewCall EXCEPT !.phase = "provider", !.est = modelPrice]
    <2>1. call'[c] = r
      BY <1>1, <1>3 DEF Estimate
    <2>2. r.phase = "provider" /\ r.est = modelPrice
      BY DEF NewCall
    <2> HIDE DEF r
    <2>3. QED
      BY <1>2, <2>1, <2>2 DEF CallHolds, EstimateHolds, MeterHolds, DoneHolds, RowHolds
  <1>4. CASE Complete(c)
    <2> DEFINE r == [call[c] EXCEPT !.phase = "meter", !.at = now, !.raced = \E u \in Updaters : Open(u)]
    <2>1. call'[c] = r /\ call[c].phase = "provider"
      BY <1>1, <1>4 DEF Complete
    <2>2. /\ r.phase = "meter" /\ r.est = call[c].est /\ r.changed = call[c].changed /\ r.at = now
          /\ r.raced = \E u \in Updaters : Open(u)
      BY <1>1 DEF Call
    <2> HIDE DEF r
    <2>3. \A v \in Active : v.from =< now
      BY DEF Active, HistoryInv, PricingTypeOK
    <2>4. EstimateHolds(c)'
      BY <1>1, <1>2, <2>1, <2>2 DEF CallHolds, EstimateHolds
    <2>5. MeterHolds(c)'
      BY <1>2, <2>1, <2>2, <2>3 DEF MeterHolds, Open, Active
    <2>6. QED
      BY <2>1, <2>2, <2>4, <2>5 DEF CallHolds, DoneHolds, RowHolds
  <1>5. CASE Charge(c)
    <2> DEFINE r == [call[c] EXCEPT !.phase = "done", !.by = ChargedBy.version]
    <2>1. call'[c] = r /\ call[c].phase = "meter"
      BY <1>1, <1>5 DEF Charge
    <2>2. /\ r.phase = "done" /\ r.est = call[c].est /\ r.changed = call[c].changed /\ r.at = call[c].at
          /\ r.raced = call[c].raced /\ r.by = ChargedBy.version
      BY <1>1 DEF Call
    <2> HIDE DEF r
    <2>3. ChargedBy \in Active
      <3>1. PICK v \in versions : v.version = Newest
        BY DEF HistoryInv, HistoryGapless, Numbers, Newest
      <3>2. v \in Active
        BY <3>1 DEF HistoryInv, HistoryGapless, Active, Newest
      <3>3. QED
        BY <3>2 DEF ChargedBy
    <2>4. PICK v \in versions : v = ChargedBy /\ v.active /\ v.price = modelPrice
      BY <2>3 DEF Active, HistoryInv, HistoryGapless
    <2>5. ChargedRow(c, v)'
      BY <1>1, <2>1, <2>2, <2>3, <2>4 DEF CallHolds, EstimateHolds, MeterHolds, ChargedRow
    <2>6. RowHolds(c)'
      BY <1>2, <2>4, <2>5 DEF RowHolds
    <2>7. DoneHolds(c)'
      BY <1>1, <1>2, <2>1, <2>2 DEF CallHolds, MeterHolds, DoneHolds, Open
    <2>8. QED
      BY <2>1, <2>2, <2>6, <2>7 DEF CallHolds, EstimateHolds, MeterHolds
  <1>6. QED
    BY <1>3, <1>4, <1>5

\* Every step keeps what is known of every call.
LEMMA ChargeStep ==
    ASSUME HistoryInv, ChargeInv, [PricingNext]_prvars
    PROVE  ChargeInv'
  <1> SUFFICES ASSUME NEW c \in Calls PROVE CallHolds(c)'
    BY DEF ChargeInv
  <1>1. ASSUME NEW d \in Calls, Estimate(d) \/ Complete(d) \/ Charge(d)
        PROVE  CallHolds(c)'
    <2>1. CASE d = c
      BY <1>1, <2>1, OwnCalls
    <2>2. CASE d # c
      <3>1. call'[c] = call[c] /\ UNCHANGED <<versions, modelPrice, upd>>
        BY <1>1, <2>2 DEF Estimate, Complete, Charge, HistoryInv, PricingTypeOK
      <3>2. QED
        BY <3>1 DEF ChargeInv, CallHolds, EstimateHolds, MeterHolds, DoneHolds, RowHolds, ChargedRow, Open,
                    Active
    <2>3. QED
      BY <2>1, <2>2
  <1>2. CASE UNCHANGED <<versions, modelPrice, upd, call>>
    BY <1>2 DEF ChargeInv, CallHolds, EstimateHolds, MeterHolds, DoneHolds, RowHolds, ChargedRow, Open,
                Active
  <1>3. QED
    BY <1>1, <1>2, BeforeCalls, CommitCalls, BeginCalls DEF PricingNext, Before, Tick, prvars

\* A completion is charged the price in force when it completed, and the one it was
\* estimated with, unless an update came in between, for any number of calls and updates.
THEOREM ChargesAreInForce == PricingSpec => []ChargedInForce
  <1>1. PricingInit => ChargeInv
    BY DEF PricingInit, NewCall, ChargeInv, CallHolds, EstimateHolds, MeterHolds, DoneHolds, RowHolds
  <1>2. HistoryInv /\ ChargeInv /\ [PricingNext]_prvars => ChargeInv'
    BY ChargeStep
  <1>3. ChargeInv => ChargedInForce
    BY DEF ChargeInv, CallHolds, RowHolds, ChargedRow, ChargedInForce
  <1>4. QED
    BY <1>1, <1>2, <1>3, HistoryAlways, PTL DEF PricingSpec

-----------------------------------------------------------------------------
(* Alerts: the lists a check works through                                 *)

\* The head of a list of budgets and what its tail leaves.
LEMMA NextBudget ==
    ASSUME NEW q \in Seq(Budgets), q # <<>>
    PROVE  /\ Head(q) \in Budgets /\ Tail(q) \in Seq(Budgets)
           /\ Range(q) = {Head(q)} \cup Range(Tail(q))
           /\ IsInjective(q) => IsInjective(Tail(q)) /\ Head(q) \notin Range(Tail(q))
  <1>1. /\ Len(q) \in Nat /\ Len(q) > 0 /\ DOMAIN q = 1 .. Len(q)
        /\ q \in [1 .. Len(q) -> Budgets]
    BY EmptySeq, LenProperties
  <1>2. /\ Head(q) \in Budgets /\ Tail(q) \in Seq(Budgets) /\ Len(Tail(q)) = Len(q) - 1
        /\ \A a \in 1 .. Len(Tail(q)) : Tail(q)[a] = q[a + 1]
    BY HeadTailProperties
  <1>3. DOMAIN Tail(q) = 1 .. Len(q) - 1
    BY <1>2, LenProperties
  <1>4. Head(q) = q[1]
    OBVIOUS
  <1>5. \A a \in DOMAIN Tail(q) : a + 1 \in DOMAIN q /\ Tail(q)[a] = q[a + 1] /\ a + 1 # 1
    BY <1>1, <1>2, <1>3
  <1>6. \A b \in DOMAIN q : b = 1 \/ (b - 1 \in DOMAIN Tail(q) /\ Tail(q)[b - 1] = q[b])
    BY <1>1, <1>2, <1>3
  <1>7. Range(q) = {Head(q)} \cup Range(Tail(q))
    <2>1. ASSUME NEW c \in Range(q) PROVE c = Head(q) \/ c \in Range(Tail(q))
      <3>1. PICK b \in DOMAIN q : c = q[b]
        BY <2>1 DEF Range
      <3>2. QED
        BY <3>1, <1>4, <1>6 DEF Range
    <2>2. ASSUME NEW c \in Range(Tail(q)) PROVE c \in Range(q)
      <3>1. PICK a \in DOMAIN Tail(q) : c = Tail(q)[a]
        BY <2>2 DEF Range
      <3>2. QED
        BY <3>1, <1>5 DEF Range
    <2>3. Head(q) \in Range(q)
      BY <1>1, <1>4 DEF Range
    <2>4. QED
      BY <2>1, <2>2, <2>3
  <1>8. ASSUME IsInjective(q) PROVE IsInjective(Tail(q)) /\ Head(q) \notin Range(Tail(q))
    <2>1. \A a, b \in DOMAIN q : q[a] = q[b] => a = b
      BY <1>8 DEF IsInjective
    <2>2. ASSUME NEW a \in DOMAIN Tail(q), NEW b \in DOMAIN Tail(q), Tail(q)[a] = Tail(q)[b]
          PROVE  a = b
      <3>1. a + 1 = b + 1
        BY <1>5, <2>1, <2>2
      <3>2. QED
        BY <1>3, <3>1
    <2>3. ASSUME NEW a \in DOMAIN Tail(q), Tail(q)[a] = Head(q) PROVE FALSE
      BY <1>1, <1>4, <1>5, <2>1, <2>3
    <2>4. QED
      BY <2>2, <2>3 DEF IsInjective, Range
  <1>9. QED
    BY <1>2, <1>7, <1>8

\* A new alert is added at the end of the list.
LEMMA AlertAdded ==
    ASSUME NEW q \in Seq(Budgets), IsInjective(q), NEW b \in Budgets, b \notin Range(q)
    PROVE  /\ Append(q, b) \in Seq(Budgets) /\ IsInjective(Append(q, b))
           /\ Range(q) \subseteq Range(Append(q, b))
  <1>1. Len(q) \in Nat /\ DOMAIN q = 1 .. Len(q)
    BY LenProperties
  <1>2. /\ Append(q, b) \in Seq(Budgets) /\ Len(Append(q, b)) = Len(q) + 1
        /\ \A a \in 1 .. Len(q) : Append(q, b)[a] = q[a]
        /\ Append(q, b)[Len(q) + 1] = b
    BY AppendProperties
  <1>3. DOMAIN Append(q, b) = 1 .. Len(q) + 1
    BY <1>2, LenProperties
  <1>4. \A a \in DOMAIN Append(q, b) : a \in DOMAIN q \/ a = Len(q) + 1
    BY <1>1, <1>3
  <1>5. \A a \in DOMAIN q : a \in DOMAIN Append(q, b) /\ Append(q, b)[a] = q[a] /\ q[a] # b
    BY <1>1, <1>2, <1>3 DEF Range
  <1>6. IsInjective(Append(q, b))
    BY <1>2, <1>4, <1>5 DEF IsInjective
  <1>7. Range(q) \subseteq Range(Append(q, b))
    BY <1>5 DEF Range
  <1>8. QED
    BY <1>2, <1>6, <1>7

\* The next threshold to deliver is one of those that are due.
LEMMA NextThreshold ==
    ASSUME NEW S \in SUBSET alertThresholds, S # {}
    PROVE  Min(S) \in S
  <1>1. \A y \in S : y = 80 \/ y = 90 \/ y = 100
    BY DEF alertThresholds
  <1>2. \E x \in S : \A y \in S : x =< y
    <2>1. CASE 80 \in S
      BY <1>1, <2>1
    <2>2. CASE 80 \notin S /\ 90 \in S
      BY <1>1, <2>2
    <2>3. CASE 80 \notin S /\ 90 \notin S
      <3>1. 100 \in S /\ \A y \in S : y = 100
        BY <1>1, <2>3
      <3>2. QED
        BY <3>1
    <2>4. QED
      BY <2>1, <2>2, <2>3
  <1>3. QED
    BY <1>2 DEF Min

\* Windows are named by days.
LEMMA WindowTyped ==
    ASSUME NEW d \in Days, NEW b \in Budgets
    PROVE  periodWindow(d, Period[b]) \in Days
  BY AlertAssumption DEF periodWindow

\* Charging a call makes no window's usage smaller.
LEMMA ChargedGrows ==
    ASSUME AlertTypeOK, NEW x \in Costs
    PROVE  /\ Charged(x) \in [Budgets -> [Days -> Nat]]
           /\ \A b \in Budgets, d \in Days : used[b][d] =< Charged(x)[b][d]
  <1>1. x \in Nat
    BY AlertAssumption
  <1>2. ASSUME NEW b \in Budgets
        PROVE  /\ Charged(x)[b] \in [Days -> Nat]
               /\ \A d \in Days : used[b][d] =< Charged(x)[b][d]
    <2>1. periodWindow(day, Period[b]) \in Days /\ used[b] \in [Days -> Nat]
      BY WindowTyped DEF AlertTypeOK
    <2>2. Charged(x)[b] = [used[b] EXCEPT ![periodWindow(day, Period[b])] = @ + x]
      BY DEF Charged
    <2> HIDE DEF Charged
    <2>3. QED
      BY <1>1, <2>1, <2>2
  <1>3. Charged(x) = [b \in Budgets |-> Charged(x)[b]]
    BY DEF Charged
  <1>4. QED
    BY <1>2, <1>3

\* What has been reached stays reached.
LEMMA ReachedGrows ==
    ASSUME NEW u \in [Budgets -> [Days -> Nat]], NEW v \in [Budgets -> [Days -> Nat]],
           \A b \in Budgets, d \in Days : u[b][d] =< v[b][d]
    PROVE  Reached(u) \subseteq Reached(v)
  <1>1. ASSUME NEW k \in Reached(u) PROVE k \in Reached(v)
    <2>1. k \in Deliveries /\ k[1] \in Budgets /\ k[2] \in Days
      BY DEF Reached, Deliveries
    <2>2. u[k[1]][k[2]] * 100 >= Limit[k[1]] * k[3]
      BY DEF Reached, thresholdReached
    <2>3. u[k[1]][k[2]] \in Nat /\ v[k[1]][k[2]] \in Nat /\ u[k[1]][k[2]] =< v[k[1]][k[2]]
      BY <2>1
    <2>4. Limit[k[1]] * k[3] \in Nat
      <3>1. Limit[k[1]] \in Nat /\ k[3] \in Nat
        BY <2>1, AlertAssumption DEF Deliveries, alertThresholds
      <3>2. QED
        BY <3>1
    <2>5. v[k[1]][k[2]] * 100 >= Limit[k[1]] * k[3]
      BY <2>2, <2>3, <2>4
    <2>6. QED
      BY <2>1, <2>5 DEF Reached, thresholdReached
  <1>2. QED
    BY <1>1

-----------------------------------------------------------------------------
(* Alerts: what a step does to the check that takes it                     *)

InLoop == Running \ {"list"}
Looking == {"rows", "send", "insert"}

\* What a step of c leaves alone when it only works on the check of c.
Others(c) == \A d \in Checkers \ {c} : check'[d] = check[d]

\* Every check is well-formed.
LEMMA CheckTyped ==
    ASSUME AlertTypeOK, NEW c \in Checkers
    PROVE  /\ check[c] \in Check
           /\ check[c].phase \in InLoop => /\ check[c].todo \in Seq(Budgets) /\ check[c].todo # <<>>
                                           /\ Head(check[c].todo) \in Budgets
           /\ check[c].phase \in {"send", "insert"} => Min(check[c].due) \in check[c].due /\ Delivery(c) \in Deliveries
  <1>1. /\ check[c] \in Check
        /\ check[c].phase \in InLoop => check[c].todo # <<>>
        /\ check[c].phase \in {"send", "insert"} => check[c].due # {}
    BY DEF AlertTypeOK, InLoop
  <1>2. check[c].todo \in Seq(Budgets) /\ check[c].due \in SUBSET alertThresholds /\ check[c].window \in Days
    BY <1>1 DEF Check
  <1>3. check[c].phase \in InLoop => Head(check[c].todo) \in Budgets
    BY <1>1, <1>2, NextBudget
  <1>4. check[c].phase \in {"send", "insert"} => Min(check[c].due) \in check[c].due
    BY <1>1, <1>2, NextThreshold
  <1>5. check[c].phase \in {"send", "insert"} => Delivery(c) \in Deliveries
    BY <1>2, <1>3, <1>4 DEF Delivery, Deliveries, InLoop, Running
  <1>6. QED
    BY <1>1, <1>2, <1>3, <1>4, <1>5

\* NextAlert forgets what was read of the alert at hand.
LEMMA NextAlertEffect ==
    ASSUME NEW r \in Check, r.todo # <<>>
    PROVE  /\ NextAlert(r) \in Check
           /\ NextAlert(r).phase \in {"done", "status"} /\ NextAlert(r).todo = Tail(r.todo)
           /\ NextAlert(r).phase = "status" => NextAlert(r).todo # <<>>
           /\ NextAlert(r).phase = "done" => NextAlert(r).todo = <<>>
           /\ NextAlert(r).sent = "none" /\ NextAlert(r).owed = r.owed
           /\ NextAlert(r).windows = r.windows /\ NextAlert(r).overlapped = r.overlapped
  <1>1. Tail(r.todo) \in Seq(Budgets) /\ 0 \in Days
    BY NextBudget, AlertAssumption DEF Check, Days
  <1> DEFINE ph == IF Tail(r.todo) = <<>> THEN "done" ELSE "status"
  <1>p. ph \in Running \cup {"chat", "done", "aborted"}
    BY DEF Running
  <1>2. ph \in {"done", "status"} /\ (ph = "status" => Tail(r.todo) # <<>>) /\ (ph = "done" => Tail(r.todo) = <<>>)
    OBVIOUS
  <1>3. NextAlert(r) = [r EXCEPT !.phase = ph, !.todo = Tail(r.todo), !.window = 0, !.used = 0, !.due = {},
                                 !.sent = "none"]
    BY DEF NextAlert
  <1> HIDE DEF ph
  <1>n. {} \in SUBSET alertThresholds /\ 0 \in Nat
    OBVIOUS
  <1>c. NextAlert(r) \in Check
    BY <1>1, <1>p, <1>n, <1>3 DEF Check
  <1>4. NextAlert(r).phase = ph /\ NextAlert(r).todo = Tail(r.todo) /\ NextAlert(r).sent = "none"
    BY <1>3 DEF Check
  <1>5. /\ NextAlert(r).owed = r.owed /\ NextAlert(r).windows = r.windows
        /\ NextAlert(r).overlapped = r.overlapped
    BY <1>3 DEF Check
  <1>6. QED
    BY <1>2, <1>c, <1>4, <1>5

\* A check that gives up forgets everything.
LEMMA GaveUpEffect ==
    /\ NewCheck \in Check /\ NewCheck.phase = "chat" /\ NewCheck.owed = {} /\ NewCheck.windows = {}
    /\ NewCheck.sent = "none" /\ NewCheck.overlapped = FALSE
    /\ GaveUp \in Check /\ GaveUp.phase = "aborted" /\ GaveUp.owed = {} /\ GaveUp.windows = {}
    /\ GaveUp.sent = "none"
  <1>1. <<>> \in Seq(Budgets) /\ 0 \in Days
    BY AlertAssumption DEF Days
  <1>2. QED
    BY <1>1 DEF NewCheck, GaveUp, Check, Running

\* RecordSuccess: the check is about to begin, and what is owed is what is due now.
LEMMA MeterEffect ==
    ASSUME AlertTypeOK, NEW c \in Checkers, NEW x \in Costs, Meter(c, x)
    PROVE  /\ check[c].phase = "chat" /\ Others(c) /\ check'[c] \in Check /\ check' = [check EXCEPT ![c] = check'[c]]
           /\ check'[c].phase = "list" /\ check'[c].windows = check[c].windows
           /\ check'[c].sent = check[c].sent /\ check'[c].overlapped = check[c].overlapped
           /\ \A k \in check'[c].owed : k \in Reached(used') /\ k[1] \in Range(alerts)
           /\ used' = Charged(x) /\ UNCHANGED <<day, streams, alerts, rows, posts>>
  <1> DEFINE O == {k \in Reached(Charged(x)) : /\ k[1] \in Range(alerts)
                                               /\ k[2] = periodWindow(day, Period[k[1]])}
             r == [check[c] EXCEPT !.phase = "list", !.owed = O]
  <1>1. /\ check[c].phase = "chat" /\ used' = Charged(x) /\ UNCHANGED <<day, streams, alerts, rows, posts>>
        /\ check' = [check EXCEPT ![c] = r]
    BY Zenon DEF Meter
  <1>2. O \in SUBSET Deliveries /\ \A k \in O : k \in Reached(Charged(x)) /\ k[1] \in Range(alerts)
    BY DEF Reached
  <1>3. check[c] \in Check /\ check \in [Checkers -> Check]
    BY DEF AlertTypeOK
  <1> HIDE DEF O
  <1>4. /\ r \in Check /\ r.phase = "list" /\ r.owed = O /\ r.windows = check[c].windows /\ r.sent = check[c].sent
        /\ r.overlapped = check[c].overlapped
    BY <1>2, <1>3 DEF Check, Running
  <1> HIDE DEF r
  <1>5. QED
    BY <1>1, <1>2, <1>3, <1>4 DEF Others

\* ListActiveBudgetAlerts
LEMMA ListEffect ==
    ASSUME AlertTypeOK, NEW c \in Checkers, ListAlerts(c)
    PROVE  /\ check[c].phase = "list" /\ check' \in [Checkers -> Check]
           /\ check'[c].phase \in {"done", "status"} /\ check'[c].todo = alerts
           /\ check'[c].phase = "status" <=> alerts # <<>>
           /\ check'[c].sent = check[c].sent /\ check'[c].owed = check[c].owed
           /\ check'[c].windows = check[c].windows
           /\ check'[c].overlapped = (\E d \in Checkers \ {c} : check[d].phase \in InLoop)
           /\ \A d \in Checkers \ {c} :
                 /\ check'[d].phase = check[d].phase /\ check'[d].todo = check[d].todo
                 /\ check'[d].window = check[d].window /\ check'[d].used = check[d].used
                 /\ check'[d].due = check[d].due /\ check'[d].sent = check[d].sent
                 /\ check'[d].owed = check[d].owed /\ check'[d].windows = check[d].windows
                 /\ check'[d].overlapped = (check[d].overlapped \/ check[d].phase \in InLoop)
           /\ UNCHANGED <<day, used, streams, alerts, rows, posts>>
  <1> DEFINE O == {d \in Checkers \ {c} : check[d].phase \in Running \ {"list"}}
             ph == IF alerts = <<>> THEN "done" ELSE "status"
             me == O # {}
             you(d) == check[d].overlapped \/ d \in O
             r == [check[c] EXCEPT !.phase = ph, !.todo = alerts, !.overlapped = me]
             s(d) == [check[d] EXCEPT !.overlapped = you(d)]
  <1>1. /\ check[c].phase = "list" /\ UNCHANGED <<day, used, streams, alerts, rows, posts>>
        /\ check' = [d \in Checkers |-> IF d = c THEN r ELSE s(d)]
    BY Zenon DEF ListAlerts
  <1>2. me = (\E d \in Checkers \ {c} : check[d].phase \in InLoop) /\ me \in BOOLEAN
    BY Zenon DEF InLoop
  <1>3. \A d \in Checkers \ {c} : you(d) \in BOOLEAN /\ you(d) = (check[d].overlapped \/ check[d].phase \in InLoop)
    BY Zenon DEF InLoop
  <1>4. ph \in {"done", "status"} /\ (ph = "status" <=> alerts # <<>>)
    OBVIOUS
  <1>5. alerts \in Seq(Budgets) /\ \A d \in Checkers : check[d] \in Check
    BY DEF AlertTypeOK
  <1> HIDE DEF O, ph, me, you
  <1>6. /\ r \in Check /\ r.phase = ph /\ r.todo = alerts /\ r.sent = check[c].sent /\ r.owed = check[c].owed
        /\ r.windows = check[c].windows /\ r.overlapped = me
    BY ZenonT(30), <1>2, <1>4, <1>5 DEF Check, Running
  <1>7. ASSUME NEW d \in Checkers \ {c}
        PROVE  /\ s(d) \in Check
               /\ s(d).phase = check[d].phase /\ s(d).todo = check[d].todo
               /\ s(d).window = check[d].window /\ s(d).used = check[d].used
               /\ s(d).due = check[d].due /\ s(d).sent = check[d].sent
               /\ s(d).owed = check[d].owed /\ s(d).windows = check[d].windows
               /\ s(d).overlapped = you(d)
    BY <1>3, <1>5, <1>7 DEF Check
  <1> HIDE DEF r, s
  <1>8. check' \in [Checkers -> Check] /\ check'[c] = r /\ \A d \in Checkers \ {c} : check'[d] = s(d)
    BY <1>1, <1>6, <1>7
  <1>9. QED
    BY <1>1, <1>2, <1>3, <1>4, <1>6, <1>7, <1>8

\* statusForBudget: the window and its usage are read, once.
LEMMA StatusEffect ==
    ASSUME AlertTypeOK, NEW c \in Checkers, ReadStatus(c)
    PROVE  LET b == Head(check[c].todo)
               v == periodWindow(day, Period[b])
           IN  /\ check[c].phase = "status" /\ Others(c) /\ check' = [check EXCEPT ![c] = check'[c]]
               /\ check'[c] \in Check /\ check'[c].phase = "rows" /\ check'[c].todo = check[c].todo
               /\ v \in Days /\ check'[c].window = v /\ check'[c].used = used[b][v]
               /\ check'[c].windows = check[c].windows \cup {<<b, v>>}
               /\ check'[c].sent = check[c].sent /\ check'[c].owed = check[c].owed
               /\ check'[c].overlapped = check[c].overlapped
               /\ UNCHANGED <<day, used, streams, alerts, rows, posts>>
  <1> DEFINE b == Head(check[c].todo)
             v == periodWindow(day, Period[b])
             r == [check[c] EXCEPT !.phase = "rows", !.window = v, !.used = used[b][v],
                                   !.windows = @ \cup {<<b, v>>}]
  <1>1. /\ check[c].phase = "status" /\ UNCHANGED <<day, used, streams, alerts, rows, posts>>
        /\ check' = [check EXCEPT ![c] = r]
    BY Zenon DEF ReadStatus
  <1>2. b \in Budgets
    BY <1>1, CheckTyped DEF InLoop, Running
  <1>3. v \in Days /\ used[b][v] \in Nat
    BY <1>2, WindowTyped DEF AlertTypeOK
  <1>4. check[c] \in Check /\ check \in [Checkers -> Check]
    BY DEF AlertTypeOK
  <1> HIDE DEF b, v
  <1>5. check[c].windows \cup {<<b, v>>} \in SUBSET (Budgets \X Days)
    BY <1>2, <1>3, <1>4 DEF Check
  <1>6. r \in Check
    BY <1>3, <1>4, <1>5 DEF Check, Running
  <1>7. /\ r.phase = "rows" /\ r.todo = check[c].todo /\ r.window = v /\ r.used = used[b][v]
        /\ r.windows = check[c].windows \cup {<<b, v>>} /\ r.sent = check[c].sent /\ r.owed = check[c].owed
        /\ r.overlapped = check[c].overlapped
    BY <1>4 DEF Check
  <1> HIDE DEF r
  <1>8. QED
    BY <1>1, <1>3, <1>4, <1>6, <1>7 DEF Others, b, v

\* The thresholds ReadRows finds due.
DueNow(c) ==
    LET b == Head(check[c].todo)
    IN  {t \in Undelivered(b, check[c].window) : thresholdReached(check[c].used, Limit[b], t)}

\* ListBudgetAlertDeliveriesByBudgetWindow: the thresholds that are due and have no row.
LEMMA RowsEffect ==
    ASSUME AlertTypeOK, NEW c \in Checkers, ReadRows(c)
    PROVE  /\ check[c].phase = "rows" /\ Others(c) /\ check' = [check EXCEPT ![c] = check'[c]]
           /\ check'[c] \in Check
           /\ \/ DueNow(c) = {} /\ check'[c] = NextAlert(check[c])
              \/ /\ DueNow(c) # {} /\ check'[c].phase = "send" /\ check'[c].due = DueNow(c)
                 /\ check'[c].todo = check[c].todo /\ check'[c].window = check[c].window
                 /\ check'[c].used = check[c].used /\ check'[c].windows = check[c].windows
                 /\ check'[c].sent = check[c].sent /\ check'[c].owed = check[c].owed
                 /\ check'[c].overlapped = check[c].overlapped
           /\ UNCHANGED <<day, used, streams, alerts, rows, posts>>
  <1> DEFINE D == DueNow(c)
             r == [check[c] EXCEPT !.phase = "send", !.due = D]
             n == NextAlert(check[c])
  <1>1. /\ check[c].phase = "rows" /\ UNCHANGED <<day, used, streams, alerts, rows, posts>>
        /\ check' = [check EXCEPT ![c] = IF D = {} THEN n ELSE r]
    BY Zenon DEF ReadRows, DueNow
  <1>2. D \in SUBSET alertThresholds
    BY DEF DueNow, Undelivered
  <1>3. check[c] \in Check /\ check \in [Checkers -> Check] /\ check[c].todo # <<>>
    BY <1>1, CheckTyped DEF AlertTypeOK, InLoop, Running
  <1>4. n \in Check
    BY <1>3, NextAlertEffect
  <1> HIDE DEF D, n
  <1>5. r \in Check
    BY <1>2, <1>3 DEF Check, Running
  <1>6. /\ r.phase = "send" /\ r.todo = check[c].todo /\ r.window = check[c].window /\ r.used = check[c].used
        /\ r.due = D /\ r.windows = check[c].windows /\ r.sent = check[c].sent /\ r.owed = check[c].owed
        /\ r.overlapped = check[c].overlapped
    BY <1>3 DEF Check
  <1> HIDE DEF r
  <1>7. /\ check'[c] = IF D = {} THEN n ELSE r
        /\ Others(c) /\ check' = [check EXCEPT ![c] = check'[c]]
    BY <1>1, <1>3 DEF Others
  <1>8. QED
    BY <1>1, <1>4, <1>5, <1>6, <1>7 DEF D, n

\* deliver: the webhook has answered, or there was nothing to ask.
LEMMA PostEffect ==
    ASSUME AlertTypeOK, NEW c \in Checkers, NEW status \in {"success", "failed"},
           Post(c, status) \/ (PostSkipped(c) /\ status = "failed")
    PROVE  /\ check[c].phase = "send" /\ Others(c) /\ check' = [check EXCEPT ![c] = check'[c]]
           /\ check'[c] \in Check /\ check'[c].phase = "insert" /\ check'[c].sent = status
           /\ check'[c].todo = check[c].todo /\ check'[c].window = check[c].window
           /\ check'[c].used = check[c].used /\ check'[c].due = check[c].due
           /\ check'[c].windows = check[c].windows /\ check'[c].owed = check[c].owed
           /\ check'[c].overlapped = check[c].overlapped
           /\ UNCHANGED <<day, used, streams, alerts, rows>>
           /\ posts' = posts \/ posts' = [posts EXCEPT ![Delivery(c)] = @ + 1]
  <1> DEFINE r == [check[c] EXCEPT !.phase = "insert", !.sent = status]
  <1>1. /\ check[c].phase = "send" /\ UNCHANGED <<day, used, streams, alerts, rows>>
        /\ check' = [check EXCEPT ![c] = r]
        /\ posts' = posts \/ posts' = [posts EXCEPT ![Delivery(c)] = @ + 1]
    BY Zenon DEF Post, PostSkipped
  <1>2. check[c] \in Check /\ check \in [Checkers -> Check]
    BY DEF AlertTypeOK
  <1>3. r \in Check
    BY <1>2 DEF Check, Running
  <1>4. /\ r.phase = "insert" /\ r.todo = check[c].todo /\ r.window = check[c].window /\ r.used = check[c].used
        /\ r.due = check[c].due /\ r.windows = check[c].windows /\ r.sent = status /\ r.owed = check[c].owed
        /\ r.overlapped = check[c].overlapped
    BY <1>2 DEF Check
  <1> HIDE DEF r
  <1>5. QED
    BY <1>1, <1>2, <1>3, <1>4 DEF Others

\* InsertBudgetAlertDelivery: the row, then the next threshold or the next alert.
LEMMA InsertEffect ==
    ASSUME AlertTypeOK, NEW c \in Checkers, InsertRow(c)
    PROVE  LET rest == check[c].due \ {Min(check[c].due)}
           IN  /\ check[c].phase = "insert" /\ Others(c) /\ check' = [check EXCEPT ![c] = check'[c]]
               /\ check'[c] \in Check
               /\ \/ rest = {} /\ check'[c] = NextAlert(check[c])
                  \/ /\ rest # {} /\ check'[c].phase = "send" /\ check'[c].due = rest
                     /\ check'[c].todo = check[c].todo /\ check'[c].window = check[c].window
                     /\ check'[c].used = check[c].used /\ check'[c].windows = check[c].windows
                     /\ check'[c].sent = "none" /\ check'[c].owed = check[c].owed
                     /\ check'[c].overlapped = check[c].overlapped
               /\ UNCHANGED <<day, used, streams, alerts, posts>>
               /\ Delivery(c) \in Deliveries /\ rows[Delivery(c)] = "none" /\ check[c].sent \in {"success", "failed"}
               /\ rows' = [rows EXCEPT ![Delivery(c)] = check[c].sent]
  <1> DEFINE rest == check[c].due \ {Min(check[c].due)}
             r == [check[c] EXCEPT !.phase = "send", !.due = rest, !.sent = "none"]
             n == NextAlert(check[c])
  <1>1. /\ check[c].phase = "insert" /\ UNCHANGED <<day, used, streams, alerts, posts>>
        /\ rows[Delivery(c)] = "none" /\ rows' = [rows EXCEPT ![Delivery(c)] = check[c].sent]
        /\ check' = [check EXCEPT ![c] = IF rest # {} THEN r ELSE n]
    BY Zenon DEF InsertRow, AfterDelivery
  <1>2. /\ check[c] \in Check /\ check \in [Checkers -> Check] /\ check[c].todo # <<>>
        /\ Delivery(c) \in Deliveries /\ check[c].sent # "none"
    BY <1>1, CheckTyped DEF AlertTypeOK, InLoop, Running
  <1>3. rest \in SUBSET alertThresholds /\ check[c].sent \in {"success", "failed"}
    BY <1>2 DEF Check
  <1>4. n \in Check
    BY <1>2, NextAlertEffect
  <1> HIDE DEF rest, n
  <1>5. r \in Check
    BY <1>2, <1>3 DEF Check, Running
  <1>6. /\ r.phase = "send" /\ r.todo = check[c].todo /\ r.window = check[c].window /\ r.used = check[c].used
        /\ r.due = rest /\ r.windows = check[c].windows /\ r.sent = "none" /\ r.owed = check[c].owed
        /\ r.overlapped = check[c].overlapped
    BY <1>2 DEF Check
  <1> HIDE DEF r
  <1>7. /\ check'[c] = IF rest # {} THEN r ELSE n
        /\ Others(c) /\ check' = [check EXCEPT ![c] = check'[c]]
    BY <1>1, <1>2 DEF Others
  <1>8. QED
    BY <1>1, <1>2, <1>3, <1>4, <1>5, <1>6, <1>7 DEF rest, n

\* The check gives up.
LEMMA AbortEffect ==
    ASSUME AlertTypeOK, NEW c \in Checkers, InsertConflict(c) \/ Abort(c)
    PROVE  /\ Others(c) /\ check' = [check EXCEPT ![c] = GaveUp] /\ check'[c] = GaveUp
           /\ UNCHANGED <<day, used, streams, alerts, rows, posts>>
  BY DEF InsertConflict, Abort, AlertTypeOK, Others

\* The steps of others than the checks.
LEMMA WorldEffect ==
    ASSUME AlertTypeOK,
           \/ \E x \in Costs : MeterStream(x)
           \/ \E b \in Budgets : CreateAlert(b)
           \/ AdvanceDay \/ UNCHANGED alertVars
    PROVE  /\ UNCHANGED <<rows, posts, check>>
           /\ day' \in Days /\ streams' \in 0 .. MaxStreams
           /\ used' = used \/ \E x \in Costs : used' = Charged(x)
           /\ alerts' \in Seq(Budgets) /\ IsInjective(alerts') /\ Range(alerts) \subseteq Range(alerts')
  <1>t. day \in Days /\ streams \in 0 .. MaxStreams /\ alerts \in Seq(Budgets) /\ IsInjective(alerts)
    BY DEF AlertTypeOK
  <1>1. CASE \E x \in Costs : MeterStream(x)
    BY <1>1, <1>t, AlertAssumption DEF MeterStream
  <1>2. ASSUME NEW b \in Budgets, CreateAlert(b)
        PROVE  /\ UNCHANGED <<day, used, streams, rows, posts, check>>
               /\ alerts' \in Seq(Budgets) /\ IsInjective(alerts') /\ Range(alerts) \subseteq Range(alerts')
    BY <1>2, <1>t, AlertAdded DEF CreateAlert
  <1>3. CASE AdvanceDay
    BY <1>3, <1>t, AlertAssumption DEF AdvanceDay, Days
  <1>4. CASE UNCHANGED alertVars
    BY <1>4, <1>t DEF alertVars
  <1>5. QED
    BY <1>1, <1>2, <1>3, <1>4, <1>t

-----------------------------------------------------------------------------
(* Alerts: types                                                           *)

Stepped(c) == Others(c) /\ check' = [check EXCEPT ![c] = check'[c]] /\ check'[c] \in Check

\* A step of one check that leaves it well-formed leaves all of them so.
LEMMA CheckStep ==
    ASSUME AlertTypeOK, NEW c \in Checkers, Stepped(c),
           check'[c].phase \in InLoop => check'[c].todo # <<>>,
           check'[c].phase \in {"send", "insert"} => check'[c].due # {},
           check'[c].phase = "insert" <=> check'[c].sent # "none"
    PROVE  /\ check' \in [Checkers -> Check]
           /\ \A d \in Checkers :
                /\ check'[d].phase \in Running \ {"list"} => check'[d].todo # <<>>
                /\ check'[d].phase \in {"send", "insert"} => check'[d].due # {}
                /\ check'[d].phase = "insert" <=> check'[d].sent # "none"
  <1>1. check' \in [Checkers -> Check]
    BY DEF Stepped, AlertTypeOK
  <1>2. ASSUME NEW d \in Checkers
        PROVE  /\ check'[d].phase \in Running \ {"list"} => check'[d].todo # <<>>
               /\ check'[d].phase \in {"send", "insert"} => check'[d].due # {}
               /\ check'[d].phase = "insert" <=> check'[d].sent # "none"
    <2>1. CASE d = c
      BY <2>1 DEF InLoop
    <2>2. CASE d # c
      <3>1. check'[d] = check[d]
        BY <2>2 DEF Stepped, Others
      <3>2. QED
        BY <3>1 DEF AlertTypeOK
    <2>3. QED
      BY <2>1, <2>2
  <1>3. QED
    BY <1>1, <1>2

\* A check that has gone on to its next alert is well-formed.
LEMMA NextAlertFormed ==
    ASSUME NEW r \in Check, r.todo # <<>>, NEW n, n = NextAlert(r)
    PROVE  /\ n.phase \in InLoop => n.todo # <<>>
           /\ n.phase \notin {"send", "insert"}
           /\ n.phase = "insert" <=> n.sent # "none"
  BY NextAlertEffect DEF InLoop, Running

\* The type invariant is inductive.
LEMMA AlertTypeStep ==
    ASSUME AlertTypeOK, [AlertNext]_alertVars
    PROVE  AlertTypeOK'
  <1>t. /\ day \in Days /\ streams \in 0 .. MaxStreams
        /\ used \in [Budgets -> [Days -> Nat]]
        /\ alerts \in Seq(Budgets) /\ IsInjective(alerts)
        /\ rows \in [Deliveries -> {"none", "success", "failed"}]
        /\ posts \in [Deliveries -> Nat]
        /\ check \in [Checkers -> Check]
    BY DEF AlertTypeOK
  <1>f. \A c \in Checkers :
          /\ check[c].phase \in Running \ {"list"} => check[c].todo # <<>>
          /\ check[c].phase \in {"send", "insert"} => check[c].due # {}
          /\ check[c].phase = "insert" <=> check[c].sent # "none"
    BY DEF AlertTypeOK
  <1>1. ASSUME NEW c \in Checkers, NEW x \in Costs, Meter(c, x)
        PROVE  AlertTypeOK'
    <2>1. /\ Stepped(c) /\ check'[c].phase = "list" /\ check'[c].sent = check[c].sent /\ check[c].phase = "chat"
          /\ used' = Charged(x) /\ UNCHANGED <<day, streams, alerts, rows, posts>>
      BY <1>1, MeterEffect DEF Stepped
    <2>2. check'[c].phase \notin InLoop /\ check'[c].phase \notin {"send", "insert"} /\ check'[c].sent = "none"
      BY <2>1, <1>f DEF InLoop
    <2>3. used' \in [Budgets -> [Days -> Nat]]
      BY <2>1, ChargedGrows
    <2>4. QED
      BY <1>t, <2>1, <2>2, <2>3, CheckStep DEF AlertTypeOK
  <1>2. ASSUME NEW c \in Checkers, ListAlerts(c)
        PROVE  AlertTypeOK'
    <2>1. /\ check[c].phase = "list" /\ check' \in [Checkers -> Check]
          /\ check'[c].phase \in {"done", "status"} /\ check'[c].todo = alerts
          /\ check'[c].phase = "status" <=> alerts # <<>>
          /\ check'[c].sent = check[c].sent
          /\ \A d \in Checkers \ {c} :
                 /\ check'[d].phase = check[d].phase /\ check'[d].todo = check[d].todo
                 /\ check'[d].due = check[d].due /\ check'[d].sent = check[d].sent
          /\ UNCHANGED <<day, used, streams, alerts, rows, posts>>
      BY ZenonT(30), <1>2, ListEffect
    <2>2. \A d \in Checkers :
          /\ check'[d].phase \in Running \ {"list"} => check'[d].todo # <<>>
          /\ check'[d].phase \in {"send", "insert"} => check'[d].due # {}
          /\ check'[d].phase = "insert" <=> check'[d].sent # "none"
      BY <1>f, <2>1 DEF Running
    <2>3. QED
      BY <1>t, <2>1, <2>2 DEF AlertTypeOK
  <1>3. ASSUME NEW c \in Checkers, ReadStatus(c)
        PROVE  AlertTypeOK'
    <2>1. /\ Stepped(c) /\ check'[c].phase = "rows" /\ check'[c].sent = check[c].sent /\ check[c].phase = "status"
          /\ check'[c].todo = check[c].todo /\ UNCHANGED <<day, used, streams, alerts, rows, posts>>
      BY <1>3, StatusEffect DEF Stepped
    <2>2. check'[c].todo # <<>> /\ check'[c].sent = "none"
      BY <1>f, <2>1 DEF Running
    <2>3. QED
      BY <1>t, <2>1, <2>2, CheckStep DEF AlertTypeOK
  <1>4. ASSUME NEW c \in Checkers, ReadRows(c)
        PROVE  AlertTypeOK'
    <2>1. /\ Stepped(c) /\ check[c].phase = "rows" /\ UNCHANGED <<day, used, streams, alerts, rows, posts>>
          /\ \/ check'[c] = NextAlert(check[c])
             \/ /\ check'[c].phase = "send" /\ check'[c].due # {} /\ check'[c].todo = check[c].todo
                /\ check'[c].sent = check[c].sent
      BY <1>4, RowsEffect DEF Stepped
    <2>2. check[c].todo # <<>> /\ check[c].sent = "none" /\ check[c] \in Check
      BY <1>f, <1>t, <2>1 DEF Running
    <2>3. /\ check'[c].phase \in InLoop => check'[c].todo # <<>>
          /\ check'[c].phase \in {"send", "insert"} => check'[c].due # {}
          /\ check'[c].phase = "insert" <=> check'[c].sent # "none"
      BY <2>1, <2>2, NextAlertFormed
    <2>4. QED
      BY <1>t, <2>1, <2>3, CheckStep DEF AlertTypeOK
  <1>5. ASSUME NEW c \in Checkers, NEW status \in {"success", "failed"},
               Post(c, status) \/ (PostSkipped(c) /\ status = "failed")
        PROVE  AlertTypeOK'
    <2>1. /\ Stepped(c) /\ check[c].phase = "send" /\ check'[c].phase = "insert" /\ check'[c].sent = status
          /\ check'[c].todo = check[c].todo /\ check'[c].due = check[c].due
          /\ UNCHANGED <<day, used, streams, alerts, rows>>
          /\ posts' = posts \/ posts' = [posts EXCEPT ![Delivery(c)] = @ + 1]
      BY <1>5, PostEffect DEF Stepped
    <2>2. check'[c].todo # <<>> /\ check'[c].due # {} /\ check'[c].sent # "none"
      BY <1>f, <2>1 DEF Running
    <2>3. posts' \in [Deliveries -> Nat]
      BY <1>t, <2>1
    <2>4. QED
      BY <1>t, <2>1, <2>2, <2>3, CheckStep DEF AlertTypeOK
  <1>6. ASSUME NEW c \in Checkers, InsertRow(c)
        PROVE  AlertTypeOK'
    <2>1. /\ Stepped(c) /\ check[c].phase = "insert" /\ UNCHANGED <<day, used, streams, alerts, posts>>
          /\ \/ check'[c] = NextAlert(check[c])
             \/ /\ check'[c].phase = "send" /\ check'[c].due # {} /\ check'[c].todo = check[c].todo
                /\ check'[c].sent = "none"
          /\ Delivery(c) \in Deliveries /\ check[c].sent \in {"success", "failed"}
          /\ rows' = [rows EXCEPT ![Delivery(c)] = check[c].sent]
      BY <1>6, InsertEffect DEF Stepped
    <2>2. check[c].todo # <<>> /\ check[c] \in Check
      BY <1>f, <1>t, <2>1 DEF Running
    <2>3. /\ check'[c].phase \in InLoop => check'[c].todo # <<>>
          /\ check'[c].phase \in {"send", "insert"} => check'[c].due # {}
          /\ check'[c].phase = "insert" <=> check'[c].sent # "none"
      BY <2>1, <2>2, NextAlertFormed
    <2>4. rows' \in [Deliveries -> {"none", "success", "failed"}]
      BY <1>t, <2>1
    <2>5. QED
      BY <1>t, <2>1, <2>3, <2>4, CheckStep DEF AlertTypeOK
  <1>7. ASSUME NEW c \in Checkers, InsertConflict(c) \/ Abort(c)
        PROVE  AlertTypeOK'
    <2>1. /\ Stepped(c) /\ check'[c].phase = "aborted" /\ check'[c].sent = "none"
          /\ UNCHANGED <<day, used, streams, alerts, rows, posts>>
      BY <1>7, AbortEffect, GaveUpEffect DEF Stepped
    <2>2. check'[c].phase \notin InLoop /\ check'[c].phase \notin {"send", "insert"}
      BY <2>1 DEF InLoop, Running
    <2>3. QED
      BY <1>t, <2>1, <2>2, CheckStep DEF AlertTypeOK
  <1>8. CASE \/ \E x \in Costs : MeterStream(x)
             \/ \E b \in Budgets : CreateAlert(b)
             \/ AdvanceDay \/ UNCHANGED alertVars
    <2>1. /\ UNCHANGED <<rows, posts, check>>
          /\ day' \in Days /\ streams' \in 0 .. MaxStreams
          /\ used' = used \/ \E x \in Costs : used' = Charged(x)
          /\ alerts' \in Seq(Budgets) /\ IsInjective(alerts')
      BY <1>8, WorldEffect
    <2>2. used' \in [Budgets -> [Days -> Nat]]
      BY <1>t, <2>1, ChargedGrows
    <2>3. QED
      BY <1>t, <1>f, <2>1, <2>2 DEF AlertTypeOK
  <1>9. QED
    BY <1>1, <1>2, <1>3, <1>4, <1>5, <1>6, <1>7, <1>8 DEF AlertNext

\* The type invariant holds at the start.
LEMMA AlertTypeInit == AlertInit => AlertTypeOK
  <1> SUFFICES ASSUME AlertInit PROVE AlertTypeOK
    OBVIOUS
  <1>1. <<>> \in Seq(Budgets) /\ IsInjective(<<>>) /\ 0 \in Days /\ 0 \in 0 .. MaxStreams
    BY AlertAssumption DEF Days, IsInjective
  <1>2. check \in [Checkers -> Check] /\ \A c \in Checkers : check[c] = NewCheck
    BY GaveUpEffect DEF AlertInit
  <1>3. used \in [Budgets -> [Days -> Nat]]
    BY DEF AlertInit
  <1>4. \A c \in Checkers : check[c].phase = "chat" /\ check[c].sent = "none"
    BY <1>2, GaveUpEffect
  <1>5. QED
    BY <1>1, <1>2, <1>3, <1>4 DEF AlertInit, AlertTypeOK, Running

-----------------------------------------------------------------------------
(* Alerts: the inductive invariants                                        *)

\* What a check has read of its alert still holds: usage only grows.
ReadHolds(c) ==
    /\ check[c].phase \in Looking => check[c].used =< used[Head(check[c].todo)][check[c].window]
    /\ check[c].phase \in {"send", "insert"} =>
          \A t \in check[c].due : thresholdReached(check[c].used, Limit[Head(check[c].todo)], t)

PostInv == AlertTypeOK /\ PostsWereDue /\ \A c \in Checkers : ReadHolds(c)

\* No two checks have run at the same time, and none was cut short.
Undisturbed == \A c \in Checkers : ~ check[c].overlapped /\ check[c].phase # "aborted"

\* As long as that is so, only one check is at work, what it is about to deliver has no
\* row, and what was sent has a row or is just being recorded.
OneAtWork == \A c, d \in Checkers : check[c].phase \in InLoop /\ check[d].phase \in InLoop => c = d
DueUnrecorded ==
    \A c \in Checkers : check[c].phase \in {"send", "insert"} =>
        \A t \in check[c].due : rows[<<Head(check[c].todo), check[c].window, t>>] = "none"
SentOnce ==
    \A k \in Deliveries :
        /\ posts[k] =< 1
        /\ posts[k] = 1 /\ rows[k] = "none" => \E c \in Checkers : check[c].phase = "insert" /\ Delivery(c) = k

AloneInv ==
    /\ AlertTypeOK
    /\ \A c \in Checkers : check[c].phase \in {"chat", "list"} => ~ check[c].overlapped
    /\ Undisturbed => OneAtWork /\ DueUnrecorded /\ SentOnce

\* The alerts whose status a check has still to read.
Ahead(r) == IF r.phase = "status" THEN Range(r.todo) ELSE IF r.phase \in Looking THEN Range(Tail(r.todo)) ELSE {}

\* What a check does about a delivery that was due when its call was metered: its alert
\* is still ahead, or the check has read the alert's status; and when it has read the
\* very window, then the delivery is recorded, or the check is about to deliver it.
Attended(r, k) ==
    /\ k[1] \in Ahead(r) \/ \E p \in r.windows : p[1] = k[1]
    /\ <<k[1], k[2]>> \in r.windows =>
          \/ rows[k] # "none"
          \/ /\ r.phase \in Looking /\ Head(r.todo) = k[1]
             /\ r.phase = "rows" => thresholdReached(r.used, Limit[k[1]], k[3])
             /\ r.phase \in {"send", "insert"} => k[3] \in r.due

Notifies(c) ==
    LET r == check[c] IN
    /\ r.phase = "chat" => r.owed = {} /\ r.windows = {}
    /\ r.phase = "list" => r.windows = {} /\ \A k \in r.owed : k[1] \in Range(alerts)
    /\ r.owed \subseteq Reached(used)
    /\ r.phase \in InLoop => IsInjective(r.todo)
    /\ \A p \in r.windows : p[1] \notin Ahead(r)
    /\ r.phase \in Looking => \A p \in r.windows : p[1] = Head(r.todo) => p[2] = r.window
    /\ r.phase \in InLoop \cup {"done"} => \A k \in r.owed : Attended(r, k)

NotifyInv == AlertTypeOK /\ \A c \in Checkers : Notifies(c)

-----------------------------------------------------------------------------
(* Alerts: what is sent was due                                            *)

\* No step makes a window's usage smaller.
LEMMA UsageGrows ==
    ASSUME AlertTypeOK, [AlertNext]_alertVars
    PROVE  /\ \A b \in Budgets, d \in Days : used[b][d] =< used'[b][d]
           /\ Reached(used) \subseteq Reached(used')
  <1>1. used' = used \/ \E x \in Costs : used' = Charged(x)
    <2>1. CASE \/ \E x \in Costs : MeterStream(x)
               \/ \E b \in Budgets : CreateAlert(b)
               \/ AdvanceDay \/ UNCHANGED alertVars
      BY <2>1, WorldEffect
    <2>2. ASSUME NEW c \in Checkers, \E x \in Costs : Meter(c, x) PROVE \E x \in Costs : used' = Charged(x)
      BY <2>2 DEF Meter
    <2>3. ASSUME NEW c \in Checkers,
                 \/ ListAlerts(c) \/ ReadStatus(c) \/ ReadRows(c)
                 \/ Post(c, "success") \/ Post(c, "failed") \/ PostSkipped(c)
                 \/ InsertRow(c) \/ InsertConflict(c) \/ Abort(c)
          PROVE  used' = used
      BY <2>3 DEF ListAlerts, ReadStatus, ReadRows, Post, PostSkipped, InsertRow, InsertConflict, Abort
    <2>4. QED
      BY <2>1, <2>2, <2>3 DEF AlertNext
  <1>2. used \in [Budgets -> [Days -> Nat]] /\ used' \in [Budgets -> [Days -> Nat]]
    BY <1>1, ChargedGrows DEF AlertTypeOK
  <1>3. \A b \in Budgets, d \in Days : used[b][d] =< used'[b][d]
    BY <1>1, <1>2, ChargedGrows
  <1>4. QED
    BY <1>2, <1>3, ReachedGrows

\* What a check read holds after a step that leaves its reading alone.
LEMMA ReadKept ==
    ASSUME AlertTypeOK, [AlertNext]_alertVars, NEW c \in Checkers, ReadHolds(c),
           check'[c].phase = check[c].phase \/ (check[c].phase \in {"send", "insert"} /\ check'[c].phase \in {"send", "insert"}),
           check'[c].todo = check[c].todo, check'[c].window = check[c].window,
           check'[c].used = check[c].used, check'[c].due \subseteq check[c].due
    PROVE  ReadHolds(c)'
  <1>1. ASSUME check'[c].phase \in Looking
        PROVE  check'[c].used =< used'[Head(check'[c].todo)][check'[c].window]
    <2>1. check[c].phase \in Looking
      BY <1>1 DEF Looking
    <2>2. Head(check[c].todo) \in Budgets /\ check[c].window \in Days /\ check[c].used \in Nat
      BY <2>1, CheckTyped DEF Looking, InLoop, Running, Check
    <2> DEFINE b == Head(check[c].todo)
               v == check[c].window
    <2>3. check[c].used =< used[b][v] /\ used[b][v] =< used'[b][v]
      BY <2>1, <2>2, UsageGrows DEF ReadHolds
    <2>4. used[b][v] \in Nat /\ used'[b][v] \in Nat
      BY <2>2, AlertTypeStep DEF AlertTypeOK
    <2> HIDE DEF b, v
    <2>5. check[c].used =< used'[b][v]
      BY <2>2, <2>3, <2>4
    <2>6. QED
      BY <2>5 DEF b, v
  <1>2. check'[c].phase \in {"send", "insert"} => check[c].phase \in {"send", "insert"}
    OBVIOUS
  <1>3. QED
    BY <1>1, <1>2 DEF ReadHolds, thresholdReached

\* What a check is about to deliver has been reached.
LEMMA DueReached ==
    ASSUME AlertTypeOK, NEW c \in Checkers, ReadHolds(c), check[c].phase \in {"send", "insert"}
    PROVE  Delivery(c) \in Reached(used)
  <1>1. /\ Delivery(c) \in Deliveries /\ Min(check[c].due) \in check[c].due
        /\ Head(check[c].todo) \in Budgets /\ check[c] \in Check
    BY CheckTyped DEF InLoop, Running
  <1> DEFINE b == Head(check[c].todo)
             v == check[c].window
             t == Min(check[c].due)
  <1>2. v \in Days /\ check[c].used \in Nat /\ t \in Nat /\ Limit[b] \in Nat /\ used[b][v] \in Nat
    <2>1. v \in Days /\ check[c].used \in Nat /\ t \in alertThresholds
      BY <1>1 DEF Check
    <2>2. Limit[b] \in Nat /\ used[b][v] \in Nat
      BY <1>1, <2>1, AlertAssumption DEF AlertTypeOK
    <2>3. QED
      BY <2>1, <2>2 DEF alertThresholds
  <1>3. check[c].used =< used[b][v] /\ check[c].used * 100 >= Limit[b] * t
    BY <1>1 DEF ReadHolds, Looking, thresholdReached
  <1>4. Delivery(c)[1] = b /\ Delivery(c)[2] = v /\ Delivery(c)[3] = t
    BY DEF Delivery
  <1> HIDE DEF b, v, t
  <1>5. Limit[b] * t \in Nat
    BY <1>2
  <1>6. used[b][v] * 100 >= Limit[b] * t
    BY <1>2, <1>3, <1>5
  <1>7. QED
    BY <1>1, <1>4, <1>6 DEF Reached, thresholdReached

\* A check outside its alerts has read nothing.
LEMMA NothingRead ==
    ASSUME NEW c \in Checkers, check'[c].phase \notin Looking
    PROVE  ReadHolds(c)'
  BY DEF ReadHolds, Looking

\* The invariant behind PostsWereDue is inductive.
LEMMA PostStep ==
    ASSUME PostInv, [AlertNext]_alertVars
    PROVE  PostInv'
  <1>t. AlertTypeOK /\ AlertTypeOK' /\ \A c \in Checkers : ReadHolds(c)
    BY AlertTypeStep DEF PostInv
  <1>r. Reached(used) \subseteq Reached(used')
    BY <1>t, UsageGrows
  <1>p. \A k \in Deliveries : posts[k] > 0 \/ rows[k] # "none" => k \in Reached(used)
    BY DEF PostInv, PostsWereDue
  <1>u. (rows' = rows /\ posts' = posts) => PostsWereDue'
    <2> SUFFICES ASSUME rows' = rows, posts' = posts, NEW k \in Deliveries, posts[k] > 0 \/ rows[k] # "none"
                 PROVE  k \in Reached(used')
      BY DEF PostsWereDue, Reached
    <2> QED
      BY <1>p, <1>r
  <1>o. \A c \in Checkers : Others(c) => \A d \in Checkers \ {c} : ReadHolds(d)'
    <2> SUFFICES ASSUME NEW c \in Checkers, Others(c), NEW d \in Checkers \ {c} PROVE ReadHolds(d)'
      OBVIOUS
    <2>1. check'[d] = check[d]
      BY DEF Others
    <2>2. QED
      BY <1>t, <2>1, ReadKept
  <1>1. ASSUME NEW c \in Checkers, NEW x \in Costs, Meter(c, x)
        PROVE  PostInv'
    <2>1. Others(c) /\ check'[c].phase = "list" /\ UNCHANGED <<rows, posts>>
      BY <1>t, <1>1, MeterEffect
    <2>2. ReadHolds(c)'
      BY <2>1, NothingRead DEF Looking
    <2>3. QED
      BY <1>t, <1>u, <1>o, <2>1, <2>2 DEF PostInv
  <1>2. ASSUME NEW c \in Checkers, ListAlerts(c)
        PROVE  PostInv'
    <2>1. /\ check'[c].phase \in {"done", "status"} /\ UNCHANGED <<rows, posts>>
          /\ \A d \in Checkers \ {c} :
                 /\ check'[d].phase = check[d].phase /\ check'[d].todo = check[d].todo
                 /\ check'[d].window = check[d].window /\ check'[d].used = check[d].used
                 /\ check'[d].due = check[d].due
      BY ZenonT(30), <1>t, <1>2, ListEffect
    <2>2. ReadHolds(c)'
      BY <2>1, NothingRead DEF Looking
    <2>3. ASSUME NEW d \in Checkers \ {c} PROVE ReadHolds(d)'
      BY <1>t, <2>1, ReadKept
    <2>4. QED
      BY <1>t, <1>u, <2>1, <2>2, <2>3 DEF PostInv
  <1>3. ASSUME NEW c \in Checkers, ReadStatus(c)
        PROVE  PostInv'
    <2> DEFINE b == Head(check[c].todo)
               v == periodWindow(day, Period[b])
    <2>1. /\ Others(c) /\ check'[c].phase = "rows" /\ check'[c].todo = check[c].todo /\ check[c].phase = "status"
          /\ v \in Days /\ check'[c].window = v /\ check'[c].used = used[b][v]
          /\ UNCHANGED <<used, rows, posts>>
      BY <1>t, <1>3, StatusEffect
    <2>2. used[b][v] \in Nat
      BY <1>t, <2>1, CheckTyped DEF AlertTypeOK, InLoop, Running
    <2> HIDE DEF v
    <2>3. check'[c].used =< used'[Head(check'[c].todo)][check'[c].window]
      BY <2>1, <2>2
    <2>4. ReadHolds(c)'
      BY <2>1, <2>3 DEF ReadHolds
    <2>5. QED
      BY <1>t, <1>u, <1>o, <2>1, <2>4 DEF PostInv
  <1>4. ASSUME NEW c \in Checkers, ReadRows(c)
        PROVE  PostInv'
    <2>1. /\ check[c].phase = "rows" /\ Others(c) /\ UNCHANGED <<used, rows, posts>>
          /\ \/ check'[c] = NextAlert(check[c])
             \/ /\ check'[c].phase = "send" /\ check'[c].due = DueNow(c)
                /\ check'[c].todo = check[c].todo /\ check'[c].window = check[c].window
                /\ check'[c].used = check[c].used
      BY <1>t, <1>4, RowsEffect
    <2>2. CASE check'[c] = NextAlert(check[c])
      <3>1. check[c] \in Check /\ check[c].todo # <<>>
        BY <1>t, <2>1, CheckTyped DEF InLoop, Running
      <3>2. check'[c].phase \notin Looking
        BY <2>2, <3>1, NextAlertEffect DEF Looking
      <3>3. QED
        BY <3>2, <1>t, <1>u, <1>o, <2>1, NothingRead DEF PostInv
    <2>3. CASE /\ check'[c].phase = "send" /\ check'[c].due = DueNow(c)
               /\ check'[c].todo = check[c].todo /\ check'[c].window = check[c].window
               /\ check'[c].used = check[c].used
      <3>1. check[c].used =< used[Head(check[c].todo)][check[c].window]
        BY <1>t, <2>1 DEF ReadHolds, Looking
      <3>2. \A t \in DueNow(c) : thresholdReached(check[c].used, Limit[Head(check[c].todo)], t)
        BY DEF DueNow
      <3>3. ReadHolds(c)'
        BY <2>1, <2>3, <3>1, <3>2 DEF ReadHolds, thresholdReached
      <3>4. QED
        BY <1>t, <1>u, <1>o, <2>1, <3>3 DEF PostInv
    <2>4. QED
      BY <2>1, <2>2, <2>3
  <1>5. ASSUME NEW c \in Checkers, NEW status \in {"success", "failed"},
               Post(c, status) \/ (PostSkipped(c) /\ status = "failed")
        PROVE  PostInv'
    <2>1. /\ check[c].phase = "send" /\ Others(c) /\ check'[c].phase = "insert"
          /\ check'[c].todo = check[c].todo /\ check'[c].window = check[c].window
          /\ check'[c].used = check[c].used /\ check'[c].due = check[c].due
          /\ UNCHANGED <<used, rows>>
          /\ posts' = posts \/ posts' = [posts EXCEPT ![Delivery(c)] = @ + 1]
      BY <1>t, <1>5, PostEffect
    <2>2. ReadHolds(c)'
      BY <1>t, <2>1, ReadKept
    <2>3. Delivery(c) \in Reached(used)
      BY <1>t, <2>1, DueReached
    <2>4. \A k \in Deliveries : k # Delivery(c) => posts'[k] = posts[k]
      BY <1>t, <2>1 DEF AlertTypeOK
    <2>5. \A k \in Deliveries : posts'[k] > 0 \/ rows'[k] # "none" => k \in Reached(used)
      BY <1>p, <2>1, <2>3, <2>4
    <2>6. PostsWereDue'
      BY <1>r, <2>5 DEF PostsWereDue
    <2>7. QED
      BY <1>t, <1>o, <2>1, <2>2, <2>6 DEF PostInv
  <1>6. ASSUME NEW c \in Checkers, InsertRow(c)
        PROVE  PostInv'
    <2>1. /\ check[c].phase = "insert" /\ Others(c) /\ UNCHANGED <<used, posts>>
          /\ \/ check'[c] = NextAlert(check[c])
             \/ /\ check'[c].phase = "send" /\ check'[c].due \subseteq check[c].due
                /\ check'[c].todo = check[c].todo /\ check'[c].window = check[c].window
                /\ check'[c].used = check[c].used
          /\ rows' = [rows EXCEPT ![Delivery(c)] = check[c].sent]
      BY <1>t, <1>6, InsertEffect
    <2>2. ASSUME check'[c] = NextAlert(check[c]) PROVE ReadHolds(c)'
      <3>1. check[c] \in Check /\ check[c].todo # <<>>
        BY <1>t, <2>1, CheckTyped DEF InLoop, Running
      <3>2. check'[c].phase \notin Looking
        BY <2>2, <3>1, NextAlertEffect DEF Looking
      <3>3. QED
        BY <3>2, NothingRead
    <2>3. ASSUME check'[c] # NextAlert(check[c]) PROVE ReadHolds(c)'
      BY <1>t, <2>1, <2>3, ReadKept
    <2>4. Delivery(c) \in Reached(used)
      BY <1>t, <2>1, DueReached
    <2>5. \A k \in Deliveries : k # Delivery(c) => rows'[k] = rows[k]
      BY <1>t, <2>1 DEF AlertTypeOK
    <2>6. \A k \in Deliveries : posts'[k] > 0 \/ rows'[k] # "none" => k \in Reached(used)
      BY <1>p, <2>1, <2>4, <2>5
    <2>7. PostsWereDue'
      BY <1>r, <2>6 DEF PostsWereDue
    <2>8. ReadHolds(c)'
      BY <2>2, <2>3
    <2>9. QED
      BY <1>t, <1>o, <2>1, <2>8, <2>7 DEF PostInv
  <1>7. ASSUME NEW c \in Checkers, InsertConflict(c) \/ Abort(c)
        PROVE  PostInv'
    <2>1. Others(c) /\ check'[c].phase = "aborted" /\ UNCHANGED <<rows, posts>>
      BY <1>t, <1>7, AbortEffect, GaveUpEffect
    <2>2. ReadHolds(c)'
      BY <2>1, NothingRead DEF Looking
    <2>3. QED
      BY <1>t, <1>u, <1>o, <2>1, <2>2 DEF PostInv
  <1>8. CASE \/ \E x \in Costs : MeterStream(x)
             \/ \E b \in Budgets : CreateAlert(b)
             \/ AdvanceDay \/ UNCHANGED alertVars
    <2>1. UNCHANGED <<rows, posts, check>>
      BY <1>t, <1>8, WorldEffect
    <2>2. ASSUME NEW c \in Checkers PROVE ReadHolds(c)'
      BY <1>t, <2>1, ReadKept
    <2>3. QED
      BY <1>t, <1>u, <2>1, <2>2 DEF PostInv
  <1>9. QED
    BY <1>1, <1>2, <1>3, <1>4, <1>5, <1>6, <1>7, <1>8 DEF AlertNext

\* The webhook is told of a threshold only when the window it names has reached it,
\* for any budgets, number of concurrent checks, costs and calendar.
THEOREM AlertsWereDue == AlertSpec => []PostsWereDue
  <1>1. AlertInit => PostInv
    <2> SUFFICES ASSUME AlertInit PROVE PostInv
      OBVIOUS
    <2>1. \A c \in Checkers : check[c].phase = "chat"
      BY GaveUpEffect DEF AlertInit
    <2>2. PostsWereDue
      BY DEF AlertInit, PostsWereDue
    <2>3. \A c \in Checkers : ReadHolds(c)
      BY <2>1 DEF ReadHolds, Looking
    <2>4. QED
      BY <2>2, <2>3, AlertTypeInit DEF PostInv
  <1>2. PostInv /\ [AlertNext]_alertVars => PostInv'
    BY PostStep
  <1>3. PostInv => PostsWereDue
    BY DEF PostInv
  <1>4. QED
    BY <1>1, <1>2, <1>3, PTL DEF AlertSpec

-----------------------------------------------------------------------------
(* Alerts: what is sent is sent once                                       *)

\* What a step may do to the overlapped flag and the phase of a check.
LEMMA UndisturbedBefore ==
    ASSUME AloneInv, [AlertNext]_alertVars, Undisturbed'
    PROVE  Undisturbed
  <1>t. AlertTypeOK /\ \A c \in Checkers : check[c].phase \in {"chat", "list"} => ~ check[c].overlapped
    BY DEF AloneInv
  <1>u. \A c \in Checkers : ~ check'[c].overlapped /\ check'[c].phase # "aborted"
    BY DEF Undisturbed
  <1>o. ASSUME NEW c \in Checkers, Others(c), ~ check[c].overlapped, check[c].phase # "aborted"
        PROVE  Undisturbed
    BY <1>u, <1>o DEF Undisturbed, Others
  <1>1. ASSUME NEW c \in Checkers, NEW x \in Costs, Meter(c, x)
        PROVE  Undisturbed
    <2>1. Others(c) /\ check[c].phase = "chat" /\ ~ check[c].overlapped
      BY <1>t, <1>1, MeterEffect
    <2>2. QED
      BY <2>1, <1>o
  <1>2. ASSUME NEW c \in Checkers, ListAlerts(c)
        PROVE  Undisturbed
    <2>1. /\ check[c].phase = "list" /\ ~ check[c].overlapped
          /\ \A d \in Checkers \ {c} :
                /\ check'[d].phase = check[d].phase
                /\ check'[d].overlapped = (check[d].overlapped \/ check[d].phase \in InLoop)
      BY <1>t, <1>2, ListEffect
    <2>2. \A d \in Checkers \ {c} : ~ check[d].overlapped /\ check[d].phase # "aborted"
      BY <1>u, <2>1
    <2>3. QED
      BY <2>1, <2>2 DEF Undisturbed
  <1>3. ASSUME NEW c \in Checkers, ReadStatus(c)
        PROVE  Undisturbed
    <2>1. Others(c) /\ check[c].phase = "status" /\ check'[c].overlapped = check[c].overlapped
      BY <1>t, <1>3, StatusEffect
    <2>2. QED
      BY <2>1, <1>o, <1>u
  <1>4. ASSUME NEW c \in Checkers, ReadRows(c)
        PROVE  Undisturbed
    <2>1. /\ Others(c) /\ check[c].phase = "rows"
          /\ check'[c] = NextAlert(check[c]) \/ check'[c].overlapped = check[c].overlapped
      BY <1>t, <1>4, RowsEffect
    <2>2. check[c] \in Check /\ check[c].todo # <<>>
      BY <1>t, <2>1, CheckTyped DEF InLoop, Running
    <2>3. check'[c].overlapped = check[c].overlapped
      BY <2>1, <2>2, NextAlertEffect
    <2>4. QED
      BY <2>1, <2>3, <1>o, <1>u
  <1>5. ASSUME NEW c \in Checkers, NEW status \in {"success", "failed"},
               Post(c, status) \/ (PostSkipped(c) /\ status = "failed")
        PROVE  Undisturbed
    <2>1. Others(c) /\ check[c].phase = "send" /\ check'[c].overlapped = check[c].overlapped
      BY <1>t, <1>5, PostEffect
    <2>2. QED
      BY <2>1, <1>o, <1>u
  <1>6. ASSUME NEW c \in Checkers, InsertRow(c)
        PROVE  Undisturbed
    <2>1. /\ Others(c) /\ check[c].phase = "insert"
          /\ check'[c] = NextAlert(check[c]) \/ check'[c].overlapped = check[c].overlapped
      BY <1>t, <1>6, InsertEffect
    <2>2. check[c] \in Check /\ check[c].todo # <<>>
      BY <1>t, <2>1, CheckTyped DEF InLoop, Running
    <2>3. check'[c].overlapped = check[c].overlapped
      BY <2>1, <2>2, NextAlertEffect
    <2>4. QED
      BY <2>1, <2>3, <1>o, <1>u
  <1>7. ASSUME NEW c \in Checkers, InsertConflict(c) \/ Abort(c)
        PROVE  Undisturbed
    <2>1. check'[c].phase = "aborted"
      BY <1>t, <1>7, AbortEffect, GaveUpEffect
    <2>2. QED
      BY <1>u, <2>1
  <1>8. CASE \/ \E x \in Costs : MeterStream(x)
             \/ \E b \in Budgets : CreateAlert(b)
             \/ AdvanceDay \/ UNCHANGED alertVars
    <2>1. UNCHANGED check
      BY <1>t, <1>8, WorldEffect
    <2>2. QED
      BY <1>u, <2>1 DEF Undisturbed
  <1>9. QED
    BY <1>1, <1>2, <1>3, <1>4, <1>5, <1>6, <1>7, <1>8 DEF AlertNext

AloneParts == OneAtWork /\ DueUnrecorded /\ SentOnce

\* A step of a check that neither sends nor records keeps the rest, if the check was
\* at work before or is the only one now.
LEMMA QuietStep ==
    ASSUME AloneParts, NEW c \in Checkers, UNCHANGED <<rows, posts>>,
           check[c].phase # "insert",
           \A d \in Checkers \ {c} : /\ check'[d].phase = check[d].phase /\ check'[d].todo = check[d].todo
                                     /\ check'[d].window = check[d].window /\ check'[d].due = check[d].due,
           check'[c].phase \in InLoop => \/ check[c].phase \in InLoop
                                         \/ \A d \in Checkers \ {c} : check[d].phase \notin InLoop,
           check'[c].phase \in {"send", "insert"} =>
              \A t \in check'[c].due : rows[<<Head(check'[c].todo), check'[c].window, t>>] = "none"
    PROVE  AloneParts'
  <1>1. OneAtWork'
    BY DEF AloneParts, OneAtWork
  <1>2. DueUnrecorded'
    <2>1. ASSUME NEW d \in Checkers, check'[d].phase \in {"send", "insert"}, NEW t \in check'[d].due
          PROVE  rows'[<<Head(check'[d].todo), check'[d].window, t>>] = "none"
      <3>1. CASE d = c
        BY <2>1, <3>1
      <3>2. CASE d # c
        BY <2>1, <3>2 DEF AloneParts, DueUnrecorded
      <3>3. QED
        BY <3>1, <3>2
    <2>2. QED
      BY <2>1 DEF DueUnrecorded
  <1>3. SentOnce'
    <2>1. ASSUME NEW k \in Deliveries
          PROVE  /\ posts'[k] =< 1
                 /\ posts'[k] = 1 /\ rows'[k] = "none" =>
                      \E d \in Checkers : check'[d].phase = "insert" /\ Delivery(d)' = k
      <3>1. posts[k] =< 1
        BY DEF AloneParts, SentOnce
      <3>2. ASSUME posts[k] = 1, rows[k] = "none"
            PROVE  \E d \in Checkers : check'[d].phase = "insert" /\ Delivery(d)' = k
        <4>1. PICK d \in Checkers : check[d].phase = "insert" /\ Delivery(d) = k
          BY <3>2 DEF AloneParts, SentOnce
        <4>2. check'[d].phase = "insert" /\ Delivery(d)' = Delivery(d)
          BY <4>1 DEF Delivery
        <4>3. QED
          BY <4>1, <4>2
      <3>3. QED
        BY <3>1, <3>2
    <2>2. QED
      BY <2>1 DEF SentOnce
  <1>4. QED
    BY <1>1, <1>2, <1>3 DEF AloneParts

\* The parts for an undisturbed run are kept.
LEMMA AlonePartsStep ==
    ASSUME AloneInv, [AlertNext]_alertVars, Undisturbed'
    PROVE  AloneParts'
  <1>t. AlertTypeOK /\ AloneParts /\ Undisturbed
    BY UndisturbedBefore DEF AloneInv, AloneParts
  <1>u. \A c \in Checkers : ~ check'[c].overlapped /\ check'[c].phase # "aborted"
    BY DEF Undisturbed
  <1>w. /\ \A c, d \in Checkers : check[c].phase \in InLoop /\ check[d].phase \in InLoop => c = d
        /\ \A k \in Deliveries :
             /\ posts[k] =< 1
             /\ posts[k] = 1 /\ rows[k] = "none" =>
                   \E c \in Checkers : check[c].phase = "insert" /\ Delivery(c) = k
        /\ \A c \in Checkers : check[c].phase \in {"send", "insert"} =>
             \A t \in check[c].due : rows[<<Head(check[c].todo), check[c].window, t>>] = "none"
    BY <1>t DEF AloneParts, OneAtWork, SentOnce, DueUnrecorded
  <1>1. ASSUME NEW c \in Checkers, NEW x \in Costs, Meter(c, x)
        PROVE  AloneParts'
    <2>1. /\ Others(c) /\ check[c].phase = "chat" /\ check'[c].phase = "list" /\ UNCHANGED <<rows, posts>>
      BY <1>t, <1>1, MeterEffect
    <2>2. check'[c].phase \notin InLoop /\ check'[c].phase \notin {"send", "insert"}
      BY <2>1 DEF InLoop
    <2>3. QED
      BY <1>t, <2>1, <2>2, QuietStep DEF Others
  <1>2. ASSUME NEW c \in Checkers, ListAlerts(c)
        PROVE  AloneParts'
    <2>1. /\ check[c].phase = "list" /\ check'[c].phase \in {"done", "status"} /\ UNCHANGED <<rows, posts>>
          /\ check'[c].overlapped = (\E d \in Checkers \ {c} : check[d].phase \in InLoop)
          /\ \A d \in Checkers \ {c} : /\ check'[d].phase = check[d].phase /\ check'[d].todo = check[d].todo
                                       /\ check'[d].window = check[d].window /\ check'[d].due = check[d].due
      BY ZenonT(30), <1>t, <1>2, ListEffect
    <2>2. \A d \in Checkers \ {c} : check[d].phase \notin InLoop
      BY <2>1, <1>u
    <2>3. check'[c].phase \notin {"send", "insert"}
      BY <2>1
    <2>4. QED
      BY <1>t, <2>1, <2>2, <2>3, QuietStep
  <1>3. ASSUME NEW c \in Checkers, ReadStatus(c)
        PROVE  AloneParts'
    <2>1. /\ Others(c) /\ check[c].phase = "status" /\ check'[c].phase = "rows" /\ UNCHANGED <<rows, posts>>
      BY <1>t, <1>3, StatusEffect
    <2>2. check[c].phase \in InLoop /\ check'[c].phase \notin {"send", "insert"}
      BY <2>1 DEF InLoop, Running
    <2>3. QED
      BY <1>t, <2>1, <2>2, QuietStep DEF Others
  <1>4. ASSUME NEW c \in Checkers, ReadRows(c)
        PROVE  AloneParts'
    <2>1. /\ Others(c) /\ check[c].phase = "rows" /\ UNCHANGED <<rows, posts>>
          /\ \/ check'[c] = NextAlert(check[c])
             \/ /\ check'[c].phase = "send" /\ check'[c].due = DueNow(c)
                /\ check'[c].todo = check[c].todo /\ check'[c].window = check[c].window
      BY <1>t, <1>4, RowsEffect
    <2>2. check[c] \in Check /\ check[c].todo # <<>> /\ check[c].phase \in InLoop
      BY <1>t, <2>1, CheckTyped DEF InLoop, Running
    <2>3. ASSUME check'[c].phase \in {"send", "insert"}, NEW t \in check'[c].due
          PROVE  rows[<<Head(check'[c].todo), check'[c].window, t>>] = "none"
      <3>1. check'[c] # NextAlert(check[c])
        BY <2>2, <2>3, NextAlertEffect
      <3>2. QED
        BY <2>1, <2>3, <3>1 DEF DueNow, Undelivered
    <2>4. QED
      BY <1>t, <2>1, <2>2, <2>3, QuietStep DEF Others
  <1>5. ASSUME NEW c \in Checkers, NEW status \in {"success", "failed"},
               Post(c, status) \/ (PostSkipped(c) /\ status = "failed")
        PROVE  AloneParts'
    <2>1. /\ check[c].phase = "send" /\ Others(c) /\ check'[c].phase = "insert"
          /\ check'[c].todo = check[c].todo /\ check'[c].window = check[c].window
          /\ check'[c].due = check[c].due /\ UNCHANGED rows
          /\ posts' = posts \/ posts' = [posts EXCEPT ![Delivery(c)] = @ + 1]
      BY <1>t, <1>5, PostEffect
    <2>2. check[c].phase \in InLoop /\ check'[c].phase \in InLoop
      BY <2>1 DEF InLoop, Running
    <2>3. \A d \in Checkers \ {c} : check'[d] = check[d] /\ check[d].phase \notin InLoop
      BY <1>w, <2>1, <2>2 DEF Others
    <2>4. OneAtWork'
      BY <2>3 DEF OneAtWork
    <2>5. DueUnrecorded'
      <3>1. \A d \in Checkers \ {c} : check'[d].phase \notin {"send", "insert"}
        BY <2>3 DEF InLoop, Running
      <3>2. QED
        BY <1>w, <2>1, <3>1 DEF DueUnrecorded
    <2>6. \A k \in Deliveries : posts[k] # 1 \/ rows[k] # "none"
      <3>1. \A d \in Checkers : check[d].phase # "insert"
        BY <2>1, <2>3 DEF InLoop, Running
      <3>2. QED
        BY <1>w, <3>1
    <2>7. Delivery(c) \in Deliveries /\ rows[Delivery(c)] = "none" /\ posts[Delivery(c)] = 0
      <3>1. Delivery(c) \in Deliveries /\ Min(check[c].due) \in check[c].due
        BY <1>t, <2>1, CheckTyped
      <3>2. rows[Delivery(c)] = "none"
        BY <1>w, <2>1, <3>1 DEF Delivery
      <3>3. posts[Delivery(c)] \in Nat /\ posts[Delivery(c)] =< 1 /\ posts[Delivery(c)] # 1
        BY <1>t, <1>w, <2>6, <3>1, <3>2 DEF AlertTypeOK
      <3>4. QED
        BY <3>1, <3>2, <3>3
    <2>8. Delivery(c)' = Delivery(c)
      BY <2>1 DEF Delivery
    <2>9. \A k \in Deliveries : posts'[k] = posts[k] \/ (k = Delivery(c) /\ posts'[k] = 1)
      BY <1>t, <2>1, <2>7 DEF AlertTypeOK
    <2>10. SentOnce'
      <3>1. ASSUME NEW k \in Deliveries PROVE posts'[k] =< 1
        BY <1>w, <2>9
      <3>2. ASSUME NEW k \in Deliveries, posts'[k] = 1, rows'[k] = "none"
            PROVE  \E d \in Checkers : check'[d].phase = "insert" /\ Delivery(d)' = k
        <4>1. k = Delivery(c)
          BY <2>1, <2>6, <2>9, <3>2
        <4>2. QED
          BY <2>1, <2>8, <4>1
      <3>3. QED
        BY <3>1, <3>2 DEF SentOnce
    <2>11. QED
      BY <2>4, <2>5, <2>10 DEF AloneParts
  <1>6. ASSUME NEW c \in Checkers, InsertRow(c)
        PROVE  AloneParts'
    <2> DEFINE rest == check[c].due \ {Min(check[c].due)}
    <2>1. /\ check[c].phase = "insert" /\ Others(c) /\ UNCHANGED posts
          /\ \/ check'[c] = NextAlert(check[c])
             \/ /\ check'[c].phase = "send" /\ check'[c].due = rest
                /\ check'[c].todo = check[c].todo /\ check'[c].window = check[c].window
          /\ Delivery(c) \in Deliveries /\ check[c].sent \in {"success", "failed"}
          /\ rows' = [rows EXCEPT ![Delivery(c)] = check[c].sent]
      BY <1>t, <1>6, InsertEffect
    <2>2. check[c] \in Check /\ check[c].todo # <<>> /\ check[c].phase \in InLoop
      BY <1>t, <2>1, CheckTyped DEF InLoop, Running
    <2>3. \A d \in Checkers \ {c} : check'[d] = check[d] /\ check[d].phase \notin InLoop
      BY <1>w, <2>1, <2>2 DEF Others
    <2>4. OneAtWork'
      BY <2>3 DEF OneAtWork
    <2>5. DueUnrecorded'
      <3>1. \A d \in Checkers \ {c} : check'[d].phase \notin {"send", "insert"}
        BY <2>3 DEF InLoop, Running
      <3>2. ASSUME check'[c].phase \in {"send", "insert"}, NEW t \in check'[c].due
            PROVE  rows'[<<Head(check'[c].todo), check'[c].window, t>>] = "none"
        <4>1. check'[c] # NextAlert(check[c])
          BY <2>2, <3>2, NextAlertEffect
        <4>2. /\ t \in check[c].due /\ t # Min(check[c].due)
              /\ check'[c].todo = check[c].todo /\ check'[c].window = check[c].window
          BY <2>1, <3>2, <4>1
        <4>3. <<Head(check[c].todo), check[c].window, t>> # Delivery(c)
          BY <4>2 DEF Delivery
        <4>4. rows[<<Head(check[c].todo), check[c].window, t>>] = "none"
          BY <1>w, <2>1, <4>2
        <4>5. <<Head(check[c].todo), check[c].window, t>> \in Deliveries
          BY <2>1, <2>2, <4>2, <1>t, CheckTyped DEF Check, Deliveries
        <4>6. rows \in [Deliveries -> {"none", "success", "failed"}]
          BY <1>t DEF AlertTypeOK
        <4>7. QED
          BY <2>1, <4>2, <4>3, <4>4, <4>5, <4>6
      <3>3. QED
        BY <3>1, <3>2 DEF DueUnrecorded
    <2>6. SentOnce'
      <3>1. ASSUME NEW k \in Deliveries PROVE posts'[k] =< 1
        BY <1>w, <2>1
      <3>2. ASSUME NEW k \in Deliveries, posts'[k] = 1, rows'[k] = "none" PROVE FALSE
        <4>1. rows \in [Deliveries -> {"none", "success", "failed"}]
          BY <1>t DEF AlertTypeOK
        <4>2. k # Delivery(c) /\ rows[k] = "none" /\ posts[k] = 1
          BY <2>1, <3>2, <4>1
        <4>3. PICK d \in Checkers : check[d].phase = "insert" /\ Delivery(d) = k
          BY <1>w, <4>2
        <4>4. d = c
          BY <2>3, <4>3 DEF InLoop, Running
        <4>5. QED
          BY <4>2, <4>3, <4>4
      <3>3. QED
        BY <3>1, <3>2 DEF SentOnce
    <2>7. QED
      BY <2>4, <2>5, <2>6 DEF AloneParts
  <1>7. ASSUME NEW c \in Checkers, InsertConflict(c) \/ Abort(c)
        PROVE  AloneParts'
    <2>1. check'[c].phase = "aborted"
      BY <1>t, <1>7, AbortEffect, GaveUpEffect
    <2>2. QED
      BY <1>u, <2>1
  <1>8. CASE \/ \E x \in Costs : MeterStream(x)
             \/ \E b \in Budgets : CreateAlert(b)
             \/ AdvanceDay \/ UNCHANGED alertVars
    <2>1. UNCHANGED <<rows, posts, check>>
      BY <1>t, <1>8, WorldEffect
    <2>2. QED
      BY <1>t, <2>1 DEF AloneParts, OneAtWork, DueUnrecorded, SentOnce, Delivery
  <1>9. QED
    BY <1>1, <1>2, <1>3, <1>4, <1>5, <1>6, <1>7, <1>8 DEF AlertNext

\* A check that has not begun has not been overlapped.
LEMMA NotBegunStep ==
    ASSUME AloneInv, [AlertNext]_alertVars, NEW d \in Checkers, check'[d].phase \in {"chat", "list"}
    PROVE  ~ check'[d].overlapped
  <1>t. AlertTypeOK /\ \A c \in Checkers : check[c].phase \in {"chat", "list"} => ~ check[c].overlapped
    BY DEF AloneInv
  <1>o. ASSUME NEW c \in Checkers, Others(c), d # c PROVE ~ check'[d].overlapped
    BY <1>t, <1>o DEF Others
  <1>1. ASSUME NEW c \in Checkers, NEW x \in Costs, Meter(c, x) PROVE ~ check'[d].overlapped
    <2>1. Others(c) /\ check[c].phase = "chat" /\ check'[c].overlapped = check[c].overlapped
      BY <1>t, <1>1, MeterEffect
    <2>2. QED
      BY <1>t, <1>o, <2>1
  <1>2. ASSUME NEW c \in Checkers, ListAlerts(c) PROVE ~ check'[d].overlapped
    <2>1. /\ check'[c].phase \in {"done", "status"}
          /\ \A e \in Checkers \ {c} :
                /\ check'[e].phase = check[e].phase
                /\ check'[e].overlapped = (check[e].overlapped \/ check[e].phase \in InLoop)
      BY <1>t, <1>2, ListEffect
    <2>2. d # c /\ check[d].phase \notin InLoop /\ ~ check[d].overlapped
      BY <1>t, <2>1 DEF InLoop, Running
    <2>3. QED
      BY <2>1, <2>2
  <1>3. ASSUME NEW c \in Checkers, Others(c), check'[c].phase \notin {"chat", "list"} PROVE ~ check'[d].overlapped
    BY <1>3, <1>o
  <1>4. ASSUME NEW c \in Checkers, ReadStatus(c) PROVE ~ check'[d].overlapped
    BY <1>t, <1>3, <1>4, StatusEffect
  <1>5. ASSUME NEW c \in Checkers, ReadRows(c) PROVE ~ check'[d].overlapped
    <2>1. /\ Others(c) /\ check[c].phase = "rows"
          /\ check'[c] = NextAlert(check[c]) \/ check'[c].phase = "send"
      BY <1>t, <1>5, RowsEffect
    <2>2. check[c] \in Check /\ check[c].todo # <<>>
      BY <1>t, <2>1, CheckTyped DEF InLoop, Running
    <2>3. QED
      BY <1>3, <2>1, <2>2, NextAlertEffect
  <1>6. ASSUME NEW c \in Checkers, NEW status \in {"success", "failed"},
               Post(c, status) \/ (PostSkipped(c) /\ status = "failed")
        PROVE  ~ check'[d].overlapped
    BY <1>t, <1>3, <1>6, PostEffect
  <1>7. ASSUME NEW c \in Checkers, InsertRow(c) PROVE ~ check'[d].overlapped
    <2>1. /\ Others(c) /\ check[c].phase = "insert"
          /\ check'[c] = NextAlert(check[c]) \/ check'[c].phase = "send"
      BY <1>t, <1>7, InsertEffect
    <2>2. check[c] \in Check /\ check[c].todo # <<>>
      BY <1>t, <2>1, CheckTyped DEF InLoop, Running
    <2>3. QED
      BY <1>3, <2>1, <2>2, NextAlertEffect
  <1>8. ASSUME NEW c \in Checkers, InsertConflict(c) \/ Abort(c) PROVE ~ check'[d].overlapped
    BY <1>t, <1>3, <1>8, AbortEffect, GaveUpEffect
  <1>9. CASE \/ \E x \in Costs : MeterStream(x)
             \/ \E b \in Budgets : CreateAlert(b)
             \/ AdvanceDay \/ UNCHANGED alertVars
    BY <1>t, <1>9, WorldEffect
  <1>10. QED
    BY <1>1, <1>2, <1>4, <1>5, <1>6, <1>7, <1>8, <1>9 DEF AlertNext

\* The webhook is told of a threshold once, unless two checks ran at the same time or one
\* was cut short: for any budgets, number of concurrent checks, costs and calendar.
THEOREM AlertsSentOnce == AlertSpec => []OnceWhenAlone
  <1>1. AlertInit => AloneInv
    <2> SUFFICES ASSUME AlertInit PROVE AloneInv
      OBVIOUS
    <2>1. \A c \in Checkers : check[c].phase = "chat" /\ ~ check[c].overlapped
      BY GaveUpEffect DEF AlertInit
    <2>2. SentOnce
      BY DEF AlertInit, SentOnce
    <2>3. OneAtWork /\ DueUnrecorded
      BY <2>1 DEF OneAtWork, DueUnrecorded, InLoop, Running
    <2>4. QED
      BY <2>1, <2>2, <2>3, AlertTypeInit DEF AloneInv
  <1>2. AloneInv /\ [AlertNext]_alertVars => AloneInv'
    <2> SUFFICES ASSUME AloneInv, [AlertNext]_alertVars PROVE AloneInv'
      OBVIOUS
    <2>1. AlertTypeOK'
      BY AlertTypeStep DEF AloneInv
    <2>2. Undisturbed' => OneAtWork' /\ DueUnrecorded' /\ SentOnce'
      BY AlonePartsStep DEF AloneParts
    <2>3. QED
      BY <2>1, <2>2, NotBegunStep DEF AloneInv
  <1>3. AloneInv => OnceWhenAlone
    <2> SUFFICES ASSUME AloneInv, NEW k \in Deliveries, posts[k] > 1, Undisturbed PROVE FALSE
      BY DEF OnceWhenAlone, Undisturbed
    <2>1. posts[k] =< 1 /\ posts[k] \in Nat
      BY DEF AloneInv, SentOnce, AlertTypeOK
    <2>2. QED
      BY <2>1
  <1>4. QED
    BY <1>1, <1>2, <1>3, PTL DEF AlertSpec

-----------------------------------------------------------------------------
(* Alerts: a check that ends has notified                                  *)

\* A recorded delivery stays recorded.
RowsKept == \A k \in Deliveries : rows[k] # "none" => rows'[k] # "none"

\* The parts of Notifies, for citing them.
LEMMA NotifiesParts ==
    ASSUME NEW c \in Checkers, Notifies(c)
    PROVE  /\ check[c].phase = "chat" => check[c].owed = {} /\ check[c].windows = {}
           /\ check[c].phase = "list" => check[c].windows = {} /\ \A k \in check[c].owed : k[1] \in Range(alerts)
           /\ check[c].owed \subseteq Reached(used)
           /\ check[c].phase \in InLoop => IsInjective(check[c].todo)
           /\ \A p \in check[c].windows : p[1] \notin Ahead(check[c])
           /\ check[c].phase \in Looking =>
                 \A p \in check[c].windows : p[1] = Head(check[c].todo) => p[2] = check[c].window
           /\ check[c].phase \in InLoop \cup {"done"} => \A k \in check[c].owed : Attended(check[c], k)
  BY DEF Notifies

\* A check that keeps its place and what it read still attends to what it owes.
LEMMA NotifiesKept ==
    ASSUME NEW d \in Checkers, Notifies(d), RowsKept,
           Reached(used) \subseteq Reached(used'), Range(alerts) \subseteq Range(alerts'),
           check'[d].phase = check[d].phase, check'[d].todo = check[d].todo,
           check'[d].window = check[d].window, check'[d].used = check[d].used,
           check'[d].due = check[d].due, check'[d].owed = check[d].owed,
           check'[d].windows = check[d].windows
    PROVE  Notifies(d)'
  <1>1. Ahead(check[d])' = Ahead(check[d])
    BY DEF Ahead
  <1>2. ASSUME NEW k \in check[d].owed, Attended(check[d], k)
        PROVE  Attended(check[d], k)'
    <2>1. k \in Deliveries
      BY <1>2 DEF Notifies, Reached
    <2>2. rows[k] # "none" => rows'[k] # "none"
      BY <2>1 DEF RowsKept
    <2> HIDE DEF RowsKept
    <2>3. QED
      BY <1>1, <1>2, <2>2 DEF Attended, thresholdReached
  <1>3. QED
    BY <1>1, <1>2 DEF Notifies

\* Going on to the next alert, a check has the same alerts ahead.
LEMMA AheadNext ==
    ASSUME NEW r \in Check, r.phase \in Looking, r.todo # <<>>
    PROVE  Ahead(NextAlert(r)) = Ahead(r)
  <1>1. /\ NextAlert(r).phase \in {"done", "status"} /\ NextAlert(r).todo = Tail(r.todo)
        /\ NextAlert(r).phase = "done" => NextAlert(r).todo = <<>>
    BY NextAlertEffect
  <1>2. Range(<<>>) = {}
    BY DEF Range
  <1>3. Ahead(r) = Range(Tail(r.todo))
    BY DEF Ahead, Looking
  <1>4. CASE NextAlert(r).phase = "done"
    BY <1>1, <1>2, <1>3, <1>4 DEF Ahead, Looking
  <1>5. CASE NextAlert(r).phase = "status"
    BY <1>1, <1>3, <1>5 DEF Ahead
  <1>6. QED
    BY <1>1, <1>4, <1>5

\* A check goes on to its next alert with nothing left undone of the one at hand.
LEMMA NextAlertNotifies ==
    ASSUME AlertTypeOK, NEW c \in Checkers, Notifies(c), check[c].phase \in Looking,
           check'[c] = NextAlert(check[c]), UNCHANGED used, RowsKept,
           \A k \in check[c].owed : <<k[1], k[2]>> \in check[c].windows => rows'[k] # "none"
    PROVE  Notifies(c)'
  <1> DEFINE r == check[c]
             n == check'[c]
  <1>1. r \in Check /\ r.todo # <<>> /\ r.todo \in Seq(Budgets) /\ r.phase \in InLoop
    BY CheckTyped DEF InLoop, Running, Looking
  <1>2. /\ n.phase \in {"done", "status"} /\ n.todo = Tail(r.todo)
        /\ n.owed = r.owed /\ n.windows = r.windows
    BY <1>1, NextAlertEffect
  <1>3. Ahead(n) = Ahead(r)
    BY <1>1, AheadNext
  <1>4. IsInjective(n.todo)
    BY <1>1, <1>2, NextBudget DEF Notifies
  <1>5. ASSUME NEW k \in n.owed PROVE Attended(check[c], k)'
    <2>1. Attended(r, k)
      BY <1>1, <1>2 DEF Notifies
    <2>2. k[1] \in Ahead(n) \/ \E p \in n.windows : p[1] = k[1]
      BY <1>2, <1>3, <2>1 DEF Attended
    <2>3. <<k[1], k[2]>> \in n.windows => rows'[k] # "none"
      BY <1>2, <1>5
    <2>4. QED
      BY <2>2, <2>3 DEF Attended, Ahead
  <1>6. n.owed \subseteq Reached(used')
    BY <1>2 DEF Notifies
  <1>7. \A p \in n.windows : p[1] \notin Ahead(n)
    BY <1>2, <1>3 DEF Notifies
  <1>8. n.phase # "chat" /\ n.phase # "list" /\ n.phase \notin Looking
    BY <1>2 DEF Looking
  <1> HIDE DEF r
  <1>9. QED
    BY <1>4, <1>5, <1>6, <1>7, <1>8 DEF Notifies, Ahead

\* A check that has read the status of its next alert.
LEMMA StatusNotifies ==
    ASSUME AlertTypeOK, NEW c \in Checkers, Notifies(c), ReadStatus(c)
    PROVE  Notifies(c)'
  <1> DEFINE r == check[c]
             n == check'[c]
             b == Head(r.todo)
             v == periodWindow(day, Period[b])
  <1>1. /\ r.phase = "status" /\ n.phase = "rows" /\ n.todo = r.todo
        /\ v \in Days /\ n.window = v /\ n.used = used[b][v]
        /\ n.windows = r.windows \cup {<<b, v>>} /\ n.owed = r.owed
        /\ UNCHANGED <<used, alerts, rows>>
    BY StatusEffect
  <1>2. r \in Check /\ r.todo # <<>> /\ r.todo \in Seq(Budgets) /\ r.phase \in InLoop /\ r.phase \notin Looking
    BY <1>1, CheckTyped DEF InLoop, Running, Looking
  <1>3. /\ IsInjective(r.todo) /\ r.owed \subseteq Reached(used)
        /\ \A p \in r.windows : p[1] \notin Ahead(r)
        /\ \A k \in r.owed : Attended(r, k)
    BY <1>2, NotifiesParts
  <1>4. Ahead(r) = Range(r.todo) /\ Ahead(n) = Range(Tail(r.todo))
    BY <1>1 DEF Ahead, Looking
  <1>5. Range(r.todo) = {b} \cup Range(Tail(r.todo)) /\ b \notin Range(Tail(r.todo))
    BY <1>2, <1>3, NextBudget
  <1> HIDE DEF r, n, b, v
  <1>6. \A p \in n.windows : p[1] \notin Ahead(n)
    BY <1>1, <1>3, <1>4, <1>5
  <1>7. \A p \in n.windows : p[1] = Head(n.todo) => p[2] = n.window
    BY <1>1, <1>3, <1>4, <1>5 DEF b
  <1>8. ASSUME NEW k \in n.owed PROVE Attended(check[c], k)'
    <2>1. /\ k[1] \in Ahead(r) \/ \E p \in r.windows : p[1] = k[1]
          /\ <<k[1], k[2]>> \in r.windows => rows[k] # "none"
      BY <1>1, <1>2, <1>3, <1>8 DEF Attended
    <2>2. k[1] \in Ahead(n) \/ \E p \in n.windows : p[1] = k[1]
      <3>1. CASE k[1] = b
        <4>1. <<b, v>> \in n.windows /\ <<b, v>>[1] = b
          BY <1>1
        <4>2. QED
          BY <3>1, <4>1
      <3>2. CASE k[1] \in Range(Tail(r.todo))
        BY <1>4, <3>2
      <3>3. CASE \E p \in r.windows : p[1] = k[1]
        BY <1>1, <3>3
      <3>4. QED
        BY <1>4, <1>5, <2>1, <3>1, <3>2, <3>3
    <2>3. ASSUME <<k[1], k[2]>> \in n.windows
          PROVE  \/ rows[k] # "none"
                 \/ Head(n.todo) = k[1] /\ thresholdReached(n.used, Limit[k[1]], k[3])
      <3>1. CASE <<k[1], k[2]>> \in r.windows
        BY <2>1, <3>1
      <3>2. CASE k[1] = b /\ k[2] = v
        <4>1. thresholdReached(used[b][v], Limit[b], k[3])
          BY <1>1, <1>3, <1>8, <3>2 DEF Reached
        <4>2. QED
          BY <1>1, <3>2, <4>1 DEF b
      <3>3. QED
        BY <1>1, <2>3, <3>1, <3>2
    <2>4. QED
      BY <1>1, <2>2, <2>3 DEF Attended, Ahead, Looking, n, thresholdReached
  <1>9. n.owed \subseteq Reached(used')
    BY <1>1, <1>3
  <1>10. QED
    BY <1>1, <1>3, <1>6, <1>7, <1>8, <1>9 DEF Notifies, Ahead, n

\* A check that is about to deliver goes on with part of what is due, the rest recorded.
LEMMA DueNotifies ==
    ASSUME AlertTypeOK, NEW c \in Checkers, Notifies(c), check[c].phase \in Looking,
           check'[c].phase \in {"send", "insert"}, UNCHANGED used, RowsKept,
           check'[c].todo = check[c].todo, check'[c].window = check[c].window,
           check'[c].owed = check[c].owed, check'[c].windows = check[c].windows,
           \A k \in check[c].owed :
              /\ <<k[1], k[2]>> \in check[c].windows /\ Head(check[c].todo) = k[1] /\ k[2] = check[c].window
              /\ check[c].phase = "rows" => thresholdReached(check[c].used, Limit[k[1]], k[3])
              /\ check[c].phase \in {"send", "insert"} => k[3] \in check[c].due
              => rows'[k] # "none" \/ k[3] \in check'[c].due
    PROVE  Notifies(c)'
  <1> DEFINE r == check[c]
             n == check'[c]
  <1>1. r.phase \in InLoop /\ n.phase \in InLoop /\ n.phase \in Looking /\ n.phase \notin {"chat", "list", "rows"}
    BY DEF InLoop, Running, Looking
  <1>2. /\ IsInjective(r.todo) /\ r.owed \subseteq Reached(used)
        /\ \A p \in r.windows : p[1] \notin Ahead(r)
        /\ \A p \in r.windows : p[1] = Head(r.todo) => p[2] = r.window
        /\ \A k \in r.owed : Attended(r, k)
    BY <1>1, NotifiesParts
  <1>3. Ahead(n) = Ahead(r)
    BY <1>1 DEF Ahead, Looking
  <1>4. ASSUME NEW k \in n.owed PROVE Attended(check[c], k)'
    <2>1. Attended(r, k) /\ k \in Deliveries
      BY <1>2 DEF Reached
    <2>2. k[1] \in Ahead(n) \/ \E p \in n.windows : p[1] = k[1]
      BY <1>3, <2>1 DEF Attended
    <2>3. ASSUME <<k[1], k[2]>> \in n.windows
          PROVE  rows'[k] # "none" \/ (Head(n.todo) = k[1] /\ k[3] \in n.due)
      <3>1. CASE rows[k] # "none"
        BY <2>1, <3>1 DEF RowsKept
      <3>2. CASE rows[k] = "none"
        <4>1. /\ Head(r.todo) = k[1]
              /\ r.phase = "rows" => thresholdReached(r.used, Limit[k[1]], k[3])
              /\ r.phase \in {"send", "insert"} => k[3] \in r.due
          BY <2>1, <2>3, <3>2 DEF Attended
        <4>2. k[2] = r.window
          BY <1>2, <2>3, <4>1
        <4>3. QED
          BY <2>3, <4>1, <4>2
      <3>3. QED
        BY <3>1, <3>2
    <2>4. QED
      BY <1>1, <2>2, <2>3 DEF Attended, Ahead
  <1>5. QED
    BY <1>1, <1>2, <1>3, <1>4 DEF Notifies, Ahead

\* The invariant behind DoneMeansNotified is inductive.
LEMMA NotifyStep ==
    ASSUME NotifyInv, [AlertNext]_alertVars
    PROVE  NotifyInv'
  <1>t. AlertTypeOK /\ AlertTypeOK' /\ \A c \in Checkers : Notifies(c)
    BY AlertTypeStep DEF NotifyInv
  <1>r. Reached(used) \subseteq Reached(used')
    BY <1>t, UsageGrows
  <1>o. ASSUME NEW c \in Checkers, Others(c), RowsKept, UNCHANGED alerts, Notifies(c)' PROVE NotifyInv'
    <2>1. ASSUME NEW d \in Checkers \ {c} PROVE Notifies(d)'
      BY <1>t, <1>r, <1>o, NotifiesKept DEF Others
    <2>2. QED
      BY <1>t, <1>o, <2>1 DEF NotifyInv
  <1>u. rows' = rows => RowsKept
    BY DEF RowsKept
  <1>1. ASSUME NEW c \in Checkers, NEW x \in Costs, Meter(c, x)
        PROVE  NotifyInv'
    <2>1. /\ check[c].phase = "chat" /\ Others(c)
          /\ check'[c].phase = "list" /\ check'[c].windows = check[c].windows
          /\ \A k \in check'[c].owed : k \in Reached(used') /\ k[1] \in Range(alerts)
          /\ UNCHANGED <<alerts, rows>>
      BY <1>t, <1>1, MeterEffect
    <2>2. check'[c].windows = {}
      BY <1>t, <2>1, NotifiesParts
    <2>3. check'[c].phase \notin Looking /\ check'[c].phase \notin InLoop /\ check'[c].phase # "done"
          /\ check'[c].phase # "chat"
      BY <2>1 DEF Looking, InLoop
    <2>4. Notifies(c)'
      BY <2>1, <2>2, <2>3 DEF Notifies
    <2>5. QED
      BY <1>o, <1>u, <2>1, <2>4
  <1>2. ASSUME NEW c \in Checkers, ListAlerts(c)
        PROVE  NotifyInv'
    <2>1. /\ check[c].phase = "list"
          /\ check'[c].phase \in {"done", "status"} /\ check'[c].todo = alerts
          /\ check'[c].phase = "status" <=> alerts # <<>>
          /\ check'[c].owed = check[c].owed /\ check'[c].windows = check[c].windows
          /\ \A d \in Checkers \ {c} :
                 /\ check'[d].phase = check[d].phase /\ check'[d].todo = check[d].todo
                 /\ check'[d].window = check[d].window /\ check'[d].used = check[d].used
                 /\ check'[d].due = check[d].due
                 /\ check'[d].owed = check[d].owed /\ check'[d].windows = check[d].windows
          /\ UNCHANGED <<used, alerts, rows>>
      BY ZenonT(30), <1>t, <1>2, ListEffect
    <2>2. check[c].windows = {} /\ (\A k \in check[c].owed : k[1] \in Range(alerts)) /\ check[c].owed \subseteq Reached(used)
      BY <1>t, <2>1, NotifiesParts
    <2>3. IsInjective(alerts)
      BY <1>t DEF AlertTypeOK
    <2>4. \A k \in check[c].owed : k[1] \in Ahead(check'[c])
      <3>1. CASE check'[c].phase = "status"
        BY <2>1, <2>2, <3>1 DEF Ahead
      <3>2. CASE check'[c].phase = "done"
        <4>1. Range(alerts) = {}
          BY <2>1, <3>2 DEF Range
        <4>2. QED
          BY <2>2, <4>1
      <3>3. QED
        BY <2>1, <3>1, <3>2
    <2>5. \A k \in check'[c].owed : Attended(check[c], k)'
      BY <2>1, <2>2, <2>4 DEF Attended, Ahead
    <2>6. check'[c].phase \notin Looking /\ check'[c].phase # "chat" /\ check'[c].phase # "list"
      BY <2>1 DEF Looking
    <2>7. Notifies(c)'
      BY <2>1, <2>2, <2>3, <2>5, <2>6 DEF Notifies
    <2>8. ASSUME NEW d \in Checkers \ {c} PROVE Notifies(d)'
      BY <1>t, <1>r, <1>u, <2>1, NotifiesKept
    <2>9. QED
      BY <1>t, <2>7, <2>8 DEF NotifyInv
  <1>3. ASSUME NEW c \in Checkers, ReadStatus(c)
        PROVE  NotifyInv'
    <2>1. Others(c) /\ UNCHANGED <<alerts, rows>>
      BY <1>t, <1>3, StatusEffect
    <2>2. Notifies(c)'
      BY <1>t, <1>3, StatusNotifies
    <2>3. QED
      BY <1>o, <1>u, <2>1, <2>2
  <1>4. ASSUME NEW c \in Checkers, ReadRows(c)
        PROVE  NotifyInv'
    <2>1. /\ Others(c) /\ check[c].phase = "rows" /\ UNCHANGED <<alerts, used, rows>>
          /\ \/ DueNow(c) = {} /\ check'[c] = NextAlert(check[c])
             \/ /\ check'[c].phase = "send" /\ check'[c].due = DueNow(c)
                /\ check'[c].todo = check[c].todo /\ check'[c].window = check[c].window
                /\ check'[c].owed = check[c].owed /\ check'[c].windows = check[c].windows
      BY <1>t, <1>4, RowsEffect
    <2>2. check[c].phase \in Looking /\ check[c].phase \in InLoop
      BY <2>1 DEF Looking, InLoop, Running
    <2>3. ASSUME NEW k \in check[c].owed, Head(check[c].todo) = k[1], k[2] = check[c].window,
                 thresholdReached(check[c].used, Limit[k[1]], k[3])
          PROVE  rows[k] # "none" \/ k[3] \in DueNow(c)
      <3>1. k \in Deliveries
        BY <1>t, NotifiesParts DEF Reached
      <3>2. k = <<k[1], k[2], k[3]>> /\ k[3] \in alertThresholds
        BY <3>1 DEF Deliveries
      <3>3. QED
        BY <2>3, <3>2 DEF DueNow, Undelivered
    <2>4. CASE DueNow(c) = {} /\ check'[c] = NextAlert(check[c])
      <3>1. ASSUME NEW k \in check[c].owed, <<k[1], k[2]>> \in check[c].windows, rows'[k] = "none" PROVE FALSE
        <4>1. Attended(check[c], k)
          BY <1>t, <2>2, NotifiesParts
        <4>2. Head(check[c].todo) = k[1] /\ thresholdReached(check[c].used, Limit[k[1]], k[3])
          BY <2>1, <3>1, <4>1 DEF Attended
        <4>3. k[2] = check[c].window
          BY <1>t, <2>2, <3>1, <4>2, NotifiesParts
        <4>4. QED
          BY <2>1, <2>3, <2>4, <3>1, <4>2, <4>3
      <3>2. Notifies(c)'
        BY <1>t, <1>u, <2>1, <2>2, <2>4, <3>1, NextAlertNotifies
      <3>3. QED
        BY <1>o, <1>u, <2>1, <3>2
    <2>5. CASE ~ (DueNow(c) = {} /\ check'[c] = NextAlert(check[c]))
      <3>1. Notifies(c)'
        BY <1>t, <1>u, <2>1, <2>2, <2>3, <2>5, DueNotifies
      <3>2. QED
        BY <1>o, <1>u, <2>1, <3>1
    <2>6. QED
      BY <2>4, <2>5
  <1>5. ASSUME NEW c \in Checkers, NEW status \in {"success", "failed"},
               Post(c, status) \/ (PostSkipped(c) /\ status = "failed")
        PROVE  NotifyInv'
    <2>1. /\ check[c].phase = "send" /\ Others(c) /\ check'[c].phase = "insert"
          /\ check'[c].todo = check[c].todo /\ check'[c].window = check[c].window
          /\ check'[c].due = check[c].due /\ UNCHANGED <<used, alerts, rows>>
          /\ check'[c].owed = check[c].owed /\ check'[c].windows = check[c].windows
      BY <1>t, <1>5, PostEffect
    <2>2. check[c].phase \in Looking
      BY <2>1 DEF Looking
    <2>3. Notifies(c)'
      BY <1>t, <1>u, <2>1, <2>2, DueNotifies
    <2>4. QED
      BY <1>o, <1>u, <2>1, <2>3
  <1>6. ASSUME NEW c \in Checkers, InsertRow(c)
        PROVE  NotifyInv'
    <2> DEFINE rest == check[c].due \ {Min(check[c].due)}
    <2>1. /\ check[c].phase = "insert" /\ Others(c) /\ UNCHANGED <<used, alerts>>
          /\ \/ rest = {} /\ check'[c] = NextAlert(check[c])
             \/ /\ check'[c].phase = "send" /\ check'[c].due = rest
                /\ check'[c].todo = check[c].todo /\ check'[c].window = check[c].window
                /\ check'[c].owed = check[c].owed /\ check'[c].windows = check[c].windows
          /\ Delivery(c) \in Deliveries /\ check[c].sent \in {"success", "failed"}
          /\ rows' = [rows EXCEPT ![Delivery(c)] = check[c].sent]
      BY <1>t, <1>6, InsertEffect
    <2>2. check[c].phase \in Looking /\ check[c].phase \in InLoop
      BY <2>1 DEF Looking, InLoop, Running
    <2>r. rows \in [Deliveries -> {"none", "success", "failed"}]
      BY <1>t DEF AlertTypeOK
    <2>k. RowsKept /\ rows'[Delivery(c)] # "none"
      BY <2>1, <2>r DEF RowsKept
    <2>3. ASSUME NEW k \in check[c].owed, Head(check[c].todo) = k[1], k[2] = check[c].window,
                 k[3] \in check[c].due
          PROVE  rows'[k] # "none" \/ k[3] \in rest
      <3>1. k \in Deliveries
        BY <1>t, NotifiesParts DEF Reached
      <3>2. k = <<k[1], k[2], k[3]>>
        BY <3>1 DEF Deliveries
      <3>3. k[3] = Min(check[c].due) => k = Delivery(c)
        BY <2>3, <3>2 DEF Delivery
      <3>4. QED
        BY <2>3, <2>k, <3>3
    <2>4. CASE rest = {} /\ check'[c] = NextAlert(check[c])
      <3>1. ASSUME NEW k \in check[c].owed, <<k[1], k[2]>> \in check[c].windows, rows'[k] = "none" PROVE FALSE
        <4>1. Attended(check[c], k) /\ k \in Deliveries
          BY <1>t, <2>2, NotifiesParts DEF Reached
        <4>2. Head(check[c].todo) = k[1] /\ k[3] \in check[c].due
          BY <2>1, <2>k, <3>1, <4>1 DEF Attended, RowsKept
        <4>3. k[2] = check[c].window
          BY <1>t, <2>2, <3>1, <4>2, NotifiesParts
        <4>4. QED
          BY <2>3, <2>4, <3>1, <4>2, <4>3
      <3>2. Notifies(c)'
        BY <1>t, <2>k, <2>1, <2>2, <2>4, <3>1, NextAlertNotifies
      <3>3. QED
        BY <1>o, <2>k, <2>1, <3>2
    <2>5. CASE ~ (rest = {} /\ check'[c] = NextAlert(check[c]))
      <3>1. Notifies(c)'
        BY <1>t, <2>k, <2>1, <2>2, <2>3, <2>5, DueNotifies
      <3>2. QED
        BY <1>o, <2>k, <2>1, <3>1
    <2>6. QED
      BY <2>4, <2>5
  <1>7. ASSUME NEW c \in Checkers, InsertConflict(c) \/ Abort(c)
        PROVE  NotifyInv'
    <2>1. /\ Others(c) /\ check'[c].phase = "aborted" /\ check'[c].owed = {} /\ check'[c].windows = {}
          /\ UNCHANGED <<alerts, rows>>
      BY <1>t, <1>7, AbortEffect, GaveUpEffect
    <2>2. check'[c].phase \notin Looking /\ check'[c].phase \notin InLoop
      BY <2>1 DEF Looking, InLoop, Running
    <2>3. Notifies(c)'
      BY <2>1, <2>2 DEF Notifies
    <2>4. QED
      BY <1>o, <1>u, <2>1, <2>3
  <1>8. CASE \/ \E x \in Costs : MeterStream(x)
             \/ \E b \in Budgets : CreateAlert(b)
             \/ AdvanceDay \/ UNCHANGED alertVars
    <2>1. UNCHANGED <<rows, check>> /\ Range(alerts) \subseteq Range(alerts')
      BY <1>t, <1>8, WorldEffect
    <2>2. ASSUME NEW d \in Checkers PROVE Notifies(d)'
      BY <1>t, <1>r, <1>u, <2>1, NotifiesKept
    <2>3. QED
      BY <1>t, <2>2 DEF NotifyInv
  <1>9. QED
    BY <1>1, <1>2, <1>3, <1>4, <1>5, <1>6, <1>7, <1>8 DEF AlertNext

\* A check that ran to its end has left behind no alert its own call made due: for any
\* budgets, number of concurrent checks, costs and calendar.
THEOREM ChecksNotify == AlertSpec => []DoneMeansNotified
  <1>1. AlertInit => NotifyInv
    <2> SUFFICES ASSUME AlertInit PROVE NotifyInv
      OBVIOUS
    <2>1. \A c \in Checkers : check[c].phase = "chat" /\ check[c].owed = {} /\ check[c].windows = {}
      BY GaveUpEffect DEF AlertInit
    <2>2. \A c \in Checkers : Notifies(c)
      BY <2>1 DEF Notifies, Looking, InLoop, Running
    <2>3. QED
      BY <2>2, AlertTypeInit DEF NotifyInv
  <1>2. NotifyInv /\ [AlertNext]_alertVars => NotifyInv'
    BY NotifyStep
  <1>3. NotifyInv => DoneMeansNotified
    <2> SUFFICES ASSUME NotifyInv, NEW c \in Checkers, check[c].phase = "done", NEW k \in check[c].owed
                 PROVE  \/ rows[k] # "none"
                        \/ <<k[1], k[2]>> \notin check[c].windows /\ \E p \in check[c].windows : p[1] = k[1]
      BY DEF DoneMeansNotified
    <2>1. Attended(check[c], k)
      BY DEF NotifyInv, Notifies
    <2>2. Ahead(check[c]) = {}
      BY DEF Ahead, Looking
    <2>3. check[c].phase \notin Looking
      BY DEF Looking
    <2>4. QED
      BY <2>1, <2>2, <2>3 DEF Attended
  <1>4. QED
    BY <1>1, <1>2, <1>3, PTL DEF AlertSpec
=============================================================================
