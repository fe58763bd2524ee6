------------------------- MODULE GatewayEdgeProofs -------------------------
(***************************************************************************)
(* The rate limiter implements Allowance, cached answers fit, and an item  *)
(* is lost to its index in the three named ways only: for any number of    *)
(* requests in flight, keys, instances and minutes.                        *)
(***************************************************************************)
EXTENDS GatewayEdge, TLAPS

-----------------------------------------------------------------------------
(* Types                                                                   *)

\* What a worker knows, by where it is.
Informed(r) ==
    /\ r.pc \notin {"idle", "done"} => r.req \in Requests
    /\ r.pc \notin {"idle", "done", "answered"} => r.seal \in Seals
    /\ r.pc = "limit" => r.key \in ApiKeys
    /\ r.pc \in {"delete", "remove"} => r.gone \in ItemKeys

TypedInv == EdgeTypeOK /\ \A x \in Workers : Informed(w[x])

\* The constants are numbers.
LEMMA Numbers ==
    /\ WindowTTL \in Nat /\ WindowTTL >= 2 /\ MaxMinute \in Nat /\ Expiries \subseteq Nat
    /\ 0 \in Minutes /\ Minutes \subseteq Nat
  BY EdgeAssumption DEF Minutes

\* A worker that is idle or done is well-formed.
LEMMA IdleTyped == Idle \in Worker /\ [Idle EXCEPT !.pc = "done"] \in Worker
  <1>1. Idle \in Worker
    BY Numbers DEF Idle, Worker
  <1>2. QED
    BY <1>1 DEF Worker

\* The key a request is cached under is a cache key.
LEMMA ItemKeyTyped ==
    ASSUME NEW r \in Requests
    PROVE  ItemKey(r) \in ItemKeys
  BY DEF ItemKeys

\* A redacted request is a request.
LEMMA RedactedTyped ==
    ASSUME NEW r \in Requests
    PROVE  RedactPII(r) \in Requests
  BY EdgeAssumption DEF RedactPII, Detect

WorkersTyped == w \in [Workers -> Worker] /\ \A x \in Workers : Informed(w[x])

\* A step of one worker leaves the others alone.
LEMMA OneWorkerTyped ==
    ASSUME WorkersTyped, NEW x \in Workers, NEW r \in Worker, Informed(r), w' = [w EXCEPT ![x] = r]
    PROVE  WorkersTyped'
  BY DEF WorkersTyped

\* Every step of a worker leaves it a record that fits where it is.
LEMMA WorkerStepTyped ==
    ASSUME TypedInv, NEW x \in Workers, WorkerStep(x)
    PROVE  WorkersTyped'
  <1>a. EdgeTypeOK /\ WorkersTyped
    BY DEF TypedInv, EdgeTypeOK, WorkersTyped
  <1>w. w[x] \in Worker /\ Informed(w[x])
    BY <1>a DEF WorkersTyped
  <1>0. CASE Return(x)
    <2>1. Informed([Idle EXCEPT !.pc = "done"])
      BY DEF Informed, Idle
    <2>2. QED
      BY <1>0, <1>a, <2>1, IdleTyped, OneWorkerTyped DEF Return
  <1>g. ASSUME NEW pc \in {"set", "store", "add", "remove", "discard"}, Goto(x, pc),
               w[x].pc \notin {"idle", "done", "answered"}, pc = "remove" => w[x].gone \in ItemKeys
        PROVE  WorkersTyped'
    <2> DEFINE new == [w[x] EXCEPT !.pc = pc]
    <2>1. new \in Worker /\ Informed(new)
      BY <1>g, <1>w DEF Worker, Informed
    <2>2. QED
      BY <1>a, <1>g, <2>1, OneWorkerTyped DEF Goto
  <1>1. ASSUME NEW k \in ApiKeys, NEW r \in Inputs, NEW seal \in Seals, GatewayAPIKeyAuth(x, k, r, seal)
        PROVE  WorkersTyped'
    <2> DEFINE new == [Idle EXCEPT !.pc = "limit", !.key = k, !.minute = minute, !.seal = seal, !.req = r]
    <2>1. r \in Requests /\ minute \in Minutes
      BY EdgeAssumption, <1>a DEF EdgeTypeOK
    <2>2. new \in Worker /\ Informed(new)
      BY <2>1, IdleTyped DEF Worker, Informed
    <2>3. w' = [w EXCEPT ![x] = new]
      BY <1>1 DEF GatewayAPIKeyAuth
    <2>4. QED
      BY <1>a, <2>2, <2>3, OneWorkerTyped
  <1>2. CASE RateLimit(x)
    <2> DEFINE new == [w[x] EXCEPT !.pc = "content", !.key = None, !.minute = 0]
    <2>1. new \in Worker /\ Informed(new)
      BY <1>2, <1>w, Numbers DEF Worker, Informed, RateLimit, At
    <2>2. Return(x) \/ w' = [w EXCEPT ![x] = new]
      BY <1>2 DEF RateLimit
    <2>3. QED
      BY <1>0, <1>a, <2>1, <2>2, OneWorkerTyped
  <1>3. CASE applyContentPolicy(x)
    <2> DEFINE new(q) == [w[x] EXCEPT !.pc = "prompt", !.req = q]
    <2>1. \A q \in Requests : new(q) \in Worker /\ Informed(new(q))
      BY <1>3, <1>w DEF Worker, Informed, applyContentPolicy, At
    <2>2. w[x].req \in Requests /\ RedactPII(w[x].req) \in Requests
      BY <1>3, <1>w, RedactedTyped DEF applyContentPolicy, Informed, At
    <2>3. Return(x) \/ \E q \in Requests : w' = [w EXCEPT ![x] = new(q)]
      BY <1>3, <2>2, Zenon DEF applyContentPolicy
    <2>4. QED
      BY <1>0, <1>a, <2>1, <2>3, OneWorkerTyped
  <1>4. ASSUME NEW made \in Requests, NEW from \in {"prompt", "semantic"}, Answer(x, made, from),
               w[x].pc \notin {"idle", "done"}
        PROVE  WorkersTyped'
    <2> DEFINE new == [Idle EXCEPT !.pc = "answered", !.req = w[x].req, !.best = made, !.from = from]
    <2>0. w[x].req \in Requests
      BY <1>4, <1>w DEF Informed
    <2>1. new \in Worker /\ new.pc = "answered" /\ new.req = w[x].req
      BY <2>0, IdleTyped DEF Worker
    <2>2. Informed(new)
      <3> HIDE DEF new
      <3> QED BY <2>0, <2>1 DEF Informed
    <2>3. QED
      BY <1>4, <1>a, <2>1, <2>2, OneWorkerTyped DEF Answer
  <1>5. CASE PromptGet(x) \/ PromptDelete(x)
    <2>1. w[x].pc \in {"prompt", "discard"} /\ w[x].req \in Requests
      BY <1>5, <1>w DEF PromptGet, PromptDelete, At, Informed
    <2>2. CASE NoPromptHit(x)
      <3> DEFINE new(sem) == [w[x] EXCEPT !.sem = sem, !.pc = IF sem THEN "members" ELSE "provider"]
      <3>1. PICK sem \in {FALSE, semanticCacheCandidate(w[x].req)} : w' = [w EXCEPT ![x] = new(sem)]
        BY <2>2 DEF NoPromptHit
      <3>2. sem \in BOOLEAN
        BY DEF semanticCacheCandidate
      <3>3. /\ new(sem) \in Worker /\ new(sem).pc \in {"members", "provider"}
            /\ new(sem).req = w[x].req /\ new(sem).seal = w[x].seal
        <4>1. ASSUME NEW p \in {"members", "provider"}, NEW b \in BOOLEAN
              PROVE  /\ [w[x] EXCEPT !.sem = b, !.pc = p] \in Worker
                     /\ [w[x] EXCEPT !.sem = b, !.pc = p].pc = p
                     /\ [w[x] EXCEPT !.sem = b, !.pc = p].req = w[x].req
                     /\ [w[x] EXCEPT !.sem = b, !.pc = p].seal = w[x].seal
          <5>1. [w[x] EXCEPT !.sem = b, !.pc = p] \in Worker
            BY <1>w DEF Worker
          <5>2. QED
            BY <1>w, <5>1 DEF Worker
        <4>2. (IF sem THEN "members" ELSE "provider") \in {"members", "provider"}
          OBVIOUS
        <4>3. QED
          BY <3>2, <4>1, <4>2
      <3>4. Informed(new(sem))
        <4>1. w[x].seal \in Seals
          BY <1>w, <2>1 DEF Informed
        <4> HIDE DEF new
        <4>2. QED
          BY <2>1, <3>3, <4>1 DEF Informed
      <3>5. QED
        BY <1>a, <3>1, <3>3, <3>4, OneWorkerTyped
    <2>3. CASE Readable(x, prompts[w[x].req]) /\ Answer(x, prompts[w[x].req].made, "prompt")
      <3>1. prompts[w[x].req].made \in Requests
        BY <1>a, <2>1, <2>3 DEF EdgeTypeOK, Sealings, Readable
      <3>2. QED
        BY <1>4, <2>1, <2>3, <3>1
    <2>4. CASE Goto(x, "discard")
      BY <1>g, <2>1, <2>4
    <2>5. QED
      BY <1>5, <2>2, <2>3, <2>4 DEF PromptGet, PromptDelete, PromptKey
  <1>6. CASE LookupMembers(x)
    <2> DEFINE todo == {i \in index : semanticIndexKey(i[1], i[2])
                                                = semanticIndexKey(w[x].req.org, w[x].req.model)}
               new == [w[x] EXCEPT !.pc = "lookup", !.todo = todo]
    <2>1. todo \in SUBSET ItemKeys
      BY <1>a DEF EdgeTypeOK
    <2>2. new \in Worker /\ Informed(new)
      BY <1>6, <1>w, <2>1 DEF Worker, Informed, LookupMembers, At
    <2>3. QED
      BY <1>6, <1>a, <2>2, OneWorkerTyped DEF LookupMembers
  <1>7. ASSUME NEW i \in ItemKeys, LookupGet(x, i)
        PROVE  WorkersTyped'
    <2> DEFINE pc == IF Dropped(x, i) THEN DropFrom(i) ELSE w[x].pc
               gone == IF Dropped(x, i) THEN i ELSE w[x].gone
               best == IF ~Dropped(x, i) /\ Better(x, i) THEN items[i].made ELSE w[x].best
               new == [w[x] EXCEPT !.todo = @ \ {i}, !.pc = pc, !.gone = gone, !.best = best]
    <2>1. w[x].pc = "lookup" /\ pc \in {"lookup", "delete", "remove"}
      BY <1>7 DEF LookupGet, At, DropFrom
    <2>2. gone \in ItemKeys \cup {<<>>} /\ (pc # "lookup" => gone \in ItemKeys)
      BY <1>w, <2>1 DEF Worker
    <2>3. best \in Requests \cup {NoRequest}
      <3>1. ~Dropped(x, i) => items[i] # Miss
        BY DEF Dropped
      <3>2. items[i] # Miss => items[i].made \in Requests
        BY <1>a DEF EdgeTypeOK, Sealings
      <3>3. w[x].best \in Requests \cup {NoRequest}
        BY <1>w DEF Worker
      <3>4. QED
        BY <3>1, <3>2, <3>3
    <2> HIDE DEF pc, gone, best
    <2>4. new \in Worker /\ Informed(new)
      BY <1>w, <2>1, <2>2, <2>3 DEF Worker, Informed
    <2>5. w' = [w EXCEPT ![x] = new]
      BY <1>7 DEF LookupGet, pc, gone, best
    <2>6. QED
      BY <1>a, <2>4, <2>5, OneWorkerTyped
  <1>8. CASE LookupDelete(x)
    BY <1>8, <1>g, <1>w DEF LookupDelete, At, Informed
  <1>9. CASE LookupRemove(x)
    <2> DEFINE new == [w[x] EXCEPT !.pc = "lookup", !.gone = <<>>]
    <2>1. new \in Worker /\ Informed(new)
      BY <1>9, <1>w DEF Worker, Informed, LookupRemove, At
    <2>2. QED
      BY <1>9, <1>a, <2>1, OneWorkerTyped DEF LookupRemove
  <1>10. CASE LookupDone(x)
    <2> DEFINE new == [w[x] EXCEPT !.pc = "provider", !.best = NoRequest]
    <2>1. new \in Worker /\ Informed(new)
      BY <1>10, <1>w DEF Worker, Informed, LookupDone, At
    <2>2. w[x].best # NoRequest => w[x].best \in Requests
      BY <1>w DEF Worker
    <2>3. \/ w[x].best # NoRequest /\ Answer(x, w[x].best, "semantic")
          \/ w' = [w EXCEPT ![x] = new]
      BY <1>10 DEF LookupDone
    <2>4. w[x].pc = "lookup"
      BY <1>10 DEF LookupDone, At
    <2>5. QED
      BY <1>4, <1>a, <2>1, <2>2, <2>3, <2>4, OneWorkerTyped
  <1>11. CASE Complete(x) \/ PromptSet(x) \/ StoreItem(x) \/ StoreIndex(x)
    BY <1>11, <1>0, <1>g DEF Complete, PromptSet, StoreItem, StoreIndex, At
  <1>12. CASE LookupFails(x)
    <2> DEFINE new == [w[x] EXCEPT !.pc = "provider", !.todo = {}, !.best = NoRequest]
    <2>1. new \in Worker /\ Informed(new)
      BY <1>12, <1>w DEF Worker, Informed, LookupFails
    <2>2. QED
      BY <1>12, <1>a, <2>1, OneWorkerTyped DEF LookupFails
  <1>13. CASE Finish(x)
    BY <1>13, <1>0 DEF Finish
  <1>14. QED
    BY <1>1, <1>2, <1>3, <1>5, <1>6, <1>7, <1>8, <1>9, <1>10, <1>11, <1>12, <1>13 DEF WorkerStep

\* What a worker is about to cache can be cached.
LEMMA SealedTyped ==
    ASSUME TypedInv, NEW x \in Workers, w[x].pc \in {"set", "store"}
    PROVE  Sealed(x) \in Sealings /\ w[x].req \in Requests
  BY DEF TypedInv, Informed, Sealed, Sealings

\* Every step keeps the caches, the counters and the workers well-formed.
LEMMA TypedStep == TypedInv /\ [EdgeNext]_evars => TypedInv'
  <1> SUFFICES ASSUME TypedInv, [EdgeNext]_evars PROVE TypedInv'
    OBVIOUS
  <1>a. EdgeTypeOK /\ WorkersTyped
    BY DEF TypedInv, EdgeTypeOK, WorkersTyped
  <1>1. ASSUME NEW k \in ApiKeys, NEW e \in Expiries, CreateAPIKey(k, e)
        PROVE  TypedInv'
    BY <1>1, <1>a, Numbers DEF CreateAPIKey, ApiKey, TypedInv, EdgeTypeOK, caches
  <1>2. ASSUME NEW k \in ApiKeys, RevokeAPIKey(k)
        PROVE  TypedInv'
    BY <1>2, <1>a DEF RevokeAPIKey, TypedInv, EdgeTypeOK, caches
  <1>3. ASSUME NEW o \in Orgs, NEW a \in Actions, CreateContentPolicy(o, a)
        PROVE  TypedInv'
    <2>1. policies' \in [Orgs -> Seq(Actions)]
      BY <1>3, <1>a DEF CreateContentPolicy, EdgeTypeOK
    <2>2. QED
      BY <1>3, <1>a, <2>1 DEF CreateContentPolicy, TypedInv, EdgeTypeOK, caches
  <1>4. CASE Tick
    <2>1. minute' \in Minutes
      BY <1>4, <1>a, Numbers DEF Tick, EdgeTypeOK, Minutes
    <2>2. counters' \in [ApiKeys \X Minutes -> [count: Nat, dies: Nat]]
      BY <1>4, <1>a DEF Tick, EdgeTypeOK, NoCounter
    <2>3. prompts' \in [Requests -> Sealings] /\ items' \in [ItemKeys -> Sealings]
      BY <1>4, <1>a DEF Tick, EdgeTypeOK, Sealings
    <2>4. unlisted' \in SUBSET ItemKeys
      BY <1>4, <1>a DEF Tick, EdgeTypeOK
    <2>5. QED
      BY <1>4, <1>a, <2>1, <2>2, <2>3, <2>4 DEF Tick, TypedInv, EdgeTypeOK
  <1>5. ASSUME NEW x \in Workers, WorkerStep(x)
        PROVE  TypedInv'
    <2>1. WorkersTyped'
      BY <1>5, WorkerStepTyped
    <2>2. UNCHANGED config
      BY <1>5 DEF WorkerStep, config, GatewayAPIKeyAuth, RateLimit, applyContentPolicy, PromptGet, PromptDelete,
             LookupMembers, LookupDelete, LookupRemove, LookupDone, LookupGet, Complete, PromptSet,
             StoreItem, StoreIndex, LookupFails, Finish
    <2>3. /\ counters' \in [ApiKeys \X Minutes -> [count: Nat, dies: Nat]]
          /\ admitted' \in [ApiKeys \X Minutes -> Nat]
      <3>1. CASE RateLimit(x)
        <4> DEFINE c == <<w[x].key, w[x].minute>>
        <4>1. c \in ApiKeys \X Minutes
          BY <3>1, <1>a DEF RateLimit, At, WorkersTyped, Worker, Informed
        <4>2. minute \in Nat
          BY <1>a, Numbers DEF EdgeTypeOK
        <4>3. incrementWithTTLScript(c) \in [count: Nat, dies: Nat]
          BY <1>a, <4>1, <4>2, Numbers DEF incrementWithTTLScript, EdgeTypeOK
        <4>4. /\ counters' = [counters EXCEPT ![c] = incrementWithTTLScript(c)]
              /\ admitted' = admitted \/ admitted' = [admitted EXCEPT ![c] = @ + 1]
          BY <3>1 DEF RateLimit
        <4> HIDE DEF c
        <4>5. /\ counters \in [ApiKeys \X Minutes -> [count: Nat, dies: Nat]]
              /\ admitted \in [ApiKeys \X Minutes -> Nat]
          BY <1>a DEF EdgeTypeOK
        <4>6. counters' \in [ApiKeys \X Minutes -> [count: Nat, dies: Nat]]
          BY <4>1, <4>3, <4>4, <4>5
        <4>7. admitted[c] + 1 \in Nat
          BY <4>1, <4>5
        <4>8. QED
          BY <4>1, <4>4, <4>5, <4>6, <4>7
      <3>2. CASE UNCHANGED <<counters, admitted>>
        BY <3>2, <1>a DEF EdgeTypeOK
      <3>3. QED
        BY <1>5, <3>1, <3>2 DEF WorkerStep, GatewayAPIKeyAuth, applyContentPolicy, PromptGet, PromptDelete,
             LookupMembers, LookupDelete, LookupRemove, LookupDone, LookupGet, Complete, PromptSet,
             StoreItem, StoreIndex, LookupFails, Finish
    <2>4. prompts' \in [Requests -> Sealings]
      <3>1. prompts' = prompts \/ (\E p : prompts' = [prompts EXCEPT ![p] = Miss])
            \/ (w[x].pc = "set" /\ \E p : prompts' = [prompts EXCEPT ![p] = Sealed(x)])
        BY <1>5 DEF WorkerStep, GatewayAPIKeyAuth, RateLimit, applyContentPolicy, PromptGet, PromptDelete, caches,
             LookupMembers, LookupDelete, LookupRemove, LookupDone, LookupGet, Complete, PromptSet,
             StoreItem, StoreIndex, LookupFails, Finish, At
      <3>2. QED
        BY <1>a, <3>1, SealedTyped DEF EdgeTypeOK, Sealings
    <2>5. items' \in [ItemKeys -> Sealings]
      <3>1. items' = items \/ (\E i : items' = [items EXCEPT ![i] = Miss])
            \/ (w[x].pc = "store" /\ \E i : items' = [items EXCEPT ![i] = Sealed(x)])
        BY <1>5 DEF WorkerStep, GatewayAPIKeyAuth, RateLimit, applyContentPolicy, PromptGet, PromptDelete, caches,
             LookupMembers, LookupDelete, LookupRemove, LookupDone, LookupGet, Complete, PromptSet,
             StoreItem, StoreIndex, LookupFails, Finish, At
      <3>2. QED
        BY <1>a, <3>1, SealedTyped DEF EdgeTypeOK, Sealings
    <2>6. index' \in SUBSET ItemKeys /\ unlisted' \in SUBSET ItemKeys
      <3>1. /\ w[x].pc = "add" => ItemKey(w[x].req) \in ItemKeys
            /\ w[x].pc = "delete" => w[x].gone \in ItemKeys
        BY <1>a, ItemKeyTyped DEF WorkersTyped, Informed
      <3>2. QED
        BY <1>5, <1>a, <3>1 DEF EdgeTypeOK, WorkerStep, GatewayAPIKeyAuth, RateLimit, applyContentPolicy,
             PromptGet, PromptDelete, caches, LookupMembers, LookupDelete, LookupRemove, LookupDone, LookupGet,
             Complete, PromptSet, StoreItem, StoreIndex, LookupFails, Finish, At
    <2>7. paid' \in SUBSET Requests
      <3>1. w[x].pc = "provider" => w[x].req \in Requests
        BY <1>a DEF WorkersTyped, Informed
      <3>2. QED
        BY <1>5, <1>a, <3>1 DEF EdgeTypeOK, WorkerStep, GatewayAPIKeyAuth, RateLimit, applyContentPolicy,
             PromptGet, PromptDelete, caches, LookupMembers, LookupDelete, LookupRemove, LookupDone, LookupGet,
             Complete, PromptSet, StoreItem, StoreIndex, LookupFails, Finish, At
    <2>8. QED
      BY <1>a, <2>1, <2>2, <2>3, <2>4, <2>5, <2>6, <2>7
         DEF TypedInv, EdgeTypeOK, WorkersTyped, config
  <1>6. CASE UNCHANGED evars
    BY <1>6, <1>a DEF evars, config, caches, TypedInv, EdgeTypeOK
  <1>7. QED
    BY <1>1, <1>2, <1>3, <1>4, <1>5, <1>6 DEF EdgeNext

\* Empty caches and idle workers are well-formed.
LEMMA TypedInit == EdgeInit => TypedInv
  <1> SUFFICES ASSUME EdgeInit PROVE TypedInv
    OBVIOUS
  <1>1. Informed(Idle)
    BY DEF Informed, Idle
  <1>2. policies \in [Orgs -> Seq(Actions)]
    BY DEF EdgeInit
  <1>3. QED
    BY <1>1, <1>2, Numbers, IdleTyped DEF EdgeInit, TypedInv, EdgeTypeOK, NoCounter, Sealings

\* Keys, counters, cached answers and the requests in flight keep their types.
THEOREM EdgeTyped == EdgeSpec => []EdgeTypeOK
  <1>1. TypedInv => EdgeTypeOK
    BY DEF TypedInv
  <1>2. QED
    BY <1>1, TypedInit, TypedStep, PTL DEF EdgeSpec

-----------------------------------------------------------------------------
(* The limiter                                                             *)

\* A request runs its script in the minute it has read, or in the next one.
InTime ==
    \A x \in Workers : At(x, "limit") => w[x].minute =< minute /\ minute =< w[x].minute + 1

\* The counter of a minute outlives it by one; until then it has counted every
\* request let through in its name.
CountersTell ==
    \A k \in ApiKeys, m \in Minutes :
        /\ counters[<<k, m>>].count > 0 => counters[<<k, m>>].dies >= m + WindowTTL
        /\ minute =< m + 1 => admitted[<<k, m>>] =< counters[<<k, m>>].count

LimitInv == TypedInv /\ InTime /\ CountersTell

\* What a worker does once it is past the limiter.
PastLimit(x) ==
    \/ applyContentPolicy(x) \/ PromptGet(x) \/ PromptDelete(x)
    \/ LookupMembers(x) \/ LookupDelete(x) \/ LookupRemove(x) \/ LookupDone(x)
    \/ \E i \in ItemKeys : LookupGet(x, i)
    \/ Complete(x) \/ PromptSet(x) \/ StoreItem(x) \/ StoreIndex(x)
    \/ LookupFails(x) \/ Finish(x)

\* A worker past the rate limiter does not touch its counters.
LEMMA PastLimitFrame ==
    ASSUME TypedInv, NEW x \in Workers, PastLimit(x)
    PROVE  /\ UNCHANGED <<config, counters, admitted>> /\ w'[x].pc # "limit"
           /\ \A y \in Workers \ {x} : w'[y] = w[y]
  <1>w. w \in [Workers -> Worker] /\ w[x] \in Worker
    BY DEF TypedInv, EdgeTypeOK
  <1>1. UNCHANGED <<config, counters, admitted>>
    BY DEF PastLimit, applyContentPolicy, PromptGet, PromptDelete, LookupMembers, LookupDelete, LookupRemove, LookupDone,
           LookupGet, Complete, PromptSet, StoreItem, StoreIndex, LookupFails, Finish
  <1>2. \E r : w' = [w EXCEPT ![x] = r]
    BY Zenon
       DEF PastLimit, applyContentPolicy, PromptGet, PromptDelete, LookupMembers, LookupDelete, LookupRemove, LookupDone,
           LookupGet, Complete, PromptSet, StoreItem, StoreIndex, LookupFails, Finish, NoPromptHit, Answer,
           Return, Goto
  <1>3. w'[x].pc # "limit"
    <2>1. CASE Return(x) \/ \E pc \in {"set", "store", "add", "remove", "discard"} : Goto(x, pc)
      BY <2>1, <1>w DEF Return, Goto, Idle, Worker
    <2>2. CASE \E made, from : Answer(x, made, from)
      BY <2>2, <1>w DEF Answer, Idle
    <2>n. CASE NoPromptHit(x)
      <3>1. PICK sem \in {FALSE, semanticCacheCandidate(w[x].req)} :
               w' = [w EXCEPT ![x].sem = sem, ![x].pc = IF sem THEN "members" ELSE "provider"]
        BY <2>n DEF NoPromptHit
      <3>2. w'[x].pc = IF sem THEN "members" ELSE "provider"
        BY <3>1, <1>w DEF Worker
      <3>3. QED
        BY <3>2
    <2>3. CASE applyContentPolicy(x) \/ LookupMembers(x) \/ LookupRemove(x) \/ LookupFails(x)
      <3>1. CASE applyContentPolicy(x)
        <4>1. Return(x) \/ \E q : w' = [w EXCEPT ![x] = [w[x] EXCEPT !.pc = "prompt", !.req = q]]
          BY <3>1, Zenon DEF applyContentPolicy
        <4>2. CASE \E q : w' = [w EXCEPT ![x] = [w[x] EXCEPT !.pc = "prompt", !.req = q]]
          BY <4>2, <1>w DEF Worker
        <4>3. QED
          BY <2>1, <4>1, <4>2
      <3>2. CASE LookupMembers(x)
        BY <3>2, <1>w DEF LookupMembers, Worker
      <3>3. CASE LookupRemove(x) \/ LookupFails(x)
        BY <3>3, <1>w DEF LookupRemove, LookupFails, Worker
      <3>4. QED
        BY <2>3, <3>1, <3>2, <3>3
    <2>4. CASE LookupDone(x)
      <3>1. Answer(x, w[x].best, "semantic") \/ w' = [w EXCEPT ![x].pc = "provider", ![x].best = NoRequest]
        BY <2>4 DEF LookupDone
      <3>2. CASE w' = [w EXCEPT ![x].pc = "provider", ![x].best = NoRequest]
        BY <3>2, <1>w DEF Worker
      <3>3. QED
        BY <2>2, <3>1, <3>2
    <2>5. ASSUME NEW i \in ItemKeys, LookupGet(x, i)
          PROVE  w'[x].pc # "limit"
      <3> DEFINE pc == IF Dropped(x, i) THEN DropFrom(i) ELSE w[x].pc
      <3>1. pc \in {"lookup", "delete", "remove"}
        BY <2>5 DEF LookupGet, At, DropFrom
      <3>2. w'[x].pc = pc
        BY <2>5, <1>w DEF LookupGet, Worker
      <3>3. QED
        BY <3>1, <3>2
    <2>6. QED
      BY <2>1, <2>2, <2>n, <2>3, <2>4, <2>5
         DEF PastLimit, PromptGet, PromptDelete, LookupDelete, Complete, PromptSet, StoreItem, StoreIndex, Finish
  <1>4. QED
    BY <1>1, <1>2, <1>3, <1>w

\* Every step keeps LimitInv: a counter of Redis is never behind what was admitted.
LEMMA LimitStep == LimitInv /\ [EdgeNext]_evars => LimitInv'
  <1> SUFFICES ASSUME LimitInv, [EdgeNext]_evars PROVE LimitInv'
    OBVIOUS
  <1>t. TypedInv /\ TypedInv'
    BY TypedStep DEF LimitInv
  <1>a. /\ w \in [Workers -> Worker] /\ minute \in Nat /\ Minutes \subseteq Nat
        /\ \A x \in Workers : w[x].minute \in Minutes
        /\ counters \in [ApiKeys \X Minutes -> [count: Nat, dies: Nat]]
        /\ admitted \in [ApiKeys \X Minutes -> Nat]
    BY <1>t, Numbers DEF TypedInv, EdgeTypeOK, Worker
  <1>1. CASE UNCHANGED <<minute, counters, admitted, w>>
    BY <1>1, <1>t DEF LimitInv, InTime, CountersTell, At
  <1>2. CASE Tick
    <2>1. minute' = minute + 1 /\ UNCHANGED <<admitted, w>>
      BY <1>2 DEF Tick
    <2>2. InTime'
      BY <1>2, <1>a, <2>1 DEF Tick, InTime, At
    <2>3. ASSUME NEW k \in ApiKeys, NEW m \in Minutes
          PROVE  /\ counters'[<<k, m>>].count > 0 => counters'[<<k, m>>].dies >= m + WindowTTL
                 /\ minute' =< m + 1 => admitted'[<<k, m>>] =< counters'[<<k, m>>].count
      <3> DEFINE c == <<k, m>>
      <3>1. counters'[c] = IF counters[c].dies =< minute + 1 THEN NoCounter ELSE counters[c]
        BY <1>2, <1>a DEF Tick
      <3>2. /\ counters[c].count \in Nat /\ counters[c].dies \in Nat /\ admitted[c] \in Nat
            /\ m \in Nat /\ WindowTTL \in Nat /\ WindowTTL >= 2
        BY <1>a, Numbers
      <3>3. /\ counters[c].count > 0 => counters[c].dies >= m + WindowTTL
            /\ minute =< m + 1 => admitted[c] =< counters[c].count
        BY DEF LimitInv, CountersTell
      <3> HIDE DEF c
      <3>4. counters'[c] = counters[c] \/ (counters'[c].count = 0 /\ counters[c].dies =< minute + 1)
        BY <3>1 DEF NoCounter
      <3>5. counters'[c].count > 0 => counters'[c].dies >= m + WindowTTL
        BY <3>3, <3>4
      <3>6. minute' =< m + 1 => admitted'[c] =< counters'[c].count
        BY <1>a, <2>1, <3>2, <3>3, <3>4
      <3>7. QED
        BY <3>5, <3>6 DEF c
    <2>4. QED
      BY <1>t, <2>2, <2>3 DEF LimitInv, CountersTell
  <1>3. ASSUME NEW x \in Workers, NEW k \in ApiKeys, NEW r \in Inputs, NEW seal \in Seals,
               GatewayAPIKeyAuth(x, k, r, seal)
        PROVE  LimitInv'
    <2>1. w'[x].minute = minute /\ \A y \in Workers \ {x} : w'[y] = w[y]
      BY <1>3, <1>a DEF GatewayAPIKeyAuth, Idle
    <2>2. UNCHANGED <<minute, counters, admitted>>
      BY <1>3 DEF GatewayAPIKeyAuth, config
    <2>3. InTime'
      BY <1>a, <2>1, <2>2 DEF LimitInv, InTime, At
    <2>4. QED
      BY <1>t, <2>2, <2>3 DEF LimitInv, CountersTell
  <1>4. ASSUME NEW x \in Workers, RateLimit(x)
        PROVE  LimitInv'
    <2> DEFINE c == <<w[x].key, w[x].minute>>
    <2>1. c \in ApiKeys \X Minutes /\ w[x].minute \in Nat /\ w[x].minute =< minute
      BY <1>4, <1>t, <1>a DEF RateLimit, At, TypedInv, Informed, LimitInv, InTime
    <2>2. /\ counters' = [counters EXCEPT ![c] = incrementWithTTLScript(c)]
          /\ UNCHANGED minute
          /\ admitted' = admitted \/ admitted' = [admitted EXCEPT ![c] = @ + 1]
      BY <1>4 DEF RateLimit, config
    <2>3. w'[x].pc # "limit" /\ \A y \in Workers \ {x} : w'[y] = w[y]
      <3>1. w[x] \in Worker
        BY <1>a
      <3>2. QED
        BY <1>4, <1>a, <3>1 DEF RateLimit, Return, Idle, Worker
    <2>4. InTime'
      BY <2>2, <2>3 DEF LimitInv, InTime, At
    <2>5. ASSUME NEW k \in ApiKeys, NEW m \in Minutes
          PROVE  /\ counters'[<<k, m>>].count > 0 => counters'[<<k, m>>].dies >= m + WindowTTL
                 /\ minute' =< m + 1 => admitted'[<<k, m>>] =< counters'[<<k, m>>].count
      <3>1. /\ counters[<<k, m>>].count > 0 => counters[<<k, m>>].dies >= m + WindowTTL
            /\ minute =< m + 1 => admitted[<<k, m>>] =< counters[<<k, m>>].count
        BY DEF LimitInv, CountersTell
      <3>2. CASE <<k, m>> # c
        BY <1>a, <2>1, <2>2, <3>1, <3>2
      <3>3. CASE <<k, m>> = c
        <4>1. m = w[x].minute
          BY <3>3
        <4>2. /\ counters'[c].count = counters[c].count + 1
              /\ counters'[c].dies = IF counters[c].count = 0 THEN minute + WindowTTL ELSE counters[c].dies
          BY <1>a, <2>1, <2>2 DEF incrementWithTTLScript
        <4>3. admitted'[c] \in {admitted[c], admitted[c] + 1}
          BY <1>a, <2>1, <2>2
        <4>4. counters[c].count \in Nat /\ counters[c].dies \in Nat /\ admitted[c] \in Nat
              /\ WindowTTL \in Nat
          BY <1>a, <2>1, Numbers
        <4>5. QED
          BY <1>a, <2>1, <2>2, <3>1, <3>3, <4>1, <4>2, <4>3, <4>4
      <3>4. QED
        BY <3>2, <3>3
    <2>6. QED
      BY <1>t, <2>4, <2>5 DEF LimitInv, CountersTell
  <1>5. ASSUME NEW x \in Workers, PastLimit(x)
        PROVE  LimitInv'
    <2>1. /\ UNCHANGED <<config, counters, admitted>> /\ w'[x].pc # "limit"
          /\ \A y \in Workers \ {x} : w'[y] = w[y]
      BY <1>5, <1>t, PastLimitFrame
    <2>2. QED
      BY <1>t, <2>1 DEF LimitInv, InTime, CountersTell, At, config
  <1>6. CASE UNCHANGED evars
    BY <1>1, <1>6 DEF evars, config
  <1>7. ASSUME NEW x \in Workers, WorkerStep(x)
        PROVE  LimitInv'
    BY <1>3, <1>4, <1>5, <1>7 DEF WorkerStep, PastLimit
  <1>8. CASE \/ \E k \in ApiKeys, e \in Expiries : CreateAPIKey(k, e)
             \/ \E k \in ApiKeys : RevokeAPIKey(k)
             \/ \E o \in Orgs, a \in Actions : CreateContentPolicy(o, a)
    BY <1>1, <1>8 DEF CreateAPIKey, RevokeAPIKey, CreateContentPolicy
  <1>9. QED
    BY <1>2, <1>6, <1>7, <1>8 DEF EdgeNext

\* A step lets through no request, or one that the limit still allows.
LEMMA StepGrants == LimitInv /\ [EdgeNext]_evars => [Limit!Next]_admitted
  <1> SUFFICES ASSUME LimitInv, [EdgeNext]_evars, admitted' # admitted PROVE Limit!Next
    OBVIOUS
  <1>a. /\ TypedInv /\ minute \in Nat /\ Minutes \subseteq Nat
        /\ counters \in [ApiKeys \X Minutes -> [count: Nat, dies: Nat]]
        /\ admitted \in [ApiKeys \X Minutes -> Nat]
    BY Numbers DEF LimitInv, TypedInv, EdgeTypeOK
  <1>1. PICK x \in Workers : RateLimit(x)
    <2>1. ASSUME NEW x \in Workers, WorkerStep(x)
          PROVE  RateLimit(x)
      <3>1. ~PastLimit(x)
        BY <1>a, PastLimitFrame
      <3>2. QED
        BY <2>1, <3>1 DEF WorkerStep, PastLimit, GatewayAPIKeyAuth
    <2>2. QED
      BY <2>1 DEF EdgeNext, evars, CreateAPIKey, RevokeAPIKey, CreateContentPolicy, Tick
  <1> DEFINE k == w[x].key
             m == w[x].minute
             c == <<k, m>>
  <1>2. k \in ApiKeys /\ m \in Minutes /\ minute =< m + 1
    BY <1>1, <1>a DEF RateLimit, At, TypedInv, EdgeTypeOK, Worker, Informed, LimitInv, InTime
  <1>3. admitted' = [admitted EXCEPT ![c] = @ + 1] /\ counters[c].count + 1 =< RPMLimit[k]
    <2>1. counters'[c].count = counters[c].count + 1
      BY <1>1, <1>2, <1>a DEF RateLimit, incrementWithTTLScript
    <2>2. admitted' = [admitted EXCEPT ![c] = @ + 1] /\ Allow(k, counters'[c].count)
      BY <1>1 DEF RateLimit
    <2>3. QED
      BY <2>1, <2>2 DEF Allow
  <1>4. admitted[c] =< counters[c].count
    BY <1>2 DEF LimitInv, CountersTell
  <1>5. admitted[c] < RPMLimit[k]
    <2>1. RPMLimit[k] \in Nat /\ admitted[c] \in Nat /\ counters[c].count \in Nat
      BY <1>2, <1>a, EdgeAssumption
    <2>2. QED
      BY <1>3, <1>4, <2>1
  <1>6. Limit!Grant(k, m)
    BY <1>3, <1>5 DEF Limit!Grant
  <1>7. QED
    BY <1>2, <1>6 DEF Limit!Next

\* RedisLimiter.Allow implements a rate limit: however many requests are in flight
\* between reading the clock and running the script, across the end of a minute and
\* with lost answers, no key gets more than rpm_limit requests through in the name of
\* one minute, because a counter lives for at least two.
THEOREM LimiterImplementsAllowance == EdgeSpec => ImplementsAllowance
  <1>1. EdgeInit => LimitInv /\ Limit!Init
    <2> SUFFICES ASSUME EdgeInit PROVE LimitInv /\ Limit!Init
      OBVIOUS
    <2>1. InTime
      BY DEF EdgeInit, InTime, At, Idle
    <2>2. CountersTell
      BY DEF EdgeInit, CountersTell, NoCounter
    <2>3. QED
      BY <2>1, <2>2, TypedInit DEF LimitInv, EdgeInit, Limit!Init
  <1>2. QED
    BY <1>1, LimitStep, StepGrants, PTL DEF EdgeSpec, ImplementsAllowance, Limit!Spec

-----------------------------------------------------------------------------
(* The caches: whose answers they give                                     *)

\* An answer that the semantic cache may give to r when the requests P are paid for:
\* of the same organisation, for the same model, and itself fit to be reused.
Usable(a, r, P) == a \in P /\ a.org = r.org /\ a.model = r.model /\ semanticCacheCandidate(a)

\* What is stored under a key was paid for and is found by a request it belongs to.
CachesTell ==
    /\ \A p \in Requests : prompts[p] # Miss => prompts[p].made = p /\ p \in paid
    /\ \A i \in ItemKeys : items[i] # Miss =>
          LET a == items[i].made IN a \in paid /\ ItemKey(a) = i /\ semanticCacheCandidate(a)

\* What a worker may rely on: before a lookup or a store its request has been found to
\* be a candidate, what it stores has been metered, and the best answer so far is one
\* of its own organisation and model.
Served(r, P) ==
    /\ r.pc \in {"members", "lookup", "delete", "remove", "store"} => semanticCacheCandidate(r.req)
    /\ r.pc \in {"provider", "set"} /\ r.sem => semanticCacheCandidate(r.req)
    /\ r.pc \in {"set", "store"} => r.req \in P
    /\ r.pc \in {"lookup", "delete", "remove"} =>
          \A i \in r.todo : i[1] = r.req.org /\ i[2] = r.req.model
    /\ r.pc \in {"members", "lookup", "delete", "remove"} /\ r.best # NoRequest => Usable(r.best, r.req, P)
    /\ r.pc \in {"limit", "content", "prompt", "discard"} => r.best = NoRequest
    /\ r.pc = "answered" /\ r.from = "prompt" => r.best = r.req /\ r.req \in P
    /\ r.pc = "answered" /\ r.from = "semantic" =>
          /\ Usable(r.best, r.req, P) /\ semanticCacheCandidate(r.req)
          /\ Score[r.req.text, r.best.text] >= Threshold
    /\ r.pc = "answered" => r.from \in {"prompt", "semantic"}

AllServed == \A x \in Workers : Served(w[x], paid)
ServeInv == TypedInv /\ CachesTell /\ AllServed

\* A step that changes one worker leaves what the others were served as it is.
LEMMA OneServed ==
    ASSUME TypedInv, AllServed, NEW x \in Workers, NEW r, w' = [w EXCEPT ![x] = r], paid \subseteq paid',
           Served(r, paid')
    PROVE  AllServed'
  <1>1. w \in [Workers -> Worker]
    BY DEF TypedInv, EdgeTypeOK
  <1>2. \A y \in Workers : w'[y] = IF y = x THEN r ELSE w[y]
    BY <1>1
  <1>3. \A y \in Workers : Served(w[y], paid) => Served(w[y], paid')
    <2>1. \A a, q : Usable(a, q, paid) => Usable(a, q, paid')
      BY DEF Usable
    <2>2. \A q : Served(q, paid) => Served(q, paid')
      <3> SUFFICES ASSUME NEW q, Served(q, paid) PROVE Served(q, paid')
        OBVIOUS
      <3>1. /\ q.pc \in {"set", "store"} => q.req \in paid'
            /\ q.pc = "answered" /\ q.from = "prompt" => q.best = q.req /\ q.req \in paid'
        BY DEF Served
      <3>2. /\ q.pc \in {"members", "lookup", "delete", "remove"} /\ q.best # NoRequest =>
                  Usable(q.best, q.req, paid')
            /\ q.pc = "answered" /\ q.from = "semantic" => Usable(q.best, q.req, paid')
        BY <2>1 DEF Served
      <3>3. QED
        BY <3>1, <3>2 DEF Served
    <2>3. QED
      BY <2>2
  <1>4. QED
    BY <1>2, <1>3 DEF AllServed

\* A worker's step serves it what its own request may see.
LEMMA WorkerStepServes ==
    ASSUME ServeInv, NEW x \in Workers, WorkerStep(x)
    PROVE  AllServed'
  <1>w. w[x] \in Worker /\ Informed(w[x]) /\ Served(w[x], paid) /\ TypedInv /\ AllServed /\ CachesTell
    BY DEF ServeInv, TypedInv, EdgeTypeOK, AllServed
  <1>0. CASE UNCHANGED paid /\ Return(x)
    <2>1. Served([Idle EXCEPT !.pc = "done"], paid')
      BY DEF Served, Idle
    <2>2. QED
      BY <1>0, <1>w, <2>1, OneServed DEF Return
  <1>1. ASSUME NEW k \in ApiKeys, NEW r \in Inputs, NEW seal \in Seals, GatewayAPIKeyAuth(x, k, r, seal)
        PROVE  AllServed'
    <2> DEFINE new == [Idle EXCEPT !.pc = "limit", !.key = k, !.minute = minute, !.seal = seal, !.req = r]
    <2>1. Served(new, paid')
      BY DEF Served, Idle
    <2>2. w' = [w EXCEPT ![x] = new] /\ UNCHANGED paid
      BY <1>1 DEF GatewayAPIKeyAuth
    <2>3. QED
      BY <1>w, <2>1, <2>2, OneServed
  <1>2. CASE RateLimit(x)
    <2> DEFINE new == [w[x] EXCEPT !.pc = "content", !.key = None, !.minute = 0]
    <2>1. Served(new, paid')
      BY <1>2, <1>w DEF Worker, Served, RateLimit, At
    <2>2. UNCHANGED paid /\ (Return(x) \/ w' = [w EXCEPT ![x] = new])
      BY <1>2 DEF RateLimit
    <2>3. QED
      BY <1>0, <1>w, <2>1, <2>2, OneServed
  <1>3. CASE applyContentPolicy(x)
    <2> DEFINE new(q) == [w[x] EXCEPT !.pc = "prompt", !.req = q]
    <2>1. ASSUME NEW q PROVE Served(new(q), paid')
      BY <1>3, <1>w DEF Worker, Served, applyContentPolicy, At
    <2>3. UNCHANGED paid /\ (Return(x) \/ \E q : w' = [w EXCEPT ![x] = new(q)])
      BY <1>3, <1>w DEF applyContentPolicy, Worker
    <2>4. QED
      BY <1>0, <1>w, <2>1, <2>3, OneServed
  <1>5. CASE PromptGet(x) \/ PromptDelete(x)
    <2>1. w[x].pc \in {"prompt", "discard"} /\ w[x].req \in Requests /\ w[x].best = NoRequest /\ UNCHANGED paid
      BY <1>5, <1>w DEF PromptGet, PromptDelete, At, Informed, Served
    <2>2. CASE NoPromptHit(x)
      <3> DEFINE new(sem) == [w[x] EXCEPT !.sem = sem, !.pc = IF sem THEN "members" ELSE "provider"]
      <3>1. PICK sem \in {FALSE, semanticCacheCandidate(w[x].req)} : w' = [w EXCEPT ![x] = new(sem)]
        BY <2>2 DEF NoPromptHit
      <3>2. sem \in BOOLEAN /\ (sem => semanticCacheCandidate(w[x].req))
        BY DEF semanticCacheCandidate
      <3>3. Served(new(sem), paid')
        BY <1>w, <2>1, <3>2 DEF Worker, Served
      <3>4. QED
        BY <1>w, <2>1, <3>1, <3>3, OneServed
    <2>3. CASE Readable(x, prompts[w[x].req]) /\ Answer(x, prompts[w[x].req].made, "prompt")
      <3> DEFINE made == prompts[w[x].req].made
                 new == [Idle EXCEPT !.pc = "answered", !.req = w[x].req, !.best = made, !.from = "prompt"]
      <3>1. made = w[x].req /\ w[x].req \in paid
        BY <1>w, <2>1, <2>3 DEF Readable, CachesTell
      <3>2. Served(new, paid')
        BY <2>1, <3>1 DEF Served, Idle
      <3>3. QED
        BY <1>w, <2>1, <2>3, <3>2, OneServed DEF Answer
    <2>4. CASE Goto(x, "discard")
      <3> DEFINE new == [w[x] EXCEPT !.pc = "discard"]
      <3>1. Served(new, paid')
        BY <1>w, <2>1 DEF Worker, Served
      <3>2. QED
        BY <1>w, <2>1, <2>4, <3>1, OneServed DEF Goto
    <2>5. QED
      BY <1>5, <2>2, <2>3, <2>4 DEF PromptGet, PromptDelete, PromptKey
  <1>6. CASE LookupMembers(x)
    <2> DEFINE todo == {i \in index : semanticIndexKey(i[1], i[2])
                                                = semanticIndexKey(w[x].req.org, w[x].req.model)}
               new == [w[x] EXCEPT !.pc = "lookup", !.todo = todo]
    <2>1. \A i \in todo : i[1] = w[x].req.org /\ i[2] = w[x].req.model
      BY DEF semanticIndexKey
    <2>2. Served(new, paid')
      <3> HIDE DEF todo
      <3> QED
        BY <1>6, <1>w, <2>1 DEF Worker, Served, LookupMembers, At
    <2>3. QED
      BY <1>6, <1>w, <2>2, OneServed DEF LookupMembers
  <1>7. ASSUME NEW i \in ItemKeys, LookupGet(x, i)
        PROVE  AllServed'
    <2> DEFINE pc == IF Dropped(x, i) THEN DropFrom(i) ELSE w[x].pc
               gone == IF Dropped(x, i) THEN i ELSE w[x].gone
               best == IF ~Dropped(x, i) /\ Better(x, i) THEN items[i].made ELSE w[x].best
               new == [w[x] EXCEPT !.todo = @ \ {i}, !.pc = pc, !.gone = gone, !.best = best]
    <2>1. /\ w[x].pc = "lookup" /\ pc \in {"lookup", "delete", "remove"} /\ UNCHANGED paid
          /\ i \in w[x].todo
      BY <1>7 DEF LookupGet, At, DropFrom
    <2>3. best = NoRequest \/ Usable(best, w[x].req, paid)
      <3>1. CASE ~Dropped(x, i) /\ Better(x, i)
        <4>1. items[i].made \in paid /\ ItemKey(items[i].made) = i /\ semanticCacheCandidate(items[i].made)
          BY <1>w, <3>1 DEF Dropped, CachesTell
        <4>2. i[1] = w[x].req.org /\ i[2] = w[x].req.model
          BY <1>w, <2>1 DEF Served
        <4>3. QED
          BY <3>1, <4>1, <4>2 DEF Usable, ItemKey
      <3>2. CASE ~(~Dropped(x, i) /\ Better(x, i))
        BY <1>w, <2>1, <3>2 DEF Served
      <3>3. QED
        BY <3>1, <3>2
    <2> HIDE DEF pc, gone, best
    <2>4. Served(new, paid')
      BY <1>w, <2>1, <2>3 DEF Worker, Served
    <2>5. w' = [w EXCEPT ![x] = new]
      BY <1>7 DEF LookupGet, pc, gone, best
    <2>6. QED
      BY <1>w, <2>1, <2>4, <2>5, OneServed
  <1>8. CASE LookupDelete(x)
    <2> DEFINE new == [w[x] EXCEPT !.pc = "remove"]
    <2>1. Served(new, paid')
      BY <1>8, <1>w DEF Worker, Served, LookupDelete, At
    <2>2. QED
      BY <1>8, <1>w, <2>1, OneServed DEF LookupDelete, Goto
  <1>9. CASE LookupRemove(x)
    <2> DEFINE new == [w[x] EXCEPT !.pc = "lookup", !.gone = <<>>]
    <2>1. Served(new, paid')
      BY <1>9, <1>w DEF Worker, Served, LookupRemove, At
    <2>2. QED
      BY <1>9, <1>w, <2>1, OneServed DEF LookupRemove
  <1>10. CASE LookupDone(x)
    <2> DEFINE miss == [w[x] EXCEPT !.pc = "provider", !.best = NoRequest]
               hit == [Idle EXCEPT !.pc = "answered", !.req = w[x].req, !.best = w[x].best,
                                   !.from = "semantic"]
    <2>1. w[x].pc = "lookup" /\ UNCHANGED paid
      BY <1>10 DEF LookupDone, At
    <2>2. Served(miss, paid')
      BY <1>w, <2>1 DEF Worker, Served
    <2>3. ASSUME w[x].best # NoRequest, Score[w[x].req.text, w[x].best.text] >= Threshold
          PROVE  Served(hit, paid')
      BY <1>w, <2>1, <2>3 DEF Served, Idle
    <2>4. \/ /\ w[x].best # NoRequest /\ Score[w[x].req.text, w[x].best.text] >= Threshold
             /\ w' = [w EXCEPT ![x] = hit]
          \/ w' = [w EXCEPT ![x] = miss]
      BY <1>10 DEF LookupDone, Answer
    <2>5. QED
      BY <1>w, <2>1, <2>2, <2>3, <2>4, OneServed
  <1>11. CASE Complete(x)
    <2> DEFINE new == [w[x] EXCEPT !.pc = "set"]
    <2>1. Served(new, paid')
      BY <1>11, <1>w DEF Worker, Served, Complete, At
    <2>2. QED
      BY <1>11, <1>w, <2>1, OneServed DEF Complete, Goto
  <1>12. CASE PromptSet(x)
    <2> DEFINE new == [w[x] EXCEPT !.pc = "store"]
    <2>1. w[x].sem => Served(new, paid')
      BY <1>12, <1>w DEF Worker, Served, PromptSet, At
    <2>2. QED
      BY <1>0, <1>12, <1>w, <2>1, OneServed DEF PromptSet, Goto
  <1>13. CASE StoreItem(x)
    <2> DEFINE new == [w[x] EXCEPT !.pc = "add"]
    <2>1. Served(new, paid')
      BY <1>13, <1>w DEF Worker, Served, StoreItem, At
    <2>2. QED
      BY <1>13, <1>w, <2>1, OneServed DEF StoreItem, Goto
  <1>14. CASE LookupFails(x)
    <2> DEFINE new == [w[x] EXCEPT !.pc = "provider", !.todo = {}, !.best = NoRequest]
    <2>1. Served(new, paid')
      BY <1>14, <1>w DEF Worker, Served, LookupFails
    <2>2. QED
      BY <1>14, <1>w, <2>1, OneServed DEF LookupFails
  <1>15. CASE StoreIndex(x) \/ Finish(x)
    BY <1>15, <1>0 DEF StoreIndex, Finish
  <1>16. QED
    BY <1>1, <1>2, <1>3, <1>5, <1>6, <1>7, <1>8, <1>9, <1>10, <1>11, <1>12, <1>13, <1>14, <1>15 DEF WorkerStep

\* Only a worker that has paid for an answer stores it, under the key of its request.
LEMMA CachesStillTell ==
    ASSUME ServeInv, [EdgeNext]_evars
    PROVE  CachesTell'
  <1>a. /\ TypedInv /\ CachesTell /\ AllServed
        /\ prompts \in [Requests -> Sealings] /\ items \in [ItemKeys -> Sealings]
    BY DEF ServeInv, TypedInv, EdgeTypeOK
  <1>1. ASSUME paid \subseteq paid',
               \A p \in Requests : prompts'[p] = Miss \/ prompts'[p] = prompts[p],
               \A i \in ItemKeys : items'[i] = Miss \/ items'[i] = items[i]
        PROVE  CachesTell'
    BY <1>1, <1>a DEF CachesTell
  <1>2. ASSUME NEW x \in Workers, WorkerStep(x)
        PROVE  CachesTell'
    <2>w. Served(w[x], paid)
      BY <1>a DEF AllServed
    <2>1. CASE PromptSet(x)
      <3>1. w[x].req \in Requests /\ w[x].req \in paid /\ UNCHANGED <<items, paid>>
        BY <2>1, <2>w, <1>a, SealedTyped DEF PromptSet, At, Served
      <3>2. \A p \in Requests : prompts'[p] = prompts[p] \/ (p = w[x].req /\ prompts'[p] = Sealed(x))
        BY <2>1, <1>a DEF PromptSet, PromptKey
      <3>3. Sealed(x).made = w[x].req
        BY DEF Sealed
      <3>4. QED
        BY <1>a, <3>1, <3>2, <3>3 DEF CachesTell
    <2>2. CASE StoreItem(x)
      <3>1. /\ w[x].req \in paid /\ semanticCacheCandidate(w[x].req) /\ UNCHANGED <<prompts, paid>>
        BY <2>2, <2>w, <1>a DEF StoreItem, At, Served
      <3>2. \A i \in ItemKeys : items'[i] = items[i] \/ (i = ItemKey(w[x].req) /\ items'[i] = Sealed(x))
        BY <2>2, <1>a DEF StoreItem
      <3>3. Sealed(x).made = w[x].req
        BY DEF Sealed
      <3>4. QED
        BY <1>a, <3>1, <3>2, <3>3 DEF CachesTell
    <2>3. CASE ~PromptSet(x) /\ ~StoreItem(x)
      <3>1. /\ paid \subseteq paid'
            /\ prompts' = prompts \/ (\E p : prompts' = [prompts EXCEPT ![p] = Miss])
            /\ items' = items \/ (\E i : items' = [items EXCEPT ![i] = Miss])
        BY <1>2, <2>3 DEF WorkerStep, GatewayAPIKeyAuth, RateLimit, applyContentPolicy, PromptGet, PromptDelete, caches,
             LookupMembers, LookupDelete, LookupRemove, LookupDone, LookupGet, Complete,
             StoreIndex, LookupFails, Finish
      <3>2. QED
        BY <1>1, <1>a, <3>1
    <2>4. QED
      BY <2>1, <2>2, <2>3
  <1>3. CASE Tick
    BY <1>1, <1>3 DEF Tick
  <1>4. CASE UNCHANGED evars
    BY <1>1, <1>4 DEF evars, caches
  <1>5. CASE \/ \E k \in ApiKeys, e \in Expiries : CreateAPIKey(k, e)
             \/ \E k \in ApiKeys : RevokeAPIKey(k)
             \/ \E o \in Orgs, a \in Actions : CreateContentPolicy(o, a)
    BY <1>1, <1>5 DEF CreateAPIKey, RevokeAPIKey, CreateContentPolicy, caches
  <1>6. QED
    BY <1>2, <1>3, <1>4, <1>5 DEF EdgeNext

\* Every step keeps ServeInv.
LEMMA ServeStep == ServeInv /\ [EdgeNext]_evars => ServeInv'
  <1> SUFFICES ASSUME ServeInv, [EdgeNext]_evars PROVE ServeInv'
    OBVIOUS
  <1>1. TypedInv' /\ CachesTell'
    BY TypedStep, CachesStillTell DEF ServeInv
  <1>2. CASE UNCHANGED <<paid, w>>
    BY <1>1, <1>2 DEF ServeInv, AllServed
  <1>3. CASE ~UNCHANGED <<paid, w>>
    <2>1. PICK x \in Workers : WorkerStep(x)
      BY <1>3 DEF EdgeNext, evars, CreateAPIKey, RevokeAPIKey, CreateContentPolicy, Tick
    <2>2. QED
      BY <1>1, <2>1, WorkerStepServes DEF ServeInv
  <1>4. QED
    BY <1>2, <1>3

\* Whatever the order of lookups, stores, expiry and redaction, an answer from a cache
\* was paid for by the organisation that gets it, for the model it asked for: by the
\* very request in the exact cache, by one similar enough in the semantic cache, which
\* neither serves nor keeps a request that is risky or too warm.
THEOREM CachedAnswersFit == EdgeSpec => []AnswersFit
  <1>1. EdgeInit => ServeInv
    <2> SUFFICES ASSUME EdgeInit PROVE ServeInv
      OBVIOUS
    <2>1. Served(Idle, paid)
      BY DEF Served, Idle
    <2>2. QED
      BY <2>1, TypedInit DEF EdgeInit, ServeInv, CachesTell, AllServed
  <1>2. ServeInv => AnswersFit
    BY DEF ServeInv, AllServed, AnswersFit, Served, Usable, semanticCacheCandidate, At
  <1>3. QED
    BY <1>1, <1>2, ServeStep, PTL DEF EdgeSpec

-----------------------------------------------------------------------------
(* The semantic index: which items it loses                                *)

\* Listed: no clean-up of a Lookup is about to take the entry away.
Removing(x, i) == At(x, "remove") /\ w[x].gone = i
Adding(x, i) == At(x, "add") /\ ItemKey(w[x].req) = i
Listed(i) == i \in index /\ \A x \in Workers : ~Removing(x, i)
Explained(i) == items[i] = Miss \/ i \in unlisted \/ \E x \in Workers : Adding(x, i)

\* An entry goes away only for an item whose absence is explained already.
Indexed == \A i \in ItemKeys : Listed(i) \/ Explained(i)
IndexInv == TypedInv /\ Indexed

\* The steps that neither write the semantic cache nor come to or leave one of the
\* places from which a worker will.
LEMMA StillIndexed ==
    ASSUME Indexed, UNCHANGED <<index, items, unlisted>>, NEW x \in Workers,
           \A y \in Workers \ {x} : w'[y] = w[y],
           w[x].pc \notin {"remove", "add"}, w'[x].pc \notin {"remove", "add"}
    PROVE  Indexed'
  BY DEF Indexed, Listed, Explained, Removing, Adding, At

\* A worker's step leaves no item outside the index without an explanation.
LEMMA IndexWorkerStep ==
    ASSUME IndexInv, NEW x \in Workers, WorkerStep(x)
    PROVE  Indexed'
  <1>w. /\ TypedInv /\ Indexed /\ w \in [Workers -> Worker] /\ w[x] \in Worker /\ Informed(w[x])
        /\ items \in [ItemKeys -> Sealings] /\ index \in SUBSET ItemKeys
    BY DEF IndexInv, TypedInv, EdgeTypeOK
  <1>y. \A y \in Workers \ {x} : w'[y] = w[y]
    <2>1. CASE PastLimit(x)
      BY <1>w, <2>1, PastLimitFrame
    <2>2. CASE ~PastLimit(x)
      BY <1>w, <2>2 DEF WorkerStep, PastLimit, GatewayAPIKeyAuth, RateLimit, Return
    <2>3. QED
      BY <2>1, <2>2
  <1>r. ASSUME Return(x) PROVE w'[x].pc = "done"
    BY <1>r, <1>w DEF Return, Idle
  <1>g. ASSUME NEW pc, Goto(x, pc) PROVE w'[x].pc = pc /\ w'[x].gone = w[x].gone /\ w'[x].req = w[x].req
    BY <1>g, <1>w DEF Goto, Worker
  <1>1. ASSUME NEW k \in ApiKeys, NEW r \in Inputs, NEW seal \in Seals, GatewayAPIKeyAuth(x, k, r, seal)
        PROVE  Indexed'
    <2>1. w'[x].pc = "limit" /\ w[x].pc = "idle" /\ UNCHANGED <<index, items, unlisted>>
      BY <1>1, <1>w DEF GatewayAPIKeyAuth, At, Idle, caches
    <2>2. QED
      BY <1>w, <1>y, <2>1, StillIndexed
  <1>2. CASE RateLimit(x)
    <2>1. w'[x].pc \in {"content", "done"}
      BY <1>2, <1>w, <1>r DEF RateLimit, Worker
    <2>2. w[x].pc = "limit" /\ UNCHANGED <<index, items, unlisted>>
      BY <1>2 DEF RateLimit, At, caches
    <2>3. QED
      BY <1>w, <1>y, <2>1, <2>2, StillIndexed
  <1>3. CASE applyContentPolicy(x)
    <2>1. w'[x].pc \in {"prompt", "done"}
      BY <1>3, <1>w, <1>r DEF applyContentPolicy, Worker
    <2>2. w[x].pc = "content" /\ UNCHANGED <<index, items, unlisted>>
      BY <1>3 DEF applyContentPolicy, At, caches
    <2>3. QED
      BY <1>w, <1>y, <2>1, <2>2, StillIndexed
  <1>4. ASSUME NEW made, NEW from, Answer(x, made, from) PROVE w'[x].pc = "answered"
    BY <1>4, <1>w DEF Answer, Idle
  <1>5. CASE PromptGet(x) \/ PromptDelete(x)
    <2>1. ASSUME NoPromptHit(x) PROVE w'[x].pc \in {"members", "provider"}
      <3>1. PICK sem \in {FALSE, semanticCacheCandidate(w[x].req)} :
               w' = [w EXCEPT ![x].sem = sem, ![x].pc = IF sem THEN "members" ELSE "provider"]
        BY <2>1 DEF NoPromptHit
      <3>2. QED
        BY <3>1, <1>w DEF Worker
    <2>2. w[x].pc \in {"prompt", "discard"} /\ UNCHANGED <<index, items, unlisted>>
      BY <1>5 DEF PromptGet, PromptDelete, At, caches
    <2>3. w'[x].pc \in {"members", "provider", "answered", "discard"}
      BY <1>5, <1>4, <1>g, <2>1 DEF PromptGet, PromptDelete
    <2>4. QED
      BY <1>w, <1>y, <2>2, <2>3, StillIndexed
  <1>6. CASE LookupMembers(x) \/ LookupFails(x)
    <2>1. w'[x].pc \in {"lookup", "provider"}
      BY <1>6, <1>w DEF LookupMembers, LookupFails, Worker
    <2>2. w[x].pc \in {"members", "lookup"} /\ UNCHANGED <<index, items, unlisted>>
      BY <1>6 DEF LookupMembers, LookupFails, At, caches
    <2>3. QED
      BY <1>w, <1>y, <2>1, <2>2, StillIndexed
  <1>7. ASSUME NEW i \in ItemKeys, LookupGet(x, i)
        PROVE  Indexed'
    <2>1. w[x].pc = "lookup" /\ UNCHANGED <<index, items, unlisted>>
      BY <1>7 DEF LookupGet, At, caches
    <2>2. /\ w'[x].pc = IF Dropped(x, i) THEN DropFrom(i) ELSE w[x].pc
          /\ w'[x].gone = IF Dropped(x, i) THEN i ELSE w[x].gone
      BY <1>7, <1>w DEF LookupGet, Worker
    <2>3. /\ w'[x].pc \in {"lookup", "delete", "remove"}
          /\ w'[x].pc = "remove" => w'[x].gone = i /\ items[i] = Miss
      BY <2>1, <2>2 DEF DropFrom
    <2>4. QED
      BY <1>w, <1>y, <2>1, <2>3 DEF Indexed, Listed, Explained, Removing, Adding, At
  <1>8. CASE LookupDelete(x)
    <2> DEFINE i == w[x].gone
    <2>1. /\ w[x].pc = "delete" /\ UNCHANGED index
          /\ w'[x].pc = "remove" /\ w'[x].gone = i /\ i \in ItemKeys
      BY <1>8, <1>w, <1>g DEF LookupDelete, At, Informed
    <2>2. /\ items'[i] = Miss \/ i \in unlisted'
          /\ \A j \in ItemKeys \ {i} : items'[j] = items[j] /\ (j \in unlisted' <=> j \in unlisted)
      <3>1. \/ items' = [items EXCEPT ![i] = Miss] /\ unlisted' = unlisted \ {i}
            \/ /\ unlisted' = IF items[i] = Miss THEN unlisted ELSE unlisted \cup {i}
               /\ items' = items
        BY <1>8 DEF LookupDelete
      <3> HIDE DEF i
      <3>2. QED
        BY <1>w, <2>1, <3>1
    <2> HIDE DEF i
    <2>3. QED
      BY <1>w, <1>y, <2>1, <2>2 DEF Indexed, Listed, Explained, Removing, Adding, At
  <1>9. CASE LookupRemove(x)
    <2>1. /\ w[x].pc = "remove" /\ UNCHANGED <<items, unlisted>>
          /\ index' = index \ {w[x].gone} \/ index' = index
          /\ w'[x].pc = "lookup"
      BY <1>9, <1>w DEF LookupRemove, At, Worker
    <2>2. QED
      BY <1>w, <1>y, <2>1 DEF Indexed, Listed, Explained, Removing, Adding, At
  <1>10. CASE LookupDone(x)
    <2>1. w'[x].pc \in {"answered", "provider"}
      <3>1. \/ Answer(x, w[x].best, "semantic")
            \/ w' = [w EXCEPT ![x].pc = "provider", ![x].best = NoRequest]
        BY <1>10 DEF LookupDone
      <3>2. QED
        BY <1>w, <1>4, <3>1 DEF Worker
    <2>2. w[x].pc = "lookup" /\ UNCHANGED <<index, items, unlisted>>
      BY <1>10 DEF LookupDone, At, caches
    <2>3. QED
      BY <1>w, <1>y, <2>1, <2>2, StillIndexed
  <1>11. CASE Complete(x) \/ PromptSet(x)
    <2>1. w'[x].pc \in {"set", "store", "done"}
      BY <1>11, <1>r, <1>g DEF Complete, PromptSet
    <2>2. w[x].pc \in {"provider", "set"} /\ UNCHANGED <<index, items, unlisted>>
      BY <1>11 DEF Complete, PromptSet, At, caches
    <2>3. QED
      BY <1>w, <1>y, <2>1, <2>2, StillIndexed
  <1>12. CASE StoreItem(x)
    <2> DEFINE i == ItemKey(w[x].req)
    <2>1. /\ w[x].pc = "store" /\ UNCHANGED <<index, unlisted>>
          /\ w'[x].pc = "add" /\ ItemKey(w'[x].req) = i /\ i \in ItemKeys
      BY <1>12, <1>w, <1>g, ItemKeyTyped DEF StoreItem, At, Informed
    <2>2. \A j \in ItemKeys \ {i} : items'[j] = items[j]
      BY <1>12, <1>w DEF StoreItem
    <2> HIDE DEF i
    <2>3. QED
      BY <1>w, <1>y, <2>1, <2>2 DEF Indexed, Listed, Explained, Removing, Adding, At
  <1>13. CASE StoreIndex(x)
    <2> DEFINE i == ItemKey(w[x].req)
    <2>1. /\ w[x].pc = "add" /\ w'[x].pc = "done" /\ UNCHANGED items /\ index' = index \cup {i}
          /\ unlisted' = IF \E y \in Workers : Removing(y, i) THEN unlisted \cup {i} ELSE unlisted \ {i}
      BY <1>13, <1>r DEF StoreIndex, At, Removing
    <2>3. ASSUME NEW j \in ItemKeys
          PROVE  (Listed(j) \/ Explained(j))'
      <3>1. CASE j = i
        BY <1>w, <1>y, <2>1, <3>1 DEF Listed, Explained, Removing, At
      <3>2. CASE j # i
        BY <1>w, <1>y, <2>1, <3>2 DEF Indexed, Listed, Explained, Removing, Adding, At
      <3>3. QED
        BY <3>1, <3>2
    <2>4. QED
      BY <2>3 DEF Indexed
  <1>14. CASE Finish(x)
    <2>1. /\ w'[x].pc = "done" /\ UNCHANGED <<index, items>>
          /\ unlisted' = unlisted \cup (IF At(x, "add") THEN {ItemKey(w[x].req)} ELSE {})
      BY <1>14, <1>r DEF Finish, caches
    <2>2. QED
      BY <1>w, <1>y, <2>1 DEF Indexed, Listed, Explained, Removing, Adding, At
  <1>15. QED
    BY <1>1, <1>2, <1>3, <1>5, <1>6, <1>7, <1>8, <1>9, <1>10, <1>11, <1>12, <1>13, <1>14 DEF WorkerStep

\* Every step keeps IndexInv.
LEMMA IndexStep == IndexInv /\ [EdgeNext]_evars => IndexInv'
  <1> SUFFICES ASSUME IndexInv, [EdgeNext]_evars PROVE IndexInv'
    OBVIOUS
  <1>1. TypedInv'
    BY TypedStep DEF IndexInv
  <1>2. ASSUME NEW x \in Workers, WorkerStep(x)
        PROVE  Indexed'
    BY <1>2, IndexWorkerStep
  <1>3. CASE Tick
    BY <1>1, <1>3 DEF Tick, IndexInv, Indexed, Listed, Explained, Removing, Adding, At
  <1>4. CASE UNCHANGED <<index, items, unlisted, w>>
    BY <1>1, <1>4 DEF IndexInv, Indexed, Listed, Explained, Removing, Adding, At
  <1>5. QED
    BY <1>1, <1>2, <1>3, <1>4
       DEF IndexInv, EdgeNext, evars, caches, CreateAPIKey, RevokeAPIKey, CreateContentPolicy

\* The semantic cache loses an item in the three named ways only.  Every other order of
\* the SET and SADD of Store, the GET, DEL and SREM of Lookup, expiry and death of a
\* request leaves a live item in its index.
THEOREM LostItemsExplained == EdgeSpec => []OrphansExplained
  <1>1. EdgeInit => IndexInv
    BY TypedInit DEF EdgeInit, IndexInv, Indexed, Explained
  <1>2. IndexInv => OrphansExplained
    BY DEF IndexInv, Indexed, Listed, Explained, Adding, OrphansExplained
  <1>3. QED
    BY <1>1, <1>2, IndexStep, PTL DEF EdgeSpec
=============================================================================
