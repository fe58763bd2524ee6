---------------------------- MODULE GatewayEdge ----------------------------
(***************************************************************************)
(* What a chat request meets before and after the provider: its API key,   *)
(* the rate limiter and the two response caches, the last three in Redis.  *)
(*                                                                         *)
(*   internal/auth/api_key_service.go      CreateAPIKey, RevokeAPIKey, ..  *)
(*   internal/http/middleware              GatewayAPIKeyAuth, RateLimit    *)
(*   internal/ratelimit/redis_limiter.go   Allow                           *)
(*   internal/cache                        PromptCache, SemanticCache      *)
(*   internal/policy                       the content policy              *)
(*   internal/gateway/chat_service.go      the use of the caches in Chat   *)
(*                                                                         *)
(* A worker is the goroutine of one request that is not streamed, a step   *)
(* one command on PostgreSQL or Redis.  Between the caches lies what       *)
(* module ChatGateway is about: here the provider answers or does not.     *)
(* Time is counted in minutes.  A request record has the fields org,       *)
(* model, text (of the messages), temp (the set of at most one temperature *)
(* it names) and params (max_tokens); an answer is named by the request it *)
(* was made for.                                                           *)
(***************************************************************************)
EXTENDS Naturals, Sequences, SequencesExt

CONSTANTS
    Orgs,
    ApiKeys, OrgOf,   \* [ApiKeys -> Orgs]
    RPMLimit,         \* [ApiKeys -> Nat \ {0}]
    Inputs, Requests, \* requests that are made; with the redacted ones
    PII, Redact,      \* texts the detector hits, [PII -> texts it does not hit]
    Score,            \* cosine similarity of the embeddings of two texts
    Threshold,        \* semanticThreshold
    MaxTemp,          \* semanticMaxTemp
    HighRisk,         \* texts with one of the markers of highRiskMessages
    Workers,
    Seals,            \* cache encryption keys of the running instances
    Actions, Expiries,  \* policies and lifetimes that are asked for
    WindowTTL,        \* lifetime of a limiter's counter, in minutes
    MaxMinute, MaxPolicies  \* bounds of the instance

ASSUME EdgeAssumption ==
    /\ OrgOf \in [ApiKeys -> Orgs] /\ RPMLimit \in [ApiKeys -> Nat \ {0}]
    /\ Threshold \in Nat \ {0}
    /\ \A t \in PII : Redact[t] \notin PII
    /\ Inputs \subseteq Requests
    /\ \A r \in Requests : r.text \in PII => [r EXCEPT !.text = Redact[@]] \in Requests
    /\ Actions \subseteq {"allow", "redact", "block"}
    /\ {WindowTTL, MaxMinute, MaxPolicies} \subseteq Nat /\ Expiries \subseteq Nat
    /\ WindowTTL >= 2  \* defaultWindowTTL

Minutes == 0 .. MaxMinute
None == "none"
Miss == [seal |-> None]  \* no such key in Redis

VARIABLES
    minute,    \* the clock
    keys,      \* api_keys: [ApiKeys -> [status, expires]]
    policies,  \* content_policies: actions by organisation, the latest last
    counters,  \* Redis rl:api_key:<key>:minute:<m>: [count, dies]
    admitted,  \* history: requests let through, by key and minute
    prompts,   \* Redis prompt_exact:*: [Requests -> {Miss} or [made, seal]]
    items,     \* Redis semantic_cache:item:*: [ItemKeys -> {Miss} or [made, seal]]
    index,     \* Redis semantic_cache:index:*: the item keys in the sets
    paid,      \* history: requests with a metered completion
    unlisted,  \* history: items whose entry was lost: the SADD failed or was
               \* overtaken by the SREM of a Lookup that had found the key empty,
               \* or the DEL before an SREM failed
    w          \* what each worker is doing

config == <<minute, keys, policies>>
caches == <<prompts, items, index>>
evars == <<config, counters, admitted, caches, paid, unlisted, w>>

\* BuildPromptKey: organisation, model, messages, temperature and max_tokens, hashed
PromptKey(r) == r

\* semanticItemKey: neither temperature nor max_tokens
ItemKey(r) == <<r.org, r.model, r.text>>
ItemKeys == {ItemKey(r) : r \in Requests}

semanticIndexKey_NoOrg(org, model) == <<model>>

\* The set in Redis that a Lookup scans.
semanticIndexKey(org, model) == <<org, model>>

NoCounter == [count |-> 0, dies |-> 0]
NoRequest == [org |-> None]
Idle == [pc |-> "idle", key |-> None, minute |-> 0, seal |-> None, req |-> NoRequest,
         sem |-> FALSE, todo |-> {}, gone |-> <<>>, best |-> NoRequest, from |-> None]

EdgeInit ==
    /\ minute = 0
    /\ keys = [k \in ApiKeys |-> [status |-> "none", expires |-> 0]]
    /\ policies = [o \in Orgs |-> <<>>]
    /\ counters = [c \in ApiKeys \X Minutes |-> NoCounter]
    /\ admitted = [c \in ApiKeys \X Minutes |-> 0]
    /\ prompts = [p \in Requests |-> Miss]
    /\ items = [i \in ItemKeys |-> Miss]
    /\ index = {} /\ paid = {} /\ unlisted = {}
    /\ w = [x \in Workers |-> Idle]

At(x, pc) == w[x].pc = pc
Goto(x, pc) == w' = [w EXCEPT ![x].pc = pc]
Return(x) == w' = [w EXCEPT ![x] = [Idle EXCEPT !.pc = "done"]]

-----------------------------------------------------------------------------
(* API keys and content policies                                           *)

ApiKey(expires) == [status |-> "active", expires |-> expires]

CreateAPIKey(k, expires) ==
    /\ keys[k].status = "none"
    /\ keys' = [keys EXCEPT ![k] = ApiKey(expires)]
    /\ UNCHANGED <<minute, policies, counters, admitted, caches, paid, unlisted, w>>

RevokeAPIKey(k) ==
    /\ keys[k].status = "active"
    /\ keys' = [keys EXCEPT ![k].status = "revoked"]
    /\ UNCHANGED <<minute, policies, counters, admitted, caches, paid, unlisted, w>>

CreateContentPolicy(o, action) ==
    /\ Len(policies[o]) < MaxPolicies
    /\ policies' = [policies EXCEPT ![o] = Append(@, action)]
    /\ UNCHANGED <<minute, keys, counters, admitted, caches, paid, unlisted, w>>

\* GetActiveContentPolicy: the one created last
ActivePIIAction(o) == IF policies[o] = <<>> THEN "allow" ELSE Last(policies[o])

Authenticate(k) == keys[k].status = "active" /\ keys[k].expires > minute

\* GatewayAPIKeyAuth and RequireAPIKeyScope (a key has the one scope there is); then
\* Allow reads the clock.  Any instance may serve the request.
GatewayAPIKeyAuth(x, k, r, seal) ==
    /\ At(x, "idle")
    /\ Authenticate(k)
    /\ r.org = OrgOf[k]
    /\ w' = [w EXCEPT ![x] = [Idle EXCEPT !.pc = "limit", !.key = k, !.minute = minute,
                                          !.seal = seal, !.req = r]]
    /\ UNCHANGED <<config, counters, admitted, caches, paid, unlisted>>

-----------------------------------------------------------------------------
(* The limiter                                                             *)

incrementWithTTLScript_OneMinute(c) ==
    [count |-> counters[c].count + 1,
     dies  |-> IF counters[c].count = 0 THEN minute + 1 ELSE counters[c].dies]

\* EXPIRE is set by the INCR that creates the counter.
incrementWithTTLScript(c) ==
    [count |-> counters[c].count + 1,
     dies  |-> IF counters[c].count = 0 THEN minute + WindowTTL ELSE counters[c].dies]

Allow(k, count) == count =< RPMLimit[k]

\* One script, atomic in Redis.  When its answer is lost the request ends in Finish.
RateLimit(x) ==
    LET c == <<w[x].key, w[x].minute>> IN
    /\ At(x, "limit")
    /\ counters' = [counters EXCEPT ![c] = incrementWithTTLScript(c)]
    /\ IF Allow(w[x].key, counters'[c].count)
       THEN /\ admitted' = [admitted EXCEPT ![c] = @ + 1]
            /\ w' = [w EXCEPT ![x].pc = "content", ![x].key = None, ![x].minute = 0]
       ELSE /\ Return(x)
            /\ UNCHANGED admitted
    /\ UNCHANGED <<config, caches, paid, unlisted>>

\* A request reaches the script no later than in the minute after the one it read.
\* Redis drops the counters whose time has come and any cached answers at their TTL.
Tick ==
    /\ minute < MaxMinute
    /\ \A x \in Workers : At(x, "limit") => w[x].minute = minute
    /\ minute' = minute + 1
    /\ counters' = [c \in DOMAIN counters |->
                      IF counters[c].dies =< minute + 1 THEN NoCounter ELSE counters[c]]
    /\ \E old \in SUBSET {p \in Requests : prompts[p] # Miss} :
         prompts' = [p \in Requests |-> IF p \in old THEN Miss ELSE prompts[p]]
    /\ \E old \in SUBSET {i \in ItemKeys : items[i] # Miss} :
         items' = [i \in ItemKeys |-> IF i \in old THEN Miss ELSE items[i]]
    /\ unlisted' = {i \in unlisted : items'[i] # Miss}
    /\ UNCHANGED <<keys, policies, admitted, index, paid, w>>

-----------------------------------------------------------------------------
(* Looking for an answer                                                   *)

Detect(text) == text \in PII
RedactPII(r) == IF Detect(r.text) THEN [r EXCEPT !.text = Redact[@]] ELSE r

\* Blocked requests end here; redaction changes the request for all that follows.
applyContentPolicy(x) ==
    LET hit == Detect(w[x].req.text)
        action == ActivePIIAction(w[x].req.org) IN
    /\ At(x, "content")
    /\ IF hit /\ action = "block"
       THEN Return(x)
       ELSE w' = [w EXCEPT ![x].pc = "prompt",
                           ![x].req = IF action = "redact" THEN RedactPII(@) ELSE @]
    /\ UNCHANGED <<config, counters, admitted, caches, paid, unlisted>>

\* The answer is given once it is logged (RecordCacheHit), or not at all.
Answer(x, made, from) ==
    w' = [w EXCEPT ![x] = [Idle EXCEPT !.pc = "answered", !.req = w[x].req,
                                       !.best = made, !.from = from]]

semanticCacheCandidate(r) == r.text \notin HighRisk /\ \A t \in r.temp : t =< MaxTemp

\* Embed may fail: the request then has no part in the semantic cache.
NoPromptHit(x) ==
    \E sem \in {FALSE, semanticCacheCandidate(w[x].req)} :
        w' = [w EXCEPT ![x].sem = sem, ![x].pc = IF sem THEN "members" ELSE "provider"]

\* Readable(x, v): sealed with the key of this instance
Readable(x, v) == v # Miss /\ v.seal = w[x].seal

\* GET; when Redis fails, the request goes on as after a miss.
PromptGet(x) ==
    LET p == PromptKey(w[x].req) IN
    /\ At(x, "prompt")
    /\ \/ Readable(x, prompts[p]) /\ Answer(x, prompts[p].made, "prompt")
       \/ prompts[p] # Miss /\ ~Readable(x, prompts[p]) /\ Goto(x, "discard")
       \/ NoPromptHit(x)
    /\ UNCHANGED <<config, counters, admitted, caches, paid, unlisted>>

\* DEL of what the key now holds; its error is ignored.
PromptDelete(x) ==
    /\ At(x, "discard")
    /\ \/ prompts' = [prompts EXCEPT ![PromptKey(w[x].req)] = Miss]
       \/ UNCHANGED prompts
    /\ NoPromptHit(x)
    /\ UNCHANGED <<config, counters, admitted, items, index, paid, unlisted>>

\* SMEMBERS
LookupMembers(x) ==
    LET set == semanticIndexKey(w[x].req.org, w[x].req.model) IN
    /\ At(x, "members")
    /\ w' = [w EXCEPT ![x].pc = "lookup",
                      ![x].todo = {i \in index : semanticIndexKey(i[1], i[2]) = set}]
    /\ UNCHANGED <<config, counters, admitted, caches, paid, unlisted>>

Better(x, i) ==
    Score[w[x].req.text, i[3]]
        > (IF w[x].best = NoRequest THEN 0 ELSE Score[w[x].req.text, w[x].best.text])

\* A member is dropped from the index because there is no item, or a better one that
\* this instance cannot open and deletes first.
Dropped(x, i) == items[i] = Miss \/ (Better(x, i) /\ ~Readable(x, items[i]))

DropFrom(i) == IF items[i] = Miss THEN "remove" ELSE "delete"

\* GET of one member: dropped, passed over or the best so far
LookupGet(x, i) ==
    /\ At(x, "lookup") /\ i \in w[x].todo
    /\ w' = [w EXCEPT ![x].todo = @ \ {i},
                      ![x].pc = IF Dropped(x, i) THEN DropFrom(i) ELSE @,
                      ![x].gone = IF Dropped(x, i) THEN i ELSE @,
                      ![x].best = IF ~Dropped(x, i) /\ Better(x, i) THEN items[i].made ELSE @]
    /\ UNCHANGED <<config, counters, admitted, caches, paid, unlisted>>

\* DEL; its error is ignored, and SREM comes next all the same.
LookupDelete(x) ==
    LET i == w[x].gone IN
    /\ At(x, "delete")
    /\ \/ /\ items' = [items EXCEPT ![i] = Miss]
          /\ unlisted' = unlisted \ {i}
       \/ /\ unlisted' = IF items[i] = Miss THEN unlisted ELSE unlisted \cup {i}
          /\ UNCHANGED items
    /\ Goto(x, "remove")
    /\ UNCHANGED <<config, counters, admitted, prompts, index, paid>>

\* SREM; its error is ignored.
LookupRemove(x) ==
    /\ At(x, "remove")
    /\ index' = index \ {w[x].gone} \/ UNCHANGED index
    /\ w' = [w EXCEPT ![x].pc = "lookup", ![x].gone = <<>>]
    /\ UNCHANGED <<config, counters, admitted, prompts, items, paid, unlisted>>

LookupDone(x) ==
    LET best == w[x].best IN
    /\ At(x, "lookup") /\ w[x].todo = {}
    /\ IF best # NoRequest /\ Score[w[x].req.text, best.text] >= Threshold
       THEN Answer(x, best, "semantic")
       ELSE w' = [w EXCEPT ![x].pc = "provider", ![x].best = NoRequest]
    /\ UNCHANGED <<config, counters, admitted, caches, paid, unlisted>>

-----------------------------------------------------------------------------
(* The provider, and keeping its answer                                    *)

\* Reservation, attempts and metering succeed; otherwise Finish.
Complete(x) ==
    /\ At(x, "provider")
    /\ paid' = paid \cup {w[x].req}
    /\ Goto(x, "set")
    /\ UNCHANGED <<config, counters, admitted, caches, unlisted>>

Sealed(x) == [made |-> w[x].req, seal |-> w[x].seal]

\* A write error is only logged: the answer goes on to the semantic cache.
PromptSet(x) ==
    /\ At(x, "set")
    /\ \/ prompts' = [prompts EXCEPT ![PromptKey(w[x].req)] = Sealed(x)]
       \/ UNCHANGED prompts
    /\ IF w[x].sem THEN Goto(x, "store") ELSE Return(x)
    /\ UNCHANGED <<config, counters, admitted, items, index, paid, unlisted>>

\* SET
StoreItem(x) ==
    /\ At(x, "store")
    /\ items' = [items EXCEPT ![ItemKey(w[x].req)] = Sealed(x)]
    /\ Goto(x, "add")
    /\ UNCHANGED <<config, counters, admitted, prompts, index, paid, unlisted>>

\* SADD
StoreIndex(x) ==
    LET i == ItemKey(w[x].req) IN
    /\ At(x, "add")
    /\ index' = index \cup {i}
    /\ unlisted' = IF \E y \in Workers : At(y, "remove") /\ w[y].gone = i
                   THEN unlisted \cup {i} ELSE unlisted \ {i}
    /\ Return(x)
    /\ UNCHANGED <<config, counters, admitted, prompts, items, paid>>

-----------------------------------------------------------------------------
(* Errors, and the whole                                                   *)

LookupFails_AsEmpty(x) ==
    /\ At(x, "lookup")
    /\ \E i \in w[x].todo :
         w' = [w EXCEPT ![x].pc = "remove", ![x].todo = @ \ {i}, ![x].gone = i]
    /\ UNCHANGED <<config, counters, admitted, caches, paid, unlisted>>

\* A Redis error other than that there is no such key counts as a miss of the whole.
LookupFails(x) ==
    /\ w[x].pc \in {"members", "lookup"}
    /\ w' = [w EXCEPT ![x].pc = "provider", ![x].todo = {}, ![x].best = NoRequest]
    /\ UNCHANGED <<config, counters, admitted, caches, paid, unlisted>>

\* The request is over: it was answered, or a call failed, or its process died.
Finish(x) ==
    /\ w[x].pc \notin {"idle", "done"}
    /\ unlisted' = unlisted \cup (IF At(x, "add") THEN {ItemKey(w[x].req)} ELSE {})
    /\ Return(x)
    /\ UNCHANGED <<config, counters, admitted, caches, paid>>

WorkerStep(x) ==
    \/ \E k \in ApiKeys, r \in Inputs, seal \in Seals : GatewayAPIKeyAuth(x, k, r, seal)
    \/ RateLimit(x) \/ applyContentPolicy(x) \/ PromptGet(x) \/ PromptDelete(x)
    \/ LookupMembers(x) \/ LookupDelete(x) \/ LookupRemove(x) \/ LookupDone(x)
    \/ \E i \in ItemKeys : LookupGet(x, i)
    \/ Complete(x) \/ PromptSet(x) \/ StoreItem(x) \/ StoreIndex(x)
    \/ LookupFails(x) \/ Finish(x)

EdgeNext ==
    \/ \E k \in ApiKeys, e \in Expiries : CreateAPIKey(k, e)
    \/ \E k \in ApiKeys : RevokeAPIKey(k)
    \/ \E o \in Orgs, a \in Actions : CreateContentPolicy(o, a)
    \/ Tick
    \/ \E x \in Workers : WorkerStep(x)

EdgeSpec == EdgeInit /\ [][EdgeNext]_evars

-----------------------------------------------------------------------------
(* Properties                                                              *)

Worker == [pc: {"idle", "limit", "content", "prompt", "discard", "members", "lookup", "delete",
                "remove", "answered", "provider", "set", "store", "add", "done"},
           key: ApiKeys \cup {None}, minute: Minutes, seal: Seals \cup {None},
           req: Requests \cup {NoRequest}, sem: BOOLEAN, todo: SUBSET ItemKeys,
           gone: ItemKeys \cup {<<>>}, best: Requests \cup {NoRequest},
           from: {None, "prompt", "semantic"}]
Sealings == {Miss} \cup [made: Requests, seal: Seals]

EdgeTypeOK ==
    /\ minute \in Minutes
    /\ keys \in [ApiKeys -> [status: {"none", "active", "revoked"}, expires: Nat]]
    /\ policies \in [Orgs -> Seq(Actions)]
    /\ counters \in [ApiKeys \X Minutes -> [count: Nat, dies: Nat]]
    /\ admitted \in [ApiKeys \X Minutes -> Nat]
    /\ prompts \in [Requests -> Sealings]
    /\ items \in [ItemKeys -> Sealings]
    /\ index \in SUBSET ItemKeys /\ unlisted \in SUBSET ItemKeys /\ paid \in SUBSET Requests
    /\ w \in [Workers -> Worker]

Limit == INSTANCE Allowance WITH
    Holders <- ApiKeys, Windows <- Minutes, Quota <- RPMLimit, granted <- admitted

\* The limiter implements a rate limit: whatever the order in which workers read the
\* clock and run the script, also across the end of the minute, when the counter of the
\* past minute must outlive it, and when answers are lost, a key gets no more than
\* rpm_limit requests through in the name of one minute.
ImplementsAllowance == Limit!Spec

\* An answer from a cache is one that the same organisation paid for, for the same
\* model.  The exact cache answers the very request, after redaction; the semantic
\* cache one similar enough, and neither a request above the temperature limit or with
\* a risky text nor the answer to one, however lookups, stores, expiry and instances
\* with different encryption keys interleave.
AnswersFit ==
    \A x \in Workers : At(x, "answered") =>
        LET r == w[x].req
            a == w[x].best IN
        /\ a \in paid /\ a.org = r.org /\ a.model = r.model
        /\ w[x].from = "prompt" => a = r
        /\ w[x].from = "semantic" =>
             /\ Score[r.text, a.text] >= Threshold
             /\ \A q \in {r, a} : q.text \notin HighRisk /\ \A t \in q.temp : t =< MaxTemp

\* A stored answer can be found: a live item is in the index of its organisation and
\* model, but for the moment between SET and SADD, and for the three ways an entry gets
\* lost: an SADD that fails, one overtaken by the clean-up of a concurrent Lookup, and
\* a clean-up whose DEL fails while its SREM takes the entry away.  No other order of
\* Store and Lookup, no failed SREM and no expiry hides an item.
OrphansExplained ==
    \A i \in ItemKeys : items[i] # Miss /\ i \notin index =>
        \/ i \in unlisted
        \/ \E x \in Workers : At(x, "add") /\ ItemKey(w[x].req) = i
=============================================================================
