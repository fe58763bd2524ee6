------------------------------ MODULE Routing ------------------------------
(***************************************************************************)
(* Which targets a request is sent to, in which order, and how much is     *)
(* reserved for it:                                                        *)
(*                                                                         *)
(*   internal/routing/resolver.go       CreateRoutePolicy, ResolveTargets  *)
(*   internal/costing/calculator.go     Calculate                          *)
(*   internal/gateway/chat_service.go   estimateReservationCost            *)
(*                                                                         *)
(* A target is [id, provider, model, priority], the catalogue of the       *)
(* organization [providers: the active ones, models: their rows].  What    *)
(* may be missing (context_window, max_tokens, max_estimated_cost, latency *)
(* statistics) is a set of at most one value.                              *)
(***************************************************************************)
EXTENDS Naturals, Sequences, SequencesExt, FiniteSetsExt

Strategies == {"single", "fallback", "lowest_cost", "lowest_latency"}
DefaultCompletionTokens == 4096

\* An optional field, and its value or a default.
IsOptional(opt, S) == opt \subseteq S /\ \A v, w \in opt : v = w
OrElse(opt, default) == IF opt = {} THEN default ELSE CHOOSE v \in opt : TRUE

-----------------------------------------------------------------------------
Usable(cat, t) ==
    /\ t.provider \in cat.providers
    /\ cat.models[t.model].active
    /\ cat.models[t.model].provider = t.provider

validateCreateRoutePolicyParams(r) ==
    /\ r.strategy \in Strategies
    /\ r.strategy = "single" => Cardinality(r.targets) = 1
    /\ r.strategy = "fallback" => Cardinality(r.targets) >= 2
    /\ r.targets # {} /\ \A t \in r.targets : t.priority > 0

\* What CreateRoutePolicy lets in; its targets may become unusable later.
validateTargetBelongsToOrg(cat, t) ==
    t.model \in DOMAIN cat.models /\ cat.models[t.model].provider = t.provider

-----------------------------------------------------------------------------
costMicro(tokens, price) == (tokens * price) \div 1000

Calculate(m, prompt, completion) == costMicro(prompt, m.input) + costMicro(completion, m.output)

\* With no max_tokens, the router prices a completion of no tokens at all.
estimatedCostMicroUSD(m, req) == Calculate(m, req.prompt, OrElse(req.maxTokens, 0))

\* A key has the numbers two targets are compared by, the first that differs deciding;
\* the last one is the id.
Precedes(k, l) == \E n \in DOMAIN k : k[n] < l[n] /\ \A m \in 1 .. n - 1 : k[m] = l[m]

SortedBy(key, ts) ==
    CHOOSE q \in SetToSeqs(ts) : \A m, n \in DOMAIN q : m < n => Precedes(key[q[m]], key[q[n]])

PriorityKey(t) == <<t.priority, t.id>>

sortByPriority(ts) == SortedBy([t \in ts |-> PriorityKey(t)], ts)

sortLowestCostTargets_Priority(cat, ts, req) == sortByPriority(ts)

CostKey(cat, t, req) == <<estimatedCostMicroUSD(cat.models[t.model], req), t.priority, t.id>>

sortLowestCostTargets(cat, ts, req) == SortedBy([t \in ts |-> CostKey(cat, t, req)], ts)

\* <<>> stands for ErrRouteNotFound.
resolveLowestCostTargets(cat, r, ts, req) ==
    LET eligible == {t \in ts : \A max \in r.maxCost : estimatedCostMicroUSD(cat.models[t.model], req) =< max}
    IN  CASE eligible # {} -> sortLowestCostTargets(cat, eligible, req)
          [] eligible = {} /\ r.toPriority -> sortByPriority(ts)
          [] OTHER -> <<>>

\* stat: the <<p95, p50>> of the model of t, if it answered a request in the latency window
LatencyKey(t, stat) ==
    LET latency == OrElse(stat, <<0, 0>>)
    IN  <<IF stat = {} THEN 1 ELSE 0, latency[1], latency[2], t.priority, t.id>>

sortLatencyTargets(ts, stats) == SortedBy([t \in ts |-> LatencyKey(t, stats[t.model])], ts)

ResolveTargets(cat, routes, alias, req, stats) ==
    IF alias \notin DOMAIN routes THEN <<>>
    ELSE LET r == routes[alias]
             usable == {t \in r.targets : Usable(cat, t)}
         IN  CASE r.strategy = "lowest_cost" -> resolveLowestCostTargets(cat, r, usable, req)
               [] r.strategy = "lowest_latency" -> sortLatencyTargets(usable, stats)
               [] OTHER -> IF usable = r.targets THEN sortByPriority(usable) ELSE <<>>

-----------------------------------------------------------------------------
\* As many tokens as the request or the model allows.
CompletionTokens(m, req) ==
    LET window == OrElse(m.window, req.prompt + DefaultCompletionTokens)
        remaining == IF window < req.prompt THEN 0 ELSE window - req.prompt
    IN  OrElse(req.maxTokens, remaining)

WorstCost(m, req) == Calculate(m, req.prompt, CompletionTokens(m, req))

estimateReservationCost(cat, ts, req) ==
    Max({WorstCost(cat.models[ts[n].model], req) : n \in DOMAIN ts})
=============================================================================
