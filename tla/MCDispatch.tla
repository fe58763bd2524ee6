---------------------------- MODULE MCDispatch ----------------------------
(* Organizations without rules and with many routes, and organizations with *)
(* one route and several rules.                                             *)
EXTENDS Dispatch

Chat == [key |-> "k1", alias |-> "main", prompt |-> 100, maxTokens |-> {}]
Short == [Chat EXCEPT !.maxTokens = {50}]

Model(p, w, active) == [provider |-> "p", active |-> active, input |-> p[1], output |-> p[2], window |-> w]
T(n, priority) == [id |-> n, provider |-> "p", model |-> n, priority |-> priority]
Via(strategy, ts, max, prio) ==
    [strategy |-> strategy, targets |-> ts, maxCost |-> max, toPriority |-> prio]
Catalogue(ms) == [providers |-> {"p"}, models |-> ms]

Cheap == <<10, 1000>>
Dear == <<50, 20>>
Flat == <<10, 0>>
Three == {{T(1, 1), T(2, 2), T(3, 3)}, {T(1, 2), T(2, 1), T(3, 1)}}

\* Three models: two price lists (which of them is cheaper depends on max_tokens),
\* and any of them switched off.
Rows3 == {[n \in 1 .. 3 |-> Model(IF n \in dear THEN Dear ELSE Cheap, IF n = 3 THEN {600} ELSE {}, n \notin off)] :
             dear \in SUBSET (1 .. 3), off \in SUBSET (1 .. 3)}

Plain(ms, r, rs) == [rules |-> <<>>, requests |-> rs, catalogue |-> Catalogue(ms), routes |-> [a \in {"main"} |-> r]]

ByCost == {Plain(ms, Via("lowest_cost", ts, max, prio), {Chat, Short}) :
              ms \in Rows3, ts \in Three, max \in {{2}, {10}}, prio \in BOOLEAN}
          \cup {Plain(ms, Via("lowest_cost", ts, {}, TRUE), {Chat, Short}) : ms \in Rows3, ts \in Three}
ByLatency == {Plain(ms, Via("lowest_latency", ts, {}, TRUE), {Short}) :
                 ms \in {x \in Rows3 : x[1].input = 50 /\ x[2].input = 50 /\ x[3].input = 10}, ts \in Three}
InOrder == {Plain(ms, Via("fallback", ts, {}, TRUE), {Chat, Short}) : ms \in Rows3, ts \in Three}
           \cup {Plain(ms, Via("single", {T(1, 1)}, {}, TRUE), {Chat}) : ms \in Rows3}

\* Rules over two models, "mini" being what "main" is downgraded to.
Rule(type, scope, id, action) ==
    [type |-> type, scope |-> scope, id |-> id, threshold |-> {}, bps |-> 5000, multiplier |-> 20000,
     current |-> 1, baseline |-> 2, min |-> 1, action |-> action, fallback |-> "mini"]
ErrorRate(action, cur, base) == [Rule("error_rate_spike", "org", "", action) EXCEPT !.current = cur, !.baseline = base]
KeySpike(k, action) == [Rule("api_key_cost_spike", "api_key", k, action) EXCEPT !.baseline = 1]
ModelSpike(action) == [Rule("model_cost_spike", "model", "main", action) EXCEPT !.baseline = 1]
Daily(n, action) == [Rule("daily_cost", "org", "", action) EXCEPT !.threshold = {n}]

Ruled(rules, price, rs) ==
    [rules |-> rules, requests |-> rs,
     catalogue |-> Catalogue([n \in 1 .. 2 |-> Model(IF n = 1 THEN price ELSE Dear, {}, TRUE)]),
     routes |-> [main |-> Via("single", {T(1, 1)}, {}, TRUE), mini |-> Via("single", {T(2, 1)}, {}, TRUE)]]

WithRules == {
    Ruled(<<ErrorRate("notify", 1, 2), ErrorRate("block", 2, 2)>>, Flat, {Short}),
    Ruled(<<ModelSpike("downgrade"), Daily(60, "block")>>, Cheap, {Short}),
    Ruled(<<KeySpike("k1", "block")>>, Cheap, {Short, [Short EXCEPT !.key = "k2"]})}

MCSettings == ByCost \cup ByLatency \cup InOrder \cup WithRules
MCLatencyStats == {{}, {<<1, 1>>}, {<<1, 2>>}, {<<2, 1>>}}
=============================================================================
