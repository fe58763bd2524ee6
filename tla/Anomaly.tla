------------------------------ MODULE Anomaly ------------------------------
(***************************************************************************)
(* The cost anomaly rules, internal/anomaly/service.go.  They are          *)
(* evaluated for every request over windows of the request log, in which   *)
(* the requests they refuse are rows as well.                              *)
(*                                                                         *)
(* The log is a sequence of bags of rows, one per minute, the current      *)
(* minute first; a row is [key, alias, ok, cost], where ok stands for the  *)
(* states success and budget_warned.  A rule is [type, scope, id,          *)
(* threshold, bps, multiplier, current, baseline, min, action, fallback];  *)
(* threshold (in micro USD) is a set of at most one number.                *)
(***************************************************************************)
EXTENDS Naturals, Sequences, SequencesExt, FiniteSetsExt, Bags

BpsScale == 10000

validateScope(r) ==
    /\ r.scope \in {"org", "api_key", "model"}
    /\ r.type = "api_key_cost_spike" => r.scope = "api_key"
    /\ r.type = "model_cost_spike" => r.scope = "model"
    /\ r.type = "daily_cost" => r.scope = "org"

normalizeCreatePolicyParams(r) ==
    /\ r.type \in {"daily_cost", "api_key_cost_spike", "model_cost_spike", "error_rate_spike"}
    /\ r.action \in {"notify", "downgrade", "block"}
    /\ r.action = "downgrade" => r.fallback # ""
    /\ {r.current, r.baseline, r.min, r.multiplier} \subseteq Nat \ {0}
    /\ validateScope(r)
    /\ r.type = "daily_cost" => r.threshold # {}
    /\ r.type = "error_rate_spike" => r.bps > 0

policyApplies(r, req) ==
    CASE r.scope = "org" -> TRUE
      [] r.scope = "api_key" -> r.id = req.key
      [] r.scope = "model" -> r.id = req.alias

policySQLFilter(r, row) ==
    CASE r.scope = "org" -> TRUE
      [] r.scope = "api_key" -> row.key = r.id
      [] r.scope = "model" -> row.alias = r.id

\* The distinct rows of minutes from .. to - 1 ago that count for rule r.
Rows(r, log, from, to) ==
    UNION {{<<n, row>> : row \in {x \in BagToSet(log[n]) : policySQLFilter(r, x)}} :
              n \in (from + 1 .. to) \cap DOMAIN log}

\* A bag maps its members to their number.
Copies(log, p) == log[p[1]][p[2]]

costStats(r, log, from, to) ==
    LET rows == Rows(r, log, from, to) IN
    [cost     |-> MapThenSumSet(LAMBDA p : p[2].cost * Copies(log, p), rows),
     requests |-> MapThenSumSet(LAMBDA p : Copies(log, p), rows)]

errorStats(r, log, from, to) ==
    LET rows == Rows(r, log, from, to) IN
    [errors   |-> MapThenSumSet(LAMBDA p : Copies(log, p), {p \in rows : ~p[2].ok}),
     requests |-> MapThenSumSet(LAMBDA p : Copies(log, p), rows)]

-----------------------------------------------------------------------------
\* minute: minutes since midnight UTC
evaluateDailyCost(r, log, minute) ==
    \A t \in r.threshold : costStats(r, log, 0, minute + 1).cost >= t

evaluateCostSpike(r, log) ==
    LET now == costStats(r, log, 0, r.current)
        base == costStats(r, log, r.current, r.current + r.baseline)
    IN  /\ now.requests >= r.min /\ now.cost > 0
        /\ \A t \in r.threshold : now.cost >= t
        /\ base.cost > 0
        /\ now.cost * r.baseline * BpsScale >= base.cost * r.current * r.multiplier

evaluateErrorRateSpike_NoBaseline(r, log) ==
    LET now == errorStats(r, log, 0, r.current)
    IN  /\ now.requests >= r.min /\ now.errors > 0
        /\ now.errors * BpsScale >= now.requests * r.bps

evaluateErrorRateSpike(r, log) ==
    LET now == errorStats(r, log, 0, r.current)
        base == errorStats(r, log, r.current, r.current + r.baseline)
    IN  /\ now.requests >= r.min /\ now.errors > 0
        /\ now.errors * BpsScale >= now.requests * r.bps
        /\ \/ base.errors = 0
           \/ now.errors * base.requests * BpsScale >= base.errors * now.requests * r.multiplier

evaluatePolicy(r, log, minute) ==
    CASE r.type = "daily_cost" -> evaluateDailyCost(r, log, minute)
      [] r.type \in {"api_key_cost_spike", "model_cost_spike"} -> evaluateCostSpike(r, log)
      [] r.type = "error_rate_spike" -> evaluateErrorRateSpike(r, log)

actionRank == [none |-> 0, notify |-> 1, downgrade |-> 2, block |-> 3]

\* The first triggered rule with the strictest action decides.
Evaluate(rules, log, minute, req) ==
    LET Triggered(r) == policyApplies(r, req) /\ evaluatePolicy(r, log, minute)
        Decision(r) == [action |-> r.action,
                        model  |-> IF r.action = "downgrade" THEN r.fallback ELSE req.alias]
        Stricter(best, r) ==
            IF Triggered(r) /\ actionRank[r.action] > actionRank[best.action]
            THEN Decision(r) ELSE best
    IN  FoldLeft(Stricter, [action |-> "none", model |-> req.alias], rules)
=============================================================================
