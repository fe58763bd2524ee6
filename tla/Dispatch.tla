----------------------------- MODULE Dispatch -----------------------------
(***************************************************************************)
(* The way of a chat call from the anomaly rules over the router to the    *)
(* providers, and back into the request log the anomaly rules read:        *)
(*                                                                         *)
(*   internal/gateway/chat_service.go   Chat, reserveProviderCost          *)
(*   internal/anomaly/service.go        Evaluate           (Anomaly)       *)
(*   internal/routing/resolver.go       ResolveTargets     (Routing)       *)
(*   chatProviderWithRetry                                 (ProviderAttempts) *)
(*                                                                         *)
(* Calls come one after another, without an end; minutes go by at any      *)
(* time.  Rows older than every window of the rules are forgotten, and the *)
(* hour if no rule is about a day, so the clock needs no bound.  The       *)
(* admission of the hold is the subject of ChatGateway, the caches that of *)
(* GatewayEdge: their outcomes are free here.                              *)
(***************************************************************************)
EXTENDS Routing, Anomaly, ProviderAttempts

CONSTANTS
    Settings,      \* what administrators may have set up: rules, routes, catalogue, clients
    DayMinutes,    \* minutes of a day
    MaxPerMinute,  \* bound on the requests of a minute
    LatencyStats   \* answers of ProviderModelLatencyStats for a model

\* The rows of route_targets and models, and a request as parsed.
RouteTargetsOK(ts) ==
    /\ IsFiniteSet(ts)
    /\ \A t \in ts : t.id \in Nat /\ t.priority \in Nat
    /\ \A t, u \in ts : t.id = u.id => t = u
ModelOK(m) == m.input \in Nat /\ m.output \in Nat /\ IsOptional(m.window, Nat)
RequestOK(r) ==
    /\ DOMAIN r = {"key", "alias", "prompt", "maxTokens"}
    /\ r.prompt \in Nat /\ IsOptional(r.maxTokens, Nat)

\* What passed the validation of the admin API and the constraints of the schema, and
\* rules by which a block ends: the baseline is no shorter than the current window, the
\* multiplier above 1 and the threshold not zero, which CreatePolicy does not check.
ASSUME SettingAssumption ==
    /\ DayMinutes \in Nat \ {0} /\ MaxPerMinute \in Nat \ {0}
    /\ \A stat \in LatencyStats : IsOptional(stat, Nat \X Nat)
    /\ \A s \in Settings :
          /\ \A a \in DOMAIN s.routes :
                /\ validateCreateRoutePolicyParams(s.routes[a])
                /\ \A t \in s.routes[a].targets : validateTargetBelongsToOrg(s.catalogue, t)
                /\ RouteTargetsOK(s.routes[a].targets)
          /\ \A m \in DOMAIN s.catalogue.models : ModelOK(s.catalogue.models[m])
          /\ \A r \in s.requests : RequestOK(r)
          /\ \A n \in DOMAIN s.rules :
                /\ normalizeCreatePolicyParams(s.rules[n])
                /\ s.rules[n].baseline >= s.rules[n].current
                /\ s.rules[n].multiplier > BpsScale
                /\ 0 \notin s.rules[n].threshold

VARIABLES
    setting,  \* the configuration in force, one of Settings
    log,      \* request_logs, by minute; see Anomaly
    minute,   \* minutes since midnight UTC
    req,      \* the request in hand, [key, alias, prompt, maxTokens]
    stats     \* latency statistics the router has read

dvars == <<setting, log, minute, req, stats, pvars>>

NoRequest == [key |-> "", alias |-> "", prompt |-> 0, maxTokens |-> {}]
NoStats == [m \in DOMAIN setting.catalogue.models |-> {}]

\* How many minutes of the log the rules look at.
Horizon(rules) ==
    LET Reach(r) == IF r.type = "daily_cost" THEN DayMinutes ELSE r.current + r.baseline
    IN  Max({0} \cup {Reach(rules[n]) : n \in DOMAIN rules})

Day(rules) == IF \E n \in DOMAIN rules : rules[n].type = "daily_cost" THEN DayMinutes ELSE 1

DispatchInit ==
    /\ setting \in Settings
    /\ log = [n \in 1 .. Horizon(setting.rules) |-> EmptyBag]
    /\ minute = 0
    /\ req = NoRequest /\ stats = NoStats
    /\ targets = <<>> /\ fallback = FALSE /\ phase = "idle" /\ NoAttempts

-----------------------------------------------------------------------------
(* Metering: recordFailure and RecordSuccess write the row of a request;   *)
(* if the database refuses it, the row is missing.                         *)

Row(r, ok, cost) == [key |-> r.key, alias |-> r.alias, ok |-> ok, cost |-> cost]

AddRow(row) ==
    IF log = <<>> THEN log ELSE [log EXCEPT ![1] = @ (+) SetToBag({row})]

Record(row) == log' = AddRow(row) \/ log' = log

\* The call is over.
EndCall ==
    /\ phase' = "idle" /\ req' = NoRequest /\ stats' = NoStats
    /\ targets' = <<>> /\ fallback' = FALSE /\ EndAttempts
    /\ UNCHANGED <<setting, minute>>

Return(row) == Record(row) /\ EndCall

Step(next) ==
    /\ phase' = next
    /\ UNCHANGED <<setting, log, minute, index, attempt, cancelled, attempts, code, unusable, sent,
                   answered>>

-----------------------------------------------------------------------------
MayArrive == phase = "idle" /\ (log # <<>> => BagCardinality(log[1]) < MaxPerMinute)

\* The content policy, the budget and the quota of the key let the request pass.
Arrive(r) ==
    /\ MayArrive
    /\ req' = r
    /\ Step("screen")
    /\ UNCHANGED <<stats, targets, fallback>>

\* One of them refuses it, and logs that.
RefusedEarly(r) ==
    /\ MayArrive
    /\ Record(Row(r, FALSE, 0))
    /\ UNCHANGED <<setting, minute, req, stats, pvars>>

Decision == Evaluate(setting.rules, log, minute, req)

\* A downgraded request goes on, and is logged, under the model of the rule.
Pass ==
    /\ phase = "screen" /\ Decision.action # "block"
    /\ req' = [req EXCEPT !.alias = Decision.model]
    /\ Step("route")
    /\ UNCHANGED <<stats, targets, fallback>>

Block ==
    /\ phase = "screen" /\ Decision.action = "block"
    /\ Return(Row(req, FALSE, 0))

\* The rules, the route or the statistics cannot be read: an error without a row.
DatabaseFails ==
    /\ phase \in {"screen", "route"}
    /\ log' = log /\ EndCall

Resolved(st) == ResolveTargets(setting.catalogue, setting.routes, req.alias, req, st)

Strategy == setting.routes[req.alias].strategy

\* The statistics are over all traffic of the organization: any answer is possible.
Route(st) ==
    /\ phase = "route" /\ Resolved(st) # <<>>
    /\ targets' = Resolved(st)
    /\ fallback' = (Strategy = "fallback")
    /\ stats' = st
    /\ Step("reserve")
    /\ UNCHANGED req

RouteNotFound(st) ==
    /\ phase = "route" /\ Resolved(st) = <<>>
    /\ Return(Row(req, FALSE, 0))

StatsRead ==
    IF req.alias \in DOMAIN setting.routes /\ Strategy = "lowest_latency"
    THEN [DOMAIN setting.catalogue.models -> LatencyStats] ELSE {NoStats}

Cached ==
    /\ phase = "reserve"
    /\ Return(Row(req, TRUE, 0))

\* What is held, ChatGateway says; no target may be asked before.
Reserve ==
    /\ phase = "reserve"
    /\ BeginAttempts
    /\ UNCHANGED <<setting, log, minute, req, stats>>

\* An estimate of zero is not reserved, so not refused.
ReserveRefused ==
    /\ phase = "reserve"
    /\ estimateReservationCost(setting.catalogue, targets, req) > 0
    /\ Return(Row(req, FALSE, 0))

AnsweredBy == setting.catalogue.models[targets[index].model]

Finish ==
    /\ phase = "done"
    /\ IF code = ""
       THEN \E n \in {0, CompletionTokens(AnsweredBy, req)} :
               Return(Row(req, TRUE, Calculate(AnsweredBy, req.prompt, n)))
       ELSE Return(Row(req, FALSE, 0))

Tick ==
    /\ minute' = (minute + 1) % Day(setting.rules)
    /\ log' = IF log = <<>> THEN log ELSE <<EmptyBag>> \o Front(log)
    /\ UNCHANGED <<setting, req, stats, pvars>>

\* What a call that has arrived does.
CallStep ==
    \/ Pass \/ Block \/ Cached \/ Reserve \/ ReserveRefused \/ Finish \/ DatabaseFails
    \/ phase = "route" /\ \E st \in StatsRead : Route(st) \/ RouteNotFound(st)
    \/ (AttemptStep /\ UNCHANGED <<setting, log, minute, req, stats>>)

DispatchNext ==
    \/ \E r \in setting.requests : Arrive(r) \/ RefusedEarly(r)
    \/ CallStep
    \/ (ClientLeaves /\ UNCHANGED <<setting, log, minute, req, stats>>)
    \/ Tick

\* A call runs, and time passes; no request need come.
DispatchSpec ==
    DispatchInit /\ [][DispatchNext]_dvars /\ WF_dvars(CallStep) /\ WF_dvars(Tick)

-----------------------------------------------------------------------------
(* Properties                                                              *)

UsableTargets == {t \in setting.routes[req.alias].targets : Usable(setting.catalogue, t)}
CostFor(t) == estimatedCostMicroUSD(setting.catalogue.models[t.model], req)
Affordable == {t \in UsableTargets : \A max \in setting.routes[req.alias].maxCost : CostFor(t) =< max}

\* The target a call asks first is the one its route promises: usable; of a
\* lowest-cost route the cheapest one (the limit of the route excludes a target only
\* while another is within it), of a lowest-latency route one that no other with
\* statistics beats; and a single or fallback route has all its targets.
RouteBest ==
    targets # <<>> =>
        LET first == targets[1] IN
        /\ ToSet(targets) \subseteq UsableTargets
        /\ CASE Strategy = "lowest_cost" ->
                   /\ Affordable # {} => /\ first \in Affordable
                                         /\ \A t \in Affordable : CostFor(first) =< CostFor(t)
                   /\ Affordable = {} => \A t \in UsableTargets : first.priority =< t.priority
             [] Strategy = "lowest_latency" ->
                   \A t \in UsableTargets : \A b \in stats[t.model] :
                       \E a \in stats[first.model] :
                           a[1] < b[1] \/ (a[1] = b[1] /\ a[2] =< b[2])
             [] OTHER ->
                   /\ ToSet(targets) = setting.routes[req.alias].targets
                   /\ \A t \in UsableTargets : first.priority =< t.priority

\* The anomaly rules do not lock a client out for good.  The requests they block are
\* errors in the log themselves, but a block does not feed on them: as long as
\* requests reach the rules, again and again one of them passes, unless there are
\* new errors of another kind or failures of the database again and again.  This is
\* for rules with a baseline no shorter than the current window, a multiplier above
\* 10000 and a threshold that is not zero (SettingAssumption): CreatePolicy accepts
\* others, and those may block for good.
BlocksEnd ==
    []<>(phase = "screen") =>
        \/ []<>(phase = "route")
        \/ []<><<\E r \in setting.requests : RefusedEarly(r)>>_dvars
        \/ []<><<DatabaseFails>>_dvars
=============================================================================
