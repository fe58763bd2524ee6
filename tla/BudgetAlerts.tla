---------------------------- MODULE BudgetAlerts ----------------------------
(***************************************************************************)
(* Budget alert webhooks:                                                  *)
(*                                                                         *)
(*   internal/budget/alert_service.go   CreateAlert, CheckAndDeliver       *)
(*   internal/budget/service.go         statusForBudget, periodWindow      *)
(*                                                                         *)
(* A chat call that has been metered checks all alerts of its organisation *)
(* before it answers; a stream is metered too but checks nothing.  Checks  *)
(* of several calls run at the same time.  Between them stand only the     *)
(* rows of budget_alert_deliveries (UNIQUE org, budget, window, threshold),*)
(* written after the POST.  A check that meets an error gives up, and its  *)
(* caller ignores that.                                                    *)
(***************************************************************************)
EXTENDS Naturals, FiniteSets, SequencesExt

CONSTANTS
    Budgets,    \* the active budgets of the organisation
    Limit,      \* [Budgets -> limit_micro_usd]
    Period,     \* [Budgets -> {"daily", "monthly"}]
    Refused,    \* the budgets whose webhook has a URL that is not allowed or a
                \* secret that cannot be decrypted
    Checkers,   \* chat calls that will be metered and check the alerts
    Costs,      \* what a call may cost
    MaxDay,     \* bound on the clock
    MonthStart, \* calendar: first day of the month a day lies in
    MaxStreams  \* bound on the streamed completions

Days == 0 .. MaxDay

ASSUME AlertAssumption ==
    /\ MaxDay \in Nat /\ MaxStreams \in Nat
    /\ MonthStart \in [Days -> Days]
    /\ Limit \in [Budgets -> Nat]
    /\ Period \in [Budgets -> {"daily", "monthly"}]
    /\ Refused \in SUBSET Budgets
    /\ Costs \in SUBSET Nat

alertThresholds == {80, 90, 100}  \* looked at in ascending order
Deliveries == Budgets \X Days \X alertThresholds

VARIABLES
    day,     \* today (UTC)
    used,    \* SUM(total_cost_micro) of the organisation per budget and window
    streams, \* streamed completions so far
    alerts,  \* budget_alerts, oldest first
    rows,    \* budget_alert_deliveries: status of the delivery, or "none"
    posts,   \* requests the webhook has been sent, per delivery
    check    \* the progress of each call's check

alertVars == <<day, used, streams, alerts, rows, posts, check>>

\* todo: alerts still to look at.  window, used: statusForBudget of the first one.
\* due: thresholds to deliver for it.  sent: status of the delivery at hand.
\* owed, windows, overlapped: history (what was due when the call was metered, the
\* windows the check has read, whether another check ran meanwhile).
NewCheck == [phase |-> "chat", todo |-> <<>>, window |-> 0, used |-> 0, due |-> {},
             sent |-> "none", owed |-> {}, windows |-> {}, overlapped |-> FALSE]

Running == {"list", "status", "rows", "send", "insert"}

Check == [phase: Running \cup {"chat", "done", "aborted"}, todo: Seq(Budgets), window: Days, used: Nat,
          due: SUBSET alertThresholds, sent: {"none", "success", "failed"}, owed: SUBSET Deliveries,
          windows: SUBSET (Budgets \X Days), overlapped: BOOLEAN]

AlertTypeOK ==
    /\ day \in Days /\ streams \in 0 .. MaxStreams
    /\ used \in [Budgets -> [Days -> Nat]]
    /\ alerts \in Seq(Budgets) /\ IsInjective(alerts)
    /\ rows \in [Deliveries -> {"none", "success", "failed"}]
    /\ posts \in [Deliveries -> Nat]
    /\ check \in [Checkers -> Check]
    /\ \A c \in Checkers :
          /\ check[c].phase \in Running \ {"list"} => check[c].todo # <<>>
          /\ check[c].phase \in {"send", "insert"} => check[c].due # {}
          /\ check[c].phase = "insert" <=> check[c].sent # "none"

AlertInit ==
    /\ day = 0 /\ streams = 0
    /\ used = [b \in Budgets |-> [d \in Days |-> 0]]
    /\ alerts = <<>>
    /\ rows = [k \in Deliveries |-> "none"]
    /\ posts = [k \in Deliveries |-> 0]
    /\ check = [c \in Checkers |-> NewCheck]

-----------------------------------------------------------------------------
periodWindow(d, period) == IF period = "daily" THEN d ELSE MonthStart[d]

thresholdReached(u, limit, t) == u * 100 >= limit * t

Charged(x) ==
    [b \in Budgets |-> [used[b] EXCEPT ![periodWindow(day, Period[b])] = @ + x]]

Reached(u) == {k \in Deliveries : thresholdReached(u[k[1]][k[2]], Limit[k[1]], k[3])}

\* RecordSuccess of a chat call.
Meter(c, x) ==
    /\ check[c].phase = "chat"
    /\ used' = Charged(x)
    /\ check' = [check EXCEPT ![c].phase = "list",
                              ![c].owed = {k \in Reached(Charged(x)) :
                                             /\ k[1] \in Range(alerts)
                                             /\ k[2] = periodWindow(day, Period[k[1]])}]
    /\ UNCHANGED <<day, streams, alerts, rows, posts>>

\* FinalizeStream does not call CheckAndDeliver.
MeterStream(x) ==
    /\ streams < MaxStreams
    /\ streams' = streams + 1
    /\ used' = Charged(x)
    /\ UNCHANGED <<day, alerts, rows, posts, check>>

\* One alert per budget: UNIQUE (org_id, budget_id).
CreateAlert(b) ==
    /\ b \notin Range(alerts)
    /\ alerts' = Append(alerts, b)
    /\ UNCHANGED <<day, used, streams, rows, posts, check>>

AdvanceDay ==
    /\ day < MaxDay
    /\ day' = day + 1
    /\ UNCHANGED <<used, streams, alerts, rows, posts, check>>

-----------------------------------------------------------------------------
(* CheckAndDeliver                                                         *)

\* On to the next alert, if there is one.
NextAlert(r) ==
    [r EXCEPT !.phase = IF Tail(r.todo) = <<>> THEN "done" ELSE "status",
              !.todo = Tail(r.todo), !.window = 0, !.used = 0, !.due = {}, !.sent = "none"]

\* ListActiveBudgetAlerts
ListAlerts(c) ==
    LET others == {d \in Checkers \ {c} : check[d].phase \in Running \ {"list"}} IN
    /\ check[c].phase = "list"
    /\ check' = [d \in Checkers |->
                   IF d = c
                   THEN [check[c] EXCEPT !.phase = IF alerts = <<>> THEN "done" ELSE "status",
                                         !.todo = alerts, !.overlapped = others # {}]
                   ELSE [check[d] EXCEPT !.overlapped = @ \/ d \in others]]
    /\ UNCHANGED <<day, used, streams, alerts, rows, posts>>

\* GetBudget and statusForBudget of the next alert
ReadStatus(c) ==
    LET b == Head(check[c].todo)
        w == periodWindow(day, Period[b])
    IN
    /\ check[c].phase = "status"
    /\ check' = [check EXCEPT ![c].phase = "rows", ![c].window = w, ![c].used = used[b][w],
                              ![c].windows = @ \cup {<<b, w>>}]
    /\ UNCHANGED <<day, used, streams, alerts, rows, posts>>

Undelivered_All(b, w) == alertThresholds
Undelivered(b, w) == {t \in alertThresholds : rows[<<b, w, t>>] = "none"}

\* ListBudgetAlertDeliveriesByBudgetWindow, and which thresholds that leaves
ReadRows_StopAtDelivered(c) ==
    LET r == check[c]
        b == Head(r.todo)
        due == {t \in alertThresholds : /\ Undelivered(b, r.window) = alertThresholds
                                        /\ thresholdReached(r.used, Limit[b], t)}
    IN
    /\ r.phase = "rows"
    /\ check' = [check EXCEPT ![c] = IF due = {} THEN NextAlert(r)
                                     ELSE [r EXCEPT !.phase = "send", !.due = due]]
    /\ UNCHANGED <<day, used, streams, alerts, rows, posts>>

ReadRows(c) ==
    LET r == check[c]
        b == Head(r.todo)
        due == {t \in Undelivered(b, r.window) : thresholdReached(r.used, Limit[b], t)}
    IN
    /\ r.phase = "rows"
    /\ check' = [check EXCEPT ![c] = IF due = {} THEN NextAlert(r)
                                     ELSE [r EXCEPT !.phase = "send", !.due = due]]
    /\ UNCHANGED <<day, used, streams, alerts, rows, posts>>

Delivery_Today(c) ==
    <<Head(check[c].todo), periodWindow(day, Period[Head(check[c].todo)]), Min(check[c].due)>>
Delivery(c) == <<Head(check[c].todo), check[c].window, Min(check[c].due)>>

\* deliver, up to the answer of the webhook: a 2xx, or anything else.
Post(c, status) ==
    /\ check[c].phase = "send"
    /\ Head(check[c].todo) \notin Refused
    /\ check' = [check EXCEPT ![c].phase = "insert", ![c].sent = status]
    /\ posts' = [posts EXCEPT ![Delivery(c)] = @ + 1]
    /\ UNCHANGED <<day, used, streams, alerts, rows>>

\* deliver without a request: the delivery has failed all the same.
PostSkipped(c) ==
    /\ check[c].phase = "send"
    /\ Head(check[c].todo) \in Refused
    /\ check' = [check EXCEPT ![c].phase = "insert", ![c].sent = "failed"]
    /\ UNCHANGED <<day, used, streams, alerts, rows, posts>>

AfterDelivery(r) ==
    LET rest == r.due \ {Min(r.due)} IN
    IF rest # {} THEN [r EXCEPT !.phase = "send", !.due = rest, !.sent = "none"] ELSE NextAlert(r)

\* InsertBudgetAlertDelivery, then the next threshold or the next alert
InsertRow(c) ==
    /\ check[c].phase = "insert"
    /\ rows[Delivery(c)] = "none"
    /\ rows' = [rows EXCEPT ![Delivery(c)] = check[c].sent]
    /\ check' = [check EXCEPT ![c] = AfterDelivery(check[c])]
    /\ UNCHANGED <<day, used, streams, alerts, posts>>

GaveUp == [NewCheck EXCEPT !.phase = "aborted"]

\* Another check has inserted the row since: this one returns the error and
\* leaves its other thresholds and alerts to a later check.
InsertConflict(c) ==
    /\ check[c].phase = "insert"
    /\ rows[Delivery(c)] # "none"
    /\ check' = [check EXCEPT ![c] = GaveUp]
    /\ UNCHANGED <<day, used, streams, alerts, rows, posts>>

\* The request's context is cancelled, the database fails, or the process dies.
Abort(c) ==
    /\ check[c].phase \in Running
    /\ check' = [check EXCEPT ![c] = GaveUp]
    /\ UNCHANGED <<day, used, streams, alerts, rows, posts>>

AlertNext ==
    \/ \E c \in Checkers :
          \/ \E x \in Costs : Meter(c, x)
          \/ ListAlerts(c) \/ ReadStatus(c) \/ ReadRows(c)
          \/ Post(c, "success") \/ Post(c, "failed") \/ PostSkipped(c)
          \/ InsertRow(c) \/ InsertConflict(c) \/ Abort(c)
    \/ \E x \in Costs : MeterStream(x)
    \/ \E b \in Budgets : CreateAlert(b)
    \/ AdvanceDay

AlertSpec == AlertInit /\ [][AlertNext]_alertVars

-----------------------------------------------------------------------------
(* Properties                                                              *)

\* The webhook is told of a threshold only if the budget's window, the one the
\* delivery names, has really reached it, however the day turned in between.
PostsWereDue == \A k \in Deliveries : posts[k] > 0 \/ rows[k] # "none" => k \in Reached(used)

\* The webhook is told of a threshold once, unless two checks ran at the same time
\* or one was cut short between its POST and its INSERT.
OnceWhenAlone ==
    \A k \in Deliveries : posts[k] > 1 =>
        \E c \in Checkers : check[c].overlapped \/ check[c].phase = "aborted"

\* A call whose check ran to its end leaves no alert behind that its own metering
\* made due: it has looked at each of these alerts, and the delivery is recorded, by
\* this check or by another, except in a window that was over before the check read it.
DoneMeansNotified ==
    \A c \in Checkers : check[c].phase = "done" =>
        \A k \in check[c].owed :
            \/ rows[k] # "none"
            \/ <<k[1], k[2]>> \notin check[c].windows /\ \E p \in check[c].windows : p[1] = k[1]
=============================================================================
