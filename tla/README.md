# A TLA+ model of the LLM cost gateway

The gateway sits between applications and LLM providers. It authenticates a
request with an API key, checks it against budgets and quotas, routes it to a
provider, meters what the provider charges, and keeps the cost of every
organisation below its limits. This directory models what must not go wrong: first
of all the handling of money under concurrency and failure, then who may do what,
what a request meets on its way, and the secrets the gateway keeps. TLC checks the
models on small instances, and TLAPS proves every invariant for all sizes.

## 1. The system

| component | state it keeps | operations | talks to | what makes it correct |
|---|---|---|---|---|
| cost reservations (`internal/limits`) | `cost_limit_counters` (settled, reserved per scope, period and window), `cost_reservations` | Reserve, SettleTx, ReleaseTx | chat service, metering | concurrent requests never get more out of a window than its limit; everything reserved is settled or given back exactly once |
| metering (`internal/metering`) | `request_logs`, `usage_records`, `cost_records` | RecordSuccess, RecordFailure, RecordCacheHit | reservations (SettleTx in the same transaction), Kafka, ClickHouse | log, cost and settlement commit together |
| budgets, quotas (`internal/budget`, `internal/auth`) | `budgets`, limits in `api_keys` | CreateBudget, Check | cost records | a window at its limit blocks |
| chat service (`internal/gateway`) | one goroutine per call; `reservationActive` | Chat, StreamChat, FinalizeStream | everything | a hold ends with its call; an answer is charged once; a refusal leaves nothing behind |
| stream relay (handler, `stream_adapter.go`) | reader goroutine, unbuffered channel, `err`, response body | read, emitData, createStream, Close | provider, client | a complete stream is metered; goroutines end |
| budget alerts (`internal/budget/alert_service.go`) | `budget_alerts`, `budget_alert_deliveries` | CreateAlert, CheckAndDeliver | webhooks | no false, lost or repeated alert |
| retry and fallback (`internal/gateway`, adapters) | attempts of one call | chatProviderWithRetry, fallback loop | providers | bounded, one winner |
| routing (`internal/routing`) | `route_policies`, targets | CreateRoutePolicy, ResolveTargets | models, latencies | targets in the strategy's order |
| pricing (`internal/costing`) | `model_pricing_versions` | UpdateModelPricing, CalculateCost | models | one active version, intervals without gap |
| rate limiter (`internal/ratelimit`) | Redis counters per minute | Allow | middleware | limits per minute |
| magic links, sessions, tokens (`internal/auth`) | login tokens, sessions | Request, Consume, Authenticate, Revoke | email | single use, expiry, at most N per hour |
| caches (`internal/cache`) | Redis items and index | Lookup, Store | chat service | a hit belongs to the organisation and model asked for |
| anomaly policies, content policy | policies | Evaluate | cost records, logs | the strictest action wins |
| secret rotation (`internal/admin`, `internal/crypto`) | encrypted secrets, key ring | Reencrypt... | providers, alerts | every secret stays readable |
| HTTP API, middleware | request ids, principals | authentication, permissions, decoding, one service call each | services | nobody acts without the permission of the route |
| console, audit, observability, analytics | none the gateway reads back | display, output | services | (not modelled) |

Hard behaviours: calls interleave on shared database rows; the day turns between
two steps of a call; budgets appear while calls are in flight; a client supplies
the request id and may repeat it; a commit's answer is lost; the process dies
with holds outstanding; row locks are taken in an order nobody fixed; a
streaming client leaves or stalls; two alert checks run at once; a login link is
verified twice at once, or by a user who is disabled meanwhile; Redis commands of
several requests interleave, and a counter expires while a request is on its way;
instances run with different keys while a rotation overwrites rows from a list it
made earlier; a rule that blocks requests counts the blocked ones. `PROJECT.json`
lists each with its line.

## 2. Modules

    CostLimits ------ CostLimitsProofs        ledger: one action per transaction
      |  \
      |   ReserveTx - ReserveTxProofs         the same transactions, statement by statement
      |
    ChatGateway ----- ChatGatewayProofs       calls on top of the ledger (refines CostLimits)

    StreamRelay  \                            one stream: reader, handler, provider, client
    Pricing       >-- MeteringProofs          price updates and the calls charged by them
    BudgetAlerts /                            alert checks

    Routing          \
    Anomaly           >- Dispatch             a call from the rules over the router to the
    ProviderAttempts /     |                  providers, and back into the log
                         DispatchProofs

    AdminAccess ----- AdminAccessProofs       members, logins, tokens, permissions
    GatewayEdge ----- GatewayEdgeProofs       API keys, rate limiter, content policy, caches
      Allowance                               (implements Allowance, a rate limit)
    SecretRotation -- SecretRotationProofs    key rings, servers, rotation runs

Every `MC*` module gives an instance its calendar and functions; the `.cfg`
files hold the sets. A definition named `X_Y` is a faulty variant of `X` that no
specification uses; it is there to show which property would notice the fault.

**CostLimits.** The tables as functions: `counter` by scope, period and first day
of the window, `resv` by request id and counter, `costs` and `logs` by request
id, `recorded` for the `SUM(total_cost_micro)` queries, `budgets` for the limits
of active blocking budgets and quotas. `openedWith` is a history variable: what a
counter was seeded with. An action is one committed transaction (`Reserve`,
`RecordSuccess` with `SettleTx` in it, `Release`, `RecordFailure`,
`RecordCacheHit`, `CreateBudget`); a rolled back one changes nothing.
`periodWindow`, `loadBlockingConstraints`, `ensureAndLockCounter`, `SettleTx`,
`ReleaseTx` carry the names of the functions they translate. Time is a day
number, and a month is named by its first day. `Spec` lets any caller do
anything at any time, which makes it the abstract specification `ChatGateway` is
checked against. (`ReservationService.Settle` is called by tests only.)

**ChatGateway.** Each call is a program counter over the calls its goroutine makes
on the database and the provider, so two calls interleave between any two of
them. Content policy, anomaly rules, router, cache lookup and provider answer
are free choices. `reservationActive` is the set `active`; `doneAt` is
`CompletedAt`. Faults: a database error at any gate (`GateFails`), a metering
transaction that is rolled back (`MeterFails`), a commit whose answer is lost
(`ReserveCommitLost`, `MeterCommitLost`), a failing `Release`, and a crash of the
process. Request ids are a constant function of the calls, because a client may
choose them: the runs use distinct ids and a shared one.

**ReserveTx.** Reserve, SettleTx and ReleaseTx with the row locks PostgreSQL takes
under READ COMMITTED. Reserve reads limits and clock at its start and visits the
counters in a fixed order; the closing transactions visit them in the order
their SELECT returns them, which has no ORDER BY: `ordered` decides at the start
whether that is insertion order. Writes are staged until commit; in a cycle of
waits one transaction is the victim.

**StreamRelay.** The reader goroutine, the handler's range loop, provider, client
and the stream's context. A frame is a delta, a usage event or `[DONE]`. The
response may end regularly, break, or end with an unterminated frame; the
context ends by timeout, by the client leaving or by Close.

**BudgetAlerts.** Metered calls check the alerts of the organisation: list, read
status, read the delivered rows, POST, insert, one step each, so two checks
interleave between POST and INSERT. Streams are metered without a check.

**ProviderAttempts.** What `ChatGateway` sees as one step `ProviderCall`: the loop
over the targets of the route and the retries of each. `Errors` lists the outcomes
the adapter tells apart, with the code, the retryable mark and whether a cancelled
context is the cause, since `ShouldRetry` and `fallbackRetryable` differ there.
The configuration of a target may fail at any time, and the client may leave at
any time. `sent`, `answered` and `unusable` are history variables. The variables
`targets` and `fallback` are set by whoever drives the loops, which is `Dispatch`.

**Pricing.** `UpdateModelPricing` statement by statement: the clock is read before
the transaction begins, the version number before the row lock is held. Rows
change at the commit; the lock on the active row and the constraints of the table
decide between concurrent updates. A call takes its estimate from `models` and its
charge from the version active when it is metered.

**Routing** and **Anomaly** have no state. `ResolveTargets` filters and sorts the
targets of a route by its strategy. The targets are a set, and each comparison
function of the resolver is the key it compares by (cost, priority and id, say);
the ids differ, so there is one order, and that the sorts are stable and start
from the order of the database does not matter. `Calculate` is the truncating
arithmetic of the calculator, `estimateReservationCost` what a call asks `Reserve` for.
`Evaluate` runs the rules over a request log grouped by minute, and the strictest action
wins.

**Dispatch** puts them together with `ProviderAttempts`: rules, router, estimate,
attempts, and the row in the log which the rules of the next request read. What is held
for the estimate, with the clamp to what is left, is the subject of `CostLimits` and
`ChatGateway`; here only a call whose estimate is zero cannot be refused. Calls
come one after another, for ever; the log forgets what no rule looks at and the
clock is taken modulo the day, so that the run is finite without a bound on time.
What administrators set up (rules, routes, prices, switched-off models) is chosen
at the start. Any row may fail to be written. Latency statistics are any answer
the query could give. A stream has one target and no loop; it is in `ChatGateway`
and `StreamRelay`.

**AdminAccess.** Tables of organisations, users, members, links, sessions and
service tokens; a worker is the goroutine of a request, a step is one statement.
The transaction of `Consume` is find, update (which waits for the row lock and then
looks at the status again, as READ COMMITTED does), insert and commit. Permissions
are those of `rbac.go` by route of `router.go`. Disabling happens in the database,
no operation does it. Any step may fail. (`SessionService.Revoke` is called by tests
only.)

**GatewayEdge.** What a request that is not streamed meets before and after the
provider: API key, rate limiter, content policy, exact cache, semantic cache. A step
is one command on PostgreSQL or Redis; `Allow` reads the clock in one step and runs
its script in another. Items are sealed with the key of the instance that stored
them, and instances may have different keys; what an instance cannot open it deletes,
from the exact cache with one command (`PromptDelete`), from the semantic one with a
`DEL` and an `SREM` (`LookupDelete`, `LookupRemove`). The code ignores the errors of
these three and goes on, so each of them may fail without a trace. An error of a `GET`
or `SMEMBERS` counts as a miss (`PromptGet`, `LookupFails`). `Finish` ends a request
at any step: an error that is returned, or the end of the process. Similarity, the texts the detector
hits and the risky texts are constants. Two assumptions: a request does not stall
for more than a minute between reading the clock and its script (`Tick`), and Redis
loses nothing but what expires. **Allowance** is the abstract rate limit: per holder
and window at most the quota is granted, one at a time, never taken back.

**SecretRotation.** A configuration is an active version and a ring of versions; a
stored secret is the key it is sealed with and the version written beside it.
Servers and runs of `secret-rotate` keep the configuration they started with, the
run lists the rows once and then overwrites them one by one, and may die anywhere.
The operator (`MayDrop`) deletes a key only when no row uses it, as lines 31, 37 and 84
of `docs/runbooks/secret-rotation.md` ask, and only when no server and no run still
writes with it. The second condition is an assumption of this model: the runbook speaks
of ciphertexts only and names no restart of all instances before a key is deleted. A
server that was not restarted would write, after the last row was checked, a secret the
remaining keys cannot open.

## 3. Runs

| run | instance | question |
|---|---|---|
| `ledger` | 2 ids, 1 key with a daily quota of 2, org budgets of 0 or 3, estimates 1 and 4, cost 2, 2 days | are counters, rows, logs and costs consistent after any sequence of calls? |
| `gateway` | a call and a stream, distinct ids, 1 fault, 2 days, estimates 0, 1, 4 | do the handlers use the ledger correctly when interleaved? |
| `gateway_shared_id` | a call with a second call or a stream, all with one id, 1 fault, fair handlers | what if the client repeats its id, and does every hold end? |
| `gateway_unmetered` (violation) | shared id, no fault | is whatever was bought recorded? |
| `row_locks` | 2 requests, quota 3, org budgets of 4, 2 days | do row locks make the transactions atomic, and can they deadlock? |
| `stream` | 3 frames | is each stream metered, and does everybody return? |
| `alerts` | 2 budgets (daily 11, monthly 30), 2 calls, 1 stream, cost 9, 2 days | which alerts are sent? |
| `dispatch` | 851 set-ups of up to 3 targets and up to 2 rules, 2 retries, a day of 2 minutes, 2 requests a minute | is the right target asked, an outage real, a completion bought once, the log true, and does a block end? |
| `pricing` | 2 updates, 1 call, prices 1 and 2, 3 clock values | is the version history sound, and which price is charged? |
| `admin_access` | 1 organisation, 1 user, 1 token, 2 workers, 1 link per hour, 3 links, 2 sessions, 3 clock values | how many links, how many logins per link, and whose authority counts? |
| `edge` | 2 organisations with a key each (2 and 1 requests per minute), 2 models, 3 workers, 2 minutes, 2 cache keys; similar texts, of which one holds personal data and one is risky, one text unlike them, one request too warm | does the limiter limit, and do cached answers fit? |
| `secrets` | 2 versions, 1 provider, 1 alert in plain text, 1 token, 1 server, 2 runs, 3 edits | is every secret readable, and does a finished run mean rotated? |

Why the bounds are enough to be interesting: two requests are the smallest number
that can race for a counter, share an id or close a lock cycle. With estimate 4
above both limits, estimate 1 below and costs (2 in `ledger`, 3 in the gateway
runs, 4 in `row_locks`) above estimate 1, holds are clamped, refused and exceeded. A limit of zero blocks everything. Two days of
one month let a daily window turn while the monthly one stays. Three frames
allow delta, usage and `[DONE]`. A cost of 9 reaches the day's 80 % at once and
all its thresholds in two, the month's 90 % in three. One fault at any point
covers each single failure. Three targets let a fallback pass over a failed target
in the middle and still have one left, and each of them may be dear, switched off or
without statistics; a window of one or two minutes against a baseline of two is the
smallest in which a block can outlive its cause. With one link per hour and two
workers the limit is exceeded whenever it can be; the third link and the third clock
value put two of them in overlapping hours; one member is enough because the rows of
different members never meet, and its role, owner or viewer, may change while both
workers act. Three requests for a quota of two make the limiter refuse; the second
minute lets the first expire; two workers that store and one that looks up are what
the clean-up of the index needs to go wrong. A second organisation, a second model, a
text below the threshold and a risky one give every clause of `AnswersFit` a request
that would break it. Everything at once is too much for five minutes, so a state
constraint (`MCBound`) takes the union of two parts: three workers with two requests of
one organisation and model, and any two workers with any requests. Keys are revoked and
requests blocked before the first paid answer only. That leaves 1.5 million states.
In `gateway_shared_id` a constraint (`OneOfTwo`) takes two calls out of three: two that
are not streamed, since an id could be charged for two answers only then, or a call and
a stream. It cuts off no step that fairness asks for, because no call need be made.
Two versions are a rotation, three edits add a key,
make it active and drop the old one, and two runs may overlap or follow each other.
Two updates are what can race for a version;
a third clock value lets one read its time between the times of the other two.

What the runs show beyond "it holds":

- `OverspendBounded`: a window is overspent by no more than the sum of what the
  requests cost beyond their holds. That excess is real: a first request larger
  than the limit is admitted with a clamped hold.
- `CounterTracksCosts`: counter and cost records do drift apart, in exactly the
  ways the property names (`Uncovered`, `Strayed`).
- `HeldOnlyInFlight`: after a crash, a lost commit answer or a failed `Release` a
  hold stays until its window ends; no other hold does.
- `ReserveNeverDeadlocks`: reservations alone cannot deadlock; a settle or release
  whose rows come back out of order can, and then the metering of a delivered
  completion may be the victim.
- `ReaderEndsUnlessAbandoned`: the reader goroutine stays blocked for ever if the
  handler leaves its loop on a write error while the reader is sending.
- `StreamFinalized`: without a write timeout, a client that stays connected but
  does not read keeps the handler and the hold.
- `OnceWhenAlone`, `DoneMeansNotified`: two concurrent checks may both POST, and
  the one that loses the INSERT gives up on the rest. A check that straddles
  midnight looks at the new window only.
- `AttemptsAccount`: after the client has left, a fallback route still walks over
  its remaining targets and logs an attempt for each, though nothing is sent.
- `RouteBest`: without `max_tokens` a lowest-cost route compares prompts only
  (the router prices a completion of no tokens), while the hold is taken for the
  context window or 4096 tokens. The cost limit of a route, if all targets exceed
  it, leads to the order of priorities or to an error, as the policy says.
- `OutageIsReal`: on a fallback route every target is asked, and every one that can
  be used as often as the policy grants, before a client that is still there is told
  that the provider is unavailable. A client's own error ends the loops at once and is
  not called an outage.
- `BlocksEnd` needs two things of a rule that `CreatePolicy` does not check: a
  baseline no shorter than the current window and a multiplier above 10000 bps.
  Otherwise a client that keeps trying can be blocked for ever by the errors its
  blocked requests are. A daily threshold of 0 blocks always. `budget_blocked` rows
  count as errors too, and a downgraded request is logged under the model it was
  downgraded to.
- `RecentLinksBounded`: the limit per hour can be exceeded, by one link for each
  concurrent request and no more.
- `AuthorityCurrent`: making a disabled member a member again reactivates the
  membership, but never a disabled user.
- `AnswersFit` is about what a request has become by then: under a policy that
  redacts, the semantic cache may serve an answer that was made, before the policy
  existed, for the text with the personal data. A request without a temperature is
  always a candidate.
- `OrphansExplained`: an item is lost to its index, until it expires or is stored
  again, in three ways: `SADD` fails after `SET`; `SADD` comes before the `SREM` of a
  `Lookup` that saw the key empty; or a `Lookup` that cannot open the item loses its
  `DEL` and goes on to its `SREM`, and other instances, which could have read the item,
  no longer find it.
- `ImplementsAllowance`: the counter of a minute must live longer than the minute,
  and its two minutes suffice. Across the end of a minute twice the limit may pass,
  in the name of two minutes.
- `SecretsRecoverable`: a row rotated by an older run goes back to an older version
  and stays readable. It is about the configuration in force: an instance that was
  not restarted cannot read what another one has written with a new key, and the
  runbook does not say that all instances must have a key before one makes it active.
- `ChargedInForce`: a call that straddles a price update is charged the new price,
  although it was estimated, and may have completed, under the old one. Of two
  concurrent updates one usually fails, as "not found" or with a duplicate number.
- `gateway_unmetered`: `docs/README.md` line 77 says that each request records
  RequestLog, UsageRecord and CostRecord. A call under an id that has been
  logged already is served and paid for, then fails in `InsertRequestLog`, and
  nothing of it is recorded.

## 4. Fairness

- `GFairSpec`: every goroutine goes on, weakly fair. Database calls end or fail,
  provider calls have a timeout. No call need be made. The relay of a stream is left out of the fairness
  (a stalled client may keep it for ever), so `EveryHoldEnds` allows a call to
  stay there.
- `TSpec`: a transaction that can take its next step does; PostgreSQL aborts a
  transaction of a lock cycle. Whether a request reserves or settles at all is not
  assumed; releasing is (it is deferred or follows at once).
- `RelaySpec`: goroutines run, the timeout expires, a read whose context is over
  returns. Nothing is assumed of provider or client.

- `DispatchSpec`: the goroutine of a call runs (its backoff timer expires, and a
  request ends by the provider's timeout at the latest), and time passes. No request
  need come, and none need succeed: `BlocksEnd` speaks of clients that keep coming.

The other specifications state safety only.

## 5. Proofs

Every theorem holds for all values of the constants the named `ASSUME`s admit: any
number of ids, keys, calls, workers, servers, runs, any amounts, any calendar. Each
rests on an inductive invariant, which the initial states satisfy and every step keeps.
What follows says what the invariant adds to the property and why it is needed.

**CostLimits.** `LedgerSafe`, with its parts `TypeCorrect`, `SettledIsCharged`,
`ChargedIsLogged`, `CountersFound`, and the action properties `AdmissionsFit` and
`ClosedStaysClosed` rest on

    LedgerInv == TypeOK /\ ChargedIffLogged /\ SettledRowsCharged /\ RowsHaveCounters

No conjunct but `TypeOK` is inductive alone: that a settled row matches its cost
record survives `RecordSuccess` only because the record of an unlogged id cannot exist
yet, and that an update finds its counter needs `RowsHaveCounters`. `BooksBalance` adds

    BalanceInv == LedgerInv /\ LimitsBounded /\ \A c \in CounterKeys : Balanced(c)

where `Balanced(c)` says of *every* counter, absent ones included, that it reserves the
sum of its outstanding rows, and of a present one that it has settled its seed and the
actual costs, and that both together exceed the largest limit by no more than what
settled requests cost above their estimates. `ReservedIsOutstanding`, `SettledIsLedger`
and `OverspendIsBounded` follow. The sums are folds over a set. That such a fold is
a number, does not depend on the order, and grows by f(x) when x is added is
not taken from induction over the set: the first lemmas of that part take the least
cardinality at which it would fail (`Nat` is well-ordered) and derive a contradiction,
and `TotalAdd` and `TotalRemove` are what everything later cites.

**ChatGateway.** `GatewayUsesLedger` (every step is a step of `CostLimits!Spec` or
leaves its variables alone), `HoldsHaveOwners` and `AnsweredIsCharged` hold for any
assignment of request ids. Their invariant is `GInv == GTypeOK /\ \A c : doneAt[c] =<
day`, for a completion day that has been reached is what the ledger's `RecordSuccess`
asks for, with the property of each theorem added. `HoldsAreKept`,
`RefusedLeavesNothing` and `CountersTrackCosts` have the hypothesis `DistinctIds`: no
two calls use one request id. Without it they are false, since clients may choose
ids; that is the subject of the run with a shared id. The first two follow from
`OwnRows` (which rows a call has at each of its program points), the third from
`TrackInv`, which also covers counters that do not exist yet: what is recorded before
a counter is created is what it will be seeded with.

**ReserveTx.** `TransactionsAreAtomic`: every commit of the statement-by-statement
transactions is one atomic action of `CostLimits`, or of a `Reserve` that decided
on a limit, a day or cost records that have changed since (`Stale`), and
nothing else changes the tables. `ReservationsNeverDeadlock`: a circle of waits needs
a closing transaction whose rows came back out of order. The invariant `TxInv`
(`OpenTransactionsHold`) says that no counter is locked twice, that what a transaction
has staged is right for the counter as it stands (nobody else can have touched it),
that the counters visited and still to be visited are the constraints it read, or its
open rows, and that a transaction in order holds only counters of lower rank than those
to come. Along a chain of waits the rank therefore grows, and there are four ranks.

The next three are in `MeteringProofs`.

**StreamRelay.** `RelaySafe`, `WholeStreamsAreCharged`, `ErrorsAreTheProviders`. The
invariant adds to the types that the handler notes a usage event before it passes it
on, that the error is set by a reader that has ended, and that the recorded outcome is
the one of the usage and the error at the end.

**Pricing.** `HistoryIsGapless`, `NoUpdateLost`, `ChargesAreInForce`. `HistoryInv` adds
that version numbers are unique, that a number read by an update is the next one or has
been taken since, and that the row lock has one owner whose interval still fits.
`KeptInv` counts committed updates against versions. `ChargeInv` says, for a call at
each stage, which updates may be open; the exceptions `raced` and `changed` are the
ones the property itself names.

**BudgetAlerts.** `AlertsWereDue` needs that what a check has read of its alert still
holds when it acts on it, and it does because usage only grows (`PostInv`).
`AlertsSentOnce` needs, as long as no two checks have overlapped and none was cut short,
that only one is at work, that what it is about to deliver has no row, and that what was
posted has a row or is just being recorded (`AloneInv`). `ChecksNotify` follows each
delivery that a call's own metering made due through the check (`NotifyInv`): its alert
is still ahead, or its status has been read, and if in the very window, then the delivery
is recorded or due in this check. That the list of alerts has no repetition is part of it.

**Dispatch**, with Routing and ProviderAttempts, is proved as one system. `BestRoute`: the
first target is the one the strategy promises, for every route and catalogue. A sort is
the `CHOOSE` of an arrangement of the set in the order of the keys; that there is one is
proved like the sums of the ledger, by the least cardinality for which there is none
(`OrderExists`), from the facts that keys compare totally and transitively.
`AnswersAreFinal`, `LogAccounts` and `OutagesAreReal` rest on

    LoopInv == ... Len(attempts) = IF phase = "done" THEN index ELSE index - 1
               /\ nothing sent to the targets behind /\ SentFits /\ OneAnswer /\ AttemptsAccount
               /\ Spent /\ GivenUp /\ UsedUp

where `SentFits` ties the requests sent to the current target to the number of the
attempt: one behind it before a request goes out, equal to it afterwards. `Spent` says
that a target left behind was unusable or got all its requests, and `GivenUp` and `UsedUp`
why the loops stopped where they did. `DispatchInv`
says in which phases of a call the targets are chosen and the loop is at work; TLC checked it before it was proved.

**GatewayEdge.** `LimiterImplementsAllowance` is the refinement: every step is a step of
`Allowance` or a stutter. `LimitInv` says that a worker before its script is at most
a minute behind, and that until a minute is over by one, its counter is at least what
was admitted in its name; this is where `WindowTTL >= 2` is used. `CachedAnswersFit`
(an answer from a cache was paid for, by a request of the same organisation and model,
and is that request's own or similar enough and free of risk) needs `ServeInv`: what each cache holds, and what a worker knows at each program point.
`LostItemsExplained` needs `IndexInv`: every item is in the index with nobody about to
remove it, or it is gone, about to be added, or lost in one of the three ways. An `SREM`
then takes an entry only of an item whose absence is explained already. `EdgeTyped` is the type invariant.

**AdminAccess.** `LoginsHaveOwnLinks` (a link opens at most one session, while it
lives) needs `LinkInv`: a worker about to commit holds the row, alone. `AuthorityIsCurrent`
is an action property, proved from `BannedInv`. `LinkLimitHolds` bounds the links sent
to a member in an hour by the limit and the number of concurrent requests less one; it
is inductive only for all windows, not just those that begin with a link, and with the
requests that have counted but not yet inserted. `AccessTyped` is the type invariant.

**SecretRotation.** `SecretsStayReadable`: every version in use by a row, a server or a
run is in the ring. `DoneRunsHaveRotated`: a run that is through, alone, has left
every row of its scope at its version; the invariant says how far a run has come.
`RotationTyped` is the type invariant.

The assumptions are the named `ASSUME`s; TLC evaluates them in the runs. Those that are
more than types: `QuotaAssumption` (a key has at most one quota per period, which is a
column of its row), `WindowTTL >= 2` minutes (the limiter sets two), `Workers` finite
and not empty, tokens and encrypted secrets in different tables, and the rows of
`SettingAssumption`: a route has finitely many targets with ids of their own (the
primary key), prices and windows are not negative. (What it says of the rules is for
`BlocksEnd`; no proof uses it.) Amounts are natural
numbers: `int64` overflow of micro-dollars is out of scope.

Only model-checked: the liveness properties `EveryHoldEnds`, `EveryTxEnds`,
`ReaderEndsUnlessAbandoned`, `StreamFinalized`, `AttemptsEnd` and `BlocksEnd` (fairness
and ENABLED are out of the prover's reach); and `ProviderCostRecorded`, which is violated.

## 6. Not modelled

Budgets with action `warn` (they annotate logs and answers). Kafka and ClickHouse
output after the metering commit, and the analytics queries over it (errors are
ignored, the gateway reads nothing back). The rows of `cache_events`, written beside
the caches with errors ignored. Wording, JSON, metrics and traces. The cipher, the
hash and the embedding. Text matching of the content policy. The console. Listings,
`last_used_at` and the provider health check, which decide nothing. The bodies of
admin handlers, each of which decodes a request and calls one service.

The audit log is written after the handler by the middleware and read by its listing only.
A row is written only if the handler names the resource it changed, and only those
of budgets, anomaly policies, providers and content policies do, although
`docs/api.md` line 272 speaks of the changes made by the admin API in general. That
is seen by reading; there is no sequence of steps to check.

`int64` overflow of products in the anomaly rules and of micro-dollars: the products
are beyond TLC's integers, and a smaller width would say nothing about this one.

## 7. Plan

Done: the ledger, the handlers on top of it, row locks, streams, price history, alerts,
access, limiter and caches, key rotation, and rules, router and attempts as one system:
modelled, checked, and every invariant proved.

What would extend it: routes, rules and prices that change while calls are in flight
(`Dispatch` fixes them at the start), and streams that check alerts, should the code come
to do so.
