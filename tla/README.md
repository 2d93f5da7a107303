# Ren2Hub: formal models of its billing, routing, streaming, task, payment and session protocols

Ren2Hub is an API gateway: it authenticates a request, picks an upstream channel,
reserves quota, relays the call, settles the actual cost, and runs background tasks
on its master nodes. This directory holds TLA+ models of the parts of it whose
correctness depends on the order in which several actors act, the TLC configurations
that check them on small instances, and TLAPS proofs of the most important invariants
for every value of the constants.

`PROJECT.json` lists components, runs, mutants, findings, hazards and theorems, and
maps every definition that models code to its source lines.

    tlc -workers 2 -config BillingCrash.cfg MCBillingSession     # one run
    tlapm BillingProofs.tla                                      # the proofs of one module

## 1. Inventory

| Component | State | Operations | What is hard | Module |
|---|---|---|---|---|
| Billing recovery store (`model/billing_recovery.go`) | one row per request (status, source, amounts, delta, completion columns), one marker per accounting effect | ensure/rebind, abort, pre-consume, reserve, update, mark, apply adjustment, touch, list stale | two writers per row, retries, crashes between transactions | `BillingRecovery` |
| Billing session, funding sources (`service/billing_session.go`, `billing.go`, `funding_source.go`) | flags and amounts of one request | create with fallback, pre-consume, reserve, settle, refund, heartbeat | any call may fail or lose its answer, the process may stop between any two | `BillingSession` |
| Billing recovery worker (`service/billing_recovery.go`) | the row in hand | list stale rows, settle or refund each | the list is not checked again | `BillingSession` |
| Quota cache and batch updater (`model/quota_reserve.go`, `utils.go`, `user_cache.go`, `token_cache.go`) | a balance in the row, in Redis and as deltas in memory; fences; striped locks | reserve, adjust, fill, flush, recover | three copies, two kinds of locks | `QuotaCache` |
| Relay controller and route leases (`controller/relay.go`, `service/route_live.go`, `route_lease*.go`, `route_policy.go`) | attempts of a request, leases in Redis | select, acquire, recheck, renew, call, fail over, finish | expiry against renewal, lost replies, output already sent | `RelayRoute` |
| Route health circuit (`service/route_health.go`) | a row per channel and model: state, failures, cooldown, epoch | admit, re-arm, claim a probe, recheck, observe | stale reads, lost probes, late observations | `RouteHealth` |
| Route capabilities (`service/route_capability.go`, `model/routing_snapshot.go`) | numbered snapshots, an index in each node | change, queue, read, publish, rebuild, scan | readers of old sources publish late | `Capabilities` |
| Channels and abilities (`model/channel.go`, `channel_cache.go`, `ability.go`, `controller/channel.go`) | the row with keys, marks and cursor, its abilities, a copy in memory | pick a key, change status, manage keys, edit, tag, refresh | several marks in one column; a lock that some writers take | `ChannelKeys` |
| System task runner (`model/system_task.go`, `service/system_task.go`) | task rows with a unique active key, one lock row per type | create, stale pass, claim, renew, finish, release | no transaction spans two statements; nodes stall and stop | `SystemTask` |
| Asynchronous tasks and Midjourney (`service/task_polling.go`, `task_billing.go`, `model/task.go`, `midjourney.go`) | task rows, charges | submit, poll, sweep, swap, refund, settle | overlapping pollers with loaded rows | `AsyncTask` |
| Top-up and payment callbacks (`model/topup.go`, `controller/topup*.go`) | orders, order locks | checkout, notify, complete | repeated callbacks on several nodes | `Payments` |
| Subscription lifecycle (`model/subscription.go`, reset task) | subscriptions, user group and its copy | buy, consume, reset, expire, invalidate | a task that works on rows it listed | `Subscriptions` |
| Codes, check-in, activities, affiliates (`model/redemption.go`, `checkin.go`, `affiliate.go`, ...) | codes, records, ledger, counters | redeem, edit, award, accrue, thaw, transfer | two database kinds, with and without row locks | `Rewards` |
| Sessions and authentication (`model/user_session.go`, `user_auth_cache.go`, `service/auth_session.go`) | session and user rows, caches, fence and floor | sign in, validate, refresh, revoke, change the user | caches filled by late readers | `Sessions` |
| Streamed answers (`relay/helper/stream_scanner.go`, `relay/channel/{openai,gemini,claude}`, `relaykit/relayconvert`) | a bounded channel of lines, a stop channel, a write lock, the end reason; the open blocks, tools and indexes of a conversion | scan, queue, handle, ping, wait, clean up; convert a line, finalize | four goroutines that wait for each other; tools addressed in three ways, in any order, cut off anywhere | `StreamScanner`, `ClaudeStream`, `ResponsesStream`, `StreamRelay` |
| Rate limiters, pricing, other adaptors, logs, options, frontend, desktop shell | counters, single rows, none shared | - | not protocols | - |

Requests enter through `Sessions`, are given a route by `RelayRoute` with the answers of
`RouteHealth`, `Capabilities` and `ChannelKeys`, and are paid through `BillingSession`; a
streamed answer comes back through `StreamScanner`, which hands its lines to the handlers
of `StreamRelay`. `BillingSession` writes `BillingRecovery` rows and, below them, the
balances of `QuotaCache`. `Payments`, `Subscriptions` and `Rewards` add to those balances.
`SystemTask` runs the recovery worker, the pollers of `AsyncTask`, the channel test of
`ChannelKeys`, the scan of `Capabilities` and the reset task of `Subscriptions`.

The properties that make them correct:

* billing: a closed request has been charged its price once, or nothing; settlement
  and refund exclude each other; every opened row closes, unless its settlement does not
  fit in its subscription; balances are explained by durable state; a refund never erases
  another request's use;
* quota: no delta is invented or silently lost; a recovery sees every earlier delta;
  nobody waits for ever on the striped locks;
* relaying: upstream work stays within capacity and attempt budgets; after output there
  is no second response, and a lease that is lost then does not refund it; no lap of the
  loop is free;
* routing: one probe at a time; no request runs on an admission that is out of date; a
  circuit that opened is probed and none stays half open; one snapshot version stands for
  one source; the master ends up with what the database holds;
* channels: abilities follow the status; a disabled key stays disabled until somebody
  asks, except under a writer that loaded the channel before its lock; the copy in memory
  converges to the row;
* system tasks: a task runs once, ends once and never rewrites its outcome; timely
  handlers of a type do not overlap; every task ends;
* streams: the caller returns once the upstream is silent for long enough; an end that is
  called good left no line behind; the client can parse what it is sent and gets every
  piece once;
* asynchronous tasks: billed once, row and charge agree, every task ends if there is a
  timeout;
* credits: an order, code, day or ledger entry is credited once and within its limits;
  what was paid is delivered, unless there is no room for it or its notification was
  dismissed; use survives resets; the cached group is the row's;
* sessions: a revoked session, or a token from before a change of the user, is refused;
  a rolled back change does not lock the user out.

## 2. Modules

| Module | Uses |
|---|---|
| `BillingRecovery` (durable layer; `DurableSpec` lets any caller call any transaction in any order) | - |
| `BillingSession` (the callers) | extends `BillingRecovery`, instantiates `RequestCharge` |
| `RequestCharge` (abstract promise to the client: price or nothing, then final) | - |
| `StreamRelay` (handlers, upstreams and clients) | extends `ResponsesStream` (converters between chat and Responses, the accumulator), which extends `ClaudeStream` (chat to Claude) |
| `QuotaCache`, `RelayRoute`, `StreamScanner`, `RouteHealth`, `Capabilities`, `ChannelKeys`, `SystemTask`, `AsyncTask`, `Payments`, `Subscriptions`, `Rewards`, `Sessions` | - |
| `Sums` (theorems: sums over a finite set) | - |
| `BillingProofs`, `QuotaCacheProofs`, `SessionsProofs`, `RelayRouteProofs` (`RelayRoute`, `ChannelKeys`), `UpstreamProofs` (`RouteHealth`, `Capabilities`, `StreamScanner`, `AsyncTask`), `CreditsProofs` (`Payments`, `Rewards`, `Subscriptions`), `SystemTaskProofs` (`SystemTask` and its scenes) (theorems and proofs) | extend their specifications; `BillingProofs` and `CreditsProofs` also `Sums` |
| `MC...` (constants, scenes and symmetry for TLC) | extend their specifications |

Definitions whose name begins with `Mut` are mutants: plausible bugs that a run must
detect when the mutant replaces the real definition. No specification uses them.
Properties marked "not kept by the code" are the known deviations of section 4; no run
lists them as passing.

Some MC modules put several questions into one run. `MCBillingRace` and `MCSystemTask`
have *scenes*: a constant-valued variable that selects how the environment is limited
(which faults, crashes and delays), while the actions are those of the specification.
`MCCredits`, `MCRouting` and `MCAnswers` have *parts* (or *topics*): specifications that
share no variable here, of which one moves in each behaviour.

### Billing

Every exported function of `model/billing_recovery.go` is one transaction. For a
function F the module has the predicate `FOk` ("F returns nil") and the action `F`
(what it commits). The columns `*_settlement` and `*_refund` are the set
`row[r].completed`; `updated_at` is reduced to membership in `stale`; all requests
share one user, one token and one subscription so that they compete. `charge` is an
auxiliary variable: what a request has moved out of each balance, written only by the
operator that also moves the balance.

`BillingSession` gives each session a program counter with one step per database call,
and the fields of the Go struct. A call has four outcomes (operator `Transaction`): it
commits and returns nil, it is refused, it fails without effect, or it commits and the
caller sees an error. `Settle` is `SettleUpdate`, `SettleFunding`, `SettleToken`,
`SettleMark` with the three attempts of `SettleBilling`; `Refund` is `RefundMark`,
`RefundFunding`, `RefundExtra`, `RefundToken`, `RefundFinish`. A worker re-reads its row
before each call only to skip a component that its marker would skip too, so a read and
the call after it are one step.

### Quota cache

A resource is a user or a token: its row (`db`), its Redis hash (`cache`), its fence,
its delta in the batch store (`store`), with the updater (`flush`) or with a recovery
mutation (`drained`). Goroutines lock stripes in ascending order, then the batch lock;
`StripeMaps` contains both orders and a collision. The goroutine that repeats a delta in
Redis is the step `LateDelta`. A call has the outcomes of a billing call: one that committed
may report an error. `ledger`, `dropped`, `gen`, `cacheGen` and `astray` (what calls that
committed and reported an error left in the row or in the store) are history.

### Relaying

A request goes `loop -> acquire -> recheck -> up -> retry -> final`. The three Lua
scripts on leases are one step each and may run with their reply lost. A renewal
goroutine is part of its request's record. Selection returns any order of the eligible
channels, because a score is floating point arithmetic over metrics. Health epoch,
capability version, capacity and ratio are reduced to "has it changed since it was
read". The bill has the states that matter here: held, settled, pending, refunded.

### Route health and capabilities

One `channel_health` row in the channel/model scope. A request goes `idle -> load ->
(rearm -> load) / claim -> selected -> run -> idle`; `selected -> run` is the recheck
around the lease, which compares epochs. Epochs are only compared for equality, so the
model reuses a number that nothing refers to any more. `EndSilently` covers every way a
request ends without an observation, among them the candidates for which a probe was
claimed and which never ran.

In `Capabilities` the source of a channel is a pair: the number of the edit its row and
the edit its abilities come from, so that a half-made change is visible. Each node has
at most one refresh under way (`capabilityRefreshMu`), of kind `one` (queued by the
node's own hook), `scan` (master) or `boot`. Every read, the fence, the publication and
the rebuild are steps. Statements fail and nodes restart up to `MaxMishaps` times.

### Channels

One channel with its row (`stored`), abilities (`able`) and the pointer in memory
(`cached`). A goroutine that got its channel from the memory cache works on `cached`
itself until a refresh replaces the map, after which it keeps the old copy
(`Detached`); one that got it from the database works on its own copy. The marks are a
map from the positions of disabled keys to the kind of the mark; marks and cursor
are written together, as the JSON column they share. Writers that take the polling lock
(`UpdateChannelStatus`, `ManageMultiKeys`, picking a key) and writers that do not
(`UpdateChannel`, tags) interleave. The cache lookup and the change of the copy in
`UpdateChannelStatus` are one step. A refresh whose query failed swaps in an empty map, and
an edit may change the mode in which keys are picked.

### System tasks

Every SQL statement is a step. A pass walks `expire -> mark -> delete -> claim -> create
-> (read -> takeover -> markOld) -> start -> (release)`, in source order, and a goroutine
per claimed task is `running`, `cancelled` (its heartbeat lost the lease), or about to
`release`. Time is relative: a lock row carries the time left of its lease, a pass the
age of the timestamp it took when it began; `MaxStall` bounds that age. Task types share
no rows and no goroutines, so one is modelled. `Legacy` rows are pending rows written
before the unique `active_key` column existed.

### Streams

`StreamScanner` is one call of `StreamScannerHandler`. The scanner, the data goroutine,
the ping goroutine and the caller have a program counter each; every channel operation,
lock and return is a step, and deferred functions run after a panic too. A line is data,
`[DONE]` or noise. The adaptor's handler returns any of the results a `StreamResult` can
express. Every line of the upstream, noise included, resets the ticker of the caller;
`Elapse` is a whole timeout without a line.

The converters are operators that take a state and a chunk and return the next state and
the events they emit, under the names of the Go functions. Text, reasoning and arguments
are counted in pieces, so that a lost and a repeated piece show; a tool is a number that
stands for its id, its call id and its name. `StreamRelay` puts a handler between an
upstream that says any sequence its format allows and a client that follows the rules of
its own format and notes what breaks them. The upstreams and clients are external: the
rules are those the converters' comments and tests rely on. One action is one thing the
upstream says with the whole handling of its lines, since the data goroutine takes lines
one at a time.

### Asynchronous tasks

Four kinds: `suno` and `video` are written by pollers and the sweep only, `live` (Gemini
and Vertex) also by users who fetch them, `mj` also by notifications. A goroutine keeps
the row it loaded; `Swaps` is the compare-and-swap on the status it loaded. The provider
may finish a job at any time or never. A task may be older than the refunds
(`TaskRefundLegacyCutoff`): the sweep empties its quota and returns nothing. `timeout` is
the switch `TaskTimeoutMinutes`: without it nothing is swept.

### Credits

`Payments`: an order has a row, a checkout session and a provider that repeats its
notification until it is answered with success; the order lock is per process, the row
lock of the user is global. `dismissed` records that a notification was answered with
success and brought nothing, `onetime` the type that Creem's handler requires.
`Subscriptions`: a request is settled or refunded in whichever period its subscription
stands by then; the background task lists due rows and works through them later; a refresh
of the cached group reads, writes and verifies, up to three times, and then returns an
error (`failed`). `Rewards`: with `rowLocks` FALSE the database is SQLite and the code
takes its other paths; before the activation of the affiliate program a registration
brings the inviter a bonus instead, and a transfer thaws and moves in one transaction.

### Sessions

One user, one session. Redis keys carry the ticks they have left. A change publishes a
fence before its transaction and a floor after it; a revocation caches a deny entry
before and after. `dead` in a request records what had ended before the request began.

## 3. Runs

| Run | Instance (distinct states) | Checks |
|---|---|---|
| `billing_crash` | 1 request, any plan, quota 0, 1 or 3, playground or not, limited or unlimited token, 1 fault or lost answer, crash anywhere, an upstream call longer than the row may rest, 1 worker; a settlement may exceed the subscription's total (191 thousand) | `OutcomeMatchesCharge`, `SessionMatchesRow`, `WalletLedger`, refinement of `DurableSpec`, liveness `EveryRowCloses` |
| `billing_race` | scenes: a wallet request that may stall or crash with 2 passes; 2 requests on shared balances; 1 request of any plan with a failed call (390 thousand) | `SettlementIsCommitted`, `SharedFundsHold`, refinement of `RequestCharge` (`ChargesAtMostOnce`) |
| `systemtask` | 2 nodes, 2 tasks, lease of 2 ticks, stalls of 1; scenes: crash and failed statement with timely heartbeats; late heartbeats and a legacy row (79 thousand) | `RunningIsFound`, `OneRunnerPerTask`, `TimelyMeansOneHandler`, `OutcomeIsFinal`, liveness `EveryTaskEnds` |
| `routing` | parts: 2 requests around a circuit with stalls of 2 ticks; 2 nodes, 1 change, 1 mishap (51 thousand) | `SingleProbe`, `RunsOnlyWhenUsable`, `SameVersionSameSource`, liveness `CircuitMoves`, `MasterFollows` |
| `relay_route` | 2 requests, 2 channels of capacity 1 or 2, one with 2 keys, 3 attempts, 1 fault (830 thousand) | `UpstreamWithinCapacity`, `AnswerIsFinal`, `AttemptsBounded` |
| `quota_cache` | 1 wallet, 1 token, 2 goroutines, 2 operations, 1 fault, 1 crash, with and without batching, 3 stripe maps (244 thousand) | `LedgerConserved`, `CommitSeesEveryDelta`, `TokenSnapshotsFresh`, liveness `QuotaProgress` |
| `credits` | parts: 2 orders of every provider on 2 nodes; 2 subscriptions; a code; awards of 2 days; 3 deals of 2 invitees (337 thousand) | `OrdersHold`, `SubscriptionsHold`, `RewardsHold`, liveness `PaidIsDelivered` |
| `channel_keys` | 2 goroutines, 2 operations, 1 failed statement, single, random and polling mode, with and without the memory cache (1.04 million) | `AbilitiesAgree`, `KeyMarksKept`, liveness `CacheFollows` |
| `answers` | topics: the goroutines of a stream of up to 3 data lines, a channel of capacity 1, panics; 10 pairs of formats, 3 pieces, 2 tools, 1 fault; 1 task of each kind, 2 pollers, 1 reader, 1 fault (566 thousand) | `GoodEndIsComplete`, `StreamWellFormed`, `AnswerComplete`, `TaskBillHolds`, liveness `HandlerReturns`, `UnfinishedEnds` |
| `sessions` | 1 request at a time, 2 changers, versions to 2, 1 fault (4.5 million) | `BarredIsRefused`, `FloorIsCommitted` |
| `stale_key_marks` | as `channel_keys`, no fault | finding: `NoStaleKeyMarks` violated |
| `unrefunded_failure` | 1 task of each kind, 2 pollers, 1 reader | finding: `FailedTaskIsRefunded` violated |

`OrdersHold`, `SubscriptionsHold`, `RewardsHold`, `QuotaProgress`, `AnswerIsFinal`,
`AttemptsBounded`, `SharedFundsHold`, `BarredIsRefused` and `TaskBillHolds` are
conjunctions of named parts, each with its own statement in its module.

Bounds and why they are enough:

* billing: rows interact only through the three balances, so two competitors reach every
  interaction of reserve, settle and refund. `Quotas` contains 0, 1 and a value that does
  not fit; `Actuals` lies below and above the reservations, so that all three signs of the
  delta occur and a settlement exceeds the total of the subscription. One fault is placed
  before, after and inside every call; the three attempts of `SettleBilling` absorb it,
  and a crash replaces further failures. Two passes suffice for passes to race with each
  other and with a session;
* system tasks: `MaxStall < TTL` is the regime the code is written for (60 s lease
  against statements of milliseconds). The scene with a legacy row has neither crash nor
  failed statement, because `RunningIsFound` really fails then (section 4);
* circuit: threshold 2 instead of 3 and cooldowns of 3 and 4 ticks distinguish below and
  at the threshold, a short and a long cooldown. `MaxStall` is below `Cooldown`: a
  request decides on a timestamp that is younger than the shortest cooldown (seconds
  against 30 s). Any admitted request may end without a report;
* capabilities: one change on top of the first state gives an old and a new source, and
  two nodes that read one and publish the other; one mishap is a failed statement or a
  restart at any step;
* relaying: two requests are one holder and one competitor of a slot; three attempts
  exhaust every budget (total, same channel, failover, exact stage). A call on a lease is
  late by less than the lease time (`TTL > 2 * Slack + 1`): a renewal adds its member
  back without a capacity check, so a renewal delayed by a whole lease would exceed it;
* quota: one wallet and one token are the resources a recovery locks together; the fence
  lasts longer than a mutation and a fill together take (`FenceTTL > 2 * MaxGap`, 10 s
  against milliseconds);
* channels: two keys and a third that an edit brings; two operations of any kind overlap
  in every way. Three operations were explored while the model was written;
* credits: two orders compete for a wallet with room for one, and for a plan that may be
  bought once; three deals reach the cap per invitee and the limit per inviter;
* streams: a channel of capacity 1 instead of 10 is full, empty and closed with a line in
  it, and three lines are one in hand, one queued and one being sent. Three pieces and two
  tools give the changes between two kinds of block, tools after text that followed a
  tool, two interleaved tools, and arguments before, between and after the announcements.
  `Quirks` is empty: what it names (section 4) is said by no upstream of the run;
* sessions: `2 * Patience < CacheTTL`: a step takes less than half of the time a cached
  entry lives. Two changers overlap a change with a revocation or another change.

Deadlock is checked except where the bounded number of operations lets everything come to
rest (`quota_cache`, `credits`, `channel_keys`, `answers`). In
`BillingSession` the end of all work is the explicit step `Finished`. Symmetry is used
only in `sessions`, which has no liveness property.

### Fairness

* billing: each session step (a handler that has not crashed returns), ageing of a row
  whose session is over (the clock), each pass (scheduled every 30 s). A crash and a
  heartbeat are never assumed;
* system tasks: ticks, the pass loop (a 15 s ticker), handlers, heartbeats and creation,
  weakly; `ExpireStaleSystemTaskLocks` strongly, since a pass may skip the listing but
  the runner repeats it every `systemTaskStaleLockInterval`;
* routing: clients keep sending requests, calls return, time passes. That some request
  gets past each admission step is strong fairness, since a client may leave at any of
  them. That an admitted request reports is not assumed. Refreshes and changes run to
  their end, the scan is scheduled for ever, and a queued channel gets the refresh mutex
  between scans;
* quota: every goroutine that can run repeatedly runs (a Go mutex is handed to a waiter
  that has starved), and the updater wakes up;
* channels: handlers run to their end, `SyncChannelCache` is a loop;
* payments: handlers run to their end, an order lock is handed to those who wait, and a
  provider repeats what was not answered with success;
* streams: goroutines are scheduled, a write ends at its deadline (30 s) and time passes
  (`Elapse`), which the caller notices if no line came meanwhile. The data goroutine is
  strongly fair: it competes with pings for the write lock, and a Go mutex is handed to a
  waiter that has starved. Nothing is assumed of the client, or of how the adaptor
  returns, except that it does. An upstream that keeps sending lines keeps the caller
  waiting; `HandlerReturns` names this case;
* asynchronous tasks: deadlines pass, pollers run to their end, the sweep is
  repeated. Without a timeout there is no sweep, and `UnfinishedEnds` claims nothing.

## 4. Findings and known deviations

Two findings have a run whose counterexample shows them; the quoted lines are in
`PROJECT.json`.

1. `stale_key_marks`: without the memory cache, picking a key in polling mode saves the
   whole `channel_info` of the channel that the request loaded before the lock. A key
   that was disabled in between is enabled again.
2. `unrefunded_failure`: when the channel of a task cannot be loaded, its tasks are set to
   FAILURE by the bulk update and their charge is never returned.

The following were found with the models as well. Those with a named property can be
reproduced by adding that property to the run's configuration.

* A crash between the token and the subscription pre-consume leaves the token charged:
  the row is still prepared and there is no consumed record, so recovery closes it with
  nothing to return. `OutcomeMatchesCharge` therefore speaks of the token of a refunded
  row only for wallet rows. Two failing calls do the same: when the rollback of the token
  fails and so does the sync that should record it, the row is aborted and the token stays
  charged (`OutcomeMatchesCharge` with `MaxFaults = 2`).
* A session stalled on a prepared subscription row charges the subscription after a pass
  has refunded the row: a subscription session is slow only upstream (`StallAnywhere` is
  FALSE in `billing_crash`, and the scene with TRUE is about the wallet). A lost answer of
  that charge (`LossyOps = {"subscription"}`) makes the abort close a charged attempt, and
  a lost answer of a token call (`{"token"}`) leaves the token charged or credited twice.
* A playground request paid from the wallet is not refunded by its session, since
  `needsRefundLocked` never looks at the wallet; the recovery pass does it.
* A settlement that would lift a subscription above its total is refused by
  `postConsumeUserSubscriptionDeltaTx` (`model/billing_recovery.go:940`) each time it is
  tried: its row stays `settlement_pending` for as long as there is no room, and the client
  has paid the reservation only. `EveryRowCloses` names this case (`SettlementRefused`).
* A request answered with a settlement error is charged in full by recovery. Rows that
  can never be closed keep the oldest `updated_at` and can fill the batch of 100.
* `UpdateBillingRecoverySettlement` overwrites the delta of a row whose funding was
  adjusted already, should a caller ever settle twice with different quotas.
* A claim that is delayed past its own lease (`MaxStall > TTL`) starts a row whose lock
  another node has deleted: the row stays running and its key blocks the type. A crash or
  failed statement between taking a lock over and failing the old task leaves that row
  without a lock; only rows that predate `active_key` are concerned.
* Re-arming a lost probe clears `cooldown_until` so that, as its comment has it
  (`service/route_health.go:240-242`), the next request can probe; but an open row without
  a cooldown is refused by the claim (259, 265). Probes are lost routinely, since
  `applyLiveHealth` claims one for every candidate while one runs
  (`service/route_live.go:501-508`). Only an observation that was still under way, such as
  a late success, gets such a circuit going again; `CircuitMoves` therefore speaks of a
  circuit whose cooldown is set (`armed`) and of a half-open one. A late success ends a
  provider's Retry-After early.
* The fill of a user hash ignores the quota fence (`WalletSnapshotsFresh`). The goroutine
  that repeats a delta in Redis may count it twice after a fill.
* When the transaction of a recovery commits and its answer is lost, `release(false)` puts
  the drained deltas back although they were written, and they count twice
  (`model/billing_recovery.go:516,619,705,813-819`). A reservation or an adjustment whose
  answer is lost stays in the row as well. `LedgerConserved` accounts for exactly these
  (`astray`).
* A stream whose first frame was seen and not parsed and whose lease is then lost ends
  with no answer and no refund (`QuietEndWasAnswered`). A handler that fails by itself after
  it has sent output is refunded (`controller/relay.go:173-181`): the client keeps what it
  got. `DeliveredNotRefunded` is about lost leases only. Stopping a renewal cancels a call
  under way, which counts as a failed renewal and can cost an allowed retry.
* Completing a Creem order by hand credits its quota as units of money
  (`CreditsWhatWasBought`). Some notifications are answered with success, and so not
  repeated, although they brought nothing (`dismissed`): all of Stripe's whose completion
  failed; those of Waffo Pancake whose order was not found, which a failed query looks like
  (`controller/topup_waffo_pancake.go:505-514,527-538`); those of Creem after a failed
  look-up of the subscription order, or with an order that is not `onetime`
  (`controller/topup_creem.go:331-335`). `PaidIsDelivered` excepts them. Stripe's
  asynchronous failure saves a row it loaded earlier.
* The expiry of a subscription looks for other upgrading subscriptions before it locks
  the user (`GroupHeldWhileActive`). `RefreshUserGroupCache` returns an error after three
  rounds: a group that changes three times during one refresh stays stale in the cache
  until the next refresh or its expiry. A manual reset that advances the period, less than
  a period before the end of the subscription, leaves no next reset, and what follows
  counts periods from the start again (`ResetBase`). A settlement or refund of a request of
  the last period changes the use of the new one (`model/subscription.go:1446`,
  `model/billing_recovery.go:931-944`); `UsageKept` takes this as the code has it.
* An edit of a redemption code writes back the status it was loaded with
  (`RedeemedAtMostOnce`). A profile update writes back the frozen affiliate quota it was
  loaded with (`FrozenIsAccrued`). The bonus of an inviter before the activation
  (`model/user.go:537-549`) has no ledger entry and no limit; the sums and limits of
  `RewardsHold` count it separately.
* A user's fetch of a Gemini or Vertex video, and a Midjourney notification, save the row
  they loaded: `TaskBillHolds` speaks of songs and other videos
  only. A crash between the update that ends a task and its refund loses the refund. A
  video reported as running with full progress is neither polled nor swept again. A task
  from before the refunds that times out is failed and keeps its charge, as
  `TestSweepTimedOutTasksHonorsRefundRolloutBoundary` wants it (`WrittenOff`); with
  `TaskTimeoutMinutes <= 0` nothing ends a task whose provider never answers.
* The scanner sets the end reason `done` or `eof` while lines are still queued, and a
  later stop or panic of the adaptor does not change it (`DoneIsHandled`). The image
  handler takes these reasons for a finished stream ("Only trust completedImages when
  upstream finished the stream (done/eof)", `relay/channel/openai/relay_image.go:149`), so
  a failed client write while the queue is drained lowers the number of billed images. A
  panic of the adaptor while the queue is drained looks like a normal end without errors.
* `StreamResult.Stop` does not count as an error of its line, so that a line which stops
  the stream marks valid output (`OutputIsAccepted`; "is set only after a stream adapter
  accepts a payload", `relay/common/relay_info.go:904`). An error in the first event then
  suppresses failover and the error body.
* An error that was recorded in the stream fails the attempt only in the native chat and
  the Claude handler (`ErrorIsFailure`): the handlers between chat and Responses and those
  of Gemini answer success after a malformed line. A timeout is no failure either.
* A native chat stream without usage leaves the answer of a Claude client unclosed
  (`ClaudeBlocksClosed`): the finish chunk waits for a usage chunk, and the handler then
  marks the conversion done. After only two chunks such a client is sent `message_start`
  twice (`ShortNative`). `StreamWellFormed` excepts both.
* When a Claude client's answer calls tools again after text that followed a tool,
  `stopOpenBlocksAndAdvance` sends stops of blocks that were never started
  (`to_claude_messages_resp.go:124-127`, against its comment at 103-117), since it counts
  the new tools from the first of the stream. `StreamWellFormed` allows these stops in
  this case and no other.
* Habits of upstreams that the converters do not carry, left out by `InEnvelope`: more
  arguments of a call that text or reasoning followed, for Claude clients; text, reasoning
  or another call after a call from Gemini, for the other clients; a tool that ends before
  it is announced, for Claude clients; reasoning after text where reasoning is sent as
  tagged text; usage in the finish chunk for a chat client that did not ask for it (the
  chunk is dropped with its finish reason). Gemini's `MAX_TOKENS` reaches a Claude client as
  the end of the turn, and text in a Gemini response with a thought becomes reasoning. A
  buffered answer without a message repeats its reasoning as text. A native chat stream that
  is cut off is not closed for a Claude client, and carries no finish reason to a chat
  client.
* A ping that fails sets the end reason `ping_fail` without ending the stream. A client
  that is slow while the channel is full stops the scanner, whose lines reset the ticker,
  so that the upstream appears to have timed out.
* When the last deny entry of a revocation is not stored, a rotation that began before the
  commit can cache the session as active when the first entry expires. The rotation must
  then take longer than the entry lives, which `2 * Patience < CacheTTL` excludes.
* The abilities of a channel are updated although its status was not saved. Tag changes
  and edits take no lock, so abilities may end up contrary to the status;
  `ManageMultiKeys` loads the channel before its lock, so that disabling or deleting one
  key may undo marks that others wrote between the load and the lock; `KeyMarksKept`
  excepts this (`LoadedEarlier`). A refresh whose query fails empties the map in memory
  until the next one, since the error of `DB.Find` is ignored
  (`model/channel_cache.go:28`). An edit that overlaps writes back the marks it loaded,
  which a later status change saves again. `AbilitiesAgree` and `KeyMarksKept` therefore
  leave out failed statements and overlaps with an edit or a tag change. Deleting the
  disabled keys of a channel all of whose keys are disabled automatically deletes none and
  clears all their marks, since an empty key list is not written. Replaced keys inherit
  the marks of their positions.
* A capability refresh reads its fence after its source, so that an old source can be
  published over a newer snapshot until the next scan. The index of a node that is not
  the master does not follow changes made on other nodes; the version check refuses its
  routes.

## 5. Proofs

All theorems hold for every value of the constants that satisfies the named assumptions
of the specification (quotas and amounts are naturals, deltas integers, `Nobody` is no
runner, and so on). Theorems that need more state it as an `ASSUME`: the finiteness of a
set that is summed over, a bound on delays (`FenceTTL > 2 * MaxGap`, `MaxStall <= TTL`), or
the faults under which the code really keeps the property. The larger
inductive invariants were checked with TLC on the instance of their run before they were
proved (among them `DeltaInv`, `FenceInv`, `RouteInv`, `BudgetInv`, `AuthInv`, `PayInv`,
`AffInv`, `BillingInv`, `LeaseInv`, `KeysInv`).

### Billing

`BillingProofs` proves, of `DurableSpec` and so of every order of calls by any number of
callers: `WalletLedgerHolds`, `SettlementCommitted`, `PreparedEmpty`, `TerminalFinal` and
type correctness.

The four properties are not inductive one by one: that a refund booked nothing on a
prepared row is needed when the row is rebound, that no settlement effect is booked on an
active row is needed when its amounts are written, and that completion columns and
markers agree is needed when the row is closed. The inductive invariant is `LedgerInv`,
for each request the conjunction of `MarkerInv` (columns and markers agree, no marker
without an effect), `StatusInv`, `PreparedInv` and `WalletInv`. It is stated on the values
of one request, so that each kind of row update has one lemma (`OpenKeeps`,
`RebindKeeps`, `StatusKeeps`, `AmountsKeep`, `MarkerKeeps`) and the actions that touch
other requests are covered by `LedgerFrame`. `LedgerStep` has one case per transaction.
`DurableSpec` contains one assumption on callers, `ReportsWalletAmount`: a session reports
for a wallet row the amount the pre-consume wrote.

`SessionsUseDurable` proves that sessions and recovery passes implement `DurableSpec`, for
any requests, workers, faults, stalls and crashes, `ReportsWalletAmount` included;
`SessionsKeepLedger` carries the four properties over to the program. The invariant is
`SessionInv`: types, the fields of a session that its row must repeat (source, price, token
flag), and what an ended session believes of its row. `SessionTellsTruth`
(`SessionMatchesRow`) follows from it.

The amounts need more. `BillingInv` relates, for each request, the row, its markers, the
pre-consume record of the subscription and the net charge (`Books`), what the session
knows of them at each program counter (`KnowsOpen`, `KnowsAlone`, `KnowsTaken`,
`KnowsPriced`), that nobody else is at work on the row of a session that starts (`Quiet`),
and that a worker that gives back has marked its row (`WorkersMarked`). `Ready`, its
conjunction with `SessionInv` and `LedgerInv`, is inductive, with one lemma per transaction
and one per program counter. From it follow

* `ClosedRowsAreExact`: a settled row was charged its actual quota, a refunded row nothing
  from its source, under `Environment`: either only the upstream call is slow enough to
  lose its row and a failed subscription pre-consume has not committed (`Steady`), or every
  request is paid from the wallet (`WalletOnly`);
* `OutcomeIsCharge` (`OutcomeMatchesCharge`): also the token of an aborted row; under
  `Steady` with at most one failing call, or `WalletOnly` with any number. With two, the
  rollback of the token and the sync that should record it both fail, and the row is
  aborted with the token still charged;
* `ChargedAtMostOnce` (`ChargesAtMostOnce`): the refinement of `RequestCharge`. What closes
  a row moves no money and what a settled row says is its request's price, so that the books
  before and after a step tell which abstract step it is. With subscriptions it also needs
  that no process dies between the token and the subscription, which charges the token
  of a row that is then closed as refunded;
* `FundsAreShared` (`SharedFundsHold`): `FundsMove` says what one step of one request does
  to the shared balances, and the sum over the requests follows it. The clamp of a refund at
  zero never acts, because the use is the sum of what the requests took. It needs finitely
  many requests and balances that are not negative at the start.

The hypotheses on faults, stalls and crashes are not conveniences: each leaves out a
deviation of section 4, which TLC finds when the hypothesis is dropped. `billing_crash`
satisfies those of the theorems about its properties. The scenes of `billing_race` limit
behaviours as the hypotheses limit constants: in `race` all pay from the wallet, in
`contend` and `fault` nobody crashes or stalls and one call fails at most.

`Sums` proves what a sum over a finite set does when one summand changes, is added or
bounded. Its induction is over the subsets of the set, by a least counterexample
(`WFMin`), since the library's induction theorems cannot be used.

### System tasks

`SystemTaskProofs` proves `ExecutedOnce`, `KeyIsFreed` and `OutcomeFinal` of
`SystemTask!Spec`. Their argument does not use the lease at all: every step changes the
task rows in one of five ways (`RowStep`: insert, fail a running row, start a pending
row, finish a running row, wind a goroutine down), and the invariant `RunnerInv` (row
types, `WorkIsOwned`: a goroutine belongs to the node named in its row, which has left
pending for good, and `KeyHeldByActive`) is preserved by each. So tasks run once however
late nodes and heartbeats are.

What depends on the lease has the invariant `LeaseInv`: there is one lock at most, a
running row is the one a lock names or one that a pass is about to fail (`RunFound`), and a
pass that has taken the lock still has it when it starts its row (`PassHolds`), because its
timestamp is younger than the lease it wrote: hence `MaxStall <= TTL`. `RunsAreFound` proves
`RunningIsFound` when all rows have keys, whatever crashes and fails, or when there are rows
that predate the key and no crash or failed statement: a crash between taking a lock over
and failing the old row is the deviation of section 4. `LeaseDedups`
(`TimelyMeansOneHandler`) adds `Held`: while heartbeats are in time, a goroutine at work
has a lock that has not run out. `ScenesKeepRunsFound` and `LeaseDedups` are about the
scenes of the run (`SceneSpec`).

### Quota cache

`QuotaCacheProofs` proves `LedgerBalances`, `CommitsSeeEveryDelta` and `TokensStayFresh`
of `QuotaCache!Spec`, for any users, tokens, goroutines and stripe maps. The sum of the
deltas is not inductive: a recovery that fails puts back what it drained, so nobody else
may have touched the resource. `DeltaInv` therefore begins with the locks (`LocksHeld`:
who works on a resource holds its stripe; `BatchHeld`: what was swapped out or drained is
covered by the batch lock). What a recovery puts back although it was written is in
`astray`, which changes in no other way than by a call that lost its answer. `FenceInv`
says that the fence of a token outlives its recovery, and every reader that took its
snapshot before the recovery committed. A fence is set when a mutation begins, and a
reader may have begun just before its commit, so that the two gaps add up: the hypothesis
is `FenceTTL > 2 * MaxGap`.

### Relaying and channels

`RelayRouteProofs` proves `CapacityIsKept` and `AnswersAreFinal`. `UpstreamWithinCapacity`
is not inductive, since requests leave in any order and the capacity changes between two
admissions; the invariant `LastCounted` says of *every* set of admitted requests of a
channel that one of them was admitted under a capacity for all of them, which survives
both. It needs that an admitted request has a live lease (`Slot`: the time the lease has
left covers the next renewal and its delay), which is where `TTL > 2 * Slack + 1` enters.
`AnswerInv` says that only a call under way has sent output. `AnswersAreFinal` covers the
stages of a compact request too; of refunds it speaks only where the lease was lost.

`AttemptsAreBounded` proves `AttemptsBounded`, for any limits: the number of attempts, of
failovers, of attempts on one channel and in the exact stage, no attempt twice, and no lap
of the loop without using something up. The code counts none of these directly for a list
policy: it builds a list of channels with repetitions and drops candidates from its head.
`BudgetInv` says that the failovers made and the untried channels of the list together stay
within the limit (`Room`), which needs that the repetitions of a channel follow each other
(`Grouped`, a fact about building and cutting the list); that the last channel is still on
the list only if it may be tried again (`Retries`); and that a candidate in hand has a key
that was not used (`Fit`), which makes attempts distinct. A lap lowers `Rank`.

Of `ChannelKeys` it proves `AbilitiesFollow` (`AbilitiesAgree`) and `MarksAreKept`
(`KeyMarksKept`), for any number of goroutines and operations. By `KeysInv`, who
changes a status or manages keys has the polling lock (`LockHeld`), so that while no edit or
tag change overlapped there is one writer; `Knows` says what a writer between two
statements knows of the row, and row and abilities agree while nobody is between them.
`MarksAreKept` looks at the goroutine that takes the step: a status change reloads the row
under the lock and is never excused, a pick or a management action is, when the channel
changed between its load and its lock.

### Routes, streams and asynchronous tasks

`UpstreamProofs` proves, of `RouteHealth`, `HealthTyped`, `ProbeIsSingle` and
`RunsAreUsable`. The invariant is about epochs alone: who holds the epoch of the row was
given it in the state the row is still in (`HoldersAreUsable`), and a half-open row gave
it to one request (`OneHolder`). Neither threshold, cooldown nor stall matters. Since the
model reuses epochs, the step that takes a new one needs that a free one exists
(`NextEpochIsFresh`, a pigeonhole argument over the finite set of requests).

Of `Capabilities` it proves `IndexMatchesVersion` and `VersionsAreImmutable`. Every step
publishes the next version, stores the entry of a kept version in one index, or leaves
versions and indexes alone (`VersionStep`), and the kept versions end with the active one
(`KeptEndsWithActive`). That a refresher publishes an old source late does no harm here: it
takes a new number.

Of `StreamScanner` it proves `GoodEndsAreComplete`, for a channel of any capacity and a
stream of any length. The invariant `Accounted` follows every data line from the scanner's
hand through the channel to the adaptor, in order; it may be given up once the stream is
`Excused` (the adaptor ended it, the reason is an abnormal one, or the scanner panicked).
`Endings` and `Draining` relate the program counters of the goroutines to the reason and
to the closed channel.

Of `AsyncTask` it proves `TaskBillsHold`. Nothing excludes two pollers from a task but the
comparison of its status, so the invariant says for each song and video that before the
end nobody bills it (`BeforeEnd`), what a goroutine at work has loaded (`Working`), and
that one goroutine at most bills it (`Billing`). A task from before the refunds that the
sweep has failed is the one case in which row and charge differ (`WrittenOff`).

### Sessions

`SessionsProofs` proves `BarredAreRefused` and `FloorsAreCommitted` of `AuthSpec`. The
invariant `AuthInv` is about what a goroutine remembers while the row it read changes. A
copy of the user (in the cache, in a request or in a changer) is never ahead of the row
and equal to it when it has its version (`Known`); a copy of an older version is below the
floor, or below a fence that is there for longer than the copy can be used (`Guarded`).
Whoever holds a snapshot of the active session loses the race against the deny entry: if
the session has been revoked meanwhile, the entry outlives the time the holder has left to
store it (`Sealed`), and a revocation commits only behind such an entry. A step of a
goroutine `Keeps` all of this (lemmas `RequestStep` and `ChangeStep`), the commit of a
change is covered by the fence raised before it (`CommitStep`), and a tick takes no more
from a barrier than from the goroutine it is there for (`TickStep`). The barriers are long
enough because `2 * Patience < CacheTTL`. The last deny entry, the publication of the new
version and the removal of a deleted user from the cache are not needed: a crash after the
commit is safe.

### Credits

`CreditsProofs` proves `OrdersAreSafe` of `PaySpec`. The invariant `PayInv` says that an
order that can still be completed has brought nothing, and that whoever is about to create
a subscription holds the row of the user and counted under it. The order lock is not
needed: it belongs to one process, and the status is compared again under the row lock.
Two assumptions came out of the proof: the wallet's ceiling is not zero, and `"nobody"` is
no goroutine.

Of `RewSpec` it proves `RewardsAreSafe`, all of `RewardsHold`, for a finite set of orders,
and its parts as theorems of their own. `CodesAreSpentOnce`: a usable code was credited as
often as a write made it usable again (`CodeInv`). `AwardsAreSingle`: who credits a
check-in wrote its record alone, so neither the path without a transaction nor a restart
in the middle of it credits twice (`AwardInv`). `InviteLimitIsKept`: who registers a user
counted the others under the lock of the inviter's row, or has its count compared again
(`InviteInv`). The sums are `AffInv`: what the inviter has and has moved is the sum of the
earned entries and of the bonuses, what an invitee brought stays within the cap
(`BooksInv`), and what a goroutine read before it writes is still so, because it is alone
with the invitee or the inviter's row (`DeskInv`).

Of `SubSpec` it proves `SubscriptionsAreSafe` (`SubscriptionsHold`). A row's last reset is
a point of the grid of its periods and its next reset the following point (`Anchored`), and
its counter is zero, or what was really used in that period (`Counted`, which a settlement
or a refund keeps by changing both alike); so a reset that the
task, a request and an administrator all attempt happens once per period. For the cached
group, the copy agrees with the row or somebody still chases it (`GroupInv`): is about to
read or write, or wrote the stale value and will compare it, or returned an error.

### Only model-checked

* liveness: fairness and `ENABLED` are beyond the prover. This is `EveryRowCloses`,
  `EveryTaskEnds`, `CircuitMoves`, `MasterFollows`, `QuotaProgress`, `PaidIsDelivered`,
  `CacheFollows`, `HandlerReturns` and `UnfinishedEnds`;
* `StreamWellFormed` and `AnswerComplete`: a converter folds its step over the tools of a
  chunk and a client folds over the events of a step (`FoldLeft`), and that a fold preserves
  an invariant is an induction with an operator as a parameter, which the installed provers
  cannot instantiate.

Every other property of the passing runs is the statement of a theorem.

## 6. Not modelled

* the branches of `BillingSession` without a recovery id, notifications, logging, the row
  columns `attempts` and `last_error`, the batch limit and order of the recovery list;
* the other cached fields of users and tokens, and the counters of used quota;
* scores and metrics of routes, error classification, the key scope of route health (same
  functions, no recheck), channel affinity;
* the log cleanup and model update handlers; several task types;
* batch deletion and import of channels, upstream model lists, listings and statistics;
* signatures and currencies of payments, plan and product administration;
* passwords, codes, passkeys and OAuth: cryptography and input handling;
* rate limiters: counters in single Redis scripts;
* pricing and tiered settlement: floating point and an expression language; the price is
  an input of `BillingSession`;
* the conversion of requests and of answers that are not streamed, Gemini clients, the
  adaptors of other providers and parameter overrides (`relay/`), which are most of the
  repository's lines: translation of provider formats without state, where a model would
  repeat the code;
* logs, options, setup, tickets: append-only or single-row administration;
* frontend and desktop shell.

## 7. Plan

1. The stream converters with one event per step instead of folds, so that
   `StreamWellFormed` has an invariant of one step; the crash between token and subscription
   as an abstract outcome of `RequestCharge`, so that the refinement covers it.
2. `BillingSession` over `QuotaCache` instead of over plain columns.
3. The recovery list with a batch limit: rows that cannot be closed against newer rows.
4. Affinity and rate limits as parts of `RelayRoute`'s selection.
