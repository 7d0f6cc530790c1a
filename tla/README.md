# Verification of xianyu-go

TLA+ models of the parts of this repository where concurrency, crashes and retries decide
whether a buyer receives a card once, twice or never; the TLC runs that check them on small
instances; and theorems checked by TLAPS. Paths are relative to the repository (`src/` is its
root here); `db/`, `engine/` and the like stand for `internal/db/`, `internal/engine/`.

## 1. Inventory

| Component | State | Operations | Interacts with | What is hard | Correct when |
|---|---|---|---|---|---|
| **Automation runs** (`automation/run_coordinator.go`, `run_lease.go`, `scheduler.go`, `center.go`; `db/automation*.go`) | `automation_runs` (status, attempt, cursor, action_started, lease, sent, error), `automation_pending_tasks`, local variables of `executeRule` | TryStartRun, StartRunAction, lease renewal, Advance/Abort, Quarantine*, FinishRun, recovery claim/quarantine/postpone/cancel, ReopenRunForRecovery, defer/claim/finish of tasks, ResolveRunIssue | events of the account runtime, platform calls, operators over HTTP, order status | no idempotency key at the platform; several goroutines, and what dead processes left, on one row; every statement may be the last before a crash | an action is called at most once unless an operator orders a retry; unknown results are never hidden; no run is stuck |
| **Manual delivery and replay** (`manual_delivery.go`, `delivery_replay_plan.go`, `db/automation_ownership.go`) | runs of one order, delivery proof | ManualFullDelivery, ClaimDeliveryReplay, Complete/Release | runs, order refresh | two kinds of runs for one order | what is owed is sent, and no more |
| **Card stock and delivery actions** (`action_executor.go`, `card_delivery.go`, `db/delivery.go`) | `cards.data_content`, `refillPending` | ConsumeBatchData, RestoreBatchData | runs | compare-and-set with bounded attempts, restore after a certain failure | no card sent to two orders, none lost silently |
| **Bargain free shipping** (`free_shipping_action.go`, `db/bargain_free_shipping.go`) | stage per order | Claim, Finish, MarkReady | runs, events | crash between claim and finish | an order is freed once, and delivered only then |
| **Event pipeline, order roles** (`events.go`, `event_pipeline.go`, `order_role_gate.go`, `task_preparation.go`) | deferred tasks | parse, authorise, prepare, defer, replay | runs, orders | copies for both parties, redelivery, evidence that comes later | only the seller's copy starts a run, once; a payment is not forgotten |
| **Scheduled account tasks** (`account_tasks.go`, `db/account_tasks.go`) | a row per order or day, the stored cookie | rate, polish | platform, credential | scan and page side by side; the write after the call fails | nothing done is done again |
| **Notification outbox** (`notify`, `db/notifications.go`) | outbox rows: status, token, lease, attempts | Enqueue, Claim, Complete, MarkUncertain, Retry | runs, account alerts | one lease for a batch sent one by one; crash between send and delete; an error after the channel accepted | what is known to be sent is not sent again |
| **Process lifecycle** (`application/lifecycle`) | started count, closed flags, close attempt | Add, Start, Close, WaitContext | every background component | Close during Start, failing Close, retry | reverse order, nothing closed twice, no leak |
| **Account manager** (`account/manager.go`, `application/account`, `application/admin`) | instances, stopping fences, transition locks, the account's status | Start, Stop, Restart, StopAll, enable, disable, delete | account runtime, renewal, settings, database | a stop that times out; overlapping requests that decided on a status or cookie read before | one live instance per account; none behind a fence, none connected when disabled |
| **Account runtime** (`engine`, `xianyu/ws`) | connection, credential and its jar, pending requests, echo tracker, reply records | connect, renew, send, confirm, reply | platform, manager, renewal, chat | platform calls outside the credential lock; late answers; equal texts | no late answer replaces the session of a login (finding 5 does); no message is taken for another |
| **Renewal scheduler** (`renewal`) | due times, late watcher | API renewal, login-status check, protocol renewal | account runtime | as above; the comparison is by cookie | no session of a later login is replaced |
| **Batch publishing** (`application/items/batch_*`, `db/item_publish_batches*.go`) | batch and row status, worker token, lease | claim, publish, finalize, recover, retry, cancel | platform | lease lapses during a publication | an item is not published twice, a listing not forgotten |
| **Order refresh jobs** (`application/orders/refresh_*`, `db/order_refresh_jobs.go`) | job row, handles of the workers | create, claim, start, finish, cancel, Stop, Close | platform, orders | Close against the recovery scan; time-outs | a finished job stays finished, every worker is waited for |
| **Orders, ownership, reconciliation** (`application/orders`, `reconciliation`, `db/orders*.go`) | order rows, owner account, reconciliations | upsert, sold snapshots, detail refresh, manual ship, repair | runs, credential | writers with snapshots of different ages | the status never goes back; a confirmed shipment is stored or recorded |
| **Chat** (`chat`, `application/chat`, `db/chat.go`, `db/reply.go`) | messages, sessions, reply records | store, send, delete, reply once | account runtime | debounce and history across a deletion | what was deleted stays deleted, what comes later is kept |
| **Sessions and login** (`application/account`, `xianyu/qrlogin`) | QR sessions, cookies | begin, poll, confirm | platform | expiry against confirmation | – |
| **CRUD services** (items, cards, keywords, settings, rules, analytics) | database rows | HTTP requests | database | – | – |
| **Platform clients, browser, adapters, server, frontend, commands** | connections, pages | I/O | everything | – | – |

`PROJECT.json` lists the same components with their status and the reason of what is left out,
and under `hazards` the places in the code that a test would hardly reach, with the properties
that cover each.

## 2. Modules

| Module | What it is |
|---|---|
| `AutomationRun` | one row of `automation_runs` and everything that touches it |
| `ActionLedger` | what the row promises of the platform calls, with no worker, lease or status: the abstract specification `AutomationRun` implements |
| `EventGate` | from a trade card to the start of a run: roles, evidence, deferral and replay |
| `OrderDelivery` | the automatic and the manual run of one order, the delivery proof, the stock of cards |
| `BargainStage` | the free-shipping stage of an order |
| `NotificationOutbox` | the table `notification_outbox` and the workers that drain it |
| `StockLedger` | what the deliveries of an order do to the stock of cards, with no row, proof, lease or attempt: the abstract specification `OrderDelivery` implements |
| `AccountManager` | the requests that start and stop the instance of an account, and the instance |
| `AccountSlot` | what the manager promises of the connection of an account, with no request, table or context: the abstract specification `AccountManager` implements |
| `AccountCredential` | the login credential of an account and everybody who renews it |
| `Conversation`, `ReplyOnce`, `OutgoingMessage` | the stored chat and its deletion; the reply that is sent once; a text on the wire with its answer and echo |
| `AccountTasks` | rating buyers and polishing items |
| `PublishBatch`, `RefreshJob`, `OrderSync` | batch publishing; the order refresh job and its runner; the row of an order under its writers |
| `Lifecycle` | start and close of the process's components |
| `MCAutomationRun`, `MCAccountManager` | instances for TLC, and statements of the code's comments that turn out false |
| `MCServices`, `MCAccountWork`, `MCEventsAndRuns` | several components in one run |
| `*_proofs` | theorems and their proofs (section 4) |

*Composition.* The components meet through the database and through choices: an operator's review
notice of a run is an event of the outbox, the instance the manager runs performs the platform
calls of a run, `EventGate` ends where `AutomationRun` begins, and `OrderDelivery` is
`AutomationRun` with less detail of one row and two rows. Components that share no variable are
checked side by side in one run: `MCServices`, `MCAccountWork` and `MCEventsAndRuns` extend them
all, a behaviour exercises the one that `focus` names and the others keep their initial state,
so the state spaces add up and are not multiplied. A property named `...Safe` is the conjunction
of the named parts that stand above it in its module.

### AutomationRun and ActionLedger

*State.* `run` is the row of `automation_runs` (`absent` before the insert; the plan is numbered
from 1 where the code counts from 0; `leased` abstracts `lease_expires_at` to held or expired;
`err` is the prefix class that decides a retry). `deferred` is the row of
`automation_pending_tasks`: whether its task carries a run id, the action to resume at, the mark
of an unknown message, the claim count. `worker[w]` is where a goroutine stands in `executeRule`
with its local copies of attempt, cursor, sent count and mark. `op[o]` is the decision an
operator's request has judged and not yet written. `issued`, `retried`, `skipped` and `unknown`
are history variables that no guard reads.

*Actions.* One per SQL statement or transaction, because that is the unit between which the code
can crash or interleave: `TryStartRun`, `LoadRun` (the second read of `prepareRuleRun`),
`StartRunAction`, `CheckRunExecution` (the renewal that guards the platform call), the three
answers (`ActionSucceeds`, `ActionRefused`, `ActionUncertain`), `AdvanceRunAction`,
`ContinueAfterUncertain`, `StopAfterUncertain`, `AbortRunAction`, `FinishFailed`, `FinishSuccess`,
the quarantines, `DeferAction`, `FinishDeferredTask`; the scheduler's `QuarantineRecoveryRun`,
`ClaimRecoveryRun`, `ReopenRunForRecovery`, `ClaimDueDeferredTask`, `RejectRecoveryRun`,
`PostponeRecoveryRun`, `CancelObsoletePaidRecoveryRun`; the operators' `JudgeIssue` (read and
policy) and `ResolveRunIssue` (the later UPDATE); and the environment: `ExpireLease`, `Stall`,
`StatementFails`, `Abandon`, `Crash`, and what precedes `executeRule` in `handleTask`.

*Choices that stand for detail.* The result of a platform call is a choice between done, refused
(with each error class) and unknown. The environment variable that switches off the tolerated
uncertainty is the choice between `ContinueAfterUncertain` and `StopAfterUncertain`. A failing
statement also stands for the ownership check that rejects it.

*Refinement.* The ledger has a cursor, a claimed flag, an open flag and the account of calls. The
row implements it with `cursor <- run.cursor`, `claimed <- run.started`,
`open <- run.status # "canceled"` (`LedgerSpec`): attempts, leases, quarantine, reclaim, deferral
and every crash are stuttering steps.

### EventGate and OrderDelivery

`EventGate` has the rows of the orders of one chat, the queue of deferred tasks, the runs that were
started and the process that handles each card. The payments that the queue owes a run are named
by their row in `owing`: a card without an order number may be settled by a run of either of two
orders, so a promise per order would be wrong, which the attempt to prove it showed. A card says who its receiver is, or nothing, or contradicts
itself; `VerifyRole` is `authorizeWebSocketSellerTask` with the reads it makes, `RecordFacts` the
ownership check and the upsert, `StartRun` is TryStartRun with `allowOrderDeliveryRun`; the
scheduler replays (`ClaimDeferred`, `SettleReplay`) and scans (`ScanPendingShip`), and the
synchronisation of orders and items supplies the evidence meanwhile.

`OrderDelivery` has both rows with their proofs, the stock as the sequence of lines of
`data_content`, and the goroutines (`actor`) between the claim of an action and its record, or
inside a replay. API, template and image cards take nothing from a stock and are left out; the
operator's decision is one step here (its staleness is in `AutomationRun`); `Latest` is the row
`updated_at` names, which has a resolution of one second.

*Refinement.* `StockLedger` has the stock, what each run has taken and is still owed, and what was
given to the platform and confirmed. `OrderDelivery` implements it with
`owed <- Units - Cardinality(taken)` (`StockSpec`): the rows and their proofs, attempts, requests,
decisions and crashes are stuttering steps.

### BargainStage, PublishBatch, NotificationOutbox

Rows with workers that claim them, call the platform and write back. `stage`, `batch` with `rows`
and `row` are the tables, `shipper`, `publisher` and `worker` where each goroutine stands with
what it read. In
`NotificationOutbox` a drain's token is its worker: after a crash the new drain owns the rows of
the old one in the model, but its `batch` is empty and it settles only what it has claimed.
`SendFails` has two outcomes: the channel refused, or it accepted and the call came back as an
error all the same (a time-out, a lost answer); `RetryOutbox` cannot tell and sends again. The
history `unheard` counts the second kind, `MaxUnheard` bounds it.
`PublishBatch` has the batch's lease renewed between two rows only and a fresh token per start;
`givenBack` remembers that the last claim was given back before its worker began
(`FailClaimedBatch`): such a batch is `failed` with rows still `pending`, the recovery scan does not
list it, and it waits for the user's retry;
the counters of Recount, the publish slot's interval, DeleteBatch, rows that failed validation
and the upload directory are left out.

### RefreshJob, Lifecycle, OrderSync

`RefreshJob` is one job with the runner's table of handles: a worker writes under its own context,
so one that was canceled or timed out writes nothing. `Lifecycle` has the coordinator's fields and
one action per critical section; a component's callback is one step with the locked assignment
after it. `OrderSync` is one order row under the sold synchronisation with its discovery
generation, the detail refresh, events, the manual shipment and its repair, edits and deletion,
beside the account's credential, which the reads load before and check after the call. The history
`shipment` follows a shipment the platform confirmed: `confirmed` from the answer on; `lost` when
the process dies between `ConfirmShipment` and the write or its record (`OrderCrash`), or when
neither can be written (`RecordFails`); `unmarked` when a user's edit clears `system_shipped`
(`EditOrder`). If the answer itself is lost, the request ends as failed and nothing is known of
the shipment. `ReadPending` does not find a deleted order, so its record is tried and counted in
every tick and stays pending.

### AccountManager and AccountCredential

`AccountManager`: `accounts` is the manager's entry (an instance or 0), `stopping` and
`stoppingAll` its fences; `instance[i]` is every instance ever started; `request[r]` a goroutine
with its operation, the instance it waits for and the cookie it has read. `Manager.StopContext` is
four steps between which the mutex is free. One account is modelled because accounts share
nothing but the shutdown. A login writes the status `enabled` without the transition lock or a
fence before it restarts the account (`RecordSuccessfulLogin`, `login_audit.go:102`); that writer is
not modelled. `DownIsDown` speaks of the connection of an account whose status is down, so a write
of `enabled` only weakens what it asks.

*Refinement.* `AccountSlot` is one slot with a bar, the status and the cookie. The manager
implements it with `place <-` the state of the live instance in the table, `used <-` its cookie and
`barred <- stopping \/ stoppingAll` (`SlotSpec`). That the live instance is always the one in the table
is what makes this a mapping at all; requests, waiting, marks and time-outs are stuttering steps.

`AccountCredential`: a jar has three cookies, told apart by who sets them: the session (a login and
a renewal), the request token (a login and every call) and one that no login sets. An answer to a
renewal carries some of them (`SetCookies`), and what becomes of it is decided per cookie: it
conflicts if a cookie it carries was changed since its call began, and is merged into the latest
jar otherwise, whoever's that is (`Conflict`, `Rebased`). A section under the credential lock is one
step; no platform call is. The connection loop (`runner`), the
watcher of its late answer (`late`), the scheduler's renewal with its own watcher (`renewer`,
`lateRenewer`), the status check (`checker`), the protocol renewal they share (`shared`), the update
after a login (`syncer`, which may give up when its context ends) and `stop` meet in the store and
in the account's memory. A handshake or registration that fails ends the run. `Registered` is the
second look together with going online: the lock is released before the connection is marked, so
a login stored in between meets a connection that is as good as online.

### Conversation, ReplyOnce, OutgoingMessage, AccountTasks

`Conversation` is one chat: the platform's messages with their pushes, the rows of
`chat_messages`, the session row with `cleared_at` and the cutoff, and the calls that are under
way (deletion, send, page). `ReplyOnce` is the row of `default_reply_records` with its callers;
`windows` records the known gaps a behaviour went through (see *Findings*). `OutgoingMessage` is
the pending table and echo tracker of a connection for sends of equal texts, told apart by their
mid only. `AccountTasks` is the scan and the page on the rows of `account_task_runs`, with the
stored cookie as the number of the write that stored it.

The header comment of each module says what it simplifies.

## 3. Runs

| Run | Module | Properties | Distinct states |
|---|---|---|---|
| `run_two_handlers` | `MCEventsAndRuns` | `TypeOK`, `EventTypeOK`, `CallsAuthorised`, `TakeoverSafe`, `EventSafe` | 1.7 M |
| `run_two_operators` | `MCAutomationRun`, with fairness | `SuccessComplete`, `ClaimAccounted`, `NoMessageAfterUnknown`, `StaleFenced`, `LedgerSpec`, `RunningEnds` | 0.5 M |
| `services` | `MCServices` | `ServicesTypeOK`, `AcceptedAccounted`, `OutboxFenced`, `LifecycleSafe`, `BargainSafe`, `BatchSafe`, `RefreshSafe`, `ShipmentRemembered`, `OrderSafe`, `OnlineCurrent`, `CommitsForward`, `StopQuiet` | 1.7 M |
| `services_end` | `MCServices`, with fairness | `ServicesEnd` | 0.08 M |
| `manager_requests` | `MCAccountManager`, with fairness | `TypeOK`, `ManagerSafe`, `SlotSpec`, `DownIsDown`, `Refreshed`, `RequestsEnd` | 0.45 M |
| `account_work` | `MCAccountWork` | `PartsTypeOK`, `StockSafe`, `StockSpec`, `LostVisible`, `ReplayWhole`, `ConversationSafe`, `DeletedForGood`, `RepliesSafe`, `MessagesSafe`, `TasksSafe` | 2.0 M |
| `unknown_ends_as_success`, `stale_judgement_retries`, `deleted_user_connected`, `two_active_runs`, `login_undone`, `due_orders_starve` | findings 1 to 6 | one each, violated | |

Runs have `CHECK_DEADLOCK FALSE`: with every request finished and no disturbance left the system
really stops until the next event.

*Bounds.* Limits of the code are taken small, so that the case below, at and beyond the limit
occurs: the failed retries, reopenings and claims of a run (3, 5, 5 in the code; 1 or 2, 3 and 2
here), the attempts of a message (10; 2), the upsert's retries (8; 2), the claims of a deferred
card (5; 2), the attempts of a task (6; 2), the list of due orders (200; 2, and 1 in its finding).
Bounds named `Max...Env` count disturbances (crash, stall, lapse under a living worker, failing
statement, operator's decision): two are enough for a crash followed by a decision, or a stall
followed by a takeover; one where two were seen to add nothing but states (the outbox with two
gives the same results). `MaxUnheard = 1` lets one send per message be accepted behind an error.
In a run of `AutomationRun` two actions suffice for claims, three for a message after an unknown
one and for a tail of confirmations. `OrderDelivery`
owes two cards of a stock of three, so that a refill takes one and one is left over. Two messages are
needed for a lease that lapses while an earlier message is sent; two workers, publishers,
requests, repliers and synchronisations for every overlap of two, with enough calls for a third to
follow; two cookies or logins for an answer that is older than the store. `SetCookies` has an
answer with the session and one with only the cookie that no login sets, which a stale caller
merges into the new login's jar: the two sides of the comparison by cookie. `MaxAnswers = 1` lets
one answer change the jar in `services`, with every caller a candidate; what two change between them
is left to the proof of `CommitsForward`. `EventGate`'s
`Undisturbed` names the kinds of cards that come without pauses and crashes. In `ReplyOnce`
`MaxGaps = 1` lets a behaviour go through one known gap, which then excuses it.

*Fairness.* `RunningEnds`, under `FairSpec` of `AutomationRun`, assumes that a goroutine in the
middle of `executeRule` goes on (its platform calls and statements run under contexts with
timeouts), that the scheduler's ticker keeps scanning (`Scheduler.Run`) and claims due tasks, and
that time passes. It assumes no redelivered event, no operator and no reopening. `RequestsEnd`
assumes that a goroutine of the manager that can go on does, that a read that cannot succeed
fails, and that a canceled instance leaves its loop (its tasks run under its context and the join
has a budget). `ServicesEnd` is one family of obligations, over a number that stands for a
message, a caller, or the service itself, since only one service moves: a report is delivered or
given up, Close returns, a batch and a refresh job end, the shipment of an order that is not
deleted is repaired, whoever waits for a credential is served or gives up (it need not). It assumes
the workers' loops and tickers, the recovery scans, and that abandoned leases lapse. All of it is
weak fairness; nothing is assumed to be requested, and no call to succeed.

*What the runs show.* A platform call is repeated only after an operator's retry
(`CallsAuthorised`); a call with no recorded result keeps its claim (`ClaimAccounted`); success
means nothing was lost (`SuccessComplete`); a replaced goroutine is fenced (`StaleFenced`) and a
takeover never meets one inside a call (`TakeoverSafe`); a message is never followed by another
once its result is unknown (`NoMessageAfterUnknown`). Only the seller's copy of a card starts a
run, one per order, and a payment that was put aside is not forgotten (`EventSafe`). No run takes more
cards than the order is owed (`RunOwes`), no sent card returns to the stock (`StockNeverSent`; the
two are `StockSafe`), and every step does to the stock what a ledger of takes, returns and gifts
allows (`StockSpec`); a lost one shows (`LostVisible`), and a replay confirms the shipment only when every card arrived
(`ReplayWhole`). Once a worker has heard that a channel accepted a message, it is sent again only
after a new report or a takeover; what was accepted behind an error is sent again
(`AcceptedAccounted`), and a worker that lost its row settles nothing (`OutboxFenced`). However
requests overlap, an account has one live instance and the manager knows it (`LiveManaged`), a
fence keeps restarts out (`StoppedWhileFenced`; the two are `ManagerSafe`), the connection of the
account changes only as a slot with a bar does (`SlotSpec`), a disabled or deleted account is not connected
though an instance may be started for it (`DownIsDown`), and no restart leaves a connection with
an older cookie than it was called for (`Refreshed`). A bargain is freed once (`BargainSafe`), an
item published once, no listing forgotten and a batch that ends has no row open, but for one whose
claim was given back (`BatchSafe`), a refresh job ends once (`RefreshSafe`),
components close in reverse (`LifecycleSafe`). A shipment the platform confirmed is on its way, in
the row or pending, whoever writes meanwhile, unless a crash or a second failing statement loses it
or the user takes it away (`ShipmentRemembered`); the status moves forward and snapshots are taken in order
(`OrderSafe`). An account comes online with the stored credential only (`OnlineCurrent`), the
scheduler's commits replace no session of a later login, nor its token unless they were called with
a parted jar (`CommitsForward`; other cookies may be mixed), nothing is stored after a stop (`StopQuiet`). A
deleted conversation stays deleted and what comes later is kept (`ConversationSafe`,
`DeletedForGood`); a reply goes out once outside the known gaps (`RepliesSafe`); "not sent" is
said only of a text the platform does not have, and an echo confirms its own send
(`MessagesSafe`); no rating or polishing that succeeded is called again and no login is replaced
(`TasksSafe`).

### Findings

1. **The mark of an unknown message can be lost** (`unknown_ends_as_success`). It is kept in the
   goroutine and in the deferred row only. A crash, or a later failure that is retried, between
   the tolerated uncertainty and the end of the plan makes recovery start without the mark and
   finish as `success`, where the comment at `run_coordinator.go:591` requires a review.
2. **A stale decision repeats an unknown call** (`stale_judgement_retries`). `ResolveRunIssue`
   applies the policy to values read before its UPDATE, which checks only `needs_review`.
3. **Deleting a user leaves a connection** (`deleted_user_connected`). `DeleteUser` stops the
   accounts without `BeginStopping`; a restart between stop and deletion connects again.
4. **Two runs of one order execute together** (`two_active_runs`). A manual run may follow an
   automatic one that failed without having sent anything; the scheduler then claims the failed
   one without looking at the other.
5. **A renewal undoes a login** (`login_undone`). `tryAPIRenewUsing` puts its answer's session over
   the jar of a login that was stored meanwhile; the scheduler's renewal refuses such an answer.
6. **Settled orders fill the list of due ones** (`due_orders_starve`). The list is cut off at 200
   before the settled orders are left out.

*Observations without a run.* They came up while modelling; each is a property stated in its module
or a sentence here.

* Runs: a crash during the fifth claim of a deferred task leaves the row `running` for ever
  (`DeferredSettles`, `db/automation_recovery.go:306`); a preparation that fails on recovery is
  reclaimed at every lapse without a limit (`scheduler.go:504`); `IncrementReviewRequest` is
  counted before FinishRun, twice after a crash (`run_coordinator.go:125`).
* Deliveries: a replay becomes a success also by the hands of an older goroutine (`ReplayEndsItself`),
  and one that completed after its row was taken stays under review.
* Manager: a compensation disables a connected account (`CompensatedIsDown`).
* Bargain: a crash between claim and finish leaves the stage `running`, and a ready card that
  comes during the call is forgotten when the call fails (`ReadyRemembered`).
* Batches: the recovery scan may take up a batch that was canceled after it was listed
  (`CancelHolds`); one whose claim was given back is failed with pending rows until the user retries
  it, as no scan lists it (`item_publish_batches_worker.go:145`); the counters of Recount lag
  (`worker.go:399`). Refresh jobs: what is interrupted
  before the claim stays queued (`QueuedJobMoves`).
* Orders: `patchOrder` does not advance the version, so a writer that read before the user's edit
  overwrites it (`EditsKept`), and it may clear `system_shipped` (`db/orders.go:127`). A crash between
  `ConfirmShipment` and the write loses the shipment (`manual_ship_service.go:192`). The record of a
  deleted order is never repaired, because `Orders.Get` does not find it
  (`reconciliation/service.go:93`).
* Credentials: a caller that finds a renewal under way looks it up again to wait for it; when it
  ended in between, the caller reads a result that is gone (`adapter_events.go:622`). A stale answer's
  cookies that nobody changed are merged into the jar of a new login, which then holds cookies of
  two logins (`credential_renewal.go:30`; `response_cookie_conflicts_test.go:43` expects it).
* Chat: the comment at `session_operation_gate.go:6` promises that a deletion after a send clears
  it for good, but its own echo or a later history page brings it back; rows left `sending` by a
  crash are never settled; the debounce drops intermediate messages of a buyer; MarkRead is two
  statements (`db/chat.go:722`); DeleteEmptySessions loses the cutoff.
* Reply: a takeover goes on with flags read before (`staleFlags`, against the comment of ClaimRecord),
  and a retry cut off by a crash is retaken though a part may have gone out (`cutRetry`,
  `db/reply.go:46`).
* Messages: an automation's text answered with a bare 200 can never be confirmed by its echo,
  which the comment at `sync.go:381` promises.
* Tasks: a crash leaves the row `running` for ever; a flow deletes the block another one set; a
  polish that failed in part repeats the items that succeeded; a lost answer of RateBuyer is
  retried.
* Outbox: a notification that can be neither deleted nor isolated after its channel accepted it is
  sent again when its lease lapses; `AcceptedAccounted` counts that as a takeover. One that was
  accepted although the send came back as an error is sent again under the same report
  (`notifier.go:412`).

## 4. Proofs

Eight modules hold theorems; `tlapm` checks them to the last leaf. Each theorem holds for every
value of the constants that satisfies the named assumptions of the modules, and for behaviours of
any length; the runs show the same properties on the instances of section 3, and every inductive
invariant was checked by TLC before it was proved. In each module the steps are split by action,
and where many actions change the same few things, lemmas named `...Moves`, `...Kept` or `...Step`
state once what a step must leave alone for a part of the invariant to survive.

| Component | Assumptions | Inductive invariant | Properties proved |
|---|---|---|---|
| `AutomationRun` | `PlanAssumption`, `DelayedAssumption`, `WorkerAssumption`, `BoundAssumption` | `AccountInv`, `RunInv` | `TypeOK`, `ClaimAccounted`, `CallsAuthorised`, `SuccessComplete`, `NoMessageAfterUnknown`, `TakeoverSafe`, `StaleFenced`, `LedgerSpec` |
| `AccountManager` | `RequestAssumption`, `OpAssumption`, `ManagerBounds` | `ManagerInv`, `RestartInv` | `TypeOK`, `ManagerSafe`, `SlotSpec`, `DownIsDown`, `Refreshed` |
| `NotificationOutbox` | `OutboxBounds`, `MessageAssumption`, `NobodyAssumption`, `EventAssumption` | `OutboxInv` | `AcceptedAccounted`, `OutboxFenced` |
| `BargainStage` | `BargainBounds` | `BargainInv` | `BargainSafe` |
| `PublishBatch` | `BatchAssumption` | `BatchInv` | `BatchSafe` |
| `OutgoingMessage` | `MessageBounds` | `MessageInv` | `MessagesSafe` |
| `RefreshJob` | `RefreshBounds` | `RefreshInv` | `RefreshSafe` |
| `Lifecycle` | `LifecycleBounds` | `LifecycleInv` | `LifecycleSafe` |
| `OrderSync` | `OrderBounds`, `SyncAssumption` | `OrderInv` | `ShipmentRemembered`, `OrderSafe` |
| `AccountCredential` | `CredentialBounds` | `CredentialInv` | `StopQuiet`, `OnlineCurrent`, `CommitsForward` |
| `OrderDelivery` | `OrderAssumption` | `CardInv`, `RowInv` | `StockSafe`, `StockSpec`, `LostVisible`, `ReplayWhole` |
| `EventGate` | `EventConstants` | `EventInv` | `EventTypeOK`, `EventSafe` |
| `Conversation` | `ChatBounds` | `ChatInv` | `ConversationSafe`, `DeletedForGood` |
| `ReplyOnce` | `ReplyBounds` | `ReplyInv` | `RepliesSafe` |
| `AccountTasks` | `TaskBounds` | `TasksInv` | `TasksSafe` |

The assumptions say that bounds are natural numbers, that a marker such as `Nobody` is no worker,
that a plan is a sequence of kinds of actions, and that the names of the synchronisations are not
those of the other writers: nothing that the code could violate.

### Why the properties are not inductive by themselves

*AutomationRun.* `CallsAuthorised` alone would be broken by a claim of an action that was called
and is neither passed nor claimed. `ClaimAccounted` bounds the calls of each action by its retries
plus one when the cursor has passed it, or stands at it with the claim still set. It is preserved
by every step that does not lower the cursor, drop the claim or raise `issued` (`KeepsAccount`,
`AccountKept`, which covers quarantine, finish, reclaim, deferral and all disturbances at once). The
others are the claim (needs an unset one, so the bound was `retried`), the checkpoints,
`AbortRunAction` (one call less, and only then the claim goes) and `ResolveRunIssue`. The insert of
`TryStartRun` sets the cursor back, which is safe because an absent row has no calls (`AbsentRow`).
`RunInv` adds what the goroutines know: those that still hold a hand-out keep it on the account
(`HandOutsCounted`), nobody is ahead of the row (`BehindRow`), the one whose attempt is current
holds the claim it works under (`ClaimKept`), and the row proves that the actions it passed were
performed, skipped or answered (`RowTrue`). From it follow `SuccessComplete`, `TakeoverSafe`,
`NoMessageAfterUnknown` and the refinement: a discharge of the ledger takes back a call, so it
needs `issued > 0`, which only the goroutine's own hand-out shows. `StaleFenced` needs the
types only: every write of a goroutine compares the attempt, which only grows.

*AccountManager.* `LiveManaged` needs that `RemoveStopped` never removes a live instance
(`RemovesDone`: a request about to remove has seen its instance end). `StoppedWhileFenced` needs that
nothing is started behind a fence, so a fence is set while its owner is under way and lifted by
nobody else (`FenceOwned`), and that the removal leaves the table empty (`FencedTable`).
`DownIsDown` is inductive on top of these: whoever writes the status down holds the fence behind
which nothing runs, and what is started later reads it. A step between two slots is one `AccountSlot`
allows because a request undoes its effect by writing the account down only when it is an enable
or an update (`Compensates`), which gives `SlotSpec`. `RestartInv` follows a restart from its
stop on: everything connected, or about to be, has read a cookie at least as new.

*NotificationOutbox.* Insertions and takeovers are credits, an acceptance that a worker heard of
spends one (`CreditKept`): each pending row and each worker that may still send holds one. An
acceptance behind an error spends none and is not heard of, which is why it can be repeated.

*BargainStage.* Between claim and finish a handler is alone and the stage is `running`
(`OneSubmission`), and a stage that may be claimed proves that nothing was freed.

*PublishBatch.* `RowFormed` says what a row's status tells of its token and failure, `RowOf` what
a worker may conclude of the row in its hands, `Claimer` that a batch is being taken by one
worker, `Apart` that two workers own no row together. A worker about to publish owns a row marked as
begun, or has lost it for good. A batch ends in a statement that closes or has found closed every
row, and otherwise only by being given back, which `givenBack` tells apart until the next claim.

*OutgoingMessage.* The invariant relates the four places of a message: the frame at the platform,
an answer on its way, an answer in its channel and the stage of the call (`SendTrue`); "not sent"
then follows from a frame that was refused or never left.

*RefreshJob.* A worker that may write is the registered one or is among those Stop has still to
cancel (`WorkersReachable`), which is inductive together with what Close found (`ClosedIsQuiet`).
That a job ends once follows from the guards of each writer.

*Lifecycle.* `Holds` says what the goroutine inside a callback knows: all behind it are closed, its
own is not; attempts are counted by the calls that entered (`AttemptsCounted`).

*OrderSync.* For each writer `Knows` says what it may conclude: a status it read is current as long
as the version is, unless the user edited; the account's lock is held exactly while a
synchronisation commits; the registered generation's snapshot is not older than the last accepted
one; the repair holds only a pending record; and as long as a shipment is `confirmed` the row has
it, or its record is pending, or the ship writer still carries it (`KnowsShipment`), which no other
writer's step can take away.

*AccountCredential.* Every jar has cookies there have been (`Upto`: the answers and logins so far
bound it), so a stored jar that equals the one a token was bound to was not replaced in between;
the connection's token is bound to the cookie it was obtained with, memory has that cookie as long
as the store does (`Kept`), the gate has one owner and a renewal one. The login that a call is
made with is the one it was read from (`LoopOK`). `CommitsForward` follows from the comparison cookie
by cookie: a cookie that is replaced was the one the call was made with, hence of the session's
login, and of the token's too if the jar it was called with was whole.

*OrderDelivery.* The invariant comes in two layers. `CardInv` follows the cards: each is in stock, in one
hand or handed over, for one run (`StockApart`, `HandsApart`), and every proof names only cards that
were handed over (`KnownHanded`); with the local variables of each place (`Local`) and what the
platform confirmed (`Confirmed`) it gives `StockNeverSent` and `ReplayWhole`. `RowInv` relates each
execution to its row: one execution at a time may write a row's proof (`OneWriter`), it has read
the proof the row still has (`ClaimantRow`, `ReplayRow`), and it knows all the cards taken for the run
but one it could not put back (`TakenKnown`). That an execution which claims an action or a replay
has read the current proof (`ReadyRow`, `ClaimRow`) is what carries this over a crash, a takeover or an
operator's decision: attempt, cursor and the claim mark are compared with the row, the proof is
not. A row without a mark then names all that was taken (`RowComplete`), hence `LostVisible`, and who
takes a card knows fewer than the order is owed, hence `RunOwes`, and the step is one that
`StockLedger` allows.

*EventGate.* That only the seller's copy acts holds because whoever is taken for the seller is the
seller, wherever the task has come to (`HandsFit`, `RowsFit`, `RunsFit`), and because a row that
waits for its shipment names the seller as its owner (`OrdersFit`). That a stored payment is kept
needs the tie between the replay and its row: the claimed row is the one its task names
(`ReplayNamed`), nobody else claims or gives it up (`ReplayHolds`), and it is deleted only once the
card was served or rightly dropped (`ReplayDone`).

*Conversation.* `ConversationSafe` says what a deletion leaves once it is over; during it, what was
handled since it began must already have its row (`SavedDuringDeletion`), and the cutoff must cover
what any deletion removed (`CutOff`). `DeletedForGood` then follows for each step.

*ReplyOnce.* While no gap was gone through, one call sends (`SoleSender`), the record names only
parts that went out once, the record and the call together name all of them (`SendingKnows`,
`FailedKnows`), and a record that may be retaken names them by itself (`RestUnsent`).

*AccountTasks.* A key that is worked on has one execution and a row that cannot be claimed
(`OneWorks`, `WorkedRow`); a key that had its success is with an execution that will say so or has a
row that is not claimed again (`FulfilledFlow`, `FulfilledRow`). The fields that a place in the code
determines (`Shape`) tell which execution that is.

*Composition.* The next step of `MCServices`, `MCAccountWork` and `MCEventsAndRuns` is a step of one
component that leaves the others alone. So the sum implements the specification of each
(`ServicesRun`, `PartsRun`), and what is proved of a component holds in the sum, for all values
of the constants at once: `ServicesTypesOK`, `PartsTypesOK`, `ServicesKept`, `AccountWorkKept` and
`CardToAction`, with
the refinements `StockSpec` and `LedgerSpec` among what the last two state.

*Where.* `AutomationRun`, `AccountManager` and `PublishBatch` have a module each.
`AccountWork_proofs` has `OrderDelivery`, `Conversation`, `ReplyOnce` and `AccountTasks`;
`Services_proofs` has `RefreshJob`, `Lifecycle`, `OrderSync` and `AccountCredential`. The three
`MC..._proofs` have the composition, and with it the components that remain: `EventGate` in
`MCEventsAndRuns_proofs`, `OutgoingMessage` in `MCAccountWork_proofs`, `BargainStage` and
`NotificationOutbox` in `MCServices_proofs`.

### What stays with TLC

Liveness (`RunningEnds`, `ServicesEnd`, `RequestsEnd`): fairness and `ENABLED` are out of the
prover's reach. It is the only kind of property of the passing runs without a theorem. No module with a theorem uses a
`RECURSIVE` operator.

## 5. Not modelled, and why

* *Runs.* A statement that commits while its answer is lost; `RecoverDefinitelyUnsentReviewRuns`
  (legacy rows); a card without a matching message (`hasMatchingSendCard`); in
  `automationIssuePolicy` the branches that depend on an error's wording and on a disabled rule,
  which only remove decisions the model allows; the choice of the rule and price changes.
* *Deliveries.* API, template and image cards, the management of cards, a third run of the order.
* *Outbox.* Messages without a key (account alerts), the administration of channels, what is
  sent, the limit of twenty messages a drain, which the instances do not reach.
* *Manager and credential.* A crash of the process (nothing of the manager survives it), other
  accounts, the captcha's cooldown, a disabled account in `AccountCredential`, heartbeats.
* *Batches, jobs, orders.* Counters, intervals and times, DeleteBatch, several jobs at once, chat
  association, the cookies that a consignment stores itself.
* *Chat.* Read receipts, the badge, identities, media upload, fan-out, keyword and AI replies.
* *Components of status `not_modelled`* in `PROJECT.json` are request handling over the database,
  I/O with the platform, wiring, or presentation: between two calls they keep no state whose
  order of changes could go wrong. They are most of the repository's lines, which is why the
  modelled share of it stays small.

## 6. Plan

QR login sessions (expiry against confirmation), the browser pool's slots, and the composition of
`AccountManager` with the lifecycle's shutdown; `AccountCredential` as a second implementation of
`AccountSlot`.
