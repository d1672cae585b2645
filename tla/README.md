# EazyFill: models and proofs

TLA+ models of the parts of EazyFill where order, concurrency and failure decide whether the
program is right, TLC configurations that check them on small instances, and TLAPS proofs for
every instance. Paths are relative to the repository root; `app/` is `src/backend/app/`.

## 1. The system

EazyFill is a browser extension (autofill rules, user scripts, captcha filling) and a backend
that sells plans and solves captchas. In production several *gateways* (API processes, FastAPI
under one asyncio event loop each) stand behind HAProxy, share one PostgreSQL database and,
optionally, one Redis, and hand captcha jobs to standalone *workers*.

Two facts shape every model of the backend:

* **Inside a gateway** a handler is a coroutine whose database calls are synchronous. Between
  two `await`s it runs alone in its process (`LoopFree` in the modules). Much of the code is
  correct only because of this.
* **Between gateways** nothing serialises handlers. A session reads committed rows, has no
  autoflush (`app/core/db.py:87`) and writes back the columns it assigned. One statement or
  one commit is one step, and a process may die between two of them.

The extension has one more: **its handlers interleave at every await**. The service worker, the
options page, the popup and the content scripts share only `chrome.storage`; each reads records,
awaits, and writes whole records back, and the browser may stop the worker in between.

### Components

| component | state | operations | what is hard | must hold |
|---|---|---|---|---|
| metering: `services/usage_cycle_service.py`, `credit_service.py`, `v2_routes/captcha.py` | usage cycles, ledger | reserve, solve, refund, reset, renew | check-then-insert of cycles, charge against a row others rewrite, failure after the charge | counter = what is held; never above the limit; one open cycle; every call answered |
| solver over Redis: `services/solver_service.py`, `worker.py` | job, result and dead-letter lists | submit, take, publish, requeue, bury | commands that raise after they ran, workers that die with a job, timeouts racing results | one copy of a job; dead is over; bounded retries; every call answered |
| solver in the process: `services/solver_service.py`, `main.py` | asyncio queue, futures | submit, run, stop | cancellation and shutdown at any await | nobody waits for nothing |
| payments: `services/payment_service.py`, `api/webhooks.py`, `v2_routes/billing.py`, `admin_routes/payments.py` | payments, webhook events, deduplication keys | order, webhook, verify, approve, reject, activate | replays, reordering, crashes between transactions, two gateways | one active subscription; nothing unpaid; handled means applied |
| promo policy: `services/promo_plan_policy.py` | (reads payments, subscriptions) | eligibility | checked in one transaction, used in another | once per user |
| subscriptions: `services/subscription_service.py`, `admin_routes/users.py` | subscriptions, user status | create, renew, cancel, expire, downgrade | status of the user set from one of several subscriptions | one current subscription; status agrees with it |
| accounts: `services/account_auth_service.py` | OTP challenges, sessions | start, verify, logout | attempts counted by read and write-back; two transactions per login | a code is used once; attempts bounded |
| keys and devices: `services/user_key_service.py` | keys, bound devices | rotate, bind, validate | limit counted, then inserted; lock of one process only | one active key; devices within the plan |
| extension storage: `extension/background/protected-storage.js` | memory cache, encrypted disk, salt | get, set, remove | read-modify-write across awaits; service worker killed; a salt made once | memory and disk agree after a restart; everything stored opens |
| account in the worker: `background/auth-manager.js`, `credit-manager.js`, `api-client.js`, `service-worker.js` | session, settings, credits | start, refresh, sign in and out, solve, count | answers that outlive what they were asked for; stale records written back | ended sessions and exhausted credits do not stay |
| sync: `background/sync-manager.js`, `service-worker.js`, `services/sync_service.py` | one versioned blob per user, version per device, a flag | push, pull, delete, automatic runs | compare, then write; equal versions; version and data stored apart; lost answers | edits reach the cloud; automatic runs do not overlap |
| userscripts: `background/userscript-manager.js` | registered scripts, capabilities in code, session storage and memory | register, start a document, call | registrations beside one another; a worker that forgets | what is registered is what was chosen; a call survives a registration |
| captcha page: `content/captcha-detector.js`, `captcha-filler.js` | flag, kept answer, configuration | scan, solve, wait, fill | flag tested before an await; field, image and route change meanwhile | answers bought once; what the user wrote stays |
| recorder: `content/recorder-engine.js`, `recorder-panel.js`, `background/messaging-hub.js` | session, its copy in sessionStorage, panel | capture, edit, pause, stop, save, next page | capturing goes on while a save is in flight | no captured step vanishes |
| autofill: `content/autofill-engine.js` | flag, timer, steps done | run, command, step | address, fields and switches change during a run | a rule fills once; changes get filled |
| extension pages: `options/options.js`, `popup/popup.js` | a copy of the storage in each page | save, delete, profiles, restore, pull | copies that are old; keys written one after another | items leave on purpose; every item has a profile |
| scheduler: `app/background_tasks.py` | Redis lock | claim, run, release | lock expires while held; Redis down | one holder while Redis answers and work is short |
| rate limits: `services/rate_limiter.py`, `middleware/*` | windows | count | window edges, fallback to memory | never more than the limit per window |

The others (backup, model registry and router, proposals and training samples, audit, e-mail,
readiness, configuration and migrations, web frontend, deployment, `trash/`) are in section 5.

### How they interact

`POST /v2/captcha/solve` reserves a credit (metering), awaits the solver, and either answers
or refunds. The solver answers from its cache, from its own queue, or through Redis and the
workers, with the local model as a fallback. Razorpay's webhooks, the user's verification and
the administrator's approval all call `activate_payment`, which ends the user's other
subscriptions and starts a new one with its first usage cycle; metering then charges the cycle
of the newest active subscription. Administrators and the expiry loop rewrite the same rows.

In the browser every message, alarm and storage change wakes a handler of the service worker. Its
handlers, like the options page and the popup, keep their records in the protected storage. A sign-in
switches sync and userscripts on, a sign-out switches them off; changes of the synced keys set a timer
that pushes them. Content scripts ask the worker for answers to captchas (`POST /v2/captcha/solve`, charged
as above), for rules, limits and routes, and send it what they record.

## 2. Modules

| module | what it is |
|---|---|
| `QuotaPromise` | what metering promises: a credit is unused, held, kept or returned, and a cycle never gives more than its limit |
| `Metering` | solves of one user over several gateways: reserve, solve, refund, answer; cycles; administrator's resets, renewals, activations; crashes |
| `Metering_proofs`, `MeteringQuota_proofs` | proofs about `Metering`: at any price, and at the price of one credit |
| `Payments_proofs` | proofs about `Payments`: on any number of gateways, and on one |
| `SolvePromise` | what the solver promises: a call is settled once, with a result only if a run solved its captcha, after a bounded number of runs; a call in progress ends |
| `RemoteSolve` | the Redis queue and the workers; implements `SolvePromise` |
| `LocalQueue` | the queue inside the process; implements `SolvePromise` |
| `RemoteSolve_proofs`, `LocalQueue_proofs` | proofs about the two |
| `Payments` | orders, webhooks, verification, approval and activation for one user |
| `DurableRegisters` | what the extension's storage promises: a register per key, with a kept value behind it to which a restart returns |
| `ExtensionStorage` | the protected storage; implements `DurableRegisters` |
| `ExtensionStorage_proofs` | proofs about `ExtensionStorage` |
| `ExtensionWorker_proofs` | proofs about `CloudSync` and `Userscripts`, as parts of `ExtensionWorker` |
| `Account`, `CloudSync`, `Userscripts` | the service worker: session, settings and credits; the cloud copy; userscripts |
| `ExtensionWorker` | the three together, with their fairness and properties |
| `CaptchaPage`, `Recorder`, `AutofillPage`, `ExtensionPages` | the captcha of a page, recording, autofill; the options pages and the popup |
| `ExtensionTabs` | the four together, with their fairness and properties |
| `ExtensionTabs_proofs` | proofs about the four, as parts of `ExtensionTabs` |
| `MC...` | instances for TLC: constants and symmetries only |

`PROJECT.json` maps every definition to the lines it stands for. Definitions marked
"MUTANT of X" are not used by any specification: each is X with a plausible bug, and is there
to show that the property it is paired with can fail.

### Metering

`sub` and `cycle` are the rows of `user_subscriptions` and `usage_cycles`; ids grow, so "newest"
is the greatest id. `pc`, `goal`, `bill` and `plan` are a request's position and local variables
in `solve()`. `goal` says why the request looks the current cycle up: to charge, to refund a
reservation that had no cycle, or to report the balance. `FindNoSubscription`, `FindCycle` and
`FindCycleMissing` are the SELECTs of `get_or_create_cycle`, `InsertCycle` its commit;
`Charge` and `Refund` are the UPDATE statements with their arithmetic; `BookCharge` is the
second read and the ledger entry. `SolveSucceeds`, `SolveFails` and `SolveCancelled` are the
three ways the awaited solve ends, `DatabaseFails` any statement that raises. `ReadCycleToReset`
and `ResetCycle` are the two halves of `reset_cycle`; every gateway may have one in progress.

Abstracted: the ledger (written, never read to decide), `blocked_at_limit` (nothing sets it),
the user (all rows are one user's), `increment_usage` (not called). `Quotes` is the set of prices
a quote may return; each quote chooses any of them, because the plan override and the price
table may change, or fail to be read, between two quotes.

### Solver

`RemoteSolve`: a step is one Redis command. It may raise after the server executed it (the
disjunct with `FallBack`, `Move(w, "retry")` or `Drop(w)`) or without (`CallerFails`,
`WorkerFails`). A job popped by a worker exists only in `work`. One API process; its cache and
its calls disappear in `ApiCrashes` while its jobs stay. Keys are unique per call, so the time to live of
a result key (at least 60 s; a caller waits 30 s) only frees memory and is left out.

`LocalQueue`: a step is what runs between two awaits. `future` is kept apart from `call`, because a
resolved future whose caller has not resumed, and a cancelled caller whose job still runs, are
the interesting states.

### Payments

`pay`, `subs` and `event` are the rows, `claim` the deduplication keys in Redis, `hand` the requests
in progress. An event has a payment and a kind, and may name no known payment. A webhook is
`Deliver` (Redis), `Look` (first SELECT), one of `WriteDuplicate`, `WriteCapture`, `WriteFailure`,
`WriteOther` (its transaction), then, for a capture, the activation and `Mark`. An activation is
`ReadPayment` (with the promo check), `ExpireOthers` (the UPDATE, which sees what is committed)
and `Commit`. On one gateway these run without interruption (`InLoop`). `Fails` is a statement that
raises and rolls its transaction back, `Crash` the end of a gateway. `provider` is Razorpay's side
(external): an order is created, tried, captured, or captured at a second attempt; a failed attempt
may be reported after the capture. Any event may be delivered any number of times while it is true.

Abstracted: amounts (an event either matches or is a `mismatch`), signatures (an event or a
verification that is accepted is genuine, and is about the payment it names: `verify_payment` takes the order's id from the
request, and only the unique index on the provider's payment ids keeps a proof from serving twice), the cycle, the user's status and the API key that
activation writes in the same transaction, and subscriptions made without a payment. The read
and the commit of `WriteFailure` are one step. The promo plan is one that is open to all users.

### The extension

A step of these modules is what runs between two awaits, so reading a record and writing it are
steps of their own and anything may come in between. A call to the browser takes effect in
the step that resumes its caller; one to the server, whose answer may be lost, in a step of its own.

`ExtensionStorage`: `disk` is `chrome.storage.local`, `memory` the cache of one service worker,
`hydration` and `cipher` the two promises every call shares, `salt` the salt in `fp_protected_meta` the key
is derived from. A call goes from `hydrating` through `sealing` (a value is in memory, its envelope being
made) and `storing` to `tidying` (a plain copy of an older version is dropped). `Kill` is the end of the
worker. `SkipEnvelope` is an envelope met while the salt can be neither read nor written: hydration swallows the error and goes on without the key,
which is then `missed` until somebody writes it or the worker restarts; `CipherFails` is the same for a call that seals a value, and fails it.
A key that cannot be imported, or an envelope that is damaged, is not modelled. A value is the name of the call that wrote it. Through `DurableRegisters` the storage is, for all
that is built on it, one register per key; the modules above write records in one step, and are those of a worker that missed none.

`Account`: `run` is the handlers in progress and what each has read. The server is what it answers: `ServerVerifies`,
`ServerReports`, `ServerSolves`, `ServerRejects`, `ServerRevokes`, each in the step in which the answer is
made, before the handler gets it; `RequestFails` loses request or answer, and the client repeats some requests once.
One captcha credit is the least that can run out. `CloudSync`: `task` is the pushes, pulls and deletions in progress with
the copy they carry; `running` and `timer` are `autoSyncRunning` and `autoSyncTimer`; `astray` records that the device once fell behind the cloud (others have
pushed, or it has forgotten its own pushes); a payload is the number of the edit it contains. `Userscripts`: `registry` is what the browser has registered, each script with the capability in its code;
`stored` is the session storage, `known` and `documents` the worker's maps; `page` is a document with the capability
in its code and its own, and `calls` its GM calls in progress, which share the latter. When the worker stops before it answers, a call just does not go on. `session` is a switch there, flipped by events of `Account`.

`CaptchaPage`: `solving`, `kept` and `cache` are the detector's `solving`, `solvedMap` and `configCache`. An image is a
number, its answer the same number; two images may share a key, because the key is a prefix of the data.
`Recorder`: `session` and `stored` are the recording in the page and in sessionStorage, `saves` the messages
on their way with what the worker has read for them; the next page of the tab finds the session (`Navigate`) or does not (`LeaveRecording`). Coming back
to an origin whose sessionStorage still has it is not modelled, and a page's storage takes the session always or never. `AutofillPage`: `running`, `timer`, `completed` are the engine's; a rule is the fields its
steps fill. `ExtensionPages`: `copy` is the state of an options page, `behind` the keys it has not seen change;
`other` is what the popup or the recorder has read of a key it is about to write whole. A captcha route whose selectors or domain are edited is the
same item here; the code gives it a new id and takes it from under the old one.

**Parts.** The parts of `ExtensionWorker`, and those of `ExtensionTabs`, share no variable: what one does to another
is an event the other's module lets happen at any moment (a sign-out, a script switched off, a field filled).
Their interleavings are therefore products of their own behaviours, and no property relates two of them. So a behaviour of these
modules is of one part, which `part` names, and one run explores each of them completely.

## 3. What is checked

All invariants, action properties and refinements below hold for the instance given, over all
its reachable states.

| run | instance | properties |
|---|---|---|
| `metering_ha` | 3 solves, 2 gateways (two solves share one), price 1, limit 1, a clock of 2 ticks, 1 subscription, 3 cycles, 2 resets at once | `TypeOK`; `CounterIsHolders`: a counter is the sum of what its requests hold; `AnswerMatchesBill`; `QuotaSpec`: refinement of `QuotaPromise` |
| `metering_one` | 2 solves, 1 gateway, prices 0 and 2, limits 1 and 2, 4 cycles | `OneOpenCycle`; `ChargeWithinLimit`; `RequestsFinish` (liveness) |
| `remote_solve` | 2 calls for one captcha, 2 workers, 2 attempts, 1 dead letter kept, fallback on | `TypeOK`; `OneCopy`; `DeadIsOver`; `PromiseSpec`: refinement of `SolvePromise`, liveness included; `JobsSettle` (liveness) |
| `local_queue` | 3 calls, 2 workers, a queue of 1 | `TypeOK`; `NobodyForgotten`; `PromiseSpec` |
| `payments_one` | 2 payments, one of them for the promo plan, 2 handlers on 1 gateway, Redis off, cancellations | `TypeOK`; `OneActive`; `SettledIsLeftAlone`; `PromoOnce` |
| `payments_ha` | 1 payment, captured, failed and mismatched, 2 gateways, Redis that may fail | `ProcessedWasApplied`; `NothingUnpaid` |
| `extension_storage` | any 3 of 2 sets, a removal and a read, each of 1 or 2 keys, 1 restart | `TypeOK`; `EverythingOpens`: no second salt; `SurvivesTheWorker`: but for what was `missed`; `ImplementsRegisters`: refinement of `DurableRegisters` |
| `extension_worker` | the worker's own handler and one more, 2 sessions; the syncs of timer, alarm and user; 2 scripts of which the plan allows 1, 2 registrations, 1 document with 2 calls | `OneAutoSync`; `UndisturbedRunsAreExact`; `RetryGetsThrough`; `EndedSessionsGo`, `CreditsRecover`, `EditsAreBackedUp` (liveness) |
| `extension_tabs` | 2 solves of 3 images, two with one key; 2 elements, 3 steps, 2 saves; 3 addresses, 2 rules of which the plan allows 1, 2 runs; 2 options pages and the recorder, 1 profile, a rule and a captcha route | `OneSolveAtATime`; `AnswersAreNotBoughtTwice`; `ManualInputStays`; `NoStepVanishes`; `EditsSurviveAutomaticRuns`; `ChangesAreFilled` (liveness); `ItemsLeaveOnPurpose`; `ItemsHaveProfiles`; `ActiveProfileExists` |

`payments_one` has at most one payment for the promo plan and no event of an unknown payment; the theorems of section 4 cover
any number of both.

**Bounds.** `MaxTime`, `MaxSubs`, `MaxCycles`, `AdminCycles` and the sets of requests, workers and handlers
are the only bounds. Two gateways (and two requests on one of them) show every pairwise
interleaving of the transactions; a third solve lets a charge meet a refund and a reset at
once. One tick of a cycle's length lets cycles end while solves run. `AdminCycles` leaves rows to
the requests, so the bound never blocks one of them, which would make liveness vacuous or false.
`MaxSubs` = 2 is two activations, the fewest that can conflict. Three cycles are the first and what two overlapping resets of it leave. A queue of one and three calls fill
it, empty it and refuse. Two attempts have a first, a last and a retry in between. Deadlock is not
checked: all these systems stop when their finitely many calls are over.

In the extension `MaxCalls` and `MaxKills` bound the calls of the storage and its restarts: three calls make a write
meet another write and a read, and one restart separates what was in memory from what was kept. The other modules
bound what comes from outside (`MaxEvents`, `MaxActs`, `MaxChanges`, `MaxEdits`: starts by the user, failures, stops of the worker,
other devices); what a handler does once begun is never bounded. Three to five such events let a handler read, another
overtake it, and a third see the result. `MaxVersion` stops the count of sync versions at 3, where an equal, a lower and a higher
version all occur; Two calls of one document trade for
a capability while the other does. With one profile besides Global a deleted one always leaves Global, so the rule for captcha routes (`Disowned`) differs only in
the proofs. `Images` = 3 shows a key meet a key it equals and one it does not.

**Symmetry** is used where the requests or handlers permuted are interchangeable (solves of one gateway;
the two handlers of `Payments`; the keys, and the sets, of `ExtensionStorage`) and only in runs without liveness.

**Fairness.** *Metering*: weak fairness of a request's reserve and settle steps and of the end of a
reset: a coroutine that holds the loop runs on, and the awaited solve ends, which is what `SolvePromise`
says and both solver modules are shown to deliver. No fairness for crashes, failures, the clock or
administrators. *RemoteSolve*: a caller's next command returns, raises or times out (BLPOP has a
timeout); workers pop and go on; runs of the model end; nothing forces a worker to survive a job.
*LocalQueue*: ready coroutines run, runs of the model end, and a process that has begun to stop
goes through with it. *Payments* and *ExtensionStorage* have no liveness and no fairness.
*ExtensionWorker*: a handler whose call has returned goes on, requests end (the client gives up after 15 s), and the browser
rings the alarms. It keeps them when the worker stops, but each start creates them anew (`service-worker.js:227-231`) and so puts them off; the fairness is justified
only because starts are bounded (`MaxAccountEvents`, `MaxSyncEvents`), and a worker that is stopped again and again sooner than an alarm's period never syncs. Nothing is assumed of the sync timer: it is a `setTimeout`, and a worker that stops
forgets it, so that edits reach the cloud only because of the alarm. *ExtensionTabs*: in a page promises settle and timers
fire, which is assumed of autofill only.

### Disagreements between code and documentation

These runs show a counterexample of a statement made in the repository.

* `metering_race` (`WithinMonthlyLimit`): two gateways find no open cycle and each inserts one; the
  limit then exists twice. `increment_usage_atomic` says it prevents races that exceed the monthly
  limit; its UPDATE does so for each cycle (`ChargeWithinLimit`, proved), not for the month.
* `metering_refund` (`FailureIsRefunded`): the charge is committed, the row is read again, the read fails,
  the caller gets a 500, and no refund is attempted, against `docs/eazyfill_launch/support_faq.md`.
* `payments_replay` (`ReplayMakesNoDuplicate`): without Redis, which is off by default, the same captured event reaches a second
  gateway while the first is still activating; both insert a subscription, against
  `docs/razorpay_staging_validation.md`. With one gateway it cannot happen (`OneActive`, `SettledIsLeftAlone`).

The following are seen in the models of the extension; nothing in the repository says otherwise, so no run claims a violation,
and the properties are stated with these cases as their exceptions.

* `deleteProfile` (`options/options.js:3579`) asks for the active profile when the profile is already gone from its list and so
  leaves `activeProfileId` naming it (`orphaned` in `ActiveProfileExists`).
* The options page loads the storage once. Items others save meanwhile go with its next write of that key (`crossed` in `ItemsLeaveOnPurpose`).
* `registerStoredUserscripts` asks the protected storage for `fp_settings`, which is kept outside of it, so scripts are always chosen for the default profile.
* The listener of storage changes in `userscript-manager.js` waits for `fp_auth`, which is stored under its protected name: a sign-out
  does not unregister scripts (`SignInOrOut` starts no run).
* The answer to a save ends whatever recording the page has by then (`Answer` in `Recorder`); steps captured while a save is in flight are lost.
* A stopped recording stays in its page only: `stop()` stores it as not active (`recorder-engine.js:437-440`), the next page does not restore it (132), and its steps are lost
  (`excused` in `NoStepVanishes`; also when the next page is of another origin or has no storage).
* A run of autofill begun at one address goes on after a `pushState` and marks what it fills as done at the new address; the next run finds the state to be of the
  old address, clears it (`autofill-engine.js:58-64`) and fills again, over what the user has written since (`EditsSurviveAutomaticRuns` counts only what runs begun at the address have done).
* When the salt cannot be read while the memory is filled, `hydrateProtectedCache` swallows it for each envelope and counts as done: for the life of the worker the values
  read as absent, though nothing on disk is lost (`missed` in `SurvivesTheWorker`).
* GM calls of one document share a capability, and each that asks for one replaces it: two calls of a fresh document may both end as invalid although its registration stands
  (`RetryGetsThrough`).
* A sign-out whose revocation fails (`auth-manager.js:170`) may be undone on the device by a refresh in flight, and then stays undone, since the session is live (`EndedSessionsGo` speaks of
  sessions the server no longer accepts).
* A sign-out removes the sync version (`auth-manager.js:54`), a sign-in pulls nothing: the device is then refused because of its own earlier pushes until the user pulls
  (`Behind` in `EditsAreBackedUp`).
* The detector tests `solving` before it asks for a route's status and does not test it afterwards (`asked` in `OneSolveAtATime`).

## 4. What is proved

TLAPS proves, for all values of the constants that satisfy `ConstantsAssumption`:

* `TypeCorrect`: `Spec => []TypeOK`. The inductive invariant is `Typed`: `TypeOK` plus which local variables are set at which
  step (a request that charges or refunds knows its cycle, one about to insert has a plan).
* `ChargesWithinLimit`: `Spec => ChargeWithinLimit`. No step takes a counter above its limit. It needs only `Typed`.
* `OneOpenCycleAlways`: `OneOpenCycle`, when all requests share one gateway (`SingleGateway`). A request inserts a cycle because it found
  none, and a reset closes the one it found. `CycleInv` adds that the event loop is one handler's at a time (`OneInLoop`), so what the request
  or the reset has found is still so when it commits (`StillMissing`, `StillOnly`). On the instance of
  `metering_race`, with two gateways, TLC refutes it.

and, for the price the repository ships, one credit (`UnitPrice`), and finitely many requests:

* `CountersRight`, `AnswersRight`: the counter of a cycle is the number of its holders, and answers agree with bills.
  `CounterIsHolders` alone is not inductive: nothing in it stops a refund from clamping at zero, or a request from being charged
  twice. `Accounts` adds where in `solve()` a request has been charged and not repaid; the refund's clamp is then never
  taken, because the counter is at least the number of its holders, one of whom is refunding.
* `MeteringKeepsQuotaPromise`: `Spec => QuotaSpec`. Initial states correspond and every step is a step of
  `QuotaPromise` or a stutter, under `Accounts`.

Unit price is needed: with several prices a refund quotes anew and may give back another amount than was taken
(`credit_service.py:195`), and `CounterIsHolders` is then false.

About the payments, for any sets of payments, events, handlers and gateways:

* `PaymentTypes`, `PaidFor`, `SettledAfterEffect`: `TypeOK`, `NothingUnpaid` and `ProcessedWasApplied`. They say
  too little of the handlers to be inductive. `IInv` adds what a handler knows at each step (`Knows`: until it writes, its event is a true
  report; while it activates, its payment is captured or approved by hand; before it marks its event, the payment has a
  subscription), that orders in the making are of distinct payments Razorpay does not know (`Orders`), and that none
  of this is ever taken back (`Grows`, which lets a handler that does not move keep what it knew).
* `OneActiveAlways`, `PromoOnceAlways`, `SettledEventsLeftAlone`, when all handlers share one gateway
  (`SingleGateway`): `LoopInv` says that one handler at most is in the loop, and that what this one has read still holds (`Fresh`: the
  subscriptions it will expire are all that are active, nobody has had the promo, its event is not settled). The
  assumption is needed: on the instance of `payments_replay`, with two gateways, TLC refutes each of the three.

About the solver, over Redis and inside the process, for any calls, workers, attempts, size of queue and failures:

* `TypeCorrect`, `OneCopyAlways`, `DeadIsOverAlways` (`RemoteSolve`), `TypeCorrect`, `NobodyForgottenEver` (`LocalQueue`). Neither counting
  places nor ordering results is inductive: that a retry adds no second copy needs that the worker who retries has the only one, and that
  nothing follows an error needs that a live job was never told of one. `IInv` says of each call that its job has one place (`OnePlace`), that none
  exists before it is sent (`Unsent`), that an error is the last word (`Over`), that a result comes from a run that succeeded (`Backed`) and
  what its job may still cost (`Spent`, `Fresh`).
* `SolvesKeepPromise`, `QueueKeepsPromise`: `Spec => Promise!Safety`. Every step is a step of `SolvePromise` or a stutter, `IInv` giving the
  guards of `Run` and `Settle`. The rest of `PromiseSpec`, that a call in progress ends, is liveness and stays with TLC.

About the extension's storage, for any keys, calls, restarts:

* `TypeCorrect`, `EverythingOpensAlways`, `SurvivesTheWorkerAlways`: `TypeOK`, `EverythingOpens`, `SurvivesTheWorker`. What is on disk
  is only right because of what the worker knows. `IInv` adds that a worker with a cipher has the salt on disk (`Salted`;
  one about to write a salt finds none on disk, and so no envelope either), that the snapshot hydration fills the memory from is still the disk, because no call writes before it ends
  (`Hydrated`), that a call has put in memory what its place says (`InOrder`), and that an undisturbed key in memory that was not missed equals the disk
  (`Remembered`). Without `Hydrated` the step `Fill` could bring an old value back.
* `RegistersImplemented`: `Spec => ImplementsRegisters`. `Fill` is a `Wake` without the keys missed. `Get` is a `Read`; a value put in memory is a `Write` of that key; `Store` and `Erase` are a `Save` of all keys of the call; a refused write or a
  refused salt an `Abandon`; `Kill` a `Restart`; everything else a stutter.

About the service worker, for any tasks, scripts, registrations, documents and restarts (`ScriptsAndRuns` asks only that scripts are numbered,
and that scripts and registrations are finitely many; a worker starts one registration or two, and counting them needs this):

* `OneAutoSyncAlways`: `OneAutoSync`. The flag alone is not inductive: `SyncInv` adds that only the tasks of timer and alarm run automatically and are
  at places of such a run whenever they are busy (`Fits`), so that a pull or a push that ends cannot clear a flag it has not set.
* `RetryGetsThroughAlways`: `RetryGetsThrough`. `Retries` adds that a call holding a capability it has just been given, or asking with it, shows the very one the worker keeps for
  its document, unless the maps were emptied or another call of the document was given one since it began.
* `UndisturbedRunsAreExactAlways`: `UndisturbedRunsAreExact`. `RunsInv` adds what a registration that runs alone knows at each place (`AloneInOrder`: its list is what the browser
  holds; once it has unregistered nothing is registered; what it will register is what the session storage holds), and that a registry
  known to be exact stays so until the next registration begins.

About the tabs, for any pages, profiles, items, solves, images, elements, messages and runs. The assumptions are that different things have
different names (`Names`), that the button a recording may see clicked is an element (`Clicks`), that the rules are finitely many and the counters that `Bounds` names are numbers:

* `ItemsHaveProfilesAlways`, `ActiveProfileExistsAlways`, `ItemsLeaveOnPurposeAlways`. A page writes its whole copy, so the storage is right only if
  the copies are. `PagesInv` adds, for each page, on which keys it is not behind and so has what the storage has (`SameAsStored`), that a page
  which has a profile that is gone is behind on every key (`KnowsProfiles`), and that what it lacks it was told to delete (`LacksOnPurpose`).
* `NoAnswerBoughtTwice`, `OneSolveAtATimeAlways`, `ManualInputStaysAlways`. `CaptchaInv` says that until two runs have doubled, at most one is past
  the flag, the flag is set exactly while there is one, and none buys what is kept.
* `NoStepVanishesEver`. A step moves from the session to a message, to what the worker has read, to the rules. `RecorderInv` says of each place what it
  has in common with the next one (`Carried`, `Read`, `Older`): session, message and rules differ only in excused steps, among them those of a page left for one that does not find the session, and what a message has read of the
  rules still holds when it writes them.
* `EditsSurviveAutomaticRunsAlways`. An automatic run tests at the step whether it is done, and may write much later, when the target appears. `AutofillInv`
  adds that one run at most is in progress (`OneRun`), that what was done at this address is in `completed` (`DoneIsCompleted`), and that a run which waits
  for its target still waits for a step that is not done (`Awaits`): it is the only run, and a change of address starts `done` over.

Only model-checked: everything about the account, and all liveness (TLAPS does not do fairness and ENABLED): that jobs settle, that a call in
progress ends, that requests finish, that credits recover, that edits are backed up, that ended sessions go, that changes of a page are filled.

## 5. Not modelled

* *Codes and sessions on the server* (`account_auth_service.py`), *keys and devices* (`user_key_service.py`): SQL rows read and written back in one
  request. `Account` models what they give the extension: sessions open, end and are replaced. Their races are in the hazards of `PROJECT.json`.
* *Status of the user and the downgrade to the free plan* (`subscription_service.py:427`, `:531`): written by the handlers of `Metering` and
  `Payments`, read by neither.
* *Scheduler lock*: the loop expires subscriptions, which `Metering` and `Payments` let happen at any moment, with or without a lock.
* *Rate limits, modes, middleware*: they refuse requests; any modelled request may be refused.
* *Time to live of result keys* (`worker.py:45`, a key that stays when the second command fails) and *an order whose reply is lost*
  (`webhooks.py:331`, a row that stays open): leaks that no modelled decision reads.
* *Server side of sync* beyond its compare-and-write; encryption, sizes, and deletion confirmed by a code.
* *Userscript metadata, installation from a URL, the GM functions*: parsing and pass-through; their values are registers of `ExtensionStorage`.
* *Picking elements, selectors, sign-in forms, `factoryReset`, account panes, the popup's rendering, the web frontend*: user interface, or one handler that clears everything.
* *Firefox extension*: its scripts are byte for byte those of `src/extension`; the models of these are models of those.
* *Backup, audit, e-mail, notifications, readiness, model registry, proposals and training samples, settings, migrations, deployment*:
  I/O, output only, or single rows edited by one person.

Next in order of worth: proofs about the account; the scheduler's lock with the expiry
loop under it; codes and devices over two gateways.

## 6. Running

    tlc -workers 2 -config MeteringHA.cfg MCMetering
    tlapm Metering_proofs.tla      (and the seven other *_proofs modules)

Every `.cfg` names its module's instance; `PROJECT.json` lists which module each configuration belongs to.
