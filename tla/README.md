# gptGrok2api: a TLA+ verification development

The program pools accounts of two services behind an OpenAI-compatible API: it
keeps the accounts, chooses one per request, watches what the upstream says of
it, and repairs, refreshes and removes accounts in the background.  This
directory models the parts in which several threads, coroutines and processes
work on the same accounts, checks them with TLC on small instances, and proves
the main invariants with TLAPS for every value of the constants.

Paths are relative to the repository (`src/app/...`, `src/services/...`).
`PROJECT.json` names, for each definition, the lines it models.

## 1. Inventory

There are two runtimes in one process group: the *Grok runtime* under `app/`
(asyncio, one event loop per worker, several workers on one account store) and
the *GPT services* under `services/` (threads, one process).

| Component | State | Operations | Interacts with | What is hard | What makes it correct |
|---|---|---|---|---|---|
| Account repository, SQLite (`app/control/account/backends/local.py`) | `accounts` rows with a revision, `meta.revision` | upsert, patch, delete, replace_pool, console reset, purge; scan_changes, runtime_snapshot | every worker, the admin API, the leader's loops | rows of a bulk write share one revision; a scan reads the global revision and the rows in two statements | whoever follows the revisions sees every change |
| Redis and SQL repositories | the same in other stores | the same | the same | Redis publishes a row in several commands | as above |
| Runtime table and sync (`app/dataplane/account/sync.py`, `table.py`) | columns per slot, pool and mode buckets, `revision`, `size` | bootstrap, apply_changes | repository; the selector reads the buckets | batches, failing scans, restarts, callers racing | no change lost, no step back, indexes exact |
| Selection, lease, feedback (`app/dataplane/account/__init__.py`, `selector.py`) | `inflight`, quotas, cooldowns | reserve, reserve_any, release, feedback | request handlers, the sync loop | many requests on one slot while it is rewritten or deleted | in-flight exact, cap kept, exhausted accounts not offered |
| Request handlers (`app/products/**`) | a lease each, excluded accounts, attempt | reserve, stream, retry, report | directory, refresh service | every path must give the account back | no lease left behind |
| Refresh and maintenance (`app/control/account/refresh.py`, `scheduler.py`, `invalid_credentials.py`) | the stored record: status, reason, windows | call patch, 401 patch, scheduled refresh, console sweep, console recovery | repository; the operator through `tokens.py` | reads and writes of a record separated by awaits | windows end, what the operator disabled stays so until the operator says otherwise |
| GPT pool and image slots (`services/account_service.py`, `services/protocol/conversation.py`) | accounts by access token, aliases, `_image_inflight`, a condition variable | acquire, release, rotate, remove, import, preflight, mark result | image threads, watchers, operator | the name of an account changes while slots are held | slots counted exactly, cap kept, waiters served |
| Image and editable-file tasks (`services/image_task_service.py`, `services/json_file.py`) | tasks in memory, in a file and in its backup; a thread each | submit, list, run, poll, resume, expire, recover after restart | image threads, clients that poll and submit again | a crash anywhere, a file written in place, saves that raise | the handler runs once, what is shown is stored, every task ends |
| Survival service (`services/openai_survival_service.py`) | a lease row in SQLite, status, a scheduler thread | claim, renew, release, probe | GPT pool | a run outliving its lease | one run at a time, takeover after a crash |
| xAI OAuth store and service (`services/xai_cli_oauth_store.py`, `xai_cli_oauth_service.py`) | one JSON file under a lock, a refresh lock per account, a queue of authorization jobs | refresh, request, test, probe, batch, import, authorize, set_status | upstream, the probe scheduler, registration, operator | a refresh token works once; three event loops share one lock; late verdicts | the stored token can be refreshed, nobody spoils another's refresh, no save, import or probe ends what the operator disabled |
| Registration and mailboxes (`services/register_service.py`, `services/register/mail_provider.py`) | a runner, a thread pool, a table of mailboxes that outlives the process | start, stop, retry failed, reset, import; reserve, mark | sites, mail, the pool, the Grok account store | stale reservations, resets under a job, aliases of one login, stop while jobs run | one job per mailbox, accounts that exist are stored, runs end apart |
| Payment-link queue (`services/register_service.py`, `openai_final_link_service.py`) | jobs, claims, a condition and a stop event per generation, rows shown, links of accounts | start, cancel, clear, queue, claim, attempt, retry, extract | registration, operator's batches, the pool | generations of workers, attempts outside the lock, a save that raises | no job or wakeup lost, rows true, a link is never taken away |
| Proxy egress and clearance (`app/control/proxy/`) | configuration, pool cursor, clearance bundles, one event per fetch | acquire, feedback, reload, warm up, refresh | every transport, FlareSolverr | one fetch for many waiters, cancellation, reload under a fetch | nobody left waiting, one fetch, no clearance lost without a reason |
| Media cache and image storage | files and an index | save, delete, trim | API | size limit under concurrent writers | index equals files |
| Configuration | snapshots | load, update | all | read while replaced | a constant here |
| Storage of the GPT pool, backup, logs | whole files, tables | save, restore | pool | failing writes | no torn file |
| Upstream protocols, Web API, consoles, captcha solver, mail panel | - | encoding, routing, pages, browsers | - | formats | not for a model checker |

The hazards, each at the line where it bites and with the properties that would
catch it, are the `hazards` of `PROJECT.json`.

## 2. Modules

### AccountRepository

The SQLite store as data with transactions: `rows` is the `accounts` table,
`revision` the entry of `meta`.  Each write operation is one action because each
is one committed transaction, and every one gives all the rows it touches the
same revision (`_bump_revision`); `replace_pool` takes two.  A soft-deleted row
keeps a revision, so a scan reports it; a purged one leaves no trace.  Patches
do not look at `deleted_at`, as in the code.  The reads of `scan_changes` are
operators: `ChangedSince` (`WHERE revision > ?`) and `IsBatch`
(`ORDER BY revision LIMIT ?`, ties in any order).  Columns are cut down to pool,
status and soft deletion, which is what the table and the buckets depend on.

### AccountSync, AccountReplica, MCAccountSync

`AccountSync` is one worker that follows the store.  `BootRevision` and
`BootRows` are the two reads of `runtime_snapshot`; `SyncBegin` takes
`_sync_lock` in `sync_if_changed`; `ScanRevision` and `ScanRows` are the two
statements of `scan_changes`; `ApplyChanges` is one batch of `apply_changes`,
which contains no await; `ScanFails` and `Crash` are the store raising and the
process ending.  Other processes write between any two of these.  `seenRev` is a
history variable.  `derive_status` depends on a time, hence the choice `over` of
the cooldowns that have ended.

`AccountReplica` is the abstract specification: each token of the store has a
version, the view of it follows, never goes back, and gets there in the end.
`AccountSync` implements it with `version` the revisions of the rows and `view`
the revisions the slots were built from (`ReplicaSpec`).

### AccountDirectory, MCAccountDirectory

The hot path of a worker.  The critical sections of `AccountDirectory` contain
no await, so reserving, and releasing together with the feedback that follows
it, are one step each.  A request is a small program: `Begin`, `Reserve` over
the candidates in order, `NoAccount` (with `RefreshOnDemand` and one more try
under the quota strategy), `StreamStarts` for the products that reserve before
their generator starts, `SetupFails`, `Abandon`, and `Finish` with the outcome
and, for chat, the next attempt with the account excluded.  `SyncRow` and
`SyncDeletion` are what `apply_changes` does to a slot; which rows come, and in
what order, is the business of `AccountSync`, here they are any of `StoreRows`.
The score (health, recency) orders the accounts that pass the filters; the
module lets any of them be taken.  Quotas, resets and cooldowns are small data:
times are "not yet" or "over".

The strategy is a variable: `reconcile_refresh_runtime`
(`app/control/account/runtime.py`) switches it in a running worker when the
configuration changes (`SetStrategy`), although the docstring of `set_strategy`
says it is called once by the lifespan.  Image requests are chosen without a
look at the cap; `ConcurrencyCap` is about all others.

### AccountUsage

The stored record of one *basic* account and all who rewrite it.  Each writer
that reads, awaits and writes is two actions with the copy in between
(`UseRead`/`UseWrite`, `FetchRead`/`FetchWrite`, `RecoverRead`/`RecoverClear`/
`RecoverFollow`); the sweep `reset_expired_console_windows`, a 401, the
operator's toggle (`Disable`, `Restore`) and the operator's uploads are one
transaction.  `Upsert` is `upsert_accounts` on a token the store has, where an
edit of the pool, a save of the table and `replace_pool` end: it makes the
account active whatever it was, with a fresh console window and the reason it
had.  `barred` is a history variable: disabled by the operator, and since then
neither restored nor uploaded.  Times are ticks that remain, in the
record and in the copies, so that they need no clock.  The modes with an
upstream quota, and the console windows with a real source, are left out: what
is asked of the upstream overwrites them.  An edit that gives the account
another token makes another record and deletes this one; it is left out
(`tokens.py:433`).

### ImageSlots, SlotPool

Image threads on the GPT pool.  Everything under `_lock` of `account_service` is
one action, upstream calls are between actions.  `Rotated` is
`_apply_refreshed_tokens`: the entry and its slot count move to the new token
and an alias stays behind; `Resolve` is where `_resolve_access_token_locked`
ends when it follows the aliases, stated without recursion: the one of the names
it passes through (`Names`) at which it stops.  `Top`, `Acquire`, `NoCandidate`,
`PreflightRotates`/`Resolves`/`Passes`/`Fails`, `Drop`, `Finish`, `Mark`,
`Blame`, `FallbackRetry` and `CancelAtTop` are the loop of
`_generate_single_image` with `get_available_access_token` inside it.  A
preflight goes on with the token the account has now, rotated by itself or by
another (`PreflightResolves`), and a refused token is no account's fault when
another has rotated it (`Blame`).  `Environment` is everyone else: the operator,
the watchers, imports and rotations by requests that are not for images.
`mishaps` is a history variable for the two events after which slots are not
exact: an import of a token that was rotated away or that a request still
answers to, and a cancellation between a failed attempt and its retry over the
fallback proxy (`conversation.py:1889`).

`SlotPool` is the abstract specification, of clients and accounts without
aliases, counts or statuses: a client takes a slot of an account with fewer than
the limit and gives it back; a rename of the account takes the slots along, and
only its removal ends them.  `ImageSlots` implements it until a mishap
(`PoolSpec`), with the slot of a request found as its release would find it
(`Slot`).  That the release is right, the count is right and the cap holds are
one question there: which account is this the slot of?

### SurvivalLease

The processes that poll the survival of the GPT accounts share one row of an
SQLite file.  `Claim`, `Renew` and `Release` are the three transactions of
`_claim_run`, `_renew_run` and `_release_run`; `RunNow` (`run_now`) starts a run
by the scheduler (`Scheduled`, which is fair) or by the operator.  A run renews
as each probe ends (`ProbeEnds`) and ignores whether that succeeded, as the code
does.  `Raises` is a statement that raises, the release included, which leaves
the row behind.  A process takes a new name when it starts, so the lease of one
that ended is `Former`'s.  `silent` is a history variable: the ticks since the
run last claimed or renewed.  What a probe finds and writes to the account is
left out.

### CheckoutQueue, MCCheckoutQueue

The queue that keeps asking for a payment link for saved accounts.  What
`register_service` does under `_lock` is one action.  A *generation* is what
`_ensure_checkout_queue_locked` makes when a stopped queue is opened again: a
new stop event, condition and workers (`Reopen`), while workers of the one
before finish what they do.  A worker goes `Sleep`, `Claim`, `Begin`,
`ShowRunning`, `EnterFlow` (the lock of the access token), `FlowEnds`, then either
`Report`/`ShowEnd`/`RemoveJob` or `ShowRetrying`, and `Release`; `MarkRaises` is
a save of the pool that raises and ends the thread.  `Register...` are the steps
of a registration that extracts a link itself and writes the row once more
afterwards, `Batch...` those of the operator's batch, `DirectExtract` the
endpoint that extracts beside the queue.  The times of retries are the order of
the jobs.

Of an account matters whether it has a link, and its access token.  Whatever
refreshes the token, the extraction itself included, rotates it (`Rotate`); the
pool finds the account by the older ones, but the queue and the lock compare
tokens.  So a token is a number per account: `token` is the one it has,
`carried` the one a task was made with (`SameToken`, `Accepted`, `BatchChecks`),
`key` and `own` the ones a worker and a registration resolved for their
extraction (`Locked`).

The table of rows keeps the last `MaxRows`, whatever they say.  `Rows` writes
some and leaves open which others are cut (the code cuts the oldest), so what
holds of the model holds of the code's order.  `cut` is a history variable: the
tasks whose row was lost that way, until it is written again.

### ImageTasks

Tasks with the file they survive in.  `Save` is `_save_locked` with all that can
become of it: the file is replaced or, where `os.replace` fails
(`Replaces = FALSE`), written in place; the backup follows; the write may raise
(`SaveRaises`), be cut short by the end of the process (`SaveCrashes`), or lose
only the backup.  `Read` is the load with its fallback to the backup.
`SubmitKnown`, `SubmitNew`, `Resume`, `List` and `Expire` are the requests, and
`Keep` the cleanup every one of them begins with.  `RunStarts`, `HandlerCalled`,
`Progress`, `Succeed`, `Fail`, `Caught` are a thread.  `Start` reads the file and
decides on each unfinished task (`Recovered`).  Editable-file tasks repeat the
protocol without cleanup and resuming.

### ProxyClearance, MCProxyClearance

The directory runs on one event loop, and no `async with self._lock` awaits in
its body, so a step lasts until the next wait: for another's event, or for
FlareSolverr.  `Acquire` loads the configuration if it changed (`Load`), picks a
node under the cursor and asks for the bundle (`Ask`); `Retry` is a waiter that
was woken, `Solved` the end of a fetch, `Cancel` a client that leaves, `Feedback`
what a request reports.  `Begin`, `Warm`, `Refresh`, `Sleep` are the scheduler,
which refreshes without an event.  `stray` is a history variable: the keys whose
event a load forgot while the fetch went on.

### Registration, MCRegistration

A run of registrations and the mailboxes they use.  The runner (`Look`,
`Submit`, `Collect`, `Abandon`, `Release`) is `_run`; a job (`Begin`, `Claim`,
`Create`, `Succeed`, `Keep`, `LoseSession`, `Known`, `Fail`, `Refused`, `Blame`,
`GiveUp`) is a worker of either target with the mailbox it reserves.  `row` is
the database of mailboxes: it outlives `Crash`; a reservation carries its
job as lease, grows stale (`GrowStale`), and is reset (`ResetPool`), overwritten
by an alias of the same login (`Blame`) or by an import (`ImportCredential`).
The target is chosen once: Grok accounts are stored by the runner as results are
collected, OpenAI's by the worker itself (`Keep`).  `RetryFailed` may take any
failed row; the code takes those of the list the operator sees.  `forced` is a
history variable: reservations given up while their job relied on them.

### XaiOAuth, MCXaiOAuth

One stored account and those who use its credential.  Every access to the store
is one step under its lock; what lies between two is an await.  The access token
is good or not; refresh tokens are numbered, and the upstream takes each once
(`live`).  `Ensures`, `Lock`, `Block`, `Wake`, `Current` are
`_ensure_access_token` with the lock as `asyncio.Lock` behaves, but for one
thing: it is not made for threads, and its acquire and release are taken as
atomic between them.  It is bound to
the loop of the first task that waited; in another loop a contended acquire
raises (`Block`), and a worker whose loop has nothing else to do is not woken
when the lock is released from another thread (`Wake` excludes it: the job
never ends).  `Rotate`/`Save` are the exchange and the storing of its answer, with
`Refuse`, `Fail`, `LoseAnswer` and `Cancel` between.  `Post` and `Concludes` are
requests, tests, imports and batches; `Write` is the late write of a batch.
`Start`, `Take`, `SetUp`, `Authorize`, `JobFails`, `Adopt`, `Judge` are the
authorization jobs and the worker that may make a failed one pending again.
`spoiled`, `overtaken`, `retried` are history variables.  A single probe is left
out: an import contains one, and a batch is one that writes later.  What raises
in a job before its `try` (`xai_cli_oauth_service.py:763-796`: the configuration,
the proxy, the protocol object) ends the worker thread and leaves the job
pending, so that no other is started for the account until a restart; in the
module this is a worker that takes no further step, and no thread replaces it.

## 3. Runs and bounds

| Run | Instance | Shows |
|---|---|---|
| `AccountSync` | 2 tokens, 2 pools, 4 revisions, one row per write, batches of 1, the loop and an administrator, 1 fault, fairness | `SyncInv` (the inductive invariant, with `NoLostChange` in it), the refinement `ReplicaSpec`, and `RemovalReachesTable`, when every scan needs several batches |
| `AccountSyncSplit` | 3 tokens, bulks of 2, batches of 2 | finding 1 |
| `AccountDirectory` | 1 token, 3 requests of every kind, caps 2 and 1, 1 retry, one abandoned stream, strategy switched | `InflightCounts`, `ModeIndexExact`, `ConcurrencyCap` |
| `AccountUsage` | 2 calls, 2 recovery loops, quota 3, threshold 1, window of one tick, 1 restart, legacy records, toggles and uploads at any time | `UsageInv` (inductive), `UnmarkedStays`, `ExhaustedRefilled` |
| `AccountUsageRecover` | the same | finding 2 |
| `ImageSlots` | 3 tokens of which one is in the pool, 2 requests, cap 1, fallback, 3 changes, imports | `SlotsInv` (with the cap, `ConcurrencyRespected`), the refinement `PoolSpec` (`SlotPool`), `WaiterServed` |
| `SurvivalLease` | 2 processes, a lease of 2 ticks, up to 2 probes, 2 faults | `PunctualAlone`, `LeaseKept`, `OrphanTakenOver` |
| `CheckoutQueue` | 2 tasks (one of a registration) for one account, whose token is rotated once, or for two; 2 generations of one worker, a table of 1 row, 1 save that raises | `QueueInv`, `NoLostWakeup`, `JobsShown`, `LinkKept`, `QueuedAttempted`, `StoppedDrains` |
| `ImageTasks` | 2 tasks, 2 threads, 2 crashes, a file written in place, one write that goes wrong | `TasksInv`, `WriteThrough`, `AtMostOnce`, `SuccessKept`, `TaskEnds` |
| `ProxyClearance` | 2 requests and the scheduler, 2 nodes, 1 host, 3 calls, 2 changes of the configuration | `ProxyInv`, `OneFlight`, `BundleKept`, `AcquireReturns` |
| `Registration` | 2 jobs, 2 threads, 2 attempts, a mailbox and its alias, either target, 2 runs (1 for OpenAI), 1 reset, import or crash | `RegistrationInv`, `OneHolder`, `ResultKept`, `RunsApart`, `UsedStays`, `RunEnds` |
| `XaiOAuth` | a call, a batch and a worker, each in a loop of its own, 2 jobs of 2 attempts, 3 refresh tokens, 1 event | `XaiInv`, `RefusalEarned`, `OneJob`, `DisabledKept` |

The passing runs have between 9,585 (`SurvivalLease`) and 2,171,996 (`XaiOAuth`)
distinct states.

The bounds, and why the interesting cases fit under them:

* `MaxRevision` and `MaxBulk` bound the writes.  Four revisions let a token be
  imported, changed, deleted and imported again while a scan of two batches is
  under way.  Batches of one or two stand for 5000.
* `MaxFaults`, `MaxCrashes`, `MaxAbandoned` bound rare events: the properties
  are about single rows and slots, one fault at any point meets all of them.
* `ConsoleLimit`, `Threshold`, `Window` stand for 20 calls, 12 and an hour (the
  basic console window of 3600 seconds); what matters is that the threshold lies
  strictly between nothing and all.
* `MaxInflight` is 1 or 2 for 8 and 12, below the number of requests, so the cap
  is reached; `MaxFails` is 2 for 5.
* `MaxChanges` bounds, together, what the operator, the watchers and the
  upstream do to the GPT pool and the refusals that start an image over.  Three
  suffice for a rotation, a second rotation or a removal, and an import.
* `TTL` is two ticks for an hour: a run can be late by a part of its lease and
  by all of it.  Two faults suffice for a crash of the holder and a release that
  raises.
* `ThreadCap` is 1 because two workers of *different* generations already meet
  over one job, one condition and one account; a second of the same generation
  adds no new pair of steps that the lock of the token does not exclude, or that
  two generations with two tokens do not have.
* `MaxRows` is 1 for 300: with two tasks every row that is added cuts the other,
  and the one cut may be of a job that is queued, claimed or ended.  `MaxTokens`
  lets the token of one account be rotated once, at any moment; the two tasks of
  that account then carry one token or two.  The tasks of two accounts meet over
  the queue and the table only, so these tokens stay.
* `Total`, `Threads` and `Attempts` of `Registration` are 2: two jobs meet over
  one mailbox, and a job may move to a second one.  `MaxEvents` bounds resets,
  imports and crashes together, `MaxRuns` the runs.
* `MaxTokens` is 3: a refresh and an import, or two refreshes, between which a
  late one may come.  `MaxEvents` of `XaiOAuth` is one expiry, revocation, lost
  answer, cancellation or toggle.

Deadlock is not checked in `ProxyClearance`, `Registration` and `XaiOAuth`:
there nothing is left to do when the bounds on requests, runs and tokens are
used up.

Tokens, and in `AccountDirectory` the requests, are interchangeable and
symmetric in the runs without temporal properties.

### Fairness

* `AccountSync!Fairness`: a worker that is down is started again (the container
  restarts it) and finishes its bootstrap; a caller inside `apply_changes` goes
  on; only the caller `SyncLoop`, the endless loop of `main.py`, must come back.
  Nothing makes writes, the other callers or failures happen.
* `AccountUsage!Fairness`: time passes, the leader's sweep and its two recovery
  loops go on.  No request, fetch, operator or crash is fair.
* `ImageSlots!FairSpec`: each image thread continues: upstream calls have
  timeouts and a waiter looks again each second.  Nothing of the environment is
  fair.  A thread is not owed the retry over the fallback proxy or a rotation.
* `SurvivalLease!Fairness`: time passes, processes are started again, the
  scheduler of a process where the poll is enabled keeps starting runs, and a
  run goes on (its requests have timeouts).  Faults and the operator are not fair.

* `CheckoutQueue!Fairness`: threads go on and delays pass.  Taking the lock of a
  token is strongly fair: it is given back again and again.  So is the end of a
  flow, whose requests have timeouts, however often it reports progress.  The
  operator is not fair, nor is a rotation.
* `ImageTasks!Fairness`: threads go on, a handler and a poll end by their
  timeouts, the container is started again (`restart: unless-stopped`).
* `ProxyClearance!Fairness`: the event loop runs what is ready and FlareSolverr
  answers or times out.
* `Registration!FairSpec`: the runner and the jobs are threads whose calls have
  timeouts.  A stop, a start and a reset are not fair.
* `XaiOAuth` has no liveness property: a worker that waits for the lock may
  sleep for ever.

### Assumptions with names

`RetentionCovers`: the purge removes only what the running worker has synced.
The retention defaults to 7 days and the loop backs off to seconds; a retention
of 0 days breaks it (a hazard in the list).  `SafeBatching`: no bulk is cut by a
batch; finding 1 is what happens without it.

## 4. Findings

1. **A batch that ends inside a bulk write loses rows** (`AccountSyncSplit`;
   `sync.py:154`).  All rows of one bulk write have one revision.  If a full
   batch of 5000 contains only some of them, the table moves to that revision
   and the next scan asks for greater ones.  The rows reach the table only when
   they are written again or the worker restarts.
2. **A recovery puts a disabled account back in service** (`AccountUsageRecover`;
   `refresh.py:815`).  It decides from a snapshot and patches later.

What else was met while modelling.  It is in the modules, and the properties
name it where they would otherwise fail:

* Image requests are chosen without a look at the cap (`selector.py:166`), and
  the strategy may be switched under running requests.
* An edit abandoned before its stream starts keeps its account
  (`images.py:1130`): the release is in a generator that never ran.
* A cancellation before the fallback retry keeps the image slot
  (`conversation.py:1889`).
* A task that timed out cannot be resumed after a restart: the load does not
  read its conversation (`image_task_service.py:645`).
* A checkout row the operator cancelled may be shown as running again by an
  attempt under way (`register_service.py:3640`), and a save that raises ends a
  worker that is replaced only when the next job is queued.
* Two jobs of one account: the queue and the lock of an extraction compare access
  tokens.  After a rotation a batch finds no job with the new token and queues a
  second one, and their flows may run at once, although the comment at
  `register_service.py:3965` says workers never submit the same account's flow
  at once.  `OneJobPerToken` is what holds.
* The table of rows is cut to 300 whatever the rows say
  (`register_service.py:3719`), so a queued job may not be shown.
* Editing a token, saving the table of tokens and replacing a pool put a disabled
  account back in service (`backends/local.py:298`).  It is the operator who does
  it, so `UnmarkedStays` counts it as a decision.
* Two failures on one node advance the pool's cursor twice, with two nodes back
  to the broken one (`control/proxy/__init__.py:211`); a reload forgets the event
  of a fetch that goes on, so a second one may begin beside it.
* Results that arrive in the same wait as a stop are dropped, and a stopped run
  still waits for its threads (`register_service.py:4283`, `:4303`).
* The refresh lock of an xAI account is shared by several event loops: a call in
  another loop fails, a worker may never be woken.  A refresh that was under way
  when an import came stores its older token over the import's
  (`update_tokens` and `_merge_account` compare nothing); both can be refreshed.
  A denial or a refused refresh makes a disabled account invalid, and then the
  next save, import or probe makes it active.  A test of an account that was
  invalid puts it back in service although the operator disabled it meanwhile
  (`xai_cli_oauth_service.py:1298`); an answer that is lost or cancelled after the
  exchange loses the refresh token.

## 5. Proofs

Eight modules hold theorems, all checked by TLAPS; they extend the module or
modules they are about.  Every safety invariant and every action property that a
run checks is the statement of one, for every value of the constants.

**AccountSync_proofs.**  `TypeCorrect` and `IndexAlwaysExact` (`IndexExact`)
hold without assumptions: taking a slot out of the buckets of its old pool and
into those of its new one keeps the index exact whatever batch is applied.
`SyncInvariant` and `SyncSafety` are the main result: with `RetentionCovers` and
`SafeBatching` no change is lost.  `NoLostChange` is not inductive: between
`ScanRows` and `ApplyChanges` the rows move on.  `SyncInv` adds `ChangeSetOK`,
that a pending change set is current or overtaken by a revision *above* the one
the table will take, and that what it omits is seen, later, or purged; it needs
`LockOK` (one caller inside), `RevisionsOK`, `RevisionsDistinct` (with single
rows, a revision belongs to one row, so a batch's highest revision leaves nothing
behind) and `PurgedSeen`.  `ViewSafe` and `Refinement` prove that the worker
implements the safety part of `AccountReplica`, without the two assumptions:
losing a change does not move a table backwards.

**AccountUse_proofs** is about two modules that share no variable.  Of
`AccountDirectory`: `DirectoryInvariant`, and from it
`InflightAlwaysCounts`, `IndexAlwaysExact` and `CapHolds`.  The strengthening is
`LeaseOK` (a lease exactly while opening or running) and `AbsentIdle` (so that a
new slot may start at zero).  The cap is proved of the capped requests alone:
the filter reads a counter that is at least their number.  The count is proved
by the cardinality of the holders growing or shrinking by the one request that
moves.  Of `AccountUsage`: `UsageInvariant`, and from it `UnmarkedSafe`.  That a
low window has its timer is inductive only together with the same of every copy
that may still be written (`TimerRuns`), and that a disabled record stays so
only together with "no loop works on an unmarked record" (`Unmarked`), which an
upload keeps though it leaves the old reason in place.  `UnmarkedSafe` says that
nothing but the operator's own requests, `Restore` and `Upsert`, ends it.

**GptPool_proofs** is about two modules that share no variable.  Of `ImageSlots`:
`SlotsAccounted`, `PoolImplemented` and `ResolutionEnds`.  That slots are counted
is inductive only with what makes a name lead to its account:

* `Acyclic` holds whatever happens: a rotation gives a token never seen, so no
  set of tokens is closed under aliases.  From it follows, without induction,
  that the search for an account ends at exactly one of the names it passes
  (`OneEnd`): the names for which it does not would be closed under aliases.
  That is `ResolutionEnds`, and the same argument (`AlongAliases`) shows where
  every name leads after a rotation, a removal or an import (`RotatedMoves`,
  `DeleteMoves`, `EnvironmentMoves`).
* `Replaced`, as long as no mishap happened: a token that was replaced has no
  account and no count, so nothing stops half way.
* `NamesPaired`: the token a preflight goes on with leads where the one of the
  slot leads, or both lead to accounts that are gone and owe nothing.  Only so
  may `PreflightPasses` release, later, by the new name.
* `Counted` is then `SlotsCounted` with `Users`, the requests by where their
  token leads; each step adds, removes or moves the one request it is about.

`TypeOK` bounds the counts by the limit, as `Available` does; what is proved is
that the images are as many, which gives the cap.

`PoolImplemented` maps every step to one of `SlotPool` or to none: `Rotate`,
`PreflightRotates` and a `Blame` that rotates are `Rename`; `Acquire` is `Take`,
and its guard on the count is the one on the clients because of `Counted`;
`Drop` and `Finish` are `Give`, or nothing when the account is gone; a
`PreflightResolves` is nothing, since a name and the token it resolves to lead
to one account (`ResolveMoves`); a removal
is `Close`, an import without a mishap `Open`, and needs that no request's name
leads to the token (`AddLeads`).  The step that looks as if it moved a slot,
`PreflightPasses`, which replaces the token the slot was acquired with, is none:
`NamesPaired` says that both lead to one account or to none.  Of `SurvivalLease`:
`LeaseInvariant`, and from it `PunctualSafe` and `LeaseSafe`, the latter an
action property.  That two punctual runs are one is not inductive;
`PunctualHolds` says more: a punctual run *has* the lease, and what is left of
it is the TTL less its silence, so a claim, which wants the row absent or
lapsed, can only come where no run is punctual.

**CheckoutQueue_proofs.**  `ClaimsExclusive` (`QueueInv`), `WakeupsKept`,
`QueuedJobsShown` and `LinksKept`, from one inductive invariant.  A claim is
exclusive because the claimed jobs are in `inFlight` and a stop empties the
queue, so a busy worker whose job is gone can give nothing back; an access token
has one job since a task's token is not changed while it waits (an account may
have two, one per token it had); a wakeup is not
lost because a generation's workers wait only while its event is not set, and
whatever adds a job wakes them in the same step.  A job is shown as active, unless
its row was cut, since only its own worker ends its row, between `ShowEnd` and
`RemoveJob`, and what takes a row away without ending it is recorded in `cut`.

**ImageTasks_proofs.**  `TasksExclusive`, `ShownIsStored`, `HandlerOnce` and
`SuccessSurvives`.
`AtMostOnce` needs to know where every task's run stands in memory, in the file
*and* in the backup: a task that has run is recorded as at least started in
whichever of the two a restart would read.  That is `WriteThrough` with the case
of the torn file spelled out.  `SuccessKept` needs `Shown`: what was answered as
a success is one in the memory *and* in the file, and a thread in its except
clause has not set its task to success before, or its exception would turn a
success that was shown into an error.

**Registration_proofs.**  `JobsAccounted`, `MailboxExclusive`, `AccountsKept`,
`RunsNeverOverlap` and `UsedForGood`, the last an action property.  A run's
sum is kept by `Counted` (what was submitted and not collected is in `futures`,
and a run that drains without a stop has nothing left); an account is kept by
`Equipped` (a job that stores its account itself has stored it, and every job
past its claim has a mailbox); and two jobs never hold one mailbox because of
`Leased`: the row of a mailbox that a job holds carries the lease of that job,
or the mailbox is `forced`, and only one lease fits in a row.

**ProxyClearance_proofs.**  `NoWaiterLost` (`ProxyInv`), `FetchesSingle` and
`ClearanceKept`.  An event in the table belongs to a fetch of that key
(`EventsLive`), a waiter waits for one (`NobodyStranded`), and a fetch has its
event in the table or its key is `stray` (`Listed`), from which one fetch at a
time follows.

**XaiOAuth_proofs.**  `TokenSafe` (`XaiInv`), `RefusalsEarned` and `JobsSingle`,
from one inductive invariant, and `DisabledStaysOut`, an action property: of all
steps only the three `DisabledKept` names take an account out of the disabled
status, and no save, import or probe is one.  It does not say that a disabled
account stays out of service: one that became invalid may come back.  The
chain of tokens rests on the queue of the lock: since the lock is held exactly
during an exchange and nobody waits twice (`Distinct`), a task that reads the
account under the lock finds no other between the exchange and the store, so the
token it reads is one the upstream takes.  An import goes past the lock,
which is why it marks the exchanges it meets (`overtaken`).  `JobsOK` says that a
job has one worker, whose position tells the job's status.  Nothing is assumed of
the number of tasks, tokens or events.

TLC checks the invariants first: `SyncInv`, `UsageInv`, `QueueInv`, `TasksInv` and
`ProxyInv` as such in the runs named after the modules, the others through the
properties that follow from them.  The proofs assume of the constants what the
modules' `ASSUME`s state and nothing else, but for the two named assumptions of
`SyncInvariant`.

Only model-checked: the liveness properties (`RemovalReachesTable`,
`ExhaustedRefilled`, `WaiterServed`, `OrphanTakenOver`, `QueuedAttempted`,
`StoppedDrains`, `TaskEnds`, `AcquireReturns`, `RunEnds`) and the fairness part
of `ReplicaSpec`.  They rest on fairness and `ENABLED`, which are beyond the
prover.

## 6. What is not modelled, and the plan

Left out of the modelled parts: listing and paging, the encoding of rows, the
scores of the selector, the modes with upstream quotas, text requests of the GPT
pool and its health bookkeeping, the limit of 20 attempts in
`get_available_access_token` (the pools of the instance are smaller, so the
limit is never reached; in a larger pool 20 exhausted accounts hide the others),
the replacement of a token by the operator in two transactions
(`tokens.py:421` and `:433`: between them, and for good after a crash, the new
token of a disabled account is active), the media nodes of the proxy
directory, registrations that ask the pool for its size, and payloads of every
kind.

Of `Registration`, three details: the stop check before a mailbox is claimed
(`mail_provider.py:3905`) and the claim are one step, so a stop between the two,
after which the code claims all the same, is one that comes right after; the
cooldown of a provider whose creations failed (`mail_provider.py:3846`) only makes
later attempts fail sooner, as any attempt may; and storing a Grok account cannot
fail, while in the code a persist that raises is counted as a failure and loses
the account (`register_service.py:4298`).

Most of the repository by size is protocol code: the dialogues with payment
pages, mail providers, sign-up pages and the upstreams (`checkout_protocol/`,
`register/`, `openai_backend_api.py`, `app/dataplane/reverse/`).  It keeps no
state that others share; what it answers is an input of the modules, with every
outcome that its callers tell apart.  `PROJECT.json` lists the components not
modelled and why.

Done: the modules and proofs above.  Next, by how much depends on each:

1. `RedisRepository`: the three commands of a write, in place of the atomic
   writes of `AccountRepository` under `AccountSync`.
2. The media cache: index, files and size limit under a file lock.
3. Several xAI accounts: selection among them, deletion, delivery.
