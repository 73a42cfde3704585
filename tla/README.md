# A TLA+ development for Remembra

Remembra is a memory server for AI agents, in TypeScript: agents store, search,
update and forget memories over MCP or HTTP; the memories live in SQLite or in
Markdown files. Around that core it has durable background jobs, leases between
processes, an idempotency ledger for batches, operator commands that replace the
data, a coordinated shutdown, limits and tenants at its edge, and webhooks that leave
it. This development models the parts in which several processes, crashes, timers and
awaits meet: nearly all of them.

Paths below are relative to the repository; `job-store.ts:365` means line 365 of
`src/job-store.ts`. `PROJECT.json` maps every definition to the lines it models.

## 1. Inventory

### Components, their state and their operations

| Component | State | Operations | Talks to |
|---|---|---|---|
| durable job ledger (`job-store.ts`) | a table of jobs: state, attempt, lease owner and expiry, run-after | enqueue, claim, complete, fail, renew, reclaimExpired, prune | workers and schedulers of every process, through one SQLite file |
| durable worker (`durable-worker.ts`) | jobs in flight, renewal timers, the polling loop | start, pump, run, renew, stop | the ledger; its handlers |
| maintenance scheduler (`index.ts` 750-800) | the interval last served | tick: read the counts, insert | the ledger |
| locks (`lock.ts`, `redis.ts`) | a lease per key, in memory, in a file or in Redis | acquire, renew, release, isHeld, sweep | whoever needs a singleton |
| job queue (`job-queue.ts`) | queue, running set, waiters, closed flag | enqueue, pump, execute with retries, drain, shutdown | the service's background work |
| shutdown (`shutdown.ts`, `index.ts`) | ordered phases under one deadline | run, skip, time out, force | HTTP server, workers, webhooks, queue, storage |
| batch ledger (`batch-idempotency-store.ts`) | claims by key, gate flag, marker file | claim, complete, abandon, beginRestore, completeRestore, invalidate | every server process and operator command |
| data commands (`index.ts`, `sqlite-recovery.ts`, `migration-state.ts`) | the database file, the migration state file | restore, migrate apply, recover verify | the batch ledger |
| recovery state (`recovery-state*.ts`, `service.ts`) | Healthy, Degraded, ReadOnly, Failed, Recovering; in memory and in a file | probe, enterReadOnly, verifyRecovery | every write |
| memory service (`service.ts`) | caches, recovery state | store, update, forget, search, batch, decay | a backend, providers, webhooks |
| file backend (`store.ts`, `snapshot-import-recovery.ts`) | two trees of files, `.remembra.lock`, history, the journal of an import | store, update, archive, revive, forget, import, recover | the file system |
| SQLite backend (`sqlite-backend.ts`) | tables of memories, history and audit, a full-text index | the same contract, the takeover of a tree of files | SQLite |
| restore (`sqlite-recovery.ts`) | the database, its previous copy, a staged copy, a journal | back up, restore, reconcile at start | the data commands |
| migration (`tenant-migration*.ts`, `migration-state.ts`) | a signed plan, a destination, a state file with checkpoints | plan, verify, apply, resume, publish | the data commands |
| providers (`provider.ts`) | the attempts of one call | fetch with retries, timeout, budget, cancellation | remote models |
| webhooks (`webhooks.ts`) | an outbox of deliveries | enqueue, drain, retry, dead-letter | subscribers |
| rate limiter, quota, shared state | counters per window, local or in Redis | take, reserve, release | the HTTP transport |
| tenants, authorization, v6 policy, lifecycle, audit | directory versions, policies, memory states, a hash chain | decide, transition, append | every request |
| retrieval, context, consolidation | none that lasts | rank, fuse, pack into a budget | the backend |
| transports, SDK, Python client, UI | sessions, retries | map calls to the service | users |

Which of these are modelled, partly modelled or not modelled, and why, is in
`PROJECT.json` under `components`.

### What is hard here

* Several processes share one SQLite file, one directory or one Redis; between any
  two of their statements the others run. Inside a process every `await` is such a
  point.
* Leases run out while their holder still works. Whether the late holder can hurt
  anybody depends on what each statement checks.
* Processes die between two statements or between two file operations, and operator
  commands die half-way through replacing the data.
* A timer and the event it bounds can fire in the same turn; a phase or a handler
  that has timed out goes on running.
* Clients retry. The same request may run on two servers, before, during and after
  a restore.

`PROJECT.json` lists each such place, with its line, under `hazards`.

### What makes each component correct

* Ledger: a row is leased exactly while it runs; attempts stay within the budget;
  a settled job stays settled; both stores implement the same lifecycle.
* Worker: one handler per job while renewals are on time, one commit per completed
  job in any case, no lease that nobody knows of. That every job is settled is refuted.
* Scheduler: bounded backlog, one job per scheduler and interval, no lasting stop unless
  a lease that has run out is left behind.
* Locks: one owner at a time, lost is lost until the owner takes the lease again, release
  takes from no other owner, acquire ends, dead holders block nobody.
* Queue and shutdown: no lost wake-up, one result per job, drains return, storage
  closed last, an honest exit code, an end within the budget.
* Batches and data commands: at most one application per key, no stale replay, no
  batch while the data is replaced, no half of a migration served, one ledger however
  many processes open it first.
* Backends: what was acknowledged is there or in the history; an id is in one tree; a
  version is written once; a takeover, a restore and an import are whole or undone.
* Memory service: a vector belongs to its text, digests do not repeat each other, a walk
  through the pages misses nothing, a search leaves out only what it represents, an
  import that succeeded has restored its snapshot.
* Edge: no budget is exceeded, no slot is lost, no context outlives the directory it was
  minted from, the evaluators agree, nothing is destroyed before its time, a reader of
  the audit log can tell when something is missing.
* Clients, providers, webhooks: an item is written once however often it is sent, a call
  ends within its budget, a subscriber is called a bounded number of times.

## 2. Modules

| Module | Models |
|---|---|
| `JobLifecycle` | what a JobStore promises: the abstract specification |
| `JobLedger` | SqliteJobStore, one action per statement; and the store over a Map, whose `renew()` differs |
| `DurableWorker`, `Scheduler` | worker and scheduler processes on the ledger |
| `LeaseContract` | what a LockProvider promises about a key |
| `InProcessLock`, `RedisLock`, `FileLock` | the three providers; the file one call by call |
| `JobQueue`, `Shutdown`, `ServerProcess` | the in-process queue, the coordinator with the phases of `index.ts`, and their composition |
| `BatchLedger`, `DataGate` | the claims and the gate; servers running keyed batches beside an operator running commands |
| `LedgerStart` | processes that open, create or upgrade the batch ledger at the same time |
| `RecoveryState` | the recovery state in every process and in its file |
| `MigrationPlan` | a migration from snapshot and plan to success, in the service or by the command |
| `MigrationRun` | a migration record by record, with its checkpoints and state file |
| `FileStore` | the file backend, file operation by file operation |
| `SqliteBackend` | the SQLite backend, statement by statement, in several processes |
| `SqliteRestore` | backup, restore and reconciliation, rename by rename |
| `MemoryService` | the calls of the service that await a provider or the backend |
| `Retrieval` | a search: filters, supersession, collapse, limits, expansion |
| `Paging` | a walk through `list()` with its cursor |
| `AgentMemories` | agent mode: who sees and writes what, references, export and import |
| `SdkBatch` | the client's batches with their retries, against the server's ledger |
| `ProviderFetch` | one call of a provider |
| `Webhooks` | the outbox and the drains of several processes |
| `RateLimits` | limiter and quota, in the process and in Redis |
| `HttpServer` | requests from arrival to answer |
| `Tenants` | the directory, its file, the entity service, contexts |
| `GuardedService`, `Lifecycle`, `PolicyAudit` | the v6 policy, lifecycle and audit modules |
| `JobLedgerProofs` | theorems about the ledger |
| `DurableWorkerProofs` | theorems about those who use it: `DurableWorker`, `Scheduler` |
| `ServerProcessProofs` | theorems about a process that shuts down, with its job queue, and about the leases of `InProcessLock` and `RedisLock` |
| `DataGateProofs` | theorems about what servers and operators share: `DataGate`, `RecoveryState`, `LedgerStart`, `MigrationRun`, `MigrationPlan` |
| `FileStoreProofs` | theorems about the file backend |
| `SqliteBackendProofs` | theorems about the SQLite backend and its restore |
| `ServiceProofs` | theorems about the service and its clients: `MemoryService`, `AgentMemories`, `Paging`, `SdkBatch`, `ProviderFetch`, `Webhooks`, `Retrieval` |
| `EdgeProofs` | theorems about the edge: `RateLimits`, `HttpServer`, `Tenants`, `GuardedService`, `Lifecycle`, `PolicyAudit` |
| `MCLocks`, `MCDataGate`, `MCStorage`, `MCService`, `MCEdge` | the instances of several components |

An MC module that holds several components picks one of them in its initial state
(`part`, `backend`): they share no state, and side by side they would only multiply. It
EXTENDS the components, whose variables and actions therefore bear names of their own
(`MemNext`, `RedisNext`, `restoreJournal`, ...), and the components not picked stay in an
initial state. Only `FileLock` is an `INSTANCE`, in `MCLocks`. A module of proofs EXTENDS
its components in the same way, so that the theorems name the very definitions that the
runs check.
Elsewhere a configuration instantiates the module itself; the functions that a `.cfg`
cannot write down stand at the end of `JobLedger` (`ServesMost`, `TwoThenOne`, ...).

**Ledger.** `jobs[j]` is the row of job `j`. Timestamps are replaced by what is left
of them (`lease`, `delay`) or gone since (`age`), and `Tick` ages all rows by a
millisecond; only differences of times are ever compared by the code. `claim` picks
the oldest claimable row (`Precedes`); `complete` and `fail` check the owner and not
the lease, as the code does. `issued` and `stamp` give enqueue order.

**Worker.** `runs` is the set of handlers that execute, each with its attempt and its
renewal timer; it may outlive the lease, the worker's `inFlight` entry and `stop()`.
Statements may throw (`StoreErrors`). The history variables `commits`, `smooth` and
`cut` record which runs were told that their work counts, whether every renewal so far
was on time, and whether `stop()` gave up a lease under a running handler. `Sweeper` says
whether the host calls `reclaimExpired()`; nothing in the program does.

**Scheduler.** A tick is two steps, as there is an `await` between the counts and the
insert. The interval number only matters as "differs from the one last served". A worker
whose window is full (`HasRoom`) neither takes nor ends a job, because its event loop is never
free again.

**Locks.** In the in-process and the Redis provider each call is one step. Redis
replies may be lost. `OwnerOf` gives each call the owner it passes, and calls may share one:
whoever passes none gets that of its process (`lock.ts:225`). `LeaseContract` is about owners
therefore: the good handles at a time belong to one, and a handle that has been lost (`spent`)
is good again only when its own owner takes the lease once more. The definitions of the
in-process provider begin with `Mem`, those of Redis with `Redis`; `LeasesKeepContract` says of
both that they implement `LeaseContract` and that a release takes a lease from no other owner. In the file provider each system call is a step; a write goes to
the file that was opened even if it has been unlinked since (`linked`).

**Queue and shutdown.** A handler's end, the settling of its job and the `finally`
callback that frees the slot are separate turns of the event loop. A phase that timed
out is recorded in `status` and still in `active`; `Detached` is the work that a phase
starts with `void`.

**Batches and data commands.** A row of `claims` carries the call that made it, so that
a replay can be compared with the data: `landed` is the set of calls whose writes the
present data may hold, `effect` those that may have written since the ledger was last
invalidated. The gate is a flag in the database (`pending`) and a file (`marker`),
written and removed one after the other. A command is at a step `cli` and can die at
each; `purpose` is what the gate it sets, or finds set, is for. The write of the marker may
fail and leave nothing, a torn file or a whole one (`TornMarker`), and what takes the flag back
does not look for it (`RevertRestore`). `stray` remembers that a marker was left in this way,
until a `completeRestore()` that finds no keyed batch running has put flag, file and claims right. `LedgerStart` has the key file, the identity file, the staging files and the
database as separate files, linked or created one call at a time, and an upgrade of an
old ledger; a start may die anywhere or give up waiting. `MigrationRun` counts as the
state file does (`imported`, `skipped`, `processed`), saves at checkpoints, and has
others edit the destination (`late` marks the records they have touched). `MigrationPlan`
has what comes before the first record: the plan, `signed`, keeps the snapshot it was made `of`, and a
new export, another operator or another plan may come between any two steps. The digest
of a plan file compares the whole snapshot, `migrateSnapshot()` only ids and texts (type
and scope stand with the text), so the references of a host's plan are those of the plan.

**Recovery state.** `durable` is the file, `local[p]` the belief of a process; a probe
reads, looks at storage and writes its conclusion in separate steps. `frozen` says that
the operator was told the deployment is read-only, `raced` that a probe which began
before the command has written after it.

**File backend.** `disk[id][place]` is the file of an id in a tree and a scope; a call is
at a label `pc[p]` between two file operations, inside `.remembra.lock`. The lock can be
stolen when it is seen as stale (`SeeStale`: by age, by a dead process, or because it is gone
or unreadable when it is looked at, so at any time), and a live holder that is robbed is then
`breached`. A process
may die at any label; the next one to be used recovers first (`EnsureRecovered`): the
journal of an import, then ids found in both trees. A file operation may fail as well: the call
then rejects and what it has done stays (`Fail`), except where the code swallows the failure,
which is the old file of an update (`LeaveOld`), the files of an import that is undone (`Undo`)
and the copy that recovery drops (`Reconcile`). `kept` are the texts that callers
were told are stored, and `brought` the ids that only an import has written so far.
`wound` marks the ids of which a death or a failure has left two copies: `twin` where recovery
will choose between them, `lost` where the code knows no repair, which is after an
interrupted move between scopes, an old file that update() could not remove, an import cut
short, or a change made to one of two copies before anybody recovered, if recovery may then
keep the other one (`Spoils`: the archived copy is written, or the active one in a millisecond
no later than that of the archived one).

**SQLite backend.** A statement is a step: `update()` is a read, a snapshot, a prune, a
compare-and-swap and an index update; `forget()` is four deletions. `files` are those of
the legacy tree that `maybeMigrate()` takes over; it may pass over any of them (a scope too
deep for the walk, a file that cannot be parsed, an insert that fails), and `skipped` are those.
`acked` records which version each
caller was told it had written.

**Restore.** `target`, `rollback`, `temp` are the three names, `restoreJournal` the journal with
its phase; I/O faults (at most `MaxErrors`) may hit any step, those of the error handler
included, a death too. `stranded` says that a restore has failed and then failed to move the
previous database back. `old` is the database
that a restore promised to keep and `told` the one it reported.

**Memory service.** A call is at a label between two awaits and holds the copy it has
read. The provider's answer comes at the label `VectorLands`, the save is the step after.
The backend is one atomic map, with compare-and-swap on the version as both backends
have it; `workload` restricts the calls of a behaviour to those that can meet. `origin` are
the memories that a digest has stored and that still say so: a memory leaves it when it is
revived, rewritten with another text, brought out of the archive by a stale copy, or
forgotten, because an update may well make it say what another one says. The near-duplicate
comparison of `doDigest()` is equality here, of the item with what was active when the digest
began and with what was archived.

**Retrieval** works on sets and on ranks. A ranking is by id, and any injective ranking where
similarity decides, because scores are floats; a pass returns a set, since the order of an
answer only decides what is cut off. `dedupeResults()` compares the first
`max(limit * 10, 100)` of a ranking and lets the rest through: an answer is promised to be
free of duplicates only if the pool is no larger than that (`query.window`). What represents a
suppressed memory is a least fixpoint (`Reached`), written as the intersection of all closed
sets. **Paging** and **Webhooks** are as in the code, with a clock; `given` counts how often a
walk has given each id. In **Webhooks** the count and the
insert of an enqueue are one step, and rows are readable to whoever drains them.

**Agents.** `rows` is the store, `snapshot` an export, `import` a batch that was checked and
has not landed yet; other calls run in between. `seen` and `used` are the ids that were
in the store and those that have ever been taken.

**SDK and providers.** `SdkBatch` has the client's attempts, the server's handling of each
of them (which may outlive the client's patience) and the claim in the ledger.
`ProviderFetch` has one timer for the attempt, one deadline and a caller who may cancel.

**Edge.** `RateLimits` has a request decide over all its dimensions and charge, serialised
by `tail` in the process or by one script in Redis, whose requests may be delayed.
`HttpServer` has an answer (`response`) apart from a handler (`handler`), since a timeout sends
the one and does not end the other; `shared` is what the process believes of the shared
limiter store. `Tenants` keeps directory, file and the snapshot to fall back to
(`before`), and the contexts that hosts keep. `GuardedService` has both evaluators, the retrieval
predicate and the candidate filter as operators, and the calls of the guarded service
with the await between fetch and write. A patch is any part of a row (`IsPatch`), the
organization, the hold and the id included; `by` and `named` record who has written a row and
which of these three the write named.

## 3. Runs

Each runs with two TLC workers in well below five minutes.

| Run | Question | Instance |
|---|---|---|
| `ledger` | do row, lease and attempts agree, and is the lifecycle implemented? | 3 jobs with budgets 2, 0, 1; 2 workers with different filters; leases of 2 ms, delays 0 and 1 |
| `worker` | what may be relied on when renewals are late, statements throw, workers stop and die? | 2 workers, 2 jobs (2 attempts and 1), window of 2, leases of 2 ms renewed every ms |
| `scheduler` | is maintenance bounded, and does it go on? | 2 schedulers, 2 workers (one mortal), 3 jobs, a window of 2 |
| `locks` | do the providers keep the contract, does everybody get an answer? | 3 handles, 2 of which share an owner (2 processes for files), leases of 2 ms, waits of 1 ms, 3 spins |
| `process` | no lost wake-up, results settled once, an orderly and honest end? | 3 jobs, one of which hangs, one slot, a queue of one, 2 attempts, a waiter, a signal at any time |
| `data_gate` | no double application, stale replay or half migration; is read-only kept, a migration true and whole, the ledger one? | a call, its retry on another server and a call that reuses the key, 2 items, 2 records; 2 servers and an operator; 2 commands over 3 records with a checkpoint every 2; 11 snapshots of at most 2 memories, one export again, 2 organizations and 2 projects; 3 starts |
| `storage` | is what was acknowledged kept, and what was interrupted completed or undone? | 2 processes, one mortal; one id in 2 scopes, or an import of 2; 2 instants; history of 2, 1 for SQLite; 2 restores with 2 faults |
| `service` | do overlapping calls, searches, pages, agents, clients, providers and drains keep their promises? | see below |
| `edge` | do limits, admission, tenants, policy, lifecycle and audit log hold? | see below |
| `worker_liveness` | is every job settled? *violated* | 2 jobs, 2 workers, one mortal, a window that never fills, nobody who sweeps |
| `worker_saturated` | does a full window ever have room again? *violated* | 1 job, window of 1 |
| `sqlite_history` | does an edited memory keep a snapshot? *violated* | 2 memories, history of 1 |

`service`: 2 calls of 5 workloads over 2 memories and 2 texts; 3 memories in every
supersession and relation with 4 kinds of query; 7 kinds of client call, sent up to 3
times; every policy of a provider with timeouts to 3 ms, 2 retries and a budget of 6 ms;
2 agents and a caller without one, 3 memories, 6 calls, one export and its import; 3
memories and pages of 1 and 2; 2 drains and 3 deliveries, one without a subscriber, 2
attempts.

`edge`: 4 requests over 4 keys in two dimensions, 2 identities kept, in the process and
in Redis; 3 HTTP requests with 2 slots; 2 hosts, 11 kinds of change, 5 versions of a directory;
2 callers of the guarded service over one stored row out of 3, 3 grants, 3 layerings of policy, patches of
the organization and of the hold; 2 records with 2 versions and a
renewal each; a log of 3 events after 5 appends, pages of 1 and 2.

**Why these bounds.** Two actors suffice for every race in the code, because every
conflict is between one that checks and one that acts in between; a third job, handle,
start or memory is there so that somebody can profit from the conflict. Durations of one
and two milliseconds give "not yet", "at the boundary" and "past". Budgets of 0, 1 and 2
are below, at and above the boundary of the retry rule. Two items are needed for a batch
that is partly applied, and three records with a checkpoint every two for a migration
that dies between a record and its checkpoint. Limits of one and two, of which some
requests share one dimension and not the other, let one dimension refuse what the other
admits. Histories of one or two entries overflow.

**Symmetry** is used in `service` (the two calls and the two texts) and `edge` (the
requests and the hosts): model values the definitions only compare for equality.
**Constraints**: `StrayBound` in `data_gate` lets one call run at a time behind a stray marker
(`MaxStrayCalls`), where three of the four properties promise nothing; `NotBreached` in `storage` stops at the theft of a live holder's lock,
after which nothing is claimed; `Few` in `service` leaves the second memory to the
workloads that need one and the third to those of agents that relate or forget.

**Deadlock** is checked in the runs of the job ledger, the workers, the schedulers, the locks
and the data gate. It is not in `process` (a process that has exited takes no more
steps), nor in `storage`, `service` and `edge`, where a behaviour ends when its bounded
supply of calls, versions or requests is used up.

**Mutants.** `PROJECT.json` names for every property of every passing run a mutated form
of a mapped definition (`Mut...`, defined before it) under which TLC finds that property
violated.

### Fairness

* `DurableWorker`: the event loop of a live process comes round (`PumpStep`,
  `StopStep`), handlers end and time passes. Nothing is assumed about renewals, stops,
  deaths and sweeps: nothing in the program calls `reclaimExpired()`. `worker_liveness` is
  refuted under this fairness by a worker that dies and a peer that polls for ever.
* `Scheduler`: intervals go by and ticks come (they are timers); live workers whose window
  has room take and end jobs; an insert that is possible again and again succeeds some time
  (strong fairness: SQLite is busy at times, not for ever). No sweep is assumed either:
  `MaintenanceGoesOn` promises the next jobs to those behaviours in which no lease that has
  run out is left for ever, because a worker that dies with the maintenance job does stop the
  maintenance for good.
* Locks: time passes and a waiting `acquire()` polls when its timer fires. Nothing
  makes a holder renew or release.
* `ServerProcess`: the event loop turns, time passes, handlers end unless they are in
  `Hanging`. Requests and the bodies of other phases need never end.

The other modules are checked for safety only and state no fairness.

## 4. What is proved

TLAPS checks the following for every value of the constants, under the assumptions named
in the modules that declare them. Most of these are typings and non-emptiness
(`TimesAssumption`, `RestoreAssumption`, `PagingAssumption`, ...). The others are facts of
the code or of the model's encoding: a mark for "nothing" is not one of the things it stands beside
(`StartAssumption`, `LockAssumption`, `TenantAssumption`, `AgentAssumption`, `PlanAssumption`); a row starts with the
organization that wrote it (`GuardAssumption`); a change of the directory names what it
changes (`TenantAssumption`); the client makes one to three attempts (`SdkAssumption`); a
latency bound is part of a budget (`RetrievalAssumption`); and the backoff of a provider
is a number (`FetchAssumption`, where the prover knows no powers). The theorems about workers
have a hypothesis besides, `RenewMs < LeaseMs`, discussed below.

Of the 39 properties that the passing runs check, the theorems state all but four, which
are liveness properties and stay with TLC.

**Ledger** (`JobLedgerProofs`). `LedgerSafe`: the inductive invariant `LedgerInv`, which
is the type invariant, `LeaseMatchesState`, `AttemptsWithinBudget` and two facts about
rows (a row has been issued; a row that is running has no delay). It is needed whole:
`complete` and `fail` look at the owner of the lease only, so that they settle a
*running* row with at least one attempt follows from `LeaseMatchesState`, which in turn
needs the attempt count to be right when a lease is reclaimed. From it: `LeaseCorrect`,
`BudgetCorrect`; the action properties `Settled` (a settled row changes only by being
pruned when it is old enough) and `LeaseStaysLost` (no statement of the SQLite store
revives a lease that has run out); and `Refinement`, that the ledger implements
`JobLifecycle`: initial states map to initial states and each statement to a step of the
lifecycle or to a stutter. `MemLedgerSafe`, `MemSettled` and `MemRefinement` say the same of
the store over a Map. `LeaseStaysLost` is not true of it: its `renew()` revives a lease that
has run out (section 5).

**Batches and data commands** (`DataGateProofs`), for any number of servers, calls,
keys, items and records. `GateSafe`: the inductive invariant `GateInv`. Its core is that
the flag and a claim in progress exclude each other (`Quiet`), that a command past
`beginRestore()` holds the flag (`Flagged`), that an executing call owns the claim of
its key (`Owned`) and a call that may have written owns its row (`Recorded`), that the
outcomes of the items tell whether a call has written (`Traced`), that completed claims
without the flag are about the present data (`Present`), and that a migration is
half-way only under a gate that `recover verify` does not open (`Shielded`, `Marked`).
From it: `AppliedAtMostOnce`, `ReplayCorrect`, `RestoreExclusive`, `MigrationWhole`. The
first three except the time while `stray` holds: the code leaves a marker whose flag was taken
back, and section 5 says what happens from there. The parts of the invariant about the flag and
the claims are conditional on `~stray` and hold again after the `completeRestore()` that ends it;
`Shielded` and `Marked` are not, because `migrate apply` does not start behind a marker, so that
`MigrationWhole` has no exception and the theorems no hypothesis.

**Read-only mode and the start of the ledger** (`DataGateProofs`). `StaysReadOnly`:
`ReadOnlyHolds` for any number of processes. What makes it inductive is `ReadersKnow`: a
process that has read the file since the command believes `ReadOnly` or `Failed`, and the
events of probes lead out of neither (`ClosedStaysClosed`). `OneLedger`: `LedgerIsOne` for
any number of starts over whatever an earlier version, or a death, has left. `StartInv`
says of each label what the process there has seen: the key that is linked is the one it
holds (`KeyIsTaken`), likewise the identity (`IdentityIsRead`), the row is signed with both
(`RowIsSigned`), and whoever refused had met a peer half-way (`RefusedForReason`).
`StartAssumption`: there is a start, and the marks for "no file" and "the old file" are no
file's content.

**Migration** (`DataGateProofs`). `MigrationIsTrueTheorem` joins two invariants, for any number of
records, checkpoints, commands, snapshots and mappings. `MigrationRunInvariant`: what a command
has behind it is in the destination (`There`), what its verification has behind it is as
planned (`Right`), each until somebody else changes it, and what it has last saved claims no
more than that (`TrueFile`). The step that needs all of it is the resumption: a second command
reads a state file that the first has written over, and it is true because every
file that any command ever holds in its hands is, not because it is the last one.
`MigrationPlanInvariant`: a signed plan is what its snapshot and its mapping make (`TruePlan`),
and the migration under way runs on a snapshot that was compared with the plan's
(`FromSnapshot`); that as many ids as records means different ids (`DistinctIds`) is what keeps
one record from being written over another.

**Workers and schedulers** (`DurableWorkerProofs`), on top of the ledger:
`WorkersUseLedger` and `SchedulersUseLedger` show that each of their steps is a statement
of the ledger or none, so that all that is proved of it holds in their hands.
`CompletedOnce` needs no condition: `complete()` alone sees to it. `OneHandler`,
`CommitsSound` and `LeasesAccounted` assume `RenewMs < LeaseMs` (the default period is a third
of the lease, `durable-worker.ts:102`; with a period of a whole lease a renewal that is on
time is too late). `LeasesAccounted` is about the workers' own books: one that is up or draining has
an entry for each lease it holds, and after `stop()` a lease that is left is of a handler that
still runs. It does not say that `stop()` leaves none: `fail()` may throw there, and the
documentation wants such a job to keep its lease (section 5). `WorkerInv` ties the renewal timer of a run to its lease:
`lease + RenewMs = due + LeaseMs` (`Holds`), so that the lease outlives the next renewal by
`LeaseMs - RenewMs` while renewals are on time; and it says that each `Map` has one entry a
job (`OneEntryPerJob`), of an attempt that the ledger has counted (`EntriesAreKnown`), which is
why a reply that is late touches no other run. `SchedulingBounded`, for a finite set of
schedulers: whoever is deciding found the ledger idle, so those that decide and what is
outstanding are together no more than the schedulers (`RoomForAll`), and each job made for
an interval has used up one scheduler's turn (`MadeByServed`).

**A server process** (`ServerProcessProofs`), for every role, deadline, set of jobs and of
hanging ones, number of slots and places. `ShutdownOrderly`: the invariants of the sequence
(`SequenceInv`: what comes before the present phase has ended, what comes after has not
begun, a phase is skipped or times out only with the budget spent) and of the queue
(`QueueInv`: a job that waits is in the queue once, one that is worked on has a slot) are
proved separately; `StopJobsIsTrue` ties them, and is what makes exit code 0 honest.
`ResultsAreFinal`: the action property `SettledOnce`.

**Leases** (`ServerProcessProofs`), for any number of calls, any lease time and any assignment of
owners to calls. `MemLockTheorem` and `RedisLockTheorem`: each provider implements `LeaseContract`
step by step, with the handles whose `renew()` would succeed as the good handles of the contract, and
`release()` takes the lease from no other owner. `LeasesKeepContractTheorem` is the property of the run.
What the refinement needs is small but not in either model alone: a handle that has been granted is
good or has been good before (`MemInv`, `RedisInv`), so that one which becomes good again was spent and
is of the owner who takes the lease. Where two calls share an owner the second does renew and
release the lease of the first (section 5); the contract says so, and promises one good handle at a
time where owners differ.

**File backend** (`FileStoreProofs`), for any number of processes, ids and scopes.
`StoreSafe`: the invariant `StoreInv`, conditional on `~breached`, that no live holder has
been robbed of the lock. Then whoever is past the lock holds it (`LockIsHeld`), and every
other process is at a label where it has decided nothing yet. Failures are steps like deaths:
what is swallowed is a wound (`LeaveOld`, a journal that could not be removed) or forgotten by
`brought` (a file that an undone import could not remove). The rest says what the
files are like while somebody is at work. `Sound(f, id)`: an id at rest has one copy, or one
in each tree of which the archived one is older than the present, so that recovery keeps
the right one; and each acknowledged text is `Held`: it is in the history, has left that by
age, or is in a copy that recovery will not drop for one without it. `MoveOK`: a process
between writing the new place and dropping the old one will leave the id `Sound`, and if it
dies there what is left is a twin. `PlansFit`, `AnswersAreTrue`: what a call has decided fits
what is on disk, up to the acknowledgement. `ImportsAreClean`, `JournalIsTrue`: what an
import has written so far is named in its journal. From it: `AcknowledgedKept` and
`RecoveryComplete`. `FileStoreAssumption` types the constants, and has no process named like
the marks "none", "dead" and "torn".

**SQLite backend** (`SqliteBackendProofs`), for any number of processes, of which any may
die, and of ids. `SqliteSafe`: a call that has written its row and not yet answered has as
good as answered, so that `SqliteInv` claims of the versions on their way what is true of the
acknowledged ones: each is kept (`AckedIsKept`, `WrittenIsKept`), and no two of them are of
one version (`AckedDiffers`, `WrittenIsNew`). The compare-and-swap then writes a version above
everything promised so far, because the row still bears the version the call had read. The
takeover of files rests on two facts: while a file is left nobody is past opening
(`FilesComeFirst`), so that the first row of a memory meets no promise; and a walk has each
file still to come unless its memory has a row or a walk has passed it over (`WalkIsWhole`). From it: `AckedWins` and
`LegacyKept`. `SqliteAssumption` types the constants.

**Restore** (`SqliteBackendProofs`), for any number of restores, I/O faults and deaths.
`RestoreInvariant`: the database is in its place, or it was moved aside under a journal that
tells the next start so, or it was moved aside and could not be moved back (`stranded`), after
which there may be no journal (`SomewhereSafe`). To survive a death at any step this needs to be known
of each label of a restore (`RestoreRuns`) and of a start (`ReconcileRuns`): which of the three
names are taken, and that a journal goes before anything is moved and leaves after
everything is in place. From it, with `RefusedOnce` (after a start that refused, the next finds
the database which that one moved): `RestoreIsWholeTheorem`.

**The vectors and the digests of the service** (`ServiceProofs`), for any calls, memories and texts.
`MemoryInvariant`: not what is stored, but what any call holds across an `await` must be faithful
(`CopiesAreFaithful`), because whole copies are written back; the form of a job at each label
(`Fits`) is the rest of it. From it: `VectorMatchesTextTheorem`. `DigestsDoNotRepeatTheorem` adds
`DigestInv`: from its first read on, the digest that holds the lock has among its active copies
what every unarchived memory of `origin` says, and an item on its way to the store is none of
these texts (`Knows`). Every other step is `Quiet`: it makes no memory of `origin` say something
else or come back. The first attempt at this proof showed that the model had left out the fast
path of `service.ts:2482-2488`: without it a merge, which takes the text of its
candidate out of `seen`, lets a later item repeat a memory. The model has the fast path now; the
property holds because of it, and not because of `seen`.

**Agents and snapshots** (`ServiceProofs`), for any agents, scopes, memories and snapshots.
`AgentInvariant`: each private memory has an owner who may read it, in the store and in a batch
on its way (`AllOwned`); within a tenant references name what was in the store (`AllKnown`);
and what an import promised is in the store, in its batch, or represented by an equal entry of the
snapshot that is (`AllStand`). The last disjunct had to be added to make it inductive: when a memory that
stands for a skipped entry changes, every entry that relied on it has lost its stand-in as well,
whence `Changes` of `AgentMemories` drops those too. From it: `AgentsAreServedTheorem`.

**Pages** (`ServiceProofs`). `PagingInvariant`: of a memory that nobody touched, the
number of times it was given is 1 if the cursor has passed it and 0 otherwise
(`CursorDivides`); that a page is the first of what comes after the cursor, in a strict
total order, is the lemma it needs. From it: `UntouchedOnceTheorem`.

**The client's batches** (`ServiceProofs`), for any number of items, attempts and issues.
`SdkInvariant`: at most one attempt is writing, and its results so far say what has been written
(`OneWrites`, `Progress`); only what may be sent again is (`AttemptsFit`); an answer is one that the client accepts and stays
true of the items, as nothing writes any more after it (`AnswersHold`). From it:
`BatchesAreExactTheorem`.

**A provider's call** (`ServiceProofs`), for any policy. The invariant: what has elapsed
and the timer that runs are together within the budget, and an attempt has sent one request at
most (`TimersFit`). From it: `ProviderIsBoundedTheorem`.

**Outbox** (`ServiceProofs`), for a finite and non-empty set of processes. `OutboxBounded`:
`attempts` is written as what a drain read plus one, so that what is bounded is not that
number alone but its sum with the processes that hold a smaller one (`AttemptsAreBounded`);
and a drain that has sent a retired delivery finds out before its next (`LateIsLast`).

**Searches** (`ServiceProofs`), for any pool of finitely many memories, any query and ranking.
`RetrievalInvariant` and `RetrievalIsSoundTheorem`: an answer is in scope, current, and within its
bounds (`ResultsAreClean`), a budget that removed something says so (`CutIsReported`), and whatever
suppression left out is represented (`NothingVanishes`). The last is about chains of versions and
copies of any length, where induction is out of reach. The proof looks at the memories that
are not represented, takes among them one from which the fewest others are reached by
supersession (a smallest set exists because the pool is finite, `SmallestSet`), and shows that
its replacement is unrepresented too and reaches fewer.

**Limits** (`EdgeProofs`), for any number of requests, keys, dimensions and any policy.
`BudgetTheorem`: of the requests of any span of `windowMs` that are charged to a key, no more are
admitted than its limit. Two kinds of requests are exempt: those of a key that the limiter has
evicted, which starts anew, and in Redis those that the script handles in a later millisecond than
the one they are stamped with. The invariant is not about the window but about what it must remember
(`WindowsRemember`: a charge that may still count has not been dropped, unless its key was evicted),
and about the request between decision and charge, which is alone and has room (`OneDecides`);
`SpansWithin` counts the spans with the lemmas about finite sets.

**Admission** (`EdgeProofs`), for any number of requests. `HttpInvariant`: `concurrent` is the number of
handlers under way, through every timeout, disconnect and failure, and a handler at a place behind a gate has
passed it (`OfRequest`). From it: `AdmissionTheorem`. A handler whose body read timed out counts as
under way for ever, as its slot stays taken for ever (section 5): the theorem says that the counter is
right, not that every slot comes back.

**Tenants** (`EdgeProofs`), for any users, projects, agents and callers.
`TenantDirectoryInvariant`: the directory in memory is the one in its file, or one version ahead of it
while a write is under way, and then the snapshot to fall back to is the file (`OneStepAhead`); a
context was minted from a directory that was in the file, and from the present one if the versions agree
(`ContextsAreOld`). From it: `TenantsHoldTheorem`.

**Policy** (`EdgeProofs`). `EvaluatorsAgree` and `RetrievalWithinPolicy` are about the operators alone:
both evaluators decide alike for every context, row and layering; the retrieval predicate and the
candidate filter admit the same rows, except to principals without a project and for held rows outside
`context_read` (section 5); and what the predicate lets through the policy allows. `PolicyHoldsTheorem`
adds two facts about the calls, for any patches: a row is in the organization of its last writer unless the write
named another one (`WriterOwnsRow`), for which a call has to be known to hold a row of its own
organization across its await (`CallsAreMinted`); and a legal hold ends only by the operator, by a write
that names the hold or the id, or by a call that had fetched the row before it was held
(`HoldsEndByName`). Patches of the id are in the proof only: the instance has one id.

**Lifecycle and audit log** (`EdgeProofs`). `LifecycleIsSoundTheorem`: only what was due is destroyed
(an invariant by itself once the records are typed), what is destroyed stays so, and the states
agree. `WalkIsCompleteTheorem`: while nothing was dropped since a walk began, what it has not seen is
still in the list and at or behind its offset (`NothingBehind`), for any log, page size and times.
An append gives the entries of its organization a greater offset or the same, so it brings none
before the cursor; the proof counts the newer entries (`Newer`) and needs no induction over the log.

The properties were checked by TLC on the instances of section 3 before they were proved, and so were the inductive
invariants wherever it was in doubt that they hold.

**Only model-checked.** The liveness properties `MaintenanceGoesOn`, `JobsGetResults` beyond
`SettledOnce`, `ShutdownEnds` and `NobodyWaitsForEver`: TLAPS has no support for
fairness and `ENABLED`. With the last stay the types of `FileLock`, whose mutual exclusion does not hold
(section 5). Induction over data and `RECURSIVE` operators are out of the prover's reach; no
module here declares one.

## 5. Where the code and its documentation differ

With a run (see `findings` in `PROJECT.json`):

* `durable-worker.ts:207-211` — a full window spins without an `await`: no handler,
  renewal or signal runs again (`worker_saturated`).
* `sqlite-backend.ts:1155` — the DELETE that prunes the history names the tenant and not
  the memory, so an edit of one memory removes the snapshots of others
  (`sqlite_history`; `docs/clients.md:113`, `docs/memory-model.md:251`).
* `job-store.ts:432` — nothing in the program calls `reclaimExpired()`, and `claim()` takes queued
  and retrying rows only (`:366`): the job of a dead worker stays `running` for ever, though
  `job-store.ts:20` and `docs/lock.md:126` say that it is not stranded (`worker_liveness`). A
  maintenance job that is stranded so also keeps every scheduler from submitting another
  (`index.ts:774`).

Refuted by TLC on the models as they stand, with the claim kept in the module:

* `FileMutualExclusion` (`MCLocks`): the reclaiming `unlink` of `lock.ts:302` removes
  whatever is at the path by then, and two processes hold one key (comment at `:300`).
* `NoCloseUnderWrite` (`ServerProcess`): `closeServerBounded` (`shutdown.ts:349`) gives up
  on its own timer and reports success, and storage is closed under a request (`:210`).
* `ServerStaysUp` (`HttpServer`): the timeout of `http.ts:428-438` answers 504 while the
  handler goes on; the handler's own answer then throws in the `try` and again in the `catch`,
  and the unhandled rejection ends the process. A timeout while the body is read also
  never gives the slot back. `docs/v4.4.0-spec.md:154` and `docs/security.md:115` describe a
  bounded request.
* `AtMostOnce`, `ReplayIsTrue` and `RestoreExcludesBatches` without their exception `stray`: when the
  write of the marker fails, `batch-idempotency-store.ts:933` takes the flag back and may leave the
  marker. A batch that had passed the first look (`:701`) claims its key under it; the next `restore` takes
  the marker for a gate that holds (`index.ts:415`) and sets no flag, or `recover verify` opens it (`index.ts:237`): either
  works while the batch runs, and invalidates its claim.

Seen while modelling. Jobs, locks and processes:

* `InMemoryJobStore.renew` (`job-store.ts:249`) revives an expired lease; the interface
  (`:98`) and the SQLite store do not. `complete()` and `fail()` check the owner, not the
  attempt (`:401`; `docs/lock.md:130`).
* `DurableWorker.stop()` (`durable-worker.ts:166-174`) releases the leases of handlers
  that are still running, so that a peer runs the job a second time; the comment above it
  (`:152-154`) and `docs/lock.md:203-205` say that such a job keeps its lease. `smooth` and `cut`
  delimit `OneHandlerPerJob` accordingly, and `LeasesAreAccountedFor` holds of either.
  `start()` after `stop()` never polls again (`:157`); `worker.stop()` is started with
  `void` at shutdown (`index.ts:615`).
* Two schedulers can both find the ledger idle (`index.ts:774-779`); the comment at
  `:758` promises one job per interval. `SchedulingIsBounded` says what holds.
* Callers of the in-process lock that pass no owner share one (`lock.ts:225`;
  `docs/lock.md:28`); `isHeld()` of a Redis handle is always true (`redis.ts:194`;
  `lock.ts:74`); `FileLock.release()` reads and unlinks in two calls (`lock.ts:384-386`).
* A second signal does not shorten the deadline (`shutdown.ts:134`; `index.ts:660`).

Batches, commands, recovery:

* `index.ts:151` and `:195` refuse `migrate apply` while a gate is pending, so it cannot
  resume an interrupted migration; `docs/storage.md:42` says that it does. A retry with
  0 < verified < processed (`migration-state.ts:250`) computes counts that `save()` refuses
  (`docs/public-api.md:224`). Of two concurrent commands one may write `applying` over the
  other's `published`.
* A call that dies leaves its claim in progress, and `beginRestore()` refuses from then
  on (`batch-idempotency-store.ts:903`).
* A reader that finds no identity while a peer links it and creates the database
  refuses to start; so do later starts after a death that leaves a staging file, or an
  identity without a database. `SomeoneOpens` says what holds if nobody dies.
* A server that has latched a state writes it over the operator's (`service.ts:2331`).
* `restoreSqliteBackup()` ignores the journal of an earlier restore; the model lets a
  start reconcile first, as the CLI does. A stale previous copy makes one start refuse.

Backends:

* File: an import that fails removes its journal even when it could not remove its files
  (`store.ts:546-550`), and they stay as memories nobody was told of; update() ignores that the
  old file could not be removed (`:312`), and the id has two copies, in one tree or in both. A
  twin that is changed in the millisecond of its archived copy is lost to the tie of `:857`.
* File: the steal removes whatever is at the path (`store.ts:746`); twins of an interrupted
  move between scopes are never reconciled although `store.ts:310` says so, and `forget()`
  leaves one of them; `recover()` does not walk `tenants/`; archive and revive do not
  bump the version.
* SQLite: `UPDATE` writes neither sensitivity nor legal hold; `forget()` deletes the audit
  row it has just written (`docs/public-api.md:576`); two processes that open at once may
  both disable the full-text index; the takeover passes over scopes three or more directories
  deep, files that cannot be parsed and rows that cannot be inserted (`sqlite-backend.ts:1311-1332`)
  and moves them away all the same (`:1355`): such a memory is only in the `.legacy` tree
  (`skipped`).
* Restore: when a restore fails and the previous database cannot be moved back, the journal
  is removed all the same (`sqlite-recovery.ts:344-346`); the next start opens an empty database,
  and the previous one is at `.pre-restore` (`stranded`).

Service, agents, clients:

* Copies read before an `await` are written back whole (`service.ts:997`, `2539`, `2610`, `2631`):
  other fields of a concurrent edit are lost where no version is passed. Decay deletes
  what was revived or pinned after its list was made (`:3099`; `docs/memory-model.md:199`).
* A second retrieval pass overwrites the budget report of the first; a superseder in a
  foreign scope, or a circle of supersessions, suppresses the only copy (the exceptions of
  `NothingVanishes`); `dedupeSameSource` switches the exact collapse off.
* A snapshot with two memories of equal content, one of which references the skipped other,
  is refused in tenant mode and lands with a dangling reference otherwise; an export of an agent that holds
  memories attributed to another cannot be imported again; the window between check and
  batch allows duplicates by content.
* A cancellation while the text of a retryable error is read is swallowed
  (`provider.ts:130`), although `:56` says that it is propagated through every attempt.
* Two processes that create `deliveries.key` at once (`webhooks.ts:623`) sign with different
  keys; `docs/v5.6.0-audit.md:117` has every instance drain one queue. Not modelled.

* A migration manifest names a record by organization and id (`tenant-migration.ts:133`),
  while SQLite has one row for an id (`sqlite-backend.ts:185`): a snapshot that was migrated
  into one organization cannot be migrated into a second one in the same database. The
  insertion throws, and `Fail` of `MigrationPlan` is that case.

Edge:

* Recovery of an unreachable shared store needs a request to succeed, while `/health` says
  unready so that a balancer sends none. Redis counts both ends of its window, so requests
  delayed on the way may exceed a budget; an evicted identity starts anew.
* The file directory is loaded once per process; a change that was made may be reported as
  not found when the answer is read again.
* The v6 modules are not wired into the server. `V6GuardedService` keeps the `now` of its
  construction, writes back the whole row it fetched with any patch over it, one of the
  organization, the project or the hold included, and decides nothing anew
  (`v6-service-policy.ts:293-295`): a hold set during the await is lost, and a row can be handed to another
  organization. It stores every new row under the id `pending`. Filter and predicate disagree on the rows of
  projects for a principal without one and on held rows outside `context_read`, although
  `v6-retrieval-policy.ts:212-215` says that they cannot, and neither looks at `unverified`, which a direct read refuses; the offset cursor of the audit
  log overlaps after an append (`v6-audit.ts:25`); a lifecycle pass counts records that are
  not due against its limit.

## 6. Not modelled, and what is left

Left out for good: text processing, the arithmetic of scores, cryptography, logging and
metrics, schemas, parsing of options, the MCP mapping, the UI, the Python client,
benchmarks, scripts and examples. They keep no state that several actors share, or
compute on data that TLC cannot enumerate.

Not modelled in a modelled component (`PROJECT.json`, `components`): the encryption of existing
files and the parse cache of the file backend, which is validated by time and size (`store.ts:905`);
touch, batch import and candidate search of the SQLite backend; the key of the outbox; context packing and consolidation; `executeWithDegradation()`,
which nothing calls. Of the failures: in the file backend a twin that cannot be read while recovery compares
it, the trimming of the history, a `chmod` after the journal's rename, directories that cannot be read during a walk, and a
lock file that its holder fails to write or to remove; in the tenant directory a first load that fails and is
remembered (`tenant-directory-file.ts:146-152`). The clocks of processes that share a Redis quota agree; the
vectors of batch stores and of imports (`service.ts:1590-1607`, `:2940-2948`) are not in `MemoryService`; holds on
deleted lifecycle records are left out.

Left to prove: what `FileLock` does guarantee, once the reclaim of `lock.ts:295-302` leaves something
to be stated as a safety property; for the rest, every safety property that a passing run checks is a
theorem.
