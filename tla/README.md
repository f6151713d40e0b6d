# TLA+ specifications of AssistOS Explorer

This directory specifies the parts of AssistOS Explorer whose correctness depends on
interleavings, crashes and failures: the workspace lock of the copilot, the user store and its
writer lock, purchases of credits, the scheduler of cron jobs, model requests of the LLM gateway and
their concurrency slots, and the deletion of documents. TLC checks each on a small instance; TLAPS
proves most of their safety properties for every instance.

Contents:

1. [The system](#1-the-system)
2. [Modules](#2-modules)
3. [What the runs check](#3-what-the-runs-check)
4. [Fairness](#4-fairness)
5. [What is proved](#5-what-is-proved)
6. [Where the code and its documents disagree](#6-where-the-code-and-its-documents-disagree)
7. [What is not modelled](#7-what-is-not-modelled)
8. [Plan](#8-plan)

To repeat a check: `tlc -config <run>.cfg MC<Module>.tla`, and `tlapm <Module>Proofs.tla`. Each
run has a `.cfg` of its own name. `src/` stands for the root of the repository.

## 1. The system

AssistOS Explorer is a workspace of cooperating agents. Ploinky, an external supervisor, starts
each agent as a process in a container, gives it an identity (instance and enable generation), and
routes HTTP and MCP calls to it. Every agent is a Node.js process: its code runs in turns of one
event loop, so two requests interleave only at an `await`, while two processes that share files
interleave between any two file-system calls. There are three ways in which the parts meet:

- **shared files** between processes: the workspace directory (the copilots of a workspace, each
  its own process), a persistence folder (an old and a new incarnation of one agent), the documents
  of Explorer. Locks are files made with `O_EXCL`; ownership is judged by pid and identity.
- **one event loop and a database** inside an agent: keyed promise queues, SQLite transactions that
  are synchronous, timers and callbacks between them.
- **calls between agents**: Explorer and the robots call the gateway for models; UserPersisto calls
  the e-mail agent and Stripe; the robot team calls the robot work agent. A call may be lost after
  it took effect.

### 1.1 Modelled components

**Workspace state lock** (`src/roboTeamAgent/copilot/src/lib/storage/workspaceStateLock.mjs`).
*State:* a lock file and a recovery-claim file per lock path, both shared by all processes of the
workspace; in each process a table of records whose removal failed (orphans) and of the locks it
holds. *Operations:* `withWorkspaceMutation` (polls until a deadline), `acquireExecutionLease`
(immediate), and the release, all over `acquire`, `tryAcquire`, `createOwner`, `recoverDeadOwner`,
`recoverOwnOrphan`, `removeOwned`. *Interactions:* every store of the copilot (tasks, sessions,
WebChat) changes its files under `mutation.lock`. *Hard:* the decision to remove a dead owner's
file and its removal are several calls of which any may be overtaken, or be the process's last.
*Correct when:* one holder at a time; nobody removes a record other than the one it judged; an
abandoned recovery fails closed; a process recovers what its removals left; pollers recover the dead.

**User store** (`src/userPersistoAgent/lib/serial.mjs`, `persistence-scope.mjs`, `store.mjs`,
`durable-storage.mjs`). *State:* objects in memory, dirty flags, a poison flag, the queues of keyed
locks and of the one persistence scope, the snapshot file. *Operations:* `serialize`,
`serializePersisted`, `withPersistenceScope`, `commitStagedPersistence`, `flush`, every store call,
`save`, `poison`. *Interactions:* every domain operation (sign-up, credits, billing, roles) is a
sequence of store calls followed by a flush; a save writes all of memory, the half-made changes of
others included. *Hard:* failures in the middle of a staged change, saves that fail after the flags
were cleared or after the rename, crashes between rename and directory sync, queues whose release
sits on error paths. *Correct when:* snapshots hold whole operations, what was acknowledged survives
a crash, what was read is durable, and every operation is answered.

**Writer lock of the user store** (`src/userPersistoAgent/lib/durable-storage.mjs`,
`createDurableStorage` up to the open lock, and its release). *State:* `.userpersisto.writer.json`; in each process where
the opening is. *Operations:* open, recover a predecessor's lock (two captures, a proof of death, an
unlink, one more attempt), write, release. *Interactions:* the processes are incarnations of one
agent, in one container or several, with pids that are reused. *Hard:* liveness judged by a pid; a
half-written record; two incarnations that start together. *Correct when:* one process writes the
store, a live or unfinished lock is never taken away, and a dead predecessor's lock is replaced.

**Cron jobs** (`src/roboTeamAgent/server/roboflow/workflow-scheduler.mjs`, `schedule-store.mjs`,
`schedule-timing.mjs`). *State:* a record per job (revision, enabled, next slot, pending launch,
last flow), the tick in flight, whether the service closes. *Operations:* `tick`, `runNow`, the
launch with its `onCreated` and its failure, `save`, `remove`, `initialize`, `close`.
*Interactions:* a launch calls the flow service, which prepares a run with awaits and creates it in a
transaction that calls back into the scheduler; users edit and run jobs meanwhile and continue ended
runs. *Hard:* everything that happens to a job between a claim and its run; a service that was down
over slots. *Correct when:* a job has one run going, each slot is taken once and never late by a
stop, a run belongs to the revision that was claimed, and claims do not stay.

**Model concurrency slots** (`src/soul-gateway/src/runtime/execution/concurrency-controller.mjs`,
`concurrency-middleware.mjs`, `src/soul-gateway/src/public-api/embeddings-route.mjs`). *State:* per
model a limit, a count and a queue of waiters with timers. *Operations:* `configure`, `acquire`,
`release`, `_drain`, the timers, and the two routes that hold slots. *Interactions:* each request
installs the limit of the model record it resolved, which may be older than another's; a cascade asks
again for every child. *Hard:* limits that jump below the count, timers between returns, error
paths that skip the release. *Correct when:* the count is the holders, no slot is idle while someone
waits, grants stay within the limit and in order, and waiters are answered.

**Model execution chain** (`src/soul-gateway/src/runtime/execution/`, `kernel/canonical-stream.mjs`,
`route/respond.mjs`). *State:* of one request: the children of the tier tried and failed, the attempts,
the slot, the credential lease, the lease on the backend generation, the abort signals, what was sent.
*Operations:* the middlewares in their order (cascade, concurrency, retry, credentials, timeout, prime,
dispatch), the buffered and the streamed response. *Interactions:* upstreams answer, fail or fall
silent; clients read slowly or leave; timers abort. *Hard:* every await can be left by a failure, a
deadline or an abort, in any order, and a stream may be left before its first read. *Correct when:* one
upstream runs at a time, one model gives the answer, an abort is the end of trying, every request ends
and every lease is back.

**Credit ledger and Stripe billing** (`src/userPersistoAgent/lib/credits.mjs`, `billing.mjs`). *State:*
a journal of credit transactions, an account and reservations projected from it; checkout intents,
payments and seen events. *Operations:* reserve, spend, release, grant and purchase by reference, with
repairs of the projections; checkout, webhook. *Interactions:* the store saves whatever is in memory at
any of its steps; Stripe repeats events, tells of one payment by several, and forgets idempotency keys
after a day. *Hard:* a process that dies, or a call that throws, between any two changes; an answer
that is lost after its effect. *Correct when:* a key buys once, a session is credited once and not
before it is paid, a payment is credited in the end, and the projections agree with the journal.

**Document deletion** (`src/explorer/utils/server/markdown-crdt/markdown-crdt-store.mjs`, `prepareRemove`,
`commitRemove`, `rollbackRemove`, `recoverPendingDeletions`). *State:* up to three files of a document,
at their places or in a transaction's directory, and the transaction's record. *Operations:* prepare,
commit, rollback, recovery, and the create and open that use the same path. *Interactions:* a caller
prepares, removes what belongs to the document elsewhere, then commits or rolls back, and others create
at the freed path meanwhile. *Hard:* renames fail half way, and the renames that undo them fail too; a
rename replaces what is at its destination. *Correct when:* no file is lost, and a document is whole or
gone.

### 1.2 The other components

| Component | State | Operations, and what is hard | Correct when |
|---|---|---|---|
| Route pipeline and policies (soul-gateway) | sliding windows, spend cache, loop detector | one step per request | limits hold per window |
| Providers, accounts, backends (soul-gateway) | accounts and tokens in SQLite, generations of a backend | account choice, token refresh, provisioning, hot reload | a generation closes when its last lease is back |
| Gateway persistence, observability, management | SQLite, metrics, audit queue | batched writes, administration, reconciliation with Ploinky | audit records are not lost silently |
| E-mail sign-in attempts (userPersisto) | attempts, code generations, throttles | resend, change, cancel, late delivery results | no new guesses by resending; completion once |
| Other sign-in methods, grants, resets (userPersisto) | single-use records | check, await, check again, consume | consumed once, together with its effect |
| OIDC, policy, roles, settings (userPersisto) | records of the store | adapter of a library; staged commits | what DurableStore promises |
| Persisto engine (vendored) | objects and indices | typed objects over a storage strategy | external |
| Task flows and runs (roboTeam) | flows, steps, joins, sub-flows in SQLite | start, dispatch, complete, pause, continue, terminate | a step is dispatched once; joins wait for all |
| Live sessions (roboTeam) | event numbers, retained windows | publishers and readers over connections that break | a reader sees each event once, in order, or a gap is told |
| Workspace tasks and WebChat (roboTeam) | task files under `mutation.lock` | claim, call another agent, commit; uncertain outcomes | one continuation at a time |
| Skills, sessions, prompt, launch (roboTeam) | files | terminal and files | - |
| Runs, containers, tool cache (roboWork) | slots of robots, runs, cached tools | reserve, prepare, replace, stop | slot count within its limit; one process per run |
| Markdown CRDT store: editing (explorer) | documents, locks with heartbeats | open, merge, save and undo under a lock whose stale owner is removed by name | one editor at a time; no edit is lost |
| Explorer tools and search | index caches | one file-system call per tool | - |
| Explorer user interface | browser state | event handlers | - |
| DPU store and research (dpuAgent) | one JSON document, a lock directory | read, change, write under the lock | one writer |
| Git, e-mail, workspace monitor agents | none of their own | wrappers of git, a mail service, counters | - |
| QA deployment and smoke tests | - | scripts and tests | - |

## 2. Modules

| Module | What it is |
|---|---|
| `WorkspaceLock` | the lock protocol, one step per file-system call |
| `ExclusiveLease` | what a lock promises its callers; `WorkspaceLock` implements it |
| `DurableStore` | queues, scope, staged commits and saves of the user store |
| `StagedStore` | what the store promises; `DurableStore` implements it |
| `WriterLock` | who may open the store: the lock on the persistence folder |
| `CronJobs` | the scheduler, its job records, and the end of runs |
| `ConcurrencyController` | slots and queues of the gateway's models and the two routes that use them |
| `ModelExecution` | one request of a model or a tier, to the last byte for its client |
| `CreditLedger` | one user's credits: what an operation on them may leave and answer (no behaviour of its own) |
| `StripeBilling` | purchases over that ledger: checkouts, webhooks, reservations, crashes |
| `DocumentDeletion` | the two-phase deletion of a document |
| `<Module>Proofs` | the theorems of a module and their proofs |
| `MC<Module>` | the model values of a module for TLC |

A definition that stands just before one with a similar name and that nothing uses is a faulty variant
of it (`JudgeClaimTakesOver` before `JudgeClaim`). `PROJECT.json` says which property each of them
breaks, when it replaces the definition after it: that is how we know that the property depends on
the code it is about. The same file maps every definition to the lines it translates.

### 2.1 `WorkspaceLock`

A *call* of `acquire` is an element of `Acquires`; since the call draws a random token, the element is
its token too. `Proc` says which process incarnation a call runs in.

| TLA+ | Code |
|---|---|
| `file["lock"]`, `file["claim"]` | the files `<lock>` and `<lock>.recovery`; `full` once the record is written |
| `alive` | whether the pid and start time in a record belong to a running process |
| `orphan` | the module's table of own records whose removal failed |
| `pc`, `seen`, `verified`, `retried` | the local state of a call: its place, the token it read, whether it compared it, which attempt it is in |
| `CheckClaim` ... `PostCheck`, `Inspect`, `Judge` | `tryAcquire` |
| `CreateClaim`, `WriteRecord`, `Confirm` | `recoverDeadOwner` under its claim |
| `CompareToken`, `Unlink`, `RemovalFails` | `removeOwned`, for each of the places that call it (`Removals`); its read or its unlink throws |
| `WriteFails`, `CallFails`, `OwnerUnknown`, `RefuseAmbiguous` | any other file-system call throws (`Thrown` says where the call ends then), a probe that cannot tell who runs, a record that cannot be judged |
| `Retry`, `Busy`, `Release`, `Crash` | the loop of `acquire`, its deadline, the release, a process's death |

`ThreadFree` says that inside a process `tryAcquire` and the release run without an await. A waiter's
deadline is not modelled by a clock: any poll may find it past. `CreateLock` and `WriteRecord` are
two steps, as `open` and `write` are two calls; the same goes for the comparison and the unlink. What
a holder does with the lock is left out.

Two consequences of the code are visible in the model, and are kept. If an immediate lease evicts a
dead record in its *second* attempt, it answers BUSY although the path is free
(`SoleSurvivorAcquires` speaks of the first attempt). If the write into a fresh lock or claim file
fails, or the process dies before it, the file stays unattributable and the lock is closed for ever.

A call may also throw *after* its record is complete and before anybody has it: in `createOwner` at the
`fstat` or the `close` (lines 191 to 194), or in `tryAcquire` at its last look at the claim (line 212). No
removal is tried then, and `orphaned` does not learn of it. Such a call ends at `"abandoned"`, and the
record stays until its process dies. `OwnRecordRecoverable` names it as its one exception, and
`DeadOwnerRecovered` says what such a record does to others when it is a claim (section 6).

### 2.2 `DurableStore`

An operation is an element of one of four sets, by how the code runs it: `Staged`
(`commitStagedPersistence`: sign-up, sign-in, handoffs), `Scoped` (`serializePersisted` and the like:
credits, users, roles), `Plain` (billing: store calls, then a flush) and `Readers`. Each locks the
keys in `Needs`, then makes two changes and saves.

| TLA+ | Code |
|---|---|
| `keys`, `scope` | the promise chains of `serialize` and `withPersistenceScope`, in order of arrival |
| `memory`, `dirty`, `failed` | objects in memory, the strategy's dirty set, the poison |
| `renamed`, `durable` | the snapshot at its name, and the one a crash of the machine is sure to leave |
| `found` | history: what some process opened the store with before its rename was synced |
| `Enqueue`, `Locked`, `EnterScope`, `Leave` | waiting for a key or the scope, and the `finally` blocks |
| `Read`, `Change`, `ChangeThrows`, `Refuse` | a store call, one that throws, one on a poisoned store |
| `SaveNothing`, `SaveWrites`, `SaveRenames`, `SaveSyncs`, `SaveFails` | `save`, by the calls that matter to a crash |
| `ProcessDies` | the process dies, another opens the snapshot at its name |
| `MachineCrashes` | the machine dies, and the store is opened from either snapshot |

Two changes are enough to tell whole operations from half ones. A key that a queue's head holds is
given up in the same step in which the operation leaves: the chain of `finally` blocks runs before
any other code of the process. The opening itself is `WriterLock`.

The two ends of a process differ. When only the process dies, the next one finds what is at the
snapshot's name, synced or not, and opening (`durable-storage.mjs:178-208`) neither syncs the directory
nor marks the store as changed: a crash of the machine may still undo what it serves. `found` remembers
such changes, and `ReadersSeeDurable` makes them its one exception.

### 2.3 `WriterLock`

A process opens the store once (`storePromise` is kept, also when it failed), so a process stands for
its token. `Host`, `Pid` and `Generation` are what its record says; `Pid` need not be injective, since
pids are reused. `file` has the record and whether it was written.

| TLA+ | Code |
|---|---|
| `Open` | `open(path, 'wx')`, at the first attempt and after a recovery |
| `Capture`, `Recapture`, `Unlink` | `recoverPredecessorLock`: read, judge, read again, unlink |
| `Predecessor` | `isProvenPredecessor`: by pid on the same host, else by identity |
| `Write`, `WriteFails`, `CallFails` | the record is written; a call fails |
| `Release`, `ReleaseUnlinks`, `Exit`, `Crash` | shutdown, and death |
| `Begin` (external) | Ploinky starts a process: a container of another generation when the previous one is gone |

`Overlapping` says whether two processes may be opening the store at a time. Everything that is
proved assumes they may not; `writer_race` shows what happens when they do.

### 2.4 `CronJobs`

Claim number `n` of a job stands for the token it writes into the record and for the run it creates.

| TLA+ | Code |
|---|---|
| `job` | the job's record: revision, enabled, timing, `pendingLaunch`, `lastFlowId`, `nextRunAt` |
| `claim`, `launch`, `flow` | what a claim was made for, how far its launch is, and the run it created |
| `ticking`, `closed` | the scheduler's `pending` and `closed` |
| `editor` | a `save` between reading the revision and its transaction |
| `Tick`, `RunNow` | the transactions that claim |
| `CreateFlow`, `LaunchThrows`, `Settle`, `SettleThrows` | the launch: the run's transaction with `onCreated`, a failure before it, the end; the transaction that clears the claim may throw too |
| `Create`, `BeginEdit`, `Edit`, `Remove` | the job store |
| `EndFlow`, `ContinueFlow` | the end of a run, and a user who continues an ended one |
| `Restart`, `Close`, `Clock` | `initialize` after a stop at any point, `close`, time |

SQLite transactions are synchronous, so each is one step; between them every await of a launch lets
users, the timer and `close` in. `NextRun` counts whole periods from an anchor, as the code does;
daily timings, which need calendars, are left out.

### 2.5 `ConcurrencyController`

A request is a caller that asks any number of times, for any model, with the limit of the record it
resolved (`Ask` is `configure` and `acquire`, which the two routes call without an await between).

| TLA+ | Code |
|---|---|
| `max`, `active`, `queue` | the fields of the controller's state per model |
| `phase`, `model` | where a request is, and for which model |
| `Ask`, `Finish` | the two entries that drain the queue: installing a limit, and `release` |
| `TimeOut` | a waiter's timer |
| `GotCredentials`, `CredentialsThrow` | the await between slot and `try` in the embeddings route |
| `lost` | history: the slots that await lost |

`Drained` computes in one step what the loop of `_drain` does, one waiter at a time without an await.
What the chat chain does while it holds its slot is one phase, because all of it is inside the `try`.

### 2.6 `ModelExecution`

An upstream is named by the number of its attempt, `n`. `request` says whether the client asked for the
tier, for a stream, and with a budget.

| TLA+ | Code |
|---|---|
| `TryChild`, `WalkEnds`, `Best`, `Candidates` | the walk of `cascade-middleware.mjs` and its choice of a child |
| `Granted`, `QueueTimesOut` | the concurrency middleware around a child |
| `Try`, `BackoffEnds`, `AttemptFails` | the loop of `retry-middleware.mjs` and `http-retry.mjs` |
| `LeaseAnswers` | credentials, and with them a generation of the backend |
| `Dispatched`, `UpstreamFails` | `backend-dispatch-middleware.mjs` |
| `PrimeTimesOut`, `EmptyAnswer`, `Commit` | `prime-stream-middleware.mjs` |
| `Collected` | the buffered answer |
| `Begin`, `Event`, `Drains`, `Departs`, `StreamDone`, `SendFails` | `streamSseResponse` and its `finally` |
| `Disconnect`, `BudgetFires`, `DeadlineFires`, `StreamTimesOut` | the signals |
| `open`, `UpstreamEnds` | leases of backend generations, returned by the upstream's own `finally` |

A timer may fire whenever it is armed. The slot is one fact here; `ConcurrencyController` models the
queue behind it.

### 2.7 `CreditLedger` and `StripeBilling`

`Results(ledger, tx)` gives every ledger and answer with which an operation on the credits may end: the
scope of the store lets it run alone, and a store call that throws cuts it short after any of its
changes (`Cut`), the repairs before it included. `StripeBilling` takes one user, one idempotency key and its sessions.

| TLA+ | Code |
|---|---|
| `Entries`, `Balances`, `Replay`, `Counted`, `ReconcileAccount`, `ReconcileReservation` | the journal and what is repaired from it |
| `Journalled`, `Reserved`, `Accounted` | the three changes of `mutate`, in order |
| `FirstCheckout`, `Retry`, `IntentSaved`, `Posted`, `PostLost`, `PaymentCreated`, `IntentLinked`, `CheckoutAnswered` | `createCheckout` |
| `Delivered`, `EventSaved`, `Found`, `Adopted`, `PaymentPaid`, `Credited`, `Processed`, `Acked`, `Failed` | `processStripeWebhook` and `applyPaidCheckout` |
| `Reserves`, `GetBalance`, `OtherSave` | the user's credits, and whoever saves between billing's steps |
| `stripe`, `Pays`, `Forgets`, `Tick` | Stripe (external) and time |
| `saved`, `Save`, `Crash` | the snapshot; a save is one step, as `DurableStore` shows it may be |

### 2.8 `DocumentDeletion`

| TLA+ | Code |
|---|---|
| `place`, `staged`, `record` | files at their places, in a transaction's directory, and `transaction.json` |
| `op` | the operation that holds the path's lock: which one, and the files it still has to move |
| `StartPrepare`, `PrepareMoves`, `PrepareSkips`, `PrepareRecords`, `PrepareFails`, `Undo` | `prepareRemove` |
| `StartRollback`, `RollbackMoves`, `RollbackFails`, `RollbackEnds`, `Unroll` | `rollbackRemove`, which `recoverPendingDeletions` calls too |
| `StartCommit`, `RemoveEntry` | `commitRemove`, and the removal of the directory, entry by entry |
| `Open`, `Create` | `loadByPath` (a missing state is made anew), `create` |

`made` and `condemned` are history: the files there ever were, and those a commit was asked to remove.

## 3. What the runs check

| Run | Instance | Shows |
|---|---|---|
| `lock_mutation` | 3 processes, a polling call of each, 3 faults, fair | one holder (`MutualExclusion`); the file that is unlinked is the one that was compared (`CompareHoldsAtUnlink`); live records are removed by their process only (`OnlyOwnersRemoveLiveRecords`); a dead process's claim stays (`AbandonedClaimStays`); pollers get past a dead owner unless an ended call of a running process left its claim there (`DeadOwnerRecovered`) |
| `lock_lease` | 2 processes, 2 immediate leases of each, 2 faults, fair | own records stay recoverable, but for those of calls that threw before handing them over (`OwnRecordRecoverable`), the lock implements `ExclusiveLease` (`LeaseSafety`), and a lease takes a dead holder's lock over within one call (`SoleSurvivorAcquires`) |
| `store_snapshots` | a staged operation (password sign-in) and a scoped one (one-time code) that lock the same two keys, a plain one (checkout), a reader, 2 faults, fair | `AckedDurable`, `SnapshotWhole`, `ReadersSeeDurable`, the store implements `StagedStore` (`StoreSafety`), and every operation is answered (`EveryOperationAnswered`) |
| `cron_jobs` | 1 job, 2 claims, 3 revisions, an editor, times 0 to 2, a restart, fair | `OneRunPerJob`, `SlotsClaimedOnce`, `RunsCurrentJob`, `MissedSlotsSkipped`, and no claim holds its job for ever, unless clearing it failed (`ClaimsEnd`) |
| `slots_limits` | 4 chat callers and an embeddings caller, 2 models, limits 1 and 3, 1 throwing look-up per model, fair | `SlotsAccounted`, `NoIdleSlots`, `QueueIsWaiting`, `GrantsWithinLimit`, `ServedInOrder`, and nobody waits for ever (`WaitersAnswered`) |
| `writer_one` | 5 processes in 3 containers, a pid used twice, 3 faults, openings apart, fair | `OneWriter`, `LiveLockStays`, `MalformedStays`, and a dead predecessor is replaced in the one retry (`PredecessorReplaced`) |
| `exec_request` | 3 models of 2 providers, direct or through the tier, 2 attempts each, an answer of 1 event, fair | `OneUpstream`; one model gives the answer (`OneModelAnswers`); an abort starts nothing more (`AbortStops`); requests end (`RequestEnds`) and leave no lease behind (`LeasesReturned`) |
| `billing_credits` | 2 sessions, 2 kinds of events, 2 reservations, keys forgotten after 2 ticks, 2 faults, fair | `OneCheckout`, `CreditedOnce`, `ProcessedIsCredited`, `LedgerSound`, and a paid session is credited in the end (`PaidIsCredited`) |
| `deletion_whole` | 2 documents at one path, 3 transactions, 3 faults | no file is lost (`NothingLost`); a document is whole or gone unless an operation died or failed twice (`AllOrNothing`) |
| `cron_held`, `slots_returned`, `writer_race` | see section 6 | a statement of the documents that the code does not keep |

The type invariants are theorems (section 5), and the runs do not repeat them.

**Why these bounds.** The lock's hazards need a dead owner, a process that recovers it, and a third
one that overtakes the recovery: three processes. A lease's need a process that meets its own orphan
again: two calls of a process. (`Waits` tells the two kinds of lock apart, one value per run; the proofs
are for either.) Two faults allow a crash of an owner followed by one of its recoverer, or
a failed call followed by a crash. The liveness of polling needs three: the owner dies, a recoverer's
removal of its record fails, and the removal of its claim fails too; that claim belongs to an ended call
of a running process, which is why `DeadOwnerRecovered` speaks of `ClaimLeft`. It is not proved, so it
was also tried beyond its run: with four faults on the same instance (1,569,500 distinct states), and
with four faults on two processes one of which makes two calls; both pass, and without `ClaimLeft` three
faults violate it. The store's need one operation of each kind inside, one queued
behind it on the same keys, and somebody who reads; two faults allow a failed save followed by a crash,
and a process that dies between rename and sync followed by a crash of the machine, which undoes what
was read between them. A cron job's need
a claim that is overtaken by another (two claims), an edit on each side of it (three revisions), a slot
that is met exactly, late, and over a stop (three times with a period of one; with one period, an edit
still changes a job by switching it off and on). A model's slots need a limit that falls below its
holders while others wait, and one that rises by more than one, so that two waiters enter at once:
limits one and three, five callers, and a second model to tell the queues apart. The writer's need a
reused pid on the same host, another host with the same identity and one with another, and a crash, a
failed write and a failed unlink in sequence. A request needs a provider with two models, so that an
account failure bars a child not yet tried, a third model to go on with, and a model that is unfit for
it; two attempts, so that one is left running when the next begins. The billing needs a second session
that must not be made, two events for one payment, and one fault that loses an answer followed by one
that kills a retry; a key that Stripe remembers one tick longer than an intent is submitted is enough to
be late. Of the two reservations one stays open, so that closing the other twice would draw on it. The
deletions need a document that follows another at its path, a transaction each, one more that meets
what the others left, and three faults: a failed call, a failed undo and a crash. Transactions are
interchangeable, so their symmetry is used. Jobs do not share state except the tick that awaits all
its launches: one job is checked (two are more than a run can carry), any number is proved. The proofs
of section 5 remove every one of these bounds for the safety properties they list.

Counters that would not end (`faults`, `lost`, `issued`, `revision`, `now`, `restarts`) are bounded
in the guards of the actions that raise them, by the constants whose names begin with `Max`.

**Deadlock.** It is checked in the runs of `ConcurrencyController`, where callers always come again.
The other runs switch it off: their operations are finitely many and may all be over, their counters
bounded, a request is over when it is answered, and every process may have crashed; a system that has stopped for those reasons is no
deadlock. That waiting ends is stated by the liveness properties instead.

## 4. Fairness

| Module | Assumed | Because |
|---|---|---|
| `WorkspaceLock` | every step inside `tryAcquire`, a removal or a retry of a live process is taken in the end; a holder releases | a live process runs its synchronous code to the end; the poll is a timer; the release is in a `finally` after the callback. Neither a waiter's deadline (`Busy`) nor a second release is forced. |
| `DurableStore` | every operation that can go on does | one event loop resumes each promise that is resolved. No fairness is asked of the start of an operation, nor of restarts. |
| `CronJobs` | every launch goes on | its awaits end one way or the other. This is an assumption about `startFlow`: it has no timeout of its own, so an await that never ended would keep the claim. Ticks, edits, users and time are not forced. |
| `ConcurrencyController` | `Finish`; the end of a credential look-up | attempts are bounded in number, each by a deadline; a look-up is a query that answers or throws. Queue timers are *not* fair: the timeout may be practically unlimited, and waiters are answered without it, unless slots were lost. |
| `WriterLock` | an opening process goes on | every step is an awaited file-system call. |
| `ModelExecution` | the walk and the retry loop go on; credentials are answered; a deadline fires; an aborted upstream ends; respond begins, leaves when the client is gone, and its stream deadlines fire | promises and timers of a live process. That credentials are answered is an assumption: the look-up is not bound to the signal. *Nothing* makes an upstream answer, a client read, or anybody leave. |
| `StripeBilling` | billing's steps go on (weak); an event that is not answered is delivered again and again (strong) | the key `stripe:billing` is handed on in order of arrival; Stripe retries events. Payments, checkouts and time are not forced. |

`DocumentDeletion` states no fairness: what it promises is safety. The runs of liveness properties use `FairSpec`, the others `Spec`. Steps that fail (`WriteFails`,
`CallFails`, `RemovalFails`, `SaveFails`, `ChangeThrows`, `LaunchThrows`, `SettleThrows`, `CredentialsThrow`) are disjuncts of fair
steps: a failure counts as going on, it is never required, since a success is possible wherever a
failure is.

## 5. What is proved

For every value of the constants that satisfies the module's assumptions (any finite or infinite set of
processes, operations or jobs, unless said otherwise, any bounds):

| Module | Theorems |
|---|---|
| `WorkspaceLockProofs` | `TypeCorrect`, `OneHolder`, `UnlinkIsSafe`, `LiveRecordsSafe`, `ClaimsStay`, `OwnRecordsAnswered`, `ImplementsLease` |
| `DurableStoreProofs` | `TypeCorrect`, `AckedStays`, `NoHalfSnapshot`, `ReadsAreDurable`, `ImplementsPromise` |
| `CronJobsProofs` | `TypeCorrect`, `OneRun`, `SlotsOnce`, `RunsMatchJob`, `NoLateRuns`, `NextRunIsFirst`, `RhythmKept` |
| `ConcurrencyControllerProofs` | `TypeCorrect`, `CountIsHolders`, `NobodyWaitsForFreeSlots`, `QueuesAreWaiting`, `WithinLimit`, `FirstComeFirstServed` (finitely many requests) |
| `ModelExecutionProofs` | `TypeCorrect`, `AtMostOneUpstream`, `LeasesAreFollowed`, `CommitIsFinal`, `AbortIsFinal` |
| `StripeBillingProofs` | `TypeCorrect` (the billing variables), `OneSession`, `CreditsOnce`, `ProcessedMeansCredited`, `LedgerStaysSound`, `RetriesComplete` |
| `DocumentDeletionProofs` | `TypeCorrect`, `NoFileIsLost`, `Order`, `DeletesWholeOrNothing` |
| `WriterLockProofs` | `TypeCorrect`; `OnlyOneWriter`, `LiveLocksStay`, `MalformedLocksStay` (openings that do not overlap) |

Each rests on an inductive invariant `IInv` of its module: `InvInit`/`InitIInv` (or `InitInv`), one lemma
per action or group of actions, and `Invariance == Spec => []IInv`. Four properties need a second
invariant on top of it, preserved by the steps from states that satisfy both: `RecordInv`, `RhythmInv`,
`SInv` and `Orderly`. TLC checked each of these on a small instance before it was proved.

**`WorkspaceLock`.** `MutualExclusion` is not inductive: why may an unlink not hit the new holder's
file? The invariant says whose a file is at every place of a call. A call that is creating, holding or
removing the lock owns its file (`LockInv`); one in a recovery owns the claim (`ClaimInv`); what a
recovery is about to evict is a dead process's complete record (`EvictInv`), and it stays so because
only the owner of the claim evicts, and dead processes do not come back; what a call drops as its own
orphan is its process's (`DropInv`, `OrphanInv`), and nobody else in that process is inside
(`ThreadInv`). Two calls that hold would both own the one file. The refinement maps the abstract holder
to the running call at `held`; a crash of its process, a release, or the grant at `PostCheck` are the
only steps that are not stutters.

`OwnRecordRecoverable` speaks of processes whose calls are all over, which no step preserves. `RecordInv`
says it of every process that runs: a complete record, of the lock or of the claim, is in the hands of a
call that is at a place from which it still holds or removes it (`Answers`), or it is remembered as the
process's orphan, or its call threw before it handed the record over (`"abandoned"`, which is left by no
step). The step that matters is a removal that fails: it must leave the orphan behind before the
call is gone.

**`DurableStore`.** A scoped or staged operation between its first change and the end of its save is
the head of the scope's queue (`Inside`), so at most one of them is half applied in memory (`Applied`),
and it is the one that saves; if it fails there, the poison stops every later save and read. What is not
durable, nor found at the opening, belongs to the operation inside, or the store is poisoned (`Pending`):
hence readers see nothing else. `Snapshots` orders the copies (`durable`, `renamed`, `memory`), and says
that a clean memory is at the snapshot's name. It need not be durable after a process's death; but an
operation that has made its changes itself and finds the memory clean was written by another one's
completed save (`Clean`), which is what lets `SaveNothing` acknowledge.

**`CronJobs`.** `PendingIsCurrent`: a claim in a job's record was made for its present revision, and
the record's last run does not go on meanwhile unless a user revived it. `HeldIsLast`: a run of a
present job that goes on and was not revived is the record's last one. A run is only created while its
claim is in the record, so there is no other then. A removed job launches nothing more (`RunsOfSaved`
keeps its name from being new). For the slots, `SlotsBehind`: every slot claimed lies before the job's
next one, which lies after the last start; by `NextRunIsLater` (arithmetic of `\div`) the next one is
later than now after each claim.

`NextRunIsFirst` says what that arithmetic computes: of the times a positive number of whole periods after
the anchor, the first one past now. `RhythmInv` then carries `SlotsKeepRhythm`: slots claimed for the present
revision precede one another and the job's next slot by whole periods. It also needs that no claim is of
a later revision than the job, so that an edit or a manual run, which makes a new revision, starts with
no slots.

**`ConcurrencyController`.** `SlotsAccounted` needs the cardinality of the holders under each step, for
which the waiters let in must be distinct (`QueueIsWaiting`) and waiting (`Placed`). `NoIdleSlots` makes
the newcomer's look at the count alone fair: if a slot is free nobody waits.

**`WriterLock`.** Running processes are apart (`Apart`: different pids on one host, the same generation
across hosts), so a process proven to be a predecessor is dead (`PredecessorIsDead`); what an opening
process has captured stays dead, and in the file until it unlinks it, because nobody else is opening
(`OneOpening`, `SeenIsDead`).

**`ModelExecution`.** Whoever leaves an attempt has seen its upstream end or has aborted it (`Settled`);
and an attempt holds no generation before its lease (`Control`). So what runs unaborted is the attempt
that is awaited. That the walk picks a model at all is `BestIsModel`, by the well-foundedness of `<`.

**`StripeBilling`.** The intent is on disk before Stripe is asked (`Remembered`), so no crash forgets
that it was; in memory and on disk it is at least as old as Stripe's key, up to the age that counts
(`Aged`), so when the key is forgotten the intent is no longer submitted, and a session is made only
while there is none. An operation adds to the journal only a reference that is not in it
(`ResultsFacts`), and a purchase's is its session, which is paid (`JournalOK`, `SubjectPaid`); journals
grow except in a crash, which takes memory and books back together (`PInv`). `SessionsAssumption` says
that Stripe's session ids are no event ids.

`LedgerSound` says of every answered state what the journal alone must say of every state (`SInv`): all its
balances, from the first entry on, are not negative; what closes a reservation closes one that the
journal opened, with its amount, and nothing else closes it; and a reservation's record stands on an
entry. The account may lag behind between two changes of an operation that was cut short, so it is only
tied to the journal once an operation was answered. `Balances` is recursive in the journal; induction
over it is done with `Least` (a set of numbers that is not empty has a least one, from the library's
well-foundedness of `<`): no least prefix fails. `AskedAgain` is the lemma on the three changes behind
`RetriesComplete`: whichever of them, or of the repairs before them (`RepairedTwice`), a throwing call came
after, the repeated operation rebuilds the account
and the reservation from the journal, finds its own entry or not, and has exactly the ends it would
have had at once.

**`DocumentDeletion`.** `DestinationsFree` says of each kind of operation why the destinations of the
files still to be moved are free: a prepare's directory is new; what a failed prepare undoes has left
its place under the same lock; a rollback has looked first, and undoes into the directory it has just
emptied. A transaction's record names all it holds (`Recorded`), so a rollback that has moved every
named file removes an empty directory, and only a commit removes files.

`AllOrNothing` speaks of states between operations; `Orderly` says where the files of the document under way
are at every step (`Progress`: together its places and its transaction hold all of them, unless a commit
has begun or another transaction holds them, and then the rollback cannot get to its end), that every
other document is settled, and that the records name whole documents. It holds as long as `sound` does.

**Only model-checked.** The liveness properties (`DeadOwnerRecovered`, `SoleSurvivorAcquires`,
`EveryOperationAnswered`, `ClaimsEnd`, `WaitersAnswered`, `PredecessorReplaced`, `RequestEnds`,
`LeasesReturned`, `PaidIsCredited`): reasoning about fairness needs ENABLED, which the prover does not
handle. Every safety property of a passing run is a theorem.

**Only proved.** `SlotsKeepRhythm` and `RetryCompletes` are in no run: with periods of one tick, as in
`cron_jobs`, the first says nothing, and the second, which compares every operation with its repetition in
every state, makes `billing_credits` about three times slower. Both were tried with TLC before
they were proved: the first, with `RhythmInv`, on periods of two ticks, times up to 6, two revisions, two
claims and a restart (1,153,838 distinct states); the second on the instance of `billing_credits` (248,952),
where a `Repeated` that does not rebuild the reservation violates it.

## 6. Where the code and its documents disagree

- **A continued run does not hold its job** (`cron_held`, `HeldWorkPreventsLaunch`).
  `src/roboTeamAgent/docs/operations.html:57` says that pending, running or paused work prevents another
  launch of the job. `_tick` and `runNow` look at the run of `lastFlowId` only; a run that ended, was
  followed by another and was then continued by a user goes on beside the next launch. What does hold
  is `OneRunPerJob`: runs that were *not* continued exclude each other.
- **A slot is lost when an embeddings request's credentials fail** (`slots_returned`, `SlotsReturned`).
  `executeDirectEmbeddingModel` takes its slot at line 215 of `embeddings-route.mjs` and awaits the
  credentials before the `try` whose `finally` returns it. `concurrency-controller.mjs:37` and
  `src/soul-gateway/docs/specs/DS007-streaming-and-errors.md:58` require the release in every outcome.
  `SlotsAccounted` shows that this is the only path that loses one.
- **Two processes that start together may both become the writer** (`writer_race`, `OneWriter` with
  overlapping openings). Both capture the dead predecessor's record; one replaces it; the other, already
  past its comparison, unlinks the new file by name. The one whose lock was replaced goes on until it
saves: `save` reads the lock again (`durable-storage.mjs:236`) and stops it there. `src/docs/specs/DS012-user-persisto.md:353`
  promises that the exclusive lock refuses a live second writer.

Met while modelling, visible in the models, and without a run of their own:

- A walk whose budget expires, or whose account fails, during the *last* attempt it is allowed ends with
  `TierExhaustedError` (`WalkEnds`: the count is looked at first, `cascade-middleware.mjs:97` and 174).
  `src/soul-gateway/docs/specs/DS002-model-strategy.md` promises a provider timeout, and
  `DS007-streaming-and-errors.md` the account's error.
- A deletion is announced as atomic (`src/explorer/mcp-config.json:933`). A crash between the first rename
  and the record leaves the document in two halves that no recovery takes up, and a crash in a rollback
  leaves a file at its place, at which every later rollback is refused, while the comment at
  `markdown-crdt-store.mjs:1456` expects a later retry to work. Nothing is lost in either case
  (`NothingLost`), and `AllOrNothing` excludes them by its condition.
- `orphaned` is there so that a process does not refuse "its own live pid forever"
  (`workspaceStateLock.mjs:19`). A throw between a record's completion and its hand-over (lines 191 to 194,
  212) leaves a complete record of a running process that no call holds and `orphaned` does not have: the
  exception of `OwnRecordRecoverable`.
- A recovery claim whose removal failed, or that was abandoned in that way, is complete, of a running
  process, and of no call. Other processes wait behind it for as long as that process runs and makes no
  further call that drops it (`ClaimLeft`); an abandoned one is never dropped.
- Opening the user store does not sync the directory (`durable-storage.mjs:178-208`). What a process found
  after its predecessor died between the rename and the sync can be read, and a later crash of the machine
  can undo it (`found`, the exception of `ReadersSeeDurable`). An operation that is asked again and finds
  its changes made would even be acknowledged by a save that has nothing to write; in the model each
  operation is asked once.
- When the transaction that clears a failed launch's claim throws (`workflow-scheduler.mjs:92-97`), the
  claim holds the job until somebody edits it or the service restarts (`SettleThrows`, the exception of
  `ClaimsEnd`), and the tick that awaited the launch ends before its other launches do.
- A deletion that finds its document by a stranded state moves whichever Markdown is at the path.

## 7. What is not modelled

- *In the modelled components:* the contents of records and messages, permissions, logging; the
  directory checks before a lock is used; time as a number in the locks (deadlines are choices); nested
  keys inside the persistence scope and the save at shutdown; the legacy import of the store; the
  validation of a job's fields, its folders and daily timings (`schedule-timing.mjs:50`, whose tests
  enumerate the changes of daylight saving); the post phase of a provider's middlewares
  (`model-execution.mjs:157-173`); nested tiers, cooldowns and changes of the catalogue during a request;
  subscriptions, the refusals of checkouts and events that contradict stored data, reservations under
  their older global ids, sums beyond a safe integer; file tools that write a document without its lock,
  and that lock itself, which `DocumentDeletion` assumes.
- *Components:* those of section 1.2. Some are planned (section 8); the others are adapters, user
  interface, or one step per request, where a model would restate the code. The Persisto engine is
  vendored, Automerge, Podman, npm, SQLite, Stripe and Ploinky are external.

## 8. Plan

In this order; each module has a proofs module for the safety properties named.

1. `DocumentLock` (`markdown-crdt-store.mjs`): heartbeats, staleness, the check at line 496 and the
   removal after it; *then* composed with `DocumentDeletion`, whose lock it is. *Property:* one holder as
   long as heartbeats come in time.
2. `EmailAttempt` (`emailAttempts.mjs`, `throttle.mjs`) and `SingleUse` (`operationGrants.mjs`,
   `passwordReset.mjs`, `googleTransactions.mjs`): generations of a code against late delivery results;
   consumption in the commit of the effect. *Properties:* guesses are bounded over any sequence of
   resends; completion once.
3. `TaskContinuation` (`workspaceTasks.mjs`), composed with `ExclusiveLease`: claims, lost answers,
   reconciliation.
4. `RobotSlots` (`gui-manager.mjs`, `run-manager.mjs`, `tool-cache.mjs`), `LiveSession`, `TaskFlow`.
5. Proofs: `OneWriter` carried over to `DurableStore` (the composition: a store whose restarts are the
   openings of `WriterLock`).
