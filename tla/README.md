# TLA+ models of the Codex-Boss state core and commander

Codex-Boss is an Electron application that lets one owner run long tasks on
several AI runtimes (web sessions, CLIs, local models).  What makes it more
than a user interface is a set of durable protocols: a SQLite state core with
an event journal, a migration of the older JSON files into it, and a commander
that dispatches jobs, isolates failing runtimes and wakes them up again, and a
controller that leases tasks to the nodes of a fleet.  The
modules in this directory model those protocols; TLC checks them on small
instances, and TLAPS proves the most important properties for every instance.

Contents: 1 inventory; 2 plan; 3 modules and the code they stand for; 4 runs;
5 bounds; 6 fairness; 7 proofs; 8 where code and documents disagree; 9 what is
not modelled; 10 how to run.

Paths are relative to the root of the repository; `sc/` is short for
`electron/state-core/`, `cm/` for `electron/commander/`.

---------------------------------------------------------------------------

## 1. Inventory

The program is JavaScript on one event loop.  Its concurrency is therefore the
interleaving of *asynchronous calls at `await`*, of timers, of crashes and
restarts, and of several separately committed writes to SQLite and to JSON
files.  There is no shared-memory race; the hazards are stale locals after an
await, several commits that should have been one, and volatile state that
disagrees with durable state after a restart.

| Component | State | Operations | Interacts with |
|---|---|---|---|
| **Event journal** `sc/event-journal.ts` | `event_journal` (sequence, key, payload), `event_quarantine` | append (idempotent on producer + key), read a batch, quarantine | written in the transaction of the change it announces; read by consumers |
| **Event consumer** `sc/event-consumer.ts` | `event_consumer` (last_sequence, failures), `event_handled` | deliver, seek, markHandled, reset | awaits a handler per row |
| **Event bus bridge** `sc/event-bus-bridge.ts` | subscriber lists | subscribe, pump | handler = subscribers in order, then the volatile domain bus |
| **Namespace migration** `sc/namespace-migration.ts` | one authority record per namespace | declare, beginShadow, recordComparison, promote, demote | compared by `sc/shadow-compare.ts` |
| **Decision-ledger migration** `sc/decision-ledger-migration.ts`, `cm/decision-ledger-store.ts`, `electron/bootstrap/state-core.ts` | rows, JSON file, map in memory, journal events | boot and import, append(All), list, compare, reconcile | the first namespace that is moved |
| **Execution supervisor** `cm/execution-supervisor.ts`, `cm/interruption.ts`, `cm/task-ledger.ts` | task checkpoint: jobs, attempts, retryAt, nextAction, counters | execute (join, dispatch, fall back, sleep, park) | breaker, scheduler, budgets, recovery scheduler |
| **Circuit breaker** `cm/circuit-breaker.ts` | one stored record per runtime, probe counter in memory | admit, observeSuccess, observeFailure, cancelProbe, reset | called around every dispatch |
| **Recovery scheduler** `cm/recovery-scheduler.ts` | map of wakeups, `recovery.json` | schedule, resumeTask, runDue, start, dispose, cancel | domain bus (DEPENDENCY_READY), handlers that call the supervisor |
| **State database** `sc/database.ts`, `sc/transaction.ts` | connection, nesting depth | withTransaction with savepoints and retries | everything in `sc/` |
| **Schema migrations** `sc/migration-runner.ts` | version markers, checkpoints of the file | apply, adopt, refuse | opened before everything else |
| **State repository** `sc/state-repository.ts`, `sc/state-quarantine.ts` | rows with position and revision | put, delete, quarantine, restore | namespaces |
| **Scheduler and budgets** `cm/scheduler.ts`, `cm/budget-manager.ts` | batches in flight, budget windows | batch, executeWithTimeout, consume | supervisor |
| **Main commander** `cm/main-commander.ts` | task phase, provider state | start, resume, cancel | supervisor, finalizer, store |
| **Finalizer, execution gate** `cm/task-finalizer.ts`, `cm/execution-gate.ts` | final response, approvals | finalize; propose, approve, execute | verification gate |
| **Store and dispatch** `electron/store.ts`, `electron/provider-automation.ts` | tasks, runs, dispatch checkpoints | persist, reconcile after restart | task ledger, wakeups |
| **Engineering runtime** `electron/engineering/` | step graph over one checkpoint | parallel batches of steps | supervisor |
| **Self-evolution and promotion** `electron/self-evolution/`, `electron/promotion-gate/`, `electron/root-recovery/` | stable pointer, candidates | promote, roll back, kill switch | restarts of the host |
| **Fleet controller** `electron/tenx/fleet-controller.ts`, `src/shared/tenx/fleet.ts` | members, leases, one JSON file | join, heartbeat, refresh, lease, checkpoint, complete, transfer, handle a dropout | nodes |
| **Capabilities, research, learning, host** | grants, rounds, statistics | see PROJECT.json | |

### What is hard in each, and what makes it correct

*Event delivery.*  Rows are delivered at least once and in order.  Hard: the
effect of a subscriber and the commit of marker and cursor are apart by an
`await`, so a crash may repeat a row; two `pump()`s may overlap; a row may stop
decoding; a subscriber may throw after others completed; recovery tools move
the cursor under a running pass.  Correct means: the cursor never passes a row
a called subscriber missed; subscribers see commit order; marker and cursor
agree; a row is announced as new once more only when its recording was lost; a
pass brings every readable row in its reach.

*Ledger migration.*  Two stores hold the same decisions while authority moves
from one to the other.  Hard: one append is up to five commits (JSON, row per
entry, event per entry, comparison), each of which may be the last one before a
crash, or be refused.  Correct means: one side has authority; an acknowledged
decision is in the list the owner reads; an event announces only what is
recorded; promotion needs a full run of agreements; after promotion nobody is
answered before row and event are committed; the JSON file is frozen then.

*Supervisor.*  A job is launched, fails in one of seven ways, is retried,
handed to another runtime, put to sleep, left to a durable wakeup or parked for
a human.  Hard: several jobs of one task run in parallel over one checkpoint,
which the store, the graph runtime and the verification gates write too;
calls for the same job arrive while one is asleep; a crash leaves a job
RUNNING whose effect may have happened.  Correct means: bounded launches and
budget; one call per job; completed jobs stay completed unless the output
contract takes the result back; a job that may not be replayed is started again
only after its hold was overwritten; calls return.

*Breaker.*  Hard: several dispatches are in flight and report after the state
changed; the probe count belongs to the runtime and not to the dispatch; a
dispatch may end by an exception, and the breaker's own write may be refused.  Correct means: isolation only after a full
streak, one probe, and isolation that ends.

*Recovery scheduler.*  Hard: a pass works on the record objects it collected
while `schedule()` replaces them; memory and file differ after a refused write,
which also skips the arming of the timer; a restart repeats what was RUNNING.  Correct means: bounded handler calls,
parked stays parked, fires once, the earliest deadline wins, nothing is
forgotten.

*Transactions.*  One connection, nested units, retries, a counter that must
agree with SQLite's own nesting.  Hard: a COMMIT that fails outside the inner
`try`, SQLite ending the whole transaction under a nested unit, a retry inside
a retry.  Correct means: a unit is in the database entirely or not at all, a
value is durable when it is returned, a refused unit leaves nothing, calls end.

*Repository.*  Positions are `MAX + 1` over the live rows and are therefore
reused; quarantined rows come back later.  Correct means: rows that stayed are
listed in the order they were written, quarantine neither loses nor duplicates
a row, and the revision tells every other change.

*Retry loop.*  The supervisor writes a deadline into the task ledger and then a
wakeup into another file; the wakeup's handler calls the supervisor, which may
schedule the very wakeup that is running.  Hard: two files, a handler that joins
a call somebody else started, a user who pauses or finishes the task meanwhile.
Correct means: a job that waits is watched by a wakeup, a wakeup whose handler
said "done" left a finished job, and the scheduler's own assumption (handlers
settle) is what the supervisor provides.

*Fleet.*  Nodes fall silent and come back, leases expire, late reports arrive
for tasks that moved, a refused write swallows what an operation would report.  Correct means: a task changes hands only if it may be
replayed, its checkpoint moves with it, and no task waits for a node that is
gone.

*Not yet modelled* — schema steps (crash between DDL and marker), store and
dispatch (checkpoint overwritten, reconciliation), finalizer (gate asked before
an await), execution gate (a proposal replaces a running one), the second lease
registry, stable pointer (any earlier accepted boot).  PROJECT.json lists each of these hazards at its line.

---------------------------------------------------------------------------

## 2. Plan

Order: what the rest rests on first.

1. **Done: the protocols.** `EventDelivery`, `LedgerMigration`,
   `ExecutionSupervisor`, `CircuitBreaker`, `RecoveryScheduler`, each with its MC
   module and proofs.
2. **Done: the database layer.** `Transaction` and the abstract `AtomicStore` it
   implements; `StateRepository` with quarantine, each operation of which is one
   transaction.  `LedgerMigration` takes the same promise for granted.
3. **Done: composition and hosts.** `RetryLoop` composes `ExecutionSupervisor`
   and `RecoveryScheduler` through the wakeup handler of `MainCommander`;
   `Fleet` is the lease controller.
4. **Done: proofs** about every component and about the composition, which
   implements both of its parts.
5. **Open.** The breaker as a third part of the composition; `TaskStore` (store,
   dispatch checkpoints, provider views) and the resume gate of `MainCommander`,
   which overwrite the same checkpoint; `SchemaMigration`; `ExecutionGate`,
   `TaskFinalizer`, `EngineeringRuntime`; `StablePointer`, `CapabilityBroker`,
   `ResearchSupervisor`.

Abstract specifications: the *atomic store* (stated and implemented) and the
*scheduler of wakeups with handlers that settle* (stated as `RecoveryScheduler`
and implemented by `RetryLoop`).  Worth stating next: an *ordered at-least-once
log* for the subscribers that are called, which `EventDelivery` implements when
passes do not overlap; a *ledger* with one atomic `Record`
action, which `LedgerMigration` implements without demotion and degraded boots;
a *lease* with one owner at a time.

Every safety property that a passing run checks is stated by a theorem; what
the runs alone show is liveness (end of section 7).

---------------------------------------------------------------------------

## 3. Modules and the code they stand for

Each `MC*` module only extends its specification and adds the
definitions a cfg cannot write.  Proofs live in `*Proofs` modules
that extend the specification.  A definition whose comment starts with
"Mutant:" is no part of the specification; it is the definition after it with
a plausible bug, and PROJECT.json names the property that must then fail.

History variables, which the code does not have, are named `history:` where
they are declared.

### EventDelivery

One consumer, `NSubs` subscribers in the order `subscribersFor()` calls them,
those in `Async` returning a promise.  A row is its sequence number.

| Model | Code |
|---|---|
| `head`, `damaged`, `quarantined` | `event_journal`, rows that `decode` refuses, `event_quarantine` |
| `cursor`, `failures`, `handled` | `event_consumer`, `event_handled` |
| `pass[p]` | locals of one `deliver()`: rows of the batch, remaining limit, whether the awaited row is fresh |
| `Pump(p)` | `deliver()` from its call to the first await |
| `Resume(p)` | the await returned: marker and cursor in one transaction, on to the next await |
| `HandlerThrows`, `Reject` | a subscriber throws, synchronously or by a rejected promise |
| `RecordFails` | the recording transaction is refused |
| `Crash` | process dies before or after the awaited effect |
| `Seek`, `MarkHandled`, `Reset` | recovery tools, also under a running pass |

`Called` is where the model follows `pump()` most closely: it returns the
promise of the *first* asynchronous subscriber, so those after it are not
called for the row, ever.  The properties speak of `Called`; nobody is assumed
to call `pump()` again.  `freshRuns` counts the completed runs of a row that
were told it is new, `unrecorded` those of them whose recording was refused or
lost in a crash.

### LedgerMigration

All code is synchronous, so one append never interleaves with another, but each
commit is a step.  `op.pc` is the next commit: `json` (map and file of the
legacy store), `put` (one row per entry), `publish` (one event per entry),
`compare`.  `Append` chooses the first write by authority, as `routedWrite`
does.  `DatabaseFails` may refuse any database write; while JSON is
authoritative a refused shadow write is recorded as divergence and the caller
is answered, as in the catch clause.  `Boot` restores, imports and starts the
shadow window; `BootDies` stops the import half way; `BootDegraded` is the
catch clause of the boot module, which ignores the migration record.
`Promote`, `Demote`, `BeginShadow`, `Compare` and `Reconcile` are the calls an
operator's script makes, and nothing is assumed to make them.  Entries carry no
time; `predates` is the set of entries whose `createdAt` lies before
`promotedAt`: what is stored by then, and any others that were made but not yet
appended.

Two branches of the code cannot be reached from any sequence of these actions
and have no counterpart: an append in the phase `shadow-disabled` (the boot
leaves that phase before anyone can append) and a comparing phase with database
authority.

### ExecutionSupervisor

`ledger` is the checkpoint of one task; `call[c]` are the calls of `execute`
in flight.  `TryCandidates` is the head of the loop from a candidate index
up to the next dispatch or return; it decides on the checkpoint it reads,
including the attempts ceiling and both task limits.  `Execute`, `Succeed`,
`Cancelled`, `Fail(kind)` and `Wake` are the segments between awaits; `Fail`
runs `recoveryFor`, writes the interruption, then either goes on to the next
candidate in the same step or sleeps or returns, in the order the code asks.

Two writers of the same checkpoint belong to it, because `execute` depends on
what they write.  `TaskTransition` is `StateStore.persist`: whenever a task or
one of its runs changes, with no human and no guard, it writes the task's own
next action over whatever is there, a hold included (the graph runtime and the
verification gates write theirs in the same way); `TaskActions` are the values
to choose from.  `RejectOutput` is the output contract that rejects a completed
synthesis (`cm/main-commander.ts:662-667`): the job is FAILED then and may be
started again.  The same write may turn a synthesis that waits for a retry after
an unreviewed answer into FAILED; `execute` treats both states alike, so the
model leaves it WAITING.  `held` are the jobs parked under the hold that is in
the checkpoint, `erased[j]` how often such a hold was overwritten.

Whether the breaker or the budget refuses a candidate, and whether a runtime uses
the model, are left open; `RetryLoop` composes it with the wakeups.

### CircuitBreaker

One runtime, several dispatches.  `elapsed` is the one bit the breaker reads of
the clock.  `flight[c]` says as what a dispatch was admitted.  `Abandon` is the
dispatch whose checkpoint write throws between `admit()` and its result: the
supervisor then never tells the breaker.  `stored` is the record in the file;
`Refused` is the breaker's own write that throws after the map was changed and
before the probe is freed.  `kept` says that one of these exceptions kept the
probe, `lagging` that the record was read from a file a refused write left
behind.  `reset()` is modelled as public API, although no production code calls
it.

### RecoveryScheduler

`table` is the map, `file` is `recovery.json`, `queue` holds the collected
records a pass has not reached, `orphans` those of them whose object
`schedule()` has replaced since.  `Loop` is the body of `runDue` up to the next
handler call: records at the ceiling are paused on the way; a refused write
ends the pass and, when the timer had started it, disposes the scheduler.
`Schedule` covers the fresh record, the duplicate (earlier deadline, attempts
kept) and the record that is due already and publishes DEPENDENCY_READY, whose
subscriber enters `runDue` in the same step.  `armed` is the pending timeout,
which `Arm` sets or clears and `TimerFires` needs: `schedule()` and
`resumeTask()` write before they arm, so a refused write leaves a waiting record
without one.  `cancel()` has no caller and is left out.

### Transaction and AtomicStore

One connection.  `stack` is what SQLite would return to at each open level,
`work` what the connection sees, `disk` what survives the process.

| Model | Code |
|---|---|
| `depth` | `transactionDepth`, the module's own counter per handle |
| `frames` | the calls of `withTransaction` on the stack: attempt, depth saved at entry, rows written by the body |
| `Call`, `Begin`, `BeginFails` | the call, BEGIN IMMEDIATE or SAVEPOINT, and SQLITE_BUSY there |
| `Write` | a statement of the body; it commits by itself when no transaction is open |
| `BodyThrows` | ROLLBACK or ROLLBACK TO and RELEASE, the depth restored, run again or rethrown |
| `Abort` | SQLite ends the whole transaction (disk full, I/O error) under the body |
| `Release`, `Commit`, `CommitFails`, `Return` | the success path and its failures, which issue no ROLLBACK |

`AtomicStore` has no attempts, depth or connection: a set of units becomes
durable in one step, an answered unit is durable, a refused one never is.

### StateRepository

The rows of one namespace with position and value, the namespace's owner and
revision, and the quarantine.  `Put`, `AppendRow`, `Remove`, `Clear`, `Declare`
are the methods of the repository; `Quarantine`, `Scan` and `Restore` those of
the quarantine.  Which rows a decoder refuses is left open, because a restored
row is one that a bad reader refused.  `kept` is the history of the writes that
were neither replaced nor removed.

### Fleet

`member` is the record of a node and the age class of its heartbeat (READY,
DEGRADED, OFFLINE), `lease` the lease of a task, `dropped` the nodes that
`refreshStates()` returned and whose `handleDropout()` has not been called yet:
the caller holds that list in memory and a restart loses it.  Every operation
ends with `Persist`, which may refuse: the maps keep the change, the file
(`memberFile`, `leaseFile`) is `behind` until the next write, and the operation
throws.  In `RefreshStates` that drops the list of nodes it has already marked
OFFLINE.  `lost` names the nodes whose report or handling was lost, by such a
write or by a restart.  `Report` is the
common body of `checkpoint`, `activate`, `complete` and `fail`, which name a
task and not the node that calls.  `TakeoverAllowed` is `planTakeover`.

### RetryLoop

Extends `RecoveryScheduler`, whose wakeups are named after the jobs, instantiates
`ExecutionSupervisor` (`ES`), and adds the handler between them; what belongs to
the whole is called `Loop...`.  `next` is the synchronous continuation: what the
event loop runs before anything else, so only a crash can fall between the two
writes.  `Fail` decides as the end of the candidate loop does whether
`schedule()` follows; `CallSchedule` is that call, ignored for a record that is
RUNNING or PAUSED.  When `schedule()` cannot write recovery.json it throws, and
`execute()` with it (status `threw`): the handler then fails and `runDue` retries
it later.  `Timer` is `runDue` up to the handler's first await; `HandlerCalls` is
`execute()` after the health check (joined, refused or run), `Answer` and `Finish`
what the handler reports.  `TaskEnds` and `ResumeTask` are the user, who may resume
a task whether a wakeup of it is parked or not; both change the task, so both write
the checkpoint too (`ES!TaskTransition`), as does `TaskTransition` at any other
time.  `RejectOutput` is the supervisor's, and names the job as `unwatched` when it
falls between the handler's call and its answer.  A `Fail` that is `unreviewed` is
an answer that did not pass the review: `execute()` returns it with its own status.

---------------------------------------------------------------------------

## 4. Runs

Each module has one run that asks everything one instance can answer, and a
second one where the interesting instance is another.

| Run | Instance | Properties and what they say |
|---|---|---|
| `ed_single` | one pass, two synchronous subscribers, two damaged rows, a failure or crash, one recovery-tool call | `CursorAgreesWithMarkers`: until a tool is used. `FreshRunOnce`: a row is announced as new again only after a run that was not recorded. `PassDelivers`: a pass brings every row in its reach, except a damaged one and those behind a whole damaged batch. `TypeOK` |
| `ed_tools` | two overlapping passes, four subscribers, the third asynchronous and the fourth therefore hidden, a tool call in flight | `NoEventLost`: the cursor never passes a row a called subscriber missed. `InOrder`: nobody completes a row while an earlier one is owed to him |
| `lm_main` | three decisions, one of them in the baseline, batches, three faults, a demotion, a start without the database | `PromotionEarned`; `AckedIsListed`: an acknowledged decision is in the list, until a demotion; `PublishedIsRecorded`; `AckedIsAnnounced`: after promotion an append returns only with row and event committed. `TypeOK` |
| `es_parallel` | one replay-safe and one replay-unsafe job, two callers, two candidates, a crash, any changes of the task, rejected syntheses | `LaunchesBounded`, `BudgetRespected`, `CallsReturn`; `CompletedIsFinal`: except for the output contract; `OncePerErasedHold`: the unsafe job is started once, and once more for each overwritten hold. `TypeOK` |
| `cb_isolation` | four dispatches, threshold 3, a restart, a dispatch that ends in an exception, two refused writes | `CountsTheStreak`; `ProbeNotLeaked` and `IsolationEnds` unless an exception keeps the probe; `TypeOK` |
| `rs_wakeups` | two wakeups, a duplicate, a resume, a restart, a refused write | `RunsBounded`; `WakeupServed`, unless a refused write leaves no timer; `FiresOnce` without duplicates and refused writes; `TypeOK` |
| `tx_atomic` | three units, nested, three attempts, a failed COMMIT, an aborted transaction, a crash | `DepthAgrees`: the counter is SQLite's nesting wherever a body runs. `CallsEnd`. `ImplementsAtomicStore`: the refinement. `TypeOK` |
| `sr_records` | three keys, two owners, four writes, two removals, three moves to or from the quarantine | `StayersInOrder`, `NothingVanishes`, `RevisionTells`, `TypeOK` |
| `fl_takeover` | two nodes, one task, two leases, a restart, a refused write | `TakenOverFromCheckpoint`; `DropoutHandled` for nodes whose report was not lost and tasks no late report reopened; `TypeOK` |
| `rl_retry` | one replay-safe job, a user call, the wakeup's call, two candidates, a crash, a refused write, a resume, changes of the task, three schedules | `WaitingIsWatched`: a job that waits has a wakeup in memory and file. `ImplementsScheduler`: the loop is a `RecoveryScheduler` with its fairness. `LoopTypeOK` |

`RunsBounded` counts one extra call for each time a record was replaced after a
pass had collected it: those calls are real (section 8), and the bound says there
are no others.

Several properties hold only under a condition, which is part of their text.
Each condition marks a weakness of the code that can be seen by removing it or
by changing one constant:

* `CursorAgreesWithMarkers` and `CursorMonotone` (proved, section 7) need one
  pass.  With `Passes = {p1, p2}` in `ed_single` both fail: each pass writes its own
  position, so the slower one sets the cursor back below marked rows, although
  `sc/event-consumer.ts:146-147` says the two can never disagree.
* `PassDelivers` excepts the rows behind a batch that is damaged throughout
  (`Stalled`): `read` then returns nothing, which `deliver` takes for the end of
  the journal, and no later row is read by this or any other pass until a tool
  moves the cursor.  It speaks of
  one pass and what its limit covers, because no code calls `pump()` again.
* `NoEventLost` and `InOrder` speak of the subscribers that are called.  One
  behind the first asynchronous subscriber is not.
* `FreshRunOnce` needs one pass, and counts the runs that were not recorded:
  each of them makes one more announcement possible.
* `AckedIsListed` ends with a demotion: it returns authority to a file that was
  not written since promotion.  `JsonFrozen` (proved) excepts a boot without the
  database, which appends to the file whatever the migration record says.
* `AckedIsAnnounced` speaks of the time after promotion.  Before it, a refused
  event write is absorbed and the caller answered all the same (section 8).
* `ProbeNotLeaked` and `IsolationEnds` except a probe that an exception kept
  (`kept`): the checkpoint's write after `admit()`, or the breaker's own before
  the line that frees it.  It stays consumed until another dispatch ends, a reset
  or a restart.  `CountsTheStreak` excepts a record read from a file that a
  refused write left behind (`lagging`), until the next success.
* `WakeupServed` excepts the time without a timer after a refused write: one in
  `schedule()` or `resumeTask()` throws past `arm()`, one in a pass of the timer
  disposes of the scheduler.  The next schedule, resume, pass or restart ends it.
  `FiresOnce` excepts a record replaced by a duplicate and a refused removal.
* `CompletedIsFinal` excepts the replay-safe synthesis that the output contract
  rejects after it was completed.
* `OncePerErasedHold` is what is left of `SideEffectOnce`, which
  `es_replayed_effect` refutes: whoever writes `nextAction` erases the hold.
* `ImplementsAtomicStore` assumes that a body does not go on after an error with
  which SQLite ended the transaction.  With `CatchesAborts = TRUE` in
  `tx_atomic` a nested unit's `Write` after the abort commits by itself while
  the outer call still fails.
* `WaitingIsWatched` excepts the jobs in `unwatched`, which name five ways in
  which the wakeup is missing (section 8).
* `DropoutHandled` excepts nodes whose report was lost and reopened tasks, and
  `TakenOverFromCheckpoint` a restart from a file that is behind (section 8).

The runs that end in a counterexample are in section 8.  Deadlock is checked in
the delivery, migration, breaker and fleet runs.  It is not in the others: when
all jobs are completed, no wakeup is left, or the bounded number of units or
writes is used up, nothing remains to do and the system is simply idle.

---------------------------------------------------------------------------

## 5. Bounds and why they are enough

Every bound is a constant in a guard.

* **Delivery**: 3 or 4 rows, batch 2, so that a second batch is read and a
  damaged row stands first or last in one.  In `ed_single` two of four rows may
  be damaged, which is a whole batch with rows behind it; the limit of 4 covers
  them.  In `ed_tools` the limit of 3 ends a call in the middle of a batch when
  passes overlap; four subscribers give two synchronous ones before the
  asynchronous one and one hidden behind it; two passes suffice for each to
  overtake the other.  `Forwardable` has rows of both kinds.
* **Migration**: 3 entries, one in the baseline, batches of 2, so that a batch
  can be half written and a duplicate id refused; `RequiredClean` 2 lets a
  divergence reset a started run of agreements (10 in the code; the number
  itself plays no other role); 3 faults allow a refused write, a crash and a
  half import in one behaviour.
* **Supervisor**: 2 jobs and 2 calls; `MaxAttempts` 3 as in the code; 2
  candidates, so both "try the next one" and "last one" occur;
  `ModelLimit` 4 < 2 × 3 and `RetryLimit` 2 so that jobs compete for the task's
  limits while one job can still reach its own ceiling.  Changes of the task and
  rejected syntheses need no bound: they repeat the same states.
* **Breaker**: 4 dispatches against the code's threshold of 3: one late report
  after the trip; two refused writes, so that the file may lag behind by two
  failures.
* **Recovery**: 2 ids so that one is collected behind the other; 3 attempts as
  in the code; 2 schedules so that one id can be scheduled again after it is
  gone; one duplicate, resume, restart and refused write each, which already
  meet in every order.

* **Transactions**: 3 units and depth 2, so that one commits before, one nests,
  and one follows; 3 attempts (5 in the code) allow two failures of different
  kinds before a success; an abort, a failed COMMIT and a crash meet in every
  order.
* **Repository**: 3 keys, so that two rows stay around one that is removed or
  moved; 4 writes let a position be reused and a row be replaced after that.
* **Fleet**: a task, two nodes to move between and two leases: given, and given
  again after it settled; a restart and a refused write, in either order.
* **Retry loop**: one job, because the interplay is per job; two callers, so a
  wakeup may join a user's call; 3 attempts as in the code; three schedules of
  each kind.  `rl_retry` allows one model call and one retry: after a dispatch that
  used the model, or after one retry, the next is refused by the task's limit.  Within
  that the first call fails and schedules, the handler's call fails while its wakeup is
  RUNNING and is not scheduled, and a call meets the limit.  One refused write may be
  that of any handler or of the wakeup itself.  The proofs have no such limits, and
  a safety run with `RetryLimit = 4` and no refused write (620,248 states) found
  nothing more.

`fl_takeover` uses the symmetry of the nodes: it checks safety only, and no
definition names a node.  The largest runs are `fl_takeover` (1,099,371 distinct
states), `lm_main` (454,750), `rl_retry` (380,109) and `ed_tools` (339,573).  Every
other run checks a liveness property, a refinement with fairness, or is small
without it.

---------------------------------------------------------------------------

## 6. Fairness

* **EventDelivery**: `WF(Resume(p))`: a subscriber's promise settles.  Nobody is
  assumed to call `pump()`: so far only tests do.  A damaged row, a rejection and
  a crash need no fairness: they are bounded faults.
* **LedgerMigration, StateRepository, Fleet**: none; their properties are safety
  only.  Nothing in the program calls `reconcile()`, only
  `scripts/state-migration-report.cjs` does, so no property rests on it.
* **ExecutionSupervisor**: `WF(Step(c))`: `Scheduler.executeWithTimeout`
  races every dispatch with a timer, and an in-process sleep lasts at most a
  minute.
* **CircuitBreaker**: the clock advances, every dispatch settles, and somebody
  keeps asking for the runtime — a breaker nobody asks stays OPEN, which is
  harmless.
* **RecoveryScheduler**: time passes, the timer fires while it is armed (`armed`,
  which the code may fail to set), and every handler settles.  The last is an
  assumption about another component, which `RetryLoop` discharges:
  `ImplementsScheduler` is its `FairSpec`, fairness included, from fairness of
  single dispatches and timers.
* **Transaction**: `WF(Step)`: the code of a call is synchronous and runs on,
  whatever its statements answer.
* **RetryLoop**: `WF` of each call's step (as in the supervisor), of
  `schedule()`, which follows without an await, of the clock, of the timer while
  it is armed, and of the handler's health check and finalization, each of
  which settles or throws.

---------------------------------------------------------------------------

## 7. Proofs

Checked by `tlapm` down to the last leaf.  The assumptions are the `ASSUME` of
the specification (constants are numbers, subsets of each other) and what a
theorem itself assumes.  Where a theorem's property is checked by no run, it is
named as "proved only": what a run would add to it is small.

**EventDeliveryProofs**

* `TypeCorrect` — `Spec => []TypeOK`.  `TypeOK` is not inductive: that `Resume`
  keeps `left` in range needs that a pass waits only for rows it may still
  deliver.  `Window` adds: the rows still to do lie above the pass's position
  and within what the limit leaves of it.
* `NothingIsLost` — `Spec => []NoEventLost`, wherever the asynchronous subscribers
  stand.  `NoEventLost` speaks of the cursor only, but a pass that is waiting will move the cursor to a row it holds in
  its locals, possibly after another pass or a tool moved it elsewhere.  The
  strengthening `Backed` therefore says the same of each pass in flight: all
  rows up to its position are accounted for, and each row between its position
  and one it holds is held too or in quarantine.
* `MetInOrder` — `Spec => []InOrder`, likewise.  A subscriber
  completes the first row a pass holds; that no earlier row is still owed to
  him needs that the pass holds every readable row in between (`Dense`) and
  that the rows before its position are accounted for (`Backed`).
* `SinglePassMonotone` — `Spec => CursorMonotone` (proved only), assuming `SinglePass` (one
  pass).  `Aligned` adds that, until a tool is used, the waiting pass stands
  exactly at the durable cursor, which is what overlapping passes break.
* `CursorAndMarkers` — `Spec => []CursorAgreesWithMarkers`, and `FreshOnce` —
  `Spec => []FreshRunOnce`, both assuming `SinglePass`.  `Marked` adds the
  converse direction for the marker, and rests on `Aligned`; `FreshMarked` adds
  what a waiting pass will say of its first row.  With two passes, both wait for
  the same new row and each announces it as new.  `FreshMarked` balances the
  announcements against those that left no marker (`unrecorded`).

`SinglePass` is about the host, and the code does not enforce it: the tests, so
far the only callers of `pump()`, await each pass before the next.  It is the
condition of the run `ed_single`, and it is needed (section 4).

**CircuitBreakerProofs**

* `TypeCorrect`, `TripsOnly` (`TripsOnlyOnStreak`, proved only), `CountIsStreak`
  (`CountsTheStreak`), for any number of dispatches and any threshold.  None is
  inductive alone: the strengthening `Counting` relates counter, state and
  streak at once, including that a CLOSED count is below the threshold, for the
  record in memory and the one in the file.
* `ProbeKept` (`ProbeNotLeaked`).  `Probing` adds that a probe is consumed only
  while the record is OPEN and its cooldown over, and speaks of the time after an
  exception, also the breaker's own, too.

**LedgerMigrationProofs** — `TypeCorrect`, `OneSide` (`SingleAuthority`, proved only),
`EventsBacked` (`PublishedIsRecorded`), `NothingAckedIsLost` (`AckedIsListed`),
`FileFrozen` (`JsonFrozen`, proved only), `PromotionsEarned` (`PromotionEarned`) and
`AnsweredIsAnnounced` (`AckedIsAnnounced`), for any entries, crashes, refused writes
and calls of the operator.  One inductive invariant carries all seven:

* `Sides` — which side an append in progress writes, given the authority, and
  that the readiness a promotion asks for came from a full clean run.  A crash
  between two commits leaves the authority where it was, so the property about
  authority needs the one about the append in progress.
* `Progress` — which rows and events the commits so far have reached, given the
  append's next commit; without it a publication could run ahead of its row, or an
  append return with an event of its batch missing.
* `Kept` — where every acknowledged decision is until the first demotion: in
  the file while JSON has authority, in the rows before the database takes over.
  Demotion is the exception because it hands the answer to a file that was
  frozen meanwhile.

**ExecutionSupervisorProofs** (each with `Jobs # {}`)

* `TypeCorrect`, `LaunchLimit` (`LaunchesBounded`), `BudgetLimit`
  (`BudgetRespected`), for any jobs, callers, candidates, crashes and changes of
  the task.  `Bounded` is the inductive invariant: `Counted` (launches equal
  the attempts in the checkpoint, because the launch is recorded before the
  runtime runs) and `WithinLimits`.  It is an invariant because the ceilings
  are tested on the newest checkpoint in the same synchronous segment that
  writes the launch.
* `OneCallPerJob` (`SingleFlight`, proved only) and `CompletedStays` (`CompletedIsFinal`).
  The second is no consequence of the first state by state: `Unfinished` says
  that a call in flight works on a job that is not completed, and it is kept
  because no other call may complete the job meanwhile, which is `SingleFlight`.
  The output contract, the one exception of the property, touches no call.
  `OwnerMoves` is the common argument: a step that moves one call on the job it
  owns disturbs nothing.
* `EffectOnce` (`OncePerErasedHold`), for any number of jobs.  `Once` says where a
  job with an effect may be when it was started once more than its hold was erased:
  RUNNING, where `execute` stops it, completed, or parked under a hold that is still
  in the checkpoint.  The hard part is a call for *another* job, which may write
  `nextAction` over the hold whether or not it launches anything; `HoldingKeeps` is
  the one lemma about such a write, and `OthersOnce` says that it does nothing else
  to this job.  `NeverSleeps` excludes the in-process retry, which would launch
  without asking.

**TransactionProofs**

* `TypeCorrect` — `Spec => []TypeOK`, for any units, levels, attempts and faults.
  It needs `Nested`, which says at which step of its own each call on the
  JavaScript stack can be while another runs above it.
* `DepthRight` (`DepthAgrees`) and `Refines` (`ImplementsAtomicStore`, the
  refinement of `AtomicStore`), assuming `BodiesRethrow`: a body lets an error
  pass with which SQLite ended the transaction, or there are no such errors.
  The run makes the same choice (`CatchesAborts = FALSE`), and it is needed: a
  body that goes on after such an error writes outside any transaction
  (section 8).  The inductive invariant follows the call stack.  `Layers`: each
  level SQLite has open began with the durable rows plus those of the calls
  below it, so rolling one back returns exactly there.  `Owned`: the units of
  the open calls are new, distinct and not refused.  With both, a
  COMMIT is the abstract store's `Commit` of the call's units, a return of the
  outermost call its `Answer`, an error its `Refuse`, and every other step,
  retries and crashes included, a stutter.

**RetryLoopProofs**, of the scheduler alone: `TypeCorrect`, `Bounded`
(`RunsBounded`) and `Once` (`FiresOnce`), for any wakeups, ceiling, restarts,
duplicates and refused writes.

* `Covered` is the balance behind `RunsBounded`: the calls made, those a record
  may still lead to (`Owed`), and one for each replaced object that the pass
  still holds, are within what schedules and resumes granted.  It must hold of
  the map *and* of recovery.json, since a restart goes on from the file, which
  a refused write leaves behind the map.
* `PassShape`: what a pass collected is WAITING and its handler's record is
  RUNNING, unless the object was replaced.
* `DoneIsGone`: without duplicates and refused writes a finished wakeup is in
  neither copy.  `LoopOutcome` is the one lemma about the loop of `runDue()`,
  used by the timer, by `schedule()` and by an answer.

Of the composition: `LoopTypeCorrect` (`LoopTypeOK`) and `DeadlineWatched`
(`WaitingIsWatched`), for any jobs, callers, candidates, limits, crashes and
refused writes.  A deadline and its wakeup are in two files, and every action of
either component may write one of them; the inductive invariant `LInv` says who
may, and when:

* `RInv`, the scheduler's own invariant: each step of the loop is a step of the
  scheduler or leaves it alone (`SchedulerSteps`).  Changes of the task and a rejected
  output touch the ledger only (`TransitionKeeps`).
* `SupervisorInv`: no two calls share a job (`SingleFlight`), the job of a call
  in flight has no deadline (`Working`), and one that may not be replayed never
  gets one (`Undated`).  `MovesKeep` is the common argument: a step of a call on
  the job it owns disturbs nobody.  Without `Working` a call could begin while
  the job still waits, and end without scheduling what its ledger asks for.
* `Handling` ties the handler to the pass, and the handler's own call to the job
  whose wakeup is RUNNING: only so is that wakeup there when the call fails.
* `Continuation` says what is true between the write of the ledger and that of
  recovery.json: the handler that awaits the job is not in its own call any more,
  and if the call is about to return a success, which happens to an unreviewed
  answer, the job is one of the exceptions.
* `Finishing`: a handler about to report done leaves no deadline behind, with
  the exceptions of section 8; its answer removes the wakeup.
* `Watched`: the property, also while other jobs are being written, for all jobs
  but the one whose `schedule()` is next; and `Follows`: a wakeup in the map is in
  recovery.json too, unless its write was refused.

`LoopImplementsScheduler` (`LoopSpec => Spec`) is the part of
`ImplementsScheduler` that says nothing of fairness: what the scheduler assumes of
its handlers, that they answer once and with one of three answers, is what the
loop provides.  `LoopImplementsSupervisor` says the same of the supervisor, with
one caller more.  What is proved of the two alone therefore holds of the whole, as in
`LoopRunsBounded` and `LoopFiresOnce`.

**StateRepositoryProofs** — `TypeCorrect`, `Order` (`StayersInOrder`), `Kept`
(`NothingVanishes`) and `Revision` (`RevisionTells`), for any keys, owners and
bounds.

* `MaxIsAbove`: a bounded non-empty set of numbers has its `Max` as a member
  above all others, from the well-foundedness of the naturals; hence
  `MAX(position) + 1` is above the position of every row (`NewPosition`), which
  is what `StayersInOrder` rests on.  Positions are within the number of writes
  (`Bounded`), which bounds their type.
* `NothingVanishes` alone is not inductive: a second entry for the same write
  would survive a restore.  `AsideOnce` excludes it, and `Accounted` says the
  property write by write.
* `RevisionTells` is an action property, but it needs the invariant: that a
  quarantine is visible means that its entries were not there before.

**FleetProofs** — `TypeCorrect`, `Takeover` (`TakenOverFromCheckpoint`) and
`Dropout` (`DropoutHandled`), for any nodes, tasks, leases, restarts and refused
writes.  `Dropout` rests on `OfflineIsOld`: a node that is OFFLINE, in the map or in
the file, has an old heartbeat, so no lease or transfer takes it for online.
`FileIsMap`: unless the last write was refused, a restart reads what was in memory,
so what it loses is named by `lost` and by `behind`.

**Only model-checked.**  Liveness and everything that needs fairness or
ENABLED (`PassDelivers`, `CallsReturn`, `IsolationEnds`, `WakeupServed`, `CallsEnd`, and the fairness in
`ImplementsScheduler`) is out of the prover's reach.  `SideEffectOnce` and
`DoneMeansReviewed` are refuted (section 8).  No module uses a recursive
operator, so none is barred from proofs by one.

---------------------------------------------------------------------------

## 8. Where code and documents disagree

Two runs check one sentence of the repository each and end in a
counterexample; PROJECT.json quotes the sentence.

| Run | Property | What happens |
|---|---|---|
| `es_replayed_effect` | `SideEffectOnce` | Two parallel jobs of one task: the start of one erases the hold of the other, which is then launched again without a human decision. The run has no other writer of the checkpoint (`TaskActions = {}`). |
| `rl_unreviewed` | `DoneMeansReviewed` | An answer that fails the review is returned with the runtime's own status `success`; the wakeup's handler reports done and the wakeup is removed, while the job still waits for its retry. |

Met while modelling, and visible by changing one constant or dropping one
condition, without a run of its own:

* An asynchronous subscriber that is not the last hides the row from those after
  it and from the bus, and the cursor passes (the fourth subscriber of `ed_tools`;
  `sc/event-bus-bridge.ts:141` against 134-136).
* A batch of rows that are all damaged blocks the journal
  (`sc/event-consumer.ts:131` against `sc/event-journal.ts:30-33` and 225-226): the
  disjunct `Stalled` of `PassDelivers`.
* `StateStore.persist` overwrites the hold of a parked job whenever the task or one
  of its runs changes (`electron/store.ts:1136`), against "prior side effect must be
  verified before replay" (`cm/execution-supervisor.ts:30-31`): with
  `TaskActions = {"NEXT_STEP"}` one job alone refutes `SideEffectOnce`.
* The output contract turns a completed synthesis into a job that is run again
  (`cm/main-commander.ts:665`).
* A refused write in `schedule()` or `resumeTask()` leaves a waiting record without
  a timer (`cm/recovery-scheduler.ts:32`, 44), one of the breaker on its failed probe
  keeps the probe (`cm/circuit-breaker.ts:117`), and one in `refreshStates()` loses
  the dropped nodes (`fleet-controller.ts:97`).
* A refused shadow write is absorbed; after promotion the decision predates
  `promotedAt`, so `reconcile` skips it for ever and it is never announced
  (`sc/decision-ledger-migration.ts:298`).
* A dispatch that was never the probe gives the probe back, and a second one
  enters (`cm/circuit-breaker.ts:134` against 46-48).
* A wakeup replaced under a running pass fires from the old object, reports
  done, and fires again (`cm/recovery-scheduler.ts:54` and 62).
* A body that catches an error which ended the transaction goes on writing
  outside any transaction (`sc/transaction.ts:102-110`).
* A restored row may share its position with a newer one
  (`sc/state-repository.ts:181`); `StayersInOrder` therefore speaks of rows that
  stayed.
* `transfer()` does not ask `wasLegallyTransferred` (`fleet-controller.ts:151-169`,
  unlike `task-lease-registry.ts:96-98`); a lease of replay safety `unknown` with
  a checkpoint is parked by a dropout but no takeover is ever allowed (211-213); a
  restart between `refreshStates()` and the write of `handleDropout()` loses the
  report; a late report reopens a task that had settled.
* A crash between the ledger write and `schedule()` leaves a job waiting with no
  wakeup (`cm/execution-supervisor.ts:100-110`), and so do a refused write of
  recovery.json there (`cm/recovery-scheduler.ts:26-35`) and a retry on the next
  candidate which the breaker or the budget then refuses
  (`cm/execution-supervisor.ts:108`, 48, 123).  These three, the unreviewed answer,
  and an output rejected while the handler that completed the job is about to report
  done, are the exceptions of `WaitingIsWatched`.  The last needs a retry after the
  rejection while that handler still runs; within the code's three attempts the
  runs do not reach it, but the theorem is for any ceiling.

---------------------------------------------------------------------------

## 9. Not modelled

* `cancel()` of the recovery scheduler and wakeup kinds without a handler: no
  caller.
* Explicit `quarantine()` of an event, queries, and subscribing while rows are
  in flight.
* What else `StateStore.persist` and the engineering runtime write into the task
  checkpoint: only the overwriting of `nextAction` is modelled (`TaskTransition`).
* A refused write of the task ledger itself, except where the breaker's probe
  depends on it.
* The clock: deadlines and cooldowns are one bit, "over or not".
* The late effect of a dispatch that timed out: the runtime is outside the
  repository.
* Token counts, session bookkeeping, stage and verification records,
  formatting, user interface, prompt building, literature handling, and
  operating-system and browser access: data or input and output, no protocol.
* Corruption of the JSON ledger (restoring it throws and the boot stops) and
  namespaces that start on the database.

* The resume gate of `MainCommander` (`canResumeTask`), plan execution and
  finalization beyond their outcome; `TaskFinalizer`, `ExecutionGate`, the
  batches of the engineering runtime: next in the plan.
* `SchemaMigration`: a chain of DDL steps whose content decides what a crash in
  between leaves; the stable pointer and the rest of self-evolution: protocols
  over host restarts, in the plan but behind the above.
* `TaskLeaseRegistry`, a second lease table beside `Fleet`, and
  `ResearchSupervisor`: independent of the parts modelled.
* The `stalled` flag of `sc/recovery.ts`: a report, which nothing reads back.

PROJECT.json lists every component with its status and the reason.

---------------------------------------------------------------------------

## 10. How to run

    tlc -workers 2 -config ed_single.cfg MCEventDelivery
    tlapm EventDeliveryProofs.tla

The prefix of a cfg names its module: `ed_` MCEventDelivery, `lm_`
MCLedgerMigration, `es_` MCExecutionSupervisor, `cb_` MCCircuitBreaker, `rs_`
MCRecoveryScheduler, `tx_` MCTransaction, `sr_` MCStateRepository, `fl_` MCFleet,
`rl_` MCRetryLoop.
