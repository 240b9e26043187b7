# Formal models of ecky's orchestration core

ecky is a desktop CAD application: a Tauri (Rust) backend with an MCP server, a
Svelte frontend and a Scheme-based modelling language. A user or an agent works on
*threads* of versions; the backend plans, builds and verifies versions in bounded
*cycles*, hands prompts to provider processes (Codex, Antigravity), and keeps a
project folder on disk in step with the thread. This directory models that
orchestration in TLA+, checks it with TLC and proves the core's main properties with
TLAPS.

Paths below are relative to `src/src-tauri/src/` unless they say otherwise.

## 1. Inventory

| Component | State | Operations | Hard part |
|---|---|---|---|
| Build queue, `build_queue.rs` | per target: running, interactive slot, controller FIFO; submission counter | submit, start_next, finish, remove_pending, publication_allowed | atomic hand-over, latest-wins beside FIFO |
| Run registry, `exploration_run_registry.rs` | the queue, `superseded`, `cancelled`, a `Notify` | admit, finish, cancel, is_running, is_cancelled | three mutexes and a broadcast; lost wakeups; two tombstones |
| Cycle reducer, store and commands, `exploration_cycle.rs`, `exploration_store.rs`, `commands/exploration_cycle.rs` | a packet and `build_started` per cycle, in SQLite | start, plan, build started, appended, verify, decide, answer, provider failed, stop, recovery | retained evidence, budget, late commands, restart |
| Run driver, `commands/exploration_run.rs` and parts of `commands/generation.rs`, `mcp/handlers/exploration.rs` | run-local variables over the two above | start run, stop run, question run, MCP answer | every await is a race with stop, the next run and MCP clients |
| Codex prompt queue, `services/codex_takeover.rs`, `commands/codex_takeover.rs` | rows of `agent_prompt_queue`, the binding, rotation lineage | send, claim, dispatch, defer, retry, remove, stop, recover | many dispatch loops over the same rows; crash after dispatch; a claim lost by an error |
| Turn policies, `models.rs`, `commands/codex_takeover.rs` | a lease per thread | set, install against a snapshot, roll back | a steer's rollback after a successor |
| Codex app server, `services/codex_app_server.rs` | process, generation, pending replies, runtimes, ended turns, evaluation captures | start process, request, reply, notification, timeout, invalidate | late lines of old processes and old requests |
| Codex voice, same file | session of the thread, cancellation record | start, stop, negotiate, drain | a stop before, during and after the start it stops |
| Agy provider, `commands/agy_provider.rs`, `services/agy_provider.rs` | queue rows, leases, sessions, turns, processes | send, dispatch, finalize, compact, first send, stop, retry, reconcile | many dispatchers; five ways a turn may end; crash |
| Project folder, `mcp/handlers/project_folder.rs`, `thread_source_binding.rs`, `project_mirror.rs`, `services/render.rs` | file, manifest, versions, watcher memory, drafts, render flights | tick, apply, refresh, export, cancel, repair | check then write over several awaits, by two sessions |
| Configuration, `config_store.rs`, `lib.rs`, `cairn.rs` | two files, a lock, memory | load, save, migrate, configure | every file operation may be the last |
| MCP sessions and prompts, `models.rs`, `mcp/server.rs` | maps of sessions, prompts, captures | open, answer, time out | answer racing a timeout |
| Versions and history, `db.rs`, `services/*.rs` | append-only versions, drafts | append, restore, delete | identical drafts, deletion |
| MCP runtime, other services | child processes, sketch previews, component index | start, supersede, index | process death |
| Frontend stores (`src/src/lib`) | projections of backend state | refresh, apply | stale results |
| Language, geometry, FEM | none (pure) | compile, lower, render | none for a model checker |

How they interact. `start_exploration_run_core` admits a request through the
registry, which serialises the runs of a thread with the build queue; the run drives a
cycle through the cycle commands, each of which loads, reduces and saves one packet
under the database lock; `generate_design_core` records its own model calls on the
thread's latest active cycle; a stop cancels in the registry and stops the latest
active cycle. A prompt for Codex is a durable row; dispatch loops, started by sends,
retries and polls, claim it, set a policy and ask the app-server supervisor to start a
turn; the supervisor's notifications and reconciliations tell the loops when the thread
is free. Steers and voice sessions use the same supervisor beside the queue. Agy has a
queue of the same table and a supervisor of its own. The folder watcher and MCP clients
apply the file `model.ecky` through one handler, which appends, renders, verifies and
accepts or deletes a version; editor commits and exports write the file back. The
configuration is read at start-up and saved by settings panels and by the command line.

`PROJECT.json` lists the hazards, each at its line with the properties about it.

## 2. Modules

| Module | Models | Composes |
|---|---|---|
| `BuildTurns` | what the queue promises: the status of each request, no containers | |
| `BuildQueue` | `build_queue.rs`; implements `BuildTurns` | INSTANCE `BuildTurns` |
| `ExplorationAdmission` | `exploration_run_registry.rs` and its callers' protocol | EXTENDS `BuildQueue` |
| `CycleReducer` | the reducer, the packet and recovery, as guards and results | |
| `ExplorationCycle` | one cycle under its commands in any order, with restarts | EXTENDS `CycleReducer` |
| `ExplorationRun` | runs, stops, MCP answers and a crash on one thread | EXTENDS `BuildQueue`, INSTANCE `CycleReducer` |
| `CodexQueue` | prompt rows, dispatch loops, supervisor polls, the provider | |
| `CodexSteer` | steers and policy leases beside the queue | EXTENDS `CodexQueue` |
| `CodexAppServer` | the app-server supervisor, its processes and callers | |
| `CodexVoice` | voice sessions of one thread | |
| `AgyQueue` | Agy's queue, dispatchers, finalizers and supervisor | |
| `ConfigStore` | configuration files, lock, start-up, saves, power loss | |
| `ProjectFolder` | folder, versions, watcher, applies, render flights, cancellation | |
| `ExplorationAdmissionProofs` | the queue's invariant, the order of grants, the refinement of `BuildTurns`; the registry's invariant; no wakeup is lost | EXTENDS `ExplorationAdmission` |
| `ExplorationCycleProofs`, `ConfigStoreProofs` | inductive invariants and the theorems that follow | EXTEND the module proved about |
| `ExplorationRunProofs` | the driver's invariants and theorems | EXTENDS `ExplorationRun` |
| `CodexAppServerProofs` | the supervisor's invariant: callers, senders, lines under way, processes, evaluations; then that of the voice sessions | EXTENDS `CodexAppServer`, `CodexVoice` |
| `CodexSteerProofs` | the prompt queue's invariant, then that of the steers | EXTENDS `CodexSteer` |
| `AgyQueueProofs` | Agy's queue: who holds each prompt and each turn, what was delivered; the turns apart | EXTENDS `AgyQueue` |
| `ProjectFolderProofs` | the folder agrees with the versions, accepted versions are kept, failures are judged | EXTENDS `ProjectFolder` |
| `MC*` | model values, circumstances and symmetry for TLC | the module of that name |

A definition with `Fault` in its name is a seeded bug: a variant of the definition
that follows it, used to show that a property notices the bug.

**Circumstances.** From `ExplorationRun` on, a specification starts in one of
`Setups`: a record of the faults that may happen, how many, how many restarts, loops or
retries, and which requests take part. The record is a variable that never changes, so
one run of TLC covers many small instances, a property may name the circumstances it is
claimed in, and the bounds stand in one place, the MC module.

### State and actions against the code

**BuildQueue.** `queue[k]` is the `KeyQueue` of target `k` (an absent entry of the map
and an empty `KeyQueue` are the same: no method tells them apart). `sequence[r]` is the
stamp of a request. The operators `Enqueued`, `Granted`, `Started`, `Finished`,
`WithoutPending` are what each method does to one `KeyQueue`; the other modules reuse
them. Request ids are UUIDs minted per run, so a request is submitted once. The methods
take `&mut self` under one mutex: each is one step.

**ExplorationAdmission.** One task per request and one more per cancellation. A step is
what a task does while it holds one mutex, or one `notify_waiters`. `pc[r]` is the place
in `admit`: `announce` (after submit), `arm` (top of the loop), the three checks,
`await`, and the exit of a cancelled owner. `woken[r]` says that the `Notified` future
of the current turn has fired: `notify_waiters` fires every future that exists, polled
or not, and stores no permit. `cancel` is `CancelLookup` (queue lock), `CancelMark`
(cancelled lock), `CancelNotify`. The section of `admit` that holds the queue and the
superseded lock together is one step: the set is only ever read without the queue lock.

**CycleReducer and ExplorationCycle.** A cycle is one record; `CanX`/`X` are the early
returns and the assignments of a transition. `Saved` is the packet that the command
writes: it takes the reducer's state but keeps the packet's `last_verification`, which
only VERIFY writes, as the command does. Three history variables count accepted plans
and appended builds and remember which build the evidence is about. A rejected command
changes nothing and is no step. Text fields are reduced to what guards read.

**ExplorationRun.** `pc[r]` walks through `run_cycle_admitted`. Each step is one section
under the database lock or one registry call (`admit`'s submit, its successful exit and
its cancelled exit are one step each here). `own[r]` is the run's cycle, `victim[r]` and
`stopCycle[r]` the cycles an error path or a stop has looked up and will act on later.
Provider, render and verification results are choices. Everywhere but at provider calls
and the last, ignored transitions of a cycle, `StorageFails` may leave the run by `?`.
`LatestActive` is the set of answers `load_latest_active_cycle_for_thread` may give:
cycles saved in one second tie. `Crash` loses the queue, the registry and every task and
applies `Recovered`.

**CodexQueue.** `row[p]` is the prompt's row (status, whether dispatch began, error,
phase); a deleted row is `gone`. `loop[d]` is a task in `dispatch_queue_for_impl`; its
points are the sections under the database lock, the reads of the supervisor's state
and the provider calls, in the order of the code: read binding and runtime, list, claim,
preflight policy, resume, recheck, classify, two stale checks, begin delivery, set the
turn policy, start, complete; and the exits that rotate the binding, defer or fail the
row. A refused call does nothing at the provider, a lost one did it and is answered by
an error, a storage fault is a write that fails: at the dispatch boundary, after the
provider has accepted, or when the row of a failed delivery is written back
(`FailClassify`, `Defer`, `RecordError`), where the loop returns with the row claimed.
`runtime[e]` is what Ecky was told,
`turn[e]` what the provider does; `Notified` and `ReconcileAsks`/`ReconcileStores` bring
the first to the second with a gap between asking and storing.

**CodexSteer.** One record follows `steer_bound_codex_turn_with_classifier` from its
look at the active turn to its snapshot of the policy (several locks are taken in
between, and the turn may end), through classification and installation to delivery and
settlement or rollback. A policy is a record of its owner and its origin; the uuid that
the code compares is whether a loop has set another since. `known[e]` is
`active_turn_id`, the turn that Ecky's runtime names: a report that a turn runs names it,
an idle report clears it, and while the runtime stays active the name may be of a turn
that is over (`TurnsNamed`, part of every step).

**CodexAppServer.** A caller goes through start-up (under the startup mutex), insertion
of its sender, the write of its line, the wait and the use of the answer. `os[g]` is the
g-th process: two pipes, whether it is initialised, the turn it runs, alive, killed. A
read line is one step of the reader; a stale generation's line, a reply without a
pending sender, a notification for an ended turn do what the code makes of them.
`seeds` are the three maps an evaluation capture moves through.

**CodexVoice.** A start is `check` (command), `insert` (lock section), `write`, `await`,
`negotiate`, `review` (the later check of the cancellation record); a stop is `cancel`,
`check`, `write`, `await`, `remove`, shared with the start's own clean-up. The app server
takes requests of the thread in the order written and keeps one session.

**AgyQueue.** A turn is numbered when its prompt is handed to a session; a turn that
spawns a process gives process and session its number. `task[t]` are the dispatchers,
the compaction and the first send; `turns[n].final` is the finalizer's place and
`turns[n].grace` the kill task's. `work` is what the operating system runs: it survives
the crash of the application. `Crash` includes the start that follows: reconciliation
kills what a lease names, or reports that it did not recognise it or could not stop it (the
fault `reap`; always so on a platform that is not Unix), and fails the row in both cases; a
database error ends it early and is only printed. `exposed` are the prompts of the turns it
could not reap.

**ConfigStore.** `edn` and `json` are the files as processes see them, `after` the set
of directories a power loss may leave (each change not yet synced may be missing, in
order or in any order). Every file operation of `atomic_write`, `write_canonical` and
`delete_legacy_json` is a step. `holder` is the lock within and between processes; the
command line takes part with the same section.

**ProjectFolder.** `versions` is the thread's append order; `manifest` names a version
and the content it was written for; `failure` is the persisted failure row and `memory`
the watcher's maps for the one folder. The tick is `Look` (repair, compare, failure),
`Judge` (what the thread knows of the content; debounce), `Settle` (under the apply lock:
re-read, activate the cancellation, apply), `Conclude`. `apply[a]` follows
`handle_project_folder_apply` of a session: status and read, append or reuse a draft,
render (as the owner of a flight or its waiter), look up and save the version, mark it as
working, publish the draft (a preview has one session) with the refresh of the folder for
all but the watcher, two checks of the file around the verification, acceptance or
rollback. The cancellation is a token the watcher registers for its content: a render of
that content that starts meanwhile holds it, whoever's it is. `Commit` is the editor's
`add_manual_version`, `Export` the export handler, `Switch` the change of the open thread,
`Leave` a client whose request is dropped with the render flight it owns. `Breaks` is a
read or a write of an apply that fails, at any place: before the preview, in the checks and
in the rollback it leaves by `?` and what was written stays; in the preview and the
verification it takes their error paths. `Accept` has the failures of its own writes.

Two sections of the code are one step where nothing between them can be observed: the
status and the read of the file in `Begin`, and the checks of `Look`, which no other task
writes (the failure row and the watcher's memory are the watcher's alone).

## 3. Runs

| Run | Instance | Shows |
|---|---|---|
| `build_queue` | 2 targets, 3 controllers and 3 interactive requests | placement, latest-wins, grant order, refinement of `BuildTurns` |
| `admission` | 1 thread, a controller and 2 interactive requests, one of which may be cancelled; fairness | one owner per target, no target without one, no lost wakeup, supersession and removal are final; every admission returns, of finitely many requests the newest interactive one runs, removals are delivered |
| `cycle` | 3 versions, budget 3, costs 0 to 2, 4 plans | decisions on current evidence, green completion, budget, finality |
| `run` | 2 runs with questions, a stop, MCP answers and a crash; 2 runs with 2 attempts and a stop; with 2 attempts and a crash; 3 runs with a stop | who may touch a cycle and report it, no orphaned cycle, one active cycle, finality |
| `run_live` | 2 runs, 2 attempts, one stop, one question; fairness | every run returns |
| `codex` | 2 prompts, 1 or 2 loops, 9 circumstances | claims are sound, no silent replay, hand-over in order and once, each turn has its own policy |
| `codex_live` | 2 prompts, 1 or 2 loops, 5 circumstances; fairness | every queued prompt is settled |
| `app_server` | up to 4 callers, 2 processes, 6 circumstances; fairness | maps, processes and callers agree; late news is ignored; calls return; a fault is healed |
| `agy` | 2 prompts, 2 dispatchers, 11 circumstances | each delivery is in one pair of hands, turns do not mix, one delivery per queuing |
| `voice` | 3 sessions of a thread, an end of the process | an entry is the session that lives, no ownerless entry |
| `config` | 2 saves and a `cairn configure`, 6 sets of files, any one fault, an end of the application and of the power | what was reported is kept, settings survive the migration, memory is the file |
| `project_folder` | 3 contents with their verdicts, 11 families of circumstances; fairness | folder, versions and watcher agree; an accepted version is not taken back; failures are judged; the folder settles |

The properties carry their claims in a comment before each. Several are conjunctions of
named parts (`ClaimsAreSound`, `SupervisorIsSound`, `FolderIsSound` and others): each
part says what one hazard would break. One part is the type invariant of the module.
Section 4 says which properties are proved as well.

**Bounds and why they are enough.** In the queue, two requests of each kind are what a
replacement and an overtaking need; the third controller gives the FIFO a middle to
remove from, and the third interactive request a second target. Three tasks give
admission an owner, a waiter and a newcomer; its safety is proved for any number. A
budget of 3 with costs of 0, 1 and 2 makes both a refused and an exactly spent budget
reachable, and four plans allow a zero-cost one after it is spent. `MaxPlans` bounds
history counters only. In `ExplorationRun` the pool of cycles has one cycle per request,
which is all that can be opened; two attempts give a first, a retried and a last one;
one crash suffices because recovery is idempotent on what it leaves; one version,
because the relation of evidence to versions is the subject of `ExplorationCycle`.
`seconds` is one tick, so that saves may share a second or not. In the prompt queues two
prompts give an earlier and a later one and two loops a race for one row; a third loop
stands where the second one does, since a loop keeps nothing from one row to the next. A
second process is what a late line of the first needs. A third voice session is what a
start after an ended one's clean-up needs. Three contents give the folder an accepted
one, an edited one and one to return to; three edits suffice to overtake an apply and
come back, two commits to take the place of a draft (item 23). One fault at a time is the rule: a second one is admitted where the handling
of the first meets it (`codex`, `app_server`).

Some properties name the circumstances they are claimed in, because the code breaks them
by design or by a recorded gap elsewhere: `InFlightHasDriver` and `OneActiveCycle` where
nothing but runs touches the cycles (no question runs and no MCP answers; stops only
before a crash, item 4 of section 5), `OneActiveCycle` moreover only before a crash (an orphaned
planning cycle survives one), `PolicyIsOfRunningTurn` for one dispatch loop and no
restart (item 6), the part of `FolderIsSound` about working versions where no client applies,
nothing is restarted and no read or write of an apply has failed yet (items 17, 19, 23 and
28), and `FailuresAreJudged` where changes are heard
at once, no client applies and nothing fails (items 15 and 20, a restart as in item 24).

Three more name the failure they cannot exclude. `OrphansComeFromStorage`, a part of
`ClaimsAreSound`, and `QueuedIsSettled` say that nothing but a refused database write leaves a
claim to nobody, and a prompt behind it unsettled (item 26). `ReapedBeforeRetryable`, a part of
`DeliveriesAreHeld`, is about the processes a restart had a lease of and could stop (items 10
and 27). `NewestInteractiveRuns` and `AdmitReturns` are about finitely many requests: no
fairness of the tasks promises an interactive request its turn while controllers go on
arriving (item 25).

`CHECK_DEADLOCK FALSE` appears where all tasks of a bounded instance may have
ended; an early end of a task shows as a violated liveness property instead.
Symmetry is used in runs without temporal properties, and in `build_queue`, `cycle` and
`run` beside action properties that do not name the permuted values.

**Fairness.** Weak fairness of each task's own steps: the async runtime polls every woken
task, and provider and render calls return, by their timeouts. Nobody is obliged to
submit, to stop, or to answer; `Submit`, `CancelLookup`, edits, retries and faults are not
fair. Beyond the tasks:

- `codex_live`: a turn the provider runs ends, its notification arrives, and the
  supervisor's poll (a timer of the backend) recovers failures and starts a loop.
- `app_server`: an answer is given or the timer of the call fires, the reader task reads
  the next line or the end of the pipe, a killed process exits, and the reconciling
  caller, which the timer starts, makes its call.
- `project_folder`: the watcher's timer fires every second, notifications are delivered, a
  started apply proceeds, and a user who has opened another thread comes back to this one.
  The watcher only looks at the open thread, so without the last assumption nothing about
  a closed thread is promised.

**Assumptions about the environment.** Request ids are fresh. The application restarts in
a later second than its last save. The database writes of `finish_cycle`, whose
errors the code ignores, succeed when the reducer accepts them, and so does the
lookup in `terminate_active_cycle_on_error`. The reads and writes of the folder watcher's own
tick succeed, and so do a render's reads of the disk: a render fails by its content, by its
cancellation or as a whole. Counters (`u64`, `u32`) do not
overflow: 2^64 submissions and 2^32 attempts are out of reach; `budget_used` is
bounded by the budget, which is proved. The Codex app server answers a request at most
once and runs one turn per thread; its supervisor is asked to start one turn at a time,
as a loop that holds the head of the prompt queue does, and what two starts at once would do is
not modelled. A request has an id that nothing names any more (`IsFree`); with a finite set of
ids a call waits while there is none, in the instances never. A rename is atomic; what was
synced, and the directory entries synced with it, survive a power loss. Database transactions
are atomic.

## 4. Proofs

TLAPS proves, for every set of targets, requests, versions and costs:

**ExplorationAdmissionProofs.** The queue comes first. `BuildQueueInvariant`: the conjunction of `TypeOK`,
`PlacedOnce`, `ControllersInOrder`, `LatestInteractiveWaits` and `StampsDistinct` is
inductive. None of them is alone: FIFO order needs that a new stamp exceeds every
earlier one (`StampsDistinct`), and placement needs that a waiting request differs
from the running one, which follows for controllers from the strict order of their
stamps. The lemmas are per target and per operator (`Enqueued`, `Granted`,
`WithoutPending` keep the target's part), so that actions follow by cases; the
theorem module of the registry reuses them.
`QueueImplementsTurns`: one lemma per operator says what it does
to the set of waiting requests (`GrantTakesFirst`, `RemoveTakesOne`,
`SubmitAddsOne`), the statuses are read off that set, and each action maps: submit to
`Arrive`, start_next to `Start`, the owner's finish to `Leave`, remove_pending of a
waiting request to `Withdraw`, everything else to a stutter. The refinement needs the
inductive invariant: that the head of the FIFO is the request whose turn it is
is the order of stamps. `GrantsAreOrdered` is the action property `GrantOrder`.

`AdmissionInv` adds to it the types,
`NoIdleTargetWithWork`, and for each request `TaskOK`: *Placed* says where each task
may stand when its request runs, waits or is nowhere in the queue; *Replacement*
that a replaced request is nowhere and not cancelled while its task is in admit;
*Cancellation* ties the tombstone, the local `cancelled` and what `cancel` found to
the task's place. Each action touches one target's queue and one task; the lemma on
what is undisturbed carries all other requests, and the lemmas `SubmitServes`,
`FinishServes`, `LookupServes` show that a target with work has an owner again.
From it: `RunnersOwnTheirTargets`, `TargetsAreServed`, `SupersessionIsFinal`,
`RemovalWins`.
`NoWakeupIsLost` strengthens `AdmissionInv` by two facts per
request. *Alert*: what admit has read in this turn of its loop still holds, or its
future has fired, or a `notify_waiters` call is pending; it is preserved because every
change a reader could miss is followed by a notification (`NewsRings`) and a pending
one is not lost while the future exists (`AlertLasts`). *Accounted*: a request in admit
is in the queue, replaced, or being cancelled.

**ExplorationCycleProofs.** The invariant adds to the checked properties that
evidence recorded in the packet is, in DECIDE, about the current version and the
last build, and that a BUILD in progress has a plan left to consume. From it
`DecisionsAreCurrent`, `CompletionIsGreen`, `BuildsAreBounded`, and the action
property `EndedCyclesAreFinal`.

**ExplorationRunProofs.** Two invariants. `BaseInv` holds in every circumstance: the
types, `QueueShape` of the admission queues (a restart begins the sequence numbers anew
while old stamps remain, so the invariant of the queue alone, which compares the two,
does not survive one; its part about positions does), that a driving run holds the target, and *Places*:
which cycle each place of a run or a stop works on, and that it exists. `Lasting` says
once for all steps that no cycle disappears and none that has ended changes. From it
`RunsOwnThreads` and the action property `EndedCyclesAreFinal`. `RunInv` adds, where
nothing but runs touches the cycles (`RunsAlone`), a time `b` that separates the active
cycles: those written at `b` or later are *fresh*, there is at most one of them, and it
waits for an answer or is held by the one run that holds the target; older ones rest in a
phase without work in flight. Before a crash `b` is 0, so every cycle is fresh; a crash
moves `b` past all of them. From it `CyclesHaveDrivers` and `AtMostOneActive`. A stop
after a crash may reach a cycle on either side of `b`, which is why `RunsAlone` excludes
it; TLC shows that the property fails there (section 5, item 4).

**CodexAppServerProofs.** The supervisor's state and what is on the way to it change apart:
a reply may be read when its caller has given up and its process was replaced. `ServerInv`
has four parts. *Callers* (`CallersOK`): every caller that writes or waits has an id of its
own, one that waits has its sender in the pending map, and every sender is somebody's
(`IdsOK`); the one start under way is of the last turn asked for (`TurnsOK`); and in all
pipes of all processes, old ones too, whatever bears the id of a start is its request or is
about its turn (`MessagesOK`). The last part is why a late reply cannot answer the wrong
request: an id is chosen that nothing names any more. *Processes* (`ProcessesOK`): each but the
registered one was told to stop, those to come have not begun. *Evaluations* (`SeedsOK`): each is
in one of three places, once, and the one that waits is that of the start under way
(`Asked`), so that nothing captures it for another turn. *Runtime*: only one with a turn is
active or stopping. Callers change alone in nearly every step (`GoingOnKeeps`,
`CallersAreAnswered`), a process's pipes in the others (`MessagesChange`), and an
invalidation changes everything at once (`InvalidatedKeeps`). The evaluation lemmas
(`CapturedKeeps`, `CompletedKeeps`, `RefusedKeeps`, `AllFinishedKeeps`) count places by
cardinality. From it `SupervisorStaysSound`, and the action property
`LateNewsStaysIgnored`: only its own reader takes lines from a pipe (`ReaderTakes`), and only
its own return takes a finished start to rest (`OtherLeavesDone`).

In `CodexVoice` the entry, the cancellation record, the requests in the pipe and
the session of the app server change in any order. `VoiceInv` relates each to the points of
the tasks: a start that has not inserted its session has no entry, a registered one that nobody
cancels keeps it, the record holds the sessions whose stop has begun, and the live
session is one whose start has been answered. The pipe needs that no request is in it
twice. From it `EntriesBelongToOwners`.

**ConfigStoreProofs.** `ConfigInv` follows a task through its section (`TaskOK`: what was
written, what the file is, and from which step on every directory a power loss may leave
holds it) under the lock (`LockIsHeld`), which makes the file the task's own. `WholeInv`
is the order of syncs: a directory entry names only synced content. `CrossInv` is what a
file system without order may leave, every mixture of the two files, and that this is
harmless while a directory sync precedes each deletion. `MemoryInv` and `SettingsInv` say what
the memory and the base of each save derive from. From it `ConfigurationsAreDurable`
and `MemoryAgreesWithDisk`.

**CodexSteerProofs.** First the queue alone. Whatever a loop does is one of five kinds of
step: it looks for a prompt, takes it, goes on with it, begins its delivery, or leaves it
with an outcome. The invariant `QueueInv` is kept by each kind and each action is
of one of them, so that the actions of a loop need no argument of their own. It says of a
loop's place what the row of its prompt is (`LoopOK`), and of a prompt (`PromptOK`) that
a claimed one is the *eldest* of the queue and that one that was sent is *spent*: its row is
gone, has failed for good, or is past the dispatch boundary and every loop that holds it has called the provider.
From it `PromptsAreClaimedSoundly`, `NothingIsSentTwice`, `PromptsAreHandedOverRightly`.
`SteerInv` adds the *lease* of the steer (its mark stands as long as nobody else has set
the policy; what it may put back is a policy of a turn that took it) and, for one
loop and no restart, where the loop, the turn, its policy and the steer stand:
`LoopPlaced`, `TurnPlaced`, `SteerHolds`. That a delayed name never makes a steer fit
a later turn is the part about `known`: Ecky believes in a turn of a prompt only in the
binding, and by its right name. From it `TurnsHaveTheirPolicy`.

**AgyQueueProofs.** `AgyInv` starts from what rows, queue, sessions, processes and turns refer
to: the queue lists the rows, each once (`QueueOK`); a session, its process and its turn name
each other (`SuperOK`); `TurnOK` and `PlaceOK` say what turn and what row a dispatcher, the
compaction or the first send has in hand at each of its places. Then it follows each prompt
(`PromptOK`). *Sole*: at most one task or one finalizer that awaits its turn holds it. *Free*:
while its row is queued or failed, nobody does. Its row's lease is the process of the
awaited turn. *Counted* and *Due*: it has had no more turns than it was queued, and
fewer while another is due. The count is why the rest is needed: a retry may deliver again
only because nobody still holds the delivery that failed. `LostOK` says which turns a process may still work on after
a crash: those the restart had no lease of or did not stop, and those over before. From it `RowsAreInHands` and `PromptsAreDeliveredOnce`.

`SepInv`, inductive with `AgyInv`, is why the supervisor never works at two turns of the
thread (`TurnsStaySeparate`). No lock says so: a dispatcher looks at the sessions of *its*
conversation, and a turn with a new process has none to find. The argument is about the
queue. A process at work (`Busily`) is at the turn of a prompt whose row is the head of the
queue, begun, and in one pair of hands (`QueuedOK`), or at the first turn of the thread,
while the binding is missing or nobody has got past his look at the runtime (`FirstOK`). A
task about to write a line has the head in hand, with a row in delivery (`HeadOK`): by
*Sole* nobody else has a turn of it, so nothing is at work (`AloneAtStart`). That nothing
is disturbed takes what a task may count on where it is (`SpotOK`), that
a process names its conversation after itself, and that no older conversation has that name
(`ConvsOK`, `Unnamed`), and that reader, session and process agree about the turn
(`ProcessOK`). `GraceOK` ties a running grace period to a session that is stopping or stopped, which
gets no other turn: the kill after it hits its own. Steps that start nothing are `Calm`
and need one argument (`SepCalm`); those that do need another (`BeginsSep`).

**ProjectFolderProofs.** Three invariants for three sorts of circumstances. `BaseInv` holds in
all of them, with any number of clients: versions are only appended and keep their content
(`VersionsLast`), and whatever names a version (the manifest, a draft, a preview, the
manifest a rollback will restore) stands for that version's content (`Grounded`). That the
manifest and its version agree is inductive only with the last two, since a refresh, an
acceptance and a rollback write the manifest from what an apply remembered. It holds
whatever fails, since a read or write that fails only stops an apply between two writes
(`BreaksBase`). With it, every step that writes a status is one of an apply at its own draft or preview (`StepTakes`):
`SuccessIsKept`. `AloneInv` is about the watcher without clients, before any read or write
has failed (`Unbroken`; failures are only counted down, `FaultsFall`): at each place of its
apply, the preview is not deleted, and the draft is the preview, or waits for nobody, or
was superseded by a commit (`OwnVersions`); without a restart no other version waits
(`Held`). From both, `FolderStaysSound`. `CalmInv` adds that changes are heard at once and
nothing fails at all. Then an apply whose token is not raised works at what the file holds and the
watcher saw (`CalmToken`, `CalmApply`), so that what it returns is the verdict on it; one
that was overtaken has its token raised at every place, also where its render was stopped.
The version it fails is what makes the argument long: a later tick remembers a content as
failed when the thread's head is a failed version of the watcher's (`known_failed_project_source`),
so each failed version must have a content that may be remembered (`CalmErrors`); a tolerated
one is failed between its verification and its acceptance, where no tick looks, and only
a restart can leave it so. From it `FailuresStayJudged`.

The proofs rest on the named assumptions of the modules only: `BuildQueueAssumption`,
`CancellableAssumption`, `NoneAssumption`, `CycleAssumption`, `RunAssumption`,
`NoneIsNoCycle`, `CallerAssumption`, `IdAssumption`, `BoundAssumption`, `SessionAssumption`,
`TaskAssumption`, `NoneIsNoValue`, `PromptAssumption`, `DispatcherAssumption`,
`AgyAssumption`, `FolderAssumption` and the `SetupAssumption` of each module. They give the
constants their types, keep `None` apart from the values it stands beside, and make the sets of
prompts and loops finite; TLC evaluates each in a run.

**Only model-checked.** Liveness (`AdmitReturns`, `NewestInteractiveRuns`,
`CancelIsDelivered`, `RunsReturn`, `QueuedIsSettled`, `CallReturns`, `FaultsAreHealed`,
`FolderSettles`): fairness and ENABLED are beyond the prover. A theorem states every
other property of the runs.

## 5. Where the code surprises its documents

None of these is claimed by a passing property; a property that would meet one says in its
comment or by its circumstances where it does not apply.

**Exploration runs.**

1. `cancel` (`exploration_run_registry.rs:99`) leaves a tombstone only for a request it
   finds in the queue. A stop that arrives before the submission is lost. The test at
   `mcp/server.rs:9129` says that a stop "must reach the shared Rust run registry".
2. `stop_exploration_run_core` (`commands/exploration_run.rs:124-150`) reads
   `is_running`, cancels and then stops the latest active cycle. The run may end in
   between, and the cycle be the next run's. Its comment (line 100) promises to stop
   "its durable cycle".
3. A provider error of a question run is recorded as `ProviderFailed` on the latest active
   cycle (`commands/generation.rs:786-801`), which may be one that waits for an answer. It
   falls back to PLAN with its question pending, and the next run opens a second cycle,
   which the comment at `commands/exploration_run.rs:1056` says never happens.
4. A run that fails ends the latest active cycle of the thread
   (`commands/exploration_run.rs:2106`), and cycles saved in one second tie. When an MCP
   client has answered a cycle meanwhile, the run can end that cycle instead of its own,
   which then stays in flight without a driver until the next restart. The same happens
   without MCP: a crash leaves a planning cycle. A stop ends the cycle of the next run, whose
   provider error is then recorded on the one left over and saves it anew. A third run
   opens its cycle in that second, fails, and ends the wrong one of the two.

**Codex.**

5. Prompts are claimed in the order of `created_at` in seconds and then of a random id
   (`services/codex_takeover.rs:1042`): two prompts of one second may change places, though
   the index (line 173) is named for FIFO order.
6. A dispatch loop sets its preflight policy (`commands/codex_takeover.rs:813`) on a
   runtime it read earlier. Another loop's routed turn may run by then and loses the
   boundary that the comment at line 391 says it keeps "until terminal completion".
7. A voice session whose cancellation is recorded after its start has been inserted
   (`services/codex_app_server.rs:1160`) and whose stop request is written before the
   start's does reach the provider; the test at line 3692 is named for the contrary, and
   covers a record that precedes the start. The start's later check ends the session again.
8. `stop_realtime` checks the identity of the session under the lock and then asks the
   provider to stop whatever session the thread has (line 1217), where the comment at 1194
   says it stops "only this owned session".
9. A process loss between a voice start's insertion and its write drains the entry, and the
   start goes on: the session lives without an entry. `EntriesAreOwned` says "or lost".

**Agy.**

10. A crash after a process is spawned and before its lease is written
    (`commands/agy_provider.rs:1638`) leaves a process no reconciliation names.

11. An error in reading a process's output fails its session
    (`services/agy_provider.rs:784-800`) but leaves the process running, unlike the end of
    a turn or a stop. A first send that is retried then starts a second process beside it.
    `OneTurnAtWork`, a part of `TurnsAreSeparate`, is about processes that are still read.

**Configuration.**

12. When the second section of start-up fails, the defaults are kept in memory, and the
    next save overwrites the settings on disk (`lib.rs:176`, `lib.rs:192`).
13. A load deletes the migrated JSON without syncing the directory: after a loss of power
    the JSON may be back beside the configuration that replaced it.
14. `cairn configure` (`cairn.rs:728`), a settings panel and the repair at
    `commands/boot.rs:60-78` each write the whole configuration they read earlier: the later
    one drops what the other changed.

**Project folder.**

15. An apply that an edit overtakes, and whose notification is late, is remembered as a
    failure of the content it judged; `mcp/handlers/project_folder.rs:588` says that "editing
    the file again retries", which holds unless the edit returns to that content.
16. The activity entry of a failure stays when the file returns to a failed content.
17. A client's apply that reuses a head already accepted deletes it when its own later step
    fails, and a session may use, and end, another session's working draft of the same
    content; `mcp/handlers/authoring_actor.rs:101` says that superseded work "finalizes its
    own immutable version".
18. A commit that refreshes the folder with the content the watcher is about to apply
    raises the watcher's token, and the watcher's rollback deletes the committed version.
19. Between `Save` (status success) and the mark as working, a version that is not yet
    verified reads as accepted; a restart there keeps it so.
20. A storage failure of the last manifest write is remembered as a failure of an accepted
    content. A render owner that is dropped is remembered by its waiters as one, too.
21. Refresh compares the file and then writes it, without the apply lock: an edit in
    between is overwritten, against `thread_source_binding.rs:633`: "Dirty external bytes
    are never overwritten". `provider_project_cwd` (`commands/codex_takeover.rs:210`) exports over a pending edit.
22. `get_latest_successful_message_id_in_thread` orders ties of one second by a random id
    (`db.rs:2159`). The model gives versions distinct times.
23. When the editor commits twice while an apply renders, the second time the content being
    applied, the preview takes the unchanged head for its version (`mcp/handlers/mod.rs:1612-1636`)
    and nobody ends the apply's own draft: it stays in the thread as "working".
    `WorkingIsHeld` says "superseded".
24. A verification that finds issues marks the version as failed before the apply tolerates
    them (`mcp/handlers/verify.rs:64`). If the application ends in between, the next tick takes
    the version for a failed one of the watcher's and remembers the content as failed
    (`mcp/handlers/project_folder.rs:735`), which the same file would have passed.

**Failures of storage and of stopping, and endless work.** These were met when each failing
exit was followed.

25. `start_next` and `finish` (`build_queue.rs:145-176`) grant an interactive request only when
    no controller waits, without a bound: a stream of controllers that never ends keeps the
    newest interactive request waiting for ever. The comment at line 143 says as much for one
    grant and nothing of the stream.
26. A delivery that fails gives its claim back by a write whose own error is returned by `?`
    (`commands/codex_takeover.rs:119`, 847, 908, 935, 1094, 1125, 1229, 1367, 1382). The row then
    stays in `sending`, also before dispatch began, no loop takes it, and every later prompt of
    the thread waits until the next start (or, before dispatch began, until the user removes it).
27. The reconciliation of Agy's deliveries fails a row although the process of its lease was
    not recognised or not stopped (`services/agy_provider.rs:1651-1657`, 1696-1701, 1739-1745;
    always so on other platforms than Unix), and an error of the whole is printed
    (`lib.rs:686-697`) and the rows are failed unreaped. The row's text says that the process
    may still be running; a retry of the user then starts a second one beside it.
28. An apply returns by `?` where the file cannot be read for a check
    (`mcp/handlers/project_folder.rs:396`, 426), where a rollback fails (397, 403, 421, 427, 436)
    and where the draft of a failed preview can be neither deleted nor marked
    (`mcp/handlers/render_preview.rs:1141-1147`). The version stays "working" with no apply, and
    the watcher, which remembers its content as failed, does not take it up again.
    Where the rollback failed after the version was deleted, the manifest names the deleted
    version until the next tick repairs it.

**Component index.** A worker's pending flag (`component_library_index.rs:430-475`) is
cleared and set with orderings that allow a request to be missed on a machine with weak
memory. The module is not modelled.

## 6. Not modelled, and what is left

Most of the repository is outside these models, and its map is therefore a small share of
the lines: the Scheme compiler, the core IR, lowering, the CAD host, FreeCAD and OCCT
bindings and FEM are pure functions over large terms and floating-point geometry, and the
tests, sites and editor plug-ins are not program logic. Of the stateful part, not
modelled:

- the first-draft route of a thread without a version (it opens no cycle and shares
  admission, which is modelled); message rows, progress events, artifacts and usage; the
  event log of a cycle; the digest comparison of `verify_persisted_digest`;
- the maps of MCP sessions, prompts and confirmations: one request and one answer each;
- versions, history and deletion commands: one transaction each, seen by the models as an
  append-only list;
- the MCP runtime, sketch previews and the component index: process and file I/O around the
  latest-wins pattern that `BuildQueue` covers;
- `latest_wins_scheduler.rs`, which only its tests use;
- the frontend stores, single-threaded callbacks over backend state.

Within modelled components: message projections, evaluation records, listings and
transcripts of the provider services; the bounded length of the voice cancellation record;
the policy leases of Agy turns, its version probe and `shutdown_all`; temporary files and
warnings of the configuration; several folders and their slugs, dependency locks, portable
projects and the index row of a binding. The notes in `PROJECT.json` say the same per
component.

Left for later, in this order:

1. An abstract specification of a prompt's life, with `CodexQueue` and `AgyQueue` shown to
   implement it.
2. MCP prompts against their timeouts; single-flight refresh of the frontend.
