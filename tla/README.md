# Astronomical: a verification project for the inference daemon

Astronomical serves language, image and embeddings models on one machine. A
daemon (`apps/daemon`) offers a REST surface; behind it one *worker loop* owns
one *inference worker* process (`apps/inference-worker`,
`crates/model-serving`), talks to it through two pipes, and supervises it
through model swaps, cancellations, memory-ceiling changes, crashes and
relaunches. At most one request is served at a time. Three more parts keep state
that outlives a step: the configuration of the memory ceiling, the prompt cache
on disk and the downloads of the model library. What can go wrong here is the
supervision (a loop that waits for a worker that has died, a permit that never
comes back, an event of one request read by the next, a relaunch over a worker
that runs) and the bookkeeping (a ceiling that is applied and rolled back, a
cached chain with a hole in it, a model published with missing bytes).

This directory holds TLA+ modules of that core, TLC configurations for small
instances, theorems with TLAPS proofs, and `PROJECT.json`, which lists the
components, the runs, the mutants each property was tried against, the source
lines behind each definition, the findings, the hazards and the theorems.

## 1. Inventory

| Component (source) | State | Operations | Interacts with | Hard behaviour | Correct when |
|---|---|---|---|---|---|
| **Worker loop** (`apps/daemon/src/worker`) | the process and its pipes, `is_ready`, the load deadline, the published health snapshot, the active request with its staged outcome, one pending ceiling update and one pending cache clear | one `select`: worker events, commands, disconnects, deadlines, the idle tick, the relaunch timer; the waits inside them (startup, swap, limit, clear, cancellation, recovery) | worker (pipes), REST handlers (command channel, oneshots), relaunch schedule | a wait reads only worker events; the worker may die, hang or answer late in each of them | no request reads another's events, every permit comes back, a stopped worker is recovered, the published model is the loaded one |
| **Relaunch schedule** (`worker/process/failure_relaunch.rs`, `crash_loop_guard.rs`) | recent relaunch instants, the latch, the deadline | observe once per iteration, admit, exhaust, fire | worker loop | lazy forgetting, latch and timer against other paths that start a worker | at most `maximum_relaunches_per_window` admissions per window; never over a running worker |
| **Generation admission** (`worker/handle.rs`, `worker/generation/admission.rs`) | two semaphores, the command channel | three start futures, `restart_worker`, the demotion reservation, their drops | worker loop, REST handlers | futures dropped at any await; an idle check that reads two semaphores at two instants | one generation at a time; a reservation excludes them all; no permit is lost |
| **Inference worker protocol** (`crates/model-serving/src/engine_backed_worker`) | the model held, the request served | `serve_idle_command`, the active-request loops, fatal errors | worker loop | busy answers, cancellation against completion, death after a failure was reported | each command is answered as the daemon expects |
| **Worker replacement and memory demotion** (`worker/process/replacement.rs`, `worker/memory/demotion.rs`) | old and candidate worker, staged launch configuration | candidate-first restart, stop-first demotion, restore | worker loop, configuration | one of several steps failing | a worker is left, or a failure is published |
| **Memory-ceiling transactions and configuration reload** (`daemon/src/config`, `rest/maximum_mlx_memory.rs`, `rest/config_reload*.rs`) | config.json, the live configuration and its pending generation, the health snapshot, the worker's ceiling, the launch snapshot | update, reload, three reconcilers, demotion, replacement | worker handle and loop | five copies of one value, brought together by a handler that answers before the worker does | one transaction at a time; what is reported applied is live; a relaunched worker gets what its predecessor had |
| **Model library downloads** (`daemon/src/library/download`) | the job document, the staging directory, the published directory | start, resume, pause, cancel, recover at start-up, and the task from preflight to publication | REST, file system, the Hub | a crash at any step; blocking operations that outlive the task that was aborted | nothing is published unverified; an acknowledged pause or cancellation holds |
| **Persistent prompt cache** (`crates/model-serving/src/persistent_cache`) | block directories with their state files, the in-memory index, the byte estimate | open, publish, evict, compact, supersede, load, clear | worker | eviction, compaction and a crash between two file operations | the index names complete chains only; an acknowledged block is restored; the quota is kept |
| **Memory policy** (`crates/astronomical-memory-policy`) | none | ceiling, admission and reclamation arithmetic | worker, daemon | saturation, zero and boundary cases | the reserve is never spent |
| **IPC codec and daemon socket** (`crates/ipc-protocol`) | read and write buffers | frame, parse, listen | both ends of the pipes | partial reads | frames in, the same frames out |
| **REST surface and console, inference engines, configuration files and discovery, applications and tools** | — | HTTP and JSON, tensor computation, document editing, front ends | all of the above | I/O, numerics | out of scope for a model checker |

The hazards, each at the line where it bites, are under `hazards` in
`PROJECT.json`; every property below is aimed at one or more of them.

## 2. Modules

| Module | Role |
|---|---|
| `RelaunchBudget` | the relaunch schedule, with the rest of the loop reduced to what it does to liveness, readiness and status |
| `RelaunchBudgetProofs` | its theorems |
| `GenerationAdmission` | the semaphores, the start and control futures, the command channel |
| `GenerationAdmissionProofs` | its theorems |
| `RequestService` | abstract: what the loop promises the requests of its clients |
| `RequestServiceProofs` | its theorems |
| `WorkerProtocol` | constant operators: the messages and the worker's possible answers |
| `WorkerLoop` | the worker, its pipes, the loop, the clients; extends `WorkerProtocol`, implements `RequestService` |
| `WorkerLoopProofs` | its two invariants and the theorems that follow from them |
| `WorkerServiceProofs` | the refinement, recovery, the models and the talk with a well-behaved worker, on top of those invariants |
| `MemoryTransaction` | the memory ceiling in its five places, the handlers and reconcilers that move it, the part of the loop that applies it |
| `MemoryTransactionProofs` | its theorems |
| `PromptCacheStore` | the prompt cache on disk, with its index and quota |
| `PromptCacheStoreProofs` | its theorems |
| `DownloadJob` | the download of a model, its task, its commands and what an abort leaves running |
| `DownloadJobProofs` | its theorems |
| `MC...` | the instances for TLC |

A definition whose comment starts with "Mutant:" is a plausible bug in the
definition that follows it. It is used by no specification; `PROJECT.json` says
which property refutes it.

### RelaunchBudget

The loop alternates between `"top"`, where `observe_worker` runs once, and
`"select"`, where one arm runs; a relaunch has a phase of its own because its
launch may succeed or fail. `now` is a discrete clock that may advance in any
phase. `recent` is `recent_relaunch_instants`, `exhausted` the latch and
`deadline` `relaunch_deadline`; `history` is a history variable, every instant
at which an attempt was admitted, and is read by properties only.
`LoseWorkerUncontained` stands for the two paths on which a worker stops without
being published as unavailable: an idle ceiling update, and the restoration of
the model after a demotion (see the findings).

### GenerationAdmission

Each request is the future of `start_*_generation_with_queue_admission`; its
states are the awaits at which it can be dropped: `"admitted"`, `"waiting"` for
the active permit, `"granted"` and waiting for room in the channel, `"sent"`.
`queueOwner` and `activeOwner` record who holds each permit (the code's RAII
guards), `waiters` the fair queue of the tokio semaphore (external: modelled
from its use). The control futures read one semaphore and then the other, as
`is_generation_idle_for_control_action` does, and a reservation takes its
permits one at a time, so every interleaving with requests is there. The loop
is reduced to taking a command, refusing or serving it, and finishing.

### WorkerLoop

`proc`, `commands`, `events`, `serving` and `model` are the worker. `at` is what
the sequential loop is doing: each wait for a reply is a position, in which the
loop only reads events; `back` is where an update or a clear continues, `cur`
the request being started or cancelled (or the model a demotion restores),
`staged` the acknowledgements that a swap or a recovery has collected. The health snapshot is `status`,
`readyModel` and `config`. One iteration is
`DrainLimit`, `DrainClear`, `Observe`, then one arm of the select. Events are
read by `ReadEvent` (accepted by `handle_worker_event`), `ReadViolation`
(an error for it) and `ReadEnd` (end of file); `Trouble` says what an error does
in each wait, and `Contain` is `contain_worker_failure`.

A replacement goes through positions of its own, each of which can fail. The
candidate-first restart waits for the candidate (`"candidate"`), then stops the
trusted worker and puts the candidate in its place (`"commit"`); a candidate
that is rejected leaves the trusted worker as it was. The stop-first demotion
stops the trusted worker (`"stop"`), launches (`"launch"`), waits for the
acknowledgement (`"handshake"`), sends the model again (`"reload"`) and reads
until it is loaded (`"restore"`).

Abstractions. A message is its type and what it is about; text, tokens and
sizes are left out. The two closing events of an image or embeddings request
are `Ended` (the staged outcome) and `Released` (the finalization that delivers
it). A timeout may fire at any moment of its wait. `Observe` chooses between
"due" and "spent" where `RelaunchBudget` has the guard, and `SendRequest` waits
for the permit where `GenerationAdmission` has the semaphores. `Mismatched`
compares the model of a reply to a swap; the code (`model_swap.rs:250`) compares
the configuration generation too, which only ceiling updates can make differ.
The containment that follows is the one of any other error of that wait; that a
correct worker then suffers it is left to `MemoryTransaction`, whose `SwapEnds`
compares generations, and `GoodWorkerIsKept` excludes ceiling updates for it. An
event that ends in a containment whose kill fails stays in the pipe in
`ReadViolation`, where the code has consumed it; the survivor is not trusted
either way.

### RequestService, and how WorkerLoop implements it

The abstract service knows neither worker nor loop: a request is new, waiting,
holding the permit or over; its client has heard zero or one outcome; at most
one request is being worked on. Work may only begin for the holder of the
permit, and returning the permit ends it. Its fairness says that a held permit
comes back and a free one is handed on.

`WorkerLoop` instantiates it with the phase computed from where the request is
(client, command channel, loop) and with `working <- serving`, the request the
*worker process* serves. `ServiceIsImplemented`, checked as a temporal property,
therefore says at once that the worker never serves a request whose permit has
gone back, that a client hears one outcome at most, and, because the abstract
fairness is part of it, that every permit is returned.

### MemoryTransaction

One value is kept in five places: `file` (config.json), `live` (the reloadable
configuration, with `pending` for the generation in doubt), `health` (the
published snapshot), `worker` (the ceiling it runs) and `launch` (what the next
worker is started with). `call` is the handler that holds
`configuration_transition_lock` and its position between two awaits, `task` the
reconciler it may leave behind, `queued` the loop's pending update, `swap` a
model swap that must acknowledge a generation, `abandoned` the commands in the
channel whose handlers are gone. A generation, in the code a
digest of the document, is here the document itself, followed by the settings
of memory-only transitions made on it: equal digests are equal values.

Loop actions: `TakeUpdate` and `DrainUpdate` apply an update at once or after a
generation, with the four outcomes of the worker; of a failed
update only the drained one always contains the worker, the idle one only on a
timeout. `TakeCallDemotion`, `TakeTaskDemotion` and `TakeReplacement` put a new worker in place, or fail to,
in each of the ways `demotion.rs` and `replacement.rs` return; `SwapEnds`
publishes a snapshot as `ready_with_replacement_model` makes it. Handler
actions follow `rest/maximum_mlx_memory.rs` and `rest/config_reload_memory.rs`,
task actions the poll loops of `maximum_mlx_memory_transaction.rs`,
`queued_memory_reload.rs` and `queued_memory_demotion.rs`. `EditFile` is anyone
else who writes config.json.

The client of a handler may go away while the handler awaits the loop
(`HandlerDropped`): its locks are released and what it marked as pending stays.
If its command had reached the channel, the loop takes it later all the same
(`TakeAbandoned`). Commands of live handlers are taken after the abandoned ones,
as in the channel; against generation requests their order is left open, which
only adds behaviours. `Faults` says whether an instance has such clients
(`"drop"`) and workers that refuse the ceiling of a reload (`"refusal"`).

### PromptCacheStore

A block has a sequence state and a boundary state; a chain of sequence states
and one boundary restore a prompt prefix. The tree of blocks is a constant
(`Parent`, `BlockIndex`, `Tokens`, `ModelOf`): hashes name what a prompt
contains, so the tree is known before anything is stored. `written`, `seqs`,
`bnds` and `stale` are the disk, `tracked`, `trackedSeq` and `trackedBnd` the
index of the open store, `total` the estimate of all bytes. `written` maps a
directory to the number of older ones, which is all that modification times are
used for. `at` is the position of a publication or of the start-up: every file
operation of a publication is a step of its own, so a `Crash` can fall between
any two, and the start-up scan must cope with what it finds. The scan itself
(`OpenScan`), with the directories it removes, is one step: one cut short is
done again, and finds less to remove. `Evict` chooses anew after each removal,
where the code walks one sorted scan and passes over candidates that lost a
member, so the code may report that room was not found a little earlier.
`Compact` goes by the age of directories, the code by that of boundary files. `rotten` files are
those whose header does not validate; `Disturb` counts the file operations
that fail half way and what outsiders do to the files, which makes the index
untrustworthy (`faulted`) until the store is opened again. `acked` is a history
variable, the full blocks acknowledged and not removed since.

`Ancestry` is the least set closed under `Parent`; evictions take a whole
`Subtree`, `ProtectedAncestry` keeps the chain being extended.

### DownloadJob

`job` is the document, `staged` the segments on disk (TRUE when intact),
`published` the models directory, `task` the background task with its position,
its window of transfers and what its assemblers hold. `command` is a pause or a
cancellation: it asks, waits a second, aborts the task and acts. An abort drops
a future, but not the blocking operation it was waiting for; that one is put in
`stragglers` and ends at any later moment, between any steps of the next
commands, starts and resumes. So do the writes behind the assemblers
(`writes`), which reach the file even when it has been renamed meanwhile. Every
blocking operation of the task can be left behind, creation, opening and
truncation included, and as many as there are aborts; since some combinations
break the properties (findings 8 to 13), two constants say what an instance has:
`Lingering`, the operations that may outlast their task, and `Overlap`, whether
one may do so while another still runs. `Failures` says which errors there are
besides those of the network: of the document store and the files (`"store"`;
an operation fails before or after its effect), of a directory removal half way
(`"removal"`), of the attribution log (`"report"`), and a client that leaves
while its command waits, which detaches the task (`"disconnect"`). `clock` advances only when a command has waited
its second; the code's time stamps are finer, which only orders more
operations. Files are written at the granularity of a segment, and no file is
empty. Opening and emptying a file for its retry are one operation, as they are
one closure in the code.

## 3. Runs

| Run | Instance | States | Shows |
|---|---|---|---|
| `relaunch_budget` | budget 2, window 4, backoff 1, horizon 10 | 12,113 | `TypeOK`; `AdmissionsWithinBudget`: any window holds at most the budget, although the guard forgets; `NoRelaunchOverRunningWorker`; `BackoffRespected`: one admission pays for one relaunch, after the backoff; `ExhaustionIsFinal`; `ContainedWorkerRecovers`: a contained worker runs again or the budget is spent |
| `generation_admission` | 3 requests, a demotion, a restart, 2 queue permits, a channel of 2 | | `TypeOK`, `OneGenerationAtATime`, `DemotionExcludesGeneration`, `NoReplacementOverWork`, `PermitsAreAccountedFor`, `AdmittedIsAnswered` |
| `worker_serving` | a chat for an unmapped model, an image and an embeddings request; crashes, fatal errors, restarts, launches and kills that fail | 147,870 | `NoOrphanWork`: an idle, ready worker has nothing left of an earlier request; `AtMostOneAnswer`; `StoppedIsRecovered`; `WellBehavedWorkerKept`: nothing a correct worker says is taken for a violation |
| `worker_control` | two requests for two models, updates, clears, demotions, shutdown; crashes, failed launches and loads | 42,532 | `TypeOK`, `ControlReachesIdleWorker`, `ServedByItsModel`, `PublishedModelIsLoaded`, `QueuedControlIsApplied`, and `ServiceIsImplemented`: the loop implements `RequestService` |
| `worker_idle_limit` (violation) | updates and crashes | | `StoppedIsRecovered` fails: see the findings |
| `prompt_cache` | three blocks in a chain, two rival partial tails, a block of another model; a quota that holds some of them; one disturbance | 194,645 | `TypeOK`; `ChainsAreComplete`: an indexed block has its files and its parent; `QuotaIsKept`; `RestartPointsAreKept`: a lookup restores at least the deepest checkpoint; `AcknowledgedIsRestorable`: an acknowledged full block is restored until it is removed on purpose, across crashes |
| `prompt_cache_tail` (violation) | the same | | `PublishedTailIsRestorable` fails: see the findings |
| `memory_transaction` | two settings (one of them absent), two policies, two listeners; an edit, two calls, two requests, a failure; dropped handlers and refused reloads | 696,884 | `TypeOK`; `OneTransactionAtATime`; `ReportedHasAnOwner`: what a client was told is applied or queued has someone to settle it; `AppliedIsLive`; `RelaunchRemembers`: the launch snapshot has the ceiling the worker runs; `ReconcilerFinishes` |
| `memory_refused_reload` (violation) | the same, refused reloads only | | `PendingHasAnOwner`, that no generation stays in doubt with nobody to settle it, fails: see the findings |
| `memory_swap` (violation) | the same | | `RollbackMeansNeverLanded` fails: see the findings |
| `download_job` | two files of two and one segments, two at a time; two commands, a crash, a fault of the network; one operation at a time outlasts its task, any but a creation, a truncation or a write | 1,149,998 | `TypeOK`; `PublicationIsVerified`; `PauseHolds`; `CancelHolds`; `IdleIsResumable`: every failure of the task is written down |
| `download_control` | one file; everything lingers, overlaps and fails | 675,000 | `ControlReturns`: a command ends, whatever the transport does |

### Further instances

These configurations put the same questions to other faults. They are kept to
reproduce what is said below; `tlc -config <file> <module>` runs each.

| Configuration, module | Instance | Outcome |
|---|---|---|
| `RelaunchLatch.cfg`, `MCRelaunchBudget` | budget 1, window 2 | `RestartClearsLatch` fails: finding 2 |
| `WorkerFailedLoad.cfg`, `MCWorkerLoop` | failed loads | `WellBehavedWorkerKept` fails: finding 3 |
| `MemoryOwner.cfg`, `MCMemoryTransaction` | `memory_transaction`, no handler dropped and no reload refused | `PendingHasAnOwner` holds, 514,252 states |
| `MemoryDroppedHandler.cfg`, `MCMemoryTransaction` | `memory_transaction` with dropped handlers only | `PendingHasAnOwner` fails: finding 7 |
| `DownloadOverlap.cfg`, `MCDownloadJob` | the files of `download_job`, no crash; any number of the operations that compare time stamps, truncations and writes; errors of the store, a removal and the log | `PauseHolds` and `CancelHolds` hold, 3.75 million states |
| `DownloadErrors.cfg`, `MCDownloadJob` | the files of `download_job`, a crash; one operation at a time, a creation among them; errors of the store and the log, a client that leaves | `TypeOK` and `PublicationIsVerified` hold, 1.5 million states |
| `DownloadLateTruncation.cfg`, `MCDownloadJob` | one file; one truncation lingers | `PublicationIsVerified` fails: finding 8 |
| `DownloadHalfRemoval.cfg`, `MCDownloadJob` | one file; one intent lingers and a removal fails | `PublicationIsVerified` fails: finding 9 |
| `DownloadTwoStragglers.cfg`, `MCDownloadJob` | one file; recoveries and replacements overlap | `PauseHolds` fails: finding 10 |
| `DownloadDroppedPause.cfg`, `MCDownloadJob` | one file; a client leaves | `PauseHolds` fails: finding 11 |
| `DownloadLateCreation.cfg`, `MCDownloadJob` | one file; a creation lingers | `CancelHolds` fails: finding 12 |
| `DownloadUnrecorded.cfg`, `MCDownloadJob` | one file; the log fails | `IdleIsResumable` fails: finding 13 |

### Bounds

- Clock: `Horizon` stops the clock, except while a deadline is ahead, so a
  scheduled relaunch always comes due. Ten ticks are two and a half windows:
  enough to exhaust the budget, to see attempts forgotten and admitted again,
  and to span a latch. The theorems drop the bound.
- Permits: two queue permits and three requests give a full queue, a refusal,
  a waiter behind an active request and a reservation that fails halfway. A
  channel of two fills up. The theorems hold for any number.
- `PipeBound` is the number of messages at which a pipe's writer blocks. Two
  or three let the pipe fill, so writes fail and the worker waits; a reply of
  several events is written at once and may exceed it.
- Requests: each is submitted once. Two requests for two models make a swap
  happen in both directions; three cover the three kinds, whose cancellation
  and finalization differ.
- The faults of a run are a constant, so that each question is asked with the
  faults it can survive: the failed load that breaks `WellBehavedWorkerKept`
  and the idle update that breaks `StoppedIsRecovered` have instances of their own.
  A restored model that loads for longer than its wait (`"slowLoad"`) is left
  out of `worker_control` for the same reason, see finding 1.
  A kill that fails is inside `StoppedIsRecovered`: the loop keeps a worker it
  does not trust, and that worker is stopped at the latest when it exits.
- Cache: a chain of three blocks with a stride of three has a first block, a
  block between checkpoints and a checkpoint, so compaction removes some
  boundaries and keeps others. The quota of 15 bytes is below the 27 all
  blocks need: it is met by evicting, by compacting, and not at all when the
  chain being extended is all there is. The block of another model is what a
  quota shared by all models can evict from outside the open store. The
  theorems hold for any tree, stride and quota.
- Ceiling: two calls make a second transaction meet the reconciler of the
  first; two requests make a swap and a generation overlap with them; one
  failure falls at any step of them. `Machine` is above the settings, so an
  absent setting is a raise and a present one a demotion.
- Downloads: a file of two segments arrives out of order, a second file makes
  the window cross a file boundary; two commands make a straggler of the first
  meet the second. The crash may fall at any step. What the passing runs leave
  out of `Lingering`, `Overlap` and `Failures` is what their properties do not
  survive, with few exceptions. `PublicationIsVerified` fails with a late
  truncation and with a half-done removal, which have instances of their own, and with
  a late write, in the same way as with the truncation. `PauseHolds` fails with
  two operations of which one does not compare time stamps, and when a client
  leaves; a late creation, which no instance of it has, is in its theorem.
  `CancelHolds` fails with a late creation. `IdleIsResumable` fails with every
  error of the store and of the log, and also with a late creation, a late
  truncation and two operations left behind, as consequences of the same
  findings. Not checked: `PublicationIsVerified` with two operations left behind,
  and a second task or a cancellation beside a task that a client's departure
  detached (`Ask`, `Start` and `Resume` exclude them).
- Deadlock is not checked where the system may rest: all requests served, the
  loop shut down, the calls and edits of the memory runs used up, or a download
  whose task ended by an unrecorded error. `relaunch_budget`, `prompt_cache` and
  `download_job` check it.

### Fairness

- `RelaunchBudget`: time passes and the loop keeps iterating (weak fairness of
  `Tick`, `Observe` and the outcome of a launch, which has a timeout). The due
  timer is one arm among several of a `tokio::select!`, which polls its ready
  arms in random order: strong fairness of `Relaunch`. Failures and requests
  are never owed.
- `GenerationAdmission`: the runtime polls every woken future and the loop
  takes every command and finishes what it starts (weak); sending into a
  channel that others fill too needs strong fairness, which tokio's fair
  channel semaphore gives. Nobody has to ask, give up or hang up.
- `WorkerLoop`: the loop never rests inside an iteration and its timeouts are
  timers (weak); arms of the select that are ready again and again are taken
  (strong). The worker reads its commands, and a generation ends
  (`WorkerEnds`), because `max_output_tokens` and the step count bound it in
  the worker. A hung engine is outside this assumption; the daemon has no
  execution deadline for a chat.
- `MemoryTransaction`: the loop, the handler and the reconciler are polled
  (weak fairness of each); their waits have timeouts in the loop. Requests,
  calls and edits are never owed. That a generation ends is part of the loop's
  fairness, for the reason given above.
- `DownloadJob`: the task's own steps, the operations left running and the
  timer of a command (weak). Nothing is assumed of the network: a transfer may
  hang for ever, and `ControlReturns` holds all the same.
- `PromptCacheStore` has no liveness property: it is called, and returns.

## 4. Proofs

TLAPS checks these for every value of the constants allowed by
`BudgetAssumption` and `AdmissionAssumption`, which only say that the constants
are numbers and the sets of actors disjoint, by `BlocksAssumption`, which
says that the blocks form finitely many chains whose inner blocks are full (the
code's `validate_requested_block_ancestry`) and that the number of disturbances is
a natural number, by `SettingsAssumption` (a setting
is absent or a positive number of bytes, and the faults are those there are), by
`DownloadAssumption` (finitely many files, none of them empty, and known
operations and failures), and by a `NoneAssumption` in two modules, which says
that `None` is none of the records it stands in for. `ProtocolAssumption` and
`LoopAssumption` say that every request has a kind and a model and that the
faults, controls and catalog are among those there are. Theorems that need a
fault or a control command to be absent say so in an `ASSUME` of their own.

`RelaunchBudgetProofs`
- `TypeCorrect`: `TypeOK` is inductive.
- `BudgetRespected` (`AdmissionsWithinBudget`). The property speaks of all
  admissions, the guard remembers the recent ones only. `BudgetInv` links the
  two: `recent` is a suffix of `history` (`RecentIsSuffix`), what was forgotten
  has left the window (`ForgottenIsAged`), and no admission is in the future
  (`HistoryIsPast`). An admission finds fewer than the budget in `recent`, so
  the admission a whole budget earlier is forgotten, hence aged.
- `RelaunchOnlyStopped` (`NoRelaunchOverRunningWorker`) and `LatchIsFinal`
  (`ExhaustionIsFinal`) both follow from `LatchInv`: a loop that published its
  worker as unavailable is not ready, so it refuses restarts, and a closed latch
  goes with a stopped worker, no deadline and no relaunch under way.
- `BackoffIsKept` (`BackoffRespected`), from `DeadlineIsPaid`: a deadline is a
  backoff ahead of the newest admission, because nothing but an admission sets
  one.

`GenerationAdmissionProofs`: one inductive invariant, `IInv`, is about
ownership. A request that was granted, sent or served owns the active permit
(`SentOwnsActive`); one that is admitted or waits owns a queue permit
(`WaitingOwnsQueue`); a complete reservation owns every permit
(`ReservationOwnsAll`); the queue for the active permit holds waiting requests,
once each (`WaitersWait`); the inbox holds sent requests, once each
(`InboxIsSent`). With it, two requests in the loop would both own the one
active permit (`GenerationsAreSerial`), and a request beside a reservation would
own a permit the reservation owns (`DemotionIsExclusive`). `ReplacementIsIdle`
and `NoPermitIsLost` are conjuncts of it. There is one lemma per action, and
`HandOver` and `LeaveKeeps` for the hand-over of the active permit and for a
waiter that gives up.

`RequestServiceProofs`: `ServedOneAtATime` (the permit has one holder, work is
done for the holder only, nobody hears two outcomes) and `OverIsFinal`. They are
about the abstract service; the refinement (`worker_control`, and
`LoopServesRequests` for its safety part) carries them over to the loop.

`PromptCacheStoreProofs`
- `ChainsStayComplete` (`ChainsAreComplete`), `RestartPointsStay`
  (`RestartPointsAreKept`) and `AcknowledgedIsKept`
  (`AcknowledgedIsRestorable`) follow from one inductive invariant, `IInv`.
- Its parts: `Shape` (files lie in directories, the index names blocks of the
  open model, positions and the publication in progress agree);
  `TransactionIsAnchored` (the block being published has its parent in the
  index and in the protected chain, so no eviction takes it away meanwhile);
  `IndexIsSound`, while the files are trusted (what the index names is on disk,
  with its parent, and its boundary where the retention policy needs one);
  `AckedIsDurable` and `AckedIsIndexed` (an acknowledged block has every
  sequence state of its chain on disk, and in the index when the store of its
  model is open). The properties speak of the index; `AckedIsDurable` speaks of
  the disk, which is what survives a crash, and the proof of `OpenScan` gets
  back from it to the index.
- Chains: `Ancestry` is a least set, so facts about whole chains are proved by
  exhibiting a set closed under `Parent` and need no induction; the newest
  boundary of a chain is found by the minimum of a well-founded set.
- `QuotaStaysKept` (`QuotaIsKept`) and `StoreTypeCorrect` (`TypeOK`) follow from
  a second invariant, `Ledger`, relative to the first. `QuotaIsKept` alone is not
  inductive: the store does not look at the files, it compares a running total
  with the quota. `TotalIsExact` says that the total is the size of what is on
  disk as long as the quota is enforced; `CreditIsHeld` says that a credit, the
  bytes of a parent boundary which the commit is going to give back, stands for a
  boundary that is still in the index, so that no eviction counts it a second
  time, and the credit is decided again at the commit. `Ranked` says that the
  ages of the index are ranks, which bounds them. One lemma per action
  (`...Counts`) says what the action adds to the disk and to the total.
- Sums: the bytes of a set of entries are counted as the cardinality of the set of
  all their bytes, laid out side by side (`SumOver`), so what a union, a removal or
  a replacement adds up to follows from the theorems on finite sets, and no sum
  has to be unfolded. TLC evaluated `Ledger` as an invariant before it was proved,
  with a quota of 15 and one disturbance and with a quota of 12 and two.

`MemoryTransactionProofs`: `TransactionsAreSerial` (`OneTransactionAtATime`),
`ReportedIsOwned` (`ReportedHasAnOwner`), `AppliedStaysLive` (`AppliedIsLive`),
`RelaunchIsFaithful` (`RelaunchRemembers`) and `PendingIsOwned`
(`PendingHasAnOwner`) follow from one inductive invariant. All but the last hold
with dropped handlers and refused reloads; the last assumes `Faults = {}`, and
findings 6 and 7 show that it needs to.
- The properties speak of the handler and the reconciler; what disturbs them is
  the loop. So the invariant says of every request that is under way in the loop
  which setting and which generation it carries (`NamesItsSetting`,
  `CallIsSound`, `TaskIsSound`, `RequestsAreKept`), that a queued update has
  someone who waits for it (`QueueHasAnOwner`), and that what health says has
  landed is what the launch snapshot holds (`LandingIsReal`).
- `AbandonedIsKept` is about commands whose handlers are gone: each is sound in
  itself (`SoundCommands`), and while one waits nobody else's transaction is in
  the loop's hands. An abandoned update has left its generation behind
  (`PendingIsLost`), so that no later update or reload starts beside it.
  `LossNeedsFault` says that only the two faults bring that about.
- `AppliedIsLive` alone is not inductive, because the answer is given some steps
  after the worker replied. `OutcomeIsLaunched` carries the fact across those
  steps: as long as a handler or a reconciler holds a favourable outcome, nobody
  else may change the launch snapshot.
- One lemma per action; each names the loop's step and the handler's separately,
  so that a loop step is shown once to respect all positions of the handler.

`DownloadJobProofs`: two inductive invariants, the second relative to the first.
Each theorem assumes no more than it needs, in terms of what may land late.
`Attached`: no client leaves during a command. `Monotonic`: operations do not
overlap, or those that linger compare time stamps. `Calm`: one operation at a
time lingers, it is not a creation, a truncation or a write, no removal fails
half way, and no client leaves. Errors of the store and of the log are allowed by
all three.
- `PublicationInv` gives `PausesHold` (`PauseHolds`; `Attached` and `Monotonic`),
  `CancellationsHold` (`CancelHolds`; `Attached` and no late creation) and
  `PublicationsAreVerified` (`PublicationIsVerified`; `Calm`). A task is aborted
  by a command that has waited a second, so whatever the abort leaves running
  carries an older time stamp than the document the pause writes (`PauseIsKept`),
  and `replace_current` refuses it. After a cancellation there is no document,
  which every operation but a creation needs (`CancelIsKept`). Commands exclude
  one another and every start (`CommandIsExclusive`), a task has what its position
  needs (`TaskIsEquipped`), and what is left behind carries what it would write
  (`StragglersAreShaped`). In a calm instance a publication runs beside no task
  that writes (`TaskIsAlone`), and what is left behind is older than the document
  unless its command has not been carried out, or failed (`StragglersAreLate`).
- `DocumentInv` gives `IdleJobsAreResumable` (`IdleIsResumable`; `Calm` and no
  failure of the host) and, with the first, `TypeCorrect` (`Calm`). It follows the transfer window: every segment the
  document has not recorded is queued, in flight, parked or being assembled
  (`WindowIsSound`, `WindowIsComplete`), hence a window that runs dry has every
  byte and the document that is written next is valid (`DocumentsAreValid`).

`WorkerLoopProofs`: two inductive invariants, for every fault and every control
command, `LoopInductive`.
- `ControlInv` is about the loop's own state. `Posture` says what each position
  goes with: the request in `cur` and its state, whether the worker is ready,
  what health says, which acknowledgements are staged. `Ledger` counts: one
  request holds the permit, and an answered one is being cancelled or is over.
  `LoopTypeCorrect` (`TypeOK`) and `OneAnswer` (`AtMostOneAnswer`) follow.
- `PipeInv` is about the conversation with the worker. `NoOrphanWork` alone is
  far from inductive: it speaks of an idle loop, and what makes it true happens
  while a request is active. So `ServedIsTracked` says that, as long as a request
  is active or being cancelled, both pipes and the worker are about that request
  only, that its end is the last word about it and that the worker is then idle;
  `TrustedIsClean` says that a worker with no request and not given up is clean;
  `GreetingIsFirst` and `HandshakeIsFresh` say that a greeting comes once, from a
  worker that nobody trusts yet; `ControlsAreFirst` that no control command
  follows a request. Reading the end of a request then leaves a clean worker,
  which gives `NoWorkIsOrphaned` (`NoOrphanWork`) and `ControlIsHeard`
  (`ControlReachesIdleWorker`).
- The worker is an operator of `WorkerProtocol`; `AnswerForms` and `AdvanceForms`
  list what it can say, and the pipes are reasoned about through what they say
  (`Says`, `Free`) and in which order (`NoneAfter`), seldom by index.

`WorkerServiceProofs`, from the same invariants.
- `LoopServesRequests`: where kills work, every behaviour of the loop satisfies
  the initial condition and the next-state relation of `RequestService` under the
  refinement mapping. The worker can be ahead of the loop, so the step in which
  the loop gives a permit back needs `WorkIsHeld`: a request that is worked on
  holds the permit. `KillIsFinal` is what fails otherwise: a worker that survives
  its kill goes on with a request that is over.
- `StoppedWorkerIsRecovered` (`StoppedIsRecovered`), without idle updates and
  demotions. With either it is false (finding 1). `StoppedInv` extends the
  property from the select to all other positions of an iteration.
- `RequestsFindTheirModel` (`ServedByItsModel`) and `PublishedModelIsHeld`
  (`PublishedModelIsLoaded`), unless a restoration gives up a load that goes on,
  which finding 1 shows to break the second. `ModelInv` follows the one swap that
  can be under way from its command through the worker to its reply
  (`SwapIsFollowed`, `RestoreIsFresh`): until the command is read the worker holds
  the published model, and the reply says what it holds afterwards. A request is
  dispatched when its model is published (`DispatchIsMatched`) and no swap comes
  before it is served (`GenerateIsMatched`).
- `GoodWorkerIsKept` (`WellBehavedWorkerKept`), for every control command but the
  ceiling update and every crash, fatal error and failed launch. Of an update that
  meets a swap the code does contain a correct worker later, by the comparison of
  configuration generations that `Mismatched` leaves out. An event is refused when it comes
  at a position of the loop that does not expect it, so `TalkInv` says what may
  be in the pipes at each position. `LimitsAreAwaited`, `ClearsAreAwaited` and
  `SwapsAreAwaited`: a control command or its reply is under way only in the wait
  for it, once, and about the model that is asked for. `ConfigsAreKnown` and
  `GreetingIsOpen`: any other configuration, and the word that a worker is idle,
  are those of a greeting that nobody has read. `RequestsAreKept`: the events of
  a request fit its kind, and its outcome comes once, after all progress and
  before the finalization, even where a crash cuts the pipe. `StartIsConfigured`
  is what ties this to the loop: a request is started, and a model asked for, only
  when the configuration is known. TLC checked `TalkInv` on two and on three
  requests with all five controls before it was proved. The theorem leaves out
  three faults, and TLC refutes the property with each of them: a failed load
  (finding 3), a restoration that gives up a load (its `Swapped` reaches the
  select), and a kill that fails after a clear timed out during the greeting (the
  survivor greets, is taken back as ready, and its `Cleared` reaches the select).
  `worker_serving` checks the failing kill too, with no control but the restart.

Only model-checked: every liveness property, the fairness part of the refinement
included (the prover does not do fairness).

## 5. Findings

1. **A worker lost under an idle ceiling update is not relaunched**
   (`worker_idle_limit`). `queue_or_apply_mlx_memory_limit_update` returns a
   failed update to its caller without containing it. If the worker exited, it
   is reaped, `is_ready` stays true and the status stays ready; the relaunch
   rule looks for a stopped *and unavailable* worker and never fires, although
   `failure_relaunch.rs` says that no path can forget to recover. The drained
   update, of the same code, does contain the failure. The restoration of the
   model after a demotion (`memory/demotion.rs`) has the same gap: with
   `Controls = {"demote"}` the run fails in the same way. There the wait can also
   time out with its `SwapModel` outstanding. With `"slowLoad"` among the faults
   of `worker_control`, `PublishedModelIsLoaded` fails: an idle ceiling update
   reads the late reply as its own error, and health says that no model is
   loaded while the worker holds one.
2. **An exhausted budget cannot be cleared by a restart** (`RelaunchLatch.cfg`).
   `crash_loop_guard.rs` says an explicit restart or replacement clears the
   latch; both are refused by a loop that is not ready, and a latched loop never
   is. `LatchIsFinal` proves that nothing in the process reopens it.
3. **After a failed first load a good worker is replaced**
   (`WorkerFailedLoad.cfg`). `reject_model_swap` publishes a snapshot without the
   acknowledged configuration, so the next swap does not wait for one; the
   configuration the worker sends with it is then read as an unexpected event
   by a cancellation.

4. **The publication of a partial tail may make it useless**
   (`prompt_cache_tail`). `parent_boundary_reclaim_after_commit` also takes the
   boundary of a tail's parent, under quota pressure, as redundant; the probe for
   a partial tail demands exactly that boundary, so the tail just published
   cannot be restored.
5. **An update that meets a model swap is applied and rolled back**
   (`memory_swap`). The snapshot published at the end of a swap drops the staged
   generation; the queued update is then applied by the worker without its
   generation, the transaction takes it for rejected and restores the previous
   live configuration, while the worker and its launch snapshot run the new one.

6. **A refused reload blocks every later one** (`memory_refused_reload`). When the
   worker refuses the ceiling of a reload at once, `apply_live_memory_limit`
   answers and clears nothing, other than in its error arm. The pending generation
   stays, and every later reload and update is answered with 409 until the daemon
   restarts.
7. **So does a client that leaves** (`MemoryDroppedHandler.cfg`). A handler dropped
   while it awaits the loop leaves the generation it had marked as pending. Only
   that handler or a reconciler it had yet to start would have cleared it.
8. **A late truncation publishes an empty file** (`DownloadLateTruncation.cfg`). The
   closure that empties a file for its retry is not stopped by an abort, and its
   only test is the length of the file. The file that was fetched again and
   verified has that length.
9. **A half-done cancellation publishes a part** (`DownloadHalfRemoval.cfg`).
   `cancel_current_job` removes the files before the document. When the removal
   fails half way, the document still says `Verifying`; a publication intent left
   behind by the aborted task fits it, and a resume then publishes what is left.
10. **Two late operations undo a pause** (`DownloadTwoStragglers.cfg`).
    `load_recovering_interrupted_job` saves without comparing time stamps and sets
    them back; after it a late `mark_downloading` is no longer too old.
11. **A client that leaves detaches the task** (`DownloadDroppedPause.cfg`).
    `abort_active_task` takes the handle of the task before it waits for it. When
    the command is dropped in that second the task runs on, unknown to every later
    command, and the next pause is acknowledged beside it.
12. **A late creation brings a cancelled job back** (`DownloadLateCreation.cfg`).
    `create` only needs that there is no document, which is what a cancellation
    leaves.
13. **Some errors of a task are written nowhere** (`DownloadUnrecorded.cfg`). An
    error of the attribution log around the verification or the intent, and one of
    the store where the job is marked as downloading or verifying, reach the log
    only. The document keeps an interrupted state with no task, which `resume`
    refuses until a pause or a restart.

## 6. Not modelled

In the modelled components:

- *Worker loop*: `UpdateModelPolicyCatalog` (the catalog is a constant), the exit
  of the loop when every handle is dropped, back-pressure on the last event of a
  stream, memory samples, cache statistics and load progress (accepted by every
  reader, they change no course), what a request asks of its model (it is
  refused or started, `RejectStart`), completion logs, and the worker's resident
  promotion. A replacement brings a catalog along, which is a constant here, and a
  rejected candidate is reaped, which is left out; the configuration a
  replacement stages is in `MemoryTransaction`, its permits are in
  `GenerationAdmission`.
- *Memory ceiling*: the configured snapshot and its validation error, which are
  only displayed; documents that do not parse; a handler dropped at another await
  than those of the loop's answers.
- *Prompt cache*: visual embeddings, path safety, the contents of tensor files,
  counters and evidence. The model is of stores with both kinds of state.
- *Downloads*: a second task and a cancellation beside a task that was detached
  (finding 11), a crash in the middle of a directory removal, the catalog and the
  Hub manifest, path and symlink safety, the displayed progress, writes lost for
  want of a synchronization.

Hazards seen in these components and not covered by a property, beside the ones
under `hazards` in `PROJECT.json`:

- `persistent_cache/disk_store_write.rs:116`: a rotten sequence state makes every
  publication above it fail until the store is opened again; line 138 looks a
  parent up in the index only. `disk_store_block_transaction.rs:311`: the
  synchronization after the rename can fail when the block is already there.
- `config/queued_memory_reload.rs:28`: the reconciler may read the live
  configuration before the handler has written it (in the model as `PollRestart`
  before `Respond`). `rest/config_reload_memory.rs:217` records the generation of
  the memory part only. `crates/config`, `maximum_mlx_memory.rs:88`: the file is
  compared and then renamed, with a window between the two.
- `library/download/job/store.rs:279`: a publication whose refresh always fails
  stays in `Publishing`. `payload_transfer_window.rs:101`: an empty file is never
  created.

Components without a module, and why, are listed in `PROJECT.json`. By size most
of the repository is tensor computation for the model families, native build and
release tooling, HTTP and JSON documents and their tests, and front ends. They
keep no state that a model checker could say something about, and a model of
them would restate them line by line. The share of the repository's lines behind
these modules stays small for that reason: they cover the parts that run
concurrently, survive crashes or share state.

## 7. Plan

In order of importance. Done: `RelaunchBudget`, `GenerationAdmission`,
`WorkerLoop` with its replacements, `RequestService` with its refinement, `MemoryTransaction`,
`PromptCacheStore` and `DownloadJob`, with proofs for all of them, and the safety
part of the refinement. Left:

1. Memory-policy operators against reference definitions over bounded inputs,
   saturation included.
