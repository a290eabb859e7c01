# SparkStage in TLA+

SparkStage turns a script into shots, generates video takes for each shot with
a ComfyUI backend, lets a person review the takes, and builds the film. One
worker process owns every write; command line and terminal UI talk to it over a
Unix socket. This directory holds TLA+ modules that model the worker, the TLC
configurations that check them, and proofs that TLAPS checks.

    tlc -workers 2 -config queue_crash.cfg MCCameraQueue
    tlc -workers 2 -config journal_live.cfg MCJournals
    tlc -workers 2 -config production.cfg MCBuilds
    tlc -workers 2 -config comfy.cfg MCComfy
    tlc -workers 2 -config console.cfg MCConsole
    tlapm StandingProofs.tla

## 1. The system

Paths are relative to the repository.

| Component | Code | State | Operations |
| --- | --- | --- | --- |
| Camera queue | `src/worker/runtime.rs`, `runtime/execution.rs` | queue (running, pending, paused), busy flag, project files | dispatch, apply executor event, complete, fail, block, rebuild, recover |
| Camera executor | `src/worker/executor.rs` | one request at a time, set of cancelled jobs | prepare, submit, monitor, reconcile, collect |
| Audition batches | `runtime/auditions.rs` | a shot's `audition_target_takes` | schedule next, resume at startup |
| Cancellation | `runtime/commands/cancellation.rs` | - | cancel pending, cancel running, interrupt |
| Command handling | `runtime.rs`, `runtime/commands*.rs` | command journal (JSONL) | handle, replay, recover prepared commands |
| Project store | `src/store/project.rs` | `state.json`, `jobs/*.json`, `raw/<shot>/<take>.json`, `events.jsonl` | save with a revision check, enqueue, cancel |
| Decisions and review | `store/project/decisions.rs` | `decisions.jsonl`, approvals, selections | select, approve, reject, batch review, pause; recovery |
| References | `store/project/references.rs` | reference files and revisions | import, replace, invalidate |
| Builds | `store/project/builds.rs`, `runtime/builds.rs`, `src/build*` | build records, recipes | start, run, finish, review, mark stale, recover |
| Cleanup | `store/project/storage.rs` | cleanup plans, trash | plan, apply, restore, recover |
| Budget | `store/project/budget.rs`, `runtime/budget.rs` | contract, overrun approvals | assess, apply, approve |
| Atomic files | `src/store/atomic.rs` | - | write, append, read |
| ComfyUI adapter | `src/adapter/comfy*` | - | submit, websocket, history, interrupt |
| Portability | `src/portability*` | archives | export, import, migrate |
| Terminal interface | `src/tui` | snapshot on the screen, dialog, subscription thread | refresh, confirm, dispatch, switch project |
| IPC, command line | `src/ipc*`, `src/cli.rs` | - | one exchange per connection |

### How they interact

The worker's main loop (`run`, runtime.rs:59) does, every 50 ms: poll the build
executor; take every event the camera executor sent and apply it; dispatch, when
the executor is not busy; serve at most one connection. The camera executor is a
thread behind two channels. A cancellation reaches it through a shared set,
without waiting for the main loop. The backend is a process of its own that the
worker may share with other clients.

Everything durable is in files that are replaced atomically, one at a time, or
appended to. A handler makes several such writes in sequence. The queue in
memory (and `queue.json`) repeats what the project directories say, and is
rebuilt from them at startup.

### What is hard

- Three actors interleave: the main loop, the executor, the backend.
- A process may die between any two writes of a handler, and a write may fail
  after it took effect, because the directory is synced after the rename.
- Submitting a job is not idempotent, and its reply can be lost.
- The interrupt of the backend is global, and does nothing to a pending prompt.
- A cancellation, a completion, a failure and a recovery may meet on one job.
- An audition batch continues only through its own completions.
- Decisions, references and scripts change while jobs and builds that rest on
  them are under way, and what rests on them must lose its standing, no more.
- `ProjectState::validate` refuses a state after the files it should describe
  have been written.
- ComfyUI tells the end of a prompt over a WebSocket that may open too late or
  break, in a history it may forget, and not at all after a restart.
- The terminal interface learns of changes from a thread, a one-slot channel and
  a timer, and switches all of them when it switches projects.

`PROJECT.json` lists these hazards at their lines, with the properties that
cover them.

### What makes each component correct

- Camera queue: a job goes to the backend at most once; no job is sent beside
  one that is still wanted; the queue holds exactly the shots' active jobs; a
  finished take is never lost; what ended stays ended; accepted jobs end, in
  order.
- Executor: each request is answered by exactly one event that frees it.
- Audition batches: a batch reaches its target, never passes it, and continues.
- Cancellation: a cancelled job stops and stays cancelled, and stopping it stops
  no other job.
- Command handling: a command takes effect once however often it is sent, and
  its reply tells whether it did.
- Decisions: a decision is in the journal as committed exactly if the state
  holds it. Review: only a current, available take is approved.
- References and builds: nothing that rests on replaced input counts as current.
- Cleanup: every file is in one place, and a plan can be undone or finished.
- Budget: no generation beyond the contract without an approval for it.
- ComfyUI adapter: what it reports of a job is what happened to its prompt, and
  every watched prompt comes to an end.
- Terminal interface: the screen catches up, and no switch hangs.

## 2. Modules

| Module | Models |
| --- | --- |
| `TakeLedger` | abstract: what the queue promises about each job |
| `CameraQueue` | queue, executor, backend, auditions, cancellation, recovery |
| `CommandLedger` | abstract: what the worker promises about each command |
| `Journals` | command journal, decision journal and cleanup plans, all recovered by `last_command_id` |
| `ProjectState` | `state.json`: what it says, and what `validate` asks of it |
| `Review` | what requests and camera jobs do to it: script, references, budget, takes, decisions |
| `Builds` | builds and their executor on top, startup, crashes; the specification of the three |
| `Workflow` | what an adapter file can be asked for: the gate, preflight, `prepare`, the frame count |
| `BackendPort` | abstract: what the camera queue takes for granted about executor and ComfyUI |
| `ComfyAdapter` | the executor's thread on HTTP and WebSocket, ComfyUI, the network |
| `Console` | the terminal interface, its subscription thread, the worker and other clients |
| `MC*` | instances for TLC |
| `*Proofs` | proofs for all values of the constants: `CameraQueueProofs` and on top of it `QueueProofs`, `JournalsProofs`, `ComfyProofs`, `ConsoleProofs`, and for `Builds` the chain `BuildsProofs` (types), `TakesProofs` (takes and decisions), `StandingProofs` (builds and reviews) |

How they fit together. `CameraQueue` treats the backend as a process that
accepts a job and ends it, and the executor as a sequence of three requests;
`ComfyAdapter` opens both up and is shown to implement `BackendPort`. `Review`
takes a camera job as reserved and then ended, whatever the queue did in
between. `Journals` has the order of a command's writes, which `Review` and
`Builds` take as one step, for every write checks the revision it read, and
`bump_revision` validates before it writes. `Console` keeps of the worker only
that a revision rises and who is told.

Next in the plan: what remains of `validate` (counters and project
stage), torn journal lines at startup (atomic.rs:108), the worker lock, and the
order in which an import or a migration replaces a project.

## 3. The model of the camera queue

### State

| Variable | Code |
| --- | --- |
| `job` | `jobs/<id>.json`: job state, state of its attempt, whether the backend id is saved, shot, profile |
| `shot` | the shot in `state.json`: stage, `active_job_id`, `take_ids`, selected take, `audition_target_takes`, pending candidate selection |
| `takeFiles` | `raw/<shot>/<take>.json` |
| `projectPaused`, `queuePaused` | `ProjectState.paused`, `QueueState.paused` |
| `w` | the process: phase, running entry, pending entries, `executor_busy`, the executor's request, the event channel, the set of cancelled jobs |
| `backend`, `submissions` | what the backend did with each job, and how often it accepted it |
| `crashes`, `faults` | how many of each there were, against their bounds |

### Actions

A handler of the main loop is one action, because the loop is sequential and no
other actor reads the files. What may happen inside a handler is its *outcome*
(`Outcomes(n)` for n durable writes): all writes succeed; the process dies after
some; or a write fails, with or without having taken effect, and the handler
returns its error. So a crash between any two writes is covered, and after it
`w` is `Lost`.

- Commands: `Enqueue`, `SelectTake`, `SetProjectPaused`, `SetQueuePaused`,
  `CancelPending`, `CancelRunning`.
- Startup: `Boot` (rebuild and recovery of ended jobs), `ResumeAudition` once per
  shot that owes auditions, `Open`. `Crash` may come at any point.
- Dispatch: `StartNext`, `StartRebuild`, `BlockRunning`, `MarkUnknown`,
  `SendAgain`.
- Events: `ApplyPrepared`, `NoteAttempt` (submitted, unknown, retry), `FailJob`,
  `CompleteJob` (with `schedule_next_audition`), `Discard`.
- Executor: `ExPrepare`, `ExSubmit`, `ExWatch`. Backend: `BackendStarts`,
  `BackendEnds`: a prompt is pending, then executes, one at a time, then ends.
  `Interrupted` fails the prompt that executes, whose ever it is, and no other.

### Abstractions

- Prompts, profiles' contents, media, metadata and messages are left out. A job
  is a number, drawn in the order of its ULID.
- `queue.json` is not a variable, for startup replaces its entries by rebuilding
  them; its `paused` flag is `queuePaused`. A failed write of that flag is
  taken to change nothing.
- A job has at most one attempt: only `StartNext` adds one, to a queued job, and
  no code puts a job back to queued.
- Rejections, approvals, stale takes and new contracts are left to `Review`.
  Here every take stays available and a shot's contract does not change.
- Only outcomes of preparing, submitting and watching are kept of the adapter;
  how they come about is `ComfyAdapter`.
- The five-second pauses after an error or a retry are not modelled: dispatch
  may come at any later time.
- The backend keeps the history of every job it accepted. Other clients' prompts
  are not in the model: while one executes, ours are pending.
- An output collected again after a crash equals the saved take or not
  (`same`): its metadata includes the elapsed time.
- An automatic audition is skipped when the model's job ids are used up.
- The path of `schedule_next_audition` for a target that is already met is left
  out: the first conjunct of `BatchesReachTarget` shows that it is never taken.

## 4. The model of the journals

A command of a client changes several files: the command journal before and
after, the decision journal before and after, a plan, a job or the queue file,
and `state.json`. What makes them one is `state.last_command_id`: it says after
a crash which prepared command took effect (`command_was_applied`), which
prepared decisions hold (`recover_decisions_for_state`) and whether an
interrupted cleanup has reached the state (`finish_cleanup_operation`). The
three recoveries read and write the same field, so they are one module.

### State

| Variable | Code |
| --- | --- |
| `journal` | the last line of `commands.jsonl` on each command: prepared, or committed with its reply (an abort told apart) |
| `state` | `state.json`: `revision`, `last_command_id`, rejected takes |
| `loose` | cancellations that a job file shows and `state.json` does not |
| `dec`, `com` | how many decisions of a command `decisions.jsonl` holds as prepared and as committed |
| `plan` | `trash/plans/<plan>.json`: status, items, `active_operation` |
| `place` | where each file is: in the project or in the trash of a plan |
| `queueLast` | `last_command_id` of `queue.json` |
| `w` | the process: phase, the command at work, the step that comes next (`at`) and after a recovery (`then`), decisions left, the reply, the journal and the queue in memory |
| `sent`, `told`, `effects` | history: each client's request, the answers it got, how often the command took effect |

### Steps

Here every durable write is a step of its own, for what matters is the order of
a command's writes and what the recoveries inside `save_state` do between them.
`w.at` names the next write. A write has a *result*: it took effect or not, and
it was acknowledged or not. `Failed` says where an error leads: an error at
startup ends the worker, an error of a command becomes its reply, an error at a
build's event ends the worker (the `?` of `poll_build_events` in `run`), and one
at a camera job is logged. `Crash` may come at any step.

- Requests: `Repeat` (a known command id), `Accept`, `Guard` (revision and other
  refusals), `Reply`.
- Writes: `Prepare`, `WritePlan`, `Unplan`, `Mark`, `CancelJob`, `PauseQueue`,
  `Save` or `SaveConflict`, `AppendEvent`, `SnapshotQueue`, `Commit`.
- Cleanup recovery, inside `save_state`, at a cleanup command, a storage report
  and startup: `Move` per file, `Stamp`, `Settle`, or `RecoverNothing`.
- Decision recovery: `Redo` per line, `RedoDone`.
- `Background`: the main loop's own saves, at the camera's jobs and at builds.
- Startup: `Boot`, the recoveries, `RecoverTerminal`, `AnswerPrepared`, `Open`.

Commands are of the kinds that differ in their writes. `enqueue`: state, queue
snapshot. `cancel`: job, state, event, snapshot. `build`: state, and later states
in its name. `reject`: one decision around the state (selecting, approving and
pausing a project are alike). `batch`: two decisions. `queue`: `queue.json`
alone. `plan`, `apply`, `restore`: the cleanup commands.

### Abstractions

- A journal line is written whole or not at all; reading never fails.
- One project. Scripts, references and budgets are commands of the `build` or
  `reject` shape as far as these files go, and are not sent.
- A repeated id with another request (`COMMAND_ID_REUSED`) is not sent.
- The files written before a state that refers to them (job, recipe) are left
  out, except the job file of a cancellation, which acts without the state.
- Files are those of rejected takes. Their sizes and paths always check out.
- `recover_builds` and `resume_auditions` of a startup count as background writes
  after it.
- The first state may hold rejected takes already.

## 5. The models of project, adapter and interface

### `ProjectState`, `Review`, `Builds`

The state is `state.json` of one project, grouped as the code groups it: status
of each contract and the active one; for each shot its stage, the take its job
reserved (`job`), audition target, takes, rejected takes, selection, approval;
for each take whether it is reserved, written, registered or void, and its
*ticket*, which is what it was asked to be (shot, profile, the generation part of
the script, the references); references and which are in use; budget, overruns
asked and granted; pending approvals by kind; builds with their recipe. Two
scripts differ in what generation reads of a shot, in what only the cut reads, and
in the delivery: that is all `apply_bundle` and `approve_script` compare.

A handler is one action. It ends with `Refreshed`, the outcome that
`refresh_derived_outcome` derives. `validate` is not a guard: `StateValidates`
is an invariant, so TLC and the proofs show that the code never relies on being
refused, with one exception that the code does have (`RefusedCompletion`, see
`reshoot_after_replacement`). Its clauses are separate definitions, so that each
can be compared with the code's.

`Builds` adds the executor's thread (`requests`, `encoding`, `events`), the
worker's poll, `DamageRecipe` (a recipe that cannot be read any more counts as
resting on everything) and a crash at any point, also after a completed
job was saved and before the state was (`StrandJob`). Startup is `Boot`
(`recover_terminal_jobs`, `recover_builds`), `BootAudition` per shot and
`BootDone`; no request is served meanwhile.

Left out: pausing and the queue (`CameraQueue`); replay and decision records
(`Journals`); hashes and paths, which stand for identity; counters and
timestamps; the estimate of the wall clock, which reads measured times and is
a choice (`wall`); the diagnostics of a refused build. Failing writes are in
the other two models. A stranded job stays the queue's running entry, so no other
job ends until a restart (`Ending`).

### `Workflow`, `ComfyAdapter`, `BackendPort`

`Workflow` is pure: which inputs an adapter file binds and which profiles it has,
which operations the gate of enqueue and dispatch admits (`Admitted`, from the
files alone), what preflight reports (`Capability`, which asks ComfyUI too:
whether it answers, has the nodes, and has H3's schema for each dynamic binding),
what `prepare` sets, and `h3_frame_count`. Its arithmetic is that of `u64`. 2^16 stands for the word size
because TLC has 32-bit integers; both powers are 1 modulo 17, the only place
where it matters.

`ComfyAdapter` has a step per HTTP exchange and WebSocket frame: `Prepare`,
`Post`, `Connect`, `Listen`, `StreamEnds`, `TimeOut`, `History`, `Queue`,
`StopWaiting`, `Outputs`, `Download`, `Inspect`. In between prompts start and
end, the socket drops, ComfyUI restarts and forgets what it was doing, the
worker cancels (and its interrupt hits whatever executes) or dies. Of the worker
it keeps `Dispatch`, `Receive` and `Cancel`. Left out: the JSON of a workflow and
the check of its nodes (a flag), disk space, file names.

`BackendPort` says what `CameraQueue` takes for granted: a prompt is accepted at
most once and not beside another one that is still wanted; what the worker is
told of it is how it ended; cancelling ends the executing prompt or none.

### `Console`

A revision stands for what a snapshot shows. The worker may be stopped and
started, changes a project with or without notifying (a reply lost in
`serve_connection` skips the notification), and answers exchanges: with a
snapshot, a conflict, a refusal, or not at all. The thread is
`revision_subscription_loop` step by step, with its connection, its copy of the
stream that `drop` shuts down, and the channel of one slot (`token`). The
interface is its loop: `Wake` (the slot), `Tick` (the timer), `Apply`, the dialog
and the three steps of replacing the subscription. Left out: pages, selection and
rendering, and the queue's revision, which travels with the project's.

## 6. What TLC checks

| Run | Instance | Shows |
| --- | --- | --- |
| `queue_crash` | 2 projects, 2 shots, 2 jobs, 2 auditions, 1 crash, project pauses, configuration drift; about 660,000 states | `TypeOK`, `QueueMatchesShots`, `NoLostTake`, `StageMatchesWork`, `InterruptSparesOthers`, `BatchesReachTarget`, `StartsInOrder`, and that `CameraQueue` implements `TakeLedger` |
| `queue_faults` | 2 projects, 2 shots, 2 jobs, 1 audition, 1 crash, 1 failing write, pauses of one project, configuration drift; about 1.1 million states | `AtMostOneSubmission`, `BusyOwesAnEvent`, `OnePromptWanted`, `UnknownStaysBlocked`, `TerminalStays` |
| `queue_live` | 1 project, 2 shots, 2 jobs, 2 auditions, pauses of queue and project, fairness; about 109,000 states | `QueueDrains`, `BatchEnds`, `SubmittedJobsEnd` |
| `journal_faults` | 3 commands of every kind but `enqueue` and `build`, 1 file, 1 crash, 1 failing write; about 2 million states up to symmetry | `OneEffect`, `AnswersAreKept`, `CommittedDecisionsHold`, `CleanupRecoverable`, `FilesAccounted`, `OnlyCleanupsAbandon` |
| `journal_live` | 2 commands of every kind but `cancel`, 1 file, 1 background write, 1 crash, fairness; about 210,000, no symmetry | `NoLostDecision`, `CommandsAnswered`, `CleanupsEnd`, and that `Journals` implements `CommandLedger` |
| `production` | 2 shots, 2 scripts, 2 takes, 1 reference, 1 build, 1 crash; about 360,000 states up to symmetry | `TypeOK`, `StateValidates`, `FreshBuildsAreCurrent`, `FreshTakesMatchInputs`, `ReviewsAreOpen`, `EventsAreAwaited`, `AuditionsWithinContract` |
| `one_shot` | 1 shot, 2 auditions, 2 takes, a budget of one audition and the wall clock to overrun, 1 build, 1 damaged recipe, 1 crash, fairness; about 380,000 states | `ApprovedTakeStands`, `BuildsEnd` |
| `comfy` | 2 jobs (one that is admitted and then refused by `prepare`), 2 errors, 1 restart of ComfyUI, 1 crash, fairness; about 190,000 states | `WatchedEnds`, and that `ComfyAdapter` implements `BackendPort` |
| `console` | 2 projects, 2 revisions, 1 outage, 1 lost message, 3 keys, fairness; about 430,000 states | `NothingToldIsForgotten`, `CatchesUp`, `DropEnds` |

The type invariants of `ComfyAdapter`, `Journals` and `Console` are in no run: they
are proved (`TypeCorrect`, `JournalsTypeCorrect`).

Why the bounds are enough. Two jobs are what it takes for a running and a waiting
job to interfere, in one project or two; one crash stops a handler at each of its
writes, one failing write parts memory from disk; crashes in two handlers, and two
failing writes, are covered only by the proofs. Two projects are what a rebuild needs
to pass a job over an older one. `queue_faults` has one audition a batch, for a batch
that goes on is the matter of `queue_crash`; operators pause only the first project there,
and it may be that of either job. Three commands plan, apply and restore; two overwrite
the trace of the first while its answer or its decisions are open. `cancel` is
left out of `journal_live` because it breaks `CommandLedger` (see below). The
second script of `production` generates one shot anew and cuts the other anew,
which are the cases `approve_script` tells apart; two takes let one be chosen after
the other; its auditions go one at a time. A batch of two is in `one_shot`, where
the budget allows one audition and no wall clock, and so has to be overrun twice.
A damaged recipe is there too; that no build keeps its standing by it is only
proved. Two errors
in `comfy` break the socket and then the look at the history. Two revisions
in `console` are a told one and a newer; three keys open a dialog, confirm it and
switch.

`CHECK_DEADLOCK FALSE`: a queue that is empty may rest, users need not press
a key, bounds run out, and a worker that cannot start stays down.

Definitions whose comment begins with "Variant" are wrong on purpose: each is
the next definition with a plausible bug, and shows that a property would notice
it. No specification uses them.

### Disagreements found

Each of these runs ends with a counterexample to a property that a doc or a test of
the repository states.

| Run | Property | What the code does |
| --- | --- | --- |
| `recollected_take` | `SubmittedJobsEnd` | After a crash between the take's write and the job's (execution.rs:571, 579) the output is collected again and refused as different, at every attempt; docs/product.md:889 says the job resumes. |
| `reshoot_after_replacement` | `CompletionsRegister` | Once a reference was replaced, the next take of a shot that had takes cannot be listed: `register_candidate` offers the stale ones too (runtime.rs:707) and `validate` refuses them (domain/project.rs:397). The worker logs it, the job stays the running entry, and a restart fails in `recover_terminal_jobs`. docs/technical.md:623 says that the new reference enters later generations. |
| `frames_misaligned` | `FramesAligned` | `(5 - remainder) % 17` wraps (comfy.rs:824) when the remainder is above 5; the count is 6 modulo 17. A test says by its name that counts are aligned (adapter/comfy/tests.rs:169) and tries two lengths that are. |

### Known deviations without a run

Found on the models, by a property on another instance or by comparison with the
docs:

- `/interrupt` (comfy.rs:784) does nothing to a prompt that is pending on ComfyUI: its
  job is recorded as cancelled, "running job interrupted and cancelled"
  (cancellation.rs:128), and the prompt runs later, beside the next job's.
  docs/product.md:505 says one exclusive GPU task at a time; `OnePromptWanted` counts
  the jobs that were not cancelled.
- A state write that fails while a job starts (execution.rs:144) leaves the job
  active on disk and pending in memory. Nothing goes wrong at once
  (`OnePromptWanted` holds until a crash); but when its project is paused the next job starts, and
  after a restart one of the two is the running entry while the other's prompt
  goes on.
- When the append to `events.jsonl` fails at the end of a cancellation
  (project.rs:647), the job is cancelled on disk and goes on as the running entry,
  so that the interrupted prompt turns it into a failed job; the states of
  docs/technical.md:317-320 have no way out of cancelled. `TerminalStays` says that
  only the running entry can be undone so, and only by a failing write.
- A rebuild sorts by project and then job id (runtime.rs:372); docs/technical.md:540
  says first in, first out. `StartsInOrder` says that nothing else reorders.
- A paused queue also stops the reconciliation of the running job
  (execution.rs:108); docs/technical.md:542 says that a pause only keeps new jobs
  from starting. `SubmittedJobsEnd` excepts it.
- A decision's commit line fails, and the next command applies a cleanup plan,
  which writes the state without recovering decisions (storage.rs:264): the
  decision can never be committed. docs/technical.md:378 says that they are scanned
  before the next write. `OnlyCleanupsAbandon` says that no other write does this.
- The gate admits an r2v shot whose reference is a video on an adapter that binds
  images only (execution.rs:72), and does not check the inputs a profile sets;
  `prepare` refuses the job after it was dispatched (`RefusedAfterTheGate`).
  docs/product.md:613 says such a shot fails before it is queued.
- A lost submission reply blocks the job for good (execution.rs:195);
  docs/technical.md:440 and docs/product.md:890 say that it is reconciled.
- A cancellation writes the job (project.rs:559) before the state that names its
  command. After a crash between them it is answered
  `COMMAND_ABORTED_BEFORE_COMMIT`, "did not change project state"
  (runtime.rs:605).
- On a ComfyUI that other clients use, the interrupt may stop their prompt
  (cancellation.rs:201).
- After a failing write the queue's batch can pass its target.
- Approving a script that adds a shot leaves the review of a final cut open;
  docs/technical.md:346 says that a final covers the whole contract.
- The gate reads the files alone, so it admits what preflight reports as
  unavailable because a dynamic binding names another input than H3's
  (protocol.rs:133).
- A video reference of an i2v or flf2v shot is dropped silently (comfy.rs:625).
- A prompt ComfyUI no longer lists is looked for every five seconds without end
  (docs/technical.md:332); there is no longer back-off (docs/technical.md:673).
- A dialog is composed on one snapshot, but the command is sent with the revision
  shown at confirmation, so a refresh in between defeats the check
  (docs/technical.md:306).
- Auditions that a batch starts by itself are not assessed against the budget
  (docs/technical.md:312), and takes made stale count toward the audition limit.
- Cancelling the audition of a shot that has a selection shows it as "selected"
  also when it was approved.
- A build's Failed event clears its stale mark. The delivered copy is overwritten
  before the review.

### Fairness

`CameraQueue`: the main loop goes on whenever it can boot, take an event or
dispatch (it polls every 50 ms and blocks for nothing longer than one request);
which of these it does next is left open, so the fairness is that of the loop as a
whole. The executor goes on with its request (waiting on the backend has a
timeout), and the backend starts and ends what it accepted. Watching a job may
fail and be retried any number of times; strong fairness of `ExReportsEnd` says
that it does not fail every time when the job has ended. No command is fair:
nobody is obliged to resume a paused queue or project. `QueueDrains` and
`BatchEnds` therefore promise an end, or a later state in which something is
paused: from every state in which nothing is, the end comes unless an operator
pauses again. `SubmittedJobsEnd` takes only a paused queue as an excuse.

`Journals`: the worker goes on with what it has begun (it is one thread that
waits for nobody) and a stopped worker is started again. Clients repeat nothing
fairly: the answers come from recovery. Crashes are bounded, or no recovery
would have to end.

`Builds`: the thread takes its requests, the main loop polls, a worker that died
is started again. That ffmpeg ends is an assumption: the code sets it no timeout
(build.rs:286).

`ComfyAdapter`: the worker's loop and the thread go on, and ComfyUI works off its
queue. Errors are bounded, so that a look at the history succeeds in the end.

`Console`: the worker accepts and answers, the thread and the interface's loop
run on. `CatchesUp` assumes that the worker stays up from some time on.

## 7. What is proved

`CameraQueueProofs` proves, for every set of projects and shots, every number of
jobs, crashes and failing writes, and every setting of the switches:

- `TypeCorrect`: `Spec => []TypeOK`.
- `SubmitsOnce`: `Spec => []AtMostOneSubmission`.
- `Handshake`: `Spec => []BusyOwesAnEvent`.

`AtMostOneSubmission` is not inductive: whether a submission is safe depends on a
request that may be on its way to the executor, or on an event that will cause
one. The inductive invariant `Inv` adds

- `JobInv`: a job that was never started has no attempt, and one the backend
  accepted has an attempt past "Prepared" in its file;
- `RequestInv`, `EventsInv`: while a preparation, its event, or a submission is
  under way, the backend has not seen the job, and at a submission the file says
  so already;
- `BusyInv`, and that only the last event of the channel may finish a request:
  the main loop cannot send a second request while one is under way;
- `RunningInv`: the running entry is a job that was started.

Each action has a lemma that it keeps `Inv`; most rest on `StepInv` (job files
only grow: a started job stays started, a recorded attempt stays recorded) and
on `SendInv`, `HandledInv`, `ReportInv` for the three ways the channel changes.
The assumptions are those on the constants in `CameraQueue`, which TLC evaluates
on every instance.

`QueueProofs` proves, for the same values, most other safety properties of the
queue and that it implements `TakeLedger`:

- `UnknownStays`: `Spec => UnknownStaysBlocked`.
- `QueueMatches`, `TakesSurvive`, `StagesMatch`: `QueueMatchesShots`,
  `NoLostTake` and `StageMatchesWork` hold in every state reached with
  `faults = 0`, that is, before the first durable write that failed. Crashes do
  not count: they may come between any two writes of any handler.
- `OneWanted`: so does `OnePromptWanted`. A cancelled job may have left a pending
  prompt behind, which runs beside the next job's, and the
  theorem excepts it.
- `EndedStays`: `Spec => TerminalStays`, for any number of crashes and failing
  writes.
- `OthersAreSpared`, `StartsInTurn`, `ImplementsTakeLedger`: a behaviour without a
  failed write satisfies `InterruptSparesOthers`, `StartsInOrder` (with any number of
  projects and crashes) and `RefinesTakeLedger`.

The conditions are those the code needs, but for `StartsInTurn`. With one failing
write TLC finds `QueueMatchesShots`, `NoLostTake`, `StageMatchesWork`,
`InterruptSparesOthers` and `RefinesTakeLedger` violated: a handler that returns
between two files leaves them, or the memory, apart until the next startup.
`OnePromptWanted` holds with a failing write until a crash follows, which
`queue_faults` checks. `StartsInOrder` has no counterexample on the instance of
`queue_faults` either; its proof rests on `Healthy`.

The inductive invariant `QInv` is `Inv`, and `OverInv` (a job of an unknown
submission is blocked, a completed or failed one has made its last attempt, and
nothing under way speaks of either), and, as long as `faults = 0`, `Healthy`:

- `FilesInv` relates job files, shots and takes, which a crash leaves
  between two writes: an active or blocked job is its shot's active job; a job
  that ended may still be, until recovery lets go of it; a completed job has its take;
  at most one job is held, active or blocked (`OneHolds`).
- `QueueInv` relates memory and files while the worker is up: the running entry
  and the pending ones are active jobs of their shots, none is missing (`Awaited`)
  and none is there twice.
- `WorkInv` (`Claims`): what the executor's request and the events on their way
  claim of their job is what file and backend say.
- `BackendInv`: an unfinished prompt is that of a job that is active, blocked or
  cancelled, and the backend knows none it has not accepted.

A crash drops memory and keeps `FilesInv`; `Boot` makes `QueueInv` from it alone.
That is why no bound on crashes is needed. `JobStep` says how any step writes a
job file: a new one, a queued one that starts in its turn or is cancelled, a held
one that goes on or ends. `SentInv` (a completed job was sent) is a corollary, and the refinement rests on it.
There, `OneMoves` says of each action that it moves at most one job's status, and
how; `CompleteJob` moves a second one when it reserves the next audition. `EndedStays`
follows from `JobStep` while no write has failed; afterwards from `OverInv`, by which
only a cancelled job still has an event under way (`EndedStep`). `OrderInv` adds for
`StartsInTurn` that ids are drawn in order and that the pending entries stand in turn:
by id, or, after a crash, by project first.

`JournalsProofs` proves, for every set of commands, kinds and files, and every
number of crashes, failing writes and background writes:

- `JournalsTypeCorrect`: `Spec => []TypeOK`.
- `OneEffectHolds`: `Spec => []OneEffect`.
- `AnswersKept`: `Spec => []AnswersAreKept`.
- `CommittedHold`: `Spec => []CommittedDecisionsHold`.
- `Recoverable`: `Spec => []CleanupRecoverable`.
- `NoFileLost`: `Spec => []FilesAccounted`.
- `NoDecisionLost`: `Spec => [](faults = 0 => NoLostDecision)`.
- `ImplementsCommandLedger`:
  `Spec /\ [](faults = 0 /\ NothingCancelled) => RefinesLedger`.

None of them is inductive: each depends on where the worker is among a command's
writes. The first five share one inductive invariant, `Inv`:

- `ControlInv`, `AtWorkInv`: which steps belong to startup, to the main loop and
  to a command, and that the command at work is journaled as prepared and no
  more is known of it;
- `KnownInv`, `JournalInv`: a command the worker, or the journal, does not know
  has left no trace in any file. This is what makes an unknown id safe to run;
- `ProgressInv`: how many decisions the command at work has prepared and has
  still to prepare or commit, that it has not taken effect before its state is
  written (a cancellation: before its job is), and that no interrupted cleanup
  acts in its name until then;
- `CleanInv`: no cleanup is interrupted when the last part of `save_state` runs,
  or when a cleanup command looks at the plans. It is why there is never a
  second one, and no state between the operation's start and its own;
- `PlansInv`, `LastInv`, `MarkInv`: an interrupted cleanup has taken effect
  exactly if the state says so, and every command the state names took effect;
- `AnswersInv`: the memory's answers are the journal's.

`NoFileLost` has a second one on top, `FilesInv`: the files of an interrupted
cleanup are in the project or in its own trash (`PlacesInv`), and a command that
may still remove or announce a plan finds it as it found it before
(`OwnPlanInv`). Each action has a lemma that it keeps `Inv`. An error leads to one
of four memories whatever the action was, so `HaltedMem` and `FailedOwnPlan` serve
them all; `GoesOnMem` serves the steps on which a command goes on.

The last two hold as long as no write fails. A failed `commit_decisions` leaves
decisions behind that the next command's state no longer names, and a write that
took effect and reported an error is answered as a failure. Their invariant,
`Calm`, says of a run without a failed write:

- `CalmFiles`: the decisions of one command at most are late (`Lagging`), and it
  is the one the state names; one command at most is without an answer, and the
  state, or `queue.json` for a queue command, names it exactly if it took effect
  (`Shown`); an interrupted cleanup belongs to it, and nothing is late while the
  cleanup has still to change the state's name;
- `LateMem`: only a worker that is gone, or at the first recovery after it, or
  the command about to commit leaves anything late. This is why every write of
  the state comes after the recovery of what the last one left;
- `ServedMem`: the memory of the journal is the journal, and the one command
  without an answer is the one at work;
- `TraceMem`, `OutcomeMem`: startup writes the state under the name it had
  (`RecoveryMark`), so that `WasApplied` is asked of the file the command wrote;
  and a command about to answer says `success` exactly if it took effect.

`CommandLedger` needs that nothing is cancelled as well: a cancellation ends its
job before the state names it, so a crash between the two has it answered
`aborted` although it took effect. `NextRefines` shows of each step that it is an
effect of the command without an answer, its answer, or nothing the ledger sees.

`BuildsProofs`, `TakesProofs` and `StandingProofs` prove, for all scripts, shots,
takes, references, limits and builds, and every number of crashes and damaged
recipes:

- `TypeCorrect`: `Spec => []TypeOK`. Not as easy as it sounds: `RecoverBuilds`
  makes a sequence of the builds it sends again, which has a type because there
  is at most one (`OneActive`).
- `FreshTakes`, `AuditionLimit`: `FreshTakesMatchInputs`,
  `AuditionsWithinContract`.
- `Validated`, `ApprovalsStand`: `StateValidates`, `ApprovedTakeStands`.
- `ReviewsOpen`, `BuildsAreCurrent`, `EventsAwaited`: `ReviewsAreOpen`,
  `FreshBuildsAreCurrent`, `EventsAreAwaited`.

What a take is, is fixed when its job reserves it; whether it is fresh is asked
when it is registered. So the invariant `TakesInv` speaks of the job as well:
`JobOK` says that a reserved take is the shot's own, was asked for on the inputs
in use now, and that there was room for one more audition. It holds because
`approve_script` is refused while a job is under way and `write_reference` while
one of an affected shot is. `ListOK`, `DecisionOK`, `CandidateOK`, `FreshOK` and
`CountOK` say of each shot that it lists its own registered takes, decides on
usable ones and offers only such; `SameShotOK` serves every action for the shots
it leaves alone. `FreshBuildsAreCurrent` follows shot by shot (`Rests`) from what
each write marks stale. For `EventsAreAwaited`, `Pipeline` says that the executor
and its channels are about one active build, which has its end still to come; that
is why an event never finds its build ended, and why the worker does not die of
one.

`ComfyProofs` proves, for all jobs, adapter files and requests, and every number
of errors, restarts and crashes:

- `TypeCorrect`, and `ImplementsBackendPort`: `Spec => RefinesBackendPort`.
- `GateAgainstPreflight`: preflight reports an operation as usable exactly if the
  gate admits it and, what the gate does not look at, ComfyUI answers, has the
  nodes and the dynamic bindings name inputs it has.
- `RefusedAfterTheGate`: what `prepare` can still refuse a job for that the gate
  admitted, and nothing else; job 2 of `comfy` is one case.
- `FrameCountResidue`: the frame count is 5 modulo 17 if the remainder is at
  most 5, and 6 otherwise, for every length and rate. It is what
  `frames_misaligned` shows on one instance, and for which inputs.

The invariant's centre is `Flow`: the thread is at a step, or one or two events
about its job are under way, and what they claim is what has happened to the
prompt (`True`). A conclusion is stable, because a prompt that ended stays as it
ended, and `OneHolds` (the running entry is held by one job) is why no prompt is
accepted next to one that is wanted. `Unsent` says that a job the worker never
told to submit has no prompt: this is what a crash around `POST /prompt` relies
on.

`ConsoleProofs` proves, for all projects, and every number of outages, losses and
keys, `TypeCorrect` and `NothingForgotten`. `Kept` says where a change is that
the thread has learned of: on the screen, in the slot, or in the answer about
to be drawn; `Learned` that the thread knows nothing newer than the project, so
the next snapshot covers it; `Belongs` that no one pushes into a connection that
belongs to another project.

Every inductive invariant was model-checked first, on instances of the sizes of
the runs above, before its proof was written. The assumptions of all proofs are
those on the constants, which TLC evaluates on every instance.

Only model-checked: liveness under fairness, which is out of the
prover's reach (`QueueDrains`, `BatchEnds`, `SubmittedJobsEnd`, `CommandsAnswered`,
`CleanupsEnd`, `BuildsEnd`, `WatchedEnds`, `CatchesUp`, `DropEnds`); that a batch of
auditions ends where it should (`BatchesReachTarget`); and what holds in spite of
failing writes, but for the theorems above (`OnePromptWanted` until a crash,
`OnlyCleanupsAbandon`).

## 8. What is not modelled

- The worker lock: an advisory file lock; all models start from the single
  writer it ensures.
- Export, import and migration (`portability*`): they run alone, and check
  hashes and formats.
- Script validation, but for the conditioning rules in `Workflow`: a pure check
  of a document.
- The command line, IPC framing, rendering, media probing, the environment part
  of preflight, evaluation, benchmark and milestone hooks, which keep no state of
  the system.
- Torn lines of a journal: a line is written whole or not at all.
- Failing writes in the project's model, and scripts, references and builds in
  the model of failing writes: each is in one of the two.

`PROJECT.json` names every component with its status.
