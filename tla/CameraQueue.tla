----------------------------- MODULE CameraQueue -----------------------------
(***************************************************************************)
(* The camera queue of SparkStage: how one worker process takes generation *)
(* jobs from the project directories, drives them one at a time through a  *)
(* ComfyUI backend, and registers the takes they produce, across crashes,  *)
(* restarts and failing writes.                                            *)
(*                                                                         *)
(* Three actors interleave: the worker's main loop (it serves commands,    *)
(* applies executor events and dispatches), the camera executor thread,    *)
(* and the backend.  A handler of the main loop is one action.  Each       *)
(* handler makes a few durable writes, in the order of the code, and its   *)
(* outcome `o' says how many of them took effect and how it ended:         *)
(*   "ok"     every write was acknowledged;                                *)
(*   "error"  the first o.acked writes were acknowledged and the next one  *)
(*            failed, with or without having taken effect                  *)
(*            (write_bytes_atomic renames before it syncs the directory);  *)
(*   "crash"  the process died after o.done writes: memory is gone.        *)
(* A write this module keeps no state for and whose failure changes        *)
(* nothing it keeps is left out.                                           *)
(***************************************************************************)
EXTENDS Integers, Sequences, FiniteSets

CONSTANTS
    Projects,       \* project directories, numbered in the order of their ids
    Shots,          \* shots of all the projects, numbered in the order of their ids
    ProjectOf,      \* the project of each shot
    MaxJobs,        \* bound: job ids are ULIDs, numbered in the order they are drawn
    AuditionTakes,  \* generation_plan.audition_takes of every shot
    MaxCrashes,     \* bound: worker crashes
    MaxFaults,      \* bound: failing durable writes
    QueuePauses,    \* bound: whether operators pause the queue
    Pausable,       \* bound: the projects operators pause and resume
    ConfigDrift     \* whether the adapter's fingerprint may change under a job

ASSUME ProjectsAssumption == Projects \subseteq Nat
ASSUME ShotsAssumption    == Shots \subseteq Nat \ {0}
ASSUME ProjectOfAssumption == ProjectOf \in [Shots -> Projects]
ASSUME BoundsAssumption ==
    /\ MaxJobs \in Nat
    /\ AuditionTakes \in Nat \ {0}
    /\ MaxCrashes \in Nat
    /\ MaxFaults \in Nat
ASSUME SwitchesAssumption ==
    Pausable \subseteq Projects /\ {QueuePauses, ConfigDrift} \subseteq BOOLEAN

Jobs == 1..MaxJobs
NoJob == 0
NoShot == 0

VARIABLES
    job,            \* jobs/<job>.json of each job
    shot,           \* the shot's part of its project's state.json
    takeFiles,      \* jobs whose raw/<shot>/<take>.json exists
    projectPaused,  \* ProjectState.paused
    queuePaused,    \* QueueState.paused, in queue.json
    w,              \* the memory of the worker process, gone after a crash
    backend,        \* what became of each job's prompt on the backend
    submissions,    \* how often the backend accepted each job (history)
    crashes,        \* crashes so far
    faults          \* failed writes so far

vars == <<job, shot, takeFiles, projectPaused, queuePaused, w, backend,
          submissions, crashes, faults>>

-----------------------------------------------------------------------------
(* Types *)

JobState == {"Absent", "Removed", "Queued", "Active", "Completed", "Blocked",
             "Failed", "Cancelled"}
Terminal == {"Completed", "Failed", "Cancelled"}
Unreadable == {"Absent", "Removed"}
AttemptState == {"None", "Prepared", "Submitting", "SubmissionUnknown",
                 "Submitted", "Running", "Completed", "OutputInvalid",
                 "BackendFailed", "Cancelled"}
Kind == {"audition", "final"}
ShotStage == {"Pending", "Queued", "Generating", "CandidatesReady",
              "Selected", "Failed"}
BackendState == {"none", "pending", "executing", "done", "failed"}
Unfinished == {"pending", "executing"}
RequestKind == {"Prepare", "Submit", "Monitor", "Reconcile"}
EventKind == {"Prepared", "PreparationFailed", "Submitted",
              "SubmissionUnknown", "Completed", "OutputInvalid",
              "BackendFailed", "MonitorRetry", "Cancelled"}

NoRequest == [kind |-> "None", job |-> NoJob]

JobJournal ==
    [state : JobState, attempt : AttemptState, backendId : BOOLEAN,
     shot : Shots \cup {NoShot}, kind : Kind]
ShotRuntime ==
    [stage : ShotStage, active : Jobs \cup {NoJob}, takes : SUBSET Jobs,
     selected : BOOLEAN, target : Nat, choice : BOOLEAN]
Request == [kind : RequestKind, job : Jobs]
Event == [kind : EventKind, job : Jobs]
Memory ==
    [phase : {"down", "resuming", "serving"}, running : Jobs \cup {NoJob},
     pending : Seq(Jobs), busy : BOOLEAN,
     request : Request \cup {NoRequest}, events : Seq(Event),
     cancelling : SUBSET Jobs]

Lost == [phase |-> "down", running |-> NoJob, pending |-> <<>>,
         busy |-> FALSE, request |-> NoRequest, events |-> <<>>,
         cancelling |-> {}]

TypeOK ==
    /\ job \in [Jobs -> JobJournal]
    /\ shot \in [Shots -> ShotRuntime]
    /\ takeFiles \subseteq Jobs
    /\ projectPaused \in [Projects -> BOOLEAN]
    /\ queuePaused \in BOOLEAN
    /\ w \in Memory
    /\ backend \in [Jobs -> BackendState]
    /\ submissions \in [Jobs -> Nat]
    /\ crashes \in Nat
    /\ faults \in Nat

-----------------------------------------------------------------------------
(* Outcomes of a handler *)

\* What can happen to a handler that makes n durable writes.  A crash before
\* the first write or after the last one is the action Crash.
Outcomes(n) ==
    {[done |-> n, acked |-> n, end |-> "ok"]}
    \cup {[done |-> k, acked |-> k, end |-> "crash"] :
            k \in IF crashes < MaxCrashes THEN 1..(n - 1) ELSE {}}
    \cup {[done |-> k + e, acked |-> k, end |-> "error"] :
            k \in IF faults < MaxFaults THEN 0..(n - 1) ELSE {}, e \in {0, 1}}

\* The memory a handler leaves: memory m, unless the process died.
After(o, m) == IF o.end = "crash" THEN Lost ELSE m

Spend(o) ==
    /\ crashes' = crashes + (IF o.end = "crash" THEN 1 ELSE 0)
    /\ faults' = faults + (IF o.end = "error" THEN 1 ELSE 0)

-----------------------------------------------------------------------------
(* State of a shot *)

\* Takes of the shot that jf journals with profile k.
Used(jf, sh, k) == Cardinality({t \in sh.takes : jf[t].kind = k})

\* Variants of register_candidate: the target counts down or is cleared one
\* take early, the take is forgotten.
RegisterCountsDown(jf, sh, j) ==
    LET next == [sh EXCEPT !.stage = "CandidatesReady", !.active = NoJob,
                           !.takes = @ \cup {j}, !.choice = TRUE]
    IN  [next EXCEPT !.target = @ - Used(jf, next, jf[j].kind)]
RegisterClearsEarly(jf, sh, j) ==
    LET next == [sh EXCEPT !.stage = "CandidatesReady", !.active = NoJob,
                           !.takes = @ \cup {j}, !.choice = TRUE]
    IN  [next EXCEPT !.target =
            IF @ <= Used(jf, next, jf[j].kind) + 1 THEN 0 ELSE @]
RegisterForgetsTake(jf, sh, j) ==
    [sh EXCEPT !.stage = "CandidatesReady", !.active = NoJob, !.choice = TRUE,
               !.target = IF @ <= Used(jf, sh, jf[j].kind) THEN 0 ELSE @]

\* register_candidate: the take of job j joins the candidates of its shot.
RegisterCandidate(jf, sh, j) ==
    LET next == [sh EXCEPT !.stage = "CandidatesReady", !.active = NoJob,
                           !.takes = @ \cup {j}, !.choice = TRUE]
    IN  [next EXCEPT !.target =
            IF @ <= Used(jf, next, jf[j].kind) THEN 0 ELSE @]

\* Variant: a failed shot goes on owing its auditions.
FailShotOwing(sh) == [sh EXCEPT !.stage = "Failed", !.active = NoJob]

FailShot(sh) == [sh EXCEPT !.stage = "Failed", !.active = NoJob, !.target = 0]

\* Variant: a cancelled shot without takes keeps its stage.
CancelShotShown(sh) ==
    [sh EXCEPT !.active = NoJob, !.target = 0,
               !.stage = IF sh.selected THEN "Selected"
                         ELSE IF sh.takes # {} THEN "CandidatesReady" ELSE @]

\* The stage a cancelled job leaves its shot in.
CancelShot(sh) ==
    [sh EXCEPT !.active = NoJob, !.target = 0,
               !.stage = IF sh.selected THEN "Selected"
                         ELSE IF sh.takes # {} THEN "CandidatesReady"
                         ELSE "Pending"]

\* enqueue_job_with_audition_target: the shot's part of state.json.
EnqueueShot(sh, j, t) ==
    [sh EXCEPT !.stage = "Queued", !.active = j, !.target = t]

\* Variants of the recovery: cancelled jobs are left alone, every ended job
\* fails its shot.
RecoverSkipsCancelled(sh) ==
    IF sh.active = NoJob THEN sh
    ELSE CASE job[sh.active].state = "Completed" -> RegisterCandidate(job, sh, sh.active)
           [] job[sh.active].state = "Failed"    -> FailShot(sh)
           [] OTHER -> sh
RecoverAsFailed(sh) ==
    IF sh.active # NoJob /\ job[sh.active].state \in Terminal THEN FailShot(sh) ELSE sh

\* recover_terminal_jobs: a shot whose active job ended before its state was
\* saved.  A cancelled one becomes Pending whatever its candidates.
RecoverShot(sh) ==
    IF sh.active = NoJob THEN sh
    ELSE CASE job[sh.active].state = "Completed" -> RegisterCandidate(job, sh, sh.active)
           [] job[sh.active].state = "Failed"    -> FailShot(sh)
           [] job[sh.active].state = "Cancelled" -> [FailShot(sh) EXCEPT !.stage = "Pending"]
           [] OTHER -> sh

RecoverShots(R) ==
    [s \in Shots |-> IF ProjectOf[s] \in R THEN RecoverShot(shot[s]) ELSE shot[s]]

-----------------------------------------------------------------------------
(* Jobs *)

Fresh == {j \in Jobs : job[j].state = "Absent" /\ \A i \in Jobs : job[i].state = "Absent" => j <= i}

QueuedJob(s, k) == [state |-> "Queued", attempt |-> "None",
                    backendId |-> FALSE, shot |-> s, kind |-> k]

\* The job files jf after the job file and the state of an enqueue, writes
\* b + 1 and b + 2 of a handler: when the state write fails the file is
\* removed, when the file write itself fails it may stay behind.
Journaled(jf, o, b, j, s, k) ==
    IF o.done <= b THEN jf
    ELSE IF o.end = "error" /\ o.acked > b
         THEN [jf EXCEPT ![j] = [QueuedJob(s, k) EXCEPT !.state = "Removed"]]
         ELSE [jf EXCEPT ![j] = QueuedJob(s, k)]

\* The shot still owes auditions and may have the next one scheduled.  The
\* code's other early return, a target already met, cannot arise:
\* register_candidate clears a target it meets.
AuditionDue(sh) == sh.target # 0 /\ sh.active = NoJob /\ ~sh.selected

RemoveAt(q, i) == SubSeq(q, 1, i - 1) \o SubSeq(q, i + 1, Len(q))

-----------------------------------------------------------------------------
(* Commands.  A revision conflict, a missing object or a refused guard     *)
(* changes nothing.                                                        *)

Serving == w.phase = "serving"

\* enqueue_shot: `audition' with the contract's target or the single take of
\* a smoke test, `final' when no candidate selection is pending.
Enqueue(s, k, t, j, o) ==
    /\ Serving
    /\ ~projectPaused[ProjectOf[s]]
    /\ IF k = "audition" THEN /\ Used(job, shot[s], k) < AuditionTakes
                              /\ t \in {1, AuditionTakes}
                         ELSE /\ ~shot[s].choice
                              /\ t = 0
    /\ shot[s].active = NoJob
    /\ j \in Fresh
    /\ o \in Outcomes(2)
    /\ Spend(o)
    /\ job' = Journaled(job, o, 0, j, s, k)
    /\ shot' = IF o.done >= 2
               THEN [shot EXCEPT ![s] = EnqueueShot(shot[s], j, t)] ELSE shot
    /\ w' = After(o, IF o.end = "ok" THEN [w EXCEPT !.pending = Append(@, j)] ELSE w)
    /\ UNCHANGED <<takeFiles, projectPaused, queuePaused, backend, submissions>>

\* select_take.
SelectTake(s) ==
    /\ Serving
    /\ shot[s].active = NoJob
    /\ shot[s].takes # {}
    /\ shot' = [shot EXCEPT ![s] = [@ EXCEPT !.selected = TRUE, !.target = 0,
                                             !.stage = "Selected", !.choice = FALSE]]
    /\ UNCHANGED <<job, takeFiles, projectPaused, queuePaused, w, backend,
                   submissions, crashes, faults>>

SetProjectPaused(p, b) ==
    /\ Serving
    /\ p \in Pausable
    /\ projectPaused[p] # b
    /\ projectPaused' = [projectPaused EXCEPT ![p] = b]
    /\ UNCHANGED <<job, shot, takeFiles, queuePaused, w, backend, submissions,
                   crashes, faults>>

SetQueuePaused(b) ==
    /\ Serving
    /\ QueuePauses
    /\ queuePaused # b
    /\ queuePaused' = b
    /\ UNCHANGED <<job, shot, takeFiles, projectPaused, w, backend,
                   submissions, crashes, faults>>

\* cancel_job on a pending entry.  The third write is the append to
\* events.jsonl; the memory follows only when it too succeeds.
CancelPending(i, o) ==
    LET j == w.pending[i]
        s == job[j].shot
    IN  /\ Serving
        /\ j # w.running
        /\ job[j].state = "Queued"
        /\ shot[s].active = j
        /\ o \in Outcomes(3)
        /\ Spend(o)
        /\ job' = IF o.done >= 1 THEN [job EXCEPT ![j].state = "Cancelled"] ELSE job
        /\ shot' = IF o.done >= 2 THEN [shot EXCEPT ![s] = CancelShot(@)] ELSE shot
        /\ w' = After(o, IF o.end = "ok"
                         THEN [w EXCEPT !.pending = RemoveAt(@, i)] ELSE w)
        /\ UNCHANGED <<takeFiles, projectPaused, queuePaused, backend, submissions>>

\* interrupt_backend posts ComfyUI's global interrupt.  It stops the prompt
\* that executes now, whose ever it is; a pending prompt it leaves alone.
Interrupted ==
    [j \in Jobs |-> IF backend[j] = "executing" THEN "failed" ELSE backend[j]]

\* cancel_job on the running entry, after the backend confirmed the interrupt.
CancelRunning(o) ==
    LET j == w.running
        s == job[j].shot
    IN  /\ Serving
        /\ j # NoJob
        /\ job[j].state = "Active"
        /\ job[j].backendId
        /\ job[j].attempt \in {"Submitted", "Running"}
        /\ shot[s].active = j
        /\ o \in Outcomes(3)
        /\ Spend(o)
        /\ backend' = Interrupted
        /\ job' = IF o.done >= 1
                  THEN [job EXCEPT ![j].state = "Cancelled", ![j].attempt = "Cancelled"]
                  ELSE job
        /\ shot' = IF o.done >= 2 THEN [shot EXCEPT ![s] = CancelShot(@)] ELSE shot
        /\ w' = After(o, IF o.end = "ok"
                         THEN [w EXCEPT !.running = NoJob, !.cancelling = @ \cup {j}]
                         ELSE w)
        /\ UNCHANGED <<takeFiles, projectPaused, queuePaused, submissions>>

-----------------------------------------------------------------------------
(* Startup and rebuild *)

Readable(p) ==
    \A s \in Shots : ProjectOf[s] = p /\ shot[s].active # NoJob =>
                     job[shot[s].active].state \notin Unreadable

\* The active jobs of the shots in one of the given job states.
Claimed(sh, states) ==
    {sh[s].active : s \in {r \in Shots : /\ sh[r].active # NoJob
                                         /\ job[sh[r].active].state \in states}}

\* Variant: the running job is forgotten.
RunningForgotten(sh) == {NoJob}

\* Projects are read in directory order, which is arbitrary; the shots of a
\* project are read in order.
RunningChoices(sh) ==
    LET taken == {s \in Shots : sh[s].active \in Claimed(sh, {"Active", "Blocked"})}
        first == {s \in taken : \A r \in taken : ProjectOf[r] = ProjectOf[s] => s <= r}
    IN  IF taken = {} THEN {NoJob} ELSE {sh[s].active : s \in first}

\* Variant: the latest job first.
BeforeLatest(i, j) == j < i

Before(i, j) ==
    LET p == ProjectOf[job[i].shot]
        q == ProjectOf[job[j].shot]
    IN  p < q \/ (p = q /\ i < j)

\* The entries of S, sorted by project id, then by job id.
Sorted(S) ==
    UNION {{q \in [1..n -> S] : /\ \A j \in S : \E i \in 1..n : q[i] = j
                                /\ \A i, k \in 1..n : i < k => Before(q[i], q[k])} :
           n \in 0..MaxJobs}

\* rebuild_queue_from_projects, the files: recover the shots of the projects
\* R.  It ends well ("ok"), well but for the write of queue.json ("late"),
\* early because a job file is missing or a write failed ("error"), or with
\* the process ("crash").
RebuildShots(R, end) ==
    LET all == \A p \in Projects : Readable(p)
    IN  /\ \A p \in R : Readable(p)
        /\ end \in {"ok", "late"} => R = Projects
        /\ end = "late" => faults < MaxFaults
        /\ end = "error" => ~all \/ faults < MaxFaults
        /\ end = "crash" => crashes < MaxCrashes
        /\ shot' = RecoverShots(R)
        /\ crashes' = crashes + (IF end = "crash" THEN 1 ELSE 0)
        /\ faults' = faults + (IF end = "late" \/ (end = "error" /\ all) THEN 1 ELSE 0)
        /\ UNCHANGED <<job, takeFiles, projectPaused, queuePaused, backend, submissions>>

\* rebuild_queue_from_projects, the memory: m with the queue of shots sh.
Rebuilt(m, sh) ==
    UNION {{[m EXCEPT !.running = r, !.pending = q] :
              q \in Sorted(Claimed(sh, {"Queued", "Active", "Blocked"}) \ {r})} :
           r \in RunningChoices(sh)}

\* open_with_adapter up to recover_builds; a failure ends the process.
Boot(R, end) ==
    /\ w.phase = "down"
    /\ end # "late"
    /\ RebuildShots(R, end)
    /\ w' \in IF end = "ok"
              THEN Rebuilt([Lost EXCEPT !.phase = "resuming"], RecoverShots(R))
              ELSE {Lost}

\* resume_auditions, one shot; a failure ends the process.
ResumeAudition(s, j, o) ==
    /\ w.phase = "resuming"
    /\ AuditionDue(shot[s])
    /\ j \in Fresh
    /\ o \in Outcomes(2)
    /\ Spend(o)
    /\ job' = Journaled(job, o, 0, j, s, "audition")
    /\ shot' = IF o.done >= 2
               THEN [shot EXCEPT ![s] = EnqueueShot(@, j, shot[s].target)] ELSE shot
    /\ w' = IF o.end = "ok" THEN [w EXCEPT !.pending = Append(@, j)] ELSE Lost
    /\ UNCHANGED <<takeFiles, projectPaused, queuePaused, backend, submissions>>

\* The end of open_with_adapter: the worker serves commands and dispatches.
Open ==
    /\ w.phase = "resuming"
    /\ Fresh # {} => \A s \in Shots : ~AuditionDue(shot[s])
    /\ w' = [w EXCEPT !.phase = "serving"]
    /\ UNCHANGED <<job, shot, takeFiles, projectPaused, queuePaused, backend,
                   submissions, crashes, faults>>

Crash ==
    /\ w.phase # "down"
    /\ crashes < MaxCrashes
    /\ crashes' = crashes + 1
    /\ w' = Lost
    /\ UNCHANGED <<job, shot, takeFiles, projectPaused, queuePaused, backend,
                   submissions, faults>>

-----------------------------------------------------------------------------
(* Dispatch: next_executor_request, called when the executor is not busy.  *)
(* The five-second pauses after an error or a retry are not modelled.      *)

MayDispatch == Serving /\ ~w.busy /\ ~queuePaused

Send(m, k, j) == [m EXCEPT !.request = [kind |-> k, job |-> j], !.busy = TRUE]

\* Whether execution_context may accept or reject a job.
Contexts == IF ConfigDrift THEN BOOLEAN ELSE {TRUE}

\* The entry i is the first one of a project that is not paused.
FirstEligible(i) ==
    LET paused(k) == projectPaused[ProjectOf[job[w.pending[k]].shot]]
    IN  ~paused(i) /\ \A k \in 1..(i - 1) : paused(k)

\* A queued job becomes the running one.  When the context rejects it
\* (fits = FALSE), block_dispatch saves it as blocked: a fourth write.
StartNext(i, fits, o) ==
    LET j == w.pending[i]
        s == job[j].shot
        started == [w EXCEPT !.running = j, !.pending = RemoveAt(@, i)]
    IN  /\ MayDispatch
        /\ w.running = NoJob
        /\ FirstEligible(i)
        /\ job[j].state = "Queued"
        /\ fits \in Contexts
        /\ o \in Outcomes(IF fits THEN 3 ELSE 4)
        /\ Spend(o)
        /\ job' = IF o.done = 0 THEN job
                  ELSE [job EXCEPT ![j].state = IF o.done = 4 THEN "Blocked" ELSE "Active",
                                   ![j].attempt = "Prepared"]
        /\ shot' = IF o.done >= 2 THEN [shot EXCEPT ![s].stage = "Generating"] ELSE shot
        /\ w' = After(o, IF o.acked < 3 THEN w
                         ELSE IF fits THEN Send(started, "Prepare", j) ELSE started)
        /\ UNCHANGED <<takeFiles, projectPaused, queuePaused, backend, submissions>>

\* The first eligible entry is not queued on disk: rebuild.
StartRebuild(R, end) ==
    /\ MayDispatch
    /\ w.running = NoJob
    /\ \E i \in DOMAIN w.pending : /\ FirstEligible(i)
                                   /\ job[w.pending[i]].state # "Queued"
    /\ RebuildShots(R, end)
    /\ w' \in CASE end \in {"ok", "late"} -> Rebuilt(w, RecoverShots(R))
                [] end = "error" -> {w}
                [] OTHER -> {Lost}

\* There is a running entry that is not blocked.
Resumable == MayDispatch /\ w.running # NoJob /\ job[w.running].state # "Blocked"

\* The context rejects the running job: block_dispatch, whatever its state.
BlockRunning ==
    /\ Resumable
    /\ FALSE \in Contexts
    /\ job' = [job EXCEPT ![w.running].state = "Blocked"]
    /\ UNCHANGED <<shot, takeFiles, projectPaused, queuePaused, w, backend,
                   submissions, crashes, faults>>

\* Variant: the job is not blocked.
MarkUnknownUnblocked ==
    /\ Resumable
    /\ job[w.running].attempt = "Submitting"
    /\ ~job[w.running].backendId
    /\ job' = [job EXCEPT ![w.running].attempt = "SubmissionUnknown"]
    /\ UNCHANGED <<shot, takeFiles, projectPaused, queuePaused, w, backend,
                   submissions, crashes, faults>>

\* Variant: a job of an unknown submission does not hold up the queue.
MarkUnknownFreed ==
    /\ Resumable
    /\ job[w.running].attempt = "Submitting"
    /\ ~job[w.running].backendId
    /\ job' = [job EXCEPT ![w.running].state = "Blocked",
                          ![w.running].attempt = "SubmissionUnknown"]
    /\ w' = [w EXCEPT !.running = NoJob]
    /\ UNCHANGED <<shot, takeFiles, projectPaused, queuePaused, backend,
                   submissions, crashes, faults>>

\* Submission began and no backend id was saved: never submit again.
MarkUnknown ==
    /\ Resumable
    /\ job[w.running].attempt = "Submitting"
    /\ ~job[w.running].backendId
    /\ job' = [job EXCEPT ![w.running].state = "Blocked",
                          ![w.running].attempt = "SubmissionUnknown"]
    /\ UNCHANGED <<shot, takeFiles, projectPaused, queuePaused, w, backend,
                   submissions, crashes, faults>>

\* Variants: a submission that began is prepared again; a job found running
\* is not reconciled.
PrepareTwice(k) ==
    /\ Resumable
    /\ IF k = "Prepare" THEN job[w.running].attempt \in {"Prepared", "Submitting"}
       ELSE job[w.running].attempt \in {"Submitted", "Running"} /\ job[w.running].backendId
    /\ w' = Send(w, k, w.running)
    /\ UNCHANGED <<job, shot, takeFiles, projectPaused, queuePaused, backend,
                   submissions, crashes, faults>>
ReconcileOnce(k) ==
    /\ Resumable
    /\ IF k = "Prepare" THEN job[w.running].attempt = "Prepared"
       ELSE job[w.running].attempt = "Submitted" /\ job[w.running].backendId
    /\ w' = Send(w, k, w.running)
    /\ UNCHANGED <<job, shot, takeFiles, projectPaused, queuePaused, backend,
                   submissions, crashes, faults>>

\* Prepare again, or reconcile a submitted job that has its backend id.
SendAgain(k) ==
    /\ Resumable
    /\ CASE k = "Prepare" -> job[w.running].attempt = "Prepared"
         [] k = "Reconcile" -> /\ job[w.running].attempt \in {"Submitted", "Running"}
                               /\ job[w.running].backendId
    /\ w' = Send(w, k, w.running)
    /\ UNCHANGED <<job, shot, takeFiles, projectPaused, queuePaused, backend,
                   submissions, crashes, faults>>

-----------------------------------------------------------------------------
(* Events: the main loop takes the executor's next event.                  *)

\* Variant: a watch to be retried keeps the executor busy.
RetryKeepsBusy(e) == e.kind \notin {"Submitted", "MonitorRetry"}

Finishes(e) == e.kind # "Submitted"

\* The memory after the event: the executor is free when the event finishes
\* its request.
Handled == [w EXCEPT !.events = Tail(@), !.busy = @ /\ ~Finishes(Head(w.events))]

\* The event at the head of the channel, of kind k, about job j.
Received(k, j) == Serving /\ w.events # <<>> /\ Head(w.events) = [kind |-> k, job |-> j]

\* The event is about the job that is still the running one.
Current(k, j) == Received(k, j) /\ w.running = j

\* The workflow is ready.  Saving the job as submitting comes before the
\* submission, and a failure to save it or queue.json cancels the submission.
ApplyPrepared(j, o) ==
    /\ Received("Prepared", j)
    /\ o \in Outcomes(2)
    /\ Spend(o)
    /\ job' = IF o.done >= 1 THEN [job EXCEPT ![j].attempt = "Submitting"] ELSE job
    /\ w' = After(o, IF o.end = "ok" THEN Send(Handled, "Submit", j) ELSE Handled)
    /\ UNCHANGED <<shot, takeFiles, projectPaused, queuePaused, backend, submissions>>

\* The three events that only save the attempt (and, for an unknown
\* submission, block the job).
NoteAttempt(k, j, o) ==
    /\ Current(k, j)
    /\ o \in Outcomes(1)
    /\ Spend(o)
    /\ job' = IF o.done = 0 THEN job
              ELSE CASE k = "Submitted" -> [job EXCEPT ![j].attempt = k, ![j].backendId = TRUE]
                     [] k = "SubmissionUnknown" -> [job EXCEPT ![j].attempt = k, ![j].state = "Blocked"]
                     [] k = "MonitorRetry" -> [job EXCEPT ![j].attempt = "Running"]
    /\ w' = Handled
    /\ UNCHANGED <<shot, takeFiles, projectPaused, queuePaused, backend, submissions>>

\* fail_job.  The running entry is cleared in memory before queue.json.
FailureOf == [PreparationFailed |-> "BackendFailed",
              BackendFailed |-> "BackendFailed",
              OutputInvalid |-> "OutputInvalid"]
FailJob(k, j, o) ==
    /\ Current(k, j)
    /\ o \in Outcomes(3)
    /\ Spend(o)
    /\ job' = IF o.done >= 1
              THEN [job EXCEPT ![j].state = "Failed", ![j].attempt = FailureOf[k]] ELSE job
    /\ shot' = IF o.done >= 2 THEN [shot EXCEPT ![job[j].shot] = FailShot(@)] ELSE shot
    /\ w' = After(o, IF o.acked >= 2 THEN [Handled EXCEPT !.running = NoJob] ELSE Handled)
    /\ UNCHANGED <<takeFiles, projectPaused, queuePaused, backend, submissions>>

\* complete_job: save the take, the job, the state and queue.json, then have
\* schedule_next_audition enqueue job n for the next take of the batch, if
\* one is due.  A take saved before a crash and collected again has another
\* elapsed_milliseconds unless `same'; then save_take_metadata refuses it.
CompleteJob(j, n, same, o) ==
    LET s == job[j].shot
        done == [job EXCEPT ![j].state = "Completed", ![j].attempt = "Completed"]
        registered == RegisterCandidate(done, shot[s], j)
        again == AuditionDue(registered) /\ Fresh # {}
        freed == IF o.acked >= 3 THEN [Handled EXCEPT !.running = NoJob] ELSE Handled
    IN  /\ Current("Completed", j)
        /\ j \in takeFiles => same
        /\ IF again THEN n \in Fresh ELSE n = NoJob
        /\ o \in Outcomes(IF again THEN 6 ELSE 4)
        /\ Spend(o)
        /\ takeFiles' = IF o.done >= 1 THEN takeFiles \cup {j} ELSE takeFiles
        /\ job' = IF o.done < 2 THEN job
                  ELSE Journaled(done, o, 4, n, s, "audition")
        /\ shot' = IF o.done < 3 THEN shot
                   ELSE [shot EXCEPT ![s] = IF o.done = 6
                                            THEN EnqueueShot(registered, n, registered.target)
                                            ELSE registered]
        /\ w' = After(o, IF again /\ o.end = "ok"
                         THEN [freed EXCEPT !.pending = Append(@, n)] ELSE freed)
        /\ UNCHANGED <<projectPaused, queuePaused, backend, submissions>>

\* The event changes nothing on disk: the executor stopped waiting for a
\* cancelled job, the event is about a job that is no longer the running one,
\* or the take was saved before with other metadata.
Discard(k, j) ==
    /\ Received(k, j)
    /\ \/ k = "Cancelled"
       \/ k # "Prepared" /\ w.running # j
       \/ k = "Completed" /\ j \in takeFiles
    /\ w' = Handled
    /\ UNCHANGED <<job, shot, takeFiles, projectPaused, queuePaused, backend,
                   submissions, crashes, faults>>

-----------------------------------------------------------------------------
(* The executor thread, one request at a time, and the backend.            *)

Working(k) == w.phase # "down" /\ w.request.kind = k

\* The memory after the executor sends an event and turns to request r.
Report(k, r) ==
    [w EXCEPT !.events = Append(@, [kind |-> k, job |-> w.request.job]), !.request = r]

ExPrepare(k) ==
    /\ Working("Prepare")
    /\ k \in {"Prepared", "PreparationFailed"}
    /\ w' = Report(k, NoRequest)
    /\ UNCHANGED <<job, shot, takeFiles, projectPaused, queuePaused, backend,
                   submissions, crashes, faults>>

\* POST /prompt: the backend may accept the job and the reply be lost.
ExSubmit(accepted, answered) ==
    LET j == w.request.job
    IN  /\ Working("Submit")
        /\ answered => accepted
        /\ backend' = IF accepted THEN [backend EXCEPT ![j] = "pending"] ELSE backend
        /\ submissions' = IF accepted THEN [submissions EXCEPT ![j] = @ + 1] ELSE submissions
        /\ w' = IF answered THEN Report("Submitted", [kind |-> "Monitor", job |-> j])
                            ELSE Report("SubmissionUnknown", NoRequest)
        /\ UNCHANGED <<job, shot, takeFiles, projectPaused, queuePaused, crashes, faults>>

\* wait_websocket or reconcile, then collect_output: what the executor may
\* report of the job it watches.
Watched(k) ==
    LET j == w.request.job
    IN  \/ k = "Cancelled" /\ j \in w.cancelling
        \/ k \in {"Completed", "OutputInvalid"} /\ backend[j] = "done"
        \/ k = "BackendFailed" /\ backend[j] = "failed"
        \/ k = "MonitorRetry"

ExWatch(k) ==
    /\ Working("Monitor") \/ Working("Reconcile")
    /\ Watched(k)
    /\ w' = [Report(k, NoRequest) EXCEPT !.cancelling =
                IF k = "Cancelled" THEN @ \ {w.request.job} ELSE @]
    /\ UNCHANGED <<job, shot, takeFiles, projectPaused, queuePaused, backend,
                   submissions, crashes, faults>>

\* ComfyUI executes one prompt at a time, ours or another client's: ours may
\* stay pending for long.
BackendStarts(j) ==
    /\ backend[j] = "pending"
    /\ \A i \in Jobs : backend[i] # "executing"
    /\ backend' = [backend EXCEPT ![j] = "executing"]
    /\ UNCHANGED <<job, shot, takeFiles, projectPaused, queuePaused, w,
                   submissions, crashes, faults>>

BackendEnds(j, b) ==
    /\ backend[j] = "executing"
    /\ b \in {"done", "failed"}
    /\ backend' = [backend EXCEPT ![j] = b]
    /\ UNCHANGED <<job, shot, takeFiles, projectPaused, queuePaused, w,
                   submissions, crashes, faults>>

-----------------------------------------------------------------------------
(* Specification *)

Init ==
    /\ job = [j \in Jobs |-> [state |-> "Absent", attempt |-> "None", backendId |-> FALSE,
                              shot |-> NoShot, kind |-> "audition"]]
    /\ shot = [s \in Shots |-> [stage |-> "Pending", active |-> NoJob, takes |-> {},
                                selected |-> FALSE, target |-> 0, choice |-> FALSE]]
    /\ takeFiles = {}
    /\ projectPaused = [p \in Projects |-> FALSE]
    /\ queuePaused = FALSE
    /\ w = Lost
    /\ backend = [j \in Jobs |-> "none"]
    /\ submissions = [j \in Jobs |-> 0]
    /\ crashes = 0
    /\ faults = 0

Command ==
    \/ \E s \in Shots, k \in Kind, t \in {0, 1, AuditionTakes}, j \in Fresh, o \in Outcomes(2) :
          Enqueue(s, k, t, j, o)
    \/ \E s \in Shots : SelectTake(s)
    \/ \E p \in Projects, b \in BOOLEAN : SetProjectPaused(p, b)
    \/ \E b \in BOOLEAN : SetQueuePaused(b)
    \/ \E i \in DOMAIN w.pending, o \in Outcomes(3) : CancelPending(i, o)
    \/ \E o \in Outcomes(3) : CancelRunning(o)

Startup ==
    \/ \E R \in SUBSET Projects, end \in {"ok", "error", "crash"} : Boot(R, end)
    \/ \E s \in Shots, j \in Fresh, o \in Outcomes(2) : ResumeAudition(s, j, o)
    \/ Open

Dispatch ==
    \/ \E i \in DOMAIN w.pending, fits \in Contexts, n \in {3, 4} :
          \E o \in Outcomes(n) : StartNext(i, fits, o)
    \/ \E R \in SUBSET Projects, end \in {"ok", "late", "error", "crash"} : StartRebuild(R, end)
    \/ BlockRunning
    \/ MarkUnknown
    \/ \E k \in {"Prepare", "Reconcile"} : SendAgain(k)

HandleEvent(j) ==
    \/ \E o \in Outcomes(2) : ApplyPrepared(j, o)
    \/ \E k \in {"Submitted", "SubmissionUnknown", "MonitorRetry"}, o \in Outcomes(1) :
          NoteAttempt(k, j, o)
    \/ \E k \in DOMAIN FailureOf, o \in Outcomes(3) : FailJob(k, j, o)
    \/ \E n \in Fresh \cup {NoJob}, same \in BOOLEAN, m \in {4, 6} :
          \E o \in Outcomes(m) : CompleteJob(j, n, same, o)
    \/ \E k \in EventKind : Discard(k, j)

Executor ==
    \/ \E k \in {"Prepared", "PreparationFailed"} : ExPrepare(k)
    \/ \E accepted, answered \in BOOLEAN : ExSubmit(accepted, answered)
    \/ \E k \in EventKind : ExWatch(k)

Backend ==
    \/ \E j \in Jobs : BackendStarts(j)
    \/ \E j \in Jobs, b \in {"done", "failed"} : BackendEnds(j, b)

\* A step of the main loop of its own accord: it starts up, takes the first
\* event that waits for it, or dispatches.
MainLoop ==
    \/ ~Serving /\ Startup
    \/ \E j \in Jobs : /\ Serving /\ w.events # <<>> /\ Head(w.events).job = j
                       /\ HandleEvent(j)
    \/ MayDispatch /\ Dispatch

Next ==
    \/ Command
    \/ Crash
    \/ MainLoop
    \/ Executor
    \/ Backend

Spec == Init /\ [][Next]_vars

\* A step of the executor that reports how the watched job ended.
ExReportsEnd == \E k \in {"Completed", "OutputInvalid", "BackendFailed"} : ExWatch(k)

\* What the scheduling justifies.  The main loop never blocks for long: it
\* boots, takes every event and dispatches whenever it can, once per 50 ms
\* round.  The executor thread answers every request (waiting on the backend
\* is bounded by a timeout), and the backend works off what it accepted.  The
\* network may fail any number of attempts to watch a job, but not all of
\* them: hence strong fairness.  Nothing obliges users to send a command.
Fairness ==
    /\ WF_vars(MainLoop)
    /\ WF_vars(Executor)
    /\ SF_vars(ExReportsEnd)
    /\ WF_vars(Backend)

FairSpec == Spec /\ Fairness

-----------------------------------------------------------------------------
(* Safety *)

\* The backend accepts a job at most once: no restart, retry or failed write
\* makes the worker submit a job again.
AtMostOneSubmission == \A j \in Jobs : submissions[j] <= 1

\* No job is sent to the backend beside another one that is still wanted: of
\* two unfinished prompts at most one belongs to a job that was not cancelled.
\* A handler whose write fails may leave a job started on disk and waiting in
\* memory; the dispatches after it keep this true, until a crash drops the
\* memory.
OnePromptWanted ==
    faults = 0 \/ crashes = 0 =>
       \A i, j \in Jobs :
          /\ backend[i] \in Unfinished /\ job[i].state # "Cancelled"
          /\ backend[j] \in Unfinished /\ job[j].state # "Cancelled"
          => i = j

\* The entries of the queue, the running one included.
Entries == {w.pending[i] : i \in DOMAIN w.pending} \cup ({w.running} \ {NoJob})

\* While the worker serves, its queue holds exactly the active jobs of the
\* shots, each once and none of them ended: no job is lost or run twice.
QueueMatchesShots ==
    Serving =>
        /\ Entries = {shot[s].active : s \in Shots} \ {NoJob}
        /\ Len(w.pending) = Cardinality(Entries \ {w.running})
        /\ \A j \in Entries : job[j].state \in {"Queued", "Active", "Blocked"}

\* A completed job's take is saved, and it is among the candidates of its
\* shot unless the shot still points at the job, for recovery to register it.
NoLostTake ==
    \A j \in Jobs : job[j].state = "Completed" =>
        /\ j \in takeFiles
        /\ j \in shot[job[j].shot].takes \/ shot[job[j].shot].active = j

\* A shot is shown as queued or generating exactly while it has a job.
StageMatchesWork ==
    \A s \in Shots : shot[s].stage \in {"Queued", "Generating"} <=> shot[s].active # NoJob

\* An executor that is busy owes an event that frees it, and a free one owes
\* nothing: the dispatcher is neither stuck nor early.
BusyOwesAnEvent ==
    w.busy <=> \/ w.request # NoRequest
               \/ \E i \in DOMAIN w.events : Finishes(w.events[i])

-----------------------------------------------------------------------------
(* Action properties *)

\* What has ended stays as it ended.  Only a failing write can undo an end, and
\* only that of the job it left as the running entry: a cancelled one ends again
\* by its executor's last event (the append to the event log failed), and any
\* may be blocked once its context is rejected.
TerminalStays ==
    [][\A j \in Jobs : job[j].state \in Terminal /\ job'[j].state # job[j].state =>
          /\ faults > 0 /\ w.running = j
          /\ job[j].state = "Cancelled" \/ job'[j].state = "Blocked"]_vars

\* Once the backend may hold a job the worker cannot name, the job stays
\* blocked: nothing runs it again and nothing sends it.
UnknownStaysBlocked ==
    [][\A j \in Jobs : job[j].attempt = "SubmissionUnknown" =>
          /\ job'[j].attempt = "SubmissionUnknown" /\ job'[j].state = "Blocked"
          /\ submissions'[j] = submissions[j]]_vars

\* The interrupt of one job leaves every other job's prompt alone, unless that
\* job was itself cancelled before.
InterruptSparesOthers ==
    [][\A i, j \in Jobs :
          /\ i # j
          /\ job[i].state = "Active" /\ job'[i].state = "Cancelled"
          /\ job[j].state # "Cancelled"
          => backend'[j] = backend[j]]_vars

\* A batch goes on until it has the takes it asked for, and no longer.  It is
\* given up only for a reason: it has them, a take was selected, its job failed
\* or was cancelled, or another job was asked for.
BatchesReachTarget ==
    [][\A s \in Shots :
          /\ AuditionDue(shot[s]) => Used(job, shot[s], "audition") < shot[s].target
          /\ shot[s].target # 0 /\ shot'[s].target # shot[s].target =>
                \/ Used(job', shot'[s], "audition") >= shot[s].target
                \/ shot'[s].selected
                \/ /\ shot[s].active # NoJob
                   /\ job'[shot[s].active].state \in {"Failed", "Cancelled"}
                \/ shot[s].active = NoJob /\ shot'[s].active # NoJob]_vars

\* A job waits its turn.
Waiting(j) == /\ job[j].state = "Queued"
              /\ shot[job[j].shot].active = j
              /\ ~projectPaused[ProjectOf[job[j].shot]]

\* Jobs start in the order they were accepted, paused projects aside.  Nothing
\* but the rebuild after a crash lets a job pass an older one, and then only if
\* its project comes first.
StartsInOrder ==
    [][\A i, j \in Jobs :
          /\ i < j /\ Waiting(i) /\ Waiting(j)
          /\ job'[j].state = "Active" /\ job'[i].state # "Active"
          => crashes > 0 /\ ProjectOf[job[j].shot] < ProjectOf[job[i].shot]]_vars

-----------------------------------------------------------------------------
(* Liveness *)

Paused == queuePaused \/ \E p \in Projects : projectPaused[p]
Waits(j) == job[j].state \in {"Queued", "Active"} /\ shot[job[j].shot].active = j
SomeBlocked == \E j \in Jobs : job[j].state = "Blocked"

(* Each of these is promised from every state in which it applies, also when   *)
(* operators have resumed, unless they pause again.                            *)

\* Every accepted job ends, or the queue stands behind a blocked job.
QueueDrains == \A j \in Jobs : Waits(j) ~> (~Waits(j) \/ SomeBlocked \/ Paused)

\* An audition batch goes on by itself until the shot owes nothing (or the
\* job ids of the model are used up).
BatchEnds ==
    \A s \in Shots : shot[s].target # 0
                        ~> (~AuditionDue(shot[s]) /\ shot[s].active = NoJob)
                           \/ SomeBlocked \/ Fresh = {} \/ Paused

\* A job the backend has, under an id the worker saved, ends on the worker's
\* side too, unless the queue is paused: that its project is, is no excuse.
SubmittedJobsEnd ==
    \A j \in Jobs : (job[j].state = "Active" /\ job[j].backendId)
                       ~> (job[j].state # "Active" \/ queuePaused)

-----------------------------------------------------------------------------
(* Refinement *)

\* Where each job stands for a user of the queue.  A job counts as requested
\* once its shot points at it, and as delivered once its take is registered.
Ledger(j) ==
    LET s == job[j].shot
    IN  CASE job[j].state \in Unreadable            -> "idle"
          [] job[j].state \in {"Failed", "Cancelled"} -> "dropped"
          [] job[j].state = "Queued"                -> IF shot[s].active = j THEN "queued" ELSE "idle"
          [] job[j].state = "Completed" /\ j \in shot[s].takes -> "delivered"
          [] OTHER -> IF submissions[j] = 0 THEN "started" ELSE "sent"

TL == INSTANCE TakeLedger WITH status <- [j \in Jobs |-> Ledger(j)]

RefinesTakeLedger == TL!Spec
=============================================================================
