---------------------------- MODULE ComfyAdapter ----------------------------
(***************************************************************************)
(* The camera executor's thread at work on ComfyUI (worker/executor.rs,    *)
(* adapter/comfy.rs, adapter/comfy/protocol.rs).  Each HTTP exchange and   *)
(* each WebSocket frame is a step of its own, between which prompts start  *)
(* and end, frames are lost, ComfyUI restarts and the worker cancels or    *)
(* dies.  The worker is kept as far as it answers the thread; the rest of  *)
(* it is CameraQueue, and BackendPort is what CameraQueue takes for        *)
(* granted about this module.                                              *)
(***************************************************************************)
EXTENDS Workflow, Sequences, FiniteSets

CONSTANTS
    Jobs, NoJob,
    Requests,                            \* what jobs may ask for
    Unverified,                          \* whether jobs may waive the smoke test
    MaxErrors, MaxRestarts, MaxCrashes   \* bounds

ASSUME JobsAssumption == NoJob \notin Jobs
ASSUME RequestsAssumption == Requests \subseteq {q \in Request : Contractual(q)}
ASSUME UnverifiedAssumption == Unverified \subseteq BOOLEAN
ASSUME BoundsAssumption == MaxErrors \in Nat /\ MaxRestarts \in Nat /\ MaxCrashes \in Nat

VARIABLES
    \* the worker
    request,     \* what each job asks for
    owner,       \* what the worker knows of each job
    events,      \* ExecutorHandle.events: [kind, job]
    cancelling,  \* ExecutorCancellation.requested
    crashes,
    \* the executor's thread
    step,        \* what it does next
    current,     \* for this job
    media,       \* the job's file under raw/: "none", "staged" or "final"
    \* ComfyUI and the network
    prompt,      \* each job's prompt
    forgotten,   \* prompts /history no longer lists
    socket,      \* the WebSocket: [open, frames]
    errors, restarts

workerVars == <<request, owner, events, cancelling, crashes>>
threadVars == <<step, current, media>>
backendVars == <<prompt, forgotten, socket, errors, restarts>>
vars == <<workerVars, threadVars, backendVars>>

OwnerState == {"absent", "queued", "prepared", "submitting", "submitted", "unknown",
               "completed", "invalid", "failed", "refused", "cancelled"}
Ended == {"completed", "invalid", "failed", "refused", "cancelled"}
\* Variant: a job in doubt does not hold the queue.
HoldingKnown == {"prepared", "submitting", "submitted"}
\* The states of the running entry.
Holding == {"prepared", "submitting", "submitted", "unknown"}
EventKind == {"Prepared", "PreparationFailed", "Submitted", "SubmissionUnknown", "Completed",
              "OutputInvalid", "BackendFailed", "RetryableMonitorError", "Cancelled"}
Step == {"idle", "prepare", "post", "connect", "listen", "history", "queue",
         "outputs", "download", "inspect"}
Watching == {"connect", "listen", "history", "queue"}
Collecting == {"outputs", "download", "inspect"}
PromptState == {"none", "pending", "executing", "succeeded", "failed", "lost"}
Frame == [kind : {"execution_error", "executing_null"}, job : Jobs]
NoSocket == [open |-> FALSE, frames |-> <<>>]

TypeOK ==
    /\ request \in [Jobs -> Requests \cup {NoJob}]
    /\ owner \in [Jobs -> OwnerState]
    /\ events \in Seq([kind : EventKind, job : Jobs])
    /\ cancelling \subseteq Jobs
    /\ crashes \in 0..MaxCrashes
    /\ step \in Step
    /\ current \in Jobs \cup {NoJob}
    /\ step # "idle" => current \in Jobs
    /\ media \in [Jobs -> {"none", "staged", "final"}]
    /\ prompt \in [Jobs -> PromptState]
    /\ forgotten \subseteq Jobs
    /\ socket \in [open : BOOLEAN, frames : Seq(Frame)]
    /\ errors \in 0..MaxErrors
    /\ restarts \in 0..MaxRestarts

Init ==
    /\ request = [j \in Jobs |-> NoJob]
    /\ owner = [j \in Jobs |-> "absent"]
    /\ events = <<>> /\ cancelling = {} /\ crashes = 0
    /\ step = "idle" /\ current = NoJob
    /\ media = [j \in Jobs |-> "none"]
    /\ prompt = [j \in Jobs |-> "none"]
    /\ forgotten = {} /\ socket = NoSocket
    /\ errors = 0 /\ restarts = 0

-----------------------------------------------------------------------------
(* The worker                                                               *)

\* No request is outstanding: executor_busy is down.
Idle == step = "idle" /\ events = <<>>

Enqueue(j, q, waived) ==
    /\ owner[j] = "absent"
    /\ Admitted(q.operation, q.profile, waived)
    /\ request' = [request EXCEPT ![j] = q]
    /\ owner' = [owner EXCEPT ![j] = "queued"]
    /\ UNCHANGED <<events, cancelling, crashes, threadVars, backendVars>>

\* The next job takes the running entry, or the one a crash left is resumed.
\* A submission that was under way cannot be: the job blocks the queue.
Dispatch(j) ==
    /\ Idle
    /\ \A i \in Jobs \ {j} : owner[i] \notin Holding
    /\ \/ /\ owner[j] \in {"queued", "prepared"}
          /\ owner' = [owner EXCEPT ![j] = "prepared"]
          /\ step' = "prepare" /\ current' = j
       \/ /\ owner[j] = "submitted"
          /\ step' = "history" /\ current' = j
          /\ UNCHANGED owner
       \/ /\ owner[j] = "submitting"
          /\ owner' = [owner EXCEPT ![j] = "unknown"]
          /\ UNCHANGED <<step, current>>
    /\ UNCHANGED <<request, events, cancelling, crashes, media, backendVars>>

\* What the worker makes of an event about the running job.
Concluded == [PreparationFailed |-> "refused", SubmissionUnknown |-> "unknown",
              Submitted |-> "submitted", Completed |-> "completed",
              OutputInvalid |-> "invalid", BackendFailed |-> "failed"]

\* apply_executor_event.  An event about a job that was cancelled in the
\* meantime is dropped.  A prepared workflow goes back as a submission.
Receive(j, k) ==
    /\ events # <<>> /\ Head(events) = [kind |-> k, job |-> j]
    /\ events' = Tail(events)
    /\ IF k = "Prepared"
         THEN /\ owner' = [owner EXCEPT ![j] = "submitting"]
              /\ step' = "post" /\ current' = j
         ELSE /\ owner' = IF owner[j] \in Holding /\ k \in DOMAIN Concluded
                          THEN [owner EXCEPT ![j] = Concluded[k]] ELSE owner
              /\ UNCHANGED <<step, current>>
    /\ UNCHANGED <<request, cancelling, crashes, media, backendVars>>

\* cancel_running_queue_job and ComfyAdapter::cancel.  /interrupt ends what
\* ComfyUI is executing, whoever asked for it; a pending prompt it leaves alone.
Interrupted == [i \in Jobs |-> IF prompt[i] = "executing" THEN "failed" ELSE prompt[i]]

Cancel(j) ==
    /\ owner[j] = "submitted"
    /\ owner' = [owner EXCEPT ![j] = "cancelled"]
    /\ cancelling' = cancelling \cup {j}
    /\ prompt' = Interrupted
    /\ UNCHANGED <<request, events, crashes, threadVars, forgotten, socket, errors, restarts>>

\* The reply to /interrupt is lost: the worker leaves the job as it is.
CancelFails(j) ==
    /\ owner[j] = "submitted"
    /\ errors < MaxErrors /\ errors' = errors + 1
    /\ prompt' = Interrupted
    /\ UNCHANGED <<workerVars, threadVars, forgotten, socket, restarts>>

\* The process dies and starts again.
Crash ==
    /\ crashes < MaxCrashes
    /\ crashes' = crashes + 1
    /\ events' = <<>> /\ cancelling' = {}
    /\ step' = "idle" /\ current' = NoJob
    /\ socket' = NoSocket
    /\ UNCHANGED <<request, owner, media, prompt, forgotten, errors, restarts>>

-----------------------------------------------------------------------------
(* The executor's thread                                                    *)

At(s) == step = s

\* Send an event about the current job and turn to step s.
Report(k, s) ==
    /\ events' = Append(events, [kind |-> k, job |-> current])
    /\ step' = s
    /\ UNCHANGED current

\* An exchange with ComfyUI fails.
Error == errors < MaxErrors /\ errors' = errors + 1

quiet == <<request, owner, cancelling, crashes, prompt, forgotten, restarts>>

Prepare ==
    /\ At("prepare")
    /\ \/ /\ Prepares(request[current]) /\ Report("Prepared", "idle")
          /\ UNCHANGED errors
       \/ /\ ~Prepares(request[current]) /\ Report("PreparationFailed", "idle")
          /\ UNCHANGED errors
       \/ /\ Uploads(request[current]) /\ Error
          /\ Report("PreparationFailed", "idle")
    /\ UNCHANGED <<quiet, media, socket>>

\* POST /prompt.  The reply may be lost after ComfyUI took the prompt.
Post ==
    /\ At("post")
    /\ \/ /\ prompt' = [prompt EXCEPT ![current] = "pending"]
          /\ Report("Submitted", "connect")
          /\ UNCHANGED errors
       \/ /\ Error
          /\ prompt' \in {prompt, [prompt EXCEPT ![current] = "pending"]}
          /\ Report("SubmissionUnknown", "idle")
    /\ UNCHANGED <<request, owner, cancelling, crashes, forgotten, restarts, media, socket>>

\* wait_websocket: connect, after the prompt was posted.
Connect ==
    /\ At("connect")
    /\ \/ /\ socket' = [open |-> TRUE, frames |-> <<>>]
          /\ step' = "listen"
          /\ UNCHANGED <<events, current, errors>>
       \/ Error /\ Report("RetryableMonitorError", "idle") /\ UNCHANGED socket
    /\ UNCHANGED <<quiet, media>>

\* A frame about another prompt is skipped; the last one of a prompt sends the
\* thread to /history, an error ends the wait.
Listen ==
    /\ At("listen") /\ socket.frames # <<>>
    /\ LET frame == Head(socket.frames)
       IN  IF frame.job # current
           THEN /\ socket' = [socket EXCEPT !.frames = Tail(@)]
                /\ UNCHANGED <<events, step, current>>
           ELSE /\ socket' = NoSocket
                /\ IF frame.kind = "execution_error"
                     THEN Report("BackendFailed", "idle")
                     ELSE step' = "history" /\ UNCHANGED <<events, current>>
    /\ UNCHANGED <<quiet, media, errors>>

\* The stream ends, or breaks.
StreamEnds ==
    /\ At("listen") /\ ~socket.open
    /\ \/ step' = "history" /\ UNCHANGED <<events, current, errors>>
       \/ Error /\ Report("RetryableMonitorError", "idle")
    /\ UNCHANGED <<quiet, media, socket>>

\* Variant: the wait is not bounded.
WaitForever == At("listen") /\ FALSE

\* BACKEND_WAIT_TIMEOUT, two hours.
TimeOut ==
    /\ At("listen")
    /\ Report("RetryableMonitorError", "idle")
    /\ socket' = NoSocket
    /\ UNCHANGED <<quiet, media, errors>>

\* GET /history/<prompt> lists the prompts that ended.
Listed(j) == prompt[j] \in {"succeeded", "failed"} /\ j \notin forgotten

\* ComfyAdapter::reconcile asks /history first and then /queue.  A prompt that
\* ends in between is in neither.  Whatever /queue says is not terminal.
History ==
    /\ At("history")
    /\ \/ /\ Listed(current)
          /\ IF prompt[current] = "succeeded"
               THEN step' = "outputs" /\ UNCHANGED <<events, current>>
               ELSE Report("BackendFailed", "idle")
          /\ UNCHANGED errors
       \/ /\ ~Listed(current)
          /\ step' = "queue" /\ UNCHANGED <<events, current, errors>>
       \/ Error /\ Report("RetryableMonitorError", "idle")
    /\ UNCHANGED <<quiet, media, socket>>

Queue ==
    /\ At("queue")
    /\ Report("RetryableMonitorError", "idle")
    /\ UNCHANGED <<quiet, media, socket, errors>>

\* select! drops the wait when the worker asked for it, never the collection.
StopWaiting ==
    /\ step \in Watching
    /\ current \in cancelling
    /\ cancelling' = cancelling \ {current}
    /\ Report("Cancelled", "idle")
    /\ socket' = NoSocket
    /\ UNCHANGED <<request, owner, crashes, media, prompt, forgotten, errors, restarts>>

\* collect_output.  /history is asked again; a failure of any exchange, a reply
\* without a video and a video that does not pass end the job.
Outputs ==
    /\ At("outputs")
    /\ \/ Listed(current) /\ step' = "download" /\ UNCHANGED <<events, current, errors>>
       \/ Report("OutputInvalid", "idle") /\ UNCHANGED errors
    /\ UNCHANGED <<quiet, media, socket>>

Download ==
    /\ At("download")
    /\ \/ /\ media' = [media EXCEPT ![current] = "staged"]
          /\ step' = "inspect"
          /\ UNCHANGED <<events, current, errors>>
       \/ Error /\ Report("OutputInvalid", "idle") /\ UNCHANGED media
    /\ UNCHANGED <<quiet, socket>>

\* The checks, the promotion out of .staging and the boundary frames.
Inspect ==
    /\ At("inspect")
    /\ \/ media' = [media EXCEPT ![current] = "final"] /\ Report("Completed", "idle")
       \/ UNCHANGED media /\ Report("OutputInvalid", "idle")
       \/ media' = [media EXCEPT ![current] = "final"] /\ Report("OutputInvalid", "idle")
    /\ UNCHANGED <<quiet, socket, errors>>

-----------------------------------------------------------------------------
(* ComfyUI and the network                                                  *)

StartPrompt(j) ==
    /\ prompt[j] = "pending"
    /\ \A i \in Jobs : prompt[i] # "executing"
    /\ prompt' = [prompt EXCEPT ![j] = "executing"]
    /\ UNCHANGED <<workerVars, threadVars, forgotten, socket, errors, restarts>>

\* The frame reaches the socket only when one is open.
EndPrompt(j, f) ==
    /\ prompt[j] = "executing"
    /\ prompt' = [prompt EXCEPT ![j] = f]
    /\ socket' = IF socket.open
                 THEN [socket EXCEPT !.frames = Append(@,
                         [kind |-> IF f = "failed" THEN "execution_error" ELSE "executing_null",
                          job |-> j])]
                 ELSE socket
    /\ UNCHANGED <<workerVars, threadVars, forgotten, errors, restarts>>

\* ComfyUI keeps its queue and its history in memory.
Restart ==
    /\ restarts < MaxRestarts
    /\ restarts' = restarts + 1
    /\ prompt' = [j \in Jobs |-> IF prompt[j] \in {"pending", "executing"} THEN "lost" ELSE prompt[j]]
    /\ forgotten' = forgotten \cup {j \in Jobs : prompt[j] \in {"succeeded", "failed"}}
    /\ socket' = [socket EXCEPT !.open = FALSE]
    /\ UNCHANGED <<workerVars, threadVars, errors>>

Disconnect ==
    /\ socket.open
    /\ Error
    /\ socket' = [socket EXCEPT !.open = FALSE]
    /\ UNCHANGED <<workerVars, threadVars, prompt, forgotten, restarts>>

-----------------------------------------------------------------------------
Worker ==
    \/ \E j \in Jobs : Dispatch(j)
    \/ \E j \in Jobs, k \in EventKind : Receive(j, k)

Thread ==
    \/ Prepare \/ Post
    \/ Connect \/ Listen \/ StreamEnds \/ TimeOut \/ History \/ Queue \/ StopWaiting
    \/ Outputs \/ Download \/ Inspect

Backend ==
    \/ \E j \in Jobs : StartPrompt(j)
    \/ \E j \in Jobs, f \in {"succeeded", "failed"} : EndPrompt(j, f)

Next ==
    \/ \E j \in Jobs, q \in Requests, waived \in Unverified : Enqueue(j, q, waived)
    \/ \E j \in Jobs : Cancel(j) \/ CancelFails(j)
    \/ Worker \/ Thread \/ Backend
    \/ Crash \/ Restart \/ Disconnect

Spec == Init /\ [][Next]_vars

\* The worker's loop polls the events every 50 ms, the thread's waits are
\* bounded by timeouts, and ComfyUI works its queue off.  Nobody has to
\* enqueue, to cancel or to fail.
Fairness == WF_vars(Worker) /\ WF_vars(Thread) /\ WF_vars(Backend)
FairSpec == Spec /\ Fairness
-----------------------------------------------------------------------------
(* Properties                                                               *)

\* What CameraQueue takes for granted holds of the adapter: one submission per
\* job, none beside a prompt that is still wanted, and every conclusion the
\* worker draws is what happened on ComfyUI.
Told(o) == IF o \in {"absent", "queued", "prepared", "submitting"} THEN "nothing" ELSE o
PromptFate(p) == IF p \in {"pending", "executing"} THEN "running" ELSE p
Port == INSTANCE BackendPort
        WITH fate <- [j \in Jobs |-> PromptFate(prompt[j])],
             told <- [j \in Jobs |-> Told(owner[j])]
RefinesBackendPort == Port!Spec

\* A submitted job comes to an end although its last frame may be sent before
\* the socket opens, the socket may break and any look at ComfyUI may fail or
\* fall between /history and /queue -- unless ComfyUI itself lost the prompt.
WatchedEnds ==
    \A j \in Jobs : owner[j] = "submitted" ~>
        (owner[j] \in Ended \/ prompt[j] = "lost" \/ j \in forgotten)

\* H3 wants 17 k + 5 frames.
FramesAligned ==
    \A j \in Jobs : prompt[j] # "none" /\ Adapter.unit = "frames" => Length(request[j]) % 17 = 5
=============================================================================
