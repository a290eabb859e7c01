----------------------------- MODULE ComfyProofs -----------------------------
(***************************************************************************)
(* Proofs about ComfyAdapter, for any jobs, adapter file and requests, and *)
(* any number of lost replies, restarts and crashes.                       *)
(***************************************************************************)
EXTENDS ComfyAdapter, TLAPS, SequenceTheorems

-----------------------------------------------------------------------------
(* Types                                                                    *)

Event == [kind : EventKind, job : Jobs]

\* What a report does to the thread and the events.
LEMMA ReportType ==
    ASSUME TypeOK, step # "idle", NEW k \in EventKind, NEW s \in Step, Report(k, s)
    PROVE  events' \in Seq(Event) /\ step' \in Step /\ current' \in Jobs
<1>1. [kind |-> k, job |-> current] \in Event
  BY DEF TypeOK, Event
<1>2. events \in Seq(Event)
  BY DEF TypeOK, Event
<1> QED  BY <1>1, <1>2 DEF Report, TypeOK

LEMMA ErrorType ==
    ASSUME TypeOK, Error
    PROVE  errors' \in 0..MaxErrors
  BY BoundsAssumption DEF TypeOK, Error

LEMMA WorkerType ==
    ASSUME TypeOK, NEW j \in Jobs, NEW k \in EventKind, Dispatch(j) \/ Receive(j, k)
    PROVE  TypeOK'
<1>1. UNCHANGED <<request, cancelling, crashes, media, prompt, forgotten, socket, errors, restarts>>
  BY DEF Dispatch, Receive, backendVars
<1>2. step' \in Step /\ current' \in Jobs \cup {NoJob} /\ (step' # "idle" => current' \in Jobs)
  BY DEF TypeOK, Dispatch, Receive, Step
<1>3. owner' \in [Jobs -> OwnerState]
  <2>1. CASE Dispatch(j)
    BY <2>1 DEF TypeOK, Dispatch, OwnerState
  <2>2. CASE Receive(j, k)
    <3>1. k \in DOMAIN Concluded => Concluded[k] \in OwnerState
      BY DEF Concluded, OwnerState, EventKind
    <3> QED  BY <2>2, <3>1 DEF TypeOK, Receive, OwnerState
  <2> QED  BY <2>1, <2>2
<1>4. events' \in Seq(Event)
  <2>1. events \in Seq(Event)
    BY DEF TypeOK, Event
  <2>2. UNCHANGED events \/ (events # <<>> /\ events' = Tail(events))
    BY DEF Dispatch, Receive
  <2> QED  BY <2>1, <2>2
<1> QED  BY <1>1, <1>2, <1>3, <1>4 DEF TypeOK, Event

LEMMA ThreadType ==
    ASSUME TypeOK, Thread
    PROVE  TypeOK'
<1>1. step # "idle" /\ current \in Jobs
  BY DEF Thread, TypeOK, Prepare, Post, Connect, Listen, StreamEnds, TimeOut, History, Queue,
     StopWaiting, Outputs, Download, Inspect, At, Watching
<1>2. UNCHANGED <<request, owner, crashes, forgotten, restarts>> /\ cancelling' \subseteq Jobs
  BY DEF Thread, TypeOK, Prepare, Post, Connect, Listen, StreamEnds, TimeOut, History, Queue,
     StopWaiting, Outputs, Download, Inspect, quiet
<1>3. errors' \in 0..MaxErrors
  BY ErrorType DEF Thread, TypeOK, Prepare, Post, Connect, Listen, StreamEnds, TimeOut, History,
     Queue, StopWaiting, Outputs, Download, Inspect
<1>4. prompt' \in [Jobs -> PromptState]
  BY <1>1 DEF Thread, TypeOK, Prepare, Post, Connect, Listen, StreamEnds, TimeOut, History, Queue,
     StopWaiting, Outputs, Download, Inspect, quiet, PromptState
<1>5. media' \in [Jobs -> {"none", "staged", "final"}]
  BY <1>1 DEF Thread, TypeOK, Prepare, Post, Connect, Listen, StreamEnds, TimeOut, History, Queue,
     StopWaiting, Outputs, Download, Inspect
<1>6. /\ socket' \in [open : BOOLEAN, frames : Seq(Frame)]
  <2>1. NoSocket \in [open : BOOLEAN, frames : Seq(Frame)]
    BY DEF NoSocket
  <2>2. [open |-> TRUE, frames |-> <<>>] \in [open : BOOLEAN, frames : Seq(Frame)]
    OBVIOUS
  <2>3. CASE socket.frames # <<>> /\ socket' = [socket EXCEPT !.frames = Tail(@)]
    <3>1. socket.frames \in Seq(Frame)
      BY DEF TypeOK
    <3>2. Tail(socket.frames) \in Seq(Frame)
      BY <2>3, <3>1
    <3> QED  BY <2>3, <3>2 DEF TypeOK
  <2>4. \/ UNCHANGED socket \/ socket' = NoSocket
        \/ socket' = [open |-> TRUE, frames |-> <<>>]
        \/ socket.frames # <<>> /\ socket' = [socket EXCEPT !.frames = Tail(@)]
    BY DEF Thread, Prepare, Post, Connect, Listen, StreamEnds, TimeOut, History, Queue,
       StopWaiting, Outputs, Download, Inspect
  <2> QED  BY <2>1, <2>2, <2>3, <2>4 DEF TypeOK
<1>7. /\ events' \in Seq(Event)
      /\ step' \in Step
      /\ current' \in Jobs
  <2>1. \/ \E k \in EventKind : Report(k, "idle")
        \/ Report("Submitted", "connect")
        \/ UNCHANGED <<events, current>> /\ step' \in Step
    BY DEF TypeOK, Thread, Prepare, Post, Connect, Listen, StreamEnds, TimeOut, History, Queue,
       StopWaiting, Outputs, Download, Inspect, EventKind, Step
  <2>2. "idle" \in Step /\ "connect" \in Step /\ "Submitted" \in EventKind
    BY DEF Step, EventKind
  <2>3. CASE UNCHANGED <<events, current>> /\ step' \in Step
    BY <1>1, <2>3 DEF TypeOK, Event
  <2> QED  BY <1>1, <2>1, <2>2, <2>3, ReportType
<1> QED  BY <1>2, <1>3, <1>4, <1>5, <1>6, <1>7 DEF TypeOK, Event

LEMMA BackendType ==
    ASSUME TypeOK, Backend
    PROVE  TypeOK'
<1>1. UNCHANGED <<workerVars, threadVars, forgotten, errors, restarts>>
  BY DEF Backend, StartPrompt, EndPrompt
<1>2. prompt' \in [Jobs -> PromptState]
  BY DEF TypeOK, Backend, StartPrompt, EndPrompt, PromptState
<1>3. socket' \in [open : BOOLEAN, frames : Seq(Frame)]
  <2>1. ASSUME NEW f \in Frame, socket' = [socket EXCEPT !.frames = Append(@, f)]
        PROVE  socket' \in [open : BOOLEAN, frames : Seq(Frame)]
    <3>1. Append(socket.frames, f) \in Seq(Frame)
      BY DEF TypeOK
    <3> QED  BY <2>1, <3>1 DEF TypeOK
  <2>2. \/ UNCHANGED socket
        \/ \E f \in Frame : socket' = [socket EXCEPT !.frames = Append(@, f)]
    <3>1. ASSUME NEW j \in Jobs, NEW f, EndPrompt(j, f)
          PROVE  \/ UNCHANGED socket
                 \/ \E x \in Frame : socket' = [socket EXCEPT !.frames = Append(@, x)]
      <4>1. [kind |-> IF f = "failed" THEN "execution_error" ELSE "executing_null", job |-> j]
              \in Frame
        BY DEF Frame
      <4>2. \/ UNCHANGED socket
            \/ socket' = [socket EXCEPT !.frames = Append(@,
                  [kind |-> IF f = "failed" THEN "execution_error" ELSE "executing_null",
                   job |-> j])]
        BY <3>1, Zenon DEF EndPrompt
      <4> QED  BY <4>1, <4>2, Zenon
    <3> QED  BY <3>1 DEF Backend, StartPrompt
  <2> QED  BY <2>1, <2>2 DEF TypeOK
<1> QED  BY <1>1, <1>2, <1>3 DEF TypeOK, workerVars, threadVars

LEMMA StepType ==
    ASSUME TypeOK, [Next]_vars
    PROVE  TypeOK'
<1>1. ASSUME NEW j \in Jobs, NEW q \in Requests, NEW waived \in Unverified, Enqueue(j, q, waived)
      PROVE  TypeOK'
  BY <1>1 DEF TypeOK, Enqueue, OwnerState, threadVars, backendVars
<1>2. ASSUME NEW j \in Jobs, Cancel(j) \/ CancelFails(j)
      PROVE  TypeOK'
  <2>1. Interrupted \in [Jobs -> PromptState]
    BY DEF TypeOK, Interrupted, PromptState
  <2>2. CASE Cancel(j)
    BY <2>1, <2>2 DEF TypeOK, Cancel, OwnerState, threadVars
  <2>3. CASE CancelFails(j)
    BY <2>1, <2>3, BoundsAssumption DEF TypeOK, CancelFails, workerVars, threadVars
  <2> QED  BY <1>2, <2>2, <2>3
<1>3. CASE Worker
  BY <1>3, WorkerType DEF Worker, EventKind
<1>4. CASE Thread
  BY <1>4, ThreadType
<1>5. CASE Backend
  BY <1>5, BackendType
<1>6. CASE Crash
  BY <1>6, BoundsAssumption DEF TypeOK, Crash, Step, NoSocket
<1>7. CASE Restart
  <2>1. prompt' \in [Jobs -> PromptState]
    BY <1>7 DEF TypeOK, Restart, PromptState
  <2>2. socket' \in [open : BOOLEAN, frames : Seq(Frame)]
    BY <1>7 DEF TypeOK, Restart
  <2>3. /\ UNCHANGED <<workerVars, threadVars, errors>>
        /\ forgotten' \subseteq Jobs /\ restarts' \in 0..MaxRestarts
    BY <1>7, BoundsAssumption DEF TypeOK, Restart
  <2> QED  BY <2>1, <2>2, <2>3 DEF TypeOK, workerVars, threadVars
<1>8. CASE Disconnect
  BY <1>8, ErrorType DEF TypeOK, Disconnect, workerVars, threadVars
<1>9. CASE UNCHANGED vars
  BY <1>9 DEF TypeOK, vars, workerVars, threadVars, backendVars
<1> QED  BY <1>1, <1>2, <1>3, <1>4, <1>5, <1>6, <1>7, <1>8, <1>9 DEF Next

\* Every reachable state is well typed, for any instance.
THEOREM TypeCorrect == Spec => []TypeOK
<1>1. Init => TypeOK
  BY BoundsAssumption DEF Init, TypeOK, OwnerState, Step, PromptState, NoSocket
<1>2. TypeOK /\ [Next]_vars => TypeOK'
  BY StepType
<1> QED  BY <1>1, <1>2, PTL DEF Spec

-----------------------------------------------------------------------------
(* The invariant behind the refinement                                      *)

Running == {"pending", "executing"}

OneHolds == \A i, j \in Jobs : owner[i] \in Holding /\ owner[j] \in Holding => i = j

\* A job that was never submitted has no prompt, one that ended no running prompt.
Unsent == \A j \in Jobs : owner[j] \in {"absent", "queued", "prepared", "refused"} =>
             prompt[j] = "none"
Wanting == \A j \in Jobs : prompt[j] \in Running =>
             owner[j] \in {"submitting", "submitted", "unknown", "cancelled"}

OneExecutes == \A i, j \in Jobs : prompt[i] = "executing" /\ prompt[j] = "executing" => i = j

FramesTrue == \A i \in DOMAIN socket.frames :
                 socket.frames[i].kind = "execution_error" =>
                    prompt[socket.frames[i].job] = "failed"

Collected == step \in Collecting => prompt[current] = "succeeded"

Ev(k) == [kind |-> k, job |-> current]

\* How a monitored job's report may end, and what is then true of its prompt.
Last == {"Completed", "OutputInvalid", "BackendFailed", "RetryableMonitorError", "Cancelled"}
True(k) == /\ k \in {"Completed", "OutputInvalid"} => prompt[current] = "succeeded"
           /\ k = "BackendFailed" => prompt[current] = "failed"

Reported(k) ==
    \/ k \in {"Prepared", "PreparationFailed"} /\ owner[current] = "prepared"
    \/ k = "SubmissionUnknown" /\ owner[current] = "submitting"
    \/ k \in Last /\ owner[current] \in {"submitted", "cancelled"} /\ True(k)

\* The thread works on one job, and all events are about it.
Sent == owner[current] = "submitting" /\ prompt[current] # "none"
Flow ==
    \/ events = <<>> /\ step = "idle"
    \/ events = <<>> /\ step = "prepare" /\ owner[current] = "prepared"
    \/ events = <<>> /\ step = "post" /\ owner[current] = "submitting" /\ prompt[current] = "none"
    \/ /\ events = <<>> /\ step \in Watching \cup Collecting
       /\ owner[current] \in {"submitted", "cancelled"}
    \/ events = <<Ev("Submitted")>> /\ step \in Watching \cup Collecting /\ Sent
    \/ step = "idle" /\ current \in Jobs /\ \E k \in EventKind : events = <<Ev(k)>> /\ Reported(k)
    \/ /\ step = "idle" /\ current \in Jobs
       /\ \E k \in Last : events = <<Ev("Submitted"), Ev(k)>> /\ Sent /\ True(k)

Inv == /\ TypeOK
       /\ OneHolds /\ Unsent /\ Wanting /\ OneExecutes /\ FramesTrue /\ Collected /\ Flow

\* Prompts move on ComfyUI, a submitted job may be cancelled.
LEMMA MovesOK ==
    ASSUME Inv, TypeOK',
           \A j \in Jobs : prompt'[j] = prompt[j] \/
              (prompt[j] \in Running /\ prompt'[j] \in PromptState \ {"none", "pending"}),
           \A j \in Jobs : owner'[j] = owner[j] \/
              (owner[j] = "submitted" /\ owner'[j] = "cancelled"),
           UNCHANGED <<events, step, current>>
    PROVE  OneHolds' /\ Unsent' /\ Wanting' /\ Collected' /\ Flow'
<1>1. OneHolds' /\ Unsent'
  BY DEF Inv, OneHolds, Unsent, Holding, Running
<1>2. Wanting'
  BY DEF Inv, Wanting, Running
<1>3. current \in Jobs => \A k : True(k) => True(k)'
  BY DEF True, Running
<1>4. current \in Jobs => (Sent => Sent') /\ \A k \in EventKind : Reported(k) => Reported(k)'
  BY <1>3 DEF Sent, Reported, Running
<1>5. step # "idle" => current \in Jobs
  BY DEF Inv, TypeOK
<1>6. Collected'
  BY <1>5 DEF Inv, Collected, Running, Collecting
<1>7. Flow'
  <2>1. CASE events = <<>> /\ step = "idle"
    BY <2>1 DEF Flow
  <2>2. CASE events = <<>> /\ step \in {"prepare", "post"}
    <3>1. current \in Jobs
      BY <1>5, <2>2
    <3>2. events' = <<>> /\ step' = step
      BY <2>2
    <3> QED  BY <2>2, <3>1, <3>2 DEF Inv, Flow, Watching, Collecting, Running, Sent
  <2>3. CASE events = <<>> /\ step \in Watching \cup Collecting
                           /\ owner[current] \in {"submitted", "cancelled"}
    <3>1. current \in Jobs
      BY <1>5, <2>3 DEF Watching, Collecting
    <3> QED  BY <2>3, <3>1 DEF Flow
  <2>4. CASE events = <<Ev("Submitted")>> /\ step \in Watching \cup Collecting /\ Sent
    <3>1. current \in Jobs
      BY <1>5, <2>4 DEF Watching, Collecting
    <3> QED  BY <1>4, <2>4, <3>1 DEF Flow, Ev
  <2>5. ASSUME step = "idle", current \in Jobs, NEW k \in EventKind, events = <<Ev(k)>>, Reported(k)
        PROVE  Flow'
    BY <1>4, <2>5 DEF Flow, Ev
  <2>6. ASSUME step = "idle", current \in Jobs, NEW k \in Last,
               events = <<Ev("Submitted"), Ev(k)>>, Sent, True(k)
        PROVE  Flow'
    BY <1>3, <1>4, <2>6 DEF Flow, Ev
  <2> QED  BY <2>1, <2>2, <2>3, <2>4, <2>5, <2>6 DEF Inv, Flow
<1> QED  BY <1>1, <1>2, <1>6, <1>7

\* Frames are kept, dropped or read off, and what failed stays failed.
LEMMA FramesOK ==
    ASSUME Inv, \A j \in Jobs : prompt[j] = "failed" => prompt'[j] = "failed",
           \/ socket'.frames = socket.frames
           \/ socket'.frames = <<>>
           \/ socket.frames # <<>> /\ socket'.frames = Tail(socket.frames)
    PROVE  FramesTrue'
<1>1. socket.frames \in Seq(Frame)
  BY DEF Inv, TypeOK
<1>2. \A i \in DOMAIN socket.frames : socket.frames[i].job \in Jobs
  <2>1. \A i \in DOMAIN socket.frames : socket.frames[i] \in Frame
    BY <1>1
  <2>2. \A f \in Frame : f.job \in Jobs
    BY DEF Frame
  <2> QED  BY <2>1, <2>2
<1>3. FramesTrue
  BY DEF Inv
<1>4. CASE socket'.frames = socket.frames
  BY <1>2, <1>3, <1>4 DEF FramesTrue
<1>5. CASE socket'.frames = <<>>
  <2>1. DOMAIN <<>> = {}
    OBVIOUS
  <2> QED  BY <1>5, <2>1 DEF FramesTrue
<1>6. CASE socket.frames # <<>> /\ socket'.frames = Tail(socket.frames)
  <2>1. ASSUME NEW i \in DOMAIN Tail(socket.frames)
        PROVE  i + 1 \in DOMAIN socket.frames /\ Tail(socket.frames)[i] = socket.frames[i + 1]
    BY <1>1, <1>6, <2>1
  <2> QED  BY <1>2, <1>3, <1>6, <2>1 DEF FramesTrue
<1> QED  BY <1>4, <1>5, <1>6

LEMMA PairOf ==
    ASSUME NEW S, NEW a \in S, NEW b \in S
    PROVE  Append(<<a>>, b) = <<a, b>>
<1>1. ASSUME NEW s \in Seq(S), Len(s) = 2, s[1] = a, s[2] = b
      PROVE  s = <<a, b>>
  BY <1>1
<1>2. Append(<<a>>, b) \in Seq(S) /\ Len(Append(<<a>>, b)) = 2
  OBVIOUS
<1>3. Append(<<a>>, b)[1] = a
  OBVIOUS
<1>4. Append(<<a>>, b)[2] = b
  OBVIOUS
<1> QED  BY <1>1, <1>2, <1>3, <1>4

LEMMA Appended ==
    ASSUME NEW k, NEW x
    PROVE  /\ Append(<<>>, Ev(k)) = <<Ev(k)>>
           /\ Append(<<Ev(x)>>, Ev(k)) = <<Ev(x), Ev(k)>>
<1>1. Append(<<>>, Ev(k)) = <<Ev(k)>>
  OBVIOUS
<1>2. Ev(x) \in {Ev(x), Ev(k)} /\ Ev(k) \in {Ev(x), Ev(k)}
  OBVIOUS
<1> QED  BY <1>1, <1>2, PairOf

\* The thread goes on with a job it watches or collects.
LEMMA Goes ==
    ASSUME Inv, step \in Watching \cup Collecting, step' \in Watching \cup Collecting,
           UNCHANGED <<owner, prompt, events, current>>
    PROVE  Flow'
  BY DEF Inv, Flow, Ev, Sent, Watching, Collecting

\* The thread's last word about a job it watches or collects.
LEMMA Ends ==
    ASSUME Inv, step \in Watching \cup Collecting, NEW k \in Last, True(k), Report(k, "idle"),
           UNCHANGED <<owner, prompt>>
    PROVE  Flow'
<1>1. /\ step' = "idle" /\ current' = current /\ current \in Jobs
      /\ events' = Append(events, Ev(k)) /\ k \in EventKind
  BY DEF Report, Ev, Inv, TypeOK, Watching, Collecting, Last, EventKind
<1>2. CASE events = <<>> /\ owner[current] \in {"submitted", "cancelled"}
  <2>1. events' = <<Ev(k)>> /\ Reported(k)
    BY <1>1, <1>2, Appended DEF Reported
  <2> QED  BY <1>1, <2>1 DEF Flow, Ev, Reported, True
<1>3. CASE events = <<Ev("Submitted")>> /\ Sent
  <2>1. events' = <<Ev("Submitted"), Ev(k)>>
    BY <1>1, <1>3, Appended
  <2> QED  BY <1>1, <1>3, <2>1 DEF Flow, Ev, Sent, True
<1>4. step # "idle" /\ step # "prepare" /\ step # "post"
  BY DEF Watching, Collecting
<1> QED  BY <1>2, <1>3, <1>4 DEF Inv, Flow

\* The steps of the thread after the prompt was posted.
LEMMA MonitorFlow ==
    ASSUME Inv, \/ Connect \/ Listen \/ StreamEnds \/ TimeOut \/ History \/ Queue \/ StopWaiting
                \/ Outputs \/ Download \/ Inspect
    PROVE  Flow' /\ Collected' /\ FramesTrue'
<1>0. UNCHANGED <<owner, prompt>> /\ TypeOK
  BY DEF Inv, Connect, Listen, StreamEnds, TimeOut, History, Queue, StopWaiting, Outputs, Download,
     Inspect, quiet
<1>1. step \in Watching \cup Collecting
  BY DEF Connect, Listen, StreamEnds, TimeOut, History, Queue, StopWaiting, Outputs, Download,
     Inspect, At, Watching, Collecting
<1>2. ASSUME NEW k \in {"RetryableMonitorError", "Cancelled"}, Report(k, "idle")
      PROVE  Flow' /\ Collected'
  <2>1. k \in Last /\ True(k) /\ step' = "idle"
    BY <1>2 DEF Last, True, Report
  <2> QED  BY <1>0, <1>1, <1>2, <2>1, Ends DEF Collected, Collecting
<1>3. ASSUME Report("BackendFailed", "idle"), prompt[current] = "failed"
      PROVE  Flow' /\ Collected'
  <2>1. "BackendFailed" \in Last /\ True("BackendFailed") /\ step' = "idle"
    BY <1>3 DEF Last, True, Report
  <2> QED  BY <1>0, <1>1, <1>3, <2>1, Ends DEF Collected, Collecting
<1>4. ASSUME NEW k \in {"Completed", "OutputInvalid"}, Report(k, "idle"), step \in Collecting
      PROVE  Flow' /\ Collected'
  <2>1. k \in Last /\ True(k) /\ step' = "idle"
    BY <1>4 DEF Last, True, Report, Inv, Collected
  <2> QED  BY <1>0, <1>1, <1>4, <2>1, Ends DEF Collected, Collecting
<1>5. ASSUME step' \in Watching \cup Collecting, UNCHANGED <<events, current>>,
             step' \in Collecting => prompt[current] = "succeeded"
      PROVE  Flow' /\ Collected'
  BY <1>0, <1>1, <1>5, Goes DEF Collected
<1>6. Flow' /\ Collected'
  <2>1. CASE Connect \/ StreamEnds \/ TimeOut \/ Queue \/ StopWaiting
    BY <1>2, <1>5, <2>1 DEF Connect, StreamEnds, TimeOut, Queue, StopWaiting, Watching, Collecting
  <2>2. CASE Listen
    <3>1. socket.frames # <<>> /\ Head(socket.frames) = socket.frames[1] /\ 1 \in DOMAIN socket.frames
      BY <1>0, <2>2 DEF Listen, TypeOK
    <3>2. CASE Head(socket.frames).job # current
      BY <1>5, <2>2, <3>2 DEF Listen, At, Watching, Collecting
    <3>3. CASE Head(socket.frames).job = current /\ Head(socket.frames).kind = "execution_error"
      <4>1. prompt[current] = "failed"
        BY <3>1, <3>3 DEF Inv, FramesTrue
      <4> QED  BY <1>3, <2>2, <3>3, <4>1 DEF Listen
    <3>4. CASE Head(socket.frames).job = current /\ Head(socket.frames).kind # "execution_error"
      BY <1>5, <2>2, <3>4 DEF Listen, Watching, Collecting
    <3> QED  BY <3>2, <3>3, <3>4
  <2>3. CASE History
    BY <1>2, <1>3, <1>5, <2>3 DEF History, Listed, Watching, Collecting
  <2>4. CASE Outputs
    <3>1. step \in Collecting /\ prompt[current] = "succeeded"
      BY <2>4 DEF Outputs, At, Collecting, Inv, Collected
    <3> QED  BY <1>4, <1>5, <2>4, <3>1 DEF Outputs, Watching, Collecting
  <2>5. CASE Download
    <3>1. step \in Collecting /\ prompt[current] = "succeeded"
      BY <2>5 DEF Download, At, Collecting, Inv, Collected
    <3> QED  BY <1>4, <1>5, <2>5, <3>1 DEF Download, Watching, Collecting
  <2>6. CASE Inspect
    BY <1>4, <2>6 DEF Inspect, At, Collecting
  <2> QED  BY <2>1, <2>2, <2>3, <2>4, <2>5, <2>6
<1>7. FramesTrue'
  <2>1. \/ socket' = socket \/ socket'.frames = <<>>
        \/ socket.frames # <<>> /\ socket' = [socket EXCEPT !.frames = Tail(@)]
    BY DEF Connect, Listen, StreamEnds, TimeOut, History, Queue, StopWaiting, Outputs, Download,
       Inspect, NoSocket
  <2> QED  BY <1>0, <2>1, FramesOK DEF TypeOK
<1> QED  BY <1>6, <1>7

\* The worker: a job is enqueued, dispatched, or its event applied.
LEMMA EnqueueInv ==
    ASSUME Inv, TypeOK', NEW j \in Jobs, NEW q, NEW waived, Enqueue(j, q, waived)
    PROVE  Inv'
<1>1. /\ owner[j] = "absent" /\ owner' = [owner EXCEPT ![j] = "queued"]
      /\ UNCHANGED <<events, step, current, prompt, socket>>
  BY DEF Enqueue, threadVars, backendVars
<1>2. owner \in [Jobs -> OwnerState]
  BY DEF Inv, TypeOK
<1>3. OneHolds' /\ Unsent' /\ Wanting' /\ OneExecutes'
  BY <1>1, <1>2 DEF Inv, OneHolds, Unsent, Wanting, OneExecutes, Holding, Running
<1>4. FramesTrue' /\ Collected'
  BY <1>1 DEF Inv, FramesTrue, Collected
<1>5. Flow'
  <2>1. owner[current] \in OwnerState \ {"absent"} => owner'[current] = owner[current]
    BY <1>1, <1>2
  <2>2. "absent" \notin {"prepared", "submitting", "submitted", "cancelled"}
    OBVIOUS
  <2>3. CASE events = <<>> /\ step = "idle"
    BY <1>1, <2>3 DEF Flow
  <2>4. CASE current # j
    BY <1>1, <1>2, <2>4 DEF Inv, Flow, Ev, Sent, Reported, True
  <2>5. CASE current = j /\ ~(events = <<>> /\ step = "idle")
    BY <1>1, <2>5 DEF Inv, Flow, Sent, Reported
  <2> QED  BY <2>3, <2>4, <2>5
<1> QED  BY <1>3, <1>4, <1>5 DEF Inv

LEMMA DispatchInv ==
    ASSUME Inv, TypeOK', NEW j \in Jobs, Dispatch(j)
    PROVE  Inv'
<1>1. /\ step = "idle" /\ events = <<>> /\ UNCHANGED <<events, prompt, socket>>
      /\ \A i \in Jobs \ {j} : owner[i] \notin Holding
  BY DEF Dispatch, Idle, backendVars
<1>2. owner \in [Jobs -> OwnerState]
  BY DEF Inv, TypeOK
<1>3. owner[j] \in {"queued", "prepared", "submitting", "submitted"}
  BY DEF Dispatch
<1>4. \A i \in Jobs \ {j} : owner'[i] = owner[i]
  BY <1>2 DEF Dispatch
<1>5. \/ owner'[j] = "prepared" /\ owner[j] \in {"queued", "prepared"}
      \/ owner'[j] = owner[j]
      \/ owner'[j] = "unknown" /\ owner[j] = "submitting"
  BY <1>2 DEF Dispatch
<1>6. OneHolds' /\ Unsent' /\ Wanting' /\ OneExecutes'
  <2>1. OneHolds'
    BY <1>1, <1>4 DEF OneHolds
  <2>2. Unsent' /\ Wanting' /\ OneExecutes'
    BY <1>1, <1>4, <1>5 DEF Inv, Unsent, Wanting, OneExecutes, Running
  <2> QED  BY <2>1, <2>2
<1>7. FramesTrue'
  BY <1>1 DEF Inv, FramesTrue
<1>8. Collected' /\ Flow'
  <2>1. CASE owner[j] \in {"queued", "prepared"} /\ owner' = [owner EXCEPT ![j] = "prepared"]
             /\ step' = "prepare" /\ current' = j
    BY <1>1, <1>2, <2>1 DEF Flow, Collected, Collecting
  <2>2. CASE owner[j] = "submitted" /\ step' = "history" /\ current' = j /\ UNCHANGED owner
    BY <1>1, <2>2 DEF Flow, Collected, Collecting, Watching
  <2>3. CASE UNCHANGED <<step, current>>
    BY <1>1, <2>3 DEF Flow, Collected, Collecting
  <2> QED  BY <2>1, <2>2, <2>3 DEF Dispatch
<1> QED  BY <1>6, <1>7, <1>8 DEF Inv

\* What the event says of the job, by its kind.
LEMMA ReceiveFacts ==
    ASSUME Inv, NEW j \in Jobs, NEW k \in EventKind, Receive(j, k)
    PROVE  /\ j = current
           /\ k \in {"Prepared", "PreparationFailed"} => owner[j] = "prepared"
           /\ k = "SubmissionUnknown" => owner[j] = "submitting"
           /\ k = "Submitted" => owner[j] = "submitting" /\ prompt[j] # "none"
           /\ k \in Last => owner[j] \in {"submitted", "cancelled"} /\ True(k)
           /\ \/ events' = <<>> /\ k # "Submitted" /\ step = "idle"
              \/ events' = <<>> /\ k = "Submitted" /\ step \in Watching \cup Collecting
              \/ /\ k = "Submitted" /\ step = "idle"
                 /\ \E x \in Last : events' = <<Ev(x)>> /\ True(x)
<1>1. events # <<>> /\ Head(events) = [kind |-> k, job |-> j] /\ events' = Tail(events)
  BY DEF Receive
<1>2. \A x : Head(<<x>>) = x /\ Tail(<<x>>) = <<>>
  OBVIOUS
<1>3. \A x, y : Head(<<x, y>>) = x /\ Tail(<<x, y>>) = <<y>>
  OBVIOUS
<1>4. \A x : Ev(x) = [kind |-> k, job |-> j] => x = k /\ j = current
  BY DEF Ev
<1>5. CASE events = <<Ev("Submitted")>> /\ step \in Watching \cup Collecting /\ Sent
  <2>1. k = "Submitted" /\ j = current /\ events' = <<>>
    BY <1>1, <1>2, <1>4, <1>5
  <2> QED  BY <1>5, <2>1 DEF Sent, Last
<1>6. ASSUME step = "idle", NEW x \in EventKind, events = <<Ev(x)>>, Reported(x)
      PROVE  /\ k = x /\ j = current /\ events' = <<>> /\ step = "idle"
  BY <1>1, <1>2, <1>4, <1>6
<1>7. ASSUME step = "idle", NEW x \in Last, events = <<Ev("Submitted"), Ev(x)>>, Sent, True(x)
      PROVE  /\ k = "Submitted" /\ j = current /\ events' = <<Ev(x)>>
  BY <1>1, <1>3, <1>4, <1>7
<1>8. CASE \E x \in EventKind : step = "idle" /\ events = <<Ev(x)>> /\ Reported(x)
  BY <1>6, <1>8 DEF Reported, Last
<1>9. CASE \E x \in Last : step = "idle" /\ events = <<Ev("Submitted"), Ev(x)>> /\ Sent /\ True(x)
  BY <1>7, <1>9 DEF Sent, Last
<1> QED  BY <1>1, <1>5, <1>8, <1>9 DEF Inv, Flow

\* What the worker concludes of each event.
LEMMA ReceiveOwner ==
    ASSUME Inv, NEW j \in Jobs, NEW k \in EventKind, Receive(j, k)
    PROVE  /\ \A i \in Jobs \ {j} : owner'[i] = owner[i]
           /\ k = "Prepared" => owner'[j] = "submitting"
           /\ k = "PreparationFailed" => owner'[j] = "refused"
           /\ k = "SubmissionUnknown" => owner'[j] = "unknown"
           /\ k = "Submitted" => owner'[j] = "submitted"
           /\ k \in Last /\ owner[j] = "cancelled" => owner'[j] = "cancelled"
           /\ k = "Completed" /\ owner[j] = "submitted" => owner'[j] = "completed"
           /\ k = "OutputInvalid" /\ owner[j] = "submitted" => owner'[j] = "invalid"
           /\ k = "BackendFailed" /\ owner[j] = "submitted" => owner'[j] = "failed"
           /\ k \in {"RetryableMonitorError", "Cancelled"} => owner'[j] = owner[j]
<1>1. owner \in [Jobs -> OwnerState]
  BY DEF Inv, TypeOK
<1>2. /\ k # "Prepared" /\ owner[j] \in Holding /\ k \in DOMAIN Concluded =>
           owner' = [owner EXCEPT ![j] = Concluded[k]]
      /\ k # "Prepared" /\ ~(owner[j] \in Holding /\ k \in DOMAIN Concluded) => owner' = owner
      /\ k = "Prepared" => owner' = [owner EXCEPT ![j] = "submitting"]
  BY DEF Receive
<1>3. DOMAIN Concluded = {"PreparationFailed", "SubmissionUnknown", "Submitted", "Completed",
                          "OutputInvalid", "BackendFailed"}
  BY DEF Concluded
<1>4. /\ Concluded["PreparationFailed"] = "refused"
      /\ Concluded["SubmissionUnknown"] = "unknown"
      /\ Concluded["Submitted"] = "submitted"
      /\ Concluded["Completed"] = "completed"
      /\ Concluded["OutputInvalid"] = "invalid"
      /\ Concluded["BackendFailed"] = "failed"
  BY DEF Concluded
<1>5. /\ k \in {"Prepared", "PreparationFailed"} => owner[j] = "prepared"
      /\ k \in {"SubmissionUnknown", "Submitted"} => owner[j] = "submitting"
  BY ReceiveFacts
<1>6. \A i \in Jobs \ {j} : owner'[i] = owner[i]
  BY <1>1, <1>2
<1>7. CASE k = "Prepared"
  BY <1>1, <1>2, <1>6, <1>7 DEF Last
<1>8. CASE k \in {"RetryableMonitorError", "Cancelled"}
  BY <1>2, <1>3, <1>6, <1>8
<1>9. CASE k \in {"PreparationFailed", "SubmissionUnknown", "Submitted"}
  BY <1>1, <1>2, <1>3, <1>4, <1>5, <1>6, <1>9 DEF Holding, Last
<1>10. CASE k \in {"Completed", "OutputInvalid", "BackendFailed"} /\ owner[j] = "submitted"
  BY <1>1, <1>2, <1>3, <1>4, <1>6, <1>10 DEF Holding
<1>11. CASE k \in {"Completed", "OutputInvalid", "BackendFailed"} /\ owner[j] # "submitted"
  <2>1. owner[j] = "cancelled"
    BY <1>11, ReceiveFacts DEF Last
  <2> QED  BY <1>2, <1>11, <2>1 DEF Holding
<1> QED  BY <1>7, <1>8, <1>9, <1>10, <1>11 DEF EventKind

LEMMA ReceiveInv ==
    ASSUME Inv, TypeOK', NEW j \in Jobs, NEW k \in EventKind, Receive(j, k)
    PROVE  Inv'
<1>1. UNCHANGED <<prompt, socket>>
  BY DEF Receive, backendVars
<1>2. /\ \A i \in Jobs \ {j} : owner'[i] = owner[i]
      /\ owner'[j] \in Holding => owner[j] \in Holding
  BY ReceiveFacts, ReceiveOwner DEF Holding, Last, EventKind
<1>3. OneHolds' /\ OneExecutes'
  BY <1>1, <1>2 DEF Inv, OneHolds, OneExecutes
<1>4. Unsent'
  <2>1. owner'[j] \in {"absent", "queued", "prepared", "refused"} =>
           owner[j] \in {"absent", "queued", "prepared", "refused"}
    BY ReceiveFacts, ReceiveOwner DEF Last, EventKind
  <2> QED  BY <1>1, <1>2, <2>1 DEF Inv, Unsent
<1>5. Wanting'
  <2>1. k \in {"Prepared", "PreparationFailed"} => prompt[j] = "none"
    BY ReceiveFacts DEF Inv, Unsent
  <2>2. k \in {"Completed", "OutputInvalid", "BackendFailed"} => prompt[j] \in {"succeeded", "failed"}
    BY ReceiveFacts DEF Last, True
  <2>3. prompt[j] \in Running =>
           owner'[j] \in {"submitting", "submitted", "unknown", "cancelled"}
    BY <2>1, <2>2, ReceiveFacts, ReceiveOwner DEF Last, EventKind, Running
  <2> QED  BY <1>1, <1>2, <2>3 DEF Inv, Wanting
<1>6. FramesTrue'
  BY <1>1 DEF Inv, FramesTrue
<1>7. CASE k = "Prepared"
  <2>1. /\ step' = "post" /\ current' = j /\ events' = <<>>
        /\ owner'[j] = "submitting" /\ prompt'[j] = "none"
    BY <1>1, <1>7, ReceiveFacts, ReceiveOwner DEF Receive, Inv, Unsent
  <2>2. Flow' /\ Collected'
    BY <2>1 DEF Flow, Collected, Collecting
  <2> QED  BY <1>3, <1>4, <1>5, <1>6, <2>2 DEF Inv
<1>8. CASE k # "Prepared"
  <2>1. UNCHANGED <<step, current>> /\ j = current
    BY <1>8, ReceiveFacts DEF Receive
  <2>2. Collected'
    BY <1>1, <2>1 DEF Inv, Collected
  <2>3. ASSUME events' = <<>>, step = "idle"
        PROVE  Flow'
    <3>1. events' = <<>> /\ step' = "idle"
      BY <2>1, <2>3
    <3> QED  BY <3>1 DEF Flow
  <2>4. ASSUME events' = <<>>, k = "Submitted", step \in Watching \cup Collecting
        PROVE  Flow'
    <3>1. events' = <<>> /\ step' \in Watching \cup Collecting /\ owner'[current'] = "submitted"
      BY <2>1, <2>4, ReceiveOwner
    <3> QED  BY <3>1 DEF Flow
  <2>5. ASSUME k = "Submitted", step = "idle", NEW x \in Last, events' = <<Ev(x)>>, True(x)
        PROVE  Flow'
    <3>1. owner'[current] = "submitted" /\ Reported(x)'
      BY <1>1, <2>1, <2>5, ReceiveOwner DEF Reported, True
    <3>2. x \in EventKind
      BY DEF Last, EventKind
    <3> QED  BY <2>1, <2>5, <3>1, <3>2 DEF Flow, Ev
  <2> QED  BY <1>3, <1>4, <1>5, <1>6, <2>2, <2>3, <2>4, <2>5, ReceiveFacts DEF Inv
<1> QED  BY <1>7, <1>8

LEMMA CancelInv ==
    ASSUME Inv, TypeOK', NEW j \in Jobs, Cancel(j) \/ CancelFails(j)
    PROVE  Inv'
<1>1. /\ UNCHANGED <<events, step, current, socket>>
      /\ prompt' = [i \in Jobs |-> IF prompt[i] = "executing" THEN "failed" ELSE prompt[i]]
  BY DEF Cancel, CancelFails, Interrupted, threadVars, workerVars
<1>2. \A i \in Jobs : owner'[i] = owner[i] \/
         (owner[i] = "submitted" /\ owner'[i] = "cancelled")
  <2>1. owner \in [Jobs -> OwnerState]
    BY DEF Inv, TypeOK
  <2> QED  BY <2>1 DEF Cancel, CancelFails, workerVars
<1>3. \A i \in Jobs : prompt'[i] = prompt[i] \/
         (prompt[i] \in Running /\ prompt'[i] \in PromptState \ {"none", "pending"})
  BY <1>1 DEF Running, PromptState
<1>4. OneHolds' /\ Unsent' /\ Wanting' /\ Collected' /\ Flow'
  BY <1>1, <1>2, <1>3, MovesOK
<1>5. OneExecutes'
  BY <1>1 DEF OneExecutes
<1>6. FramesTrue'
  BY <1>1, FramesOK
<1> QED  BY <1>4, <1>5, <1>6 DEF Inv

LEMMA CrashInv ==
    ASSUME Inv, TypeOK', Crash
    PROVE  Inv'
<1>1. /\ events' = <<>> /\ step' = "idle" /\ socket' = NoSocket
      /\ UNCHANGED <<owner, prompt>>
  BY DEF Crash
<1>2. OneHolds' /\ Unsent' /\ Wanting' /\ OneExecutes' /\ Collected' /\ Flow'
  BY <1>1 DEF Inv, OneHolds, Unsent, Wanting, OneExecutes, Collected, Flow, Collecting
<1>3. FramesTrue'
  BY <1>1, FramesOK DEF NoSocket
<1> QED  BY <1>2, <1>3 DEF Inv

\* ComfyUI: prompts start and end, it restarts, the stream breaks.
LEMMA BackendInv ==
    ASSUME Inv, TypeOK', Backend \/ Restart \/ Disconnect
    PROVE  Inv'
<1>1. UNCHANGED <<owner, events, step, current>>
  BY DEF Backend, StartPrompt, EndPrompt, Restart, Disconnect, workerVars, threadVars
<1>2. \A j \in Jobs : prompt'[j] = prompt[j] \/
         (prompt[j] \in Running /\ prompt'[j] \in PromptState \ {"none", "pending"})
  <2>1. prompt \in [Jobs -> PromptState]
    BY DEF Inv, TypeOK
  <2>2. ASSUME NEW j \in Jobs, NEW f, prompt' = [prompt EXCEPT ![j] = f], prompt[j] \in Running,
               f \in {"executing", "succeeded", "failed"}
        PROVE  \A i \in Jobs : prompt'[i] = prompt[i] \/
                  (prompt[i] \in Running /\ prompt'[i] \in PromptState \ {"none", "pending"})
    BY <2>1, <2>2 DEF PromptState
  <2>3. ASSUME NEW j \in Jobs, StartPrompt(j)
        PROVE  \A i \in Jobs : prompt'[i] = prompt[i] \/
                  (prompt[i] \in Running /\ prompt'[i] \in PromptState \ {"none", "pending"})
    BY <2>2, <2>3 DEF StartPrompt, Running
  <2>4. ASSUME NEW j \in Jobs, NEW f \in {"succeeded", "failed"}, EndPrompt(j, f)
        PROVE  \A i \in Jobs : prompt'[i] = prompt[i] \/
                  (prompt[i] \in Running /\ prompt'[i] \in PromptState \ {"none", "pending"})
    BY <2>2, <2>4 DEF EndPrompt, Running
  <2>5. CASE Restart
    BY <2>1, <2>5 DEF Restart, Running, PromptState
  <2>6. CASE Disconnect
    BY <2>6 DEF Disconnect
  <2> QED  BY <2>3, <2>4, <2>5, <2>6 DEF Backend
<1>3. OneHolds' /\ Unsent' /\ Wanting' /\ Collected' /\ Flow'
  BY <1>1, <1>2, MovesOK
<1>4. OneExecutes'
  <2>1. prompt \in [Jobs -> PromptState] /\ OneExecutes
    BY DEF Inv, TypeOK
  <2>2. CASE \E j \in Jobs : StartPrompt(j)
    BY <2>1, <2>2 DEF StartPrompt, OneExecutes
  <2>3. CASE \E j \in Jobs, f \in {"succeeded", "failed"} : EndPrompt(j, f)
    BY <2>1, <2>3 DEF EndPrompt, OneExecutes
  <2>4. CASE Restart
    BY <2>1, <2>4 DEF Restart, OneExecutes
  <2>5. CASE Disconnect
    BY <2>1, <2>5 DEF Disconnect, OneExecutes
  <2> QED  BY <2>2, <2>3, <2>4, <2>5 DEF Backend
<1>5. \A j \in Jobs : prompt[j] = "failed" => prompt'[j] = "failed"
  BY <1>2 DEF Running
<1>6. CASE socket'.frames = socket.frames
  BY <1>3, <1>4, <1>5, <1>6, FramesOK DEF Inv
<1>7. ASSUME NEW j \in Jobs, NEW f \in {"succeeded", "failed"}, prompt[j] = "executing",
             prompt' = [prompt EXCEPT ![j] = f],
             socket'.frames = Append(socket.frames,
                [kind |-> IF f = "failed" THEN "execution_error" ELSE "executing_null", job |-> j])
      PROVE  Inv'
  <2>1. socket.frames \in Seq(Frame)
    BY DEF Inv, TypeOK
  <2>2. \A i \in DOMAIN socket.frames : socket.frames[i].job \in Jobs
    <3>1. \A i \in DOMAIN socket.frames : socket.frames[i] \in Frame
      BY <2>1
    <3>2. \A x \in Frame : x.job \in Jobs
      BY DEF Frame
    <3> QED  BY <3>1, <3>2
  <2>3. ASSUME NEW x, NEW i \in DOMAIN Append(socket.frames, x)
        PROVE  \/ i \in DOMAIN socket.frames /\ Append(socket.frames, x)[i] = socket.frames[i]
               \/ Append(socket.frames, x)[i] = x
    BY <2>1, <2>3
  <2>4. prompt'[j] = f
    BY <1>7 DEF Inv, TypeOK
  <2>5. FramesTrue
    BY DEF Inv
  <2>6. FramesTrue'
    <3> SUFFICES ASSUME NEW i \in DOMAIN socket'.frames,
                        socket'.frames[i].kind = "execution_error"
                 PROVE  prompt'[socket'.frames[i].job] = "failed"
      BY DEF FramesTrue
    <3> DEFINE x == [kind |-> IF f = "failed" THEN "execution_error" ELSE "executing_null",
                     job |-> j]
    <3>1. CASE i \in DOMAIN socket.frames /\ socket'.frames[i] = socket.frames[i]
      BY <1>5, <2>2, <2>5, <3>1 DEF FramesTrue
    <3>2. CASE socket'.frames[i] = x
      BY <2>4, <3>2
    <3> QED  BY <1>7, <2>3, <3>1, <3>2
  <2> QED  BY <1>3, <1>4, <2>6 DEF Inv
<1>8. CASE Restart \/ Disconnect
  BY <1>6, <1>8 DEF Restart, Disconnect, Inv, TypeOK
<1>9. ASSUME NEW j \in Jobs, NEW f \in {"succeeded", "failed"}, EndPrompt(j, f)
      PROVE  Inv'
  BY <1>6, <1>7, <1>9 DEF EndPrompt, Inv, TypeOK
<1> QED  BY <1>6, <1>8, <1>9 DEF Backend, StartPrompt

LEMMA PrepareInv ==
    ASSUME Inv, TypeOK', Prepare
    PROVE  Inv'
<1>1. /\ step = "prepare" /\ UNCHANGED <<owner, prompt, socket>>
      /\ \E k \in {"Prepared", "PreparationFailed"} : Report(k, "idle")
  BY DEF Prepare, At, quiet
<1>2. events = <<>> /\ owner[current] = "prepared" /\ current \in Jobs
  BY <1>1 DEF Inv, TypeOK, Flow, Watching, Collecting
<1>3. PICK k \in {"Prepared", "PreparationFailed"} : Report(k, "idle")
  BY <1>1
<1>4. events' = <<Ev(k)>> /\ step' = "idle" /\ current' = current
  BY <1>2, <1>3, Appended DEF Report, Ev
<1>5. Flow'
  BY <1>1, <1>2, <1>4 DEF Flow, Ev, Reported, EventKind
<1>6. OneHolds' /\ Unsent' /\ Wanting' /\ OneExecutes' /\ FramesTrue' /\ Collected'
  BY <1>1, <1>4 DEF Inv, OneHolds, Unsent, Wanting, OneExecutes, FramesTrue, Collected, Collecting
<1> QED  BY <1>5, <1>6 DEF Inv

LEMMA PostInv ==
    ASSUME Inv, TypeOK', Post
    PROVE  Inv'
<1>1. step = "post" /\ UNCHANGED <<owner, socket>>
  BY DEF Post, At
<1>2. /\ events = <<>> /\ owner[current] = "submitting" /\ prompt[current] = "none"
      /\ current \in Jobs
  BY <1>1 DEF Inv, TypeOK, Flow, Watching, Collecting
<1>3. /\ \A i \in Jobs \ {current} : prompt'[i] = prompt[i]
      /\ prompt'[current] \in {"none", "pending"}
  BY <1>2 DEF Post, Inv, TypeOK
<1>4. OneHolds' /\ Unsent' /\ Wanting' /\ OneExecutes'
  BY <1>1, <1>2, <1>3 DEF Inv, OneHolds, Unsent, Wanting, OneExecutes, Running
<1>5. FramesTrue'
  <2>1. \A i \in Jobs : prompt[i] = "failed" => prompt'[i] = "failed"
    BY <1>2, <1>3
  <2> QED  BY <1>1, <2>1, FramesOK
<1>6. CASE Report("Submitted", "connect") /\ prompt' = [prompt EXCEPT ![current] = "pending"]
  <2>1. events' = <<Ev("Submitted")>> /\ step' = "connect" /\ current' = current
    BY <1>2, <1>6, Appended DEF Report, Ev
  <2>2. prompt'[current] = "pending"
    BY <1>2, <1>6 DEF Inv, TypeOK
  <2>3. Flow' /\ Collected'
    BY <1>1, <1>2, <2>1, <2>2 DEF Flow, Ev, Sent, Watching, Collected, Collecting
  <2> QED  BY <1>4, <1>5, <2>3 DEF Inv
<1>7. CASE Report("SubmissionUnknown", "idle")
  <2>1. events' = <<Ev("SubmissionUnknown")>> /\ step' = "idle" /\ current' = current
    BY <1>2, <1>7, Appended DEF Report, Ev
  <2>2. Flow' /\ Collected'
    BY <1>1, <1>2, <2>1 DEF Flow, Ev, Reported, EventKind, Collected, Collecting
  <2> QED  BY <1>4, <1>5, <2>2 DEF Inv
<1> QED  BY <1>6, <1>7 DEF Post

LEMMA MonitorInv ==
    ASSUME Inv, TypeOK', \/ Connect \/ Listen \/ StreamEnds \/ TimeOut \/ History \/ Queue
                         \/ StopWaiting \/ Outputs \/ Download \/ Inspect
    PROVE  Inv'
<1>1. UNCHANGED <<owner, prompt>>
  BY DEF Connect, Listen, StreamEnds, TimeOut, History, Queue, StopWaiting, Outputs, Download,
     Inspect, quiet
<1>2. OneHolds' /\ Unsent' /\ Wanting' /\ OneExecutes'
  BY <1>1 DEF Inv, OneHolds, Unsent, Wanting, OneExecutes
<1> QED  BY <1>2, MonitorFlow DEF Inv

LEMMA StepInv ==
    ASSUME Inv, [Next]_vars
    PROVE  Inv'
<1>1. TypeOK'
  BY StepType DEF Inv
<1>2. CASE UNCHANGED vars
  BY <1>1, <1>2 DEF vars, workerVars, threadVars, backendVars, Inv, OneHolds, Unsent, Wanting,
     OneExecutes, FramesTrue, Collected, Flow, Ev, Sent, Reported, True
<1>3. CASE Thread
  BY <1>1, <1>3, PrepareInv, PostInv, MonitorInv DEF Thread
<1>4. CASE Worker
  BY <1>1, <1>4, DispatchInv, ReceiveInv DEF Worker
<1> QED  BY <1>1, <1>2, <1>3, <1>4, EnqueueInv, CancelInv, BackendInv, CrashInv DEF Next

LEMMA Invariant == Spec => []Inv
<1>1. Init => Inv
  <2> SUFFICES ASSUME Init PROVE Inv
    OBVIOUS
  <2>1. TypeOK
    BY BoundsAssumption DEF Init, TypeOK, OwnerState, Step, PromptState, NoSocket
  <2>2. DOMAIN <<>> = {}
    OBVIOUS
  <2>3. FramesTrue
    BY <2>2 DEF Init, FramesTrue, NoSocket
  <2>4. OneHolds /\ Unsent /\ Wanting /\ OneExecutes /\ Collected /\ Flow
    BY DEF Init, OneHolds, Unsent, Wanting, OneExecutes, Collected, Collecting, Flow, Holding,
       Running
  <2> QED  BY <2>1, <2>3, <2>4 DEF Inv
<1>2. Inv /\ [Next]_vars => Inv'
  BY StepInv
<1> QED  BY <1>1, <1>2, PTL DEF Spec

-----------------------------------------------------------------------------
(* The adapter implements what the queue takes for granted                  *)

FateOf == [j \in Jobs |-> PromptFate(prompt[j])]
ToldOf == [j \in Jobs |-> Told(owner[j])]
PortStep == [Port!Next]_<<FateOf, ToldOf>>

LEMMA Stutters ==
    ASSUME \A j \in Jobs : PromptFate(prompt'[j]) = PromptFate(prompt[j]),
           \A j \in Jobs : Told(owner'[j]) = Told(owner[j])
    PROVE  UNCHANGED <<FateOf, ToldOf>>
  BY DEF FateOf, ToldOf

\* One job's fate, or what is told of it, changes.
LEMMA FateChanges ==
    ASSUME NEW j \in Jobs, NEW f, \A i \in Jobs \ {j} : prompt'[i] = prompt[i],
           PromptFate(prompt'[j]) = f
    PROVE  FateOf' = [FateOf EXCEPT ![j] = f]
  BY DEF FateOf

LEMMA ToldChanges ==
    ASSUME NEW j \in Jobs, NEW t, \A i \in Jobs \ {j} : owner'[i] = owner[i],
           Told(owner'[j]) = t
    PROVE  ToldOf' = [ToldOf EXCEPT ![j] = t]
  BY DEF ToldOf

LEMMA ReceiveRefines ==
    ASSUME Inv, Inv', NEW j \in Jobs, NEW k \in EventKind, Receive(j, k)
    PROVE  PortStep
<1>1. UNCHANGED prompt /\ FateOf' = FateOf
  BY DEF Receive, backendVars, FateOf
<1>2. \A i \in Jobs \ {j} : owner'[i] = owner[i]
  BY ReceiveOwner
<1>3. FateOf[j] = PromptFate(prompt[j]) /\ ToldOf[j] = Told(owner[j])
  BY DEF FateOf, ToldOf
<1>4. CASE Told(owner'[j]) = Told(owner[j])
  BY <1>1, <1>2, <1>4, Stutters DEF PortStep
<1>5. CASE k = "PreparationFailed"
  <2>1. owner[j] = "prepared" /\ owner'[j] = "refused" /\ prompt[j] = "none"
    BY <1>5, ReceiveFacts, ReceiveOwner DEF Inv, Unsent
  <2>2. ToldOf' = [ToldOf EXCEPT ![j] = "refused"]
    BY <1>2, <2>1, ToldChanges DEF Told
  <2>3. ToldOf[j] = "nothing" /\ FateOf[j] = "none"
    BY <1>3, <2>1 DEF Told, PromptFate
  <2>4. Port!Refuse(j)
    BY <1>1, <2>2, <2>3 DEF Port!Refuse, FateOf, ToldOf
  <2> QED  BY <2>4 DEF PortStep, Port!Next
<1>6. CASE k = "SubmissionUnknown"
  <2>1. owner[j] = "submitting" /\ owner'[j] = "unknown"
    BY <1>6, ReceiveFacts, ReceiveOwner
  <2>2. ToldOf' = [ToldOf EXCEPT ![j] = "unknown"]
    BY <1>2, <2>1, ToldChanges DEF Told
  <2>3. ToldOf[j] = "nothing"
    BY <1>3, <2>1 DEF Told
  <2>4. Port!Doubt(j)
    BY <1>1, <2>2, <2>3 DEF Port!Doubt, FateOf, ToldOf
  <2> QED  BY <2>4 DEF PortStep, Port!Next
<1>7. CASE k = "Submitted"
  <2>1. owner[j] = "submitting" /\ owner'[j] = "submitted" /\ prompt[j] # "none"
    BY <1>7, ReceiveFacts, ReceiveOwner
  <2>2. ToldOf' = [ToldOf EXCEPT ![j] = "submitted"]
    BY <1>2, <2>1, ToldChanges DEF Told
  <2>3. ToldOf[j] = "nothing" /\ FateOf[j] # "none"
    BY <1>3, <2>1 DEF Told, PromptFate
  <2>4. Port!Submit(j)
    BY <1>1, <2>2, <2>3 DEF Port!Submit, FateOf, ToldOf
  <2> QED  BY <2>4 DEF PortStep, Port!Next
<1>8. CASE k \in {"Completed", "OutputInvalid", "BackendFailed"} /\ owner[j] = "submitted"
  <2>1. /\ k \in {"Completed", "OutputInvalid"} => prompt[j] = "succeeded"
        /\ k = "BackendFailed" => prompt[j] = "failed"
    BY <1>8, ReceiveFacts DEF Last, True
  <2>2. ToldOf[j] = "submitted"
    BY <1>3, <1>8 DEF Told
  <2>3. ASSUME NEW o \in {"completed", "invalid", "failed"}, owner'[j] = o,
               \/ o \in {"completed", "invalid"} /\ prompt[j] = "succeeded"
               \/ o = "failed" /\ prompt[j] = "failed"
        PROVE  PortStep
    <3>1. ToldOf' = [ToldOf EXCEPT ![j] = o]
      BY <1>2, <2>3, ToldChanges DEF Told
    <3>2. \/ o \in {"completed", "invalid"} /\ FateOf[j] = "succeeded"
          \/ o = "failed" /\ FateOf[j] = "failed"
      BY <1>3, <2>3 DEF PromptFate
    <3>3. Port!Conclude(j, o)
      BY <1>1, <2>2, <3>1, <3>2 DEF Port!Conclude, FateOf, ToldOf
    <3> QED  BY <3>3 DEF PortStep, Port!Next
  <2> QED  BY <1>8, <2>1, <2>3, ReceiveOwner DEF Last
<1>9. CASE \/ k = "Prepared" \/ k \in {"RetryableMonitorError", "Cancelled"}
           \/ k \in {"Completed", "OutputInvalid", "BackendFailed"} /\ owner[j] # "submitted"
  BY <1>4, <1>9, ReceiveFacts, ReceiveOwner DEF Told, Last
<1> QED  BY <1>5, <1>6, <1>7, <1>8, <1>9 DEF EventKind

LEMMA DispatchRefines ==
    ASSUME Inv, NEW j \in Jobs, Dispatch(j)
    PROVE  PortStep
<1>1. owner \in [Jobs -> OwnerState] /\ UNCHANGED prompt /\ FateOf' = FateOf
  BY DEF Inv, TypeOK, Dispatch, backendVars, FateOf
<1>2. \A i \in Jobs \ {j} : owner'[i] = owner[i]
  BY <1>1 DEF Dispatch
<1>3. CASE Told(owner'[j]) = Told(owner[j])
  BY <1>1, <1>2, <1>3, Stutters DEF PortStep
<1>4. CASE owner[j] = "submitting" /\ owner'[j] = "unknown"
  <2>1. ToldOf' = [ToldOf EXCEPT ![j] = "unknown"]
    BY <1>2, <1>4, ToldChanges DEF Told
  <2>2. ToldOf[j] = "nothing"
    BY <1>4 DEF Told, ToldOf
  <2>3. Port!Doubt(j)
    BY <1>1, <2>1, <2>2 DEF Port!Doubt, FateOf, ToldOf
  <2> QED  BY <2>3 DEF PortStep, Port!Next
<1>5. \/ owner[j] \in {"queued", "prepared"} /\ owner'[j] = "prepared"
      \/ owner'[j] = owner[j]
      \/ owner[j] = "submitting" /\ owner'[j] = "unknown"
  BY <1>1 DEF Dispatch
<1> QED  BY <1>3, <1>4, <1>5 DEF Told

\* /interrupt ends the one prompt that executes, if there is one.
LEMMA InterruptFate ==
    ASSUME Inv, prompt' = Interrupted
    PROVE  \/ FateOf' = FateOf
           \/ \E i \in Jobs : FateOf[i] = "running" /\ FateOf' = [FateOf EXCEPT ![i] = "failed"]
<1>1. CASE \A i \in Jobs : prompt[i] # "executing"
  BY <1>1 DEF Interrupted, FateOf
<1>2. ASSUME NEW i \in Jobs, prompt[i] = "executing"
      PROVE  FateOf[i] = "running" /\ FateOf' = [FateOf EXCEPT ![i] = "failed"]
  <2>1. prompt'[i] = "failed" /\ \A h \in Jobs \ {i} : prompt'[h] = prompt[h]
    BY <1>2 DEF Interrupted, Inv, OneExecutes
  <2>2. FateOf' = [FateOf EXCEPT ![i] = "failed"]
    BY <2>1, FateChanges DEF PromptFate
  <2> QED  BY <1>2, <2>2 DEF FateOf, PromptFate
<1> QED  BY <1>1, <1>2

LEMMA CancelRefines ==
    ASSUME Inv, NEW j \in Jobs, Cancel(j) \/ CancelFails(j)
    PROVE  PortStep
<1>1. prompt' = Interrupted /\ owner[j] = "submitted"
  BY DEF Cancel, CancelFails
<1>2. \/ FateOf' = FateOf
      \/ \E i \in Jobs : FateOf[i] = "running" /\ FateOf' = [FateOf EXCEPT ![i] = "failed"]
  BY <1>1, InterruptFate
<1>3. CASE Cancel(j)
  <2>1. owner'[j] = "cancelled" /\ \A i \in Jobs \ {j} : owner'[i] = owner[i]
    BY <1>3 DEF Cancel, Inv, TypeOK
  <2>2. ToldOf' = [ToldOf EXCEPT ![j] = "cancelled"] /\ ToldOf[j] = "submitted"
    BY <1>1, <2>1, ToldChanges DEF Told, ToldOf
  <2>3. Port!Cancel(j)
    BY <1>2, <2>2 DEF Port!Cancel, FateOf, ToldOf
  <2> QED  BY <2>3 DEF PortStep, Port!Next
<1>4. CASE CancelFails(j)
  <2>1. ToldOf' = ToldOf
    BY <1>4 DEF CancelFails, workerVars, ToldOf
  <2>2. ASSUME NEW i \in Jobs, FateOf[i] = "running", FateOf' = [FateOf EXCEPT ![i] = "failed"]
        PROVE  PortStep
    <3>1. Port!End(i, "failed")
      BY <2>1, <2>2 DEF Port!End, FateOf, ToldOf
    <3> QED  BY <3>1 DEF PortStep, Port!Next
  <2> QED  BY <1>2, <2>1, <2>2 DEF PortStep
<1> QED  BY <1>3, <1>4

\* The prompt is posted while no other prompt is wanted.
LEMMA PostRefines ==
    ASSUME Inv, Post
    PROVE  PortStep
<1>1. step = "post" /\ UNCHANGED owner /\ ToldOf' = ToldOf
  BY DEF Post, At, ToldOf
<1>2. owner[current] = "submitting" /\ prompt[current] = "none" /\ current \in Jobs
  BY <1>1 DEF Inv, TypeOK, Flow, Watching, Collecting
<1>3. CASE UNCHANGED prompt
  BY <1>1, <1>3, Stutters DEF PortStep
<1>4. CASE prompt' = [prompt EXCEPT ![current] = "pending"]
  <2>1. prompt'[current] = "pending" /\ \A i \in Jobs \ {current} : prompt'[i] = prompt[i]
    BY <1>2, <1>4 DEF Inv, TypeOK
  <2>2. FateOf' = [FateOf EXCEPT ![current] = "running"]
    BY <1>2, <2>1, FateChanges DEF PromptFate
  <2>3. FateOf[current] = "none" /\ ToldOf[current] = "nothing"
    BY <1>2 DEF FateOf, ToldOf, PromptFate, Told
  <2>4. \A i \in Jobs : FateOf[i] = "running" => ToldOf[i] = "cancelled"
    <3> SUFFICES ASSUME NEW i \in Jobs, FateOf[i] = "running"
                 PROVE  owner[i] = "cancelled"
      BY DEF ToldOf, Told
    <3>1. prompt[i] \in Running
      BY DEF FateOf, PromptFate, Running, Inv, TypeOK, PromptState
    <3>2. i # current
      BY <1>2, <3>1 DEF Running
    <3> QED  BY <1>2, <3>1, <3>2 DEF Inv, Wanting, OneHolds, Holding
  <2>5. Port!Accept(current)
    BY <1>1, <2>2, <2>3, <2>4 DEF Port!Accept, FateOf, ToldOf
  <2> QED  BY <1>2, <2>5 DEF PortStep, Port!Next
<1> QED  BY <1>3, <1>4 DEF Post

LEMMA BackendRefines ==
    ASSUME Inv, Backend \/ Restart
    PROVE  PortStep
<1>1. ToldOf' = ToldOf /\ UNCHANGED owner
  BY DEF Backend, StartPrompt, EndPrompt, Restart, workerVars, ToldOf
<1>2. prompt \in [Jobs -> PromptState]
  BY DEF Inv, TypeOK
<1>3. ASSUME NEW j \in Jobs, StartPrompt(j)
      PROVE  PortStep
  <2>1. \A i \in Jobs : PromptFate(prompt'[i]) = PromptFate(prompt[i])
    BY <1>2, <1>3 DEF StartPrompt, PromptFate
  <2> QED  BY <1>1, <2>1, Stutters DEF PortStep
<1>4. ASSUME NEW j \in Jobs, NEW f \in {"succeeded", "failed"}, EndPrompt(j, f)
      PROVE  PortStep
  <2>1. prompt[j] = "executing" /\ prompt'[j] = f
        /\ \A i \in Jobs \ {j} : prompt'[i] = prompt[i]
    BY <1>2, <1>4 DEF EndPrompt
  <2>2. FateOf' = [FateOf EXCEPT ![j] = f] /\ FateOf[j] = "running"
    BY <2>1, FateChanges DEF PromptFate, FateOf
  <2>3. Port!End(j, f)
    BY <1>1, <2>2 DEF Port!End, FateOf, ToldOf
  <2> QED  BY <2>3 DEF PortStep, Port!Next
<1>5. CASE Restart
  <2>1. FateOf' = [j \in Jobs |-> IF FateOf[j] = "running" THEN "lost" ELSE FateOf[j]]
    BY <1>2, <1>5 DEF Restart, FateOf, PromptFate, PromptState
  <2>2. Port!Lose
    BY <1>1, <2>1 DEF Port!Lose, FateOf, ToldOf
  <2> QED  BY <2>2 DEF PortStep, Port!Next
<1> QED  BY <1>3, <1>4, <1>5 DEF Backend

LEMMA StepRefines ==
    ASSUME Inv, Inv', [Next]_vars
    PROVE  PortStep
<1>1. CASE UNCHANGED <<owner, prompt>>
  BY <1>1, Stutters DEF PortStep
<1>2. ASSUME NEW j \in Jobs, NEW q, NEW waived, Enqueue(j, q, waived)
      PROVE  PortStep
  <2>1. \A i \in Jobs : Told(owner'[i]) = Told(owner[i])
    BY <1>2 DEF Enqueue, Told, Inv, TypeOK
  <2> QED  BY <1>2, <2>1, Stutters DEF Enqueue, backendVars, PortStep
<1>3. CASE Thread
  <2>1. CASE Post
    BY <2>1, PostRefines
  <2>2. CASE ~Post
    BY <1>1, <1>3, <2>2 DEF Thread, Prepare, Connect, Listen, StreamEnds, TimeOut, History, Queue,
       StopWaiting, Outputs, Download, Inspect, quiet
  <2> QED  BY <2>1, <2>2
<1>4. CASE Crash \/ Disconnect
  BY <1>1, <1>4 DEF Crash, Disconnect, workerVars
<1>5. CASE Worker
  BY <1>5, DispatchRefines, ReceiveRefines DEF Worker
<1>6. CASE Backend \/ Restart
  BY <1>6, BackendRefines
<1>7. CASE UNCHANGED vars
  BY <1>1, <1>7 DEF vars, workerVars, backendVars
<1> QED  BY <1>2, <1>3, <1>4, <1>5, <1>6, <1>7, CancelRefines DEF Next

\* What CameraQueue takes for granted of the executor and ComfyUI holds of the
\* adapter, whatever is lost, restarted or killed: a job is submitted at most
\* once, never beside a prompt that is still wanted, and the worker is told how
\* it ended once and truly.
THEOREM ImplementsBackendPort == Spec => RefinesBackendPort
<1>1. Init => Port!Init
  BY DEF Init, Port!Init, PromptFate, Told
<1>2. Inv /\ Inv' /\ [Next]_vars => PortStep
  BY StepRefines
<1>3. PortStep => [Port!Next]_<<[j \in Jobs |-> PromptFate(prompt[j])],
                               [j \in Jobs |-> Told(owner[j])]>>
  BY DEF PortStep, FateOf, ToldOf
<1> QED  BY <1>1, <1>2, <1>3, Invariant, PTL DEF Spec, RefinesBackendPort, Port!Spec

-----------------------------------------------------------------------------
(* What may be asked for, and how long it lasts                             *)

\* What preflight reports that the gate lets through.
Usable(waived) == {"verified"} \cup (IF waived THEN {"available_unverified"} ELSE {})

\* The gate at enqueue and dispatch against the report preflight makes, for
\* every adapter file and every ComfyUI: under a configured profile preflight
\* reports an operation as usable exactly if the gate admits it, ComfyUI answers
\* and has the nodes, and each dynamic binding names H3's input and finds it
\* installed.  The gate reads the files alone, and so admits more
\* (adapter_fingerprint_with_policy, validate_dynamic_bindings).
THEOREM GateAgainstPreflight ==
    ASSUME NEW operation, NEW profile \in DOMAIN Adapter.profiles, NEW waived \in BOOLEAN
    PROVE  Capability(operation) \in Usable(waived) <=>
              /\ Admitted(operation, profile, waived)
              /\ ComfyUI.reachable /\ ComfyUI.nodes /\ DynamicValid
  BY DEF Admitted, Capability, Usable

\* What a job that passed the gate can still be refused for after it was
\* dispatched, when no exchange with ComfyUI fails: references it asks for that
\* the file does not bind, a video bound to another input, or a profile that
\* sets an input the file does not bind (prepare, set_reference_images,
\* set_reference_video, apply_profile).
THEOREM RefusedAfterTheGate ==
    ASSUME NEW q \in Request, NEW waived, Admitted(q.operation, q.profile, waived)
    PROVE  Prepares(q) <=>
             /\ q.images => "reference_images" \in Adapter.bound
             /\ q.operation = "r2v" /\ q.video =>
                   /\ "reference_video" \in Adapter.bound
                   /\ Adapter.target["reference_video"] = "ref_videos"
             /\ Adapter.profiles[q.profile] \subseteq Adapter.bound
<1>1. q.operation \in Operation /\ q.images \in BOOLEAN /\ q.video \in BOOLEAN
  BY DEF Request
<1>2. "reference_video" \notin Frames(q.operation) /\ "reference_images" \notin Frames(q.operation)
  <2>1. \/ Frames(q.operation) = {"first_frame"}
        \/ Frames(q.operation) = {"first_frame", "last_frame"}
        \/ Frames(q.operation) = {}
    BY <1>1, Zenon DEF Frames, Operation
  <2> QED  BY <2>1
<1>3. "reference_video" \in Wanted(q) <=> q.operation = "r2v" /\ q.video
  BY <1>1, <1>2 DEF Wanted
<1>4. /\ Frames(q.operation) \subseteq Adapter.bound /\ Adapter.enabled /\ Adapter.intact
      /\ q.profile \in DOMAIN Adapter.profiles
  BY DEF Admitted, Bound
<1>5. Wanted(q) \subseteq Adapter.bound <=>
        /\ q.images => "reference_images" \in Adapter.bound
        /\ q.operation = "r2v" /\ q.video => "reference_video" \in Adapter.bound
  <2>1. \A x : x \in Wanted(q) <=>
          \/ x \in Frames(q.operation)
          \/ q.images /\ x = "reference_images"
          \/ q.operation = "r2v" /\ q.video /\ x = "reference_video"
    BY DEF Wanted
  <2> QED  BY <1>4, <2>1
<1> QED  BY <1>1, <1>3, <1>4, <1>5 DEF Prepares

\* What the wrapped gap makes of each remainder.
LEMMA Residue ==
    ASSUME NEW e \in Nat
    PROVE  LET gap == ((5 - (e % 17)) % Word) % 17
           IN  (e + gap) % 17 = IF e % 17 <= 5 THEN 5 ELSE 6
<1>1. e % 17 \in 0..16
  OBVIOUS
<1>2. CASE e % 17 <= 5
  <2>1. (5 - (e % 17)) % Word = 5 - (e % 17)
    BY <1>1, <1>2 DEF Word
  <2>2. (5 - (e % 17)) % 17 = 5 - (e % 17)
    BY <1>1, <1>2
  <2> QED  BY <1>1, <1>2, <2>1, <2>2
<1>3. CASE e % 17 > 5
  <2>1. (5 - (e % 17)) % Word = 65541 - (e % 17)
    BY <1>1, <1>3 DEF Word
  <2>2. (65541 - (e % 17)) % 17 = IF e % 17 = 6 THEN 0 ELSE 23 - (e % 17)
    BY <1>1, <1>3
  <2> QED  BY <1>1, <1>3, <2>1, <2>2
<1> QED  BY <1>1, <1>2, <1>3

\* h3_frame_count for every length: 17 k + 5 frames as H3 wants them, except
\* that the wrapped subtraction is one frame off whenever the estimate leaves a
\* remainder above 5.
THEOREM FrameCountResidue ==
    ASSUME NEW seconds \in Nat, NEW fps \in Nat
    PROVE  LET estimated == IF seconds * fps < 5 THEN 5 ELSE seconds * fps
           IN  FrameCount(seconds, fps) % 17 = IF estimated % 17 <= 5 THEN 5 ELSE 6
<1> DEFINE estimated == IF seconds * fps < 5 THEN 5 ELSE seconds * fps
<1>1. estimated \in Nat
  OBVIOUS
<1>2. FrameCount(seconds, fps) = estimated + (((5 - (estimated % 17)) % Word) % 17)
  BY DEF FrameCount
<1> HIDE DEF estimated
<1>3. (estimated + (((5 - (estimated % 17)) % Word) % 17)) % 17 =
          IF estimated % 17 <= 5 THEN 5 ELSE 6
  BY <1>1, Residue
<1>4. FrameCount(seconds, fps) % 17 = IF estimated % 17 <= 5 THEN 5 ELSE 6
  BY <1>2, <1>3
<1> QED  BY <1>4 DEF estimated
=============================================================================
