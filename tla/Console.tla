------------------------------- MODULE Console -------------------------------
(***************************************************************************)
(* The terminal interface beside the worker (tui/app.rs, tui/backend.rs,   *)
(* tui/terminal.rs, ipc/client.rs, and serve_connection and                *)
(* notify_subscribers of worker/runtime.rs): the interface's loop, the     *)
(* thread that keeps one revision subscription, the connection between     *)
(* them and the worker, and everybody else who changes a project.          *)
(* A project's revision stands for what the snapshot shows; the queue's    *)
(* revision travels with it and is left out.                               *)
(***************************************************************************)
EXTENDS Integers, Sequences

CONSTANTS
    Projects,
    FirstProject,                          \* the one the interface is started on
    Nothing,                               \* no snapshot, no subscriber
    MaxRevision, MaxOutages, MaxLosses, MaxKeys    \* bounds

ASSUME ProjectsAssumption == FirstProject \in Projects
ASSUME NothingAssumption == Nothing \notin [project : Projects, revision : Nat]
ASSUME BoundsAssumption ==
    MaxRevision \in Nat \ {0} /\ MaxOutages \in Nat /\ MaxLosses \in Nat /\ MaxKeys \in Nat

VARIABLES
    \* the worker
    revision,     \* each project's ProjectState.revision
    up,
    subscriber,   \* what the worker last told the thread: [project, told]
    \* the subscription's connection
    pipe,         \* [open, asked, frames]; `asked' is a Subscribe not yet served
    \* the subscription's thread
    pc,
    following,    \* the project it subscribes to
    known,        \* the revision it last learned
    control,      \* whether `connection' holds a handle of the stream
    stop,
    token,        \* the channel of one slot to the interface
    \* the interface
    client,       \* the project of UnixBackend.client
    shown,        \* the snapshot on the screen: [project, revision]
    connected,
    dialog,       \* a composed command waits for confirmation
    call,         \* the exchange under way: [kind, expected]
    answer,       \* its result: [kind, revision]
    closing,      \* how far the old subscription's drop has come
    outages, losses, keys

workerVars == <<revision, up, subscriber>>
threadVars == <<pc, following, known, control, stop, token>>
screenVars == <<client, shown, connected, dialog>>
callVars == <<call, answer, closing>>
vars == <<workerVars, pipe, threadVars, screenVars, callVars, outages, losses, keys>>

Revisions == 1..MaxRevision
Seen == [project : Projects, revision : Revisions]
Step == {"check", "connect", "register", "ack", "listen", "read", "clear", "gone"}
NoPipe == [open |-> FALSE, asked |-> FALSE, frames |-> <<>>]
NoCall == [kind |-> "none", expected |-> 0]
NoAnswer == [kind |-> "none", revision |-> 0]

TypeOK ==
    /\ revision \in [Projects -> Revisions]
    /\ up \in BOOLEAN
    /\ subscriber \in [project : Projects, told : Revisions] \cup {Nothing}
    /\ pipe \in [open : BOOLEAN, asked : BOOLEAN, frames : Seq(Revisions)]
    /\ pc \in Step
    /\ following \in Projects
    /\ known \in 0..MaxRevision
    /\ {control, stop, token, connected, dialog} \subseteq BOOLEAN
    /\ client \in Projects
    /\ shown \in Seen \cup {Nothing}
    /\ call \in [kind : {"none", "snapshot", "select", "command"}, expected : 0..MaxRevision]
    /\ answer \in [kind : {"none", "snapshot", "refused", "conflict", "lost"},
                   revision : 0..MaxRevision]
    /\ closing \in {"no", "stop", "shutdown", "join"}
    /\ outages \in 0..MaxOutages /\ losses \in 0..MaxLosses /\ keys \in 0..MaxKeys

Init ==
    /\ revision = [p \in Projects |-> 1] /\ up = TRUE /\ subscriber = Nothing
    /\ pipe = NoPipe
    /\ pc = "check" /\ following = FirstProject /\ known = 0
    /\ control = FALSE /\ stop = FALSE /\ token = FALSE
    /\ client = FirstProject /\ shown = Nothing /\ connected = FALSE /\ dialog = FALSE
    /\ call = NoCall /\ answer = NoAnswer /\ closing = "no"
    /\ outages = 0 /\ losses = 0 /\ keys = 0

-----------------------------------------------------------------------------
(* The worker                                                               *)

\* notify_subscribers, after revision' is known.
Notify ==
    IF subscriber # Nothing /\ revision'[subscriber.project] # subscriber.told
    THEN \/ /\ pipe' = [pipe EXCEPT !.frames = Append(@, revision'[subscriber.project])]
            /\ subscriber' = [subscriber EXCEPT !.told = revision'[subscriber.project]]
            /\ UNCHANGED losses
         \/ /\ losses < MaxLosses /\ losses' = losses + 1
            /\ pipe' = [pipe EXCEPT !.open = FALSE]
            /\ subscriber' = Nothing
    ELSE UNCHANGED <<pipe, subscriber, losses>>

\* Another client, the camera or a build changes a project.  A change whose
\* reply cannot be written, and a camera event that leaves the queue as it
\* was, notify nobody.
Change(p, notify) ==
    /\ up /\ revision[p] < MaxRevision
    /\ revision' = [revision EXCEPT ![p] = @ + 1]
    /\ IF notify THEN Notify ELSE UNCHANGED <<pipe, subscriber, losses>>
    /\ UNCHANGED <<up, threadVars, screenVars, callVars, outages, keys>>

\* A Subscribe is served: the ack carries a snapshot, and later changes are pushed.
Subscribe ==
    /\ up /\ pipe.open /\ pipe.asked
    /\ pipe' = [pipe EXCEPT !.asked = FALSE, !.frames = <<revision[following]>>]
    /\ subscriber' = [project |-> following, told |-> revision[following]]
    /\ UNCHANGED <<revision, up, threadVars, screenVars, callVars, outages, losses, keys>>

Stop ==
    /\ up /\ outages < MaxOutages
    /\ up' = FALSE /\ outages' = outages + 1
    /\ subscriber' = Nothing
    /\ pipe' = [pipe EXCEPT !.open = FALSE, !.asked = FALSE]
    /\ UNCHANGED <<revision, threadVars, screenVars, callVars, losses, keys>>

Start ==
    /\ ~up
    /\ up' = TRUE
    /\ UNCHANGED <<revision, subscriber, pipe, threadVars, screenVars, callVars, outages, losses, keys>>

\* The interface's exchange is served (handle, serve_connection): a command
\* takes effect on the revision it expects, or is refused for what it asks.  A
\* reply lost after a command took effect skips the notification.
Calling == call.kind # "none" /\ answer = NoAnswer
Answer(kind) == answer' = [kind |-> kind, revision |-> revision'[client]]
Serve ==
    /\ Calling /\ up
    /\ \/ /\ call.kind = "command" /\ call.expected = revision[client]
          /\ revision[client] < MaxRevision
          /\ revision' = [revision EXCEPT ![client] = @ + 1]
          /\ Answer("snapshot")
          /\ Notify
       \/ /\ UNCHANGED <<revision, pipe, subscriber, losses>>
          /\ \/ call.kind # "command" /\ Answer("snapshot")
             \/ /\ call.kind = "command"
                /\ Answer(IF call.expected = revision[client] THEN "refused" ELSE "conflict")
    /\ UNCHANGED <<up, threadVars, screenVars, call, closing, outages, keys>>

Lost == [kind |-> "lost", revision |-> 0]
LoseReply ==
    /\ Calling
    /\ losses < MaxLosses /\ losses' = losses + 1
    /\ answer' = Lost
    /\ revision' \in {revision} \cup
         (IF up /\ call.kind = "command" /\ call.expected = revision[client]
               /\ revision[client] < MaxRevision
          THEN {[revision EXCEPT ![client] = @ + 1]} ELSE {})
    /\ UNCHANGED <<up, subscriber, pipe, threadVars, screenVars, call, closing, outages, keys>>
NoWorker ==
    /\ Calling /\ ~up
    /\ answer' = Lost
    /\ UNCHANGED <<workerVars, pipe, threadVars, screenVars, call, closing, outages, losses, keys>>

-----------------------------------------------------------------------------
(* The subscription's thread (revision_subscription_loop)                   *)

outsideThread == <<workerVars, screenVars, callVars, following, stop, outages, keys>>

Check ==
    /\ pc = "check"
    /\ pc' = IF stop THEN "gone" ELSE "connect"
    /\ UNCHANGED <<outsideThread, pipe, known, control, token, losses>>

Connect ==
    /\ pc = "connect"
    /\ IF up THEN pipe' = [NoPipe EXCEPT !.open = TRUE] /\ pc' = "register"
             ELSE UNCHANGED pipe /\ pc' = "check"
    /\ UNCHANGED <<outsideThread, known, control, token, losses>>

\* The handle for the drop is stored, then Subscribe is sent.
Register ==
    /\ pc = "register"
    /\ control' = TRUE
    /\ pipe' = [pipe EXCEPT !.asked = pipe.open]
    /\ pc' = "ack"
    /\ UNCHANGED <<outsideThread, known, token, losses>>

\* A revision it did not know yet wakes the interface; a full slot is enough.
Learn(r) ==
    /\ known' = r
    /\ token' = (token \/ r # known)

Ack ==
    /\ pc = "ack"
    /\ \/ /\ pipe.frames # <<>>
          /\ Learn(Head(pipe.frames))
          /\ pipe' = [pipe EXCEPT !.frames = Tail(@)]
          /\ pc' = "listen"
          /\ UNCHANGED losses
       \/ /\ pipe.frames = <<>>
          /\ \/ ~pipe.open /\ UNCHANGED losses
             \/ pipe.open /\ losses < MaxLosses /\ losses' = losses + 1
          /\ pc' = "clear"
          /\ UNCHANGED <<pipe, known, token>>
    /\ UNCHANGED <<outsideThread, control>>

\* Variant: the flag is not looked at between frames.
ListenOn ==
    /\ pc = "listen"
    /\ pc' = "read"
    /\ UNCHANGED <<outsideThread, pipe, known, control, token, losses>>

Listen ==
    /\ pc = "listen"
    /\ pc' = IF stop THEN "clear" ELSE "read"
    /\ UNCHANGED <<outsideThread, pipe, known, control, token, losses>>

\* Without a timeout: only a frame or the end of the stream ends the read.
Read ==
    /\ pc = "read"
    /\ \/ /\ pipe.frames # <<>>
          /\ Learn(Head(pipe.frames))
          /\ pipe' = [pipe EXCEPT !.frames = Tail(@)]
          /\ pc' = "listen"
       \/ /\ pipe.frames = <<>> /\ ~pipe.open
          /\ pc' = "clear"
          /\ UNCHANGED <<pipe, known, token>>
    /\ UNCHANGED <<outsideThread, control, losses>>

Clear ==
    /\ pc = "clear"
    /\ control' = FALSE
    /\ pipe' = NoPipe /\ subscriber' = Nothing
    /\ pc' = "check"
    /\ UNCHANGED <<revision, up, screenVars, callVars, following, stop, outages, keys,
                   known, token, losses>>

-----------------------------------------------------------------------------
(* The interface                                                            *)

Free == call.kind = "none" /\ closing = "no"
outsideScreen == <<workerVars, pipe, pc, following, known, control, stop, outages, losses>>

Ask(kind, expected) == call' = [kind |-> kind, expected |-> expected]

\* Variant: waking up empties the slot and draws what is there.
WakeOnly ==
    /\ Free /\ token
    /\ token' = FALSE
    /\ UNCHANGED <<outsideScreen, screenVars, callVars, keys>>

\* changed() empties the slot before the refresh is asked for.
Wake ==
    /\ Free /\ token
    /\ token' = FALSE
    /\ Ask("snapshot", 0)
    /\ UNCHANGED <<outsideScreen, screenVars, answer, closing, keys>>

\* Variant: only a failure makes the interface ask by itself.
RetryOnly ==
    /\ Free /\ ~connected
    /\ Ask("snapshot", 0)
    /\ UNCHANGED <<outsideScreen, token, screenVars, answer, closing, keys>>

\* The poll of every second, or the retry after a failure.
Tick ==
    /\ Free
    /\ Ask("snapshot", 0)
    /\ UNCHANGED <<outsideScreen, token, screenVars, answer, closing, keys>>

Key == Free /\ keys < MaxKeys /\ keys' = keys + 1

\* A command is composed from the screen and waits for confirmation; refreshes
\* go on under the dialog.
Compose ==
    /\ Key
    /\ ~dialog /\ shown # Nothing
    /\ dialog' = TRUE
    /\ UNCHANGED <<outsideScreen, token, client, shown, connected, callVars>>

\* It is sent with the revision the screen shows by then.
Confirm ==
    /\ Key
    /\ dialog
    /\ dialog' = FALSE
    /\ Ask("command", shown.revision)
    /\ UNCHANGED <<outsideScreen, token, client, shown, connected, answer, closing>>

Dismiss ==
    /\ Key
    /\ dialog
    /\ dialog' = FALSE
    /\ UNCHANGED <<outsideScreen, token, client, shown, connected, callVars>>

\* UnixBackend::select_project replaces the client before it asks.
SelectProject(p) ==
    /\ Key
    /\ ~dialog
    /\ client' = p
    /\ Ask("select", 0)
    /\ UNCHANGED <<outsideScreen, token, shown, connected, dialog, answer, closing>>

\* The answer is applied: a snapshot is shown (only a refresh or a selection
\* also says `connected'), a conflict refreshes without another try, a
\* selection that worked drops the subscription.
Apply ==
    /\ answer # NoAnswer
    /\ answer' = NoAnswer
    /\ \/ /\ answer.kind = "snapshot"
          /\ shown' = [project |-> client, revision |-> answer.revision]
          /\ connected' = (connected \/ call.kind # "command")
          /\ call' = NoCall
          /\ closing' = IF call.kind = "select" THEN "stop" ELSE "no"
       \/ /\ answer.kind = "conflict"
          /\ Ask("snapshot", 0)
          /\ UNCHANGED <<shown, connected, closing>>
       \/ /\ answer.kind = "refused"
          /\ call' = NoCall
          /\ UNCHANGED <<shown, connected, closing>>
       \/ /\ answer.kind = "lost"
          /\ connected' = FALSE
          /\ call' = NoCall
          /\ UNCHANGED <<shown, closing>>
    /\ UNCHANGED <<outsideScreen, token, client, dialog, keys>>

\* Dropping a RevisionSubscription: raise the flag, shut the stream down, wait
\* for the thread.  (The new one is spawned first; nothing reads its channel
\* before the old one is gone.)
DropStop ==
    /\ closing = "stop"
    /\ stop' = TRUE
    /\ closing' = "shutdown"
    /\ UNCHANGED <<workerVars, pipe, pc, following, known, control, token, screenVars,
                   call, answer, outages, losses, keys>>

DropShutdown ==
    /\ closing = "shutdown"
    /\ control' = FALSE
    /\ IF control
         THEN pipe' = [pipe EXCEPT !.open = FALSE, !.asked = FALSE] /\ subscriber' = Nothing
         ELSE UNCHANGED <<pipe, subscriber>>
    /\ closing' = "join"
    /\ UNCHANGED <<revision, up, pc, following, known, stop, token, screenVars,
                   call, answer, outages, losses, keys>>

DropJoin ==
    /\ closing = "join" /\ pc = "gone"
    /\ closing' = "no"
    /\ pc' = "check" /\ following' = client /\ known' = 0
    /\ control' = FALSE /\ stop' = FALSE /\ token' = FALSE
    /\ UNCHANGED <<workerVars, pipe, screenVars, call, answer, outages, losses, keys>>

-----------------------------------------------------------------------------
Worker == Subscribe \/ Serve \/ NoWorker
Thread == Check \/ Connect \/ Register \/ Ack \/ Listen \/ Read \/ Clear
Interface == Wake \/ Tick \/ Apply \/ DropStop \/ DropShutdown \/ DropJoin
User == Compose \/ Confirm \/ Dismiss \/ \E p \in Projects : SelectProject(p)

Next ==
    \/ \E p \in Projects, notify \in BOOLEAN : Change(p, notify)
    \/ Stop \/ Start \/ LoseReply
    \/ Worker \/ Thread \/ Interface \/ User

Spec == Init /\ [][Next]_vars

\* The worker serves whoever connects, the thread and the interface's loop run
\* on.  Nobody has to press a key, and nobody has to start the worker again.
Fairness ==
    /\ WF_vars(Subscribe) /\ WF_vars(Serve \/ NoWorker)
    /\ WF_vars(Thread)
    /\ WF_vars(Interface)
FairSpec == Spec /\ Fairness
-----------------------------------------------------------------------------
(* Properties                                                               *)

\* What the thread has learned reaches the screen: with the slot empty and
\* the interface at rest and connected, the screen is no older.
NothingToldIsForgotten ==
    Free /\ ~token /\ connected /\ shown # Nothing /\ shown.project = following
        => shown.revision >= known

\* Whatever notifications are missed, the screen catches up with a worker that
\* stays up.
CatchesUp ==
    <>[]up => []<>(shown = [project |-> client, revision |-> revision[client]])

\* Switching projects does not hang: the old subscription's thread ends,
\* wherever the drop finds it.
DropEnds == closing # "no" ~> closing = "no"
=============================================================================
