----------------------------- MODULE ConsoleProofs -----------------------------
(***************************************************************************)
(* Proofs about Console, for any projects, revisions and keys, and any     *)
(* number of outages and lost connections.                                 *)
(***************************************************************************)
EXTENDS Console, TLAPS, SequenceTheorems

-----------------------------------------------------------------------------
(* Types                                                                    *)

PipeType == [open : BOOLEAN, asked : BOOLEAN, frames : Seq(Revisions)]
SubscriberType == [project : Projects, told : Revisions] \cup {Nothing}

LEMMA PipeMoves ==
    ASSUME pipe \in PipeType
    PROVE  /\ NoPipe \in PipeType
           /\ \A b, c \in BOOLEAN : [pipe EXCEPT !.open = b, !.asked = c] \in PipeType
           /\ \A b \in BOOLEAN : [pipe EXCEPT !.open = b] \in PipeType
           /\ \A b \in BOOLEAN : [pipe EXCEPT !.asked = b] \in PipeType
           /\ \A b \in BOOLEAN : [NoPipe EXCEPT !.open = b] \in PipeType
           /\ \A r \in Revisions : [pipe EXCEPT !.frames = Append(@, r)] \in PipeType
           /\ \A r \in Revisions : [pipe EXCEPT !.asked = FALSE, !.frames = <<r>>] \in PipeType
           /\ pipe.frames # <<>> => /\ [pipe EXCEPT !.frames = Tail(@)] \in PipeType
                                    /\ Head(pipe.frames) \in Revisions
<1>1. pipe.frames \in Seq(Revisions)
  BY DEF PipeType
<1>2. \A r \in Revisions : Append(pipe.frames, r) \in Seq(Revisions) /\ <<r>> \in Seq(Revisions)
  BY <1>1
<1>3. pipe.frames # <<>> => Tail(pipe.frames) \in Seq(Revisions) /\ Head(pipe.frames) \in Revisions
  BY <1>1
<1>4. <<>> \in Seq(Revisions)
  OBVIOUS
<1>5. NoPipe \in PipeType /\ \A b \in BOOLEAN : [NoPipe EXCEPT !.open = b] \in PipeType
  BY <1>4 DEF PipeType, NoPipe
<1>6. /\ \A b, c \in BOOLEAN : [pipe EXCEPT !.open = b, !.asked = c] \in PipeType
      /\ \A b \in BOOLEAN : [pipe EXCEPT !.open = b] \in PipeType
      /\ \A b \in BOOLEAN : [pipe EXCEPT !.asked = b] \in PipeType
  BY DEF PipeType
<1>7. /\ \A r \in Revisions : [pipe EXCEPT !.frames = Append(@, r)] \in PipeType
      /\ \A r \in Revisions : [pipe EXCEPT !.asked = FALSE, !.frames = <<r>>] \in PipeType
      /\ pipe.frames # <<>> => [pipe EXCEPT !.frames = Tail(@)] \in PipeType
  BY <1>2, <1>3 DEF PipeType
<1> QED  BY <1>3, <1>5, <1>6, <1>7

\* notify_subscribers tells the subscriber the revision its project has now.
LEMMA NotifyType ==
    ASSUME TypeOK, revision' \in [Projects -> Revisions], Notify
    PROVE  pipe' \in PipeType /\ subscriber' \in SubscriberType /\ losses' \in 0..MaxLosses
<1>1. pipe \in PipeType /\ subscriber \in SubscriberType /\ losses \in 0..MaxLosses
  BY DEF TypeOK, PipeType, SubscriberType
<1>2. CASE UNCHANGED <<pipe, subscriber, losses>>
  BY <1>1, <1>2
<1>3. CASE /\ subscriber # Nothing
           /\ pipe' = [pipe EXCEPT !.frames = Append(@, revision'[subscriber.project])]
           /\ subscriber' = [subscriber EXCEPT !.told = revision'[subscriber.project]]
           /\ UNCHANGED losses
  <2>1. subscriber \in [project : Projects, told : Revisions]
    BY <1>1, <1>3 DEF SubscriberType
  <2>2. revision'[subscriber.project] \in Revisions
    BY <2>1
  <2> QED  BY <1>1, <1>3, <2>1, <2>2, PipeMoves DEF SubscriberType
<1>4. CASE /\ losses < MaxLosses /\ losses' = losses + 1
           /\ pipe' = [pipe EXCEPT !.open = FALSE]
           /\ subscriber' = Nothing
  <2>1. losses' \in 0..MaxLosses
    BY <1>1, <1>4, BoundsAssumption
  <2>2. pipe' \in PipeType
    BY <1>1, <1>4, PipeMoves
  <2> QED  BY <1>4, <2>1, <2>2 DEF SubscriberType
<1> QED  BY <1>2, <1>3, <1>4 DEF Notify

\* An exchange is served with a revision of the project it asks about.
LEMMA AnswerType ==
    ASSUME TypeOK, revision' \in [Projects -> Revisions],
           NEW k \in {"snapshot", "refused", "conflict"}, Answer(k)
    PROVE  answer' \in [kind : {"none", "snapshot", "refused", "conflict", "lost"},
                        revision : 0..MaxRevision]
<1>1. revision'[client] \in 0..MaxRevision
  BY BoundsAssumption DEF TypeOK, Revisions
<1> QED  BY <1>1 DEF Answer

LEMMA RevisionRises ==
    ASSUME TypeOK, NEW p \in Projects, revision[p] < MaxRevision,
           revision' = [revision EXCEPT ![p] = @ + 1]
    PROVE  revision' \in [Projects -> Revisions]
<1>1. revision[p] + 1 \in Revisions
  BY BoundsAssumption DEF TypeOK, Revisions
<1> QED  BY <1>1 DEF TypeOK

LEMMA WorkerType ==
    ASSUME TypeOK, \/ \E p \in Projects, notify \in BOOLEAN : Change(p, notify)
                   \/ Stop \/ Start \/ LoseReply \/ Worker
    PROVE  TypeOK'
<1>1. pipe \in PipeType /\ subscriber \in SubscriberType /\ losses \in 0..MaxLosses
  BY DEF TypeOK, PipeType, SubscriberType
<1>2. ASSUME NEW p \in Projects, NEW notify \in BOOLEAN, Change(p, notify)
      PROVE  TypeOK'
  <2>1. revision' \in [Projects -> Revisions]
    BY <1>2, RevisionRises DEF Change
  <2>2. pipe' \in PipeType /\ subscriber' \in SubscriberType /\ losses' \in 0..MaxLosses
    BY <1>1, <1>2, <2>1, NotifyType DEF Change
  <2>3. UNCHANGED <<up, threadVars, screenVars, callVars, outages, keys>>
    BY <1>2 DEF Change
  <2> QED  BY <2>1, <2>2, <2>3 DEF TypeOK, PipeType, SubscriberType, threadVars, screenVars, callVars
<1>3. CASE Stop
  <2>1. outages' \in 0..MaxOutages
    BY <1>3, BoundsAssumption DEF Stop, TypeOK
  <2>2. pipe' \in PipeType
    BY <1>1, <1>3, PipeMoves DEF Stop
  <2> QED  BY <1>3, <2>1, <2>2 DEF Stop, TypeOK, PipeType, threadVars, screenVars, callVars
<1>4. CASE Start
  BY <1>4 DEF Start, TypeOK, threadVars, screenVars, callVars
<1>5. CASE LoseReply
  <2>1. losses' \in 0..MaxLosses
    BY <1>5, BoundsAssumption DEF LoseReply, TypeOK
  <2>2. revision' \in [Projects -> Revisions]
    <3>1. \/ revision' = revision
          \/ revision[client] < MaxRevision /\ revision' = [revision EXCEPT ![client] = @ + 1]
      BY <1>5 DEF LoseReply
    <3>2. client \in Projects
      BY DEF TypeOK
    <3> QED  BY <3>1, <3>2, RevisionRises DEF TypeOK
  <2>3. answer' \in [kind : {"none", "snapshot", "refused", "conflict", "lost"},
                     revision : 0..MaxRevision]
    BY <1>5, BoundsAssumption DEF LoseReply, Lost
  <2>4. UNCHANGED <<up, subscriber, pipe, threadVars, screenVars, call, closing, outages, keys>>
    BY <1>5 DEF LoseReply
  <2> QED  BY <2>1, <2>2, <2>3, <2>4 DEF TypeOK, threadVars, screenVars
<1>6. CASE Subscribe
  <2>1. revision[following] \in Revisions
    BY DEF TypeOK
  <2>2. pipe' \in PipeType
    BY <1>1, <1>6, <2>1, PipeMoves DEF Subscribe
  <2>3. subscriber' \in SubscriberType
    BY <1>6, <2>1 DEF Subscribe, SubscriberType, TypeOK
  <2> QED  BY <1>6, <2>2, <2>3 DEF Subscribe, TypeOK, PipeType, SubscriberType, threadVars,
           screenVars, callVars
<1>7. CASE Serve
  <2>1. revision' \in [Projects -> Revisions]
    BY <1>7, RevisionRises DEF Serve, TypeOK
  <2>2. pipe' \in PipeType /\ subscriber' \in SubscriberType /\ losses' \in 0..MaxLosses
    BY <1>1, <1>7, <2>1, NotifyType DEF Serve
  <2>3. \E k \in {"snapshot", "refused", "conflict"} : Answer(k)
    BY <1>7 DEF Serve
  <2>4. UNCHANGED <<up, threadVars, screenVars, call, closing, outages, keys>>
    BY <1>7 DEF Serve
  <2>5. answer' \in [kind : {"none", "snapshot", "refused", "conflict", "lost"},
                     revision : 0..MaxRevision]
    BY <2>1, <2>3, AnswerType
  <2> QED  BY <2>1, <2>2, <2>4, <2>5 DEF TypeOK, PipeType, SubscriberType, threadVars, screenVars
<1>8. CASE NoWorker
  <2>1. Lost \in [kind : {"none", "snapshot", "refused", "conflict", "lost"},
                  revision : 0..MaxRevision]
    BY BoundsAssumption DEF Lost
  <2> QED  BY <1>8, <2>1 DEF NoWorker, TypeOK, workerVars, threadVars, screenVars
<1> QED  BY <1>2, <1>3, <1>4, <1>5, <1>6, <1>7, <1>8 DEF Worker

LEMMA ThreadType ==
    ASSUME TypeOK, Thread
    PROVE  TypeOK'
<1>1. pipe \in PipeType /\ Revisions \subseteq 0..MaxRevision
  BY DEF TypeOK, PipeType, Revisions
<1>2. pipe' \in PipeType
  BY <1>1, PipeMoves DEF Thread, TypeOK, Check, Connect, Register, Ack, Listen, Read, Clear
<1>3. pc' \in Step /\ control' \in BOOLEAN /\ subscriber' \in SubscriberType
  BY DEF Thread, TypeOK, Step, SubscriberType, Check, Connect, Register, Ack, Listen, Read, Clear,
     outsideThread, workerVars
<1>4. known' \in 0..MaxRevision /\ token' \in BOOLEAN
  <2>1. ASSUME pipe.frames # <<>>, Learn(Head(pipe.frames))
        PROVE  known' \in 0..MaxRevision /\ token' \in BOOLEAN
    BY <1>1, <2>1, PipeMoves DEF Learn, TypeOK
  <2> QED  BY <2>1 DEF Thread, TypeOK, Check, Connect, Register, Ack, Listen, Read, Clear
<1>5. losses' \in 0..MaxLosses
  BY BoundsAssumption DEF Thread, TypeOK, Check, Connect, Register, Ack, Listen, Read, Clear
<1>6. UNCHANGED <<revision, up, screenVars, callVars, following, stop, outages, keys>>
  BY DEF Thread, Check, Connect, Register, Ack, Listen, Read, Clear, outsideThread, workerVars
<1> QED  BY <1>2, <1>3, <1>4, <1>5, <1>6 DEF TypeOK, PipeType, SubscriberType, screenVars, callVars

-----------------------------------------------------------------------------
(* The invariant                                                            *)

\* The connection is the thread's: without one nobody pushes to it.
Belongs ==
    /\ subscriber # Nothing => subscriber.project = following
    /\ pc \in {"check", "connect", "gone"} => pipe = NoPipe /\ subscriber = Nothing

\* Nothing newer than the project itself is on its way or known.
Learned ==
    /\ known <= revision[following]
    /\ \A i \in DOMAIN pipe.frames : pipe.frames[i] <= revision[following]

Calls ==
    /\ closing # "no" => call = NoCall
    /\ call.kind = "none" => answer = NoAnswer
    /\ answer.kind \in {"refused", "conflict"} => call.kind = "command"
    /\ answer.kind = "snapshot" => answer.revision \in Revisions
    /\ dialog => shown # Nothing

\* With the slot empty, what the thread knows is on the screen or in the
\* snapshot about to be drawn, unless a refresh is under way.
Kept ==
    /\ ~token /\ answer.kind = "snapshot" /\ client = following => answer.revision >= known
    /\ ~token /\ connected /\ shown # Nothing /\ shown.project = following
         /\ closing = "no" /\ call.kind \in {"none", "command"}
       => shown.revision >= known

Inv == TypeOK /\ Belongs /\ Learned /\ Calls /\ Kept

LEMMA InterfaceType ==
    ASSUME Inv, Interface
    PROVE  TypeOK'
<1>0. TypeOK /\ Revisions \subseteq 0..MaxRevision
  BY DEF Inv, Revisions
<1>1. pipe \in PipeType
  BY <1>0 DEF TypeOK, PipeType
<1>2. NoCall \in [kind : {"none", "snapshot", "select", "command"}, expected : 0..MaxRevision]
  BY BoundsAssumption DEF NoCall
<1>3. ASSUME Ask("snapshot", 0)
      PROVE  call' \in [kind : {"none", "snapshot", "select", "command"}, expected : 0..MaxRevision]
  BY <1>3, BoundsAssumption DEF Ask
<1>4. CASE Wake \/ Tick
  <2>1. UNCHANGED <<outsideScreen, screenVars, answer, closing, keys>> /\ token' \in BOOLEAN
        /\ Ask("snapshot", 0)
    BY <1>0, <1>4 DEF Wake, Tick, TypeOK
  <2> QED  BY <1>0, <1>3, <2>1 DEF TypeOK, outsideScreen, workerVars, screenVars
<1>5. CASE Apply
  <2>1. UNCHANGED <<outsideScreen, token, client, dialog, keys>>
    BY <1>5 DEF Apply
  <2>2. answer' \in [kind : {"none", "snapshot", "refused", "conflict", "lost"},
                     revision : 0..MaxRevision]
    BY <1>5, BoundsAssumption DEF Apply, NoAnswer
  <2>3. call' \in [kind : {"none", "snapshot", "select", "command"}, expected : 0..MaxRevision]
    BY <1>2, <1>3, <1>5 DEF Apply
  <2>4. shown' \in Seen \cup {Nothing} /\ connected' \in BOOLEAN
        /\ closing' \in {"no", "stop", "shutdown", "join"}
    <3>1. CASE answer.kind = "snapshot"
      BY <1>0, <1>5, <3>1 DEF Apply, TypeOK, Inv, Calls, Seen
    <3>2. CASE answer.kind # "snapshot"
      BY <1>0, <1>5, <3>2 DEF Apply, TypeOK
    <3> QED  BY <3>1, <3>2
  <2> QED  BY <1>0, <2>1, <2>2, <2>3, <2>4 DEF TypeOK, outsideScreen, workerVars
<1>6. CASE DropStop
  BY <1>0, <1>6 DEF DropStop, TypeOK, workerVars, screenVars
<1>7. CASE DropShutdown
  <2>1. pipe' \in PipeType
    BY <1>1, <1>7, PipeMoves DEF DropShutdown
  <2> QED  BY <1>0, <1>7, <2>1 DEF DropShutdown, TypeOK, PipeType, screenVars
<1>8. CASE DropJoin
  <2>1. /\ pc' = "check" /\ following' = client /\ known' = 0 /\ closing' = "no"
        /\ control' = FALSE /\ stop' = FALSE /\ token' = FALSE
        /\ UNCHANGED <<workerVars, pipe, screenVars, call, answer, outages, losses, keys>>
    BY <1>8 DEF DropJoin
  <2>2. pc' \in Step /\ following' \in Projects /\ closing' \in {"no", "stop", "shutdown", "join"}
    BY <1>0, <2>1 DEF TypeOK, Step
  <2>3. known' \in 0..MaxRevision
    BY <2>1, BoundsAssumption
  <2>4. {control', stop', token', connected', dialog'} \subseteq BOOLEAN
    BY <1>0, <2>1 DEF TypeOK, screenVars
  <2> QED  BY <1>0, <2>1, <2>2, <2>3, <2>4 DEF TypeOK, workerVars, screenVars
<1> QED  BY <1>4, <1>5, <1>6, <1>7, <1>8 DEF Interface

LEMMA UserType ==
    ASSUME Inv, User
    PROVE  TypeOK'
<1>1. TypeOK
  BY DEF Inv
<1>2. keys' \in 0..MaxKeys
  BY <1>1, BoundsAssumption DEF User, Compose, Confirm, Dismiss, SelectProject, Key, TypeOK
<1>3. call' \in [kind : {"none", "snapshot", "select", "command"}, expected : 0..MaxRevision]
  <2>1. CASE Compose \/ Dismiss
    BY <1>1, <2>1 DEF Compose, Dismiss, callVars, TypeOK
  <2>2. CASE Confirm
    <3>1. shown.revision \in 0..MaxRevision
      BY <1>1, <2>2 DEF Confirm, Inv, Calls, TypeOK, Seen, Revisions
    <3> QED  BY <2>2, <3>1 DEF Confirm, Ask
  <2>3. CASE \E p \in Projects : SelectProject(p)
    BY <2>3, BoundsAssumption DEF SelectProject, Ask
  <2> QED  BY <2>1, <2>2, <2>3 DEF User
<1>4. UNCHANGED <<outsideScreen, token, shown, connected, answer, closing>>
  BY DEF User, Compose, Confirm, Dismiss, SelectProject, callVars
<1>5. client' \in Projects /\ dialog' \in BOOLEAN
  BY <1>1 DEF User, Compose, Confirm, Dismiss, SelectProject, TypeOK
<1> QED  BY <1>1, <1>2, <1>3, <1>4, <1>5 DEF TypeOK, outsideScreen, workerVars

LEMMA StepType ==
    ASSUME Inv, [Next]_vars
    PROVE  TypeOK'
<1>1. TypeOK
  BY DEF Inv
<1>2. CASE UNCHANGED vars
  BY <1>1, <1>2 DEF vars, workerVars, threadVars, screenVars, callVars, TypeOK
<1> QED  BY <1>1, <1>2, WorkerType, ThreadType, InterfaceType, UserType DEF Next

-----------------------------------------------------------------------------
(* Each part of it is kept                                                  *)

LEMMA NotifyKeeps ==
    ASSUME Inv, TypeOK', Notify, \A p \in Projects : revision'[p] >= revision[p],
           UNCHANGED <<pc, following, known>>
    PROVE  Belongs' /\ Learned'
<1>1. Belongs'
  BY DEF Inv, Belongs, Notify, TypeOK
<1>2. known' <= revision'[following']
  <2>1. known \in Nat /\ revision[following] \in Nat /\ revision'[following] \in Nat
    <3>1. known \in 0..MaxRevision /\ following \in Projects
      BY DEF Inv, TypeOK
    <3>2. revision[following] \in Revisions /\ revision'[following] \in Revisions
      BY <3>1 DEF Inv, TypeOK
    <3> QED  BY <3>1, <3>2, BoundsAssumption DEF Revisions
  <2>2. known <= revision[following] /\ revision[following] <= revision'[following]
    BY DEF Inv, TypeOK, Learned
  <2>3. known' = known /\ following' = following
    OBVIOUS
  <2> QED  BY <2>1, <2>2, <2>3
<1>3. \A i \in DOMAIN pipe.frames : pipe.frames[i] <= revision'[following]
  <2> SUFFICES ASSUME NEW i \in DOMAIN pipe.frames
               PROVE  pipe.frames[i] <= revision'[following]
    OBVIOUS
  <2>1. pipe.frames[i] \in Revisions
    BY DEF Inv, TypeOK
  <2>2. revision[following] \in Revisions /\ revision'[following] \in Revisions
    BY DEF Inv, TypeOK
  <2>3. pipe.frames[i] <= revision[following] /\ revision[following] <= revision'[following]
    BY DEF Inv, TypeOK, Learned
  <2> QED  BY <2>1, <2>2, <2>3 DEF Revisions
<1>4. \A i \in DOMAIN pipe'.frames : pipe'.frames[i] <= revision'[following]
  <2>1. CASE pipe'.frames = pipe.frames
    BY <1>3, <2>1
  <2>2. CASE /\ subscriber # Nothing
             /\ pipe' = [pipe EXCEPT !.frames = Append(@, revision'[subscriber.project])]
    <3>1. subscriber.project = following
      BY <2>2 DEF Inv, Belongs
    <3>2. pipe.frames \in Seq(Revisions) /\ revision'[following] \in Revisions
      BY DEF Inv, TypeOK
    <3>3. pipe'.frames = Append(pipe.frames, revision'[following])
      BY <2>2, <3>1 DEF Inv, TypeOK
    <3>4. ASSUME NEW i \in DOMAIN Append(pipe.frames, revision'[following])
          PROVE  Append(pipe.frames, revision'[following])[i] <= revision'[following]
      <4>1. \/ i \in DOMAIN pipe.frames
               /\ Append(pipe.frames, revision'[following])[i] = pipe.frames[i]
            \/ Append(pipe.frames, revision'[following])[i] = revision'[following]
        BY <3>2, <3>4
      <4> QED  BY <1>3, <3>2, <4>1 DEF Revisions
    <3> QED  BY <3>3, <3>4
  <2>3. \/ pipe'.frames = pipe.frames
        \/ /\ subscriber # Nothing
           /\ pipe' = [pipe EXCEPT !.frames = Append(@, revision'[subscriber.project])]
    BY DEF Notify, Inv, TypeOK
  <2> QED  BY <2>1, <2>2, <2>3
<1> QED  BY <1>1, <1>2, <1>4 DEF Learned

LEMMA Rises ==
    ASSUME Inv, NEW p \in Projects,
           revision' \in {revision, [revision EXCEPT ![p] = @ + 1]}
    PROVE  \A q \in Projects : revision'[q] >= revision[q]
  BY DEF Inv, TypeOK, Revisions

LEMMA Shut ==
    ASSUME Inv, TypeOK', pipe' = [pipe EXCEPT !.open = FALSE, !.asked = FALSE]
    PROVE  pipe'.frames = pipe.frames /\ (pipe = NoPipe => pipe' = NoPipe)
<1>1. /\ pipe \in [open : BOOLEAN, asked : BOOLEAN, frames : Seq(Revisions)]
      /\ pipe' \in [open : BOOLEAN, asked : BOOLEAN, frames : Seq(Revisions)]
  BY DEF Inv, TypeOK
<1>2. pipe'.frames = pipe.frames /\ pipe'.open = FALSE /\ pipe'.asked = FALSE
  BY <1>1
<1>3. pipe' = [open |-> FALSE, asked |-> FALSE, frames |-> pipe'.frames]
  BY <1>1, <1>2
<1>4. pipe = NoPipe => pipe'.frames = <<>>
  BY <1>2 DEF NoPipe
<1> QED  BY <1>2, <1>3, <1>4 DEF NoPipe

\* The worker serves and pushes; the screen's side does not move.
LEMMA WorkerKeeps ==
    ASSUME Inv, TypeOK', \/ \E p \in Projects, notify \in BOOLEAN : Change(p, notify)
                         \/ Stop \/ Start \/ LoseReply \/ Worker
    PROVE  Belongs' /\ Learned'
<1>1. UNCHANGED <<pc, following, known>>
  BY DEF Change, Stop, Start, LoseReply, Worker, Subscribe, Serve, NoWorker, threadVars
<1>2. /\ revision[following] \in Revisions /\ known \in Nat /\ pipe.frames \in Seq(Revisions)
      /\ client \in Projects /\ following \in Projects
  BY DEF Inv, TypeOK
<1>3. ASSUME \A p \in Projects : revision'[p] >= revision[p], UNCHANGED <<pipe, subscriber>>
      PROVE  Belongs' /\ Learned'
  <2>1. Belongs'
    BY <1>1, <1>3 DEF Inv, Belongs
  <2>2. Learned'
    <3>1. revision'[following] >= revision[following] /\ revision'[following] \in Nat
      BY <1>2, <1>3 DEF TypeOK, Revisions
    <3>2. known' <= revision'[following']
      BY <1>1, <1>2, <3>1 DEF Inv, Learned, Revisions
    <3>3. ASSUME NEW i \in DOMAIN pipe.frames
          PROVE  pipe.frames[i] <= revision'[following]
      <4>1. pipe.frames[i] \in Revisions /\ pipe.frames[i] <= revision[following]
        BY <1>2, <3>3 DEF Inv, Learned
      <4> QED  BY <1>2, <3>1, <4>1 DEF Revisions
    <3> QED  BY <1>1, <1>3, <3>2, <3>3 DEF Learned
  <2> QED  BY <2>1, <2>2
<1>4. ASSUME NEW p \in Projects, NEW notify \in BOOLEAN, Change(p, notify)
      PROVE  Belongs' /\ Learned'
  <2>1. \A q \in Projects : revision'[q] >= revision[q]
    BY <1>4, Rises DEF Change
  <2> QED  BY <1>1, <1>3, <1>4, <2>1, NotifyKeeps DEF Change
<1>5. CASE Start \/ LoseReply \/ NoWorker
  <2>1. \A q \in Projects : revision'[q] >= revision[q]
    BY <1>2, <1>5, Rises DEF Start, LoseReply, NoWorker, workerVars
  <2>2. UNCHANGED <<pipe, subscriber>>
    BY <1>5 DEF Start, LoseReply, NoWorker, workerVars
  <2> QED  BY <1>3, <2>1, <2>2
<1>6. CASE Stop
  <2>1. pipe'.frames = pipe.frames /\ subscriber' = Nothing /\ UNCHANGED revision
    BY <1>6 DEF Stop, Inv, TypeOK
  <2>2. pipe = NoPipe => pipe' = NoPipe
    BY <1>6, Shut DEF Stop
  <2> QED  BY <1>1, <2>1, <2>2 DEF Inv, Belongs, Learned
<1>7. CASE Subscribe
  <2>1. pipe'.frames = <<revision[following]>> /\ subscriber'.project = following
        /\ UNCHANGED revision /\ pipe # NoPipe
    BY <1>7 DEF Subscribe, NoPipe, Inv, TypeOK
  <2>2. \A i \in DOMAIN <<revision[following]>> : <<revision[following]>>[i] = revision[following]
    OBVIOUS
  <2> QED  BY <1>1, <1>2, <2>1, <2>2 DEF Inv, Belongs, Learned, Revisions
<1>8. CASE Serve
  <2>1. \A q \in Projects : revision'[q] >= revision[q]
    BY <1>2, <1>8, Rises DEF Serve
  <2> QED  BY <1>1, <1>3, <1>8, <2>1, NotifyKeeps DEF Serve
<1> QED  BY <1>4, <1>5, <1>6, <1>7, <1>8 DEF Worker

LEMMA ThreadKeeps ==
    ASSUME Inv, TypeOK', Thread
    PROVE  Belongs' /\ Learned'
<1>1. UNCHANGED <<revision, following>>
  BY DEF Thread, Check, Connect, Register, Ack, Listen, Read, Clear, outsideThread, workerVars
<1>2. pipe.frames \in Seq(Revisions) /\ revision[following] \in Revisions
  BY DEF Inv, TypeOK
<1>3. Belongs'
  BY <1>1 DEF Inv, Belongs, Thread, Check, Connect, Register, Ack, Listen, Read, Clear,
     outsideThread, workerVars
<1>4. ASSUME pipe.frames # <<>>, pipe'.frames = Tail(pipe.frames), Learn(Head(pipe.frames))
      PROVE  Learned'
  <2>1. known' = pipe.frames[1] /\ 1 \in DOMAIN pipe.frames
    BY <1>2, <1>4 DEF Learn
  <2>2. \A i \in DOMAIN Tail(pipe.frames) :
           i + 1 \in DOMAIN pipe.frames /\ Tail(pipe.frames)[i] = pipe.frames[i + 1]
    BY <1>2, <1>4
  <2> QED  BY <1>1, <1>4, <2>1, <2>2 DEF Inv, Learned
<1>5. ASSUME UNCHANGED known, pipe'.frames = pipe.frames
      PROVE  Learned'
  BY <1>1, <1>5 DEF Inv, Learned
<1>6. ASSUME UNCHANGED known, pipe'.frames = <<>>
      PROVE  Learned'
  <2>1. DOMAIN <<>> = {}
    OBVIOUS
  <2> QED  BY <1>1, <1>6, <2>1 DEF Inv, Learned
<1>7. \/ UNCHANGED <<known, pipe>>
      \/ UNCHANGED known /\ pipe'.frames = <<>>
      \/ UNCHANGED known /\ pipe' = [pipe EXCEPT !.asked = pipe.open]
      \/ pipe.frames # <<>> /\ Learn(Head(pipe.frames))
         /\ pipe' = [pipe EXCEPT !.frames = Tail(@)]
  BY DEF Thread, Check, Connect, Register, Ack, Listen, Read, Clear, NoPipe
<1>8. /\ pipe' = [pipe EXCEPT !.asked = pipe.open] => pipe'.frames = pipe.frames
      /\ pipe' = [pipe EXCEPT !.frames = Tail(@)] => pipe'.frames = Tail(pipe.frames)
  BY DEF Inv, TypeOK
<1> QED  BY <1>3, <1>4, <1>5, <1>6, <1>7, <1>8

LEMMA ScreenKeeps ==
    ASSUME Inv, TypeOK', Interface \/ User
    PROVE  Belongs' /\ Learned'
<1>1. ASSUME UNCHANGED <<revision, subscriber, pipe, pc, following, known>>
      PROVE  Belongs' /\ Learned'
  BY <1>1 DEF Inv, Belongs, Learned
<1>2. CASE User \/ Wake \/ Tick \/ Apply \/ DropStop
  BY <1>1, <1>2 DEF User, Compose, Confirm, Dismiss, SelectProject, Wake, Tick, Apply, DropStop,
     outsideScreen, workerVars
<1>3. CASE DropShutdown
  <2>1. pipe'.frames = pipe.frames
    BY <1>3 DEF DropShutdown, Inv, TypeOK
  <2>2. pipe = NoPipe => pipe' = NoPipe
    BY <1>3, Shut DEF DropShutdown
  <2> QED  BY <1>3, <2>1, <2>2 DEF DropShutdown, Inv, Belongs, Learned
<1>4. CASE DropJoin
  <2>1. pipe' = NoPipe /\ subscriber' = Nothing
    BY <1>4 DEF DropJoin, Inv, Belongs, workerVars
  <2>2. DOMAIN NoPipe.frames = {}
    <3>1. DOMAIN <<>> = {}
      OBVIOUS
    <3> QED  BY <3>1 DEF NoPipe
  <2>3. known' = 0 /\ revision'[following'] \in Revisions
    BY <1>4 DEF DropJoin, TypeOK
  <2> QED  BY <2>1, <2>2, <2>3 DEF Belongs, Learned, Revisions
<1> QED  BY <1>2, <1>3, <1>4 DEF Interface

LEMMA CallsKept ==
    ASSUME Inv, TypeOK', [Next]_vars
    PROVE  Calls'
<1>1. CASE UNCHANGED <<closing, call, answer, dialog, shown>>
  BY <1>1 DEF Inv, Calls
<1>2. CASE Serve
  <2>1. UNCHANGED <<closing, call, dialog, shown>> /\ call.kind # "none"
    BY <1>2 DEF Serve, Calling, screenVars
  <2>2. answer'.kind \in {"refused", "conflict"} => call.kind = "command"
    BY <1>2 DEF Serve, Answer
  <2>3. answer'.revision \in Revisions
    <3>1. answer'.revision = revision'[client]
      BY <1>2 DEF Serve, Answer
    <3> QED  BY <3>1 DEF Inv, TypeOK
  <2> QED  BY <2>1, <2>2, <2>3 DEF Inv, Calls, NoCall
<1>3. CASE LoseReply \/ NoWorker
  BY <1>3 DEF LoseReply, NoWorker, Calling, Lost, screenVars, Inv, Calls
<1>4. CASE Wake \/ Tick
  BY <1>4 DEF Wake, Tick, Free, Ask, screenVars, Inv, Calls
<1>5. CASE Apply
  <2>1. answer' = NoAnswer /\ UNCHANGED dialog /\ answer.kind # "none"
    BY <1>5 DEF Apply
  <2>2. closing = "no"
    BY <2>1 DEF Inv, Calls, NoCall, NoAnswer
  <2>3. closing' # "no" => call' = NoCall
    BY <1>5, <2>2 DEF Apply
  <2>4. dialog' => shown' # Nothing
    <3>1. CASE answer.kind = "snapshot"
      <4>1. [project |-> client, revision |-> answer.revision]
               \in [project : Projects, revision : Nat]
        BY <3>1 DEF Inv, TypeOK, Calls, Revisions
      <4> QED  BY <1>5, <3>1, <4>1, NothingAssumption DEF Apply
    <3>2. CASE answer.kind # "snapshot"
      BY <1>5, <2>1, <3>2 DEF Apply, Inv, Calls
    <3> QED  BY <3>1, <3>2
  <2> QED  BY <2>1, <2>3, <2>4 DEF Calls, NoAnswer
<1>6. CASE DropStop \/ DropShutdown \/ DropJoin
  BY <1>6 DEF DropStop, DropShutdown, DropJoin, screenVars, Inv, Calls
<1>7. CASE User
  BY <1>7 DEF User, Compose, Confirm, Dismiss, SelectProject, Key, Free, Ask, callVars, Inv, Calls
<1>8. CASE Thread \/ Subscribe \/ Stop \/ Start
           \/ \E p \in Projects, notify \in BOOLEAN : Change(p, notify)
  BY <1>1, <1>8 DEF Thread, Check, Connect, Register, Ack, Listen, Read, Clear, outsideThread,
     Subscribe, Stop, Start, Change, screenVars, callVars
<1>9. CASE UNCHANGED vars
  BY <1>1, <1>9 DEF vars, screenVars, callVars
<1> QED  BY <1>2, <1>3, <1>4, <1>5, <1>6, <1>7, <1>8, <1>9 DEF Next, Worker, Interface

\* A slot emptied means a refresh under way; a refresh brings the screen up to
\* what is known, and what is learned meanwhile fills the slot again.
LEMMA KeptKept ==
    ASSUME Inv, TypeOK', Learned', [Next]_vars
    PROVE  Kept'
<1>0. TypeOK /\ known \in Nat /\ known' \in Nat
  BY DEF Inv, TypeOK
<1>1. CASE UNCHANGED <<token, known, answer, client, following, connected, shown, closing, call>>
  BY <1>1 DEF Inv, Kept
<1>2. CASE Serve
  <2>1. UNCHANGED <<token, known, client, following, connected, shown, closing, call>>
    BY <1>2 DEF Serve, threadVars, screenVars
  <2>2. answer'.revision = revision'[client]
    BY <1>2 DEF Serve, Answer
  <2>3. client = following => answer'.revision >= known
    BY <1>0, <2>1, <2>2 DEF Learned, TypeOK, Revisions
  <2> QED  BY <2>1, <2>3 DEF Inv, Kept
<1>3. CASE LoseReply \/ NoWorker
  <2>1. UNCHANGED <<token, known, client, following, connected, shown, closing, call>>
        /\ answer'.kind = "lost"
    BY <1>3 DEF LoseReply, NoWorker, Lost, threadVars, screenVars
  <2> QED  BY <2>1 DEF Inv, Kept
<1>4. CASE Wake \/ Tick
  <2>1. UNCHANGED <<known, answer, client, following, connected, shown, closing>>
        /\ call'.kind = "snapshot" /\ answer.kind = "none"
    BY <1>4 DEF Wake, Tick, Free, Ask, outsideScreen, screenVars, Inv, Calls, NoAnswer
  <2> QED  BY <2>1 DEF Kept
<1>5. CASE Apply
  <2>1. UNCHANGED <<token, known, client, following>> /\ answer'.kind = "none"
    BY <1>5 DEF Apply, NoAnswer, outsideScreen
  <2>2. CASE answer.kind = "snapshot"
    <3>1. shown' = [project |-> client, revision |-> answer.revision]
      BY <1>5, <2>2 DEF Apply
    <3> QED  BY <2>1, <2>2, <3>1 DEF Inv, Kept
  <2>3. CASE answer.kind = "conflict"
    BY <1>5, <2>1, <2>3 DEF Apply, Ask, Kept
  <2>4. CASE answer.kind = "refused"
    <3>1. UNCHANGED <<shown, connected, closing>> /\ call.kind = "command"
      BY <1>5, <2>4 DEF Apply, Inv, Calls
    <3> QED  BY <2>1, <3>1 DEF Inv, Kept
  <2>5. CASE answer.kind = "lost"
    BY <1>5, <2>1, <2>5 DEF Apply, Kept
  <2> QED  BY <1>5, <2>2, <2>3, <2>4, <2>5 DEF Apply
<1>6. CASE DropStop \/ DropShutdown
  BY <1>6 DEF DropStop, DropShutdown, Kept, Inv, screenVars
<1>7. CASE DropJoin
  <2>1. known' = 0 /\ UNCHANGED <<answer, shown>> /\ answer.kind = "none"
    BY <1>7 DEF DropJoin, screenVars, Inv, Calls, NoAnswer, NoCall
  <2>2. shown' # Nothing => shown'.revision >= 0
    BY DEF TypeOK, Seen, Revisions
  <2> QED  BY <2>1, <2>2 DEF Kept
<1>8. CASE User
  <2>1. UNCHANGED <<token, known, answer, following, connected, shown, closing>>
        /\ answer.kind = "none" /\ call.kind = "none"
    BY <1>8 DEF User, Compose, Confirm, Dismiss, SelectProject, Key, Free, outsideScreen, Inv, Calls,
       NoAnswer, callVars
  <2> QED  BY <2>1 DEF Inv, Kept
<1>9. CASE Thread
  <2>1. UNCHANGED <<answer, client, following, connected, shown, closing, call>>
    BY <1>9 DEF Thread, Check, Connect, Register, Ack, Listen, Read, Clear, outsideThread,
       screenVars, callVars
  <2>2. UNCHANGED <<token, known>> \/ \E r : Learn(r)
    BY <1>9 DEF Thread, Check, Connect, Register, Ack, Listen, Read, Clear
  <2>3. token' \/ UNCHANGED <<token, known>>
    BY <1>0, <2>2 DEF Learn, TypeOK
  <2> QED  BY <2>1, <2>3 DEF Inv, Kept
<1>10. CASE Subscribe \/ Stop \/ Start
            \/ \E p \in Projects, notify \in BOOLEAN : Change(p, notify)
  BY <1>1, <1>10 DEF Subscribe, Stop, Start, Change, threadVars, screenVars, callVars
<1>11. CASE UNCHANGED vars
  BY <1>1, <1>11 DEF vars, threadVars, screenVars, callVars
<1> QED  BY <1>2, <1>3, <1>4, <1>5, <1>6, <1>7, <1>8, <1>9, <1>10, <1>11 DEF Next, Worker, Interface

LEMMA Invariant == Spec => []Inv
<1>1. Init => Inv
  <2> SUFFICES ASSUME Init PROVE Inv
    OBVIOUS
  <2>1. TypeOK
    <3>1. 1 \in Revisions /\ 0 \in 0..MaxRevision /\ 0 \in 0..MaxOutages /\ 0 \in 0..MaxLosses
          /\ 0 \in 0..MaxKeys
      BY BoundsAssumption DEF Revisions
    <3>2. NoPipe \in [open : BOOLEAN, asked : BOOLEAN, frames : Seq(Revisions)]
      BY DEF NoPipe
    <3>3. /\ NoCall \in [kind : {"none", "snapshot", "select", "command"}, expected : 0..MaxRevision]
          /\ NoAnswer \in [kind : {"none", "snapshot", "refused", "conflict", "lost"},
                            revision : 0..MaxRevision]
      BY <3>1 DEF NoCall, NoAnswer
    <3>4. revision \in [Projects -> Revisions]
      BY <3>1 DEF Init
    <3> QED  BY <3>1, <3>2, <3>3, <3>4, ProjectsAssumption DEF Init, TypeOK, Step
  <2>2. DOMAIN <<>> = {}
    OBVIOUS
  <2>3. Belongs /\ Calls /\ Kept
    BY DEF Init, Belongs, Calls, Kept, NoCall, NoAnswer
  <2>4. Learned
    <3>1. revision[following] = 1 /\ known = 0 /\ pipe.frames = <<>>
      BY ProjectsAssumption DEF Init, NoPipe
    <3> QED  BY <2>2, <3>1 DEF Learned
  <2> QED  BY <2>1, <2>3, <2>4 DEF Inv
<1>2. Inv /\ [Next]_vars => Inv'
  <2> SUFFICES ASSUME Inv, [Next]_vars PROVE Inv'
    OBVIOUS
  <2>1. TypeOK'
    BY StepType
  <2>2. Belongs' /\ Learned'
    <3>1. CASE UNCHANGED vars
      BY <3>1 DEF vars, workerVars, threadVars, Inv, Belongs, Learned
    <3> QED  BY <2>1, <3>1, WorkerKeeps, ThreadKeeps, ScreenKeeps DEF Next
  <2>3. Calls' /\ Kept'
    BY <2>1, <2>2, CallsKept, KeptKept
  <2> QED  BY <2>1, <2>2, <2>3 DEF Inv
<1> QED  BY <1>1, <1>2, PTL DEF Spec

\* Every reachable state is well typed, for any instance.
THEOREM TypeCorrect == Spec => []TypeOK
<1>1. Inv => TypeOK
  BY DEF Inv
<1> QED  BY <1>1, Invariant, PTL

\* What the subscription learned reaches the screen, although the slot between
\* them holds one token only, the interface empties it before it asks, answers
\* get lost and the user switches projects in between.
THEOREM NothingForgotten == Spec => []NothingToldIsForgotten
<1>1. Inv => NothingToldIsForgotten
  BY DEF Inv, Kept, NothingToldIsForgotten, Free
<1> QED  BY <1>1, Invariant, PTL
=============================================================================
