-------------------------- MODULE CameraQueueProofs --------------------------
(***************************************************************************)
(* Proofs about CameraQueue, for all projects, shots, bounds and switches: *)
(* with any number of crashes and of failing writes.                       *)
(***************************************************************************)
EXTENDS CameraQueue, TLAPS, SequenceTheorems

-----------------------------------------------------------------------------
(* The inductive invariant, over job files jf, submissions sb, memory m    *)

\* The job has been started, by StartNext; it stays so.
Begun(jf, j) == jf[j].state \notin {"Absent", "Removed", "Queued"}

\* The attempt has gone past the states from which the worker submits.
Recorded(jf, j) == jf[j].attempt \notin {"None", "Prepared"}

\* A job gets its attempt when it starts, and a job the backend accepted,
\* which happens once, is recorded.
JobInv(jf, sb) ==
    \A j \in Jobs : /\ ~Begun(jf, j) => jf[j].attempt = "None"
                    /\ sb[j] # 0 => Recorded(jf, j)
                    /\ sb[j] <= 1

\* The request the executor works on.  Before the submission the backend has
\* not seen the job.
RequestInv(m, jf, sb) ==
    m.request # NoRequest =>
        /\ Begun(jf, m.request.job)
        /\ m.request.kind \in {"Prepare", "Submit"} => sb[m.request.job] = 0
        /\ m.request.kind = "Submit" => Recorded(jf, m.request.job)

\* The events in the channel: only the last one may finish a request, and
\* then the executor has no other request.
EventsInv(m, jf, sb) ==
    \A i \in 1..Len(m.events) :
        /\ Begun(jf, m.events[i].job)
        /\ m.events[i].kind = "Prepared" => sb[m.events[i].job] = 0
        /\ Finishes(m.events[i]) => i = Len(m.events) /\ m.request = NoRequest

RunningInv(m, jf) == m.running # NoJob => Begun(jf, m.running)

BusyInv(m) ==
    m.busy <=> \/ m.request # NoRequest
               \/ \E i \in 1..Len(m.events) : Finishes(m.events[i])

MemInv(m, jf, sb) ==
    /\ RequestInv(m, jf, sb)
    /\ EventsInv(m, jf, sb)
    /\ RunningInv(m, jf)
    /\ BusyInv(m)

Inv == TypeOK /\ JobInv(job, submissions) /\ MemInv(w, job, submissions)

\* What a step may do to the job files: a started job stays started, and a
\* recorded attempt stays recorded.
Grows(jf, jg) ==
    \A j \in Jobs : Begun(jf, j) => /\ Begun(jg, j)
                                    /\ Recorded(jf, j) => Recorded(jg, j)

JobFiles == [Jobs -> JobJournal]

-----------------------------------------------------------------------------
(* Outcomes *)

\* An outcome acknowledges no more writes than took effect, and one that
\* ends well made them all.
LEMMA OutcomeFacts ==
    ASSUME NEW n \in Nat, NEW o \in Outcomes(n)
    PROVE  /\ o.done \in Nat
           /\ o.acked \in Nat
           /\ o.acked <= o.done
           /\ o.done <= n
           /\ o.end = "ok" => o.done = n /\ o.acked = n
  BY DEF Outcomes

\* The counters of crashes and failed writes stay numbers.
LEMMA SpendType ==
    ASSUME TypeOK, NEW o, Spend(o)
    PROVE  crashes' \in Nat /\ faults' \in Nat
  BY DEF Spend, TypeOK

-----------------------------------------------------------------------------
(* Memory *)

\* The memory of no process is a memory.
LEMMA LostType == Lost \in Memory
  <1>1. <<>> \in Seq(Jobs) /\ <<>> \in Seq(Event)
    OBVIOUS
  <1> QED BY <1>1 DEF Lost, Memory

\* A process that died owes nothing, whatever the files say.
LEMMA LostInv ==
    ASSUME NEW jf, NEW sb
    PROVE  MemInv(Lost, jf, sb)
  BY DEF Lost, MemInv, RequestInv, EventsInv, RunningInv, BusyInv, NoJob

\* Job files may grow under a memory.
LEMMA GrowInv ==
    ASSUME NEW m \in Memory, NEW jf, NEW jg, NEW sb,
           MemInv(m, jf, sb), Grows(jf, jg)
    PROVE  MemInv(m, jg, sb)
  <1>1. RequestInv(m, jg, sb)
    <2>1. m.request # NoRequest => m.request.job \in Jobs
      BY DEF Memory, Request
    <2> QED BY <2>1 DEF MemInv, RequestInv, Grows
  <1>2. EventsInv(m, jg, sb)
    <2>1. m.events \in Seq(Event)
      BY DEF Memory
    <2>2. \A i \in 1..Len(m.events) : m.events[i].job \in Jobs
      <3> TAKE i \in 1..Len(m.events)
      <3>1. m.events[i] \in Event
        BY <2>1, ElementOfSeq
      <3> QED BY <3>1 DEF Event
    <2> QED BY <2>2 DEF MemInv, EventsInv, Grows
  <1>3. RunningInv(m, jg)
    BY DEF MemInv, RunningInv, Grows, Memory, NoJob
  <1> QED BY <1>1, <1>2, <1>3 DEF MemInv

\* The part of a memory the invariant speaks of.
LEMMA SameInv ==
    ASSUME NEW m, NEW n, NEW jf, NEW sb, MemInv(m, jf, sb),
           n.request = m.request, n.events = m.events, n.busy = m.busy,
           n.running = m.running \/ n.running = NoJob \/ Begun(jf, n.running)
    PROVE  MemInv(n, jf, sb)
  BY DEF MemInv, RequestInv, EventsInv, RunningInv, BusyInv

\* A free executor owes nothing.
LEMMA IdleFacts ==
    ASSUME NEW m \in Memory, NEW jf, NEW sb, MemInv(m, jf, sb), ~m.busy
    PROVE  /\ m.request = NoRequest
           /\ \A i \in 1..Len(m.events) : ~Finishes(m.events[i])
  BY DEF MemInv, BusyInv

\* A request may be sent when the executor owes nothing.
LEMMA SendInv ==
    ASSUME NEW m \in Memory, NEW jf, NEW sb, MemInv(m, jf, sb), ~m.busy,
           NEW k \in RequestKind, NEW j \in Jobs, Begun(jf, j),
           k \in {"Prepare", "Submit"} => sb[j] = 0,
           k = "Submit" => Recorded(jf, j)
    PROVE  Send(m, k, j) \in Memory /\ MemInv(Send(m, k, j), jf, sb)
  <1> DEFINE n == Send(m, k, j)
  <1>1. n \in Memory
    BY DEF Send, Memory, Request
  <1>2. /\ n.request = [kind |-> k, job |-> j] /\ n.busy = TRUE
        /\ n.events = m.events /\ n.running = m.running
    BY DEF Send, Memory
  <1>3. n.request # NoRequest
    BY <1>2 DEF NoRequest, RequestKind
  <1>4. \A i \in 1..Len(m.events) : ~Finishes(m.events[i])
    BY IdleFacts
  <1> QED
    <2>1. RequestInv(n, jf, sb) BY <1>2, <1>3 DEF RequestInv
    <2>2. EventsInv(n, jf, sb) BY <1>2, <1>4 DEF EventsInv, MemInv
    <2>3. RunningInv(n, jf) BY <1>2 DEF RunningInv, MemInv
    <2>4. BusyInv(n) BY <1>2, <1>3 DEF BusyInv
    <2> QED BY <1>1, <2>1, <2>2, <2>3, <2>4 DEF MemInv

\* The memory after an event, and what is known of the event.
LEMMA HandledInv ==
    ASSUME TypeOK, MemInv(w, job, submissions),
           NEW k, NEW j \in Jobs, Received(k, j)
    PROVE  /\ Handled \in Memory
           /\ MemInv(Handled, job, submissions)
           /\ Begun(job, j)
           /\ k = "Prepared" => submissions[j] = 0 /\ ~Handled.busy
           /\ Handled.running = w.running
           /\ Handled.pending = w.pending
  <1> DEFINE q == w.events
             e == Head(w.events)
             n == Handled
  <1>1. /\ w \in Memory /\ q \in Seq(Event) /\ q # <<>>
        /\ e = [kind |-> k, job |-> j]
    BY DEF TypeOK, Received, Memory
  <1>2. /\ Len(q) \in Nat /\ Len(q) > 0 /\ e = q[1]
        /\ Tail(q) \in Seq(Event)
        /\ Len(Tail(q)) = Len(q) - 1
        /\ \A i \in 1..Len(Tail(q)) : Tail(q)[i] = q[i + 1]
    <2>1. Tail(q) \in Seq(Event) /\ Len(Tail(q)) = Len(q) - 1
          /\ \A i \in 1..Len(Tail(q)) : Tail(q)[i] = q[i + 1]
      BY <1>1, HeadTailProperties
    <2>2. Len(q) \in Nat /\ Len(q) > 0 /\ e = q[1]
      BY <1>1
    <2> QED BY <2>1, <2>2
  <1>3. /\ n.events = Tail(q) /\ n.request = w.request /\ n.running = w.running
        /\ n.pending = w.pending
        /\ n.busy <=> (w.busy /\ ~Finishes(e))
    BY <1>1 DEF Handled, Memory
  <1>4. n \in Memory
    BY <1>1, <1>2 DEF Handled, Memory
  <1>5. /\ Begun(job, j)
        /\ k = "Prepared" => submissions[j] = 0
        /\ Finishes(e) => Len(q) = 1 /\ w.request = NoRequest
    <2>1. 1 \in 1..Len(q) /\ q[1].kind = k /\ q[1].job = j /\ e = q[1]
      BY <1>1, <1>2
    <2>2. EventsInv(w, job, submissions)
      BY DEF MemInv
    <2> HIDE DEF e
    <2> QED BY <2>1, <2>2 DEF EventsInv
  <1>6. RequestInv(n, job, submissions)
    BY <1>3 DEF RequestInv, MemInv
  <1>7. EventsInv(n, job, submissions)
    <2> SUFFICES ASSUME NEW i \in 1..Len(n.events)
                 PROVE  /\ Begun(job, n.events[i].job)
                        /\ n.events[i].kind = "Prepared" => submissions[n.events[i].job] = 0
                        /\ Finishes(n.events[i]) => i = Len(n.events) /\ n.request = NoRequest
      BY DEF EventsInv
    <2>1. /\ i + 1 \in 1..Len(q) /\ n.events[i] = q[i + 1]
          /\ i + 1 = Len(q) => i = Len(n.events)
      BY <1>2, <1>3
    <2> QED BY <2>1, <1>3 DEF EventsInv, MemInv
  <1>8. RunningInv(n, job)
    BY <1>3 DEF RunningInv, MemInv
  <1>9. BusyInv(n)
    <2>1. CASE Finishes(e)
      <3>1. Len(n.events) = 0
        BY <2>1, <1>2, <1>3, <1>5
      <3> QED BY <3>1, <2>1, <1>3, <1>5 DEF BusyInv
    <2>2. CASE ~Finishes(e)
      <3>1. (\E i \in 1..Len(q) : Finishes(q[i])) <=> (\E i \in 1..Len(Tail(q)) : Finishes(Tail(q)[i]))
        <4>1. ASSUME NEW i \in 1..Len(q), Finishes(q[i])
              PROVE  \E l \in 1..Len(Tail(q)) : Finishes(Tail(q)[l])
          <5>1. i # 1 BY <2>2, <4>1, <1>2
          <5>2. i - 1 \in 1..Len(Tail(q)) /\ Tail(q)[i - 1] = q[i]
            BY <5>1, <1>2
          <5> QED BY <5>2, <4>1
        <4>2. ASSUME NEW l \in 1..Len(Tail(q)), Finishes(Tail(q)[l])
              PROVE  \E i \in 1..Len(q) : Finishes(q[i])
          <5>1. l + 1 \in 1..Len(q) /\ Tail(q)[l] = q[l + 1] BY <1>2
          <5> QED BY <5>1, <4>2
        <4> QED BY <4>1, <4>2
      <3> QED BY <3>1, <2>2, <1>3 DEF BusyInv, MemInv
    <2> QED BY <2>1, <2>2
  <1>10. k = "Prepared" => ~n.busy
    BY <1>1, <1>3 DEF Finishes
  <1> QED BY <1>3, <1>4, <1>5, <1>6, <1>7, <1>8, <1>9, <1>10 DEF MemInv

\* The executor reports an event and turns to its next request, if any; the
\* job it works on may have been submitted meanwhile.
LEMMA ReportInv ==
    ASSUME TypeOK, MemInv(w, job, submissions), w.request # NoRequest,
           NEW k \in EventKind, NEW r, NEW sb,
           \/ r = NoRequest /\ k # "Submitted"
           \/ r = [kind |-> "Monitor", job |-> w.request.job] /\ k = "Submitted",
           k = "Prepared" => sb[w.request.job] = 0
    PROVE  Report(k, r) \in Memory /\ MemInv(Report(k, r), job, sb)
  <1> DEFINE j == w.request.job
             q == w.events
             e == [kind |-> k, job |-> j]
             n == Report(k, r)
  <1>1. w \in Memory /\ q \in Seq(Event) /\ j \in Jobs /\ w.running \in Jobs \cup {NoJob}
    BY DEF TypeOK, Memory, Request
  <1>2. e \in Event
    BY <1>1 DEF Event
  <1>3. /\ Append(q, e) \in Seq(Event)
        /\ Len(q) \in Nat
        /\ Len(Append(q, e)) = Len(q) + 1
        /\ \A i \in 1..Len(q) : Append(q, e)[i] = q[i]
        /\ Append(q, e)[Len(q) + 1] = e
    BY <1>1, <1>2, AppendProperties, LenProperties
  <1>4. /\ n.events = Append(q, e) /\ n.request = r /\ n.running = w.running
        /\ n.busy <=> w.busy
    BY <1>1 DEF Report, Memory
  <1>5. r \in Request \cup {NoRequest}
    BY <1>1 DEF Request, RequestKind
  <1>6. n \in Memory
    <2>1. n = [w EXCEPT !.events = Append(q, e), !.request = r]
      BY DEF Report
    <2>2. Append(q, e) \in Seq(Event)
      BY <1>3
    <2> HIDE DEF n, e
    <2> QED BY <1>1, <2>1, <2>2, <1>5 DEF Memory
  <1>7. /\ w.busy /\ Begun(job, j)
        /\ \A i \in 1..Len(q) : Begun(job, q[i].job) /\ ~Finishes(q[i])
    BY DEF MemInv, RequestInv, EventsInv, BusyInv
  <1>8. Finishes(e) <=> k # "Submitted"
    BY DEF Finishes
  <1>9. r # NoRequest => k = "Submitted" /\ r.kind = "Monitor" /\ r.job = j
    OBVIOUS
  <1>10. RequestInv(n, job, sb)
    BY <1>4, <1>7, <1>9 DEF RequestInv
  <1>11. EventsInv(n, job, sb)
    <2> SUFFICES ASSUME NEW i \in 1..Len(n.events)
                 PROVE  /\ Begun(job, n.events[i].job)
                        /\ n.events[i].kind = "Prepared" => sb[n.events[i].job] = 0
                        /\ Finishes(n.events[i]) => i = Len(n.events) /\ n.request = NoRequest
      BY DEF EventsInv
    <2>1. CASE i = Len(q) + 1
      <3>1. n.events[i] = e /\ i = Len(n.events)
        BY <2>1, <1>3, <1>4
      <3>2. k # "Submitted" => r = NoRequest
        BY <1>9
      <3> QED BY <3>1, <3>2, <1>4, <1>7, <1>8
    <2>2. CASE i \in 1..Len(q)
      <3>1. n.events[i] = q[i]
        BY <2>2, <1>3, <1>4
      <3>2. ~Finishes(q[i]) /\ q[i].kind # "Prepared"
        BY <2>2, <1>7 DEF Finishes
      <3> QED BY <2>2, <3>1, <3>2, <1>7
    <2> QED BY <1>3, <1>4, <2>1, <2>2
  <1>12. RunningInv(n, job)
    BY <1>4 DEF RunningInv, MemInv
  <1>13. BusyInv(n)
    <2>1. CASE k = "Submitted"
      BY <2>1, <1>4, <1>7 DEF BusyInv, NoRequest
    <2>2. CASE k # "Submitted"
      <3>1. Len(q) + 1 \in 1..Len(n.events) /\ n.events[Len(q) + 1] = e
        BY <1>3, <1>4
      <3> QED BY <3>1, <2>2, <1>4, <1>7, <1>8 DEF BusyInv
    <2> QED BY <2>1, <2>2
  <1> QED BY <1>6, <1>10, <1>11, <1>12, <1>13 DEF MemInv

-----------------------------------------------------------------------------
(* Shots *)

\* What the handlers write into a shot's state is a shot's state.
LEMMA ShotTypes ==
    ASSUME NEW sh \in ShotRuntime, NEW j \in Jobs, NEW jf, NEW t \in Nat
    PROVE  /\ RegisterCandidate(jf, sh, j) \in ShotRuntime
           /\ FailShot(sh) \in ShotRuntime
           /\ [FailShot(sh) EXCEPT !.stage = "Pending"] \in ShotRuntime
           /\ CancelShot(sh) \in ShotRuntime
           /\ EnqueueShot(sh, j, t) \in ShotRuntime
  <1>1. RegisterCandidate(jf, sh, j) \in ShotRuntime
    <2> DEFINE next == [sh EXCEPT !.stage = "CandidatesReady", !.active = NoJob,
                                  !.takes = @ \cup {j}, !.choice = TRUE]
    <2>1. next \in ShotRuntime
      BY DEF ShotRuntime, ShotStage
    <2> HIDE DEF next
    <2>2. [next EXCEPT !.target = IF @ <= Used(jf, next, jf[j].kind) THEN 0 ELSE @] \in ShotRuntime
      BY <2>1 DEF ShotRuntime
    <2> QED BY <2>2 DEF RegisterCandidate, next
  <1>2. FailShot(sh) \in ShotRuntime
    BY DEF FailShot, ShotRuntime, ShotStage
  <1>3. [FailShot(sh) EXCEPT !.stage = "Pending"] \in ShotRuntime
    BY <1>2 DEF ShotRuntime, ShotStage
  <1>4. CancelShot(sh) \in ShotRuntime
    BY DEF CancelShot, ShotRuntime, ShotStage
  <1>5. EnqueueShot(sh, j, t) \in ShotRuntime
    BY DEF EnqueueShot, ShotRuntime, ShotStage
  <1> QED BY <1>1, <1>2, <1>3, <1>4, <1>5

\* Recovering the shots of any projects keeps them shots.
LEMMA RecoverType ==
    ASSUME TypeOK, NEW R
    PROVE  RecoverShots(R) \in [Shots -> ShotRuntime]
  <1>1. ASSUME NEW s \in Shots
        PROVE  RecoverShot(shot[s]) \in ShotRuntime
    <2>1. shot[s] \in ShotRuntime
      BY DEF TypeOK
    <2>2. shot[s].active # NoJob => shot[s].active \in Jobs
      BY <2>1 DEF ShotRuntime
    <2> QED BY <2>1, <2>2, ShotTypes DEF RecoverShot
  <1> QED BY <1>1 DEF RecoverShots, TypeOK

-----------------------------------------------------------------------------
(* Job files *)

\* Writing one started job.
LEMMA UpdateInv ==
    ASSUME NEW jf \in JobFiles, NEW sb, JobInv(jf, sb), NEW j \in Jobs, NEW g \in JobFiles,
           \A i \in Jobs : i # j => g[i] = jf[i],
           Begun(g, j),
           Recorded(jf, j) \/ sb[j] # 0 => Recorded(g, j)
    PROVE  JobInv(g, sb) /\ Grows(jf, g)
  BY DEF JobInv, Grows, Begun, Recorded

\* Journalling a new job.
LEMMA JournaledInv ==
    ASSUME NEW jf \in JobFiles, NEW sb, JobInv(jf, sb), NEW o, NEW b,
           NEW j \in Jobs, jf[j].state = "Absent",
           NEW s \in Shots \cup {NoShot}, NEW k \in Kind
    PROVE  /\ Journaled(jf, o, b, j, s, k) \in JobFiles
           /\ JobInv(Journaled(jf, o, b, j, s, k), sb)
           /\ Grows(jf, Journaled(jf, o, b, j, s, k))
  <1> DEFINE g == Journaled(jf, o, b, j, s, k)
  <1>1. /\ QueuedJob(s, k) \in JobJournal
        /\ [QueuedJob(s, k) EXCEPT !.state = "Removed"] \in JobJournal
    BY DEF QueuedJob, JobJournal, JobState, AttemptState
  <1>2. g \in JobFiles
    BY <1>1 DEF Journaled, JobFiles
  <1>3. /\ \A i \in Jobs : i # j => g[i] = jf[i]
        /\ \/ g[j] = jf[j]
           \/ g[j].state \in {"Queued", "Removed"} /\ g[j].attempt = "None"
    BY DEF Journaled, JobFiles, QueuedJob
  <1>4. sb[j] = 0 /\ ~Begun(jf, j)
    BY DEF JobInv, Begun, Recorded
  <1> QED BY <1>2, <1>3, <1>4 DEF JobInv, Grows, Begun, Recorded

-----------------------------------------------------------------------------
(* The queue in memory *)

\* A queue with one entry removed is a queue.
LEMMA RemoveAtType ==
    ASSUME NEW S, NEW q \in Seq(S), NEW i \in 1..Len(q)
    PROVE  RemoveAt(q, i) \in Seq(S)
  <1>1. Len(q) \in Nat /\ \A l \in 1..Len(q) : q[l] \in S
    BY LenProperties, ElementOfSeq
  <1>2. SubSeq(q, 1, i - 1) \in Seq(S)
    BY <1>1, SubSeqProperties
  <1>3. SubSeq(q, i + 1, Len(q)) \in Seq(S)
    BY <1>1, SubSeqProperties
  <1> QED BY <1>2, <1>3, ConcatProperties DEF RemoveAt

\* A rebuilt queue holds jobs, keeps the memory's dealings with the
\* executor, and takes only a started job for the running one.
LEMMA RebuiltFacts ==
    ASSUME NEW m \in Memory, NEW sh \in [Shots -> ShotRuntime], NEW n \in Rebuilt(m, sh)
    PROVE  /\ n \in Memory
           /\ n.request = m.request /\ n.events = m.events /\ n.busy = m.busy
           /\ n.running = NoJob \/ Begun(job, n.running)
  <1>1. \A states : Claimed(sh, states) \subseteq Jobs
    BY DEF Claimed, ShotRuntime
  <1>2. PICK r \in RunningChoices(sh) :
          \E q \in Sorted(Claimed(sh, {"Queued", "Active", "Blocked"}) \ {r}) :
             n = [m EXCEPT !.running = r, !.pending = q]
    BY DEF Rebuilt
  <1>3. PICK q \in Sorted(Claimed(sh, {"Queued", "Active", "Blocked"}) \ {r}) :
             n = [m EXCEPT !.running = r, !.pending = q]
    BY <1>2
  <1>4. r \in Claimed(sh, {"Active", "Blocked"}) \cup {NoJob}
    BY DEF RunningChoices
  <1>5. r \in Jobs \cup {NoJob} /\ (r = NoJob \/ Begun(job, r))
    BY <1>1, <1>4 DEF Claimed, Begun
  <1>6. q \in Seq(Jobs)
    <2>1. PICK l \in 0..MaxJobs : q \in [1..l -> Claimed(sh, {"Queued", "Active", "Blocked"}) \ {r}]
      BY <1>3 DEF Sorted
    <2>2. q \in [1..l -> Jobs] /\ l \in Nat
      BY <2>1, <1>1, BoundsAssumption
    <2> QED BY <2>2, SeqDef
  <1>7. n \in Memory
    BY <1>3, <1>5, <1>6 DEF Memory
  <1>8. n.request = m.request /\ n.events = m.events /\ n.busy = m.busy /\ n.running = r
    BY <1>3 DEF Memory
  <1> QED BY <1>5, <1>7, <1>8

-----------------------------------------------------------------------------
(* Steps.  Each action preserves Inv. *)

\* After a handler, the process died or it has the memory the handler left.
LEMMA AfterInv ==
    ASSUME NEW o, NEW m \in Memory, NEW jf, NEW sb, MemInv(m, jf, sb)
    PROVE  After(o, m) \in Memory /\ MemInv(After(o, m), jf, sb)
  BY LostType, LostInv DEF After

\* A step that submits nothing preserves the invariant when it keeps the
\* types, lets the job files grow, and leaves a memory that fits them.
LEMMA StepInv ==
    ASSUME Inv,
           job' \in JobFiles, JobInv(job', submissions), Grows(job, job'),
           w' \in Memory,
           MemInv(w', job, submissions) \/ MemInv(w', job', submissions),
           shot' \in [Shots -> ShotRuntime],
           takeFiles' \subseteq Jobs,
           projectPaused' \in [Projects -> BOOLEAN],
           queuePaused' \in BOOLEAN,
           backend' \in [Jobs -> BackendState],
           submissions' = submissions,
           crashes' \in Nat, faults' \in Nat
    PROVE  Inv'
  <1>1. MemInv(w', job', submissions')
    BY GrowInv
  <1>2. TypeOK'
    BY DEF Inv, TypeOK, JobFiles
  <1> QED BY <1>1, <1>2 DEF Inv

\* A new entry at the end of the queue.
LEMMA AppendInv ==
    ASSUME NEW m \in Memory, NEW jf, NEW sb, MemInv(m, jf, sb), NEW j \in Jobs
    PROVE  /\ [m EXCEPT !.pending = Append(@, j)] \in Memory
           /\ MemInv([m EXCEPT !.pending = Append(@, j)], jf, sb)
  <1> DEFINE n == [m EXCEPT !.pending = Append(@, j)]
  <1>1. m.pending \in Seq(Jobs)
    BY DEF Memory
  <1>2. Append(m.pending, j) \in Seq(Jobs)
    BY <1>1
  <1>3. n \in Memory
    BY <1>2 DEF Memory
  <1>4. /\ n.request = m.request /\ n.events = m.events /\ n.busy = m.busy
        /\ n.running = m.running
    BY DEF Memory
  <1> QED BY <1>3, <1>4, SameInv

\* The job files when a step leaves them alone.
LEMMA SameFiles ==
    ASSUME Inv, job' = job
    PROVE  job' \in JobFiles /\ JobInv(job', submissions) /\ Grows(job, job')
  BY DEF Inv, TypeOK, JobFiles, Grows

\* Writing the file of a started job.
LEMMA WriteInv ==
    ASSUME Inv, NEW j \in Jobs, NEW g \in JobJournal,
           job' = [job EXCEPT ![j] = g],
           g.state \notin {"Absent", "Removed", "Queued"},
           Recorded(job, j) \/ submissions[j] # 0 => g.attempt \notin {"None", "Prepared"}
    PROVE  job' \in JobFiles /\ JobInv(job', submissions) /\ Grows(job, job')
  <1>1. job \in JobFiles /\ JobInv(job, submissions)
    BY DEF Inv, TypeOK, JobFiles
  <1>2. job' \in JobFiles
    BY <1>1 DEF JobFiles
  <1>3. job'[j] = g /\ \A i \in Jobs : i # j => job'[i] = job[i]
    BY <1>1 DEF JobFiles
  <1>4. Begun(job', j) /\ (Recorded(job, j) \/ submissions[j] # 0 => Recorded(job', j))
    BY <1>3 DEF Begun, Recorded
  <1> QED BY <1>1, <1>2, <1>3, <1>4, UpdateInv

\* What the handlers write into a job file.
LEMMA JobTypes ==
    ASSUME NEW g \in JobJournal, NEW st \in JobState, NEW at \in AttemptState
    PROVE  /\ [g EXCEPT !.state = st] \in JobJournal
           /\ [g EXCEPT !.attempt = at] \in JobJournal
           /\ [g EXCEPT !.state = st, !.attempt = at] \in JobJournal
           /\ [g EXCEPT !.attempt = at, !.backendId = TRUE] \in JobJournal
  BY DEF JobJournal

\* A new job has no attempt and the backend has not seen it.
LEMMA EnqueueInv ==
    ASSUME Inv, NEW s \in Shots, NEW k \in Kind, NEW t \in {0, 1, AuditionTakes},
           NEW j \in Fresh, NEW o \in Outcomes(2), Enqueue(s, k, t, j, o)
    PROVE  Inv'
  <1> USE DEF Inv
  <1>1. j \in Jobs /\ job[j].state = "Absent"
    BY DEF Fresh
  <1>2. job' \in JobFiles /\ JobInv(job', submissions) /\ Grows(job, job')
    BY <1>1, JournaledInv DEF Enqueue, TypeOK, JobFiles
  <1>3. shot' \in [Shots -> ShotRuntime]
    <2>1. shot[s] \in ShotRuntime /\ t \in Nat
      BY BoundsAssumption DEF TypeOK
    <2>2. EnqueueShot(shot[s], j, t) \in ShotRuntime
      BY <1>1, <2>1, ShotTypes
    <2> QED BY <2>2 DEF Enqueue, TypeOK
  <1>4. w' \in Memory /\ MemInv(w', job, submissions)
    <2> DEFINE m == [w EXCEPT !.pending = Append(@, j)]
    <2>1. m \in Memory /\ MemInv(m, job, submissions)
      BY <1>1, AppendInv DEF TypeOK
    <2> HIDE DEF m
    <2>2. w \in Memory /\ w' = After(o, IF o.end = "ok" THEN m ELSE w)
      BY DEF Enqueue, TypeOK, m
    <2> QED BY <2>1, <2>2, AfterInv
  <1>5. crashes' \in Nat /\ faults' \in Nat
    BY SpendType DEF Enqueue
  <1> QED BY <1>2, <1>3, <1>4, <1>5, StepInv DEF Enqueue, TypeOK

\* Selecting a take touches no job.
LEMMA SelectTakeInv ==
    ASSUME Inv, NEW s \in Shots, SelectTake(s)
    PROVE  Inv'
  <1> USE DEF Inv
  <1>1. shot' \in [Shots -> ShotRuntime]
    <2> DEFINE sh == [shot[s] EXCEPT !.selected = TRUE, !.target = 0,
                                     !.stage = "Selected", !.choice = FALSE]
    <2>1. sh \in ShotRuntime
      BY DEF TypeOK, ShotRuntime, ShotStage
    <2>2. shot' = [shot EXCEPT ![s] = sh]
      BY DEF SelectTake
    <2> HIDE DEF sh
    <2> QED BY <2>1, <2>2 DEF TypeOK
  <1> QED BY <1>1, SameFiles, StepInv DEF SelectTake, TypeOK

\* Pausing or resuming touches no job.
LEMMA PausesInv ==
    ASSUME Inv, NEW b \in BOOLEAN,
           (\E p \in Projects : SetProjectPaused(p, b)) \/ SetQueuePaused(b)
    PROVE  Inv'
  <1> USE DEF Inv
  <1>1. projectPaused' \in [Projects -> BOOLEAN]
    BY DEF SetProjectPaused, SetQueuePaused, TypeOK
  <1> QED BY <1>1, SameFiles, StepInv DEF SetProjectPaused, SetQueuePaused, TypeOK

\* A cancelled pending job has no attempt.
LEMMA CancelPendingInv ==
    ASSUME Inv, NEW i \in DOMAIN w.pending, NEW o \in Outcomes(3), CancelPending(i, o)
    PROVE  Inv'
  <1> USE DEF Inv
  <1> DEFINE j == w.pending[i]
             m == [w EXCEPT !.pending = RemoveAt(@, i)]
  <1>1. /\ w \in Memory /\ w.pending \in Seq(Jobs) /\ i \in 1..Len(w.pending)
        /\ j \in Jobs
    <2>1. w \in Memory /\ w.pending \in Seq(Jobs)
      BY DEF TypeOK, Memory
    <2>2. i \in 1..Len(w.pending)
      BY <2>1
    <2> QED BY <2>1, <2>2, ElementOfSeq
  <1>2. job' \in JobFiles /\ JobInv(job', submissions) /\ Grows(job, job')
    <2>1. CASE o.done >= 1
      <3>1. job' = [job EXCEPT ![j].state = "Cancelled"] /\ job[j].state = "Queued"
        BY <2>1 DEF CancelPending
      <3>2. job' \in JobFiles
        <4>1. [job[j] EXCEPT !.state = "Cancelled"] \in JobJournal
          BY <1>1, JobTypes DEF TypeOK, JobState, AttemptState
        <4> HIDE DEF j
        <4>2. job' = [job EXCEPT ![j] = [job[j] EXCEPT !.state = "Cancelled"]]
          BY <3>1
        <4> QED BY <1>1, <4>1, <4>2 DEF TypeOK, JobFiles
      <3>3. /\ \A l \in Jobs : l # j => job'[l] = job[l]
            /\ job'[j].state = "Cancelled" /\ job'[j].attempt = job[j].attempt
        BY <1>1, <3>1 DEF TypeOK, JobJournal
      <3> QED BY <1>1, <3>1, <3>2, <3>3 DEF JobInv, Grows, Begun, Recorded
    <2>2. CASE ~(o.done >= 1)
      BY <2>2, SameFiles DEF CancelPending
    <2> QED BY <2>1, <2>2
  <1>3. shot' \in [Shots -> ShotRuntime]
    <2>1. \A s \in Shots : CancelShot(shot[s]) \in ShotRuntime
      BY <1>1, ShotTypes DEF TypeOK
    <2> QED BY <2>1 DEF CancelPending, TypeOK
  <1>4. w' \in Memory /\ MemInv(w', job, submissions)
    <2>1. m \in Memory /\ MemInv(m, job, submissions)
      <3>1. RemoveAt(w.pending, i) \in Seq(Jobs)
        BY <1>1, RemoveAtType
      <3>2. m \in Memory
        BY <1>1, <3>1 DEF Memory
      <3>3. /\ m.request = w.request /\ m.events = w.events /\ m.busy = w.busy
            /\ m.running = w.running
        BY <1>1 DEF Memory
      <3> QED BY <3>2, <3>3, SameInv
    <2> HIDE DEF m
    <2>2. w' = After(o, IF o.end = "ok" THEN m ELSE w)
      BY DEF CancelPending, m
    <2> QED BY <1>1, <2>1, <2>2, AfterInv
  <1>5. crashes' \in Nat /\ faults' \in Nat
    BY SpendType DEF CancelPending
  <1> QED BY <1>2, <1>3, <1>4, <1>5, StepInv DEF CancelPending, TypeOK

\* Cancelling the running job leaves its attempt recorded and the executor's
\* debt as it was.
LEMMA CancelRunningInv ==
    ASSUME Inv, NEW o \in Outcomes(3), CancelRunning(o)
    PROVE  Inv'
  <1> USE DEF Inv
  <1> DEFINE j == w.running
             g == [job[j] EXCEPT !.state = "Cancelled", !.attempt = "Cancelled"]
             m == [w EXCEPT !.running = NoJob, !.cancelling = @ \cup {j}]
  <1>1. w \in Memory /\ j \in Jobs /\ g \in JobJournal
    <2>1. w \in Memory /\ j \in Jobs
      BY DEF TypeOK, Memory, CancelRunning
    <2>2. g \in JobJournal
      BY <2>1, JobTypes DEF TypeOK, JobState, AttemptState
    <2> QED BY <2>1, <2>2
  <1>2. job' \in JobFiles /\ JobInv(job', submissions) /\ Grows(job, job')
    <2>1. CASE o.done >= 1
      <3>1. job' = [job EXCEPT ![j] = g]
        BY <2>1, <1>1 DEF CancelRunning, TypeOK, JobJournal
      <3>2. g.state = "Cancelled" /\ g.attempt = "Cancelled"
        BY <1>1 DEF TypeOK, JobJournal
      <3> HIDE DEF g, j
      <3> QED BY <1>1, <3>1, <3>2, WriteInv
    <2>2. CASE ~(o.done >= 1)
      BY <2>2, SameFiles DEF CancelRunning
    <2> QED BY <2>1, <2>2
  <1>3. shot' \in [Shots -> ShotRuntime]
    <2>1. \A s \in Shots : CancelShot(shot[s]) \in ShotRuntime
      BY <1>1, ShotTypes DEF TypeOK
    <2> QED BY <2>1 DEF CancelRunning, TypeOK
  <1>4. w' \in Memory /\ MemInv(w', job, submissions)
    <2>1. m \in Memory /\ MemInv(m, job, submissions)
      <3>1. m \in Memory
        BY <1>1 DEF Memory, NoJob
      <3>2. /\ m.request = w.request /\ m.events = w.events /\ m.busy = w.busy
            /\ m.running = NoJob
        BY <1>1 DEF Memory
      <3> QED BY <3>1, <3>2, SameInv
    <2> HIDE DEF m
    <2>2. w' = After(o, IF o.end = "ok" THEN m ELSE w)
      BY DEF CancelRunning, m
    <2> QED BY <1>1, <2>1, <2>2, AfterInv
  <1>5. backend' \in [Jobs -> BackendState]
    BY DEF CancelRunning, Interrupted, TypeOK, BackendState
  <1>6. crashes' \in Nat /\ faults' \in Nat
    BY SpendType DEF CancelRunning
  <1> QED BY <1>2, <1>3, <1>4, <1>5, <1>6, StepInv DEF CancelRunning, TypeOK

\* The files of a rebuild keep their types.
LEMMA RebuildType ==
    ASSUME TypeOK, NEW R, NEW end, RebuildShots(R, end)
    PROVE  /\ shot' \in [Shots -> ShotRuntime]
           /\ shot' = RecoverShots(R)
           /\ crashes' \in Nat /\ faults' \in Nat
  BY RecoverType DEF RebuildShots, TypeOK

\* A new process starts with a free executor and no request.
LEMMA BootInv ==
    ASSUME Inv, NEW R, NEW end, Boot(R, end)
    PROVE  Inv'
  <1> USE DEF Inv
  <1> DEFINE m == [Lost EXCEPT !.phase = "resuming"]
  <1>1. RebuildShots(R, end)
    BY DEF Boot
  <1>2. /\ m \in Memory
        /\ m.request = NoRequest /\ m.events = <<>> /\ m.busy = FALSE
    <2>1. m \in Memory
      BY LostType DEF Memory
    <2>2. m.request = NoRequest /\ m.events = <<>> /\ m.busy = FALSE
      BY DEF Lost
    <2> QED BY <2>1, <2>2
  <1>3. w' \in Memory /\ MemInv(w', job, submissions)
    <2>1. CASE w' = Lost
      BY <2>1, LostType, LostInv
    <2>2. CASE w' \in Rebuilt(m, RecoverShots(R))
      <3>1. /\ w' \in Memory
            /\ w'.request = m.request /\ w'.events = m.events /\ w'.busy = m.busy
            /\ w'.running = NoJob \/ Begun(job, w'.running)
        <4> HIDE DEF m
        <4> QED BY <1>1, <1>2, <2>2, RebuildType, RebuiltFacts
      <3> HIDE DEF m
      <3> QED BY <3>1, <1>2 DEF MemInv, RequestInv, EventsInv, RunningInv, BusyInv
    <2> QED BY <2>1, <2>2 DEF Boot
  <1> QED BY <1>1, <1>3, SameFiles, RebuildType, StepInv DEF RebuildShots, TypeOK

\* An audition scheduled at startup is a new job, as in EnqueueInv.
LEMMA ResumeAuditionInv ==
    ASSUME Inv, NEW s \in Shots, NEW j \in Fresh, NEW o \in Outcomes(2),
           ResumeAudition(s, j, o)
    PROVE  Inv'
  <1> USE DEF Inv
  <1>1. j \in Jobs /\ job[j].state = "Absent"
    BY DEF Fresh
  <1>2. job' \in JobFiles /\ JobInv(job', submissions) /\ Grows(job, job')
    BY <1>1, JournaledInv DEF ResumeAudition, TypeOK, JobFiles, Kind
  <1>3. shot' \in [Shots -> ShotRuntime]
    <2>1. shot[s] \in ShotRuntime /\ shot[s].target \in Nat
      BY DEF TypeOK, ShotRuntime
    <2>2. EnqueueShot(shot[s], j, shot[s].target) \in ShotRuntime
      BY <1>1, <2>1, ShotTypes
    <2> QED BY <2>2 DEF ResumeAudition, TypeOK
  <1>4. w' \in Memory /\ MemInv(w', job, submissions)
    <2> DEFINE m == [w EXCEPT !.pending = Append(@, j)]
    <2>1. m \in Memory /\ MemInv(m, job, submissions)
      BY <1>1, AppendInv DEF TypeOK
    <2> HIDE DEF m
    <2>2. w' = IF o.end = "ok" THEN m ELSE Lost
      BY DEF ResumeAudition, m
    <2> QED BY <2>1, <2>2, LostType, LostInv
  <1>5. crashes' \in Nat /\ faults' \in Nat
    BY SpendType DEF ResumeAudition
  <1> QED BY <1>2, <1>3, <1>4, <1>5, StepInv DEF ResumeAudition, TypeOK

\* Opening changes only the phase; a crash loses the memory.
LEMMA OpenCrashInv ==
    ASSUME Inv, Open \/ Crash
    PROVE  Inv'
  <1> USE DEF Inv
  <1>1. w' \in Memory /\ MemInv(w', job, submissions)
    <2>1. CASE Open
      <3>1. w \in Memory /\ w' = [w EXCEPT !.phase = "serving"]
        BY <2>1 DEF Open, TypeOK
      <3>2. w' \in Memory
        BY <3>1 DEF Memory
      <3>3. /\ w'.request = w.request /\ w'.events = w.events /\ w'.busy = w.busy
            /\ w'.running = w.running
        BY <3>1 DEF Memory
      <3> QED BY <3>2, <3>3, SameInv
    <2>2. CASE Crash
      BY <2>2, LostType, LostInv DEF Crash
    <2> QED BY <2>1, <2>2
  <1>2. crashes' \in Nat
    BY DEF Open, Crash, TypeOK
  <1> QED BY <1>1, <1>2, SameFiles, StepInv DEF Open, Crash, TypeOK

-----------------------------------------------------------------------------
(* Dispatch *)

\* A starting job was queued, so the backend has not seen it when its
\* preparation is requested.
LEMMA StartNextInv ==
    ASSUME Inv, NEW i \in DOMAIN w.pending, NEW fits \in Contexts,
           NEW o, o \in Outcomes(3) \/ o \in Outcomes(4), StartNext(i, fits, o)
    PROVE  Inv'
  <1> USE DEF Inv
  <1> DEFINE j == w.pending[i]
             st == IF o.done = 4 THEN "Blocked" ELSE "Active"
             started == [w EXCEPT !.running = j, !.pending = RemoveAt(@, i)]
  <1>1. /\ w \in Memory /\ w.pending \in Seq(Jobs) /\ i \in 1..Len(w.pending)
        /\ j \in Jobs
    <2>1. w \in Memory /\ w.pending \in Seq(Jobs)
      BY DEF TypeOK, Memory
    <2>2. i \in 1..Len(w.pending)
      BY <2>1
    <2> QED BY <2>1, <2>2, ElementOfSeq
  <1>2. /\ o.done \in Nat /\ o.acked \in Nat /\ o.acked <= o.done
    BY OutcomeFacts
  <1>3. /\ job[j].state = "Queued" /\ job[j].attempt = "None" /\ submissions[j] = 0
        /\ ~w.busy
    BY <1>1 DEF StartNext, MayDispatch, JobInv, Begun, Recorded
  <1>4. job' \in JobFiles /\ JobInv(job', submissions) /\ Grows(job, job')
    <2>1. CASE o.done = 0
      BY <2>1, SameFiles DEF StartNext
    <2>2. CASE o.done # 0
      <3> DEFINE g == [job[j] EXCEPT !.state = st, !.attempt = "Prepared"]
      <3>1. g \in JobJournal
        BY <1>1, JobTypes DEF TypeOK, JobState, AttemptState
      <3>2. job' = [job EXCEPT ![j] = g]
        BY <2>2, <1>1 DEF StartNext, TypeOK, JobJournal
      <3>3. \A l \in Jobs : l # j => job'[l] = job[l]
        BY <1>1, <3>2 DEF TypeOK
      <3>4. job'[j].state = st
        BY <1>1, <3>2 DEF TypeOK, JobJournal
      <3>5. job' \in JobFiles
        <4> HIDE DEF g, j
        <4> QED BY <1>1, <3>1, <3>2 DEF JobFiles, TypeOK
      <3> HIDE DEF g, j
      <3>6. Begun(job', j)
        BY <3>4 DEF Begun
      <3>7. ~Recorded(job, j) /\ submissions[j] = 0
        BY <1>3 DEF Recorded
      <3>8. job \in JobFiles
        BY DEF JobFiles, TypeOK
      <3> QED BY <1>1, <3>3, <3>5, <3>6, <3>7, <3>8, UpdateInv
    <2> QED BY <2>1, <2>2
  <1>5. shot' \in [Shots -> ShotRuntime]
    <2>1. \A s \in Shots : [shot[s] EXCEPT !.stage = "Generating"] \in ShotRuntime
      BY DEF TypeOK, ShotRuntime, ShotStage
    <2> QED BY <2>1 DEF StartNext, TypeOK
  <1>6. started \in Memory
    <2>1. RemoveAt(w.pending, i) \in Seq(Jobs)
      BY <1>1, RemoveAtType
    <2> HIDE DEF j
    <2> QED BY <1>1, <2>1 DEF Memory
  <1>7. o.acked >= 3 => Begun(job', j)
    <2> SUFFICES ASSUME o.acked >= 3 PROVE Begun(job', j)
      OBVIOUS
    <2>1. o.done # 0
      BY <1>2
    <2> QED BY <2>1, <1>1 DEF StartNext, TypeOK, JobJournal, Begun
  <1>8. w' \in Memory /\ MemInv(w', job', submissions)
    <2>1. w \in Memory /\ MemInv(w, job', submissions)
      BY <1>1, <1>4, GrowInv
    <2>2. CASE o.acked < 3
      BY <2>1, <2>2, AfterInv DEF StartNext
    <2>3. CASE o.acked >= 3
      <3>1. Begun(job', j)
        BY <1>7, <2>3
      <3>2. /\ started.request = w.request /\ started.events = w.events
            /\ started.busy = w.busy /\ started.running = j
        BY <1>1 DEF Memory
      <3>3. MemInv(started, job', submissions)
        BY <2>1, <3>1, <3>2, SameInv
      <3>4. /\ Send(started, "Prepare", j) \in Memory
            /\ MemInv(Send(started, "Prepare", j), job', submissions)
        <4> HIDE DEF started, j
        <4> QED BY <1>1, <1>3, <1>6, <3>1, <3>2, <3>3, SendInv DEF RequestKind
      <3>5. w' = After(o, IF fits THEN Send(started, "Prepare", j) ELSE started)
        BY <2>3, <1>2 DEF StartNext
      <3> HIDE DEF started, j
      <3> QED BY <1>6, <3>3, <3>4, <3>5, AfterInv
    <2> QED BY <2>2, <2>3, <1>2
  <1>9. crashes' \in Nat /\ faults' \in Nat
    BY SpendType DEF StartNext
  <1> QED BY <1>4, <1>5, <1>8, <1>9, StepInv DEF StartNext, TypeOK

\* A rebuild between two jobs keeps the executor's debt.
LEMMA StartRebuildInv ==
    ASSUME Inv, NEW R, NEW end, StartRebuild(R, end)
    PROVE  Inv'
  <1> USE DEF Inv
  <1>1. RebuildShots(R, end) /\ w \in Memory
    BY DEF StartRebuild, TypeOK
  <1>2. w' \in Memory /\ MemInv(w', job, submissions)
    <2>1. CASE w' \in {w, Lost}
      BY <2>1, <1>1, LostType, LostInv
    <2>2. CASE w' \in Rebuilt(w, RecoverShots(R))
      <3>1. /\ w' \in Memory
            /\ w'.request = w.request /\ w'.events = w.events /\ w'.busy = w.busy
            /\ w'.running = NoJob \/ Begun(job, w'.running)
        BY <1>1, <2>2, RebuildType, RebuiltFacts
      <3> QED BY <3>1, SameInv
    <2> QED BY <2>1, <2>2 DEF StartRebuild
  <1> QED BY <1>1, <1>2, SameFiles, RebuildType, StepInv DEF RebuildShots, TypeOK

\* The running entry, a started job.
LEMMA ResumableFacts ==
    ASSUME Inv, Resumable
    PROVE  w \in Memory /\ w.running \in Jobs /\ Begun(job, w.running) /\ ~w.busy
           /\ job[w.running] \in JobJournal
  BY DEF Inv, TypeOK, Memory, MemInv, RunningInv, Resumable, MayDispatch

\* Blocking the running job keeps its attempt recorded, or records it.
LEMMA BlockRunningInv ==
    ASSUME Inv, BlockRunning \/ MarkUnknown
    PROVE  Inv'
  <1> USE DEF Inv
  <1> DEFINE j == w.running
  <1>1. /\ w \in Memory /\ j \in Jobs /\ Begun(job, j) /\ job[j] \in JobJournal
    BY ResumableFacts DEF BlockRunning, MarkUnknown
  <1>2. job' \in JobFiles /\ JobInv(job', submissions) /\ Grows(job, job')
    <2>1. CASE BlockRunning
      <3> DEFINE g == [job[j] EXCEPT !.state = "Blocked"]
      <3>1. g \in JobJournal
        BY <1>1, JobTypes DEF JobState, AttemptState
      <3>2. job' = [job EXCEPT ![j] = g]
        BY <2>1 DEF BlockRunning
      <3>3. g.state = "Blocked" /\ g.attempt = job[j].attempt
        BY <1>1 DEF JobJournal
      <3>4. submissions[j] # 0 => Recorded(job, j)
        BY <1>1 DEF JobInv
      <3> HIDE DEF g
      <3> QED BY <1>1, <3>1, <3>2, <3>3, <3>4, WriteInv DEF Recorded
    <2>2. CASE MarkUnknown
      <3> DEFINE g == [job[j] EXCEPT !.state = "Blocked", !.attempt = "SubmissionUnknown"]
      <3>1. g \in JobJournal
        BY <1>1, JobTypes DEF JobState, AttemptState
      <3>2. job' = [job EXCEPT ![j] = g]
        BY <2>2, <1>1 DEF MarkUnknown, TypeOK, JobJournal
      <3>3. g.state = "Blocked" /\ g.attempt = "SubmissionUnknown"
        BY <1>1 DEF JobJournal
      <3> HIDE DEF g
      <3> QED BY <1>1, <3>1, <3>2, <3>3, WriteInv
    <2> QED BY <2>1, <2>2
  <1> QED BY <1>2, StepInv DEF BlockRunning, MarkUnknown, TypeOK

\* A job is prepared again only while its attempt says "Prepared", so the
\* backend has not seen it.
LEMMA SendAgainInv ==
    ASSUME Inv, NEW k \in {"Prepare", "Reconcile"}, SendAgain(k)
    PROVE  Inv'
  <1> USE DEF Inv
  <1> DEFINE j == w.running
  <1>1. /\ w \in Memory /\ j \in Jobs /\ Begun(job, j) /\ ~w.busy
    BY ResumableFacts DEF SendAgain
  <1>2. k = "Prepare" => submissions[j] = 0
    BY <1>1 DEF SendAgain, JobInv, Recorded
  <1>3. w' \in Memory /\ MemInv(w', job, submissions)
    <2>1. w' = Send(w, k, j)
      BY DEF SendAgain
    <2> QED BY <1>1, <1>2, <2>1, SendInv DEF RequestKind
  <1> QED BY <1>3, SameFiles, StepInv DEF SendAgain, TypeOK

-----------------------------------------------------------------------------
(* Events *)

\* A submission is requested only after the job's file says so, for a job the
\* backend has not seen.
LEMMA ApplyPreparedInv ==
    ASSUME Inv, NEW j \in Jobs, NEW o \in Outcomes(2), ApplyPrepared(j, o)
    PROVE  Inv'
  <1> USE DEF Inv
  <1> DEFINE g == [job[j] EXCEPT !.attempt = "Submitting"]
  <1>1. /\ Handled \in Memory
        /\ MemInv(Handled, job, submissions)
        /\ Begun(job, j)
        /\ submissions[j] = 0 /\ ~Handled.busy
    BY HandledInv DEF ApplyPrepared
  <1>2. o.end = "ok" => o.done = 2
    BY OutcomeFacts
  <1>3. /\ g \in JobJournal
        /\ g.attempt = "Submitting" /\ g.state = job[j].state
    <2>1. job[j] \in JobJournal
      BY DEF TypeOK
    <2>2. g \in JobJournal
      BY <2>1, JobTypes DEF JobState, AttemptState
    <2> QED BY <2>1, <2>2 DEF JobJournal
  <1>4. o.done >= 1 => job' = [job EXCEPT ![j] = g]
    BY DEF ApplyPrepared
  <1>5. job' \in JobFiles /\ JobInv(job', submissions) /\ Grows(job, job')
    <2>1. CASE o.done >= 1
      <3> HIDE DEF g
      <3> QED BY <2>1, <1>1, <1>3, <1>4, WriteInv DEF Begun
    <2>2. CASE ~(o.done >= 1)
      BY <2>2, SameFiles DEF ApplyPrepared
    <2> QED BY <2>1, <2>2
  <1>6. w' \in Memory /\ MemInv(w', job', submissions)
    <2>1. MemInv(Handled, job', submissions)
      BY <1>1, <1>5, GrowInv
    <2>2. CASE o.end = "ok"
      <3>1. job' = [job EXCEPT ![j] = g]
        BY <2>2, <1>2, <1>4
      <3>2. Begun(job', j) /\ Recorded(job', j)
        BY <3>1, <1>1, <1>3 DEF TypeOK, Begun, Recorded
      <3>3. w' = Send(Handled, "Submit", j)
        BY <2>2 DEF ApplyPrepared, After
      <3> QED BY <1>1, <2>1, <3>2, <3>3, SendInv DEF RequestKind
    <2>3. CASE o.end # "ok"
      <3>1. w' = After(o, Handled)
        BY <2>3 DEF ApplyPrepared
      <3> QED BY <1>1, <2>1, <3>1, AfterInv
    <2> QED BY <2>2, <2>3
  <1>7. crashes' \in Nat /\ faults' \in Nat
    BY SpendType DEF ApplyPrepared
  <1> QED BY <1>5, <1>6, <1>7, StepInv DEF ApplyPrepared, TypeOK

\* Saving what the executor found keeps the attempt recorded.
LEMMA NoteAttemptInv ==
    ASSUME Inv, NEW k \in {"Submitted", "SubmissionUnknown", "MonitorRetry"},
           NEW j \in Jobs, NEW o \in Outcomes(1), NoteAttempt(k, j, o)
    PROVE  Inv'
  <1> USE DEF Inv
  <1>1. Handled \in Memory /\ MemInv(Handled, job, submissions) /\ Begun(job, j)
    BY HandledInv DEF NoteAttempt, Current
  <1>2. job' \in JobFiles /\ JobInv(job', submissions) /\ Grows(job, job')
    <2>1. ASSUME NEW g \in JobJournal, job' = [job EXCEPT ![j] = g],
                 g.state \in {job[j].state, "Blocked"}, g.attempt \notin {"None", "Prepared"}
          PROVE  job' \in JobFiles /\ JobInv(job', submissions) /\ Grows(job, job')
      BY <2>1, <1>1, WriteInv DEF Begun
    <2>2. CASE o.done = 0
      BY <2>2, SameFiles DEF NoteAttempt
    <2>3. CASE o.done # 0 /\ k = "Submitted"
      <3> DEFINE g == [job[j] EXCEPT !.attempt = k, !.backendId = TRUE]
      <3>1. g \in JobJournal
        BY <2>3, JobTypes DEF TypeOK, JobState, AttemptState
      <3>2. job' = [job EXCEPT ![j] = g]
        BY <2>3 DEF NoteAttempt, TypeOK, JobJournal
      <3>3. g.state = job[j].state /\ g.attempt = k
        BY DEF TypeOK, JobJournal
      <3> HIDE DEF g
      <3> QED BY <2>1, <2>3, <3>1, <3>2, <3>3
    <2>4. CASE o.done # 0 /\ k = "SubmissionUnknown"
      <3> DEFINE g == [job[j] EXCEPT !.state = "Blocked", !.attempt = k]
      <3>1. g \in JobJournal
        BY <2>4, JobTypes DEF TypeOK, JobState, AttemptState
      <3>2. job' = [job EXCEPT ![j] = g]
        BY <2>4 DEF NoteAttempt, TypeOK, JobJournal
      <3>3. g.state = "Blocked" /\ g.attempt = k
        BY DEF TypeOK, JobJournal
      <3> HIDE DEF g
      <3> QED BY <2>1, <2>4, <3>1, <3>2, <3>3
    <2>5. CASE o.done # 0 /\ k = "MonitorRetry"
      <3> DEFINE g == [job[j] EXCEPT !.attempt = "Running"]
      <3>1. g \in JobJournal
        BY JobTypes DEF TypeOK, JobState, AttemptState
      <3>2. job' = [job EXCEPT ![j] = g]
        BY <2>5 DEF NoteAttempt
      <3>3. g.state = job[j].state /\ g.attempt = "Running"
        BY DEF TypeOK, JobJournal
      <3> HIDE DEF g
      <3> QED BY <2>1, <3>1, <3>2, <3>3
    <2> QED BY <2>2, <2>3, <2>4, <2>5
  <1>3. crashes' \in Nat /\ faults' \in Nat
    BY SpendType DEF NoteAttempt
  <1> QED BY <1>1, <1>2, <1>3, StepInv DEF NoteAttempt, TypeOK

\* Forgetting the running entry.
LEMMA FreedInv ==
    ASSUME NEW m \in Memory, NEW jf, NEW sb, MemInv(m, jf, sb)
    PROVE  /\ [m EXCEPT !.running = NoJob] \in Memory
           /\ MemInv([m EXCEPT !.running = NoJob], jf, sb)
  <1> DEFINE n == [m EXCEPT !.running = NoJob]
  <1>1. n \in Memory
    BY DEF Memory
  <1>2. /\ n.request = m.request /\ n.events = m.events /\ n.busy = m.busy
        /\ n.running = NoJob
    BY DEF Memory
  <1> QED BY <1>1, <1>2, SameInv

\* Failing a job keeps its attempt recorded.
LEMMA FailJobInv ==
    ASSUME Inv, NEW k \in DOMAIN FailureOf, NEW j \in Jobs, NEW o \in Outcomes(3),
           FailJob(k, j, o)
    PROVE  Inv'
  <1> USE DEF Inv
  <1> DEFINE g == [job[j] EXCEPT !.state = "Failed", !.attempt = FailureOf[k]]
  <1>1. Handled \in Memory /\ MemInv(Handled, job, submissions) /\ Begun(job, j)
    BY HandledInv DEF FailJob, Current
  <1>2. FailureOf[k] \in {"BackendFailed", "OutputInvalid"}
    BY DEF FailureOf
  <1>3. job' \in JobFiles /\ JobInv(job', submissions) /\ Grows(job, job')
    <2>1. CASE o.done >= 1
      <3>1. g \in JobJournal
        BY <1>2, JobTypes DEF TypeOK, JobState, AttemptState
      <3>2. job' = [job EXCEPT ![j] = g]
        BY <2>1 DEF FailJob, TypeOK, JobJournal
      <3>3. g.state = "Failed" /\ g.attempt = FailureOf[k]
        BY DEF TypeOK, JobJournal
      <3> HIDE DEF g
      <3> QED BY <1>2, <3>1, <3>2, <3>3, WriteInv
    <2>2. CASE ~(o.done >= 1)
      BY <2>2, SameFiles DEF FailJob
    <2> QED BY <2>1, <2>2
  <1>4. shot' \in [Shots -> ShotRuntime]
    <2>1. \A s \in Shots : FailShot(shot[s]) \in ShotRuntime
      BY ShotTypes DEF TypeOK
    <2> QED BY <2>1 DEF FailJob, TypeOK
  <1>5. w' \in Memory /\ MemInv(w', job, submissions)
    BY <1>1, FreedInv, AfterInv DEF FailJob
  <1>6. crashes' \in Nat /\ faults' \in Nat
    BY SpendType DEF FailJob
  <1> QED BY <1>3, <1>4, <1>5, <1>6, StepInv DEF FailJob, TypeOK

\* Completing a job keeps its attempt recorded, and the audition it may
\* schedule is another, new job.
LEMMA CompleteJobInv ==
    ASSUME Inv, NEW j \in Jobs, NEW n \in Fresh \cup {NoJob}, NEW same \in BOOLEAN,
           NEW o, o \in Outcomes(4) \/ o \in Outcomes(6), CompleteJob(j, n, same, o)
    PROVE  Inv'
  <1> USE DEF Inv
  <1> DEFINE s == job[j].shot
             g == [job[j] EXCEPT !.state = "Completed", !.attempt = "Completed"]
             done == [job EXCEPT ![j].state = "Completed", ![j].attempt = "Completed"]
             registered == RegisterCandidate(done, shot[s], j)
             again == AuditionDue(registered) /\ Fresh # {}
             freed == IF o.acked >= 3 THEN [Handled EXCEPT !.running = NoJob] ELSE Handled
  <1>1. Handled \in Memory /\ MemInv(Handled, job, submissions) /\ Begun(job, j)
    BY HandledInv DEF CompleteJob, Current
  <1>2. again => n \in Jobs /\ job[n].state = "Absent" /\ n # j
    BY <1>1 DEF CompleteJob, Fresh, Begun
  <1>3. ~again => o \in Outcomes(4)
    BY DEF CompleteJob
  <1>4. ~again => o.done <= 4 /\ o.acked <= 4 /\ o.done \in Nat
    BY <1>3, OutcomeFacts
  <1>5. done \in JobFiles /\ JobInv(done, submissions) /\ Grows(job, done)
    <2>1. g \in JobJournal
      BY JobTypes DEF TypeOK, JobState, AttemptState
    <2>2. done = [job EXCEPT ![j] = g]
      BY DEF TypeOK, JobJournal
    <2>3. g.state = "Completed" /\ g.attempt = "Completed"
      BY DEF TypeOK, JobJournal
    <2> HIDE DEF g, done
    <2>4. /\ job \in JobFiles
          /\ done \in JobFiles /\ done[j] = g /\ \A i \in Jobs : i # j => done[i] = job[i]
      BY <2>1, <2>2 DEF TypeOK, JobFiles
    <2> QED BY <2>3, <2>4, UpdateInv DEF Begun, Recorded
  <1>6. job' \in JobFiles /\ JobInv(job', submissions) /\ Grows(job, job')
    <2>1. CASE o.done < 2
      BY <2>1, SameFiles DEF CompleteJob
    <2>2. CASE ~(o.done < 2)
      <3>1. job' = Journaled(done, o, 4, n, s, "audition")
        BY <2>2 DEF CompleteJob
      <3>2. CASE again
        <4>1. n \in Jobs /\ done[n].state = "Absent"
          BY <3>2, <1>2 DEF TypeOK
        <4>2. s \in Shots \cup {NoShot}
          BY DEF TypeOK, JobJournal
        <4> HIDE DEF done, s, again
        <4>3. /\ job' \in JobFiles /\ JobInv(job', submissions) /\ Grows(done, job')
          BY <3>1, <4>1, <4>2, <1>5, JournaledInv DEF Kind
        <4> QED BY <4>3, <1>5 DEF Grows
      <3>3. CASE ~again
        <4>1. job' = done
          BY <3>1, <3>3, <1>4 DEF Journaled
        <4> HIDE DEF done
        <4> QED BY <4>1, <1>5
      <3> QED BY <3>2, <3>3
    <2> QED BY <2>1, <2>2
  <1>7. shot' \in [Shots -> ShotRuntime]
    <2>1. CASE s \in Shots
      <3>1. registered \in ShotRuntime
        BY <2>1, ShotTypes DEF TypeOK
      <3>2. o.done = 6 => again
        BY <1>4
      <3>3. again => n \in Jobs
        BY <1>2
      <3>4. registered.target \in Nat
        BY <3>1 DEF ShotRuntime
      <3> HIDE DEF registered, again
      <3>5. o.done = 6 => EnqueueShot(registered, n, registered.target) \in ShotRuntime
        BY <3>1, <3>2, <3>3, <3>4, ShotTypes
      <3>6. \/ shot' = shot
            \/ shot' = [shot EXCEPT ![s] = IF o.done = 6
                                           THEN EnqueueShot(registered, n, registered.target)
                                           ELSE registered]
        BY DEF CompleteJob, registered, again
      <3> HIDE DEF s
      <3> QED BY <3>1, <3>5, <3>6 DEF TypeOK
    <2>2. CASE s \notin Shots
      <3>1. shot' = shot \/ \E x : shot' = [shot EXCEPT ![s] = x]
        BY DEF CompleteJob
      <3> HIDE DEF s
      <3> QED BY <2>2, <3>1 DEF TypeOK
    <2> QED BY <2>1, <2>2
  <1>8. w' \in Memory /\ MemInv(w', job, submissions)
    <2>1. freed \in Memory /\ MemInv(freed, job, submissions)
      BY <1>1, FreedInv
    <2> HIDE DEF freed
    <2>2. again => /\ [freed EXCEPT !.pending = Append(@, n)] \in Memory
                   /\ MemInv([freed EXCEPT !.pending = Append(@, n)], job, submissions)
      <3> HIDE DEF again
      <3> QED BY <2>1, <1>2, AppendInv
    <2>3. w' = After(o, IF again /\ o.end = "ok"
                        THEN [freed EXCEPT !.pending = Append(@, n)] ELSE freed)
      BY DEF CompleteJob, freed
    <2> HIDE DEF again
    <2> QED BY <2>1, <2>2, <2>3, AfterInv
  <1>9. crashes' \in Nat /\ faults' \in Nat
    BY SpendType DEF CompleteJob
  <1>10. takeFiles' \subseteq Jobs
    BY DEF CompleteJob, TypeOK
  <1> QED BY <1>6, <1>7, <1>8, <1>9, <1>10, StepInv DEF CompleteJob, TypeOK

\* Dropping an event only frees the executor.
LEMMA DiscardInv ==
    ASSUME Inv, NEW k \in EventKind, NEW j \in Jobs, Discard(k, j)
    PROVE  Inv'
  <1> USE DEF Inv
  <1>1. Handled \in Memory /\ MemInv(Handled, job, submissions)
    BY HandledInv DEF Discard
  <1> QED BY <1>1, SameFiles, StepInv DEF Discard, TypeOK

-----------------------------------------------------------------------------
(* The executor and the backend *)

\* The request the executor works on.
LEMMA WorkingFacts ==
    ASSUME Inv, NEW k \in RequestKind, Working(k)
    PROVE  /\ w \in Memory /\ w.request # NoRequest /\ w.request.job \in Jobs
           /\ RequestInv(w, job, submissions)
           /\ w.request.kind = k
  BY DEF Inv, TypeOK, Memory, Request, Working, NoRequest, MemInv, RequestKind

\* A preparation is reported for a job the backend has not seen.
LEMMA ExPrepareInv ==
    ASSUME Inv, NEW k \in {"Prepared", "PreparationFailed"}, ExPrepare(k)
    PROVE  Inv'
  <1> USE DEF Inv
  <1>1. w.request # NoRequest /\ submissions[w.request.job] = 0
    BY WorkingFacts DEF ExPrepare, RequestKind, RequestInv
  <1>2. Report(k, NoRequest) \in Memory /\ MemInv(Report(k, NoRequest), job, submissions)
    BY <1>1, ReportInv DEF EventKind
  <1> QED BY <1>2, SameFiles, StepInv DEF ExPrepare, TypeOK

\* The only step that submits: the backend has not seen the job before, and
\* the job's file says it is being submitted.
LEMMA ExSubmitInv ==
    ASSUME Inv, NEW accepted \in BOOLEAN, NEW answered \in BOOLEAN,
           ExSubmit(accepted, answered)
    PROVE  Inv'
  <1> USE DEF Inv
  <1> DEFINE j == w.request.job
  <1>1. /\ w.request # NoRequest /\ j \in Jobs
        /\ submissions[j] = 0 /\ Recorded(job, j)
    BY WorkingFacts DEF ExSubmit, RequestKind, RequestInv
  <1>2. submissions' \in [Jobs -> Nat] /\ backend' \in [Jobs -> BackendState]
    BY <1>1 DEF ExSubmit, TypeOK, BackendState
  <1>3. JobInv(job, submissions')
    BY <1>1 DEF ExSubmit, JobInv, TypeOK
  <1>4. w' \in Memory /\ MemInv(w', job, submissions')
    <2>1. CASE answered
      <3> DEFINE r == [kind |-> "Monitor", job |-> j]
      <3>1. Report("Submitted", r) \in Memory /\ MemInv(Report("Submitted", r), job, submissions')
        BY <1>1, ReportInv DEF EventKind
      <3> QED BY <2>1, <3>1 DEF ExSubmit
    <2>2. CASE ~answered
      <3>1. /\ Report("SubmissionUnknown", NoRequest) \in Memory
            /\ MemInv(Report("SubmissionUnknown", NoRequest), job, submissions')
        BY <1>1, ReportInv DEF EventKind
      <3> QED BY <2>2, <3>1 DEF ExSubmit
    <2> QED BY <2>1, <2>2
  <1>5. TypeOK'
    BY <1>2, <1>4 DEF ExSubmit, TypeOK
  <1>6. job' = job
    BY DEF ExSubmit
  <1> QED BY <1>3, <1>4, <1>5, <1>6

\* What the executor reports of a watched job ends its request.
LEMMA ExWatchInv ==
    ASSUME Inv, NEW k \in EventKind, ExWatch(k)
    PROVE  Inv'
  <1> USE DEF Inv
  <1> DEFINE m == Report(k, NoRequest)
             c == IF k = "Cancelled" THEN m.cancelling \ {w.request.job} ELSE m.cancelling
  <1>1. w.request # NoRequest
    BY WorkingFacts DEF ExWatch, RequestKind
  <1>2. k \notin {"Submitted", "Prepared"}
    BY DEF ExWatch, Watched
  <1>3. m \in Memory /\ MemInv(m, job, submissions)
    BY <1>1, <1>2, ReportInv
  <1>4. w' = [m EXCEPT !.cancelling = c]
    BY DEF ExWatch
  <1> HIDE DEF m
  <1>5. w' \in Memory
    BY <1>3, <1>4 DEF Memory
  <1>6. /\ w'.request = m.request /\ w'.events = m.events /\ w'.busy = m.busy
        /\ w'.running = m.running
    BY <1>3, <1>4 DEF Memory
  <1>7. MemInv(w', job, submissions)
    BY <1>3, <1>6, SameInv
  <1> QED BY <1>5, <1>7, SameFiles, StepInv DEF ExWatch, TypeOK

\* The backend's own steps touch none of the worker's state.
LEMMA BackendStepsInv ==
    ASSUME Inv, Backend
    PROVE  Inv'
  <1> USE DEF Inv
  <1>1. backend' \in [Jobs -> BackendState]
    BY DEF Backend, BackendStarts, BackendEnds, TypeOK, BackendState
  <1>2. /\ UNCHANGED <<job, shot, takeFiles, projectPaused, queuePaused, w, submissions>>
        /\ UNCHANGED <<crashes, faults>>
    BY DEF Backend, BackendStarts, BackendEnds
  <1> QED BY <1>1, <1>2, SameFiles, StepInv DEF TypeOK

-----------------------------------------------------------------------------
(* The theorems *)

\* The initial states satisfy the invariant.
LEMMA InitInv == Init => Inv
  <1> SUFFICES ASSUME Init PROVE Inv
    OBVIOUS
  <1>1. TypeOK
    <2>1. w \in Memory
      BY LostType DEF Init
    <2>2. job \in [Jobs -> JobJournal]
      BY DEF Init, JobJournal, JobState, AttemptState, Kind
    <2>3. shot \in [Shots -> ShotRuntime]
      BY DEF Init, ShotRuntime, ShotStage
    <2> QED BY <2>1, <2>2, <2>3 DEF Init, TypeOK, BackendState
  <1>2. JobInv(job, submissions)
    BY DEF Init, JobInv, Begun
  <1>3. MemInv(w, job, submissions)
    BY LostInv DEF Init
  <1> QED BY <1>1, <1>2, <1>3 DEF Inv

\* Every step keeps the invariant.
LEMMA NextInv == Inv /\ [Next]_vars => Inv'
  <1> SUFFICES ASSUME Inv, [Next]_vars PROVE Inv'
    OBVIOUS
  <1>1. CASE Command
    BY <1>1, EnqueueInv, SelectTakeInv, PausesInv, CancelPendingInv, CancelRunningInv
       DEF Command
  <1>2. CASE Startup
    BY <1>2, BootInv, ResumeAuditionInv, OpenCrashInv DEF Startup
  <1>3. CASE Crash
    BY <1>3, OpenCrashInv
  <1>4. CASE Dispatch
    BY <1>4, StartNextInv, StartRebuildInv, BlockRunningInv, SendAgainInv DEF Dispatch
  <1>5. CASE \E j \in Jobs : HandleEvent(j)
    BY <1>5, ApplyPreparedInv, NoteAttemptInv, FailJobInv, CompleteJobInv, DiscardInv
       DEF HandleEvent
  <1>6. CASE Executor
    BY <1>6, ExPrepareInv, ExSubmitInv, ExWatchInv DEF Executor
  <1>7. CASE Backend
    BY <1>7, BackendStepsInv
  <1>8. CASE UNCHANGED vars
    BY <1>8 DEF vars, Inv, TypeOK, JobInv, MemInv, RequestInv, EventsInv, RunningInv,
                BusyInv, Begun, Recorded
  <1> QED BY <1>1, <1>2, <1>3, <1>4, <1>5, <1>6, <1>7, <1>8 DEF Next, MainLoop

\* The invariant holds in every reachable state.
LEMMA Invariance == Spec => []Inv
  BY InitInv, NextInv, PTL DEF Spec

\* Every variable keeps its type.
THEOREM TypeCorrect == Spec => []TypeOK
  <1>1. Inv => TypeOK
    BY DEF Inv
  <1> QED BY <1>1, Invariance, PTL

\* The backend accepts a job at most once, whatever crashes and whichever
\* writes fail.
THEOREM SubmitsOnce == Spec => []AtMostOneSubmission
  <1>1. Inv => AtMostOneSubmission
    BY DEF Inv, JobInv, AtMostOneSubmission
  <1> QED BY <1>1, Invariance, PTL

\* The busy flag of the main loop is exactly the executor's debt of an event.
THEOREM Handshake == Spec => []BusyOwesAnEvent
  <1>1. Inv => BusyOwesAnEvent
    <2> SUFFICES ASSUME Inv PROVE BusyOwesAnEvent
      OBVIOUS
    <2>1. DOMAIN w.events = 1..Len(w.events)
      BY DEF Inv, TypeOK, Memory
    <2> QED BY <2>1 DEF Inv, MemInv, BusyInv, BusyOwesAnEvent
  <1> QED BY <1>1, Invariance, PTL
=============================================================================
