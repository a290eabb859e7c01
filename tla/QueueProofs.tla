------------------------------ MODULE QueueProofs ------------------------------
(***************************************************************************)
(* More proofs about CameraQueue, for all projects, shots, bounds and      *)
(* switches: what an unknown submission keeps, and, as long as no durable  *)
(* write has failed, that the queue, the files and the backend agree       *)
(* across any number of crashes, and that the queue implements TakeLedger. *)
(***************************************************************************)
EXTENDS CameraQueueProofs, FiniteSetTheorems

-----------------------------------------------------------------------------
(* Unknown submissions *)

Unknown(jf, j) == jf[j].attempt = "SubmissionUnknown"

\* The attempts of a job that the executor has no more to say about.
LastAttempt == {"SubmissionUnknown", "Completed", "OutputInvalid", "BackendFailed"}
Over(jf, j) == jf[j].attempt \in LastAttempt

\* A job file whose state and last attempt fit each other.
Fits(g) == /\ g.attempt = "SubmissionUnknown" => g.state = "Blocked"
           /\ g.state \in {"Completed", "Failed"} => g.attempt \in LastAttempt

\* The channel of memory m holds nothing the main loop could overtake: events
\* wait only while the executor is busy with a watch or with nothing.
ChannelInv(m) == m.events # <<>> => m.busy /\ m.request.kind \in {"None", "Monitor"}

\* A job of an unknown submission is blocked, and neither the executor nor an
\* event on its way speaks of it, or of a job that has completed or failed.
OverInv(m, jf) ==
    /\ \A j \in Jobs : Fits(jf[j])
    /\ m.request # NoRequest => ~Over(jf, m.request.job)
    /\ \A i \in 1..Len(m.events) : ~Over(jf, m.events[i].job)
    /\ ChannelInv(m)

-----------------------------------------------------------------------------
(* The files: job files jf, shots sf, takes tf *)

Held == {"Active", "Blocked"}

\* What a job may be while its prompt is unfinished.
OnceSent == {"Active", "Blocked", "Cancelled"}

\* A shot's active job is a job of that shot, in a readable file.
PointsAtItsJob(jf, sf) ==
    \A s \in Shots : sf[s].active # NoJob =>
        jf[sf[s].active].shot = s /\ jf[sf[s].active].state \notin Unreadable

HeldIsPointedAt(jf, sf) ==
    \A j \in Jobs : jf[j].state \in Held =>
        jf[j].shot \in Shots /\ sf[jf[j].shot].active = j

TakesKept(jf, sf, tf) ==
    \A j \in Jobs : jf[j].state = "Completed" =>
        /\ j \in tf
        /\ jf[j].shot \in Shots
        /\ j \in sf[jf[j].shot].takes \/ sf[jf[j].shot].active = j

\* The job has started, and its take is not registered yet.
Holding(jf, sf, j) ==
    \/ jf[j].state \in Held
    \/ jf[j].state = "Completed" /\ j \notin sf[jf[j].shot].takes

OneHolds(jf, sf) ==
    \A i, j \in Jobs : Holding(jf, sf, i) /\ Holding(jf, sf, j) => i = j

StagesShown(sf) ==
    \A s \in Shots : sf[s].stage \in {"Queued", "Generating"} <=> sf[s].active # NoJob

FilesInv(jf, sf, tf) ==
    /\ PointsAtItsJob(jf, sf)
    /\ HeldIsPointedAt(jf, sf)
    /\ TakesKept(jf, sf, tf)
    /\ OneHolds(jf, sf)
    /\ StagesShown(sf)

-----------------------------------------------------------------------------
(* The memory m and the backend be *)

Awaited(m, sf) ==
    \A s \in Shots : sf[s].active # NoJob =>
        sf[s].active = m.running \/ \E i \in 1..Len(m.pending) : m.pending[i] = sf[s].active

\* A process that is up has each active job of a shot once, the started one as
\* its running entry and the others pending.
QueueInv(m, jf, sf) ==
    m.phase # "down" =>
        /\ \A i \in 1..Len(m.pending) :
              jf[m.pending[i]].state = "Queued" /\ \E s \in Shots : sf[s].active = m.pending[i]
        /\ \A i, k \in 1..Len(m.pending) : m.pending[i] = m.pending[k] => i = k
        /\ m.running # NoJob => jf[m.running].state \in Held
        /\ Awaited(m, sf)

\* What an event claims: a preparation is about the running job, alone in
\* the channel, and an end is one the backend has come to.
Claims(m, jf, be, e) ==
    /\ e.kind \in {"Prepared", "PreparationFailed"} =>
          m.running = e.job /\ jf[m.running].attempt = "Prepared" /\ Len(m.events) = 1
    /\ e.kind \in {"Completed", "OutputInvalid"} => be[e.job] = "done"
    /\ e.kind = "BackendFailed" => be[e.job] = "failed"

\* Until its submission is answered, the job at work is the running one.
WorkInv(m, jf, be) ==
    /\ m.phase = "down" => m = Lost
    /\ m.request.kind = "Prepare" =>
          m.running = m.request.job /\ jf[m.running].attempt = "Prepared"
    /\ m.request.kind = "Submit" =>
          m.running = m.request.job /\ jf[m.running].attempt = "Submitting"
    /\ \A i \in 1..Len(m.events) : Claims(m, jf, be, m.events[i])

\* A job the backend has not accepted is unknown to it, and one whose prompt
\* is unfinished has started, and has not ended unless it was cancelled.
BackendInv(jf, sb, be) ==
    /\ \A j \in Jobs : sb[j] = 0 => be[j] = "none"
    /\ \A j \in Jobs : be[j] \in Unfinished => jf[j].state \in OnceSent

Healthy ==
    /\ FilesInv(job, shot, takeFiles)
    /\ QueueInv(w, job, shot)
    /\ WorkInv(w, job, backend)
    /\ BackendInv(job, submissions, backend)

QInv == /\ Inv
        /\ OverInv(w, job)
        /\ faults = 0 => Healthy

-----------------------------------------------------------------------------
(* The memory after an event or a report *)

\* Taking an event off the channel.  One that finishes a request is the last.
LEMMA HandledFacts ==
    ASSUME Inv, NEW k, NEW j \in Jobs, Received(k, j)
    PROVE  /\ Handled \in Memory
           /\ Handled.phase = w.phase /\ Handled.request = w.request
           /\ Handled.running = w.running /\ Handled.pending = w.pending
           /\ Handled.events \in Seq(Event)
           /\ Len(Handled.events) = Len(w.events) - 1
           /\ \A i \in 1..Len(Handled.events) : Handled.events[i] = w.events[i + 1]
           /\ 1 \in 1..Len(w.events) /\ w.events[1] = [kind |-> k, job |-> j]
           /\ k # "Submitted" => Handled.events = <<>> /\ w.request = NoRequest
           /\ k = "Submitted" => Handled.busy = w.busy
           /\ Handled.busy => w.busy
  <1> DEFINE q == w.events
             e == Head(w.events)
             n == Handled
  <1>1. /\ w \in Memory /\ q \in Seq(Event) /\ q # <<>>
        /\ e = [kind |-> k, job |-> j]
    BY DEF Inv, TypeOK, Received, Memory
  <1>2. /\ Len(q) \in Nat /\ Len(q) > 0 /\ e = q[1]
        /\ Tail(q) \in Seq(Event)
        /\ Len(Tail(q)) = Len(q) - 1
        /\ \A i \in 1..Len(Tail(q)) : Tail(q)[i] = q[i + 1]
    <2>1. Tail(q) \in Seq(Event) /\ Len(Tail(q)) = Len(q) - 1
          /\ \A i \in 1..Len(Tail(q)) : Tail(q)[i] = q[i + 1]
      BY <1>1, HeadTailProperties
    <2>2. Len(q) \in Nat /\ Len(q) > 0 /\ e = q[1]
      BY <1>1
    <2> QED BY <2>1, <2>2
  <1>3. /\ n.events = Tail(q) /\ n.request = w.request /\ n.running = w.running
        /\ n.pending = w.pending /\ n.phase = w.phase
        /\ n.busy = (w.busy /\ ~Finishes(e))
    BY <1>1 DEF Handled, Memory
  <1>4. n \in Memory
    BY <1>1, <1>2 DEF Handled, Memory
  <1>5. Finishes(e) <=> k # "Submitted"
    BY <1>1 DEF Finishes
  <1>6. k # "Submitted" => Tail(q) = <<>> /\ w.request = NoRequest
    <2>1. 1 \in 1..Len(q) /\ Finishes(q[1]) => 1 = Len(q) /\ w.request = NoRequest
      BY <1>2 DEF Inv, MemInv, EventsInv
    <2>2. Len(Tail(q)) = 0 => Tail(q) = <<>>
      BY <1>2, EmptySeq
    <2> HIDE DEF e
    <2> QED BY <1>2, <1>5, <2>1, <2>2
  <1>7. w.busy \in BOOLEAN
    BY <1>1 DEF Memory
  <1> HIDE DEF e, n
  <1> QED BY <1>1, <1>2, <1>3, <1>4, <1>5, <1>6, <1>7 DEF n

\* Reporting an event of kind k and turning to request r.
LEMMA ReportFacts ==
    ASSUME Inv, w.request # NoRequest, NEW k \in EventKind,
           NEW r \in Request \cup {NoRequest}
    PROVE  LET n == Report(k, r)
               e == [kind |-> k, job |-> w.request.job]
           IN  /\ n \in Memory
               /\ w.request.job \in Jobs
               /\ n.phase = w.phase /\ n.request = r
               /\ n.running = w.running /\ n.pending = w.pending
               /\ n.busy = w.busy
               /\ Len(w.events) \in Nat
               /\ Len(n.events) = Len(w.events) + 1
               /\ \A i \in 1..Len(w.events) : n.events[i] = w.events[i]
               /\ n.events[Len(w.events) + 1] = e
               /\ \A i \in 1..Len(w.events) : w.events[i].job \in Jobs
  <1> DEFINE n == Report(k, r)
             e == [kind |-> k, job |-> w.request.job]
             q == w.events
  <1>1. /\ w \in Memory /\ q \in Seq(Event) /\ w.request.job \in Jobs
        /\ e \in Event
    BY DEF Inv, TypeOK, Memory, Request, Event
  <1>2. /\ Append(q, e) \in Seq(Event)
        /\ Len(q) \in Nat
        /\ Len(Append(q, e)) = Len(q) + 1
        /\ \A i \in 1..Len(q) : Append(q, e)[i] = q[i]
        /\ Append(q, e)[Len(q) + 1] = e
    BY <1>1, AppendProperties, LenProperties
  <1>3. n = [w EXCEPT !.events = Append(q, e), !.request = r]
    BY DEF Report
  <1>4. \A i \in 1..Len(q) : q[i].job \in Jobs
    <2> TAKE i \in 1..Len(q)
    <2>1. q[i] \in Event BY <1>1, ElementOfSeq
    <2> QED BY <2>1 DEF Event
  <1> HIDE DEF n, e
  <1>5. n \in Memory
    <2>1. Append(q, e) \in Seq(Event) /\ r \in Request \cup {NoRequest} BY <1>2
    <2> QED BY <1>1, <1>3, <2>1 DEF Memory
  <1>6. /\ n.phase = w.phase /\ n.request = r /\ n.running = w.running
        /\ n.pending = w.pending /\ n.busy = w.busy /\ n.events = Append(q, e)
    BY <1>1, <1>3 DEF Memory
  <1> QED BY <1>1, <1>2, <1>4, <1>5, <1>6 DEF n, e

-----------------------------------------------------------------------------
(* Unknown submissions: each action keeps OverInv, whatever fails.  *)

\* No process has heard of an unknown submission.
LEMMA LostOver ==
    ASSUME NEW jf, \A j \in Jobs : Fits(jf[j])
    PROVE  OverInv(Lost, jf)
  BY DEF OverInv, ChannelInv, Lost, NoRequest

\* A free executor has an empty channel.
LEMMA IdleChannel ==
    ASSUME NEW m \in Memory, ChannelInv(m), NEW jf, NEW sb, MemInv(m, jf, sb), ~m.busy
    PROVE  m.request = NoRequest /\ m.events = <<>> /\ Len(m.events) = 0
  BY IdleFacts DEF ChannelInv

\* A memory with the same request and events, over job files with no new
\* unknown submission.
LEMMA SameOver ==
    ASSUME Inv, OverInv(w, job), NEW n, NEW jg,
           \A j \in Jobs : (Over(jg, j) => Over(job, j)) /\ Fits(jg[j]),
           \/ n = Lost
           \/ n.request = w.request /\ n.events = w.events /\ n.busy = w.busy
    PROVE  OverInv(n, jg)
  <1>1. CASE n = Lost
    BY <1>1, LostOver
  <1>2. CASE n.request = w.request /\ n.events = w.events /\ n.busy = w.busy
    <2>1. /\ w.request # NoRequest => w.request.job \in Jobs
          /\ \A i \in 1..Len(w.events) : w.events[i].job \in Jobs
      <3>1. w \in Memory /\ w.events \in Seq(Event)
        BY DEF Inv, TypeOK, Memory
      <3>2. ASSUME NEW i \in 1..Len(w.events) PROVE w.events[i].job \in Jobs
        <4>1. w.events[i] \in Event BY <3>1, ElementOfSeq
        <4> QED BY <4>1 DEF Event
      <3>3. w.request # NoRequest => w.request.job \in Jobs
        BY <3>1 DEF Memory, Request
      <3> QED BY <3>2, <3>3
    <2> QED BY <1>2, <2>1 DEF OverInv, ChannelInv
  <1> QED BY <1>1, <1>2

\* A request is sent about a job whose submission is known.
LEMMA SendOver ==
    ASSUME NEW m \in Memory, NEW jg, m.request = NoRequest, m.events = <<>>,
           \A j \in Jobs : Fits(jg[j]),
           NEW k, NEW j \in Jobs, ~Over(jg, j)
    PROVE  OverInv(Send(m, k, j), jg)
  <1>1. /\ Send(m, k, j).request.job = j /\ Send(m, k, j).events = <<>>
    BY DEF Send, Memory
  <1> QED BY <1>1 DEF OverInv, ChannelInv

\* The memory after an event; unless that was the last one, the job files
\* have no new unknown submission.
LEMMA HandledOver ==
    ASSUME Inv, OverInv(w, job), NEW k, NEW j \in Jobs, Received(k, j), NEW jg,
           \A i \in Jobs : Fits(jg[i]),
           k = "Submitted" => \A i \in Jobs : Over(jg, i) => Over(job, i)
    PROVE  OverInv(Handled, jg) /\ ~Over(job, j)
  <1> DEFINE n == Handled
  <1>1. /\ n.request = w.request
        /\ Len(n.events) = Len(w.events) - 1
        /\ \A i \in 1..Len(n.events) : n.events[i] = w.events[i + 1]
        /\ 1 \in 1..Len(w.events) /\ w.events[1] = [kind |-> k, job |-> j]
        /\ k # "Submitted" => n.events = <<>> /\ w.request = NoRequest
        /\ k = "Submitted" => n.busy = w.busy
    BY HandledFacts
  <1>2. ~Over(job, j)
    BY <1>1 DEF OverInv
  <1>3. CASE k # "Submitted"
    <2>1. n.request = NoRequest /\ n.events = <<>> /\ Len(n.events) = 0
      BY <1>1, <1>3
    <2> QED BY <2>1, <1>2 DEF OverInv, ChannelInv
  <1>4. CASE k = "Submitted"
    <2>1. /\ w \in Memory /\ w.events \in Seq(Event)
          /\ w.request # NoRequest => w.request.job \in Jobs
      BY DEF Inv, TypeOK, Memory, Request
    <2>2. Len(w.events) \in Nat
      BY <2>1, LenProperties
    <2>3. w.events # <<>> /\ w.busy = n.busy
      BY <1>1, <1>4
    <2>4. ASSUME NEW i \in 1..Len(n.events) PROVE ~Over(jg, n.events[i].job)
      <3>1. i + 1 \in 1..Len(w.events) /\ n.events[i] = w.events[i + 1]
        BY <1>1, <2>2
      <3>2. w.events[i + 1] \in Event
        BY <2>1, <3>1, ElementOfSeq
      <3>3. w.events[i + 1].job \in Jobs /\ ~Over(job, w.events[i + 1].job)
        BY <3>1, <3>2 DEF Event, OverInv
      <3> QED BY <3>1, <3>3, <1>4
    <2>5. n.request # NoRequest => ~Over(jg, n.request.job)
      BY <1>1, <1>4, <2>1 DEF OverInv
    <2>6. n.busy /\ n.request.kind \in {"None", "Monitor"}
      BY <1>1, <2>3 DEF OverInv, ChannelInv
    <2> QED BY <1>2, <2>4, <2>5, <2>6 DEF OverInv, ChannelInv
  <1> QED BY <1>2, <1>3, <1>4

\* A report about the job at work.
LEMMA ReportOver ==
    ASSUME Inv, OverInv(w, job), w.request # NoRequest, NEW k \in EventKind,
           NEW r, r = NoRequest \/ r = [kind |-> "Monitor", job |-> w.request.job]
    PROVE  OverInv(Report(k, r), job)
  <1> DEFINE n == Report(k, r)
             l == Len(w.events)
  <1>1. r \in Request \cup {NoRequest}
    <2>1. w.request.job \in Jobs
      BY DEF Inv, TypeOK, Memory, Request
    <2> QED BY <2>1 DEF Request, RequestKind
  <1>2. /\ n.request = r /\ n.busy = w.busy /\ l \in Nat
        /\ Len(n.events) = l + 1
        /\ \A i \in 1..l : n.events[i] = w.events[i]
        /\ n.events[l + 1] = [kind |-> k, job |-> w.request.job]
    BY <1>1, ReportFacts, Zenon
  <1>3. w.busy
    BY DEF Inv, MemInv, BusyInv
  <1>4. r.kind \in {"None", "Monitor"}
    BY DEF NoRequest
  <1>5. ~Over(job, w.request.job)
    BY DEF OverInv
  <1>6. r # NoRequest => r.job = w.request.job
    OBVIOUS
  <1>7. ASSUME NEW i \in 1..Len(n.events) PROVE ~Over(job, n.events[i].job)
    <2>1. CASE i \in 1..l
      BY <2>1, <1>2 DEF OverInv
    <2>2. CASE i = l + 1
      BY <2>2, <1>2, <1>5
    <2> QED BY <2>1, <2>2, <1>2
  <1>8. n.request # NoRequest => ~Over(job, n.request.job)
    BY <1>2, <1>5, <1>6
  <1>9. n.busy /\ n.request.kind \in {"None", "Monitor"}
    BY <1>2, <1>3, <1>4
  <1> QED BY <1>7, <1>8, <1>9 DEF OverInv, ChannelInv

\* Writing the file of one job.
LEMMA WriteOver ==
    ASSUME Inv, OverInv(w, job), NEW j \in Jobs, NEW jg,
           jg = job \/ \E g : /\ jg = [job EXCEPT ![j] = g] /\ Fits(g)
                              /\ g.attempt \in LastAttempt => Over(job, j)
    PROVE  \A i \in Jobs : (Over(jg, i) => Over(job, i)) /\ Fits(jg[i])
  <1>1. job \in JobFiles /\ \A i \in Jobs : Fits(job[i])
    BY DEF OverInv, Inv, TypeOK, JobFiles
  <1>2. CASE jg = job
    BY <1>1, <1>2
  <1>3. ASSUME NEW g, jg = [job EXCEPT ![j] = g], Fits(g), g.attempt \in LastAttempt => Over(job, j)
        PROVE  \A i \in Jobs : (Over(jg, i) => Over(job, i)) /\ Fits(jg[i])
    <2>1. jg[j] = g /\ \A i \in Jobs : i # j => jg[i] = job[i]
      BY <1>1, <1>3 DEF JobFiles
    <2> QED BY <1>1, <1>3, <2>1 DEF Over
  <1> QED BY <1>2, <1>3

\* Journalling a new job.
LEMMA JournaledOver ==
    ASSUME NEW jf \in JobFiles, NEW o, NEW b, NEW j \in Jobs, NEW s, NEW k,
           \A i \in Jobs : Fits(jf[i])
    PROVE  LET g == Journaled(jf, o, b, j, s, k)
           IN  \A i \in Jobs : (Over(g, i) => Over(jf, i)) /\ Fits(g[i])
  <1> DEFINE g == Journaled(jf, o, b, j, s, k)
  <1>1. /\ \A i \in Jobs : i # j => g[i] = jf[i]
        /\ g[j] = jf[j] \/ (g[j].attempt = "None" /\ g[j].state \in {"Queued", "Removed"})
    BY DEF Journaled, JobFiles, QueuedJob
  <1> HIDE DEF g
  <1>2. ASSUME NEW i \in Jobs PROVE (Over(g, i) => Over(jf, i)) /\ Fits(g[i])
    <2>1. CASE g[i] = jf[i]
      BY <2>1 DEF Over
    <2>2. CASE g[i].attempt = "None" /\ g[i].state \in {"Queued", "Removed"}
      BY <2>2 DEF Over, LastAttempt, Fits
    <2> QED BY <1>1, <2>1, <2>2
  <1> QED BY <1>2 DEF g

\* The same, of the files as they are next.
LEMMA WrittenOver ==
    ASSUME Inv, \A i \in Jobs : Fits(job[i]),
           NEW o, NEW j \in Jobs, NEW s, NEW k, job' = Journaled(job, o, 0, j, s, k)
    PROVE  \A i \in Jobs : (Over(job', i) => Over(job, i)) /\ Fits(job'[i])
  <1>1. job \in JobFiles
    BY DEF Inv, TypeOK, JobFiles
  <1>2. PICK g : g = Journaled(job, o, 0, j, s, k)
    OBVIOUS
  <1>3. \A i \in Jobs : (Over(g, i) => Over(job, i)) /\ Fits(g[i])
    BY <1>1, <1>2, JournaledOver
  <1>4. job' = g
    BY <1>2
  <1> QED BY <1>3, <1>4

\* The commands.
LEMMA CommandOver ==
    ASSUME Inv, OverInv(w, job), Command
    PROVE  OverInv(w', job')
  <1> DEFINE NoNew == \A i \in Jobs : (Over(job', i) => Over(job, i)) /\ Fits(job'[i])
             SameChannel == \/ w' = Lost
                            \/ w'.request = w.request /\ w'.events = w.events /\ w'.busy = w.busy
  <1>0. w \in Memory /\ job \in JobFiles
        /\ \A i \in Jobs : Fits(job[i])
    BY DEF Inv, TypeOK, JobFiles, OverInv
  <1>1. ASSUME NEW s \in Shots, NEW k \in Kind, NEW t, NEW j \in Fresh, NEW o,
               Enqueue(s, k, t, j, o)
        PROVE  NoNew /\ SameChannel
    <2>1. j \in Jobs /\ job' = Journaled(job, o, 0, j, s, k)
      BY <1>1 DEF Enqueue, Fresh
    <2>2. NoNew
      BY <1>0, <2>1, WrittenOver
    <2>3. SameChannel
      BY <1>0, <1>1 DEF Enqueue, After, Memory
    <2> QED BY <2>2, <2>3
  <1>2. ASSUME \/ \E s \in Shots : SelectTake(s)
               \/ \E p \in Projects, b \in BOOLEAN : SetProjectPaused(p, b)
               \/ \E b \in BOOLEAN : SetQueuePaused(b)
        PROVE  NoNew /\ SameChannel
    <2>1. w' = w /\ job' = job
      BY <1>2 DEF SelectTake, SetProjectPaused, SetQueuePaused
    <2> QED BY <1>0, <2>1
  <1>3. ASSUME NEW i \in DOMAIN w.pending, NEW o \in Outcomes(3), CancelPending(i, o)
        PROVE  NoNew /\ SameChannel
    <2> DEFINE j == w.pending[i]
    <2>1. j \in Jobs
      <3>1. w.pending \in Seq(Jobs) /\ i \in 1..Len(w.pending)
        BY <1>0 DEF Memory
      <3> QED BY <3>1, ElementOfSeq
    <2>2. job[j].attempt = "None" /\ job[j] \in JobJournal
      BY <1>3, <2>1 DEF CancelPending, Inv, JobInv, Begun, TypeOK
    <2>3. /\ [job[j] EXCEPT !.state = "Cancelled"].attempt = "None"
          /\ [job[j] EXCEPT !.state = "Cancelled"].state = "Cancelled"
      BY <2>2 DEF JobJournal
    <2>4. job' = job \/ job' = [job EXCEPT ![j] = [job[j] EXCEPT !.state = "Cancelled"]]
      BY <1>3 DEF CancelPending
    <2>5. NoNew
      <3> HIDE DEF j
      <3>1. PICK g : g = [job[j] EXCEPT !.state = "Cancelled"]
        OBVIOUS
      <3>2. g.attempt \notin LastAttempt /\ Fits(g)
        BY <2>3, <3>1 DEF LastAttempt, Fits
      <3>3. job' = job \/ job' = [job EXCEPT ![j] = g]
        BY <2>4, <3>1
      <3> QED BY <2>1, <3>2, <3>3, WriteOver
    <2>6. SameChannel
      BY <1>0, <1>3 DEF CancelPending, After, Memory
    <2> QED BY <2>5, <2>6
  <1>4. ASSUME NEW o \in Outcomes(3), CancelRunning(o)
        PROVE  NoNew /\ SameChannel
    <2> DEFINE j == w.running
               g == [job[j] EXCEPT !.state = "Cancelled", !.attempt = "Cancelled"]
    <2>1. j \in Jobs /\ job[j] \in JobJournal
      BY <1>0, <1>4 DEF CancelRunning, Memory, JobFiles
    <2>2. g.attempt \notin LastAttempt /\ Fits(g)
      <3>1. g.attempt = "Cancelled" /\ g.state = "Cancelled"
        BY <2>1 DEF JobJournal
      <3> HIDE DEF g
      <3> QED BY <3>1 DEF LastAttempt, Fits
    <2>3. job' = job \/ job' = [job EXCEPT ![j] = g]
      BY <1>4, <2>1, <1>0 DEF CancelRunning, JobFiles, JobJournal
    <2>4. NoNew
      <3> HIDE DEF j, g
      <3> QED BY <2>1, <2>2, <2>3, WriteOver
    <2>5. SameChannel
      BY <1>0, <1>4 DEF CancelRunning, After, Memory
    <2> QED BY <2>4, <2>5
  <1>5. NoNew /\ SameChannel
    BY <1>1, <1>2, <1>3, <1>4 DEF Command
  <1> QED BY <1>5, SameOver

\* Startup and crashes.
LEMMA StartupOver ==
    ASSUME Inv, OverInv(w, job), Startup \/ Crash
    PROVE  OverInv(w', job')
  <1>0. w \in Memory /\ job \in JobFiles
        /\ \A i \in Jobs : Fits(job[i])
    BY DEF Inv, TypeOK, JobFiles, OverInv
  <1>1. ASSUME NEW R, NEW end, Boot(R, end)
        PROVE  OverInv(w', job')
    <2> DEFINE m == [Lost EXCEPT !.phase = "resuming"]
    <2>1. job' = job /\ RecoverShots(R) \in [Shots -> ShotRuntime]
      BY <1>1, RecoverType DEF Boot, RebuildShots, Inv
    <2>2. CASE w' = Lost
      BY <2>1, <2>2, <1>0, LostOver
    <2>3. CASE w' \in Rebuilt(m, RecoverShots(R))
      <3>1. m \in Memory /\ m.request = NoRequest /\ m.events = <<>>
        <4>1. m \in Memory BY LostType DEF Memory
        <4>2. m.request = NoRequest /\ m.events = <<>> BY DEF Lost
        <4> QED BY <4>1, <4>2
      <3> HIDE DEF m
      <3>2. w'.request = NoRequest /\ w'.events = <<>>
        BY <2>1, <2>3, <3>1, RebuiltFacts
      <3> QED BY <2>1, <3>2, <1>0 DEF OverInv, ChannelInv
    <2> QED BY <1>1, <2>2, <2>3 DEF Boot
  <1>2. ASSUME NEW s \in Shots, NEW j \in Fresh, NEW o, ResumeAudition(s, j, o)
        PROVE  OverInv(w', job')
    <2>1. j \in Jobs /\ job' = Journaled(job, o, 0, j, s, "audition")
      BY <1>2 DEF ResumeAudition, Fresh
    <2>2. \A i \in Jobs : (Over(job', i) => Over(job, i)) /\ Fits(job'[i])
      BY <1>0, <2>1, WrittenOver
    <2>3. \/ w' = Lost
          \/ w'.request = w.request /\ w'.events = w.events /\ w'.busy = w.busy
      BY <1>0, <1>2 DEF ResumeAudition, Memory
    <2> QED BY <2>2, <2>3, SameOver
  <1>3. CASE Open
    <2>1. job' = job /\ w'.request = w.request /\ w'.events = w.events /\ w'.busy = w.busy
      BY <1>3, <1>0 DEF Open, Memory
    <2> QED BY <1>0, <2>1, SameOver
  <1>4. CASE Crash
    BY <1>0, <1>4, LostOver DEF Crash
  <1> QED BY <1>1, <1>2, <1>3, <1>4 DEF Startup

\* Dispatch: what it sends is about a job whose submission is known, and it
\* gives a submission up only while no request or event is on its way.
LEMMA DispatchOver ==
    ASSUME Inv, OverInv(w, job), Dispatch
    PROVE  OverInv(w', job')
  <1>0. /\ w \in Memory /\ job \in JobFiles /\ ChannelInv(w)
        /\ MemInv(w, job, submissions)
        /\ \A i \in Jobs : Fits(job[i])
    BY DEF Inv, TypeOK, JobFiles, OverInv
  <1>1. ASSUME NEW i \in DOMAIN w.pending, NEW fits \in Contexts, NEW o,
               o \in Outcomes(3) \/ o \in Outcomes(4), StartNext(i, fits, o)
        PROVE  OverInv(w', job')
    <2> DEFINE j == w.pending[i]
               st == IF o.done = 4 THEN "Blocked" ELSE "Active"
               g == [job[j] EXCEPT !.state = st, !.attempt = "Prepared"]
               started == [w EXCEPT !.running = j, !.pending = RemoveAt(@, i)]
    <2>1. j \in Jobs /\ started \in Memory
      <3>1. w.pending \in Seq(Jobs) /\ i \in 1..Len(w.pending)
        BY <1>0 DEF Memory
      <3>2. j \in Jobs BY <3>1, ElementOfSeq
      <3>3. RemoveAt(w.pending, i) \in Seq(Jobs) BY <3>1, RemoveAtType
      <3> HIDE DEF j
      <3>4. started \in Memory BY <1>0, <3>2, <3>3 DEF Memory
      <3> QED BY <3>2, <3>4
    <2>2. /\ g.attempt = "Prepared" /\ g.state \in {"Blocked", "Active"}
          /\ (job' = job \/ job' = [job EXCEPT ![j] = g])
      BY <1>1, <1>0, <2>1 DEF StartNext, JobFiles, JobJournal
    <2>3. \A l \in Jobs : (Over(job', l) => Over(job, l)) /\ Fits(job'[l])
      <3> HIDE DEF j, g
      <3>1. g.attempt \notin LastAttempt /\ Fits(g)
        BY <2>2 DEF LastAttempt, Fits
      <3> QED BY <2>1, <2>2, <3>1, WriteOver
    <2>4. ~Over(job', j)
      <3>1. job[j].attempt = "None"
        BY <1>1, <2>1 DEF StartNext, Inv, JobInv, Begun
      <3> QED BY <2>1, <2>3, <3>1 DEF Over, LastAttempt
    <2>5. /\ w.request = NoRequest /\ w.events = <<>>
          /\ started.request = w.request /\ started.events = w.events /\ started.busy = w.busy
      <3>1. ~w.busy BY <1>1 DEF StartNext, MayDispatch
      <3> QED BY <1>0, <3>1, IdleChannel DEF Memory
    <2>6. w' \in {Lost, w, started, Send(started, "Prepare", j)}
      BY <1>1 DEF StartNext, After
    <2>7. CASE w' \in {Lost, w, started}
      <3> HIDE DEF started, j
      <3> QED BY <2>3, <2>5, <2>7, SameOver
    <2>8. CASE w' = Send(started, "Prepare", j)
      <3> HIDE DEF started, j
      <3> QED BY <2>1, <2>3, <2>4, <2>5, <2>8, SendOver
    <2> QED BY <2>6, <2>7, <2>8
  <1>2. ASSUME NEW R, NEW end, StartRebuild(R, end)
        PROVE  OverInv(w', job')
    <2>1. job' = job /\ RecoverShots(R) \in [Shots -> ShotRuntime]
      BY <1>2, RecoverType DEF StartRebuild, RebuildShots, Inv
    <2>2. \/ w' = Lost
          \/ w'.request = w.request /\ w'.events = w.events /\ w'.busy = w.busy
      <3>1. w' \in {w, Lost} \/ w' \in Rebuilt(w, RecoverShots(R))
        BY <1>2 DEF StartRebuild
      <3> QED BY <1>0, <2>1, <3>1, RebuiltFacts
    <2> QED BY <1>0, <2>1, <2>2, SameOver
  <1>3. CASE BlockRunning
    <2> DEFINE j == w.running
               g == [job[j] EXCEPT !.state = "Blocked"]
    <2>1. j \in Jobs /\ job[j] \in JobJournal /\ w' = w /\ job' = [job EXCEPT ![j] = g]
      BY <1>3, ResumableFacts DEF BlockRunning
    <2>2. g.attempt = job[j].attempt /\ g.state = "Blocked"
      BY <2>1 DEF JobJournal
    <2>4. \A l \in Jobs : (Over(job', l) => Over(job, l)) /\ Fits(job'[l])
      <3>1. Fits(g) /\ (g.attempt \in LastAttempt => Over(job, j))
        BY <2>2 DEF Over, Fits
      <3>2. j \in Jobs /\ (job' = job \/ job' = [job EXCEPT ![j] = g])
        BY <2>1
      <3> HIDE DEF g, j
      <3> QED BY <3>1, <3>2, WriteOver
    <2> QED BY <2>1, <2>4, SameOver
  <1>4. CASE MarkUnknown
    <2>1. /\ w.running \in Jobs /\ ~w.busy /\ w' = w
          /\ job' = [job EXCEPT ![w.running].state = "Blocked",
                                ![w.running].attempt = "SubmissionUnknown"]
      BY <1>4, ResumableFacts DEF MarkUnknown
    <2>2. \A l \in Jobs : Fits(job'[l])
      <3> TAKE l \in Jobs
      <3>1. CASE l = w.running
        <4>1. job'[l].state = "Blocked"
          BY <2>1, <3>1, <1>0 DEF JobFiles, JobJournal
        <4> QED BY <4>1 DEF Fits
      <3>2. CASE l # w.running
        BY <2>1, <3>2, <1>0 DEF JobFiles
      <3> QED BY <3>1, <3>2
    <2>3. w.request = NoRequest /\ w.events = <<>> /\ Len(w.events) = 0
      BY <1>0, <2>1, IdleChannel
    <2>4. w' = w
      BY <2>1
    <2> QED BY <2>2, <2>3, <2>4 DEF OverInv, ChannelInv
  <1>5. ASSUME NEW k \in {"Prepare", "Reconcile"}, SendAgain(k)
        PROVE  OverInv(w', job')
    <2>1. /\ w.running \in Jobs /\ ~w.busy /\ job' = job
          /\ w' = Send(w, k, w.running) /\ job[w.running].state # "Blocked"
      BY <1>5, ResumableFacts DEF SendAgain, Resumable
    <2>2. w.request = NoRequest /\ w.events = <<>>
      BY <1>0, <2>1, IdleChannel
    <2>3. ~Over(job, w.running)
      BY <1>5 DEF SendAgain, Over, LastAttempt
    <2> QED BY <1>0, <2>1, <2>2, <2>3, SendOver
  <1> QED BY <1>1, <1>2, <1>3, <1>4, <1>5 DEF Dispatch

\* Events are about jobs whose submission is known; the one that says that it
\* is unknown is the last of its request.
LEMMA EventOver ==
    ASSUME Inv, OverInv(w, job), NEW j \in Jobs, HandleEvent(j)
    PROVE  OverInv(w', job')
  <1>0. /\ w \in Memory /\ job \in JobFiles
        /\ \A i \in Jobs : Fits(job[i])
    BY DEF Inv, TypeOK, JobFiles, OverInv
  <1> DEFINE Blocks == \A i \in Jobs : Fits(job'[i])
             NoNew == \A i \in Jobs : (Over(job', i) => Over(job, i)) /\ Fits(job'[i])
  <1>1. ASSUME NEW k, Received(k, j), Blocks, k = "Submitted" => NoNew, w' \in {Lost, Handled}
        PROVE  OverInv(w', job')
    BY <1>1, HandledOver, LostOver
  <1>2. ASSUME NEW o \in Outcomes(2), ApplyPrepared(j, o)
        PROVE  OverInv(w', job')
    <2> DEFINE g == [job[j] EXCEPT !.attempt = "Submitting"]
    <2>0. Received("Prepared", j) /\ ~Over(job, j) /\ job[j] \in JobJournal /\ Fits(job[j])
      <3>1. Received("Prepared", j)
        BY <1>2 DEF ApplyPrepared
      <3> QED BY <1>0, <3>1, HandledOver DEF JobFiles
    <2>1. g.attempt = "Submitting" /\ g.state = job[j].state /\ (job' = job \/ job' = [job EXCEPT ![j] = g])
      BY <1>0, <1>2 DEF ApplyPrepared, JobFiles, JobJournal
    <2>2. NoNew
      <3> HIDE DEF g
      <3>1. g.attempt \notin LastAttempt /\ Fits(g)
        BY <2>0, <2>1 DEF LastAttempt, Fits, Over
      <3> QED BY <2>1, <3>1, WriteOver
    <2>3. /\ Received("Prepared", j)
          /\ w' \in {Lost, Handled, Send(Handled, "Submit", j)}
      BY <1>2 DEF ApplyPrepared, After
    <2>4. CASE w' \in {Lost, Handled}
      BY <1>1, <2>2, <2>3, <2>4
    <2>5. CASE w' = Send(Handled, "Submit", j)
      <3>1. /\ Handled \in Memory /\ Handled.request = w.request
            /\ Handled.events = <<>> /\ w.request = NoRequest
        <4>1. "Prepared" # "Submitted" OBVIOUS
        <4> QED BY <2>3, <4>1, HandledFacts, Zenon
      <3>2. ~Over(job', j)
        BY <2>0, <2>2
      <3> QED BY <2>2, <2>5, <3>1, <3>2, SendOver
    <2> QED BY <2>3, <2>4, <2>5
  <1>3. ASSUME NEW k \in {"Submitted", "SubmissionUnknown", "MonitorRetry"},
               NEW o \in Outcomes(1), NoteAttempt(k, j, o)
        PROVE  OverInv(w', job')
    <2>1. Received(k, j) /\ w' = Handled
      BY <1>3 DEF NoteAttempt, Current
    <2>0. ~Over(job, j) /\ job[j] \in JobJournal /\ Fits(job[j])
      BY <1>0, <2>1, HandledOver DEF JobFiles
    <2>2. CASE job' = job
      BY <1>0, <1>1, <2>1, <2>2
    <2>3. CASE k = "Submitted" /\ job' = [job EXCEPT ![j].attempt = k, ![j].backendId = TRUE]
      <3>1. NoNew
        <4>1. /\ job'[j].attempt = "Submitted" /\ job'[j].state = job[j].state
              /\ \A i \in Jobs : i # j => job'[i] = job[i]
          BY <1>0, <2>3 DEF JobFiles, JobJournal
        <4>2. ~Over(job', j) /\ Fits(job'[j])
          BY <2>0, <4>1 DEF LastAttempt, Fits, Over
        <4> QED BY <1>0, <4>1, <4>2 DEF Over
      <3> QED BY <1>1, <2>1, <3>1
    <2>4. CASE k = "SubmissionUnknown" /\ job' = [job EXCEPT ![j].attempt = k, ![j].state = "Blocked"]
      <3>1. Blocks
        <4>1. /\ job'[j].attempt = "SubmissionUnknown" /\ job'[j].state = "Blocked"
              /\ \A i \in Jobs : i # j => job'[i] = job[i]
          BY <1>0, <2>4 DEF JobFiles, JobJournal
        <4>2. Fits(job'[j])
          BY <4>1 DEF Fits
        <4> QED BY <1>0, <4>1, <4>2
      <3> QED BY <1>1, <2>1, <2>4, <3>1
    <2>5. CASE k = "MonitorRetry" /\ job' = [job EXCEPT ![j].attempt = "Running"]
      <3>1. Blocks
        <4>1. /\ job'[j].attempt = "Running" /\ job'[j].state = job[j].state
              /\ \A i \in Jobs : i # j => job'[i] = job[i]
          BY <1>0, <2>5 DEF JobFiles, JobJournal
        <4>2. Fits(job'[j])
          BY <2>0, <4>1 DEF LastAttempt, Fits, Over
        <4> QED BY <1>0, <4>1, <4>2
      <3> QED BY <1>1, <2>1, <2>5, <3>1
    <2> QED BY <1>3, <2>2, <2>3, <2>4, <2>5 DEF NoteAttempt
  <1>4. ASSUME NEW k \in DOMAIN FailureOf, NEW o \in Outcomes(3), FailJob(k, j, o)
        PROVE  OverInv(w', job')
    <2> DEFINE g == [job[j] EXCEPT !.state = "Failed", !.attempt = FailureOf[k]]
    <2>1. /\ FailureOf[k] \in LastAttempt \ {"SubmissionUnknown"}
          /\ k # "Submitted"
      BY DEF FailureOf, LastAttempt
    <2>2. g.attempt = FailureOf[k] /\ (job' = job \/ job' = [job EXCEPT ![j] = g])
      BY <1>0, <1>4 DEF FailJob, JobFiles, JobJournal
    <2>3. Blocks
      <3> HIDE DEF g
      <3>1. Fits(g)
        BY <2>1, <2>2 DEF Fits
      <3> QED BY <1>0, <2>2, <3>1 DEF JobFiles
    <2>4. /\ Received(k, j)
          /\ w' \in {Lost, Handled, [Handled EXCEPT !.running = NoJob]}
      BY <1>4 DEF FailJob, Current, After
    <2>5. OverInv(Handled, job')
      BY <2>1, <2>3, <2>4, HandledOver
    <2>6. CASE w' = [Handled EXCEPT !.running = NoJob]
      <3>1. Handled \in Memory
        BY <2>4, HandledFacts
      <3>2. /\ w'.request = Handled.request /\ w'.events = Handled.events
            /\ w'.busy = Handled.busy
        BY <2>6, <3>1 DEF Memory
      <3> QED BY <2>5, <3>2 DEF OverInv, ChannelInv
    <2> QED BY <1>1, <2>1, <2>3, <2>4, <2>6
  <1>5. ASSUME NEW n \in Fresh \cup {NoJob}, NEW same \in BOOLEAN, NEW o, CompleteJob(j, n, same, o)
        PROVE  OverInv(w', job')
    <2> DEFINE done == [job EXCEPT ![j].state = "Completed", ![j].attempt = "Completed"]
               g == [job[j] EXCEPT !.state = "Completed", !.attempt = "Completed"]
               again == AuditionDue(RegisterCandidate(done, shot[job[j].shot], j)) /\ Fresh # {}
               freed == IF o.acked >= 3 THEN [Handled EXCEPT !.running = NoJob] ELSE Handled
    <2>1. /\ done \in JobFiles
          /\ \A i \in Jobs : Fits(done[i])
      <3>1. g \in JobJournal /\ g.attempt = "Completed" /\ done = [job EXCEPT ![j] = g]
        <4>1. job[j] \in JobJournal /\ job \in JobFiles BY <1>0 DEF JobFiles
        <4>2. g \in JobJournal BY <4>1, JobTypes DEF JobState, AttemptState
        <4> QED BY <4>1, <4>2 DEF JobJournal
      <3> HIDE DEF g, done
      <3>2. Fits(g)
        BY <3>1 DEF Fits, LastAttempt
      <3>3. done \in JobFiles BY <1>0, <3>1 DEF JobFiles
      <3> QED BY <1>0, <3>1, <3>2, <3>3 DEF JobFiles
    <2>2. job' \in {job, done} \/ (n # NoJob /\ job' = Journaled(done, o, 4, n, job[j].shot, "audition"))
      <3>1. job' = job \/ job' = Journaled(done, o, 4, n, job[j].shot, "audition")
        BY <1>5 DEF CompleteJob
      <3>2. CASE again
        <4>1. n \in Fresh BY <1>5, <3>2 DEF CompleteJob
        <4>2. n # NoJob BY <4>1 DEF Fresh, Jobs, NoJob
        <4> QED BY <3>1, <4>2
      <3>3. CASE ~again
        <4>1. o \in Outcomes(4) BY <1>5, <3>3 DEF CompleteJob
        <4>2. o.done \in Nat /\ o.done <= 4 BY <4>1, OutcomeFacts
        <4>3. Journaled(done, o, 4, n, job[j].shot, "audition") = done BY <4>2 DEF Journaled
        <4> QED BY <3>1, <4>3
      <3> QED BY <3>2, <3>3
    <2>3. Blocks
      <3>1. CASE job' \in {job, done}
        <4> HIDE DEF done
        <4> QED BY <1>0, <2>1, <3>1
      <3>2. CASE n # NoJob /\ job' = Journaled(done, o, 4, n, job[j].shot, "audition")
        <4>1. n \in Jobs BY <3>2 DEF Fresh
        <4> DEFINE h == Journaled(done, o, 4, n, job[j].shot, "audition")
        <4>2. \A i \in Jobs : Fits(h[i])
          <5>1. done \in JobFiles /\ \A i \in Jobs : Fits(done[i])
            BY <2>1
          <5> HIDE DEF done
          <5> QED BY <5>1, <4>1, JournaledOver
        <4>3. job' = h BY <3>2
        <4> HIDE DEF h
        <4> QED BY <4>2, <4>3
      <3> QED BY <2>2, <3>1, <3>2
    <2>4. /\ Received("Completed", j)
          /\ w' \in {Lost, freed, [freed EXCEPT !.pending = Append(@, n)]}
      BY <1>5 DEF CompleteJob, Current, After
    <2>5. OverInv(Handled, job') /\ Handled \in Memory
      <3>1. "Completed" # "Submitted" /\ Received("Completed", j) /\ Blocks
        BY <2>3, <2>4
      <3>2. OverInv(Handled, job')
        BY <3>1, HandledOver
      <3> QED BY <3>1, <3>2, HandledFacts
    <2>6. /\ freed.request = Handled.request /\ freed.events = Handled.events
          /\ freed.busy = Handled.busy /\ DOMAIN freed = DOMAIN Handled
      BY <2>5 DEF Memory
    <2>7. CASE w' \in {freed, [freed EXCEPT !.pending = Append(@, n)]}
      <3>1. /\ w'.request = Handled.request /\ w'.events = Handled.events
            /\ w'.busy = Handled.busy
        BY <2>5, <2>6, <2>7 DEF Memory
      <3> HIDE DEF freed
      <3> QED BY <2>5, <3>1 DEF OverInv, ChannelInv
    <2> QED BY <1>1, <2>3, <2>4, <2>7
  <1>6. ASSUME NEW k \in EventKind, Discard(k, j)
        PROVE  OverInv(w', job')
    BY <1>0, <1>1, <1>6 DEF Discard
  <1> QED BY <1>2, <1>3, <1>4, <1>5, <1>6 DEF HandleEvent

\* The executor reports on jobs whose submission is known.
LEMMA ExecutorOver ==
    ASSUME Inv, OverInv(w, job),
           Executor \/ Backend
    PROVE  OverInv(w', job')
  <1>0. /\ w \in Memory
        /\ \A i \in Jobs : Fits(job[i])
    BY DEF Inv, TypeOK, OverInv
  <1>1. ASSUME NEW k \in {"Prepared", "PreparationFailed"}, ExPrepare(k)
        PROVE  OverInv(w', job')
    <2>1. w.request # NoRequest /\ w' = Report(k, NoRequest) /\ job' = job
      BY <1>1 DEF ExPrepare, Working, NoRequest
    <2> QED BY <2>1, ReportOver DEF EventKind
  <1>2. ASSUME NEW accepted, NEW answered, ExSubmit(accepted, answered)
        PROVE  OverInv(w', job')
    <2>1. w.request # NoRequest /\ job' = job
      BY <1>2 DEF ExSubmit, Working, NoRequest
    <2>2. \/ w' = Report("Submitted", [kind |-> "Monitor", job |-> w.request.job])
          \/ w' = Report("SubmissionUnknown", NoRequest)
      BY <1>2 DEF ExSubmit
    <2> QED BY <2>1, <2>2, ReportOver DEF EventKind
  <1>3. ASSUME NEW k \in EventKind, ExWatch(k)
        PROVE  OverInv(w', job')
    <2>1. w.request # NoRequest /\ job' = job
      BY <1>3 DEF ExWatch, Working, NoRequest
    <2>2. OverInv(Report(k, NoRequest), job)
      BY <2>1, ReportOver
    <2>3. /\ w'.request = Report(k, NoRequest).request
          /\ w'.events = Report(k, NoRequest).events
          /\ w'.busy = Report(k, NoRequest).busy
      <3>1. Report(k, NoRequest) \in Memory
        BY <2>1, ReportFacts
      <3> QED BY <1>3, <3>1 DEF ExWatch, Memory
    <2> QED BY <2>1, <2>2, <2>3 DEF OverInv, ChannelInv
  <1>4. CASE Backend
    BY <1>4 DEF Backend, BackendStarts, BackendEnds
  <1> QED BY <1>1, <1>2, <1>3, <1>4 DEF Executor

\* Every step, and none.
LEMMA OverNext ==
    ASSUME Inv, OverInv(w, job), [Next]_vars
    PROVE  OverInv(w', job')
  <1>1. CASE Next
    BY <1>1, CommandOver, StartupOver, DispatchOver, EventOver,
       ExecutorOver DEF Next, MainLoop
  <1>2. CASE UNCHANGED vars
    BY <1>2 DEF vars
  <1> QED BY <1>1, <1>2

\* No submission is unknown at first.
LEMMA OverInit == Init => OverInv(w, job)
  BY LostOver DEF Init, Fits

\* So it always holds.
LEMMA OverInvariance == Spec => [](Inv /\ OverInv(w, job))
  <1>1. Init => Inv /\ OverInv(w, job)
    BY InitInv, OverInit
  <1>2. Inv /\ OverInv(w, job) /\ [Next]_vars => (Inv /\ OverInv(w, job))'
    <2> SUFFICES ASSUME Inv, OverInv(w, job), [Next]_vars
                 PROVE  Inv' /\ OverInv(w', job')
      OBVIOUS
    <2> QED BY NextInv, OverNext
  <1> QED BY <1>1, <1>2, PTL DEF Spec

\* A new job's file was absent: journalling it changes no unknown submission.
LEMMA JournaledOther ==
    ASSUME NEW jf \in JobFiles, NEW o, NEW b, NEW j \in Jobs, NEW s, NEW k,
           NEW i \in Jobs, i # j
    PROVE  Journaled(jf, o, b, j, s, k)[i] = jf[i]
  BY DEF Journaled, JobFiles

\* No step writes the file of a job of an unknown submission, or submits it.
LEMMA UnknownKept ==
    ASSUME Inv, OverInv(w, job), Next, NEW j \in Jobs, Unknown(job, j)
    PROVE  job'[j] = job[j] /\ submissions'[j] = submissions[j]
  <1>0. /\ w \in Memory /\ job \in JobFiles /\ submissions \in [Jobs -> Nat]
        /\ job[j].state = "Blocked" /\ job[j].attempt = "SubmissionUnknown"
        /\ \A n \in Fresh : n # j
        /\ Over(job, j) /\ \A i \in Jobs : Fits(job[i])
    BY DEF Inv, TypeOK, JobFiles, OverInv, Fits, Over, LastAttempt, Unknown, Fresh
  <1>1. CASE Command
    <2>1. ASSUME NEW s, NEW k, NEW t, NEW n \in Fresh, NEW o, Enqueue(s, k, t, n, o)
          PROVE  job'[j] = job[j]
      BY <1>0, <2>1, JournaledOther DEF Enqueue, Fresh
    <2>2. ASSUME NEW i, NEW o, CancelPending(i, o) PROVE job'[j] = job[j]
      BY <1>0, <2>2 DEF CancelPending, JobFiles
    <2>3. ASSUME NEW o, CancelRunning(o) PROVE job'[j] = job[j]
      BY <1>0, <2>3 DEF CancelRunning, JobFiles
    <2>4. ASSUME NEW s, SelectTake(s) PROVE job' = job
      BY <2>4 DEF SelectTake
    <2>5. ASSUME NEW b, SetQueuePaused(b) \/ \E p \in Projects : SetProjectPaused(p, b)
          PROVE  job' = job
      BY <2>5 DEF SetQueuePaused, SetProjectPaused
    <2>6. job'[j] = job[j]
      BY <1>1, <2>1, <2>2, <2>3, <2>4, <2>5 DEF Command
    <2>7. submissions' = submissions
      <3>1. ASSUME NEW s, NEW k, NEW t, NEW n, NEW o, Enqueue(s, k, t, n, o)
            PROVE  submissions' = submissions
        BY <3>1 DEF Enqueue
      <3>2. ASSUME NEW i, NEW o, CancelPending(i, o) \/ CancelRunning(o)
            PROVE  submissions' = submissions
        BY <3>2 DEF CancelPending, CancelRunning
      <3>3. ASSUME NEW s, SelectTake(s) PROVE submissions' = submissions
        BY <3>3 DEF SelectTake
      <3>4. ASSUME NEW b, SetQueuePaused(b) \/ \E p \in Projects : SetProjectPaused(p, b)
            PROVE  submissions' = submissions
        BY <3>4 DEF SetQueuePaused, SetProjectPaused
      <3> QED BY <1>1, <3>1, <3>2, <3>3, <3>4 DEF Command
    <2> QED BY <2>6, <2>7
  <1>2. CASE Startup \/ Crash
    <2>1. ASSUME NEW s, NEW n \in Fresh, NEW o, ResumeAudition(s, n, o)
          PROVE  job'[j] = job[j]
      BY <1>0, <2>1, JournaledOther DEF ResumeAudition, Fresh
    <2> QED BY <1>2, <2>1 DEF Startup, Crash, Boot, Open, RebuildShots, ResumeAudition
  <1>3. CASE Dispatch
    <2>1. ASSUME NEW i, NEW fits, NEW o, StartNext(i, fits, o) PROVE job'[j] = job[j]
      BY <1>0, <2>1 DEF StartNext, JobFiles
    <2>2. CASE BlockRunning \/ MarkUnknown
      BY <1>0, <2>2 DEF BlockRunning, MarkUnknown, Resumable, JobFiles
    <2>3. ASSUME NEW R, NEW end, StartRebuild(R, end) PROVE job' = job
      BY <2>3 DEF StartRebuild, RebuildShots
    <2>4. ASSUME NEW k, SendAgain(k) PROVE job' = job
      BY <2>4 DEF SendAgain
    <2>5. job'[j] = job[j]
      BY <1>3, <2>1, <2>2, <2>3, <2>4 DEF Dispatch
    <2>6. submissions' = submissions
      <3>1. ASSUME NEW i, NEW fits, NEW o, StartNext(i, fits, o)
            PROVE  submissions' = submissions
        BY <3>1 DEF StartNext
      <3>2. CASE BlockRunning \/ MarkUnknown
        BY <3>2 DEF BlockRunning, MarkUnknown
      <3>3. ASSUME NEW R, NEW end, StartRebuild(R, end) PROVE submissions' = submissions
        BY <3>3 DEF StartRebuild, RebuildShots
      <3>4. ASSUME NEW k, SendAgain(k) PROVE submissions' = submissions
        BY <3>4 DEF SendAgain
      <3> QED BY <1>3, <3>1, <3>2, <3>3, <3>4 DEF Dispatch
    <2> QED BY <2>5, <2>6
  <1>4. ASSUME NEW i \in Jobs, HandleEvent(i)
        PROVE  job'[j] = job[j] /\ submissions'[j] = submissions[j]
    <2>1. ASSUME NEW k, Received(k, i) PROVE i # j
      BY <1>0, <2>1, HandledOver
    <2>2. ASSUME NEW o, ApplyPrepared(i, o) PROVE job'[j] = job[j]
      BY <1>0, <2>1, <2>2 DEF ApplyPrepared, JobFiles
    <2>3. ASSUME NEW k \in {"Submitted", "SubmissionUnknown", "MonitorRetry"}, NEW o,
                 NoteAttempt(k, i, o)
          PROVE job'[j] = job[j]
      <3>1. i # j
        BY <2>1, <2>3 DEF NoteAttempt, Current
      <3> QED BY <1>0, <2>3, <3>1 DEF NoteAttempt, JobFiles
    <2>4. ASSUME NEW k, NEW o, FailJob(k, i, o) PROVE job'[j] = job[j]
      BY <1>0, <2>1, <2>4 DEF FailJob, Current, JobFiles
    <2>5. ASSUME NEW n \in Fresh \cup {NoJob}, NEW same, NEW o, CompleteJob(i, n, same, o)
          PROVE job'[j] = job[j]
      <3> DEFINE done == [job EXCEPT ![i].state = "Completed", ![i].attempt = "Completed"]
      <3>1. i # j /\ n # j
        BY <1>0, <2>1, <2>5 DEF CompleteJob, Current, NoJob, Jobs
      <3>2. done[j] = job[j]
        BY <1>0, <3>1 DEF JobFiles
      <3>3. job' = job \/ job' = Journaled(done, o, 4, n, job[i].shot, "audition")
        BY <2>5 DEF CompleteJob
      <3>4. \A s, k : Journaled(done, o, 4, n, s, k)[j] = done[j]
        <4>1. DOMAIN done = Jobs BY <1>0 DEF JobFiles
        <4> HIDE DEF done
        <4> QED BY <4>1, <3>1 DEF Journaled
      <3> HIDE DEF done
      <3> QED BY <3>2, <3>3, <3>4
    <2>6. ASSUME NEW k, Discard(k, i) PROVE job' = job
      BY <2>6 DEF Discard
    <2>7. job'[j] = job[j]
      BY <1>4, <2>2, <2>3, <2>4, <2>5, <2>6 DEF HandleEvent
    <2>8. submissions' = submissions
      BY <1>4 DEF HandleEvent, ApplyPrepared, NoteAttempt, FailJob, CompleteJob, Discard
    <2> QED BY <2>7, <2>8
  <1>5. CASE Executor
    <2>1. ASSUME NEW accepted, NEW answered, ExSubmit(accepted, answered)
          PROVE  submissions'[j] = submissions[j]
      <3>1. w.request.job # j
        BY <1>0, <2>1 DEF ExSubmit, Working, OverInv, NoRequest
      <3> QED BY <1>0, <2>1, <3>1 DEF ExSubmit
    <2> QED BY <1>5, <2>1 DEF Executor, ExPrepare, ExSubmit, ExWatch
  <1>6. CASE Backend
    BY <1>6 DEF Backend, BackendStarts, BackendEnds
  <1> QED BY <1>1, <1>2, <1>3, <1>4, <1>5, <1>6 DEF Next, MainLoop

\* Once a submission is unknown, whatever crashes, restarts and failing writes
\* follow, the job stays blocked and is not sent again (mark_unknown in
\* runtime.rs, submit in executor.rs).
THEOREM UnknownStays == Spec => UnknownStaysBlocked
  <1>1. Inv /\ OverInv(w, job) /\ [Next]_vars =>
          [\A j \in Jobs : job[j].attempt = "SubmissionUnknown" =>
              /\ job'[j].attempt = "SubmissionUnknown" /\ job'[j].state = "Blocked"
              /\ submissions'[j] = submissions[j]]_vars
    <2> SUFFICES ASSUME Inv, OverInv(w, job), Next, NEW j \in Jobs,
                        job[j].attempt = "SubmissionUnknown"
                 PROVE  /\ job'[j].attempt = "SubmissionUnknown" /\ job'[j].state = "Blocked"
                        /\ submissions'[j] = submissions[j]
      OBVIOUS
    <2>1. job[j].state = "Blocked" /\ Unknown(job, j)
      BY DEF OverInv, Fits, Unknown
    <2> QED BY <2>1, UnknownKept
  <1> QED BY <1>1, OverInvariance, PTL DEF Spec, UnknownStaysBlocked

-----------------------------------------------------------------------------
(* The files, as long as no write fails: what the handlers write.  *)

ShotFiles == [Shots -> ShotRuntime]

\* jg is jf but for the file of job j, which stays one of the same shot.
Wrote(jf, jg, j) ==
    jg[j].shot = jf[j].shot /\ \A i \in Jobs : i # j => jg[i] = jf[i]

\* Without failing writes, a handler makes all of its writes or dies between
\* two of them.
LEMMA CleanOutcome ==
    ASSUME NEW n \in Nat, NEW o \in Outcomes(n), Spend(o), faults = 0, faults' = 0
    PROVE  \/ o.end = "ok" /\ o.done = n /\ o.acked = n
           \/ o.end = "crash" /\ o.done \in 1..(n - 1) /\ o.acked = o.done
  BY DEF Outcomes, Spend

\* More takes, and job files whose jobs are in the same states.
LEMMA SameFilesInv ==
    ASSUME NEW jf, NEW jg, NEW sf, NEW tf, NEW tg, FilesInv(jf, sf, tf), tf \subseteq tg,
           sf \in ShotFiles,
           \A j \in Jobs : /\ jg[j].shot = jf[j].shot
                           /\ jg[j].state = jf[j].state \/ {jf[j].state, jg[j].state} \subseteq Held
    PROVE  FilesInv(jg, sf, tg)
  <1>1. \A s \in Shots : sf[s].active # NoJob => sf[s].active \in Jobs
    BY DEF ShotFiles, ShotRuntime
  <1>2. PointsAtItsJob(jg, sf)
    BY <1>1 DEF FilesInv, PointsAtItsJob, Held, Unreadable
  <1>3. HeldIsPointedAt(jg, sf) /\ TakesKept(jg, sf, tg)
    BY DEF FilesInv, HeldIsPointedAt, TakesKept, Held
  <1>4. OneHolds(jg, sf)
    BY DEF FilesInv, OneHolds, Holding, Held
  <1> QED BY <1>2, <1>3, <1>4 DEF FilesInv

\* A new job, which no shot points at yet.
LEMMA NewFiles ==
    ASSUME NEW jf, NEW jg, NEW sf \in ShotFiles, NEW tf, FilesInv(jf, sf, tf),
           NEW j \in Jobs, jf[j].state = "Absent",
           jg[j].state = "Queued", \A i \in Jobs : i # j => jg[i] = jf[i]
    PROVE  /\ FilesInv(jg, sf, tf)
           /\ \A s \in Shots : sf[s].active # j
  <1>1. \A s \in Shots : sf[s].active # NoJob => sf[s].active \in Jobs
    BY DEF ShotFiles, ShotRuntime
  <1>2. \A s \in Shots : sf[s].active # j
    BY <1>1 DEF FilesInv, PointsAtItsJob, Unreadable, Jobs, NoJob
  <1>3. PointsAtItsJob(jg, sf)
    BY <1>1, <1>2 DEF FilesInv, PointsAtItsJob
  <1>4. HeldIsPointedAt(jg, sf) /\ TakesKept(jg, sf, tf)
    BY DEF FilesInv, HeldIsPointedAt, TakesKept, Held
  <1>5. OneHolds(jg, sf)
    BY DEF FilesInv, OneHolds, Holding, Held
  <1> QED BY <1>2, <1>3, <1>4, <1>5 DEF FilesInv

\* A free shot points at a queued job of its own.
LEMMA PointFiles ==
    ASSUME NEW jf, NEW sf \in ShotFiles, NEW sg, NEW tf, FilesInv(jf, sf, tf),
           NEW s \in Shots, NEW j \in Jobs, NEW t,
           jf[j].state = "Queued", jf[j].shot = s, sf[s].active = NoJob,
           sg = [sf EXCEPT ![s] = EnqueueShot(sf[s], j, t)]
    PROVE  FilesInv(jf, sg, tf)
  <1>1. /\ sg[s].active = j /\ sg[s].stage = "Queued" /\ sg[s].takes = sf[s].takes
        /\ \A r \in Shots : r # s => sg[r] = sf[r]
        /\ j # NoJob
    BY DEF ShotFiles, ShotRuntime, EnqueueShot, Jobs, NoJob
  <1>2. PointsAtItsJob(jf, sg)
    BY <1>1 DEF FilesInv, PointsAtItsJob, Unreadable
  <1>3. HeldIsPointedAt(jf, sg)
    BY <1>1 DEF FilesInv, HeldIsPointedAt, Held, Jobs, NoJob
  <1>4. TakesKept(jf, sg, tf)
    BY <1>1 DEF FilesInv, TakesKept, Jobs, NoJob
  <1>5. OneHolds(jf, sg)
    <2>1. \A i \in Jobs : Holding(jf, sg, i) => Holding(jf, sf, i)
      BY <1>1 DEF Holding, FilesInv, TakesKept
    <2> QED BY <2>1 DEF FilesInv, OneHolds
  <1>6. StagesShown(sg)
    BY <1>1 DEF FilesInv, StagesShown
  <1> QED BY <1>2, <1>3, <1>4, <1>5, <1>6 DEF FilesInv

\* A job ends; if it completed, its take is saved and it had been started.
LEMMA EndFiles ==
    ASSUME NEW jf, NEW jg, NEW sf \in ShotFiles, NEW tf, NEW tg,
           FilesInv(jf, sf, tf), tf \subseteq tg,
           NEW j \in Jobs, Wrote(jf, jg, j), jg[j].state \in Terminal,
           jg[j].state = "Completed" => jf[j].state \in Held /\ j \in tg
    PROVE  FilesInv(jg, sf, tg)
  <1>1. \A s \in Shots : sf[s].active # NoJob => sf[s].active \in Jobs
    BY DEF ShotFiles, ShotRuntime
  <1>2. PointsAtItsJob(jg, sf)
    BY <1>1 DEF FilesInv, PointsAtItsJob, Wrote, Unreadable, Terminal
  <1>3. HeldIsPointedAt(jg, sf)
    BY DEF FilesInv, HeldIsPointedAt, Wrote, Held, Terminal
  <1>4. TakesKept(jg, sf, tg)
    BY DEF FilesInv, TakesKept, HeldIsPointedAt, Wrote
  <1>5. OneHolds(jg, sf)
    <2>1. \A i \in Jobs : Holding(jg, sf, i) => Holding(jf, sf, i)
      BY DEF Holding, Wrote, Held, Terminal
    <2> QED BY <2>1 DEF FilesInv, OneHolds
  <1> QED BY <1>2, <1>3, <1>4, <1>5 DEF FilesInv

\* Shot b settles shot a: it has no active job; the one a had ended, and its
\* take is registered.
Settles(jf, a, b) ==
    /\ b.active = NoJob
    /\ b.stage \notin {"Queued", "Generating"}
    /\ a.takes \subseteq b.takes
    /\ a.active # NoJob => /\ jf[a.active].state \in Terminal
                           /\ jf[a.active].state = "Completed" => a.active \in b.takes

\* Shots let go of jobs that ended.
LEMMA SettleFiles ==
    ASSUME NEW jf, NEW sf \in ShotFiles, NEW sg, NEW tf, FilesInv(jf, sf, tf),
           \A s \in Shots : sg[s] = sf[s] \/ Settles(jf, sf[s], sg[s])
    PROVE  FilesInv(jf, sg, tf)
  <1>1. PointsAtItsJob(jf, sg)
    BY DEF FilesInv, PointsAtItsJob, Settles
  <1>2. HeldIsPointedAt(jf, sg)
    <2> SUFFICES ASSUME NEW j \in Jobs, jf[j].state \in Held
                 PROVE  jf[j].shot \in Shots /\ sg[jf[j].shot].active = j
      BY DEF HeldIsPointedAt
    <2>1. jf[j].shot \in Shots /\ sf[jf[j].shot].active = j
      BY DEF FilesInv, HeldIsPointedAt
    <2> QED BY <2>1 DEF Settles, Held, Terminal, Jobs, NoJob
  <1>3. TakesKept(jf, sg, tf)
    <2> SUFFICES ASSUME NEW j \in Jobs, jf[j].state = "Completed"
                 PROVE  /\ j \in tf /\ jf[j].shot \in Shots
                        /\ j \in sg[jf[j].shot].takes \/ sg[jf[j].shot].active = j
      BY DEF TakesKept
    <2>1. /\ j \in tf /\ jf[j].shot \in Shots
          /\ j \in sf[jf[j].shot].takes \/ sf[jf[j].shot].active = j
      BY DEF FilesInv, TakesKept
    <2> QED BY <2>1 DEF Settles, Jobs, NoJob
  <1>4. OneHolds(jf, sg)
    <2>1. \A i \in Jobs : Holding(jf, sg, i) => Holding(jf, sf, i)
      BY DEF Holding, FilesInv, TakesKept, Settles
    <2> QED BY <2>1 DEF FilesInv, OneHolds
  <1>5. StagesShown(sg)
    BY DEF FilesInv, StagesShown, Settles
  <1> QED BY <1>1, <1>2, <1>3, <1>4, <1>5 DEF FilesInv

\* The queued job of a shot starts while no other job holds the GPU.
LEMMA StartFiles ==
    ASSUME NEW jf, NEW jg, NEW sf \in ShotFiles, NEW tf, FilesInv(jf, sf, tf),
           NEW j \in Jobs, Wrote(jf, jg, j), jg[j].state \in Held,
           jf[j].shot \in Shots, sf[jf[j].shot].active = j,
           \A i \in Jobs : ~Holding(jf, sf, i)
    PROVE  FilesInv(jg, sf, tf)
  <1>1. \A s \in Shots : sf[s].active # NoJob => sf[s].active \in Jobs
    BY DEF ShotFiles, ShotRuntime
  <1>2. PointsAtItsJob(jg, sf)
    BY <1>1 DEF FilesInv, PointsAtItsJob, Wrote, Unreadable, Held
  <1>3. HeldIsPointedAt(jg, sf) /\ TakesKept(jg, sf, tf)
    BY DEF FilesInv, HeldIsPointedAt, TakesKept, Wrote, Held
  <1>4. OneHolds(jg, sf)
    <2>1. \A i \in Jobs : Holding(jg, sf, i) => i = j
      BY DEF Holding, Wrote
    <2> QED BY <2>1 DEF OneHolds
  <1> QED BY <1>2, <1>3, <1>4 DEF FilesInv

\* The stage of a shot with an active job becomes "Generating".
LEMMA StageFiles ==
    ASSUME NEW jf, NEW sf \in ShotFiles, NEW sg, NEW tf, FilesInv(jf, sf, tf),
           NEW s \in Shots, sf[s].active # NoJob,
           sg = [sf EXCEPT ![s].stage = "Generating"]
    PROVE  FilesInv(jf, sg, tf)
  <1>1. /\ \A r \in Shots : sg[r].active = sf[r].active /\ sg[r].takes = sf[r].takes
        /\ \A r \in Shots : r # s => sg[r] = sf[r]
        /\ sg[s].stage = "Generating"
    BY DEF ShotFiles, ShotRuntime
  <1>2. PointsAtItsJob(jf, sg) /\ HeldIsPointedAt(jf, sg) /\ TakesKept(jf, sg, tf)
    BY <1>1 DEF FilesInv, PointsAtItsJob, HeldIsPointedAt, TakesKept
  <1>3. OneHolds(jf, sg)
    <2>1. \A i \in Jobs : Holding(jf, sg, i) => Holding(jf, sf, i)
      BY <1>1 DEF Holding, FilesInv, TakesKept
    <2> QED BY <2>1 DEF FilesInv, OneHolds
  <1>4. StagesShown(sg)
    BY <1>1 DEF FilesInv, StagesShown
  <1> QED BY <1>2, <1>3, <1>4 DEF FilesInv

-----------------------------------------------------------------------------
(* The memory and the backend, as long as no write fails  *)

\* A job stays in its state, or stays started.
Stays(jf, jg, j) == jg[j].state = jf[j].state \/ {jf[j].state, jg[j].state} \subseteq Held

\* The entries of a queue are jobs.
LEMMA PendingJobs ==
    ASSUME NEW m \in Memory
    PROVE  /\ Len(m.pending) \in Nat
           /\ \A i \in 1..Len(m.pending) : m.pending[i] \in Jobs
           /\ m.running # NoJob => m.running \in Jobs
  <1>1. m.pending \in Seq(Jobs)
    BY DEF Memory
  <1> QED BY <1>1, LenProperties, ElementOfSeq DEF Memory

\* The events in the channel are about jobs.
LEMMA EventJobs ==
    ASSUME NEW m \in Memory
    PROVE  /\ Len(m.events) \in Nat
           /\ \A i \in 1..Len(m.events) : m.events[i].job \in Jobs
           /\ Len(m.events) = 0 => m.events = <<>>
  <1>1. m.events \in Seq(Event)
    BY DEF Memory
  <1>2. ASSUME NEW i \in 1..Len(m.events) PROVE m.events[i].job \in Jobs
    <2>1. m.events[i] \in Event BY <1>1, ElementOfSeq
    <2> QED BY <2>1 DEF Event
  <1> QED BY <1>1, <1>2, LenProperties, EmptySeq

\* No process has no queue and no work.
LEMMA LostHealthy ==
    ASSUME NEW jf, NEW sf, NEW be
    PROVE  QueueInv(Lost, jf, sf) /\ WorkInv(Lost, jf, be)
  BY DEF QueueInv, WorkInv, Lost, NoRequest

\* The same queue.
LEMMA SameQueue ==
    ASSUME NEW m \in Memory, NEW n, NEW jf, NEW jg, NEW sf, NEW sg, QueueInv(m, jf, sf),
           n.phase # "down" => m.phase # "down",
           n.running = m.running, n.pending = m.pending,
           \A j \in Jobs : Stays(jf, jg, j),
           \A s \in Shots : sg[s].active = sf[s].active
    PROVE  QueueInv(n, jg, sg)
  BY PendingJobs DEF QueueInv, Awaited, Held, Stays

\* A new job joins the queue.
LEMMA AppendQueue ==
    ASSUME NEW m \in Memory, NEW n, NEW jf, NEW jg, NEW sf, NEW sg, QueueInv(m, jf, sf),
           m.phase # "down", n.running = m.running,
           NEW j \in Jobs, n.pending = Append(m.pending, j),
           jf[j].state = "Absent", jg[j].state = "Queued", \A i \in Jobs : i # j => jg[i] = jf[i],
           NEW s \in Shots, sf[s].active = NoJob, sg[s].active = j,
           \A r \in Shots : r # s => sg[r] = sf[r]
    PROVE  QueueInv(n, jg, sg)
  <1> DEFINE q == m.pending
             l == Len(q)
  <1>1. /\ l \in Nat /\ \A i \in 1..l : q[i] \in Jobs
        /\ m.running # NoJob => m.running \in Jobs
    BY PendingJobs
  <1>2. /\ Len(n.pending) = l + 1
        /\ \A i \in 1..l : n.pending[i] = q[i]
        /\ n.pending[l + 1] = j
    <2>1. q \in Seq(Jobs) BY DEF Memory
    <2> QED BY <2>1, AppendProperties
  <1>3. \A i \in 1..(l + 1) : i \in 1..l \/ i = l + 1
    BY <1>1
  <1>4. /\ \A i \in 1..l : jf[q[i]].state = "Queued" /\ \E r \in Shots : sf[r].active = q[i]
        /\ \A i, k \in 1..l : q[i] = q[k] => i = k
        /\ m.running # NoJob => jf[m.running].state \in Held
        /\ \A r \in Shots : sf[r].active # NoJob =>
              sf[r].active = m.running \/ \E i \in 1..l : q[i] = sf[r].active
    BY DEF QueueInv, Awaited
  <1>5. \A i \in 1..l : q[i] # j /\ q[i] # NoJob
    BY <1>1, <1>4 DEF Jobs, NoJob
  <1>6. j # NoJob
    BY DEF Jobs, NoJob
  <1>7. ASSUME NEW i \in 1..Len(n.pending)
        PROVE  /\ jg[n.pending[i]].state = "Queued"
               /\ \E r \in Shots : sg[r].active = n.pending[i]
    <2>1. CASE i = l + 1
      BY <2>1, <1>2
    <2>2. CASE i \in 1..l
      <3>1. n.pending[i] = q[i] /\ jg[q[i]] = jf[q[i]] /\ jf[q[i]].state = "Queued"
        BY <2>2, <1>1, <1>2, <1>4, <1>5
      <3>2. PICK r \in Shots : sf[r].active = q[i]
        BY <2>2, <1>4
      <3>3. r # s
        BY <2>2, <3>2, <1>5
      <3> QED BY <3>1, <3>2, <3>3
    <2> QED BY <2>1, <2>2, <1>2, <1>3
  <1>8. ASSUME NEW i \in 1..Len(n.pending), NEW k \in 1..Len(n.pending),
               n.pending[i] = n.pending[k]
        PROVE  i = k
    BY <1>8, <1>2, <1>3, <1>4, <1>5
  <1>9. n.running # NoJob => jg[n.running].state \in Held
    BY <1>1, <1>4 DEF Held
  <1>10. Awaited(n, sg)
    <2> SUFFICES ASSUME NEW r \in Shots, sg[r].active # NoJob
                 PROVE  \/ sg[r].active = n.running
                        \/ \E i \in 1..Len(n.pending) : n.pending[i] = sg[r].active
      BY DEF Awaited
    <2>1. CASE r = s
      <3>1. l + 1 \in 1..Len(n.pending) BY <1>1, <1>2
      <3> QED BY <2>1, <3>1, <1>2
    <2>2. CASE r # s
      <3>1. \A i \in 1..l : i \in 1..Len(n.pending) BY <1>1, <1>2
      <3> QED BY <2>2, <3>1, <1>2, <1>4
    <2> QED BY <2>1, <2>2
  <1> QED BY <1>7, <1>8, <1>9, <1>10 DEF QueueInv

\* A queue with one entry removed.
LEMMA RemoveAtFacts ==
    ASSUME NEW S, NEW q \in Seq(S), NEW i \in 1..Len(q)
    PROVE  /\ Len(RemoveAt(q, i)) = Len(q) - 1
           /\ \A k \in 1..(Len(q) - 1) :
                 RemoveAt(q, i)[k] = IF k < i THEN q[k] ELSE q[k + 1]
  <1> DEFINE a == SubSeq(q, 1, i - 1)
             b == SubSeq(q, i + 1, Len(q))
  <1>1. Len(q) \in Nat /\ \A l \in 1..Len(q) : q[l] \in S
    BY LenProperties, ElementOfSeq
  <1>2. /\ a \in Seq(S) /\ Len(a) = i - 1
        /\ \A k \in 1..(i - 1) : a[k] = q[k]
    BY <1>1, SubSeqProperties
  <1>3. /\ b \in Seq(S) /\ Len(b) = Len(q) - i
        /\ \A k \in 1..(Len(q) - i) : b[k] = q[k + i]
    <2>1. /\ i + 1 \in Nat /\ i + 1 >= 1
          /\ \A k \in (i + 1)..Len(q) : q[k] \in S
      BY <1>1
    <2>2. b \in Seq(S)
      BY <1>1, SubSeqProperties
    <2>3. Len(b) = IF i + 1 <= Len(q) THEN Len(q) - (i + 1) + 1 ELSE 0
      BY <1>1, SubSeqProperties
    <2>4. Len(b) = Len(q) - i
      BY <1>1, <2>3
    <2>5. ASSUME NEW k \in 1..(Len(q) - i) PROVE b[k] = q[k + i]
      <3>1. b[k] = q[i + 1 + k - 1]
        BY <1>1, SubSeqProperties
      <3> QED BY <3>1, <1>1
    <2> QED BY <2>2, <2>4, <2>5
  <1>4. /\ Len(a \o b) = Len(a) + Len(b)
        /\ \A k \in 1..(Len(a) + Len(b)) :
              (a \o b)[k] = IF k <= Len(a) THEN a[k] ELSE b[k - Len(a)]
    BY <1>2, <1>3, ConcatProperties
  <1> HIDE DEF a, b
  <1>5. ASSUME NEW k \in 1..(Len(q) - 1)
        PROVE  (a \o b)[k] = IF k < i THEN q[k] ELSE q[k + 1]
    <2>1. CASE k < i
      BY <2>1, <1>1, <1>2, <1>3, <1>4
    <2>2. CASE ~(k < i)
      <3>1. k - (i - 1) \in 1..(Len(q) - i) /\ (k - (i - 1)) + i = k + 1
        BY <2>2, <1>1
      <3>2. (a \o b)[k] = b[k - (i - 1)]
        BY <2>2, <1>1, <1>2, <1>3, <1>4
      <3> QED BY <3>1, <3>2, <2>2, <1>3
    <2> QED BY <2>1, <2>2
  <1>6. Len(a \o b) = Len(q) - 1
    BY <1>1, <1>2, <1>3, <1>4
  <1> QED BY <1>5, <1>6 DEF RemoveAt, a, b

\* The shots sg are sf, but for a shot that lets go of job j.
LetsGo(sf, sg, j) ==
    \A r \in Shots : \/ sg[r].active = sf[r].active
                     \/ sf[r].active = j /\ sg[r].active = NoJob

\* An entry leaves the queue: nothing points at its job any longer, or it
\* becomes the running one.
LEMMA RemoveQueue ==
    ASSUME NEW m \in Memory, NEW n, NEW jf, NEW jg, NEW sf, NEW sg, QueueInv(m, jf, sf),
           m.phase # "down",
           NEW i \in 1..Len(m.pending), NEW j, j = m.pending[i],
           n.pending = RemoveAt(m.pending, i),
           \/ n.running = m.running
           \/ m.running = NoJob /\ n.running = j /\ jg[j].state \in Held,
           \A k \in Jobs : k # j => jg[k] = jf[k],
           LetsGo(sf, sg, j), \A r \in Shots : sg[r].active = j => n.running = j
    PROVE  QueueInv(n, jg, sg)
  <1> DEFINE q == m.pending
             p == n.pending
  <1>1. /\ Len(q) \in Nat /\ \A k \in 1..Len(q) : q[k] \in Jobs
        /\ m.running # NoJob => m.running \in Jobs
    BY PendingJobs
  <1>2. /\ Len(p) = Len(q) - 1
        /\ \A k \in 1..Len(p) : p[k] = IF k < i THEN q[k] ELSE q[k + 1]
    <2>1. q \in Seq(Jobs) BY DEF Memory
    <2>2. Len(RemoveAt(q, i)) = Len(q) - 1 /\ \A k \in 1..(Len(q) - 1) :
                 RemoveAt(q, i)[k] = IF k < i THEN q[k] ELSE q[k + 1]
      BY <2>1, RemoveAtFacts
    <2> QED BY <2>2
  <1>3. /\ \A k \in 1..Len(q) : jf[q[k]].state = "Queued" /\ \E r \in Shots : sf[r].active = q[k]
        /\ \A k, l \in 1..Len(q) : q[k] = q[l] => k = l
        /\ m.running # NoJob => jf[m.running].state \in Held
        /\ \A r \in Shots : sf[r].active # NoJob =>
              sf[r].active = m.running \/ \E k \in 1..Len(q) : q[k] = sf[r].active
    BY DEF QueueInv, Awaited
  <1> HIDE DEF q, p
  <1>4. ASSUME NEW k \in 1..Len(p)
        PROVE  \E l \in 1..Len(q) : p[k] = q[l] /\ l # i
    <2>1. CASE k < i
      BY <2>1, <1>1, <1>2
    <2>2. CASE ~(k < i)
      <3>1. k + 1 \in 1..Len(q) /\ k + 1 # i /\ p[k] = q[k + 1] BY <2>2, <1>1, <1>2
      <3> QED BY <3>1
    <2> QED BY <2>1, <2>2
  <1>5. q[i] = j /\ i \in 1..Len(q)
    BY DEF q
  <1>6. ASSUME NEW k \in 1..Len(p)
        PROVE  jg[p[k]].state = "Queued" /\ \E r \in Shots : sg[r].active = p[k]
    <2>1. PICK l \in 1..Len(q) : p[k] = q[l] /\ l # i
      BY <1>4
    <2>2. q[l] # j /\ q[l] \in Jobs /\ jf[q[l]].state = "Queued"
      BY <2>1, <1>1, <1>3, <1>5
    <2>3. PICK r \in Shots : sf[r].active = q[l]
      BY <1>3
    <2>4. sg[r].active = q[l]
      BY <2>2, <2>3 DEF LetsGo
    <2> QED BY <2>1, <2>2, <2>4
  <1>7. ASSUME NEW k \in 1..Len(p), NEW l \in 1..Len(p), p[k] = p[l]
        PROVE  k = l
    <2>1. (k < i => k \in 1..Len(q)) /\ (l < i => l \in 1..Len(q))
          /\ k + 1 \in 1..Len(q) /\ l + 1 \in 1..Len(q)
      BY <1>1, <1>2
    <2>2. CASE k < i /\ l < i
      BY <2>1, <2>2, <1>7, <1>2, <1>3
    <2>3. CASE k < i /\ ~(l < i)
      <3>1. q[k] = q[l + 1] BY <2>3, <1>7, <1>2
      <3>2. k = l + 1 BY <3>1, <2>1, <2>3, <1>3
      <3> QED BY <3>2, <2>3, <1>5
    <2>4. CASE ~(k < i) /\ l < i
      <3>1. q[k + 1] = q[l] BY <2>4, <1>7, <1>2
      <3>2. k + 1 = l BY <3>1, <2>1, <2>4, <1>3
      <3> QED BY <3>2, <2>4, <1>5
    <2>5. CASE ~(k < i) /\ ~(l < i)
      <3>1. q[k + 1] = q[l + 1] BY <2>5, <1>7, <1>2
      <3>2. k + 1 = l + 1 BY <3>1, <2>1, <1>3
      <3> QED BY <3>2
    <2> QED BY <2>2, <2>3, <2>4, <2>5
  <1>8. n.running # NoJob => jg[n.running].state \in Held
    <2>1. jf[j].state = "Queued" /\ j \in Jobs
      BY <1>1, <1>3, <1>5
    <2> QED BY <2>1, <1>1, <1>3 DEF Held
  <1>9. Awaited(n, sg)
    <2> SUFFICES ASSUME NEW r \in Shots, sg[r].active # NoJob, sg[r].active # n.running
                 PROVE  \E k \in 1..Len(p) : p[k] = sg[r].active
      BY DEF Awaited, p
    <2>1. sg[r].active = sf[r].active /\ sf[r].active # j
      BY DEF LetsGo
    <2>2. sf[r].active # m.running
      BY <2>1
    <2>3. PICK l \in 1..Len(q) : q[l] = sf[r].active
      BY <2>1, <2>2, <1>3
    <2>4. l # i
      BY <2>1, <2>3, <1>5
    <2>5. CASE l < i
      <3>1. l \in 1..Len(p) BY <2>5, <1>1, <1>2, <1>5
      <3> QED BY <3>1, <2>1, <2>3, <2>5, <1>2
    <2>6. CASE ~(l < i)
      <3>1. l - 1 \in 1..Len(p) /\ ~(l - 1 < i) /\ (l - 1) + 1 = l
        BY <2>4, <2>6, <1>1, <1>2
      <3>2. p[l - 1] = q[l] BY <3>1, <1>2
      <3> QED BY <3>1, <3>2, <2>1, <2>3
    <2> QED BY <2>5, <2>6
  <1> QED BY <1>6, <1>7, <1>8, <1>9 DEF QueueInv, p

\* The running job ends.
LEMMA FreedQueue ==
    ASSUME NEW m \in Memory, NEW n, NEW jf, NEW jg, NEW sf, NEW sg, QueueInv(m, jf, sf),
           m.phase # "down", m.running # NoJob,
           n.pending = m.pending, n.running = NoJob,
           \A k \in Jobs : k # m.running => jg[k] = jf[k],
           LetsGo(sf, sg, m.running), \A r \in Shots : sg[r].active # m.running
    PROVE  QueueInv(n, jg, sg)
  <1>1. /\ Len(m.pending) \in Nat /\ \A k \in 1..Len(m.pending) : m.pending[k] \in Jobs
    BY PendingJobs
  <1>2. \A k \in 1..Len(m.pending) : m.pending[k] # m.running
    BY DEF QueueInv, Held
  <1> QED BY <1>1, <1>2 DEF QueueInv, Awaited, LetsGo

-----------------------------------------------------------------------------
(* The dealings with the executor, as long as no write fails  *)

\* The same request, events and running job.
LEMMA SameWork ==
    ASSUME NEW m \in Memory, NEW n, NEW jf, NEW jg, NEW be, NEW bf, WorkInv(m, jf, be),
           n.phase # "down", n.request = m.request, n.events = m.events,
           n.running = m.running,
           m.running # NoJob => jg[m.running].attempt = jf[m.running].attempt,
           \A j \in Jobs : be[j] \in {"done", "failed"} => bf[j] = be[j]
    PROVE  WorkInv(n, jg, bf)
  <1>1. m.request.kind \in {"Prepare", "Submit"} => m.request.job \in Jobs
    BY DEF Memory, Request, NoRequest
  <1>2. \A i \in 1..Len(m.events) : m.events[i].job \in Jobs
    BY EventJobs
  <1> QED BY <1>1, <1>2 DEF WorkInv, Claims, Jobs, NoJob

\* The executor has nothing to do and has said nothing.
LEMMA IdleWork ==
    ASSUME NEW n, NEW jf, NEW be, n.phase # "down", n.request = NoRequest, n.events = <<>>
    PROVE  WorkInv(n, jf, be)
  BY DEF WorkInv, NoRequest

\* It is given the running job.
LEMMA SendWork ==
    ASSUME NEW m \in Memory, m.phase # "down", m.events = <<>>, NEW jf, NEW be,
           NEW k, NEW j,
           k \in {"Prepare", "Submit"} => m.running = j,
           k = "Prepare" => jf[j].attempt = "Prepared",
           k = "Submit" => jf[j].attempt = "Submitting"
    PROVE  WorkInv(Send(m, k, j), jf, be)
  <1>1. /\ Send(m, k, j).request = [kind |-> k, job |-> j] /\ Send(m, k, j).events = <<>>
        /\ Send(m, k, j).phase = m.phase /\ Send(m, k, j).running = m.running
    BY DEF Send, Memory
  <1> QED BY <1>1 DEF WorkInv

\* Another running entry, or none: the running job was not being prepared.
LEMMA MovedWork ==
    ASSUME NEW m \in Memory, NEW n, NEW jf, NEW jg, NEW be, NEW bf, WorkInv(m, jf, be),
           n.phase # "down", n.request = m.request, n.events = m.events,
           m.running = NoJob \/ jf[m.running].attempt \notin {"Prepared", "Submitting"},
           \A j \in Jobs : be[j] \in {"done", "failed"} => bf[j] = be[j]
    PROVE  WorkInv(n, jg, bf)
  <1>1. m.request.kind \in {"Prepare", "Submit"} => m.request.job # NoJob
    BY DEF Memory, Request, NoRequest, Jobs, NoJob
  <1>2. \A i \in 1..Len(m.events) : m.events[i].job \in Jobs /\ m.events[i].job # NoJob
    BY EventJobs DEF Jobs, NoJob
  <1> QED BY <1>1, <1>2 DEF WorkInv, Claims

\* Taking an event.
LEMMA HandledWork ==
    ASSUME Inv, OverInv(w, job), WorkInv(w, job, backend), w.phase # "down",
           NEW k, NEW j \in Jobs, Received(k, j), NEW jg
    PROVE  WorkInv(Handled, jg, backend)
  <1> DEFINE n == Handled
             q == w.events
  <1>1. /\ n.phase = w.phase /\ n.request = w.request /\ n.running = w.running
        /\ Len(n.events) = Len(q) - 1
        /\ \A i \in 1..Len(n.events) : n.events[i] = q[i + 1]
        /\ 1 \in 1..Len(q) /\ q[1] = [kind |-> k, job |-> j]
        /\ k # "Submitted" => n.events = <<>> /\ n.request = NoRequest
    BY HandledFacts
  <1>2. Len(q) \in Nat
    BY EventJobs DEF Inv, TypeOK
  <1>3. CASE k # "Submitted"
    BY <1>1, <1>3, IdleWork
  <1>4. CASE k = "Submitted"
    <2>1. \A i \in 1..Len(n.events) : i + 1 \in 1..Len(q) /\ Len(q) # 1
      BY <1>1, <1>2
    <2>2. n.request.kind \in {"None", "Monitor"}
      <3>1. q # <<>> BY <1>1
      <3> QED BY <3>1, <1>1 DEF OverInv, ChannelInv
    <2>3. ASSUME NEW i \in 1..Len(n.events)
          PROVE  Claims(n, jg, backend, n.events[i])
      <3>1. i + 1 \in 1..Len(q) /\ Len(q) # 1 /\ n.events[i] = q[i + 1]
        BY <1>1, <2>1
      <3>2. Claims(w, job, backend, q[i + 1])
        BY <3>1 DEF WorkInv
      <3> HIDE DEF n, q
      <3> QED BY <3>1, <3>2 DEF Claims, q
    <2> HIDE DEF n, q
    <2>4. WorkInv(n, jg, backend)
      BY <1>1, <2>2, <2>3 DEF WorkInv
    <2> QED BY <2>4 DEF n
  <1> QED BY <1>3, <1>4

\* A report: of a preparation, the first word about the job, or of an end
\* the backend has come to.
LEMMA ReportWork ==
    ASSUME Inv, OverInv(w, job), WorkInv(w, job, backend), w.phase # "down",
           w.request # NoRequest, NEW k \in EventKind,
           NEW r, r = NoRequest \/ r = [kind |-> "Monitor", job |-> w.request.job],
           NEW bf, \A j \in Jobs : backend[j] \in {"done", "failed"} => bf[j] = backend[j],
           k \in {"Prepared", "PreparationFailed"} => w.request.kind = "Prepare",
           k \in {"Completed", "OutputInvalid"} => bf[w.request.job] = "done",
           k = "BackendFailed" => bf[w.request.job] = "failed"
    PROVE  WorkInv(Report(k, r), job, bf)
  <1> DEFINE n == Report(k, r)
             l == Len(w.events)
  <1>1. r \in Request \cup {NoRequest}
    <2>1. w.request.job \in Jobs
      BY DEF Inv, TypeOK, Memory, Request
    <2> QED BY <2>1 DEF Request, RequestKind
  <1>2. /\ n.phase = w.phase /\ n.request = r /\ n.running = w.running /\ l \in Nat
        /\ Len(n.events) = l + 1
        /\ \A i \in 1..l : n.events[i] = w.events[i] /\ w.events[i].job \in Jobs
        /\ n.events[l + 1] = [kind |-> k, job |-> w.request.job]
    BY <1>1, ReportFacts, Zenon
  <1>3. l = 0 \/ w.request.kind = "Monitor"
    <2>1. w.events # <<>> => w.request.kind \in {"None", "Monitor"}
      BY DEF OverInv, ChannelInv
    <2>2. w.request.kind # "None"
      BY DEF Inv, TypeOK, Memory, Request, RequestKind, NoRequest
    <2>3. l = 0 \/ w.events # <<>>
      BY <1>2
    <2> QED BY <2>1, <2>2, <2>3
  <1>4. \A i \in 1..l : w.events[i].kind \notin {"Prepared", "PreparationFailed"}
    <2> SUFFICES ASSUME NEW i \in 1..l, w.events[i].kind \in {"Prepared", "PreparationFailed"}
                 PROVE  FALSE
      OBVIOUS
    <2>1. i = l /\ w.request = NoRequest
      BY DEF Inv, MemInv, EventsInv, Finishes
    <2> QED BY <2>1
  <1>5. ASSUME NEW i \in 1..Len(n.events) PROVE Claims(n, job, bf, n.events[i])
    <2>1. CASE i \in 1..l
      <3>1. n.events[i] = w.events[i] /\ w.events[i].job \in Jobs
            /\ Claims(w, job, backend, w.events[i])
        BY <2>1, <1>2 DEF WorkInv
      <3> QED BY <2>1, <3>1, <1>4 DEF Claims
    <2>2. CASE i = l + 1
      <3>1. n.events[i] = [kind |-> k, job |-> w.request.job]
        BY <2>2, <1>2
      <3>2. k \in {"Prepared", "PreparationFailed"} =>
              n.running = w.request.job /\ job[n.running].attempt = "Prepared" /\ Len(n.events) = 1
        BY <1>2, <1>3 DEF WorkInv
      <3> QED BY <3>1, <3>2 DEF Claims
    <2> QED BY <2>1, <2>2, <1>2
  <1>6. r.kind \notin {"Prepare", "Submit"}
    BY DEF NoRequest
  <1> HIDE DEF n
  <1>7. WorkInv(n, job, bf)
    BY <1>2, <1>5, <1>6 DEF WorkInv
  <1> QED BY <1>7 DEF n

\* The backend is left alone, and what it runs stays started.
LEMMA SameBackend ==
    ASSUME NEW jf, NEW jg, NEW sb, NEW be, BackendInv(jf, sb, be),
           \A j \in Jobs : be[j] \in Unfinished /\ jf[j].state \in OnceSent => jg[j].state \in OnceSent
    PROVE  BackendInv(jg, sb, be)
  BY DEF BackendInv

-----------------------------------------------------------------------------
(* Each action keeps the files, the queue and the backend in agreement, as *)
(* long as no write fails.                                                 *)

\* A shot that registers, fails, recovers or loses its job has none left.
LEMMA SettledShots ==
    ASSUME NEW sh \in ShotRuntime, NEW jf, NEW j \in Jobs
    PROVE  /\ RegisterCandidate(jf, sh, j).active = NoJob
           /\ RegisterCandidate(jf, sh, j).stage = "CandidatesReady"
           /\ RegisterCandidate(jf, sh, j).takes = sh.takes \cup {j}
           /\ FailShot(sh).active = NoJob
           /\ FailShot(sh).stage = "Failed"
           /\ FailShot(sh).takes = sh.takes
           /\ [FailShot(sh) EXCEPT !.stage = "Pending"].active = NoJob
           /\ [FailShot(sh) EXCEPT !.stage = "Pending"].stage = "Pending"
           /\ [FailShot(sh) EXCEPT !.stage = "Pending"].takes = sh.takes
           /\ CancelShot(sh).active = NoJob
           /\ CancelShot(sh).stage \in {"Selected", "CandidatesReady", "Pending"}
           /\ CancelShot(sh).takes = sh.takes
  <1>1. /\ RegisterCandidate(jf, sh, j).active = NoJob
        /\ RegisterCandidate(jf, sh, j).stage = "CandidatesReady"
        /\ RegisterCandidate(jf, sh, j).takes = sh.takes \cup {j}
    <2> DEFINE next == [sh EXCEPT !.stage = "CandidatesReady", !.active = NoJob,
                                  !.takes = @ \cup {j}, !.choice = TRUE]
    <2>1. /\ next.active = NoJob /\ next.stage = "CandidatesReady"
          /\ next.takes = sh.takes \cup {j}
          /\ next \in ShotRuntime
      BY DEF ShotRuntime, ShotStage
    <2>2. PICK t : RegisterCandidate(jf, sh, j) = [next EXCEPT !.target = t]
      BY DEF RegisterCandidate
    <2> HIDE DEF next
    <2>3. /\ [next EXCEPT !.target = t].active = next.active
          /\ [next EXCEPT !.target = t].stage = next.stage
          /\ [next EXCEPT !.target = t].takes = next.takes
      BY <2>1 DEF ShotRuntime
    <2> QED BY <2>1, <2>2, <2>3
  <1>2. /\ FailShot(sh).active = NoJob
        /\ FailShot(sh).stage = "Failed"
        /\ FailShot(sh).takes = sh.takes
        /\ [FailShot(sh) EXCEPT !.stage = "Pending"].active = NoJob
        /\ [FailShot(sh) EXCEPT !.stage = "Pending"].stage = "Pending"
        /\ [FailShot(sh) EXCEPT !.stage = "Pending"].takes = sh.takes
    BY DEF FailShot, ShotRuntime
  <1>3. /\ CancelShot(sh).active = NoJob
        /\ CancelShot(sh).stage \in {"Selected", "CandidatesReady", "Pending"}
        /\ CancelShot(sh).takes = sh.takes
    BY DEF CancelShot, ShotRuntime
  <1> QED BY <1>1, <1>2, <1>3

\* Recovery settles the shots whose jobs ended, and leaves the others alone.
LEMMA RecoverFiles ==
    ASSUME Inv, FilesInv(job, shot, takeFiles), NEW R
    PROVE  /\ RecoverShots(R) \in ShotFiles
           /\ FilesInv(job, RecoverShots(R), takeFiles)
           /\ R = Projects =>
                \A s \in Shots : RecoverShots(R)[s].active # NoJob =>
                    job[RecoverShots(R)[s].active].state \in {"Queued", "Active", "Blocked"}
  <1> DEFINE sg == RecoverShots(R)
  <1>0. /\ job \in JobFiles /\ shot \in ShotFiles /\ TypeOK
        /\ \A s \in Shots : shot[s] \in ShotRuntime /\ (shot[s].active # NoJob => shot[s].active \in Jobs)
    BY DEF Inv, TypeOK, JobFiles, ShotFiles, ShotRuntime
  <1>1. sg \in ShotFiles
    BY <1>0, RecoverType DEF ShotFiles
  <1>2. ASSUME NEW s \in Shots
        PROVE  /\ RecoverShot(shot[s]) = shot[s] \/ Settles(job, shot[s], RecoverShot(shot[s]))
               /\ RecoverShot(shot[s]).active # NoJob =>
                    job[RecoverShot(shot[s]).active].state \in {"Queued", "Active", "Blocked"}
    <2> DEFINE sh == shot[s]
               j == sh.active
    <2>1. CASE j = NoJob
      BY <2>1 DEF RecoverShot
    <2>2. CASE j # NoJob
      <3>1. j \in Jobs /\ job[j].state \notin Unreadable /\ sh \in ShotRuntime
        BY <2>2, <1>0 DEF FilesInv, PointsAtItsJob
      <3>2. job[j].state \in JobState
        BY <3>1, <1>0 DEF JobFiles, JobJournal
      <3>3. CASE job[j].state = "Completed"
        <4>1. RecoverShot(sh) = RegisterCandidate(job, sh, j)
          BY <2>2, <3>3 DEF RecoverShot
        <4> QED BY <3>1, <3>3, <4>1, SettledShots DEF Settles, Terminal
      <3>4. CASE job[j].state = "Failed"
        <4>1. RecoverShot(sh) = FailShot(sh)
          BY <2>2, <3>4 DEF RecoverShot
        <4> QED BY <3>1, <3>4, <4>1, SettledShots DEF Settles, Terminal
      <3>5. CASE job[j].state = "Cancelled"
        <4>1. RecoverShot(sh) = [FailShot(sh) EXCEPT !.stage = "Pending"]
          BY <2>2, <3>5 DEF RecoverShot
        <4> DEFINE g == [FailShot(sh) EXCEPT !.stage = "Pending"]
        <4>2. g.active = NoJob /\ g.stage = "Pending" /\ g.takes = sh.takes
          BY <3>1, SettledShots
        <4> HIDE DEF g
        <4>3. Settles(job, sh, g)
          BY <3>5, <4>2 DEF Settles, Terminal
        <4> QED BY <4>1, <4>2, <4>3 DEF g
      <3>6. CASE job[j].state \notin Terminal
        <4>1. RecoverShot(sh) = sh
          BY <2>2, <3>6 DEF RecoverShot, Terminal
        <4> QED BY <3>1, <3>2, <3>6, <4>1 DEF Terminal, JobState, Unreadable
      <3> QED BY <3>3, <3>4, <3>5, <3>6 DEF Terminal
    <2> QED BY <2>1, <2>2
  <1>3. \A s \in Shots : sg[s] = shot[s] \/ Settles(job, shot[s], sg[s])
    BY <1>2 DEF RecoverShots
  <1>4. FilesInv(job, sg, takeFiles)
    <2> HIDE DEF sg
    <2> QED BY <1>0, <1>3, SettleFiles
  <1>5. ASSUME R = Projects, NEW s \in Shots, sg[s].active # NoJob
        PROVE  job[sg[s].active].state \in {"Queued", "Active", "Blocked"}
    <2>1. sg[s] = RecoverShot(shot[s])
      BY <1>5, ProjectOfAssumption DEF RecoverShots
    <2> QED BY <2>1, <1>2, <1>5
  <1> QED BY <1>1, <1>4, <1>5

\* A rebuilt queue, of shots without ended jobs.
LEMMA RebuiltQueue ==
    ASSUME NEW m \in Memory, NEW sh \in ShotFiles, NEW tf, FilesInv(job, sh, tf),
           \A s \in Shots : sh[s].active # NoJob =>
               job[sh[s].active].state \in {"Queued", "Active", "Blocked"},
           NEW n \in Rebuilt(m, sh)
    PROVE  /\ n.phase = m.phase /\ QueueInv(n, job, sh)
           /\ \A i, k \in 1..Len(n.pending) : i < k => Before(n.pending[i], n.pending[k])
  <1> DEFINE C == Claimed(sh, {"Queued", "Active", "Blocked"})
  <1>1. \A s \in Shots : sh[s].active # NoJob => sh[s].active \in Jobs
    BY DEF ShotFiles, ShotRuntime
  <1>2. /\ C = {sh[s].active : s \in {r \in Shots : sh[r].active # NoJob}}
        /\ \A j \in C : /\ j \in Jobs /\ job[j].shot \in Shots
                        /\ job[j].state \in {"Queued", "Active", "Blocked"}
                        /\ \E s \in Shots : sh[s].active = j
    BY <1>1 DEF Claimed, FilesInv, PointsAtItsJob
  <1> DEFINE With(v) == {[m EXCEPT !.running = v, !.pending = p] : p \in Sorted(C \ {v})}
  <1>3. PICK r \in RunningChoices(sh) : n \in With(r)
    <2>1. n \in UNION {With(v) : v \in RunningChoices(sh)}
      BY DEF Rebuilt
    <2> HIDE DEF With
    <2> QED BY <2>1
  <1>4. PICK q \in Sorted(C \ {r}) : n = [m EXCEPT !.running = r, !.pending = q]
    <2> HIDE DEF C
    <2> QED BY <1>3
  <1>5. n.running = r /\ n.pending = q /\ n.phase = m.phase
    BY <1>4 DEF Memory
  <1> HIDE DEF C
  <1>6. /\ r # NoJob => job[r].state \in Held
        /\ \A j \in C : job[j].state \in Held => j = r
    <2> DEFINE T == {s \in Shots : sh[s].active \in Claimed(sh, {"Active", "Blocked"})}
    <2>1. Claimed(sh, {"Active", "Blocked"}) = {j \in C : job[j].state \in Held}
      BY <1>2 DEF Claimed, Held
    <2>2. CASE T = {}
      <3>1. r = NoJob
        BY <2>2 DEF RunningChoices
      <3>2. \A j \in C : job[j].state \notin Held
        BY <2>1, <2>2, <1>2
      <3> QED BY <3>1, <3>2
    <2>3. CASE T # {}
      <3>1. r \in {sh[s].active : s \in T}
        BY <2>3 DEF RunningChoices
      <3>2. r \in C /\ job[r].state \in Held
        BY <3>1, <2>1
      <3>3. ASSUME NEW j \in C, job[j].state \in Held PROVE j = r
        BY <3>2, <3>3, <1>2 DEF FilesInv, OneHolds, Holding
      <3> QED BY <3>2, <3>3
    <2> QED BY <2>2, <2>3
  <1>7. PICK l \in 0..MaxJobs :
          /\ q \in [1..l -> C \ {r}]
          /\ \A j \in C \ {r} : \E i \in 1..l : q[i] = j
          /\ \A i, k \in 1..l : i < k => Before(q[i], q[k])
    <2> DEFINE Arranged(v) == {p \in [1..v -> C \ {r}] :
                                 /\ \A j \in C \ {r} : \E i \in 1..v : p[i] = j
                                 /\ \A i, k \in 1..v : i < k => Before(p[i], p[k])}
    <2>1. Sorted(C \ {r}) = UNION {Arranged(v) : v \in 0..MaxJobs}
      BY DEF Sorted
    <2>2. PICK v \in 0..MaxJobs : q \in Arranged(v)
      BY <2>1
    <2> QED BY <2>2
  <1>8. l \in Nat /\ Len(q) = l
    <2>1. l \in Nat
      BY <1>7
    <2>2. q \in Seq(C \ {r})
      BY <1>7, <2>1
    <2> QED BY <1>7, <2>1, <2>2
  <1>9. ASSUME NEW i \in 1..l, NEW k \in 1..l, q[i] = q[k] PROVE i = k
    <2>1. \A j \in C : ~Before(j, j)
      <3> TAKE j \in C
      <3>1. j \in 1..MaxJobs /\ job[j].shot \in Shots
        BY <1>2 DEF Jobs
      <3>2. ProjectOf[job[j].shot] \in Nat
        BY <3>1, ProjectOfAssumption, ProjectsAssumption
      <3> QED BY <3>1, <3>2 DEF Before
    <2>2. q[i] \in C
      BY <1>7
    <2>3. ~(i < k) /\ ~(k < i)
      BY <2>1, <2>2, <1>7, <1>9
    <2> QED BY <2>3, <1>8
  <1>10. ASSUME NEW i \in 1..l
         PROVE  job[q[i]].state = "Queued" /\ \E s \in Shots : sh[s].active = q[i]
    <2>1. q[i] \in C /\ q[i] # r
      BY <1>7
    <2> QED BY <2>1, <1>2, <1>6 DEF Held
  <1>11. Awaited(n, sh)
    <2> SUFFICES ASSUME NEW s \in Shots, sh[s].active # NoJob, sh[s].active # r
                 PROVE  \E i \in 1..l : q[i] = sh[s].active
      BY <1>5, <1>8 DEF Awaited
    <2>1. sh[s].active \in C \ {r}
      BY <1>2
    <2> QED BY <2>1, <1>7
  <1>12. n.phase = m.phase /\ QueueInv(n, job, sh)
    BY <1>5, <1>6, <1>8, <1>9, <1>10, <1>11 DEF QueueInv
  <1>13. \A i, k \in 1..Len(n.pending) : i < k => Before(n.pending[i], n.pending[k])
    BY <1>5, <1>7, <1>8
  <1> QED BY <1>12, <1>13

\* The state of a system none of whose writes has failed.
Clean == Inv /\ OverInv(w, job) /\ Healthy /\ faults = 0

\* Types, and where the running job of a live process stands.
LEMMA CleanFacts ==
    ASSUME Clean
    PROVE  /\ w \in Memory /\ job \in JobFiles /\ shot \in ShotFiles
           /\ backend \in [Jobs -> BackendState] /\ submissions \in [Jobs -> Nat]
           /\ \A s \in Shots : shot[s] \in ShotRuntime
           /\ \A s \in Shots : shot[s].active # NoJob =>
                shot[s].active \in Jobs /\ job[shot[s].active].shot = s
           /\ w.phase # "down" /\ w.running # NoJob =>
                /\ w.running \in Jobs /\ job[w.running].state \in Held
                /\ job[w.running].shot \in Shots
                /\ shot[job[w.running].shot].active = w.running
           /\ w.phase # "down" => \A i \in 1..Len(w.pending) :
                /\ w.pending[i] \in Jobs /\ job[w.pending[i]].state = "Queued"
                /\ job[w.pending[i]].shot \in Shots
                /\ shot[job[w.pending[i]].shot].active = w.pending[i]
  <1>1. /\ w \in Memory /\ job \in JobFiles /\ shot \in ShotFiles
        /\ backend \in [Jobs -> BackendState] /\ submissions \in [Jobs -> Nat]
        /\ \A s \in Shots : shot[s] \in ShotRuntime
    BY DEF Clean, Inv, TypeOK, JobFiles, ShotFiles
  <1>2. ASSUME NEW s \in Shots, shot[s].active # NoJob
        PROVE  shot[s].active \in Jobs /\ job[shot[s].active].shot = s
    BY <1>1, <1>2 DEF ShotRuntime, Clean, Healthy, FilesInv, PointsAtItsJob
  <1>3. ASSUME w.phase # "down", w.running # NoJob
        PROVE  /\ w.running \in Jobs /\ job[w.running].state \in Held
               /\ job[w.running].shot \in Shots
               /\ shot[job[w.running].shot].active = w.running
    <2>1. w.running \in Jobs /\ job[w.running].state \in Held
      BY <1>1, <1>3, PendingJobs DEF Clean, Healthy, QueueInv
    <2> QED BY <2>1 DEF Clean, Healthy, FilesInv, HeldIsPointedAt
  <1>4. ASSUME w.phase # "down", NEW i \in 1..Len(w.pending)
        PROVE  /\ w.pending[i] \in Jobs /\ job[w.pending[i]].state = "Queued"
               /\ job[w.pending[i]].shot \in Shots
               /\ shot[job[w.pending[i]].shot].active = w.pending[i]
    <2>1. w.pending[i] \in Jobs
      BY <1>1, PendingJobs
    <2>2. /\ job[w.pending[i]].state = "Queued"
          /\ \E s \in Shots : shot[s].active = w.pending[i]
      BY <1>4 DEF Clean, Healthy, QueueInv
    <2> QED BY <2>1, <2>2, <1>2 DEF Jobs, NoJob
  <1> QED BY <1>1, <1>2, <1>3, <1>4

\* The process dies.
LEMMA DiedHealthy ==
    ASSUME FilesInv(job', shot', takeFiles'), w' = Lost, BackendInv(job', submissions', backend')
    PROVE  Healthy'
  BY LostHealthy DEF Healthy

\* What Enqueue and ResumeAudition do about a new job.
Joins(s, j, k, t, o) ==
    /\ job' = Journaled(job, o, 0, j, s, k)
    /\ shot' = IF o.done >= 2 THEN [shot EXCEPT ![s] = EnqueueShot(shot[s], j, t)] ELSE shot
    /\ w' = IF o.end = "ok" THEN [w EXCEPT !.pending = Append(@, j)] ELSE Lost
    /\ UNCHANGED <<takeFiles, backend, submissions>>

\* A new job is journalled, its shot points at it, and it joins the queue.
LEMMA NewJobHealthy ==
    ASSUME Clean, faults' = 0, w.phase # "down",
           NEW s \in Shots, shot[s].active = NoJob, NEW j \in Fresh, NEW k, NEW t,
           NEW o \in Outcomes(2), Spend(o), Joins(s, j, k, t, o)
    PROVE  Healthy'
  <1>0. /\ w \in Memory /\ job \in JobFiles /\ shot \in ShotFiles
        /\ w.running # NoJob => w.running \in Jobs /\ job[w.running].state \in Held
        /\ FilesInv(job, shot, takeFiles) /\ QueueInv(w, job, shot)
        /\ WorkInv(w, job, backend) /\ BackendInv(job, submissions, backend)
        /\ j \in Jobs /\ job[j].state = "Absent"
    BY CleanFacts DEF Clean, Healthy, Fresh
  <1>1. \/ o.end = "ok" /\ o.done = 2
        \/ o.end = "crash" /\ o.done = 1
    <2>1. \/ o.end = "ok" /\ o.done = 2 /\ o.acked = 2
          \/ o.end = "crash" /\ o.done \in 1..(2 - 1) /\ o.acked = o.done
      BY CleanOutcome DEF Clean
    <2> QED BY <2>1
  <1>2. /\ job'[j].state = "Queued" /\ job'[j].shot = s
        /\ \A i \in Jobs : i # j => job'[i] = job[i]
        /\ takeFiles' = takeFiles /\ backend' = backend /\ submissions' = submissions
    BY <1>0, <1>1 DEF Joins, Journaled, JobFiles, QueuedJob
  <1>3. FilesInv(job', shot, takeFiles)
    BY <1>0, <1>2, NewFiles
  <1>4. BackendInv(job', submissions', backend')
    <2>1. \A i \in Jobs : backend[i] \in Unfinished /\ job[i].state \in OnceSent
                        => job'[i].state \in OnceSent
      BY <1>0, <1>2 DEF OnceSent
    <2> QED BY <1>0, <1>2, <2>1, SameBackend
  <1>5. CASE o.end = "crash"
    <2>1. shot' = shot /\ takeFiles' = takeFiles /\ w' = Lost
      BY <1>1, <1>5 DEF Joins
    <2> QED BY <2>1, <1>3, <1>4, DiedHealthy
  <1>6. CASE o.end = "ok"
    <2>1. /\ shot' = [shot EXCEPT ![s] = EnqueueShot(shot[s], j, t)]
      BY <1>1, <1>6 DEF Joins
    <2>2. FilesInv(job', shot', takeFiles')
      BY <1>0, <1>2, <1>3, <2>1, PointFiles
    <2>3. /\ shot'[s].active = j /\ \A r \in Shots : r # s => shot'[r] = shot[r]
      BY <1>0, <2>1 DEF ShotFiles, ShotRuntime, EnqueueShot
    <2>4. /\ w'.pending = Append(w.pending, j) /\ w'.running = w.running
          /\ w'.phase = w.phase /\ w'.request = w.request /\ w'.events = w.events
      BY <1>0, <1>6 DEF Memory, Joins
    <2>5. QueueInv(w', job', shot')
      BY <1>0, <1>2, <2>3, <2>4, AppendQueue
    <2>6. WorkInv(w', job', backend')
      <3>1. w.running # NoJob => job'[w.running].attempt = job[w.running].attempt
        BY <1>0, <1>2 DEF Held
      <3>2. w'.phase # "down" /\ \A i \in Jobs : backend[i] \in {"done", "failed"} => backend'[i] = backend[i]
        BY <1>2, <2>4
      <3> QED BY <1>0, <2>4, <3>1, <3>2, SameWork
    <2> QED BY <2>2, <2>5, <2>6, <1>4 DEF Healthy
  <1> QED BY <1>1, <1>5, <1>6

\* A new job joins the queue as its shot points at it.
LEMMA EnqueueHealthy ==
    ASSUME Clean, faults' = 0,
           NEW s \in Shots, NEW k, NEW t, NEW j \in Fresh, NEW o, Enqueue(s, k, t, j, o)
    PROVE  Healthy'
  <1>1. o.end \in {"ok", "crash"} /\ o \in Outcomes(2) /\ Spend(o)
    BY CleanOutcome DEF Enqueue, Clean
  <1>2. w' = IF o.end = "ok" THEN [w EXCEPT !.pending = Append(@, j)] ELSE Lost
    BY <1>1 DEF Enqueue, After
  <1>3. w.phase # "down" /\ shot[s].active = NoJob /\ Joins(s, j, k, t, o)
    BY <1>2 DEF Enqueue, Serving, Joins
  <1> QED BY <1>1, <1>2, <1>3, NewJobHealthy

\* So does an audition that startup resumes.
LEMMA ResumeAuditionHealthy ==
    ASSUME Clean, faults' = 0,
           NEW s \in Shots, NEW j \in Fresh, NEW o, ResumeAudition(s, j, o)
    PROVE  Healthy'
  <1>1. /\ w.phase # "down" /\ shot[s].active = NoJob
        /\ o \in Outcomes(2) /\ Spend(o)
        /\ Joins(s, j, "audition", shot[s].target, o)
    BY DEF ResumeAudition, AuditionDue, Joins
  <1> QED BY <1>1, NewJobHealthy

\* Pauses and selections do not touch the queue.
LEMMA AsideHealthy ==
    ASSUME Clean,
           \/ \E s \in Shots : SelectTake(s)
           \/ \E p \in Projects, b \in BOOLEAN : SetProjectPaused(p, b)
           \/ \E b \in BOOLEAN : SetQueuePaused(b)
    PROVE  Healthy'
  <1>1. CASE \/ \E p \in Projects, b \in BOOLEAN : SetProjectPaused(p, b)
             \/ \E b \in BOOLEAN : SetQueuePaused(b)
    BY <1>1 DEF Clean, Healthy, SetProjectPaused, SetQueuePaused
  <1>2. ASSUME NEW s \in Shots, SelectTake(s) PROVE Healthy'
    <2>0. shot \in ShotFiles /\ shot[s] \in ShotRuntime /\ w \in Memory
      BY CleanFacts
    <2>1. /\ shot[s].active = NoJob
          /\ job' = job /\ takeFiles' = takeFiles /\ w' = w
          /\ backend' = backend /\ submissions' = submissions
      BY <1>2 DEF SelectTake
    <2>2. /\ shot'[s].active = NoJob /\ shot'[s].takes = shot[s].takes
          /\ shot'[s].stage = "Selected" /\ \A r \in Shots : r # s => shot'[r] = shot[r]
      BY <1>2, <2>0, <2>1 DEF SelectTake, ShotFiles, ShotRuntime
    <2>3. \A r \in Shots : shot'[r] = shot[r] \/ Settles(job, shot[r], shot'[r])
      BY <2>1, <2>2 DEF Settles
    <2>4. FilesInv(job, shot', takeFiles)
      BY <2>0, <2>3, SettleFiles DEF Clean, Healthy
    <2>5. QueueInv(w, job, shot')
      <3>1. \A r \in Shots : shot'[r].active = shot[r].active
        BY <2>1, <2>2
      <3>2. \A j \in Jobs : Stays(job, job, j)
        BY DEF Stays
      <3> QED BY <2>0, <3>1, <3>2, SameQueue DEF Clean, Healthy
    <2> QED BY <2>1, <2>4, <2>5 DEF Clean, Healthy
  <1> QED BY <1>1, <1>2

\* The job of a shot ends, and the shot settles.
LEMMA EndedFiles ==
    ASSUME Clean, NEW jg, NEW sg, NEW tg, takeFiles \subseteq tg,
           NEW j \in Jobs, NEW s \in Shots, shot[s].active = j,
           Wrote(job, jg, j), jg[j].state \in Terminal,
           jg[j].state = "Completed" => job[j].state \in Held /\ j \in tg,
           sg[s].active = NoJob, sg[s].stage \notin {"Queued", "Generating"},
           shot[s].takes \subseteq sg[s].takes,
           jg[j].state = "Completed" => j \in sg[s].takes,
           \A r \in Shots : r # s => sg[r] = shot[r]
    PROVE  /\ FilesInv(jg, shot, tg) /\ FilesInv(jg, sg, tg)
           /\ LetsGo(shot, sg, j) /\ \A r \in Shots : sg[r].active # j
  <1>0. shot \in ShotFiles /\ FilesInv(job, shot, takeFiles) /\ j # NoJob
    BY CleanFacts DEF Clean, Healthy, Jobs, NoJob
  <1>1. FilesInv(jg, shot, tg)
    BY <1>0, EndFiles
  <1>2. Settles(jg, shot[s], sg[s])
    BY DEF Settles
  <1>3. FilesInv(jg, sg, tg)
    BY <1>0, <1>1, <1>2, SettleFiles
  <1>4. LetsGo(shot, sg, j)
    BY DEF LetsGo
  <1>5. ASSUME NEW r \in Shots, sg[r].active = j PROVE FALSE
    <2>1. r # s BY <1>0, <1>5
    <2>2. shot[r].active = j BY <2>1, <1>5
    <2>3. job[j].shot = r /\ job[j].shot = s
      BY <1>0, <2>2, CleanFacts
    <2> QED BY <2>1, <2>3
  <1> QED BY <1>1, <1>3, <1>4, <1>5

\* A waiting job leaves the queue as its shot lets go of it.
LEMMA CancelPendingHealthy ==
    ASSUME Clean, faults' = 0, NEW i \in DOMAIN w.pending, NEW o \in Outcomes(3), CancelPending(i, o)
    PROVE  Healthy'
  <1> DEFINE j == w.pending[i]
             s == job[j].shot
  <1>0. /\ w \in Memory /\ job \in JobFiles /\ shot \in ShotFiles
        /\ FilesInv(job, shot, takeFiles) /\ QueueInv(w, job, shot)
        /\ WorkInv(w, job, backend) /\ BackendInv(job, submissions, backend)
        /\ \A r \in Shots : shot[r] \in ShotRuntime
    BY CleanFacts DEF Clean, Healthy
  <1>1. /\ i \in 1..Len(w.pending) /\ w.phase # "down"
        /\ j \in Jobs /\ s \in Shots /\ shot[s].active = j /\ job[j].state = "Queued"
        /\ j # w.running
    <2>1. i \in 1..Len(w.pending)
      BY <1>0 DEF Memory
    <2> QED BY <2>1, CleanFacts DEF CancelPending, Serving
  <1>2. /\ takeFiles' = takeFiles /\ backend' = backend /\ submissions' = submissions
    BY DEF CancelPending
  <1>3. \/ o.end = "ok" /\ o.done = 3
        \/ o.end = "crash" /\ o.done \in 1..2
    <2>1. \/ o.end = "ok" /\ o.done = 3 /\ o.acked = 3
          \/ o.end = "crash" /\ o.done \in 1..(3 - 1) /\ o.acked = o.done
      BY CleanOutcome DEF CancelPending, Clean
    <2> QED BY <2>1
  <1>4. /\ Wrote(job, job', j) /\ job'[j].state = "Cancelled"
        /\ \A k \in Jobs : k # j => job'[k] = job[k]
    <2>1. job' = [job EXCEPT ![j].state = "Cancelled"]
      BY <1>3 DEF CancelPending
    <2> QED BY <2>1, <1>0, <1>1 DEF Wrote, JobFiles, JobJournal
  <1>5. \/ shot' = shot
        \/ shot'[s] = CancelShot(shot[s]) /\ \A r \in Shots : r # s => shot'[r] = shot[r]
    <2>1. CASE o.done >= 2
      <3>1. shot' = [shot EXCEPT ![s] = CancelShot(shot[s])]
        BY <2>1 DEF CancelPending
      <3> HIDE DEF s
      <3>2. shot'[s] = CancelShot(shot[s]) /\ \A r \in Shots : r # s => shot'[r] = shot[r]
        BY <3>1, <1>0, <1>1 DEF ShotFiles
      <3> QED BY <2>1, <3>2
    <2>2. CASE ~(o.done >= 2)
      <3>1. shot' = shot
        BY <2>2 DEF CancelPending
      <3> QED BY <3>1
    <2> QED BY <2>1, <2>2
  <1>6. ASSUME NEW sg, sg[s] = CancelShot(shot[s]), \A r \in Shots : r # s => sg[r] = shot[r]
        PROVE  /\ FilesInv(job', shot, takeFiles) /\ FilesInv(job', sg, takeFiles)
               /\ LetsGo(shot, sg, j) /\ \A r \in Shots : sg[r].active # j
    <2> HIDE DEF j, s
    <2>1. /\ sg[s].active = NoJob /\ sg[s].stage \notin {"Queued", "Generating"}
          /\ sg[s].takes = shot[s].takes
      <3>1. shot[s] \in ShotRuntime
        BY <1>0, <1>1
      <3>2. /\ CancelShot(shot[s]).active = NoJob /\ CancelShot(shot[s]).takes = shot[s].takes
            /\ CancelShot(shot[s]).stage \in {"Selected", "CandidatesReady", "Pending"}
        BY <1>1, <3>1, SettledShots
      <3> QED BY <3>2, <1>6
    <2>2. job'[j].state \in Terminal /\ job'[j].state # "Completed"
      BY <1>4 DEF Terminal
    <2>3. Wrote(job, job', j) /\ shot[s].takes \subseteq sg[s].takes
      BY <1>4, <2>1
    <2>4. j \in Jobs /\ s \in Shots /\ shot[s].active = j /\ takeFiles \subseteq takeFiles
      BY <1>1
    <2> QED BY <1>6, <2>1, <2>2, <2>3, <2>4, EndedFiles
  <1> DEFINE sc == [shot EXCEPT ![s] = CancelShot(shot[s])]
  <1>7. sc[s] = CancelShot(shot[s]) /\ \A r \in Shots : r # s => sc[r] = shot[r]
    BY <1>0, <1>1 DEF ShotFiles
  <1> HIDE DEF sc
  <1>8. FilesInv(job', shot', takeFiles')
    BY <1>2, <1>5, <1>6, <1>7
  <1>9. BackendInv(job', submissions', backend')
    <2>1. \A k \in Jobs : backend[k] \in Unfinished /\ job[k].state \in OnceSent
                        => job'[k].state \in OnceSent
      BY <1>4 DEF OnceSent
    <2> QED BY <1>0, <1>2, <2>1, SameBackend
  <1>10. CASE o.end = "crash"
    <2>1. w' = Lost
      BY <1>10 DEF CancelPending, After
    <2> QED BY <2>1, <1>8, <1>9, DiedHealthy
  <1>11. CASE o.end = "ok"
    <2>1. /\ w'.pending = RemoveAt(w.pending, i) /\ w'.running = w.running
          /\ w'.phase = w.phase /\ w'.request = w.request /\ w'.events = w.events
      BY <1>0, <1>11 DEF CancelPending, After, Memory
    <2>2. LetsGo(shot, shot', j) /\ \A r \in Shots : shot'[r].active # j
      <3>1. shot'[s] = CancelShot(shot[s]) /\ \A r \in Shots : r # s => shot'[r] = shot[r]
        BY <1>0, <1>1, <1>3, <1>11 DEF CancelPending, ShotFiles
      <3> QED BY <3>1, <1>6
    <2>3. QueueInv(w', job', shot')
      <3> HIDE DEF j, s
      <3>1. j = w.pending[i] BY DEF j
      <3> QED BY <1>0, <1>1, <1>4, <2>1, <2>2, <3>1, RemoveQueue
    <2>4. WorkInv(w', job', backend')
      <3>1. w.running # NoJob => job'[w.running].attempt = job[w.running].attempt
        BY <1>0, <1>1, <1>4 DEF Memory
      <3>2. w'.phase # "down" /\ \A k \in Jobs : backend[k] \in {"done", "failed"} => backend'[k] = backend[k]
        BY <1>1, <1>2, <2>1
      <3> QED BY <1>0, <2>1, <3>1, <3>2, SameWork
    <2> QED BY <1>8, <1>9, <2>3, <2>4 DEF Healthy
  <1> QED BY <1>3, <1>10, <1>11

\* An interrupt stops the prompt that executes and no other.
LEMMA InterruptedFacts ==
    ASSUME Clean
    PROVE  /\ \A k \in Jobs : backend[k] = "none" => Interrupted[k] = "none"
           /\ \A k \in Jobs : backend[k] \in {"done", "failed"} => Interrupted[k] = backend[k]
           /\ \A k \in Jobs : Interrupted[k] \in Unfinished => backend[k] \in Unfinished
  <1>1. \A k \in Jobs : Interrupted[k] = IF backend[k] = "executing" THEN "failed" ELSE backend[k]
    BY DEF Interrupted
  <1> QED BY <1>1 DEF Unfinished

\* So does the running one, once the interrupt was posted: its prompt may
\* still be pending.
LEMMA CancelRunningHealthy ==
    ASSUME Clean, faults' = 0, NEW o \in Outcomes(3), CancelRunning(o)
    PROVE  Healthy'
  <1> DEFINE j == w.running
             s == job[j].shot
  <1>0. /\ w \in Memory /\ job \in JobFiles /\ shot \in ShotFiles
        /\ FilesInv(job, shot, takeFiles) /\ QueueInv(w, job, shot)
        /\ WorkInv(w, job, backend) /\ BackendInv(job, submissions, backend)
        /\ \A r \in Shots : shot[r] \in ShotRuntime
    BY CleanFacts DEF Clean, Healthy
  <1>1. /\ w.phase # "down" /\ j # NoJob
        /\ j \in Jobs /\ s \in Shots /\ shot[s].active = j /\ job[j].state \in Held
        /\ job[j].attempt \in {"Submitted", "Running"}
    BY CleanFacts DEF CancelRunning, Serving
  <1>2. /\ takeFiles' = takeFiles /\ submissions' = submissions /\ backend' = Interrupted
    BY DEF CancelRunning
  <1>3. \/ o.end = "ok" /\ o.done = 3
        \/ o.end = "crash" /\ o.done \in 1..2
    <2>1. \/ o.end = "ok" /\ o.done = 3 /\ o.acked = 3
          \/ o.end = "crash" /\ o.done \in 1..(3 - 1) /\ o.acked = o.done
      BY CleanOutcome DEF CancelRunning, Clean
    <2> QED BY <2>1
  <1>4. /\ Wrote(job, job', j) /\ job'[j].state = "Cancelled"
        /\ \A k \in Jobs : k # j => job'[k] = job[k]
    <2>1. job' = [job EXCEPT ![j].state = "Cancelled", ![j].attempt = "Cancelled"]
      BY <1>3 DEF CancelRunning
    <2> QED BY <2>1, <1>0, <1>1 DEF Wrote, JobFiles, JobJournal
  <1>5. \/ shot' = shot /\ o.end # "ok"
        \/ shot'[s] = CancelShot(shot[s]) /\ \A r \in Shots : r # s => shot'[r] = shot[r]
    <2>1. CASE o.done >= 2
      <3>1. shot' = [shot EXCEPT ![s] = CancelShot(shot[s])]
        BY <2>1 DEF CancelRunning
      <3> HIDE DEF s
      <3>2. shot'[s] = CancelShot(shot[s]) /\ \A r \in Shots : r # s => shot'[r] = shot[r]
        BY <3>1, <1>0, <1>1 DEF ShotFiles
      <3> QED BY <3>2
    <2>2. CASE ~(o.done >= 2)
      <3>1. shot' = shot
        BY <2>2 DEF CancelRunning
      <3>2. o.end # "ok"
        BY <1>3, <2>2
      <3> QED BY <3>1, <3>2
    <2> QED BY <2>1, <2>2
  <1>6. ASSUME NEW sg, sg[s] = CancelShot(shot[s]), \A r \in Shots : r # s => sg[r] = shot[r]
        PROVE  /\ FilesInv(job', shot, takeFiles) /\ FilesInv(job', sg, takeFiles)
               /\ LetsGo(shot, sg, j) /\ \A r \in Shots : sg[r].active # j
    <2> HIDE DEF j, s
    <2>1. /\ sg[s].active = NoJob /\ sg[s].stage \notin {"Queued", "Generating"}
          /\ sg[s].takes = shot[s].takes
      <3>1. shot[s] \in ShotRuntime
        BY <1>0, <1>1
      <3>2. /\ CancelShot(shot[s]).active = NoJob /\ CancelShot(shot[s]).takes = shot[s].takes
            /\ CancelShot(shot[s]).stage \in {"Selected", "CandidatesReady", "Pending"}
        BY <1>1, <3>1, SettledShots
      <3> QED BY <3>2, <1>6
    <2>2. job'[j].state \in Terminal /\ job'[j].state # "Completed"
      BY <1>4 DEF Terminal
    <2>3. Wrote(job, job', j) /\ shot[s].takes \subseteq sg[s].takes
      BY <1>4, <2>1
    <2>4. j \in Jobs /\ s \in Shots /\ shot[s].active = j /\ takeFiles \subseteq takeFiles
      BY <1>1
    <2> QED BY <1>6, <2>1, <2>2, <2>3, <2>4, EndedFiles
  <1> DEFINE sc == [shot EXCEPT ![s] = CancelShot(shot[s])]
  <1>7. sc[s] = CancelShot(shot[s]) /\ \A r \in Shots : r # s => sc[r] = shot[r]
    BY <1>0, <1>1 DEF ShotFiles
  <1> HIDE DEF sc
  <1>8. FilesInv(job', shot', takeFiles')
    BY <1>2, <1>5, <1>6, <1>7
  <1>9. /\ \A k \in Jobs : backend[k] = "none" => backend'[k] = "none"
        /\ \A k \in Jobs : backend[k] \in {"done", "failed"} => backend'[k] = backend[k]
        /\ \A k \in Jobs : backend'[k] \in Unfinished => backend[k] \in Unfinished
    BY <1>2, InterruptedFacts
  <1>10. BackendInv(job', submissions', backend')
    <2>1. \A k \in Jobs : job[k].state \in OnceSent => job'[k].state \in OnceSent
      BY <1>4 DEF OnceSent
    <2> HIDE DEF j, s
    <2>2. \A k \in Jobs : submissions[k] = 0 => backend'[k] = "none"
      <3>1. \A k \in Jobs : submissions[k] = 0 => backend[k] = "none"
        BY <1>0 DEF BackendInv
      <3> QED BY <1>9, <3>1
    <2>3. \A k \in Jobs : backend'[k] \in Unfinished => job'[k].state \in OnceSent
      <3>1. \A k \in Jobs : backend[k] \in Unfinished => job[k].state \in OnceSent
        BY <1>0 DEF BackendInv
      <3> QED BY <1>9, <2>1, <3>1
    <2> QED BY <1>2, <2>2, <2>3 DEF BackendInv
  <1>11. CASE o.end = "crash"
    <2>1. w' = Lost
      BY <1>11 DEF CancelRunning, After
    <2> QED BY <2>1, <1>8, <1>10, DiedHealthy
  <1>12. CASE o.end = "ok"
    <2>1. /\ w'.pending = w.pending /\ w'.running = NoJob
          /\ w'.phase = w.phase /\ w'.request = w.request /\ w'.events = w.events
      BY <1>0, <1>12 DEF CancelRunning, After, Memory
    <2>2. LetsGo(shot, shot', j) /\ \A r \in Shots : shot'[r].active # j
      BY <1>5, <1>6, <1>12
    <2>3. QueueInv(w', job', shot')
      BY <1>0, <1>1, <1>4, <2>1, <2>2, FreedQueue
    <2>4. WorkInv(w', job', backend')
      <3>1. /\ w'.phase # "down"
            /\ \A k \in Jobs : backend[k] \in {"done", "failed"} => backend'[k] = backend[k]
        BY <1>1, <1>9, <2>1
      <3>2. w.running = NoJob \/ job[w.running].attempt \notin {"Prepared", "Submitting"}
        BY <1>1
      <3> HIDE DEF j
      <3> QED BY <1>0, <2>1, <3>1, <3>2, MovedWork
    <2> QED BY <1>8, <1>10, <2>3, <2>4 DEF Healthy
  <1> QED BY <1>3, <1>11, <1>12

\* Rebuilding, at startup or before a start: every shot's ended job settles.
LEMMA RebuildHealthy ==
    ASSUME Clean, NEW R, NEW end, RebuildShots(R, end)
    PROVE  /\ shot' = RecoverShots(R) /\ shot' \in ShotFiles
           /\ FilesInv(job', shot', takeFiles')
           /\ BackendInv(job', submissions', backend')
           /\ job' = job /\ takeFiles' = takeFiles
           /\ backend' = backend /\ submissions' = submissions
  <1>1. /\ shot' = RecoverShots(R)
        /\ job' = job /\ takeFiles' = takeFiles
        /\ backend' = backend /\ submissions' = submissions
    BY DEF RebuildShots
  <1>2. RecoverShots(R) \in ShotFiles /\ FilesInv(job, RecoverShots(R), takeFiles)
    BY RecoverFiles DEF Clean, Healthy
  <1> QED BY <1>1, <1>2 DEF Clean, Healthy

\* Startup makes the queue of what the shots point at.
LEMMA BootHealthy ==
    ASSUME Clean, NEW R, NEW end, Boot(R, end)
    PROVE  Healthy'
  <1>1. /\ shot' = RecoverShots(R) /\ shot' \in ShotFiles
        /\ FilesInv(job', shot', takeFiles')
        /\ BackendInv(job', submissions', backend')
        /\ job' = job /\ takeFiles' = takeFiles
        /\ backend' = backend /\ submissions' = submissions
    BY RebuildHealthy DEF Boot
  <1>2. CASE end = "ok"
    <2> DEFINE m == [Lost EXCEPT !.phase = "resuming"]
    <2>1. R = Projects /\ w' \in Rebuilt(m, RecoverShots(R))
      BY <1>2 DEF Boot, RebuildShots
    <2>2. m \in Memory /\ m.phase = "resuming" /\ m.request = NoRequest /\ m.events = <<>>
      BY LostType DEF Lost, Memory
    <2> HIDE DEF m
    <2>3. \A s \in Shots : RecoverShots(R)[s].active # NoJob =>
              job[RecoverShots(R)[s].active].state \in {"Queued", "Active", "Blocked"}
      BY <2>1, RecoverFiles DEF Clean, Healthy
    <2>4. w'.phase = m.phase /\ QueueInv(w', job, RecoverShots(R))
      <3> DEFINE sh == RecoverShots(R)
      <3>1. sh \in ShotFiles /\ FilesInv(job, sh, takeFiles) /\ w' \in Rebuilt(m, sh)
        BY <1>1, <2>1
      <3>2. \A s \in Shots : sh[s].active # NoJob =>
              job[sh[s].active].state \in {"Queued", "Active", "Blocked"}
        BY <2>3
      <3> HIDE DEF sh
      <3>3. w'.phase = m.phase /\ QueueInv(w', job, sh)
        BY <2>2, <3>1, <3>2, RebuiltQueue
      <3> QED BY <3>3 DEF sh
    <2>5. w'.request = NoRequest /\ w'.events = <<>> /\ w'.phase # "down"
      BY <1>1, <2>1, <2>2, <2>4, RebuiltFacts DEF ShotFiles
    <2>6. WorkInv(w', job', backend')
      BY <2>5, IdleWork
    <2> QED BY <1>1, <2>4, <2>6 DEF Healthy
  <1>3. CASE end # "ok"
    <2>1. w' = Lost
      BY <1>3 DEF Boot
    <2> QED BY <2>1, <1>1, DiedHealthy
  <1> QED BY <1>2, <1>3

\* The worker opens, or dies.
LEMMA OpenCrashHealthy ==
    ASSUME Clean, Open \/ Crash
    PROVE  Healthy'
  <1>0. w \in Memory
    BY CleanFacts
  <1>1. CASE Open
    <2>1. /\ job' = job /\ shot' = shot /\ takeFiles' = takeFiles
          /\ backend' = backend /\ submissions' = submissions
      BY <1>1 DEF Open
    <2>2. /\ w'.running = w.running /\ w'.pending = w.pending /\ w'.request = w.request
          /\ w'.events = w.events /\ w.phase # "down" /\ w'.phase # "down"
      BY <1>0, <1>1 DEF Open, Memory
    <2>3. QueueInv(w', job, shot)
      <3>1. \A j \in Jobs : Stays(job, job, j)
        BY DEF Stays
      <3> QED BY <1>0, <2>2, <3>1, SameQueue DEF Clean, Healthy
    <2>4. WorkInv(w', job, backend)
      BY <1>0, <2>2, SameWork DEF Clean, Healthy
    <2> QED BY <2>1, <2>3, <2>4 DEF Clean, Healthy
  <1>2. CASE Crash
    <2>1. /\ job' = job /\ shot' = shot /\ takeFiles' = takeFiles
          /\ backend' = backend /\ submissions' = submissions /\ w' = Lost
      BY <1>2 DEF Crash
    <2> QED BY <2>1, DiedHealthy DEF Clean, Healthy
  <1> QED BY <1>1, <1>2

\* With no running entry, no job has started and not been registered.
LEMMA NobodyHolds ==
    ASSUME Clean, w.phase # "down", w.running = NoJob, NEW i \in Jobs
    PROVE  ~Holding(job, shot, i)
  <1> SUFFICES ASSUME Holding(job, shot, i) PROVE FALSE
    OBVIOUS
  <1>1. job[i].shot \in Shots /\ shot[job[i].shot].active = i
    BY DEF Holding, Clean, Healthy, FilesInv, HeldIsPointedAt, TakesKept
  <1>2. i # NoJob
    BY DEF Jobs, NoJob
  <1>3. PICK k \in 1..Len(w.pending) : w.pending[k] = i
    BY <1>1, <1>2 DEF Clean, Healthy, QueueInv, Awaited
  <1>4. job[i].state = "Queued"
    BY <1>3, CleanFacts
  <1> QED BY <1>4 DEF Holding, Held

\* Between two rounds the main loop and the executor are through with each
\* other.
LEMMA DispatchFacts ==
    ASSUME Clean, MayDispatch
    PROVE  w.phase # "down" /\ w.request = NoRequest /\ w.events = <<>>
  BY IdleChannel, CleanFacts DEF MayDispatch, Serving, Clean, Inv, OverInv

\* The first eligible job becomes the running one.
LEMMA StartNextHealthy ==
    ASSUME Clean, faults' = 0, NEW i \in DOMAIN w.pending, NEW fits, NEW n \in {3, 4},
           NEW o \in Outcomes(n), StartNext(i, fits, o)
    PROVE  Healthy'
  <1> DEFINE j == w.pending[i]
             s == job[j].shot
             v == IF fits THEN 3 ELSE 4
  <1>0. /\ w \in Memory /\ job \in JobFiles /\ shot \in ShotFiles
        /\ FilesInv(job, shot, takeFiles) /\ QueueInv(w, job, shot)
        /\ WorkInv(w, job, backend) /\ BackendInv(job, submissions, backend)
    BY CleanFacts DEF Clean, Healthy
  <1>1. /\ w.phase # "down" /\ w.request = NoRequest /\ w.events = <<>> /\ w.running = NoJob
        /\ i \in 1..Len(w.pending)
        /\ j \in Jobs /\ s \in Shots /\ shot[s].active = j /\ job[j].state = "Queued"
    <2>1. i \in 1..Len(w.pending)
      BY <1>0 DEF Memory
    <2>2. w.phase # "down" /\ w.request = NoRequest /\ w.events = <<>> /\ w.running = NoJob
      BY DispatchFacts DEF StartNext
    <2> QED BY <2>1, <2>2, CleanFacts
  <1>2. /\ takeFiles' = takeFiles /\ backend' = backend /\ submissions' = submissions
    BY DEF StartNext
  <1>3. /\ o.end = "ok" => o.done >= 3 /\ o.acked >= 3
        /\ o.end \in {"ok", "crash"} /\ o.done \in 1..4
    <2>1. v \in Nat /\ v \in {3, 4} /\ o \in Outcomes(v) /\ Spend(o)
      BY DEF StartNext
    <2> HIDE DEF v
    <2>2. \/ o.end = "ok" /\ o.done = v /\ o.acked = v
          \/ o.end = "crash" /\ o.done \in 1..(v - 1) /\ o.acked = o.done
      BY <2>1, CleanOutcome DEF Clean
    <2> QED BY <2>1, <2>2
  <1>4. /\ Wrote(job, job', j) /\ job'[j].state \in Held /\ job'[j].attempt = "Prepared"
        /\ \A k \in Jobs : k # j => job'[k] = job[k]
    <2>1. job' = [job EXCEPT ![j].state = IF o.done = 4 THEN "Blocked" ELSE "Active",
                             ![j].attempt = "Prepared"]
      <3>1. o.done # 0
        BY <1>3
      <3>2. job' = IF o.done = 0 THEN job
                   ELSE [job EXCEPT ![j].state = IF o.done = 4 THEN "Blocked" ELSE "Active",
                                    ![j].attempt = "Prepared"]
        BY DEF StartNext
      <3> QED BY <3>1, <3>2
    <2>2. PICK st \in Held : st = IF o.done = 4 THEN "Blocked" ELSE "Active"
      BY DEF Held
    <2> HIDE DEF j
    <2>3. job' = [job EXCEPT ![j].state = st, ![j].attempt = "Prepared"]
      BY <2>1, <2>2
    <2>4. /\ job'[j].state = st /\ job'[j].attempt = "Prepared" /\ job'[j].shot = job[j].shot
          /\ \A k \in Jobs : k # j => job'[k] = job[k]
      BY <2>3, <1>0, <1>1 DEF JobFiles, JobJournal
    <2> QED BY <2>2, <2>4 DEF Wrote
  <1>5. FilesInv(job', shot, takeFiles)
    <2>1. \A k \in Jobs : ~Holding(job, shot, k)
      BY <1>1, NobodyHolds
    <2> HIDE DEF j
    <2> QED BY <1>0, <1>1, <1>4, <2>1, StartFiles
  <1>6. /\ FilesInv(job', shot', takeFiles')
        /\ \A r \in Shots : shot'[r].active = shot[r].active
    <2>1. CASE o.done >= 2
      <3>1. shot' = [shot EXCEPT ![s].stage = "Generating"]
        BY <2>1 DEF StartNext
      <3>2. shot[s].active # NoJob
        BY <1>1 DEF Jobs, NoJob
      <3>3. \A r \in Shots : shot'[r].active = shot[r].active
        BY <3>1, <1>0 DEF ShotFiles, ShotRuntime
      <3> HIDE DEF s
      <3>4. FilesInv(job', shot', takeFiles)
        BY <3>1, <3>2, <1>0, <1>1, <1>5, StageFiles
      <3> QED BY <3>3, <3>4, <1>2
    <2>2. CASE ~(o.done >= 2)
      <3>1. shot' = shot
        BY <2>2 DEF StartNext
      <3> QED BY <3>1, <1>2, <1>5
    <2> QED BY <2>1, <2>2
  <1>7. BackendInv(job', submissions', backend')
    <2>1. \A k \in Jobs : backend[k] \in Unfinished /\ job[k].state \in OnceSent
                        => job'[k].state \in OnceSent
      BY <1>1, <1>4 DEF OnceSent
    <2> QED BY <1>0, <1>2, <2>1, SameBackend
  <1>8. CASE o.end = "crash"
    <2>1. w' = Lost
      BY <1>8 DEF StartNext, After
    <2> QED BY <2>1, <1>6, <1>7, DiedHealthy
  <1>9. CASE o.end = "ok"
    <2> DEFINE started == [w EXCEPT !.running = j, !.pending = RemoveAt(@, i)]
    <2>1. w' = IF fits THEN Send(started, "Prepare", j) ELSE started
      <3>1. ~(o.acked < 3)
        <4>1. o.acked \in Nat
          BY OutcomeFacts
        <4> QED BY <4>1, <1>3, <1>9
      <3> QED BY <3>1, <1>9 DEF StartNext, After
    <2>2. /\ started.pending = RemoveAt(w.pending, i) /\ started.running = j
          /\ started.phase = w.phase /\ started.events = <<>> /\ started.request = NoRequest
          /\ started \in Memory
      <3>1. RemoveAt(w.pending, i) \in Seq(Jobs)
        BY <1>0, <1>1, RemoveAtType DEF Memory
      <3> HIDE DEF j
      <3> QED BY <3>1, <1>0, <1>1 DEF Memory
    <2> HIDE DEF started
    <2>3. /\ w'.pending = RemoveAt(w.pending, i) /\ w'.running = j /\ w'.phase = w.phase
      <3> HIDE DEF j
      <3> QED BY <2>1, <2>2 DEF Send, Memory
    <2>4. QueueInv(w', job', shot')
      <3>1. LetsGo(shot, shot', j)
        BY <1>6 DEF LetsGo
      <3>2. j = w.pending[i]
        OBVIOUS
      <3> HIDE DEF j, s
      <3> QED BY <1>0, <1>1, <1>4, <2>3, <3>1, <3>2, RemoveQueue
    <2>5. WorkInv(w', job', backend')
      <3> HIDE DEF j, s
      <3>1. CASE fits
        <4>1. w' = Send(started, "Prepare", j)
          BY <3>1, <2>1
        <4>2. WorkInv(Send(started, "Prepare", j), job', backend')
          BY <1>1, <1>4, <2>2, SendWork
        <4> QED BY <4>1, <4>2
      <3>2. CASE ~fits
        <4>1. w' = started
          BY <3>2, <2>1
        <4>2. WorkInv(started, job', backend')
          BY <1>1, <2>2, IdleWork
        <4> QED BY <4>1, <4>2
      <3> QED BY <3>1, <3>2
    <2> QED BY <1>6, <1>7, <2>4, <2>5 DEF Healthy
  <1> QED BY <1>3, <1>8, <1>9

\* A rebuild is never due: what waits in the queue is queued on disk.
LEMMA NoRebuild ==
    ASSUME Clean, NEW R, NEW end, StartRebuild(R, end)
    PROVE  FALSE
  <1>1. w.phase # "down" /\ w \in Memory
    BY CleanFacts DEF StartRebuild, MayDispatch, Serving
  <1>2. PICK i \in DOMAIN w.pending : job[w.pending[i]].state # "Queued"
    BY DEF StartRebuild
  <1>3. i \in 1..Len(w.pending)
    BY <1>1 DEF Memory
  <1> QED BY <1>1, <1>2, <1>3, CleanFacts

\* The running job is blocked, and its file says no more.
LEMMA RunningBlocked ==
    ASSUME job \in JobFiles, w.running \in Jobs, BlockRunning \/ MarkUnknown
    PROVE  /\ job'[w.running].state = "Blocked"
           /\ job'[w.running].shot = job[w.running].shot
           /\ \A i \in Jobs : i # w.running => job'[i] = job[i]
  <1>1. PICK j \in Jobs : j = w.running
    OBVIOUS
  <1>2. CASE BlockRunning
    <2>1. job' = [job EXCEPT ![j].state = "Blocked"]
      BY <1>1, <1>2 DEF BlockRunning
    <2> QED BY <1>1, <2>1 DEF JobFiles, JobJournal
  <1>3. CASE MarkUnknown
    <2>1. job' = [job EXCEPT ![j].state = "Blocked", ![j].attempt = "SubmissionUnknown"]
      BY <1>1, <1>3 DEF MarkUnknown
    <2> QED BY <1>1, <2>1 DEF JobFiles, JobJournal
  <1> QED BY <1>2, <1>3

\* The running job is blocked, or sent to the executor again.
LEMMA ResumedHealthy ==
    ASSUME Clean, BlockRunning \/ MarkUnknown \/ \E k \in {"Prepare", "Reconcile"} : SendAgain(k)
    PROVE  Healthy'
  <1> DEFINE j == w.running
  <1>0. /\ w \in Memory /\ job \in JobFiles /\ shot \in ShotFiles
        /\ FilesInv(job, shot, takeFiles) /\ QueueInv(w, job, shot)
        /\ WorkInv(w, job, backend) /\ BackendInv(job, submissions, backend)
        /\ w.phase # "down" /\ w.request = NoRequest /\ w.events = <<>>
        /\ j \in Jobs /\ job[j].state \in Held
    <2>1. MayDispatch /\ w.running # NoJob
      BY DEF BlockRunning, MarkUnknown, SendAgain, Resumable
    <2> QED BY <2>1, CleanFacts, DispatchFacts DEF Clean, Healthy
  <1>1. CASE BlockRunning \/ MarkUnknown
    <2>1. /\ shot' = shot /\ takeFiles' = takeFiles /\ w' = w
          /\ backend' = backend /\ submissions' = submissions
      BY <1>1 DEF BlockRunning, MarkUnknown
    <2>2. /\ job'[j].state = "Blocked" /\ job'[j].shot = job[j].shot
          /\ \A i \in Jobs : i # j => job'[i] = job[i]
      BY <1>0, <1>1, RunningBlocked
    <2> HIDE DEF j
    <2>3. FilesInv(job', shot, takeFiles)
      BY <1>0, <2>2, SameFilesInv DEF Held
    <2>4. QueueInv(w, job', shot)
      <3>1. \A i \in Jobs : Stays(job, job', i)
        BY <1>0, <2>2 DEF Stays, Held
      <3> QED BY <1>0, <3>1, SameQueue
    <2>5. WorkInv(w, job', backend)
      BY <1>0, IdleWork
    <2>6. BackendInv(job', submissions, backend)
      <3>1. \A i \in Jobs : backend[i] \in Unfinished /\ job[i].state \in OnceSent
                        => job'[i].state \in OnceSent
        BY <2>2 DEF OnceSent
      <3> QED BY <1>0, <3>1, SameBackend
    <2> QED BY <2>1, <2>3, <2>4, <2>5, <2>6 DEF Healthy
  <1>2. ASSUME NEW k \in {"Prepare", "Reconcile"}, SendAgain(k) PROVE Healthy'
    <2>1. /\ job' = job /\ shot' = shot /\ takeFiles' = takeFiles
          /\ backend' = backend /\ submissions' = submissions /\ w' = Send(w, k, j)
      BY <1>2 DEF SendAgain
    <2>2. k = "Prepare" => job[j].attempt = "Prepared"
      BY <1>2 DEF SendAgain
    <2>3. /\ Send(w, k, j).pending = w.pending /\ Send(w, k, j).running = w.running
          /\ Send(w, k, j).phase = w.phase
      BY <1>0 DEF Send, Memory
    <2>4. QueueInv(Send(w, k, j), job, shot)
      <3>1. \A i \in Jobs : Stays(job, job, i)
        BY DEF Stays
      <3> QED BY <1>0, <2>3, <3>1, SameQueue
    <2>5. WorkInv(Send(w, k, j), job, backend)
      BY <1>0, <2>2, SendWork
    <2> QED BY <1>0, <2>1, <2>4, <2>5 DEF Healthy
  <1> QED BY <1>1, <1>2

\* What is known when the main loop takes event k about job j.
LEMMA ReceivedFacts ==
    ASSUME Clean, NEW k, NEW j \in Jobs, Received(k, j)
    PROVE  /\ w.phase # "down" /\ Handled \in Memory
           /\ Handled.phase = w.phase /\ Handled.running = w.running
           /\ Handled.pending = w.pending /\ Handled.request = w.request
           /\ k # "Submitted" => Handled.events = <<>> /\ Handled.request = NoRequest
           /\ k \in {"Prepared", "PreparationFailed"} =>
                w.running = j /\ job[j].attempt = "Prepared"
           /\ k \in {"Completed", "OutputInvalid"} => backend[j] = "done"
           /\ k = "BackendFailed" => backend[j] = "failed"
           /\ WorkInv(Handled, job', backend)
           /\ QueueInv(Handled, job, shot)
  <1>1. /\ w.phase # "down" /\ Inv /\ OverInv(w, job) /\ WorkInv(w, job, backend)
        /\ QueueInv(w, job, shot) /\ w \in Memory
    BY CleanFacts DEF Received, Serving, Clean, Healthy
  <1>2. /\ Handled \in Memory
        /\ Handled.phase = w.phase /\ Handled.request = w.request
        /\ Handled.running = w.running /\ Handled.pending = w.pending
        /\ 1 \in 1..Len(w.events) /\ w.events[1] = [kind |-> k, job |-> j]
        /\ k # "Submitted" => Handled.events = <<>> /\ w.request = NoRequest
    BY <1>1, HandledFacts
  <1>3. Claims(w, job, backend, w.events[1])
    BY <1>1, <1>2 DEF WorkInv
  <1>4. /\ k \in {"Prepared", "PreparationFailed"} => w.running = j /\ job[j].attempt = "Prepared"
        /\ k \in {"Completed", "OutputInvalid"} => backend[j] = "done"
        /\ k = "BackendFailed" => backend[j] = "failed"
    BY <1>2, <1>3 DEF Claims
  <1>5. WorkInv(Handled, job', backend)
    BY <1>1, HandledWork
  <1>6. QueueInv(Handled, job, shot)
    BY <1>1, <1>2 DEF QueueInv, Awaited
  <1> QED BY <1>1, <1>2, <1>4, <1>5, <1>6

\* The running job is about to be submitted.
LEMMA ApplyPreparedHealthy ==
    ASSUME Clean, faults' = 0, NEW j \in Jobs, NEW o \in Outcomes(2), ApplyPrepared(j, o)
    PROVE  Healthy'
  <1>0. /\ job \in JobFiles /\ shot \in ShotFiles
        /\ FilesInv(job, shot, takeFiles) /\ BackendInv(job, submissions, backend)
    BY CleanFacts DEF Clean, Healthy
  <1>1. /\ w.phase # "down" /\ Handled \in Memory /\ Handled.phase = w.phase
        /\ Handled.events = <<>> /\ Handled.running = j
        /\ QueueInv(Handled, job, shot)
    BY ReceivedFacts DEF ApplyPrepared
  <1>2. /\ shot' = shot /\ takeFiles' = takeFiles
        /\ backend' = backend /\ submissions' = submissions
    BY DEF ApplyPrepared
  <1>3. o.end \in {"ok", "crash"} /\ o.done >= 1
    BY CleanOutcome DEF ApplyPrepared, Clean
  <1>4. /\ job'[j].attempt = "Submitting" /\ job'[j].state = job[j].state
        /\ job'[j].shot = job[j].shot
        /\ \A i \in Jobs : i # j => job'[i] = job[i]
    BY <1>0, <1>3 DEF ApplyPrepared, JobFiles, JobJournal
  <1>5. FilesInv(job', shot, takeFiles)
    BY <1>0, <1>4, SameFilesInv
  <1>6. BackendInv(job', submissions, backend)
    <2>1. \A i \in Jobs : backend[i] \in Unfinished /\ job[i].state \in OnceSent
                        => job'[i].state \in OnceSent
      BY <1>4
    <2> QED BY <1>0, <2>1, SameBackend
  <1>7. CASE o.end = "crash"
    <2>1. w' = Lost
      BY <1>7 DEF ApplyPrepared, After
    <2> QED BY <2>1, <1>2, <1>5, <1>6, DiedHealthy
  <1>8. CASE o.end = "ok"
    <2> DEFINE n == Send(Handled, "Submit", j)
    <2>1. w' = n
      BY <1>8 DEF ApplyPrepared, After
    <2>2. n.pending = Handled.pending /\ n.running = Handled.running /\ n.phase = Handled.phase
      BY <1>1 DEF Send, Memory
    <2>3. WorkInv(n, job', backend)
      BY <1>1, <1>4, SendWork
    <2> HIDE DEF n
    <2>4. QueueInv(n, job', shot)
      <3>1. \A i \in Jobs : Stays(job, job', i)
        BY <1>4 DEF Stays
      <3> QED BY <1>1, <2>2, <3>1, SameQueue
    <2> QED BY <1>2, <1>5, <1>6, <2>1, <2>3, <2>4 DEF Healthy
  <1> QED BY <1>3, <1>7, <1>8

\* The running job's attempt goes on.
LEMMA NoteAttemptHealthy ==
    ASSUME Clean, faults' = 0, NEW j \in Jobs,
           NEW k \in {"Submitted", "SubmissionUnknown", "MonitorRetry"},
           NEW o \in Outcomes(1), NoteAttempt(k, j, o)
    PROVE  Healthy'
  <1>0. /\ job \in JobFiles /\ shot \in ShotFiles
        /\ FilesInv(job, shot, takeFiles) /\ BackendInv(job, submissions, backend)
    BY CleanFacts DEF Clean, Healthy
  <1>1. /\ w.phase # "down" /\ Handled \in Memory
        /\ WorkInv(Handled, job', backend) /\ QueueInv(Handled, job, shot)
    BY ReceivedFacts DEF NoteAttempt, Current
  <1>2. job[j].state \in Held
    <2>1. w.running = j /\ j # NoJob
      BY DEF NoteAttempt, Current, Jobs, NoJob
    <2> QED BY <2>1, <1>1, CleanFacts
  <1>3. /\ shot' = shot /\ takeFiles' = takeFiles /\ w' = Handled
        /\ backend' = backend /\ submissions' = submissions
    BY DEF NoteAttempt
  <1>4. o.done = 1
    BY CleanOutcome DEF NoteAttempt, Clean
  <1>5. /\ job'[j].state \in Held /\ job'[j].shot = job[j].shot
        /\ \A i \in Jobs : i # j => job'[i] = job[i]
    <2>1. CASE k = "Submitted"
      BY <2>1, <1>0, <1>2, <1>4 DEF NoteAttempt, JobFiles, JobJournal
    <2>2. CASE k = "SubmissionUnknown"
      BY <2>2, <1>0, <1>2, <1>4 DEF NoteAttempt, JobFiles, JobJournal, Held
    <2>3. CASE k = "MonitorRetry"
      BY <2>3, <1>0, <1>2, <1>4 DEF NoteAttempt, JobFiles, JobJournal
    <2> QED BY <2>1, <2>2, <2>3
  <1>6. FilesInv(job', shot, takeFiles)
    BY <1>0, <1>2, <1>5, SameFilesInv
  <1>7. BackendInv(job', submissions, backend)
    <2>1. \A i \in Jobs : backend[i] \in Unfinished /\ job[i].state \in OnceSent
                        => job'[i].state \in OnceSent
      BY <1>5 DEF Held, OnceSent
    <2> QED BY <1>0, <2>1, SameBackend
  <1>8. QueueInv(Handled, job', shot)
    <2>1. \A i \in Jobs : Stays(job, job', i)
      BY <1>2, <1>5 DEF Stays
    <2> QED BY <1>1, <2>1, SameQueue
  <1> QED BY <1>1, <1>3, <1>6, <1>7, <1>8 DEF Healthy

\* The running job fails and its shot lets go of it.
LEMMA FailJobHealthy ==
    ASSUME Clean, faults' = 0, NEW j \in Jobs, NEW k \in DOMAIN FailureOf,
           NEW o \in Outcomes(3), FailJob(k, j, o)
    PROVE  Healthy'
  <1> DEFINE s == job[j].shot
             m == [Handled EXCEPT !.running = NoJob]
  <1>0. /\ job \in JobFiles /\ shot \in ShotFiles
        /\ FilesInv(job, shot, takeFiles) /\ BackendInv(job, submissions, backend)
        /\ \A r \in Shots : shot[r] \in ShotRuntime
    BY CleanFacts DEF Clean, Healthy
  <1>1. k \in {"PreparationFailed", "BackendFailed", "OutputInvalid"}
    BY DEF FailureOf
  <1>2. /\ w.phase # "down" /\ Handled \in Memory /\ Handled.phase = w.phase
        /\ Handled.running = j /\ j # NoJob
        /\ Handled.events = <<>> /\ Handled.request = NoRequest
        /\ QueueInv(Handled, job, shot)
        /\ k = "PreparationFailed" => job[j].attempt = "Prepared"
        /\ k = "OutputInvalid" => backend[j] = "done"
        /\ k = "BackendFailed" => backend[j] = "failed"
    <2>1. Received(k, j) /\ w.running = j
      BY DEF FailJob, Current
    <2>2. k # "Submitted"
      BY <1>1
    <2> QED BY <2>1, <2>2, ReceivedFacts DEF Jobs, NoJob
  <1>3. job[j].state \in Held /\ s \in Shots /\ shot[s].active = j
    <2>1. w.running = j
      BY DEF FailJob, Current
    <2> QED BY <1>2, <2>1, CleanFacts
  <1>4. backend[j] \notin Unfinished
    <2>1. CASE k = "PreparationFailed"
      <3>1. submissions[j] = 0
        BY <1>2, <2>1 DEF Clean, Inv, JobInv, Recorded
      <3> QED BY <3>1, <1>0, <1>2 DEF BackendInv, Unfinished
    <2> QED BY <2>1, <1>1, <1>2 DEF Unfinished
  <1>5. /\ takeFiles' = takeFiles /\ backend' = backend /\ submissions' = submissions
    BY DEF FailJob
  <1>6. \/ o.end = "ok" /\ o.done = 3 /\ o.acked = 3
        \/ o.end = "crash" /\ o.done \in 1..2
    <2>1. \/ o.end = "ok" /\ o.done = 3 /\ o.acked = 3
          \/ o.end = "crash" /\ o.done \in 1..(3 - 1) /\ o.acked = o.done
      BY CleanOutcome DEF FailJob, Clean
    <2> QED BY <2>1
  <1>7. /\ Wrote(job, job', j) /\ job'[j].state = "Failed"
        /\ \A i \in Jobs : i # j => job'[i] = job[i]
    <2>1. job' = [job EXCEPT ![j].state = "Failed", ![j].attempt = FailureOf[k]]
      BY <1>6 DEF FailJob
    <2> QED BY <2>1, <1>0 DEF Wrote, JobFiles, JobJournal
  <1>8. \/ shot' = shot /\ o.end # "ok"
        \/ shot'[s] = FailShot(shot[s]) /\ \A r \in Shots : r # s => shot'[r] = shot[r]
    <2>1. CASE o.done >= 2
      <3>1. shot' = [shot EXCEPT ![s] = FailShot(shot[s])]
        BY <2>1 DEF FailJob
      <3> HIDE DEF s
      <3>2. shot'[s] = FailShot(shot[s]) /\ \A r \in Shots : r # s => shot'[r] = shot[r]
        BY <3>1, <1>0, <1>3 DEF ShotFiles
      <3> QED BY <3>2
    <2>2. CASE ~(o.done >= 2)
      <3>1. shot' = shot
        BY <2>2 DEF FailJob
      <3>2. o.end # "ok"
        BY <1>6, <2>2
      <3> QED BY <3>1, <3>2
    <2> QED BY <2>1, <2>2
  <1>9. ASSUME NEW sg, sg[s] = FailShot(shot[s]), \A r \in Shots : r # s => sg[r] = shot[r]
        PROVE  /\ FilesInv(job', shot, takeFiles) /\ FilesInv(job', sg, takeFiles)
               /\ LetsGo(shot, sg, j) /\ \A r \in Shots : sg[r].active # j
    <2> HIDE DEF s
    <2>1. /\ sg[s].active = NoJob /\ sg[s].stage \notin {"Queued", "Generating"}
          /\ sg[s].takes = shot[s].takes
      <3>1. shot[s] \in ShotRuntime
        BY <1>0, <1>3
      <3>2. /\ FailShot(shot[s]).active = NoJob /\ FailShot(shot[s]).takes = shot[s].takes
            /\ FailShot(shot[s]).stage = "Failed"
        BY <3>1, SettledShots
      <3> QED BY <3>2, <1>9
    <2>2. job'[j].state \in Terminal /\ job'[j].state # "Completed"
      BY <1>7 DEF Terminal
    <2>3. Wrote(job, job', j) /\ shot[s].takes \subseteq sg[s].takes
      BY <1>7, <2>1
    <2> QED BY <1>3, <1>9, <2>1, <2>2, <2>3, EndedFiles
  <1> DEFINE sc == [shot EXCEPT ![s] = FailShot(shot[s])]
  <1>10. sc[s] = FailShot(shot[s]) /\ \A r \in Shots : r # s => sc[r] = shot[r]
    BY <1>0, <1>3 DEF ShotFiles
  <1> HIDE DEF sc
  <1>11. FilesInv(job', shot', takeFiles')
    BY <1>5, <1>8, <1>9, <1>10
  <1>12. BackendInv(job', submissions', backend')
    <2>1. \A i \in Jobs : backend[i] \in Unfinished /\ job[i].state \in OnceSent
                        => job'[i].state \in OnceSent
      BY <1>4, <1>7
    <2> QED BY <1>0, <1>5, <2>1, SameBackend
  <1>13. CASE o.end = "crash"
    <2>1. w' = Lost
      BY <1>13 DEF FailJob, After
    <2> QED BY <2>1, <1>11, <1>12, DiedHealthy
  <1>14. CASE o.end = "ok"
    <2>1. w' = m
      BY <1>6, <1>14 DEF FailJob, After
    <2>2. /\ m.pending = Handled.pending /\ m.running = NoJob /\ m.phase # "down"
          /\ m.request = NoRequest /\ m.events = <<>>
      BY <1>2 DEF Memory
    <2> HIDE DEF m, s
    <2>3. LetsGo(shot, shot', j) /\ \A r \in Shots : shot'[r].active # j
      BY <1>8, <1>9, <1>14
    <2>4. QueueInv(m, job', shot')
      BY <1>2, <1>7, <2>2, <2>3, FreedQueue
    <2>5. WorkInv(m, job', backend')
      BY <2>2, IdleWork
    <2> QED BY <1>11, <1>12, <2>1, <2>4, <2>5 DEF Healthy
  <1> QED BY <1>6, <1>13, <1>14

\* An event about another job, or of no consequence.
LEMMA DiscardHealthy ==
    ASSUME Clean, NEW k, NEW j \in Jobs, Discard(k, j)
    PROVE  Healthy'
  <1>1. /\ job' = job /\ shot' = shot /\ takeFiles' = takeFiles /\ w' = Handled
        /\ backend' = backend /\ submissions' = submissions /\ Received(k, j)
    BY DEF Discard
  <1>2. WorkInv(Handled, job', backend) /\ QueueInv(Handled, job, shot)
    BY <1>1, ReceivedFacts
  <1> QED BY <1>1, <1>2 DEF Clean, Healthy

\* The take is on disk before the job has it, and the job before its shot.
LEMMA CompleteJobHealthy ==
    ASSUME Clean, faults' = 0, NEW j \in Jobs, NEW n \in Fresh \cup {NoJob}, NEW same,
           NEW c \in {4, 6}, NEW o \in Outcomes(c), CompleteJob(j, n, same, o)
    PROVE  Healthy'
  <1> DEFINE s == job[j].shot
             jf == [job EXCEPT ![j].state = "Completed", ![j].attempt = "Completed"]
             tf == takeFiles \cup {j}
             reg == RegisterCandidate(jf, shot[s], j)
             sf == [shot EXCEPT ![s] = reg]
             again == AuditionDue(reg) /\ Fresh # {}
             v == IF again THEN 6 ELSE 4
             m == [Handled EXCEPT !.running = NoJob]
  <1>0. /\ job \in JobFiles /\ shot \in ShotFiles
        /\ FilesInv(job, shot, takeFiles) /\ BackendInv(job, submissions, backend)
        /\ \A r \in Shots : shot[r] \in ShotRuntime
    BY CleanFacts DEF Clean, Healthy
  <1>1. /\ w.phase # "down" /\ Handled \in Memory /\ Handled.phase = w.phase
        /\ Handled.running = j /\ j # NoJob
        /\ Handled.events = <<>> /\ Handled.request = NoRequest
        /\ QueueInv(Handled, job, shot)
        /\ backend[j] = "done"
    <2>1. Received("Completed", j) /\ w.running = j
      BY DEF CompleteJob, Current
    <2> QED BY <2>1, ReceivedFacts DEF Jobs, NoJob
  <1>2. job[j].state \in Held /\ s \in Shots /\ shot[s].active = j
    <2>1. w.running = j
      BY DEF CompleteJob, Current
    <2> QED BY <1>1, <2>1, CleanFacts
  <1>3. /\ takeFiles' = (IF o.done >= 1 THEN tf ELSE takeFiles)
        /\ job' = (IF o.done < 2 THEN job ELSE Journaled(jf, o, 4, n, s, "audition"))
        /\ backend' = backend /\ submissions' = submissions
    BY DEF CompleteJob
  <1>4. shot' = IF o.done < 3 THEN shot
                ELSE [shot EXCEPT ![s] = IF o.done = 6 THEN EnqueueShot(reg, n, reg.target) ELSE reg]
    BY DEF CompleteJob
  <1>5. /\ IF again THEN n \in Fresh ELSE n = NoJob
        /\ o \in Outcomes(v) /\ v \in {4, 6} /\ Spend(o)
        /\ \/ o.end = "ok" /\ o.done = v /\ o.acked = v
           \/ o.end = "crash" /\ o.done \in 1..(v - 1)
    <2>1. /\ IF again THEN n \in Fresh ELSE n = NoJob
          /\ o \in Outcomes(v) /\ v \in {4, 6} /\ Spend(o)
      BY DEF CompleteJob
    <2> HIDE DEF v
    <2> QED BY <2>1, CleanOutcome DEF Clean
  <1>6. w' = After(o, IF again /\ o.end = "ok" THEN [m EXCEPT !.pending = Append(@, n)] ELSE m)
        \/ o.end = "crash"
    <2>1. CASE o.end = "ok"
      <3>1. o.acked >= 3
        BY <2>1, <1>5
      <3> QED BY <2>1, <3>1 DEF CompleteJob
    <2> QED BY <2>1, <1>5
  <1>7. /\ Wrote(job, jf, j) /\ jf[j].state = "Completed"
        /\ \A i \in Jobs : i # j => jf[i] = job[i]
        /\ jf \in JobFiles
    <2>1. /\ Wrote(job, jf, j) /\ jf[j].state = "Completed"
          /\ \A i \in Jobs : i # j => jf[i] = job[i]
      BY <1>0 DEF Wrote, JobFiles, JobJournal
    <2>2. jf \in JobFiles
      <3> DEFINE g == [job[j] EXCEPT !.state = "Completed", !.attempt = "Completed"]
      <3>1. g \in JobJournal
        BY <1>0, JobTypes DEF JobFiles, JobState, AttemptState
      <3>2. jf = [job EXCEPT ![j] = g]
        BY <1>0 DEF JobFiles, JobJournal
      <3> HIDE DEF g, jf
      <3> QED BY <3>1, <3>2, <1>0 DEF JobFiles
    <2> QED BY <2>1, <2>2
  <1>8. /\ sf[s] = reg /\ \A r \in Shots : r # s => sf[r] = shot[r]
        /\ sf \in ShotFiles
        /\ reg.active = NoJob /\ reg.stage = "CandidatesReady" /\ reg.takes = shot[s].takes \cup {j}
        /\ reg \in ShotRuntime
    <2>1. shot[s] \in ShotRuntime
      BY <1>0, <1>2
    <2> HIDE DEF jf, s
    <2>2. reg.active = NoJob /\ reg.stage = "CandidatesReady" /\ reg.takes = shot[s].takes \cup {j}
      BY <2>1, SettledShots
    <2>3. reg \in ShotRuntime
      <3>1. 0 \in Nat OBVIOUS
      <3> QED BY <2>1, <3>1, ShotTypes
    <2> HIDE DEF reg
    <2> QED BY <1>0, <1>2, <2>2, <2>3 DEF ShotFiles
  <1>9. /\ FilesInv(jf, shot, tf) /\ FilesInv(jf, sf, tf)
        /\ LetsGo(shot, sf, j) /\ \A r \in Shots : sf[r].active # j
    <2>1. takeFiles \subseteq tf /\ j \in tf
      OBVIOUS
    <2>2. /\ sf[s].active = NoJob /\ sf[s].stage \notin {"Queued", "Generating"}
          /\ shot[s].takes \subseteq sf[s].takes /\ j \in sf[s].takes
      BY <1>8
    <2> HIDE DEF jf, sf, tf, s, reg
    <2> QED BY <1>2, <1>7, <1>8, <2>1, <2>2, EndedFiles DEF Terminal
  <1> HIDE DEF jf, sf, tf, reg
  <1>10. ASSUME o.done >= 5
         PROVE  /\ n \in Jobs /\ jf[n].state = "Absent" /\ n # j
                /\ job'[n].state = "Queued" /\ job'[n].shot = s
                /\ \A i \in Jobs : i # n => job'[i] = jf[i]
                /\ FilesInv(job', sf, tf)
    <2>1. again /\ v = 6
      BY <1>5, <1>10
    <2>2. n \in Jobs /\ job[n].state = "Absent" /\ n # j
      BY <1>2, <1>5, <2>1 DEF Fresh, Held
    <2>3. jf[n].state = "Absent"
      BY <1>7, <2>2
    <2>4. job' = [jf EXCEPT ![n] = QueuedJob(s, "audition")]
      <3> HIDE DEF s
      <3>1. ~(o.done < 2) /\ ~(o.done <= 4) /\ o.end # "error"
        BY <1>5, <1>10
      <3> QED BY <3>1, <1>3 DEF Journaled
    <2>5. /\ job'[n].state = "Queued" /\ job'[n].shot = s
          /\ \A i \in Jobs : i # n => job'[i] = jf[i]
      <3> HIDE DEF s
      <3> QED BY <2>2, <2>4, <1>7 DEF JobFiles, QueuedJob
    <2>6. FilesInv(job', sf, tf)
      BY <2>2, <2>3, <2>5, <1>8, <1>9, NewFiles
    <2> QED BY <2>2, <2>3, <2>5, <2>6
  <1>11. /\ o.done = 1 => job' = job /\ shot' = shot
         /\ o.done = 2 => job' = jf /\ shot' = shot
         /\ o.done \in {3, 4} => job' = jf /\ shot' = sf
         /\ o.done = 5 => shot' = sf
         /\ o.done = 6 => shot' = [shot EXCEPT ![s] = EnqueueShot(reg, n, reg.target)]
         /\ takeFiles' = tf
         /\ o.done \in 1..6
    <2>1. o.done \in 1..6 /\ o.end # "error"
      BY <1>5
    <2>2. o.done <= 4 => Journaled(jf, o, 4, n, s, "audition") = jf
      BY <2>1 DEF Journaled
    <2> HIDE DEF s, again, v
    <2>3. o.done = 1 => job' = job /\ shot' = shot
      BY <1>3, <1>4
    <2>4. o.done = 2 => job' = jf /\ shot' = shot
      BY <1>3, <1>4, <2>2
    <2>5. o.done \in {3, 4} => job' = jf /\ shot' = sf
      <3>1. o.done \in {3, 4} => shot' = sf
        <4>1. o.done \in {3, 4} => ~(o.done < 3) /\ o.done # 6
          BY <2>1
        <4> QED BY <4>1, <1>4 DEF sf
      <3>2. o.done \in {3, 4} => job' = jf
        BY <1>3, <2>2
      <3> QED BY <3>1, <3>2
    <2>6. o.done = 5 => shot' = sf
      BY <1>4 DEF sf
    <2>7. o.done = 6 => shot' = [shot EXCEPT ![s] = EnqueueShot(reg, n, reg.target)]
      BY <1>4
    <2>8. takeFiles' = tf
      BY <1>3, <2>1
    <2> QED BY <2>1, <2>3, <2>4, <2>5, <2>6, <2>7, <2>8
  <1>12. ASSUME o.done = 6
         PROVE  /\ shot'[s].active = n /\ \A r \in Shots : r # s => shot'[r] = sf[r]
                /\ FilesInv(job', shot', tf)
    <2> HIDE DEF s
    <2>1. shot' = [sf EXCEPT ![s] = EnqueueShot(sf[s], n, reg.target)]
      BY <1>8, <1>11, <1>12, <1>0 DEF sf, ShotFiles
    <2>2. shot'[s].active = n /\ \A r \in Shots : r # s => shot'[r] = sf[r]
      BY <2>1, <1>2, <1>8 DEF ShotFiles, ShotRuntime, EnqueueShot
    <2>3. FilesInv(job', shot', tf)
      <3>1. o.done >= 5 BY <1>12
      <3>2. sf[s].active = NoJob /\ sf \in ShotFiles /\ s \in Shots BY <1>2, <1>8
      <3>3. /\ n \in Jobs /\ job'[n].state = "Queued" /\ job'[n].shot = s
            /\ FilesInv(job', sf, tf)
        BY <1>10, <3>1
      <3> QED BY <2>1, <3>2, <3>3, PointFiles
    <2> QED BY <2>2, <2>3
  <1>13. FilesInv(job', shot', takeFiles')
    <2>1. CASE o.done = 1
      <3>1. FilesInv(job, shot, tf)
        <4>1. takeFiles \subseteq tf BY DEF tf
        <4> QED BY <1>0, <4>1, SameFilesInv
      <3> QED BY <2>1, <3>1, <1>11
    <2>2. CASE o.done \in {2, 3, 4}
      BY <2>2, <1>9, <1>11
    <2>3. CASE o.done = 5
      BY <2>3, <1>10, <1>11
    <2>4. CASE o.done = 6
      BY <2>4, <1>11, <1>12
    <2> QED BY <2>1, <2>2, <2>3, <2>4, <1>11
  <1>14. BackendInv(job', submissions', backend')
    <2>1. \A i \in Jobs : i # j /\ job[i].state \in OnceSent => job'[i] = job[i]
      <3>1. CASE o.done >= 5
        BY <3>1, <1>7, <1>10 DEF OnceSent
      <3>2. CASE o.done \in {1, 2, 3, 4}
        BY <3>2, <1>7, <1>11
      <3> QED BY <3>1, <3>2, <1>11
    <2>2. \A i \in Jobs : backend[i] \in Unfinished /\ job[i].state \in OnceSent
                        => job'[i].state \in OnceSent
      BY <1>1, <2>1 DEF Unfinished
    <2> QED BY <1>0, <1>3, <2>2, SameBackend
  <1>15. CASE o.end = "crash"
    <2>1. w' = Lost
      BY <1>15 DEF CompleteJob, After
    <2> QED BY <2>1, <1>13, <1>14, DiedHealthy
  <1>16. CASE o.end = "ok"
    <2>1. w' = IF again THEN [m EXCEPT !.pending = Append(@, n)] ELSE m
      BY <1>6, <1>16 DEF After
    <2>2. /\ m.pending = Handled.pending /\ m.running = NoJob /\ m.phase # "down"
          /\ m.request = NoRequest /\ m.events = <<>> /\ m \in Memory
      BY <1>1 DEF Memory
    <2> HIDE DEF m, s
    <2>3. QueueInv(m, jf, sf)
      BY <1>1, <1>7, <1>9, <2>2, FreedQueue
    <2>4. CASE ~again
      <3>1. w' = m
        BY <2>1, <2>4
      <3>2. job' = jf /\ shot' = sf
        BY <1>5, <1>11, <1>16, <2>4
      <3>3. QueueInv(w', job', shot') /\ WorkInv(w', job', backend')
        BY <3>1, <3>2, <2>2, <2>3, IdleWork
      <3> QED BY <1>13, <1>14, <3>3 DEF Healthy
    <2>5. CASE again
      <3>1. w' = [m EXCEPT !.pending = Append(@, n)]
        BY <2>1, <2>5
      <3>2. o.done = 6
        BY <1>5, <1>16, <2>5
      <3>3. /\ w'.pending = Append(m.pending, n) /\ w'.running = m.running
            /\ w'.phase # "down" /\ w'.request = NoRequest /\ w'.events = <<>>
        BY <2>2, <3>1 DEF Memory
      <3>4. o.done >= 5
        BY <3>2
      <3> HIDE DEF again, v
      <3>5. QueueInv(w', job', shot')
        <4>1. sf[s].active = NoJob
          BY <1>8
        <4>2. /\ n \in Jobs /\ jf[n].state = "Absent" /\ job'[n].state = "Queued"
              /\ \A i \in Jobs : i # n => job'[i] = jf[i]
          BY <1>10, <3>4
        <4>3. /\ s \in Shots /\ shot'[s].active = n
              /\ \A r \in Shots : r # s => shot'[r] = sf[r]
          BY <1>2, <1>12, <3>2
        <4> QED BY <2>2, <2>3, <3>3, <4>1, <4>2, <4>3, AppendQueue
      <3>6. WorkInv(w', job', backend')
        BY <3>3, IdleWork
      <3> QED BY <1>13, <1>14, <3>5, <3>6 DEF Healthy
    <2> QED BY <2>4, <2>5
  <1> QED BY <1>5, <1>15, <1>16

\* The executor's reports.
LEMMA ExecutorHealthy ==
    ASSUME Clean, Executor
    PROVE  Healthy'
  <1> DEFINE j == w.request.job
             M == [kind |-> "Monitor", job |-> j]
  <1>0. /\ w \in Memory /\ Inv /\ OverInv(w, job)
        /\ FilesInv(job, shot, takeFiles) /\ QueueInv(w, job, shot)
        /\ WorkInv(w, job, backend) /\ BackendInv(job, submissions, backend)
        /\ backend \in [Jobs -> BackendState] /\ submissions \in [Jobs -> Nat]
    BY CleanFacts DEF Clean, Healthy
  <1>1. ASSUME NEW k \in RequestKind, Working(k)
        PROVE  /\ w.phase # "down" /\ w.request # NoRequest /\ j \in Jobs
               /\ w.request.kind = k
               /\ RequestInv(w, job, submissions)
    BY <1>0, <1>1, WorkingFacts DEF Working
  <1>2. ASSUME NEW k \in EventKind, NEW r, r = NoRequest \/ r = M, NEW v, w.request # NoRequest,
               v.phase = Report(k, r).phase, v.running = Report(k, r).running,
               v.pending = Report(k, r).pending
        PROVE  QueueInv(v, job, shot) /\ v.phase = w.phase
    <2>1. r \in Request \cup {NoRequest}
      <3>1. j \in Jobs
        BY <1>0, <1>2 DEF Memory, Request
      <3> QED BY <1>2, <3>1 DEF Request, RequestKind
    <2>2. /\ Report(k, r).phase = w.phase /\ Report(k, r).running = w.running
          /\ Report(k, r).pending = w.pending
      BY <1>0, <1>2, <2>1, ReportFacts, Zenon
    <2> QED BY <1>0, <1>2, <2>2 DEF QueueInv, Awaited
  <1>3. ASSUME NEW k \in {"Prepared", "PreparationFailed"}, ExPrepare(k) PROVE Healthy'
    <2>1. w.phase # "down" /\ w.request # NoRequest /\ w.request.kind = "Prepare"
      BY <1>1, <1>3 DEF ExPrepare, RequestKind
    <2>2. /\ job' = job /\ shot' = shot /\ takeFiles' = takeFiles
          /\ backend' = backend /\ submissions' = submissions /\ w' = Report(k, NoRequest)
      BY <1>3 DEF ExPrepare
    <2>3. k \in EventKind /\ k \notin {"Completed", "OutputInvalid", "BackendFailed"}
      BY DEF EventKind
    <2>4. WorkInv(Report(k, NoRequest), job, backend)
      BY <1>0, <2>1, <2>3, ReportWork
    <2>5. QueueInv(Report(k, NoRequest), job, shot)
      BY <1>2, <2>1, <2>3
    <2> QED BY <1>0, <2>2, <2>4, <2>5 DEF Healthy
  <1>4. ASSUME NEW accepted \in BOOLEAN, NEW answered \in BOOLEAN, ExSubmit(accepted, answered)
        PROVE  Healthy'
    <2>1. /\ w.phase # "down" /\ w.request # NoRequest /\ w.request.kind = "Submit" /\ j \in Jobs
          /\ submissions[j] = 0
      BY <1>1, <1>4 DEF ExSubmit, RequestKind, RequestInv
    <2>2. /\ job' = job /\ shot' = shot /\ takeFiles' = takeFiles
          /\ w' = IF answered THEN Report("Submitted", M) ELSE Report("SubmissionUnknown", NoRequest)
      BY <1>4 DEF ExSubmit
    <2>3. backend[j] = "none"
      BY <1>0, <2>1 DEF BackendInv
    <2>4. /\ \A i \in Jobs : i # j => backend'[i] = backend[i] /\ submissions'[i] = submissions[i]
          /\ backend'[j] \in {"none", "pending"}
          /\ submissions'[j] = 0 => backend'[j] = "none"
      BY <1>0, <1>4, <2>1, <2>3 DEF ExSubmit
    <2>5. job[j].state \in Held
      <3>1. w.running = j /\ j # NoJob
        BY <1>0, <2>1 DEF WorkInv, Jobs, NoJob
      <3> QED BY <2>1, <3>1, CleanFacts
    <2>6. BackendInv(job, submissions', backend')
      BY <1>0, <2>4, <2>5 DEF BackendInv, Held, OnceSent
    <2>7. \A i \in Jobs : backend[i] \in {"done", "failed"} => backend'[i] = backend[i]
      BY <2>3, <2>4
    <2>8. {"Submitted", "SubmissionUnknown"} \subseteq EventKind
      BY DEF EventKind
    <2>9. WorkInv(w', job, backend') /\ QueueInv(w', job, shot)
      <3>1. CASE answered
        <4>1. w' = Report("Submitted", M)
          BY <2>2, <3>1
        <4>2. WorkInv(Report("Submitted", M), job, backend')
          BY <1>0, <2>1, <2>7, <2>8, ReportWork
        <4>3. QueueInv(Report("Submitted", M), job, shot)
          BY <1>2, <2>1, <2>8
        <4> QED BY <4>1, <4>2, <4>3
      <3>2. CASE ~answered
        <4>1. w' = Report("SubmissionUnknown", NoRequest)
          BY <2>2, <3>2
        <4>2. WorkInv(Report("SubmissionUnknown", NoRequest), job, backend')
          BY <1>0, <2>1, <2>7, <2>8, ReportWork
        <4>3. QueueInv(Report("SubmissionUnknown", NoRequest), job, shot)
          BY <1>2, <2>1, <2>8
        <4> QED BY <4>1, <4>2, <4>3
      <3> QED BY <3>1, <3>2
    <2> QED BY <1>0, <2>2, <2>6, <2>9 DEF Healthy
  <1>5. ASSUME NEW k \in EventKind, ExWatch(k) PROVE Healthy'
    <2> DEFINE m == Report(k, NoRequest)
               c == IF k = "Cancelled" THEN m.cancelling \ {j} ELSE m.cancelling
    <2>1. w.phase # "down" /\ w.request # NoRequest
      BY <1>1, <1>5 DEF ExWatch, RequestKind
    <2>2. /\ job' = job /\ shot' = shot /\ takeFiles' = takeFiles
          /\ backend' = backend /\ submissions' = submissions
          /\ w' = [m EXCEPT !.cancelling = c]
      BY <1>5 DEF ExWatch
    <2>3. /\ k \notin {"Prepared", "PreparationFailed"}
          /\ k \in {"Completed", "OutputInvalid"} => backend[j] = "done"
          /\ k = "BackendFailed" => backend[j] = "failed"
      BY <1>5 DEF ExWatch, Watched
    <2>4. WorkInv(m, job, backend)
      BY <1>0, <2>1, <2>3, ReportWork
    <2>5. m \in Memory
      <3>1. NoRequest \in Request \cup {NoRequest}
        OBVIOUS
      <3> QED BY <1>0, <2>1, <3>1, ReportFacts, Zenon
    <2> HIDE DEF m
    <2>6. /\ w'.request = m.request /\ w'.events = m.events /\ w'.phase = m.phase
          /\ w'.running = m.running /\ w'.pending = m.pending
      BY <2>2, <2>5 DEF Memory
    <2>7. QueueInv(w', job, shot) /\ w'.phase # "down"
      BY <1>2, <2>1, <2>6 DEF m
    <2>8. WorkInv(w', job, backend)
      BY <2>4, <2>6, <2>7 DEF WorkInv, Claims
    <2> QED BY <1>0, <2>2, <2>7, <2>8 DEF Healthy
  <1> QED BY <1>3, <1>4, <1>5 DEF Executor

\* The backend starts a prompt it has, or comes to its end.
LEMMA BackendHealthy ==
    ASSUME Clean, Backend
    PROVE  Healthy'
  <1>0. /\ w \in Memory /\ backend \in [Jobs -> BackendState]
        /\ WorkInv(w, job, backend) /\ BackendInv(job, submissions, backend)
    BY CleanFacts DEF Clean, Healthy
  <1>1. PICK j \in Jobs : \/ BackendStarts(j)
                         \/ \E b \in {"done", "failed"} : BackendEnds(j, b)
    BY DEF Backend
  <1>2. /\ job' = job /\ shot' = shot /\ takeFiles' = takeFiles /\ w' = w
        /\ submissions' = submissions /\ backend[j] \in Unfinished
    BY <1>1 DEF BackendStarts, BackendEnds, Unfinished
  <1>3. \A i \in Jobs : i # j => backend'[i] = backend[i]
    BY <1>0, <1>1 DEF BackendStarts, BackendEnds
  <1>4. BackendInv(job, submissions, backend')
    BY <1>0, <1>2, <1>3 DEF BackendInv, Unfinished
  <1>5. WorkInv(w, job, backend')
    <2>1. CASE w.phase = "down"
      <3>1. w = Lost
        BY <1>0, <2>1 DEF WorkInv
      <3>2. WorkInv(Lost, job, backend')
        BY LostHealthy
      <3> QED BY <3>1, <3>2
    <2>2. CASE w.phase # "down"
      <3>1. \A i \in Jobs : backend[i] \in {"done", "failed"} => backend'[i] = backend[i]
        BY <1>2, <1>3 DEF Unfinished
      <3> QED BY <1>0, <2>2, <3>1, SameWork
    <2> QED BY <2>1, <2>2
  <1> QED BY <1>2, <1>4, <1>5 DEF Clean, Healthy

\* A failed write and a crash stay counted.
LEMMA CountsGrow ==
    ASSUME Inv, Next
    PROVE  faults <= faults' /\ crashes <= crashes'
  <1>0. faults \in Nat /\ crashes \in Nat
    BY DEF Inv, TypeOK
  <1>1. ASSUME NEW o, Spend(o) PROVE faults <= faults' /\ crashes <= crashes'
    BY <1>0, <1>1 DEF Spend
  <1>2. ASSUME NEW R, NEW end, RebuildShots(R, end) PROVE faults <= faults' /\ crashes <= crashes'
    BY <1>0, <1>2 DEF RebuildShots
  <1>3. CASE Command
    <2>1. ASSUME NEW x, NEW k, NEW t, NEW j, NEW o, Enqueue(x, k, t, j, o) PROVE Spend(o)
      BY <2>1 DEF Enqueue
    <2>2. ASSUME NEW i, NEW o, CancelPending(i, o) PROVE Spend(o)
      BY <2>2 DEF CancelPending
    <2>3. ASSUME NEW o, CancelRunning(o) PROVE Spend(o)
      BY <2>3 DEF CancelRunning
    <2>4. ASSUME \/ \E x \in Shots : SelectTake(x)
                 \/ \E p \in Projects, b \in BOOLEAN : SetProjectPaused(p, b)
                 \/ \E b \in BOOLEAN : SetQueuePaused(b)
          PROVE  faults' = faults /\ crashes' = crashes
      BY <2>4 DEF SelectTake, SetProjectPaused, SetQueuePaused
    <2> QED BY <1>0, <1>1, <1>3, <2>1, <2>2, <2>3, <2>4 DEF Command
  <1>4. CASE Startup
    <2>1. ASSUME NEW R, NEW end, Boot(R, end) PROVE RebuildShots(R, end)
      BY <2>1 DEF Boot
    <2>2. ASSUME NEW x, NEW j, NEW o, ResumeAudition(x, j, o) PROVE Spend(o)
      BY <2>2 DEF ResumeAudition
    <2>3. ASSUME Open PROVE faults' = faults /\ crashes' = crashes
      BY <2>3 DEF Open
    <2> QED BY <1>0, <1>1, <1>2, <1>4, <2>1, <2>2, <2>3 DEF Startup
  <1>5. CASE Crash
    BY <1>0, <1>5 DEF Crash
  <1>6. CASE Dispatch
    <2>1. ASSUME NEW i, NEW fits, NEW o, StartNext(i, fits, o) PROVE Spend(o)
      BY <2>1 DEF StartNext
    <2>2. ASSUME NEW R, NEW end, StartRebuild(R, end) PROVE RebuildShots(R, end)
      BY <2>2 DEF StartRebuild
    <2>3. ASSUME BlockRunning \/ MarkUnknown \/ \E k \in {"Prepare", "Reconcile"} : SendAgain(k)
          PROVE  faults' = faults /\ crashes' = crashes
      BY <2>3 DEF BlockRunning, MarkUnknown, SendAgain
    <2> QED BY <1>0, <1>1, <1>2, <1>6, <2>1, <2>2, <2>3 DEF Dispatch
  <1>7. ASSUME NEW j \in Jobs, HandleEvent(j) PROVE faults <= faults' /\ crashes <= crashes'
    <2>1. ASSUME NEW o, ApplyPrepared(j, o) PROVE Spend(o)
      BY <2>1 DEF ApplyPrepared
    <2>2. ASSUME NEW k, NEW o, NoteAttempt(k, j, o) PROVE Spend(o)
      BY <2>2 DEF NoteAttempt
    <2>3. ASSUME NEW k, NEW o, FailJob(k, j, o) PROVE Spend(o)
      BY <2>3 DEF FailJob
    <2>4. ASSUME NEW n, NEW same, NEW o, CompleteJob(j, n, same, o) PROVE Spend(o)
      BY <2>4 DEF CompleteJob
    <2>5. ASSUME NEW k, Discard(k, j) PROVE faults' = faults /\ crashes' = crashes
      BY <2>5 DEF Discard
    <2> QED BY <1>0, <1>1, <1>7, <2>1, <2>2, <2>3, <2>4, <2>5 DEF HandleEvent
  <1>8. CASE Executor
    BY <1>0, <1>8 DEF Executor, ExPrepare, ExSubmit, ExWatch
  <1>9. CASE Backend
    BY <1>0, <1>9 DEF Backend, BackendStarts, BackendEnds
  <1> QED BY <1>3, <1>4, <1>5, <1>6, <1>7, <1>8, <1>9 DEF Next, MainLoop

\* A step without a failing write keeps a clean state in agreement.
LEMMA HealthyNext ==
    ASSUME Clean, faults' = 0, Next
    PROVE  Healthy'
  <1>1. CASE Command
    BY <1>1, EnqueueHealthy, AsideHealthy, CancelPendingHealthy, CancelRunningHealthy DEF Command
  <1>2. CASE Startup
    BY <1>2, BootHealthy, ResumeAuditionHealthy, OpenCrashHealthy DEF Startup
  <1>3. CASE Crash
    BY <1>3, OpenCrashHealthy
  <1>4. CASE Dispatch
    <2>1. ASSUME NEW i \in DOMAIN w.pending, NEW fits \in Contexts, NEW n \in {3, 4},
                 NEW o \in Outcomes(n), StartNext(i, fits, o)
          PROVE  Healthy'
      BY <2>1, StartNextHealthy
    <2> QED BY <1>4, <2>1, NoRebuild, ResumedHealthy DEF Dispatch
  <1>5. ASSUME NEW j \in Jobs, HandleEvent(j) PROVE Healthy'
    BY <1>5, ApplyPreparedHealthy, NoteAttemptHealthy, FailJobHealthy, CompleteJobHealthy,
       DiscardHealthy DEF HandleEvent
  <1>6. CASE Executor
    BY <1>6, ExecutorHealthy
  <1>7. CASE Backend
    BY <1>7, BackendHealthy
  <1> QED BY <1>1, <1>2, <1>3, <1>4, <1>5, <1>6, <1>7 DEF Next, MainLoop

\* What the invariant is made of, over the whole state.
LEMMA QInvInit == Init => QInv
  <1> SUFFICES ASSUME Init PROVE QInv
    OBVIOUS
  <1>1. Inv /\ OverInv(w, job)
    BY InitInv, OverInit
  <1>2. /\ w = Lost
        /\ \A j \in Jobs : job[j].state = "Absent" /\ backend[j] = "none"
        /\ \A s \in Shots : shot[s].active = NoJob /\ shot[s].stage = "Pending"
    BY DEF Init
  <1>3. FilesInv(job, shot, takeFiles)
    BY <1>2 DEF FilesInv, PointsAtItsJob, HeldIsPointedAt, TakesKept, OneHolds, Holding,
                StagesShown, Held
  <1>4. QueueInv(w, job, shot) /\ WorkInv(w, job, backend)
    BY <1>2, LostHealthy
  <1>5. BackendInv(job, submissions, backend)
    BY <1>2 DEF BackendInv, Unfinished
  <1> QED BY <1>1, <1>3, <1>4, <1>5 DEF QInv, Healthy

\* The invariant is inductive.
LEMMA QInvNext == QInv /\ [Next]_vars => QInv'
  <1> SUFFICES ASSUME QInv, [Next]_vars PROVE QInv'
    OBVIOUS
  <1>1. CASE Next
    <2>1. Inv' /\ OverInv(w', job')
      BY <1>1, NextInv, OverNext DEF QInv
    <2>2. ASSUME faults' = 0 PROVE Healthy'
      <3>1. faults = 0
        <4>1. faults <= faults' /\ faults \in Nat
          BY <1>1, CountsGrow DEF QInv, Inv, TypeOK
        <4> QED BY <4>1, <2>2
      <3> QED BY <1>1, <2>2, <3>1, HealthyNext DEF QInv, Clean
    <2> QED BY <2>1, <2>2 DEF QInv
  <1>2. CASE UNCHANGED vars
    <2>1. Inv'
      BY NextInv DEF QInv
    <2>2. /\ job' = job /\ shot' = shot /\ takeFiles' = takeFiles /\ w' = w
          /\ backend' = backend /\ submissions' = submissions /\ faults' = faults
      BY <1>2 DEF vars
    <2> QED BY <2>1, <2>2 DEF QInv, Healthy
  <1> QED BY <1>1, <1>2

\* So it always holds.
LEMMA QInvariance == Spec => []QInv
  BY QInvInit, QInvNext, PTL DEF Spec

\* As long as no write has failed, and whatever crashes came between two
\* writes of a handler, the queue of a serving worker holds exactly the active
\* jobs of the shots, each once and none of them ended
\* (rebuild_queue_from_projects, enqueue_shot, complete_job).
THEOREM QueueMatches == Spec => [](faults = 0 => QueueMatchesShots)
  <1>1. QInv => (faults = 0 => QueueMatchesShots)
    <2> SUFFICES ASSUME QInv, faults = 0, Serving PROVE
          /\ Entries = {shot[s].active : s \in Shots} \ {NoJob}
          /\ Len(w.pending) = Cardinality(Entries \ {w.running})
          /\ \A j \in Entries : job[j].state \in {"Queued", "Active", "Blocked"}
      BY DEF QueueMatchesShots
    <2> DEFINE l == Len(w.pending)
               T == {w.pending[i] : i \in 1..l}
    <2>1. Clean /\ w.phase # "down"
      BY DEF QInv, Clean, Serving
    <2>2. /\ w \in Memory /\ l \in Nat /\ DOMAIN w.pending = 1..l
          /\ w.running # NoJob =>
                /\ w.running \in Jobs /\ job[w.running].state \in Held
                /\ job[w.running].shot \in Shots
                /\ shot[job[w.running].shot].active = w.running
          /\ \A i \in 1..l :
                /\ w.pending[i] \in Jobs /\ job[w.pending[i]].state = "Queued"
                /\ job[w.pending[i]].shot \in Shots
                /\ shot[job[w.pending[i]].shot].active = w.pending[i]
      <3>1. w \in Memory
        BY <2>1, CleanFacts
      <3>2. l \in Nat /\ DOMAIN w.pending = 1..l
        BY <3>1, PendingJobs DEF Memory
      <3>3. \A i \in 1..l :
                /\ w.pending[i] \in Jobs /\ job[w.pending[i]].state = "Queued"
                /\ job[w.pending[i]].shot \in Shots
                /\ shot[job[w.pending[i]].shot].active = w.pending[i]
        BY <2>1, CleanFacts
      <3>4. w.running # NoJob =>
                /\ w.running \in Jobs /\ job[w.running].state \in Held
                /\ job[w.running].shot \in Shots
                /\ shot[job[w.running].shot].active = w.running
        BY <2>1, CleanFacts
      <3> QED BY <3>1, <3>2, <3>3, <3>4
    <2>3. Entries = T \cup ({w.running} \ {NoJob})
      BY <2>2 DEF Entries
    <2>4. \A i \in 1..l : w.pending[i] # w.running /\ w.pending[i] # NoJob
      BY <2>2 DEF Held, Jobs, NoJob
    <2>5. ASSUME NEW s \in Shots, shot[s].active # NoJob
          PROVE  shot[s].active \in T \cup {w.running}
      BY <2>1, <2>5 DEF Clean, Healthy, QueueInv, Awaited
    <2>6. Entries = {shot[s].active : s \in Shots} \ {NoJob}
      <3>1. ASSUME NEW j \in Entries
            PROVE  j \in {shot[s].active : s \in Shots} \ {NoJob}
        <4>1. j \in T \/ (j = w.running /\ w.running # NoJob)
          BY <2>3
        <4>2. \E s \in Shots : shot[s].active = j
          BY <2>2, <4>1
        <4>3. j # NoJob
          BY <2>4, <4>1
        <4> QED BY <4>2, <4>3
      <3>2. ASSUME NEW s \in Shots, shot[s].active # NoJob
            PROVE  shot[s].active \in Entries
        BY <2>3, <2>5, <3>2
      <3> HIDE DEF Entries
      <3> QED BY <3>1, <3>2
    <2>7. \A j \in Entries : job[j].state \in {"Queued", "Active", "Blocked"}
      BY <2>2, <2>3 DEF Held
    <2>8. Entries \ {w.running} = T
      BY <2>3, <2>4
    <2>9. l = Cardinality(T)
      <3> DEFINE f == [i \in 1..l |-> w.pending[i]]
      <3>1. \A i, k \in 1..l : w.pending[i] = w.pending[k] => i = k
        BY <2>1 DEF Clean, Healthy, QueueInv
      <3>2. f \in Bijection(1..l, T)
        BY <3>1 DEF Bijection, Injection, Surjection, IsInjective
      <3>3. IsFiniteSet(1..l) /\ Cardinality(1..l) = l
        BY <2>2, FS_Interval
      <3>4. ExistsBijection(1..l, T)
        BY <3>2 DEF ExistsBijection
      <3> QED BY <3>3, <3>4, FS_Bijection
    <2> QED BY <2>6, <2>7, <2>8, <2>9
  <1> QED BY <1>1, QInvariance, PTL

\* As long as no write has failed, a completed job's take is saved, and it is
\* a candidate of its shot or recovery will register it (complete_job,
\* recover_terminal_jobs).
THEOREM TakesSurvive == Spec => [](faults = 0 => NoLostTake)
  <1>1. QInv => (faults = 0 => NoLostTake)
    BY DEF QInv, Healthy, FilesInv, TakesKept, NoLostTake
  <1> QED BY <1>1, QInvariance, PTL

\* As long as no write has failed, a shot is shown as queued or generating
\* exactly while it has a job.
THEOREM StagesMatch == Spec => [](faults = 0 => StageMatchesWork)
  <1>1. QInv => (faults = 0 => StageMatchesWork)
    BY DEF QInv, Healthy, FilesInv, StagesShown, StageMatchesWork
  <1> QED BY <1>1, QInvariance, PTL

\* As long as no write has failed, at most one of the unfinished prompts
\* belongs to a job that was not cancelled, restarts included: the worker
\* sends no job beside one that is still wanted (start_next_if_idle, submit).
THEOREM OneWanted == Spec => [](faults = 0 => OnePromptWanted)
  <1>1. QInv => (faults = 0 => OnePromptWanted)
    BY DEF QInv, Healthy, BackendInv, FilesInv, OneHolds, Holding, OnceSent, Held, OnePromptWanted
  <1> QED BY <1>1, QInvariance, PTL

-----------------------------------------------------------------------------
(* What has ended *)

\* The dispatcher may start job j.
IsNext(j) ==
    /\ Serving /\ w.running = NoJob
    /\ \E k \in DOMAIN w.pending : w.pending[k] = j /\ FirstEligible(k)

\* How a job file is written: a new job is journalled, a queued one starts in
\* its turn or is cancelled, and the running one, which has not ended, goes on
\* or ends. It completes when the backend has its output.
JobStep(j) ==
    \/ job'[j] = job[j]
    \/ /\ j \in Fresh
       /\ job'[j].state \in {"Queued", "Removed"} /\ job'[j].shot \in Shots
    \/ /\ job[j].state = "Queued"
       /\ job'[j].state \in {"Active", "Blocked", "Cancelled"} /\ job'[j].shot = job[j].shot
       /\ job'[j].state # "Cancelled" => IsNext(j)
    \/ /\ job[j].state \in Held
       /\ job'[j].state \in Held \cup Terminal /\ job'[j].shot = job[j].shot
       /\ job'[j].state = "Completed" => backend[j] = "done"

\* A new job's file is written, and may be removed again.
LEMMA JournaledStep ==
    ASSUME NEW jf, DOMAIN jf = Jobs, NEW o, NEW b, NEW n \in Jobs, NEW s \in Shots, NEW k,
           NEW j \in Jobs
    PROVE  \/ Journaled(jf, o, b, n, s, k)[j] = jf[j]
           \/ /\ j = n /\ Journaled(jf, o, b, n, s, k)[j].state \in {"Queued", "Removed"}
              /\ Journaled(jf, o, b, n, s, k)[j].shot = s
  <1>1. CASE n = j
    BY <1>1 DEF Journaled, QueuedJob
  <1>2. CASE n # j
    BY <1>2 DEF Journaled
  <1> QED BY <1>1, <1>2

\* The running job's file is written.
LEMMA RunningStep ==
    ASSUME Clean, w.phase # "down", NEW i \in Jobs, i = w.running, NEW st, NEW at, NEW b,
           st \in Held \cup Terminal, st = "Completed" => backend[i] = "done",
           \/ job' = [job EXCEPT ![i].state = st]
           \/ job' = [job EXCEPT ![i].attempt = at]
           \/ job' = [job EXCEPT ![i].state = st, ![i].attempt = at]
           \/ job' = [job EXCEPT ![i].attempt = at, ![i].state = st]
           \/ job' = [job EXCEPT ![i].attempt = at, ![i].backendId = b],
           NEW j \in Jobs
    PROVE  JobStep(j)
  <1>1. job[i].state \in Held /\ job \in JobFiles
    BY CleanFacts DEF Jobs, NoJob
  <1>2. j # i => job'[j] = job[j]
    BY <1>1 DEF JobFiles
  <1>3. job'[i].state \in {st, job[i].state} /\ job'[i].shot = job[i].shot
    BY <1>1 DEF JobFiles, JobJournal
  <1>4. job[i].state # "Completed"
    BY <1>1 DEF Held
  <1> QED BY <1>1, <1>2, <1>3, <1>4 DEF JobStep

\* The commands.
LEMMA CommandSteps ==
    ASSUME Clean, Command, NEW j \in Jobs
    PROVE  JobStep(j)
  <1>0. job \in JobFiles /\ DOMAIN job = Jobs
    BY CleanFacts DEF JobFiles
  <1>1. ASSUME NEW s \in Shots, NEW k, NEW t, NEW n \in Fresh, NEW o, Enqueue(s, k, t, n, o)
        PROVE  JobStep(j)
    <2>1. n \in Jobs /\ job[n].state = "Absent" /\ job' = Journaled(job, o, 0, n, s, k)
      BY <1>1 DEF Enqueue, Fresh
    <2> QED BY <1>0, <2>1, JournaledStep DEF JobStep
  <1>2. ASSUME NEW i, NEW o, CancelPending(i, o) PROVE JobStep(j)
    <2> DEFINE n == w.pending[i]
    <2>1. /\ job[n].state = "Queued"
          /\ job' = job \/ job' = [job EXCEPT ![n].state = "Cancelled"]
      BY <1>2 DEF CancelPending
    <2> HIDE DEF n
    <2>2. n # j => job'[j] = job[j]
      BY <1>0, <2>1 DEF JobFiles
    <2>3. n = j => \/ job'[j] = job[j]
                   \/ job'[j].state = "Cancelled" /\ job'[j].shot = job[j].shot
      BY <1>0, <2>1 DEF JobFiles, JobJournal
    <2> QED BY <2>1, <2>2, <2>3 DEF JobStep
  <1>3. ASSUME NEW o, CancelRunning(o) PROVE JobStep(j)
    <2>1. /\ w.phase # "down" /\ w.running \in Jobs
          /\ \/ job' = job
             \/ job' = [job EXCEPT ![w.running].state = "Cancelled", ![w.running].attempt = "Cancelled"]
      BY <1>3, CleanFacts DEF CancelRunning, Serving
    <2> QED BY <2>1, RunningStep DEF JobStep, Terminal
  <1>4. ASSUME NEW s, SelectTake(s) PROVE job' = job
    BY <1>4 DEF SelectTake
  <1>5. ASSUME NEW b, SetQueuePaused(b) \/ \E p \in Projects : SetProjectPaused(p, b)
        PROVE  job' = job
    BY <1>5 DEF SetQueuePaused, SetProjectPaused
  <1> QED BY <1>1, <1>2, <1>3, <1>4, <1>5 DEF Command, JobStep

\* Startup and crash.
LEMMA StartupSteps ==
    ASSUME Clean, Startup \/ Crash, NEW j \in Jobs
    PROVE  JobStep(j)
  <1>0. job \in JobFiles /\ DOMAIN job = Jobs
    BY CleanFacts DEF JobFiles
  <1>1. ASSUME NEW s \in Shots, NEW n \in Fresh, NEW o, ResumeAudition(s, n, o)
        PROVE  JobStep(j)
    <2>1. n \in Jobs /\ job[n].state = "Absent" /\ job' = Journaled(job, o, 0, n, s, "audition")
      BY <1>1 DEF ResumeAudition, Fresh
    <2> QED BY <1>0, <2>1, JournaledStep DEF JobStep
  <1>2. ASSUME NEW R, NEW end, Boot(R, end) PROVE job' = job
    BY <1>2 DEF Boot, RebuildShots
  <1>3. ASSUME Open \/ Crash PROVE job' = job
    BY <1>3 DEF Open, Crash
  <1> QED BY <1>1, <1>2, <1>3 DEF Startup, JobStep

\* Dispatch.
LEMMA DispatchSteps ==
    ASSUME Clean, Dispatch, NEW j \in Jobs
    PROVE  JobStep(j)
  <1>0. job \in JobFiles
    BY CleanFacts
  <1>1. ASSUME NEW i \in DOMAIN w.pending, NEW fits, NEW o, StartNext(i, fits, o)
        PROVE  JobStep(j)
    <2> DEFINE n == w.pending[i]
    <2>1. /\ job[n].state = "Queued" /\ IsNext(n)
          /\ \/ job' = job
             \/ \E st \in {"Blocked", "Active"} :
                  job' = [job EXCEPT ![n].state = st, ![n].attempt = "Prepared"]
      BY <1>1 DEF StartNext, MayDispatch, IsNext
    <2> HIDE DEF n
    <2>2. n # j => job'[j] = job[j]
      BY <1>0, <2>1 DEF JobFiles
    <2>3. n = j => \/ job'[j] = job[j]
                   \/ job'[j].state \in {"Active", "Blocked"} /\ job'[j].shot = job[j].shot
      BY <1>0, <2>1 DEF JobFiles, JobJournal
    <2> QED BY <2>1, <2>2, <2>3 DEF JobStep
  <1>2. CASE BlockRunning \/ MarkUnknown
    <2>1. w.phase # "down" /\ w.running \in Jobs
      BY <1>2, CleanFacts DEF BlockRunning, MarkUnknown, Resumable, MayDispatch, Serving
    <2>2. \/ job' = [job EXCEPT ![w.running].state = "Blocked"]
          \/ job' = [job EXCEPT ![w.running].state = "Blocked",
                                ![w.running].attempt = "SubmissionUnknown"]
      BY <1>2 DEF BlockRunning, MarkUnknown
    <2> QED BY <2>1, <2>2, RunningStep DEF Held
  <1>3. ASSUME NEW R, NEW end, StartRebuild(R, end) PROVE job' = job
    BY <1>3 DEF StartRebuild, RebuildShots
  <1>4. ASSUME NEW k, SendAgain(k) PROVE job' = job
    BY <1>4 DEF SendAgain
  <1> QED BY <1>1, <1>2, <1>3, <1>4 DEF Dispatch, JobStep

\* The executor's events.
LEMMA EventSteps ==
    ASSUME Clean, NEW i \in Jobs, HandleEvent(i), NEW j \in Jobs
    PROVE  JobStep(j)
  <1>0. job \in JobFiles
    BY CleanFacts
  <1>1. ASSUME NEW k, Current(k, i) PROVE w.phase # "down" /\ i = w.running
    BY <1>1 DEF Current, Received, Serving
  <1>2. ASSUME NEW o, ApplyPrepared(i, o) PROVE JobStep(j)
    <2>1. w.phase # "down" /\ i = w.running
      BY <1>2, ReceivedFacts DEF ApplyPrepared
    <2>2. job' = job \/ job' = [job EXCEPT ![i].attempt = "Submitting"]
      BY <1>2 DEF ApplyPrepared
    <2>3. "Active" \in Held \cup Terminal
      BY DEF Held
    <2> QED BY <2>1, <2>2, <2>3, RunningStep DEF JobStep
  <1>3. ASSUME NEW k \in {"Submitted", "SubmissionUnknown", "MonitorRetry"}, NEW o,
               NoteAttempt(k, i, o)
        PROVE JobStep(j)
    <2>1. w.phase # "down" /\ i = w.running
      BY <1>1, <1>3 DEF NoteAttempt
    <2>2. \/ job' = job
          \/ job' = [job EXCEPT ![i].attempt = k, ![i].backendId = TRUE]
          \/ job' = [job EXCEPT ![i].attempt = k, ![i].state = "Blocked"]
          \/ job' = [job EXCEPT ![i].attempt = "Running"]
      BY <1>3 DEF NoteAttempt
    <2>3. "Blocked" \in Held \cup Terminal
      BY DEF Held
    <2>4. CASE job' = job
      BY <2>4 DEF JobStep
    <2>5. CASE job' = [job EXCEPT ![i].attempt = k, ![i].backendId = TRUE]
      BY <2>1, <2>3, <2>5, RunningStep
    <2>6. CASE job' = [job EXCEPT ![i].attempt = k, ![i].state = "Blocked"]
      BY <2>1, <2>3, <2>6, RunningStep
    <2>7. CASE job' = [job EXCEPT ![i].attempt = "Running"]
      BY <2>1, <2>3, <2>7, RunningStep
    <2> QED BY <2>2, <2>4, <2>5, <2>6, <2>7
  <1>4. ASSUME NEW k, NEW o, FailJob(k, i, o) PROVE JobStep(j)
    <2>1. w.phase # "down" /\ i = w.running
      BY <1>1, <1>4 DEF FailJob
    <2>2. \/ job' = job
          \/ job' = [job EXCEPT ![i].state = "Failed", ![i].attempt = FailureOf[k]]
      BY <1>4 DEF FailJob
    <2>3. "Failed" \in Held \cup Terminal
      BY DEF Terminal
    <2> QED BY <2>1, <2>2, <2>3, RunningStep DEF JobStep
  <1>5. ASSUME NEW n \in Fresh \cup {NoJob}, NEW same, NEW m \in {4, 6}, NEW o \in Outcomes(m),
               CompleteJob(i, n, same, o)
        PROVE JobStep(j)
    <2> DEFINE done == [job EXCEPT ![i].state = "Completed", ![i].attempt = "Completed"]
    <2>1. /\ i = w.running /\ backend[i] = "done"
          /\ job[i].state \in Held /\ job[i].shot \in Shots
      BY <1>1, <1>5, ReceivedFacts, CleanFacts DEF CompleteJob, Current, Jobs, NoJob
    <2>2. /\ DOMAIN done = Jobs /\ (i # j => done[j] = job[j])
          /\ done[i].state = "Completed" /\ done[i].shot = job[i].shot
      BY <1>0 DEF JobFiles, JobJournal
    <2>3. job' = job \/ job' = Journaled(done, o, 4, n, job[i].shot, "audition")
      BY <1>5 DEF CompleteJob
    <2>4. n \in Fresh \/ job' = job \/ job' = done
      <3> SUFFICES ASSUME n \notin Fresh PROVE job' = job \/ job' = done
        OBVIOUS
      <3>1. o \in Outcomes(4)
        BY <1>5 DEF CompleteJob
      <3>2. o.done <= 4
        BY <3>1 DEF Outcomes
      <3>3. o.done <= 4 => Journaled(done, o, 4, n, job[i].shot, "audition") = done
        BY DEF Journaled
      <3> HIDE DEF done
      <3> QED BY <2>3, <3>2, <3>3
    <2>5. n \in Fresh => n \in Jobs /\ job[n].state = "Absent" /\ n # i
      BY <2>1 DEF Fresh, Held
    <2> HIDE DEF done
    <2>6. JobStep(j) \/ job'[j] = done[j]
      BY <2>1, <2>2, <2>3, <2>4, <2>5, JournaledStep DEF JobStep
    <2> QED BY <2>1, <2>2, <2>6 DEF JobStep, Terminal
  <1>6. ASSUME NEW k, Discard(k, i) PROVE job' = job
    BY <1>6 DEF Discard
  <1> QED BY <1>2, <1>3, <1>4, <1>5, <1>6 DEF HandleEvent, JobStep

\* Every step.
LEMMA JobSteps ==
    ASSUME Clean, Next, NEW j \in Jobs
    PROVE  JobStep(j)
  <1>1. CASE Executor \/ Backend
    BY <1>1 DEF Executor, ExPrepare, ExSubmit, ExWatch, Backend, BackendStarts, BackendEnds, JobStep
  <1> QED BY <1>1, CommandSteps, StartupSteps, DispatchSteps, EventSteps DEF Next, MainLoop

\* A step that writes the file of an ended job writes that of the running
\* entry: it blocks the job, or ends one that was cancelled.
LEMMA EndedStep ==
    ASSUME Inv, OverInv(w, job), Next, NEW j \in Jobs,
           job[j].state \in Terminal, job'[j].state # job[j].state
    PROVE  w.running = j /\ (job[j].state = "Cancelled" \/ job'[j].state = "Blocked")
  <1>0. /\ w \in Memory /\ job \in JobFiles /\ DOMAIN job = Jobs
        /\ job[j].state \notin {"Absent", "Removed", "Queued", "Active", "Blocked"}
        /\ \A n \in Fresh : n # j
        /\ Over(job, j) \/ job[j].state = "Cancelled"
        /\ \A i \in Jobs : Fits(job[i])
    BY DEF Inv, TypeOK, JobFiles, OverInv, Fits, Over, Fresh, Terminal
  <1>1. CASE Command
    <2>1. ASSUME NEW s, NEW k, NEW t, NEW n \in Fresh, NEW o, Enqueue(s, k, t, n, o)
          PROVE  job'[j] = job[j]
      BY <1>0, <2>1, JournaledOther DEF Enqueue, Fresh
    <2>2. ASSUME NEW i, NEW o, CancelPending(i, o) PROVE job'[j] = job[j]
      BY <1>0, <2>2 DEF CancelPending, JobFiles
    <2>3. ASSUME NEW o, CancelRunning(o) PROVE job'[j] = job[j]
      BY <1>0, <2>3 DEF CancelRunning, JobFiles
    <2>4. ASSUME NEW s, SelectTake(s) PROVE job' = job
      BY <2>4 DEF SelectTake
    <2>5. ASSUME NEW b, SetQueuePaused(b) \/ \E p \in Projects : SetProjectPaused(p, b)
          PROVE  job' = job
      BY <2>5 DEF SetQueuePaused, SetProjectPaused
    <2> QED BY <1>1, <2>1, <2>2, <2>3, <2>4, <2>5 DEF Command
  <1>2. CASE Startup \/ Crash
    <2>1. ASSUME NEW s, NEW n \in Fresh, NEW o, ResumeAudition(s, n, o)
          PROVE  job'[j] = job[j]
      BY <1>0, <2>1, JournaledOther DEF ResumeAudition, Fresh
    <2> QED BY <1>2, <2>1 DEF Startup, Crash, Boot, Open, RebuildShots
  <1>3. CASE Dispatch
    <2>1. ASSUME NEW i, NEW fits, NEW o, StartNext(i, fits, o) PROVE job'[j] = job[j]
      BY <1>0, <2>1 DEF StartNext, JobFiles
    <2>2. ASSUME BlockRunning \/ MarkUnknown
          PROVE  w.running = j /\ job'[j].state = "Blocked"
      <3>1. w.running \in Jobs
        BY <2>2, ResumableFacts DEF BlockRunning, MarkUnknown
      <3>2. \A i \in Jobs : i # w.running => job'[i] = job[i]
        BY <1>0, <2>2 DEF BlockRunning, MarkUnknown, JobFiles
      <3>3. job'[w.running].state = "Blocked"
        BY <1>0, <2>2, <3>1 DEF BlockRunning, MarkUnknown, JobFiles, JobJournal
      <3> QED BY <3>2, <3>3
    <2>3. ASSUME NEW R, NEW end, StartRebuild(R, end) PROVE job' = job
      BY <2>3 DEF StartRebuild, RebuildShots
    <2>4. ASSUME NEW k, SendAgain(k) PROVE job' = job
      BY <2>4 DEF SendAgain
    <2> QED BY <1>3, <2>1, <2>2, <2>3, <2>4 DEF Dispatch
  <1>4. ASSUME NEW i \in Jobs, HandleEvent(i)
        PROVE  w.running = j /\ (job[j].state = "Cancelled" \/ job'[j].state = "Blocked")
    <2>1. ASSUME NEW k, Current(k, i)
          PROVE  w.running = i /\ (i = j => job[j].state = "Cancelled")
      BY <1>0, <2>1, HandledOver DEF Current
    <2>2. ASSUME NEW o, ApplyPrepared(i, o) PROVE job'[j].state = job[j].state
      BY <1>0, <2>2 DEF ApplyPrepared, JobFiles, JobJournal
    <2>3. ASSUME NEW k \in {"Submitted", "SubmissionUnknown", "MonitorRetry"}, NEW o,
                 NoteAttempt(k, i, o)
          PROVE  Current(k, i) /\ (i = j \/ job'[j] = job[j])
      BY <1>0, <2>3 DEF NoteAttempt, JobFiles
    <2>4. ASSUME NEW k, NEW o, FailJob(k, i, o)
          PROVE  Current(k, i) /\ (i = j \/ job'[j] = job[j])
      BY <1>0, <2>4 DEF FailJob, JobFiles
    <2>5. ASSUME NEW n \in Fresh \cup {NoJob}, NEW same, NEW o, CompleteJob(i, n, same, o)
          PROVE  Current("Completed", i) /\ (i = j \/ job'[j] = job[j])
      <3> DEFINE done == [job EXCEPT ![i].state = "Completed", ![i].attempt = "Completed"]
      <3>1. n # j /\ DOMAIN done = Jobs /\ (i # j => done[j] = job[j])
        BY <1>0 DEF NoJob, Jobs, JobFiles
      <3>2. job' = job \/ job' = Journaled(done, o, 4, n, job[i].shot, "audition")
        BY <2>5 DEF CompleteJob
      <3> HIDE DEF done
      <3>3. \A s, k : Journaled(done, o, 4, n, s, k)[j] = done[j]
        BY <3>1 DEF Journaled
      <3>4. Current("Completed", i)
        BY <2>5 DEF CompleteJob
      <3> QED BY <3>1, <3>2, <3>3, <3>4
    <2>6. ASSUME NEW k, Discard(k, i) PROVE job' = job
      BY <2>6 DEF Discard
    <2> QED BY <1>4, <2>1, <2>2, <2>3, <2>4, <2>5, <2>6 DEF HandleEvent
  <1>5. CASE Executor \/ Backend
    BY <1>5 DEF Executor, ExPrepare, ExSubmit, ExWatch, Backend, BackendStarts, BackendEnds
  <1> QED BY <1>1, <1>2, <1>3, <1>4, <1>5 DEF Next, MainLoop

\* A job that has ended stays as it ended, whatever crashes and failing writes
\* come: no late event and no recovery brings it back.  Only a failing write
\* undoes an end, only that of the running entry, which it then blocks or, when
\* it was cancelled, ends again (complete_job, fail_job, cancel_job,
\* block_dispatch, recover_terminal_jobs).
THEOREM EndedStays == Spec => TerminalStays
  <1>1. QInv /\ [Next]_vars =>
          [\A j \in Jobs : job[j].state \in Terminal /\ job'[j].state # job[j].state =>
              /\ faults > 0 /\ w.running = j
              /\ job[j].state = "Cancelled" \/ job'[j].state = "Blocked"]_vars
    <2> SUFFICES ASSUME QInv, Next, NEW j \in Jobs,
                        job[j].state \in Terminal, job'[j].state # job[j].state
                 PROVE  /\ faults > 0 /\ w.running = j
                        /\ job[j].state = "Cancelled" \/ job'[j].state = "Blocked"
      OBVIOUS
    <2>1. faults # 0
      <3> SUFFICES ASSUME faults = 0 PROVE FALSE
        OBVIOUS
      <3>1. Clean
        BY DEF QInv, Clean
      <3>2. JobStep(j) /\ job[j].state \notin {"Absent", "Queued"} \cup Held
        BY <3>1, JobSteps DEF Terminal, Held
      <3> QED BY <3>2 DEF JobStep, Fresh
    <2>2. faults \in Nat
      BY DEF QInv, Inv, TypeOK
    <2> QED BY <2>1, <2>2, EndedStep DEF QInv
  <1> QED BY <1>1, QInvariance, PTL DEF Spec, TerminalStays

\* Only the executor, ComfyUI itself and the cancellation of the running job
\* reach what ComfyUI has.
LEMMA BackendMoves ==
    ASSUME Next
    PROVE  \/ backend' = backend /\ submissions' = submissions
           \/ Executor \/ Backend
           \/ \E o \in Outcomes(3) : CancelRunning(o)
  <1> DEFINE Idle == backend' = backend /\ submissions' = submissions
  <1>1. ASSUME Command PROVE Idle \/ \E o \in Outcomes(3) : CancelRunning(o)
    <2>1. ASSUME NEW s, NEW k, NEW t, NEW i, NEW o, Enqueue(s, k, t, i, o) PROVE Idle
      BY <2>1 DEF Enqueue
    <2>2. ASSUME NEW i, NEW o, CancelPending(i, o) PROVE Idle
      BY <2>2 DEF CancelPending
    <2>3. ASSUME NEW x, NEW b, SetProjectPaused(x, b) PROVE Idle
      BY <2>3 DEF SetProjectPaused
    <2>4. ASSUME NEW b, SetQueuePaused(b) PROVE Idle
      BY <2>4 DEF SetQueuePaused
    <2>5. ASSUME NEW s, SelectTake(s) PROVE Idle
      BY <2>5 DEF SelectTake
    <2> HIDE DEF Idle
    <2> QED BY <1>1, <2>1, <2>2, <2>3, <2>4, <2>5 DEF Command
  <1>2. ASSUME Startup \/ Crash PROVE Idle
    <2>1. ASSUME NEW R, NEW end, Boot(R, end) PROVE Idle
      BY <2>1 DEF Boot, RebuildShots
    <2>2. ASSUME NEW s, NEW i, NEW o, ResumeAudition(s, i, o) PROVE Idle
      BY <2>2 DEF ResumeAudition
    <2>3. ASSUME Open \/ Crash PROVE Idle
      BY <2>3 DEF Open, Crash
    <2> HIDE DEF Idle
    <2> QED BY <1>2, <2>1, <2>2, <2>3 DEF Startup
  <1>3. ASSUME Dispatch PROVE Idle
    <2>1. ASSUME NEW i, NEW fits, NEW o, StartNext(i, fits, o) PROVE Idle
      BY <2>1 DEF StartNext
    <2>2. ASSUME NEW R, NEW end, StartRebuild(R, end) PROVE Idle
      BY <2>2 DEF StartRebuild, RebuildShots
    <2>3. ASSUME NEW k, SendAgain(k) PROVE Idle
      BY <2>3 DEF SendAgain
    <2>4. ASSUME BlockRunning \/ MarkUnknown PROVE Idle
      BY <2>4 DEF BlockRunning, MarkUnknown
    <2> HIDE DEF Idle
    <2> QED BY <1>3, <2>1, <2>2, <2>3, <2>4 DEF Dispatch
  <1>4. ASSUME NEW i \in Jobs, HandleEvent(i) PROVE Idle
    BY <1>4 DEF HandleEvent, ApplyPrepared, NoteAttempt, FailJob, CompleteJob, Discard
  <1> QED BY <1>1, <1>2, <1>3, <1>4 DEF Next, MainLoop

\* In a run in which no write fails, a cancellation stops the prompt of no other
\* job that is wanted, though the interrupt is global (interrupt_backend, cancel):
\* one job at a time has been sent and is not cancelled.
THEOREM OthersAreSpared == Spec /\ [](faults = 0) => InterruptSparesOthers
  <1> DEFINE Cancels(i) == job[i].state = "Active" /\ job'[i].state = "Cancelled"
  <1>1. ASSUME Clean, Next, NEW i \in Jobs, NEW j \in Jobs, i # j, Cancels(i),
               job[j].state # "Cancelled"
        PROVE  backend'[j] = backend[j]
    <2>1. CASE Executor \/ Backend
      <3>1. job' = job
        BY <2>1 DEF Executor, ExPrepare, ExSubmit, ExWatch, Backend, BackendStarts, BackendEnds
      <3> QED BY <1>1, <3>1
    <2>2. CASE \E o \in Outcomes(3) : CancelRunning(o)
      <3>1. backend' = Interrupted
        BY <2>2 DEF CancelRunning
      <3>2. backend[j] # "executing"
        <4>1. backend[j] \in Unfinished => job[j].state \in Held
          BY <1>1 DEF Clean, Healthy, BackendInv, OnceSent, Held
        <4>2. job[i].state \in Held
          BY <1>1 DEF Held
        <4>3. job[j].state \notin Held
          BY <1>1, <4>2 DEF Clean, Healthy, FilesInv, OneHolds, Holding
        <4> QED BY <4>1, <4>3 DEF Unfinished
      <3> QED BY <3>1, <3>2 DEF Interrupted
    <2> QED BY <1>1, <2>1, <2>2, BackendMoves
  <1>2. QInv /\ faults = 0 /\ [Next]_vars =>
          [\A i, j \in Jobs :
             /\ i # j
             /\ job[i].state = "Active" /\ job'[i].state = "Cancelled"
             /\ job[j].state # "Cancelled"
             => backend'[j] = backend[j]]_vars
    BY <1>1 DEF QInv, Clean
  <1> QED BY <1>2, QInvariance, PTL DEF Spec, InterruptSparesOthers

-----------------------------------------------------------------------------
(* The queue implements TakeLedger, as long as no write fails *)

\* What has completed went to the backend, and what is queued is for a shot.
SentInv ==
    \A j \in Jobs : /\ job[j].state = "Completed" => submissions[j] # 0
                    /\ job[j].state = "Queued" => job[j].shot \in Shots

\* The backend's count of a job never goes down.
LEMMA SentStays ==
    ASSUME Clean, Next, NEW j \in Jobs, submissions[j] # 0
    PROVE  submissions'[j] # 0
  <1>0. submissions \in [Jobs -> Nat] /\ submissions[j] \in Nat
    BY CleanFacts
  <1>1. ASSUME NEW a, NEW b, ExSubmit(a, b) PROVE submissions'[j] # 0
    <2>1. \/ submissions' = submissions
          \/ submissions' = [submissions EXCEPT ![w.request.job] = @ + 1]
      BY <1>1 DEF ExSubmit
    <2>2. submissions'[j] \in {submissions[j], submissions[j] + 1}
      BY <1>0, <2>1
    <2> QED BY <1>0, <2>2
  <1>2. CASE Executor
    BY <1>1, <1>2 DEF Executor, ExPrepare, ExWatch
  <1>3. CASE Backend
    BY <1>3 DEF Backend, BackendStarts, BackendEnds
  <1> QED BY <1>2, <1>3, BackendMoves DEF CancelRunning

\* Only a job that was sent completes.
LEMMA SentNext ==
    ASSUME Clean, SentInv, Next
    PROVE  SentInv'
  <1> SUFFICES ASSUME NEW j \in Jobs
               PROVE  /\ job'[j].state = "Completed" => submissions'[j] # 0
                      /\ job'[j].state = "Queued" => job'[j].shot \in Shots
    BY DEF SentInv
  <1>1. JobStep(j) /\ (submissions[j] # 0 => submissions'[j] # 0)
    BY JobSteps, SentStays
  <1>2. backend[j] = "done" => submissions[j] # 0
    BY DEF Clean, Healthy, BackendInv
  <1> QED BY <1>1, <1>2 DEF SentInv, JobStep, Held, Terminal

\* So it always holds.
LEMMA SentInvariance == Spec /\ [](faults = 0) => []SentInv
  <1>1. Init => SentInv
    BY DEF Init, SentInv
  <1>2. QInv /\ faults = 0 /\ SentInv /\ [Next]_vars => SentInv'
    <2> SUFFICES ASSUME QInv, faults = 0, SentInv, [Next]_vars PROVE SentInv'
      OBVIOUS
    <2>1. CASE Next
      BY <2>1, SentNext DEF QInv, Clean
    <2>2. CASE UNCHANGED vars
      BY <2>2 DEF vars, SentInv
    <2> QED BY <2>1, <2>2
  <1> QED BY <1>1, <1>2, QInvariance, PTL DEF Spec

StatusOf == [j \in Jobs |-> Ledger(j)]
QueueStep == [TL!Next]_StatusOf

\* The step leaves job i where it stands.
Unmoved(i) ==
    /\ job'[i].shot = job[i].shot /\ submissions'[i] = submissions[i]
    /\ Stays(job, job', i)
    /\ job[i].state = "Queued" =>
         (shot'[job[i].shot].active = i <=> shot[job[i].shot].active = i)
    /\ job[i].state = "Completed" =>
         (i \in shot'[job[i].shot].takes <=> i \in shot[job[i].shot].takes)

\* A job whose file, shot and submissions say the same.
LEMMA UnmovedLedger ==
    ASSUME NEW i, Unmoved(i)
    PROVE  Ledger(i)' = Ledger(i)
  <1>1. CASE job'[i].state = job[i].state
    <2>1. job'[i].shot = job[i].shot /\ submissions'[i] = submissions[i]
      BY DEF Unmoved
    <2>2. CASE job[i].state = "Queued"
      BY <1>1, <2>1, <2>2 DEF Unmoved, Ledger, Unreadable
    <2>3. CASE job[i].state = "Completed"
      BY <1>1, <2>1, <2>3 DEF Unmoved, Ledger, Unreadable
    <2>4. CASE job[i].state \notin {"Queued", "Completed"}
      BY <1>1, <2>1, <2>4 DEF Ledger
    <2> QED BY <2>2, <2>3, <2>4
  <1>2. CASE {job[i].state, job'[i].state} \subseteq Held
    BY <1>2 DEF Unmoved, Ledger, Held, Unreadable
  <1> QED BY <1>1, <1>2 DEF Unmoved, Stays

\* No job moves.
LEMMA AllUnmoved ==
    ASSUME \A i \in Jobs : Unmoved(i)
    PROVE  QueueStep
  <1>1. \A i \in Jobs : Ledger(i)' = Ledger(i)
    BY UnmovedLedger
  <1>2. StatusOf' = StatusOf
    BY <1>1 DEF StatusOf
  <1> QED BY <1>2 DEF QueueStep

\* A job that TakeLedger takes to be at work.
LEMMA HoldsIsHolding ==
    ASSUME NEW i \in Jobs, Clean, Ledger(i) \in {"started", "sent"}
    PROVE  Holding(job, shot, i)
  <1>1. job[i].state \in JobState
    BY CleanFacts DEF JobFiles, JobJournal
  <1> QED BY <1>1 DEF Ledger, Holding, Held, JobState, Unreadable

\* What may become of one job.
Moves(a, b) ==
    \/ a = b
    \/ a = "idle" /\ b = "queued"
    \/ a = "started" /\ b = "sent"
    \/ a = "sent" /\ b = "delivered"
    \/ a \in {"queued", "started", "sent"} /\ b = "dropped"
    \/ /\ a = "queued" /\ b = "started"
       /\ \A i \in Jobs : Ledger(i) \notin {"started", "sent"}

\* One job moves in the ledger.
LEMMA OneLedgerMoves ==
    ASSUME NEW j \in Jobs, \A i \in Jobs : i # j => Ledger(i)' = Ledger(i),
           Moves(Ledger(j), Ledger(j)')
    PROVE  QueueStep
  <1> DEFINE a == Ledger(j)
             b == Ledger(j)'
  <1>1. StatusOf' = [StatusOf EXCEPT ![j] = b] /\ StatusOf[j] = a
    BY DEF StatusOf
  <1>2. Moves(a, b)
    OBVIOUS
  <1>3. ASSUME a = b PROVE StatusOf' = StatusOf
    BY <1>1, <1>3 DEF StatusOf
  <1>4. \A i \in Jobs : StatusOf[i] = Ledger(i)
    BY DEF StatusOf
  <1> HIDE DEF a, b
  <1>5. \/ StatusOf' = StatusOf
        \/ TL!Request(j) \/ TL!Start(j) \/ TL!Send(j) \/ TL!Deliver(j) \/ TL!Drop(j)
    BY <1>1, <1>2, <1>3, <1>4
       DEF Moves, TL!Request, TL!Start, TL!Send, TL!Deliver, TL!Drop, TL!Holds, StatusOf
  <1> QED BY <1>5 DEF QueueStep, TL!Next

\* One job moves, the others stay.
LEMMA OneMoves ==
    ASSUME NEW j \in Jobs, \A i \in Jobs : i # j => Unmoved(i), Moves(Ledger(j), Ledger(j)')
    PROVE  QueueStep
  BY UnmovedLedger, OneLedgerMoves

\* A job that has a shot is unmoved when its shot treats it as before.
LEMMA StandsStill ==
    ASSUME Clean, SentInv, NEW i \in Jobs,
           job'[i].shot = job[i].shot, Stays(job, job', i), submissions'[i] = submissions[i],
           job[i].state = "Queued" =>
             \A r \in Shots : shot'[r].active = i <=> shot[r].active = i,
           job[i].state = "Completed" =>
             \A r \in Shots : i \in shot'[r].takes <=> i \in shot[r].takes
    PROVE  Unmoved(i)
  <1>1. job[i].state \in {"Queued", "Completed"} => job[i].shot \in Shots
    BY DEF SentInv, Clean, Healthy, FilesInv, TakesKept
  <1> QED BY <1>1 DEF Unmoved

\* The shots show the same jobs and takes, and the jobs stay.
LEMMA ShotsStandStill ==
    ASSUME Clean, SentInv, submissions' = submissions,
           \A i \in Jobs : job'[i].shot = job[i].shot /\ Stays(job, job', i),
           \A r \in Shots : shot'[r].active = shot[r].active /\ shot'[r].takes = shot[r].takes
    PROVE  QueueStep
  <1>1. \A i \in Jobs : Unmoved(i)
    BY StandsStill
  <1> QED BY <1>1, AllUnmoved

\* A new job is requested once its shot points at it.
LEMMA JoinsStep ==
    ASSUME Clean, SentInv, faults' = 0, NEW s \in Shots, shot[s].active = NoJob,
           NEW j \in Fresh, NEW k, NEW t, NEW o \in Outcomes(2), Spend(o), Joins(s, j, k, t, o)
    PROVE  QueueStep
  <1>0. /\ job \in JobFiles /\ shot \in ShotFiles
        /\ j \in Jobs /\ job[j].state = "Absent" /\ j # NoJob
    BY CleanFacts DEF Fresh, Jobs, NoJob
  <1>1. /\ job'[j].state = "Queued" /\ job'[j].shot = s
        /\ \A i \in Jobs : i # j => job'[i] = job[i]
        /\ submissions' = submissions
    BY <1>0, CleanOutcome DEF Joins, Journaled, JobFiles, QueuedJob, Clean
  <1>2. \/ shot' = shot
        \/ shot' = [shot EXCEPT ![s] = EnqueueShot(shot[s], j, t)]
    BY DEF Joins
  <1>3. /\ \A r \in Shots : shot'[r].takes = shot[r].takes
        /\ \A r \in Shots : r # s => shot'[r] = shot[r]
        /\ shot'[s].active \in {NoJob, j}
    <2>1. CASE shot' = shot
      BY <2>1
    <2>2. CASE shot' = [shot EXCEPT ![s] = EnqueueShot(shot[s], j, t)]
      <3>1. /\ EnqueueShot(shot[s], j, t).takes = shot[s].takes
            /\ EnqueueShot(shot[s], j, t).active = j
        BY <1>0 DEF ShotFiles, ShotRuntime, EnqueueShot
      <3> QED BY <1>0, <2>2, <3>1 DEF ShotFiles
    <2> QED BY <1>2, <2>1, <2>2
  <1>4. ASSUME NEW i \in Jobs, i # j PROVE Unmoved(i)
    <2>1. i # NoJob
      BY DEF Jobs, NoJob
    <2>2. \A r \in Shots : shot'[r].active = i <=> shot[r].active = i
      BY <1>3, <1>4, <2>1
    <2> QED BY <1>1, <1>3, <1>4, <2>2, StandsStill DEF Stays
  <1>5. Ledger(j) = "idle"
    BY <1>0 DEF Ledger, Unreadable
  <1>6. Ledger(j)' \in {"idle", "queued"}
    BY <1>1 DEF Ledger, Unreadable
  <1> QED BY <1>0, <1>4, <1>5, <1>6, OneMoves DEF Moves

\* What a shot that gives its job up keeps.
LEMMA DropShot ==
    ASSUME shot \in ShotFiles, NEW s \in Shots, NEW j, shot[s].active = j,
           \/ shot' = shot
           \/ shot' = [shot EXCEPT ![s] = CancelShot(shot[s])]
           \/ shot' = [shot EXCEPT ![s] = FailShot(shot[s])]
    PROVE  /\ shot'[s].takes = shot[s].takes /\ shot'[s].active \in {NoJob, j}
           /\ \A r \in Shots : r # s => shot'[r] = shot[r]
  <1>1. /\ CancelShot(shot[s]).takes = shot[s].takes /\ CancelShot(shot[s]).active = NoJob
        /\ FailShot(shot[s]).takes = shot[s].takes /\ FailShot(shot[s]).active = NoJob
    BY DEF ShotFiles, ShotRuntime, CancelShot, FailShot
  <1> QED BY <1>1 DEF ShotFiles

\* A job whose shot points at it is dropped: it is cancelled or it failed.
LEMMA DroppedStep ==
    ASSUME Clean, SentInv, NEW j \in Jobs, NEW s \in Shots, s = job[j].shot,
           job[j].state \in {"Queued", "Active", "Blocked"}, shot[s].active = j,
           job'[j].state \in {"Cancelled", "Failed"},
           \A n \in Jobs : n # j => job'[n] = job[n],
           submissions' = submissions,
           shot'[s].takes = shot[s].takes, shot'[s].active \in {NoJob, j},
           \A r \in Shots : r # s => shot'[r] = shot[r]
    PROVE  QueueStep
  <1>1. ASSUME NEW i \in Jobs, i # j PROVE Unmoved(i)
    <2>1. i # NoJob
      BY DEF Jobs, NoJob
    <2>2. \A r \in Shots : shot'[r].active = i <=> shot[r].active = i
      BY <1>1, <2>1
    <2>3. \A r \in Shots : shot'[r].takes = shot[r].takes
      OBVIOUS
    <2> QED BY <1>1, <2>2, <2>3, StandsStill DEF Stays
  <1>2. Ledger(j) \in {"queued", "started", "sent"}
    BY DEF Ledger, Unreadable
  <1>3. Ledger(j)' = "dropped"
    BY DEF Ledger, Unreadable
  <1> QED BY <1>1, <1>2, <1>3, OneMoves DEF Moves

\* The commands queue a job or end one.
LEMMA CommandRefines ==
    ASSUME Clean, SentInv, faults' = 0, Command
    PROVE  QueueStep
  <1>0. job \in JobFiles /\ shot \in ShotFiles
    BY CleanFacts
  <1>1. ASSUME NEW s \in Shots, NEW k, NEW t, NEW j \in Fresh, NEW o, Enqueue(s, k, t, j, o)
        PROVE  QueueStep
    <2>1. o.end \in {"ok", "crash"} /\ o \in Outcomes(2) /\ Spend(o)
      BY <1>1, CleanOutcome DEF Enqueue, Clean
    <2>2. shot[s].active = NoJob /\ Joins(s, j, k, t, o)
      BY <1>1, <2>1 DEF Enqueue, Joins, After
    <2> QED BY <2>1, <2>2, JoinsStep
  <1>2. ASSUME NEW s \in Shots, SelectTake(s) PROVE QueueStep
    <2>1. job' = job /\ submissions' = submissions
      BY <1>2 DEF SelectTake
    <2>2. \A r \in Shots : shot'[r].active = shot[r].active /\ shot'[r].takes = shot[r].takes
      BY <1>0, <1>2 DEF SelectTake, ShotFiles, ShotRuntime
    <2> QED BY <2>1, <2>2, ShotsStandStill DEF Stays
  <1>3. ASSUME NEW b, SetQueuePaused(b) \/ \E p \in Projects : SetProjectPaused(p, b)
        PROVE  QueueStep
    <2>1. job' = job /\ submissions' = submissions /\ shot' = shot
      BY <1>3 DEF SetQueuePaused, SetProjectPaused
    <2> QED BY <2>1, ShotsStandStill DEF Stays
  <1>4. ASSUME NEW i \in DOMAIN w.pending, NEW o, CancelPending(i, o) PROVE QueueStep
    <2> DEFINE j == w.pending[i]
    <2> DEFINE s == job[j].shot
    <2>1. /\ j \in Jobs /\ job[j].state = "Queued" /\ s \in Shots /\ shot[s].active = j
          /\ submissions' = submissions
      <3>1. w \in Memory /\ i \in 1..Len(w.pending) /\ w.phase # "down"
        BY <1>4, CleanFacts DEF CancelPending, Serving, Memory
      <3> QED BY <1>4, <3>1, CleanFacts DEF CancelPending
    <2>2. o.done >= 1
      BY <1>4, CleanOutcome DEF CancelPending, Clean
    <2>3. job' = [job EXCEPT ![j].state = "Cancelled"]
      BY <1>4, <2>2 DEF CancelPending
    <2>4. shot' = shot \/ shot' = [shot EXCEPT ![s] = CancelShot(shot[s])]
      BY <1>4 DEF CancelPending
    <2> HIDE DEF j, s
    <2>6. /\ shot'[s].takes = shot[s].takes /\ shot'[s].active \in {NoJob, j}
          /\ \A r \in Shots : r # s => shot'[r] = shot[r]
      BY <1>0, <2>1, <2>4, DropShot
    <2>5. /\ job'[j].state = "Cancelled" /\ job'[j].shot = job[j].shot
          /\ \A n \in Jobs : n # j => job'[n] = job[n]
      BY <1>0, <2>1, <2>3 DEF JobFiles, JobJournal
    <2>7. s = job[j].shot /\ job[j].state \in {"Queued", "Active", "Blocked"}
      BY <2>1 DEF s, Held
    <2> QED BY <2>1, <2>5, <2>6, <2>7, DroppedStep
  <1>5. ASSUME NEW o, CancelRunning(o) PROVE QueueStep
    <2> DEFINE j == w.running
    <2> DEFINE s == job[j].shot
    <2>1. /\ j \in Jobs /\ job[j].state \in Held /\ s \in Shots /\ shot[s].active = j
          /\ submissions' = submissions
      BY <1>5, CleanFacts DEF CancelRunning, Serving
    <2>2. o.done >= 1
      BY <1>5, CleanOutcome DEF CancelRunning, Clean
    <2>3. job' = [job EXCEPT ![j].state = "Cancelled", ![j].attempt = "Cancelled"]
      BY <1>5, <2>2 DEF CancelRunning
    <2>4. shot' = shot \/ shot' = [shot EXCEPT ![s] = CancelShot(shot[s])]
      BY <1>5 DEF CancelRunning
    <2> HIDE DEF j, s
    <2>6. /\ shot'[s].takes = shot[s].takes /\ shot'[s].active \in {NoJob, j}
          /\ \A r \in Shots : r # s => shot'[r] = shot[r]
      BY <1>0, <2>1, <2>4, DropShot
    <2>5. /\ job'[j].state = "Cancelled" /\ job'[j].shot = job[j].shot
          /\ \A n \in Jobs : n # j => job'[n] = job[n]
      BY <1>0, <2>1, <2>3 DEF JobFiles, JobJournal
    <2>7. s = job[j].shot /\ job[j].state \in {"Queued", "Active", "Blocked"}
      BY <2>1 DEF s, Held
    <2> QED BY <2>1, <2>5, <2>6, <2>7, DroppedStep
  <1> QED BY <1>1, <1>2, <1>3, <1>4, <1>5 DEF Command

\* Recovery registers the one take whose job completed before the crash.
LEMMA BootStep ==
    ASSUME Clean, SentInv, NEW R, NEW end, Boot(R, end)
    PROVE  QueueStep
  <1>0. /\ job' = job /\ submissions' = submissions /\ shot' = RecoverShots(R)
        /\ shot \in ShotFiles /\ job \in JobFiles
    BY CleanFacts DEF Boot, RebuildShots
  <1>1. ASSUME NEW r \in Shots
        PROVE  \/ shot'[r].active = shot[r].active /\ shot'[r].takes = shot[r].takes
               \/ /\ shot[r].active # NoJob /\ job[shot[r].active].state \in Terminal
                  /\ shot'[r].active = NoJob
                  /\ \/ shot'[r].takes = shot[r].takes
                     \/ /\ shot'[r].takes = shot[r].takes \cup {shot[r].active}
                        /\ job[shot[r].active].state = "Completed"
    <2>1. shot'[r] \in {shot[r], RecoverShot(shot[r])}
      BY <1>0 DEF RecoverShots
    <2>2. shot[r] \in ShotRuntime
      BY <1>0 DEF ShotFiles
    <2>3. CASE shot'[r] = RecoverShot(shot[r]) /\ shot[r].active # NoJob
      <3> DEFINE a == shot[r].active
      <3>1. CASE job[a].state = "Completed"
        <4>1. shot'[r] = RegisterCandidate(job, shot[r], a)
          BY <2>3, <3>1 DEF RecoverShot
        <4>2. /\ RegisterCandidate(job, shot[r], a).active = NoJob
              /\ RegisterCandidate(job, shot[r], a).takes = shot[r].takes \cup {a}
          BY <2>2 DEF RegisterCandidate, ShotRuntime
        <4> QED BY <2>3, <3>1, <4>1, <4>2 DEF Terminal
      <3>2. CASE job[a].state \in {"Failed", "Cancelled"}
        <4>1. shot'[r] \in {FailShot(shot[r]), [FailShot(shot[r]) EXCEPT !.stage = "Pending"]}
          BY <2>3, <3>2 DEF RecoverShot
        <4>2. shot'[r].active = NoJob /\ shot'[r].takes = shot[r].takes
          BY <2>2, <4>1 DEF FailShot, ShotRuntime
        <4> QED BY <2>3, <3>2, <4>2 DEF Terminal
      <3>3. CASE job[a].state \notin Terminal
        BY <2>3, <3>3 DEF RecoverShot, Terminal
      <3> QED BY <3>1, <3>2, <3>3 DEF Terminal
    <2>4. CASE shot'[r] = RecoverShot(shot[r]) /\ shot[r].active = NoJob
      BY <2>4 DEF RecoverShot
    <2> QED BY <2>1, <2>3, <2>4
  <1>2. \A i \in Jobs : Stays(job, job', i) /\ job'[i].shot = job[i].shot
    BY <1>0 DEF Stays
  <1>3. ASSUME NEW i \in Jobs, job[i].state # "Completed" PROVE Unmoved(i)
    <2>1. i # NoJob
      BY DEF Jobs, NoJob
    <2>2. job[i].state = "Queued" =>
            \A r \in Shots : shot'[r].active = i <=> shot[r].active = i
      BY <1>1, <2>1 DEF Terminal
    <2> QED BY <1>0, <1>2, <1>3, <2>2, StandsStill
  <1>4. ASSUME NEW i \in Jobs, job[i].state = "Completed",
               i \in shot[job[i].shot].takes \/ i \notin shot'[job[i].shot].takes
        PROVE  Unmoved(i)
    <2>1. job[i].shot \in Shots
      BY <1>4 DEF Clean, Healthy, FilesInv, TakesKept
    <2>2. i \in shot'[job[i].shot].takes <=> i \in shot[job[i].shot].takes
      BY <1>1, <1>4, <2>1
    <2> QED BY <1>0, <1>2, <1>4, <2>2 DEF Unmoved
  <1>5. CASE \A i \in Jobs : Unmoved(i)
    BY <1>5, AllUnmoved
  <1>6. ASSUME NEW j \in Jobs, ~Unmoved(j) PROVE QueueStep
    <2>1. /\ job[j].state = "Completed" /\ j \notin shot[job[j].shot].takes
          /\ j \in shot'[job[j].shot].takes
      BY <1>3, <1>4, <1>6
    <2>2. ASSUME NEW i \in Jobs, i # j PROVE Unmoved(i)
      <3>1. ~Holding(job, shot, i)
        BY <2>1, <2>2 DEF Clean, Healthy, FilesInv, OneHolds, Holding
      <3> QED BY <1>3, <1>4, <3>1 DEF Holding
    <2>3. Ledger(j) = "sent"
      BY <2>1 DEF Ledger, Unreadable, SentInv
    <2>4. Ledger(j)' = "delivered"
      BY <1>0, <2>1 DEF Ledger, Unreadable
    <2> QED BY <2>2, <2>3, <2>4, OneMoves DEF Moves
  <1> QED BY <1>5, <1>6

\* Startup registers what had ended, and may queue an audition.
LEMMA StartupRefines ==
    ASSUME Clean, SentInv, faults' = 0, Startup \/ Crash
    PROVE  QueueStep
  <1>1. ASSUME NEW s \in Shots, NEW j \in Fresh, NEW o, ResumeAudition(s, j, o)
        PROVE  QueueStep
    <2>1. /\ shot[s].active = NoJob /\ o \in Outcomes(2) /\ Spend(o)
          /\ Joins(s, j, "audition", shot[s].target, o)
      BY <1>1 DEF ResumeAudition, AuditionDue, Joins
    <2> QED BY <2>1, JoinsStep
  <1>2. CASE Open \/ Crash
    <2>1. job' = job /\ submissions' = submissions /\ shot' = shot
      BY <1>2 DEF Open, Crash
    <2> QED BY <2>1, ShotsStandStill DEF Stays
  <1> QED BY <1>1, <1>2, BootStep DEF Startup

\* The running job starts while no other job holds the GPU.
LEMMA StartNextStep ==
    ASSUME Clean, SentInv, faults' = 0, NEW i \in DOMAIN w.pending, NEW fits, NEW n \in {3, 4},
           NEW o \in Outcomes(n), StartNext(i, fits, o)
    PROVE  QueueStep
  <1>1. w \in Memory /\ i \in 1..Len(w.pending) /\ w.phase # "down" /\ w.running = NoJob
    BY CleanFacts DEF StartNext, MayDispatch, Serving, Memory
  <1>2. PICK j \in Jobs : j = w.pending[i]
    BY <1>1, CleanFacts
  <1>3. PICK s \in Shots : s = job[j].shot
    BY <1>1, <1>2, CleanFacts
  <1>4. /\ job \in JobFiles /\ shot \in ShotFiles
        /\ job[j].state = "Queued" /\ shot[s].active = j
        /\ submissions' = submissions
    BY <1>1, <1>2, <1>3, CleanFacts DEF StartNext
  <1>5. o.done # 0
    <2>1. PICK v \in {3, 4} : o \in Outcomes(v) /\ Spend(o)
      BY DEF StartNext
    <2> QED BY <2>1, CleanOutcome DEF Clean
  <1>6. \E st \in Held : job' = [job EXCEPT ![j].state = st, ![j].attempt = "Prepared"]
    BY <1>5, <1>2 DEF StartNext, Held
  <1>7. shot' = shot \/ shot' = [shot EXCEPT ![s].stage = "Generating"]
    BY <1>2, <1>3 DEF StartNext
  <1>8. /\ job'[j].state \in Held /\ \A k \in Jobs : k # j => job'[k] = job[k]
    BY <1>4, <1>6 DEF JobFiles, JobJournal
  <1>9. \A r \in Shots : shot'[r].active = shot[r].active /\ shot'[r].takes = shot[r].takes
    BY <1>4, <1>7 DEF ShotFiles, ShotRuntime
  <1>10. \A k \in Jobs : k # j => Unmoved(k)
    BY <1>4, <1>8, <1>9, StandsStill DEF Stays
  <1>11. \A k \in Jobs : Ledger(k) \notin {"started", "sent"}
    BY <1>1, NobodyHolds, HoldsIsHolding
  <1>12. Ledger(j) = "queued"
    BY <1>4, <1>3 DEF Ledger, Unreadable
  <1>13. submissions[j] = 0
    BY <1>4 DEF Clean, Inv, JobInv, Begun, Recorded
  <1>14. Ledger(j)' = "started"
    <2>1. submissions'[j] = 0
      BY <1>4, <1>13
    <2>2. job'[j].state \notin {"Absent", "Removed", "Failed", "Cancelled", "Queued", "Completed"}
      BY <1>8 DEF Held
    <2> QED BY <2>1, <2>2 DEF Ledger, Unreadable
  <1>15. Moves(Ledger(j), Ledger(j)')
    BY <1>11, <1>12, <1>14 DEF Moves
  <1> QED BY <1>4, <1>10, <1>15, OneMoves

\* Dispatch starts a job, or blocks the running one.
LEMMA DispatchRefines ==
    ASSUME Clean, SentInv, faults' = 0, Dispatch
    PROVE  QueueStep
  <1>0. job \in JobFiles
    BY CleanFacts
  <1>1. CASE BlockRunning \/ MarkUnknown
    <2>1. /\ w.phase # "down" /\ w.running # NoJob
          /\ submissions' = submissions /\ shot' = shot
      BY <1>1 DEF BlockRunning, MarkUnknown, Resumable, MayDispatch, Serving
    <2>2. w.running \in Jobs /\ job[w.running].state \in Held
      BY <2>1, CleanFacts
    <2>3. /\ job'[w.running].state = "Blocked" /\ job'[w.running].shot = job[w.running].shot
          /\ \A i \in Jobs : i # w.running => job'[i] = job[i]
      BY <1>0, <1>1, <2>2, RunningBlocked
    <2>4. \A i \in Jobs : job'[i].shot = job[i].shot /\ Stays(job, job', i)
      BY <2>2, <2>3 DEF Stays, Held
    <2> QED BY <2>1, <2>4, ShotsStandStill
  <1>2. ASSUME NEW k, SendAgain(k) PROVE QueueStep
    <2>1. job' = job /\ submissions' = submissions /\ shot' = shot
      BY <1>2 DEF SendAgain
    <2> QED BY <2>1, ShotsStandStill DEF Stays
  <1> QED BY <1>1, <1>2, StartNextStep, NoRebuild DEF Dispatch

\* The take of the running job is saved, registered, and the next audition
\* requested with it, in as many writes as a crash leaves time for.
LEMMA CompleteStep ==
    ASSUME Clean, SentInv, faults' = 0, NEW j \in Jobs, NEW n \in Fresh \cup {NoJob}, NEW same,
           NEW m \in {4, 6}, NEW o \in Outcomes(m), CompleteJob(j, n, same, o)
    PROVE  QueueStep
  <1> DEFINE done == [job EXCEPT ![j].state = "Completed", ![j].attempt = "Completed"]
  <1>1. /\ job \in JobFiles /\ shot \in ShotFiles /\ submissions' = submissions
        /\ job[j].state \in Held /\ submissions[j] # 0
        /\ job[j].shot \in Shots /\ shot[job[j].shot].active = j
    <2>1. /\ w.phase # "down" /\ w.running = j /\ backend[j] = "done" /\ j # NoJob
      BY ReceivedFacts DEF CompleteJob, Current, Jobs, NoJob
    <2>2. submissions[j] # 0
      BY <2>1 DEF Clean, Healthy, BackendInv
    <2> QED BY <2>1, <2>2, CleanFacts DEF CompleteJob
  <1>2. PICK s \in Shots : s = job[j].shot
    BY <1>1
  <1>3. /\ o.done \in 1..6
        /\ o.end # "error"
        /\ n \notin Fresh => o.done <= 4
    <2>1. \E l \in {4, 6} : o \in Outcomes(l) /\ (n \notin Fresh => l = 4)
      BY DEF CompleteJob
    <2>2. Spend(o)
      BY DEF CompleteJob
    <2> QED BY <2>1, <2>2, CleanOutcome DEF Clean
  <1>4. n \in Fresh => n \in Jobs /\ job[n].state = "Absent" /\ n # j
    BY <1>1 DEF Fresh, Held
  <1>5. \/ job' = job /\ o.done < 2
        \/ job' = Journaled(done, o, 4, n, s, "audition") /\ o.done >= 2
    BY <1>2, <1>3 DEF CompleteJob
  <1>6. /\ DOMAIN done = Jobs /\ done[j].state = "Completed" /\ done[j].shot = s
        /\ \A i \in Jobs : i # j => done[i] = job[i]
    BY <1>1, <1>2 DEF JobFiles, JobJournal
  <1>7. \E g : /\ g.takes = shot[s].takes \cup {j} /\ g.active \in {NoJob, n}
               /\ o.done # 6 => g.active = NoJob
               /\ shot' = IF o.done < 3 THEN shot ELSE [shot EXCEPT ![s] = g]
    <2> DEFINE h == RegisterCandidate(done, shot[s], j)
    <2>1. h.takes = shot[s].takes \cup {j} /\ h.active = NoJob /\ h \in ShotRuntime
      <3> HIDE DEF done
      <3>1. shot[s] \in ShotRuntime
        BY <1>1 DEF ShotFiles
      <3>2. h \in ShotRuntime
        BY <3>1, ShotTypes DEF h
      <3>3. h.takes = shot[s].takes \cup {j} /\ h.active = NoJob
        BY <3>1, SettledShots DEF h
      <3> QED BY <3>2, <3>3
    <2>2. shot' = IF o.done < 3 THEN shot
                  ELSE [shot EXCEPT ![s] = IF o.done = 6 THEN EnqueueShot(h, n, h.target) ELSE h]
      BY <1>2 DEF CompleteJob
    <2> HIDE DEF h
    <2>3. EnqueueShot(h, n, h.target).takes = h.takes /\ EnqueueShot(h, n, h.target).active = n
      BY <2>1 DEF EnqueueShot, ShotRuntime
    <2> QED BY <2>1, <2>2, <2>3
  <1> HIDE DEF done
  <1>8. /\ job'[j].state = IF o.done < 2 THEN job[j].state ELSE "Completed"
        /\ job'[j].shot = s
        /\ \A i \in Jobs : i \notin {j, n} => job'[i] = job[i]
        /\ n \in Fresh => \/ job'[n] = job[n]
                          \/ job'[n].state = "Queued" /\ job'[n].shot = s
    <2>1. CASE job' = job /\ o.done < 2
      BY <1>2, <1>3, <2>1
    <2>2. CASE job' = Journaled(done, o, 4, n, s, "audition") /\ o.done >= 2 /\ o.done <= 4
      <3>1. job' = done
        BY <2>2 DEF Journaled
      <3>2. \A i \in Jobs : i # j => job'[i] = job[i]
        BY <1>6, <3>1
      <3>3. job'[j].state = "Completed" /\ job'[j].shot = s /\ ~(o.done < 2)
        BY <1>3, <1>6, <2>2, <3>1
      <3> QED BY <1>4, <3>2, <3>3
    <2>3. CASE job' = Journaled(done, o, 4, n, s, "audition") /\ o.done > 4
      <3>1. job' = [done EXCEPT ![n] = QueuedJob(s, "audition")] /\ n \in Fresh
        BY <1>3, <2>3 DEF Journaled
      <3>2. n \in Jobs /\ n # j
        BY <1>4, <3>1
      <3>3. job'[n] = QueuedJob(s, "audition")
        BY <1>6, <3>1, <3>2
      <3>4. \A i \in Jobs : i # n => job'[i] = done[i]
        BY <1>6, <3>1
      <3> QED BY <1>3, <1>6, <2>3, <3>2, <3>3, <3>4 DEF QueuedJob
    <2> QED BY <1>3, <1>5, <2>1, <2>2, <2>3
  <1>9. /\ shot'[s].takes = IF o.done < 3 THEN shot[s].takes ELSE shot[s].takes \cup {j}
        /\ shot'[s].active \in {j, NoJob, n}
        /\ shot'[s].active = n /\ n \in Fresh => o.done = 6
        /\ \A r \in Shots : r # s => shot'[r] = shot[r]
    <2>1. n \in Fresh => n # NoJob /\ n # j
      BY <1>4 DEF Jobs, NoJob
    <2> QED BY <1>1, <1>2, <1>3, <1>7, <2>1 DEF ShotFiles
  <1>10. ASSUME NEW i \in Jobs, i \notin {j, n} PROVE Ledger(i)' = Ledger(i)
    <2>1. i # NoJob
      BY DEF Jobs, NoJob
    <2>2. \A r \in Shots : shot'[r].active = i <=> shot[r].active = i
      BY <1>1, <1>2, <1>9, <1>10, <2>1
    <2>3. \A r \in Shots : i \in shot'[r].takes <=> i \in shot[r].takes
      BY <1>9, <1>10
    <2>4. Unmoved(i)
      BY <1>1, <1>8, <1>10, <2>2, <2>3, StandsStill DEF Stays
    <2> QED BY <2>4, UnmovedLedger
  <1>11. Ledger(j) = "sent"
    BY <1>1 DEF Ledger, Unreadable, Held
  <1>12. /\ Ledger(j)' \in {"sent", "delivered"}
         /\ o.done = 6 => Ledger(j)' = "delivered"
    <2>1. submissions'[j] # 0
      BY <1>1
    <2>2. CASE job'[j].state = "Completed"
      BY <1>8, <1>9, <2>1, <2>2 DEF Ledger, Unreadable
    <2>3. CASE job'[j].state \in Held /\ o.done < 2
      BY <1>3, <2>1, <2>3 DEF Ledger, Unreadable, Held
    <2> QED BY <1>1, <1>3, <1>8, <2>2, <2>3
  <1>13. CASE n \notin Fresh
    <2>1. \A i \in Jobs : i # j => Ledger(i)' = Ledger(i)
      BY <1>10, <1>13 DEF Jobs, NoJob
    <2> QED BY <1>11, <1>12, <2>1, OneLedgerMoves DEF Moves
  <1>14. CASE n \in Fresh
    <2>1. n \in Jobs /\ n # j /\ Ledger(n) = "idle"
      BY <1>4, <1>14 DEF Ledger, Unreadable
    <2>2. Ledger(n)' \in {"idle", "queued"} /\ (Ledger(n)' = "queued" => o.done = 6)
      <3>1. CASE job'[n] = job[n]
        BY <1>4, <1>14, <3>1 DEF Ledger, Unreadable
      <3>2. CASE job'[n].state = "Queued" /\ job'[n].shot = s
        BY <1>9, <1>14, <3>2 DEF Ledger, Unreadable
      <3> QED BY <1>8, <1>14, <3>1, <3>2
    <2>3. CASE Ledger(n)' = "idle"
      <3>1. \A i \in Jobs : i # j => Ledger(i)' = Ledger(i)
        BY <1>10, <2>1, <2>3
      <3> QED BY <1>11, <1>12, <3>1, OneLedgerMoves DEF Moves
    <2>4. CASE Ledger(n)' = "queued"
      <3>1. Ledger(j)' = "delivered"
        BY <1>12, <2>2, <2>4
      <3>2. StatusOf' = [StatusOf EXCEPT ![j] = "delivered", ![n] = "queued"]
        BY <1>10, <2>1, <2>4, <3>1 DEF StatusOf
      <3>3. StatusOf[j] = "sent" /\ StatusOf[n] = "idle"
        BY <1>11, <2>1 DEF StatusOf
      <3>4. TL!DeliverAndRequest(j, n)
        BY <3>2, <3>3 DEF TL!DeliverAndRequest, StatusOf
      <3> QED BY <2>1, <3>4 DEF QueueStep, TL!Next
    <2> QED BY <2>2, <2>3, <2>4
  <1> QED BY <1>13, <1>14

\* An event ends the running job, or leaves it as it is.
LEMMA EventRefines ==
    ASSUME Clean, SentInv, faults' = 0, NEW i \in Jobs, HandleEvent(i)
    PROVE  QueueStep
  <1>0. job \in JobFiles /\ shot \in ShotFiles
    BY CleanFacts
  <1>1. ASSUME NEW k, Current(k, i)
        PROVE  /\ job[i].state \in Held /\ job[i].shot \in Shots
               /\ shot[job[i].shot].active = i
    BY <1>1, CleanFacts DEF Current, Received, Serving, Jobs, NoJob
  <1>2. ASSUME NEW o, ApplyPrepared(i, o) PROVE QueueStep
    <2>1. /\ submissions' = submissions /\ shot' = shot
          /\ job' = job \/ job' = [job EXCEPT ![i].attempt = "Submitting"]
      BY <1>2 DEF ApplyPrepared
    <2>2. \A j \in Jobs : job'[j].shot = job[j].shot /\ Stays(job, job', j)
      BY <1>0, <2>1 DEF JobFiles, JobJournal, Stays
    <2> QED BY <2>1, <2>2, ShotsStandStill
  <1>3. ASSUME NEW k \in {"Submitted", "SubmissionUnknown", "MonitorRetry"}, NEW o,
               NoteAttempt(k, i, o)
        PROVE  QueueStep
    <2>1. /\ submissions' = submissions /\ shot' = shot /\ job[i].state \in Held
      BY <1>1, <1>3 DEF NoteAttempt
    <2>2. \/ job' = job
          \/ job' = [job EXCEPT ![i].attempt = k, ![i].backendId = TRUE]
          \/ job' = [job EXCEPT ![i].attempt = k, ![i].state = "Blocked"]
          \/ job' = [job EXCEPT ![i].attempt = "Running"]
      BY <1>3 DEF NoteAttempt
    <2>3. /\ \A j \in Jobs : j # i => job'[j] = job[j]
          /\ job'[i].shot = job[i].shot /\ job'[i].state \in {job[i].state, "Blocked"}
      BY <1>0, <2>2 DEF JobFiles, JobJournal
    <2>4. \A j \in Jobs : job'[j].shot = job[j].shot /\ Stays(job, job', j)
      BY <2>1, <2>3 DEF Stays, Held
    <2> QED BY <2>1, <2>4, ShotsStandStill
  <1>4. ASSUME NEW k, NEW o, FailJob(k, i, o) PROVE QueueStep
    <2>1. /\ submissions' = submissions
          /\ job[i].state \in {"Queued", "Active", "Blocked"}
      BY <1>1, <1>4 DEF FailJob, Held
    <2>2. PICK s \in Shots : s = job[i].shot /\ shot[s].active = i
      BY <1>1, <1>4 DEF FailJob
    <2>3. o.done >= 1
      BY <1>4, CleanOutcome DEF FailJob, Clean
    <2>4. job' = [job EXCEPT ![i].state = "Failed", ![i].attempt = FailureOf[k]]
      BY <1>4, <2>3 DEF FailJob
    <2>5. shot' = shot \/ shot' = [shot EXCEPT ![s] = FailShot(shot[s])]
      BY <1>4, <2>2 DEF FailJob
    <2>6. /\ shot'[s].takes = shot[s].takes /\ shot'[s].active \in {NoJob, i}
          /\ \A r \in Shots : r # s => shot'[r] = shot[r]
      BY <1>0, <2>2, <2>5, DropShot
    <2>7. /\ job'[i].state = "Failed"
          /\ \A n \in Jobs : n # i => job'[n] = job[n]
      BY <1>0, <2>4 DEF JobFiles, JobJournal
    <2> QED BY <2>1, <2>2, <2>6, <2>7, DroppedStep
  <1>5. ASSUME NEW k, Discard(k, i) PROVE QueueStep
    <2>1. job' = job /\ submissions' = submissions /\ shot' = shot
      BY <1>5 DEF Discard
    <2> QED BY <2>1, ShotsStandStill DEF Stays
  <1>6. ASSUME NEW n \in Fresh \cup {NoJob}, NEW same \in BOOLEAN, NEW m \in {4, 6},
               NEW o \in Outcomes(m), CompleteJob(i, n, same, o)
        PROVE  QueueStep
    BY <1>6, CompleteStep
  <1> QED BY <1>2, <1>3, <1>4, <1>5, <1>6 DEF HandleEvent

\* The executor submits the running job; nothing else it does shows.
LEMMA ExecutorRefines ==
    ASSUME Clean, SentInv, Executor
    PROVE  QueueStep
  <1>1. ASSUME \/ \E k \in {"Prepared", "PreparationFailed"} : ExPrepare(k)
               \/ \E k \in EventKind : ExWatch(k)
        PROVE  QueueStep
    <2>1. job' = job /\ submissions' = submissions /\ shot' = shot
      BY <1>1 DEF ExPrepare, ExWatch
    <2> QED BY <2>1, ShotsStandStill DEF Stays
  <1>2. ASSUME NEW a \in BOOLEAN, NEW b \in BOOLEAN, ExSubmit(a, b) PROVE QueueStep
    <2>1. /\ job' = job /\ shot' = shot /\ w \in Memory /\ submissions \in [Jobs -> Nat]
          /\ w.phase # "down" /\ w.request.kind = "Submit"
      BY <1>2, CleanFacts DEF ExSubmit, Working
    <2>2. w.request \in Request
      BY <2>1 DEF Memory, NoRequest
    <2>3. PICK j \in Jobs : j = w.request.job
      BY <2>2 DEF Request
    <2>4. j = w.running /\ j # NoJob
      BY <2>1, <2>3 DEF Clean, Healthy, WorkInv, Jobs, NoJob
    <2>5. job[j].state \in Held
      BY <2>1, <2>4, CleanFacts
    <2>6. submissions' = submissions \/ submissions' = [submissions EXCEPT ![j] = @ + 1]
      BY <1>2, <2>3 DEF ExSubmit
    <2>7. /\ \A i \in Jobs : i # j => submissions'[i] = submissions[i]
          /\ \/ submissions'[j] = submissions[j]
             \/ submissions'[j] # 0
      BY <2>1, <2>6
    <2>8. ASSUME NEW i \in Jobs, i # j PROVE Unmoved(i)
      BY <2>1, <2>7, <2>8 DEF Unmoved, Stays
    <2>9. /\ Ledger(j) = IF submissions[j] = 0 THEN "started" ELSE "sent"
          /\ Ledger(j)' = IF submissions'[j] = 0 THEN "started" ELSE "sent"
      BY <2>1, <2>5 DEF Ledger, Unreadable, Held
    <2>10. Moves(Ledger(j), Ledger(j)')
      BY <2>7, <2>9 DEF Moves
    <2> QED BY <2>8, <2>10, OneMoves
  <1> QED BY <1>1, <1>2 DEF Executor

\* Every step, and none.
LEMMA QueueRefines ==
    ASSUME Clean, SentInv, faults' = 0, [Next]_vars
    PROVE  QueueStep
  <1>1. CASE UNCHANGED vars \/ Backend
    <2>1. job' = job /\ submissions' = submissions /\ shot' = shot
      BY <1>1 DEF vars, Backend, BackendStarts, BackendEnds
    <2> QED BY <2>1, ShotsStandStill DEF Stays
  <1> QED BY <1>1, CommandRefines, StartupRefines, DispatchRefines, EventRefines,
             ExecutorRefines DEF Next, MainLoop

\* In a run in which no write fails, whatever crashes come between the writes
\* of a handler, the queue does what TakeLedger promises: one job at a time
\* holds the GPU until its take is registered, it is sent at most once, a take
\* is delivered only for a job that was sent, once, and what has ended stays.
THEOREM ImplementsTakeLedger == Spec /\ [](faults = 0) => RefinesTakeLedger
  <1>1. Init => TL!Init
    BY DEF Init, TL!Init, Ledger, Unreadable
  <1>2. QInv /\ faults = 0 /\ SentInv /\ (faults = 0)' /\ [Next]_vars => QueueStep
    BY QueueRefines DEF QInv, Clean
  <1>3. QueueStep => [TL!Next]_[j \in Jobs |-> Ledger(j)]
    BY DEF QueueStep, StatusOf
  <1> QED BY <1>1, <1>2, <1>3, QInvariance, SentInvariance, PTL DEF Spec, RefinesTakeLedger, TL!Spec

-----------------------------------------------------------------------------
(* The order of the queue, as long as no write fails *)

\* Job j may stand behind job i in the queue.
InTurn(i, j) ==
    i < j \/ (crashes > 0 /\ ProjectOf[job[i].shot] < ProjectOf[job[j].shot])

Ordered(q) == \A i, k \in 1..Len(q) : i < k => InTurn(q[i], q[k])

\* Job ids are drawn in order, the queue keeps that order but for what a rebuild
\* makes of it, and nothing is left from before the first start.
OrderInv ==
    /\ \A i, j \in Jobs : i < j /\ job[i].state = "Absent" => job[j].state = "Absent"
    /\ Ordered(w.pending)
    /\ crashes = 0 /\ w.phase = "down" => \A s \in Shots : shot[s].active = NoJob

Up == w.phase # "down" /\ w'.phase # "down"

\* What a step makes of the pending entries.
PendingStep ==
    \/ w' = Lost /\ crashes' # 0
    \/ Up /\ w'.pending = w.pending
    \/ Up /\ \E j \in Fresh : w'.pending = Append(w.pending, j)
    \/ Up /\ \E i \in 1..Len(w.pending) : w'.pending = RemoveAt(w.pending, i)
    \/ w' = w /\ shot' = shot /\ crashes' = crashes
    \/ \E R \in SUBSET Projects, end \in {"ok", "error", "crash"} : Boot(R, end)

\* Without failing writes a handler ends well or dies with the process.
LEMMA EndsOrDies ==
    ASSUME Clean, faults' = 0, NEW n \in Nat, NEW o \in Outcomes(n), Spend(o), NEW m,
           w' = After(o, m)
    PROVE  \/ w' = Lost /\ crashes' # 0
           \/ w' = m /\ o.end = "ok" /\ o.acked = n
  <1>1. crashes \in Nat
    BY DEF Clean, Inv, TypeOK
  <1>2. \/ o.end = "ok" /\ o.acked = n
        \/ o.end = "crash"
    BY CleanOutcome DEF Clean
  <1> QED BY <1>1, <1>2 DEF After, Spend

\* The commands append an entry or remove one.
LEMMA CommandPending ==
    ASSUME Clean, faults' = 0, Command
    PROVE  PendingStep
  <1>0. w \in Memory /\ w.phase # "down"
    <2>1. ASSUME NEW i, NEW o, CancelPending(i, o) \/ CancelRunning(o) PROVE Serving
      BY <2>1 DEF CancelPending, CancelRunning
    <2>2. ASSUME NEW s, NEW k, NEW t, NEW j, NEW o, Enqueue(s, k, t, j, o) \/ SelectTake(s)
          PROVE  Serving
      BY <2>2 DEF Enqueue, SelectTake
    <2>3. ASSUME NEW p, NEW b, SetProjectPaused(p, b) \/ SetQueuePaused(b) PROVE Serving
      BY <2>3 DEF SetProjectPaused, SetQueuePaused
    <2>4. Serving
      BY <2>1, <2>2, <2>3 DEF Command
    <2> QED BY <2>4, CleanFacts DEF Serving
  <1>1. ASSUME NEW s, NEW k, NEW t, NEW j \in Fresh, NEW o \in Outcomes(2), Enqueue(s, k, t, j, o)
        PROVE  PendingStep
    <2> DEFINE m == IF o.end = "ok" THEN [w EXCEPT !.pending = Append(@, j)] ELSE w
    <2>1. Spend(o) /\ w' = After(o, m)
      BY <1>1 DEF Enqueue
    <2>2. o.end = "ok" => m.pending = Append(w.pending, j) /\ m.phase = w.phase
      BY <1>0 DEF Memory
    <2> HIDE DEF m
    <2> QED BY <1>0, <2>1, <2>2, EndsOrDies DEF PendingStep, Up
  <1>2. ASSUME NEW i \in DOMAIN w.pending, NEW o \in Outcomes(3), CancelPending(i, o)
        PROVE  PendingStep
    <2> DEFINE m == IF o.end = "ok" THEN [w EXCEPT !.pending = RemoveAt(@, i)] ELSE w
    <2>1. Spend(o) /\ w' = After(o, m)
      BY <1>2 DEF CancelPending
    <2>2. o.end = "ok" => m.pending = RemoveAt(w.pending, i) /\ m.phase = w.phase
      BY <1>0 DEF Memory
    <2>3. i \in 1..Len(w.pending)
      BY <1>0 DEF Memory
    <2> HIDE DEF m
    <2> QED BY <1>0, <2>1, <2>2, <2>3, EndsOrDies DEF PendingStep, Up
  <1>3. ASSUME NEW o \in Outcomes(3), CancelRunning(o) PROVE PendingStep
    <2> DEFINE m == IF o.end = "ok"
                    THEN [w EXCEPT !.running = NoJob, !.cancelling = @ \cup {w.running}] ELSE w
    <2>1. Spend(o) /\ w' = After(o, m)
      BY <1>3 DEF CancelRunning
    <2>2. m.pending = w.pending /\ m.phase = w.phase
      BY <1>0 DEF Memory
    <2> HIDE DEF m
    <2> QED BY <1>0, <2>1, <2>2, EndsOrDies DEF PendingStep, Up
  <1>4. ASSUME NEW s, SelectTake(s) PROVE w' = w
    BY <1>4 DEF SelectTake
  <1>5. ASSUME NEW b, SetQueuePaused(b) \/ \E p \in Projects : SetProjectPaused(p, b)
        PROVE  w' = w
    BY <1>5 DEF SetQueuePaused, SetProjectPaused
  <1>6. w' = w => PendingStep
    BY <1>0 DEF PendingStep, Up
  <1> QED BY <1>1, <1>2, <1>3, <1>4, <1>5, <1>6 DEF Command

\* Startup and crash.
LEMMA StartupPending ==
    ASSUME Clean, faults' = 0, Startup \/ Crash
    PROVE  PendingStep
  <1>0. w \in Memory /\ crashes \in Nat
    BY CleanFacts DEF Clean, Inv, TypeOK
  <1>1. ASSUME NEW s, NEW j \in Fresh, NEW o \in Outcomes(2), ResumeAudition(s, j, o)
        PROVE  PendingStep
    <2> DEFINE m == [w EXCEPT !.pending = Append(@, j)]
    <2>1. o.end \in {"ok", "crash"} /\ Spend(o)
      BY <1>1, CleanOutcome DEF ResumeAudition, Clean
    <2>2. w' = After(o, m) /\ w.phase # "down"
      BY <1>1, <2>1 DEF ResumeAudition, After
    <2>3. m.pending = Append(w.pending, j) /\ m.phase = w.phase
      BY <1>0 DEF Memory
    <2> HIDE DEF m
    <2> QED BY <2>1, <2>2, <2>3, EndsOrDies DEF PendingStep, Up
  <1>2. CASE Open
    <2>1. w.phase # "down" /\ w'.phase # "down" /\ w'.pending = w.pending
      BY <1>0, <1>2 DEF Open, Memory
    <2> QED BY <2>1 DEF PendingStep, Up
  <1>3. CASE Crash
    BY <1>0, <1>3 DEF Crash, PendingStep
  <1> QED BY <1>1, <1>2, <1>3 DEF Startup, PendingStep

\* Dispatch removes an entry.
LEMMA DispatchPending ==
    ASSUME Clean, faults' = 0, Dispatch
    PROVE  PendingStep
  <1>0. w \in Memory /\ w.phase # "down"
    <2>1. ASSUME NEW i, NEW fits, NEW o, StartNext(i, fits, o) PROVE MayDispatch
      BY <2>1 DEF StartNext
    <2>2. ASSUME NEW R, NEW end, StartRebuild(R, end) PROVE MayDispatch
      BY <2>2 DEF StartRebuild
    <2>3. ASSUME NEW k, SendAgain(k) PROVE MayDispatch
      BY <2>3 DEF SendAgain, Resumable
    <2>4. ASSUME BlockRunning \/ MarkUnknown PROVE MayDispatch
      BY <2>4 DEF BlockRunning, MarkUnknown, Resumable
    <2>5. MayDispatch
      BY <2>1, <2>2, <2>3, <2>4 DEF Dispatch
    <2> QED BY <2>5, CleanFacts DEF MayDispatch, Serving
  <1>1. ASSUME NEW i \in DOMAIN w.pending, NEW fits, NEW n \in {3, 4}, NEW o \in Outcomes(n),
               StartNext(i, fits, o)
        PROVE  PendingStep
    <2> DEFINE started == [w EXCEPT !.running = w.pending[i], !.pending = RemoveAt(@, i)]
               m == IF o.acked < 3 THEN w
                    ELSE IF fits THEN Send(started, "Prepare", w.pending[i]) ELSE started
    <2>1. Spend(o) /\ w' = After(o, m)
      BY <1>1 DEF StartNext
    <2>2. started.pending = RemoveAt(w.pending, i) /\ started.phase = w.phase
      BY <1>0 DEF Memory
    <2>3. /\ Send(started, "Prepare", w.pending[i]).pending = RemoveAt(w.pending, i)
          /\ Send(started, "Prepare", w.pending[i]).phase = w.phase
      BY <1>0 DEF Memory, Send
    <2>4. i \in 1..Len(w.pending)
      BY <1>0 DEF Memory
    <2>5. /\ m.phase = w.phase
          /\ m.pending = w.pending \/ m.pending = RemoveAt(w.pending, i)
      <3> HIDE DEF started
      <3> QED BY <2>2, <2>3
    <2> HIDE DEF m
    <2> QED BY <1>0, <2>1, <2>4, <2>5, EndsOrDies DEF PendingStep, Up
  <1>2. CASE BlockRunning \/ MarkUnknown
    BY <1>0, <1>2 DEF BlockRunning, MarkUnknown, PendingStep, Up
  <1>3. ASSUME NEW k, SendAgain(k) PROVE PendingStep
    <2>1. w' = Send(w, k, w.running)
      BY <1>3 DEF SendAgain
    <2>2. w'.pending = w.pending /\ w'.phase = w.phase
      BY <1>0, <2>1 DEF Send, Memory
    <2> QED BY <1>0, <2>2 DEF PendingStep, Up
  <1> QED BY <1>1, <1>2, <1>3, NoRebuild DEF Dispatch

\* An event may append the next audition.
LEMMA EventPending ==
    ASSUME Clean, faults' = 0, NEW i \in Jobs, HandleEvent(i)
    PROVE  PendingStep
  <1>0. /\ w.phase # "down" /\ Handled \in Memory
        /\ Handled.pending = w.pending /\ Handled.phase = w.phase
    <2>1. PICK k : Received(k, i)
      BY DEF HandleEvent, ApplyPrepared, NoteAttempt, FailJob, CompleteJob, Discard, Current
    <2> QED BY <2>1, ReceivedFacts
  <1>1. w' = Handled => PendingStep
    BY <1>0 DEF PendingStep, Up
  <1>2. ASSUME NEW o \in Outcomes(2), ApplyPrepared(i, o) PROVE PendingStep
    <2> DEFINE m == IF o.end = "ok" THEN Send(Handled, "Submit", i) ELSE Handled
    <2>1. Spend(o) /\ w' = After(o, m)
      BY <1>2 DEF ApplyPrepared
    <2>2. m.pending = w.pending /\ m.phase = w.phase
      BY <1>0 DEF Memory, Send
    <2> HIDE DEF m
    <2> QED BY <1>0, <2>1, <2>2, EndsOrDies DEF PendingStep, Up
  <1>3. ASSUME NEW k, NEW o, NoteAttempt(k, i, o) PROVE PendingStep
    BY <1>1, <1>3 DEF NoteAttempt
  <1>4. ASSUME NEW k, NEW o \in Outcomes(3), FailJob(k, i, o) PROVE PendingStep
    <2> DEFINE m == IF o.acked >= 2 THEN [Handled EXCEPT !.running = NoJob] ELSE Handled
    <2>1. Spend(o) /\ w' = After(o, m)
      BY <1>4 DEF FailJob
    <2>2. m.pending = w.pending /\ m.phase = w.phase
      BY <1>0 DEF Memory
    <2> HIDE DEF m
    <2> QED BY <1>0, <2>1, <2>2, EndsOrDies DEF PendingStep, Up
  <1>5. ASSUME NEW n \in Fresh \cup {NoJob}, NEW same, NEW v \in {4, 6}, NEW o \in Outcomes(v),
               CompleteJob(i, n, same, o)
        PROVE  PendingStep
    <2> DEFINE freed == IF o.acked >= 3 THEN [Handled EXCEPT !.running = NoJob] ELSE Handled
               more == [freed EXCEPT !.pending = Append(@, n)]
    <2>1. freed.pending = w.pending /\ freed.phase = w.phase
      BY <1>0 DEF Memory
    <2>2. more.pending = Append(w.pending, n) /\ more.phase = w.phase
      BY <1>0 DEF Memory
    <2>3. PICK m : /\ Spend(o) /\ w' = After(o, m)
                   /\ \/ m = freed
                      \/ m = more /\ n \in Fresh
      <3> DEFINE done == [job EXCEPT ![i].state = "Completed", ![i].attempt = "Completed"]
                 again == /\ AuditionDue(RegisterCandidate(done, shot[job[i].shot], i))
                          /\ Fresh # {}
      <3>1. Spend(o) /\ w' = After(o, IF again /\ o.end = "ok" THEN more ELSE freed)
        BY <1>5 DEF CompleteJob
      <3>2. again => n \in Fresh
        BY <1>5 DEF CompleteJob
      <3> HIDE DEF again, freed, more
      <3>3. CASE again /\ o.end = "ok"
        <4>1. Spend(o) /\ w' = After(o, more)
          BY <3>1, <3>3
        <4> QED BY <3>2, <3>3, <4>1
      <3>4. CASE ~(again /\ o.end = "ok")
        <4>1. Spend(o) /\ w' = After(o, freed)
          BY <3>1, <3>4
        <4> QED BY <4>1
      <3> QED BY <3>3, <3>4
    <2> HIDE DEF freed, more
    <2> QED BY <1>0, <2>1, <2>2, <2>3, EndsOrDies DEF PendingStep, Up
  <1>6. ASSUME NEW k, Discard(k, i) PROVE PendingStep
    BY <1>1, <1>6 DEF Discard
  <1> QED BY <1>2, <1>3, <1>4, <1>5, <1>6 DEF HandleEvent

\* The executor does not see the queue.
LEMMA ExecutorPending ==
    ASSUME Clean, Executor
    PROVE  PendingStep
  <1>0. w \in Memory
    BY CleanFacts
  <1>1. ASSUME NEW k, NEW r PROVE Report(k, r).pending = w.pending /\ Report(k, r).phase = w.phase
    BY <1>0 DEF Report, Memory
  <1>2. ASSUME NEW k, ExWatch(k) PROVE w'.pending = w.pending /\ w'.phase = w.phase
    BY <1>0, <1>2 DEF ExWatch, Report, Memory
  <1>3. w'.pending = w.pending /\ w'.phase = w.phase
    BY <1>1, <1>2 DEF Executor, ExPrepare, ExSubmit
  <1>4. w.phase # "down"
    BY DEF Executor, ExPrepare, ExSubmit, ExWatch, Working
  <1> QED BY <1>3, <1>4 DEF PendingStep, Up

\* Every step.
LEMMA PendingSteps ==
    ASSUME Clean, faults' = 0, Next
    PROVE  PendingStep
  <1>1. ASSUME Backend PROVE PendingStep
    BY <1>1 DEF Backend, BackendStarts, BackendEnds, PendingStep
  <1> QED BY <1>1, CommandPending, StartupPending, DispatchPending, EventPending, ExecutorPending
          DEF Next, MainLoop

\* A restarted worker finds the queue in the order of the projects and ids.
LEMMA BootSorts ==
    ASSUME Clean, NEW R, Boot(R, "ok")
    PROVE  /\ w'.phase = "resuming"
           /\ \A i, k \in 1..Len(w'.pending) : i < k => Before(w'.pending[i], w'.pending[k])
  <1> DEFINE m == [Lost EXCEPT !.phase = "resuming"]
             sh == RecoverShots(R)
  <1>1. R = Projects /\ w' \in Rebuilt(m, sh)
    BY DEF Boot, RebuildShots
  <1>2. m \in Memory /\ m.phase = "resuming"
    BY LostType DEF Lost, Memory
  <1>3. /\ sh \in ShotFiles /\ FilesInv(job, sh, takeFiles)
        /\ \A s \in Shots : sh[s].active # NoJob =>
              job[sh[s].active].state \in {"Queued", "Active", "Blocked"}
    BY <1>1, RecoverFiles DEF Clean, Healthy
  <1> HIDE DEF m, sh
  <1> QED BY <1>1, <1>2, <1>3, RebuiltQueue

\* The first start finds an empty queue, a later one comes after a crash.
LEMMA BootOrder ==
    ASSUME Clean, Clean', OrderInv,
           NEW R, NEW end \in {"ok", "error", "crash"}, Boot(R, end)
    PROVE  /\ Ordered(w.pending)'
           /\ crashes' = 0 /\ w'.phase = "down" => \A s \in Shots : shot'[s].active = NoJob
  <1>1. /\ w.phase = "down" /\ job' = job /\ shot' = RecoverShots(R)
        /\ crashes \in Nat /\ faults = 0 /\ faults' = 0 /\ shot \in ShotFiles
    BY CleanFacts DEF Boot, RebuildShots, Clean, Inv, TypeOK
  <1>2. CASE end = "crash"
    <2>1. w' = Lost /\ crashes' = crashes + 1
      BY <1>2 DEF Boot, RebuildShots
    <2> QED BY <1>1, <2>1 DEF Lost, Ordered
  <1>3. end # "error"
    <2>1. \A p \in Projects : Readable(p)
      BY DEF Readable, Clean, Healthy, FilesInv, PointsAtItsJob
    <2> QED BY <1>1, <2>1 DEF Boot, RebuildShots
  <1>4. CASE end = "ok"
    <2>1. /\ Boot(R, "ok")
          /\ crashes' = crashes
      BY <1>1, <1>4 DEF Boot, RebuildShots
    <2>2. \A i, k \in 1..Len(w'.pending) : i < k => Before(w'.pending[i], w'.pending[k])
      BY <2>1, BootSorts
    <2>3. w' \in Memory
      BY DEF Clean, Inv, TypeOK
    <2>4. w'.phase # "down"
      BY <2>1, BootSorts
    <2>5. ASSUME NEW i \in 1..Len(w'.pending)
          PROVE  \E s \in Shots : /\ shot'[s].active = w'.pending[i]
                                  /\ shot'[s].active # NoJob
      <3>1. w'.pending[i] \in Jobs /\ w'.pending[i] # NoJob
        BY <2>3, PendingJobs DEF Jobs, NoJob
      <3> QED BY <2>4, <3>1 DEF Clean, Healthy, QueueInv
    <2>6. CASE crashes' > 0
      <3> SUFFICES ASSUME NEW i \in 1..Len(w'.pending), NEW k \in 1..Len(w'.pending), i < k
                   PROVE  InTurn(w.pending[i], w.pending[k])'
        BY <2>4 DEF Ordered
      <3>1. Before(w'.pending[i], w'.pending[k])
        BY <2>2
      <3> QED BY <1>1, <2>6, <3>1 DEF Before, InTurn
    <2>7. CASE crashes' = 0
      <3>1. \A s \in Shots : shot[s].active = NoJob
        BY <1>1, <2>1, <2>7 DEF OrderInv
      <3>2. \A s \in Shots : shot'[s].active = NoJob
        BY <1>1, <3>1 DEF RecoverShots, RecoverShot
      <3> QED BY <2>5, <3>2 DEF Ordered
    <2> QED BY <1>1, <2>1, <2>6, <2>7
  <1> QED BY <1>2, <1>3, <1>4

\* The order of two waiting jobs outlives a step.
LEMMA TurnKept ==
    ASSUME Clean, Clean', Next, NEW i \in Jobs, NEW j \in Jobs, InTurn(i, j),
           job[i].state # "Absent", job[j].state # "Absent"
    PROVE  InTurn(i, j)'
  <1>1. JobStep(i) /\ JobStep(j) /\ i \notin Fresh /\ j \notin Fresh
    BY JobSteps DEF Fresh
  <1>2. job'[i].shot = job[i].shot /\ job'[j].shot = job[j].shot
    BY <1>1 DEF JobStep
  <1>3. crashes > 0 => crashes' > 0
    <2>1. Inv /\ crashes \in Nat /\ crashes' \in Nat
      BY DEF Clean, Inv, TypeOK
    <2>2. crashes <= crashes'
      BY <2>1, CountsGrow
    <2> QED BY <2>1, <2>2
  <1> QED BY <1>2, <1>3 DEF InTurn

\* The invariant is inductive.
LEMMA OrderNext ==
    ASSUME Clean, Clean', OrderInv, Next
    PROVE  OrderInv'
  <1>1. /\ w \in Memory /\ w.pending \in Seq(Jobs) /\ crashes \in Nat /\ faults' = 0
        /\ shot \in ShotFiles
    BY CleanFacts DEF Clean, Inv, TypeOK, Memory
  <1>0. \A i \in 1..Len(w.pending) : w.pending[i] \in Jobs
    BY <1>1, PendingJobs
  <1>2. ASSUME NEW i \in Jobs, NEW j \in Jobs, i < j, job'[i].state = "Absent"
        PROVE  job'[j].state = "Absent"
    <2>1. JobStep(i) /\ JobStep(j)
      BY JobSteps
    <2>2. job[i].state = "Absent"
      BY <1>2, <2>1 DEF JobStep, Held, Terminal
    <2>3. job[j].state = "Absent"
      BY <1>2, <2>2 DEF OrderInv
    <2>4. j \notin Fresh
      BY <1>2, <2>2 DEF Fresh, Jobs
    <2> QED BY <2>1, <2>3, <2>4 DEF JobStep, Held
  <1>3. PendingStep
    BY <1>1, PendingSteps
  <1>4. ASSUME w.phase # "down",
               NEW i \in 1..Len(w.pending), NEW k \in 1..Len(w.pending), i < k,
               NEW a \in Jobs, NEW b \in Jobs, a = w.pending[i], b = w.pending[k]
        PROVE  InTurn(a, b)'
    <2>1. job[a].state # "Absent" /\ job[b].state # "Absent"
      BY <1>4, CleanFacts
    <2>2. InTurn(a, b)
      BY <1>4 DEF OrderInv, Ordered
    <2> QED BY <2>1, <2>2, TurnKept
  <1>5. CASE w' = Lost /\ crashes' # 0
    <2>1. w'.pending = <<>>
      BY <1>5 DEF Lost
    <2>2. Ordered(w.pending)'
      BY <2>1 DEF Ordered
    <2> QED BY <1>2, <1>5, <2>2 DEF OrderInv
  <1>6. CASE Up /\ w'.pending = w.pending
    <2>1. Ordered(w.pending)'
      BY <1>0, <1>4, <1>6 DEF Ordered, InTurn, Up
    <2> QED BY <1>2, <1>6, <2>1 DEF OrderInv, Up
  <1>7. ASSUME NEW j \in Fresh, Up, w'.pending = Append(w.pending, j) PROVE OrderInv'
    <2> DEFINE l == Len(w.pending)
    <2>1. l \in Nat /\ Len(w'.pending) = l + 1
      BY <1>1, <1>7, AppendProperties, LenProperties
    <2>2. \A i \in 1..(l + 1) : w'.pending[i] = IF i <= l THEN w.pending[i] ELSE j
      BY <1>1, <1>7, <2>1, AppendProperties
    <2>3. j \in Jobs /\ job[j].state = "Absent"
      BY DEF Fresh
    <2>4. ASSUME NEW i \in 1..l PROVE w.pending[i] < j
      <3>1. w.pending[i] \in Jobs /\ job[w.pending[i]].state = "Queued"
        BY <1>7, CleanFacts DEF Up
      <3>2. ~(j < w.pending[i]) /\ w.pending[i] # j
        BY <2>3, <3>1 DEF OrderInv
      <3> QED BY <2>3, <3>1, <3>2 DEF Jobs
    <2>5. ASSUME NEW i \in 1..(l + 1), NEW k \in 1..(l + 1), i < k
          PROVE  InTurn(w.pending[i], w.pending[k])'
      <3>1. i \in 1..l /\ w'.pending[i] = w.pending[i]
        BY <2>1, <2>2, <2>5
      <3>2. CASE k \in 1..l
        <4>1. /\ w'.pending[k] = w.pending[k]
              /\ w.pending[i] \in Jobs /\ w.pending[k] \in Jobs
          BY <1>0, <2>1, <2>2, <3>1, <3>2
        <4> QED BY <1>4, <1>7, <2>5, <3>1, <3>2, <4>1 DEF Up, InTurn
      <3>3. CASE k = l + 1
        BY <2>1, <2>2, <2>4, <3>1, <3>3 DEF InTurn
      <3> QED BY <2>1, <3>2, <3>3
    <2>6. Ordered(w.pending)'
      BY <2>1, <2>5 DEF Ordered
    <2> QED BY <1>2, <1>7, <2>6 DEF OrderInv, Up
  <1>8. ASSUME NEW r \in 1..Len(w.pending), Up, w'.pending = RemoveAt(w.pending, r)
        PROVE  OrderInv'
    <2> DEFINE l == Len(w.pending)
    <2>1. /\ l \in Nat /\ Len(w'.pending) = l - 1
          /\ \A k \in 1..(l - 1) :
                w'.pending[k] = IF k < r THEN w.pending[k] ELSE w.pending[k + 1]
      BY <1>1, <1>8, RemoveAtFacts, LenProperties
    <2>2. ASSUME NEW i \in 1..(l - 1), NEW k \in 1..(l - 1), i < k
          PROVE  InTurn(w.pending[i], w.pending[k])'
      <3>1. PICK a \in 1..l : a = (IF i < r THEN i ELSE i + 1) /\ w'.pending[i] = w.pending[a]
        BY <2>1
      <3>2. PICK b \in 1..l : b = (IF k < r THEN k ELSE k + 1) /\ w'.pending[k] = w.pending[b]
        BY <2>1
      <3>3. a < b
        BY <2>1, <2>2, <3>1, <3>2
      <3> QED BY <1>0, <1>4, <1>8, <3>1, <3>2, <3>3 DEF Up, InTurn
    <2>3. Ordered(w.pending)'
      BY <2>1, <2>2 DEF Ordered
    <2> QED BY <1>2, <1>8, <2>3 DEF OrderInv, Up
  <1>9. CASE w' = w /\ shot' = shot /\ crashes' = crashes
    <2>1. CASE w.phase = "down"
      <3>1. w'.pending = <<>>
        BY <1>9, <2>1 DEF Clean, Healthy, WorkInv, Lost
      <3>2. Ordered(w.pending)'
        BY <3>1 DEF Ordered
      <3> QED BY <1>2, <1>9, <3>2 DEF OrderInv
    <2>2. CASE w.phase # "down"
      <3>1. Ordered(w.pending)'
        BY <1>0, <1>4, <1>9, <2>2 DEF Ordered, InTurn
      <3> QED BY <1>2, <1>9, <2>2, <3>1 DEF OrderInv
    <2> QED BY <2>1, <2>2
  <1>10. ASSUME NEW R \in SUBSET Projects, NEW end \in {"ok", "error", "crash"}, Boot(R, end)
         PROVE  OrderInv'
    BY <1>2, <1>10, BootOrder DEF OrderInv
  <1> QED BY <1>3, <1>5, <1>6, <1>7, <1>8, <1>9, <1>10 DEF PendingStep

\* While no write fails, jobs start in the order they were accepted, paused
\* projects aside, in any number of projects; only the rebuild after a crash
\* lets one pass an older job, and then only if its project comes first
\* (next_executor_request, enqueue_shot, rebuild_queue_from_projects).
THEOREM StartsInTurn == Spec /\ [](faults = 0) => StartsInOrder
  <1>1. Init => OrderInv
    <2> SUFFICES ASSUME Init PROVE OrderInv
      OBVIOUS
    <2>1. w.pending = <<>>
      BY DEF Init, Lost
    <2> QED BY <2>1 DEF Init, OrderInv, Ordered, Jobs
  <1>2. QInv /\ QInv' /\ faults = 0 /\ (faults = 0)' /\ OrderInv /\ [Next]_vars => OrderInv'
    <2> SUFFICES ASSUME QInv, QInv', faults = 0, faults' = 0, OrderInv, [Next]_vars
                 PROVE  OrderInv'
      OBVIOUS
    <2>1. CASE Next
      BY <2>1, OrderNext DEF QInv, Clean
    <2>2. CASE UNCHANGED vars
      BY <2>2 DEF vars, OrderInv, Ordered, InTurn
    <2> QED BY <2>1, <2>2
  <1>3. QInv /\ SentInv /\ faults = 0 /\ OrderInv /\ [Next]_vars =>
          [\A i, j \in Jobs :
              /\ i < j /\ Waiting(i) /\ Waiting(j)
              /\ job'[j].state = "Active" /\ job'[i].state # "Active"
              => crashes > 0 /\ ProjectOf[job[j].shot] < ProjectOf[job[i].shot]]_vars
    <2> SUFFICES ASSUME QInv, SentInv, faults = 0, OrderInv, Next, NEW i \in Jobs, NEW j \in Jobs,
                        i < j, Waiting(i), Waiting(j), job'[j].state = "Active"
                 PROVE  crashes > 0 /\ ProjectOf[job[j].shot] < ProjectOf[job[i].shot]
      OBVIOUS
    <2>1. Clean
      BY DEF QInv, Clean
    <2>2. /\ job[i].state = "Queued" /\ job[j].state = "Queued"
          /\ shot[job[i].shot].active = i /\ ~projectPaused[ProjectOf[job[i].shot]]
      BY DEF Waiting
    <2>3. IsNext(j)
      BY <2>1, <2>2, JobSteps DEF JobStep, Fresh, Held
    <2>4. /\ w.phase # "down" /\ w.running = NoJob /\ w \in Memory
          /\ DOMAIN w.pending = 1..Len(w.pending) /\ Len(w.pending) \in Nat
      BY <2>1, <2>3, CleanFacts, PendingJobs DEF IsNext, Serving, Memory
    <2>5. PICK k \in 1..Len(w.pending) : w.pending[k] = j /\ FirstEligible(k)
      BY <2>3, <2>4 DEF IsNext
    <2>6. PICK l \in 1..Len(w.pending) : w.pending[l] = i
      <3>1. job[i].shot \in Shots /\ i # NoJob
        BY <2>2 DEF SentInv, Jobs, NoJob
      <3> QED BY <2>1, <2>2, <2>4, <3>1 DEF Clean, Healthy, QueueInv, Awaited
    <2>7. k < l
      BY <2>2, <2>4, <2>5, <2>6 DEF FirstEligible, Jobs
    <2>8. InTurn(j, i)
      BY <2>5, <2>6, <2>7 DEF OrderInv, Ordered
    <2> QED BY <2>8 DEF InTurn, Jobs
  <1> QED BY <1>1, <1>2, <1>3, QInvariance, SentInvariance, PTL DEF Spec, StartsInOrder
=============================================================================
