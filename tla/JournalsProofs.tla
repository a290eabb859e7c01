---------------------------- MODULE JournalsProofs ----------------------------
(***************************************************************************)
(* Proofs about Journals, for all commands, kinds and files: with any      *)
(* number of crashes, failing writes and writes of the main loop.  Where   *)
(* no write has failed, also that no decision is lost, and that the        *)
(* command journal implements CommandLedger.                               *)
(***************************************************************************)
EXTENDS Journals, TLAPS

-----------------------------------------------------------------------------
(* The inductive invariant, over the memory m *)

\* The steps only a client's command takes.
Working == {"guard", "planfile", "prepare", "job", "queue", "mark", "unplan",
            "reply", "commit"}

Recovering(m) == m.at \in {"recover", "redo"}

\* What the command at work has still before it.
ToGuard(m) == m.at = "guard" \/ (Recovering(m) /\ m.then = "guard")
ToSave(m) == m.at = "save" \/ (Recovering(m) /\ m.then = "save")
ToCommit(m) == m.at = "commit" \/ (Recovering(m) /\ m.then = "commit")
Before(m) ==
    \/ ToGuard(m)
    \/ ToSave(m)
    \/ m.at \in {"planfile", "prepare", "job", "queue", "mark"}

CleanupKinds == {"plan", "apply", "restore"}

\* Which steps the phases of the process, the main loop and the commands take.
ControlInv(m) ==
    /\ m.at \in Working => m.cmd \in Commands
    /\ Recovering(m) => m.then \in {"idle", "guard", "save", "commit", "terminal"}
    /\ Recovering(m) /\ m.then \in {"guard", "commit"} => m.cmd \in Commands
    /\ Recovering(m) /\ m.then = "idle" => m.cmd = Camera
    /\ Recovering(m) /\ m.then = "terminal" => m.phase = "boot"
    /\ m.at \in {"terminal", "answers"} => m.phase = "boot"
    /\ m.phase = "boot" => m.cmd = Camera
    /\ m.at \in {"event", "snapshot"} => m.phase # "boot"
    /\ m.at = "snapshot" => m.cmd # Builder
    /\ m.at = "idle" => m.cmd = Camera /\ m.then = "idle"

\* Nothing is known of the outcome of the command at work.
AtWorkInv(m) ==
    m.cmd \in Commands => /\ m.phase = "serving"
                          /\ m.known[m.cmd] = "prepared"
                          /\ journal[m.cmd] # "none"
                          /\ sent[m.cmd] \in Request

\* No file shows command c.
Fresh(c) == dec[c] = 0 /\ effects[c] = 0 /\ plan[c].status = "none"

\* A command the worker does not know is fresh.
KnownInv(m) == m.phase # "down" => \A c \in Commands : m.known[c] = "none" => Fresh(c)

\* How far the command at work has come.
ProgressInv(m) ==
    m.cmd \in Commands =>
        /\ Before(m) => /\ effects[m.cmd] = 0 \/ (sent[m.cmd].kind = "cancel" /\ ToSave(m))
                        /\ \A p \in Interrupted : plan[p].op # m.cmd
        /\ ToGuard(m) => dec[m.cmd] = 0 /\ m.expected = sent[m.cmd].expected
        /\ Recovering(m) /\ m.then = "guard" => sent[m.cmd].kind \in CleanupKinds
        /\ m.at = "guard" =>
               m.then = IF sent[m.cmd].kind \in CleanupKinds THEN "guard" ELSE "save"
        /\ m.at = "planfile" => sent[m.cmd].kind = "plan" /\ dec[m.cmd] = 0 /\ m.left = 1
        /\ m.at = "job" => sent[m.cmd].kind = "cancel" /\ dec[m.cmd] = 0 /\ m.then = "save"
        /\ m.at = "prepare" =>
               /\ sent[m.cmd].kind \in {"reject", "batch", "plan", "apply", "restore"}
               /\ sent[m.cmd].kind \in {"reject", "batch", "plan"} => m.then = "save"
               /\ m.left >= 1
               /\ dec[m.cmd] + m.left = DecisionsOf(sent[m.cmd].kind)
               /\ sent[m.cmd].kind \in {"apply", "restore"} => m.expected = state.revision
        /\ m.at = "mark" => /\ sent[m.cmd].kind \in {"apply", "restore"}
                            /\ dec[m.cmd] = 1
                            /\ m.left = 1
                            /\ m.expected = state.revision
        /\ m.at \in {"prepare", "mark"} /\ sent[m.cmd].kind \in {"apply", "restore"} =>
               plan[sent[m.cmd].arg].status # "none"
        /\ ToSave(m) =>
               /\ sent[m.cmd].kind \in {"enqueue", "cancel", "build", "reject", "batch", "plan"}
               /\ dec[m.cmd] = DecisionsOf(sent[m.cmd].kind)
        /\ ToCommit(m) => 1 <= m.left /\ m.left <= dec[m.cmd]
        /\ m.at = "event" => sent[m.cmd].kind = "cancel"

\* Where every interrupted cleanup has been finished.
CleanInv(m) ==
    \/ m.at = "save"
    \/ m.at = "redo" /\ m.then \in {"guard", "save"}
    \/ m.at = "guard" /\ sent[m.cmd].kind \in CleanupKinds
    \/ m.at \in {"prepare", "mark"} /\ sent[m.cmd].kind \in {"apply", "restore"}
    => Interrupted = {}

\* Whose id the next state takes, and who took effect before a commit.
MarkInv(m) ==
    /\ m.cmd \in Commands => m.mark = m.cmd
    /\ ToSave(m) /\ m.cmd \in Commands /\ sent[m.cmd].kind = "cancel" => effects[m.cmd] > 0
    /\ ToSave(m) /\ m.cmd \notin Commands /\ m.mark \in Commands => effects[m.mark] > 0
    /\ m.at = "recover" /\ m.then = "commit" =>
           effects[m.cmd] > 0 \/ \E p \in Interrupted : plan[p].op = m.cmd
    /\ m.at = "commit" \/ (m.at = "redo" /\ m.then = "commit") => effects[m.cmd] > 0

\* The worker knows the answers of the journal.
AnswersInv(m) ==
    m.phase # "down" => \A c \in Commands :
        /\ m.known[c] \in Final => journal[c] = m.known[c]
        /\ m.known[c] \notin Final => told[c] \cap Final = {}

MemInv(m) ==
    /\ ControlInv(m) /\ AtWorkInv(m) /\ KnownInv(m) /\ ProgressInv(m)
    /\ CleanInv(m) /\ MarkInv(m) /\ AnswersInv(m)

\* What the requests name.
SentInv ==
    \A c \in Commands :
        /\ sent[c].kind = "reject" => sent[c].arg \in Items
        /\ sent[c].kind \in {"apply", "restore"} => sent[c].arg \in Commands

\* A command that is not journaled is fresh.
JournalInv == \A c \in Commands : journal[c] = "none" => Fresh(c)

\* The interrupted cleanup: its command prepared a decision, and took effect
\* only if the state says so.
PlansInv ==
    \A p \in Interrupted : /\ plan[p].op \in Commands
                           /\ dec[plan[p].op] > 0
                           /\ effects[plan[p].op] = IF Stamped(p) THEN 1 ELSE 0

\* The command the state names took effect.
LastInv == state.last \in Commands => effects[state.last] > 0

DataInv ==
    /\ SentInv /\ JournalInv /\ PlansInv /\ LastInv
    /\ CleanupRecoverable /\ OneEffect /\ CommittedDecisionsHold /\ AnswersAreKept

Inv == TypeOK /\ DataInv /\ MemInv(w)

-----------------------------------------------------------------------------
(* Memory *)

\* What each part of a memory is.
LEMMA MemoryParts ==
    ASSUME NEW m \in Memory
    PROVE  /\ m.phase \in {"down", "boot", "serving"}
           /\ m.cmd \in Commands \cup {Camera, Builder}
           /\ m.at \in Step /\ m.then \in Step
           /\ m.left \in 0..2
           /\ m.reply \in {"success", "failure"}
           /\ m.known \in [Commands -> Status]
           /\ m.expected \in Nat
           /\ m.mark \in Commands \cup {Camera, None}
           /\ m.queueLast \in Commands \cup {Camera, None}
  BY DEF Memory

\* The ids of the worker's own writes are no commands.
LEMMA OwnIds == Camera \notin Commands /\ Builder \notin Commands /\ None \notin Commands
                /\ Camera # Builder
  BY CommandsAssumption DEF Camera, Builder, None

\* The memory of no process.
LEMMA LostType ==
    /\ Lost \in Memory
    /\ Lost.phase = "down" /\ Lost.at = "idle" /\ Lost.then = "idle" /\ Lost.cmd = Camera
  BY DEF Lost, Memory, Step, Status, Final

\* The worker is free.
LEMMA IdleMemory ==
    ASSUME NEW m \in Memory, NEW n,
           n = [m EXCEPT !.cmd = Camera, !.at = "idle", !.then = "idle", !.left = 0,
                         !.expected = 0, !.mark = None, !.reply = "failure"]
    PROVE  /\ n \in Memory
           /\ n.at = "idle" /\ n.then = "idle" /\ n.cmd = Camera
           /\ n.phase = m.phase /\ n.known = m.known /\ n.mark = None
  <1>1. n = [phase |-> m.phase, cmd |-> Camera, at |-> "idle", then |-> "idle", left |-> 0,
             reply |-> "failure", known |-> m.known, expected |-> 0, mark |-> None,
             queueLast |-> m.queueLast]
    BY DEF Memory
  <1> QED BY <1>1, MemoryParts DEF Memory, Step

\* The memory of a free worker.
LEMMA IdleType ==
    ASSUME w \in Memory
    PROVE  /\ Idle \in Memory
           /\ Idle.at = "idle" /\ Idle.then = "idle" /\ Idle.cmd = Camera
           /\ Idle.phase = w.phase /\ Idle.known = w.known /\ Idle.mark = None
  BY IdleMemory DEF Idle

\* The next step of the worker.
LEMMA GoType ==
    ASSUME w \in Memory, NEW step \in Step
    PROVE  /\ Go(step) \in Memory
           /\ Go(step).at = step
           /\ Go(step).phase = w.phase /\ Go(step).cmd = w.cmd
           /\ Go(step).then = w.then /\ Go(step).left = w.left
           /\ Go(step).known = w.known /\ Go(step).expected = w.expected
           /\ Go(step).mark = w.mark
  BY DEF Go, Memory

\* An answer.
LEMMA SayMemory ==
    ASSUME NEW m \in Memory, NEW answer \in {"success", "failure"}, NEW n,
           n = [m EXCEPT !.at = "reply", !.reply = answer]
    PROVE  /\ n \in Memory
           /\ n.at = "reply"
           /\ n.phase = m.phase /\ n.cmd = m.cmd
           /\ n.then = m.then /\ n.known = m.known /\ n.mark = m.mark
  <1>1. n = [phase |-> m.phase, cmd |-> m.cmd, at |-> "reply", then |-> m.then, left |-> m.left,
             reply |-> answer, known |-> m.known, expected |-> m.expected, mark |-> m.mark,
             queueLast |-> m.queueLast]
    BY DEF Memory
  <1> QED BY <1>1, MemoryParts DEF Memory, Step

\* The memory of a worker about to answer.
LEMMA SayType ==
    ASSUME w \in Memory, NEW answer \in {"success", "failure"}
    PROVE  /\ Say(answer) \in Memory
           /\ Say(answer).at = "reply"
           /\ Say(answer).phase = w.phase /\ Say(answer).cmd = w.cmd
           /\ Say(answer).then = w.then /\ Say(answer).known = w.known
           /\ Say(answer).mark = w.mark
  BY SayMemory DEF Say

\* What an error leaves: a process that is gone or free, or a command that
\* removes its plan or says that it failed.
Halted(m) ==
    /\ m \in Memory
    /\ \/ m.at = "idle" /\ m.then = "idle" /\ m.cmd = Camera /\ m.phase = "down"
       \/ /\ m.at = "idle" /\ m.then = "idle" /\ m.cmd = Camera
          /\ m.phase = w.phase /\ m.phase # "boot" /\ m.known = w.known
       \/ /\ m.at \in {"unplan", "reply"} /\ m.cmd = w.cmd /\ w.cmd \in Commands
          /\ m.phase = w.phase /\ m.known = w.known /\ m.mark = w.mark

\* An error leaves such a memory.
LEMMA FailedHalts ==
    ASSUME w \in Memory
    PROVE  Halted(Failed)
  <1>1. w.cmd \in Commands \cup {Camera, Builder}
    BY MemoryParts
  <1>2. CASE w.phase = "boot" \/ w.cmd = Builder
    BY <1>2, LostType DEF Failed, Halted
  <1>3. CASE ~(w.phase = "boot" \/ w.cmd = Builder) /\ w.cmd = Camera
    BY <1>3, IdleType DEF Failed, Halted
  <1>4. CASE ~(w.phase = "boot" \/ w.cmd = Builder) /\ w.cmd # Camera
    <2>1. "unplan" \in Step
      BY DEF Step
    <2> QED BY <1>1, <1>4, <2>1, GoType, SayType DEF Failed, Halted
  <1> QED BY <1>2, <1>3, <1>4

-----------------------------------------------------------------------------
(* Writes *)

\* A write that was acknowledged took effect.
LEMMA ResultParts ==
    ASSUME NEW r \in Results
    PROVE  r.done \in BOOLEAN /\ r.ok \in BOOLEAN /\ (r.ok => r.done)
  BY DEF Results

\* The bound of failing writes stays a number.
LEMMA SpendType ==
    ASSUME faults \in Nat, NEW r \in Results, Spend(r)
    PROVE  faults' \in Nat
  BY ResultParts DEF Spend

\* What the invariant says of the files and the answers.
LEMMA DataKept ==
    ASSUME DataInv, UNCHANGED <<journal, state, dec, com, plan, sent, told, effects>>
    PROVE  DataInv'
  BY DEF DataInv, SentInv, JournalInv, PlansInv, LastInv, CleanupRecoverable, OneEffect,
         CommittedDecisionsHold, AnswersAreKept, Interrupted, Stamped, Fresh

\* Writes of a command the worker knows.
KnownKept == \A c \in Commands : w.known[c] = "none" /\ Fresh(c) => Fresh(c)'

\* After an error the memory is in order.
LEMMA HaltedMem ==
    ASSUME Inv, Halted(w'), KnownKept, UNCHANGED <<journal, sent, told>>
    PROVE  MemInv(w)'
  <1> USE DEF Inv, MemInv
  <1>1. ControlInv(w)'
    BY OwnIds DEF Halted, ControlInv, AtWorkInv, Working, Recovering
  <1>2. AtWorkInv(w)'
    BY OwnIds DEF Halted, AtWorkInv
  <1>3. KnownInv(w)'
    BY DEF Halted, KnownInv, KnownKept
  <1>4. ProgressInv(w)'
    BY OwnIds DEF Halted, ProgressInv, Before, ToGuard, ToSave, ToCommit, Recovering
  <1>5. CleanInv(w)'
    BY OwnIds DEF Halted, CleanInv
  <1>6. MarkInv(w)'
    BY OwnIds DEF Halted, MarkInv, ToSave, Recovering
  <1>7. AnswersInv(w)'
    BY DEF Halted, AnswersInv
  <1> QED BY <1>1, <1>2, <1>3, <1>4, <1>5, <1>6, <1>7

-----------------------------------------------------------------------------
(* Steps that write no file of the model *)

\* Only the memory and the counters change.
LEMMA TypeKept ==
    ASSUME TypeOK, UNCHANGED <<disk, history>>, w' \in Memory,
           background' \in Nat, crashes' \in Nat, faults' \in Nat
    PROVE  TypeOK'
  BY DEF TypeOK, disk, history

\* Only the memory changes.
LEMMA MemoryStep ==
    ASSUME Inv, UNCHANGED <<disk, history>>, w' \in Memory, MemInv(w)',
           background' \in Nat, crashes' \in Nat, faults' \in Nat
    PROVE  Inv'
  BY TypeKept, DataKept DEF Inv, disk, history

\* The worker is gone.
LEMMA DownMem ==
    ASSUME w' = Lost
    PROVE  MemInv(w)'
  BY LostType, OwnIds DEF MemInv, ControlInv, AtWorkInv, KnownInv, ProgressInv, CleanInv, MarkInv,
     AnswersInv, Working, Recovering, Before, ToGuard, ToSave, ToCommit

\* Crash keeps the invariant.
LEMMA CrashInv ==
    ASSUME Inv, Crash
    PROVE  Inv'
  BY LostType, DownMem, MemoryStep DEF Crash, Inv, TypeOK

\* SaveConflict keeps the invariant.
LEMMA SaveConflictInv ==
    ASSUME Inv, SaveConflict
    PROVE  Inv'
  <1>1. w \in Memory /\ UNCHANGED <<disk, history, background, crashes, faults>>
    BY DEF Inv, TypeOK, SaveConflict
  <1>2. Halted(w')
    BY <1>1, FailedHalts DEF SaveConflict
  <1>3. KnownKept
    BY <1>1 DEF KnownKept, Fresh, disk, history
  <1> QED BY <1>1, <1>2, <1>3, HaltedMem, MemoryStep DEF Inv, TypeOK, Halted, disk, history

\* Reading the memory and the files that did not change.
LEMMA GoMem ==
    ASSUME Inv, NEW step \in Step, w' = Go(step), UNCHANGED <<disk, history>>,
           ControlInv(w)', ProgressInv(w)', CleanInv(w)', MarkInv(w)'
    PROVE  MemInv(w)' /\ w' \in Memory
  <1>1. w \in Memory
    BY DEF Inv, TypeOK
  <1>2. w' \in Memory /\ w'.phase = w.phase /\ w'.cmd = w.cmd /\ w'.known = w.known
    BY <1>1, GoType
  <1>3. AtWorkInv(w)' /\ KnownInv(w)' /\ AnswersInv(w)'
    BY <1>2 DEF Inv, MemInv, AtWorkInv, KnownInv, AnswersInv, Fresh, disk, history
  <1> QED BY <1>2, <1>3 DEF MemInv

\* RecoverNothing keeps the invariant.
LEMMA RecoverNothingInv ==
    ASSUME Inv, RecoverNothing
    PROVE  Inv'
  <1> DEFINE step == IF w.then \in {"guard", "idle"} THEN w.then ELSE "redo"
  <1>1. /\ w \in Memory /\ MemInv(w) /\ w.at = "recover" /\ Interrupted = {}
        /\ UNCHANGED <<disk, history, background, crashes, faults>>
    BY DEF Inv, TypeOK, RecoverNothing, At
  <1>2. step \in Step /\ w' = Go(step)
    BY DEF Step, RecoverNothing
  <1>3. /\ w'.at = step /\ w'.phase = w.phase /\ w'.cmd = w.cmd /\ w'.then = w.then
        /\ w'.left = w.left /\ w'.mark = w.mark /\ w'.expected = w.expected
    BY <1>1, <1>2, GoType
  <1>4. w.then \in {"idle", "guard", "save", "commit", "terminal"}
    BY <1>1 DEF MemInv, ControlInv, Recovering
  <1>5. ControlInv(w)'
    BY <1>1, <1>3, <1>4 DEF MemInv, ControlInv, Working, Recovering
  <1>6. Interrupted' = {} /\ UNCHANGED <<plan, state, dec, effects, sent>>
    BY <1>1 DEF Interrupted, disk, history
  <1>7. ProgressInv(w)'
    BY <1>1, <1>3, <1>4, <1>6 DEF MemInv, ProgressInv, Before, ToGuard, ToSave, ToCommit,
       Recovering
  <1>8. CleanInv(w)'
    BY <1>6 DEF CleanInv
  <1>9. MarkInv(w)'
    BY <1>1, <1>3, <1>4, <1>6 DEF MemInv, MarkInv, ToSave, Recovering
  <1> HIDE DEF step
  <1> QED BY <1>1, <1>2, <1>5, <1>7, <1>8, <1>9, GoMem, MemoryStep DEF Inv, TypeOK

\* RedoDone keeps the invariant.
LEMMA RedoDoneInv ==
    ASSUME Inv, RedoDone
    PROVE  Inv'
  <1>1. /\ w \in Memory /\ MemInv(w) /\ w.at = "redo" /\ w' = Go(w.then)
        /\ UNCHANGED <<disk, history, background, crashes, faults>>
    BY DEF Inv, TypeOK, RedoDone, At
  <1>2. w.then \in Step
    BY <1>1, MemoryParts
  <1>3. /\ w'.at = w.then /\ w'.phase = w.phase /\ w'.cmd = w.cmd /\ w'.then = w.then
        /\ w'.left = w.left /\ w'.mark = w.mark /\ w'.expected = w.expected
    BY <1>1, <1>2, GoType
  <1>4. w.then \in {"idle", "guard", "save", "commit", "terminal"}
    BY <1>1 DEF MemInv, ControlInv, Recovering
  <1>5. ControlInv(w)'
    BY <1>1, <1>3, <1>4 DEF MemInv, ControlInv, Working, Recovering
  <1>6. Interrupted' = Interrupted /\ UNCHANGED <<plan, state, dec, effects, sent>>
    BY <1>1 DEF Interrupted, disk, history
  <1>7. ProgressInv(w)'
    BY <1>1, <1>3, <1>4, <1>6 DEF MemInv, ProgressInv, Before, ToGuard, ToSave, ToCommit,
       Recovering
  <1>8. CleanInv(w)'
    BY <1>1, <1>3, <1>4, <1>6 DEF MemInv, CleanInv
  <1>9. MarkInv(w)'
    BY <1>1, <1>3, <1>4, <1>6 DEF MemInv, MarkInv, ToSave, Recovering
  <1> QED BY <1>1, <1>2, <1>5, <1>7, <1>8, <1>9, GoMem, MemoryStep DEF Inv, TypeOK

\* Read keeps the invariant.
LEMMA ReadInv ==
    ASSUME Inv, NEW step \in {"recover", "redo"}, Read(step)
    PROVE  Inv'
  <1>1. /\ w \in Memory /\ MemInv(w) /\ w.at = "idle" /\ w' = Go(step)
        /\ UNCHANGED <<disk, history, background, crashes, faults>>
    BY DEF Inv, TypeOK, Read, Serving
  <1>2. step \in Step
    BY DEF Step
  <1>3. /\ w'.at = step /\ w'.phase = w.phase /\ w'.cmd = w.cmd /\ w'.then = w.then
        /\ w'.mark = w.mark
    BY <1>1, <1>2, GoType
  <1>4. w.cmd = Camera /\ w.then = "idle"
    BY <1>1 DEF MemInv, ControlInv
  <1>5. ControlInv(w)'
    BY <1>1, <1>3, <1>4 DEF MemInv, ControlInv, Working, Recovering
  <1>6. ProgressInv(w)' /\ CleanInv(w)' /\ MarkInv(w)'
    BY <1>3, <1>4, OwnIds DEF ProgressInv, CleanInv, MarkInv, ToSave, Recovering
  <1> QED BY <1>1, <1>2, <1>5, <1>6, GoMem, MemoryStep DEF Inv, TypeOK

\* The numbers of decisions.
LEMMA DecisionsBound ==
    ASSUME NEW kind
    PROVE  /\ DecisionsOf(kind) \in 0..2
           /\ kind = "batch" => DecisionsOf(kind) = 2
           /\ kind \in {"reject", "plan", "apply", "restore"} => DecisionsOf(kind) = 1
           /\ kind \in {"enqueue", "cancel", "build", "queue"} => DecisionsOf(kind) = 0
  BY DEF DecisionsOf

\* Where a command begins to write.
LEMMA FirstWrites ==
    ASSUME NEW kind \in AllKinds
    PROVE  /\ FirstWrite(kind) \in Step
           /\ kind \in {"enqueue", "build"} => FirstWrite(kind) = "recover"
           /\ kind = "cancel" => FirstWrite(kind) = "job"
           /\ kind = "queue" => FirstWrite(kind) = "queue"
           /\ kind = "plan" => FirstWrite(kind) = "planfile"
           /\ kind \in {"reject", "batch", "apply", "restore"} => FirstWrite(kind) = "prepare"
  BY DEF FirstWrite, AllKinds, Step, SaveEntry

\* Guard keeps the invariant.
LEMMA GuardInv ==
    ASSUME Inv, Guard
    PROVE  Inv'
  <1> DEFINE q == sent[w.cmd]
  <1>1. /\ w \in Memory /\ MemInv(w) /\ w.at = "guard"
        /\ UNCHANGED <<disk, history, background, crashes, faults>>
    BY DEF Inv, TypeOK, Guard, At
  <1>2. /\ w.cmd \in Commands /\ w.phase = "serving"
        /\ q \in Request /\ q.kind \in AllKinds
    BY <1>1, OwnIds DEF MemInv, ControlInv, AtWorkInv, Working, Request
  <1>3. CASE Refused(q)
    <2>1. w' = Say("failure")
      BY <1>3 DEF Guard
    <2>2. Halted(w')
      BY <1>1, <1>2, <2>1, SayType DEF Halted
    <2>3. KnownKept
      BY <1>1 DEF KnownKept, Fresh, disk, history
    <2> QED BY <1>1, <2>2, <2>3, HaltedMem, MemoryStep DEF Inv, TypeOK, Halted, disk, history
  <1>4. CASE ~Refused(q)
    <2> DEFINE step == FirstWrite(q.kind)
    <2> DEFINE left == DecisionsOf(q.kind)
    <2>1. w' = [w EXCEPT !.at = step, !.left = left]
      BY <1>4 DEF Guard, Kind
    <2>2. step \in Step /\ left \in 0..2
      BY <1>2, FirstWrites, DecisionsBound
    <2>3. /\ w' \in Memory /\ w'.at = step /\ w'.left = left
          /\ w'.phase = w.phase /\ w'.cmd = w.cmd /\ w'.then = w.then
          /\ w'.known = w.known /\ w'.expected = w.expected /\ w'.mark = w.mark
      <3> HIDE DEF step, left
      <3>1. w' = [phase |-> w.phase, cmd |-> w.cmd, at |-> step, then |-> w.then, left |-> left,
                  reply |-> w.reply, known |-> w.known, expected |-> w.expected,
                  mark |-> w.mark, queueLast |-> w.queueLast]
        BY <1>1, <2>1 DEF Memory
      <3> QED BY <1>1, <2>2, <3>1, MemoryParts DEF Memory
    <2>4. /\ Interrupted' = Interrupted
          /\ UNCHANGED <<plan, state, dec, effects, sent, journal, told>>
      BY <1>1 DEF Interrupted, disk, history
    <2>5. /\ effects[w.cmd] = 0 /\ dec[w.cmd] = 0 /\ w.expected = q.expected /\ w.mark = w.cmd
          /\ \A p \in Interrupted : plan[p].op # w.cmd
          /\ w.then = IF q.kind \in CleanupKinds THEN "guard" ELSE "save"
          /\ q.kind \in CleanupKinds => Interrupted = {}
      BY <1>1, <1>2 DEF MemInv, ProgressInv, Before, ToGuard, ToSave, Recovering, CleanInv, MarkInv
    <2>6. /\ q.expected = state.revision
          /\ q.kind \in {"apply", "restore"} => plan[q.arg].status # "none"
      BY <1>4 DEF Refused
    <2>7. ControlInv(w)'
      BY <1>2, <2>3, <2>5, FirstWrites
      DEF ControlInv, Working, Recovering, CleanupKinds, AllKinds
    <2>8. AtWorkInv(w)' /\ KnownInv(w)' /\ AnswersInv(w)'
      BY <1>1, <2>3, <2>4 DEF MemInv, AtWorkInv, KnownInv, AnswersInv, Fresh
    <2>9. ProgressInv(w)'
      BY <1>2, <2>3, <2>4, <2>5, <2>6, FirstWrites, DecisionsBound
      DEF ProgressInv, Before, ToGuard, ToSave, ToCommit, Recovering, CleanupKinds, AllKinds
    <2>10. CleanInv(w)' /\ MarkInv(w)'
      BY <1>2, <2>3, <2>4, <2>5, FirstWrites
      DEF CleanInv, MarkInv, ToSave, Recovering, CleanupKinds, AllKinds
    <2> QED BY <1>1, <2>3, <2>7, <2>8, <2>9, <2>10, MemoryStep DEF Inv, TypeOK, MemInv
  <1> QED BY <1>3, <1>4

\* A memory in which no command is at work and none is about to be.
Quiet(m) ==
    /\ m.cmd = Camera /\ m.then = "idle"
    /\ \/ m.phase = "serving" /\ m.at = "idle"
       \/ m.phase = "boot" /\ m.at = "answers"

\* Such a memory is in order.
LEMMA QuietMem ==
    ASSUME Inv, Quiet(w'), KnownInv(w)', AnswersInv(w)'
    PROVE  MemInv(w)'
  <1>1. ControlInv(w)'
    BY OwnIds DEF Quiet, ControlInv, Working, Recovering
  <1>2. AtWorkInv(w)' /\ ProgressInv(w)' /\ CleanInv(w)' /\ MarkInv(w)'
    BY OwnIds DEF Quiet, AtWorkInv, ProgressInv, CleanInv, MarkInv, ToSave, Recovering
  <1> QED BY <1>1, <1>2 DEF MemInv

\* Open keeps the invariant.
LEMMA OpenInv ==
    ASSUME Inv, Open
    PROVE  Inv'
  <1>1. /\ w \in Memory /\ MemInv(w) /\ w.at = "answers"
        /\ w' = [Idle EXCEPT !.phase = "serving"]
        /\ UNCHANGED <<disk, history, background, crashes, faults>>
    BY DEF Inv, TypeOK, Open, At
  <1>2. /\ Idle \in Memory /\ Idle.at = "idle" /\ Idle.then = "idle" /\ Idle.cmd = Camera
        /\ Idle.known = w.known
    BY <1>1, IdleType
  <1>3. w' \in Memory /\ Quiet(w') /\ w'.known = w.known
    BY <1>1, <1>2 DEF Memory, Quiet
  <1>4. w.phase = "boot"
    BY <1>1 DEF MemInv, ControlInv
  <1>5. KnownInv(w)' /\ AnswersInv(w)'
    BY <1>1, <1>3, <1>4 DEF MemInv, KnownInv, AnswersInv, Fresh, disk, history
  <1> QED BY <1>1, <1>3, <1>5, QuietMem, MemoryStep DEF Inv, TypeOK

\* Boot keeps the invariant.
LEMMA BootInv ==
    ASSUME Inv, Boot
    PROVE  Inv'
  <1>1. UNCHANGED <<disk, history, background, crashes, faults>>
    BY DEF Boot
  <1>2. w' = [phase |-> "boot", cmd |-> Camera, at |-> "recover", then |-> "terminal",
              left |-> 0, reply |-> "failure", known |-> journal, expected |-> 0,
              mark |-> None, queueLast |-> queueLast]
    BY DEF Boot, Lost, BootEntry
  <1>3. w' \in Memory
    BY <1>2 DEF Inv, TypeOK, Memory, Step
  <1>4. ControlInv(w)'
    BY <1>2, OwnIds DEF ControlInv, Working, Recovering
  <1>5. AtWorkInv(w)' /\ ProgressInv(w)' /\ CleanInv(w)' /\ MarkInv(w)'
    BY <1>2, OwnIds DEF AtWorkInv, ProgressInv, CleanInv, MarkInv, ToSave, Recovering
  <1>6. KnownInv(w)' /\ AnswersInv(w)'
    BY <1>1, <1>2 DEF Inv, DataInv, JournalInv, AnswersAreKept, KnownInv, AnswersInv, Fresh,
       disk, history
  <1> QED BY <1>1, <1>3, <1>4, <1>5, <1>6, MemoryStep DEF Inv, TypeOK, MemInv

\* The main loop saves the state, with an id that took effect or none.
LEMMA OwnSaveMem ==
    ASSUME Inv, UNCHANGED <<disk, history>>, w' \in Memory, w'.cmd \in {Camera, Builder},
           w'.at = "recover", w'.then = "save", w'.phase = w.phase, w'.known = w.known,
           w.phase = "boot" => w'.cmd = Camera,
           w'.mark \in Commands => effects[w'.mark] > 0
    PROVE  MemInv(w)'
  <1>1. ControlInv(w)'
    BY OwnIds DEF ControlInv, Working, Recovering
  <1>2. AtWorkInv(w)' /\ ProgressInv(w)' /\ CleanInv(w)'
    BY OwnIds DEF AtWorkInv, ProgressInv, CleanInv
  <1>3. MarkInv(w)'
    BY OwnIds DEF MarkInv, ToSave, Recovering, history
  <1>4. KnownInv(w)' /\ AnswersInv(w)'
    BY DEF Inv, MemInv, KnownInv, AnswersInv, Fresh, disk, history
  <1> QED BY <1>1, <1>2, <1>3, <1>4 DEF MemInv

\* Background keeps the invariant.
LEMMA BackgroundInv ==
    ASSUME Inv, NEW by \in {Camera, Builder}, NEW mark \in Commands \cup {Camera, None},
           Background(by, mark)
    PROVE  Inv'
  <1>1. /\ w \in Memory /\ state \in State /\ w.phase = "serving"
        /\ background' \in Nat /\ UNCHANGED <<disk, history, crashes, faults>>
        /\ w' = [w EXCEPT !.cmd = by, !.at = "recover", !.then = "save", !.mark = mark,
                          !.expected = state.revision]
    BY DEF Inv, TypeOK, Background, Serving, SaveEntry
  <1>2. w' = [phase |-> w.phase, cmd |-> by, at |-> "recover", then |-> "save", left |-> w.left,
              reply |-> w.reply, known |-> w.known, expected |-> state.revision,
              mark |-> mark, queueLast |-> w.queueLast]
    BY <1>1 DEF Memory
  <1>3. w' \in Memory
    BY <1>1, <1>2, MemoryParts DEF Memory, Step, State
  <1>4. mark \in Commands => effects[mark] > 0
    BY OwnIds DEF Background, Builds, Inv, DataInv, LastInv
  <1>5. MemInv(w)'
    BY <1>1, <1>2, <1>3, <1>4, OwnSaveMem
  <1> QED BY <1>1, <1>3, <1>5, MemoryStep DEF Inv, TypeOK

\* RecoverTerminal keeps the invariant.
LEMMA RecoverTerminalInv ==
    ASSUME Inv, NEW camera \in BOOLEAN, RecoverTerminal(camera)
    PROVE  Inv'
  <1>1. /\ w \in Memory /\ state \in State /\ MemInv(w) /\ w.at = "terminal"
        /\ background' \in Nat /\ UNCHANGED <<disk, history, crashes, faults>>
    BY DEF Inv, TypeOK, RecoverTerminal, At
  <1>2. w.phase = "boot" /\ w.cmd = Camera
    BY <1>1 DEF MemInv, ControlInv
  <1>3. CASE camera \/ loose # {}
    <2>1. w' = [w EXCEPT !.at = "recover", !.then = "save", !.mark = state.last,
                         !.expected = state.revision]
      BY <1>3 DEF RecoverTerminal, SaveEntry, RecoveryMark
    <2>2. w' = [phase |-> w.phase, cmd |-> w.cmd, at |-> "recover", then |-> "save",
                left |-> w.left, reply |-> w.reply, known |-> w.known,
                expected |-> state.revision, mark |-> state.last, queueLast |-> w.queueLast]
      BY <1>1, <2>1 DEF Memory
    <2>3. w' \in Memory
      BY <1>1, <2>2, MemoryParts DEF Memory, Step, State
    <2>4. state.last \in Commands => effects[state.last] > 0
      BY DEF Inv, DataInv, LastInv
    <2>5. MemInv(w)'
      BY <1>1, <1>2, <2>2, <2>3, <2>4, OwnSaveMem
    <2> QED BY <1>1, <2>3, <2>5, MemoryStep DEF Inv, TypeOK
  <1>4. CASE ~(camera \/ loose # {})
    <2>1. w' = Go("answers") /\ "answers" \in Step
      BY <1>4 DEF RecoverTerminal, Step
    <2>2. /\ w' \in Memory /\ w'.at = "answers" /\ w'.phase = w.phase /\ w'.cmd = w.cmd
          /\ w'.then = w.then
      BY <1>1, <2>1, GoType
    <2>3. ControlInv(w)'
      BY <1>2, <2>2, OwnIds DEF ControlInv, Working, Recovering
    <2>4. ProgressInv(w)' /\ CleanInv(w)' /\ MarkInv(w)'
      BY <1>2, <2>2, OwnIds DEF ProgressInv, CleanInv, MarkInv, ToSave, Recovering
    <2> QED BY <1>1, <2>1, <2>3, <2>4, GoMem, MemoryStep DEF Inv, TypeOK
  <1> QED BY <1>3, <1>4

\* AppendEvent keeps the invariant.
LEMMA AppendEventInv ==
    ASSUME Inv, NEW r \in Results, AppendEvent(r)
    PROVE  Inv'
  <1>1. /\ w \in Memory /\ MemInv(w) /\ w.at = "event" /\ Then(r, IF Own THEN Idle ELSE Go("snapshot"))
        /\ faults' \in Nat /\ UNCHANGED <<disk, history, background, crashes>>
    BY SpendType DEF Inv, TypeOK, AppendEvent, At
  <1>2. KnownKept
    BY <1>1 DEF KnownKept, Fresh, disk, history
  <1>3. CASE ~r.ok \/ Own
    <2>1. Halted(w')
      <3>1. CASE ~r.ok
        BY <1>1, <3>1, FailedHalts DEF Then
      <3>2. CASE r.ok /\ Own
        <4>1. w' = Idle /\ w.phase # "boot"
          BY <1>1, <3>2 DEF Then, MemInv, ControlInv
        <4> QED BY <1>1, <4>1, IdleType DEF Halted
      <3> QED BY <1>3, <3>1, <3>2
    <2> QED BY <1>1, <1>2, <2>1, HaltedMem, MemoryStep DEF Inv, TypeOK, Halted, disk, history
  <1>4. CASE r.ok /\ ~Own
    <2>1. w' = Go("snapshot") /\ "snapshot" \in Step
      BY <1>1, <1>4 DEF Then, Step
    <2>2. /\ w' \in Memory /\ w'.at = "snapshot" /\ w'.phase = w.phase /\ w'.cmd = w.cmd
          /\ w'.then = w.then /\ w'.mark = w.mark
      BY <1>1, <2>1, GoType
    <2>3. w.cmd \in Commands
      BY <1>1, <1>4, MemoryParts DEF Own
    <2>4. ControlInv(w)'
      BY <1>1, <2>2, <2>3, OwnIds DEF MemInv, ControlInv, Working, Recovering
    <2>5. ProgressInv(w)' /\ CleanInv(w)' /\ MarkInv(w)'
      BY <1>1, <2>2, <2>3, OwnIds DEF MemInv, ProgressInv, CleanInv, MarkInv, ToSave, ToGuard,
         ToCommit, Before, Recovering
    <2> QED BY <1>1, <2>1, <2>4, <2>5, GoMem, MemoryStep DEF Inv, TypeOK
  <1> QED BY <1>3, <1>4

-----------------------------------------------------------------------------
(* Steps of a command that write files *)

\* The command at work goes on.
GoesOn == /\ w' \in Memory /\ w'.phase = w.phase /\ w'.cmd = w.cmd
          /\ w'.known = w.known /\ w'.mark = w.mark

\* Such a memory is in order if the step it comes to is.
LEMMA GoesOnMem ==
    ASSUME Inv, GoesOn, KnownKept, UNCHANGED <<journal, sent, told>>,
           ControlInv(w)', ProgressInv(w)', CleanInv(w)', MarkInv(w)'
    PROVE  MemInv(w)'
  <1>1. AtWorkInv(w)' /\ KnownInv(w)' /\ AnswersInv(w)'
    BY DEF Inv, MemInv, AtWorkInv, KnownInv, AnswersInv, GoesOn, KnownKept
  <1> QED BY <1>1 DEF MemInv

\* What changes only for the command at work, changes for no fresh one.
LEMMA AtWorkKnown ==
    ASSUME Inv, w.cmd \in Commands,
           \A c \in Commands \ {w.cmd} : Fresh(c) => Fresh(c)'
    PROVE  KnownKept
  BY DEF Inv, MemInv, AtWorkInv, KnownKept

\* A step that only says where to go on.
LEMMA GoGoesOn ==
    ASSUME w \in Memory, NEW step \in Step, w' = Go(step)
    PROVE  GoesOn /\ w'.at = step /\ w'.then = w.then /\ w'.left = w.left
           /\ w'.expected = w.expected
  BY GoType DEF GoesOn

\* SnapshotQueue keeps the invariant.
LEMMA SnapshotQueueInv ==
    ASSUME Inv, NEW r \in Results, SnapshotQueue(r)
    PROVE  Inv'
  <1> DEFINE last == IF w.cmd # Camera THEN w.cmd
                     ELSE IF w.mark = Camera THEN Camera ELSE w.queueLast
             next == IF w.cmd = Camera THEN Idle ELSE Say("success")
  <1>1. /\ TypeOK /\ w \in Memory /\ MemInv(w) /\ w.at = "snapshot"
        /\ w' = [next EXCEPT !.queueLast = last]
        /\ queueLast' = (IF r.done THEN last ELSE queueLast)
        /\ faults' \in Nat
        /\ UNCHANGED <<journal, state, loose, dec, com, plan, place, history, background, crashes>>
    BY SpendType DEF Inv, TypeOK, SnapshotQueue, At
  <1>2. w.phase # "boot" /\ w.cmd \in Commands \cup {Camera}
    BY <1>1, MemoryParts DEF MemInv, ControlInv
  <1>3. last \in Commands \cup {Camera, None}
    BY <1>1, <1>2, MemoryParts
  <1>4. next \in Memory /\ Halted(next)
    BY <1>1, <1>2, IdleType, SayType DEF Halted
  <1>5. Halted(w')
    <2> HIDE DEF last, next
    <2>1. w' = [phase |-> next.phase, cmd |-> next.cmd, at |-> next.at, then |-> next.then,
                left |-> next.left, reply |-> next.reply, known |-> next.known,
                expected |-> next.expected, mark |-> next.mark, queueLast |-> last]
      BY <1>1, <1>4 DEF Memory
    <2>2. w' \in Memory
      BY <2>1, <1>3, <1>4, MemoryParts DEF Memory
    <2> QED BY <1>4, <2>1, <2>2 DEF Halted
  <1> HIDE DEF last, next
  <1>6. KnownKept
    BY <1>1 DEF KnownKept, Fresh, history
  <1>7. MemInv(w)'
    BY <1>1, <1>5, <1>6, HaltedMem DEF history
  <1>8. DataInv'
    BY <1>1, DataKept DEF Inv, history
  <1>9. TypeOK'
    BY <1>1, <1>3, <1>5 DEF TypeOK, Halted, history
  <1> QED BY <1>7, <1>8, <1>9 DEF Inv

\* More decisions are prepared.
LEMMA DataOfPrepared ==
    ASSUME Inv, w.cmd \in Commands,
           UNCHANGED <<journal, state, com, plan, history>>,
           dec' \in [Commands -> 0..2], dec'[w.cmd] >= dec[w.cmd],
           \A c \in Commands \ {w.cmd} : dec'[c] = dec[c]
    PROVE  DataInv' /\ KnownKept
  <1>1. KnownKept
    BY AtWorkKnown DEF Fresh, history
  <1>2. journal[w.cmd] # "none"
    BY DEF Inv, MemInv, AtWorkInv
  <1>3. JournalInv'
    BY <1>2 DEF Inv, DataInv, JournalInv, Fresh, history
  <1>4. PlansInv'
    BY DEF Inv, TypeOK, DataInv, PlansInv, Interrupted, Stamped, history
  <1> QED BY <1>1, <1>3, <1>4 DEF Inv, DataInv, SentInv, LastInv, CleanupRecoverable, OneEffect,
          CommittedDecisionsHold, AnswersAreKept, Interrupted, Stamped, history

\* Prepare keeps the invariant.
LEMMA PrepareInv ==
    ASSUME Inv, NEW r \in Results, Prepare(r)
    PROVE  Inv'
  <1>1. /\ TypeOK /\ w \in Memory /\ MemInv(w) /\ w.at = "prepare"
        /\ dec' = Put(r, dec, w.cmd, dec[w.cmd] + 1)
        /\ faults' \in Nat /\ r.done \in BOOLEAN /\ (r.ok => r.done)
        /\ UNCHANGED <<journal, state, loose, com, plan, place, queueLast, history,
                       background, crashes>>
    BY SpendType, ResultParts DEF Inv, TypeOK, Prepare, At
  <1>2. w.cmd \in Commands
    BY <1>1 DEF MemInv, ControlInv, Working
  <1> DEFINE kind == sent[w.cmd].kind
  <1>3. /\ kind \in {"reject", "batch", "plan", "apply", "restore"}
        /\ kind \in {"reject", "batch", "plan"} => w.then = "save"
        /\ w.left \in 1..2 /\ dec[w.cmd] + w.left = DecisionsOf(kind)
        /\ kind \in {"apply", "restore"} =>
               w.expected = state.revision /\ Interrupted = {} /\ plan[sent[w.cmd].arg].status # "none"
        /\ effects[w.cmd] = 0
        /\ \A p \in Interrupted : plan[p].op # w.cmd
        /\ w.mark = w.cmd
    BY <1>1, <1>2, MemoryParts
    DEF MemInv, ProgressInv, CleanInv, MarkInv, Before, ToSave, Recovering
  <1>4. dec[w.cmd] \in 0..2 /\ dec[w.cmd] + 1 \in 0..2
    BY <1>1, <1>2, <1>3, DecisionsBound DEF TypeOK
  <1>5. /\ dec' \in [Commands -> 0..2]
        /\ dec'[w.cmd] = (IF r.done THEN dec[w.cmd] + 1 ELSE dec[w.cmd])
        /\ \A c \in Commands \ {w.cmd} : dec'[c] = dec[c]
    BY <1>1, <1>2, <1>4 DEF TypeOK, Put
  <1>6. DataInv' /\ KnownKept
    BY <1>1, <1>2, <1>4, <1>5, DataOfPrepared
  <1>7. CASE ~r.ok
    <2>1. Halted(w')
      BY <1>1, <1>7, FailedHalts DEF Prepare, Then
    <2>2. MemInv(w)'
      BY <1>1, <1>6, <2>1, HaltedMem DEF history
    <2> QED BY <1>1, <1>5, <1>6, <2>1, <2>2 DEF Inv, TypeOK, Halted, history
  <1>8. CASE r.ok
    <2>1. dec'[w.cmd] = dec[w.cmd] + 1
      BY <1>1, <1>5, <1>8
    <2>2. CASE w.left > 1
      <3>1. w' = [w EXCEPT !.left = @ - 1]
        BY <1>8, <2>2 DEF Prepare, Then
      <3>2. w' = [phase |-> w.phase, cmd |-> w.cmd, at |-> w.at, then |-> w.then,
                  left |-> w.left - 1, reply |-> w.reply, known |-> w.known,
                  expected |-> w.expected, mark |-> w.mark, queueLast |-> w.queueLast]
        BY <1>1, <3>1 DEF Memory
      <3>3. GoesOn /\ w'.at = w.at /\ w'.then = w.then /\ w'.left = w.left - 1
            /\ w'.expected = w.expected
        BY <1>1, <1>3, <2>2, <3>2, MemoryParts DEF Memory, GoesOn
      <3>4. ControlInv(w)'
        BY <1>1, <3>3 DEF MemInv, ControlInv, GoesOn, Recovering
      <3>5. ProgressInv(w)'
        BY <1>1, <1>2, <1>3, <1>4, <2>1, <2>2, <3>3
        DEF ProgressInv, GoesOn, Before, ToGuard, ToSave, ToCommit, Recovering, Interrupted, history
      <3>6. CleanInv(w)' /\ MarkInv(w)'
        BY <1>1, <1>2, <1>3, <3>3
        DEF CleanInv, MarkInv, GoesOn, ToSave, Recovering, Interrupted, history
      <3>7. MemInv(w)'
        BY <1>1, <1>6, <3>3, <3>4, <3>5, <3>6, GoesOnMem DEF history
      <3> QED BY <1>1, <1>5, <1>6, <3>3, <3>7 DEF Inv, TypeOK, GoesOn, history
    <2>3. CASE ~(w.left > 1)
      <3> DEFINE step == IF kind \in {"apply", "restore"} THEN "mark" ELSE "recover"
      <3>1. w' = Go(step) /\ step \in Step
        BY <1>8, <2>3 DEF Prepare, Then, Kind, SaveEntry, Step
      <3>2. GoesOn /\ w'.at = step /\ w'.then = w.then /\ w'.left = w.left
            /\ w'.expected = w.expected
        BY <1>1, <3>1, GoGoesOn
      <3>3. w.left = 1 /\ dec'[w.cmd] = DecisionsOf(kind)
        BY <1>3, <1>4, <2>1, <2>3
      <3>4. ControlInv(w)'
        BY <1>1, <1>2, <1>3, <3>2, OwnIds DEF MemInv, ControlInv, GoesOn, Working, Recovering
      <3>5. ProgressInv(w)'
        BY <1>1, <1>2, <1>3, <1>4, <3>2, <3>3, DecisionsBound
        DEF ProgressInv, GoesOn, Before, ToGuard, ToSave, ToCommit, Recovering, Interrupted, history
      <3>6. CleanInv(w)' /\ MarkInv(w)'
        BY <1>1, <1>2, <1>3, <3>2
        DEF CleanInv, MarkInv, GoesOn, ToSave, Recovering, Interrupted, history
      <3>7. MemInv(w)'
        BY <1>1, <1>6, <3>2, <3>4, <3>5, <3>6, GoesOnMem DEF history
      <3> QED BY <1>1, <1>5, <1>6, <3>2, <3>7 DEF Inv, TypeOK, GoesOn, history
    <2> QED BY <2>2, <2>3
  <1> QED BY <1>7, <1>8

\* The plan of the command at work is no interrupted one.
LEMMA DataOfPlan ==
    ASSUME Inv, w.cmd \in Commands, NEW new,
           UNCHANGED <<journal, state, dec, com, history>>,
           plan' = plan \/ plan' = [plan EXCEPT ![w.cmd] = new],
           new.status \notin {"applying", "restoring"}
    PROVE  DataInv' /\ KnownKept /\ Interrupted' \subseteq Interrupted
  <1>1. \A c \in Commands \ {w.cmd} : plan'[c] = plan[c]
    BY DEF Inv, TypeOK
  <1>2. KnownKept
    BY <1>1, AtWorkKnown DEF Fresh, history
  <1>3. Interrupted' \subseteq Interrupted /\ \A p \in Interrupted' : plan'[p] = plan[p]
    BY DEF Inv, TypeOK, Interrupted
  <1>4. journal[w.cmd] # "none"
    BY DEF Inv, MemInv, AtWorkInv
  <1>5. JournalInv'
    BY <1>1, <1>4 DEF Inv, DataInv, JournalInv, Fresh, history
  <1>6. PlansInv' /\ CleanupRecoverable'
    BY <1>3 DEF Inv, DataInv, PlansInv, CleanupRecoverable, Stamped, history
  <1> QED BY <1>2, <1>3, <1>5, <1>6 DEF Inv, DataInv, SentInv, LastInv, OneEffect,
          CommittedDecisionsHold, AnswersAreKept, history

\* A new plan.
LEMMA PlannedIs ==
    ASSUME NEW items \in SUBSET Items, NEW p \in CleanupPlan, NEW n,
           n = [p EXCEPT !.status = "planned", !.items = items]
    PROVE  n \in CleanupPlan /\ n.status = "planned"
  <1>1. n = [status |-> "planned", items |-> items, op |-> p.op, source |-> p.source]
    BY DEF CleanupPlan
  <1> QED BY <1>1 DEF CleanupPlan, PlanStatus

\* A plan that does not exist.
LEMMA NoPlanType == NoPlan \in CleanupPlan /\ NoPlan.status = "none"
  BY DEF NoPlan, CleanupPlan, PlanStatus

\* WritePlan keeps the invariant.
LEMMA WritePlanInv ==
    ASSUME Inv, NEW r \in Results, WritePlan(r)
    PROVE  Inv'
  <1> DEFINE new == [NoPlan EXCEPT !.status = "planned", !.items = Candidates]
  <1>1. /\ TypeOK /\ w \in Memory /\ MemInv(w) /\ w.at = "planfile"
        /\ plan' = Put(r, plan, w.cmd, new)
        /\ faults' \in Nat
        /\ UNCHANGED <<journal, state, loose, dec, com, place, queueLast, history,
                       background, crashes>>
    BY SpendType DEF Inv, TypeOK, WritePlan, At
  <1>2. w.cmd \in Commands
    BY <1>1 DEF MemInv, ControlInv, Working
  <1>3. new \in CleanupPlan /\ new.status = "planned"
    <2>1. Candidates \in SUBSET Items
      BY <1>1 DEF Candidates, TypeOK, State
    <2> QED BY <2>1, NoPlanType, PlannedIs
  <1> HIDE DEF new
  <1>4. plan' \in [Commands -> CleanupPlan]
    BY <1>1, <1>3 DEF TypeOK, Put
  <1>5. DataInv' /\ KnownKept /\ Interrupted' \subseteq Interrupted
    BY <1>1, <1>2, <1>3, DataOfPlan DEF Put
  <1>6. TypeOK /\ w' \in Memory => TypeOK'
    BY <1>1, <1>4 DEF TypeOK, history
  <1>7. CASE ~r.ok
    <2>1. Halted(w')
      BY <1>1, <1>7, FailedHalts DEF WritePlan, Then
    <2>2. MemInv(w)'
      BY <1>1, <1>5, <2>1, HaltedMem DEF history
    <2> QED BY <1>1, <1>5, <1>6, <2>1, <2>2 DEF Inv, Halted
  <1>8. CASE r.ok
    <2>1. w' = [w EXCEPT !.at = "prepare", !.then = "save"]
      BY <1>8 DEF WritePlan, Then
    <2>2. w' = [phase |-> w.phase, cmd |-> w.cmd, at |-> "prepare", then |-> "save",
                left |-> w.left, reply |-> w.reply, known |-> w.known,
                expected |-> w.expected, mark |-> w.mark, queueLast |-> w.queueLast]
      BY <1>1, <2>1 DEF Memory
    <2>3. GoesOn /\ w'.at = "prepare" /\ w'.then = "save" /\ w'.left = w.left
      BY <1>1, <2>2, MemoryParts DEF Memory, GoesOn, Step
    <2>4. /\ sent[w.cmd].kind = "plan" /\ dec[w.cmd] = 0 /\ w.left = 1 /\ effects[w.cmd] = 0
          /\ \A p \in Interrupted : plan[p].op # w.cmd
      BY <1>1, <1>2 DEF MemInv, ProgressInv, Before, ToSave, Recovering
    <2>5. \A p \in Interrupted' : plan'[p].op # w.cmd
      <3>1. \A p \in Interrupted' : plan'[p] = plan[p]
        BY <1>1, <1>3 DEF Put, TypeOK, Interrupted
      <3> QED BY <1>5, <2>4, <3>1
    <2>6. ControlInv(w)' /\ CleanInv(w)'
      BY <1>1, <1>2, <2>3, <2>4 DEF MemInv, ControlInv, CleanInv, GoesOn, Recovering, Working, history
    <2>7. ProgressInv(w)'
      BY <1>1, <1>2, <2>3, <2>4, <2>5, DecisionsBound
      DEF ProgressInv, GoesOn, Before, ToGuard, ToSave, ToCommit, Recovering, history
    <2>8. MarkInv(w)'
      BY <1>1, <2>3 DEF MemInv, MarkInv, GoesOn, ToSave, Recovering
    <2>9. MemInv(w)'
      BY <1>1, <1>5, <2>3, <2>6, <2>7, <2>8, GoesOnMem DEF history
    <2> QED BY <1>1, <1>5, <1>6, <2>3, <2>9 DEF Inv, GoesOn
  <1> QED BY <1>7, <1>8

\* Unplan keeps the invariant.
LEMMA UnplanInv ==
    ASSUME Inv, NEW r \in Results, Unplan(r)
    PROVE  Inv'
  <1>1. /\ TypeOK /\ w \in Memory /\ MemInv(w) /\ w.at = "unplan"
        /\ plan' = Put(r, plan, w.cmd, NoPlan) /\ w' = Say("failure")
        /\ faults' \in Nat
        /\ UNCHANGED <<journal, state, loose, dec, com, place, queueLast, history,
                       background, crashes>>
    BY SpendType DEF Inv, TypeOK, Unplan, At
  <1>2. w.cmd \in Commands
    BY <1>1 DEF MemInv, ControlInv, Working
  <1>3. NoPlan \in CleanupPlan /\ NoPlan.status = "none"
    BY NoPlanType
  <1>4. plan' \in [Commands -> CleanupPlan]
    BY <1>1, <1>3 DEF TypeOK, Put
  <1>5. DataInv' /\ KnownKept
    BY <1>1, <1>2, <1>3, DataOfPlan DEF Put
  <1>6. Halted(w')
    BY <1>1, <1>2, SayType DEF Halted
  <1>7. MemInv(w)'
    BY <1>1, <1>5, <1>6, HaltedMem DEF history
  <1>8. TypeOK'
    BY <1>1, <1>4, <1>6 DEF TypeOK, Halted, history
  <1> QED BY <1>5, <1>7, <1>8 DEF Inv

\* The announcement of an operation.
Marked(old, status, op, source) == [old EXCEPT !.status = status, !.op = op, !.source = source]

\* Its fields.
LEMMA MarkedIs ==
    ASSUME NEW old \in CleanupPlan, NEW status \in {"applying", "restoring"},
           NEW op \in Commands, NEW source \in Nat
    PROVE  Marked(old, status, op, source) =
               [status |-> status, items |-> old.items, op |-> op, source |-> source]
  <1>1. PICK new : new = Marked(old, status, op, source)
    OBVIOUS
  <1>2. new = [status |-> status, items |-> old.items, op |-> op, source |-> source]
    BY <1>1 DEF CleanupPlan, Marked
  <1> QED BY <1>1, <1>2

\* Mark keeps the invariant.
LEMMA MarkStepInv ==
    ASSUME Inv, NEW r \in Results, Mark(r)
    PROVE  Inv'
  <1> DEFINE p == sent[w.cmd].arg
             status == IF Kind = "apply" THEN "applying" ELSE "restoring"
             new == Marked(plan[p], status, w.cmd, w.expected)
  <1>1. /\ TypeOK /\ w \in Memory /\ MemInv(w) /\ DataInv /\ w.at = "mark"
        /\ plan' = Put(r, plan, p, new)
        /\ faults' \in Nat /\ r.done \in BOOLEAN /\ (r.ok => r.done)
        /\ UNCHANGED <<journal, state, loose, dec, com, place, queueLast, history,
                       background, crashes>>
    BY SpendType, ResultParts DEF Inv, TypeOK, Mark, At, Marked
  <1>2. w.cmd \in Commands
    BY <1>1 DEF MemInv, ControlInv, Working
  <1>3. /\ sent[w.cmd].kind \in {"apply", "restore"} /\ p \in Commands
        /\ dec[w.cmd] = 1 /\ w.left = 1 /\ w.expected = state.revision
        /\ effects[w.cmd] = 0 /\ Interrupted = {} /\ plan[p].status # "none"
        /\ w.mark = w.cmd /\ journal[w.cmd] # "none" /\ w.known[w.cmd] = "prepared"
        /\ w.phase # "boot"
    BY <1>1, <1>2
    DEF MemInv, AtWorkInv, ProgressInv, CleanInv, MarkInv, Before, ToSave, Recovering,
        DataInv, SentInv
  <1>4. /\ new \in CleanupPlan /\ new.status \in {"applying", "restoring"}
        /\ new.op = w.cmd /\ new.source = state.revision
    <2>1. plan[p] \in CleanupPlan /\ w.expected \in Nat
      BY <1>1, <1>3, MemoryParts DEF TypeOK
    <2>2. status \in {"applying", "restoring"}
      OBVIOUS
    <2> HIDE DEF status
    <2>3. new = [status |-> status, items |-> plan[p].items, op |-> w.cmd, source |-> w.expected]
      BY <1>2, <2>1, <2>2, MarkedIs
    <2> QED BY <1>2, <1>3, <2>1, <2>2, <2>3 DEF CleanupPlan, PlanStatus
  <1> HIDE DEF new, status
  <1>5. /\ plan' \in [Commands -> CleanupPlan]
        /\ \A c \in Commands \ {p} : plan'[c] = plan[c]
        /\ plan'[p] = IF r.done THEN new ELSE plan[p]
    BY <1>1, <1>3, <1>4 DEF TypeOK, Put
  <1>6. Interrupted' = IF r.done THEN {p} ELSE {}
    BY <1>3, <1>4, <1>5 DEF Interrupted
  <1>7. KnownKept /\ JournalInv'
    BY <1>1, <1>3, <1>5 DEF KnownKept, DataInv, JournalInv, Fresh, history
  <1>8. \A c \in Interrupted' : plan'[c].op = w.cmd /\ plan'[c].source = state.revision
    BY <1>4, <1>5, <1>6
  <1>9. state.revision + 1 # state.revision
    BY <1>1 DEF TypeOK, State
  <1>10. PlansInv' /\ CleanupRecoverable'
    BY <1>1, <1>2, <1>3, <1>6, <1>8, <1>9 DEF PlansInv, CleanupRecoverable, Stamped, history
  <1>11. DataInv'
    BY <1>1, <1>7, <1>10 DEF DataInv, SentInv, LastInv, OneEffect, CommittedDecisionsHold,
       AnswersAreKept, history
  <1>12. w' \in Memory => TypeOK'
    BY <1>1, <1>5 DEF TypeOK, history
  <1>13. CASE ~r.ok
    <2>1. Halted(w')
      BY <1>1, <1>13, FailedHalts DEF Mark, Then
    <2>2. MemInv(w)'
      BY <1>1, <1>7, <2>1, HaltedMem DEF history
    <2> QED BY <1>11, <1>12, <2>1, <2>2 DEF Inv, Halted
  <1>14. CASE r.ok
    <2>1. w' = [w EXCEPT !.at = "recover", !.then = "commit"]
      BY <1>14 DEF Mark, Then
    <2>2. w' = [phase |-> w.phase, cmd |-> w.cmd, at |-> "recover", then |-> "commit",
                left |-> w.left, reply |-> w.reply, known |-> w.known,
                expected |-> w.expected, mark |-> w.mark, queueLast |-> w.queueLast]
      BY <1>1, <2>1 DEF Memory
    <2>3. GoesOn /\ w'.at = "recover" /\ w'.then = "commit" /\ w'.left = 1
      BY <1>1, <1>3, <2>2, MemoryParts DEF Memory, GoesOn, Step
    <2>4. p \in Interrupted' /\ plan'[p].op = w.cmd
      BY <1>1, <1>6, <1>8, <1>14
    <2>5. ControlInv(w)' /\ CleanInv(w)'
      BY <1>2, <1>3, <2>3 DEF ControlInv, CleanInv, GoesOn, Recovering, Working
    <2>6. ProgressInv(w)'
      BY <1>1, <1>2, <1>3, <2>3
      DEF ProgressInv, GoesOn, Before, ToGuard, ToSave, ToCommit, Recovering, history
    <2>7. MarkInv(w)'
      BY <1>3, <2>3, <2>4 DEF MarkInv, GoesOn, ToSave, Recovering
    <2>8. MemInv(w)'
      BY <1>1, <1>7, <2>3, <2>5, <2>6, <2>7, GoesOnMem DEF history
    <2> QED BY <1>11, <1>12, <2>3, <2>8 DEF Inv, GoesOn
  <1> QED BY <1>13, <1>14

\* The command at work takes effect, and is not that of an interrupted cleanup.
LEMMA DataOfEffect ==
    ASSUME Inv, w.cmd \in Commands,
           UNCHANGED <<journal, state, dec, com, plan, sent, told>>,
           effects' = effects \/ effects' = [effects EXCEPT ![w.cmd] = effects[w.cmd] + 1],
           effects[w.cmd] = 0, \A p \in Interrupted : plan[p].op # w.cmd
    PROVE  DataInv' /\ KnownKept /\ effects' \in [Commands -> Nat]
  <1>1. /\ effects' \in [Commands -> Nat] /\ effects'[w.cmd] \in 0..1
        /\ \A c \in Commands \ {w.cmd} : effects'[c] = effects[c]
        /\ \A c \in Commands : effects[c] > 0 => effects'[c] > 0
    BY DEF Inv, TypeOK
  <1>2. KnownKept
    BY <1>1, AtWorkKnown DEF Fresh
  <1>3. journal[w.cmd] # "none"
    BY DEF Inv, MemInv, AtWorkInv
  <1>4. JournalInv' /\ OneEffect'
    BY <1>1, <1>3 DEF Inv, DataInv, JournalInv, OneEffect, Fresh
  <1>5. PlansInv'
    BY <1>1 DEF Inv, DataInv, PlansInv, Interrupted, Stamped
  <1>6. LastInv' /\ CommittedDecisionsHold'
    BY <1>1 DEF Inv, DataInv, LastInv, CommittedDecisionsHold
  <1> QED BY <1>1, <1>2, <1>4, <1>5, <1>6 DEF Inv, DataInv, SentInv, CleanupRecoverable,
          AnswersAreKept, Interrupted, Stamped

\* CancelJob keeps the invariant.
LEMMA CancelJobInv ==
    ASSUME Inv, NEW r \in Results, CancelJob(r)
    PROVE  Inv'
  <1>1. /\ TypeOK /\ w \in Memory /\ MemInv(w) /\ w.at = "job"
        /\ effects' = Put(r, effects, w.cmd, effects[w.cmd] + 1)
        /\ loose' = (IF r.done THEN loose \cup {w.cmd} ELSE loose)
        /\ faults' \in Nat /\ r.done \in BOOLEAN /\ (r.ok => r.done)
        /\ UNCHANGED <<journal, state, dec, com, plan, place, queueLast, sent, told,
                       background, crashes>>
    BY SpendType, ResultParts DEF Inv, TypeOK, CancelJob, At
  <1>2. w.cmd \in Commands
    BY <1>1 DEF MemInv, ControlInv, Working
  <1>3. /\ sent[w.cmd].kind = "cancel" /\ dec[w.cmd] = 0 /\ w.then = "save"
        /\ effects[w.cmd] = 0 /\ \A p \in Interrupted : plan[p].op # w.cmd
    BY <1>1, <1>2 DEF MemInv, ProgressInv, Before, ToSave, Recovering
  <1>4. DataInv' /\ KnownKept /\ effects' \in [Commands -> Nat]
    BY <1>1, <1>2, <1>3, DataOfEffect DEF Put
  <1>5. w' \in Memory => TypeOK'
    BY <1>1, <1>2, <1>4 DEF TypeOK
  <1>6. CASE ~r.ok
    <2>1. Halted(w')
      BY <1>1, <1>6, FailedHalts DEF CancelJob, Then
    <2>2. MemInv(w)'
      BY <1>1, <1>4, <2>1, HaltedMem
    <2> QED BY <1>4, <1>5, <2>1, <2>2 DEF Inv, Halted
  <1>7. CASE r.ok
    <2>1. w' = Go("recover") /\ "recover" \in Step
      BY <1>7 DEF CancelJob, Then, SaveEntry, Step
    <2>2. GoesOn /\ w'.at = "recover" /\ w'.then = "save"
      BY <1>1, <1>3, <2>1, GoGoesOn
    <2>3. effects'[w.cmd] = 1
      BY <1>1, <1>2, <1>3, <1>7 DEF Put, TypeOK
    <2>4. ControlInv(w)' /\ CleanInv(w)'
      BY <1>1, <1>2, <2>2, OwnIds DEF MemInv, ControlInv, CleanInv, GoesOn, Recovering, Working
    <2>5. ProgressInv(w)'
      BY <1>1, <1>2, <1>3, <2>2, DecisionsBound
      DEF ProgressInv, GoesOn, Before, ToGuard, ToSave, ToCommit, Recovering, Interrupted
    <2>6. MarkInv(w)'
      BY <1>1, <1>2, <2>2, <2>3 DEF MemInv, MarkInv, GoesOn, ToSave, Recovering
    <2>7. MemInv(w)'
      BY <1>1, <1>4, <2>2, <2>4, <2>5, <2>6, GoesOnMem
    <2> QED BY <1>4, <1>5, <2>2, <2>7 DEF Inv, GoesOn
  <1> QED BY <1>6, <1>7

\* PauseQueue keeps the invariant.
LEMMA PauseQueueInv ==
    ASSUME Inv, NEW r \in Results, PauseQueue(r)
    PROVE  Inv'
  <1>1. /\ TypeOK /\ w \in Memory /\ MemInv(w) /\ w.at = "queue"
        /\ effects' = Put(r, effects, w.cmd, effects[w.cmd] + 1)
        /\ queueLast' = (IF r.done THEN w.cmd ELSE queueLast)
        /\ faults' \in Nat
        /\ UNCHANGED <<journal, state, loose, dec, com, plan, place, sent, told,
                       background, crashes>>
    BY SpendType DEF Inv, TypeOK, PauseQueue, At
  <1>2. w.cmd \in Commands
    BY <1>1 DEF MemInv, ControlInv, Working
  <1>3. effects[w.cmd] = 0 /\ \A p \in Interrupted : plan[p].op # w.cmd
    BY <1>1, <1>2 DEF MemInv, ProgressInv, Before, ToSave, Recovering
  <1>4. DataInv' /\ KnownKept /\ effects' \in [Commands -> Nat]
    BY <1>1, <1>2, <1>3, DataOfEffect DEF Put
  <1>5. Halted(w')
    <2>1. CASE ~r.ok
      BY <1>1, <2>1, FailedHalts DEF PauseQueue, Then
    <2>2. CASE r.ok
      <3> DEFINE next == Say("success")
      <3>1. w' = [next EXCEPT !.queueLast = w.cmd]
        BY <2>2 DEF PauseQueue, Then
      <3>2. next \in Memory /\ Halted(next)
        BY <1>1, <1>2, SayType DEF Halted
      <3> HIDE DEF next
      <3>3. w' = [phase |-> next.phase, cmd |-> next.cmd, at |-> next.at, then |-> next.then,
                  left |-> next.left, reply |-> next.reply, known |-> next.known,
                  expected |-> next.expected, mark |-> next.mark, queueLast |-> w.cmd]
        BY <3>1, <3>2 DEF Memory
      <3>4. w' \in Memory
        BY <1>2, <3>2, <3>3, MemoryParts DEF Memory
      <3> QED BY <3>2, <3>3, <3>4 DEF Halted
    <2> QED BY <2>1, <2>2
  <1>6. MemInv(w)'
    BY <1>1, <1>4, <1>5, HaltedMem
  <1>7. TypeOK'
    BY <1>1, <1>2, <1>4, <1>5 DEF TypeOK, Halted
  <1> QED BY <1>4, <1>6, <1>7 DEF Inv

\* One more decision of a command that took effect is committed.
LEMMA DataOfCommitted ==
    ASSUME Inv, NEW c \in Commands, NEW n \in 0..2,
           UNCHANGED <<journal, state, dec, plan, history>>,
           com' = com \/ com' = [com EXCEPT ![c] = n], effects[c] > 0
    PROVE  DataInv' /\ KnownKept /\ com' \in [Commands -> 0..2]
  <1>1. com' \in [Commands -> 0..2] /\ \A d \in Commands \ {c} : com'[d] = com[d]
    BY DEF Inv, TypeOK
  <1>2. KnownKept
    BY DEF KnownKept, Fresh, history
  <1>3. CommittedDecisionsHold'
    BY <1>1 DEF Inv, DataInv, CommittedDecisionsHold, history
  <1> QED BY <1>1, <1>2, <1>3 DEF Inv, DataInv, SentInv, JournalInv, PlansInv, LastInv,
          CleanupRecoverable, OneEffect, AnswersAreKept, Interrupted, Stamped, Fresh, history

\* Commit keeps the invariant.
LEMMA CommitInv ==
    ASSUME Inv, NEW r \in Results, Commit(r)
    PROVE  Inv'
  <1> DEFINE n == dec[w.cmd] - w.left + 1
  <1>1. /\ TypeOK /\ w \in Memory /\ MemInv(w) /\ w.at = "commit"
        /\ com' = IF com[w.cmd] < n THEN Put(r, com, w.cmd, n) ELSE com
        /\ faults' \in Nat
        /\ UNCHANGED <<journal, state, loose, dec, plan, place, queueLast, history,
                       background, crashes>>
    BY SpendType DEF Inv, TypeOK, Commit, At
  <1>2. w.cmd \in Commands
    BY <1>1 DEF MemInv, ControlInv, Working
  <1>3. 1 <= w.left /\ w.left <= dec[w.cmd] /\ effects[w.cmd] > 0
    BY <1>1, <1>2 DEF MemInv, ProgressInv, ToCommit, MarkInv
  <1>4. w.left \in 0..2 /\ dec[w.cmd] \in 0..2 /\ n \in 0..2
    BY <1>1, <1>2, <1>3, MemoryParts DEF TypeOK
  <1>5. com' = com \/ com' = [com EXCEPT ![w.cmd] = n]
    BY <1>1 DEF Put
  <1> HIDE DEF n
  <1>6. DataInv' /\ KnownKept /\ com' \in [Commands -> 0..2]
    BY <1>1, <1>2, <1>3, <1>4, <1>5, DataOfCommitted
  <1>7. w' \in Memory => TypeOK'
    BY <1>1, <1>6 DEF TypeOK, history
  <1>8. CASE ~(r.ok /\ w.left > 1)
    <2>1. Halted(w')
      <3>1. CASE ~r.ok
        BY <1>1, <3>1, FailedHalts DEF Commit, Then
      <3>2. CASE r.ok
        <4>1. w' = Say("success")
          BY <1>8, <3>2 DEF Commit, Then
        <4> QED BY <1>1, <1>2, <4>1, SayType DEF Halted
      <3> QED BY <3>1, <3>2
    <2>2. MemInv(w)'
      BY <1>1, <1>6, <2>1, HaltedMem DEF history
    <2> QED BY <1>6, <1>7, <2>1, <2>2 DEF Inv, Halted
  <1>9. CASE r.ok /\ w.left > 1
    <2>1. w' = [w EXCEPT !.left = @ - 1]
      BY <1>9 DEF Commit, Then
    <2>2. w' = [phase |-> w.phase, cmd |-> w.cmd, at |-> w.at, then |-> w.then,
                left |-> w.left - 1, reply |-> w.reply, known |-> w.known,
                expected |-> w.expected, mark |-> w.mark, queueLast |-> w.queueLast]
      BY <1>1, <2>1 DEF Memory
    <2>3. GoesOn /\ w'.at = "commit" /\ w'.then = w.then /\ w'.left = w.left - 1
      BY <1>1, <1>4, <1>9, <2>2, MemoryParts DEF Memory, GoesOn
    <2>4. ControlInv(w)' /\ CleanInv(w)'
      BY <1>1, <2>3 DEF MemInv, ControlInv, CleanInv, GoesOn, Recovering
    <2>5. ProgressInv(w)'
      BY <1>1, <1>2, <1>3, <1>4, <1>9, <2>3
      DEF ProgressInv, GoesOn, Before, ToGuard, ToSave, ToCommit, Recovering, history
    <2>6. MarkInv(w)'
      BY <1>1, <1>2, <1>3, <2>3 DEF MemInv, MarkInv, GoesOn, ToSave, Recovering, history
    <2>7. MemInv(w)'
      BY <1>1, <1>6, <2>3, <2>4, <2>5, <2>6, GoesOnMem DEF history
    <2> QED BY <1>6, <1>7, <2>3, <2>7 DEF Inv, GoesOn
  <1> QED BY <1>8, <1>9

-----------------------------------------------------------------------------
(* Steps of a recovery that write files *)

\* The recovery goes on where it is.
LEMMA SameMem ==
    ASSUME Inv, w' = w, KnownKept, UNCHANGED <<journal, sent, told>>,
           ProgressInv(w)', CleanInv(w)', MarkInv(w)'
    PROVE  MemInv(w)'
  <1>1. ControlInv(w)' /\ GoesOn
    BY DEF Inv, TypeOK, MemInv, ControlInv, GoesOn, Recovering
  <1> QED BY <1>1, GoesOnMem

\* Redo keeps the invariant.
LEMMA RedoInv ==
    ASSUME Inv, NEW c \in Commands, NEW r \in Results, Redo(c, r)
    PROVE  Inv'
  <1>1. /\ TypeOK /\ w \in Memory /\ MemInv(w) /\ w.at = "redo"
        /\ com' = Put(r, com, c, com[c] + 1)
        /\ faults' \in Nat
        /\ UNCHANGED <<journal, state, loose, dec, plan, place, queueLast, history,
                       background, crashes>>
    BY SpendType DEF Inv, TypeOK, Redo, At
  <1>2. c = state.last /\ com[c] < dec[c]
    BY DEF Redo, Uncommitted
  <1>3. effects[c] > 0
    BY <1>2 DEF Inv, DataInv, LastInv
  <1>4. com[c] + 1 \in 0..2
    BY <1>1, <1>2 DEF TypeOK
  <1>5. com' = com \/ com' = [com EXCEPT ![c] = com[c] + 1]
    BY <1>1 DEF Put
  <1>6. DataInv' /\ KnownKept /\ com' \in [Commands -> 0..2]
    BY <1>1, <1>3, <1>4, <1>5, DataOfCommitted
  <1>7. w' \in Memory => TypeOK'
    BY <1>1, <1>6 DEF TypeOK, history
  <1>8. CASE ~r.ok
    <2>1. Halted(w')
      BY <1>1, <1>8, FailedHalts DEF Redo, Then
    <2>2. MemInv(w)'
      BY <1>1, <1>6, <2>1, HaltedMem DEF history
    <2> QED BY <1>6, <1>7, <2>1, <2>2 DEF Inv, Halted
  <1>9. CASE r.ok
    <2>1. w' = w
      BY <1>9 DEF Redo, Then
    <2>2. ProgressInv(w)' /\ CleanInv(w)' /\ MarkInv(w)'
      BY <1>1, <2>1 DEF MemInv, ProgressInv, CleanInv, MarkInv, Before, ToGuard, ToSave,
         ToCommit, Recovering, Interrupted, history
    <2>3. MemInv(w)'
      BY <1>1, <1>6, <2>1, <2>2, SameMem DEF history
    <2> QED BY <1>1, <1>6, <1>7, <2>1, <2>3 DEF Inv
  <1> QED BY <1>8, <1>9

\* Move keeps the invariant.
LEMMA MoveInv ==
    ASSUME Inv, NEW p \in Commands, NEW i \in Items, NEW r \in Results, Move(p, i, r)
    PROVE  Inv'
  <1>1. /\ TypeOK /\ w \in Memory /\ MemInv(w) /\ w.at = "recover"
        /\ place' = Put(r, place, i, Destination(p))
        /\ faults' \in Nat
        /\ UNCHANGED <<journal, state, loose, dec, com, plan, queueLast, history,
                       background, crashes>>
    BY SpendType DEF Inv, TypeOK, Move, At
  <1>2. DataInv' /\ KnownKept
    BY <1>1, DataKept DEF Inv, KnownKept, Fresh, history
  <1>3. place' \in [Items -> Commands \cup {"project"}]
    BY <1>1 DEF TypeOK, Put, Destination
  <1>4. w' \in Memory => TypeOK'
    BY <1>1, <1>3 DEF TypeOK, history
  <1>5. CASE ~r.ok
    <2>1. Halted(w')
      BY <1>1, <1>5, FailedHalts DEF Move, Then
    <2>2. MemInv(w)'
      BY <1>1, <1>2, <2>1, HaltedMem DEF history
    <2> QED BY <1>2, <1>4, <2>1, <2>2 DEF Inv, Halted
  <1>6. CASE r.ok
    <2>1. w' = w
      BY <1>6 DEF Move, Then
    <2>2. ProgressInv(w)' /\ CleanInv(w)' /\ MarkInv(w)'
      BY <1>1, <2>1 DEF MemInv, ProgressInv, CleanInv, MarkInv, Before, ToGuard, ToSave,
         ToCommit, Recovering, Interrupted, history
    <2>3. MemInv(w)'
      BY <1>1, <1>2, <2>1, <2>2, SameMem DEF history
    <2> QED BY <1>1, <1>2, <1>4, <2>1, <2>3 DEF Inv
  <1> QED BY <1>5, <1>6

\* The state of an operation.
StampedBy(old, op) == [old EXCEPT !.revision = @ + 1, !.last = op]

\* Its fields.
LEMMA StampedIs ==
    ASSUME NEW old \in State, NEW op
    PROVE  StampedBy(old, op) =
               [revision |-> old.revision + 1, last |-> op, rejected |-> old.rejected]
  <1>1. PICK new : new = StampedBy(old, op)
    OBVIOUS
  <1>2. new = [revision |-> old.revision + 1, last |-> op, rejected |-> old.rejected]
    BY <1>1 DEF State, StampedBy
  <1> QED BY <1>1, <1>2

\* Stamp keeps the invariant.
LEMMA StampInv ==
    ASSUME Inv, NEW p \in Commands, NEW r \in Results, Stamp(p, r)
    PROVE  Inv'
  <1> DEFINE op == plan[p].op
  <1>1. /\ TypeOK /\ w \in Memory /\ MemInv(w) /\ DataInv /\ w.at = "recover"
        /\ p \in Interrupted /\ ~Stamped(p)
        /\ UNCHANGED <<journal, loose, dec, com, plan, place, queueLast, sent, told,
                       background, crashes>>
    BY DEF Inv, TypeOK, Stamp, At
  <1>2. /\ Interrupted = {p} /\ plan[p].source = state.revision
        /\ op \in Commands /\ dec[op] > 0 /\ effects[op] = 0
    BY <1>1 DEF DataInv, CleanupRecoverable, PlansInv
  <1>3. /\ state' = IF r.done THEN StampedBy(state, op) ELSE state
        /\ effects' = IF r.done THEN [effects EXCEPT ![op] = @ + 1] ELSE effects
        /\ w' = IF r.ok THEN w ELSE Failed
        /\ faults' \in Nat
        /\ r.done \in BOOLEAN /\ (r.ok => r.done)
    BY <1>1, <1>2, SpendType, ResultParts DEF Stamp, TypeOK, StampedBy
  <1>4. state' = IF r.done
                 THEN [revision |-> state.revision + 1, last |-> op, rejected |-> state.rejected]
                 ELSE state
    BY <1>1, <1>3, StampedIs DEF TypeOK
  <1>5. state' \in State
    BY <1>1, <1>2, <1>4 DEF TypeOK, State
  <1>6. /\ effects' \in [Commands -> Nat]
        /\ \A c \in Commands \ {op} : effects'[c] = effects[c]
        /\ effects'[op] = IF r.done THEN 1 ELSE 0
        /\ \A c \in Commands : effects[c] > 0 => effects'[c] > 0
    BY <1>1, <1>2, <1>3 DEF TypeOK
  <1>7. Interrupted' = {p} /\ plan'[p] = plan[p]
    BY <1>1, <1>2 DEF Interrupted
  <1>8. Stamped(p)' <=> r.done
    <2>1. state.revision \in Nat /\ state.revision + 1 # state.revision
      BY <1>1 DEF TypeOK, State
    <2> QED BY <1>2, <1>3, <1>4, <1>7, <2>1 DEF Stamped
  <1>9. KnownKept
    BY <1>1, <1>2, <1>6 DEF KnownKept, Fresh
  <1>10. DataInv'
    <2>1. JournalInv' /\ OneEffect' /\ CommittedDecisionsHold'
      BY <1>1, <1>2, <1>6 DEF DataInv, JournalInv, OneEffect, CommittedDecisionsHold, Fresh
    <2>2. PlansInv' /\ CleanupRecoverable'
      BY <1>1, <1>2, <1>3, <1>4, <1>6, <1>7, <1>8 DEF PlansInv, CleanupRecoverable
    <2>3. LastInv'
      BY <1>1, <1>3, <1>4, <1>6 DEF DataInv, LastInv
    <2> QED BY <1>1, <2>1, <2>2, <2>3 DEF DataInv, SentInv, AnswersAreKept
  <1>11. w' \in Memory => TypeOK'
    BY <1>1, <1>3, <1>5, <1>6 DEF TypeOK
  <1>12. CASE ~r.ok
    <2>1. Halted(w')
      BY <1>1, <1>3, <1>12, FailedHalts
    <2>2. MemInv(w)'
      BY <1>1, <1>9, <2>1, HaltedMem
    <2> QED BY <1>10, <1>11, <2>1, <2>2 DEF Inv, Halted
  <1>13. CASE r.ok
    <2>1. w' = w
      BY <1>3, <1>13
    <2>2. w.cmd \in Commands /\ Before(w) => op # w.cmd
      BY <1>1 DEF MemInv, ProgressInv
    <2>3. w.cmd \in Commands /\ Before(w) => effects'[w.cmd] = effects[w.cmd]
      BY <1>6, <2>2
    <2>4. ProgressInv(w)'
      BY <1>1, <1>6, <1>7, <2>1, <2>2, <2>3, <1>2
      DEF MemInv, ProgressInv, Before, ToGuard, ToSave, ToCommit, Recovering
    <2>5. CleanInv(w)'
      BY <1>1, <2>1 DEF CleanInv
    <2>6. MarkInv(w)'
      BY <1>1, <1>2, <1>6, <1>7, <2>1 DEF MemInv, ControlInv, MarkInv, ToSave, Recovering
    <2>7. MemInv(w)'
      BY <1>1, <1>9, <2>1, <2>4, <2>5, <2>6, SameMem
    <2> QED BY <1>1, <1>10, <1>11, <2>1, <2>7 DEF Inv
  <1> QED BY <1>12, <1>13

\* The end of an operation.
Settled(old) ==
    [old EXCEPT !.status = IF @ = "applying" THEN "applied" ELSE "restored",
                !.op = None, !.source = 0]

\* It is no longer interrupted.
LEMMA SettledIs ==
    ASSUME NEW old \in CleanupPlan
    PROVE  /\ Settled(old) \in CleanupPlan
           /\ Settled(old).status = IF old.status = "applying" THEN "applied" ELSE "restored"
           /\ Settled(old).items = old.items
  <1>1. PICK new : new = Settled(old)
    OBVIOUS
  <1>2. new = [status |-> IF old.status = "applying" THEN "applied" ELSE "restored",
               items |-> old.items, op |-> None, source |-> 0]
    BY <1>1 DEF CleanupPlan, Settled
  <1>3. /\ new \in CleanupPlan /\ new.items = old.items
        /\ new.status = IF old.status = "applying" THEN "applied" ELSE "restored"
    BY <1>2 DEF CleanupPlan, PlanStatus
  <1> QED BY <1>1, <1>3

\* Settle keeps the invariant.
LEMMA SettleInv ==
    ASSUME Inv, NEW p \in Commands, NEW r \in Results, Settle(p, r)
    PROVE  Inv'
  <1> DEFINE new == Settled(plan[p])
  <1>1. /\ TypeOK /\ w \in Memory /\ MemInv(w) /\ DataInv /\ w.at = "recover"
        /\ p \in Interrupted /\ Stamped(p)
        /\ plan' = Put(r, plan, p, new)
        /\ faults' \in Nat /\ r.done \in BOOLEAN /\ (r.ok => r.done)
        /\ UNCHANGED <<journal, state, loose, dec, com, place, queueLast, history,
                       background, crashes>>
    BY SpendType, ResultParts DEF Inv, TypeOK, Settle, At, Settled
  <1>2. /\ Interrupted = {p} /\ effects[plan[p].op] = 1 /\ plan[p].status # "none"
    BY <1>1 DEF DataInv, CleanupRecoverable, PlansInv, Interrupted
  <1>3. new \in CleanupPlan /\ new.status \in {"applied", "restored"}
    BY <1>1, SettledIs DEF TypeOK
  <1> HIDE DEF new
  <1>4. /\ plan' \in [Commands -> CleanupPlan]
        /\ \A c \in Commands \ {p} : plan'[c] = plan[c]
        /\ plan'[p] = IF r.done THEN new ELSE plan[p]
    BY <1>1, <1>3 DEF TypeOK, Put
  <1>5. Interrupted' = IF r.done THEN {} ELSE {p}
    BY <1>1, <1>2, <1>3, <1>4 DEF Interrupted
  <1>6. KnownKept /\ JournalInv'
    BY <1>1, <1>2, <1>4 DEF KnownKept, DataInv, JournalInv, Fresh, history
  <1>7. PlansInv' /\ CleanupRecoverable'
    BY <1>1, <1>4, <1>5, <1>2 DEF DataInv, PlansInv, CleanupRecoverable, Stamped, history
  <1>8. DataInv'
    BY <1>1, <1>6, <1>7 DEF DataInv, SentInv, LastInv, OneEffect, CommittedDecisionsHold,
       AnswersAreKept, history
  <1>9. w' \in Memory => TypeOK'
    BY <1>1, <1>4 DEF TypeOK, history
  <1>10. CASE ~r.ok
    <2>1. Halted(w')
      BY <1>1, <1>10, FailedHalts DEF Settle, Then
    <2>2. MemInv(w)'
      BY <1>1, <1>6, <2>1, HaltedMem DEF history
    <2> QED BY <1>8, <1>9, <2>1, <2>2 DEF Inv, Halted
  <1>11. CASE r.ok
    <2>1. w' = Go("redo") /\ "redo" \in Step
      BY <1>11 DEF Settle, Then, Step
    <2>2. GoesOn /\ w'.at = "redo" /\ w'.then = w.then /\ w'.left = w.left
          /\ w'.expected = w.expected
      BY <1>1, <2>1, GoGoesOn
    <2>3. Interrupted' = {}
      BY <1>1, <1>5, <1>11
    <2>4. ControlInv(w)' /\ CleanInv(w)'
      BY <1>1, <2>2, <2>3 DEF MemInv, ControlInv, CleanInv, GoesOn, Recovering, Working
    <2>5. ProgressInv(w)'
      BY <1>1, <2>2, <2>3
      DEF MemInv, ProgressInv, GoesOn, Before, ToGuard, ToSave, ToCommit, Recovering, history
    <2>6. MarkInv(w)'
      BY <1>1, <1>2, <2>2 DEF MemInv, MarkInv, GoesOn, ToSave, Recovering, history
    <2>7. MemInv(w)'
      BY <1>1, <1>6, <2>2, <2>4, <2>5, <2>6, GoesOnMem DEF history
    <2> QED BY <1>8, <1>9, <2>2, <2>7 DEF Inv, GoesOn
  <1> QED BY <1>10, <1>11

-----------------------------------------------------------------------------
(* The write of state.json *)

\* The memory after the write of the state.
LEMMA AfterSaveMem ==
    ASSUME Inv, w.at = "save", w' = AfterSave, KnownKept, UNCHANGED <<journal, sent, told, dec>>,
           w.cmd \in Commands => effects'[w.cmd] > 0
    PROVE  MemInv(w)' /\ w' \in Memory
  <1>1. w \in Memory /\ MemInv(w)
    BY DEF Inv, TypeOK
  <1>2. /\ w.phase \in {"boot", "serving", "down"}
        /\ w.cmd \in Commands \cup {Camera, Builder}
        /\ w.phase = "boot" => w.cmd = Camera
    BY <1>1, MemoryParts DEF MemInv, ControlInv
  <1>3. w.cmd \in Commands =>
            /\ Kind \in {"enqueue", "cancel", "build", "reject", "batch", "plan"}
            /\ dec[w.cmd] = DecisionsOf(Kind) /\ w.phase = "serving" /\ w.mark = w.cmd
    BY <1>1 DEF MemInv, ProgressInv, AtWorkInv, MarkInv, ToSave, Kind
  <1>4. {"answers", "snapshot", "event"} \subseteq Step
    BY DEF Step
  <1>5. CASE w.cmd \notin Commands
    <2> DEFINE step == IF w.phase = "boot" THEN "answers"
                       ELSE IF w.cmd = Camera THEN "snapshot" ELSE "event"
    <2>1. w' = Go(step) /\ step \in Step
      BY <1>2, <1>4, <1>5 DEF AfterSave, Own
    <2>2. GoesOn /\ w'.at = step
      BY <1>1, <2>1, GoGoesOn
    <2>3. ControlInv(w)'
      BY <1>2, <1>5, <2>2, OwnIds DEF ControlInv, GoesOn, Recovering, Working
    <2>4. ProgressInv(w)' /\ CleanInv(w)' /\ MarkInv(w)'
      BY <1>5, <2>2 DEF ProgressInv, CleanInv, MarkInv, GoesOn, ToSave, Recovering
    <2> QED BY <2>2, <2>3, <2>4, GoesOnMem DEF GoesOn
  <1>6. CASE w.cmd \in Commands /\ Kind \in {"enqueue", "cancel"}
    <2> DEFINE step == IF Kind = "enqueue" THEN "snapshot" ELSE "event"
    <2>1. w' = Go(step) /\ step \in Step
      BY <1>3, <1>4, <1>6, OwnIds DEF AfterSave, Own
    <2>2. GoesOn /\ w'.at = step
      BY <1>1, <2>1, GoGoesOn
    <2>3. ControlInv(w)'
      BY <1>3, <1>6, <2>2, OwnIds DEF ControlInv, GoesOn, Recovering, Working
    <2>4. ProgressInv(w)'
      BY <1>6, <2>2 DEF ProgressInv, GoesOn, Before, ToGuard, ToSave, ToCommit, Recovering, Kind
    <2>5. CleanInv(w)' /\ MarkInv(w)'
      BY <1>3, <1>6, <2>2 DEF CleanInv, MarkInv, GoesOn, ToSave, Recovering
    <2> QED BY <2>2, <2>3, <2>4, <2>5, GoesOnMem DEF GoesOn
  <1>7. CASE w.cmd \in Commands /\ Kind = "build"
    <2>1. w' = Say("success")
      BY <1>3, <1>7, OwnIds DEF AfterSave, Own
    <2>2. Halted(w')
      BY <1>1, <1>7, <2>1, SayType DEF Halted
    <2> QED BY <2>2, HaltedMem DEF Halted
  <1>8. CASE w.cmd \in Commands /\ Kind \in {"reject", "batch", "plan"}
    <2> DEFINE left == DecisionsOf(Kind)
    <2>1. w' = [w EXCEPT !.at = "commit", !.left = left]
      BY <1>3, <1>8, OwnIds DEF AfterSave, Own
    <2>2. left \in 1..2 /\ dec[w.cmd] = left
      BY <1>3, <1>8, DecisionsBound
    <2> HIDE DEF left
    <2>3. w' = [phase |-> w.phase, cmd |-> w.cmd, at |-> "commit", then |-> w.then,
                left |-> left, reply |-> w.reply, known |-> w.known,
                expected |-> w.expected, mark |-> w.mark, queueLast |-> w.queueLast]
      BY <1>1, <2>1 DEF Memory
    <2>4. GoesOn /\ w'.at = "commit" /\ w'.left = left
      BY <1>1, <2>2, <2>3, MemoryParts DEF Memory, GoesOn, Step
    <2>5. ControlInv(w)' /\ CleanInv(w)'
      BY <1>3, <1>8, <2>4 DEF ControlInv, CleanInv, GoesOn, Recovering, Working
    <2>6. ProgressInv(w)'
      BY <1>8, <2>2, <2>4
      DEF ProgressInv, GoesOn, Before, ToGuard, ToSave, ToCommit, Recovering
    <2>7. MarkInv(w)'
      BY <1>3, <1>8, <2>4 DEF MarkInv, GoesOn, ToSave, Recovering
    <2> QED BY <2>4, <2>5, <2>6, <2>7, GoesOnMem DEF GoesOn
  <1> QED BY <1>2, <1>3, <1>5, <1>6, <1>7, <1>8

\* Save keeps the invariant.
LEMMA SaveInv ==
    ASSUME Inv, NEW r \in Results, Save(r)
    PROVE  Inv'
  <1> DEFINE counts == ~(Own \/ Kind = "cancel")
             taken == IF ~Own /\ Kind = "reject" THEN {sent[w.cmd].arg} ELSE {}
  <1>1. /\ TypeOK /\ w \in Memory /\ MemInv(w) /\ DataInv /\ w.at = "save"
        /\ state' = IF r.done
                    THEN [revision |-> state.revision + 1, last |-> w.mark,
                          rejected |-> state.rejected \cup taken]
                    ELSE state
        /\ loose' \subseteq loose
        /\ effects' = IF counts THEN Put(r, effects, w.cmd, effects[w.cmd] + 1) ELSE effects
        /\ faults' \in Nat /\ r.done \in BOOLEAN /\ (r.ok => r.done)
        /\ UNCHANGED <<journal, dec, com, plan, place, queueLast, sent, told, background, crashes>>
    BY SpendType, ResultParts DEF Inv, TypeOK, Save, At
  <1>2. /\ w.mark \in Commands \cup {Camera, None}
        /\ w.cmd \in Commands \cup {Camera, Builder}
        /\ Interrupted = {} /\ Interrupted' = {}
        /\ w.cmd \in Commands <=> ~Own
    BY <1>1, MemoryParts, OwnIds DEF MemInv, CleanInv, Interrupted, Own
  <1>3. w.cmd \in Commands =>
            /\ w.mark = w.cmd /\ journal[w.cmd] # "none" /\ w.known[w.cmd] = "prepared"
            /\ IF Kind = "cancel" THEN effects[w.cmd] > 0 ELSE effects[w.cmd] = 0
    BY <1>1 DEF MemInv, AtWorkInv, MarkInv, ProgressInv, Before, ToSave, Kind
  <1>4. taken \subseteq Items
    BY <1>1, <1>2 DEF DataInv, SentInv, Kind
  <1>5. state' \in State
    BY <1>1, <1>2, <1>4 DEF TypeOK, State
  <1> HIDE DEF taken
  <1>6. /\ effects' \in [Commands -> Nat]
        /\ \A c \in Commands : c # w.cmd => effects'[c] = effects[c]
        /\ \A c \in Commands : effects[c] > 0 => effects'[c] > 0
        /\ w.cmd \in Commands =>
               effects'[w.cmd] = IF counts THEN IF r.done THEN 1 ELSE 0 ELSE effects[w.cmd]
    BY <1>1, <1>2, <1>3 DEF TypeOK, Put
  <1>7. w.cmd \in Commands /\ r.done => effects'[w.cmd] > 0
    BY <1>2, <1>3, <1>6
  <1> HIDE DEF counts
  <1>8. KnownKept
    BY <1>1, <1>3, <1>6 DEF KnownKept, Fresh
  <1>9. DataInv'
    <2>1. JournalInv'
      BY <1>1, <1>3, <1>6 DEF DataInv, JournalInv, Fresh
    <2>2. OneEffect' /\ CommittedDecisionsHold'
      BY <1>1, <1>6 DEF DataInv, OneEffect, CommittedDecisionsHold
    <2>3. PlansInv' /\ CleanupRecoverable'
      BY <1>2 DEF PlansInv, CleanupRecoverable
    <2>4. LastInv'
      <3>1. CASE ~r.done
        BY <1>1, <1>6, <3>1 DEF DataInv, LastInv
      <3>2. CASE r.done
        <4>1. state'.last = w.mark
          BY <1>1, <3>2
        <4>2. w.cmd \notin Commands /\ w.mark \in Commands => effects[w.mark] > 0
          BY <1>1 DEF MemInv, MarkInv, ToSave
        <4> QED BY <1>3, <1>6, <1>7, <3>2, <4>1, <4>2 DEF LastInv
      <3> QED BY <1>1, <3>1, <3>2
    <2> QED BY <1>1, <2>1, <2>2, <2>3, <2>4 DEF DataInv, SentInv, AnswersAreKept
  <1>10. w' \in Memory => TypeOK'
    BY <1>1, <1>5, <1>6 DEF TypeOK
  <1>11. CASE ~r.ok
    <2>1. Halted(w')
      BY <1>1, <1>11, FailedHalts DEF Save, Then
    <2>2. MemInv(w)'
      BY <1>1, <1>8, <2>1, HaltedMem
    <2> QED BY <1>9, <1>10, <2>1, <2>2 DEF Inv, Halted
  <1>12. CASE r.ok
    <2>1. w' = AfterSave
      BY <1>12 DEF Save, Then
    <2>2. MemInv(w)' /\ w' \in Memory
      BY <1>1, <1>7, <1>8, <1>12, <2>1, AfterSaveMem
    <2> QED BY <1>9, <1>10, <2>2 DEF Inv
  <1> QED BY <1>11, <1>12

-----------------------------------------------------------------------------
(* The command journal *)

\* A new answer of command c, which nobody was told another answer of.
LEMMA DataOfAnswer ==
    ASSUME Inv, NEW c \in Commands, NEW answer \in Final,
           UNCHANGED <<state, dec, com, plan, sent, effects>>,
           journal' = journal \/ journal' = [journal EXCEPT ![c] = answer],
           told[c] \cap Final = {},
           \A d \in Commands \ {c} : told'[d] = told[d],
           told'[c] \cap Final \subseteq {journal'[c]}
    PROVE  DataInv' /\ journal' \in [Commands -> Status]
  <1>1. /\ journal' \in [Commands -> Status]
        /\ \A d \in Commands \ {c} : journal'[d] = journal[d]
        /\ journal'[c] = "none" => journal[c] = "none"
    BY DEF Inv, TypeOK, Status, Final
  <1>2. AnswersAreKept'
    BY <1>1 DEF Inv, DataInv, AnswersAreKept, Final
  <1>3. JournalInv'
    BY <1>1 DEF Inv, DataInv, JournalInv, Fresh
  <1> QED BY <1>1, <1>2, <1>3 DEF Inv, DataInv, SentInv, PlansInv, LastInv, CleanupRecoverable,
          OneEffect, CommittedDecisionsHold, Interrupted, Stamped

\* Repeat keeps the invariant.
LEMMA RepeatInv ==
    ASSUME Inv, NEW c \in Commands, Repeat(c)
    PROVE  Inv'
  <1>1. /\ TypeOK /\ w \in Memory /\ MemInv(w) /\ DataInv /\ w.phase = "serving"
        /\ told' = [told EXCEPT ![c] = @ \cup ({w.known[c]} \cap Final)]
        /\ UNCHANGED <<disk, w, sent, effects, background, crashes, faults>>
    BY DEF Inv, TypeOK, Repeat, Serving
  <1>2. /\ told' \in [Commands -> SUBSET (Final \cup {"uncertain"})]
        /\ \A d \in Commands \ {c} : told'[d] = told[d]
        /\ told'[c] = told[c] \cup ({w.known[c]} \cap Final)
    BY <1>1 DEF TypeOK
  <1>3. /\ w.known[c] \in Final => journal[c] = w.known[c]
        /\ w.known[c] \notin Final => told[c] \cap Final = {}
    BY <1>1 DEF MemInv, AnswersInv
  <1>4. AnswersAreKept'
    BY <1>1, <1>2, <1>3 DEF DataInv, AnswersAreKept, disk
  <1>5. DataInv'
    BY <1>1, <1>4 DEF DataInv, SentInv, JournalInv, PlansInv, LastInv, CleanupRecoverable,
       OneEffect, CommittedDecisionsHold, Interrupted, Stamped, Fresh, disk
  <1>6. TypeOK'
    BY <1>1, <1>2 DEF TypeOK, disk
  <1>7. AnswersInv(w)'
    BY <1>1, <1>2 DEF MemInv, AnswersInv, disk
  <1>8. MemInv(w)'
    BY <1>1, <1>7 DEF MemInv, ControlInv, AtWorkInv, KnownInv, ProgressInv, CleanInv, MarkInv,
       Before, ToGuard, ToSave, ToCommit, Recovering, Interrupted, Fresh, disk
  <1> QED BY <1>5, <1>6, <1>8 DEF Inv

\* Reply keeps the invariant.
LEMMA ReplyInv ==
    ASSUME Inv, NEW r \in Results, Reply(r)
    PROVE  Inv'
  <1> DEFINE c == w.cmd
             said == IF r.ok THEN w.reply ELSE "uncertain"
  <1>1. /\ TypeOK /\ w \in Memory /\ MemInv(w) /\ w.at = "reply"
        /\ journal' = Put(r, journal, c, w.reply)
        /\ told' = [told EXCEPT ![c] = @ \cup {said}]
        /\ w' = IF r.ok THEN [Idle EXCEPT !.known[c] = w.reply] ELSE Idle
        /\ faults' \in Nat /\ r.done \in BOOLEAN /\ (r.ok => r.done)
        /\ UNCHANGED <<state, loose, dec, com, plan, place, queueLast, sent, effects,
                       background, crashes>>
    BY SpendType, ResultParts DEF Inv, TypeOK, Reply, At
  <1>2. c \in Commands
    BY <1>1 DEF MemInv, ControlInv, Working
  <1>3. w.phase = "serving" /\ w.known[c] = "prepared" /\ told[c] \cap Final = {}
    BY <1>1, <1>2 DEF MemInv, AtWorkInv, AnswersInv, Final
  <1>4. w.reply \in Final /\ w.known \in [Commands -> Status]
    BY <1>1, MemoryParts DEF Final
  <1>5. /\ told' \in [Commands -> SUBSET (Final \cup {"uncertain"})]
        /\ \A d \in Commands \ {c} : told'[d] = told[d]
        /\ told'[c] = told[c] \cup {said}
    BY <1>1, <1>2, <1>4 DEF TypeOK
  <1>6. /\ journal' = journal \/ journal' = [journal EXCEPT ![c] = w.reply]
        /\ \A d \in Commands \ {c} : journal'[d] = journal[d]
        /\ r.ok => journal'[c] = w.reply
    BY <1>1, <1>2 DEF Put, TypeOK
  <1>7. told'[c] \cap Final = IF r.ok THEN {w.reply} ELSE {}
    BY <1>1, <1>3, <1>4, <1>5 DEF Final
  <1>8. DataInv' /\ journal' \in [Commands -> Status]
    BY <1>1, <1>2, <1>3, <1>4, <1>5, <1>6, <1>7, DataOfAnswer
  <1>9. /\ w' \in Memory /\ Quiet(w')
        /\ w'.known = IF r.ok THEN [w.known EXCEPT ![c] = w.reply] ELSE w.known
    <2> HIDE DEF c
    <2>1. /\ Idle \in Memory /\ Idle.at = "idle" /\ Idle.then = "idle" /\ Idle.cmd = Camera
          /\ Idle.phase = "serving" /\ Idle.known = w.known
      BY <1>1, <1>3, IdleType
    <2>2. CASE ~r.ok
      BY <1>1, <2>1, <2>2 DEF Quiet
    <2>3. CASE r.ok
      <3>1. w' = [phase |-> Idle.phase, cmd |-> Idle.cmd, at |-> Idle.at, then |-> Idle.then,
                  left |-> Idle.left, reply |-> Idle.reply,
                  known |-> [w.known EXCEPT ![c] = w.reply], expected |-> Idle.expected,
                  mark |-> Idle.mark, queueLast |-> Idle.queueLast]
        BY <1>1, <2>1, <2>3 DEF Memory
      <3>2. [w.known EXCEPT ![c] = w.reply] \in [Commands -> Status]
        BY <1>4 DEF Status
      <3> QED BY <2>1, <2>3, <3>1, <3>2, MemoryParts DEF Memory, Quiet
    <2> QED BY <2>2, <2>3
  <1>10. KnownInv(w)'
    BY <1>1, <1>2, <1>3, <1>4, <1>9 DEF MemInv, KnownInv, Fresh, Final
  <1>11. AnswersInv(w)'
    BY <1>1, <1>2, <1>3, <1>4, <1>5, <1>6, <1>7, <1>9 DEF MemInv, AnswersInv, Final
  <1>12. MemInv(w)'
    BY <1>9, <1>10, <1>11, QuietMem
  <1>13. TypeOK'
    BY <1>1, <1>5, <1>8, <1>9 DEF TypeOK
  <1> QED BY <1>8, <1>12, <1>13 DEF Inv

\* AnswerPrepared keeps the invariant.
LEMMA AnswerPreparedInv ==
    ASSUME Inv, NEW c \in Commands, NEW r \in Results, AnswerPrepared(c, r)
    PROVE  Inv'
  <1> DEFINE answer == IF WasApplied(c) THEN "success" ELSE "aborted"
  <1>1. /\ TypeOK /\ w \in Memory /\ MemInv(w) /\ w.at = "answers" /\ w.known[c] = "prepared"
        /\ journal' = Put(r, journal, c, answer)
        /\ w' = IF r.ok THEN [w EXCEPT !.known[c] = answer] ELSE Failed
        /\ faults' \in Nat /\ r.done \in BOOLEAN /\ (r.ok => r.done)
        /\ UNCHANGED <<state, loose, dec, com, plan, place, queueLast, history,
                       background, crashes>>
    BY SpendType, ResultParts DEF Inv, TypeOK, AnswerPrepared, Unanswered, At, Then
  <1>2. answer \in Final
    BY DEF Final
  <1> HIDE DEF answer
  <1>3. w.phase = "boot" /\ w.cmd = Camera /\ told[c] \cap Final = {}
    BY <1>1 DEF MemInv, ControlInv, AnswersInv, Final
  <1>4. /\ journal' = journal \/ journal' = [journal EXCEPT ![c] = answer]
        /\ \A d \in Commands \ {c} : journal'[d] = journal[d]
        /\ r.ok => journal'[c] = answer
    BY <1>1 DEF Put, TypeOK
  <1>5. DataInv' /\ journal' \in [Commands -> Status]
    BY <1>1, <1>2, <1>3, <1>4, DataOfAnswer DEF history
  <1>6. w' \in Memory => TypeOK'
    BY <1>1, <1>5 DEF TypeOK, history
  <1>7. CASE ~r.ok
    <2>1. w' = Lost
      BY <1>1, <1>3, <1>7 DEF Failed
    <2> QED BY <1>5, <1>6, <2>1, LostType, DownMem DEF Inv
  <1>8. CASE r.ok
    <2> DEFINE known == [w.known EXCEPT ![c] = answer]
    <2>1. w.known \in [Commands -> Status]
      BY <1>1, MemoryParts
    <2>2. w' = [phase |-> w.phase, cmd |-> w.cmd, at |-> w.at, then |-> w.then,
                left |-> w.left, reply |-> w.reply, known |-> known,
                expected |-> w.expected, mark |-> w.mark, queueLast |-> w.queueLast]
      BY <1>1, <1>8 DEF Memory
    <2>3. /\ known \in [Commands -> Status] /\ known[c] = answer
          /\ \A d \in Commands \ {c} : known[d] = w.known[d]
      BY <1>2, <2>1 DEF Status
    <2> HIDE DEF known
    <2>4. w' \in Memory
      BY <1>1, <2>2, <2>3, MemoryParts DEF Memory
    <2>5. ControlInv(w)'
      BY <1>1, <1>3, <2>2, OwnIds DEF ControlInv, Recovering, Working
    <2>6. AtWorkInv(w)' /\ ProgressInv(w)' /\ CleanInv(w)' /\ MarkInv(w)'
      BY <1>1, <1>3, <2>2, OwnIds DEF AtWorkInv, ProgressInv, CleanInv, MarkInv, ToSave, Recovering
    <2>7. KnownInv(w)'
      BY <1>1, <1>2, <2>2, <2>3 DEF MemInv, KnownInv, Fresh, Final, history
    <2>8. AnswersInv(w)'
      BY <1>1, <1>2, <1>4, <1>8, <2>2, <2>3 DEF MemInv, AnswersInv, history
    <2> QED BY <1>5, <1>6, <2>4, <2>5, <2>6, <2>7, <2>8 DEF Inv, MemInv
  <1> QED BY <1>7, <1>8

\* A request names a file or a plan if its kind needs one.
WellFormed(q) ==
    /\ q \in Request
    /\ q.kind = "reject" => q.arg \in Items
    /\ q.kind \in {"apply", "restore"} => q.arg \in Commands

\* New requests are.
LEMMA RequestsWellFormed ==
    ASSUME TypeOK, NEW q \in Requests
    PROVE  WellFormed(q)
  <1>1. state.revision \in Nat
    BY DEF TypeOK, State
  <1> QED BY <1>1, KindsAssumption DEF Requests, WellFormed, Request, AllKinds

\* And so are repeated ones.
LEMMA SentWellFormed ==
    ASSUME Inv, NEW c \in Commands, sent[c] # NotSent
    PROVE  WellFormed(sent[c])
  <1>1. sent[c] \in Request
    BY DEF Inv, TypeOK
  <1> QED BY <1>1 DEF Inv, DataInv, SentInv, WellFormed

\* Accept keeps the invariant.
LEMMA AcceptInv ==
    ASSUME Inv, NEW c \in Commands, NEW q, WellFormed(q), NEW r \in Results, Accept(c, q, r)
    PROVE  Inv'
  <1> DEFINE cleanup == q.kind \in CleanupKinds
             at == IF cleanup THEN "recover" ELSE "guard"
             then == IF cleanup THEN "guard" ELSE "save"
             known == [w.known EXCEPT ![c] = "prepared"]
  <1>1. /\ TypeOK /\ w \in Memory /\ MemInv(w) /\ DataInv /\ w.phase = "serving"
        /\ w.at = "idle" /\ w.known[c] = "none"
        /\ sent' = [sent EXCEPT ![c] = q]
        /\ journal' = Put(r, journal, c, "prepared")
        /\ w' = IF r.ok THEN [w EXCEPT !.cmd = c, !.mark = c, !.expected = q.expected,
                                       !.known[c] = "prepared", !.at = at, !.then = then]
                ELSE w
        /\ faults' \in Nat /\ r.done \in BOOLEAN /\ (r.ok => r.done)
        /\ UNCHANGED <<state, loose, dec, com, plan, place, queueLast, told, effects,
                       background, crashes>>
    BY SpendType, ResultParts DEF Inv, TypeOK, Accept, Serving, Known, CleanupKinds
  <1>2. q \in Request /\ q.expected \in Nat
    BY DEF WellFormed, Request
  <1>3. w.cmd = Camera /\ w.then = "idle" /\ Fresh(c) /\ told[c] \cap Final = {}
    BY <1>1 DEF MemInv, ControlInv, KnownInv, AnswersInv, Final
  <1>4. /\ sent' \in [Commands -> Request \cup {NotSent}] /\ sent'[c] = q
        /\ \A d \in Commands \ {c} : sent'[d] = sent[d]
    BY <1>1, <1>2 DEF TypeOK
  <1>5. /\ journal' \in [Commands -> Status]
        /\ \A d \in Commands \ {c} : journal'[d] = journal[d]
        /\ journal'[c] = "none" => journal[c] = "none"
        /\ r.ok => journal'[c] = "prepared"
    BY <1>1 DEF TypeOK, Put, Status
  <1>6. DataInv'
    <2>1. SentInv'
      BY <1>1, <1>4 DEF DataInv, SentInv, WellFormed
    <2>2. JournalInv'
      BY <1>1, <1>5 DEF DataInv, JournalInv, Fresh
    <2>3. AnswersAreKept'
      BY <1>1, <1>3, <1>5 DEF DataInv, AnswersAreKept
    <2> QED BY <1>1, <2>1, <2>2, <2>3 DEF DataInv, PlansInv, LastInv, CleanupRecoverable,
            OneEffect, CommittedDecisionsHold, Interrupted, Stamped
  <1>7. w' \in Memory => TypeOK'
    BY <1>1, <1>4, <1>5 DEF TypeOK
  <1>8. \A p \in Interrupted : plan[p].op # c
    BY <1>1, <1>3 DEF DataInv, PlansInv, Fresh
  <1>9. CASE ~r.ok
    <2>1. w' = w /\ Quiet(w')
      BY <1>1, <1>3, <1>9 DEF Quiet
    <2>2. KnownInv(w)'
      BY <1>1, <2>1 DEF MemInv, KnownInv, Fresh
    <2>3. AnswersInv(w)'
      BY <1>1, <1>5, <2>1 DEF MemInv, AnswersInv, Final
    <2>4. MemInv(w)'
      BY <2>1, <2>2, <2>3, QuietMem
    <2> QED BY <1>1, <1>6, <1>7, <2>1, <2>4 DEF Inv
  <1>10. CASE r.ok
    <2>1. w' = [phase |-> w.phase, cmd |-> c, at |-> at, then |-> then,
                left |-> w.left, reply |-> w.reply, known |-> known,
                expected |-> q.expected, mark |-> c, queueLast |-> w.queueLast]
      BY <1>1, <1>10 DEF Memory
    <2>2. /\ known \in [Commands -> Status] /\ known[c] = "prepared"
          /\ \A d \in Commands \ {c} : known[d] = w.known[d]
      BY <1>1, MemoryParts DEF Status
    <2> HIDE DEF known
    <2>3. w' \in Memory
      BY <1>1, <1>2, <2>1, <2>2, MemoryParts DEF Memory, Step
    <2>4. ControlInv(w)'
      BY <1>1, <2>1, OwnIds DEF ControlInv, Recovering, Working
    <2>5. AtWorkInv(w)'
      <3> HIDE DEF at, then
      <3>0. w'.known = known /\ w'.phase = w.phase /\ w'.cmd = c
        BY <2>1
      <3>1. w'.cmd = c /\ w'.phase = "serving" /\ w'.known[c] = "prepared"
        BY <1>1, <2>2, <3>0
      <3>2. journal'[c] # "none" /\ sent'[c] \in Request
        BY <1>2, <1>4, <1>5, <1>10
      <3> QED BY <3>1, <3>2 DEF AtWorkInv
    <2>6. KnownInv(w)'
      BY <1>1, <2>1, <2>2 DEF MemInv, KnownInv, Fresh
    <2>7. ProgressInv(w)'
      BY <1>1, <1>3, <1>4, <1>8, <2>1
      DEF ProgressInv, Before, ToGuard, ToSave, ToCommit, Recovering, Interrupted, Fresh
    <2>8. CleanInv(w)' /\ MarkInv(w)'
      BY <1>4, <2>1 DEF CleanInv, MarkInv, ToSave, Recovering
    <2>9. AnswersInv(w)'
      BY <1>1, <1>3, <1>5, <2>1, <2>2 DEF MemInv, AnswersInv, Final
    <2> QED BY <1>6, <1>7, <2>3, <2>4, <2>5, <2>6, <2>7, <2>8, <2>9 DEF Inv, MemInv
  <1> QED BY <1>9, <1>10

-----------------------------------------------------------------------------
(* Every step *)

\* The invariant holds at first.
LEMMA InitInv ==
    ASSUME Init
    PROVE  Inv
  <1>1. w = [phase |-> "serving", cmd |-> Camera, at |-> "idle", then |-> "idle",
             left |-> 0, reply |-> "failure", known |-> [c \in Commands |-> "none"],
             expected |-> 0, mark |-> None, queueLast |-> None]
    BY DEF Init, Lost
  <1>2. w \in Memory /\ Quiet(w)
    BY <1>1 DEF Memory, Step, Status, Quiet
  <1>3. NotSent.kind = "none" /\ 0 \in Nat
    BY DEF NotSent
  <1>4. TypeOK
    BY <1>2, NoPlanType DEF Init, TypeOK, Status, State
  <1>5. Interrupted = {}
    BY NoPlanType DEF Init, Interrupted
  <1>6. DataInv
    BY <1>3, <1>5, OwnIds, NoPlanType
    DEF Init, DataInv, SentInv, JournalInv, PlansInv, LastInv, CleanupRecoverable, OneEffect,
        CommittedDecisionsHold, AnswersAreKept, Fresh
  <1>7. KnownInv(w) /\ AnswersInv(w)
    BY <1>1, NoPlanType DEF Init, KnownInv, AnswersInv, Fresh, Final
  <1>8. ControlInv(w) /\ AtWorkInv(w) /\ ProgressInv(w) /\ CleanInv(w) /\ MarkInv(w)
    BY <1>2, OwnIds DEF Quiet, ControlInv, AtWorkInv, ProgressInv, CleanInv, MarkInv, Working,
       ToSave, Recovering
  <1> QED BY <1>4, <1>6, <1>7, <1>8 DEF Inv, MemInv

\* The writes of a command.
LEMMA CommandWriteInv ==
    ASSUME Inv, NEW r, CommandWrite(r)
    PROVE  Inv'
  <1>1. r \in Results
    BY DEF CommandWrite, Prepare, WritePlan, Unplan, Mark, CancelJob, PauseQueue, Save,
       AppendEvent, SnapshotQueue, Commit, Reply
  <1> QED BY <1>1, PrepareInv, WritePlanInv, UnplanInv, MarkStepInv, CancelJobInv, PauseQueueInv,
          SaveInv, AppendEventInv, SnapshotQueueInv, CommitInv, ReplyInv DEF CommandWrite

\* The writes that finish a cleanup.
LEMMA FinishCleanupInv ==
    ASSUME Inv, NEW r, FinishCleanup(r)
    PROVE  Inv'
  <1>1. PICK p \in Commands : (\E i \in Items : Move(p, i, r)) \/ Stamp(p, r) \/ Settle(p, r)
    BY DEF FinishCleanup
  <1>2. r \in Results
    BY <1>1 DEF Move, Stamp, Settle
  <1> QED BY <1>1, <1>2, MoveInv, StampInv, SettleInv

\* The writes of the other recoveries.
LEMMA RecoverWriteInv ==
    ASSUME Inv, NEW r, RecoverWrite(r)
    PROVE  Inv'
  <1>1. PICK c \in Commands : Redo(c, r) \/ AnswerPrepared(c, r)
    BY DEF RecoverWrite
  <1>2. r \in Results
    BY <1>1 DEF Redo, AnswerPrepared
  <1> QED BY <1>1, <1>2, RedoInv, AnswerPreparedInv

\* What the worker goes on with.
LEMMA WorkInv ==
    ASSUME Inv, Work
    PROVE  Inv'
  <1>1. Decide => Inv'
    BY GuardInv, SaveConflictInv, RecoverNothingInv, RedoDoneInv, OpenInv, RecoverTerminalInv
    DEF Decide
  <1> QED BY <1>1, CommandWriteInv, FinishCleanupInv, RecoverWriteInv DEF Work

\* What reaches a free worker.
LEMMA ArriveInv ==
    ASSUME Inv, Arrive
    PROVE  Inv'
  <1>1. ASSUME NEW c \in Commands, NEW q \in Requests, NEW r \in Results, Accept(c, q, r)
        PROVE  Inv'
    BY <1>1, RequestsWellFormed, AcceptInv DEF Inv
  <1>2. ASSUME NEW c \in Commands, NEW r \in Results, sent[c] # NotSent, Accept(c, sent[c], r)
        PROVE  Inv'
    BY <1>2, SentWellFormed, AcceptInv
  <1>3. ASSUME NEW c \in Commands, Repeat(c)
        PROVE  Inv'
    BY <1>3, RepeatInv
  <1>4. ASSUME NEW by \in {Camera, Builder}, NEW mark \in Commands \cup {Camera, None},
               Background(by, mark)
        PROVE  Inv'
    BY <1>4, BackgroundInv
  <1>5. ASSUME NEW step \in {"recover", "redo"}, Read(step)
        PROVE  Inv'
    BY <1>5, ReadInv
  <1> QED BY <1>1, <1>2, <1>3, <1>4, <1>5 DEF Arrive

\* Nothing happens.
LEMMA StutterInv ==
    ASSUME Inv, UNCHANGED vars
    PROVE  Inv'
  <1>1. /\ w' = w /\ UNCHANGED <<disk, history, background, crashes, faults>>
    BY DEF vars
  <1>2. KnownKept /\ UNCHANGED <<journal, sent, told>>
    BY <1>1 DEF KnownKept, Fresh, disk, history
  <1>3. ProgressInv(w)' /\ CleanInv(w)' /\ MarkInv(w)'
    BY <1>1 DEF Inv, MemInv, ProgressInv, CleanInv, MarkInv, Before, ToGuard, ToSave,
       ToCommit, Recovering, Interrupted, disk, history
  <1>4. MemInv(w)'
    BY <1>1, <1>2, <1>3, SameMem
  <1> QED BY <1>1, <1>4, MemoryStep DEF Inv, TypeOK

\* The invariant is inductive.
LEMMA NextInv == Inv /\ [Next]_vars => Inv'
  BY WorkInv, ArriveInv, BootInv, CrashInv, StutterInv DEF Next

\* So it always holds.
LEMMA Invariance == Spec => []Inv
  BY InitInv, NextInv, PTL DEF Spec

-----------------------------------------------------------------------------
(* Where the files are *)

\* What a cleanup command found before it changed anything.
Ready(p, kind) ==
    IF kind = "apply"
    THEN plan[p].status = "planned" /\ \A i \in plan[p].items : place[i] = "project"
    ELSE plan[p].status = "applied"

\* The plans of the command at work.
OwnPlanInv(m) ==
    m.cmd \in Commands =>
        /\ ToGuard(m) => plan[m.cmd].status = "none"
        /\ /\ sent[m.cmd].kind = "plan"
           /\ m.at = "planfile" \/ (m.then = "save" /\ m.at \notin {"commit", "reply"})
           => plan[m.cmd].status \in {"none", "planned"}
        /\ m.at = "unplan" => plan[m.cmd].status \in {"none", "planned"}
        /\ m.at \in {"prepare", "mark"} /\ sent[m.cmd].kind \in {"apply", "restore"} =>
               Ready(sent[m.cmd].arg, sent[m.cmd].kind)

\* An interrupted cleanup has its files where it takes them, or took them from.
PlacesInv == \A p \in Interrupted : \A i \in plan[p].items : place[i] \in {"project", p}

FilesInv == PlacesInv /\ FilesAccounted /\ OwnPlanInv(w)

\* Nothing moves.
LEMMA FilesKept ==
    ASSUME FilesInv, UNCHANGED <<plan, place>>
    PROVE  PlacesInv' /\ FilesAccounted'
  BY DEF FilesInv, PlacesInv, FilesAccounted, Interrupted

\* No command is at work.
LEMMA FreeOwnPlan ==
    ASSUME w'.cmd \notin Commands
    PROVE  OwnPlanInv(w)'
  BY DEF OwnPlanInv

\* The command at work goes on with the plans it found.
LEMMA SameOwnPlan ==
    ASSUME Inv, FilesInv, UNCHANGED <<plan, place, sent>>, w'.cmd = w.cmd,
           ToGuard(w') => ToGuard(w), w'.at \notin {"planfile", "unplan"},
           sent[w.cmd].kind = "plan" /\ w'.then = "save" /\ w'.at \notin {"commit", "reply"} =>
               w.at = "planfile" \/ (w.then = "save" /\ w.at \notin {"commit", "reply"}),
           w'.at \in {"prepare", "mark"} => w.at \in {"prepare", "mark"}
    PROVE  OwnPlanInv(w)'
  BY DEF FilesInv, OwnPlanInv, Ready, ToGuard, Recovering

\* After an error, too.
LEMMA FailedOwnPlan ==
    ASSUME w \in Memory, w' = Failed, sent' = sent,
           w.cmd \in Commands /\ MustUnplan => plan'[w.cmd].status \in {"none", "planned"}
    PROVE  OwnPlanInv(w)'
  <1>1. w.cmd \in Commands \cup {Camera, Builder}
    BY MemoryParts
  <1>2. CASE w.phase = "boot" \/ w.cmd = Builder \/ w.cmd = Camera
    BY <1>2, LostType, IdleType, OwnIds, FreeOwnPlan DEF Failed
  <1>3. CASE ~(w.phase = "boot" \/ w.cmd = Builder \/ w.cmd = Camera) /\ MustUnplan
    <2>1. w' = Go("unplan") /\ "unplan" \in Step
      BY <1>3 DEF Failed, Step
    <2>2. w'.at = "unplan" /\ w'.cmd = w.cmd
      BY <2>1, GoType
    <2> QED BY <1>1, <1>3, <2>2 DEF OwnPlanInv, ToGuard, Recovering
  <1>4. CASE ~(w.phase = "boot" \/ w.cmd = Builder \/ w.cmd = Camera) /\ ~MustUnplan
    <2>1. w' = Say("failure")
      BY <1>4 DEF Failed
    <2>2. w'.at = "reply"
      BY <2>1, SayType
    <2> QED BY <2>2 DEF OwnPlanInv, ToGuard, Recovering
  <1> QED BY <1>2, <1>3, <1>4

\* An error of a step that leaves the plans alone.
LEMMA FailedSame ==
    ASSUME Inv, FilesInv, w' = Failed, UNCHANGED <<plan, sent>>, w.at # "reply"
    PROVE  OwnPlanInv(w)'
  <1>1. w.cmd \in Commands /\ MustUnplan => plan[w.cmd].status \in {"none", "planned"}
    BY DEF FilesInv, OwnPlanInv, MustUnplan, Kind
  <1> QED BY <1>1, FailedOwnPlan DEF Inv, TypeOK

\* The command at work is about to answer, or to commit.
LEMMA EndingOwnPlan ==
    ASSUME w'.at \in {"reply", "commit"}
    PROVE  OwnPlanInv(w)'
  BY DEF OwnPlanInv, ToGuard, Recovering

\* The steps of a free worker, of startup and of the command journal.
LEMMA FreeSteps ==
    ASSUME Inv, FilesInv,
           \/ Crash \/ Boot \/ Open
           \/ \E camera \in BOOLEAN : RecoverTerminal(camera)
           \/ \E step \in {"recover", "redo"} : Read(step)
           \/ \E by \in {Camera, Builder}, mark \in Commands \cup {Camera, None} :
                  Background(by, mark)
           \/ \E r \in Results : Reply(r) \/ \E c \in Commands : AnswerPrepared(c, r)
    PROVE  FilesInv'
  <1>1. w \in Memory /\ MemInv(w)
    BY DEF Inv, TypeOK
  <1>2. UNCHANGED <<plan, place>>
    BY DEF Crash, Boot, Open, RecoverTerminal, Read, Background, Reply, AnswerPrepared, disk
  <1>3. w'.cmd \in {Camera, Builder}
    <2>1. CASE Crash \/ Boot
      <3>1. w' = Lost \/ w'.cmd = Camera
        BY <2>1, LostType DEF Crash, Boot, Lost
      <3> QED BY <3>1, LostType
    <2>2. CASE Open
      <3>1. Idle \in Memory /\ Idle.cmd = Camera /\ w' = [Idle EXCEPT !.phase = "serving"]
        BY <1>1, <2>2, IdleType DEF Open
      <3> QED BY <3>1 DEF Memory
    <2>3. ASSUME NEW camera \in BOOLEAN, RecoverTerminal(camera) PROVE w'.cmd = Camera
      <3>1. w.cmd = Camera
        BY <1>1, <2>3 DEF MemInv, ControlInv, RecoverTerminal, At
      <3>2. CASE w' = Go("answers")
        BY <1>1, <3>1, <3>2, GoType DEF Step
      <3>3. CASE w' # Go("answers")
        <4>1. w' = [w EXCEPT !.at = SaveEntry, !.then = "save",
                             !.mark = RecoveryMark, !.expected = state.revision]
          BY <2>3, <3>3 DEF RecoverTerminal
        <4> QED BY <1>1, <3>1, <4>1 DEF Memory
      <3> QED BY <3>2, <3>3
    <2>4. ASSUME NEW step \in {"recover", "redo"}, Read(step) PROVE w'.cmd = Camera
      <3>1. w.cmd = Camera /\ w' = Go(step) /\ step \in Step
        BY <1>1, <2>4 DEF MemInv, ControlInv, Read, Serving, Step
      <3> QED BY <1>1, <3>1, GoType
    <2>5. ASSUME NEW by \in {Camera, Builder}, NEW mark \in Commands \cup {Camera, None},
                 Background(by, mark)
          PROVE  w'.cmd = by
      <3>1. w' = [w EXCEPT !.cmd = by, !.at = SaveEntry, !.then = "save", !.mark = mark,
                           !.expected = state.revision]
        BY <2>5 DEF Background
      <3> QED BY <1>1, <3>1 DEF Memory
    <2>6. ASSUME NEW r \in Results, Reply(r) PROVE w'.cmd = Camera
      <3>1. Idle \in Memory /\ Idle.cmd = Camera
        BY <1>1, IdleType
      <3>2. w' = Idle \/ w' = [Idle EXCEPT !.known[w.cmd] = w.reply]
        BY <2>6 DEF Reply
      <3> QED BY <3>1, <3>2 DEF Memory
    <2>7. ASSUME NEW r \in Results, NEW c \in Commands, AnswerPrepared(c, r) PROVE w'.cmd = Camera
      <3>1. w.cmd = Camera /\ w.phase = "boot"
        BY <1>1, <2>7 DEF MemInv, ControlInv, AnswerPrepared, At
      <3>2. CASE ~r.ok
        <4>1. w' = Lost
          BY <2>7, <3>1, <3>2 DEF AnswerPrepared, Then, Failed
        <4> QED BY <4>1, LostType
      <3>3. CASE r.ok
        <4> DEFINE answer == IF WasApplied(c) THEN "success" ELSE "aborted"
        <4>1. w' = [w EXCEPT !.known[c] = answer]
          BY <2>7, <3>3 DEF AnswerPrepared, Then
        <4> HIDE DEF answer
        <4> QED BY <1>1, <3>1, <4>1 DEF Memory
      <3> QED BY <3>2, <3>3
    <2> QED BY <2>1, <2>2, <2>3, <2>4, <2>5, <2>6, <2>7
  <1> QED BY <1>2, <1>3, OwnIds, FreeOwnPlan, FilesKept DEF FilesInv

\* Taking a command.
LEMMA AcceptFiles ==
    ASSUME Inv, FilesInv, NEW c \in Commands, NEW q, WellFormed(q), NEW r \in Results,
           Accept(c, q, r)
    PROVE  FilesInv'
  <1> DEFINE cleanup == q.kind \in CleanupKinds
             at == IF cleanup THEN "recover" ELSE "guard"
             then == IF cleanup THEN "guard" ELSE "save"
  <1>1. /\ w \in Memory /\ MemInv(w) /\ w.phase = "serving" /\ w.at = "idle"
        /\ w.known[c] = "none" /\ UNCHANGED <<plan, place>>
        /\ sent' = [sent EXCEPT ![c] = q]
        /\ w' = IF r.ok THEN [w EXCEPT !.cmd = c, !.mark = c, !.expected = q.expected,
                                       !.known[c] = "prepared", !.at = at, !.then = then]
                ELSE w
    BY DEF Inv, TypeOK, Accept, Serving, Known, CleanupKinds
  <1>2. w.cmd = Camera /\ plan[c].status = "none"
    BY <1>1 DEF MemInv, ControlInv, KnownInv, Fresh
  <1>3. CASE ~r.ok
    BY <1>1, <1>2, <1>3, OwnIds, FreeOwnPlan, FilesKept DEF FilesInv
  <1>4. CASE r.ok
    <2>1. w'.cmd = c /\ w'.at = at /\ w'.then = then
      <3> HIDE DEF at, then
      <3> QED BY <1>1, <1>4 DEF Memory
    <2>2. sent'[c] = q
      BY <1>1 DEF Inv, TypeOK
    <2>3. OwnPlanInv(w)'
      BY <1>1, <1>2, <2>1, <2>2 DEF OwnPlanInv, ToGuard, Recovering, CleanupKinds
    <2> QED BY <1>1, <2>3, FilesKept DEF FilesInv
  <1> QED BY <1>3, <1>4

\* A refused command answers; another has found its plan as it must be.
LEMMA GuardFiles ==
    ASSUME Inv, FilesInv, Guard
    PROVE  FilesInv'
  <1> DEFINE q == sent[w.cmd]
  <1>1. /\ w \in Memory /\ MemInv(w) /\ w.at = "guard"
        /\ UNCHANGED <<plan, place, sent>>
    BY DEF Inv, TypeOK, Guard, At, disk, history
  <1>2. w.cmd \in Commands /\ q.kind \in AllKinds
    BY <1>1, OwnIds DEF MemInv, ControlInv, AtWorkInv, Working, Request
  <1>3. CASE Refused(q)
    <2>1. w' = Say("failure")
      BY <1>3 DEF Guard
    <2> QED BY <1>1, <2>1, SayType, EndingOwnPlan, FilesKept DEF FilesInv
  <1>4. CASE ~Refused(q)
    <2> DEFINE step == FirstWrite(q.kind)
    <2> DEFINE left == DecisionsOf(q.kind)
    <2>1. w' = [w EXCEPT !.at = step, !.left = left]
      BY <1>4 DEF Guard, Kind
    <2>2. w'.at = step /\ w'.cmd = w.cmd /\ w'.then = w.then
      <3> HIDE DEF step, left
      <3> QED BY <1>1, <2>1 DEF Memory
    <2>3. plan[w.cmd].status = "none" /\ w.then = IF q.kind \in CleanupKinds THEN "guard" ELSE "save"
      BY <1>1, <1>2 DEF FilesInv, OwnPlanInv, ToGuard, MemInv, ProgressInv
    <2>4. q.kind \in {"apply", "restore"} => Ready(q.arg, q.kind)
      BY <1>4 DEF Refused, Ready, Candidates
    <2>5. (q.kind \in {"apply", "restore"} => Ready(q.arg, q.kind))'
      BY <1>1, <2>2, <2>4 DEF Ready
    <2>6. OwnPlanInv(w)'
      BY <1>1, <1>2, <2>2, <2>3, <2>5, FirstWrites
      DEF OwnPlanInv, ToGuard, Recovering, CleanupKinds, AllKinds
    <2> QED BY <1>1, <2>6, FilesKept DEF FilesInv
  <1> QED BY <1>3, <1>4

\* The recoveries that move no file.
LEMMA RecoverySteps ==
    ASSUME Inv, FilesInv,
           \/ RecoverNothing \/ RedoDone \/ SaveConflict
           \/ \E c \in Commands, r \in Results : Redo(c, r) \/ Stamp(c, r)
           \/ \E c \in Commands : Repeat(c)
           \/ UNCHANGED vars
    PROVE  FilesInv'
  <1>1. w \in Memory /\ MemInv(w)
    BY DEF Inv, TypeOK
  <1>2. UNCHANGED <<plan, place, sent>>
    BY DEF RecoverNothing, RedoDone, SaveConflict, Redo, Stamp, Repeat, vars, disk, history
  <1>3. CASE RecoverNothing
    <2> DEFINE step == IF w.then \in {"guard", "idle"} THEN w.then ELSE "redo"
    <2>1. w' = Go(step) /\ step \in Step /\ w.at = "recover"
      BY <1>3 DEF RecoverNothing, At, Step
    <2>2. w'.at = step /\ w'.cmd = w.cmd /\ w'.then = w.then
      <3> HIDE DEF step
      <3> QED BY <1>1, <2>1, GoType
    <2>3. OwnPlanInv(w)'
      BY <1>2, <2>1, <2>2, SameOwnPlan DEF ToGuard, Recovering
    <2> QED BY <1>2, <2>3, FilesKept DEF FilesInv
  <1>4. CASE RedoDone
    <2>1. w' = Go(w.then) /\ w.at = "redo" /\ w.then \in Step
      BY <1>1, <1>4, MemoryParts DEF RedoDone, At
    <2>2. w'.at = w.then /\ w'.cmd = w.cmd /\ w'.then = w.then
      BY <1>1, <2>1, GoType
    <2>3. w.then \in {"idle", "guard", "save", "commit", "terminal"}
      BY <1>1, <2>1 DEF MemInv, ControlInv, Recovering
    <2>4. OwnPlanInv(w)'
      BY <1>2, <2>1, <2>2, <2>3, SameOwnPlan DEF ToGuard, Recovering
    <2> QED BY <1>2, <2>4, FilesKept DEF FilesInv
  <1>5. CASE SaveConflict \/ \E c \in Commands, r \in Results : Redo(c, r) \/ Stamp(c, r)
    <2>1. w' = Failed \/ w' = w
      BY <1>5 DEF SaveConflict, Redo, Stamp, Then
    <2>2. w.at # "reply"
      BY <1>5 DEF SaveConflict, Redo, Stamp, At
    <2>3. w.at \in {"save", "redo", "recover"}
      BY <1>5 DEF SaveConflict, Redo, Stamp, At
    <2>4. w' = w => OwnPlanInv(w)'
      BY <1>2, <2>3, SameOwnPlan
    <2> QED BY <1>2, <2>1, <2>2, <2>4, FailedSame, FilesKept DEF FilesInv
  <1>6. CASE (\E c \in Commands : Repeat(c)) \/ UNCHANGED vars
    <2>1. w' = w
      BY <1>6 DEF Repeat, vars
    <2>2. OwnPlanInv(w)'
      BY <1>2, <2>1 DEF FilesInv, OwnPlanInv, Ready, ToGuard, Recovering
    <2> QED BY <1>2, <2>2, FilesKept DEF FilesInv
  <1> QED BY <1>3, <1>4, <1>5, <1>6

\* The writes of a command that touch no plan.
LEMMA PlainWrites ==
    ASSUME Inv, FilesInv, NEW r \in Results,
           \/ Prepare(r) \/ CancelJob(r) \/ PauseQueue(r) \/ Save(r)
           \/ AppendEvent(r) \/ SnapshotQueue(r) \/ Commit(r)
    PROVE  FilesInv'
  <1>1. w \in Memory /\ MemInv(w) /\ w.cmd \in Commands \cup {Camera, Builder}
    BY MemoryParts DEF Inv, TypeOK
  <1>2. UNCHANGED <<plan, place, sent>> /\ w.at # "reply"
    <2> DEFINE kept == UNCHANGED <<plan, place, sent>> /\ w.at # "reply"
    <2>1. Prepare(r) => kept
      BY DEF Prepare, At, history
    <2>2. CancelJob(r) => kept
      BY DEF CancelJob, At
    <2>3. PauseQueue(r) => kept
      BY DEF PauseQueue, At
    <2>4. Save(r) => kept
      BY DEF Save, At
    <2>5. AppendEvent(r) => kept
      BY DEF AppendEvent, At, disk, history
    <2>6. SnapshotQueue(r) => kept
      BY DEF SnapshotQueue, At, history
    <2>7. Commit(r) => kept
      BY DEF Commit, At, history
    <2> QED BY <2>1, <2>2, <2>3, <2>4, <2>5, <2>6, <2>7
  <1>3. w' = Failed => FilesInv'
    BY <1>2, FailedSame, FilesKept DEF FilesInv
  <1>4. ASSUME OwnPlanInv(w)' PROVE FilesInv'
    BY <1>2, <1>4, FilesKept DEF FilesInv
  <1>5. CASE Prepare(r) /\ r.ok
    <2>1. w.at = "prepare" /\ w.cmd \in Commands
      BY <1>1, <1>5 DEF Prepare, At, MemInv, ControlInv, Working
    <2>2. sent[w.cmd].kind \in {"reject", "batch", "plan"} => w.then = "save"
      BY <1>1, <2>1 DEF MemInv, ProgressInv
    <2>3. CASE w' = [w EXCEPT !.left = @ - 1]
      <3>1. w'.at = w.at /\ w'.cmd = w.cmd /\ w'.then = w.then
        BY <1>1, <2>3 DEF Memory
      <3>2. OwnPlanInv(w)'
        BY <1>2, <2>1, <3>1, SameOwnPlan DEF ToGuard, Recovering
      <3> QED BY <1>4, <3>2
    <2>4. CASE w' # [w EXCEPT !.left = @ - 1]
      <3> DEFINE step == IF Kind \in {"apply", "restore"} THEN "mark" ELSE "recover"
      <3>1. w' = Go(step) /\ step \in Step
        BY <1>5, <2>4 DEF Prepare, Then, SaveEntry, Step
      <3>2. w'.at = step /\ w'.cmd = w.cmd /\ w'.then = w.then
        BY <1>1, <3>1, GoType
      <3>3. Kind \in {"reject", "batch", "plan", "apply", "restore"}
        BY <1>1, <2>1 DEF MemInv, ProgressInv, Kind
      <3>4. OwnPlanInv(w)'
        BY <1>2, <2>1, <2>2, <3>2, <3>3, SameOwnPlan DEF ToGuard, Recovering, Kind
      <3> QED BY <1>4, <3>4
    <2> QED BY <2>3, <2>4
  <1>6. CASE CancelJob(r) /\ r.ok
    <2>1. w.at = "job" /\ w.cmd \in Commands /\ w' = Go("recover") /\ "recover" \in Step
      BY <1>1, <1>6 DEF CancelJob, At, MemInv, ControlInv, Working, Then, SaveEntry, Step
    <2>2. sent[w.cmd].kind = "cancel" /\ w.then = "save"
      BY <1>1, <2>1 DEF MemInv, ProgressInv
    <2>3. w'.at = "recover" /\ w'.cmd = w.cmd /\ w'.then = w.then
      BY <1>1, <2>1, GoType
    <2>4. OwnPlanInv(w)'
      BY <1>2, <2>2, <2>3, SameOwnPlan DEF ToGuard, Recovering
    <2> QED BY <1>4, <2>4
  <1>7. CASE PauseQueue(r) /\ r.ok
    <2>1. Say("success") \in Memory /\ Say("success").at = "reply"
          /\ w' = [Say("success") EXCEPT !.queueLast = w.cmd]
      BY <1>1, <1>7, SayType DEF PauseQueue, Then
    <2>2. w'.at = "reply"
      BY <2>1 DEF Memory
    <2> QED BY <1>4, <2>2, EndingOwnPlan
  <1>8. CASE Commit(r) /\ r.ok
    <2>1. w' = [w EXCEPT !.left = @ - 1] \/ w' = Say("success")
      BY <1>8 DEF Commit, Then
    <2>2. w.at = "commit"
      BY <1>8 DEF Commit, At
    <2>3. w'.at \in {"commit", "reply"}
      BY <1>1, <2>1, <2>2, SayType DEF Memory
    <2> QED BY <1>4, <2>3, EndingOwnPlan
  <1>9. CASE SnapshotQueue(r)
    <2> DEFINE last == IF w.cmd # Camera THEN w.cmd
                       ELSE IF w.mark = Camera THEN Camera ELSE w.queueLast
               next == IF w.cmd = Camera THEN Idle ELSE Say("success")
    <2>1. /\ next \in Memory /\ (next.cmd = Camera \/ next.at = "reply")
          /\ w' = [next EXCEPT !.queueLast = last]
      BY <1>1, <1>9, IdleType, SayType DEF SnapshotQueue
    <2> HIDE DEF next, last
    <2>2. w'.cmd = Camera \/ w'.at = "reply"
      BY <2>1 DEF Memory
    <2> QED BY <1>4, <2>2, EndingOwnPlan, FreeOwnPlan, OwnIds
  <1>10. CASE AppendEvent(r) /\ r.ok
    <2>1. w' = Idle \/ w' = Go("snapshot")
      BY <1>10 DEF AppendEvent, Then
    <2>2. CASE w' = Idle
      BY <1>1, <1>4, <2>2, IdleType, FreeOwnPlan, OwnIds
    <2>3. CASE w' = Go("snapshot")
      <3>1. w'.at = "snapshot" /\ w'.cmd = w.cmd /\ w'.then = w.then /\ w.at = "event"
        BY <1>1, <1>10, <2>3, GoType DEF Step, AppendEvent, At
      <3>2. OwnPlanInv(w)'
        BY <1>2, <3>1, SameOwnPlan DEF ToGuard, Recovering
      <3> QED BY <1>4, <3>2
    <2> QED BY <2>1, <2>2, <2>3
  <1>11. CASE Save(r) /\ r.ok
    <2>1. w' = AfterSave /\ w.at = "save"
      BY <1>11 DEF Save, Then, At
    <2>2. w.cmd \in Commands =>
            Kind \in {"enqueue", "cancel", "build", "reject", "batch", "plan"} /\ ~Own
            /\ w.phase = "serving"
      BY <1>1, <2>1, OwnIds DEF MemInv, AtWorkInv, ProgressInv, ToSave, Kind, Own
    <2>3. CASE w.cmd \notin Commands
      <3>1. w' \in {Go("answers"), Go("snapshot"), Go("event")}
        BY <1>1, <2>1, <2>3 DEF AfterSave, Own
      <3>2. w'.cmd = w.cmd
        BY <1>1, <3>1, GoType DEF Step
      <3> QED BY <1>4, <2>3, <3>2, FreeOwnPlan
    <2>4. CASE w.cmd \in Commands /\ Kind \in {"enqueue", "cancel"}
      <3>1. w' \in {Go("snapshot"), Go("event")}
        BY <2>1, <2>2, <2>4 DEF AfterSave
      <3>2. w'.cmd = w.cmd /\ w'.at \in {"snapshot", "event"} /\ w'.then = w.then
        BY <1>1, <3>1, GoType DEF Step
      <3>3. OwnPlanInv(w)'
        BY <1>2, <2>1, <2>4, <3>2, SameOwnPlan DEF ToGuard, Recovering, Kind
      <3> QED BY <1>4, <3>3
    <2>5. CASE w.cmd \in Commands /\ Kind \notin {"enqueue", "cancel"}
      <3> DEFINE left == DecisionsOf(Kind)
      <3>1. w' = Say("success") \/ w' = [w EXCEPT !.at = "commit", !.left = left]
        BY <2>1, <2>2, <2>5 DEF AfterSave
      <3> HIDE DEF left
      <3>2. w'.at \in {"reply", "commit"}
        BY <1>1, <3>1, SayType DEF Memory
      <3> QED BY <1>4, <3>2, EndingOwnPlan
    <2> QED BY <2>3, <2>4, <2>5
  <1>12. CASE ~r.ok /\ ~SnapshotQueue(r)
    BY <1>3, <1>12 DEF Prepare, CancelJob, PauseQueue, Save, AppendEvent, Commit, Then
  <1> QED BY <1>5, <1>6, <1>7, <1>8, <1>9, <1>10, <1>11, <1>12

\* What a cleanup moves.
LEMMA WritePlanFiles ==
    ASSUME Inv, FilesInv, NEW r \in Results, WritePlan(r)
    PROVE  FilesInv'
  <1> DEFINE new == [NoPlan EXCEPT !.status = "planned", !.items = Candidates]
  <1>1. /\ TypeOK /\ w \in Memory /\ MemInv(w) /\ w.at = "planfile"
        /\ plan' = Put(r, plan, w.cmd, new) /\ UNCHANGED <<place, sent>>
    BY DEF Inv, TypeOK, WritePlan, At, history
  <1>2. w.cmd \in Commands /\ sent[w.cmd].kind = "plan"
    BY <1>1 DEF MemInv, ControlInv, ProgressInv, Working
  <1>3. plan[w.cmd].status \in {"none", "planned"}
    BY <1>1, <1>2 DEF FilesInv, OwnPlanInv
  <1>4. new.status = "planned"
    BY <1>1, NoPlanType, PlannedIs DEF Candidates, TypeOK, State
  <1> HIDE DEF new
  <1>5. /\ \A c \in Commands \ {w.cmd} : plan'[c] = plan[c]
        /\ plan'[w.cmd].status \in {"none", "planned"}
    BY <1>1, <1>2, <1>3, <1>4 DEF TypeOK, Put
  <1>6. \A i \in Items : place[i] # w.cmd
    BY <1>2, <1>3, CommandsAssumption DEF FilesInv, FilesAccounted
  <1>7. FilesAccounted'
    BY <1>1, <1>5, <1>6 DEF FilesInv, FilesAccounted, TypeOK
  <1>8. PlacesInv'
    BY <1>1, <1>5 DEF FilesInv, PlacesInv, Interrupted
  <1>9. OwnPlanInv(w)'
    <2>1. CASE ~r.ok
      BY <1>1, <1>5, <2>1, FailedOwnPlan DEF WritePlan, Then
    <2>2. CASE r.ok
      <3>1. w' = [w EXCEPT !.at = "prepare", !.then = "save"]
        BY <2>2 DEF WritePlan, Then
      <3>2. w'.at = "prepare" /\ w'.then = "save" /\ w'.cmd = w.cmd
        BY <1>1, <3>1 DEF Memory
      <3> QED BY <1>1, <1>2, <1>5, <3>2 DEF OwnPlanInv, ToGuard, Recovering
    <2> QED BY <2>1, <2>2
  <1> QED BY <1>7, <1>8, <1>9 DEF FilesInv

\* A plan that is removed holds no files.
LEMMA UnplanFiles ==
    ASSUME Inv, FilesInv, NEW r \in Results, Unplan(r)
    PROVE  FilesInv'
  <1>1. /\ TypeOK /\ w \in Memory /\ MemInv(w) /\ w.at = "unplan"
        /\ plan' = Put(r, plan, w.cmd, NoPlan) /\ UNCHANGED <<place, sent>>
        /\ w' = Say("failure")
    BY DEF Inv, TypeOK, Unplan, At, history
  <1>2. w.cmd \in Commands
    BY <1>1 DEF MemInv, ControlInv, Working
  <1>3. plan[w.cmd].status \in {"none", "planned"}
    BY <1>1, <1>2 DEF FilesInv, OwnPlanInv
  <1>4. /\ \A c \in Commands \ {w.cmd} : plan'[c] = plan[c]
        /\ plan'[w.cmd].status \in {"none", "planned"}
    BY <1>1, <1>2, <1>3, NoPlanType DEF TypeOK, Put
  <1>5. \A i \in Items : place[i] # w.cmd
    BY <1>2, <1>3, CommandsAssumption DEF FilesInv, FilesAccounted
  <1>6. FilesAccounted'
    BY <1>1, <1>4, <1>5 DEF FilesInv, FilesAccounted, TypeOK
  <1>7. PlacesInv'
    BY <1>1, <1>4 DEF FilesInv, PlacesInv, Interrupted
  <1>8. OwnPlanInv(w)'
    BY <1>1, SayType, EndingOwnPlan
  <1> QED BY <1>6, <1>7, <1>8 DEF FilesInv

\* An announced operation has found the files where it expects them.
LEMMA MarkFiles ==
    ASSUME Inv, FilesInv, NEW r \in Results, Mark(r)
    PROVE  FilesInv'
  <1> DEFINE p == sent[w.cmd].arg
             status == IF Kind = "apply" THEN "applying" ELSE "restoring"
             new == Marked(plan[p], status, w.cmd, w.expected)
  <1>1. /\ TypeOK /\ w \in Memory /\ MemInv(w) /\ DataInv /\ w.at = "mark"
        /\ plan' = Put(r, plan, p, new) /\ UNCHANGED <<place, sent>>
    BY DEF Inv, TypeOK, Mark, At, Marked, history
  <1>2. w.cmd \in Commands
    BY <1>1 DEF MemInv, ControlInv, Working
  <1>3. /\ sent[w.cmd].kind \in {"apply", "restore"} /\ p \in Commands
        /\ Interrupted = {} /\ Ready(p, sent[w.cmd].kind)
    BY <1>1, <1>2
    DEF MemInv, ProgressInv, CleanInv, DataInv, SentInv, FilesInv, OwnPlanInv
  <1>4. new.items = plan[p].items /\ new.status = status
    <2>1. plan[p] \in CleanupPlan /\ w.expected \in Nat
      BY <1>1, <1>3, MemoryParts DEF TypeOK
    <2>2. status \in {"applying", "restoring"}
      OBVIOUS
    <2> HIDE DEF status
    <2>3. new = [status |-> status, items |-> plan[p].items, op |-> w.cmd, source |-> w.expected]
      BY <1>2, <2>1, <2>2, MarkedIs
    <2> QED BY <2>3
  <1> HIDE DEF new
  <1>5. /\ \A c \in Commands \ {p} : plan'[c] = plan[c]
        /\ plan'[p] = plan[p] \/ plan'[p] = new
        /\ plan'[p].items = plan[p].items
    BY <1>1, <1>3, <1>4 DEF TypeOK, Put
  <1>6. \A i \in plan[p].items : place[i] \in {"project", p}
    BY <1>3 DEF Ready, FilesInv, FilesAccounted
  <1>7. PlacesInv'
    BY <1>1, <1>3, <1>5, <1>6 DEF PlacesInv, Interrupted
  <1>8. FilesAccounted'
    <2>1. ASSUME NEW i \in Items, place[i] # "project"
          PROVE  /\ i \in plan'[place[i]].items
                 /\ plan'[place[i]].status \in {"applying", "applied", "restoring"}
      <3>1. /\ place[i] \in Commands /\ i \in plan[place[i]].items
            /\ plan[place[i]].status \in {"applying", "applied", "restoring"}
        BY <1>1, <2>1 DEF FilesInv, FilesAccounted, TypeOK
      <3> QED BY <1>4, <1>5, <3>1
    <2>2. ASSUME NEW q \in Commands, plan'[q].status = "applied"
          PROVE  \A i \in plan'[q].items : place[i] = q
      BY <1>3, <1>4, <1>5, <2>2 DEF FilesInv, FilesAccounted
    <2> QED BY <1>1, <2>1, <2>2 DEF FilesAccounted
  <1>9. OwnPlanInv(w)'
    <2>1. CASE ~r.ok
      <3>1. ~MustUnplan
        BY <1>3 DEF MustUnplan, Kind
      <3> QED BY <1>1, <2>1, <3>1, FailedOwnPlan DEF Mark, Then
    <2>2. CASE r.ok
      <3>1. w' = [w EXCEPT !.at = "recover", !.then = "commit"]
        BY <2>2 DEF Mark, Then
      <3>2. w'.at = "recover" /\ w'.then = "commit" /\ w'.cmd = w.cmd
        BY <1>1, <3>1 DEF Memory
      <3> QED BY <3>2 DEF OwnPlanInv, ToGuard, Recovering
    <2> QED BY <2>1, <2>2
  <1> QED BY <1>7, <1>8, <1>9 DEF FilesInv

\* A file moves between the project and the trash of the one plan under way.
LEMMA MoveFiles ==
    ASSUME Inv, FilesInv, NEW p \in Commands, NEW i \in Items, NEW r \in Results, Move(p, i, r)
    PROVE  FilesInv'
  <1>1. /\ TypeOK /\ DataInv /\ w.at = "recover" /\ p \in Interrupted /\ i \in plan[p].items
        /\ place' = Put(r, place, i, Destination(p)) /\ UNCHANGED <<plan, sent>>
    BY DEF Inv, Move, At, history
  <1>2. /\ Interrupted = {p} /\ Interrupted' = {p} /\ place[i] \in {"project", p}
        /\ "project" \notin Commands
    BY <1>1, CommandsAssumption DEF DataInv, CleanupRecoverable, Interrupted, FilesInv, PlacesInv
  <1>3. /\ Destination(p) \in {"project", p}
        /\ Destination(p) = p => plan[p].status = "applying"
        /\ plan[p].status \in {"applying", "restoring"}
    BY <1>1, <1>2 DEF Destination, Interrupted
  <1>4. /\ \A j \in Items \ {i} : place'[j] = place[j]
        /\ place'[i] = place[i] \/ place'[i] = Destination(p)
    BY <1>1 DEF TypeOK, Put
  <1>5. \A q \in Commands : plan[q].status = "applied" => i \notin plan[q].items
    BY <1>2, <1>3 DEF FilesInv, FilesAccounted
  <1>6. FilesAccounted'
    <2>1. ASSUME NEW j \in Items, place'[j] # "project"
          PROVE  /\ j \in plan[place'[j]].items
                 /\ plan[place'[j]].status \in {"applying", "applied", "restoring"}
      BY <1>1, <1>3, <1>4, <2>1 DEF FilesInv, FilesAccounted
    <2>2. ASSUME NEW q \in Commands, plan[q].status = "applied"
          PROVE  \A j \in plan[q].items : place'[j] = q
      <3>1. plan[q].items \subseteq Items
        BY <1>1 DEF TypeOK, CleanupPlan
      <3> QED BY <1>4, <1>5, <2>2, <3>1 DEF FilesInv, FilesAccounted
    <2> QED BY <1>1, <2>1, <2>2 DEF FilesAccounted
  <1>7. PlacesInv'
    <2>1. plan[p].items \subseteq Items
      BY <1>1 DEF TypeOK, CleanupPlan
    <2> QED BY <1>1, <1>2, <1>3, <1>4, <2>1 DEF FilesInv, PlacesInv
  <1>8. OwnPlanInv(w)'
    <2>1. w' = w \/ w' = Failed
      BY DEF Move, Then
    <2>2. w' = w => OwnPlanInv(w)'
      BY <1>1 DEF FilesInv, OwnPlanInv, ToGuard, Recovering
    <2> QED BY <1>1, <2>1, <2>2, FailedSame
  <1> QED BY <1>6, <1>7, <1>8 DEF FilesInv

\* An operation ends with all files where it takes them.
LEMMA SettleFiles ==
    ASSUME Inv, FilesInv, NEW p \in Commands, NEW r \in Results, Settle(p, r)
    PROVE  FilesInv'
  <1> DEFINE new == Settled(plan[p])
  <1>1. /\ TypeOK /\ w \in Memory /\ MemInv(w) /\ DataInv /\ w.at = "recover"
        /\ p \in Interrupted /\ AllMoved(p)
        /\ plan' = Put(r, plan, p, new) /\ UNCHANGED <<place, sent>>
    BY DEF Inv, TypeOK, Settle, At, Settled, history
  <1>2. /\ Interrupted = {p} /\ plan[p].status \in {"applying", "restoring"}
        /\ plan[p] \in CleanupPlan
    BY <1>1 DEF DataInv, CleanupRecoverable, Interrupted, TypeOK
  <1>3. /\ new.items = plan[p].items
        /\ new.status = IF plan[p].status = "applying" THEN "applied" ELSE "restored"
    BY <1>2, SettledIs
  <1> HIDE DEF new
  <1>4. /\ \A c \in Commands \ {p} : plan'[c] = plan[c]
        /\ plan'[p] = plan[p] \/ plan'[p] = new
    BY <1>1 DEF TypeOK, Put
  <1>5. PlacesInv'
    BY <1>1, <1>2, <1>3, <1>4 DEF FilesInv, PlacesInv, Interrupted
  <1>6. FilesAccounted'
    <2>1. ASSUME NEW i \in Items, place[i] # "project"
          PROVE  /\ i \in plan'[place[i]].items
                 /\ plan'[place[i]].status \in {"applying", "applied", "restoring"}
      <3>1. /\ place[i] \in Commands /\ i \in plan[place[i]].items
            /\ plan[place[i]].status \in {"applying", "applied", "restoring"}
        BY <1>1, <2>1 DEF FilesInv, FilesAccounted, TypeOK
      <3>2. place[i] = p => plan[p].status = "applying"
        BY <1>1, <2>1, <3>1 DEF AllMoved, Destination
      <3> QED BY <1>3, <1>4, <3>1, <3>2
    <2>2. ASSUME NEW q \in Commands, plan'[q].status = "applied"
          PROVE  \A i \in plan'[q].items : place[i] = q
      <3>1. CASE q # p
        BY <1>4, <2>2, <3>1 DEF FilesInv, FilesAccounted
      <3>2. CASE q = p
        <4>1. plan'[p] = new /\ plan[p].status = "applying"
          BY <1>2, <1>3, <1>4, <2>2, <3>2
        <4> QED BY <1>1, <1>3, <3>2, <4>1 DEF AllMoved, Destination
      <3> QED BY <3>1, <3>2
    <2> QED BY <1>1, <2>1, <2>2 DEF FilesAccounted
  <1>7. OwnPlanInv(w)'
    <2>1. CASE ~r.ok
      <3>1. w.cmd \in Commands /\ MustUnplan => plan[w.cmd].status \in {"none", "planned"}
        BY <1>1 DEF FilesInv, OwnPlanInv, MustUnplan, Kind
      <3>2. w.cmd \in Commands /\ MustUnplan => plan'[w.cmd].status \in {"none", "planned"}
        BY <1>2, <1>4, <3>1
      <3> QED BY <1>1, <2>1, <3>2, FailedOwnPlan DEF Settle, Then
    <2>2. CASE r.ok
      <3>1. w' = Go("redo") /\ "redo" \in Step
        BY <2>2 DEF Settle, Then, Step
      <3>2. w'.at = "redo" /\ w'.cmd = w.cmd /\ w'.then = w.then
        BY <1>1, <3>1, GoType
      <3> QED BY <1>1, <1>2, <1>4, <3>2 DEF FilesInv, OwnPlanInv, ToGuard, Recovering
    <2> QED BY <2>1, <2>2
  <1> QED BY <1>5, <1>6, <1>7 DEF FilesInv

\* No file is lost, and no plan loses its own.
LEMMA FilesNext ==
    ASSUME Inv, FilesInv, [Next]_vars
    PROVE  FilesInv'
  <1>1. ASSUME NEW r, CommandWrite(r) PROVE FilesInv'
    <2>1. r \in Results
      BY <1>1 DEF CommandWrite, Prepare, WritePlan, Unplan, Mark, CancelJob, PauseQueue, Save,
         AppendEvent, SnapshotQueue, Commit, Reply
    <2> QED BY <1>1, <2>1, PlainWrites, WritePlanFiles, UnplanFiles, MarkFiles, FreeSteps
            DEF CommandWrite
  <1>2. ASSUME NEW r, FinishCleanup(r) PROVE FilesInv'
    <2>1. PICK p \in Commands : (\E i \in Items : Move(p, i, r)) \/ Stamp(p, r) \/ Settle(p, r)
      BY <1>2 DEF FinishCleanup
    <2>2. r \in Results
      BY <2>1 DEF Move, Stamp, Settle
    <2> QED BY <2>1, <2>2, MoveFiles, RecoverySteps, SettleFiles
  <1>3. ASSUME NEW r, RecoverWrite(r) PROVE FilesInv'
    <2>1. PICK c \in Commands : Redo(c, r) \/ AnswerPrepared(c, r)
      BY <1>3 DEF RecoverWrite
    <2>2. r \in Results
      BY <2>1 DEF Redo, AnswerPrepared
    <2> QED BY <2>1, <2>2, RecoverySteps, FreeSteps
  <1>4. Decide => FilesInv'
    BY GuardFiles, RecoverySteps, FreeSteps DEF Decide
  <1>5. Work => FilesInv'
    BY <1>1, <1>2, <1>3, <1>4 DEF Work
  <1>6. ASSUME NEW c \in Commands, NEW q \in Requests, NEW r \in Results, Accept(c, q, r)
        PROVE  FilesInv'
    BY <1>6, RequestsWellFormed, AcceptFiles DEF Inv
  <1>7. ASSUME NEW c \in Commands, NEW r \in Results, sent[c] # NotSent, Accept(c, sent[c], r)
        PROVE  FilesInv'
    BY <1>7, SentWellFormed, AcceptFiles
  <1>8. Arrive => FilesInv'
    BY <1>6, <1>7, RecoverySteps, FreeSteps DEF Arrive
  <1> QED BY <1>5, <1>8, RecoverySteps, FreeSteps DEF Next

\* And none is at first.
LEMMA FilesInit ==
    ASSUME Init
    PROVE  FilesInv
  <1>1. w.cmd = Camera
    BY LostType DEF Init, Lost
  <1>2. \A p \in Commands : plan[p].status = "none"
    BY NoPlanType DEF Init
  <1>3. \A i \in Items : place[i] = "project"
    BY DEF Init
  <1> QED BY <1>1, <1>2, <1>3, OwnIds
          DEF FilesInv, PlacesInv, FilesAccounted, OwnPlanInv, Interrupted

\* So it always holds.
LEMMA FilesInvariance == Spec => []FilesInv
  <1>1. Init => FilesInv
    BY FilesInit
  <1>2. Inv /\ FilesInv /\ [Next]_vars => FilesInv'
    BY FilesNext
  <1> QED BY <1>1, <1>2, Invariance, PTL DEF Spec

-----------------------------------------------------------------------------
(* Theorems *)

\* The parts of the model have their types (state of WorkerRuntime and of the
\* project's files), whatever crashes and whichever writes fail.
THEOREM JournalsTypeCorrect == Spec => []TypeOK
  BY Invariance, PTL DEF Inv

\* A command takes effect at most once: the worker replays what it knows of a
\* command id, and no recovery does over what a command did.
THEOREM OneEffectHolds == Spec => []OneEffect
  BY Invariance, PTL DEF Inv, DataInv

\* Once a client got a final answer, the journal keeps that answer.
THEOREM AnswersKept == Spec => []AnswersAreKept
  BY Invariance, PTL DEF Inv, DataInv

\* decisions.jsonl commits only decisions of commands that took effect.
THEOREM CommittedHold == Spec => []CommittedDecisionsHold
  BY Invariance, PTL DEF Inv, DataInv

\* An interrupted cleanup can always be finished: recovery at every entry of
\* save_state leaves no state between the plan and the operation's own.
THEOREM Recoverable == Spec => []CleanupRecoverable
  BY Invariance, PTL DEF Inv, DataInv

\* Every file is in the project, or in the trash of the one plan that can
\* restore it, and an applied plan holds all its files: whatever stops
\* finish_cleanup_operation between two renames.
THEOREM NoFileLost == Spec => []FilesAccounted
  BY FilesInvariance, PTL DEF FilesInv

-----------------------------------------------------------------------------
(* As long as no write fails: decisions and answers *)

\* Commands that took effect and whose decisions are not all committed.
Lagging == {c \in Commands : effects[c] > 0 /\ com[c] # dec[c]}

\* Commands that are journaled and have no answer.
Pending(c) == journal[c] = "prepared"

\* The file that tells a restarted worker whether c took effect, tells it did.
Shown(c) == IF sent[c].kind = "queue" THEN queueLast = c ELSE state.last = c

Cancels(c) == sent[c].kind = "cancel"

\* The files after any step: a decision is late only while the state names its
\* command and no cleanup is about to change that name, and one command at most
\* waits for its answer, which the files tell.
CalmFiles ==
    /\ \A c \in Commands : com[c] <= dec[c]
    /\ Lagging \subseteq {state.last}
    /\ \A p \in Interrupted : Pending(plan[p].op) /\ (~Stamped(p) => Lagging = {})
    /\ \A p \in Interrupted : sent[plan[p].op].kind # "queue"
    /\ \A c, d \in Commands : Pending(c) /\ Pending(d) => c = d
    /\ \A c \in Commands : Pending(c) /\ ~Cancels(c) => (effects[c] > 0 <=> Shown(c))
    /\ queueLast \in Commands => effects[queueLast] > 0

\* The process is gone, or at the first recovery after it.
Returns(m) == m.phase = "down" \/ (m.phase = "boot" /\ Recovering(m) /\ m.then = "terminal")

\* Whose decisions may be late, and whose cleanup interrupted.
LateMem(m) ==
    /\ \A c \in Lagging : Returns(m) \/ (c = m.cmd /\ ToCommit(m))
    /\ m.at = "commit" => com[m.cmd] + m.left >= dec[m.cmd]
    /\ \A p \in Interrupted :
          \/ Returns(m) /\ m.at # "redo"
          \/ plan[p].op = m.cmd /\ m.at = "recover" /\ m.then = "commit"

\* The worker knows the journal, and serves the one command without an answer.
ServedMem(m) ==
    /\ m.phase # "down" => m.known = journal
    /\ m.phase = "serving" => \A c \in Commands : Pending(c) => c = m.cmd
    /\ m.cmd \in Commands => Pending(m.cmd)

\* What the worker writes into queue and state took effect; while it starts it
\* writes what is there.
TraceMem(m) ==
    /\ m.queueLast \in Commands => effects[m.queueLast] > 0
    /\ m.phase = "boot" => m.queueLast = queueLast
    /\ m.phase = "boot" /\ ToSave(m) => m.mark = state.last

\* A command is told that it succeeded exactly if it took effect.
OutcomeMem(m) ==
    m.cmd \in Commands =>
        /\ m.at = "queue" => sent[m.cmd].kind = "queue" /\ dec[m.cmd] = 0
        /\ m.at \in {"event", "snapshot"} => effects[m.cmd] > 0
        /\ ~Cancels(m.cmd) =>
              /\ m.at = "reply" => (m.reply = "success" <=> effects[m.cmd] > 0)
              /\ m.at = "unplan" => effects[m.cmd] = 0

CalmMem(m) == LateMem(m) /\ ServedMem(m) /\ TraceMem(m) /\ OutcomeMem(m)

\* No write has failed, in this state and the next.
Steady == Inv /\ CalmFiles /\ CalmMem(w) /\ faults = 0 /\ faults' = 0

-----------------------------------------------------------------------------
(* Memories, with all their fields *)

\* The next step.
LEMMA GoIs ==
    ASSUME w \in Memory, NEW step
    PROVE  Go(step) = [phase |-> w.phase, cmd |-> w.cmd, at |-> step, then |-> w.then,
                       left |-> w.left, reply |-> w.reply, known |-> w.known,
                       expected |-> w.expected, mark |-> w.mark, queueLast |-> w.queueLast]
  BY DEF Go, Memory

\* An answer about to be journaled.
LEMMA SayIs ==
    ASSUME w \in Memory, NEW answer \in {"success", "failure"}
    PROVE  Say(answer) = [phase |-> w.phase, cmd |-> w.cmd, at |-> "reply", then |-> w.then,
                          left |-> w.left, reply |-> answer, known |-> w.known,
                          expected |-> w.expected, mark |-> w.mark, queueLast |-> w.queueLast]
  <1>1. PICK n : n = Say(answer)
    OBVIOUS
  <1>2. n = [phase |-> w.phase, cmd |-> w.cmd, at |-> "reply", then |-> w.then,
             left |-> w.left, reply |-> answer, known |-> w.known,
             expected |-> w.expected, mark |-> w.mark, queueLast |-> w.queueLast]
    BY <1>1 DEF Say, Memory
  <1> QED BY <1>1, <1>2

\* A free worker.
LEMMA IdleIs ==
    ASSUME w \in Memory
    PROVE  Idle = [phase |-> w.phase, cmd |-> Camera, at |-> "idle", then |-> "idle", left |-> 0,
                   reply |-> "failure", known |-> w.known, expected |-> 0, mark |-> None,
                   queueLast |-> w.queueLast]
  <1>1. PICK n : n = Idle
    OBVIOUS
  <1>2. n = [phase |-> w.phase, cmd |-> Camera, at |-> "idle", then |-> "idle", left |-> 0,
             reply |-> "failure", known |-> w.known, expected |-> 0, mark |-> None,
             queueLast |-> w.queueLast]
    BY <1>1 DEF Idle, Memory
  <1> QED BY <1>1, <1>2

\* As long as no write fails, every write takes effect.
LEMMA SpendsNothing ==
    ASSUME faults = 0, faults' = 0, NEW r \in Results, Spend(r)
    PROVE  r.ok /\ r.done
  BY ResultParts DEF Spend

-----------------------------------------------------------------------------
(* Steps that only change the memory *)

SameData == UNCHANGED <<journal, state, dec, com, plan, queueLast, sent, effects>>

\* The files say what they said.
LEMMA SameCalmFiles ==
    ASSUME CalmFiles, SameData
    PROVE  /\ CalmFiles'
           /\ Lagging' = Lagging /\ Interrupted' = Interrupted
           /\ \A c \in Commands : Pending(c)' = Pending(c)
  BY DEF CalmFiles, SameData, Lagging, Pending, Shown, Cancels, Interrupted, Stamped

\* The process is gone.
LEMMA LostCalm ==
    ASSUME CalmFiles, SameData, w' = Lost
    PROVE  CalmFiles' /\ CalmMem(w)'
  <1>1. /\ w'.phase = "down" /\ w'.at = "idle" /\ w'.then = "idle" /\ w'.cmd = Camera
        /\ w'.queueLast = None
    BY LostType DEF Lost
  <1> QED BY <1>1, OwnIds, SameCalmFiles
          DEF CalmMem, LateMem, ServedMem, TraceMem, OutcomeMem, Returns

\* A step of a known command that changes nothing but where the worker is: its
\* decisions are late and its cleanup interrupted only where they were.
SameTask == /\ w'.phase = w.phase /\ w'.cmd = w.cmd /\ w'.known = w.known
            /\ w'.queueLast = w.queueLast

\* The worker goes on with the task it has.
LEMMA SameTaskCalm ==
    ASSUME Steady, SameData, SameTask, LateMem(w)', OutcomeMem(w)',
           w.phase = "boot" /\ ToSave(w') => w'.mark = state.last
    PROVE  CalmFiles' /\ CalmMem(w)'
  <1>1. CalmFiles' /\ (\A c \in Commands : Pending(c)' = Pending(c))
    BY SameCalmFiles DEF Steady
  <1>2. ServedMem(w)'
    BY <1>1 DEF Steady, CalmMem, ServedMem, SameTask, SameData
  <1>3. TraceMem(w)'
    BY DEF Steady, CalmMem, TraceMem, SameTask, SameData
  <1> QED BY <1>1, <1>2, <1>3 DEF CalmMem

\* Where nothing is late or interrupted.
CaughtUp(m) == ~Returns(m) /\ ~ToCommit(m)

\* Then every decision taken is committed, and no cleanup is open.
LEMMA NothingLate ==
    ASSUME LateMem(w), CaughtUp(w)
    PROVE  Lagging = {} /\ Interrupted = {}
  BY DEF LateMem, CaughtUp, Returns, ToCommit, Recovering

\* A command is refused or goes on: nothing is late before its first write.
LEMMA GuardCalm ==
    ASSUME Steady, Guard
    PROVE  CalmFiles' /\ CalmMem(w)'
  <1>1. /\ w \in Memory /\ MemInv(w) /\ w.at = "guard" /\ SameData
        /\ w.cmd \in Commands /\ w.phase = "serving" /\ LateMem(w)
    BY OwnIds DEF Steady, Inv, TypeOK, Guard, At, SameData, disk, history, MemInv, ControlInv,
       AtWorkInv, Working, CalmMem
  <1>2. effects[w.cmd] = 0 /\ Lagging' = {} /\ Interrupted' = {}
    <2>1. effects[w.cmd] = 0
      BY <1>1 DEF MemInv, ProgressInv, Before, ToGuard, ToSave, Recovering
    <2> QED BY <1>1, <2>1, NothingLate, SameCalmFiles
            DEF Steady, CaughtUp, Returns, ToCommit, Recovering
  <1>3. /\ SameTask /\ w'.at # "commit"
        /\ w'.at = "reply" => w'.reply = "failure"
        /\ w'.at \notin {"event", "snapshot", "unplan"}
        /\ w'.at = "queue" => sent[w.cmd].kind = "queue" /\ dec[w.cmd] = 0
    <2>1. CASE Refused(sent[w.cmd])
      BY <1>1, <2>1, SayIs DEF Guard, SameTask
    <2>2. CASE ~Refused(sent[w.cmd])
      <3> DEFINE step == FirstWrite(Kind)
                 left == DecisionsOf(Kind)
      <3>1. /\ step \notin {"commit", "reply", "event", "snapshot", "unplan"}
            /\ step = "queue" => sent[w.cmd].kind = "queue"
        <4>1. Kind \in AllKinds
          BY <1>1 DEF MemInv, AtWorkInv, Request, Kind
        <4> QED BY <4>1, FirstWrites DEF AllKinds, Kind
      <3>2. w' = [w EXCEPT !.at = step, !.left = left]
        BY <2>2 DEF Guard
      <3> HIDE DEF step, left
      <3>3. dec[w.cmd] = 0
        BY <1>1 DEF MemInv, ProgressInv, ToGuard
      <3> QED BY <1>1, <3>1, <3>2, <3>3 DEF SameTask, Memory
    <2> QED BY <2>1, <2>2
  <1>4. LateMem(w)' /\ OutcomeMem(w)'
    BY <1>1, <1>2, <1>3 DEF LateMem, OutcomeMem, SameData, SameTask
  <1> QED BY <1>1, <1>3, <1>4, SameTaskCalm

\* No cleanup is open: what is late, if anything, is committed next.
LEMMA RecoverNothingCalm ==
    ASSUME Steady, RecoverNothing
    PROVE  CalmFiles' /\ CalmMem(w)'
  <1> DEFINE step == IF w.then \in {"guard", "idle"} THEN w.then ELSE "redo"
  <1>1. /\ w \in Memory /\ w.at = "recover" /\ SameData /\ Interrupted = {} /\ w.phase # "down"
        /\ LateMem(w) /\ TraceMem(w)
    BY DEF Steady, Inv, TypeOK, RecoverNothing, At, SameData, disk, history, CalmMem
  <1>2. /\ SameTask /\ w'.at = step /\ w'.then = w.then /\ w'.mark = w.mark
        /\ w.then \in {"guard", "idle"} => CaughtUp(w)
    BY <1>1, GoIs DEF RecoverNothing, SameTask, CaughtUp, Returns, ToCommit, Recovering
  <1>3. Interrupted' = {} /\ Lagging' = Lagging
    BY <1>1, SameCalmFiles DEF Steady
  <1>4. LateMem(w)' /\ OutcomeMem(w)'
    BY <1>1, <1>2, <1>3, NothingLate
    DEF LateMem, OutcomeMem, SameTask, Returns, ToCommit, Recovering
  <1>5. w.phase = "boot" /\ ToSave(w') => w'.mark = state.last
    BY <1>1, <1>2 DEF TraceMem, ToSave, Recovering
  <1> QED BY <1>1, <1>2, <1>4, <1>5, SameTaskCalm

\* Recovery ends when the command the state names has nothing left to commit.
LEMMA RedoDoneCalm ==
    ASSUME Steady, RedoDone
    PROVE  CalmFiles' /\ CalmMem(w)'
  <1>1. /\ w \in Memory /\ w.at = "redo" /\ SameData /\ Uncommitted = {} /\ w.phase # "down"
        /\ LateMem(w) /\ TraceMem(w) /\ CalmFiles /\ MemInv(w)
        /\ com \in [Commands -> 0..2] /\ dec \in [Commands -> 0..2]
    BY DEF Steady, Inv, TypeOK, RedoDone, At, SameData, disk, history, CalmMem
  <1>2. SameTask /\ w'.at = w.then /\ w'.then = w.then /\ w'.mark = w.mark /\ w'.left = w.left
    BY <1>1, GoIs DEF RedoDone, SameTask
  <1>3. Interrupted = {}
    BY <1>1 DEF LateMem
  <1>4. Lagging = {}
    <2> SUFFICES ASSUME NEW c \in Lagging PROVE FALSE
      OBVIOUS
    <2>1. c \in Commands /\ c = state.last /\ com[c] <= dec[c] /\ com[c] # dec[c]
      BY <1>1 DEF CalmFiles, Lagging
    <2>2. com[c] < dec[c]
      BY <1>1, <2>1
    <2> QED BY <1>1, <2>1, <2>2 DEF Uncommitted
  <1>5. Interrupted' = {} /\ Lagging' = {}
    BY <1>1, <1>3, <1>4, SameCalmFiles
  <1>6. w.then \in {"idle", "guard", "save", "commit", "terminal"}
    BY <1>1 DEF MemInv, ControlInv, Recovering
  <1>7. w.then = "commit" => com[w.cmd] + w.left >= dec[w.cmd]
    <2> SUFFICES ASSUME w.then = "commit" PROVE com[w.cmd] + w.left >= dec[w.cmd]
      OBVIOUS
    <2>1. w.cmd \in Commands /\ effects[w.cmd] > 0 /\ w.left \in 0..2
      BY <1>1, MemoryParts DEF MemInv, ControlInv, MarkInv, Recovering
    <2>2. com[w.cmd] = dec[w.cmd]
      BY <1>4, <2>1 DEF Lagging
    <2> QED BY <1>1, <2>1, <2>2
  <1>8. LateMem(w)'
    BY <1>1, <1>2, <1>5, <1>7 DEF LateMem, SameTask, SameData
  <1>9. OutcomeMem(w)'
    BY <1>2, <1>6 DEF OutcomeMem
  <1>10. w.phase = "boot" /\ ToSave(w') => w'.mark = state.last
    BY <1>1, <1>2, <1>6 DEF TraceMem, ToSave, Recovering
  <1> QED BY <1>1, <1>2, <1>8, <1>9, <1>10, SameTaskCalm

\* A reader recovers what is not there.
LEMMA ReadCalm ==
    ASSUME Steady, NEW step \in {"recover", "redo"}, Read(step)
    PROVE  CalmFiles' /\ CalmMem(w)'
  <1>1. /\ w \in Memory /\ w.at = "idle" /\ w.then = "idle" /\ w.phase = "serving" /\ SameData
        /\ LateMem(w)
    BY DEF Steady, Inv, TypeOK, Read, Serving, SameData, disk, history, CalmMem, MemInv, ControlInv
  <1>2. SameTask /\ w'.at = step
    BY <1>1, GoIs DEF Read, SameTask
  <1>3. Interrupted' = {} /\ Lagging' = {}
    BY <1>1, NothingLate, SameCalmFiles
    DEF Steady, CaughtUp, Returns, ToCommit, Recovering
  <1>4. LateMem(w)' /\ OutcomeMem(w)'
    BY <1>2, <1>3 DEF LateMem, OutcomeMem
  <1> QED BY <1>1, <1>2, <1>4, SameTaskCalm

\* The main loop at writes of its own, or free: it serves no command.
LEMMA OwnCalm ==
    ASSUME Steady, SameData, CaughtUp(w), w.cmd \notin Commands, w'.cmd \notin Commands,
           w.phase # "down", w'.phase = w.phase, w'.known = w.known,
           w'.queueLast = w.queueLast, w'.at # "commit",
           w.phase = "boot" /\ ToSave(w') => w'.mark = state.last
    PROVE  CalmFiles' /\ CalmMem(w)'
  <1>1. CalmFiles' /\ Lagging' = {} /\ Interrupted' = {}
        /\ \A c \in Commands : Pending(c)' = Pending(c)
    BY NothingLate, SameCalmFiles DEF Steady, CalmMem
  <1>2. LateMem(w)' /\ OutcomeMem(w)'
    BY <1>1 DEF LateMem, OutcomeMem
  <1>3. ServedMem(w)'
    BY <1>1 DEF Steady, CalmMem, ServedMem, SameData
  <1>4. TraceMem(w)'
    BY DEF Steady, CalmMem, TraceMem, SameData
  <1> QED BY <1>1, <1>2, <1>3, <1>4 DEF CalmMem

\* The main loop writes under an id that took effect, or an id of its own.
LEMMA BackgroundCalm ==
    ASSUME Steady, NEW by \in {Camera, Builder}, NEW mark \in Commands \cup {Camera, None},
           Background(by, mark)
    PROVE  CalmFiles' /\ CalmMem(w)'
  <1>1. /\ w \in Memory /\ w.at = "idle" /\ w.cmd = Camera /\ w.phase = "serving" /\ SameData
        /\ w' = [w EXCEPT !.cmd = by, !.at = "recover", !.then = "save", !.mark = mark,
                          !.expected = state.revision]
    BY DEF Steady, Inv, TypeOK, Background, Serving, SaveEntry, SameData, disk, history, MemInv,
       ControlInv
  <1>2. w' = [phase |-> w.phase, cmd |-> by, at |-> "recover", then |-> "save", left |-> w.left,
              reply |-> w.reply, known |-> w.known, expected |-> state.revision,
              mark |-> mark, queueLast |-> w.queueLast]
    BY <1>1 DEF Memory
  <1>3. CaughtUp(w)
    BY <1>1 DEF CaughtUp, Returns, ToCommit, Recovering
  <1> QED BY <1>1, <1>2, <1>3, OwnCalm, OwnIds

\* Startup writes the state under the name it has.
LEMMA RecoverTerminalCalm ==
    ASSUME Steady, NEW camera \in BOOLEAN, RecoverTerminal(camera)
    PROVE  CalmFiles' /\ CalmMem(w)'
  <1>1. /\ w \in Memory /\ w.at = "terminal" /\ w.phase = "boot" /\ w.cmd = Camera /\ SameData
    BY DEF Steady, Inv, TypeOK, RecoverTerminal, At, SameData, disk, history, MemInv, ControlInv
  <1>2. CaughtUp(w)
    BY <1>1 DEF CaughtUp, Returns, ToCommit, Recovering
  <1>3. CASE camera \/ loose # {}
    <2>1. w' = [w EXCEPT !.at = "recover", !.then = "save", !.mark = state.last,
                         !.expected = state.revision]
      BY <1>3 DEF RecoverTerminal, SaveEntry, RecoveryMark
    <2>2. w' = [phase |-> w.phase, cmd |-> w.cmd, at |-> "recover", then |-> "save",
                left |-> w.left, reply |-> w.reply, known |-> w.known,
                expected |-> state.revision, mark |-> state.last, queueLast |-> w.queueLast]
      BY <1>1, <2>1 DEF Memory
    <2> QED BY <1>1, <1>2, <2>2, OwnCalm, OwnIds
  <1>4. CASE ~(camera \/ loose # {})
    <2>1. w' = Go("answers")
      BY <1>4 DEF RecoverTerminal
    <2>2. /\ w'.cmd = w.cmd /\ w'.phase = w.phase /\ w'.known = w.known
          /\ w'.queueLast = w.queueLast /\ w'.at = "answers"
      BY <1>1, <2>1, GoIs
    <2> QED BY <1>1, <1>2, <2>2, OwnCalm, OwnIds DEF ToSave, Recovering
  <1> QED BY <1>3, <1>4

\* The worker opens when every command has its answer.
LEMMA OpenCalm ==
    ASSUME Steady, Open
    PROVE  CalmFiles' /\ CalmMem(w)'
  <1>1. /\ w \in Memory /\ w.at = "answers" /\ w.phase = "boot" /\ SameData
        /\ LateMem(w) /\ ServedMem(w) /\ TraceMem(w)
        /\ w' = [Idle EXCEPT !.phase = "serving"] /\ \A c \in Commands : ~Unanswered(c)
    BY DEF Steady, Inv, TypeOK, Open, At, SameData, disk, history, MemInv, ControlInv, CalmMem
  <1>2. w' = [phase |-> "serving", cmd |-> Camera, at |-> "idle", then |-> "idle", left |-> 0,
              reply |-> "failure", known |-> w.known, expected |-> 0, mark |-> None,
              queueLast |-> w.queueLast]
    BY <1>1, IdleIs
  <1>3. CaughtUp(w)
    BY <1>1 DEF CaughtUp, Returns, ToCommit, Recovering
  <1>4. CalmFiles' /\ Lagging' = {} /\ Interrupted' = {}
        /\ \A c \in Commands : Pending(c)' = Pending(c)
    BY <1>1, <1>3, NothingLate, SameCalmFiles DEF Steady
  <1>5. \A c \in Commands : ~Pending(c)'
    BY <1>1, <1>4 DEF ServedMem, Pending, Unanswered
  <1>6. LateMem(w)' /\ OutcomeMem(w)'
    BY <1>2, <1>4, OwnIds DEF LateMem, OutcomeMem
  <1>7. ServedMem(w)'
    BY <1>1, <1>2, <1>5, OwnIds DEF ServedMem, SameData
  <1>8. TraceMem(w)'
    BY <1>1, <1>2 DEF TraceMem, SameData
  <1> QED BY <1>4, <1>6, <1>7, <1>8 DEF CalmMem

\* Startup finds in the files what the worker left there.
LEMMA BootCalm ==
    ASSUME Steady, Boot
    PROVE  CalmFiles' /\ CalmMem(w)'
  <1>1. SameData
    BY DEF Boot, SameData, disk, history
  <1>2. w' = [phase |-> "boot", cmd |-> Camera, at |-> "recover", then |-> "terminal",
              left |-> 0, reply |-> "failure", known |-> journal, expected |-> 0,
              mark |-> None, queueLast |-> queueLast]
    BY DEF Boot, Lost, BootEntry
  <1>3. CalmFiles'
    BY <1>1, SameCalmFiles DEF Steady
  <1>4. LateMem(w)' /\ OutcomeMem(w)'
    BY <1>2, OwnIds DEF LateMem, OutcomeMem, Returns, Recovering
  <1>5. ServedMem(w)' /\ TraceMem(w)'
    BY <1>1, <1>2, OwnIds DEF Steady, CalmFiles, ServedMem, TraceMem, SameData, ToSave, Recovering
  <1> QED BY <1>3, <1>4, <1>5 DEF CalmMem


\* A conflict fails the command before it takes effect.
LEMMA SaveConflictCalm ==
    ASSUME Steady, SaveConflict
    PROVE  CalmFiles' /\ CalmMem(w)'
  <1>1. /\ w \in Memory /\ w.at = "save" /\ w.phase # "down" /\ w' = Failed /\ SameData
        /\ MemInv(w) /\ LateMem(w) /\ CalmFiles
        /\ w.cmd \in Commands \cup {Camera, Builder}
    BY MemoryParts
    DEF Steady, Inv, TypeOK, SaveConflict, At, SameData, disk, history, CalmMem
  <1>2. CaughtUp(w)
    BY <1>1 DEF CaughtUp, Returns, ToCommit, Recovering
  <1>3. CASE w.phase = "boot" \/ w.cmd = Builder
    <2>1. w' = Lost
      BY <1>1, <1>3 DEF Failed
    <2> QED BY <1>1, <2>1, LostCalm
  <1>4. CASE ~(w.phase = "boot" \/ w.cmd = Builder) /\ w.cmd = Camera
    <2>1. w' = Idle
      BY <1>1, <1>4 DEF Failed
    <2>2. /\ w'.cmd = Camera /\ w'.phase = w.phase /\ w'.known = w.known
          /\ w'.queueLast = w.queueLast /\ w'.at = "idle"
      BY <1>1, <2>1, IdleIs
    <2> QED BY <1>1, <1>2, <1>4, <2>2, OwnCalm, OwnIds
  <1>5. CASE ~(w.phase = "boot" \/ w.cmd = Builder) /\ w.cmd # Camera
    <2>1. w' = Go("unplan") \/ w' = Say("failure")
      BY <1>1, <1>5 DEF Failed
    <2>2. /\ SameTask
          /\ w'.at = "unplan" \/ (w'.at = "reply" /\ w'.reply = "failure")
      BY <1>1, <2>1, GoIs, SayIs DEF SameTask
    <2>3. w.cmd \in Commands /\ (effects[w.cmd] = 0 \/ Cancels(w.cmd))
      BY <1>1, <1>5 DEF MemInv, ProgressInv, Before, ToSave, Cancels
    <2>4. Lagging' = {} /\ Interrupted' = {}
      BY <1>1, <1>2, NothingLate, SameCalmFiles
    <2>5. LateMem(w)'
      BY <2>2, <2>4 DEF LateMem
    <2>6. OutcomeMem(w)'
      BY <1>1, <2>2, <2>3 DEF OutcomeMem, SameTask, SameData, Cancels
    <2> QED BY <1>1, <1>5, <2>2, <2>5, <2>6, SameTaskCalm
  <1> QED BY <1>3, <1>4, <1>5

\* A cancellation is told of after its state is saved.
LEMMA AppendEventCalm ==
    ASSUME Steady, NEW r \in Results, AppendEvent(r)
    PROVE  CalmFiles' /\ CalmMem(w)'
  <1>1. /\ w \in Memory /\ w.at = "event" /\ w.phase # "down" /\ w.phase # "boot" /\ SameData
        /\ MemInv(w) /\ LateMem(w) /\ CalmFiles
        /\ w.cmd \in Commands \cup {Camera, Builder}
    BY MemoryParts
    DEF Steady, Inv, TypeOK, AppendEvent, At, SameData, disk, history, CalmMem, MemInv, ControlInv
  <1>2. CaughtUp(w)
    BY <1>1 DEF CaughtUp, Returns, ToCommit, Recovering
  <1>3. w' = IF Own THEN Idle ELSE Go("snapshot")
    BY SpendsNothing DEF Steady, AppendEvent, Then
  <1>4. CASE Own
    <2>1. /\ w'.cmd = Camera /\ w'.phase = w.phase /\ w'.known = w.known
          /\ w'.queueLast = w.queueLast /\ w'.at = "idle"
      BY <1>1, <1>3, <1>4, IdleIs
    <2> QED BY <1>1, <1>2, <1>4, <2>1, OwnCalm, OwnIds DEF Own
  <1>5. CASE ~Own
    <2>1. SameTask /\ w'.at = "snapshot"
      BY <1>1, <1>3, <1>5, GoIs DEF SameTask
    <2>2. w.cmd \in Commands /\ Cancels(w.cmd)
      BY <1>1, <1>5 DEF Own, MemInv, ProgressInv, Cancels
    <2>3. effects[w.cmd] > 0
      BY <1>1, <2>2 DEF Steady, CalmMem, OutcomeMem
    <2>4. Lagging' = {} /\ Interrupted' = {}
      BY <1>1, <1>2, NothingLate, SameCalmFiles
    <2>5. LateMem(w)' /\ OutcomeMem(w)'
      BY <1>1, <2>1, <2>2, <2>3, <2>4 DEF LateMem, OutcomeMem, SameTask, SameData, Cancels
    <2> QED BY <1>1, <2>1, <2>5, SameTaskCalm
  <1> QED BY <1>4, <1>5

\* Moving a file, or telling a known answer again.
LEMMA SameCalm ==
    ASSUME Steady, SameData, w' = w
    PROVE  CalmFiles' /\ CalmMem(w)'
  <1>1. SameTask /\ Lagging' = Lagging /\ Interrupted' = Interrupted
    BY SameCalmFiles DEF Steady, SameTask
  <1>2. LateMem(w)' /\ OutcomeMem(w)'
    BY <1>1 DEF Steady, CalmMem, LateMem, OutcomeMem, SameData, Returns, ToCommit, Recovering,
       Cancels
  <1>3. w.phase = "boot" /\ ToSave(w') => w'.mark = state.last
    BY DEF Steady, CalmMem, TraceMem, ToSave, Recovering
  <1> QED BY <1>1, <1>2, <1>3, SameTaskCalm

\* A crash loses nothing the files have.
LEMMA CrashCalm ==
    ASSUME Steady, Crash
    PROVE  CalmFiles' /\ CalmMem(w)'
  BY LostCalm DEF Steady, Crash, SameData, disk, history

\* A repeated command changes no file.
LEMMA RepeatCalm ==
    ASSUME Steady, NEW c \in Commands, Repeat(c)
    PROVE  CalmFiles' /\ CalmMem(w)'
  BY SameCalm DEF Repeat, SameData, disk

\* Where the files of a cleanup are is not asked here.
LEMMA MoveCalm ==
    ASSUME Steady, NEW p \in Commands, NEW i \in Items, NEW r \in Results, Move(p, i, r)
    PROVE  CalmFiles' /\ CalmMem(w)'
  <1>1. w' = w
    BY SpendsNothing DEF Steady, Move, Then
  <1> QED BY <1>1, SameCalm DEF Move, SameData, history


-----------------------------------------------------------------------------
(* Steps of a command that write files *)

\* A new command is the one without an answer, and nothing names it yet.
LEMMA AcceptCalm ==
    ASSUME Steady, NEW c \in Commands, NEW q, NEW r \in Results, Accept(c, q, r)
    PROVE  CalmFiles' /\ CalmMem(w)'
  <1> DEFINE cleanup == q.kind \in {"plan", "apply", "restore"}
             at == IF cleanup THEN "recover" ELSE "guard"
             then == IF cleanup THEN "guard" ELSE "save"
             known == [w.known EXCEPT ![c] = "prepared"]
  <1>1. /\ w \in Memory /\ MemInv(w) /\ DataInv /\ w.phase = "serving" /\ w.at = "idle"
        /\ w.known[c] = "none" /\ w.cmd = Camera /\ CalmFiles /\ CalmMem(w)
        /\ journal \in [Commands -> Status] /\ DOMAIN sent = Commands
        /\ com \in [Commands -> 0..2] /\ dec \in [Commands -> 0..2]
        /\ UNCHANGED <<state, dec, com, plan, queueLast, effects>>
    BY DEF Steady, Inv, TypeOK, Accept, Serving, Known, MemInv, ControlInv
  <1>2. /\ sent' = [sent EXCEPT ![c] = q] /\ journal' = [journal EXCEPT ![c] = "prepared"]
        /\ w' = [w EXCEPT !.cmd = c, !.mark = c, !.expected = q.expected,
                          !.known[c] = "prepared", !.at = at, !.then = then]
    BY SpendsNothing DEF Steady, Accept, Put
  <1>3. w' = [phase |-> w.phase, cmd |-> c, at |-> at, then |-> then,
              left |-> w.left, reply |-> w.reply, known |-> known,
              expected |-> q.expected, mark |-> c, queueLast |-> w.queueLast]
    BY <1>1, <1>2 DEF Memory
  <1>4. w.known = journal /\ \A d \in Commands : ~Pending(d)
    BY <1>1, OwnIds DEF CalmMem, ServedMem
  <1>5. effects[c] = 0 /\ dec[c] = 0
    BY <1>1 DEF MemInv, KnownInv, Fresh
  <1>6. Lagging = {} /\ Interrupted = {}
    BY <1>1, NothingLate DEF CalmMem, CaughtUp, Returns, ToCommit, Recovering
  <1>7. Lagging' = {} /\ Interrupted' = {}
    BY <1>1, <1>6 DEF Lagging, Interrupted
  <1>8. \A d \in Commands : Pending(d)' <=> d = c
    BY <1>1, <1>2, <1>4 DEF Pending
  <1>9. CalmFiles'
    <2>1. queueLast # c /\ state.last # c
      BY <1>1, <1>5 DEF CalmFiles, DataInv, LastInv
    <2>2. ~Shown(c)'
      BY <1>1, <2>1 DEF Shown
    <2>3. (\A d \in Commands : com[d] <= dec[d])' /\ (queueLast \in Commands => effects[queueLast] > 0)'
      BY <1>1 DEF CalmFiles
    <2> QED BY <1>1, <1>5, <1>7, <1>8, <2>2, <2>3 DEF CalmFiles
  <1>10. LateMem(w)' /\ OutcomeMem(w)'
    BY <1>3, <1>7 DEF LateMem, OutcomeMem
  <1>11. ServedMem(w)'
    <2>1. journal' = known
      BY <1>2, <1>4
    <2> HIDE DEF known
    <2>2. w'.known = journal' /\ w'.cmd = c
      BY <1>3, <2>1
    <2> QED BY <1>8, <2>2 DEF ServedMem
  <1>12. TraceMem(w)'
    BY <1>1, <1>3 DEF CalmMem, TraceMem
  <1> QED BY <1>9, <1>10, <1>11, <1>12 DEF CalmMem

\* The answer leaves no command without one.
LEMMA ReplyCalm ==
    ASSUME Steady, NEW r \in Results, Reply(r)
    PROVE  CalmFiles' /\ CalmMem(w)'
  <1> DEFINE known == [w.known EXCEPT ![w.cmd] = w.reply]
  <1>1. /\ w \in Memory /\ w.at = "reply" /\ w.cmd \in Commands /\ w.phase = "serving"
        /\ CalmFiles /\ CalmMem(w) /\ journal \in [Commands -> Status]
        /\ w.reply \in {"success", "failure"}
        /\ UNCHANGED <<state, dec, com, plan, queueLast, sent, effects>>
    BY OwnIds, MemoryParts
    DEF Steady, Inv, TypeOK, Reply, At, MemInv, ControlInv, AtWorkInv, Working
  <1>2. /\ journal' = [journal EXCEPT ![w.cmd] = w.reply]
        /\ w' = [Idle EXCEPT !.known[w.cmd] = w.reply]
    BY SpendsNothing DEF Steady, Reply, Put
  <1>3. w' = [phase |-> w.phase, cmd |-> Camera, at |-> "idle", then |-> "idle", left |-> 0,
              reply |-> "failure", known |-> known, expected |-> 0, mark |-> None,
              queueLast |-> w.queueLast]
    <2>1. PICK m : m = Idle
      OBVIOUS
    <2>2. m = [phase |-> w.phase, cmd |-> Camera, at |-> "idle", then |-> "idle", left |-> 0,
               reply |-> "failure", known |-> w.known, expected |-> 0, mark |-> None,
               queueLast |-> w.queueLast]
      BY <1>1, <2>1, IdleIs
    <2>3. w' = [m EXCEPT !.known[w.cmd] = w.reply]
      BY <1>2, <2>1
    <2> QED BY <2>2, <2>3
  <1>4. Lagging = {} /\ Interrupted = {}
    BY <1>1, NothingLate DEF CalmMem, CaughtUp, Returns, ToCommit, Recovering
  <1>5. Lagging' = {} /\ Interrupted' = {}
    BY <1>1, <1>4 DEF Lagging, Interrupted
  <1>6. w.known = journal /\ \A d \in Commands : ~Pending(d)'
    BY <1>1, <1>2 DEF CalmMem, ServedMem, Pending
  <1>7. CalmFiles'
    BY <1>1, <1>5, <1>6 DEF CalmFiles
  <1>8. LateMem(w)' /\ OutcomeMem(w)'
    BY <1>3, <1>5, OwnIds DEF LateMem, OutcomeMem
  <1>9. ServedMem(w)'
    <2>1. journal' = known
      BY <1>2, <1>6
    <2> HIDE DEF known
    <2>2. w'.known = journal' /\ w'.cmd = Camera
      BY <1>3, <2>1
    <2> QED BY <1>6, <2>2, OwnIds DEF ServedMem
  <1>10. TraceMem(w)'
    BY <1>1, <1>3 DEF CalmMem, TraceMem
  <1> QED BY <1>7, <1>8, <1>9, <1>10 DEF CalmMem

\* Recovery answers the one command left without an answer.
LEMMA AnswerPreparedCalm ==
    ASSUME Steady, NEW c \in Commands, NEW r \in Results, AnswerPrepared(c, r)
    PROVE  CalmFiles' /\ CalmMem(w)'
  <1> DEFINE answer == IF WasApplied(c) THEN "success" ELSE "aborted"
             known == [w.known EXCEPT ![c] = answer]
  <1>1. /\ w \in Memory /\ w.at = "answers" /\ w.phase = "boot" /\ w.cmd = Camera
        /\ CalmFiles /\ CalmMem(w) /\ journal \in [Commands -> Status]
        /\ UNCHANGED <<state, dec, com, plan, queueLast, sent, effects>>
    BY DEF Steady, Inv, TypeOK, AnswerPrepared, At, MemInv, ControlInv, history
  <1>2. /\ journal' = [journal EXCEPT ![c] = answer]
        /\ w' = [w EXCEPT !.known[c] = answer]
    BY SpendsNothing DEF Steady, AnswerPrepared, Put, Then
  <1>3. answer # "prepared"
    OBVIOUS
  <1> HIDE DEF answer
  <1>4. w' = [phase |-> w.phase, cmd |-> w.cmd, at |-> w.at, then |-> w.then, left |-> w.left,
              reply |-> w.reply, known |-> known, expected |-> w.expected, mark |-> w.mark,
              queueLast |-> w.queueLast]
    BY <1>1, <1>2 DEF Memory
  <1>5. Lagging = {} /\ Interrupted = {}
    BY <1>1, NothingLate DEF CalmMem, CaughtUp, Returns, ToCommit, Recovering
  <1>6. Lagging' = {} /\ Interrupted' = {}
    BY <1>1, <1>5 DEF Lagging, Interrupted
  <1>7. \A d \in Commands : Pending(d)' => Pending(d)
    BY <1>1, <1>2, <1>3 DEF Pending
  <1>8. CalmFiles'
    <2>1. \A d \in Commands : Shown(d)' = Shown(d) /\ Cancels(d)' = Cancels(d)
      BY <1>1 DEF Shown, Cancels
    <2> QED BY <1>1, <1>6, <1>7, <2>1 DEF CalmFiles
  <1>9. LateMem(w)' /\ OutcomeMem(w)'
    BY <1>1, <1>4, <1>6, OwnIds DEF LateMem, OutcomeMem
  <1>10. ServedMem(w)'
    <2>1. journal' = known
      BY <1>1, <1>2 DEF CalmMem, ServedMem
    <2> HIDE DEF known
    <2>2. w'.known = journal' /\ w'.cmd = Camera /\ w'.phase = "boot"
      BY <1>1, <1>4, <2>1
    <2> QED BY <2>2, OwnIds DEF ServedMem
  <1>11. TraceMem(w)'
    BY <1>1, <1>4 DEF CalmMem, TraceMem, ToSave, Recovering
  <1> QED BY <1>8, <1>9, <1>10, <1>11 DEF CalmMem


\* A command that goes on.
LEMMA TaskCalm ==
    ASSUME Steady, w.cmd \in Commands, SameTask, UNCHANGED <<journal, queueLast>>,
           \A c \in Commands : effects[c] > 0 => effects'[c] > 0,
           LateMem(w)', OutcomeMem(w)'
    PROVE  CalmMem(w)'
  <1>1. w.phase = "serving"
    BY DEF Steady, Inv, MemInv, AtWorkInv
  <1>2. ServedMem(w)'
    BY <1>1 DEF Steady, CalmMem, ServedMem, SameTask, Pending
  <1>3. TraceMem(w)'
    BY <1>1 DEF Steady, CalmMem, TraceMem, SameTask
  <1> QED BY <1>2, <1>3 DEF CalmMem

\* What a command has behind it at a step of its own.
LEMMA WorkingFacts ==
    ASSUME Steady, w.at \in Working \cup {"save"}, w.cmd \in Commands
    PROVE  /\ w \in Memory /\ MemInv(w) /\ w.phase = "serving" /\ CalmFiles /\ CalmMem(w)
           /\ w.at # "commit" => Lagging = {} /\ Interrupted = {}
           /\ \A c \in Commands : Pending(c) <=> c = w.cmd
           /\ com \in [Commands -> 0..2] /\ dec \in [Commands -> 0..2]
           /\ effects \in [Commands -> Nat] /\ plan \in [Commands -> CleanupPlan]
           /\ w.left \in 0..2
  <1>1. /\ w \in Memory /\ MemInv(w) /\ w.phase = "serving" /\ CalmFiles /\ CalmMem(w)
        /\ com \in [Commands -> 0..2] /\ dec \in [Commands -> 0..2]
        /\ effects \in [Commands -> Nat] /\ plan \in [Commands -> CleanupPlan]
    BY DEF Steady, Inv, TypeOK, MemInv, AtWorkInv
  <1>2. w.at # "commit" => Lagging = {} /\ Interrupted = {}
    BY <1>1, NothingLate DEF CalmMem, CaughtUp, Returns, ToCommit, Recovering, Working
  <1>3. \A c \in Commands : Pending(c) <=> c = w.cmd
    BY <1>1 DEF CalmMem, ServedMem
  <1> QED BY <1>1, <1>2, <1>3, MemoryParts

\* A decision prepared before the effect is not late.
LEMMA PrepareCalm ==
    ASSUME Steady, NEW r \in Results, Prepare(r)
    PROVE  CalmFiles' /\ CalmMem(w)'
  <1>1. /\ w.at = "prepare" /\ w.cmd \in Commands
        /\ UNCHANGED <<journal, state, com, plan, queueLast, sent, effects>>
    BY DEF Steady, Inv, Prepare, At, MemInv, ControlInv, Working, history
  <1>2. /\ w \in Memory /\ MemInv(w) /\ CalmFiles
        /\ Lagging = {} /\ Interrupted = {}
        /\ com \in [Commands -> 0..2] /\ dec \in [Commands -> 0..2]
    BY <1>1, WorkingFacts DEF Working
  <1>3. /\ dec' = [dec EXCEPT ![w.cmd] = dec[w.cmd] + 1]
        /\ w' = IF w.left > 1 THEN [w EXCEPT !.left = @ - 1]
                ELSE IF Kind \in {"apply", "restore"} THEN Go("mark") ELSE Go("recover")
    BY SpendsNothing DEF Steady, Prepare, Put, Then, SaveEntry
  <1>4. SameTask /\ w'.at \in {"prepare", "mark", "recover"}
    <2>1. CASE w.left > 1
      BY <1>1, <1>2, <1>3, <2>1 DEF Memory, SameTask
    <2>2. CASE ~(w.left > 1)
      BY <1>2, <1>3, <2>2, GoIs DEF SameTask
    <2> QED BY <2>1, <2>2
  <1>5. effects[w.cmd] = 0
    BY <1>1, <1>2 DEF MemInv, ProgressInv, Before, ToSave, Recovering
  <1>6. Lagging' = {} /\ Interrupted' = {}
    BY <1>1, <1>2, <1>3, <1>5 DEF Lagging, Interrupted
  <1>7. CalmFiles'
    <2>1. \A c \in Commands : com'[c] <= dec'[c]
      BY <1>1, <1>2, <1>3 DEF CalmFiles
    <2>2. /\ \A c \in Commands : /\ Pending(c)' = Pending(c) /\ Cancels(c)' = Cancels(c)
                                 /\ Shown(c)' = Shown(c)
      BY <1>1 DEF Pending, Cancels, Shown
    <2> QED BY <1>1, <1>2, <1>6, <2>1, <2>2 DEF CalmFiles
  <1>8. LateMem(w)' /\ OutcomeMem(w)'
    BY <1>4, <1>6 DEF LateMem, OutcomeMem
  <1> QED BY <1>1, <1>4, <1>7, <1>8, TaskCalm

\* A plan that is written or removed, not announced.
LEMMA PlanCalm ==
    ASSUME Steady, w.at \in Working \ {"commit"}, w.cmd \in Commands, NEW new,
           UNCHANGED <<journal, state, dec, com, queueLast, sent, effects>>,
           plan' = [plan EXCEPT ![w.cmd] = new], new.status \notin {"applying", "restoring"}
    PROVE  CalmFiles' /\ Lagging' = {} /\ Interrupted' = {}
  <1>1. CalmFiles /\ Lagging = {} /\ Interrupted = {} /\ plan \in [Commands -> CleanupPlan]
    BY WorkingFacts
  <1>2. Lagging' = {}
    BY <1>1 DEF Lagging
  <1>3. Interrupted' = {}
    BY <1>1 DEF Interrupted
  <1>4. \A c \in Commands : /\ Pending(c)' = Pending(c) /\ Cancels(c)' = Cancels(c)
                            /\ Shown(c)' = Shown(c)
    BY DEF Pending, Cancels, Shown
  <1> QED BY <1>1, <1>2, <1>3, <1>4 DEF CalmFiles

\* A new plan is not in progress.
LEMMA WritePlanCalm ==
    ASSUME Steady, NEW r \in Results, WritePlan(r)
    PROVE  CalmFiles' /\ CalmMem(w)'
  <1> DEFINE new == [NoPlan EXCEPT !.status = "planned", !.items = Candidates]
  <1>1. /\ w \in Memory /\ w.at = "planfile" /\ w.cmd \in Commands
        /\ UNCHANGED <<journal, state, dec, com, queueLast, sent, effects>>
    BY DEF Steady, Inv, TypeOK, WritePlan, At, MemInv, ControlInv, Working, history
  <1>2. plan' = [plan EXCEPT ![w.cmd] = new] /\ w' = [w EXCEPT !.at = "prepare", !.then = "save"]
    BY SpendsNothing DEF Steady, WritePlan, Put, Then
  <1>3. new.status = "planned"
    BY DEF NoPlan
  <1> HIDE DEF new
  <1>4. CalmFiles' /\ Lagging' = {} /\ Interrupted' = {}
    BY <1>1, <1>2, <1>3, PlanCalm DEF Working
  <1>5. SameTask /\ w'.at = "prepare"
    BY <1>1, <1>2 DEF Memory, SameTask
  <1>6. LateMem(w)' /\ OutcomeMem(w)'
    BY <1>4, <1>5 DEF LateMem, OutcomeMem
  <1> QED BY <1>1, <1>4, <1>5, <1>6, TaskCalm

\* A plan removed after a failure was not applied.
LEMMA UnplanCalm ==
    ASSUME Steady, NEW r \in Results, Unplan(r)
    PROVE  CalmFiles' /\ CalmMem(w)'
  <1>1. /\ w \in Memory /\ w.at = "unplan" /\ w.cmd \in Commands /\ w' = Say("failure")
        /\ UNCHANGED <<journal, state, dec, com, queueLast, sent, effects>>
    BY DEF Steady, Inv, TypeOK, Unplan, At, MemInv, ControlInv, Working, history
  <1>2. plan' = [plan EXCEPT ![w.cmd] = NoPlan]
    BY SpendsNothing DEF Steady, Unplan, Put
  <1>3. CalmFiles' /\ Lagging' = {} /\ Interrupted' = {}
    BY <1>1, <1>2, NoPlanType, PlanCalm DEF Working
  <1>4. SameTask /\ w'.at = "reply" /\ w'.reply = "failure"
    BY <1>1, SayIs DEF SameTask
  <1>5. LateMem(w)'
    BY <1>3, <1>4 DEF LateMem
  <1>6. OutcomeMem(w)'
    BY <1>1, <1>4 DEF Steady, CalmMem, OutcomeMem, SameTask, Cancels
  <1> QED BY <1>1, <1>3, <1>4, <1>5, <1>6, TaskCalm

\* The cleanup that begins belongs to the command at work.
LEMMA MarkCalm ==
    ASSUME Steady, NEW r \in Results, Mark(r)
    PROVE  CalmFiles' /\ CalmMem(w)'
  <1>0. PICK p : p = sent[w.cmd].arg
    OBVIOUS
  <1> DEFINE status == IF Kind = "apply" THEN "applying" ELSE "restoring"
             new == Marked(plan[p], status, w.cmd, w.expected)
  <1>1. /\ w.at = "mark" /\ w.cmd \in Commands /\ DataInv /\ state \in State
        /\ UNCHANGED <<journal, state, dec, com, queueLast, sent, effects>>
    BY DEF Steady, Inv, TypeOK, Mark, At, MemInv, ControlInv, Working, history
  <1>2. /\ w \in Memory /\ MemInv(w) /\ CalmFiles
        /\ Lagging = {} /\ Interrupted = {} /\ plan \in [Commands -> CleanupPlan]
        /\ \A c \in Commands : Pending(c) <=> c = w.cmd
    BY <1>1, WorkingFacts DEF Working
  <1>3. /\ sent[w.cmd].kind \in {"apply", "restore"} /\ w.expected = state.revision
        /\ p \in Commands
    BY <1>0, <1>1, <1>2 DEF MemInv, ProgressInv, DataInv, SentInv
  <1>4. /\ plan' = [plan EXCEPT ![p] = new]
        /\ w' = [w EXCEPT !.at = "recover", !.then = "commit"]
    BY <1>0, SpendsNothing DEF Steady, Mark, Put, Then, Marked
  <1>5. new = [status |-> status, items |-> plan[p].items, op |-> w.cmd, source |-> state.revision]
    BY <1>1, <1>2, <1>3, MarkedIs DEF State
  <1> HIDE DEF new
  <1>6. SameTask /\ w'.at = "recover" /\ w'.then = "commit"
    BY <1>2, <1>4 DEF Memory, SameTask
  <1>7. Interrupted' = {p} /\ plan'[p].op = w.cmd /\ plan'[p].source = state.revision
    BY <1>2, <1>3, <1>4, <1>5 DEF Interrupted
  <1>8. Lagging' = {}
    BY <1>1, <1>2 DEF Lagging
  <1>9. CalmFiles'
    <2>1. \A c \in Commands : /\ Pending(c)' = Pending(c) /\ Cancels(c)' = Cancels(c)
                              /\ Shown(c)' = Shown(c)
      BY <1>1 DEF Pending, Cancels, Shown
    <2>2. \A q \in Interrupted' : Pending(plan[q].op)' /\ sent'[plan'[q].op].kind # "queue"
      <3>1. journal'[w.cmd] = "prepared" /\ sent'[w.cmd].kind # "queue"
        BY <1>1, <1>2, <1>3 DEF Pending
      <3>2. Pending(plan[p].op)' /\ sent'[plan'[p].op].kind # "queue"
        BY <1>7, <3>1 DEF Pending
      <3> QED BY <1>7, <3>2
    <2> QED BY <1>1, <1>2, <1>8, <2>1, <2>2 DEF CalmFiles
  <1>10. LateMem(w)' /\ OutcomeMem(w)'
    BY <1>6, <1>7, <1>8 DEF LateMem, OutcomeMem, SameTask
  <1> QED BY <1>1, <1>6, <1>9, <1>10, TaskCalm

\* A cancellation takes effect in its job's file.
LEMMA CancelJobCalm ==
    ASSUME Steady, NEW r \in Results, CancelJob(r)
    PROVE  CalmFiles' /\ CalmMem(w)'
  <1>1. /\ w.at = "job" /\ w.cmd \in Commands
        /\ UNCHANGED <<journal, state, dec, com, plan, queueLast, sent>>
    BY DEF Steady, Inv, CancelJob, At, MemInv, ControlInv, Working
  <1>2. /\ w \in Memory /\ MemInv(w) /\ CalmFiles
        /\ Lagging = {} /\ Interrupted = {} /\ effects \in [Commands -> Nat]
        /\ com \in [Commands -> 0..2] /\ dec \in [Commands -> 0..2]
        /\ \A c \in Commands : Pending(c) <=> c = w.cmd
    BY <1>1, WorkingFacts DEF Working
  <1>3. effects' = [effects EXCEPT ![w.cmd] = effects[w.cmd] + 1] /\ w' = Go("recover")
    BY SpendsNothing DEF Steady, CancelJob, Put, Then, SaveEntry
  <1>4. Cancels(w.cmd) /\ dec[w.cmd] = 0
    BY <1>1, <1>2 DEF MemInv, ProgressInv, Cancels
  <1>5. SameTask /\ w'.at = "recover"
    BY <1>2, <1>3, GoIs DEF SameTask
  <1>6. com[w.cmd] = dec[w.cmd]
    BY <1>1, <1>2, <1>4 DEF CalmFiles
  <1>7. Lagging' = {} /\ Interrupted' = {}
    BY <1>1, <1>2, <1>3, <1>6 DEF Lagging, Interrupted
  <1>8. \A c \in Commands : effects[c] > 0 => effects'[c] > 0
    BY <1>2, <1>3
  <1>9. CalmFiles'
    <2>1. \A c \in Commands : Pending(c)' = Pending(c) /\ Cancels(c)' = Cancels(c)
      BY <1>1 DEF Pending, Cancels
    <2> QED BY <1>1, <1>2, <1>4, <1>7, <1>8, <2>1 DEF CalmFiles
  <1>10. LateMem(w)' /\ OutcomeMem(w)'
    BY <1>5, <1>7 DEF LateMem, OutcomeMem
  <1> QED BY <1>1, <1>5, <1>8, <1>9, <1>10, TaskCalm


\* A queue command takes effect as queue.json takes its name.
LEMMA PauseQueueCalm ==
    ASSUME Steady, NEW r \in Results, PauseQueue(r)
    PROVE  CalmFiles' /\ CalmMem(w)'
  <1>1. /\ w.at = "queue" /\ w.cmd \in Commands
        /\ UNCHANGED <<journal, state, dec, com, plan, sent>>
    BY DEF Steady, Inv, PauseQueue, At, MemInv, ControlInv, Working
  <1>2. /\ w \in Memory /\ MemInv(w) /\ CalmFiles /\ CalmMem(w) /\ w.phase = "serving"
        /\ Lagging = {} /\ Interrupted = {} /\ effects \in [Commands -> Nat]
        /\ com \in [Commands -> 0..2] /\ dec \in [Commands -> 0..2]
        /\ \A c \in Commands : Pending(c) <=> c = w.cmd
    BY <1>1, WorkingFacts DEF Working
  <1>3. /\ effects' = [effects EXCEPT ![w.cmd] = effects[w.cmd] + 1]
        /\ queueLast' = w.cmd
        /\ w' = [Say("success") EXCEPT !.queueLast = w.cmd]
    BY SpendsNothing DEF Steady, PauseQueue, Put, Then
  <1>4. sent[w.cmd].kind = "queue" /\ dec[w.cmd] = 0
    BY <1>1, <1>2 DEF CalmMem, OutcomeMem
  <1>5. w' = [phase |-> w.phase, cmd |-> w.cmd, at |-> "reply", then |-> w.then,
              left |-> w.left, reply |-> "success", known |-> w.known,
              expected |-> w.expected, mark |-> w.mark, queueLast |-> w.cmd]
    <2>1. PICK m : m = Say("success")
      OBVIOUS
    <2>2. m = [phase |-> w.phase, cmd |-> w.cmd, at |-> "reply", then |-> w.then,
               left |-> w.left, reply |-> "success", known |-> w.known,
               expected |-> w.expected, mark |-> w.mark, queueLast |-> w.queueLast]
      BY <1>2, <2>1, SayIs
    <2>3. w' = [m EXCEPT !.queueLast = w.cmd]
      BY <1>3, <2>1
    <2> QED BY <2>2, <2>3
  <1>6. com[w.cmd] = dec[w.cmd]
    BY <1>1, <1>2, <1>4 DEF CalmFiles
  <1>7. Lagging' = {} /\ Interrupted' = {}
    BY <1>1, <1>2, <1>3, <1>6 DEF Lagging, Interrupted
  <1>8. effects'[w.cmd] > 0
    BY <1>1, <1>2, <1>3
  <1>9. CalmFiles'
    <2>1. \A c \in Commands : Pending(c)' <=> c = w.cmd
      BY <1>1, <1>2 DEF Pending
    <2>2. \A c \in Commands : c = w.cmd => Shown(c)'
      BY <1>1, <1>3, <1>4 DEF Shown
    <2> QED BY <1>1, <1>2, <1>3, <1>7, <1>8, <2>1, <2>2 DEF CalmFiles
  <1>10. LateMem(w)' /\ OutcomeMem(w)'
    BY <1>5, <1>7, <1>8 DEF LateMem, OutcomeMem
  <1>11. ServedMem(w)'
    BY <1>1, <1>2, <1>5 DEF CalmMem, ServedMem, Pending
  <1>12. TraceMem(w)'
    BY <1>2, <1>5, <1>8 DEF TraceMem
  <1> QED BY <1>9, <1>10, <1>11, <1>12 DEF CalmMem

\* The queue takes the name of a command that took effect, or keeps its last.
LEMMA SnapshotQueueCalm ==
    ASSUME Steady, NEW r \in Results, SnapshotQueue(r)
    PROVE  CalmFiles' /\ CalmMem(w)'
  <1>0. PICK last : last = IF w.cmd # Camera THEN w.cmd
                           ELSE IF w.mark = Camera THEN Camera ELSE w.queueLast
    OBVIOUS
  <1>1. /\ w \in Memory /\ MemInv(w) /\ CalmFiles /\ CalmMem(w) /\ w.at = "snapshot"
        /\ w.phase = "serving" /\ w.cmd \in Commands \cup {Camera}
        /\ UNCHANGED <<journal, state, dec, com, plan, sent, effects>>
    BY MemoryParts
    DEF Steady, Inv, TypeOK, SnapshotQueue, At, MemInv, ControlInv, history
  <1>2. /\ queueLast' = last
        /\ w' = [IF w.cmd = Camera THEN Idle ELSE Say("success") EXCEPT !.queueLast = last]
    BY <1>0, SpendsNothing DEF Steady, SnapshotQueue
  <1>3. /\ w'.phase = "serving" /\ w'.known = w.known /\ w'.queueLast = last
        /\ w.cmd = Camera => w'.cmd = Camera /\ w'.at = "idle"
        /\ w.cmd # Camera => w'.cmd = w.cmd /\ w'.at = "reply" /\ w'.reply = "success"
    <2>1. PICK m : m = IF w.cmd = Camera THEN Idle ELSE Say("success")
      OBVIOUS
    <2>2. w' = [m EXCEPT !.queueLast = last]
      BY <1>2, <2>1
    <2>3. CASE w.cmd = Camera
      <3>1. m = [phase |-> w.phase, cmd |-> Camera, at |-> "idle", then |-> "idle", left |-> 0,
                 reply |-> "failure", known |-> w.known, expected |-> 0, mark |-> None,
                 queueLast |-> w.queueLast]
        BY <1>1, <2>1, <2>3, IdleIs
      <3> QED BY <1>1, <2>2, <2>3, <3>1
    <2>4. CASE w.cmd # Camera
      <3>1. m = [phase |-> w.phase, cmd |-> w.cmd, at |-> "reply", then |-> w.then,
                 left |-> w.left, reply |-> "success", known |-> w.known,
                 expected |-> w.expected, mark |-> w.mark, queueLast |-> w.queueLast]
        BY <1>1, <2>1, <2>4, SayIs
      <3> QED BY <1>1, <2>2, <2>4, <3>1
    <2> QED BY <2>3, <2>4
  <1>4. w.cmd \in Commands => effects[w.cmd] > 0
    BY <1>1 DEF CalmMem, OutcomeMem
  <1>5. last \in Commands => effects[last] > 0
    BY <1>0, <1>1, <1>4, OwnIds DEF CalmMem, TraceMem
  <1>6. Lagging = {} /\ Interrupted = {}
    BY <1>1, NothingLate DEF CalmMem, CaughtUp, Returns, ToCommit, Recovering
  <1>7. Lagging' = {} /\ Interrupted' = {}
    BY <1>1, <1>6 DEF Lagging, Interrupted
  <1>8. \A c \in Commands : /\ Pending(c)' <=> Pending(c)
                            /\ Pending(c) => c = w.cmd
                            /\ Cancels(c)' <=> Cancels(c)
    BY <1>1 DEF CalmMem, ServedMem, Pending, Cancels
  <1>9. CalmFiles'
    <2>1. ASSUME NEW c \in Commands, Pending(c)', ~Cancels(c)'
          PROVE  effects[c] > 0 <=> Shown(c)'
      <3>1. c = w.cmd /\ w.cmd # Camera /\ effects[c] > 0 /\ Pending(c) /\ ~Cancels(c)
        BY <1>4, <1>8, <2>1, OwnIds
      <3>2. Shown(c)
        BY <1>1, <3>1 DEF CalmFiles
      <3>3. Shown(c)'
        BY <1>0, <1>1, <1>2, <3>1, <3>2 DEF Shown
      <3> QED BY <3>1, <3>3
    <2>2. \A c, d \in Commands : Pending(c)' /\ Pending(d)' => c = d
      BY <1>8
    <2> QED BY <1>1, <1>2, <1>5, <1>7, <2>1, <2>2 DEF CalmFiles
  <1>10. LateMem(w)' /\ OutcomeMem(w)'
    BY <1>1, <1>3, <1>4, <1>7, OwnIds DEF LateMem, OutcomeMem
  <1>11. ServedMem(w)'
    BY <1>1, <1>3, <1>8, OwnIds DEF CalmMem, ServedMem
  <1>12. TraceMem(w)'
    BY <1>1, <1>3, <1>5 DEF TraceMem
  <1> QED BY <1>9, <1>10, <1>11, <1>12 DEF CalmMem

\* One more decision is committed, and the last one ends the delay.
LEMMA CommitCalm ==
    ASSUME Steady, NEW r \in Results, Commit(r)
    PROVE  CalmFiles' /\ CalmMem(w)'
  <1>0. PICK n : n = dec[w.cmd] - w.left + 1
    OBVIOUS
  <1>1. /\ w.at = "commit" /\ w.cmd \in Commands
        /\ UNCHANGED <<journal, state, dec, plan, queueLast, sent, effects>>
    BY DEF Steady, Inv, Commit, At, MemInv, ControlInv, Working, history
  <1>2. /\ w \in Memory /\ MemInv(w) /\ CalmFiles /\ CalmMem(w)
        /\ com \in [Commands -> 0..2] /\ dec \in [Commands -> 0..2] /\ w.left \in 0..2
    BY <1>1, WorkingFacts DEF Working
  <1>3. /\ com' = IF com[w.cmd] < n THEN [com EXCEPT ![w.cmd] = n] ELSE com
        /\ w' = IF w.left > 1 THEN [w EXCEPT !.left = @ - 1] ELSE Say("success")
    BY <1>0, SpendsNothing DEF Steady, Commit, Put, Then
  <1>4. /\ 1 <= w.left /\ w.left <= dec[w.cmd] /\ effects[w.cmd] > 0
        /\ com[w.cmd] + w.left >= dec[w.cmd] /\ com[w.cmd] <= dec[w.cmd]
    BY <1>1, <1>2 DEF MemInv, ProgressInv, ToCommit, MarkInv, CalmMem, LateMem, CalmFiles
  <1>5. /\ com'[w.cmd] \in com[w.cmd]..dec[w.cmd] /\ com'[w.cmd] + w.left > dec[w.cmd]
        /\ \A c \in Commands : c # w.cmd => com'[c] = com[c]
    <2>1. /\ com[w.cmd] \in 0..2 /\ dec[w.cmd] \in 0..2 /\ n \in 1..dec[w.cmd]
          /\ n + w.left > dec[w.cmd]
      BY <1>0, <1>1, <1>2, <1>4
    <2>2. \A c \in Commands : c # w.cmd => com'[c] = com[c]
      BY <1>1, <1>2, <1>3
    <2>3. com'[w.cmd] = IF com[w.cmd] < n THEN n ELSE com[w.cmd]
      BY <1>1, <1>2, <1>3
    <2>4. CASE com[w.cmd] < n
      BY <1>2, <1>4, <2>1, <2>2, <2>3, <2>4
    <2>5. CASE ~(com[w.cmd] < n)
      BY <1>2, <1>4, <2>1, <2>2, <2>3, <2>5
    <2> QED BY <2>4, <2>5
  <1>6. Interrupted' = {}
    <2>1. Interrupted = {} /\ Interrupted' = Interrupted
      BY <1>1, <1>2 DEF CalmMem, LateMem, Returns, Recovering, MemInv, AtWorkInv, Interrupted
    <2> QED BY <2>1
  <1>7. /\ Lagging' \subseteq Lagging
        /\ w.left = 1 => w.cmd \notin Lagging'
        /\ Lagging \subseteq {w.cmd}
    <2>1. Lagging' \subseteq Lagging
      BY <1>1, <1>2, <1>4, <1>5 DEF Lagging
    <2>2. w.left = 1 => w.cmd \notin Lagging'
      BY <1>1, <1>2, <1>5 DEF Lagging
    <2>3. Lagging \subseteq {w.cmd}
      BY <1>1, <1>2 DEF CalmMem, LateMem, Returns, Recovering, MemInv, AtWorkInv
    <2> QED BY <2>1, <2>2, <2>3
  <1>8. /\ SameTask
        /\ w.left > 1 => w'.at = "commit" /\ w'.left = w.left - 1
        /\ ~(w.left > 1) => w'.at = "reply" /\ w'.reply = "success"
    <2>1. CASE w.left > 1
      BY <1>1, <1>2, <1>3, <2>1 DEF Memory, SameTask
    <2>2. CASE ~(w.left > 1)
      BY <1>2, <1>3, <2>2, SayIs DEF SameTask
    <2> QED BY <2>1, <2>2
  <1>9. CalmFiles'
    <2>1. \A c \in Commands : com'[c] <= dec'[c]
      BY <1>1, <1>2, <1>5 DEF CalmFiles
    <2>2. \A c \in Commands : /\ Pending(c)' = Pending(c) /\ Cancels(c)' = Cancels(c)
                              /\ Shown(c)' = Shown(c)
      BY <1>1 DEF Pending, Cancels, Shown
    <2> QED BY <1>1, <1>2, <1>6, <1>7, <2>1, <2>2 DEF CalmFiles
  <1>10. LateMem(w)'
    <2>1. CASE w.left > 1
      <3>1. com'[w.cmd] + (w.left - 1) >= dec[w.cmd]
        BY <1>1, <1>2, <1>5
      <3> QED BY <1>1, <1>6, <1>7, <1>8, <2>1, <3>1 DEF LateMem, SameTask, ToCommit
    <2>2. CASE ~(w.left > 1)
      <3>1. Lagging' = {}
        BY <1>2, <1>4, <1>7, <2>2
      <3> QED BY <1>6, <1>8, <2>2, <3>1 DEF LateMem
    <2> QED BY <2>1, <2>2
  <1>11. OutcomeMem(w)'
    BY <1>1, <1>4, <1>8 DEF OutcomeMem, SameTask
  <1> QED BY <1>1, <1>8, <1>9, <1>10, <1>11, TaskCalm


\* The state is saved in the name of the main loop.
LEMMA SaveOwnCalm ==
    ASSUME Steady, NEW r \in Results, Save(r), w.cmd \notin Commands
    PROVE  CalmFiles' /\ CalmMem(w)'
  <1> DEFINE step == IF w.phase = "boot" THEN "answers"
                     ELSE IF w.cmd = Camera THEN "snapshot" ELSE "event"
  <1>1. /\ w \in Memory /\ MemInv(w) /\ CalmFiles /\ CalmMem(w) /\ w.at = "save"
        /\ w.phase \in {"boot", "serving"} /\ w.cmd \in {Camera, Builder}
        /\ UNCHANGED <<journal, dec, com, plan, queueLast, sent>>
    BY MemoryParts DEF Steady, Inv, TypeOK, Save, At
  <1>2. /\ state'.last = w.mark /\ effects' = effects /\ w' = AfterSave
    BY <1>1, SpendsNothing DEF Steady, Save, Own, Then
  <1>3. /\ w'.phase = w.phase /\ w'.cmd = w.cmd /\ w'.known = w.known
        /\ w'.queueLast = w.queueLast /\ w'.at = step
    <2>1. w' = Go(step)
      BY <1>1, <1>2 DEF AfterSave, Own
    <2> QED BY <1>1, <2>1, GoIs
  <1>4. Lagging = {} /\ Interrupted = {}
    BY <1>1, NothingLate DEF CalmMem, CaughtUp, Returns, ToCommit, Recovering
  <1>5. Lagging' = {} /\ Interrupted' = {}
    BY <1>1, <1>2, <1>4 DEF Lagging, Interrupted
  <1>6. \A c \in Commands : Pending(c)' = Pending(c) /\ Cancels(c)' = Cancels(c)
    BY <1>1 DEF Pending, Cancels
  <1>7. CalmFiles'
    <2>1. ASSUME NEW c \in Commands, Pending(c) PROVE Shown(c)' = Shown(c)
      <3>1. w.phase = "boot"
        BY <1>1, <2>1 DEF CalmMem, ServedMem
      <3>2. state'.last = state.last
        BY <1>1, <1>2, <3>1 DEF CalmMem, TraceMem, ToSave
      <3> QED BY <1>1, <3>2 DEF Shown
    <2> QED BY <1>1, <1>2, <1>5, <1>6, <2>1 DEF CalmFiles
  <1>8. LateMem(w)' /\ OutcomeMem(w)'
    BY <1>1, <1>3, <1>5 DEF LateMem, OutcomeMem
  <1>9. ServedMem(w)'
    BY <1>1, <1>3, <1>6 DEF CalmMem, ServedMem
  <1>10. TraceMem(w)'
    BY <1>1, <1>2, <1>3 DEF CalmMem, TraceMem, ToSave, Recovering
  <1> QED BY <1>7, <1>8, <1>9, <1>10 DEF CalmMem

\* Where a command goes on after its state.
LEMMA AfterSaveTask ==
    ASSUME w \in Memory, MemInv(w), w.at = "save", w.cmd \in Commands, w' = AfterSave
    PROVE  /\ SameTask
           /\ sent[w.cmd].kind # "queue" /\ dec[w.cmd] \in Nat
           /\ \/ w'.at \in {"event", "snapshot"} /\ dec[w.cmd] = 0
              \/ w'.at = "reply" /\ w'.reply = "success" /\ dec[w.cmd] = 0
              \/ w'.at = "commit" /\ w'.left = dec[w.cmd]
  <1>1. /\ Kind \in {"enqueue", "cancel", "build", "reject", "batch", "plan"}
        /\ dec[w.cmd] = DecisionsOf(Kind) /\ w.phase = "serving" /\ ~Own
    BY OwnIds DEF MemInv, ProgressInv, AtWorkInv, ToSave, Kind, Own
  <1>2. sent[w.cmd].kind # "queue" /\ DecisionsOf(Kind) \in Nat
    BY <1>1, DecisionsBound DEF Kind
  <1>3. CASE Kind \in {"enqueue", "cancel", "build"}
    <2>1. dec[w.cmd] = 0
      BY <1>1, <1>3, DecisionsBound
    <2>2. w' = Go("event") \/ w' = Go("snapshot") \/ w' = Say("success")
      BY <1>1, <1>3 DEF AfterSave
    <2> QED BY <1>1, <1>2, <2>1, <2>2, GoIs, SayIs DEF SameTask
  <1>4. CASE Kind \in {"reject", "batch", "plan"}
    <2> DEFINE left == DecisionsOf(Kind)
    <2>1. w' = [w EXCEPT !.at = "commit", !.left = left]
      BY <1>1, <1>4 DEF AfterSave
    <2> HIDE DEF left
    <2>2. SameTask /\ w'.at = "commit" /\ w'.left = left
      BY <2>1 DEF Memory, SameTask
    <2> QED BY <1>1, <1>2, <2>2 DEF left
  <1> QED BY <1>1, <1>3, <1>4

\* The state is saved in the name of a command.
LEMMA SaveCommandCalm ==
    ASSUME Steady, NEW r \in Results, Save(r), w.cmd \in Commands
    PROVE  CalmFiles' /\ CalmMem(w)'
  <1>1. w.at = "save" /\ UNCHANGED <<journal, dec, com, plan, queueLast, sent>>
    BY DEF Save, At
  <1>2. /\ w \in Memory /\ MemInv(w) /\ CalmFiles /\ CalmMem(w)
        /\ Lagging = {} /\ Interrupted = {} /\ effects \in [Commands -> Nat]
        /\ com \in [Commands -> 0..2] /\ dec \in [Commands -> 0..2]
        /\ \A c \in Commands : Pending(c) <=> c = w.cmd
    BY <1>1, WorkingFacts
  <1>3. /\ state'.last = w.cmd /\ w' = AfterSave
        /\ effects' = IF Cancels(w.cmd) THEN effects
                      ELSE [effects EXCEPT ![w.cmd] = effects[w.cmd] + 1]
    <2>1. w.mark = w.cmd /\ ~Own
      BY <1>2, OwnIds DEF MemInv, MarkInv, Own
    <2> QED BY <2>1, SpendsNothing DEF Steady, Save, Put, Then, Cancels, Kind
  <1>4. /\ effects'[w.cmd] > 0
        /\ \A c \in Commands : c # w.cmd => effects'[c] = effects[c]
    <2>1. Cancels(w.cmd) => effects[w.cmd] > 0
      BY <1>1, <1>2 DEF MemInv, MarkInv, ToSave, Cancels
    <2>2. CASE Cancels(w.cmd)
      BY <1>3, <2>1, <2>2
    <2>3. CASE ~Cancels(w.cmd)
      BY <1>2, <1>3, <2>3
    <2> QED BY <2>2, <2>3
  <1>5. /\ SameTask
        /\ sent[w.cmd].kind # "queue"
        /\ \/ w'.at \in {"event", "snapshot"} /\ dec[w.cmd] = 0
           \/ w'.at = "reply" /\ w'.reply = "success" /\ dec[w.cmd] = 0
           \/ w'.at = "commit" /\ w'.left = dec[w.cmd]
    BY <1>1, <1>2, <1>3, AfterSaveTask
  <1>6. Lagging' \subseteq {w.cmd} /\ Interrupted' = {}
    BY <1>1, <1>2, <1>4 DEF Lagging, Interrupted
  <1>7. dec[w.cmd] = 0 => Lagging' = {}
    <2> SUFFICES ASSUME dec[w.cmd] = 0 PROVE w.cmd \notin Lagging'
      BY <1>6
    <2>1. com[w.cmd] = 0
      BY <1>2 DEF CalmFiles
    <2> QED BY <1>1, <2>1 DEF Lagging
  <1>8. CalmFiles'
    <2>1. \A c \in Commands : Pending(c)' = Pending(c) /\ Cancels(c)' = Cancels(c)
      BY <1>1 DEF Pending, Cancels
    <2>2. \A c \in Commands : c = w.cmd => Shown(c)'
      BY <1>1, <1>3, <1>5 DEF Shown
    <2> QED BY <1>1, <1>2, <1>3, <1>4, <1>6, <2>1, <2>2 DEF CalmFiles
  <1>9. LateMem(w)'
    <2>1. w'.at = "commit" => com'[w'.cmd] + w'.left >= dec'[w'.cmd]
      BY <1>1, <1>2, <1>5 DEF SameTask
    <2>2. \A c \in Lagging' : c = w'.cmd /\ w'.at = "commit"
      BY <1>5, <1>6, <1>7 DEF SameTask
    <2> QED BY <1>6, <2>1, <2>2 DEF LateMem, ToCommit
  <1>10. OutcomeMem(w)'
    BY <1>4, <1>5 DEF OutcomeMem, SameTask
  <1> QED BY <1>1, <1>4, <1>5, <1>8, <1>9, <1>10, TaskCalm

-----------------------------------------------------------------------------
(* Steps of a recovery that write files *)

\* Recovery commits one more decision of the command the state names.
LEMMA RedoCalm ==
    ASSUME Steady, NEW c \in Commands, NEW r \in Results, Redo(c, r)
    PROVE  CalmFiles' /\ CalmMem(w)'
  <1>1. /\ w.at = "redo" /\ CalmFiles /\ CalmMem(w) /\ com[c] < dec[c]
        /\ com \in [Commands -> 0..2] /\ dec \in [Commands -> 0..2]
        /\ UNCHANGED <<journal, state, dec, plan, queueLast, sent, effects>>
    BY DEF Steady, Inv, TypeOK, Redo, At, Uncommitted, history
  <1>2. com' = [com EXCEPT ![c] = com[c] + 1] /\ w' = w
    BY SpendsNothing DEF Steady, Redo, Put, Then
  <1>3. Lagging' \subseteq Lagging
    BY <1>1, <1>2 DEF Lagging
  <1>4. Interrupted = {} /\ Interrupted' = Interrupted
    BY <1>1 DEF CalmMem, LateMem, Interrupted
  <1>5. \A d \in Commands : /\ Pending(d)' = Pending(d) /\ Cancels(d)' = Cancels(d)
                            /\ Shown(d)' = Shown(d)
    BY <1>1 DEF Pending, Cancels, Shown
  <1>6. \A d \in Commands : com'[d] <= dec'[d]
    BY <1>1, <1>2 DEF CalmFiles
  <1>7. CalmFiles'
    BY <1>1, <1>3, <1>4, <1>5, <1>6 DEF CalmFiles
  <1>8. LateMem(w)'
    BY <1>1, <1>2, <1>3, <1>4 DEF CalmMem, LateMem, Returns, ToCommit, Recovering
  <1>9. ServedMem(w)' /\ TraceMem(w)' /\ OutcomeMem(w)'
    BY <1>1, <1>2, <1>5 DEF CalmMem, ServedMem, TraceMem, OutcomeMem, ToSave, Recovering
  <1> QED BY <1>7, <1>8, <1>9 DEF CalmMem

\* The cleanup takes effect as the state takes its command's name.
LEMMA StampCalm ==
    ASSUME Steady, NEW p \in Commands, NEW r \in Results, Stamp(p, r)
    PROVE  CalmFiles' /\ CalmMem(w)'
  <1>0. PICK op : op = plan[p].op
    OBVIOUS
  <1>1. /\ w.at = "recover" /\ CalmFiles /\ CalmMem(w) /\ p \in Interrupted /\ ~Stamped(p)
        /\ effects \in [Commands -> Nat] /\ state \in State
        /\ UNCHANGED <<journal, dec, com, plan, queueLast, sent>>
    BY DEF Steady, Inv, TypeOK, Stamp, At
  <1>2. /\ Interrupted = {p} /\ plan[p].source = state.revision
        /\ op \in Commands
    BY <1>0, <1>1 DEF Steady, Inv, DataInv, CleanupRecoverable, PlansInv
  <1>3. /\ state'.last = op /\ w' = w
        /\ effects' = [effects EXCEPT ![op] = effects[op] + 1]
    <2>1. r.ok /\ r.done
      BY <1>2, SpendsNothing DEF Steady, Stamp
    <2>2. /\ state' = StampedBy(state, op) /\ w' = w
          /\ effects' = [effects EXCEPT ![op] = @ + 1]
      BY <1>0, <1>2, <2>1 DEF Stamp, StampedBy
    <2> QED BY <1>1, <2>2, StampedIs
  <1>4. Lagging = {} /\ Pending(op) /\ sent[op].kind # "queue"
    BY <1>0, <1>1 DEF CalmFiles
  <1>5. effects'[op] > 0 /\ \A c \in Commands : c # op => effects'[c] = effects[c]
    BY <1>1, <1>2, <1>3
  <1>6. Lagging' \subseteq {op} /\ Interrupted' = {p} /\ Stamped(p)'
    <2>1. Lagging' \subseteq {op} /\ Interrupted' = {p}
      BY <1>1, <1>2, <1>4, <1>5 DEF Lagging, Interrupted
    <2>2. Stamped(p)'
      <3>1. state' = StampedBy(state, op)
        BY <1>0, <1>2, SpendsNothing DEF Steady, Stamp, StampedBy
      <3> QED BY <1>0, <1>1, <1>2, <3>1, StampedIs DEF Stamped
    <2> QED BY <2>1, <2>2
  <1>7. \A c \in Commands : Pending(c)' = Pending(c) /\ Cancels(c)' = Cancels(c)
    BY <1>1 DEF Pending, Cancels
  <1>8. CalmFiles'
    <2>1. \A c \in Commands : c = op => Shown(c)'
      BY <1>1, <1>3, <1>4 DEF Shown
    <2>2. \A q \in Interrupted' : /\ Pending(plan[q].op)' /\ (~Stamped(q)' => Lagging' = {})
                                  /\ sent'[plan'[q].op].kind # "queue"
      <3>1. journal'[op] = "prepared"
        BY <1>1, <1>4 DEF Pending
      <3>2. Pending(plan[p].op)' /\ sent'[plan'[p].op].kind # "queue"
        BY <1>0, <1>1, <1>4, <3>1 DEF Pending
      <3> QED BY <1>6, <3>2
    <2> QED BY <1>1, <1>2, <1>3, <1>4, <1>5, <1>6, <1>7, <2>1, <2>2 DEF CalmFiles
  <1>9. \/ Returns(w)
        \/ op = w.cmd /\ w.then = "commit"
    BY <1>0, <1>1, <1>2 DEF CalmMem, LateMem
  <1>10. LateMem(w)'
    BY <1>0, <1>1, <1>3, <1>6, <1>9 DEF LateMem, Returns, ToCommit, Recovering
  <1>11. ServedMem(w)' /\ OutcomeMem(w)'
    BY <1>1, <1>3, <1>7 DEF CalmMem, ServedMem, OutcomeMem
  <1>12. TraceMem(w)'
    <2>1. ~(w.phase = "boot" /\ ToSave(w))
      BY <1>1, <1>9 DEF Returns, ToSave, Recovering, Steady, Inv, MemInv, ControlInv
    <2> QED BY <1>1, <1>3, <1>5, <2>1 DEF CalmMem, TraceMem, ToSave, Recovering
  <1> QED BY <1>8, <1>10, <1>11, <1>12 DEF CalmMem

\* The cleanup is no longer open; its decision is committed next.
LEMMA SettleCalm ==
    ASSUME Steady, NEW p \in Commands, NEW r \in Results, Settle(p, r)
    PROVE  CalmFiles' /\ CalmMem(w)'
  <1> DEFINE new == [plan[p] EXCEPT !.status = IF @ = "applying" THEN "applied" ELSE "restored",
                                    !.op = None, !.source = 0]
  <1>1. /\ w \in Memory /\ w.at = "recover" /\ CalmFiles /\ CalmMem(w) /\ p \in Interrupted
        /\ plan \in [Commands -> CleanupPlan]
        /\ UNCHANGED <<journal, state, dec, com, queueLast, sent, effects>>
    BY DEF Steady, Inv, TypeOK, Settle, At, history
  <1>2. plan' = [plan EXCEPT ![p] = new] /\ w' = Go("redo")
    BY SpendsNothing DEF Steady, Settle, Put, Then
  <1>3. new.status \notin {"applying", "restoring"}
    BY <1>1 DEF CleanupPlan
  <1> HIDE DEF new
  <1>4. Interrupted' = {} /\ Lagging' = Lagging
    <2>1. Interrupted = {p}
      BY <1>1 DEF Steady, Inv, DataInv, CleanupRecoverable
    <2>2. Interrupted' = {}
      BY <1>1, <1>2, <1>3, <2>1 DEF Interrupted
    <2> QED BY <1>1, <2>2 DEF Lagging
  <1>5. SameTask /\ w'.at = "redo" /\ w'.then = w.then /\ w'.mark = w.mark
    BY <1>1, <1>2, GoIs DEF SameTask
  <1>6. \A c \in Commands : /\ Pending(c)' = Pending(c) /\ Cancels(c)' = Cancels(c)
                            /\ Shown(c)' = Shown(c)
    BY <1>1 DEF Pending, Cancels, Shown
  <1>7. CalmFiles'
    BY <1>1, <1>4, <1>6 DEF CalmFiles
  <1>8. LateMem(w)' /\ OutcomeMem(w)'
    BY <1>1, <1>4, <1>5
    DEF CalmMem, LateMem, OutcomeMem, SameTask, Returns, ToCommit, Recovering
  <1>9. ServedMem(w)'
    BY <1>1, <1>5, <1>6 DEF CalmMem, ServedMem, SameTask
  <1>10. TraceMem(w)'
    BY <1>1, <1>5 DEF CalmMem, TraceMem, SameTask, ToSave, Recovering
  <1> QED BY <1>7, <1>8, <1>9, <1>10 DEF CalmMem

-----------------------------------------------------------------------------
(* Every step, as long as no write fails *)

\* The writes of commands.
LEMMA CommandWriteCalm ==
    ASSUME Steady, NEW r, CommandWrite(r)
    PROVE  CalmFiles' /\ CalmMem(w)'
  <1>1. r \in Results
    BY DEF CommandWrite, Prepare, WritePlan, Unplan, Mark, CancelJob, PauseQueue, Save,
       AppendEvent, SnapshotQueue, Commit, Reply
  <1>2. Save(r) => CalmFiles' /\ CalmMem(w)'
    BY <1>1, SaveOwnCalm, SaveCommandCalm
  <1> QED BY <1>1, <1>2, PrepareCalm, WritePlanCalm, UnplanCalm, MarkCalm, CancelJobCalm,
          PauseQueueCalm, AppendEventCalm, SnapshotQueueCalm, CommitCalm, ReplyCalm
          DEF CommandWrite

\* The writes that finish a cleanup.
LEMMA FinishCleanupCalm ==
    ASSUME Steady, NEW r, FinishCleanup(r)
    PROVE  CalmFiles' /\ CalmMem(w)'
  <1>1. PICK p \in Commands : (\E i \in Items : Move(p, i, r)) \/ Stamp(p, r) \/ Settle(p, r)
    BY DEF FinishCleanup
  <1>2. r \in Results
    BY <1>1 DEF Move, Stamp, Settle
  <1> QED BY <1>1, <1>2, MoveCalm, StampCalm, SettleCalm

\* The writes of the other recoveries.
LEMMA RecoverWriteCalm ==
    ASSUME Steady, NEW r, RecoverWrite(r)
    PROVE  CalmFiles' /\ CalmMem(w)'
  <1>1. PICK c \in Commands : Redo(c, r) \/ AnswerPrepared(c, r)
    BY DEF RecoverWrite
  <1>2. r \in Results
    BY <1>1 DEF Redo, AnswerPrepared
  <1> QED BY <1>1, <1>2, RedoCalm, AnswerPreparedCalm

\* What the worker goes on with.
LEMMA WorkCalm ==
    ASSUME Steady, Work
    PROVE  CalmFiles' /\ CalmMem(w)'
  <1>1. Decide => CalmFiles' /\ CalmMem(w)'
    BY GuardCalm, SaveConflictCalm, RecoverNothingCalm, RedoDoneCalm, OpenCalm,
       RecoverTerminalCalm DEF Decide
  <1> QED BY <1>1, CommandWriteCalm, FinishCleanupCalm, RecoverWriteCalm DEF Work

\* What reaches a free worker.
LEMMA ArriveCalm ==
    ASSUME Steady, Arrive
    PROVE  CalmFiles' /\ CalmMem(w)'
  <1>1. ASSUME NEW c \in Commands, NEW q, NEW r \in Results, Accept(c, q, r)
        PROVE  CalmFiles' /\ CalmMem(w)'
    BY <1>1, AcceptCalm
  <1>2. ASSUME NEW c \in Commands, Repeat(c)
        PROVE  CalmFiles' /\ CalmMem(w)'
    BY <1>2, RepeatCalm
  <1>3. ASSUME NEW by \in {Camera, Builder}, NEW mark \in Commands \cup {Camera, None},
               Background(by, mark)
        PROVE  CalmFiles' /\ CalmMem(w)'
    BY <1>3, BackgroundCalm
  <1>4. ASSUME NEW step \in {"recover", "redo"}, Read(step)
        PROVE  CalmFiles' /\ CalmMem(w)'
    BY <1>4, ReadCalm
  <1> QED BY <1>1, <1>2, <1>3, <1>4 DEF Arrive

\* Every step, and none.
LEMMA NextCalm ==
    ASSUME Steady, [Next]_vars
    PROVE  CalmFiles' /\ CalmMem(w)'
  <1>1. UNCHANGED vars => CalmFiles' /\ CalmMem(w)'
    BY SameCalm DEF vars, disk, history, SameData
  <1> QED BY <1>1, WorkCalm, ArriveCalm, BootCalm, CrashCalm DEF Next

\* A write that failed stays counted.
LEMMA FaultsGrow ==
    ASSUME faults \in Nat, [Next]_vars
    PROVE  faults' = faults \/ faults' = faults + 1
  <1>1. ASSUME NEW r, Spend(r)
        PROVE  faults' = faults \/ faults' = faults + 1
    BY <1>1 DEF Spend
  <1>2. ASSUME NEW r, CommandWrite(r)
        PROVE  Spend(r)
    BY <1>2 DEF CommandWrite, Prepare, WritePlan, Unplan, Mark, CancelJob, PauseQueue, Save,
       AppendEvent, SnapshotQueue, Commit, Reply
  <1>3. ASSUME NEW r, FinishCleanup(r)
        PROVE  Spend(r) \/ faults' = faults
    BY <1>3 DEF FinishCleanup, Move, Stamp, Settle
  <1>4. ASSUME NEW r, RecoverWrite(r)
        PROVE  Spend(r)
    BY <1>4 DEF RecoverWrite, Redo, AnswerPrepared
  <1>5. Decide => faults' = faults
    BY DEF Decide, Guard, SaveConflict, RecoverNothing, RedoDone, Open, RecoverTerminal
  <1>6. ASSUME NEW c, NEW q, NEW r, Accept(c, q, r)
        PROVE  Spend(r)
    BY <1>6 DEF Accept
  <1>7. ASSUME (\E c \in Commands : Repeat(c))
               \/ (\E by \in {Camera, Builder}, mark \in Commands \cup {Camera, None} :
                       Background(by, mark))
               \/ (\E step \in {"recover", "redo"} : Read(step))
        PROVE  faults' = faults
    BY <1>7 DEF Repeat, Background, Read
  <1>8. Work => faults' = faults \/ faults' = faults + 1
    BY <1>1, <1>2, <1>3, <1>4, <1>5 DEF Work
  <1>9. Arrive => faults' = faults \/ faults' = faults + 1
    BY <1>1, <1>6, <1>7 DEF Arrive
  <1>10. Boot \/ Crash \/ UNCHANGED vars => faults' = faults
    BY DEF Boot, Crash, vars
  <1> QED BY <1>8, <1>9, <1>10 DEF Next

\* At first nothing is late.
LEMMA InitCalm ==
    ASSUME Init
    PROVE  CalmFiles /\ CalmMem(w)
  <1>1. w = [phase |-> "serving", cmd |-> Camera, at |-> "idle", then |-> "idle",
             left |-> 0, reply |-> "failure", known |-> [c \in Commands |-> "none"],
             expected |-> 0, mark |-> None, queueLast |-> None]
    BY DEF Init, Lost
  <1>2. Lagging = {} /\ Interrupted = {} /\ \A c \in Commands : ~Pending(c)
    BY NoPlanType DEF Init, Lagging, Interrupted, Pending
  <1>3. CalmFiles
    BY <1>2, OwnIds DEF Init, CalmFiles
  <1>4. w.known = journal
    BY <1>1 DEF Init
  <1> QED BY <1>1, <1>2, <1>3, <1>4, OwnIds
          DEF CalmMem, LateMem, ServedMem, TraceMem, OutcomeMem, ToSave, Recovering

\* As long as no write fails.
Calm == Inv /\ (faults = 0 => CalmFiles /\ CalmMem(w))

\* The invariant is inductive.
LEMMA CalmNext == Calm /\ [Next]_vars => Calm'
  <1> SUFFICES ASSUME Calm, [Next]_vars PROVE Calm'
    OBVIOUS
  <1>1. Inv'
    BY NextInv DEF Calm
  <1>2. ASSUME faults' = 0 PROVE CalmFiles' /\ CalmMem(w)'
    <2>1. faults \in Nat
      BY DEF Calm, Inv, TypeOK
    <2>2. faults = 0
      BY <1>2, <2>1, FaultsGrow
    <2> QED BY <1>2, <2>2, NextCalm DEF Calm, Steady
  <1> QED BY <1>1, <1>2 DEF Calm

\* So it always holds.
LEMMA CalmInvariance == Spec => []Calm
  <1>1. Init => Calm
    BY InitInv, InitCalm DEF Calm
  <1> QED BY <1>1, CalmNext, PTL DEF Spec

\* As long as no write fails, a decision that was taken and is not committed
\* is one of the command the state names, so that recovery commits it, whatever
\* crashes come between the writes.
THEOREM NoDecisionLost == Spec => [](faults = 0 => NoLostDecision)
  <1>1. Calm => (faults = 0 => NoLostDecision)
    BY DEF Calm, CalmFiles, Lagging, NoLostDecision
  <1> QED BY <1>1, CalmInvariance, PTL

-----------------------------------------------------------------------------
(* The journal implements CommandLedger *)

NothingCancelled == \A c \in Commands : ~Cancels(c)

\* No write has failed and no job is cancelled, so far.
Plain == Inv /\ Inv' /\ CalmFiles /\ CalmMem(w) /\ faults = 0 /\ faults' = 0 /\ NothingCancelled

\* A step of the ledger, or none of its.
LedgerStep ==
    Ledger!Next \/ UNCHANGED <<[c \in Commands |-> effects[c] > 0],
                              [c \in Commands |-> AnswerOf(journal[c])]>>

\* Two functions that differ in one place.
LEMMA OneChanges ==
    ASSUME NEW S, NEW T, NEW c \in S, NEW f \in [S -> T], NEW g \in [S -> T], NEW v,
           g[c] = v, \A d \in S : d # c => g[d] = f[d]
    PROVE  g = [f EXCEPT ![c] = v]
  OBVIOUS

\* The one command without an answer takes effect.
LEMMA TakesEffect ==
    ASSUME Plain, NEW c \in Commands, Pending(c), journal' = journal,
           effects' = [effects EXCEPT ![c] = @ + 1]
    PROVE  LedgerStep
  <1>1. /\ effects \in [Commands -> Nat]
        /\ effects' \in [Commands -> Nat] /\ effects'[c] <= 1
    BY DEF Plain, Inv, TypeOK, DataInv, OneEffect
  <1>2. (effects[c] > 0) = FALSE /\ (effects'[c] > 0) = TRUE
        /\ \A d \in Commands : d # c => effects'[d] = effects[d]
    BY <1>1
  <1>3. [d \in Commands |-> effects'[d] > 0]
        = [[d \in Commands |-> effects[d] > 0] EXCEPT ![c] = TRUE]
    <2>1. PICK f, g : /\ f = [d \in Commands |-> effects[d] > 0]
                      /\ g = [d \in Commands |-> effects'[d] > 0]
      OBVIOUS
    <2>2. g[c] = (effects'[c] > 0)
      BY <2>1, Zenon
    <2>3. g[c] = TRUE
      BY <1>2, <2>2, Zenon
    <2>4. \A d \in Commands : g[d] = (effects'[d] > 0) /\ f[d] = (effects[d] > 0)
      BY <2>1, Zenon
    <2>5. ASSUME NEW d \in Commands, d # c PROVE g[d] = f[d]
      <3>1. effects'[d] = effects[d]
        BY <1>2, <2>5, Zenon
      <3>2. g[d] = (effects'[d] > 0) /\ f[d] = (effects[d] > 0)
        BY <2>4, Zenon
      <3> QED BY <3>1, <3>2, Zenon
    <2>6. g = [f EXCEPT ![c] = TRUE]
      <3>1. f \in [Commands -> BOOLEAN] /\ g \in [Commands -> BOOLEAN]
        BY <2>1, SMT
      <3> QED BY <2>3, <2>5, <3>1, OneChanges, Zenon
    <2> QED BY <2>1, <2>6, Zenon
  <1>4. AnswerOf(journal[c]) = "none"
    BY DEF AnswerOf, Pending
  <1>5. Ledger!Apply(c)
    BY <1>2, <1>3, <1>4 DEF Ledger!Apply
  <1> QED BY <1>5 DEF LedgerStep, Ledger!Next

\* A command without an answer gets one that says whether it took effect.
LEMMA GetsAnswer ==
    ASSUME Plain, NEW c \in Commands, NEW a \in Final, Pending(c), effects' = effects,
           journal' = [journal EXCEPT ![c] = a], a = "success" <=> effects[c] > 0
    PROVE  LedgerStep
  <1>1. journal \in [Commands -> Status]
    BY DEF Plain, Inv, TypeOK
  <1>2. journal'[c] = a /\ \A d \in Commands : d # c => journal'[d] = journal[d]
    BY <1>1
  <1>3. /\ AnswerOf(journal[c]) = "none"
        /\ AnswerOf(journal'[c]) = IF effects[c] > 0 THEN "success" ELSE "failure"
    BY <1>2 DEF AnswerOf, Pending, Final
  <1>4. [d \in Commands |-> AnswerOf(journal'[d])]
        = [[d \in Commands |-> AnswerOf(journal[d])]
           EXCEPT ![c] = IF effects[c] > 0 THEN "success" ELSE "failure"]
    <2>1. PICK f, g : /\ f = [d \in Commands |-> AnswerOf(journal[d])]
                      /\ g = [d \in Commands |-> AnswerOf(journal'[d])]
      OBVIOUS
    <2>2. /\ g[c] = IF effects[c] > 0 THEN "success" ELSE "failure"
          /\ \A d \in Commands : d # c => g[d] = f[d]
      BY <1>2, <1>3, <2>1
    <2>3. /\ f \in [Commands -> {"success", "failure", "none"}]
          /\ g \in [Commands -> {"success", "failure", "none"}]
      BY <2>1 DEF AnswerOf
    <2> QED BY <2>1, <2>2, <2>3, OneChanges
  <1>5. Ledger!Answer(c)
    BY <1>3, <1>4 DEF Ledger!Answer
  <1> QED BY <1>5 DEF LedgerStep, Ledger!Next

\* An answer says whether the command took effect.
LEMMA ReplyRefines ==
    ASSUME Plain, NEW r \in Results, Reply(r)
    PROVE  LedgerStep
  <1>1. /\ w.at = "reply" /\ w.cmd \in Commands /\ effects' = effects
        /\ w.reply \in {"success", "failure"} /\ CalmMem(w)
    BY MemoryParts DEF Plain, Inv, TypeOK, Reply, At, MemInv, ControlInv, Working
  <1>2. journal' = [journal EXCEPT ![w.cmd] = w.reply]
    BY SpendsNothing DEF Plain, Reply, Put
  <1>3. Pending(w.cmd) /\ (w.reply = "success" <=> effects[w.cmd] > 0)
    BY <1>1 DEF CalmMem, ServedMem, OutcomeMem, Plain, NothingCancelled
  <1> QED BY <1>1, <1>2, <1>3, GetsAnswer DEF Final

\* So does an answer found by recovery, because it asks the file the command wrote.
LEMMA AnswerPreparedRefines ==
    ASSUME Plain, NEW c \in Commands, NEW r \in Results, AnswerPrepared(c, r)
    PROVE  LedgerStep
  <1>1. /\ w.at = "answers" /\ w.phase = "boot" /\ effects' = effects /\ CalmMem(w) /\ CalmFiles
        /\ w.known[c] = "prepared"
    BY DEF Plain, Inv, AnswerPrepared, At, MemInv, ControlInv, Unanswered, history
  <1>2. PICK a : a = IF WasApplied(c) THEN "success" ELSE "aborted"
    OBVIOUS
  <1>3. journal' = [journal EXCEPT ![c] = a]
    BY <1>2, SpendsNothing DEF Plain, AnswerPrepared, Put
  <1>4. w.queueLast = queueLast /\ Pending(c)
    BY <1>1 DEF CalmMem, ServedMem, TraceMem, Pending
  <1>5. WasApplied(c) <=> effects[c] > 0
    BY <1>1, <1>4 DEF CalmFiles, WasApplied, Shown, Plain, NothingCancelled
  <1> QED BY <1>1, <1>2, <1>3, <1>4, <1>5, GetsAnswer DEF Final

\* A command that is journaled has neither effect nor answer.
LEMMA AcceptRefines ==
    ASSUME Plain, NEW c \in Commands, NEW q, NEW r \in Results, Accept(c, q, r)
    PROVE  LedgerStep
  <1>1. /\ w.known[c] = "none" /\ w.phase = "serving" /\ journal \in [Commands -> Status]
        /\ effects' = effects
    BY DEF Plain, Inv, TypeOK, Accept, Known, Serving
  <1>2. journal[c] = "none"
    BY <1>1 DEF Plain, CalmMem, ServedMem
  <1>3. journal' = [journal EXCEPT ![c] = "prepared"]
    BY SpendsNothing DEF Plain, Accept, Put
  <1>4. \A d \in Commands : AnswerOf(journal'[d]) = AnswerOf(journal[d])
    BY <1>1, <1>2, <1>3 DEF AnswerOf
  <1> QED BY <1>1, <1>4 DEF LedgerStep

\* Neither an effect nor a line of the journal.
LEMMA Silent ==
    ASSUME UNCHANGED <<journal, effects>>
    PROVE  LedgerStep
  BY DEF LedgerStep

\* The writes by which a command takes effect: at most one of them, before its answer.
LEMMA EffectRefines ==
    ASSUME Plain, NEW r \in Results, PauseQueue(r) \/ CancelJob(r) \/ Save(r)
    PROVE  LedgerStep
  <1>1. /\ CalmMem(w) /\ MemInv(w) /\ journal' = journal
        /\ w.cmd \in Commands \cup {Camera, Builder}
    BY MemoryParts DEF Plain, Inv, TypeOK, PauseQueue, CancelJob, Save
  <1>2. w.cmd \in Commands => Pending(w.cmd)
    BY <1>1 DEF CalmMem, ServedMem
  <1>3. CASE PauseQueue(r)
    <2>1. w.cmd \in Commands
      BY <1>1, <1>3 DEF PauseQueue, At, MemInv, ControlInv, Working
    <2>2. effects' = [effects EXCEPT ![w.cmd] = effects[w.cmd] + 1]
      BY <1>3, SpendsNothing DEF Plain, PauseQueue, Put
    <2> QED BY <1>1, <1>2, <2>1, <2>2, TakesEffect
  <1>4. CASE CancelJob(r)
    <2>1. w.cmd \in Commands /\ w.at = "job"
      BY <1>1, <1>4 DEF CancelJob, At, MemInv, ControlInv, Working
    <2>2. Cancels(w.cmd)
      BY <1>1, <2>1 DEF MemInv, ProgressInv, Cancels
    <2> QED BY <2>1, <2>2 DEF Plain, NothingCancelled
  <1>5. CASE Save(r) /\ (Own \/ Kind = "cancel")
    <2>1. effects' = effects
      BY <1>5 DEF Save
    <2> QED BY <1>1, <2>1, Silent
  <1>6. CASE Save(r) /\ ~(Own \/ Kind = "cancel")
    <2>1. w.cmd \in Commands
      BY <1>1, <1>6 DEF Own
    <2>2. effects' = [effects EXCEPT ![w.cmd] = effects[w.cmd] + 1]
      BY <1>6, SpendsNothing DEF Plain, Save, Put
    <2> QED BY <1>1, <1>2, <2>1, <2>2, TakesEffect
  <1> QED BY <1>3, <1>4, <1>5, <1>6

\* A cleanup takes effect with its stamp, maybe after a restart.
LEMMA StampRefines ==
    ASSUME Plain, NEW p \in Commands, NEW r \in Results, Stamp(p, r)
    PROVE  LedgerStep
  <1>0. PICK op : op = plan[p].op
    OBVIOUS
  <1>1. p \in Interrupted /\ CalmFiles /\ ~Stamped(p) /\ journal' = journal
    BY DEF Plain, Stamp
  <1>2. op \in Commands /\ plan[p].source = state.revision
    BY <1>0, <1>1 DEF Plain, Inv, DataInv, CleanupRecoverable, PlansInv
  <1>3. Pending(op)
    BY <1>0, <1>1 DEF CalmFiles
  <1>4. effects' = [effects EXCEPT ![op] = effects[op] + 1]
    <2>1. r.ok /\ r.done
      BY <1>2, SpendsNothing DEF Plain, Stamp
    <2> QED BY <1>0, <1>2, <2>1 DEF Stamp
  <1> QED BY <1>1, <1>2, <1>3, <1>4, TakesEffect

\* What the worker goes on with.
LEMMA WorkRefines ==
    ASSUME Plain, Work
    PROVE  LedgerStep
  <1>1. CASE Decide
    <2>1. UNCHANGED <<journal, effects>>
      BY <1>1 DEF Decide, Guard, SaveConflict, RecoverNothing, RedoDone, Open, RecoverTerminal,
                  disk, history
    <2> QED BY <2>1, Silent
  <1>2. ASSUME NEW r \in Result, CommandWrite(r) PROVE LedgerStep
    <2>1. r \in Results
      BY <1>2 DEF CommandWrite, Prepare, WritePlan, Unplan, Mark, CancelJob, PauseQueue, Save,
         AppendEvent, SnapshotQueue, Commit, Reply
    <2>2. CASE Prepare(r) \/ WritePlan(r) \/ Unplan(r) \/ Mark(r) \/ AppendEvent(r)
               \/ SnapshotQueue(r) \/ Commit(r)
      <3>1. UNCHANGED <<journal, effects>>
        BY <2>2 DEF Prepare, WritePlan, Unplan, Mark, AppendEvent, SnapshotQueue, Commit,
                    disk, history
      <3> QED BY <3>1, Silent
    <2> QED BY <1>2, <2>1, <2>2, EffectRefines, ReplyRefines DEF CommandWrite
  <1>3. ASSUME NEW r \in Result, FinishCleanup(r) PROVE LedgerStep
    <2>1. PICK p \in Commands : (\E i \in Items : Move(p, i, r)) \/ Stamp(p, r) \/ Settle(p, r)
      BY <1>3 DEF FinishCleanup
    <2>2. r \in Results
      BY <2>1 DEF Move, Stamp, Settle
    <2>3. CASE (\E i \in Items : Move(p, i, r)) \/ Settle(p, r)
      <3>1. UNCHANGED <<journal, effects>>
        BY <2>3 DEF Move, Settle, history
      <3> QED BY <3>1, Silent
    <2> QED BY <2>1, <2>2, <2>3, StampRefines
  <1>4. ASSUME NEW r \in Result, RecoverWrite(r) PROVE LedgerStep
    <2>1. PICK c \in Commands : Redo(c, r) \/ AnswerPrepared(c, r)
      BY <1>4 DEF RecoverWrite
    <2>2. r \in Results
      BY <2>1 DEF Redo, AnswerPrepared
    <2>3. CASE Redo(c, r)
      <3>1. UNCHANGED <<journal, effects>>
        BY <2>3 DEF Redo, history
      <3> QED BY <3>1, Silent
    <2> QED BY <2>1, <2>2, <2>3, AnswerPreparedRefines
  <1> QED BY <1>1, <1>2, <1>3, <1>4 DEF Work

\* What reaches a free worker.
LEMMA ArriveRefines ==
    ASSUME Plain, Arrive
    PROVE  LedgerStep
  <1>1. ASSUME NEW c \in Commands, NEW q, NEW r \in Results, Accept(c, q, r)
        PROVE  LedgerStep
    BY <1>1, AcceptRefines
  <1>2. ASSUME (\E c \in Commands : Repeat(c))
               \/ (\E by \in {Camera, Builder}, mark \in Commands \cup {Camera, None} :
                       Background(by, mark))
               \/ (\E step \in {"recover", "redo"} : Read(step))
        PROVE  LedgerStep
    <2>1. UNCHANGED <<journal, effects>>
      BY <1>2 DEF Repeat, Background, Read, disk, history
    <2> QED BY <2>1, Silent
  <1> QED BY <1>1, <1>2 DEF Arrive

\* Every step, and none.
LEMMA NextRefines ==
    ASSUME Plain, [Next]_vars
    PROVE  LedgerStep
  <1>1. CASE Boot \/ Crash \/ UNCHANGED vars
    <2>1. UNCHANGED <<journal, effects>>
      BY <1>1 DEF Boot, Crash, vars, disk, history
    <2> QED BY <2>1, Silent
  <1> QED BY <1>1, WorkRefines, ArriveRefines DEF Next

\* In a run in which no write fails and no job is cancelled, whatever crashes
\* come between the writes and however often a command is sent again, the
\* worker keeps the promise of CommandLedger.
THEOREM ImplementsCommandLedger == Spec /\ [](faults = 0 /\ NothingCancelled) => RefinesLedger
  <1>1. Init => Ledger!Init
    <2>1. ASSUME Init PROVE [c \in Commands |-> effects[c] > 0] = [c \in Commands |-> FALSE]
      <3>1. ASSUME NEW c \in Commands PROVE (effects[c] > 0) = FALSE
        BY <2>1 DEF Init
      <3> QED BY <3>1, Zenon
    <2> QED BY <2>1 DEF Init, Ledger!Init, AnswerOf
  <1>2. Calm /\ Calm' /\ faults = 0 /\ (faults = 0)' /\ NothingCancelled /\ [Next]_vars => LedgerStep
    BY NextRefines DEF Calm, Plain
  <1>3. LedgerStep => [Ledger!Next]_<<[c \in Commands |-> effects[c] > 0],
                                      [c \in Commands |-> AnswerOf(journal[c])]>>
    BY DEF LedgerStep
  <1> QED BY <1>1, <1>2, <1>3, CalmInvariance, PTL DEF Spec, RefinesLedger, Ledger!Spec
=============================================================================
