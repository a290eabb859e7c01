------------------------------- MODULE Journals -------------------------------
(***************************************************************************)
(* How the worker makes one command's writes to several files look like    *)
(* one: the command journal (commands.jsonl), the decision journal         *)
(* (decisions.jsonl) and the cleanup plans of one project, all of which    *)
(* recognise by `state.last_command_id' whether a command took effect.     *)
(*                                                                         *)
(* The worker serves one command at a time.  Every durable write is a step *)
(* of its own, `w.at' says which comes next, and the process may die       *)
(* between any two.  A write's result `r' says whether it took effect and  *)
(* whether it was acknowledged: write_bytes_atomic and append_jsonl may    *)
(* fail in the final sync, after the effect.  A half-written line of a     *)
(* journal is not modelled.                                                *)
(***************************************************************************)
EXTENDS Integers, FiniteSets

CONSTANTS
    Commands,       \* command ids; a cleanup plan goes by the command that made it
    Kinds,          \* the kinds of command this instance sends
    Items,          \* media files of takes that may be rejected
    MaxBackground,  \* bound: state writes of the main loop's own
    MaxCrashes,     \* bound: worker crashes
    MaxFaults       \* bound: failing writes

AllKinds == {"enqueue", "cancel", "build", "reject", "batch", "queue",
             "plan", "apply", "restore"}

Camera == "camera"      \* the main loop at the camera's jobs, and its own ids
Builder == "builder"    \* the main loop at the events of builds
None == "none"

ASSUME CommandsAssumption == {Camera, Builder, None, "project"} \cap Commands = {}
ASSUME KindsAssumption == Kinds \subseteq AllKinds
ASSUME BoundsAssumption ==
    /\ MaxBackground \in Nat
    /\ MaxCrashes \in Nat
    /\ MaxFaults \in Nat

VARIABLES
    journal,    \* the latest line of commands.jsonl on each command
    state,      \* state.json: its revision, last_command_id, rejected takes
    loose,      \* cancellations in a job file that state.json does not show
    dec,        \* decisions of each command prepared in decisions.jsonl
    com,        \* and those of them committed
    plan,       \* trash/plans/<plan>.json
    place,      \* where each file is: the project, or the trash of a plan
    queueLast,  \* last_command_id of queue.json
    w,          \* the memory of the worker process, gone after a crash
    sent,       \* the request of each command id (its client repeats it)
    told,       \* the answers clients got (history)
    effects,    \* how often each command took effect (history)
    background, crashes, faults     \* how many of each so far

disk == <<journal, state, loose, dec, com, plan, place, queueLast>>
history == <<sent, told, effects>>
vars == <<disk, w, history, background, crashes, faults>>

-----------------------------------------------------------------------------
(* Types *)

Final == {"success", "failure", "aborted"}
Status == {"none", "prepared"} \cup Final
PlanStatus == {"none", "planned", "applying", "applied", "restoring", "restored"}
Step == {"idle", "guard", "prepare", "job", "planfile", "mark", "queue",
         "recover", "redo", "save", "event", "snapshot", "commit", "unplan", "reply",
         "terminal", "answers"}

Request == [kind : AllKinds, arg : Commands \cup Items \cup {None}, expected : Nat]
NotSent == [kind |-> "none", arg |-> None, expected |-> 0]
State == [revision : Nat \ {0}, last : Commands \cup {Camera, None}, rejected : SUBSET Items]
CleanupPlan ==
    [status : PlanStatus, items : SUBSET Items, op : Commands \cup {None}, source : Nat]
NoPlan == [status |-> "none", items |-> {}, op |-> None, source |-> 0]
Memory ==
    [phase : {"down", "boot", "serving"}, cmd : Commands \cup {Camera, Builder}, at : Step,
     then : Step, left : 0..2, reply : {"success", "failure"},
     known : [Commands -> Status], expected : Nat,
     mark : Commands \cup {Camera, None}, queueLast : Commands \cup {Camera, None}]

Lost == [phase |-> "down", cmd |-> Camera, at |-> "idle", then |-> "idle",
         left |-> 0, reply |-> "failure", known |-> [c \in Commands |-> "none"],
         expected |-> 0, mark |-> None, queueLast |-> None]

TypeOK ==
    /\ journal \in [Commands -> Status]
    /\ state \in State
    /\ loose \subseteq Commands
    /\ dec \in [Commands -> 0..2]
    /\ com \in [Commands -> 0..2]
    /\ plan \in [Commands -> CleanupPlan]
    /\ place \in [Items -> Commands \cup {"project"}]
    /\ queueLast \in Commands \cup {Camera, None}
    /\ w \in Memory
    /\ sent \in [Commands -> Request \cup {NotSent}]
    /\ told \in [Commands -> SUBSET (Final \cup {"uncertain"})]
    /\ effects \in [Commands -> Nat]
    /\ {background, crashes, faults} \subseteq Nat

-----------------------------------------------------------------------------
(* Writes, and where a step leads *)

Result == [done : BOOLEAN, ok : BOOLEAN]

\* What may become of the next write.
Results == [done : {TRUE}, ok : {TRUE}]
           \cup IF faults < MaxFaults THEN [done : BOOLEAN, ok : {FALSE}] ELSE {}

Spend(r) == faults' = faults + (IF r.ok THEN 0 ELSE 1)

\* f with a write's new value at x, if the write took effect.
Put(r, f, x, v) == IF r.done THEN [f EXCEPT ![x] = v] ELSE f

Serving == w.phase = "serving" /\ w.at = "idle"
At(step) == w.phase # "down" /\ w.at = step
Go(step) == [w EXCEPT !.at = step]
Idle == [w EXCEPT !.cmd = Camera, !.at = "idle", !.then = "idle", !.left = 0,
                  !.expected = 0, !.mark = None, !.reply = "failure"]
Say(answer) == [w EXCEPT !.at = "reply", !.reply = answer]

Kind == sent[w.cmd].kind
Own == w.cmd \in {Camera, Builder}

\* create_cleanup_plan removes its plan when what comes before the commit fails.
MustUnplan == Kind = "plan" /\ w.then = "save" /\ w.at # "commit"

\* An error ends startup and, at a build's event, the worker; it fails a
\* command, and only delays the camera.
Failed ==
    IF w.phase = "boot" \/ w.cmd = Builder THEN Lost
    ELSE IF w.cmd = Camera THEN Idle
    ELSE IF MustUnplan THEN Go("unplan") ELSE Say("failure")

Then(r, m) == w' = IF r.ok THEN m ELSE Failed

\* Variant: save_state writes without finishing interrupted cleanups.
SaveUnrecovered == "redo"

\* The first step of save_state: recover_cleanup_plans_for_state.
SaveEntry == "recover"

\* Decisions a command takes.
DecisionsOf(kind) ==
    CASE kind = "batch" -> 2
      [] kind \in {"reject", "plan", "apply", "restore"} -> 1
      [] OTHER -> 0

-----------------------------------------------------------------------------
(* WorkerRuntime::handle *)

\* What clients may send: with the current revision or with an outdated one.
Requests ==
    LET With(kinds, args) == [kind : kinds \cap Kinds, arg : args, expected : {0, state.revision}]
    IN  With({"enqueue", "cancel", "build", "batch", "queue", "plan"}, {None})
        \cup With({"reject"}, Items)
        \cup With({"apply", "restore"}, {p \in Commands : plan[p].status # "none"})

\* Variant: a command without a reply is taken for a new one.
KnownAnswered(c) == w.known[c] \in Final

\* The command id is in the journal's memory.
Known(c) == w.known[c] # "none"

\* A command id that is known gets its first reply; without one,
\* COMMAND_RECOVERY_REQUIRED, which says nothing of its outcome.
Repeat(c) ==
    /\ Serving
    /\ Known(c)
    /\ told' = [told EXCEPT ![c] = @ \cup ({w.known[c]} \cap Final)]
    /\ UNCHANGED <<disk, w, sent, effects, background, crashes, faults>>

\* A new command id is journaled as prepared, and then executed.  Cleanup
\* commands recover interrupted plans before they look at the revision.
Accept(c, q, r) ==
    /\ Serving
    /\ ~Known(c)
    /\ sent[c] \in {NotSent, q}
    /\ r \in Results
    /\ Spend(r)
    /\ sent' = [sent EXCEPT ![c] = q]
    /\ journal' = Put(r, journal, c, "prepared")
    /\ LET cleanup == q.kind \in {"plan", "apply", "restore"}
       IN  w' = IF r.ok
                THEN [w EXCEPT !.cmd = c, !.mark = c, !.expected = q.expected,
                               !.known[c] = "prepared",
                               !.at = IF cleanup THEN "recover" ELSE "guard",
                               !.then = IF cleanup THEN "guard" ELSE "save"]
                ELSE w
    /\ UNCHANGED <<state, loose, dec, com, plan, place, queueLast, told, effects,
                   background, crashes>>

\* cleanup_candidates: files of rejected takes that are still in the project.
Candidates == {i \in state.rejected : place[i] = "project"}

\* The checks before the first write of a command; other refusals change as
\* little as an outdated revision does.
Refused(q) ==
    \/ q.expected # state.revision
    \/ q.kind = "reject" /\ q.arg \in state.rejected
    \/ q.kind = "apply" /\ (plan[q.arg].status # "planned" \/ plan[q.arg].items # Candidates)
    \/ q.kind = "restore" /\ plan[q.arg].status # "applied"

FirstWrite(kind) ==
    CASE kind \in {"enqueue", "build"} -> SaveEntry
      [] kind = "cancel" -> "job"
      [] kind = "queue" -> "queue"
      [] kind = "plan" -> "planfile"
      [] OTHER -> "prepare"

Guard ==
    /\ At("guard")
    /\ w' = IF Refused(sent[w.cmd]) THEN Say("failure")
            ELSE [w EXCEPT !.at = FirstWrite(Kind), !.left = DecisionsOf(Kind)]
    /\ UNCHANGED <<disk, history, background, crashes, faults>>

\* The reply is journaled as committed, then told.
Reply(r) ==
    /\ At("reply")
    /\ r \in Results
    /\ Spend(r)
    /\ journal' = Put(r, journal, w.cmd, w.reply)
    /\ told' = [told EXCEPT ![w.cmd] = @ \cup {IF r.ok THEN w.reply ELSE "uncertain"}]
    /\ w' = IF r.ok THEN [Idle EXCEPT !.known[w.cmd] = w.reply] ELSE Idle
    /\ UNCHANGED <<state, loose, dec, com, plan, place, queueLast, sent, effects,
                   background, crashes>>

-----------------------------------------------------------------------------
(* The writes of the commands *)

\* prepare_decisions: one line per decision.
Prepare(r) ==
    /\ At("prepare")
    /\ r \in Results
    /\ Spend(r)
    /\ dec' = Put(r, dec, w.cmd, dec[w.cmd] + 1)
    /\ Then(r, IF w.left > 1 THEN [w EXCEPT !.left = @ - 1]
               ELSE IF Kind \in {"apply", "restore"} THEN Go("mark") ELSE Go(SaveEntry))
    /\ UNCHANGED <<journal, state, loose, com, plan, place, queueLast, history,
                   background, crashes>>

\* create_cleanup_plan's plan file.
WritePlan(r) ==
    /\ At("planfile")
    /\ r \in Results
    /\ Spend(r)
    /\ plan' = Put(r, plan, w.cmd, [NoPlan EXCEPT !.status = "planned", !.items = Candidates])
    /\ Then(r, [w EXCEPT !.at = "prepare", !.then = "save"])
    /\ UNCHANGED <<journal, state, loose, dec, com, place, queueLast, history,
                   background, crashes>>

\* The plan file is removed again; a failure to do so is ignored.
Unplan(r) ==
    /\ At("unplan")
    /\ r \in Results
    /\ Spend(r)
    /\ plan' = Put(r, plan, w.cmd, NoPlan)
    /\ w' = Say("failure")
    /\ UNCHANGED <<journal, state, loose, dec, com, place, queueLast, history,
                   background, crashes>>

\* apply_cleanup_plan and restore_cleanup_plan announce the operation.
Mark(r) ==
    /\ At("mark")
    /\ r \in Results
    /\ Spend(r)
    /\ LET p == sent[w.cmd].arg
       IN  plan' = Put(r, plan, p,
                       [plan[p] EXCEPT !.status = IF Kind = "apply" THEN "applying" ELSE "restoring",
                                       !.op = w.cmd, !.source = w.expected])
    /\ Then(r, [w EXCEPT !.at = "recover", !.then = "commit"])
    /\ UNCHANGED <<journal, state, loose, dec, com, place, queueLast, history,
                   background, crashes>>

\* cancel_queued_job and cancel_running_job_after_interrupt end the job in
\* its own file before the state.
CancelJob(r) ==
    /\ At("job")
    /\ r \in Results
    /\ Spend(r)
    /\ loose' = IF r.done THEN loose \cup {w.cmd} ELSE loose
    /\ effects' = Put(r, effects, w.cmd, effects[w.cmd] + 1)
    /\ Then(r, Go(SaveEntry))
    /\ UNCHANGED <<journal, state, dec, com, plan, place, queueLast, sent, told,
                   background, crashes>>

\* set_queue_paused writes queue.json and nothing else.
PauseQueue(r) ==
    /\ At("queue")
    /\ r \in Results
    /\ Spend(r)
    /\ queueLast' = IF r.done THEN w.cmd ELSE queueLast
    /\ effects' = Put(r, effects, w.cmd, effects[w.cmd] + 1)
    /\ Then(r, [Say("success") EXCEPT !.queueLast = w.cmd])
    /\ UNCHANGED <<journal, state, loose, dec, com, plan, place, sent, told,
                   background, crashes>>

\* What follows the write of state.json.
AfterSave ==
    IF w.phase = "boot" THEN Go("answers")
    ELSE IF Own THEN IF w.cmd = Camera THEN Go("snapshot") ELSE Go("event")
    ELSE CASE Kind = "enqueue" -> Go("snapshot")
           [] Kind = "cancel" -> Go("event")
           [] Kind = "build" -> Say("success")
           [] OTHER -> [w EXCEPT !.at = "commit", !.left = DecisionsOf(Kind)]

\* The last part of save_state: the revision must still be the expected one.
Save(r) ==
    /\ At("save")
    /\ w.expected = state.revision
    /\ r \in Results
    /\ Spend(r)
    /\ LET reject == ~Own /\ Kind = "reject"
           new == [revision |-> state.revision + 1, last |-> w.mark,
                   rejected |-> state.rejected \cup (IF reject THEN {sent[w.cmd].arg} ELSE {})]
       IN  state' = IF r.done THEN new ELSE state
    /\ loose' = IF ~r.done THEN loose
                ELSE IF w.phase = "boot" THEN {} ELSE loose \ {w.cmd}
    /\ effects' = IF Own \/ Kind = "cancel" THEN effects
                  ELSE Put(r, effects, w.cmd, effects[w.cmd] + 1)
    /\ Then(r, AfterSave)
    /\ UNCHANGED <<journal, dec, com, plan, place, queueLast, sent, told, background, crashes>>

SaveConflict ==
    /\ At("save")
    /\ w.expected # state.revision
    /\ w' = Failed
    /\ UNCHANGED <<disk, history, background, crashes, faults>>

\* The append_event of cancellations and builds (events.jsonl, which nothing
\* reads) reports its failure, although the state is saved.
AppendEvent(r) ==
    /\ At("event")
    /\ r \in Results
    /\ Spend(r)
    /\ Then(r, IF Own THEN Idle ELSE Go("snapshot"))
    /\ UNCHANGED <<disk, history, background, crashes>>

\* The queue snapshot after an enqueue, a cancellation or a step of a camera
\* job, which keeps the queue's last command unless it is an audition's: a
\* failure is logged.
SnapshotQueue(r) ==
    /\ At("snapshot")
    /\ r \in Results
    /\ Spend(r)
    /\ LET last == IF w.cmd # Camera THEN w.cmd ELSE IF w.mark = Camera THEN Camera ELSE w.queueLast
           next == IF w.cmd = Camera THEN Idle ELSE Say("success")
       IN  /\ queueLast' = IF r.done THEN last ELSE queueLast
           /\ w' = [next EXCEPT !.queueLast = last]
    /\ UNCHANGED <<journal, state, loose, dec, com, plan, place, history, background, crashes>>

\* commit_decisions: one line per decision, again for those already committed.
Commit(r) ==
    /\ At("commit")
    /\ r \in Results
    /\ Spend(r)
    /\ LET n == dec[w.cmd] - w.left + 1
       IN  com' = IF com[w.cmd] < n THEN Put(r, com, w.cmd, n) ELSE com
    /\ Then(r, IF w.left > 1 THEN [w EXCEPT !.left = @ - 1] ELSE Say("success"))
    /\ UNCHANGED <<journal, state, loose, dec, plan, place, queueLast, history,
                   background, crashes>>

-----------------------------------------------------------------------------
(* recover_cleanup_plans_for_state and finish_cleanup_operation *)

\* Plans whose operation has begun and not ended.
Interrupted == {p \in Commands : plan[p].status \in {"applying", "restoring"}}

\* Where an operation takes the files of plan p.
Destination(p) == IF plan[p].status = "applying" THEN p ELSE "project"

\* Variant: the operation is recorded without its files.
MovedOrNot(p) == TRUE

AllMoved(p) == \A i \in plan[p].items : place[i] = Destination(p)

\* No plan is interrupted.
RecoverNothing ==
    /\ At("recover")
    /\ Interrupted = {}
    /\ w' = Go(IF w.then \in {"guard", "idle"} THEN w.then ELSE "redo")
    /\ UNCHANGED <<disk, history, background, crashes, faults>>

\* reconcile_cleanup_item: rename the file, unless it is there already.
Move(p, i, r) ==
    /\ At("recover")
    /\ p \in Interrupted
    /\ i \in plan[p].items
    /\ place[i] # Destination(p)
    /\ r \in Results
    /\ Spend(r)
    /\ place' = Put(r, place, i, Destination(p))
    /\ Then(r, w)
    /\ UNCHANGED <<journal, state, loose, dec, com, plan, queueLast, history,
                   background, crashes>>

\* The state shows the operation of plan p.
Stamped(p) == state.revision = plan[p].source + 1 /\ state.last = plan[p].op

\* The files are moved: the state takes the operation's command id, unless it
\* is neither the state the operation started from nor the one it made.
Stamp(p, r) ==
    /\ At("recover")
    /\ p \in Interrupted
    /\ AllMoved(p)
    /\ ~Stamped(p)
    /\ r \in Results
    /\ LET fits == state.revision = plan[p].source
           done == fits /\ r.done
       IN  /\ state' = IF done
                       THEN [state EXCEPT !.revision = @ + 1, !.last = plan[p].op] ELSE state
           /\ effects' = IF done THEN [effects EXCEPT ![plan[p].op] = @ + 1] ELSE effects
           /\ w' = IF fits /\ r.ok THEN w ELSE Failed
           /\ IF fits THEN Spend(r) ELSE UNCHANGED faults
    /\ UNCHANGED <<journal, loose, dec, com, plan, place, queueLast, sent, told,
                   background, crashes>>

\* The plan's operation ends; recover_decisions_for_state follows.
Settle(p, r) ==
    /\ At("recover")
    /\ p \in Interrupted
    /\ AllMoved(p)
    /\ Stamped(p)
    /\ r \in Results
    /\ Spend(r)
    /\ plan' = Put(r, plan, p,
                   [plan[p] EXCEPT !.status = IF @ = "applying" THEN "applied" ELSE "restored",
                                   !.op = None, !.source = 0])
    /\ Then(r, Go("redo"))
    /\ UNCHANGED <<journal, state, loose, dec, com, place, queueLast, history,
                   background, crashes>>

-----------------------------------------------------------------------------
(* recover_decisions_for_state *)

\* Variants: a batch is done with its first decision; every prepared decision
\* is committed.
UncommittedFirst == {c \in {state.last} \cap Commands : com[c] = 0 /\ dec[c] > 0}
UncommittedAll == {c \in Commands : com[c] < dec[c]}

\* Commands whose decisions the state holds and the journal does not commit.
Uncommitted == {c \in {state.last} \cap Commands : com[c] < dec[c]}

Redo(c, r) ==
    /\ At("redo")
    /\ c \in Uncommitted
    /\ r \in Results
    /\ Spend(r)
    /\ com' = Put(r, com, c, com[c] + 1)
    /\ Then(r, w)
    /\ UNCHANGED <<journal, state, loose, dec, plan, place, queueLast, history,
                   background, crashes>>

RedoDone ==
    /\ At("redo")
    /\ Uncommitted = {}
    /\ w' = Go(w.then)
    /\ UNCHANGED <<disk, history, background, crashes, faults>>

-----------------------------------------------------------------------------
(* The main loop's own writes, and reading commands *)

\* Builds that started: their worker thread still writes in their name.
Builds == {c \in Commands : sent[c].kind = "build" /\ effects[c] > 0}

\* The state is saved by next_executor_request, complete_job or fail_job, with
\* its last command unchanged; by an automatic audition with an id of its own;
\* or by mark_build_running or finish_build, with the id of the build.
Background(by, mark) ==
    /\ Serving
    /\ background < MaxBackground
    /\ mark \in IF by = Builder THEN Builds ELSE {state.last, Camera}
    /\ background' = background + 1
    /\ w' = [w EXCEPT !.cmd = by, !.at = SaveEntry, !.then = "save", !.mark = mark,
                      !.expected = state.revision]
    /\ UNCHANGED <<disk, history, crashes, faults>>

\* storage_report finishes interrupted cleanups, decision_history commits
\* what the state holds.
Read(step) ==
    /\ Serving
    /\ step \in {"recover", "redo"}
    /\ w' = Go(step)
    /\ UNCHANGED <<disk, history, background, crashes, faults>>

-----------------------------------------------------------------------------
(* Crash and startup *)

Crash ==
    /\ w.phase # "down"
    /\ crashes < MaxCrashes
    /\ crashes' = crashes + 1
    /\ w' = Lost
    /\ UNCHANGED <<disk, history, background, faults>>

\* Variant: startup leaves interrupted cleanups for later.
BootEntryLater == "redo"

\* The first recovery of a project at startup.
BootEntry == "recover"

\* open_with_adapter reads the journals, then rebuild_queue_from_projects
\* recovers the project's cleanup and decisions.
Boot ==
    /\ w.phase = "down"
    /\ w' = [Lost EXCEPT !.phase = "boot", !.at = BootEntry, !.then = "terminal",
                         !.known = journal, !.queueLast = queueLast]
    /\ UNCHANGED <<disk, history, background, crashes, faults>>

\* Variant: the recovery of ended jobs takes an id of its own.
RecoveryMarkCamera == Camera

\* recover_terminal_jobs leaves last_command_id alone.
RecoveryMark == state.last

\* recover_terminal_jobs: cancellations the state does not show, and jobs of
\* the camera queue that ended (a background write).
RecoverTerminal(camera) ==
    /\ At("terminal")
    /\ camera => background < MaxBackground
    /\ background' = background + (IF camera THEN 1 ELSE 0)
    /\ w' = IF camera \/ loose # {}
            THEN [w EXCEPT !.at = SaveEntry, !.then = "save",
                           !.mark = RecoveryMark, !.expected = state.revision]
            ELSE Go("answers")
    /\ UNCHANGED <<disk, history, crashes, faults>>

\* command_was_applied: what recovery concludes about a prepared command.
WasApplied(c) ==
    IF sent[c].kind = "queue" THEN w.queueLast = c ELSE state.last = c

\* Variants: every command is answered again; only the applied ones are.
UnansweredAgain(c) == w.known[c] # "none"
UnansweredApplied(c) == w.known[c] = "prepared" /\ WasApplied(c)

Unanswered(c) == w.known[c] = "prepared"

\* recover_prepared_commands.
AnswerPrepared(c, r) ==
    /\ At("answers")
    /\ Unanswered(c)
    /\ r \in Results
    /\ Spend(r)
    /\ LET answer == IF WasApplied(c) THEN "success" ELSE "aborted"
       IN  /\ journal' = Put(r, journal, c, answer)
           /\ Then(r, [w EXCEPT !.known[c] = answer])
    /\ UNCHANGED <<state, loose, dec, com, plan, place, queueLast, history,
                   background, crashes>>

Open ==
    /\ At("answers")
    /\ \A c \in Commands : ~Unanswered(c)
    /\ w' = [Idle EXCEPT !.phase = "serving"]
    /\ UNCHANGED <<disk, history, background, crashes, faults>>

-----------------------------------------------------------------------------
(* The specification *)

Init ==
    /\ journal = [c \in Commands |-> "none"]
    /\ state \in [revision : {1}, last : {None}, rejected : SUBSET Items]
    /\ loose = {}
    /\ dec = [c \in Commands |-> 0]
    /\ com = [c \in Commands |-> 0]
    /\ plan = [c \in Commands |-> NoPlan]
    /\ place = [i \in Items |-> "project"]
    /\ queueLast = None
    /\ w = [Lost EXCEPT !.phase = "serving"]
    /\ sent = [c \in Commands |-> NotSent]
    /\ told = [c \in Commands |-> {}]
    /\ effects = [c \in Commands |-> 0]
    /\ background = 0
    /\ crashes = 0
    /\ faults = 0

CommandWrite(r) ==
    Prepare(r) \/ WritePlan(r) \/ Unplan(r) \/ Mark(r) \/ CancelJob(r)
    \/ PauseQueue(r) \/ Save(r) \/ AppendEvent(r) \/ SnapshotQueue(r) \/ Commit(r) \/ Reply(r)

FinishCleanup(r) ==
    \E p \in Commands : \/ \E i \in Items : Move(p, i, r)
                        \/ Stamp(p, r)
                        \/ Settle(p, r)

RecoverWrite(r) == \E c \in Commands : Redo(c, r) \/ AnswerPrepared(c, r)

Decide ==
    \/ Guard \/ SaveConflict \/ RecoverNothing \/ RedoDone \/ Open
    \/ \E camera \in BOOLEAN : RecoverTerminal(camera)

\* The worker goes on with what it does.
Work == Decide \/ \E r \in Result : CommandWrite(r) \/ FinishCleanup(r) \/ RecoverWrite(r)

Arrive ==
    \/ \E c \in Commands, q \in Requests, r \in Results : Accept(c, q, r)
    \/ \E c \in Commands, r \in Results : sent[c] # NotSent /\ Accept(c, sent[c], r)
    \/ \E c \in Commands : Repeat(c)
    \/ \E by \in {Camera, Builder}, mark \in Commands \cup {Camera, None} : Background(by, mark)
    \/ \E step \in {"recover", "redo"} : Read(step)

Next == Work \/ Arrive \/ Boot \/ Crash

Spec == Init /\ [][Next]_vars

\* The worker does not stop in the middle of a command, and is restarted.
FairSpec == Spec /\ WF_vars(Work) /\ WF_vars(Boot)
-----------------------------------------------------------------------------
(* Safety *)

\* A command takes effect at most once, however often its client repeats it,
\* whatever crashes and whichever writes fail (technical.md:428).
OneEffect == \A c \in Commands : effects[c] <= 1

\* Once a client got a final answer, the journal keeps that answer, so that
\* every later one is the same (handle's replay of known commands).
AnswersAreKept == \A c \in Commands : told[c] \cap Final \subseteq {journal[c]}

\* A decision the history shows was taken: the journal commits only decisions
\* of commands that took effect (recover_decisions_for_state, commit_decisions).
CommittedDecisionsHold == \A c \in Commands : com[c] > 0 => effects[c] > 0

\* A decision that was taken is in the history, or will be: while it is not
\* committed the state names its command, by which recovery finds it.
NoLostDecision ==
    \A c \in Commands : effects[c] > 0 => com[c] = dec[c] \/ state.last = c

\* A decision that took effect and is not committed, because a crash or a
\* failing append came in between, is committed before the state names another
\* command, with one exception: the state a cleanup writes when its files are
\* moved (finish_cleanup_operation).
OnlyCleanupsAbandon ==
    [][\A c \in Commands :
          effects[c] > 0 /\ com[c] # dec[c] /\ state.last = c /\ state'.last # c
          => \E p \in Interrupted : state'.last = plan[p].op /\ AllMoved(p)]_vars

\* An interrupted cleanup can always be finished: at most one is under way,
\* and the state is the one it started from or the one it made.  Otherwise no
\* state is ever saved again and the worker does not start.
CleanupRecoverable ==
    \A p \in Interrupted :
        /\ Interrupted = {p}
        /\ plan[p].source = state.revision \/ Stamped(p)

\* Every file is in the project, or in the trash of the one plan that can
\* restore it; an applied plan holds all its files.
FilesAccounted ==
    /\ \A i \in Items : place[i] # "project" =>
            /\ i \in plan[place[i]].items
            /\ plan[place[i]].status \in {"applying", "applied", "restoring"}
    /\ \A p \in Commands : plan[p].status = "applied" =>
            \A i \in plan[p].items : place[i] = p

\* What a line of the journal answers.
AnswerOf(line) ==
    CASE line = "success" -> "success"
      [] line \in {"failure", "aborted"} -> "failure"
      [] OTHER -> "none"

\* While no write fails and no job is cancelled, the worker keeps the promise
\* of CommandLedger: a command takes effect at most once and before its
\* answer, and the journal's answer says whether it did.
Ledger == INSTANCE CommandLedger WITH
    applied <- [c \in Commands |-> effects[c] > 0],
    answer <- [c \in Commands |-> AnswerOf(journal[c])]
RefinesLedger == Ledger!Spec

-----------------------------------------------------------------------------
(* Liveness *)

\* A journaled command gets its final answer, if need be after a restart.
CommandsAnswered ==
    \A c \in Commands : journal[c] = "prepared" ~> journal[c] \in Final

\* An interrupted cleanup is finished.
CleanupsEnd ==
    \A p \in Commands :
        plan[p].status \in {"applying", "restoring"} ~> plan[p].status \in {"applied", "restored"}
=============================================================================
