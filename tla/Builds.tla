------------------------------- MODULE Builds -------------------------------
(***************************************************************************)
(* Builds of one project (store/project/builds.rs, runtime/builds.rs,      *)
(* build.rs) together with everything Review.tla lets a client do to the   *)
(* decisions they rest on.  The build executor is a thread behind two      *)
(* channels; the process may die at any time, and recovers what the files  *)
(* say.                                                                    *)
(***************************************************************************)
EXTENDS Review

CONSTANTS
    NoBuild,
    Walls,                  \* whether an estimate can pass the wall clock
    MaxCrashes, MaxDamage   \* bounds

ASSUME NoBuildAssumption == NoBuild \notin Builds

ASSUME BoundsAssumption == MaxCrashes \in Nat /\ MaxDamage \in Nat

VARIABLES
    worker,        \* "up", "recovering" (startup, auditions not resumed yet) or "down"
    requests,      \* BuildExecutorHandle.requests: builds sent to the thread
    encoding,      \* the build ffmpeg works on
    events,        \* BuildExecutorHandle.events: [kind, build]
    crashes

processVars == <<worker, requests, encoding, events, crashes>>
vars == <<stateVars, processVars>>

Event == [kind: {"started", "completed", "failed"}, build: Builds]

TypeOK ==
    /\ StateTypeOK
    /\ worker \in {"up", "recovering", "down"}
    /\ requests \in Seq(Builds)
    /\ encoding \in Builds \cup {NoBuild}
    /\ events \in Seq(Event)
    /\ crashes \in 0..MaxCrashes

Init ==
    /\ StateInit
    /\ worker = "up" /\ requests = <<>> /\ encoding = NoBuild /\ events = <<>>
    /\ crashes = 0

(***************************************************************************)
(* Planning.                                                               *)
(***************************************************************************)
\* The decision a build of this kind takes from a shot.
Current(kind, s) == IF kind = "draft" THEN selected[s] ELSE approved[s]

\* plan_selected: only a draft may leave shots out; every other kind also
\* wants each take made with the final profile.
Plannable(kind, chosen) ==
    /\ chosen # {}
    /\ chosen \subseteq Present
    /\ kind # "draft" => chosen = Present
    /\ \A s \in chosen :
         /\ Current(kind, s) \in Usable(s)
         /\ kind # "draft" => ticket[Current(kind, s)].profile = "final"

Plan(kind, chosen) ==
    [kind |-> kind, contract |-> active,
     inputs |-> [s \in Shots |-> IF s \in chosen THEN Current(kind, s) ELSE NoTake],
     prints |-> [s \in Shots |-> IF s \in chosen THEN Prints(s) ELSE {}]]

\* validate_current
RestsOnCurrent(b) ==
    \A s \in Shots : recipe[b].inputs[s] # NoTake =>
        /\ s \in Present
        /\ recipe[b].inputs[s] = Current(recipe[b].kind, s)
        /\ recipe[b].inputs[s] \notin staleTakes
        /\ recipe[b].prints[s] = Prints(s)

\* Variant: only the contract of a build is compared.
SameContract(b) == recipe[b].contract = active

ValidateCurrent(b) == recipe[b].contract = active /\ RestsOnCurrent(b)

(***************************************************************************)
(* Writes.                                                                 *)
(***************************************************************************)
outsideBuilds == <<scriptVars, shotVars, takeVars, referenceVars, budgetVars, candidates>>

\* finish_build with an error.
Fail(b, stale) ==
    /\ buildState' = [buildState EXCEPT ![b] = "failed"]
    /\ staleBuilds' = IF stale THEN staleBuilds \cup {b} ELSE staleBuilds \ {b}
    /\ projectStage' = "build"
    /\ UNCHANGED <<recipe, damaged, reviews>>

\* finish_build with an output: the review it asks for blocks the project.
AskReview(b) ==
    /\ buildState' = [buildState EXCEPT ![b] = "needs_review"]
    /\ staleBuilds' = staleBuilds \ {b}
    /\ reviews' = reviews \cup {b}
    /\ projectStage' = "review"
    /\ UNCHANGED <<recipe, damaged>>

(***************************************************************************)
(* Requests.                                                               *)
(***************************************************************************)
StartBuild(b, kind, chosen) ==
    /\ Busy = {}
    /\ buildState[b] = "absent"
    /\ ActiveBuilds = {}
    /\ buildState' = [buildState EXCEPT ![b] = "queued"]
    /\ recipe' = [recipe EXCEPT ![b] = Plan(kind, chosen)]
    /\ projectStage' = "build"
    /\ UNCHANGED <<outsideBuilds, staleBuilds, damaged, reviews>>
    /\ Refreshed(outcome)

Build(b, kind, chosen) ==
    /\ worker = "up"
    /\ ~Blocked
    /\ active # NoContract
    /\ Plannable(kind, chosen)
    /\ StartBuild(b, kind, chosen)
    /\ requests' = Append(requests, b)
    /\ UNCHANGED <<worker, encoding, events, crashes>>

\* approve_build_review: the final cut completes the project.
ApproveBuildReview(b) ==
    /\ worker = "up"
    /\ b \in reviews
    /\ buildState[b] = "needs_review"
    /\ b \notin staleBuilds
    /\ buildState' = [buildState EXCEPT ![b] = "approved"]
    /\ reviews' = reviews \ {b}
    /\ UNCHANGED <<outsideBuilds, recipe, staleBuilds, damaged, processVars>>
    /\ IF recipe[b].kind = "final"
         THEN projectStage' = "completed" /\ Refreshed("done")
         ELSE projectStage' = "shooting" /\ Refreshed("in_progress")

\* Every other request and camera event.  The dead end of a crash inside
\* complete_job is Crash.
Reviewing ==
    /\ worker = "up"
    /\ \/ \E c \in Contracts : ApplyBundle(c) \/ ApproveScript(c)
       \/ \E r \in References : \E u \in Subjects : ImportReference(r, u)
       \/ \E r, old \in References : ReplaceReference(r, old)
       \/ \E s \in Shots, p \in Profiles, w \in Walls : EnqueueShot(s, p, w)
       \/ \E s \in Shots, w \in Walls : RetryShot(s, w)
       \/ \E s \in Shots, p \in Profiles, w \in Walls : AskOverrun(s, p, w)
       \/ \E o \in overrunApprovals : ApproveOverrun(o)
       \/ \E l \in Limits : UpdateBudget(l)
       \/ \E s \in Shots : CompleteJob(s) \/ RefusedCompletion(s)
       \/ \E s \in Shots : FailJob(s) \/ CancelJob(s)
       \/ \E s \in Shots, t \in Takes : SelectTake(s, t)
       \/ \E s \in Shots, t \in Takes : ApproveTake(s, t)
       \/ \E s \in Shots, t \in Takes : RejectTake(s, t)
       \/ \E shots \in SUBSET Shots \ {{}} : \E pick \in [shots -> Takes] :
            \E verdict \in {"selected", "approved"} : ReviewBatch(pick, verdict)
    /\ UNCHANGED processVars

(***************************************************************************)
(* The build executor's thread, and the worker's poll of its events.       *)
(***************************************************************************)
ExecutorStarts ==
    /\ worker # "down"
    /\ encoding = NoBuild
    /\ requests # <<>>
    /\ encoding' = Head(requests)
    /\ requests' = Tail(requests)
    /\ events' = Append(events, [kind |-> "started", build |-> Head(requests)])
    /\ UNCHANGED <<stateVars, worker, crashes>>

\* Variant: the encoder keeps the build it has ended.
ExecutorEndsAgain(kind) ==
    /\ worker # "down"
    /\ encoding # NoBuild
    /\ events' = Append(events, [kind |-> kind, build |-> encoding])
    /\ UNCHANGED <<stateVars, worker, encoding, requests, crashes>>

ExecutorEnds(kind) ==
    /\ worker # "down"
    /\ encoding # NoBuild
    /\ encoding' = NoBuild
    /\ events' = Append(events, [kind |-> kind, build |-> encoding])
    /\ UNCHANGED <<stateVars, worker, requests, crashes>>

\* poll_build_events.  An event about a build that is not active would end
\* the worker; EventsAreAwaited says there is none.
Polled(kind, b) ==
    /\ worker = "up"
    /\ events # <<>>
    /\ Head(events) = [kind |-> kind, build |-> b]
    /\ b \in ActiveBuilds
    /\ events' = Tail(events)
    /\ UNCHANGED <<outsideBuilds, worker, requests, encoding, crashes>>

PollStarted(b) ==
    /\ Polled("started", b)
    /\ buildState' = [buildState EXCEPT ![b] = "running"]
    /\ UNCHANGED <<recipe, staleBuilds, damaged, reviews, projectStage>>
    /\ Refreshed(outcome)

PollCompleted(b) ==
    /\ Polled("completed", b)
    /\ \/ ValidateCurrent(b) /\ AskReview(b)
       \/ ~ValidateCurrent(b) /\ Fail(b, TRUE)
    /\ Refreshed(outcome)

PollFailed(b) ==
    /\ Polled("failed", b)
    /\ Fail(b, FALSE)
    /\ Refreshed(outcome)

(***************************************************************************)
(* The environment: a recipe file is damaged, the process dies.            *)
(***************************************************************************)
DamageRecipe(b) ==
    /\ b \in Built \ damaged
    /\ Cardinality(damaged) < MaxDamage
    /\ damaged' = damaged \cup {b}
    /\ UNCHANGED <<outsideBuilds, buildState, recipe, staleBuilds, reviews, projectStage,
                   outcome, processVars>>

\* Between two actions, or inside complete_job before the state is saved.
Crash ==
    /\ worker # "down"
    /\ crashes < MaxCrashes
    /\ worker' = "down" /\ crashes' = crashes + 1
    /\ requests' = <<>> /\ encoding' = NoBuild /\ events' = <<>>
    /\ \/ UNCHANGED stateVars
       \/ worker = "up" /\ \E s \in Shots : StrandJob(s)

(***************************************************************************)
(* WorkerRuntime::open.  recover_terminal_jobs lists the takes whose jobs  *)
(* completed, and refuses to start if validate refuses the result.         *)
(* recover_builds sends the active builds again, or fails them.            *)
(***************************************************************************)
Stranded == {s \in Busy : takeState[job[s]] = "written"}

RecoverTerminalJobs ==
    /\ taken' = [s \in Shots |-> IF s \in Stranded THEN taken[s] \cup {job[s]} ELSE taken[s]]
    /\ candidates' = [s \in Shots |-> IF s \in Stranded THEN Offer(s) ELSE candidates[s]]
    /\ target' = [s \in Shots |-> IF s \in Stranded THEN TargetAfter(s) ELSE target[s]]
    /\ stage' = [s \in Shots |-> IF s \in Stranded THEN "candidates_ready" ELSE stage[s]]
    /\ job' = [s \in Shots |-> IF s \in Stranded THEN NoTake ELSE job[s]]
    /\ takeState' = [t \in Takes |-> IF takeState[t] = "written" THEN "registered"
                                     ELSE takeState[t]]

Lost == {b \in ActiveBuilds : b \in damaged \/ ~ValidateCurrent(b)}

\* Variant: only the build that was running is sent again.
ResentRunning == {b \in ActiveBuilds \ Lost : buildState[b] = "running"}

Resent == ActiveBuilds \ Lost

RecoverBuilds ==
    /\ buildState' = [b \in Builds |-> IF b \in Lost THEN "failed" ELSE buildState[b]]
    /\ staleBuilds' = (staleBuilds \ Lost) \cup (Lost \ damaged)
    /\ projectStage' = IF Lost # {} THEN "build" ELSE projectStage
    /\ \E order \in [1..Cardinality(Resent) -> Resent] :
         /\ Resent = {order[i] : i \in DOMAIN order}
         /\ requests' = order

Boot ==
    /\ worker = "down"
    /\ \A s \in Stranded : Registrable(s)
    /\ worker' = "recovering"
    /\ requests = <<>> /\ encoding = NoBuild /\ events = <<>>
    /\ RecoverTerminalJobs
    /\ RecoverBuilds
    /\ UNCHANGED <<scriptVars, rejected, selected, approved, staleShots, ticket, staleTakes,
                   referenceVars, budgetVars, recipe, damaged, reviews, encoding, events,
                   crashes>>
    /\ Refreshed(outcome)

\* resume_auditions, shot by shot, and the worker is ready.  Takes bounds how
\* many auditions there can be.
Resumable(s) ==
    /\ job[s] = NoTake
    /\ Continues(s, target[s])
    /\ Count(s, "audition") < target[s] => \E t \in Takes : takeState[t] = "unused"

BootAudition ==
    /\ worker = "recovering"
    /\ \E s \in Shots : ResumeAudition(s)
    /\ UNCHANGED processVars

BootDone ==
    /\ worker = "recovering"
    /\ \A s \in Shots : ~Resumable(s)
    /\ worker' = "up"
    /\ UNCHANGED <<stateVars, requests, encoding, events, crashes>>

Next ==
    \/ Reviewing
    \/ \E b \in Builds, kind \in Kinds, chosen \in SUBSET Shots : Build(b, kind, chosen)
    \/ \E b \in Builds : ApproveBuildReview(b) \/ DamageRecipe(b)
    \/ \E b \in Builds : PollStarted(b) \/ PollCompleted(b) \/ PollFailed(b)
    \/ ExecutorStarts \/ ExecutorEnds("completed") \/ ExecutorEnds("failed")
    \/ Crash \/ Boot \/ BootAudition \/ BootDone

Spec == Init /\ [][Next]_vars

\* The main loop polls the executor in every turn, ffmpeg ends, and a worker
\* that died is started again.
Fairness ==
    /\ WF_vars(ExecutorStarts)
    /\ WF_vars(ExecutorEnds("completed") \/ ExecutorEnds("failed"))
    /\ WF_vars(\E b \in Builds : PollStarted(b) \/ PollCompleted(b) \/ PollFailed(b))
    /\ WF_vars(Boot) /\ WF_vars(BootAudition) /\ WF_vars(BootDone)

FairSpec == Spec /\ Fairness

(***************************************************************************)
(* Properties.                                                             *)
(***************************************************************************)
\* A build that stands rests on what is decided now: for each shot it shows,
\* the take chosen now, made from the references in use now.
FreshBuildsAreCurrent ==
    \A b \in Standing : buildState[b] # "failed" => RestsOnCurrent(b)

\* A take that is not stale is what its shot would be generated from today:
\* the generation part of the active contract and the references in use.
FreshTakesMatchInputs ==
    \A s \in Present : \A t \in Registered(s) \ staleTakes :
        /\ ticket[t].generation = Bundle[active].generation[s]
        /\ ticket[t].prints = Prints(s)

\* A build awaits review exactly if a review for it is pending.
ReviewsAreOpen ==
    \A b \in Builds : b \in reviews <=> buildState[b] = "needs_review" /\ b \notin staleBuilds

\* Whatever the executor still has to do or to report is about a build the
\* state holds as active.
EventsAreAwaited ==
    /\ \A i \in DOMAIN events : events[i].build \in ActiveBuilds
    /\ \A i \in DOMAIN requests : requests[i] \in ActiveBuilds
    /\ encoding # NoBuild => encoding \in ActiveBuilds

\* No shot gets more auditions than the contract grants it: not by asking again
\* after a failure, a rejection or a new script, not by a batch that goes on by
\* itself or is resumed at startup.
AuditionsWithinContract ==
    \A s \in Shots :
        Cardinality({t \in Registered(s) : ticket[t].profile = "audition"}) <= AuditionTakes

\* An approval is taken back only because its take can no longer be used:
\* no other decision, job or script change touches it.
ApprovedTakeStands ==
    [][\A s \in Shots : approved[s] # NoTake /\ approved'[s] # approved[s] =>
          approved[s] \in staleTakes']_vars

\* A take that was generated becomes a candidate: validate never refuses the
\* state that lists it.
CompletionsRegister == \A s \in Stranded : Registrable(s)

\* Every build leaves the queue and the encoder, whatever dies meanwhile,
\* unless the worker cannot start.
BuildsEnd ==
    \A b \in Builds : b \in ActiveBuilds ~> b \notin ActiveBuilds \/ ~CompletionsRegister
=============================================================================
