------------------------------- MODULE Review -------------------------------
(***************************************************************************)
(* What the worker does to a project's script, references, budget, camera  *)
(* jobs and takes (store/project.rs, store/project/{references, budget,    *)
(* decisions}.rs and the commands that call them).  Every action ends with *)
(* bump_revision, which derives the outcome anew and validates the state.  *)
(***************************************************************************)
EXTENDS ProjectState

(***************************************************************************)
(* Builds that lose their standing.  A recipe that cannot be read counts   *)
(* as resting on everything.                                               *)
(***************************************************************************)
Standing == Built \ staleBuilds

\* build_ids_for_shots
BuildsUsing(changed) ==
    {b \in Standing : b \in damaged \/ \E s \in changed : recipe[b].inputs[s] # NoTake}

\* mark_builds_stale_for_decision: t is the shot's current take, or NoTake.
BuildsOver(s, t) ==
    {b \in Standing : b \in damaged \/ recipe[b].inputs[s] \notin {NoTake, t}}

\* Variant: the review of a stale build stays pending.
MarkStaleOnly(bs) ==
    /\ staleBuilds' = staleBuilds \cup bs
    /\ UNCHANGED <<buildState, recipe, damaged, reviews>>

\* mark_build_ids_stale
MarkStale(bs) ==
    /\ staleBuilds' = staleBuilds \cup bs
    /\ reviews' = reviews \ bs
    /\ UNCHANGED <<buildState, recipe, damaged>>

(***************************************************************************)
(* The script.                                                             *)
(***************************************************************************)
\* apply_bundle: a bundle that already awaits approval is not saved again.
ApplyBundle(c) ==
    /\ contracts[c] = "absent"
    /\ \A d \in PendingScripts : Bundle[d] # Bundle[c]
    /\ contracts' = [contracts EXCEPT ![c] = "pending_approval"]
    /\ UNCHANGED <<active, shotVars, takeVars, referenceVars, budgetVars, buildVars,
                   candidates, reviews, projectStage>>
    /\ Refreshed(outcome)

\* Variant: whatever the new contract keeps counts as unchanged.
SameName(c) == Present \cap Bundle[c].shots

\* The shots of the active contract that c keeps, as generation reads them
\* (shot_generation_equal and the bible), and as the cut reads them too.
SameGeneration(c) ==
    {s \in Present \cap Bundle[c].shots : Bundle[active].generation[s] = Bundle[c].generation[s]}
SameCut(c) == {s \in SameGeneration(c) : Bundle[active].cut[s] = Bundle[c].cut[s]}

ApproveScript(c) ==
    /\ Busy = {}
    /\ ActiveBuilds = {}
    /\ c \in PendingScripts
    /\ LET concerned == Present \cup Bundle[c].shots
           changed   == concerned \ SameGeneration(c)
           recut     == concerned \ SameCut(c)
           Fresh(f, initial) == [s \in Shots |-> IF s \in changed THEN initial ELSE f[s]]
           delivery  == active # NoContract /\ Bundle[active].delivery # Bundle[c].delivery
       IN  /\ stage' = Fresh(stage, "pending")
           /\ target' = Fresh(target, 0)
           /\ taken' = Fresh(taken, {})
           /\ rejected' = Fresh(rejected, {})
           /\ selected' = Fresh(selected, NoTake)
           /\ approved' = Fresh(approved, NoTake)
           /\ candidates' = Fresh(candidates, {})
           /\ staleShots' = staleShots \ changed
           /\ staleTakes' = staleTakes \cup UNION {Registered(s) : s \in changed}
           /\ MarkStale(IF delivery THEN Standing ELSE BuildsUsing(recut))
    /\ contracts' = [d \in Contracts |->
                       IF d = c THEN "active"
                       ELSE IF contracts[d] = "active" THEN "superseded"
                       ELSE IF contracts[d] = "pending_approval" THEN "rejected"
                       ELSE contracts[d]]
    /\ active' = c
    /\ projectStage' = "shooting"
    /\ UNCHANGED <<job, takeState, ticket, referenceVars, budgetVars>>
    /\ Refreshed(outcome)

(***************************************************************************)
(* References.  Every bible names every subject.  superseded is {} for an  *)
(* import, the replaced reference for a replacement.  The caller accepts   *)
(* the impact, or is refused.                                              *)
(***************************************************************************)
Affected(u) == {s \in Present : u \in Bundle[active].uses[s]}

WriteReference(r, u, superseded) ==
    /\ active # NoContract
    /\ subjectOf[r] = NoSubject
    /\ Affected(u) \cap Busy = {}
    /\ ActiveBuilds = {}
    /\ LET invalidated == {s \in Affected(u) : Registered(s) \ staleTakes # {}}
           Fresh(f, initial) == [s \in Shots |-> IF s \in invalidated THEN initial ELSE f[s]]
       IN  /\ staleTakes' = staleTakes \cup UNION {Registered(s) : s \in invalidated}
           /\ stage' = Fresh(stage, "pending")
           /\ selected' = Fresh(selected, NoTake)
           /\ approved' = Fresh(approved, NoTake)
           /\ target' = Fresh(target, 0)
           /\ staleShots' = staleShots \cup invalidated
           /\ candidates' = Fresh(candidates, {})
           /\ overrunApprovals' = {o \in overrunApprovals : o.shot \notin invalidated}
    /\ MarkStale(BuildsUsing(Affected(u)))
    /\ subjectOf' = [subjectOf EXCEPT ![r] = u]
    /\ activeRefs' = (activeRefs \ superseded) \cup {r}
    /\ UNCHANGED <<scriptVars, job, taken, rejected, takeState, ticket, limit, asked,
                   granted, projectStage>>
    /\ Refreshed(outcome)

ImportReference(r, u) == WriteReference(r, u, {})

ReplaceReference(r, old) ==
    /\ old \in activeRefs
    /\ WriteReference(r, subjectOf[old], {old})

(***************************************************************************)
(* Camera jobs.  wall: whether the estimated total passes the wall clock.  *)
(***************************************************************************)
\* enqueue_shot up to the budget.  A pending final review blocks nothing, and
\* candidates block finals of their shot only.
Admitted(s, p) ==
    /\ active # NoContract
    /\ s \in Present
    /\ PendingScripts = {}
    /\ overrunApprovals = {}
    /\ \A b \in reviews : recipe[b].kind = "final"
    /\ p = "final" => candidates[s] = {}
    /\ p = "audition" => Count(s, p) < AuditionTakes

\* assess_generation: what of this take the granted overruns do not cover.
Missing(s, p, wall) ==
    LET projected == Count(s, p) + 1
    IN  ((IF projected > limit[p] THEN {<<s, p, projected>>} ELSE {})
            \cup (IF wall THEN {<<"wall">>} ELSE {})) \ granted

Request(s, p) == [shot |-> s, profile |-> p,
                  generation |-> Bundle[active].generation[s], prints |-> Prints(s)]

EnqueueShot(s, p, wall) ==
    /\ Admitted(s, p)
    /\ Missing(s, p, wall) = {}
    /\ job[s] = NoTake
    /\ \E t \in Takes :
         /\ takeState[t] = "unused"
         /\ takeState' = [takeState EXCEPT ![t] = "reserved"]
         /\ ticket' = [ticket EXCEPT ![t] = Request(s, p)]
         /\ job' = [job EXCEPT ![s] = t]
    /\ stage' = [stage EXCEPT ![s] = "queued"]
    /\ \E goal \in IF p = "final" THEN {0} ELSE {1, AuditionTakes} :
         target' = [target EXCEPT ![s] = goal]
    /\ UNCHANGED <<scriptVars, taken, rejected, selected, approved, staleShots, staleTakes,
                   referenceVars, budgetVars, buildVars, candidates, reviews, projectStage>>
    /\ Refreshed(outcome)

\* retry_shot
RetryShot(s, wall) ==
    /\ approved[s] = NoTake
    /\ stage[s] \in {"pending", "failed"}
    /\ EnqueueShot(s, IF selected[s] = NoTake THEN "audition" ELSE "final", wall)

\* The other end of enqueue_shot: request_budget_overrun.  A scope that was
\* asked before is answered with its pending approval, or refused.
AskOverrun(s, p, wall) ==
    /\ Admitted(s, p)
    /\ LET o == [scope |-> Missing(s, p, wall), shot |-> s]
       IN  /\ o.scope # {}
           /\ \A a \in asked : a.scope # o.scope
           /\ asked' = asked \cup {o}
           /\ overrunApprovals' = overrunApprovals \cup {o}
    /\ UNCHANGED <<scriptVars, shotVars, takeVars, referenceVars, limit, granted, buildVars,
                   candidates, reviews, projectStage>>
    /\ Refreshed(outcome)

ApproveOverrun(o) ==
    /\ o \in overrunApprovals
    /\ asked' = asked \ {o}
    /\ granted' = granted \cup o.scope
    /\ overrunApprovals' = overrunApprovals \ {o}
    /\ UNCHANGED <<scriptVars, shotVars, takeVars, referenceVars, limit, buildVars,
                   candidates, reviews, projectStage>>
    /\ Refreshed(outcome)

UpdateBudget(l) ==
    /\ limit' = l
    /\ asked' = {} /\ granted' = {} /\ overrunApprovals' = {}
    /\ UNCHANGED <<scriptVars, shotVars, takeVars, referenceVars, buildVars,
                   candidates, reviews, projectStage>>
    /\ Refreshed(outcome)

(***************************************************************************)
(* The end of a job.  A job whose take is saved but not listed (written)   *)
(* stays the queue's running entry, so no other job ends meanwhile.        *)
(***************************************************************************)
Ending(s) ==
    /\ job[s] # NoTake
    /\ takeState[job[s]] = "reserved"
    /\ \A t \in Takes : takeState[t] # "written"

\* Variant: a rejected take is offered again.
OfferAll(s) == taken[s] \cup {job[s]}

\* register_candidate offers every take of the shot that was not rejected;
\* validate refuses the state if one of them is stale.
Offer(s) == (taken[s] \cup {job[s]}) \ rejected[s]
Registrable(s) == Offer(s) \cap staleTakes = {}

\* Variant: the target counts down.
TargetLeft(s) == target[s] - 1

\* The target after job s, and whether schedule_next_audition goes on.
TargetAfter(s) ==
    LET p == ticket[job[s]].profile
    IN  IF Count(s, p) + 1 >= target[s] THEN 0 ELSE target[s]
Continues(s, goal) == goal # 0 /\ selected[s] = NoTake /\ approved[s] = NoTake

\* complete_job, to the end.  The next audition of the batch is not assessed
\* against the budget.
CompleteJob(s) ==
    /\ Ending(s)
    /\ Registrable(s)
    /\ LET t == job[s]
           goal == TargetAfter(s)
       IN  /\ taken' = [taken EXCEPT ![s] = @ \cup {t}]
           /\ candidates' = [candidates EXCEPT ![s] = Offer(s)]
           /\ target' = [target EXCEPT ![s] = goal]
           /\ \/ /\ ~Continues(s, goal)
                 /\ stage' = [stage EXCEPT ![s] = "candidates_ready"]
                 /\ job' = [job EXCEPT ![s] = NoTake]
                 /\ takeState' = [takeState EXCEPT ![t] = "registered"]
                 /\ UNCHANGED ticket
              \/ /\ Continues(s, goal)
                 /\ stage' = [stage EXCEPT ![s] = "queued"]
                 /\ \E n \in Takes :
                      /\ takeState[n] = "unused"
                      /\ job' = [job EXCEPT ![s] = n]
                      /\ takeState' = [takeState EXCEPT ![t] = "registered", ![n] = "reserved"]
                      /\ ticket' = [ticket EXCEPT ![n] = Request(s, "audition")]
    /\ UNCHANGED <<scriptVars, rejected, selected, approved, staleShots, staleTakes,
                   referenceVars, budgetVars, buildVars, reviews, projectStage>>
    /\ Refreshed(outcome)

\* The take and the completed job are saved; the state is not, because the
\* process dies before it or because validate refuses it.
StrandJob(s) ==
    /\ Ending(s)
    /\ takeState' = [takeState EXCEPT ![job[s]] = "written"]
    /\ UNCHANGED <<scriptVars, shotVars, ticket, staleTakes, referenceVars, budgetVars,
                   buildVars, candidates, reviews, projectStage, outcome>>

RefusedCompletion(s) == ~Registrable(s) /\ StrandJob(s)

\* fail_job, cancel_queued_job and cancel_running_job_after_interrupt.
EndWithoutTake(s, next) ==
    /\ Ending(s)
    /\ takeState' = [takeState EXCEPT ![job[s]] = "void"]
    /\ job' = [job EXCEPT ![s] = NoTake]
    /\ target' = [target EXCEPT ![s] = 0]
    /\ stage' = [stage EXCEPT ![s] = next]
    /\ UNCHANGED <<scriptVars, taken, rejected, selected, approved, staleShots, ticket,
                   staleTakes, referenceVars, budgetVars, buildVars, candidates, reviews,
                   projectStage>>
    /\ Refreshed(outcome)

FailJob(s) == EndWithoutTake(s, "failed")

CancelJob(s) ==
    EndWithoutTake(s, IF selected[s] # NoTake THEN "selected"
                      ELSE IF taken[s] \ rejected[s] # {} THEN "candidates_ready"
                      ELSE "pending")

\* schedule_next_audition, called for a shot whose batch was interrupted.
ResumeAudition(s) ==
    /\ job[s] = NoTake
    /\ Continues(s, target[s])
    /\ \/ /\ Count(s, "audition") >= target[s]
          /\ target' = [target EXCEPT ![s] = 0]
          /\ UNCHANGED <<stage, job, takeState, ticket>>
       \/ /\ Count(s, "audition") < target[s]
          /\ \E t \in Takes :
               /\ takeState[t] = "unused"
               /\ takeState' = [takeState EXCEPT ![t] = "reserved"]
               /\ ticket' = [ticket EXCEPT ![t] = Request(s, "audition")]
               /\ job' = [job EXCEPT ![s] = t]
          /\ stage' = [stage EXCEPT ![s] = "queued"]
          /\ UNCHANGED target
    /\ UNCHANGED <<scriptVars, taken, rejected, selected, approved, staleShots, staleTakes,
                   referenceVars, budgetVars, buildVars, candidates, reviews, projectStage>>
    /\ Refreshed(outcome)

(***************************************************************************)
(* Decisions.  pick names one take for each shot it decides.               *)
(***************************************************************************)
\* Variant: an approved shot may be decided again.
DecidableAgain(s, t) == s \in Present /\ job[s] = NoTake /\ t \in Usable(s)

Decidable(s, t) ==
    /\ s \in Present
    /\ job[s] = NoTake
    /\ approved[s] = NoTake
    /\ t \in Usable(s)

Decide(pick, verdict) ==
    /\ \A s \in DOMAIN pick : Decidable(s, pick[s])
    /\ LET decided == DOMAIN pick
       IN  /\ selected' = [s \in Shots |-> IF s \in decided THEN pick[s] ELSE selected[s]]
           /\ approved' = [s \in Shots |-> IF s \in decided /\ verdict = "approved"
                                          THEN pick[s] ELSE approved[s]]
           /\ target' = [s \in Shots |-> IF s \in decided THEN 0 ELSE target[s]]
           /\ stage' = [s \in Shots |-> IF s \in decided THEN verdict ELSE stage[s]]
           /\ candidates' = [s \in Shots |-> IF s \in decided THEN {} ELSE candidates[s]]
    /\ MarkStale(UNION {BuildsOver(s, pick[s]) : s \in DOMAIN pick})
    /\ UNCHANGED <<scriptVars, job, taken, rejected, staleShots, takeVars, referenceVars,
                   budgetVars, projectStage>>
    /\ Refreshed(outcome)

SelectTake(s, t) == Decide([x \in {s} |-> t], "selected")

ApproveTake(s, t) ==
    /\ selected[s] = t
    /\ Decide([x \in {s} |-> t], "approved")

\* review_takes_batch: approves without a selection before it.
ReviewBatch(pick, verdict) == Decide(pick, verdict)

RejectTake(s, t) ==
    /\ Decidable(s, t)
    /\ LET left == taken[s] \ (rejected[s] \cup {t})
           kept == IF selected[s] = t THEN NoTake ELSE selected[s]
       IN  /\ rejected' = [rejected EXCEPT ![s] = @ \cup {t}]
           /\ selected' = [selected EXCEPT ![s] = kept]
           /\ target' = [target EXCEPT ![s] = 0]
           /\ stage' = [stage EXCEPT ![s] =
                          IF left = {} THEN "pending" ELSE "candidates_ready"]
           /\ candidates' = [candidates EXCEPT ![s] = @ \ {t}]
           /\ MarkStale(BuildsOver(s, kept))
    /\ UNCHANGED <<scriptVars, job, taken, approved, staleShots, takeVars, referenceVars,
                   budgetVars, projectStage>>
    /\ Refreshed(outcome)
=============================================================================
