---------------------------- MODULE BuildsProofs ----------------------------
(***************************************************************************)
(* Proofs about Builds, for all scripts, shots, takes, references, budgets *)
(* and builds, with any number of crashes and damaged recipes.             *)
(***************************************************************************)
EXTENDS Builds, TLAPS, FiniteSetTheorems, SequenceTheorems

-----------------------------------------------------------------------------
(* Actions                                                                  *)

\* What a request or a camera event comes down to.
Requested ==
    \/ \E c \in Contracts : ApplyBundle(c) \/ ApproveScript(c)
    \/ \E r \in References, u \in Subjects \cup {NoSubject}, superseded \in SUBSET References :
         /\ \A old \in superseded : subjectOf[old] = u
         /\ WriteReference(r, u, superseded)
    \/ \E s \in Shots, p \in Profiles, w \in Walls : EnqueueShot(s, p, w) \/ AskOverrun(s, p, w)
    \/ \E o \in overrunApprovals : ApproveOverrun(o)
    \/ \E l \in Limits : UpdateBudget(l)
    \/ \E s \in Shots : CompleteJob(s) \/ StrandJob(s)
    \/ \E s \in Shots, next \in ShotStage : EndWithoutTake(s, next)
    \/ \E shots \in SUBSET Shots : \E pick \in [shots -> Takes] :
         \E verdict \in {"selected", "approved"} : Decide(pick, verdict)
    \/ \E s \in Shots, t \in Takes : RejectTake(s, t)

LEMMA EveryRequest ==
    ASSUME StateTypeOK, Reviewing
    PROVE  Requested /\ worker = "up" /\ UNCHANGED processVars
<1>1. worker = "up" /\ UNCHANGED processVars
  BY DEF Reviewing
<1>2. ASSUME NEW c \in Contracts, ApplyBundle(c) \/ ApproveScript(c)
      PROVE  Requested
  BY <1>2 DEF Requested
<1>3. ASSUME NEW r \in References, NEW u \in Subjects, ImportReference(r, u)
      PROVE  Requested
  <2>1. WriteReference(r, u, {}) /\ {} \in SUBSET References
    BY <1>3 DEF ImportReference
  <2> QED  BY <2>1 DEF Requested
<1>4. ASSUME NEW r \in References, NEW old \in References, ReplaceReference(r, old)
      PROVE  Requested
  <2>1. /\ WriteReference(r, subjectOf[old], {old})
        /\ {old} \in SUBSET References
        /\ subjectOf[old] \in Subjects \cup {NoSubject}
    BY <1>4 DEF ReplaceReference, StateTypeOK
  <2> QED  BY <2>1 DEF Requested
<1>5. ASSUME NEW s \in Shots, NEW p \in Profiles, NEW w \in Walls,
             EnqueueShot(s, p, w) \/ AskOverrun(s, p, w)
      PROVE  Requested
  BY <1>5 DEF Requested
<1>6. ASSUME NEW s \in Shots, NEW w \in Walls, RetryShot(s, w)
      PROVE  Requested
  <2>1. \E p \in Profiles : EnqueueShot(s, p, w)
    BY <1>6 DEF RetryShot, Profiles
  <2> QED  BY <2>1 DEF Requested
<1>7. ASSUME NEW o \in overrunApprovals, ApproveOverrun(o)
      PROVE  Requested
  BY <1>7 DEF Requested
<1>8. ASSUME NEW l \in Limits, UpdateBudget(l)
      PROVE  Requested
  BY <1>8 DEF Requested
<1>9. ASSUME NEW s \in Shots, CompleteJob(s) \/ RefusedCompletion(s)
      PROVE  Requested
  BY <1>9 DEF Requested, RefusedCompletion
<1>10. ASSUME NEW s \in Shots, FailJob(s) \/ CancelJob(s)
       PROVE  Requested
  <2>1. \E next \in ShotStage : EndWithoutTake(s, next)
    BY <1>10 DEF FailJob, CancelJob, ShotStage
  <2> QED  BY <2>1 DEF Requested
<1>11. ASSUME NEW s \in Shots, NEW t \in Takes, SelectTake(s, t) \/ ApproveTake(s, t)
       PROVE  Requested
  <2>1. {s} \in SUBSET Shots /\ [x \in {s} |-> t] \in [{s} -> Takes]
    OBVIOUS
  <2>2. \E verdict \in {"selected", "approved"} : Decide([x \in {s} |-> t], verdict)
    BY <1>11 DEF SelectTake, ApproveTake
  <2> QED  BY <2>1, <2>2 DEF Requested
<1>12. ASSUME NEW s \in Shots, NEW t \in Takes, RejectTake(s, t)
       PROVE  Requested
  BY <1>12 DEF Requested
<1>13. ASSUME NEW shots \in SUBSET Shots \ {{}}, NEW pick \in [shots -> Takes],
              NEW verdict \in {"selected", "approved"}, ReviewBatch(pick, verdict)
       PROVE  Requested
  BY <1>13 DEF Requested, ReviewBatch
<1> QED  BY <1>1, <1>2, <1>3, <1>4, <1>5, <1>6, <1>7, <1>8, <1>9, <1>10, <1>11, <1>12, <1>13
         DEF Reviewing

-----------------------------------------------------------------------------
(* Types                                                                    *)

\* What a take was asked to be is a ticket.
LEMMA RequestType ==
    ASSUME StateTypeOK, NEW s \in Shots, NEW p \in Profiles, active # NoContract
    PROVE  Request(s, p) \in Ticket
<1>1. Bundle[active].generation[s] \in Versions
  BY BundleAssumption DEF StateTypeOK, ScriptBundle
<1>2. Prints(s) \subseteq References
  BY DEF Prints, Fingerprint, StateTypeOK
<1> QED  BY <1>1, <1>2 DEF Request, Ticket, Profiles

\* Only shots of the active contract have jobs and targets.
JobsPresent == \A s \in Shots : job[s] # NoTake \/ target[s] # 0 => s \in Present

LEMMA PresentType ==
    ASSUME StateTypeOK
    PROVE  /\ Present \subseteq Shots
           /\ Present # {} => active \in Contracts
  BY BundleAssumption DEF Present, StateTypeOK, ScriptBundle

LEMMA RefreshedType ==
    ASSUME NEW o \in Outcome, Refreshed(o)
    PROVE  outcome' \in Outcome
  BY DEF Refreshed, Outcome

LEMMA RequestedType ==
    ASSUME StateTypeOK, JobsPresent, Requested
    PROVE  StateTypeOK'
<1>p. /\ Present \subseteq Shots
      /\ Present # {} => active \in Contracts
  BY PresentType
<1> USE DEF StateTypeOK
<1>0. \A o \in Outcome : Refreshed(o) => outcome' \in Outcome
  BY RefreshedType
<1>1. ASSUME NEW c \in Contracts, ApplyBundle(c)
      PROVE  StateTypeOK'
  BY <1>1, <1>0 DEF ApplyBundle, ContractStatus, shotVars, takeVars, referenceVars, budgetVars, buildVars
<1>2. ASSUME NEW c \in Contracts, ApproveScript(c)
      PROVE  StateTypeOK'
  <2>1. /\ contracts' \in [Contracts -> ContractStatus]
        /\ active' \in Contracts \cup {NoContract}
        /\ projectStage' \in ProjectStage
        /\ outcome' \in Outcome
    BY <1>2, <1>0 DEF ApproveScript, ContractStatus, ProjectStage
  <2>2. /\ stage' \in [Shots -> ShotStage]
        /\ target' \in [Shots -> 0..AuditionTakes]
    BY <1>2, BudgetAssumption DEF ApproveScript, ShotStage
  <2>3. /\ taken' \in [Shots -> SUBSET Takes]
        /\ rejected' \in [Shots -> SUBSET Takes]
        /\ candidates' \in [Shots -> SUBSET Takes]
    BY <1>2 DEF ApproveScript
  <2>4. /\ selected' \in [Shots -> Takes \cup {NoTake}]
        /\ approved' \in [Shots -> Takes \cup {NoTake}]
    BY <1>2 DEF ApproveScript
  <2>5. /\ staleShots' \subseteq Shots
        /\ staleTakes' \subseteq Takes
    BY <1>2 DEF ApproveScript, Registered
  <2>6. /\ staleBuilds' \subseteq Builds
        /\ reviews' \subseteq Builds
        /\ UNCHANGED <<buildState, recipe, damaged>>
    BY <1>2 DEF ApproveScript, MarkStale, Standing, Built, BuildsUsing
  <2>7. UNCHANGED <<job, takeState, ticket, referenceVars, budgetVars>>
    BY <1>2 DEF ApproveScript
  <2> QED  BY <2>1, <2>2, <2>3, <2>4, <2>5, <2>6, <2>7 DEF referenceVars, budgetVars
<1>3. ASSUME NEW r \in References, NEW u \in Subjects \cup {NoSubject},
             NEW superseded \in SUBSET References, WriteReference(r, u, superseded)
      PROVE  StateTypeOK'
  <2>1. /\ staleTakes' \subseteq Takes
        /\ staleShots' \subseteq Shots
        /\ overrunApprovals' \subseteq Overrun
        /\ subjectOf' \in [References -> Subjects \cup {NoSubject}]
        /\ activeRefs' \subseteq References
        /\ outcome' \in Outcome
    <3>1. Affected(u) \subseteq Shots
      BY <1>p DEF Affected
    <3> QED  BY <1>3, <1>0, <3>1 DEF WriteReference, Registered
  <2>2. /\ stage' \in [Shots -> ShotStage]
        /\ target' \in [Shots -> 0..AuditionTakes]
    BY <1>3, BudgetAssumption DEF WriteReference, ShotStage
  <2>3. /\ selected' \in [Shots -> Takes \cup {NoTake}]
        /\ approved' \in [Shots -> Takes \cup {NoTake}]
        /\ candidates' \in [Shots -> SUBSET Takes]
    BY <1>3 DEF WriteReference
  <2>4. /\ staleBuilds' \subseteq Builds
        /\ reviews' \subseteq Builds
        /\ UNCHANGED <<buildState, recipe, damaged>>
    BY <1>3 DEF WriteReference, MarkStale, Standing, Built, BuildsUsing
  <2>5. UNCHANGED <<scriptVars, job, taken, rejected, takeState, ticket, limit, asked, granted,
                    projectStage>>
    BY <1>3 DEF WriteReference
  <2> QED  BY <2>1, <2>2, <2>3, <2>4, <2>5 DEF scriptVars
<1>4. ASSUME NEW s \in Shots, NEW p \in Profiles, NEW w \in Walls, EnqueueShot(s, p, w)
      PROVE  StateTypeOK'
  <2>1. active # NoContract
    BY <1>4 DEF EnqueueShot, Admitted
  <2> QED  BY <1>4, <1>0, <2>1, RequestType, BudgetAssumption DEF EnqueueShot, ShotStage, TakeState, scriptVars,
       referenceVars, budgetVars, buildVars
<1>5. ASSUME NEW s \in Shots, NEW p \in Profiles, NEW w \in Walls, AskOverrun(s, p, w)
      PROVE  StateTypeOK'
  <2>1. [scope |-> Missing(s, p, w), shot |-> s] \in Overrun
    <3>1. Count(s, p) + 1 \in Nat
      BY FS_Subset, FS_CardinalityType, TakesAssumption DEF Count, Registered
    <3>2. Missing(s, p, w) \subseteq Dimension
      BY <3>1 DEF Missing, Dimension
    <3> QED  BY <3>2 DEF Overrun
  <2>2. asked' \subseteq Overrun /\ overrunApprovals' \subseteq Overrun /\ outcome' \in Outcome
    BY <1>5, <2>1, <1>0 DEF AskOverrun
  <2>3. UNCHANGED <<scriptVars, shotVars, takeVars, referenceVars, limit, granted, buildVars,
                    candidates, reviews, projectStage>>
    BY <1>5 DEF AskOverrun
  <2> QED  BY <2>2, <2>3 DEF scriptVars, shotVars, takeVars, referenceVars, buildVars
<1>6. ASSUME NEW o \in overrunApprovals, ApproveOverrun(o)
      PROVE  StateTypeOK'
  BY <1>6, <1>0 DEF ApproveOverrun, Overrun, scriptVars, shotVars, takeVars, referenceVars, buildVars
<1>7. ASSUME NEW l \in Limits, UpdateBudget(l)
      PROVE  StateTypeOK'
  BY <1>7, <1>0 DEF UpdateBudget, scriptVars, shotVars, takeVars, referenceVars, buildVars
<1>8. ASSUME NEW s \in Shots, CompleteJob(s)
      PROVE  StateTypeOK'
  <2>1. job[s] \in Takes
    BY <1>8 DEF CompleteJob, Ending
  <2>2. /\ taken' \in [Shots -> SUBSET Takes]
        /\ candidates' \in [Shots -> SUBSET Takes]
        /\ target' \in [Shots -> 0..AuditionTakes]
        /\ outcome' \in Outcome
    BY <1>8, <1>0, <2>1, BudgetAssumption DEF CompleteJob, Offer, TargetAfter
  <2>3. /\ stage' \in [Shots -> ShotStage]
        /\ job' \in [Shots -> Takes \cup {NoTake}]
        /\ takeState' \in [Takes -> TakeState]
    <3>1. CASE ~Continues(s, TargetAfter(s))
      BY <1>8, <2>1, <3>1 DEF CompleteJob, ShotStage, TakeState
    <3>2. CASE Continues(s, TargetAfter(s))
      <4>1. PICK n \in Takes :
              /\ job' = [job EXCEPT ![s] = n]
              /\ takeState' = [takeState EXCEPT ![job[s]] = "registered", ![n] = "reserved"]
        BY <1>8, <3>2 DEF CompleteJob
      <4>2. stage' = [stage EXCEPT ![s] = "queued"]
        BY <1>8, <3>2 DEF CompleteJob
      <4> QED  BY <4>1, <4>2, <2>1 DEF ShotStage, TakeState
    <3> QED  BY <3>1, <3>2
  <2>4. ticket' \in [Takes -> Ticket]
    <3>1. ASSUME NEW n \in Takes, ticket' = [ticket EXCEPT ![n] = Request(s, "audition")]
          PROVE  ticket' \in [Takes -> Ticket]
      <4>1. active # NoContract
        BY <1>p, <1>8, NoneAssumption DEF JobsPresent, CompleteJob, Ending
      <4> QED  BY <3>1, <4>1, RequestType DEF Profiles
    <3> QED  BY <1>8, <3>1 DEF CompleteJob
  <2>5. UNCHANGED <<scriptVars, rejected, selected, approved, staleShots, staleTakes,
                    referenceVars, budgetVars, buildVars, reviews, projectStage>>
    BY <1>8 DEF CompleteJob
  <2> QED  BY <2>2, <2>3, <2>4, <2>5 DEF scriptVars, referenceVars, budgetVars, buildVars
<1>9. ASSUME NEW s \in Shots, StrandJob(s)
      PROVE  StateTypeOK'
  BY <1>9 DEF StrandJob, TakeState, scriptVars, shotVars, referenceVars, budgetVars, buildVars
<1>10. ASSUME NEW s \in Shots, NEW next \in ShotStage, EndWithoutTake(s, next)
       PROVE  StateTypeOK'
  <2>1. takeState' \in [Takes -> TakeState]
    BY <1>10 DEF EndWithoutTake, TakeState
  <2>2. job' \in [Shots -> Takes \cup {NoTake}] /\ stage' \in [Shots -> ShotStage]
    BY <1>10 DEF EndWithoutTake
  <2>3. target' \in [Shots -> 0..AuditionTakes]
    BY <1>10, BudgetAssumption DEF EndWithoutTake
  <2>4. outcome' \in Outcome
    BY <1>10, <1>0 DEF EndWithoutTake
  <2>5. UNCHANGED <<scriptVars, taken, rejected, selected, approved, staleShots, ticket,
                    staleTakes, referenceVars, budgetVars, buildVars, candidates, reviews,
                    projectStage>>
    BY <1>10 DEF EndWithoutTake
  <2> QED  BY <2>1, <2>2, <2>3, <2>4, <2>5 DEF scriptVars, referenceVars, budgetVars, buildVars
<1>11. ASSUME NEW shots \in SUBSET Shots, NEW pick \in [shots -> Takes],
              NEW verdict \in {"selected", "approved"}, Decide(pick, verdict)
       PROVE  StateTypeOK'
  <2>1. /\ selected' \in [Shots -> Takes \cup {NoTake}]
        /\ approved' \in [Shots -> Takes \cup {NoTake}]
        /\ candidates' \in [Shots -> SUBSET Takes]
    BY <1>11 DEF Decide
  <2>2. /\ target' \in [Shots -> 0..AuditionTakes]
        /\ stage' \in [Shots -> ShotStage]
        /\ outcome' \in Outcome
    BY <1>11, <1>0, BudgetAssumption DEF Decide, ShotStage
  <2>3. /\ staleBuilds' \subseteq Builds
        /\ reviews' \subseteq Builds
        /\ UNCHANGED <<buildState, recipe, damaged>>
    BY <1>11 DEF Decide, MarkStale, Standing, Built, BuildsOver
  <2>4. UNCHANGED <<scriptVars, job, taken, rejected, staleShots, takeVars, referenceVars,
                    budgetVars, projectStage>>
    BY <1>11 DEF Decide
  <2> QED  BY <2>1, <2>2, <2>3, <2>4 DEF scriptVars, takeVars, referenceVars, budgetVars
<1>12. ASSUME NEW s \in Shots, NEW t \in Takes, RejectTake(s, t)
       PROVE  StateTypeOK'
  <2>1. /\ rejected' \in [Shots -> SUBSET Takes]
        /\ selected' \in [Shots -> Takes \cup {NoTake}]
        /\ candidates' \in [Shots -> SUBSET Takes]
    BY <1>12 DEF RejectTake
  <2>2. /\ target' \in [Shots -> 0..AuditionTakes]
        /\ stage' \in [Shots -> ShotStage]
        /\ outcome' \in Outcome
    BY <1>12, <1>0, BudgetAssumption DEF RejectTake, ShotStage
  <2>3. /\ staleBuilds' \subseteq Builds
        /\ reviews' \subseteq Builds
        /\ UNCHANGED <<buildState, recipe, damaged>>
    BY <1>12 DEF RejectTake, MarkStale, Standing, Built, BuildsOver
  <2>4. UNCHANGED <<scriptVars, job, taken, approved, staleShots, takeVars, referenceVars,
                    budgetVars, projectStage>>
    BY <1>12 DEF RejectTake
  <2> QED  BY <2>1, <2>2, <2>3, <2>4 DEF scriptVars, takeVars, referenceVars, budgetVars
<1> HIDE DEF StateTypeOK
<1> QED  BY <1>1, <1>2, <1>3, <1>4, <1>5, <1>6, <1>7, <1>8, <1>9, <1>10, <1>11, <1>12 DEF Requested

\* Jobs and targets stay among the shots of the active contract.
LEMMA RequestedPresent ==
    ASSUME StateTypeOK, JobsPresent, Requested
    PROVE  JobsPresent'
<1>1. ASSUME UNCHANGED <<active, job>>, \A s \in Shots : target'[s] \in {target[s], 0}
      PROVE  JobsPresent'
  BY <1>1 DEF JobsPresent, Present
<1>2. ASSUME UNCHANGED <<scriptVars, shotVars>>
      PROVE  JobsPresent'
  BY <1>2, <1>1 DEF scriptVars, shotVars
<1>3. ASSUME NEW s \in Shots, s \in Present, active' = active,
             \A x \in Shots \ {s} : job'[x] = job[x] /\ target'[x] = target[x]
      PROVE  JobsPresent'
  BY <1>3 DEF JobsPresent, Present
<1>4. ASSUME NEW c \in Contracts, ApplyBundle(c)
      PROVE  JobsPresent'
  BY <1>4, <1>1 DEF ApplyBundle, shotVars
<1>5. ASSUME NEW c \in Contracts, ApproveScript(c)
      PROVE  JobsPresent'
  <2>1. active' = c /\ Present' = Bundle[c].shots
    BY <1>5, NoneAssumption DEF ApproveScript, Present
  <2>2. \A s \in Shots : job'[s] = NoTake
    BY <1>5 DEF ApproveScript, Busy
  <2>3. ASSUME NEW s \in Shots, target'[s] # 0
        PROVE  s \in Bundle[c].shots
    <3>1. s \notin (Present \cup Bundle[c].shots) \ SameGeneration(c) /\ target[s] # 0
      BY <1>5, <2>3 DEF ApproveScript
    <3>2. s \in Present
      BY <3>1 DEF JobsPresent
    <3> QED  BY <3>1, <3>2 DEF SameGeneration
  <2> QED  BY <2>1, <2>2, <2>3 DEF JobsPresent
<1>6. ASSUME NEW r \in References, NEW u \in Subjects \cup {NoSubject},
             NEW superseded \in SUBSET References, WriteReference(r, u, superseded)
      PROVE  JobsPresent'
  <2>1. UNCHANGED <<active, job>> /\ \A s \in Shots : target'[s] \in {target[s], 0}
    BY <1>6 DEF WriteReference, scriptVars
  <2> QED  BY <2>1, <1>1
<1>7. ASSUME NEW s \in Shots, NEW p \in Profiles, NEW w \in Walls, EnqueueShot(s, p, w)
      PROVE  JobsPresent'
  <2>1. s \in Present /\ active' = active
    BY <1>7 DEF EnqueueShot, Admitted, scriptVars
  <2>2. \A x \in Shots \ {s} : job'[x] = job[x] /\ target'[x] = target[x]
    BY <1>7 DEF EnqueueShot, StateTypeOK
  <2> QED  BY <2>1, <2>2, <1>3
<1>8. ASSUME NEW s \in Shots, NEW p \in Profiles, NEW w \in Walls, AskOverrun(s, p, w)
      PROVE  JobsPresent'
  BY <1>8, <1>2 DEF AskOverrun
<1>9. ASSUME NEW o \in overrunApprovals, ApproveOverrun(o)
      PROVE  JobsPresent'
  BY <1>9, <1>2 DEF ApproveOverrun
<1>10. ASSUME NEW l \in Limits, UpdateBudget(l)
       PROVE  JobsPresent'
  BY <1>10, <1>2 DEF UpdateBudget
<1>11. ASSUME NEW s \in Shots, CompleteJob(s)
       PROVE  JobsPresent'
  <2>1. s \in Present /\ active' = active
    BY <1>11 DEF CompleteJob, Ending, JobsPresent, scriptVars
  <2>2. \A x \in Shots \ {s} : job'[x] = job[x] /\ target'[x] = target[x]
    BY <1>11 DEF CompleteJob, StateTypeOK
  <2> QED  BY <2>1, <2>2, <1>3
<1>12. ASSUME NEW s \in Shots, StrandJob(s)
       PROVE  JobsPresent'
  BY <1>12, <1>2 DEF StrandJob
<1>13. ASSUME NEW s \in Shots, NEW next \in ShotStage, EndWithoutTake(s, next)
       PROVE  JobsPresent'
  <2>1. s \in Present /\ active' = active
    BY <1>13 DEF EndWithoutTake, Ending, JobsPresent, scriptVars
  <2>2. \A x \in Shots \ {s} : job'[x] = job[x] /\ target'[x] = target[x]
    BY <1>13 DEF EndWithoutTake, StateTypeOK
  <2> QED  BY <2>1, <2>2, <1>3
<1>14. ASSUME NEW shots \in SUBSET Shots, NEW pick \in [shots -> Takes],
              NEW verdict \in {"selected", "approved"}, Decide(pick, verdict)
       PROVE  JobsPresent'
  <2>1. UNCHANGED <<active, job>> /\ \A s \in Shots : target'[s] \in {target[s], 0}
    BY <1>14 DEF Decide, scriptVars
  <2> QED  BY <2>1, <1>1
<1>15. ASSUME NEW s \in Shots, NEW t \in Takes, RejectTake(s, t)
       PROVE  JobsPresent'
  <2>1. UNCHANGED <<active, job>> /\ \A x \in Shots : target'[x] \in {target[x], 0}
    BY <1>15 DEF RejectTake, scriptVars, StateTypeOK
  <2> QED  BY <2>1, <1>1
<1> QED  BY <1>4, <1>5, <1>6, <1>7, <1>8, <1>9, <1>10, <1>11, <1>12, <1>13, <1>14, <1>15
         DEF Requested

\* The auditions resumed at startup.
LEMMA ResumeType ==
    ASSUME StateTypeOK, JobsPresent, NEW s \in Shots, ResumeAudition(s)
    PROVE  StateTypeOK' /\ JobsPresent'
<1> USE DEF StateTypeOK
<1>1. s \in Present /\ active # NoContract
  <2>1. s \in Present
    BY DEF ResumeAudition, Continues, JobsPresent
  <2> QED  BY <2>1 DEF Present
<1>2. Request(s, "audition") \in Ticket
  BY <1>1, RequestType DEF Profiles
<1>3. /\ job' \in [Shots -> Takes \cup {NoTake}]
      /\ stage' \in [Shots -> ShotStage]
      /\ takeState' \in [Takes -> TakeState]
  BY DEF ResumeAudition, ShotStage, TakeState
<1>4. ticket' \in [Takes -> Ticket]
  BY <1>2 DEF ResumeAudition
<1>5. target' \in [Shots -> 0..AuditionTakes] /\ outcome' \in Outcome
  BY BudgetAssumption, RefreshedType DEF ResumeAudition
<1>6. UNCHANGED <<scriptVars, taken, rejected, selected, approved, staleShots, staleTakes,
                  referenceVars, budgetVars, buildVars, candidates, reviews, projectStage>>
  BY DEF ResumeAudition
<1>7. StateTypeOK'
  BY <1>3, <1>4, <1>5, <1>6 DEF scriptVars, referenceVars, budgetVars, buildVars
<1>8. \A x \in Shots \ {s} : job'[x] = job[x] /\ target'[x] = target[x]
  BY DEF ResumeAudition
<1>9. JobsPresent'
  BY <1>1, <1>6, <1>8 DEF JobsPresent, Present, scriptVars
<1> QED  BY <1>7, <1>9

-----------------------------------------------------------------------------
(* One build at a time                                                      *)

OneActive == \A a, b \in ActiveBuilds : a = b

LEMMA FunctionIsSeq ==
    ASSUME NEW S, NEW n \in Nat, NEW f \in [1..n -> S]
    PROVE  f \in Seq(S) /\ Len(f) = n
  OBVIOUS

LEMMA SingletonOf ==
    ASSUME NEW b, NEW f \in [1..1 -> {b}]
    PROVE  f = <<b>>
<1>1. ASSUME NEW S, NEW s \in Seq(S), NEW a \in S, Len(s) = 1, s[1] = a
      PROVE  s = <<a>>
  BY <1>1
<1>2. f \in Seq({b})
  BY FunctionIsSeq
<1>3. Len(f) = 1
  BY FunctionIsSeq
<1>4. f[1] = b /\ b \in {b}
  OBVIOUS
<1> QED  BY <1>1, <1>2, <1>3, <1>4

LEMMA PairOf ==
    ASSUME NEW S, NEW a \in S, NEW b \in S
    PROVE  Append(<<a>>, b) = <<a, b>>
<1>1. ASSUME NEW s \in Seq(S), Len(s) = 2, s[1] = a, s[2] = b
      PROVE  s = <<a, b>>
  BY <1>1
<1>2. Append(<<a>>, b) \in Seq(S) /\ Len(Append(<<a>>, b)) = 2
  OBVIOUS
<1>3. Append(<<a>>, b)[1] = a
  OBVIOUS
<1>4. Append(<<a>>, b)[2] = b
  OBVIOUS
<1> QED  BY <1>1, <1>2, <1>3, <1>4

\* Recovery sends at most one build.
LEMMA RecoveredRequests ==
    ASSUME OneActive, RecoverBuilds
    PROVE  \/ Resent = {} /\ requests' = <<>>
           \/ \E b \in Resent : Resent = {b} /\ requests' = <<b>>
<1>1. PICK order \in [1..Cardinality(Resent) -> Resent] :
        Resent = {order[i] : i \in DOMAIN order} /\ requests' = order
  BY DEF RecoverBuilds
<1>2. CASE Resent = {}
  <2>1. Cardinality(Resent) = 0
    BY <1>2, FS_EmptySet
  <2>2. order \in [1..0 -> Resent]
    BY <1>1, <2>1
  <2>3. order = <<>>
    BY <2>2
  <2> QED  BY <1>1, <1>2, <2>3
<1>3. CASE Resent # {}
  <2>1. PICK b \in Resent : TRUE
    BY <1>3
  <2>2. Resent = {b}
    BY DEF OneActive, Resent
  <2>3. Cardinality(Resent) = 1
    BY <2>2, FS_Singleton
  <2>4. order \in [1..1 -> {b}]
    BY <1>1, <2>2, <2>3
  <2> QED  BY <1>1, <2>1, <2>2, <2>4, SingletonOf
<1> QED  BY <1>2, <1>3

\* Recovery at startup.
LEMMA BootType ==
    ASSUME TypeOK, JobsPresent, OneActive, Boot
    PROVE  TypeOK' /\ JobsPresent'
<1> USE DEF StateTypeOK, TypeOK
<1>1. \A s \in Stranded : job[s] \in Takes
  BY DEF Stranded, Busy
<1>2. /\ taken' \in [Shots -> SUBSET Takes]
      /\ candidates' \in [Shots -> SUBSET Takes]
      /\ job' \in [Shots -> Takes \cup {NoTake}]
  BY <1>1 DEF Boot, RecoverTerminalJobs, Offer
<1>3. /\ stage' \in [Shots -> ShotStage]
      /\ takeState' \in [Takes -> TakeState]
  BY DEF Boot, RecoverTerminalJobs, ShotStage, TakeState
<1>4. target' \in [Shots -> 0..AuditionTakes]
  BY BudgetAssumption DEF Boot, RecoverTerminalJobs, TargetAfter
<1>5. outcome' \in Outcome
  BY RefreshedType DEF Boot
<1>6. /\ buildState' \in [Builds -> BuildStatus]
      /\ staleBuilds' \subseteq Builds
      /\ projectStage' \in ProjectStage
  BY DEF Boot, RecoverBuilds, BuildStatus, ProjectStage, Lost, ActiveBuilds
<1>7. requests' \in Seq(Builds)
  <2>1. Resent \subseteq Builds
    BY DEF Resent, ActiveBuilds
  <2>2. requests' = <<>> \/ \E b \in Builds : requests' = <<b>>
    BY <2>1, RecoveredRequests DEF Boot
  <2>3. <<>> \in Seq(Builds) /\ \A b \in Builds : <<b>> \in Seq(Builds)
    OBVIOUS
  <2> QED  BY <2>2, <2>3
<1>8. UNCHANGED <<scriptVars, rejected, selected, approved, staleShots, ticket, staleTakes,
                  referenceVars, budgetVars, recipe, damaged, reviews, crashes>>
  BY DEF Boot
<1>9. encoding' = NoBuild /\ events' = <<>> /\ worker' = "recovering"
  BY DEF Boot
<1>10. TypeOK'
  BY <1>2, <1>3, <1>4, <1>5, <1>6, <1>7, <1>8, <1>9 DEF scriptVars, referenceVars, budgetVars
<1>11. \A s \in Shots : job'[s] \in {job[s], NoTake} /\ target'[s] \in {target[s], 0}
  BY DEF Boot, RecoverTerminalJobs, TargetAfter
<1>12. JobsPresent'
  BY <1>8, <1>11 DEF JobsPresent, Present, scriptVars
<1> QED  BY <1>10, <1>12

\* Requests start and end no build.
LEMMA RequestedBuilds ==
    ASSUME Requested
    PROVE  UNCHANGED <<buildState, recipe, damaged>>
<1>1. ASSUME UNCHANGED buildVars
      PROVE  UNCHANGED <<buildState, recipe, damaged>>
  BY <1>1 DEF buildVars
<1>2. ASSUME NEW bs, MarkStale(bs)
      PROVE  UNCHANGED <<buildState, recipe, damaged>>
  BY <1>2 DEF MarkStale
<1>3. ASSUME NEW c \in Contracts, ApplyBundle(c) \/ ApproveScript(c)
      PROVE  UNCHANGED <<buildState, recipe, damaged>>
  BY <1>1, <1>2, <1>3 DEF ApplyBundle, ApproveScript
<1>4. ASSUME NEW r, NEW u, NEW superseded, WriteReference(r, u, superseded)
      PROVE  UNCHANGED <<buildState, recipe, damaged>>
  BY <1>2, <1>4 DEF WriteReference
<1>5. ASSUME NEW s \in Shots, NEW p, NEW w, EnqueueShot(s, p, w) \/ AskOverrun(s, p, w)
      PROVE  UNCHANGED <<buildState, recipe, damaged>>
  BY <1>1, <1>5 DEF EnqueueShot, AskOverrun
<1>6. ASSUME NEW o, ApproveOverrun(o) \/ UpdateBudget(o)
      PROVE  UNCHANGED <<buildState, recipe, damaged>>
  BY <1>1, <1>6 DEF ApproveOverrun, UpdateBudget
<1>7. ASSUME NEW s \in Shots, NEW next, CompleteJob(s) \/ StrandJob(s) \/ EndWithoutTake(s, next)
      PROVE  UNCHANGED <<buildState, recipe, damaged>>
  BY <1>1, <1>7 DEF CompleteJob, StrandJob, EndWithoutTake
<1>8. ASSUME NEW pick, NEW verdict, Decide(pick, verdict)
      PROVE  UNCHANGED <<buildState, recipe, damaged>>
  BY <1>2, <1>8 DEF Decide
<1>9. ASSUME NEW s, NEW t, RejectTake(s, t)
      PROVE  UNCHANGED <<buildState, recipe, damaged>>
  BY <1>2, <1>9 DEF RejectTake
<1> QED  BY <1>3, <1>4, <1>5, <1>6, <1>7, <1>8, <1>9 DEF Requested

Typed == TypeOK /\ JobsPresent /\ OneActive

\* What a step does to the process variables.
LEMMA StepTyped ==
    ASSUME Typed, [Next]_vars
    PROVE  Typed'
<1> USE DEF Typed
<1>0. StateTypeOK /\ crashes \in 0..MaxCrashes
  BY DEF TypeOK
<1>a. ASSUME UNCHANGED buildState
      PROVE  OneActive'
  BY <1>a DEF OneActive, ActiveBuilds
<1>b. ASSUME UNCHANGED <<outsideBuilds>>
      PROVE  JobsPresent'
  BY <1>b DEF outsideBuilds, scriptVars, shotVars, JobsPresent, Present
<1>c. ASSUME UNCHANGED <<outsideBuilds>>,
             /\ reviews' \subseteq Builds
             /\ projectStage' \in ProjectStage
             /\ outcome' \in Outcome
             /\ buildState' \in [Builds -> BuildStatus]
             /\ recipe' \in [Builds -> Recipe]
             /\ staleBuilds' \subseteq Builds
             /\ damaged' \subseteq Builds
      PROVE  StateTypeOK'
  BY <1>c, <1>0 DEF outsideBuilds, StateTypeOK, scriptVars, shotVars, takeVars, referenceVars,
     budgetVars
<1>d. ASSUME UNCHANGED stateVars
      PROVE  StateTypeOK' /\ JobsPresent' /\ OneActive'
  <2>1. StateTypeOK'
    BY <1>d, <1>0 DEF stateVars, StateTypeOK, scriptVars, shotVars, takeVars, referenceVars,
       budgetVars, buildVars
  <2>2. JobsPresent' /\ OneActive'
    BY <1>d DEF stateVars, scriptVars, shotVars, buildVars, JobsPresent, Present, OneActive,
       ActiveBuilds
  <2> QED  BY <2>1, <2>2
<1>e. ASSUME StateTypeOK', UNCHANGED processVars
      PROVE  TypeOK'
  BY <1>e DEF TypeOK, processVars
<1>f. \A o \in Outcome : Refreshed(o) => outcome' \in Outcome
  BY RefreshedType
<1>1. CASE Reviewing
  <2>1. Requested /\ UNCHANGED processVars
    BY <1>0, <1>1, EveryRequest
  <2>2. StateTypeOK' /\ JobsPresent' /\ OneActive'
    BY <2>1, <1>0, <1>a, RequestedType, RequestedPresent, RequestedBuilds
  <2> QED  BY <2>1, <2>2, <1>e
<1>2. ASSUME NEW b \in Builds, NEW kind \in Kinds, NEW chosen \in SUBSET Shots,
             Build(b, kind, chosen)
      PROVE  Typed'
  <2>1. Plan(kind, chosen) \in Recipe
    <3>1. active \in Contracts
      BY <1>0, <1>2 DEF Build, StateTypeOK
    <3>2. \A s \in Shots : Current(kind, s) \in Takes \cup {NoTake}
      BY <1>0 DEF Current, StateTypeOK
    <3>3. \A s \in Shots : Prints(s) \subseteq References
      BY <1>0 DEF Prints, Fingerprint, StateTypeOK
    <3> QED  BY <3>1, <3>2, <3>3 DEF Plan, Recipe
  <2>2. UNCHANGED outsideBuilds
    BY <1>2 DEF Build, StartBuild
  <2>3. recipe' \in [Builds -> Recipe]
    BY <1>2, <1>0, <2>1 DEF Build, StartBuild, StateTypeOK
  <2>4. /\ buildState' \in [Builds -> BuildStatus]
        /\ projectStage' \in ProjectStage
        /\ outcome' \in Outcome
        /\ UNCHANGED <<staleBuilds, damaged, reviews>>
    BY <1>2, <1>0, <1>f DEF Build, StartBuild, StateTypeOK, BuildStatus, ProjectStage
  <2>5. StateTypeOK'
    BY <1>0, <1>c, <2>2, <2>3, <2>4 DEF StateTypeOK
  <2>6. OneActive'
    BY <1>2, <1>0 DEF Build, StartBuild, OneActive, ActiveBuilds, StateTypeOK
  <2>7. requests' \in Seq(Builds) /\ UNCHANGED <<worker, encoding, events, crashes>>
    BY <1>2 DEF Build, TypeOK
  <2> QED  BY <1>b, <2>2, <2>5, <2>6, <2>7 DEF TypeOK
<1>3. ASSUME NEW b \in Builds, ApproveBuildReview(b)
      PROVE  Typed'
  <2>1. /\ UNCHANGED <<outsideBuilds, recipe, staleBuilds, damaged>>
        /\ buildState' = [buildState EXCEPT ![b] = "approved"]
        /\ reviews' = reviews \ {b}
        /\ UNCHANGED processVars
    BY <1>3 DEF ApproveBuildReview
  <2>2. projectStage' \in ProjectStage /\ outcome' \in Outcome
    BY <1>3, <1>f DEF ApproveBuildReview, ProjectStage, Outcome
  <2>3. buildState' \in [Builds -> BuildStatus]
    BY <2>1, <1>0 DEF StateTypeOK, BuildStatus
  <2>4. StateTypeOK'
    BY <1>0, <1>c, <2>1, <2>2, <2>3 DEF StateTypeOK
  <2>5. OneActive'
    BY <2>1, <1>0 DEF OneActive, ActiveBuilds, StateTypeOK
  <2> QED  BY <1>b, <1>e, <2>1, <2>4, <2>5
<1>4. ASSUME NEW b \in Builds, DamageRecipe(b)
      PROVE  Typed'
  <2>1. /\ UNCHANGED <<outsideBuilds, buildState, recipe, staleBuilds, reviews, projectStage,
                       outcome, processVars>>
        /\ damaged' \subseteq Builds
    BY <1>4, <1>0 DEF DamageRecipe, StateTypeOK
  <2>2. StateTypeOK'
    BY <1>0, <1>c, <2>1 DEF StateTypeOK
  <2> QED  BY <1>a, <1>b, <1>e, <2>1, <2>2
<1>5. ASSUME NEW b \in Builds, PollStarted(b) \/ PollCompleted(b) \/ PollFailed(b)
      PROVE  Typed'
  <2>1. /\ UNCHANGED <<outsideBuilds, worker, requests, encoding, crashes>>
        /\ b \in ActiveBuilds
        /\ events # <<>> /\ events' = Tail(events)
        /\ \E status \in {"running", "failed", "needs_review"} :
              buildState' = [buildState EXCEPT ![b] = status]
    BY <1>5 DEF PollStarted, PollCompleted, PollFailed, Polled, Fail, AskReview
  <2>2. /\ projectStage' \in ProjectStage
        /\ outcome' \in Outcome
        /\ staleBuilds' \subseteq Builds
        /\ reviews' \subseteq Builds
        /\ UNCHANGED <<recipe, damaged>>
    BY <1>5, <1>0, <1>f DEF PollStarted, PollCompleted, PollFailed, Fail, AskReview, StateTypeOK,
       ProjectStage
  <2>3. buildState' \in [Builds -> BuildStatus]
    BY <2>1, <1>0 DEF StateTypeOK, BuildStatus
  <2>4. StateTypeOK'
    BY <1>0, <1>c, <2>1, <2>2, <2>3 DEF StateTypeOK
  <2>5. OneActive'
    BY <2>1, <1>0 DEF OneActive, ActiveBuilds, StateTypeOK
  <2>6. events' \in Seq(Event)
    BY <2>1 DEF TypeOK
  <2> QED  BY <1>b, <2>1, <2>4, <2>5, <2>6 DEF TypeOK
<1>6. CASE ExecutorStarts
  <2>1. /\ UNCHANGED <<stateVars, worker, crashes>>
        /\ encoding' \in Builds /\ requests' \in Seq(Builds)
        /\ Head(requests) \in Builds
    BY <1>6 DEF ExecutorStarts, TypeOK
  <2>2. [kind |-> "started", build |-> Head(requests)] \in Event
    BY <2>1 DEF Event
  <2>3. events' \in Seq(Event)
    BY <1>6, <2>2 DEF ExecutorStarts, TypeOK
  <2> QED  BY <1>d, <2>1, <2>3 DEF TypeOK
<1>7. ASSUME NEW kind \in {"completed", "failed"}, ExecutorEnds(kind)
      PROVE  Typed'
  <2>1. /\ UNCHANGED <<stateVars, worker, requests, crashes>>
        /\ encoding' = NoBuild
        /\ encoding \in Builds
    BY <1>7 DEF ExecutorEnds, TypeOK
  <2>2. [kind |-> kind, build |-> encoding] \in Event
    BY <2>1 DEF Event
  <2>3. events' \in Seq(Event)
    BY <1>7, <2>2 DEF ExecutorEnds, TypeOK
  <2> QED  BY <1>d, <2>1, <2>3 DEF TypeOK
<1>8. CASE Crash
  <2>1. /\ worker' = "down" /\ requests' = <<>> /\ encoding' = NoBuild /\ events' = <<>>
        /\ crashes' \in 0..MaxCrashes
    BY <1>8, <1>0, BoundsAssumption DEF Crash
  <2>2. StateTypeOK' /\ JobsPresent' /\ OneActive'
    <3>1. CASE UNCHANGED stateVars
      BY <3>1, <1>d
    <3>2. ASSUME NEW s \in Shots, StrandJob(s)
          PROVE  StateTypeOK' /\ JobsPresent' /\ OneActive'
      <4>1. Requested
        BY <3>2 DEF Requested
      <4> QED  BY <4>1, <1>0, <1>a, RequestedType, RequestedPresent, RequestedBuilds
    <3> QED  BY <1>8, <3>1, <3>2 DEF Crash
  <2>3. <<>> \in Seq(Builds) /\ <<>> \in Seq(Event)
    OBVIOUS
  <2> QED  BY <2>1, <2>2, <2>3 DEF TypeOK
<1>9. CASE Boot
  <2>1. TypeOK' /\ JobsPresent'
    BY <1>9, BootType
  <2>2. ActiveBuilds' \subseteq ActiveBuilds
    BY <1>9 DEF Boot, RecoverBuilds, ActiveBuilds
  <2> QED  BY <2>1, <2>2 DEF OneActive
<1>10. ASSUME NEW s \in Shots, worker = "recovering", ResumeAudition(s), UNCHANGED processVars
       PROVE  Typed'
  <2>1. StateTypeOK' /\ JobsPresent'
    BY <1>10, <1>0, ResumeType
  <2>2. UNCHANGED buildState
    BY <1>10 DEF ResumeAudition, buildVars
  <2> QED  BY <1>10, <2>1, <2>2, <1>a, <1>e
<1>11. CASE BootDone
  BY <1>11, <1>d DEF BootDone, TypeOK
<1>12. CASE UNCHANGED vars
  BY <1>12, <1>d, <1>e DEF vars
<1> QED  BY <1>1, <1>2, <1>3, <1>4, <1>5, <1>6, <1>7, <1>8, <1>9, <1>10, <1>11, <1>12
         DEF Next, BootAudition

LEMMA InitTyped ==
    ASSUME Init
    PROVE  Typed
<1>1. NoTicket \in Ticket
  <2>1. PICK v \in Versions : v = CHOOSE x \in Versions : TRUE
    BY VersionsAssumption, Zenon
  <2>2. NoTicket = [shot |-> NoShot, profile |-> "audition", generation |-> v, prints |-> {}]
    BY <2>1, Zenon DEF NoTicket
  <2> QED  BY <2>2 DEF Ticket, Profiles
<1>2. NoRecipe \in Recipe
  BY DEF NoRecipe, Recipe, Kinds
<1>3. StateTypeOK
  BY <1>1, <1>2, BudgetAssumption DEF Init, StateInit, StateTypeOK, ContractStatus, ShotStage,
     TakeState, ProjectStage, Outcome, BuildStatus
<1>4. TypeOK
  BY <1>3, BoundsAssumption DEF Init, TypeOK
<1>5. JobsPresent /\ OneActive
  BY DEF Init, StateInit, JobsPresent, OneActive, ActiveBuilds
<1> QED  BY <1>4, <1>5 DEF Typed

\* Every reachable state is well typed, for any instance.
THEOREM TypeCorrect == Spec => []TypeOK
<1>1. Init => Typed
  BY InitTyped
<1>2. Typed /\ [Next]_vars => Typed'
  BY StepTyped
<1>3. Typed => TypeOK
  BY DEF Typed
<1> QED  BY <1>1, <1>2, <1>3, PTL DEF Spec
=============================================================================
