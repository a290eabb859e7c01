--------------------------- MODULE StandingProofs ---------------------------
(***************************************************************************)
(* Proofs about the builds of a project: what stands rests on what is      *)
(* decided now, a review is pending exactly for the cut that awaits it,    *)
(* and the executor works on nothing the state has given up.               *)
(***************************************************************************)
EXTENDS TakesProofs

-----------------------------------------------------------------------------
(* Reviews                                                                  *)

LEMMA MarkStaleReviews ==
    ASSUME ReviewsAreOpen, NEW bs, MarkStale(bs)
    PROVE  ReviewsAreOpen'
  BY DEF MarkStale, ReviewsAreOpen

LEMMA SameReviews ==
    ASSUME ReviewsAreOpen, UNCHANGED <<buildState, staleBuilds, reviews>>
    PROVE  ReviewsAreOpen'
  BY DEF ReviewsAreOpen

LEMMA RequestedReviews ==
    ASSUME ReviewsAreOpen, Requested
    PROVE  ReviewsAreOpen'
<1>1. ASSUME NEW c \in Contracts, ApplyBundle(c) \/ ApproveScript(c)
      PROVE  ReviewsAreOpen'
  BY <1>1, MarkStaleReviews, SameReviews DEF ApplyBundle, ApproveScript, buildVars
<1>2. ASSUME NEW r, NEW u, NEW superseded, WriteReference(r, u, superseded)
      PROVE  ReviewsAreOpen'
  BY <1>2, MarkStaleReviews DEF WriteReference
<1>3. ASSUME NEW s \in Shots, NEW p, NEW w, EnqueueShot(s, p, w) \/ AskOverrun(s, p, w)
      PROVE  ReviewsAreOpen'
  BY <1>3, SameReviews DEF EnqueueShot, AskOverrun, buildVars
<1>4. ASSUME NEW o, ApproveOverrun(o) \/ UpdateBudget(o)
      PROVE  ReviewsAreOpen'
  BY <1>4, SameReviews DEF ApproveOverrun, UpdateBudget, buildVars
<1>5. ASSUME NEW s \in Shots, NEW next, CompleteJob(s) \/ StrandJob(s) \/ EndWithoutTake(s, next)
      PROVE  ReviewsAreOpen'
  BY <1>5, SameReviews DEF CompleteJob, StrandJob, EndWithoutTake, buildVars
<1>6. ASSUME NEW pick, NEW verdict, Decide(pick, verdict)
      PROVE  ReviewsAreOpen'
  BY <1>6, MarkStaleReviews DEF Decide
<1>7. ASSUME NEW s, NEW t, RejectTake(s, t)
      PROVE  ReviewsAreOpen'
  BY <1>7, MarkStaleReviews DEF RejectTake
<1> QED  BY <1>1, <1>2, <1>3, <1>4, <1>5, <1>6, <1>7 DEF Requested

LEMMA StepReviews ==
    ASSUME StateTypeOK, ReviewsAreOpen, [Next]_vars
    PROVE  ReviewsAreOpen'
<1> USE DEF StateTypeOK
<1>1. CASE Reviewing
  BY <1>1, EveryRequest, RequestedReviews
<1>2. ASSUME NEW b \in Builds, NEW kind \in Kinds, NEW chosen \in SUBSET Shots,
             Build(b, kind, chosen)
      PROVE  ReviewsAreOpen'
  BY <1>2 DEF Build, StartBuild, ReviewsAreOpen
<1>3. ASSUME NEW b \in Builds, ApproveBuildReview(b)
      PROVE  ReviewsAreOpen'
  BY <1>3 DEF ApproveBuildReview, ReviewsAreOpen
<1>4. ASSUME NEW b \in Builds, DamageRecipe(b)
      PROVE  ReviewsAreOpen'
  BY <1>4, SameReviews DEF DamageRecipe
<1>5. ASSUME NEW b \in Builds, PollStarted(b)
      PROVE  ReviewsAreOpen'
  BY <1>5 DEF PollStarted, Polled, ActiveBuilds, ReviewsAreOpen
<1>6. ASSUME NEW b \in Builds, b \in ActiveBuilds, AskReview(b)
      PROVE  ReviewsAreOpen'
  BY <1>6 DEF AskReview, ReviewsAreOpen
<1>7. ASSUME NEW b \in Builds, NEW stale, b \in ActiveBuilds, Fail(b, stale)
      PROVE  ReviewsAreOpen'
  <2>1. buildState[b] # "needs_review"
    BY <1>7 DEF ActiveBuilds
  <2>2. \A a \in Builds \ {b} : a \in staleBuilds' <=> a \in staleBuilds
    BY <1>7 DEF Fail
  <2>3. buildState' = [buildState EXCEPT ![b] = "failed"] /\ UNCHANGED reviews
    BY <1>7 DEF Fail
  <2> QED  BY <2>1, <2>2, <2>3 DEF ReviewsAreOpen
<1>8. ASSUME NEW b \in Builds, PollCompleted(b) \/ PollFailed(b)
      PROVE  ReviewsAreOpen'
  <2>1. b \in ActiveBuilds
    BY <1>8 DEF PollCompleted, PollFailed, Polled
  <2>2. AskReview(b) \/ Fail(b, TRUE) \/ Fail(b, FALSE)
    BY <1>8 DEF PollCompleted, PollFailed
  <2> QED  BY <1>6, <1>7, <2>1, <2>2
<1>9. ASSUME UNCHANGED stateVars
      PROVE  ReviewsAreOpen'
  BY <1>9, SameReviews DEF stateVars, buildVars
<1>10. ASSUME NEW kind, ExecutorStarts \/ ExecutorEnds(kind) \/ BootDone
       PROVE  ReviewsAreOpen'
  BY <1>9, <1>10 DEF ExecutorStarts, ExecutorEnds, BootDone
<1>11. CASE Crash
  BY <1>9, <1>11, SameReviews DEF Crash, StrandJob, buildVars
<1>12. CASE Boot
  <2>1. /\ buildState' = [b \in Builds |-> IF b \in Lost THEN "failed" ELSE buildState[b]]
        /\ staleBuilds' = (staleBuilds \ Lost) \cup (Lost \ damaged)
        /\ UNCHANGED reviews
    BY <1>12 DEF Boot, RecoverBuilds
  <2>2. \A b \in Lost : buildState[b] # "needs_review"
    BY DEF Lost, ActiveBuilds
  <2> QED  BY <2>1, <2>2 DEF ReviewsAreOpen
<1>13. ASSUME NEW s \in Shots, ResumeAudition(s)
       PROVE  ReviewsAreOpen'
  BY <1>13, SameReviews DEF ResumeAudition, buildVars
<1>14. CASE UNCHANGED vars
  BY <1>9, <1>14 DEF vars
<1> QED  BY <1>1, <1>2, <1>3, <1>4, <1>5, <1>8, <1>10, <1>11, <1>12, <1>13, <1>14
         DEF Next, BootAudition

\* A review is pending exactly for the cut that awaits it: never for a stale one,
\* whatever marks it stale, and never missing after a restart.
THEOREM ReviewsOpen == Spec => []ReviewsAreOpen
<1>1. Init => ReviewsAreOpen
  BY DEF Init, StateInit, ReviewsAreOpen
<1>2. TypeOK /\ ReviewsAreOpen /\ [Next]_vars => ReviewsAreOpen'
  BY StepReviews DEF TypeOK
<1> QED  BY <1>1, <1>2, TypeCorrect, PTL DEF Spec

-----------------------------------------------------------------------------
(* What a standing build rests on                                           *)

\* What a build shows of shot s is current.
Rests(b, s) == recipe[b].inputs[s] # NoTake =>
                 /\ s \in Present
                 /\ recipe[b].inputs[s] = Current(recipe[b].kind, s)
                 /\ recipe[b].inputs[s] \notin staleTakes
                 /\ recipe[b].prints[s] = Prints(s)

LEMMA SameRests ==
    ASSUME FreshBuildsAreCurrent,
           UNCHANGED <<active, selected, approved, staleTakes, referenceVars, buildState, recipe,
                       staleBuilds>>
    PROVE  FreshBuildsAreCurrent'
  BY DEF FreshBuildsAreCurrent, Standing, Built, RestsOnCurrent, Current, Present, Prints,
     Fingerprint, referenceVars

\* Builds that MarkStale leaves standing and that show nothing that changed.
LEMMA StaleRests ==
    ASSUME FreshBuildsAreCurrent, NEW bs, MarkStale(bs),
           \A b \in Standing \ bs : \A s \in Shots : Rests(b, s) => Rests(b, s)'
    PROVE  FreshBuildsAreCurrent'
<1>1. UNCHANGED <<buildState, recipe>> /\ Standing' = Standing \ bs
  BY DEF MarkStale, Standing, Built
<1>2. \A b \in Standing : buildState[b] # "failed" => \A s \in Shots : Rests(b, s)
  BY DEF FreshBuildsAreCurrent, RestsOnCurrent, Rests
<1>3. \A b \in Standing' : buildState'[b] # "failed" => \A s \in Shots : Rests(b, s)'
  BY <1>1, <1>2
<1> QED  BY <1>3 DEF FreshBuildsAreCurrent, RestsOnCurrent, Rests

\* The takes of a shot are takes of no other.
LEMMA DecidedTakes ==
    ASSUME TakesOK, NEW s \in Shots, NEW kind, Current(kind, s) # NoTake
    PROVE  /\ Current(kind, s) \in Registered(s)
           /\ \A x \in Shots \ {s} : Current(kind, s) \notin Registered(x)
<1>1. Current(kind, s) \in Usable(s) /\ taken[s] \subseteq Registered(s)
  BY DEF TakesOK, ShotOK, DecisionOK, ListOK, Current
<1> QED  BY <1>1 DEF Usable, Registered

LEMMA ApproveScriptRests ==
    ASSUME StateTypeOK, TakesOK, FreshBuildsAreCurrent, NEW c \in Contracts, ApproveScript(c)
    PROVE  FreshBuildsAreCurrent'
<1> USE DEF StateTypeOK
<1> DEFINE concerned == Present \cup Bundle[c].shots
           changed == concerned \ SameGeneration(c)
           recut == concerned \ SameCut(c)
<1>1. /\ UNCHANGED <<recipe, referenceVars>> /\ active' = c
      /\ selected' = [s \in Shots |-> IF s \in changed THEN NoTake ELSE selected[s]]
      /\ approved' = [s \in Shots |-> IF s \in changed THEN NoTake ELSE approved[s]]
      /\ staleTakes' = staleTakes \cup UNION {Registered(s) : s \in changed}
  BY DEF ApproveScript, MarkStale
<1>2. Present' = Bundle[c].shots /\ concerned \subseteq Shots
  BY <1>1, PresentType, NoneAssumption, BundleAssumption DEF Present, ScriptBundle
<1>3. ASSUME NEW b \in Standing, \A s \in recut : recipe[b].inputs[s] = NoTake,
             NEW s \in Shots, Rests(b, s), recipe[b].inputs[s] # NoTake
      PROVE  Rests(b, s)'
  <2>1. /\ s \in Present /\ s \notin recut
        /\ recipe[b].inputs[s] = Current(recipe[b].kind, s)
        /\ recipe[b].inputs[s] \notin staleTakes
        /\ recipe[b].prints[s] = Prints(s)
    BY <1>3 DEF Rests
  <2>2. s \in SameGeneration(c) /\ s \notin changed
    BY <2>1 DEF SameCut
  <2>3. s \in Present' /\ Current(recipe[b].kind, s)' = Current(recipe[b].kind, s)
    BY <1>1, <1>2, <2>2 DEF SameGeneration, Current
  <2>4. recipe[b].inputs[s] \notin staleTakes'
    BY <1>1, <1>2, <1>3, <2>1, <2>2, DecidedTakes
  <2>5. Prints(s)' = Prints(s)
    <3>1. active \in Contracts
      BY <2>1, PresentType
    <3>2. Bundle[active].uses[s] = Bundle[c].uses[s]
      BY <2>2, <3>1, BundleAssumption DEF SameGeneration
    <3> QED  BY <1>1, <3>2 DEF Prints, Fingerprint, referenceVars
  <2> QED  BY <1>1, <2>1, <2>3, <2>4, <2>5 DEF Rests
<1>4. CASE MarkStale(Standing)
  BY <1>4, StaleRests
<1>5. CASE MarkStale(BuildsUsing(recut))
  <2>1. ASSUME NEW b \in Standing \ BuildsUsing(recut), NEW s \in Shots, Rests(b, s)
        PROVE  Rests(b, s)'
    <3>1. \A x \in recut : recipe[b].inputs[x] = NoTake
      BY <2>1 DEF BuildsUsing
    <3>2. CASE recipe[b].inputs[s] = NoTake
      BY <1>1, <3>2 DEF Rests
    <3> QED  BY <1>3, <2>1, <3>1, <3>2
  <2> QED  BY <1>5, <2>1, StaleRests
<1> QED  BY <1>4, <1>5 DEF ApproveScript

LEMMA WriteReferenceRests ==
    ASSUME StateTypeOK, TakesOK, FreshBuildsAreCurrent, NEW r \in References,
           NEW u \in Subjects \cup {NoSubject}, NEW superseded \in SUBSET References,
           \A old \in superseded : subjectOf[old] = u,
           WriteReference(r, u, superseded)
    PROVE  FreshBuildsAreCurrent'
<1> USE DEF StateTypeOK
<1> DEFINE invalidated == {s \in Affected(u) : Registered(s) \ staleTakes # {}}
<1>1. /\ MarkStale(BuildsUsing(Affected(u)))
      /\ UNCHANGED <<active, takeState, ticket>>
      /\ selected' = [s \in Shots |-> IF s \in invalidated THEN NoTake ELSE selected[s]]
      /\ approved' = [s \in Shots |-> IF s \in invalidated THEN NoTake ELSE approved[s]]
      /\ staleTakes' = staleTakes \cup UNION {Registered(s) : s \in invalidated}
      /\ subjectOf[r] = NoSubject
      /\ subjectOf' = [subjectOf EXCEPT ![r] = u]
      /\ activeRefs' = (activeRefs \ superseded) \cup {r}
  BY DEF WriteReference, scriptVars
<1>2. ASSUME NEW b \in Standing \ BuildsUsing(Affected(u)), NEW s \in Shots, Rests(b, s),
             recipe[b].inputs[s] # NoTake
      PROVE  Rests(b, s)'
  <2>1. /\ s \in Present /\ s \notin Affected(u)
        /\ recipe[b].inputs[s] = Current(recipe[b].kind, s)
        /\ recipe[b].inputs[s] \notin staleTakes
        /\ recipe[b].prints[s] = Prints(s)
        /\ UNCHANGED recipe
    BY <1>1, <1>2 DEF Rests, BuildsUsing, MarkStale
  <2>2. s \in Present' /\ Current(recipe[b].kind, s)' = Current(recipe[b].kind, s)
    BY <1>1, <2>1 DEF Present, Current
  <2>3. invalidated \subseteq Shots \ {s}
    BY <2>1, PresentType DEF Affected
  <2>4. recipe[b].inputs[s] \notin staleTakes'
    BY <1>1, <1>2, <2>1, <2>3, DecidedTakes
  <2>5. Prints(s)' = Prints(s)
    <3>1. u \notin Bundle[active].uses[s]
      BY <2>1 DEF Affected
    <3>2. NoSubject \notin Bundle[active].uses[s]
      BY <2>1, PresentType, BundleAssumption, NoneAssumption DEF ScriptBundle
    <3>3. \A x \in References : x \in activeRefs' /\ subjectOf'[x] \in Bundle[active].uses[s]
             <=> x \in activeRefs /\ subjectOf[x] \in Bundle[active].uses[s]
      BY <1>1, <3>1, <3>2
    <3>4. activeRefs' \subseteq References
      BY <1>1
    <3> QED  BY <1>1, <3>3, <3>4 DEF Prints, Fingerprint
  <2> QED  BY <2>1, <2>2, <2>4, <2>5 DEF Rests
<1>3. ASSUME NEW b \in Standing \ BuildsUsing(Affected(u)), NEW s \in Shots, Rests(b, s)
      PROVE  Rests(b, s)'
  <2>1. UNCHANGED recipe
    BY <1>1 DEF MarkStale
  <2>2. CASE recipe[b].inputs[s] = NoTake
    BY <2>1, <2>2 DEF Rests
  <2> QED  BY <1>2, <1>3, <2>2
<1> QED  BY <1>1, <1>3, StaleRests

LEMMA DecideRests ==
    ASSUME StateTypeOK, FreshBuildsAreCurrent, NEW shots \in SUBSET Shots,
           NEW pick \in [shots -> Takes], NEW verdict \in {"selected", "approved"},
           Decide(pick, verdict)
    PROVE  FreshBuildsAreCurrent'
<1> DEFINE over == UNION {BuildsOver(s, pick[s]) : s \in shots}
<1>1. MarkStale(over) /\ UNCHANGED <<active, staleTakes, referenceVars, recipe>>
  BY DEF Decide, MarkStale, scriptVars, takeVars
<1>2. \A s \in shots : approved[s] = NoTake
  BY DEF Decide, Decidable
<1>3. \A s \in Shots :
         /\ selected'[s] = IF s \in shots THEN pick[s] ELSE selected[s]
         /\ approved'[s] = approved[s] \/ (s \in shots /\ approved'[s] = pick[s])
  BY DEF Decide
<1>4. Present' = Present /\ \A s \in Shots : Prints(s)' = Prints(s)
  BY <1>1 DEF Present, Prints, Fingerprint, referenceVars
<1>5. ASSUME NEW b \in Standing \ over, NEW s \in Shots, Rests(b, s)
      PROVE  Rests(b, s)'
  <2>1. s \in shots => recipe[b].inputs[s] \in {NoTake, pick[s]}
    BY <1>5 DEF BuildsOver
  <2>2. recipe[b].inputs[s] # NoTake =>
           Current(recipe[b].kind, s)' = Current(recipe[b].kind, s)
    BY <1>1, <1>2, <1>3, <1>5, <2>1 DEF Current, Rests
  <2> QED  BY <1>1, <1>4, <1>5, <2>2 DEF Rests
<1> QED  BY <1>1, <1>5, StaleRests

LEMMA RejectTakeRests ==
    ASSUME StateTypeOK, FreshBuildsAreCurrent, NEW s \in Shots, NEW t \in Takes, RejectTake(s, t)
    PROVE  FreshBuildsAreCurrent'
<1> DEFINE kept == IF selected[s] = t THEN NoTake ELSE selected[s]
<1>1. /\ MarkStale(BuildsOver(s, kept))
      /\ UNCHANGED <<active, approved, staleTakes, referenceVars, recipe>>
      /\ selected' = [selected EXCEPT ![s] = kept]
      /\ approved[s] = NoTake
  BY DEF RejectTake, Decidable, MarkStale, scriptVars, takeVars
<1>2. Present' = Present /\ \A x \in Shots : Prints(x)' = Prints(x)
  BY <1>1 DEF Present, Prints, Fingerprint, referenceVars
<1>3. ASSUME NEW b \in Standing \ BuildsOver(s, kept), NEW x \in Shots, Rests(b, x)
      PROVE  Rests(b, x)'
  <2>1. recipe[b].inputs[s] \in {NoTake, kept}
    BY <1>3 DEF BuildsOver
  <2>2. recipe[b].inputs[x] # NoTake =>
           Current(recipe[b].kind, x)' = Current(recipe[b].kind, x)
    BY <1>1, <1>3, <2>1 DEF Current, Rests, StateTypeOK
  <2> QED  BY <1>1, <1>2, <1>3, <2>2 DEF Rests
<1> QED  BY <1>1, <1>3, StaleRests

LEMMA RequestedRests ==
    ASSUME StateTypeOK, TakesOK, FreshBuildsAreCurrent, Requested
    PROVE  FreshBuildsAreCurrent'
<1>1. ASSUME NEW c \in Contracts, ApplyBundle(c)
      PROVE  FreshBuildsAreCurrent'
  BY <1>1, SameRests DEF ApplyBundle, shotVars, takeVars, buildVars
<1>2. ASSUME NEW c \in Contracts, ApproveScript(c)
      PROVE  FreshBuildsAreCurrent'
  BY <1>2, ApproveScriptRests
<1>3. ASSUME NEW r \in References, NEW u \in Subjects \cup {NoSubject},
             NEW superseded \in SUBSET References, \A old \in superseded : subjectOf[old] = u,
             WriteReference(r, u, superseded)
      PROVE  FreshBuildsAreCurrent'
  BY <1>3, WriteReferenceRests
<1>4. ASSUME NEW s \in Shots, NEW p, NEW w, EnqueueShot(s, p, w) \/ AskOverrun(s, p, w)
      PROVE  FreshBuildsAreCurrent'
  BY <1>4, SameRests DEF EnqueueShot, AskOverrun, scriptVars, shotVars, takeVars, buildVars
<1>5. ASSUME NEW o, ApproveOverrun(o) \/ UpdateBudget(o)
      PROVE  FreshBuildsAreCurrent'
  BY <1>5, SameRests DEF ApproveOverrun, UpdateBudget, scriptVars, shotVars, takeVars, buildVars
<1>6. ASSUME NEW s \in Shots, NEW next, CompleteJob(s) \/ StrandJob(s) \/ EndWithoutTake(s, next)
      PROVE  FreshBuildsAreCurrent'
  BY <1>6, SameRests DEF CompleteJob, StrandJob, EndWithoutTake, scriptVars, shotVars, buildVars
<1>7. ASSUME NEW shots \in SUBSET Shots, NEW pick \in [shots -> Takes],
             NEW verdict \in {"selected", "approved"}, Decide(pick, verdict)
      PROVE  FreshBuildsAreCurrent'
  BY <1>7, DecideRests
<1>8. ASSUME NEW s \in Shots, NEW t \in Takes, RejectTake(s, t)
      PROVE  FreshBuildsAreCurrent'
  BY <1>8, RejectTakeRests
<1> QED  BY <1>1, <1>2, <1>3, <1>4, <1>5, <1>6, <1>7, <1>8 DEF Requested

LEMMA StepRests ==
    ASSUME TakesInv, FreshBuildsAreCurrent, [Next]_vars
    PROVE  FreshBuildsAreCurrent'
<1>0. StateTypeOK /\ TakesOK
  BY DEF TakesInv, Typed, TypeOK, TakesOK
<1>1. CASE Reviewing
  BY <1>0, <1>1, EveryRequest, RequestedRests
<1>a. ASSUME UNCHANGED outsideBuilds
      PROVE  \A kind : \A s \in Shots :
               /\ Present' = Present /\ Prints(s)' = Prints(s)
               /\ Current(kind, s)' = Current(kind, s) /\ staleTakes' = staleTakes
  BY <1>a DEF outsideBuilds, scriptVars, shotVars, takeVars, referenceVars, Present, Prints,
     Fingerprint, Current
<1>b. ASSUME UNCHANGED outsideBuilds, UNCHANGED recipe,
             \A b \in Standing' : buildState'[b] # "failed" =>
                (b \in Standing /\ buildState[b] # "failed") \/ RestsOnCurrent(b)
      PROVE  FreshBuildsAreCurrent'
  BY <1>a, <1>b DEF FreshBuildsAreCurrent, RestsOnCurrent
<1>2. ASSUME NEW b \in Builds, NEW kind \in Kinds, NEW chosen \in SUBSET Shots,
             Build(b, kind, chosen)
      PROVE  FreshBuildsAreCurrent'
  <2>1. /\ Plannable(kind, chosen)
        /\ buildState' = [buildState EXCEPT ![b] = "queued"]
        /\ recipe' = [recipe EXCEPT ![b] = Plan(kind, chosen)]
        /\ UNCHANGED <<outsideBuilds, staleBuilds>>
    BY <1>2 DEF Build, StartBuild
  <2>2. recipe'[b] = Plan(kind, chosen)
    BY <1>0, <2>1 DEF StateTypeOK
  <2>3. ASSUME NEW s \in Shots, recipe'[b].inputs[s] # NoTake
        PROVE  /\ s \in chosen
               /\ recipe'[b].inputs[s] = Current(kind, s)
               /\ recipe'[b].prints[s] = Prints(s)
               /\ recipe'[b].kind = kind
    BY <2>2, <2>3 DEF Plan
  <2>4. \A s \in chosen : s \in Present /\ Current(kind, s) \notin staleTakes
    BY <2>1 DEF Plannable, Usable
  <2>5. RestsOnCurrent(b)'
    BY <1>a, <2>1, <2>3, <2>4 DEF RestsOnCurrent
  <2>6. ASSUME NEW a \in Standing', a # b, buildState'[a] # "failed"
        PROVE  RestsOnCurrent(a)'
    <3>1. a \in Standing /\ buildState[a] # "failed" /\ recipe'[a] = recipe[a]
      BY <1>0, <2>1, <2>6 DEF Standing, Built, StateTypeOK
    <3> QED  BY <1>a, <2>1, <3>1 DEF FreshBuildsAreCurrent, RestsOnCurrent
  <2> QED  BY <2>5, <2>6 DEF FreshBuildsAreCurrent
<1>3. ASSUME NEW b \in Builds, ApproveBuildReview(b)
      PROVE  FreshBuildsAreCurrent'
  BY <1>0, <1>b, <1>3 DEF ApproveBuildReview, Standing, Built, StateTypeOK
<1>4. ASSUME NEW b \in Builds, DamageRecipe(b)
      PROVE  FreshBuildsAreCurrent'
  BY <1>b, <1>4 DEF DamageRecipe, Standing, Built
<1>5. ASSUME NEW b \in Builds, PollStarted(b)
      PROVE  FreshBuildsAreCurrent'
  BY <1>0, <1>b, <1>5 DEF PollStarted, Polled, ActiveBuilds, Standing, Built, StateTypeOK
<1>6. ASSUME NEW b \in Builds, PollCompleted(b)
      PROVE  FreshBuildsAreCurrent'
  <2>1. UNCHANGED outsideBuilds /\ b \in ActiveBuilds
    BY <1>6 DEF PollCompleted, Polled
  <2>2. CASE ValidateCurrent(b) /\ AskReview(b)
    BY <1>0, <1>b, <2>1, <2>2
       DEF ValidateCurrent, AskReview, Standing, Built, ActiveBuilds, StateTypeOK
  <2>3. CASE Fail(b, TRUE)
    BY <1>0, <1>b, <2>1, <2>3 DEF Fail, Standing, Built, ActiveBuilds, StateTypeOK
  <2> QED  BY <1>6, <2>2, <2>3 DEF PollCompleted
<1>7. ASSUME NEW b \in Builds, PollFailed(b)
      PROVE  FreshBuildsAreCurrent'
  BY <1>0, <1>b, <1>7 DEF PollFailed, Polled, Fail, ActiveBuilds, Standing, Built, StateTypeOK
<1>8. ASSUME UNCHANGED stateVars
      PROVE  FreshBuildsAreCurrent'
  BY <1>8, SameRests DEF stateVars, scriptVars, shotVars, takeVars, buildVars
<1>9. ASSUME NEW kind, ExecutorStarts \/ ExecutorEnds(kind) \/ BootDone
      PROVE  FreshBuildsAreCurrent'
  BY <1>8, <1>9 DEF ExecutorStarts, ExecutorEnds, BootDone
<1>10. CASE Crash
  BY <1>8, <1>10, SameRests DEF Crash, StrandJob, scriptVars, shotVars, buildVars
<1>11. CASE Boot
  <2>1. /\ buildState' = [b \in Builds |-> IF b \in Lost THEN "failed" ELSE buildState[b]]
        /\ staleBuilds' = (staleBuilds \ Lost) \cup (Lost \ damaged)
        /\ UNCHANGED <<active, selected, approved, staleTakes, referenceVars, recipe>>
    BY <1>11 DEF Boot, RecoverBuilds, scriptVars
  <2>2. Lost \subseteq Builds
    BY DEF Lost, ActiveBuilds
  <2>3. ASSUME NEW b \in Standing', buildState'[b] # "failed"
        PROVE  b \in Standing /\ buildState[b] # "failed"
    BY <2>1, <2>2, <2>3 DEF Standing, Built
  <2>4. \A b \in Builds : RestsOnCurrent(b) => RestsOnCurrent(b)'
    BY <2>1 DEF RestsOnCurrent, Current, Present, Prints, Fingerprint, referenceVars
  <2> QED  BY <2>3, <2>4 DEF FreshBuildsAreCurrent, Standing, Built
<1>12. ASSUME NEW s \in Shots, ResumeAudition(s)
       PROVE  FreshBuildsAreCurrent'
  BY <1>12, SameRests DEF ResumeAudition, scriptVars, buildVars
<1>13. CASE UNCHANGED vars
  BY <1>8, <1>13 DEF vars
<1> QED  BY <1>1, <1>2, <1>3, <1>4, <1>5, <1>6, <1>7, <1>9, <1>10, <1>11, <1>12, <1>13
         DEF Next, BootAudition

\* Whatever is decided, imported or approved while a build waits, runs or awaits
\* its review: one that still stands shows what is decided now.
THEOREM BuildsAreCurrent == Spec => []FreshBuildsAreCurrent
<1>1. Init => FreshBuildsAreCurrent
  BY DEF Init, StateInit, FreshBuildsAreCurrent, Standing, Built
<1>2. TakesInv /\ FreshBuildsAreCurrent /\ [Next]_vars => FreshBuildsAreCurrent'
  BY StepRests
<1> QED  BY <1>1, <1>2, TakesInvariant, PTL DEF Spec

-----------------------------------------------------------------------------
(* The executor                                                             *)

Ev(kind, b) == [kind |-> kind, build |-> b]

\* One build travels: as a request, in the encoder, and as events.
Travels(b) ==
    \/ requests = <<b>> /\ encoding = NoBuild /\ events = <<>>
    \/ /\ requests = <<>> /\ encoding = b
       /\ events \in {<<>>, <<Ev("started", b)>>}
    \/ /\ requests = <<>> /\ encoding = NoBuild
       /\ \E kind \in {"completed", "failed"} :
            events \in {<<Ev(kind, b)>>, <<Ev("started", b), Ev(kind, b)>>}

Idle == requests = <<>> /\ encoding = NoBuild /\ events = <<>>

Pipeline == Idle \/ \E b \in ActiveBuilds : Travels(b)

LEMMA SamePipeline ==
    ASSUME Pipeline, ActiveBuilds \subseteq ActiveBuilds', UNCHANGED <<requests, encoding, events>>
    PROVE  Pipeline'
  BY DEF Pipeline, Idle, Travels, Ev

\* The poll takes the first event of the one build there is.
LEMMA PolledEvent ==
    ASSUME Pipeline, NEW kind, NEW b \in Builds, Polled(kind, b)
    PROVE  /\ b \in ActiveBuilds /\ requests = <<>>
           /\ kind = "started" => \/ encoding = b /\ events' = <<>>
                                  \/ /\ encoding = NoBuild
                                     /\ \E end \in {"completed", "failed"} :
                                          events' = <<Ev(end, b)>>
           /\ kind \in {"completed", "failed"} => encoding = NoBuild /\ events' = <<>>
<1>1. events # <<>> /\ Head(events) = Ev(kind, b) /\ events' = Tail(events)
  BY DEF Polled, Ev
<1>2. PICK a \in ActiveBuilds : Travels(a)
  BY <1>1 DEF Pipeline, Idle
<1>3. \A x : Head(<<x>>) = x /\ Tail(<<x>>) = <<>>
  OBVIOUS
<1>4. \A x, y : Head(<<x, y>>) = x /\ Tail(<<x, y>>) = <<y>>
  OBVIOUS
<1>5. \A k, x : Ev(k, x) = Ev(kind, b) => k = kind /\ x = b
  BY DEF Ev
<1>6. CASE requests = <<>> /\ encoding = a /\ events = <<Ev("started", a)>>
  BY <1>1, <1>2, <1>3, <1>5, <1>6
<1>7. ASSUME requests = <<>>, encoding = NoBuild, NEW end \in {"completed", "failed"},
             events = <<Ev(end, a)>>
      PROVE  b = a /\ kind = end /\ events' = <<>>
  BY <1>1, <1>3, <1>5, <1>7
<1>8. ASSUME requests = <<>>, encoding = NoBuild, NEW end \in {"completed", "failed"},
             events = <<Ev("started", a), Ev(end, a)>>
      PROVE  b = a /\ kind = "started" /\ events' = <<Ev(end, a)>>
  BY <1>1, <1>4, <1>5, <1>8
<1> QED  BY <1>1, <1>2, <1>6, <1>7, <1>8 DEF Travels

LEMMA StepPipeline ==
    ASSUME Typed, Pipeline, [Next]_vars
    PROVE  Pipeline'
<1>0. StateTypeOK /\ OneActive
  BY DEF Typed, TypeOK
<1>1. CASE Reviewing
  <2>1. UNCHANGED <<requests, encoding, events, buildState>>
    BY <1>0, <1>1, EveryRequest, RequestedBuilds DEF processVars
  <2> QED  BY <2>1, SamePipeline DEF ActiveBuilds
<1>2. ASSUME NEW b \in Builds, NEW kind \in Kinds, NEW chosen \in SUBSET Shots,
             Build(b, kind, chosen)
      PROVE  Pipeline'
  <2>1. /\ ActiveBuilds = {}
        /\ buildState' = [buildState EXCEPT ![b] = "queued"]
        /\ requests' = Append(requests, b)
        /\ UNCHANGED <<encoding, events>>
    BY <1>2 DEF Build, StartBuild
  <2>2. Idle
    BY <2>1 DEF Pipeline
  <2>3. requests' = <<b>>
    BY <2>1, <2>2 DEF Idle
  <2>4. b \in ActiveBuilds'
    BY <1>0, <2>1 DEF ActiveBuilds, StateTypeOK
  <2> QED  BY <2>1, <2>2, <2>3, <2>4 DEF Pipeline, Idle, Travels
<1>3. ASSUME NEW b \in Builds, ApproveBuildReview(b)
      PROVE  Pipeline'
  <2>1. ActiveBuilds \subseteq ActiveBuilds'
    BY <1>0, <1>3 DEF ApproveBuildReview, ActiveBuilds, StateTypeOK
  <2> QED  BY <1>3, <2>1, SamePipeline DEF ApproveBuildReview, processVars
<1>4. ASSUME NEW b \in Builds, DamageRecipe(b)
      PROVE  Pipeline'
  BY <1>4, SamePipeline DEF DamageRecipe, ActiveBuilds, processVars
<1>5. ASSUME NEW b \in Builds, PollStarted(b)
      PROVE  Pipeline'
  <2>1. Polled("started", b) /\ buildState' = [buildState EXCEPT ![b] = "running"]
        /\ UNCHANGED <<requests, encoding>>
    BY <1>5 DEF PollStarted, Polled
  <2>2. b \in ActiveBuilds'
    BY <1>0, <2>1 DEF ActiveBuilds, StateTypeOK
  <2> QED  BY <2>1, <2>2, PolledEvent DEF Pipeline, Travels, Ev
<1>6. ASSUME NEW b \in Builds, NEW kind \in {"completed", "failed"}, Polled(kind, b)
      PROVE  Pipeline'
  BY <1>6, PolledEvent DEF Pipeline, Idle, Polled
<1>7. ASSUME NEW b \in Builds, PollCompleted(b) \/ PollFailed(b)
      PROVE  Pipeline'
  BY <1>6, <1>7 DEF PollCompleted, PollFailed
<1>8. CASE ExecutorStarts
  <2>1. PICK b \in ActiveBuilds : requests = <<b>> /\ events = <<>>
    BY <1>8 DEF ExecutorStarts, Pipeline, Idle, Travels
  <2>2. Head(<<b>>) = b /\ Tail(<<b>>) = <<>>
    OBVIOUS
  <2>3. encoding' = b /\ requests' = <<>>
    BY <1>8, <2>1, <2>2 DEF ExecutorStarts
  <2>4. Append(<<>>, Ev("started", b)) = <<Ev("started", b)>>
    OBVIOUS
  <2>5. events' = <<Ev("started", b)>>
    BY <1>8, <2>1, <2>2, <2>4 DEF ExecutorStarts, Ev
  <2>6. UNCHANGED buildState
    BY <1>8 DEF ExecutorStarts, stateVars, buildVars
  <2>7. b \in ActiveBuilds'
    BY <2>1, <2>6 DEF ActiveBuilds
  <2> QED  BY <2>3, <2>5, <2>7 DEF Pipeline, Travels, Ev
<1>9. ASSUME NEW kind \in {"completed", "failed"}, ExecutorEnds(kind)
      PROVE  Pipeline'
  <2>1. /\ encoding # NoBuild /\ encoding' = NoBuild
        /\ events' = Append(events, Ev(kind, encoding))
        /\ UNCHANGED requests
    BY <1>9 DEF ExecutorEnds, Ev
  <2>2. PICK b \in ActiveBuilds : requests = <<>> /\ encoding = b
                                  /\ events \in {<<>>, <<Ev("started", b)>>}
    BY <2>1 DEF Pipeline, Idle, Travels
  <2>3. Append(<<>>, Ev(kind, b)) = <<Ev(kind, b)>>
    OBVIOUS
  <2>4. Append(<<Ev("started", b)>>, Ev(kind, b)) = <<Ev("started", b), Ev(kind, b)>>
    <3>1. Ev("started", b) \in {Ev("started", b), Ev(kind, b)}
          /\ Ev(kind, b) \in {Ev("started", b), Ev(kind, b)}
      OBVIOUS
    <3> QED  BY <3>1, PairOf
  <2>5. events' \in {<<Ev(kind, b)>>, <<Ev("started", b), Ev(kind, b)>>}
    BY <2>1, <2>2, <2>3, <2>4
  <2>6. b \in ActiveBuilds'
    BY <1>9, <2>2 DEF ExecutorEnds, stateVars, buildVars, ActiveBuilds
  <2> QED  BY <2>1, <2>2, <2>5, <2>6 DEF Pipeline, Travels, Ev
<1>10. CASE Crash
  BY <1>10 DEF Crash, Pipeline, Idle
<1>11. CASE Boot
  <2>1. /\ RecoverBuilds /\ encoding' = NoBuild /\ events' = <<>>
        /\ buildState' = [b \in Builds |-> IF b \in Lost THEN "failed" ELSE buildState[b]]
    BY <1>11 DEF Boot, RecoverBuilds
  <2>2. CASE requests' = <<>>
    BY <2>1, <2>2 DEF Pipeline, Idle
  <2>3. ASSUME NEW b \in Resent, requests' = <<b>>
        PROVE  Pipeline'
    <3>1. b \in ActiveBuilds'
      BY <2>1 DEF Resent, ActiveBuilds
    <3> QED  BY <2>1, <2>3, <3>1 DEF Pipeline, Travels
  <2> QED  BY <1>0, <2>1, <2>2, <2>3, RecoveredRequests
<1>12. ASSUME NEW s \in Shots, ResumeAudition(s), UNCHANGED processVars
       PROVE  Pipeline'
  BY <1>12, SamePipeline DEF ResumeAudition, buildVars, processVars, ActiveBuilds
<1>13. CASE BootDone
  BY <1>13, SamePipeline DEF BootDone, stateVars, buildVars, ActiveBuilds
<1>14. CASE UNCHANGED vars
  BY <1>14, SamePipeline DEF vars, stateVars, buildVars, processVars, ActiveBuilds
<1> QED  BY <1>1, <1>2, <1>3, <1>4, <1>5, <1>7, <1>8, <1>9, <1>10, <1>11, <1>12, <1>13, <1>14
         DEF Next, BootAudition

\* The executor holds and reports only builds the state awaits, across crashes
\* and recoveries: an event about another build would end the worker.
THEOREM EventsAwaited == Spec => []EventsAreAwaited
<1>1. Init => Typed /\ Pipeline
  BY InitTyped DEF Init, Pipeline, Idle
<1>2. Typed /\ Pipeline /\ [Next]_vars => Typed' /\ Pipeline'
  BY StepTyped, StepPipeline
<1>3. Typed /\ Pipeline => EventsAreAwaited
  <2> SUFFICES ASSUME Pipeline PROVE EventsAreAwaited
    OBVIOUS
  <2>1. CASE Idle
    BY <2>1 DEF Idle, EventsAreAwaited
  <2>2. ASSUME NEW b \in ActiveBuilds, Travels(b)
        PROVE  EventsAreAwaited
    <3>1. encoding # NoBuild => encoding \in ActiveBuilds
      BY <2>2 DEF Travels
    <3>2. \A i \in DOMAIN requests : requests[i] \in ActiveBuilds
      BY <2>2 DEF Travels
    <3>3. \A i \in DOMAIN events : events[i].build \in ActiveBuilds
      <4>1. ASSUME NEW x, NEW i \in DOMAIN <<x>>
            PROVE  <<x>>[i] = x
        BY <4>1
      <4>2. ASSUME NEW x, NEW y, NEW i \in DOMAIN <<x, y>>
            PROVE  <<x, y>>[i] \in {x, y}
        BY <4>2
      <4>3. \A k : Ev(k, b).build = b
        BY DEF Ev
      <4>4. DOMAIN <<>> = {}
        OBVIOUS
      <4> QED  BY <2>2, <4>1, <4>2, <4>3, <4>4 DEF Travels
    <3> QED  BY <3>1, <3>2, <3>3 DEF EventsAreAwaited
  <2> QED  BY <2>1, <2>2 DEF Pipeline
<1> QED  BY <1>1, <1>2, <1>3, PTL DEF Spec
=============================================================================
