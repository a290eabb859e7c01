----------------------------- MODULE TakesProofs -----------------------------
(***************************************************************************)
(* Proofs about the takes of a project: what the state lists exists, what  *)
(* is decided is usable, and a take that is not stale is what its shot     *)
(* would be generated from today.                                          *)
(***************************************************************************)
EXTENDS BuildsProofs

-----------------------------------------------------------------------------
(* The invariant, shot by shot                                              *)

\* The job of a shot: its take is reserved for the shot, from the inputs in
\* use now, and there is room for one more audition.
JobOK(s) ==
    LET t == job[s]
    IN  t # NoTake =>
          /\ takeState[t] \in {"reserved", "written"}
          /\ ticket[t].shot = s
          /\ ticket[t].generation = Bundle[active].generation[s]
          /\ ticket[t].prints = Prints(s)
          /\ ticket[t].profile = "audition" => Count(s, "audition") < AuditionTakes
          /\ ticket[t].profile = "final" => target[s] = 0

ListOK(s) == taken[s] \subseteq Registered(s) /\ rejected[s] \subseteq taken[s]

DecisionOK(s) == /\ {selected[s], approved[s]} \subseteq Usable(s) \cup {NoTake}
                 /\ approved[s] \in {NoTake, selected[s]}

CandidateOK(s) == /\ candidates[s] # {} => s \in Present
                  /\ candidates[s] \subseteq Usable(s)

FreshOK(s) == s \in Present => \A t \in Registered(s) \ staleTakes :
                 /\ ticket[t].generation = Bundle[active].generation[s]
                 /\ ticket[t].prints = Prints(s)

CountOK(s) == Count(s, "audition") <= AuditionTakes

ShotOK(s) == JobOK(s) /\ ListOK(s) /\ DecisionOK(s) /\ CandidateOK(s) /\ FreshOK(s) /\ CountOK(s)

\* A take that is reserved or written is the job of the shot it is for.
Tracked == \A t \in Takes : takeState[t] \in {"reserved", "written"} =>
              ticket[t].shot \in Shots /\ job[ticket[t].shot] = t

TakesInv == Typed /\ Tracked /\ \A s \in Shots : ShotOK(s)

-----------------------------------------------------------------------------
(* Steps that leave a shot alone                                            *)

\* Nothing that ShotOK(s) reads has changed.
SameShot(s) ==
    /\ job'[s] = job[s] /\ target'[s] = target[s]
    /\ taken'[s] = taken[s] /\ rejected'[s] = rejected[s]
    /\ selected'[s] = selected[s] /\ approved'[s] = approved[s]
    /\ candidates'[s] = candidates[s]
    /\ \A t \in Takes : ticket[t].shot = s \/ ticket'[t].shot = s =>
         /\ takeState'[t] = "registered" <=> takeState[t] = "registered"
         /\ takeState[t] = "registered" =>
              ticket'[t] = ticket[t] /\ (t \in staleTakes' <=> t \in staleTakes)
    /\ job[s] # NoTake =>
         /\ ticket'[job[s]] = ticket[job[s]]
         /\ takeState[job[s]] \in {"reserved", "written"} => takeState'[job[s]] \in {"reserved", "written"}
    /\ s \in Present' <=> s \in Present
    /\ s \in Present \/ job[s] # NoTake =>
         /\ Bundle[active'].generation[s] = Bundle[active].generation[s]
         /\ Prints(s)' = Prints(s)

LEMMA SameShotOK ==
    ASSUME NEW s \in Shots, SameShot(s), ShotOK(s)
    PROVE  ShotOK(s)'
<1>1. Registered(s)' = Registered(s)
  BY DEF SameShot, Registered
<1>2. \A t \in Registered(s) : ticket'[t] = ticket[t] /\ (t \in staleTakes' <=> t \in staleTakes)
  BY DEF SameShot, Registered
<1>3. Count(s, "audition")' = Count(s, "audition")
  <2>1. {t \in Registered(s)' : ticket'[t].profile = "audition"}
          = {t \in Registered(s) : ticket[t].profile = "audition"}
    BY <1>1, <1>2
  <2> QED  BY <2>1 DEF Count
<1>4. taken[s] \subseteq Registered(s)
  BY DEF ShotOK, ListOK
<1>5. Usable(s)' = Usable(s)
  BY <1>2, <1>4 DEF SameShot, Usable
<1>6. JobOK(s)'
  BY <1>3 DEF SameShot, JobOK, ShotOK
<1>7. ListOK(s)'
  BY <1>1 DEF SameShot, ListOK, ShotOK
<1>8. DecisionOK(s)' /\ CandidateOK(s)'
  BY <1>5 DEF SameShot, DecisionOK, CandidateOK, ShotOK
<1>9. FreshOK(s)'
  BY <1>1, <1>2 DEF SameShot, FreshOK, ShotOK
<1>10. CountOK(s)'
  BY <1>3 DEF CountOK, ShotOK
<1> QED  BY <1>6, <1>7, <1>8, <1>9, <1>10 DEF ShotOK

TakesOK == Tracked /\ \A s \in Shots : ShotOK(s)

\* Steps about the budget, builds, the executor or the process.
LEMMA ElsewhereOK ==
    ASSUME TakesOK, UNCHANGED <<active, shotVars, takeVars, referenceVars, candidates>>
    PROVE  TakesOK'
<1>1. \A s \in Shots : SameShot(s)
  BY DEF shotVars, takeVars, referenceVars, SameShot, Present, Prints, Fingerprint
<1>2. Tracked'
  BY DEF TakesOK, Tracked, shotVars, takeVars
<1> QED  BY <1>1, <1>2, SameShotOK DEF TakesOK

-----------------------------------------------------------------------------
(* Jobs                                                                     *)

LEMMA CountType ==
    ASSUME NEW s \in Shots, NEW p \in Profiles
    PROVE  Count(s, p) \in Nat
  BY FS_Subset, FS_CardinalityType, TakesAssumption DEF Count, Registered

\* One more take of a shot.
LEMMA CountAdd ==
    ASSUME NEW s \in Shots, NEW t \in Takes, NEW p \in Profiles, t \notin Registered(s),
           Registered(s)' = Registered(s) \cup {t},
           \A x \in Registered(s) : ticket'[x] = ticket[x], ticket'[t] = ticket[t]
    PROVE  Count(s, p)' = IF ticket[t].profile = p THEN Count(s, p) + 1 ELSE Count(s, p)
<1> DEFINE old == {x \in Registered(s) : ticket[x].profile = p}
           new == {x \in Registered(s)' : ticket'[x].profile = p}
<1>1. Count(s, p) = Cardinality(old) /\ Count(s, p)' = Cardinality(new)
  BY DEF Count
<1>2. IsFiniteSet(old)
  BY FS_Subset, TakesAssumption DEF Registered
<1>3. t \notin old
  OBVIOUS
<1>4. CASE ticket[t].profile = p
  <2>1. new = old \cup {t}
    BY <1>4
  <2>2. Cardinality(old \cup {t}) = Cardinality(old) + 1
    BY <1>2, <1>3, FS_AddElement
  <2> QED  BY <1>1, <1>4, <2>1, <2>2
<1>5. CASE ticket[t].profile # p
  <2>1. new = old
    BY <1>5
  <2> QED  BY <1>1, <1>5, <2>1
<1> QED  BY <1>4, <1>5

\* A new job: a take is reserved for a shot that has none.
LEMMA ReserveOK ==
    ASSUME StateTypeOK, TakesOK, NEW s \in Shots, NEW n \in Takes, NEW p \in Profiles,
           NEW goal \in 0..AuditionTakes,
           s \in Present, job[s] = NoTake, takeState[n] = "unused",
           takeState' = [takeState EXCEPT ![n] = "reserved"],
           ticket' = [ticket EXCEPT ![n] = Request(s, p)],
           job' = [job EXCEPT ![s] = n],
           target' = [target EXCEPT ![s] = goal],
           p = "audition" => Count(s, p) < AuditionTakes, p = "final" => goal = 0,
           UNCHANGED <<active, taken, rejected, selected, approved, staleTakes, referenceVars,
                       candidates>>
    PROVE  TakesOK'
<1> USE DEF StateTypeOK
<1>1. Present' = Present /\ \A x \in Shots : Prints(x)' = Prints(x)
  BY DEF Present, Prints, Fingerprint, referenceVars
<1>2. Request(s, p).shot = s
  BY DEF Request
<1>3. ASSUME NEW x \in Shots \ {s}
      PROVE  SameShot(x)
  <2>1. job[x] # NoTake /\ takeState[job[x]] \in {"reserved", "written"} => job[x] # n
    OBVIOUS
  <2>2. job[x] # NoTake => takeState[job[x]] \in {"reserved", "written"}
    BY DEF TakesOK, ShotOK, JobOK
  <2>3. job[x] # NoTake => job[x] \in Takes
    OBVIOUS
  <2> QED  BY <1>1, <1>2, <2>1, <2>2, <2>3 DEF SameShot
<1>4. Tracked'
  BY <1>2, NoneAssumption DEF Tracked, TakesOK
<1>5. \A x \in Shots : Registered(x)' = Registered(x) /\ n \notin Registered(x)
  BY <1>2 DEF Registered
<1>6. \A x \in Registered(s) : ticket'[x] = ticket[x]
  BY <1>5 DEF Registered
<1>7. Count(s, "audition")' = Count(s, "audition")
  <2>1. {t \in Registered(s)' : ticket'[t].profile = "audition"}
          = {t \in Registered(s) : ticket[t].profile = "audition"}
    BY <1>5, <1>6
  <2> QED  BY <2>1 DEF Count
<1>8. Usable(s)' = Usable(s)
  BY DEF Usable
<1>9. ShotOK(s)
  BY DEF TakesOK
<1>10. JobOK(s)'
  BY <1>1, <1>2, <1>7 DEF JobOK, Request
<1>11. ListOK(s)' /\ DecisionOK(s)' /\ CandidateOK(s)'
  BY <1>1, <1>5, <1>8, <1>9 DEF ListOK, DecisionOK, CandidateOK, ShotOK
<1>12. FreshOK(s)' /\ CountOK(s)'
  BY <1>1, <1>5, <1>6, <1>7, <1>9 DEF FreshOK, CountOK, ShotOK
<1>13. ShotOK(s)'
  BY <1>10, <1>11, <1>12 DEF ShotOK
<1> QED  BY <1>3, <1>4, <1>13, SameShotOK DEF TakesOK

\* A job that ends without a take.
LEMMA EndWithoutTakeOK ==
    ASSUME StateTypeOK, TakesOK, NEW s \in Shots, NEW next, EndWithoutTake(s, next)
    PROVE  TakesOK'
<1> USE DEF StateTypeOK
<1>1. /\ job[s] \in Takes
      /\ takeState[job[s]] = "reserved"
      /\ takeState' = [takeState EXCEPT ![job[s]] = "void"]
      /\ job' = [job EXCEPT ![s] = NoTake]
      /\ target' = [target EXCEPT ![s] = 0]
      /\ UNCHANGED <<active, taken, rejected, selected, approved, ticket, staleTakes,
                     referenceVars, candidates>>
  BY DEF EndWithoutTake, Ending, scriptVars
<1>2. Present' = Present /\ \A x \in Shots : Prints(x)' = Prints(x)
  BY <1>1 DEF Present, Prints, Fingerprint, referenceVars
<1>3. \A x \in Shots : job[x] # NoTake => ticket[job[x]].shot = x
  BY DEF TakesOK, ShotOK, JobOK
<1>4. ASSUME NEW x \in Shots \ {s}
      PROVE  SameShot(x)
  <2>1. job[x] # job[s]
    BY <1>1, <1>3, NoneAssumption
  <2> QED  BY <1>1, <1>2, <2>1 DEF SameShot
<1>5. Tracked'
  BY <1>1, <1>3 DEF Tracked, TakesOK
<1>6. Registered(s)' = Registered(s) /\ Usable(s)' = Usable(s)
  BY <1>1 DEF Registered, Usable
<1>7. Count(s, "audition")' = Count(s, "audition")
  BY <1>1, <1>6 DEF Count
<1>8. ShotOK(s)
  BY DEF TakesOK
<1>9. JobOK(s)' /\ ListOK(s)' /\ DecisionOK(s)' /\ CandidateOK(s)' /\ FreshOK(s)' /\ CountOK(s)'
  BY <1>1, <1>2, <1>6, <1>7, <1>8
     DEF JobOK, ListOK, DecisionOK, CandidateOK, FreshOK, CountOK, ShotOK
<1> QED  BY <1>4, <1>5, <1>9, SameShotOK DEF TakesOK, ShotOK

\* A take that is saved before the state lists it.
LEMMA StrandJobOK ==
    ASSUME StateTypeOK, TakesOK, NEW s \in Shots, StrandJob(s)
    PROVE  TakesOK'
<1> USE DEF StateTypeOK
<1>1. /\ job[s] \in Takes
      /\ takeState[job[s]] = "reserved"
      /\ takeState' = [takeState EXCEPT ![job[s]] = "written"]
      /\ UNCHANGED <<active, shotVars, ticket, staleTakes, referenceVars, candidates>>
  BY DEF StrandJob, Ending, scriptVars
<1>2. \A x \in Shots : SameShot(x)
  BY <1>1 DEF SameShot, Present, Prints, Fingerprint, referenceVars, shotVars
<1>3. Tracked'
  BY <1>1 DEF Tracked, TakesOK, shotVars
<1> QED  BY <1>2, <1>3, SameShotOK DEF TakesOK

\* What listing the take of a job leaves of the shot.  There is no further
\* audition in it yet.
LEMMA ListTake ==
    ASSUME StateTypeOK, TakesOK, NEW s \in Shots, job[s] \in Takes, Registrable(s),
           taken'[s] = taken[s] \cup {job[s]}, candidates'[s] = Offer(s),
           \A t \in Takes : takeState'[t] = "registered" /\ ticket'[t].shot = s <=>
              t \in Registered(s) \cup {job[s]},
           \A t \in Registered(s) \cup {job[s]} : ticket'[t] = ticket[t],
           rejected'[s] = rejected[s], selected'[s] = selected[s], approved'[s] = approved[s],
           UNCHANGED <<active, staleTakes, referenceVars>>,
           s \in Present
    PROVE  /\ ListOK(s)' /\ DecisionOK(s)' /\ CandidateOK(s)' /\ FreshOK(s)' /\ CountOK(s)'
           /\ \A p \in Profiles :
                Count(s, p)' = IF ticket[job[s]].profile = p THEN Count(s, p) + 1 ELSE Count(s, p)
<1> USE DEF StateTypeOK
<1>1. Present' = Present /\ Prints(s)' = Prints(s)
  BY DEF Present, Prints, Fingerprint, referenceVars
<1>2. ShotOK(s)
  BY DEF TakesOK
<1>3. Registered(s)' = Registered(s) \cup {job[s]}
  BY DEF Registered
<1>4. /\ takeState[job[s]] \in {"reserved", "written"}
      /\ ticket[job[s]].generation = Bundle[active].generation[s]
      /\ ticket[job[s]].prints = Prints(s)
      /\ ticket[job[s]].profile = "audition" => Count(s, "audition") < AuditionTakes
  BY <1>2, NoneAssumption DEF ShotOK, JobOK
<1>5. job[s] \notin Registered(s)
  BY <1>4 DEF Registered
<1>6. \A p \in Profiles :
        Count(s, p)' = IF ticket[job[s]].profile = p THEN Count(s, p) + 1 ELSE Count(s, p)
  <2>1. \A x \in Registered(s) : ticket'[x] = ticket[x]
    OBVIOUS
  <2>2. ticket'[job[s]] = ticket[job[s]]
    OBVIOUS
  <2> HIDE DEF StateTypeOK
  <2> QED  BY <1>3, <1>5, <2>1, <2>2, CountAdd
<1>7. Count(s, "audition")' <= AuditionTakes
  <2>1. "audition" \in Profiles
    BY DEF Profiles
  <2>2. Count(s, "audition") \in Nat /\ AuditionTakes \in Nat
    BY <2>1, CountType, BudgetAssumption
  <2>3. Count(s, "audition") <= AuditionTakes
    BY <1>2 DEF ShotOK, CountOK
  <2> QED  BY <1>4, <1>6, <2>1, <2>2, <2>3
<1>8. Usable(s) \subseteq Usable(s)' /\ Offer(s) \subseteq Usable(s)'
  BY DEF Usable, Offer, Registrable
<1>9. ListOK(s)'
  BY <1>2, <1>3 DEF ListOK, ShotOK
<1>10. DecisionOK(s)' /\ CandidateOK(s)'
  BY <1>1, <1>2, <1>8 DEF DecisionOK, CandidateOK, ShotOK
<1>11. FreshOK(s)'
  BY <1>1, <1>2, <1>3, <1>4 DEF FreshOK, ShotOK
<1> QED  BY <1>6, <1>7, <1>9, <1>10, <1>11 DEF CountOK

\* A completed job, and the next audition of its batch.
LEMMA CompleteJobOK ==
    ASSUME StateTypeOK, JobsPresent, TakesOK, NEW s \in Shots, CompleteJob(s)
    PROVE  TakesOK'
<1> USE DEF StateTypeOK
<1> DEFINE t == job[s]
           goal == TargetAfter(s)
<1>1. /\ t \in Takes /\ takeState[t] = "reserved" /\ Registrable(s)
      /\ taken' = [taken EXCEPT ![s] = @ \cup {t}]
      /\ candidates' = [candidates EXCEPT ![s] = Offer(s)]
      /\ target' = [target EXCEPT ![s] = goal]
      /\ UNCHANGED <<active, rejected, selected, approved, staleTakes, referenceVars>>
  BY DEF CompleteJob, Ending, scriptVars
<1>2. s \in Present
  BY <1>1, NoneAssumption DEF JobsPresent
<1>3. Present' = Present /\ \A x \in Shots : Prints(x)' = Prints(x)
  BY <1>1 DEF Present, Prints, Fingerprint, referenceVars
<1>4. \A x \in Shots : job[x] # NoTake =>
         ticket[job[x]].shot = x /\ takeState[job[x]] \in {"reserved", "written"}
  BY DEF TakesOK, ShotOK, JobOK
<1>5. ticket[t].shot = s
  BY <1>1, <1>4, NoneAssumption
<1>6. CASE /\ ~Continues(s, goal)
           /\ job' = [job EXCEPT ![s] = NoTake]
           /\ takeState' = [takeState EXCEPT ![t] = "registered"]
           /\ UNCHANGED ticket
  <2>1. ASSUME NEW x \in Shots \ {s}
        PROVE  SameShot(x)
    <3>1. job[x] # t
      BY <1>1, <1>4, <1>5, NoneAssumption
    <3> QED  BY <1>1, <1>3, <1>5, <1>6, <3>1 DEF SameShot
  <2>2. Tracked'
    BY <1>1, <1>5, <1>6 DEF Tracked, TakesOK
  <2>3. \A y \in Takes : takeState'[y] = "registered" /\ ticket'[y].shot = s <=>
           y \in Registered(s) \cup {t}
    BY <1>1, <1>5, <1>6 DEF Registered
  <2>4. ListOK(s)' /\ DecisionOK(s)' /\ CandidateOK(s)' /\ FreshOK(s)' /\ CountOK(s)'
    BY <1>1, <1>2, <1>6, <2>3, ListTake
  <2>5. JobOK(s)'
    BY <1>1, <1>6 DEF JobOK
  <2> QED  BY <2>1, <2>2, <2>4, <2>5, SameShotOK DEF TakesOK, ShotOK
<1>7. ASSUME Continues(s, goal), NEW n \in Takes, takeState[n] = "unused",
             job' = [job EXCEPT ![s] = n],
             takeState' = [takeState EXCEPT ![t] = "registered", ![n] = "reserved"],
             ticket' = [ticket EXCEPT ![n] = Request(s, "audition")]
      PROVE  TakesOK'
  <2>0. n # t /\ Request(s, "audition").shot = s
    BY <1>1, <1>7 DEF Request
  <2>1. ASSUME NEW x \in Shots \ {s}
        PROVE  SameShot(x)
    <3>1. job[x] # NoTake => job[x] # t /\ job[x] # n
      BY <1>4, <1>5, <1>7
    <3>2. job[x] # NoTake => job[x] \in Takes
      OBVIOUS
    <3> QED  BY <1>1, <1>3, <1>5, <1>7, <2>0, <3>1, <3>2 DEF SameShot
  <2>2. Tracked'
    BY <1>1, <1>5, <1>7, <2>0 DEF Tracked, TakesOK
  <2>3. \A y \in Takes : takeState'[y] = "registered" /\ ticket'[y].shot = s <=>
           y \in Registered(s) \cup {t}
    BY <1>1, <1>5, <1>7, <2>0 DEF Registered
  <2>4. \A y \in Registered(s) \cup {t} : ticket'[y] = ticket[y]
    BY <1>7, <2>0 DEF Registered
  <2>5. /\ ListOK(s)' /\ DecisionOK(s)' /\ CandidateOK(s)' /\ FreshOK(s)' /\ CountOK(s)'
        /\ \A p \in Profiles :
             Count(s, p)' = IF ticket[t].profile = p THEN Count(s, p) + 1 ELSE Count(s, p)
    BY <1>1, <1>2, <2>3, <2>4, ListTake
  <2>6. goal # 0 /\ goal = target[s] /\ Count(s, ticket[t].profile) + 1 < target[s]
    BY <1>1, <1>7, CountType DEF Continues, TargetAfter, Ticket
  <2>7. ticket[t].profile = "audition"
    <3>1. ticket[t].profile \in Profiles
      BY <1>1 DEF Ticket
    <3>2. ticket[t].profile = "final" => target[s] = 0
      BY <1>1, NoneAssumption DEF TakesOK, ShotOK, JobOK
    <3> QED  BY <3>1, <3>2, <2>6 DEF Profiles
  <2>8. Count(s, "audition")' < AuditionTakes
    BY <2>5, <2>6, <2>7, CountType, BudgetAssumption DEF Profiles
  <2>9. job'[s] = n /\ takeState'[n] = "reserved" /\ ticket'[n] = Request(s, "audition")
    BY <1>7
  <2>10. JobOK(s)'
    BY <1>1, <1>3, <2>8, <2>9 DEF JobOK, Request
  <2> QED  BY <2>1, <2>2, <2>5, <2>10, SameShotOK DEF TakesOK, ShotOK
<1> QED  BY <1>6, <1>7 DEF CompleteJob

LEMMA EnqueueShotOK ==
    ASSUME StateTypeOK, TakesOK, NEW s \in Shots, NEW p \in Profiles, NEW w \in Walls,
           EnqueueShot(s, p, w)
    PROVE  TakesOK'
<1>1. /\ s \in Present /\ job[s] = NoTake
      /\ p = "audition" => Count(s, p) < AuditionTakes
      /\ UNCHANGED <<active, taken, rejected, selected, approved, staleTakes, referenceVars,
                     candidates>>
  BY DEF EnqueueShot, Admitted, scriptVars
<1>2. PICK n \in Takes :
        /\ takeState[n] = "unused"
        /\ takeState' = [takeState EXCEPT ![n] = "reserved"]
        /\ ticket' = [ticket EXCEPT ![n] = Request(s, p)]
        /\ job' = [job EXCEPT ![s] = n]
  BY DEF EnqueueShot
<1>3. PICK goal \in IF p = "final" THEN {0} ELSE {1, AuditionTakes} :
        target' = [target EXCEPT ![s] = goal]
  BY DEF EnqueueShot
<1>4. goal \in 0..AuditionTakes /\ (p = "final" => goal = 0)
  BY <1>3, BudgetAssumption
<1> QED  BY <1>1, <1>2, <1>3, <1>4, ReserveOK

LEMMA ResumeAuditionOK ==
    ASSUME StateTypeOK, JobsPresent, TakesOK, NEW s \in Shots, ResumeAudition(s)
    PROVE  TakesOK'
<1>1. /\ job[s] = NoTake /\ target[s] # 0
      /\ UNCHANGED <<active, taken, rejected, selected, approved, staleTakes, referenceVars,
                     candidates>>
  BY DEF ResumeAudition, Continues, scriptVars
<1>2. s \in Present
  BY <1>1 DEF JobsPresent
<1>3. CASE target' = [target EXCEPT ![s] = 0] /\ UNCHANGED <<stage, job, takeState, ticket>>
  <2>1. Present' = Present /\ \A x \in Shots : Prints(x)' = Prints(x)
    BY <1>1 DEF Present, Prints, Fingerprint, referenceVars
  <2>2. \A x \in Shots \ {s} : SameShot(x)
    BY <1>1, <1>3, <2>1 DEF SameShot, StateTypeOK
  <2>3. Tracked'
    BY <1>3 DEF Tracked, TakesOK
  <2>4. Registered(s)' = Registered(s) /\ Usable(s)' = Usable(s)
    BY <1>1, <1>3 DEF Registered, Usable
  <2>5. Count(s, "audition")' = Count(s, "audition")
    BY <1>3, <2>4 DEF Count
  <2>6. ShotOK(s)
    BY DEF TakesOK
  <2>7. JobOK(s)' /\ ListOK(s)' /\ DecisionOK(s)' /\ CandidateOK(s)' /\ FreshOK(s)' /\ CountOK(s)'
    BY <1>1, <1>3, <2>1, <2>4, <2>5, <2>6
       DEF JobOK, ListOK, DecisionOK, CandidateOK, FreshOK, CountOK, ShotOK
  <2> QED  BY <2>2, <2>3, <2>7, SameShotOK DEF TakesOK, ShotOK
<1>4. ASSUME Count(s, "audition") < target[s], NEW n \in Takes, takeState[n] = "unused",
             takeState' = [takeState EXCEPT ![n] = "reserved"],
             ticket' = [ticket EXCEPT ![n] = Request(s, "audition")],
             job' = [job EXCEPT ![s] = n], UNCHANGED target
      PROVE  TakesOK'
  <2>1. target[s] \in 0..AuditionTakes /\ target' = [target EXCEPT ![s] = target[s]]
    BY <1>4 DEF StateTypeOK
  <2>2. Count(s, "audition") < AuditionTakes
    BY <1>4, <2>1, CountType, BudgetAssumption DEF Profiles
  <2> QED  BY <1>1, <1>2, <1>4, <2>1, <2>2, ReserveOK DEF Profiles
<1> QED  BY <1>3, <1>4 DEF ResumeAudition

-----------------------------------------------------------------------------
(* Decisions                                                                *)

\* Steps that change what is decided of the takes, and nothing about the takes.
LEMMA DecidedOK ==
    ASSUME StateTypeOK, TakesOK,
           UNCHANGED <<active, job, taken, takeVars, referenceVars>>,
           \A s \in Shots : target'[s] \in {target[s], 0},
           \A s \in Shots : rejected'[s] = rejected[s] \/ job[s] = NoTake,
           \A s \in Shots : rejected'[s] \subseteq taken[s],
           \A s \in Shots : {selected'[s], approved'[s]} \subseteq Usable(s)' \cup {NoTake},
           \A s \in Shots : approved'[s] \in {NoTake, selected'[s]},
           \A s \in Shots : candidates'[s] \subseteq candidates[s] \cap Usable(s)'
    PROVE  TakesOK'
<1>1. Present' = Present /\ \A s \in Shots : Prints(s)' = Prints(s)
  BY DEF Present, Prints, Fingerprint, referenceVars
<1>2. Tracked'
  BY DEF Tracked, TakesOK, takeVars
<1>3. ASSUME NEW s \in Shots
      PROVE  ShotOK(s)'
  <2>1. Registered(s)' = Registered(s)
    BY DEF Registered, takeVars
  <2>2. Count(s, "audition")' = Count(s, "audition")
    BY <2>1 DEF Count, takeVars
  <2>3. ShotOK(s)
    BY DEF TakesOK
  <2>4. JobOK(s)'
    BY <1>1, <2>2, <2>3 DEF JobOK, ShotOK, takeVars
  <2>5. ListOK(s)' /\ FreshOK(s)' /\ CountOK(s)'
    BY <1>1, <2>1, <2>2, <2>3 DEF ListOK, FreshOK, CountOK, ShotOK, takeVars
  <2>6. DecisionOK(s)' /\ CandidateOK(s)'
    BY <1>1, <2>3 DEF DecisionOK, CandidateOK, ShotOK
  <2> QED  BY <2>4, <2>5, <2>6 DEF ShotOK
<1> QED  BY <1>2, <1>3 DEF TakesOK

LEMMA DecideOK ==
    ASSUME StateTypeOK, TakesOK, NEW shots \in SUBSET Shots, NEW pick \in [shots -> Takes],
           NEW verdict \in {"selected", "approved"}, Decide(pick, verdict)
    PROVE  TakesOK'
<1>1. UNCHANGED <<active, job, taken, rejected, takeVars, referenceVars>>
  BY DEF Decide, scriptVars
<1>2. \A s \in Shots : Usable(s)' = Usable(s)
  BY <1>1 DEF Usable, takeVars
<1>3. \A s \in Shots : ListOK(s) /\ DecisionOK(s) /\ CandidateOK(s)
  BY DEF TakesOK, ShotOK
<1>4. \A s \in shots : pick[s] \in Usable(s) /\ approved[s] = NoTake
  BY DEF Decide, Decidable
<1>5. \A s \in Shots : target'[s] \in {target[s], 0}
  BY DEF Decide
<1>6. \A s \in Shots : candidates'[s] \subseteq candidates[s]
  BY DEF Decide
<1>7. \A s \in Shots : {selected'[s], approved'[s]} \subseteq Usable(s) \cup {NoTake}
  BY <1>3, <1>4 DEF Decide, DecisionOK
<1>8. \A s \in Shots : approved'[s] \in {NoTake, selected'[s]}
  BY <1>3, <1>4 DEF Decide, DecisionOK
<1>9. \A s \in Shots : rejected'[s] = rejected[s] /\ rejected'[s] \subseteq taken[s]
                       /\ candidates[s] \subseteq Usable(s)
  BY <1>1, <1>3 DEF ListOK, CandidateOK
<1> QED  BY <1>1, <1>2, <1>5, <1>6, <1>7, <1>8, <1>9, DecidedOK

LEMMA RejectTakeOK ==
    ASSUME StateTypeOK, TakesOK, NEW s \in Shots, NEW t \in Takes, RejectTake(s, t)
    PROVE  TakesOK'
<1> USE DEF StateTypeOK
<1>1. /\ UNCHANGED <<active, job, taken, approved, takeVars, referenceVars>>
      /\ rejected' = [rejected EXCEPT ![s] = @ \cup {t}]
      /\ selected' = [selected EXCEPT ![s] = IF selected[s] = t THEN NoTake ELSE selected[s]]
      /\ target' = [target EXCEPT ![s] = 0]
      /\ candidates' = [candidates EXCEPT ![s] = @ \ {t}]
  BY DEF RejectTake, scriptVars
<1>2. job[s] = NoTake /\ approved[s] = NoTake /\ t \in Usable(s)
  BY DEF RejectTake, Decidable
<1>3. \A x \in Shots : ListOK(x) /\ DecisionOK(x) /\ CandidateOK(x)
  BY DEF TakesOK, ShotOK
<1>4. Usable(s)' = Usable(s) \ {t} /\ \A x \in Shots \ {s} : Usable(x)' = Usable(x)
  BY <1>1 DEF Usable, takeVars
<1>5. \A x \in Shots : target'[x] \in {target[x], 0}
  BY <1>1
<1>6. \A x \in Shots : rejected'[x] = rejected[x] \/ job[x] = NoTake
  BY <1>1, <1>2
<1>7. \A x \in Shots : rejected'[x] \subseteq taken[x]
  BY <1>1, <1>2, <1>3 DEF ListOK, Usable
<1>8. \A x \in Shots : {selected'[x], approved'[x]} \subseteq Usable(x)' \cup {NoTake}
  BY <1>1, <1>2, <1>3, <1>4 DEF DecisionOK
<1>9. \A x \in Shots : approved'[x] \in {NoTake, selected'[x]}
  BY <1>1, <1>2, <1>3 DEF DecisionOK
<1>10. \A x \in Shots : candidates'[x] \subseteq candidates[x] \cap Usable(x)'
  BY <1>1, <1>3, <1>4 DEF CandidateOK
<1> QED  BY <1>1, <1>5, <1>6, <1>7, <1>8, <1>9, <1>10, DecidedOK

-----------------------------------------------------------------------------
(* Scripts and references                                                   *)

\* Steps that renew some shots: their takes are stale from then on.
LEMMA RenewOK ==
    ASSUME StateTypeOK, TakesOK, NEW renewed \in SUBSET Shots,
           UNCHANGED <<job, takeState, ticket>>,
           \A s \in renewed : job[s] = NoTake,
           staleTakes' = staleTakes \cup UNION {Registered(s) : s \in renewed},
           \A s \in renewed : /\ selected'[s] = NoTake /\ approved'[s] = NoTake
                              /\ candidates'[s] = {}
                              /\ ListOK(s)',
           \A s \in Shots \ renewed :
              /\ target'[s] = target[s] /\ taken'[s] = taken[s] /\ rejected'[s] = rejected[s]
              /\ selected'[s] = selected[s] /\ approved'[s] = approved[s]
              /\ candidates'[s] = candidates[s]
              /\ s \in Present' <=> s \in Present
              /\ s \in Present \/ job[s] # NoTake =>
                    /\ Bundle[active'].generation[s] = Bundle[active].generation[s]
                    /\ Prints(s)' = Prints(s)
    PROVE  TakesOK'
<1>1. \A s \in Shots : Registered(s)' = Registered(s)
  BY DEF Registered
<1>2. ASSUME NEW s \in Shots \ renewed
      PROVE  SameShot(s)
  <2>1. ASSUME NEW t \in Takes, ticket[t].shot = s
        PROVE  t \in staleTakes' <=> t \in staleTakes
    BY <2>1 DEF Registered
  <2> QED  BY <2>1 DEF SameShot
<1>3. ASSUME NEW s \in renewed
      PROVE  ShotOK(s)'
  <2>1. JobOK(s)'
    BY <1>3 DEF JobOK
  <2>2. DecisionOK(s)' /\ CandidateOK(s)'
    BY <1>3 DEF DecisionOK, CandidateOK
  <2>3. Registered(s) \subseteq staleTakes'
    BY <1>3
  <2>4. FreshOK(s)'
    BY <1>1, <1>3, <2>3 DEF FreshOK
  <2>5. Count(s, "audition")' = Count(s, "audition")
    <3>1. Registered(s)' = Registered(s)
      BY <1>1, <1>3
    <3>2. {t \in Registered(s)' : ticket'[t].profile = "audition"}
            = {t \in Registered(s) : ticket[t].profile = "audition"}
      BY <3>1
    <3> QED  BY <3>2, Zenon DEF Count
  <2>6. CountOK(s)
    BY <1>3 DEF TakesOK, ShotOK
  <2>7. CountOK(s)'
    BY <2>5, <2>6 DEF CountOK
  <2> QED  BY <1>3, <2>1, <2>2, <2>4, <2>7 DEF ShotOK
<1>4. Tracked'
  BY DEF Tracked, TakesOK
<1> QED  BY <1>2, <1>3, <1>4, SameShotOK DEF TakesOK

LEMMA ApproveScriptOK ==
    ASSUME StateTypeOK, JobsPresent, TakesOK, NEW c \in Contracts, ApproveScript(c)
    PROVE  TakesOK'
<1> USE DEF StateTypeOK
<1> DEFINE changed == (Present \cup Bundle[c].shots) \ SameGeneration(c)
<1>1. Present \subseteq Shots /\ Bundle[c].shots \subseteq Shots
  BY PresentType, BundleAssumption DEF ScriptBundle
<1>2. UNCHANGED <<job, takeState, ticket, referenceVars>> /\ active' = c
  BY DEF ApproveScript
<1>3. \A s \in Shots : job[s] = NoTake
  BY DEF ApproveScript, Busy
<1>4. Present' = Bundle[c].shots
  BY <1>2, NoneAssumption DEF Present
<1>5. staleTakes' = staleTakes \cup UNION {Registered(s) : s \in changed}
  BY DEF ApproveScript
<1>6. \A s \in changed : /\ selected'[s] = NoTake /\ approved'[s] = NoTake
                         /\ candidates'[s] = {} /\ taken'[s] = {} /\ rejected'[s] = {}
  BY <1>1 DEF ApproveScript
<1>7. \A s \in Shots \ changed :
         /\ target'[s] = target[s] /\ taken'[s] = taken[s] /\ rejected'[s] = rejected[s]
         /\ selected'[s] = selected[s] /\ approved'[s] = approved[s]
         /\ candidates'[s] = candidates[s]
  BY DEF ApproveScript
<1>8. ASSUME NEW s \in Shots \ changed
      PROVE  s \in Present' <=> s \in Present
  BY <1>4 DEF SameGeneration
<1>9. ASSUME NEW s \in Shots \ changed, s \in Present
      PROVE  /\ Bundle[active'].generation[s] = Bundle[active].generation[s]
             /\ Prints(s)' = Prints(s)
  <2>1. active \in Contracts
    BY <1>9, PresentType
  <2>2. Bundle[active].generation[s] = Bundle[c].generation[s]
    BY <1>9 DEF SameGeneration
  <2>3. Bundle[active].uses[s] = Bundle[c].uses[s]
    BY <2>1, <2>2, BundleAssumption
  <2> QED  BY <1>2, <2>2, <2>3 DEF Prints, Fingerprint, referenceVars
<1>10. \A s \in changed : ListOK(s)'
  BY <1>6 DEF ListOK
<1> HIDE DEF changed
<1>11. changed \in SUBSET Shots
  BY <1>1 DEF changed
<1>12. \A s \in Shots \ changed :
          /\ target'[s] = target[s] /\ taken'[s] = taken[s] /\ rejected'[s] = rejected[s]
          /\ selected'[s] = selected[s] /\ approved'[s] = approved[s]
          /\ candidates'[s] = candidates[s]
          /\ s \in Present' <=> s \in Present
          /\ s \in Present \/ job[s] # NoTake =>
                /\ Bundle[active'].generation[s] = Bundle[active].generation[s]
                /\ Prints(s)' = Prints(s)
  BY <1>3, <1>7, <1>8, <1>9
<1>13. \A s \in changed : /\ selected'[s] = NoTake /\ approved'[s] = NoTake
                          /\ candidates'[s] = {}
                          /\ ListOK(s)'
  BY <1>6, <1>10
<1>14. \A s \in changed : job[s] = NoTake
  BY <1>3, <1>11
<1> HIDE DEF StateTypeOK
<1> QED  BY <1>2, <1>5, <1>11, <1>12, <1>13, <1>14, RenewOK

LEMMA WriteReferenceOK ==
    ASSUME StateTypeOK, JobsPresent, TakesOK, NEW r \in References,
           NEW u \in Subjects \cup {NoSubject}, NEW superseded \in SUBSET References,
           \A old \in superseded : subjectOf[old] = u,
           WriteReference(r, u, superseded)
    PROVE  TakesOK'
<1> USE DEF StateTypeOK
<1> DEFINE invalidated == {s \in Affected(u) : Registered(s) \ staleTakes # {}}
<1>1. Affected(u) \subseteq Present /\ Present \subseteq Shots
  BY PresentType DEF Affected
<1>2. /\ UNCHANGED <<active, job, taken, rejected, takeState, ticket>>
      /\ subjectOf[r] = NoSubject
      /\ subjectOf' = [subjectOf EXCEPT ![r] = u]
      /\ activeRefs' = (activeRefs \ superseded) \cup {r}
      /\ Affected(u) \cap Busy = {}
  BY DEF WriteReference, scriptVars
<1>3. \A s \in Affected(u) : job[s] = NoTake
  BY <1>1, <1>2 DEF Busy
<1>4. ASSUME NEW s \in Affected(u) \ invalidated
      PROVE  /\ Registered(s) \subseteq staleTakes
             /\ selected[s] = NoTake /\ approved[s] = NoTake /\ candidates[s] = {}
  <2>1. Registered(s) \subseteq staleTakes
    BY <1>4
  <2>2. ShotOK(s)
    BY <1>1 DEF TakesOK
  <2>3. Usable(s) = {}
    BY <2>1, <2>2 DEF ShotOK, ListOK, Usable
  <2> QED  BY <2>1, <2>2, <2>3 DEF ShotOK, DecisionOK, CandidateOK
<1>5. staleTakes' = staleTakes \cup UNION {Registered(s) : s \in Affected(u)}
  <2>1. staleTakes' = staleTakes \cup UNION {Registered(s) : s \in invalidated}
    BY DEF WriteReference
  <2> QED  BY <1>4, <2>1
<1>6. \A s \in Affected(u) : selected'[s] = NoTake /\ approved'[s] = NoTake /\ candidates'[s] = {}
  <2>1. \A s \in invalidated : selected'[s] = NoTake /\ approved'[s] = NoTake /\ candidates'[s] = {}
    BY <1>1 DEF WriteReference
  <2>2. \A s \in Affected(u) \ invalidated :
           selected'[s] = selected[s] /\ approved'[s] = approved[s] /\ candidates'[s] = candidates[s]
    BY <1>1 DEF WriteReference
  <2> QED  BY <1>4, <2>1, <2>2
<1>7. \A s \in Shots \ Affected(u) :
         /\ target'[s] = target[s] /\ selected'[s] = selected[s] /\ approved'[s] = approved[s]
         /\ candidates'[s] = candidates[s]
  BY DEF WriteReference
<1>8. Present' = Present
  BY <1>2 DEF Present
<1>9. \A s \in Affected(u) : ListOK(s)'
  <2>1. \A s \in Shots : Registered(s)' = Registered(s)
    BY <1>2 DEF Registered
  <2> QED  BY <1>1, <1>2, <2>1 DEF ListOK, TakesOK, ShotOK
<1>10. ASSUME NEW s \in Shots \ Affected(u), s \in Present
       PROVE  Prints(s)' = Prints(s)
  <2>1. u \notin Bundle[active].uses[s]
    BY <1>10 DEF Affected
  <2>2. NoSubject \notin Bundle[active].uses[s]
    BY <1>10, PresentType, BundleAssumption, NoneAssumption DEF ScriptBundle
  <2>3. \A x \in References : x \in activeRefs' /\ subjectOf'[x] \in Bundle[active].uses[s]
           <=> x \in activeRefs /\ subjectOf[x] \in Bundle[active].uses[s]
    BY <1>2, <2>1, <2>2
  <2>4. activeRefs' \subseteq References
    BY <1>2
  <2> QED  BY <1>2, <2>3, <2>4 DEF Prints, Fingerprint
<1>11. ASSUME NEW s \in Shots \ Affected(u), s \in Present \/ job[s] # NoTake
       PROVE  Bundle[active'].generation[s] = Bundle[active].generation[s] /\ Prints(s)' = Prints(s)
  BY <1>2, <1>10, <1>11 DEF JobsPresent
<1>12. Affected(u) \in SUBSET Shots
  BY <1>1
<1>13. \A s \in Shots \ Affected(u) :
          /\ target'[s] = target[s] /\ taken'[s] = taken[s] /\ rejected'[s] = rejected[s]
          /\ selected'[s] = selected[s] /\ approved'[s] = approved[s]
          /\ candidates'[s] = candidates[s]
          /\ s \in Present' <=> s \in Present
          /\ s \in Present \/ job[s] # NoTake =>
                /\ Bundle[active'].generation[s] = Bundle[active].generation[s]
                /\ Prints(s)' = Prints(s)
  BY <1>2, <1>7, <1>8, <1>11
<1>14. \A s \in Affected(u) : /\ selected'[s] = NoTake /\ approved'[s] = NoTake
                              /\ candidates'[s] = {}
                              /\ ListOK(s)'
  BY <1>6, <1>9
<1> HIDE DEF invalidated, StateTypeOK
<1> QED  BY <1>2, <1>3, <1>5, <1>12, <1>13, <1>14, RenewOK

-----------------------------------------------------------------------------
(* Recovery, and every step                                                 *)

LEMMA BootOK ==
    ASSUME StateTypeOK, JobsPresent, TakesOK, Boot
    PROVE  TakesOK'
<1> USE DEF StateTypeOK
<1>1. /\ \A s \in Stranded : Registrable(s)
      /\ taken' = [s \in Shots |-> IF s \in Stranded THEN taken[s] \cup {job[s]} ELSE taken[s]]
      /\ candidates' = [s \in Shots |-> IF s \in Stranded THEN Offer(s) ELSE candidates[s]]
      /\ target' = [s \in Shots |-> IF s \in Stranded THEN TargetAfter(s) ELSE target[s]]
      /\ job' = [s \in Shots |-> IF s \in Stranded THEN NoTake ELSE job[s]]
      /\ takeState' = [t \in Takes |-> IF takeState[t] = "written" THEN "registered"
                                       ELSE takeState[t]]
      /\ UNCHANGED <<active, rejected, selected, approved, ticket, staleTakes, referenceVars>>
  BY DEF Boot, RecoverTerminalJobs, scriptVars
<1>2. Present' = Present /\ \A x \in Shots : Prints(x)' = Prints(x)
  BY <1>1 DEF Present, Prints, Fingerprint, referenceVars
<1>3. ASSUME NEW t \in Takes, takeState[t] = "written"
      PROVE  ticket[t].shot \in Stranded /\ job[ticket[t].shot] = t
  <2>1. ticket[t].shot \in Shots /\ job[ticket[t].shot] = t
    BY <1>3 DEF TakesOK, Tracked
  <2> QED  BY <1>3, <2>1, NoneAssumption DEF Stranded, Busy
<1>4. \A s \in Shots : job[s] # NoTake =>
         ticket[job[s]].shot = s /\ takeState[job[s]] \in {"reserved", "written"}
  BY DEF TakesOK, ShotOK, JobOK
<1>5. ASSUME NEW s \in Shots \ Stranded
      PROVE  SameShot(s)
  <2>1. \A t \in Takes : ticket[t].shot = s => takeState'[t] = takeState[t]
    BY <1>1, <1>3, <1>5
  <2>2. job[s] # NoTake => takeState[job[s]] # "written" /\ job[s] \in Takes
    BY <1>5 DEF Stranded, Busy
  <2> QED  BY <1>1, <1>2, <1>5, <2>1, <2>2 DEF SameShot
<1>6. ASSUME NEW s \in Stranded
      PROVE  ShotOK(s)'
  <2>1. s \in Shots /\ job[s] \in Takes /\ takeState[job[s]] = "written"
    BY <1>6 DEF Stranded, Busy
  <2>2. s \in Present
    BY <2>1, NoneAssumption DEF JobsPresent
  <2>3. ticket[job[s]].shot = s
    BY <1>4, <2>1, NoneAssumption
  <2>4. \A t \in Takes : takeState'[t] = "registered" /\ ticket'[t].shot = s <=>
           t \in Registered(s) \cup {job[s]}
    BY <1>1, <1>3, <2>1, <2>3 DEF Registered
  <2>5. /\ taken'[s] = taken[s] \cup {job[s]} /\ candidates'[s] = Offer(s)
        /\ rejected'[s] = rejected[s] /\ selected'[s] = selected[s] /\ approved'[s] = approved[s]
        /\ Registrable(s) /\ job'[s] = NoTake
        /\ \A t \in Registered(s) \cup {job[s]} : ticket'[t] = ticket[t]
    BY <1>1, <1>6, <2>1
  <2>6. ListOK(s)' /\ DecisionOK(s)' /\ CandidateOK(s)' /\ FreshOK(s)' /\ CountOK(s)'
    BY <1>1, <2>1, <2>2, <2>4, <2>5, ListTake
  <2>7. JobOK(s)'
    BY <2>5 DEF JobOK
  <2> QED  BY <2>6, <2>7 DEF ShotOK
<1>7. Tracked'
  <2>1. ASSUME NEW t \in Takes, takeState'[t] \in {"reserved", "written"}
        PROVE  ticket'[t].shot \in Shots /\ job'[ticket'[t].shot] = t
    <3>1. takeState[t] = "reserved" /\ ticket'[t] = ticket[t]
      BY <1>1, <2>1
    <3>2. ticket[t].shot \in Shots /\ job[ticket[t].shot] = t
      BY <3>1 DEF TakesOK, Tracked
    <3>3. ticket[t].shot \notin Stranded
      BY <3>1, <3>2 DEF Stranded
    <3> QED  BY <1>1, <3>1, <3>2, <3>3
  <2> QED  BY <2>1 DEF Tracked
<1> QED  BY <1>5, <1>6, <1>7, SameShotOK DEF TakesOK

LEMMA RequestedTakes ==
    ASSUME StateTypeOK, JobsPresent, TakesOK, Requested
    PROVE  TakesOK'
<1>1. ASSUME NEW c \in Contracts, ApplyBundle(c)
      PROVE  TakesOK'
  BY <1>1, ElsewhereOK DEF ApplyBundle
<1>2. ASSUME NEW c \in Contracts, ApproveScript(c)
      PROVE  TakesOK'
  BY <1>2, ApproveScriptOK
<1>3. ASSUME NEW r \in References, NEW u \in Subjects \cup {NoSubject},
             NEW superseded \in SUBSET References, \A old \in superseded : subjectOf[old] = u,
             WriteReference(r, u, superseded)
      PROVE  TakesOK'
  BY <1>3, WriteReferenceOK
<1>4. ASSUME NEW s \in Shots, NEW p \in Profiles, NEW w \in Walls, EnqueueShot(s, p, w)
      PROVE  TakesOK'
  BY <1>4, EnqueueShotOK
<1>5. ASSUME NEW s \in Shots, NEW p \in Profiles, NEW w \in Walls, AskOverrun(s, p, w)
      PROVE  TakesOK'
  BY <1>5, ElsewhereOK DEF AskOverrun, scriptVars
<1>6. ASSUME NEW o, ApproveOverrun(o) \/ UpdateBudget(o)
      PROVE  TakesOK'
  BY <1>6, ElsewhereOK DEF ApproveOverrun, UpdateBudget, scriptVars
<1>7. ASSUME NEW s \in Shots, CompleteJob(s)
      PROVE  TakesOK'
  BY <1>7, CompleteJobOK
<1>8. ASSUME NEW s \in Shots, StrandJob(s)
      PROVE  TakesOK'
  BY <1>8, StrandJobOK
<1>9. ASSUME NEW s \in Shots, NEW next \in ShotStage, EndWithoutTake(s, next)
      PROVE  TakesOK'
  BY <1>9, EndWithoutTakeOK
<1>10. ASSUME NEW shots \in SUBSET Shots, NEW pick \in [shots -> Takes],
              NEW verdict \in {"selected", "approved"}, Decide(pick, verdict)
       PROVE  TakesOK'
  BY <1>10, DecideOK
<1>11. ASSUME NEW s \in Shots, NEW t \in Takes, RejectTake(s, t)
       PROVE  TakesOK'
  BY <1>11, RejectTakeOK
<1> QED  BY <1>1, <1>2, <1>3, <1>4, <1>5, <1>6, <1>7, <1>8, <1>9, <1>10, <1>11 DEF Requested

LEMMA StepTakes ==
    ASSUME TakesInv, [Next]_vars
    PROVE  TakesInv'
<1>1. StateTypeOK /\ JobsPresent /\ TakesOK /\ Typed
  BY DEF TakesInv, Typed, TypeOK, TakesOK
<1>2. Typed'
  BY <1>1, StepTyped
<1>3. TakesOK'
  <2>1. CASE Reviewing
    BY <1>1, <2>1, EveryRequest, RequestedTakes
  <2>2. CASE UNCHANGED <<active, shotVars, takeVars, referenceVars, candidates>>
    BY <1>1, <2>2, ElsewhereOK
  <2>3. ASSUME NEW s \in Shots, StrandJob(s)
        PROVE  TakesOK'
    BY <1>1, <2>3, StrandJobOK
  <2>4. CASE Boot
    BY <1>1, <2>4, BootOK
  <2>5. ASSUME NEW s \in Shots, ResumeAudition(s)
        PROVE  TakesOK'
    BY <1>1, <2>5, ResumeAuditionOK
  <2>6. ASSUME UNCHANGED outsideBuilds
        PROVE  TakesOK'
    BY <2>2, <2>6 DEF outsideBuilds, scriptVars
  <2>7. ASSUME UNCHANGED stateVars
        PROVE  TakesOK'
    BY <2>2, <2>7 DEF stateVars, scriptVars
  <2>8. ASSUME NEW b \in Builds, NEW kind \in Kinds, NEW chosen \in SUBSET Shots,
               Build(b, kind, chosen)
        PROVE  TakesOK'
    BY <2>6, <2>8 DEF Build, StartBuild
  <2>9. ASSUME NEW b \in Builds, ApproveBuildReview(b) \/ DamageRecipe(b)
        PROVE  TakesOK'
    BY <2>6, <2>9 DEF ApproveBuildReview, DamageRecipe
  <2>10. ASSUME NEW b \in Builds, PollStarted(b) \/ PollCompleted(b) \/ PollFailed(b)
         PROVE  TakesOK'
    BY <2>6, <2>10 DEF PollStarted, PollCompleted, PollFailed, Polled
  <2>11. ASSUME NEW kind, ExecutorStarts \/ ExecutorEnds(kind) \/ BootDone
         PROVE  TakesOK'
    BY <2>7, <2>11 DEF ExecutorStarts, ExecutorEnds, BootDone
  <2>12. CASE Crash
    BY <2>3, <2>7, <2>12 DEF Crash
  <2>13. CASE UNCHANGED vars
    BY <2>7, <2>13 DEF vars
  <2> QED  BY <2>1, <2>4, <2>5, <2>8, <2>9, <2>10, <2>11, <2>12, <2>13 DEF Next, BootAudition
<1> QED  BY <1>1, <1>2, <1>3 DEF TakesInv, TakesOK

LEMMA InitTakes ==
    ASSUME Init
    PROVE  TakesInv
<1>1. Typed
  BY InitTyped
<1>2. Tracked
  BY DEF Init, StateInit, Tracked
<1>3. ASSUME NEW s \in Shots
      PROVE  ShotOK(s)
  <2>1. Registered(s) = {}
    BY DEF Init, StateInit, Registered
  <2>2. Count(s, "audition") = 0
    BY <2>1, FS_EmptySet DEF Count
  <2>3. JobOK(s) /\ ListOK(s) /\ DecisionOK(s) /\ CandidateOK(s)
    BY <2>1 DEF Init, StateInit, JobOK, ListOK, DecisionOK, CandidateOK
  <2>4. FreshOK(s) /\ CountOK(s)
    BY <2>1, <2>2, BudgetAssumption DEF FreshOK, CountOK
  <2> QED  BY <2>3, <2>4 DEF ShotOK
<1> QED  BY <1>1, <1>2, <1>3 DEF TakesInv

LEMMA TakesInvariant == Spec => []TakesInv
<1>1. Init => TakesInv
  BY InitTakes
<1>2. TakesInv /\ [Next]_vars => TakesInv'
  BY StepTakes
<1> QED  BY <1>1, <1>2, PTL DEF Spec

\* A take that is not stale is what its shot would be generated from today, for
\* every project and however often scripts, references and jobs interleave.
THEOREM FreshTakes == Spec => []FreshTakesMatchInputs
<1>1. TakesInv => FreshTakesMatchInputs
  <2> SUFFICES ASSUME TakesInv PROVE FreshTakesMatchInputs
    OBVIOUS
  <2>1. Present \subseteq Shots
    BY PresentType DEF TakesInv, Typed, TypeOK
  <2> QED  BY <2>1 DEF TakesInv, ShotOK, FreshOK, FreshTakesMatchInputs
<1> QED  BY <1>1, TakesInvariant, PTL

\* No batch, retry, new script or restart gives a shot more auditions than the
\* contract grants.
THEOREM AuditionLimit == Spec => []AuditionsWithinContract
<1>1. TakesInv => AuditionsWithinContract
  BY DEF TakesInv, ShotOK, CountOK, Count, AuditionsWithinContract
<1> QED  BY <1>1, TakesInvariant, PTL

-----------------------------------------------------------------------------
(* What validate asks of the rest of the state                              *)

\* The approvals and scripts that validate looks at.
ApprovalsOK == ContractKnown /\ OutcomeMatchesApprovals /\ OverrunsAwaitApproval

LEMMA RefreshedMatches ==
    ASSUME NEW o, Refreshed(o)
    PROVE  OutcomeMatchesApprovals'
  BY DEF Refreshed, OutcomeMatchesApprovals

LEMMA SameApprovals ==
    ASSUME ApprovalsOK, UNCHANGED <<scriptVars, candidates, reviews, outcome, budgetVars>>
    PROVE  ApprovalsOK'
  BY DEF ApprovalsOK, ContractKnown, OutcomeMatchesApprovals, OverrunsAwaitApproval, Blocked,
     PendingScripts, scriptVars, budgetVars

LEMMA RequestedApprovals ==
    ASSUME StateTypeOK, ApprovalsOK, Requested
    PROVE  ApprovalsOK'
<1> USE DEF ApprovalsOK
<1>1. ASSUME UNCHANGED <<scriptVars, budgetVars>>, Refreshed(outcome)
      PROVE  ApprovalsOK'
  BY <1>1, RefreshedMatches DEF ContractKnown, OverrunsAwaitApproval, scriptVars, budgetVars
<1>2. ASSUME NEW c \in Contracts, ApplyBundle(c)
      PROVE  ApprovalsOK'
  <2>1. Refreshed(outcome) /\ UNCHANGED budgetVars /\ active' = active
        /\ contracts' = [contracts EXCEPT ![c] = "pending_approval"]
    BY <1>2 DEF ApplyBundle
  <2>2. ContractKnown'
    BY <2>1 DEF ContractKnown, StateTypeOK
  <2>3. OverrunsAwaitApproval'
    BY <2>1 DEF OverrunsAwaitApproval, budgetVars
  <2> QED  BY <2>1, <2>2, <2>3, RefreshedMatches
<1>3. ASSUME NEW c \in Contracts, ApproveScript(c)
      PROVE  ApprovalsOK'
  <2>1. Refreshed(outcome) /\ UNCHANGED budgetVars /\ active' = c /\ contracts'[c] = "active"
    BY <1>3 DEF ApproveScript
  <2>2. ContractKnown'
    BY <2>1 DEF ContractKnown
  <2>3. OverrunsAwaitApproval'
    BY <2>1 DEF OverrunsAwaitApproval, budgetVars
  <2> QED  BY <2>1, <2>2, <2>3, RefreshedMatches
<1>4. ASSUME NEW r \in References, NEW u, NEW superseded, WriteReference(r, u, superseded)
      PROVE  ApprovalsOK'
  <2>1. Refreshed(outcome) /\ UNCHANGED <<scriptVars, asked>>
        /\ overrunApprovals' \subseteq overrunApprovals
    BY <1>4 DEF WriteReference
  <2>2. ContractKnown' /\ OverrunsAwaitApproval'
    BY <2>1 DEF ContractKnown, OverrunsAwaitApproval, scriptVars
  <2> QED  BY <2>1, <2>2, RefreshedMatches
<1>5. ASSUME NEW s \in Shots, NEW p, NEW w, EnqueueShot(s, p, w)
      PROVE  ApprovalsOK'
  BY <1>1, <1>5 DEF EnqueueShot
<1>6. ASSUME NEW s \in Shots, NEW p, NEW w, AskOverrun(s, p, w)
      PROVE  ApprovalsOK'
  <2>1. Refreshed(outcome) /\ UNCHANGED scriptVars
    BY <1>6 DEF AskOverrun
  <2>2. OverrunsAwaitApproval'
    BY <1>6 DEF AskOverrun, OverrunsAwaitApproval
  <2>3. ContractKnown'
    BY <2>1 DEF ContractKnown, scriptVars
  <2> QED  BY <2>1, <2>2, <2>3, RefreshedMatches
<1>7. ASSUME NEW o, ApproveOverrun(o) \/ UpdateBudget(o)
      PROVE  ApprovalsOK'
  <2>1. Refreshed(outcome) /\ UNCHANGED scriptVars
    BY <1>7 DEF ApproveOverrun, UpdateBudget
  <2>2. OverrunsAwaitApproval'
    BY <1>7 DEF ApproveOverrun, UpdateBudget, OverrunsAwaitApproval
  <2>3. ContractKnown'
    BY <2>1 DEF ContractKnown, scriptVars
  <2> QED  BY <2>1, <2>2, <2>3, RefreshedMatches
<1>8. ASSUME NEW s \in Shots, NEW next, CompleteJob(s) \/ EndWithoutTake(s, next)
      PROVE  ApprovalsOK'
  BY <1>1, <1>8 DEF CompleteJob, EndWithoutTake
<1>9. ASSUME NEW s \in Shots, StrandJob(s)
      PROVE  ApprovalsOK'
  BY <1>9, SameApprovals DEF StrandJob
<1>10. ASSUME NEW pick, NEW verdict, Decide(pick, verdict)
       PROVE  ApprovalsOK'
  BY <1>1, <1>10 DEF Decide
<1>11. ASSUME NEW s, NEW t, RejectTake(s, t)
       PROVE  ApprovalsOK'
  BY <1>1, <1>11 DEF RejectTake
<1> QED  BY <1>2, <1>3, <1>4, <1>5, <1>6, <1>7, <1>8, <1>9, <1>10, <1>11 DEF Requested

LEMMA StepApprovals ==
    ASSUME StateTypeOK, ApprovalsOK, [Next]_vars
    PROVE  ApprovalsOK'
<1>1. ASSUME NEW o, Refreshed(o), UNCHANGED <<scriptVars, budgetVars>>
      PROVE  ApprovalsOK'
  BY <1>1, RefreshedMatches
     DEF ApprovalsOK, ContractKnown, OverrunsAwaitApproval, scriptVars, budgetVars
<1>2. ASSUME NEW o, Refreshed(o), UNCHANGED outsideBuilds
      PROVE  ApprovalsOK'
  BY <1>1, <1>2 DEF outsideBuilds
<1>3. ASSUME UNCHANGED stateVars
      PROVE  ApprovalsOK'
  BY <1>3, SameApprovals DEF stateVars
<1>4. CASE Reviewing
  BY <1>4, EveryRequest, RequestedApprovals
<1>5. ASSUME NEW b \in Builds, NEW kind \in Kinds, NEW chosen \in SUBSET Shots,
             Build(b, kind, chosen)
      PROVE  ApprovalsOK'
  BY <1>2, <1>5 DEF Build, StartBuild
<1>6. ASSUME NEW b \in Builds, ApproveBuildReview(b)
      PROVE  ApprovalsOK'
  BY <1>2, <1>6 DEF ApproveBuildReview
<1>7. ASSUME NEW b \in Builds, DamageRecipe(b)
      PROVE  ApprovalsOK'
  BY <1>7, SameApprovals DEF DamageRecipe, outsideBuilds
<1>8. ASSUME NEW b \in Builds, PollStarted(b) \/ PollCompleted(b) \/ PollFailed(b)
      PROVE  ApprovalsOK'
  BY <1>2, <1>8 DEF PollStarted, PollCompleted, PollFailed, Polled
<1>9. ASSUME NEW kind, ExecutorStarts \/ ExecutorEnds(kind) \/ BootDone
      PROVE  ApprovalsOK'
  BY <1>3, <1>9 DEF ExecutorStarts, ExecutorEnds, BootDone
<1>10. CASE Crash
  BY <1>3, <1>10, SameApprovals DEF Crash, StrandJob
<1>11. CASE Boot
  BY <1>1, <1>11 DEF Boot
<1>12. ASSUME NEW s \in Shots, ResumeAudition(s)
       PROVE  ApprovalsOK'
  BY <1>1, <1>12 DEF ResumeAudition
<1>13. CASE UNCHANGED vars
  BY <1>3, <1>13 DEF vars
<1> QED  BY <1>4, <1>5, <1>6, <1>7, <1>8, <1>9, <1>10, <1>11, <1>12, <1>13 DEF Next, BootAudition

\* Every state that is written passes validate: the takes it lists exist, what
\* it decides and offers is usable, and the outcome says whether approvals wait.
THEOREM Validated == Spec => []StateValidates
<1>1. Init => ApprovalsOK
  BY BudgetAssumption, NoneAssumption
     DEF Init, StateInit, ApprovalsOK, ContractKnown, OutcomeMatchesApprovals,
         OverrunsAwaitApproval, Blocked, PendingScripts
<1>2. TakesInv /\ ApprovalsOK /\ [Next]_vars => ApprovalsOK'
  BY StepApprovals DEF TakesInv, Typed, TypeOK
<1>3. TakesInv /\ ApprovalsOK => StateValidates
  BY DEF TakesInv, ApprovalsOK, StateValidates, ShotOK, ListOK, DecisionOK, CandidateOK,
     ShotTakesKnown, DecisionsUsable, CandidatesUsable
<1> QED  BY <1>1, <1>2, <1>3, TakesInvariant, PTL DEF Spec

-----------------------------------------------------------------------------
(* Approvals                                                                *)

\* Every change of an approval.
LEMMA RequestedApproved ==
    ASSUME StateTypeOK, TakesOK, Requested, NEW s \in Shots,
           approved[s] # NoTake, approved'[s] # approved[s]
    PROVE  approved[s] \in staleTakes'
<1>1. approved[s] \in Registered(s)
  BY DEF TakesOK, ShotOK, DecisionOK, ListOK, Usable
<1>2. ASSUME NEW c \in Contracts, ApproveScript(c)
      PROVE  approved[s] \in staleTakes'
  BY <1>1, <1>2 DEF ApproveScript
<1>3. ASSUME NEW r, NEW u, NEW superseded, WriteReference(r, u, superseded)
      PROVE  approved[s] \in staleTakes'
  BY <1>1, <1>3 DEF WriteReference
<1>4. ASSUME NEW pick, NEW verdict, Decide(pick, verdict)
      PROVE  FALSE
  BY <1>4 DEF Decide, Decidable
<1>5. ASSUME UNCHANGED approved
      PROVE  FALSE
  BY <1>5
<1>6. ASSUME UNCHANGED shotVars
      PROVE  FALSE
  BY <1>5, <1>6 DEF shotVars
<1>7. ASSUME NEW c, ApplyBundle(c) \/ ApproveOverrun(c) \/ UpdateBudget(c)
      PROVE  FALSE
  BY <1>6, <1>7 DEF ApplyBundle, ApproveOverrun, UpdateBudget
<1>8. ASSUME NEW x \in Shots, NEW p, NEW w, EnqueueShot(x, p, w) \/ AskOverrun(x, p, w)
      PROVE  FALSE
  BY <1>5, <1>6, <1>8 DEF EnqueueShot, AskOverrun
<1>9. ASSUME NEW x \in Shots, NEW next, CompleteJob(x) \/ StrandJob(x) \/ EndWithoutTake(x, next)
      PROVE  FALSE
  BY <1>5, <1>6, <1>9 DEF CompleteJob, StrandJob, EndWithoutTake
<1>10. ASSUME NEW x \in Shots, NEW t \in Takes, RejectTake(x, t)
       PROVE  FALSE
  BY <1>5, <1>10 DEF RejectTake
<1> QED  BY <1>2, <1>3, <1>4, <1>7, <1>8, <1>9, <1>10 DEF Requested

\* No decision, job or restart takes an approval back: it falls only when its
\* take can no longer be used.
THEOREM ApprovalsStand == Spec => ApprovedTakeStands
<1> DEFINE Stands == \A s \in Shots : approved[s] # NoTake /\ approved'[s] # approved[s] =>
                        approved[s] \in staleTakes'
<1>1. TakesInv /\ [Next]_vars => [Stands]_vars
  <2> SUFFICES ASSUME TakesInv, Next PROVE Stands
    BY DEF vars
  <2>1. StateTypeOK /\ TakesOK
    BY DEF TakesInv, Typed, TypeOK, TakesOK
  <2>2. CASE Reviewing
    BY <2>1, <2>2, EveryRequest, RequestedApproved
  <2>3. ASSUME UNCHANGED approved
        PROVE  Stands
    BY <2>3
  <2>4. ASSUME UNCHANGED outsideBuilds \/ UNCHANGED stateVars \/ UNCHANGED shotVars
        PROVE  Stands
    BY <2>3, <2>4 DEF outsideBuilds, stateVars, shotVars
  <2>5. ASSUME NEW b \in Builds, NEW kind \in Kinds, NEW chosen \in SUBSET Shots,
               Build(b, kind, chosen)
        PROVE  Stands
    BY <2>4, <2>5 DEF Build, StartBuild
  <2>6. ASSUME NEW b \in Builds, \/ ApproveBuildReview(b) \/ DamageRecipe(b)
                                 \/ PollStarted(b) \/ PollCompleted(b) \/ PollFailed(b)
        PROVE  Stands
    BY <2>4, <2>6 DEF ApproveBuildReview, DamageRecipe, PollStarted, PollCompleted, PollFailed, Polled
  <2>7. ASSUME NEW kind, ExecutorStarts \/ ExecutorEnds(kind) \/ BootDone
        PROVE  Stands
    BY <2>4, <2>7 DEF ExecutorStarts, ExecutorEnds, BootDone
  <2>8. CASE Crash
    BY <2>4, <2>8 DEF Crash, StrandJob
  <2>9. CASE Boot
    BY <2>3, <2>9 DEF Boot
  <2>10. ASSUME NEW s \in Shots, ResumeAudition(s)
         PROVE  Stands
    BY <2>3, <2>10 DEF ResumeAudition
  <2> QED  BY <2>2, <2>5, <2>6, <2>7, <2>8, <2>9, <2>10 DEF Next, BootAudition
<1> QED  BY <1>1, TakesInvariant, PTL DEF Spec, ApprovedTakeStands
=============================================================================
