---------------------------- MODULE ProjectState ----------------------------
(***************************************************************************)
(* What state.json of one project says about its contracts, shots, takes,  *)
(* references, budget, approvals and builds (domain/project.rs), with the  *)
(* reserved takes of the job journals.  Review.tla and Builds.tla act on   *)
(* it.  The worker handles one request at a time and every write checks    *)
(* the revision it read, so a handler is one action.  Not here: pausing,   *)
(* the queue's order and the backend (CameraQueue.tla), replay and         *)
(* decision records (Journals.tla).                                        *)
(***************************************************************************)
EXTENDS Integers, FiniteSets, Sequences

CONSTANTS
    Contracts,       \* contract ids; Bundle[c] is the script saved under c
    Shots, Takes, Builds, Subjects, References,
    Bundle,
    Versions,        \* what a bundle says of a shot or of the delivery
    AuditionTakes,   \* generation_plan.audition_takes
    Limits,          \* what a budget contract may allow, per profile
    NoContract, NoShot, NoTake, NoSubject

Profiles == {"audition", "final"}
Kinds == {"draft", "trailer", "final"}

(***************************************************************************)
(* A bundle: its shots, and of each the part that generation reads (with   *)
(* the bible entries it names), the part only the cut reads (dialogue,     *)
(* title), and the subjects whose references it uses.                      *)
(***************************************************************************)
ScriptBundle ==
    [shots: SUBSET Shots, generation: [Shots -> Versions], cut: [Shots -> Versions],
     delivery: Versions, uses: [Shots -> SUBSET Subjects]]

ASSUME BundleAssumption ==
    /\ Bundle \in [Contracts -> ScriptBundle]
    /\ \A c, d \in Contracts : \A s \in Shots :
         Bundle[c].generation[s] = Bundle[d].generation[s] =>
            Bundle[c].uses[s] = Bundle[d].uses[s]

ASSUME BudgetAssumption ==
    /\ AuditionTakes \in Nat \ {0}
    /\ Limits \subseteq [Profiles -> Nat \ {0}]
    /\ Limits # {}

ASSUME TakesAssumption == IsFiniteSet(Takes)

ASSUME VersionsAssumption == Versions # {}

ASSUME NoneAssumption ==
    /\ NoContract \notin Contracts
    /\ NoShot \notin Shots
    /\ NoTake \notin Takes
    /\ NoSubject \notin Subjects

VARIABLES
    contracts, active,                       \* status of each contract; active_contract_id
    stage, job, target, taken, rejected,     \* of each shot; job is the take its job reserved
    selected, approved, staleShots,
    takeState, ticket, staleTakes,           \* of each take; ticket: what it was asked to be
    subjectOf, activeRefs,                   \* of each reference
    limit, asked, granted,                   \* budget contract, overruns asked and granted
    candidates, overrunApprovals, reviews,   \* pending_approvals by kind
    projectStage, outcome,
    buildState, recipe, staleBuilds, damaged \* damaged: builds whose recipe is unreadable

scriptVars == <<contracts, active>>
shotVars == <<stage, job, target, taken, rejected, selected, approved, staleShots>>
takeVars == <<takeState, ticket, staleTakes>>
referenceVars == <<subjectOf, activeRefs>>
budgetVars == <<limit, asked, granted, overrunApprovals>>
buildVars == <<buildState, recipe, staleBuilds, damaged>>
stateVars == <<scriptVars, shotVars, takeVars, referenceVars, budgetVars, buildVars,
               candidates, reviews, projectStage, outcome>>

(***************************************************************************)
(* Values.                                                                 *)
(***************************************************************************)
ContractStatus == {"absent", "pending_approval", "active", "superseded", "rejected"}
ShotStage == {"pending", "queued", "candidates_ready", "selected", "approved", "failed"}
ProjectStage == {"authoring", "shooting", "review", "build", "completed"}
Outcome == {"in_progress", "needs_review", "done"}
BuildStatus == {"absent", "queued", "running", "needs_review", "approved", "failed"}

\* unused; reserved by a job; written: take and completed job are saved, the
\* state does not list the take yet; registered; void: the job ended without it.
TakeState == {"unused", "reserved", "written", "registered", "void"}

Ticket == [shot: Shots \cup {NoShot}, profile: Profiles,
           generation: Versions, prints: SUBSET References]

Recipe == [kind: Kinds, contract: Contracts \cup {NoContract},
           inputs: [Shots -> Takes \cup {NoTake}], prints: [Shots -> SUBSET References]]

\* What an overrun is about: one more take of a shot, or the wall clock.
Dimension == (Shots \X Profiles \X Nat) \cup {<<"wall">>}
Overrun == [scope: SUBSET Dimension, shot: Shots]

StateTypeOK ==
    /\ contracts \in [Contracts -> ContractStatus]
    /\ active \in Contracts \cup {NoContract}
    /\ stage \in [Shots -> ShotStage]
    /\ job \in [Shots -> Takes \cup {NoTake}]
    /\ target \in [Shots -> 0..AuditionTakes]
    /\ taken \in [Shots -> SUBSET Takes]
    /\ rejected \in [Shots -> SUBSET Takes]
    /\ selected \in [Shots -> Takes \cup {NoTake}]
    /\ approved \in [Shots -> Takes \cup {NoTake}]
    /\ staleShots \subseteq Shots
    /\ takeState \in [Takes -> TakeState]
    /\ ticket \in [Takes -> Ticket]
    /\ staleTakes \subseteq Takes
    /\ subjectOf \in [References -> Subjects \cup {NoSubject}]
    /\ activeRefs \subseteq References
    /\ limit \in Limits
    /\ asked \subseteq Overrun
    /\ granted \subseteq Dimension
    /\ candidates \in [Shots -> SUBSET Takes]
    /\ overrunApprovals \subseteq Overrun
    /\ reviews \subseteq Builds
    /\ projectStage \in ProjectStage
    /\ outcome \in Outcome
    /\ buildState \in [Builds -> BuildStatus]
    /\ recipe \in [Builds -> Recipe]
    /\ staleBuilds \subseteq Builds
    /\ damaged \subseteq Builds

(***************************************************************************)
(* What the state implies.                                                 *)
(***************************************************************************)
\* state.shots: the shots of the active contract.
Present == IF active = NoContract THEN {} ELSE Bundle[active].shots

PendingScripts == {c \in Contracts : contracts[c] = "pending_approval"}
Busy == {s \in Shots : job[s] # NoTake}
Registered(s) == {t \in Takes : takeState[t] = "registered" /\ ticket[t].shot = s}

\* Variant: a stale take does not count.
CountFresh(s, p) == Cardinality({t \in Registered(s) \ staleTakes : ticket[t].profile = p})

\* take_count: every registered take of the profile counts, stale or not.
Count(s, p) == Cardinality({t \in Registered(s) : ticket[t].profile = p})

\* active_reference_fingerprint: ids are unique and a file never changes.
Fingerprint(subjects) == {r \in activeRefs : subjectOf[r] \in subjects}
Prints(s) == Fingerprint(Bundle[active].uses[s])

Built == {b \in Builds : buildState[b] # "absent"}
ActiveBuilds == {b \in Builds : buildState[b] \in {"queued", "running"}}

\* pending_approvals is not empty: every kind is created as blocking.
Blocked == \/ PendingScripts # {} \/ overrunApprovals # {} \/ reviews # {}
           \/ \E s \in Shots : candidates[s] # {}

\* refresh_derived_outcome, part of bump_revision and so of every write.
Refreshed(o) == outcome' = IF Blocked' THEN "needs_review"
                           ELSE IF o = "needs_review" THEN "in_progress" ELSE o

NoTicket == [shot |-> NoShot, profile |-> "audition",
             generation |-> CHOOSE v \in Versions : TRUE, prints |-> {}]
NoRecipe == [kind |-> "draft", contract |-> NoContract,
             inputs |-> [s \in Shots |-> NoTake], prints |-> [s \in Shots |-> {}]]

StateInit ==
    /\ contracts = [c \in Contracts |-> "absent"] /\ active = NoContract
    /\ stage = [s \in Shots |-> "pending"]
    /\ job = [s \in Shots |-> NoTake]
    /\ target = [s \in Shots |-> 0]
    /\ taken = [s \in Shots |-> {}] /\ rejected = [s \in Shots |-> {}]
    /\ selected = [s \in Shots |-> NoTake] /\ approved = [s \in Shots |-> NoTake]
    /\ staleShots = {}
    /\ takeState = [t \in Takes |-> "unused"]
    /\ ticket = [t \in Takes |-> NoTicket]
    /\ staleTakes = {}
    /\ subjectOf = [r \in References |-> NoSubject] /\ activeRefs = {}
    /\ limit \in Limits /\ asked = {} /\ granted = {}
    /\ candidates = [s \in Shots |-> {}] /\ overrunApprovals = {} /\ reviews = {}
    /\ projectStage = "authoring" /\ outcome = "in_progress"
    /\ buildState = [b \in Builds |-> "absent"]
    /\ recipe = [b \in Builds |-> NoRecipe]
    /\ staleBuilds = {} /\ damaged = {}

(***************************************************************************)
(* ProjectState::validate, which every bump_revision ends with: a write    *)
(* that would break it is refused.                                         *)
(***************************************************************************)
Usable(s) == (taken[s] \ rejected[s]) \ staleTakes

ContractKnown == active # NoContract => contracts[active] # "absent"

OutcomeMatchesApprovals == Blocked <=> outcome = "needs_review"

OverrunsAwaitApproval == overrunApprovals \subseteq asked

ShotTakesKnown ==
    \A s \in Shots : /\ taken[s] \subseteq Registered(s)
                     /\ rejected[s] \subseteq taken[s]

DecisionsUsable ==
    \A s \in Shots : /\ {selected[s], approved[s]} \subseteq Usable(s) \cup {NoTake}
                     /\ approved[s] \in {NoTake, selected[s]}

CandidatesUsable ==
    \A s \in Shots : /\ candidates[s] # {} => s \in Present
                     /\ candidates[s] \subseteq Usable(s)

StateValidates ==
    /\ ContractKnown
    /\ OutcomeMatchesApprovals
    /\ OverrunsAwaitApproval
    /\ ShotTakesKnown
    /\ DecisionsUsable
    /\ CandidatesUsable
=============================================================================
