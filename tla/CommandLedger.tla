---------------------------- MODULE CommandLedger ----------------------------
(***************************************************************************)
(* What the worker promises about a command, however often it is sent and  *)
(* whatever crashes: it takes effect at most once, it is answered once and *)
(* for all, the answer says whether it took effect, and a command that was *)
(* answered takes no effect later.                                         *)
(***************************************************************************)
CONSTANT Commands
VARIABLES applied, answer

Init ==
    /\ applied = [c \in Commands |-> FALSE]
    /\ answer = [c \in Commands |-> "none"]

Apply(c) ==
    /\ ~applied[c]
    /\ answer[c] = "none"
    /\ applied' = [applied EXCEPT ![c] = TRUE]
    /\ UNCHANGED answer

Answer(c) ==
    /\ answer[c] = "none"
    /\ answer' = [answer EXCEPT ![c] = IF applied[c] THEN "success" ELSE "failure"]
    /\ UNCHANGED applied

Next == \E c \in Commands : Apply(c) \/ Answer(c)

Spec == Init /\ [][Next]_<<applied, answer>>
=============================================================================
