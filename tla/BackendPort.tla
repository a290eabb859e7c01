----------------------------- MODULE BackendPort -----------------------------
(***************************************************************************)
(* What the camera queue takes for granted about the executor and ComfyUI, *)
(* whatever the network does: a job goes to the backend at most once and   *)
(* never next to another one that is still wanted; the worker is told at   *)
(* most once how a job ended, and what it is told is what happened.        *)
(***************************************************************************)
CONSTANT Jobs
VARIABLES
    fate,    \* what becomes of a job's prompt on the backend
    told     \* what the worker has been told of the job

Fate == {"none", "running", "succeeded", "failed", "lost"}
Told == {"nothing", "refused", "submitted", "unknown", "completed", "invalid",
         "failed", "cancelled"}

Init ==
    /\ fate = [j \in Jobs |-> "none"]
    /\ told = [j \in Jobs |-> "nothing"]

\* A prompt is accepted while no other wanted prompt is on the backend.
Accept(j) ==
    /\ fate[j] = "none" /\ told[j] = "nothing"
    /\ \A i \in Jobs : fate[i] = "running" => told[i] = "cancelled"
    /\ fate' = [fate EXCEPT ![j] = "running"]
    /\ UNCHANGED told

End(j, f) ==
    /\ fate[j] = "running"
    /\ f \in {"succeeded", "failed"}
    /\ fate' = [fate EXCEPT ![j] = f]
    /\ UNCHANGED told

\* The backend restarts: what it had not finished is gone.
Lose ==
    /\ fate' = [j \in Jobs |-> IF fate[j] = "running" THEN "lost" ELSE fate[j]]
    /\ UNCHANGED told

Refuse(j) ==
    /\ told[j] = "nothing" /\ fate[j] = "none"
    /\ told' = [told EXCEPT ![j] = "refused"]
    /\ UNCHANGED fate

Submit(j) ==
    /\ told[j] = "nothing" /\ fate[j] # "none"
    /\ told' = [told EXCEPT ![j] = "submitted"]
    /\ UNCHANGED fate

\* Nobody can tell whether the backend has the job.
Doubt(j) ==
    /\ told[j] = "nothing"
    /\ told' = [told EXCEPT ![j] = "unknown"]
    /\ UNCHANGED fate

Conclude(j, k) ==
    /\ told[j] = "submitted"
    /\ \/ k \in {"completed", "invalid"} /\ fate[j] = "succeeded"
       \/ k = "failed" /\ fate[j] = "failed"
    /\ told' = [told EXCEPT ![j] = k]
    /\ UNCHANGED fate

\* The interrupt ends the prompt the backend is executing, if any.
Cancel(j) ==
    /\ told[j] = "submitted"
    /\ told' = [told EXCEPT ![j] = "cancelled"]
    /\ \/ UNCHANGED fate
       \/ \E i \in Jobs : fate[i] = "running" /\ fate' = [fate EXCEPT ![i] = "failed"]

Next ==
    \/ \E j \in Jobs : Accept(j) \/ Refuse(j) \/ Submit(j) \/ Doubt(j) \/ Cancel(j)
    \/ \E j \in Jobs, f \in {"succeeded", "failed"} : End(j, f)
    \/ \E j \in Jobs, k \in {"completed", "invalid", "failed"} : Conclude(j, k)
    \/ Lose

Spec == Init /\ [][Next]_<<fate, told>>
=============================================================================
