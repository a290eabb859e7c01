------------------------------ MODULE TakeLedger ------------------------------
(***************************************************************************)
(* What the camera queue promises about each job, whatever crashes: the    *)
(* GPU serves one job at a time, a job goes to the backend at most once,   *)
(* only a job that went there delivers a take, it delivers it once, and    *)
(* what has ended stays ended.                                             *)
(***************************************************************************)
CONSTANT Jobs
VARIABLE status

Status == {"idle", "queued", "started", "sent", "delivered", "dropped"}

Holds(j) == status[j] \in {"started", "sent"}

Init == status = [j \in Jobs |-> "idle"]

Request(j) == status[j] = "idle" /\ status' = [status EXCEPT ![j] = "queued"]

\* The job takes the GPU.
Start(j) ==
    /\ status[j] = "queued"
    /\ \A i \in Jobs : ~Holds(i)
    /\ status' = [status EXCEPT ![j] = "started"]

Send(j) == status[j] = "started" /\ status' = [status EXCEPT ![j] = "sent"]

Deliver(j) == status[j] = "sent" /\ status' = [status EXCEPT ![j] = "delivered"]

\* Cancelled or failed.
Drop(j) ==
    /\ status[j] \in {"queued", "started", "sent"}
    /\ status' = [status EXCEPT ![j] = "dropped"]

\* A take is delivered and the shot's next audition requested in one step.
DeliverAndRequest(i, j) ==
    /\ status[i] = "sent"
    /\ status[j] = "idle"
    /\ status' = [status EXCEPT ![i] = "delivered", ![j] = "queued"]

Next ==
    \/ \E j \in Jobs : Request(j) \/ Start(j) \/ Send(j) \/ Deliver(j) \/ Drop(j)
    \/ \E i, j \in Jobs : DeliverAndRequest(i, j)

Spec == Init /\ [][Next]_status
=============================================================================
