---------------------------- MODULE JobLifecycle ----------------------------
(***************************************************************************)
(* What an ingestion job promises to the client that polls it: the state   *)
(* machine the task module documents (apps/rag/tasks.py, lines 9-12),      *)
(* together with the removal of the job that deleting its document causes. *)
(* No broker, worker, file or vector appears here.                         *)
(***************************************************************************)
CONSTANT Jobs       \* the ingestion jobs, one per uploaded document

VARIABLE state      \* state[j]: what the database says of job j

Settled == {"SUCCESS", "FAILURE"}

TypeOK == state \in [Jobs -> {"NONE", "PENDING", "STARTED", "REMOVED"} \cup Settled]

Init == state = [j \in Jobs |-> "NONE"]

Become(j, s) == state' = [state EXCEPT ![j] = s]

Create(j) == state[j] = "NONE" /\ Become(j, "PENDING")

Start(j) == state[j] = "PENDING" /\ Become(j, "STARTED")

Finish(j) == state[j] = "STARTED" /\ \E s \in Settled : Become(j, s)

\* The document, and with it the job, is deleted; this is final.
Remove(j) == state[j] # "REMOVED" /\ Become(j, "REMOVED")

Next == \E j \in Jobs : Create(j) \/ Start(j) \/ Finish(j) \/ Remove(j)

Spec == Init /\ [][Next]_state
=============================================================================
