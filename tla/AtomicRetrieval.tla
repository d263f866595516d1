-------------------------- MODULE AtomicRetrieval --------------------------
(***************************************************************************)
(* What chat may assume of retrieval: a question looks once at the user's  *)
(* collection, at some moment between being asked and being answered, and  *)
(* comes back with chunks exactly if there were any at that moment, unless *)
(* the store fails. This is the single step Retrieve of module Chat. No    *)
(* count, no result size and no chunk appears here.                        *)
(***************************************************************************)
CONSTANTS
    Users, Questions, NoUser,
    MayRaise    \* TRUE if calls to the store may raise

VARIABLES
    stocked,    \* users with at least one chunk
    user,       \* user[q]: who asks question q
    outcome     \* outcome[q]: what became of it

vars == <<stocked, user, outcome>>

Outcomes == {"none", "pending", "chunks", "nothing", "outage", "error"}

TypeOK ==
    /\ stocked \subseteq Users
    /\ user \in [Questions -> Users \cup {NoUser}]
    /\ outcome \in [Questions -> Outcomes]

Init ==
    /\ stocked = {}
    /\ user = [q \in Questions |-> NoUser]
    /\ outcome = [q \in Questions |-> "none"]

\* Ingestion and deletion fill and empty collections.
Restock == stocked' \subseteq Users /\ UNCHANGED <<user, outcome>>

Ask(q, u) ==
    /\ outcome[q] # "pending"
    /\ user' = [user EXCEPT ![q] = u]
    /\ outcome' = [outcome EXCEPT ![q] = "pending"]
    /\ UNCHANGED stocked

Answer(q) ==
    /\ outcome[q] = "pending"
    /\ \E o \in {"chunks", "nothing", "outage", "error"} :
          /\ o = "chunks" => user[q] \in stocked
          /\ o = "nothing" => user[q] \notin stocked
          /\ o = "outage" => MayRaise
          /\ outcome' = [outcome EXCEPT ![q] = o]
    /\ UNCHANGED <<stocked, user>>

Next ==
    \/ Restock
    \/ \E q \in Questions : Answer(q) \/ \E u \in Users : Ask(q, u)

Spec == Init /\ [][Next]_vars
=============================================================================
