---------------------------- MODULE SharedClient ----------------------------
(***************************************************************************)
(* What _client() of rag/vectorstore.py promises to the threads that call  *)
(* it: the process makes one Chroma client, and every call that returns    *)
(* hands out that one. No lock and no order of calls appears here.         *)
(***************************************************************************)
CONSTANTS Threads, Clients, NoClient

VARIABLES
    made,       \* the clients that were constructed
    client,     \* the one that is shared
    handed      \* handed[t]: what the last call of t returned

vars == <<made, client, handed>>

TypeOK ==
    /\ made \subseteq Clients
    /\ client \in Clients \cup {NoClient}
    /\ handed \in [Threads -> Clients \cup {NoClient}]

Init == made = {} /\ client = NoClient /\ handed = [t \in Threads |-> NoClient]

Make(c) == made = {} /\ made' = {c} /\ UNCHANGED <<client, handed>>

Share == client = NoClient /\ client' \in made /\ UNCHANGED <<made, handed>>

HandOut(t) ==
    /\ client # NoClient
    /\ handed' = [handed EXCEPT ![t] = client]
    /\ UNCHANGED <<made, client>>

\* The thread calls again, or its call raised.
Forget(t) ==
    /\ handed' = [handed EXCEPT ![t] = NoClient]
    /\ UNCHANGED <<made, client>>

Next ==
    \/ \E c \in Clients : Make(c)
    \/ Share
    \/ \E t \in Threads : HandOut(t) \/ Forget(t)

Spec == Init /\ [][Next]_vars
=============================================================================
