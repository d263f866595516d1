---------------------------- MODULE ChromaClient ----------------------------
(***************************************************************************)
(* The Chroma client of a process (rag/vectorstore.py, _client): created   *)
(* by the first thread that needs it and shared by all. The code reads the *)
(* module variable without the lock, and again under the lock before it    *)
(* creates a client. Creating one contacts the server, takes long and may  *)
(* raise; the exception leaves the lock and the function, and a later call *)
(* tries again. _reset_client is for tests only and left out.              *)
(***************************************************************************)
EXTENDS Naturals, FiniteSets

CONSTANTS
    Threads,        \* the threads of a process that call get_collection
    NoThread, NoClient,
    MaxOutages      \* bound: how often the constructor raises

ASSUME NoneAssumption    == NoThread \notin Threads /\ NoClient \notin Nat
ASSUME OutagesAssumption == MaxOutages \in Nat

VARIABLES
    client,     \* _chroma_client; the n-th client that was constructed is n
    lock,       \* the thread in `with _client_lock', or NoThread
    pc,         \* pc[t]: the next step of thread t
    own,        \* own[t]: the client that t constructed and has to assign
    handed,     \* handed[t]: what the last call of t returned
    created,    \* how many clients were constructed
    outages     \* how often the constructor raised

vars == <<client, lock, pc, own, handed, created, outages>>

Locked == {"recheck", "construct", "assign", "release", "unwind"}
Steps  == {"idle", "check", "acquire", "return"} \cup Locked

\* Every variable keeps its type, the lock is held exactly by the thread that
\* is inside the `with' block, and only a thread that has just constructed a
\* client has one to assign. (rag/vectorstore.py:41-57)
TypeOK ==
    /\ client \in Nat \cup {NoClient}
    /\ lock \in Threads \cup {NoThread}
    /\ pc \in [Threads -> Steps]
    /\ own \in [Threads -> Nat \cup {NoClient}]
    /\ handed \in [Threads -> Nat \cup {NoClient}]
    /\ created \in Nat
    /\ outages \in 0 .. MaxOutages
    /\ \A t \in Threads :
          /\ lock = t <=> pc[t] \in Locked
          /\ own[t] # NoClient <=> pc[t] = "assign"

Init ==
    /\ client = NoClient
    /\ lock = NoThread
    /\ pc = [t \in Threads |-> "idle"]
    /\ own = [t \in Threads |-> NoClient]
    /\ handed = [t \in Threads |-> NoClient]
    /\ created = 0
    /\ outages = 0

Step(t, from, to) == pc[t] = from /\ pc' = [pc EXCEPT ![t] = to]

\* get_collection calls _client(); what an earlier call returned is dropped.
Call(t) ==
    /\ Step(t, "idle", "check")
    /\ handed' = [handed EXCEPT ![t] = NoClient]
    /\ UNCHANGED <<client, lock, own, created, outages>>

\* The read of the variable without the lock.
FirstCheck(t) ==
    /\ Step(t, "check", IF client = NoClient THEN "acquire" ELSE "return")
    /\ UNCHANGED <<client, lock, own, handed, created, outages>>

Acquire(t) ==
    /\ Step(t, "acquire", "recheck")
    /\ lock = NoThread
    /\ lock' = t
    /\ UNCHANGED <<client, own, handed, created, outages>>

\* Mutant: the variable is not read again under the lock.
SecondCheckSkipped(t) ==
    /\ Step(t, "recheck", "construct")
    /\ UNCHANGED <<client, lock, own, handed, created, outages>>

\* Mutant: a thread that finds the client returns with a lock it took by hand.
SecondCheckReturns(t) ==
    /\ Step(t, "recheck", IF client = NoClient THEN "construct" ELSE "return")
    /\ UNCHANGED <<client, lock, own, handed, created, outages>>

SecondCheck(t) ==
    /\ Step(t, "recheck", IF client = NoClient THEN "construct" ELSE "release")
    /\ UNCHANGED <<client, lock, own, handed, created, outages>>

\* chromadb.HttpClient or PersistentClient; both may raise.
Construct(t) ==
    \/ /\ Step(t, "construct", "assign")
       /\ created' = created + 1
       /\ own' = [own EXCEPT ![t] = created + 1]
       /\ UNCHANGED <<client, lock, handed, outages>>
    \/ /\ outages < MaxOutages
       /\ Step(t, "construct", "unwind")
       /\ outages' = outages + 1
       /\ UNCHANGED <<client, lock, own, handed, created>>

Assign(t) ==
    /\ Step(t, "assign", "release")
    /\ client' = own[t]
    /\ own' = [own EXCEPT ![t] = NoClient]
    /\ UNCHANGED <<lock, handed, created, outages>>

\* The end of the `with' block.
Release(t) ==
    /\ Step(t, "release", "return")
    /\ lock' = NoThread
    /\ UNCHANGED <<client, own, handed, created, outages>>

\* Mutant: the lock is taken and given back by hand, without a `finally'.
UnwindKeepsLock(t) ==
    /\ Step(t, "unwind", "idle")
    /\ UNCHANGED <<client, lock, own, handed, created, outages>>

\* The exception of the constructor leaves the `with' block and the call.
Unwind(t) ==
    /\ Step(t, "unwind", "idle")
    /\ lock' = NoThread
    /\ UNCHANGED <<client, own, handed, created, outages>>

\* The variable is read once more for the return value.
Return(t) ==
    /\ Step(t, "return", "idle")
    /\ handed' = [handed EXCEPT ![t] = client]
    /\ UNCHANGED <<client, lock, own, created, outages>>

Advance(t) ==
    \/ FirstCheck(t) \/ Acquire(t) \/ SecondCheck(t) \/ Construct(t)
    \/ Assign(t) \/ Release(t) \/ Unwind(t) \/ Return(t)

Next == \E t \in Threads : Call(t) \/ Advance(t)

Spec == Init /\ [][Next]_vars

\* A thread that has called runs on, and one that waits gets a lock that stays
\* free; nobody has to call.
FairSpec == Spec /\ \A t \in Threads : WF_vars(Advance(t))

-----------------------------------------------------------------------------
\* Clients are numbered as they are made, so the only one is client 1.
Shared == INSTANCE SharedClient
              WITH Clients <- {1}, made <- 1 .. created

\* Whatever the threads interleave and however often the constructor raises,
\* the process makes one client, and every call that returns hands out that
\* one and never None. (rag/vectorstore.py:33-57)
ImplementsSharedClient == Shared!Spec

\* Every call returns or raises: the lock is not kept by a thread whose
\* constructor raised, nor by one that found the client there. Holds for any
\* number of outages that end. (rag/vectorstore.py:42-57)
CallsReturn == \A t \in Threads : pc[t] = "check" ~> pc[t] = "idle"
=============================================================================
