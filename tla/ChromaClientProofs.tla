-------------------------- MODULE ChromaClientProofs --------------------------
(***************************************************************************)
(* Theorems about ChromaClient, for any number of threads and outages: the *)
(* lock makes the check, the construction and the assignment one step of   *)
(* the abstract client.                                                    *)
(***************************************************************************)
EXTENDS ChromaClient, TLAPS

USE NoneAssumption, OutagesAssumption DEF Steps, Locked

\* The initial state is well typed.
LEMMA TypeInit == Init => TypeOK
  BY DEF Init, TypeOK

\* A step of a thread moves that thread only.
LEMMA StepValue ==
    ASSUME TypeOK, NEW t \in Threads, NEW from \in Steps, NEW to \in Steps,
           Step(t, from, to)
    PROVE  /\ pc[t] = from /\ pc' \in [Threads -> Steps]
           /\ pc'[t] = to
           /\ \A s \in Threads \ {t} : pc'[s] = pc[s]
  BY DEF TypeOK, Step

\* The lock and the place of its holder change together.
LEMMA LockStep ==
    ASSUME TypeOK, NEW t \in Threads,
           pc' \in [Threads -> Steps], \A s \in Threads \ {t} : pc'[s] = pc[s],
           \/ lock' = lock /\ (pc[t] \in Locked <=> pc'[t] \in Locked)
           \/ lock = NoThread /\ lock' = t /\ pc'[t] \in Locked
           \/ lock = t /\ lock' = NoThread /\ pc'[t] \notin Locked
    PROVE  /\ lock' \in Threads \cup {NoThread}
           /\ \A s \in Threads : lock' = s <=> pc'[s] \in Locked
<1> USE DEF TypeOK
<1>1. lock' \in Threads \cup {NoThread}
  OBVIOUS
<1>2. lock' = t <=> pc'[t] \in Locked
  OBVIOUS
<1>3. ASSUME NEW s \in Threads \ {t} PROVE lock' = s <=> pc'[s] \in Locked
  OBVIOUS
<1> QED BY <1>1, <1>2, <1>3

\* Every step keeps the types.
LEMMA TypeStep == TypeOK /\ [Next]_vars => TypeOK'
<1> SUFFICES ASSUME TypeOK, [Next]_vars PROVE TypeOK' OBVIOUS
<1>1. ASSUME NEW t \in Threads, NEW from \in Steps, NEW to \in Steps,
             Step(t, from, to),
             \/ lock' = lock /\ (from \in Locked <=> to \in Locked)
             \/ lock = NoThread /\ lock' = t /\ to \in Locked
             \/ lock = t /\ lock' = NoThread /\ to \notin Locked,
             client' \in Nat \cup {NoClient}, created' \in Nat,
             outages' \in 0 .. MaxOutages,
             handed' \in [Threads -> Nat \cup {NoClient}],
             own' \in [Threads -> Nat \cup {NoClient}],
             \A s \in Threads \ {t} : own'[s] = own[s],
             own'[t] # NoClient <=> to = "assign"
      PROVE  TypeOK'
  <2>1. /\ pc[t] = from /\ pc' \in [Threads -> Steps] /\ pc'[t] = to
        /\ \A s \in Threads \ {t} : pc'[s] = pc[s]
    BY <1>1, StepValue
  <2>2. /\ lock' \in Threads \cup {NoThread}
        /\ \A s \in Threads : lock' = s <=> pc'[s] \in Locked
    BY <1>1, <2>1, LockStep
  <2>3. \A s \in Threads : own'[s] # NoClient <=> pc'[s] = "assign"
    BY <1>1, <2>1 DEF TypeOK
  <2> QED BY <1>1, <2>1, <2>2, <2>3 DEF TypeOK
<1>2. ASSUME NEW t \in Threads, Call(t) PROVE TypeOK'
  BY <1>1, <1>2 DEF Call, TypeOK, Step
<1>3. ASSUME NEW t \in Threads, FirstCheck(t) PROVE TypeOK'
  BY <1>1, <1>3 DEF FirstCheck, TypeOK, Step
<1>4. ASSUME NEW t \in Threads, Acquire(t) PROVE TypeOK'
  BY <1>1, <1>4 DEF Acquire, TypeOK, Step
<1>5. ASSUME NEW t \in Threads, SecondCheck(t) PROVE TypeOK'
  BY <1>1, <1>5 DEF SecondCheck, TypeOK, Step
<1>6. ASSUME NEW t \in Threads, Construct(t) PROVE TypeOK'
  BY <1>1, <1>6 DEF Construct, TypeOK, Step
<1>7. ASSUME NEW t \in Threads, Assign(t) PROVE TypeOK'
  BY <1>1, <1>7 DEF Assign, TypeOK, Step
<1>8. ASSUME NEW t \in Threads, Release(t) PROVE TypeOK'
  BY <1>1, <1>8 DEF Release, TypeOK, Step
<1>9. ASSUME NEW t \in Threads, Unwind(t) PROVE TypeOK'
  BY <1>1, <1>9 DEF Unwind, TypeOK, Step
<1>10. ASSUME NEW t \in Threads, Return(t) PROVE TypeOK'
  BY <1>1, <1>10 DEF Return, TypeOK, Step
<1>11. CASE UNCHANGED vars
  BY <1>11 DEF TypeOK, vars
<1> QED BY <1>2, <1>3, <1>4, <1>5, <1>6, <1>7, <1>8, <1>9, <1>10, <1>11
        DEF Next, Advance

\* Every reachable state is well typed, and the lock is held exactly by the
\* thread inside the `with' block.
THEOREM TypeCorrect == Spec => []TypeOK
  BY TypeInit, TypeStep, PTL DEF Spec

-----------------------------------------------------------------------------
(* One client. A thread that is about to construct has the lock and knows  *)
(* that no client was constructed: one that was, is either in the variable *)
(* or with a thread that has the lock too.                                 *)

OneClient ==
    /\ created \in {0, 1}
    /\ client # NoClient => client = 1 /\ created = 1
    /\ created = 1 /\ client = NoClient => \E t \in Threads : pc[t] = "assign"

ThreadKnows(t) ==
    /\ pc[t] = "construct" => client = NoClient /\ created = 0
    /\ pc[t] = "assign" => client = NoClient /\ created = 1 /\ own[t] = 1
    /\ pc[t] \in {"release", "return"} => client # NoClient

ClientInv == OneClient /\ \A t \in Threads : ThreadKnows(t)

LEMMA ClientInit == Init => ClientInv
  BY DEF Init, ClientInv, OneClient, ThreadKnows

\* Two threads are never inside the `with' block.
LEMMA Exclusion ==
    ASSUME TypeOK, NEW s \in Threads, NEW t \in Threads,
           pc[s] \in Locked, pc[t] \in Locked
    PROVE  s = t
  BY DEF TypeOK

\* A step that leaves the client alone keeps the invariant if the thread that
\* moves knows what it has to know.
LEMMA ClientFrame ==
    ASSUME TypeOK, ClientInv, NEW t \in Threads, NEW from \in Steps, NEW to \in Steps,
           Step(t, from, to), UNCHANGED <<client, created, own>>,
           from # "assign", ThreadKnows(t)'
    PROVE  ClientInv'
<1>1. /\ pc[t] = from /\ pc'[t] = to
      /\ \A s \in Threads \ {t} : pc'[s] = pc[s]
  BY StepValue
<1>2. \A s \in Threads : ThreadKnows(s)'
  BY <1>1 DEF ClientInv, ThreadKnows
<1>3. OneClient'
  BY <1>1 DEF ClientInv, OneClient
<1> QED BY <1>2, <1>3 DEF ClientInv

\* Every step keeps the invariant.
LEMMA ClientStep == TypeOK /\ ClientInv /\ [Next]_vars => ClientInv'
<1> SUFFICES ASSUME TypeOK, ClientInv, [Next]_vars PROVE ClientInv' OBVIOUS
<1>1. ASSUME NEW t \in Threads, Call(t) \/ FirstCheck(t) \/ Acquire(t)
      PROVE  ClientInv'
  <2>1. PICK from \in {"idle", "check", "acquire"} :
           \E to \in {"check", "acquire", "return", "recheck"} :
              /\ Step(t, from, to) /\ UNCHANGED <<client, created, own>>
              /\ to = "return" => client # NoClient
    BY <1>1 DEF Call, FirstCheck, Acquire
  <2>2. PICK to \in {"check", "acquire", "return", "recheck"} :
              /\ Step(t, from, to) /\ UNCHANGED <<client, created, own>>
              /\ to = "return" => client # NoClient
    BY <2>1
  <2>3. ThreadKnows(t)'
    BY <2>2, StepValue DEF ThreadKnows
  <2> QED BY <2>2, <2>3, ClientFrame
<1>2. ASSUME NEW t \in Threads, SecondCheck(t) PROVE ClientInv'
  <2>1. PICK to \in {"construct", "release"} :
           /\ Step(t, "recheck", to) /\ UNCHANGED <<client, created, own>>
           /\ to = "construct" => client = NoClient
           /\ to = "release" => client # NoClient
    BY <1>2 DEF SecondCheck
  <2>2. pc[t] = "recheck" /\ pc'[t] = to
    BY <2>1, StepValue
  <2>3. ASSUME client = NoClient PROVE created = 0
    <3>1. ASSUME NEW s \in Threads, pc[s] = "assign" PROVE FALSE
      BY <2>2, <3>1, Exclusion
    <3> QED BY <2>3, <3>1 DEF ClientInv, OneClient
  <2>4. ThreadKnows(t)'
    BY <2>1, <2>2, <2>3 DEF ThreadKnows
  <2> QED BY <2>1, <2>4, ClientFrame
<1>3. ASSUME NEW t \in Threads, Construct(t) PROVE ClientInv'
  <2>1. pc[t] = "construct" /\ client = NoClient /\ created = 0
    BY <1>3, StepValue DEF Construct, Step, ClientInv, ThreadKnows
  <2>2. ASSUME NEW s \in Threads, s # t PROVE pc[s] \notin Locked
    BY <2>1, <2>2, Exclusion
  <2>3. CASE Step(t, "construct", "unwind") /\ UNCHANGED <<client, created, own>>
    <3>1. ThreadKnows(t)'
      BY <2>3, StepValue DEF ThreadKnows
    <3> QED BY <2>3, <3>1, ClientFrame
  <2>4. CASE /\ Step(t, "construct", "assign") /\ created' = created + 1
             /\ own' = [own EXCEPT ![t] = created + 1] /\ UNCHANGED client
    <3>1. /\ created' = 1 /\ own'[t] = 1 /\ client' = NoClient /\ pc'[t] = "assign"
          /\ \A s \in Threads \ {t} : pc'[s] = pc[s]
      BY <2>1, <2>4, StepValue DEF TypeOK
    <3>2. OneClient'
      BY <3>1 DEF OneClient
    <3>3. ASSUME NEW s \in Threads PROVE ThreadKnows(s)'
      BY <2>2, <3>1, <2>1 DEF ThreadKnows, ClientInv
    <3> QED BY <3>2, <3>3 DEF ClientInv
  <2> QED BY <1>3, <2>3, <2>4 DEF Construct
<1>4. ASSUME NEW t \in Threads, Assign(t) PROVE ClientInv'
  <2>1. pc[t] = "assign" /\ created = 1 /\ own[t] = 1
    BY <1>4 DEF Assign, Step, ClientInv, ThreadKnows
  <2>2. ASSUME NEW s \in Threads, s # t PROVE pc[s] \notin Locked
    BY <2>1, <2>2, Exclusion
  <2>3. /\ client' = 1 /\ created' = 1 /\ pc'[t] = "release"
        /\ \A s \in Threads \ {t} : pc'[s] = pc[s]
    BY <1>4, <2>1, StepValue DEF Assign
  <2>4. OneClient'
    BY <2>3 DEF OneClient
  <2>5. ASSUME NEW s \in Threads PROVE ThreadKnows(s)'
    BY <2>2, <2>3 DEF ThreadKnows
  <2> QED BY <2>4, <2>5 DEF ClientInv
<1>5. ASSUME NEW t \in Threads, Release(t) PROVE ClientInv'
  <2>1. Step(t, "release", "return") /\ UNCHANGED <<client, created, own>>
    BY <1>5 DEF Release
  <2>2. ThreadKnows(t)'
    BY <2>1, StepValue DEF ThreadKnows, ClientInv
  <2> QED BY <2>1, <2>2, ClientFrame
<1>6. ASSUME NEW t \in Threads, Unwind(t) \/ Return(t) PROVE ClientInv'
  <2>1. PICK from \in {"unwind", "return"} :
           Step(t, from, "idle") /\ UNCHANGED <<client, created, own>>
    BY <1>6 DEF Unwind, Return
  <2>2. ThreadKnows(t)'
    BY <2>1, StepValue DEF ThreadKnows
  <2> QED BY <2>1, <2>2, ClientFrame
<1>7. CASE UNCHANGED vars
  BY <1>7 DEF ClientInv, OneClient, ThreadKnows, vars
<1> QED BY <1>1, <1>2, <1>3, <1>4, <1>5, <1>6, <1>7 DEF Next, Advance

-----------------------------------------------------------------------------
(* The refinement: constructing is Make, assigning Share, returning        *)
(* HandOut, calling and unwinding Forget; everything about the lock is     *)
(* invisible.                                                              *)

LEMMA SharedInit == Init => Shared!Init
  BY DEF Init, Shared!Init

LEMMA SharedStep ==
    TypeOK /\ ClientInv /\ [Next]_vars => [Shared!Next]_(Shared!vars)
<1> SUFFICES ASSUME TypeOK, ClientInv, [Next]_vars
             PROVE  [Shared!Next]_(Shared!vars)
  OBVIOUS
<1> USE DEF Shared!vars, Shared!Next
<1>1. ASSUME NEW t \in Threads, Call(t) PROVE Shared!Forget(t)
  BY <1>1 DEF Call, Shared!Forget
<1>2. ASSUME NEW t \in Threads, Construct(t) PROVE [Shared!Next]_(Shared!vars)
  <2>1. created = 0
    BY <1>2 DEF Construct, Step, ClientInv, ThreadKnows
  <2>2. CASE UNCHANGED <<client, handed, created>>
    BY <2>2
  <2>3. CASE created' = created + 1 /\ UNCHANGED <<client, handed>>
    <3>1. 1 .. created = {} /\ 1 .. created' = {1}
      BY <2>1, <2>3
    <3>2. Shared!Make(1)
      BY <2>3, <3>1 DEF Shared!Make
    <3> QED BY <3>2
  <2> QED BY <1>2, <2>2, <2>3 DEF Construct
<1>3. ASSUME NEW t \in Threads, Assign(t) PROVE Shared!Share
  <2>1. client = NoClient /\ own[t] = 1 /\ created = 1
    BY <1>3 DEF Assign, Step, ClientInv, ThreadKnows
  <2> QED BY <1>3, <2>1 DEF Assign, Shared!Share
<1>4. ASSUME NEW t \in Threads, Return(t) PROVE Shared!HandOut(t)
  <2>1. client # NoClient
    BY <1>4 DEF Return, Step, ClientInv, ThreadKnows
  <2> QED BY <1>4, <2>1 DEF Return, Shared!HandOut
<1>5. ASSUME NEW t \in Threads,
             FirstCheck(t) \/ Acquire(t) \/ SecondCheck(t) \/ Release(t) \/ Unwind(t)
      PROVE  UNCHANGED <<client, handed, created>>
  BY <1>5 DEF FirstCheck, Acquire, SecondCheck, Release, Unwind
<1>6. CASE UNCHANGED vars
  BY <1>6 DEF vars
<1> QED BY <1>1, <1>2, <1>3, <1>4, <1>5, <1>6 DEF Next, Advance

\* The process makes one client and every call that returns hands out that
\* one, for any number of threads and however often the constructor raises.
THEOREM OneClientForAll == Spec => ImplementsSharedClient
<1>1. Spec => [](TypeOK /\ ClientInv)
  BY TypeInit, TypeStep, ClientInit, ClientStep, PTL DEF Spec
<1>2. Spec => Shared!Init /\ [][Shared!Next]_(Shared!vars)
  BY <1>1, SharedInit, SharedStep, PTL DEF Spec
<1> QED BY <1>2 DEF ImplementsSharedClient, Shared!Spec
=============================================================================
