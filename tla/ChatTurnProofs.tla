--------------------------- MODULE ChatTurnProofs ---------------------------
(***************************************************************************)
(* Proofs about the messages of chat requests: what prompts hold, that     *)
(* turns are stored whole, in which order, and that they are what was paid *)
(* for.                                                                    *)
(***************************************************************************)
EXTENDS ChatProofs

-----------------------------------------------------------------------------
(* Prompts.                                                                *)

\* The steps of a request that has not written to its conversation yet.
Unwritten == {"idle", "history", "retrieve", "credit", "open", "complete", "stream",
              "charge", "user_message"}

\* The inductive invariant: a request works in a conversation of its user,
\* messages are in the conversation of their request and come late in it, and
\* only finished requests are committed.
TurnInv ==
    /\ PromptIsOwnHistory
    /\ \A q \in Requests :
          /\ req[q].conv \in Convs => /\ req[q].user \in Users
                                      /\ owner[req[q].conv] = req[q].user
          /\ q \in committed => req[q].step \in {"respond", "done"}
    /\ \A c \in Convs : \A i \in DOMAIN log[c] :
          /\ req[log[c][i].request].conv = c
          /\ req[log[c][i].request].step \notin Unwritten

\* What adding a message does to the logs.
LEMMA AddMessageValue ==
    ASSUME TypeOK, NEW q \in Requests, req[q].conv \in Convs,
           NEW role \in Roles, AddMessage(q, role)
    PROVE  \E k \in Nat \ {0} :
              /\ \A i \in DOMAIN log[req[q].conv] : i \in Nat /\ i < k
              /\ DOMAIN log'[req[q].conv] = DOMAIN log[req[q].conv] \cup {k}
              /\ log'[req[q].conv][k].request = q /\ log'[req[q].conv][k].role = role
              /\ \A i \in DOMAIN log[req[q].conv] :
                    log'[req[q].conv][i] = log[req[q].conv][i]
              /\ \A c \in Convs : c # req[q].conv => log'[c] = log[c]
<1> DEFINE c == req[q].conv
           m == [request |-> q, role |-> role]
<1>1. m \in Message /\ m.request = q /\ m.role = role
  BY DEF Message
<1>2. log[c] \in Seq(Message)
  BY DEF TypeOK
<1>3. /\ log'[c] = Append(log[c], m)
      /\ \A d \in Convs : d # c => log'[d] = log[d]
  BY DEF AddMessage, TypeOK
<1> HIDE DEF m
<1> PICK k \in Nat \ {0} : k = Len(log[c]) + 1
  BY <1>2
<1>4. /\ DOMAIN log[c] = 1 .. Len(log[c])
      /\ DOMAIN log'[c] = DOMAIN log[c] \cup {k}
      /\ log'[c][k] = m
      /\ \A i \in DOMAIN log[c] : log'[c][i] = log[c][i]
  BY <1>1, <1>2, <1>3
<1>5. \A i \in DOMAIN log[c] : i \in Nat /\ i < k
  BY <1>2, <1>4
<1> WITNESS k \in Nat \ {0}
<1> QED BY <1>1, <1>3, <1>4, <1>5

\* The conjunct about the logs.
LEMMA WritersKept ==
    ASSUME TypeOK, TurnInv, NEW q \in Requests, RequestNext(q) \/ Abort(q),
           NEW c \in Convs, NEW i \in DOMAIN log'[c]
    PROVE  /\ log'[c][i].request \in Requests
           /\ req'[log'[c][i].request].conv = c
           /\ req'[log'[c][i].request].step \notin Unwritten
<1>1. /\ \A p \in Requests : p # q => req'[p] = req[p]
      /\ req'[q].conv = req[q].conv /\ req[q].conv \in Convs
  BY RequestFrame DEF TypeOK, Active
<1>2. ASSUME i \in DOMAIN log[c], log'[c][i] = log[c][i]
      PROVE  /\ log'[c][i].request \in Requests
             /\ req'[log'[c][i].request].conv = c
             /\ req'[log'[c][i].request].step \notin Unwritten
  <2> DEFINE p == log[c][i].request
  <2>1. /\ p \in Requests /\ req[p].conv = c /\ req[p].step \notin Unwritten
    <3>1. log[c] \in Seq(Message)
      BY DEF TypeOK
    <3>2. log[c][i] \in Message
      BY <1>2, <3>1
    <3> QED BY <1>2, <3>2 DEF TurnInv, Message
  <2>2. p = q => req'[q].step \notin Unwritten
    <3>1. CASE p = q
      <4>1. req[q].step \notin Unwritten
        BY <2>1, <3>1
      <4> QED BY <4>1, ControlFlow
              DEF Unwritten, ReadHistory, CheckCredits, LookUpAccount, OpenAccount,
                  Charge, At
    <3> QED BY <3>1
  <2> QED BY <1>1, <1>2, <2>1, <2>2
<1>3. ASSUME NEW role \in Roles, AddMessage(q, role),
             req'[q].step \in {"assistant_message", "commit"}
      PROVE  /\ log'[c][i].request \in Requests
             /\ req'[log'[c][i].request].conv = c
             /\ req'[log'[c][i].request].step \notin Unwritten
  <2>1. PICK k \in Nat \ {0} :
              /\ DOMAIN log'[req[q].conv] = DOMAIN log[req[q].conv] \cup {k}
              /\ log'[req[q].conv][k].request = q
              /\ \A j \in DOMAIN log[req[q].conv] :
                    log'[req[q].conv][j] = log[req[q].conv][j]
              /\ \A d \in Convs : d # req[q].conv => log'[d] = log[d]
    BY <1>1, <1>3, AddMessageValue
  <2>2. CASE c = req[q].conv /\ i = k
    BY <1>1, <1>3, <2>1, <2>2 DEF Unwritten
  <2>3. CASE ~(c = req[q].conv /\ i = k)
    BY <1>2, <2>1, <2>3
  <2> QED BY <2>2, <2>3
<1>4. AddUserMessage(q) => AddMessage(q, "user") /\ req'[q].step = "assistant_message"
  BY GotoValue DEF AddUserMessage, Steps
<1>5. AddAssistantMessage(q) => AddMessage(q, "assistant") /\ req'[q].step = "commit"
  BY GotoValue DEF AddAssistantMessage, Steps
<1>6. "user" \in Roles /\ "assistant" \in Roles
  BY DEF Roles
<1>7. CASE UNCHANGED log
  BY <1>2, <1>7
<1> QED BY <1>3, <1>4, <1>5, <1>6, <1>7, SharedFrame

\* What a request reads is committed history of its user.
LEMMA PromptKept ==
    ASSUME TypeOK, TurnInv, NEW q \in Requests, RequestNext(q) \/ Abort(q)
    PROVE  PromptIsOwnHistory'
<1>1. /\ \A p \in Requests : p # q => req'[p] = req[p]
      /\ req'[q].user = req[q].user /\ req'[q].conv = req[q].conv
      /\ ReadHistory(q) \/ req'[q].history = req[q].history
      /\ \A p \in Requests : req[p].history \subseteq Message
  BY RequestFrame DEF TypeOK, RequestState
<1>2. committed \subseteq committed'
  BY SharedFrame DEF Commit
<1> SUFFICES ASSUME NEW p \in Requests, NEW m \in req'[p].history
             PROVE  /\ m.request \in committed' \ {p}
                    /\ req'[m.request].conv = req'[p].conv
                    /\ req'[m.request].user = req'[p].user
  BY DEF PromptIsOwnHistory
<1>3. committed \subseteq Requests
  BY DEF TypeOK
<1>4. CASE m \in req[p].history
  BY <1>1, <1>2, <1>3, <1>4 DEF TurnInv, PromptIsOwnHistory
<1>5. CASE p = q /\ ReadHistory(q)
  <2>1. /\ req[q].conv \in Convs /\ req[q].step = "history"
        /\ \E i \in Visible(req[q].conv) : m = log[req[q].conv][i]
    BY <1>5, ReadHistoryValue DEF ReadHistory, At
  <2>2. PICK i \in Visible(req[q].conv) : m = log[req[q].conv][i]
    BY <2>1
  <2>3. /\ m.request \in committed /\ req[m.request].conv = req[q].conv
    BY <2>1, <2>2 DEF Visible, TurnInv
  <2>4. m.request # q /\ req[m.request].user = req[q].user
    BY <1>3, <2>1, <2>3 DEF TurnInv
  <2> QED BY <1>1, <1>2, <1>3, <1>5, <2>3, <2>4
<1> QED BY <1>1, <1>4, <1>5

\* No step breaks the invariant.
LEMMA TurnStep ==
    ASSUME TypeOK, TurnInv, [Next]_vars
    PROVE  TurnInv'
<1>1. CASE UNCHANGED <<owner, log, committed, req>>
  BY <1>1 DEF TurnInv, PromptIsOwnHistory
<1>2. ASSUME NEW q \in Requests, NEW u \in Users, NEW mode \in Modes,
             NEW id \in Convs \cup {NoConv}, Receive(q, u, mode, id),
             UNCHANGED <<log, committed>>
      PROVE  TurnInv'
  <2>1. /\ \A p \in Requests : p # q => req'[p] = req[p]
        /\ req[q].step = "idle" /\ req'[q].history = {} /\ req'[q].user = u
        /\ \/ /\ req'[q].conv \in Convs
              /\ \/ /\ owner[req'[q].conv] = NoUser
                    /\ owner' = [owner EXCEPT ![req'[q].conv] = u]
                 \/ owner[req'[q].conv] = u /\ owner' = owner
           \/ req'[q].conv = NoConv /\ owner' = owner
    BY <1>2, ReceiveValue
  <2>2. q \notin committed
    BY <2>1 DEF TurnInv
  <2>3. \A c \in Convs : \A i \in DOMAIN log[c] :
           log[c][i].request \in Requests \ {q}
    <3> SUFFICES ASSUME NEW c \in Convs, NEW i \in DOMAIN log[c]
                 PROVE  log[c][i].request \in Requests \ {q}
      OBVIOUS
    <3>1. log[c][i] \in Message
      <4>1. log[c] \in Seq(Message)
        BY DEF TypeOK
      <4> QED BY <4>1
    <3> QED BY <2>1, <3>1 DEF TurnInv, Message, Unwritten
  <2>4. PromptIsOwnHistory'
    <3>1. committed \subseteq Requests
      BY DEF TypeOK
    <3> QED BY <1>2, <2>1, <2>2, <3>1 DEF TurnInv, PromptIsOwnHistory
  <2>5. \A p \in Requests :
          /\ req'[p].conv \in Convs => /\ req'[p].user \in Users
                                       /\ owner'[req'[p].conv] = req'[p].user
          /\ p \in committed' => req'[p].step \in {"respond", "done"}
    <3> SUFFICES ASSUME NEW p \in Requests
                 PROVE  /\ req'[p].conv \in Convs =>
                              /\ req'[p].user \in Users
                              /\ owner'[req'[p].conv] = req'[p].user
                        /\ p \in committed' => req'[p].step \in {"respond", "done"}
      OBVIOUS
    <3>1. CASE p = q
      BY <1>2, <2>1, <2>2, <3>1, NoneAssumption DEF TypeOK
    <3>2. CASE p # q
      BY <1>2, <2>1, <3>2, NoneAssumption DEF TurnInv, TypeOK
    <3> QED BY <3>1, <3>2
  <2>6. \A c \in Convs : \A i \in DOMAIN log'[c] :
          /\ req'[log'[c][i].request].conv = c
          /\ req'[log'[c][i].request].step \notin Unwritten
    BY <1>2, <2>1, <2>3 DEF TurnInv
  <2> QED BY <2>4, <2>5, <2>6 DEF TurnInv
<1>3. ASSUME NEW q \in Requests, RequestNext(q) \/ Abort(q) PROVE TurnInv'
  <2>1. /\ \A p \in Requests : p # q => req'[p] = req[p]
        /\ req'[q].user = req[q].user /\ req'[q].conv = req[q].conv
        /\ owner' = owner /\ req[q].step # "done"
    BY <1>3, RequestFrame
  <2>2. \A p \in Requests : p \in committed' => req'[p].step \in {"respond", "done"}
    <3>1. CASE Commit(q)
      <4>1. req'[q].step = "respond" /\ committed' = committed \cup {q}
        BY <3>1, GotoValue DEF Commit, Steps
      <4> QED BY <2>1, <4>1 DEF TurnInv
    <3>2. CASE committed' = committed
      <4>1. req[q].step = "respond" => req'[q].step = "done"
        <5>1. req[q].step = "respond" => Respond(q) \/ Abort(q)
          BY <1>3 DEF RequestNext, ReadHistory, Retrieve, CheckCredits, LookUpAccount,
                      OpenAccount, Complete, Stream, Charge, AddUserMessage,
                      AddAssistantMessage, Commit, At
        <5> QED BY <5>1, ReplyValue DEF Respond, Abort, Replies
      <4> QED BY <2>1, <3>2, <4>1 DEF TurnInv
    <3> QED BY <1>3, <3>1, <3>2, SharedFrame
  <2>3. \A p \in Requests : req'[p].conv \in Convs =>
             req'[p].user \in Users /\ owner'[req'[p].conv] = req'[p].user
    BY <2>1 DEF TurnInv
  <2> QED BY <1>3, <2>2, <2>3, PromptKept, WritersKept DEF TurnInv
<1> QED BY <1>1, <1>2, <1>3, NextCases

\* It holds at first, when nothing is written.
LEMMA TurnInit == Init => TurnInv
BY NoneAssumption DEF Init, TurnInv, PromptIsOwnHistory, IdleRequest

\* No prompt holds another user's messages, or ones that were never committed.
THEOREM PromptsAreOwnHistory == Spec => []PromptIsOwnHistory
<1>1. TurnInv => PromptIsOwnHistory
  BY DEF TurnInv
<1> QED BY <1>1, TurnInit, TurnStep, TypeCorrect, PTL DEF Spec

-----------------------------------------------------------------------------
(* The order of charged turns.                                             *)

Before(p, q) == \A i \in Positions(p), j \in Positions(q) : i < j

\* The inductive invariant: two turns that are charged to the account of one
\* conversation lie apart; while the second half of one is still to be
\* written, its first half is behind the other.
OrderInv ==
    \A p, q \in Requests :
        p # q /\ req[p].paid /\ req[q].paid /\ req[p].conv = req[q].conv =>
            /\ Before(p, q) \/ Before(q, p)
            /\ req[q].step = "assistant_message" => Before(p, q)

\* A request that has not written has no position.
LEMMA UnwrittenHasNoPositions ==
    ASSUME TypeOK, TurnInv, NEW q \in Requests, req[q].conv \in Convs,
           req[q].step \in Unwritten
    PROVE  Positions(q) = {}
BY DEF TurnInv, Positions

\* What adding a message does to the positions of the requests.
LEMMA PositionsValue ==
    ASSUME TypeOK, NEW q \in Requests, req[q].conv \in Convs,
           NEW role \in Roles, AddMessage(q, role), req'[q].conv = req[q].conv,
           \A p \in Requests : p # q => req'[p] = req[p]
    PROVE  \E k \in Nat \ {0} :
              /\ Positions(q)' = Positions(q) \cup {k}
              /\ \A p \in Requests : p # q /\ req[p].conv \in Convs =>
                    Positions(p)' = Positions(p)
              /\ \A p \in Requests : req[p].conv = req[q].conv =>
                    \A i \in Positions(p) : i < k
<1>1. PICK k \in Nat \ {0} :
              /\ \A i \in DOMAIN log[req[q].conv] : i \in Nat /\ i < k
              /\ DOMAIN log'[req[q].conv] = DOMAIN log[req[q].conv] \cup {k}
              /\ log'[req[q].conv][k].request = q
              /\ \A i \in DOMAIN log[req[q].conv] :
                    log'[req[q].conv][i] = log[req[q].conv][i]
              /\ \A c \in Convs : c # req[q].conv => log'[c] = log[c]
  BY AddMessageValue
<1>2. Positions(q)' = Positions(q) \cup {k}
  BY <1>1 DEF Positions
<1>3. ASSUME NEW p \in Requests, p # q, req[p].conv \in Convs
      PROVE  Positions(p)' = Positions(p)
  <2>1. CASE req[p].conv = req[q].conv
    BY <1>1, <1>3, <2>1 DEF Positions
  <2>2. CASE req[p].conv # req[q].conv
    BY <1>1, <1>3, <2>2 DEF Positions
  <2> QED BY <2>1, <2>2
<1>4. \A p \in Requests : req[p].conv = req[q].conv => \A i \in Positions(p) : i < k
  BY <1>1 DEF Positions
<1> QED BY <1>1, <1>2, <1>3, <1>4

\* A charged transaction writes while nobody else of the account does.
LEMMA WriterIsAlone ==
    ASSUME TypeOK, LockInv, TurnInv, NEW p \in Requests, NEW q \in Requests,
           req[p].paid, req[q].paid, req[p].conv = req[q].conv,
           req[p].step \in Locked, req[q].step \in Locked
    PROVE  p = q
<1>1. /\ lock[req[p].user] = p /\ lock[req[q].user] = q
      /\ req[p].conv \in Convs /\ req[q].conv \in Convs
  BY DEF LockInv
<1>2. req[p].user = req[q].user
  BY <1>1 DEF TurnInv
<1> QED BY <1>1, <1>2

\* A step that writes no message and moves nobody to the second half of a turn.
LEMMA QuietOrder ==
    ASSUME TypeOK, LockInv, TurnInv, OrderInv, UNCHANGED log, NEW q \in Requests,
           \A p \in Requests : p # q => req'[p] = req[p],
           req'[q].step # "assistant_message",
           \/ ~req'[q].paid
           \/ req'[q].conv = req[q].conv /\ req'[q].paid = req[q].paid
           \/ /\ req'[q].conv = req[q].conv /\ req[q].step \in Unwritten
              /\ req[q].conv \in Convs
    PROVE  OrderInv'
<1> SUFFICES ASSUME NEW p \in Requests, NEW r \in Requests, p # r,
                    req'[p].paid, req'[r].paid, req'[p].conv = req'[r].conv
             PROVE  /\ Before(p, r)' \/ Before(r, p)'
                    /\ req'[r].step = "assistant_message" => Before(p, r)'
  BY DEF OrderInv
<1>1. \A s \in Requests : s # q => Positions(s)' = Positions(s)
  BY DEF Positions
<1>2. CASE p # q /\ r # q
  BY <1>1, <1>2 DEF OrderInv, Before
<1>3. CASE p = q \/ r = q
  <2>1. req'[q].paid /\ req'[q].conv = req[q].conv /\ Positions(q)' = Positions(q)
    BY <1>3 DEF Positions
  <2>2. CASE req'[q].paid = req[q].paid
    BY <1>1, <1>3, <2>1, <2>2 DEF OrderInv, Before
  <2>3. CASE req[q].step \in Unwritten /\ req[q].conv \in Convs
    <3>1. Positions(q)' = {}
      BY <2>1, <2>3, UnwrittenHasNoPositions
    <3>2. Before(p, r)' /\ Before(r, p)'
      BY <1>3, <3>1 DEF Before
    <3> QED BY <3>2
  <2> QED BY <1>3, <2>1, <2>2, <2>3
<1> QED BY <1>2, <1>3

\* The two steps that write a message.
LEMMA WriteOrder ==
    ASSUME TypeOK, LockInv, TurnInv, OrderInv, NEW q \in Requests,
           AddUserMessage(q) \/ AddAssistantMessage(q)
    PROVE  OrderInv'
<1>1. /\ \A p \in Requests : p # q => req'[p] = req[p]
      /\ req'[q].conv = req[q].conv /\ req'[q].paid = req[q].paid
      /\ req[q].step \in Locked /\ req[q].conv \in Convs
      /\ AddUserMessage(q) => req[q].step = "user_message"
      /\ AddAssistantMessage(q) => /\ req[q].step = "assistant_message"
                                   /\ req'[q].step = "commit"
  <2>1. {"assistant_message", "commit"} \subseteq Steps
    BY DEF Steps
  <2>2. req[q].step \in Locked /\ req[q].conv \in Convs
    BY DEF AddUserMessage, AddAssistantMessage, At, TypeOK, Active, Locked
  <2> QED BY <2>1, <2>2, GotoValue DEF AddUserMessage, AddAssistantMessage, At
<1>2. PICK k \in Nat \ {0} :
              /\ Positions(q)' = Positions(q) \cup {k}
              /\ \A p \in Requests : p # q /\ req[p].conv \in Convs =>
                    Positions(p)' = Positions(p)
              /\ \A p \in Requests : req[p].conv = req[q].conv =>
                    \A i \in Positions(p) : i < k
  <2>1. \E role \in Roles : AddMessage(q, role)
    BY DEF AddUserMessage, AddAssistantMessage, Roles
  <2> QED BY <1>1, <2>1, PositionsValue
<1>3. ASSUME NEW p \in Requests, p # q, req[p].paid, req[q].paid,
             req[p].conv = req[q].conv
      PROVE  Before(p, q)' /\ req[p].step # "assistant_message"
  <2>1. Before(p, q)
    <3>1. CASE AddUserMessage(q)
      <4>1. Positions(q) = {}
        BY <1>1, <3>1, UnwrittenHasNoPositions DEF Unwritten
      <4> QED BY <4>1 DEF Before
    <3>2. CASE AddAssistantMessage(q)
      BY <1>1, <1>3, <3>2 DEF OrderInv
    <3> QED BY <3>1, <3>2
  <2>2. Before(p, q)'
    BY <1>1, <1>2, <1>3, <2>1 DEF Before
  <2>3. req[p].step \notin Locked
    BY <1>1, <1>3, WriterIsAlone
  <2> QED BY <2>2, <2>3 DEF Locked
<1> SUFFICES ASSUME NEW p \in Requests, NEW r \in Requests, p # r,
                    req'[p].paid, req'[r].paid, req'[p].conv = req'[r].conv
             PROVE  /\ Before(p, r)' \/ Before(r, p)'
                    /\ req'[r].step = "assistant_message" => Before(p, r)'
  BY DEF OrderInv
<1>4. CASE r = q
  BY <1>1, <1>3, <1>4
<1>5. CASE p = q
  BY <1>1, <1>3, <1>5
<1>6. CASE p # q /\ r # q
  <2>1. /\ req[p].paid /\ req[r].paid /\ req[p].conv = req[r].conv
        /\ req'[r].step = req[r].step
        /\ req[p].conv \in Convs /\ req[r].conv \in Convs
    BY <1>1, <1>6 DEF LockInv
  <2>2. Positions(p)' = Positions(p) /\ Positions(r)' = Positions(r)
    BY <1>2, <1>6, <2>1
  <2> QED BY <2>1, <2>2 DEF OrderInv, Before
<1> QED BY <1>4, <1>5, <1>6

\* Charged turns never interleave: the row lock orders them in the log, even
\* those of transactions that were rolled back.
THEOREM ChargedTurnsKeepOrder == Spec => []ChargedTurnsAreContiguous
<1>1. Init => LockInv /\ OrderInv
  BY DEF Init, LockInv, LockIsHeldInTransaction, OrderInv, IdleRequest, Locked
<1>2. TypeOK /\ LockInv /\ TurnInv /\ OrderInv /\ [Next]_vars => OrderInv'
  <2> SUFFICES ASSUME TypeOK, LockInv, TurnInv, OrderInv, [Next]_vars
               PROVE  OrderInv'
    OBVIOUS
  <2>1. CASE UNCHANGED <<log, req>>
    BY <2>1 DEF OrderInv, Before, Positions
  <2>2. ASSUME NEW q \in Requests, NEW u \in Users, NEW mode \in Modes,
               NEW c \in Convs \cup {NoConv}, Receive(q, u, mode, c), UNCHANGED log
        PROVE  OrderInv'
    <3>1. /\ \A p \in Requests : p # q => req'[p] = req[p]
          /\ ~req'[q].paid /\ req'[q].step # "assistant_message"
      BY <2>2, ReceiveValue
    <3> QED BY <2>2, <3>1, QuietOrder
  <2>3. ASSUME NEW q \in Requests, RequestNext(q) \/ Abort(q) PROVE OrderInv'
    <3>1. CASE AddUserMessage(q) \/ AddAssistantMessage(q)
      BY <3>1, WriteOrder
    <3>2. CASE UNCHANGED log /\ ~AddUserMessage(q)
      <4>1. /\ \A p \in Requests : p # q => req'[p] = req[p]
            /\ req'[q].conv = req[q].conv /\ req[q].conv \in Convs
            /\ Charge(q) \/ req'[q].paid = req[q].paid
        BY <2>3, RequestFrame DEF TypeOK, Active
      <4>2. req'[q].step # "assistant_message"
        BY <2>3, <3>2, ControlFlow
      <4>3. Charge(q) => req[q].step \in Unwritten
        BY DEF Charge, At, Unwritten
      <4> QED BY <3>2, <4>1, <4>2, <4>3, QuietOrder
    <3> QED BY <2>3, <3>1, <3>2, SharedFrame
  <2> QED BY <2>1, <2>2, <2>3, NextCases
<1>3. TypeOK /\ OrderInv => ChargedTurnsAreContiguous
  BY DEF TypeOK, OrderInv, ChargedTurnsAreContiguous, Before
<1> QED BY <1>1, <1>2, <1>3, TurnInit, TurnStep, LockStep, TypeCorrect, PTL DEF Spec

-----------------------------------------------------------------------------
(* Whole turns.                                                            *)

Role(q, i) == log[req[q].conv][i].role

\* What the step of a request says about its messages and its reply.
WrittenInv ==
    \A q \in Requests :
        /\ req[q].step = "assistant_message" =>
              \E i \in Nat : Positions(q) = {i} /\ Role(q, i) = "user"
        /\ req[q].step = "commit" \/ q \in committed =>
              req[q].conv \in Convs /\ WholeTurn(q)
        /\ req[q].step = "respond" => q \in committed
        /\ req[q].reply = "200" => q \in committed
        /\ req[q].reply \in {"402", "404", "502", "broken"} => q \notin committed
        /\ req[q].step # "done" => req[q].reply = "none"

\* How a request is replied to.
LEMMA ReplyOrNone ==
    ASSUME TypeOK, WrittenInv, NEW q \in Requests, RequestNext(q) \/ Abort(q)
    PROVE  \/ req'[q].reply = "none"
           \/ req'[q].step = "done" /\ req'[q].reply = "lost"
           \/ /\ req'[q].step = "done" /\ req'[q].reply \in {"402", "502", "broken"}
              /\ req[q].step \in {"retrieve", "credit", "open", "complete", "stream"}
           \/ /\ req'[q].step = "done" /\ req'[q].reply = "200"
              /\ req[q].step = "respond"
<1>1. /\ TokenCounts \subseteq Nat /\ 0 \in Nat
      /\ {"200", "402", "502", "broken", "lost"} \subseteq Replies
      /\ {"credit", "open", "complete", "stream", "user_message", "assistant_message",
          "commit", "respond"} \subseteq Steps
  BY TokensAssumption DEF Replies, Steps
<1>2. req[q].reply = "none"
  BY RequestFrame DEF WrittenInv
<1>3. CASE ReadHistory(q) \/ Charge(q)
  BY <1>2, <1>3, ReadHistoryValue, ChargeValue
<1>4. CASE Retrieve(q)
  BY <1>1, <1>2, <1>4, GotoValue, ReplyValue DEF Retrieve, At
<1>5. CASE CheckCredits(q)
  BY <1>1, <1>2, <1>5, GotoValue, ReplyValue
     DEF CheckCredits, LookUpAccount, OpenAccount, CheckBalance, CallModel, At
<1>6. CASE Complete(q)
  BY <1>1, <1>2, <1>6, AnsweredValue, ReplyValue DEF Complete, At
<1>7. CASE Stream(q)
  BY <1>1, <1>2, <1>7, AnsweredValue, ReplyValue DEF Stream, At
<1>8. CASE AddUserMessage(q) \/ AddAssistantMessage(q) \/ Commit(q)
  BY <1>1, <1>2, <1>8, GotoValue DEF AddUserMessage, AddAssistantMessage, Commit
<1>9. CASE Respond(q) \/ Abort(q)
  BY <1>1, <1>9, ReplyValue DEF Respond, Abort, At
<1> QED BY <1>3, <1>4, <1>5, <1>6, <1>7, <1>8, <1>9 DEF RequestNext

\* Steps that write no message.
LEMMA QuietWritten ==
    ASSUME TypeOK, WrittenInv, UNCHANGED log, NEW q \in Requests,
           committed' \in {committed, committed \cup {q}},
           \A p \in Requests : p # q => req'[p] = req[p],
           req'[q].step \notin {"assistant_message", "commit"},
           q \in committed' => /\ req'[q].conv = req[q].conv
                               /\ q \in committed \/ req[q].step = "commit",
           req'[q].step = "respond" => q \in committed',
           req'[q].reply = "200" => q \in committed',
           req'[q].reply \in {"402", "404", "502", "broken"} => q \notin committed',
           req'[q].step # "done" => req'[q].reply = "none"
    PROVE  WrittenInv'
<1> SUFFICES ASSUME NEW p \in Requests
             PROVE  /\ req'[p].step = "assistant_message" =>
                          \E i \in Nat : Positions(p)' = {i} /\ Role(p, i)' = "user"
                    /\ req'[p].step = "commit" \/ p \in committed' =>
                          req'[p].conv \in Convs /\ WholeTurn(p)'
                    /\ req'[p].step = "respond" => p \in committed'
                    /\ req'[p].reply = "200" => p \in committed'
                    /\ req'[p].reply \in {"402", "404", "502", "broken"} => p \notin committed'
                    /\ req'[p].step # "done" => req'[p].reply = "none"
  BY DEF WrittenInv
<1>1. CASE p # q
  <2>1. /\ req'[p] = req[p] /\ (p \in committed' <=> p \in committed)
        /\ Positions(p)' = Positions(p) /\ WholeTurn(p)' = WholeTurn(p)
        /\ \A i \in Nat : Role(p, i)' = Role(p, i)
    BY <1>1 DEF Positions, WholeTurn, Role
  <2> QED BY <2>1 DEF WrittenInv
<1>2. CASE p = q
  <2>1. q \in committed' => req'[q].conv \in Convs /\ WholeTurn(q)'
    <3>1. CASE q \in committed'
      <4>1. req[q].conv \in Convs /\ WholeTurn(q)
        BY <3>1 DEF WrittenInv
      <4>2. WholeTurn(q)'
        BY <3>1, <4>1 DEF Positions, WholeTurn
      <4> QED BY <3>1, <4>1, <4>2
    <3> QED BY <3>1
  <2> QED BY <1>2, <2>1
<1> QED BY <1>1, <1>2

\* The two steps that write a message.
LEMMA WriteWritten ==
    ASSUME TypeOK, TurnInv, WrittenInv, NEW q \in Requests,
           AddUserMessage(q) \/ AddAssistantMessage(q)
    PROVE  WrittenInv'
<1>1. /\ \A p \in Requests : p # q => req'[p] = req[p]
      /\ req'[q].conv = req[q].conv /\ req'[q].reply = req[q].reply
      /\ req[q].conv \in Convs /\ committed' = committed /\ req[q].step # "done"
      /\ AddUserMessage(q) => /\ req[q].step = "user_message"
                              /\ req'[q].step = "assistant_message"
      /\ AddAssistantMessage(q) => /\ req[q].step = "assistant_message"
                                   /\ req'[q].step = "commit"
      /\ q \notin committed
  <2>1. {"assistant_message", "commit"} \subseteq Steps
    BY DEF Steps
  <2>2. req[q].step # "done" /\ req[q].conv \in Convs /\ q \notin committed
    BY DEF AddUserMessage, AddAssistantMessage, At, TypeOK, Active, TurnInv
  <2> QED BY <2>1, <2>2, GotoValue DEF AddUserMessage, AddAssistantMessage, At
<1>2. PICK role \in Roles : /\ AddMessage(q, role)
                            /\ AddUserMessage(q) => role = "user"
                            /\ AddAssistantMessage(q) => role = "assistant"
  <2>1. ~(AddUserMessage(q) /\ AddAssistantMessage(q))
    BY <1>1
  <2> QED BY <2>1 DEF AddUserMessage, AddAssistantMessage, Roles
<1> DEFINE c == req[q].conv
<1>3. PICK k \in Nat \ {0} :
              /\ \A i \in DOMAIN log[c] : i \in Nat /\ i < k
              /\ DOMAIN log'[c] = DOMAIN log[c] \cup {k}
              /\ log'[c][k].request = q /\ log'[c][k].role = role
              /\ \A i \in DOMAIN log[c] : log'[c][i] = log[c][i]
              /\ \A d \in Convs : d # c => log'[d] = log[d]
  BY <1>1, <1>2, AddMessageValue
<1>4. Positions(q)' = Positions(q) \cup {k}
  BY <1>1, <1>3 DEF Positions
<1>5. /\ \A i \in Positions(q) : i \in Nat /\ i < k /\ Role(q, i)' = Role(q, i)
      /\ Role(q, k)' = role
  BY <1>1, <1>3 DEF Positions, Role
<1> SUFFICES ASSUME NEW p \in Requests
             PROVE  /\ req'[p].step = "assistant_message" =>
                          \E i \in Nat : Positions(p)' = {i} /\ Role(p, i)' = "user"
                    /\ req'[p].step = "commit" \/ p \in committed' =>
                          req'[p].conv \in Convs /\ WholeTurn(p)'
                    /\ req'[p].step = "respond" => p \in committed'
                    /\ req'[p].reply = "200" => p \in committed'
                    /\ req'[p].reply \in {"402", "404", "502", "broken"} => p \notin committed'
                    /\ req'[p].step # "done" => req'[p].reply = "none"
  BY DEF WrittenInv
<1>6. CASE p # q
  <2>1. req'[p] = req[p]
    BY <1>1, <1>6
  <2>2. ASSUME req[p].conv \in Convs
        PROVE  /\ Positions(p)' = Positions(p)
               /\ \A i \in Positions(p) : Role(p, i)' = Role(p, i)
    <3>1. CASE req[p].conv = c
      BY <1>3, <1>6, <2>1, <3>1 DEF Positions, Role
    <3>2. CASE req[p].conv # c
      BY <1>3, <2>1, <2>2, <3>2 DEF Positions, Role
    <3> QED BY <3>1, <3>2
  <2>3. req[p].step = "assistant_message" => req[p].conv \in Convs
    BY DEF TypeOK, Active
  <2>4. req'[p].step = "assistant_message" =>
                          \E i \in Nat : Positions(p)' = {i} /\ Role(p, i)' = "user"
    BY <2>1, <2>2, <2>3 DEF WrittenInv
  <2>5. req'[p].step = "commit" \/ p \in committed' =>
                          req'[p].conv \in Convs /\ WholeTurn(p)'
    <3>1. CASE req'[p].step = "commit" \/ p \in committed'
      <4>1. req[p].conv \in Convs /\ WholeTurn(p)
        BY <1>1, <2>1, <3>1 DEF WrittenInv
      <4>2. WholeTurn(p)'
        BY <2>1, <2>2, <4>1 DEF WholeTurn, Role
      <4> QED BY <2>1, <4>1, <4>2
    <3> QED BY <3>1
  <2> QED BY <1>1, <2>1, <2>4, <2>5 DEF WrittenInv
<1>7. CASE p = q
  <2>1. CASE AddUserMessage(q)
    <3>1. Positions(q)' = {k}
      BY <1>1, <1>4, <2>1, UnwrittenHasNoPositions DEF Unwritten
    <3> QED BY <1>1, <1>2, <1>5, <1>7, <2>1, <3>1 DEF WrittenInv
  <2>2. CASE AddAssistantMessage(q)
    <3>1. PICK i \in Nat : Positions(q) = {i} /\ Role(q, i) = "user"
      BY <1>1, <2>2 DEF WrittenInv
    <3>2. /\ Positions(q)' = {i, k} /\ i < k
          /\ Role(q, i)' = "user" /\ Role(q, k)' = "assistant"
      BY <1>2, <1>4, <1>5, <2>2, <3>1
    <3>3. WholeTurn(q)'
      BY <3>2 DEF WholeTurn, Role
    <3> QED BY <1>1, <1>7, <2>2, <3>3 DEF WrittenInv
  <2> QED BY <2>1, <2>2
<1> QED BY <1>6, <1>7

\* A turn is stored whole or never seen, and the reply says which.
THEOREM TurnsAreAtomic == Spec => []TurnIsAllOrNothing
<1>1. Init => WrittenInv
  BY DEF Init, WrittenInv, IdleRequest
<1>2. TypeOK /\ TurnInv /\ WrittenInv /\ [Next]_vars => WrittenInv'
  <2> SUFFICES ASSUME TypeOK, TurnInv, WrittenInv, [Next]_vars PROVE WrittenInv'
    OBVIOUS
  <2>1. CASE UNCHANGED <<log, committed, req>>
    BY <2>1 DEF WrittenInv, WholeTurn, Positions, Role
  <2>2. ASSUME NEW q \in Requests, NEW u \in Users, NEW mode \in Modes,
               NEW c \in Convs \cup {NoConv}, Receive(q, u, mode, c),
               UNCHANGED <<log, committed>>
        PROVE  WrittenInv'
    <3>1. /\ \A p \in Requests : p # q => req'[p] = req[p]
          /\ req[q].step = "idle"
          /\ \/ req'[q].step = "history" /\ req'[q].reply = "none"
             \/ req'[q].step = "done" /\ req'[q].reply = "404"
      BY <2>2, ReceiveValue
    <3>2. q \notin committed
      BY <3>1 DEF TurnInv
    <3> QED BY <2>2, <3>1, <3>2, QuietWritten
  <2>3. ASSUME NEW q \in Requests, RequestNext(q) \/ Abort(q) PROVE WrittenInv'
    <3>1. CASE AddUserMessage(q) \/ AddAssistantMessage(q)
      BY <3>1, WriteWritten
    <3>2. CASE UNCHANGED log /\ ~AddUserMessage(q) /\ ~AddAssistantMessage(q)
      <4>1. /\ \A p \in Requests : p # q => req'[p] = req[p]
            /\ req'[q].conv = req[q].conv /\ req[q].step # "done"
        BY <2>3, RequestFrame
      <4>2. /\ req'[q].step \notin {"assistant_message", "commit"}
            /\ req'[q].step = "respond" => Commit(q)
        BY <2>3, <3>2, ControlFlow
      <4>3. Commit(q) => /\ committed' = committed \cup {q} /\ req[q].step = "commit"
                         /\ req'[q].step = "respond" /\ req'[q].reply = "none"
        BY <4>1, GotoValue DEF Commit, At, Steps, WrittenInv
      <4>4. CASE Commit(q)
        BY <3>2, <4>1, <4>2, <4>3, <4>4, QuietWritten
      <4>5. CASE committed' = committed /\ ~Commit(q)
        <5>1. \/ req'[q].reply = "none"
              \/ req'[q].step = "done" /\ req'[q].reply = "lost"
              \/ /\ req'[q].step = "done" /\ req'[q].reply \in {"402", "502", "broken"}
                 /\ req[q].step \in {"retrieve", "credit", "open", "complete", "stream"}
              \/ /\ req'[q].step = "done" /\ req'[q].reply = "200"
                 /\ req[q].step = "respond"
          BY <2>3, <3>2, <4>5, ReplyOrNone
        <5>2. q \in committed => req[q].step = "respond"
          BY <4>1 DEF TurnInv
        <5>3. req[q].step = "respond" => q \in committed
          BY DEF WrittenInv
        <5>4. req'[q].step # "done" => req'[q].reply = "none"
          BY <5>1
        <5>5. /\ req'[q].reply = "200" => q \in committed'
              /\ req'[q].reply \in {"402", "404", "502", "broken"} => q \notin committed'
          BY <4>5, <5>1, <5>2, <5>3
        <5>6. req'[q].step # "respond"
          BY <4>2, <4>5
        <5> QED BY <3>2, <4>1, <4>2, <4>5, <5>4, <5>5, <5>6, QuietWritten
      <4> QED BY <2>3, <4>4, <4>5, SharedFrame
    <3>3. CASE UNCHANGED log
      BY <3>1, <3>2, <3>3
    <3> QED BY <2>3, <3>1, <3>3, SharedFrame
  <2> QED BY <2>1, <2>2, <2>3, NextCases
<1>3. TypeOK /\ TurnInv /\ WrittenInv => TurnIsAllOrNothing
  BY DEF TypeOK, TurnInv, WrittenInv, TurnIsAllOrNothing
<1> QED BY <1>1, <1>2, <1>3, TurnInit, TurnStep, TypeCorrect, PTL DEF Spec

-----------------------------------------------------------------------------
(* Sums. The library states induction over finite sets with the property   *)
(* as an operator, which the provers cannot instantiate; so each induction *)
(* below looks at a smallest set that would refute its claim.              *)

\* Among the subsets of a finite set that are in a class, one is smallest.
LEMMA SmallestSubset ==
    ASSUME NEW S, IsFiniteSet(S), NEW C \in SUBSET (SUBSET S), C # {}
    PROVE  \E T \in C : \A U \in SUBSET T : U # T => U \notin C
<1>1. IsWellFoundedOn(StrictSubsetOrdering(S), SUBSET S)
  BY FS_StrictSubsetOrderingWellFounded, FS_FiniteSubsetsOfFinite
<1>2. PICK T \in C : \A U \in C : <<U, T>> \notin StrictSubsetOrdering(S)
  <2> HIDE DEF StrictSubsetOrdering
  <2> QED BY <1>1, WFMin
<1>3. ASSUME NEW U \in SUBSET T, U # T, U \in C PROVE FALSE
  BY <1>2, <1>3 DEF StrictSubsetOrdering
<1> QED BY <1>3

\* What the requests in S cost together.
Total(r, S) == MapThenSumSet(LAMBDA q : r[q].tokens, S)

\* The element the sum takes first.
Pick(s) == CHOOSE x \in s : TRUE

\* f sums up the subsets of S, one element after another.
Sums(r, f, S) ==
    f = [s \in SUBSET S |-> IF s = {} THEN 0
                            ELSE r[Pick(s)].tokens + f[s \ {Pick(s)}]]

\* The sum is what such a function yields.
LEMMA TotalDef ==
    ASSUME NEW r, NEW S
    PROVE Total(r, S) = (CHOOSE f : Sums(r, f, S))[S]
BY DEF Total, MapThenSumSet, MapThenFoldSet, Sums, Pick

\* There is an element to take first.
LEMMA PickIn == ASSUME NEW s, s # {} PROVE Pick(s) \in s
BY DEF Pick

\* Two such functions agree where both are defined.
LEMMA SumsAgree ==
    ASSUME NEW r, NEW S, IsFiniteSet(S), NEW T, NEW f, NEW g, Sums(r, f, S), Sums(r, g, T),
           S \subseteq T
    PROVE  f[S] = g[S]
<1> DEFINE C == {s \in SUBSET S : f[s] # g[s]}
<1> SUFFICES C = {} OBVIOUS
<1>1. ASSUME C # {} PROVE FALSE
  <2>1. PICK s \in C : \A t \in SUBSET s : t # s => t \notin C
    <3>1. C \in SUBSET (SUBSET S)
      OBVIOUS
    <3> HIDE DEF C
    <3> QED BY <1>1, <3>1, SmallestSubset
  <2>2. /\ f[s] = IF s = {} THEN 0 ELSE r[Pick(s)].tokens + f[s \ {Pick(s)}]
        /\ g[s] = IF s = {} THEN 0 ELSE r[Pick(s)].tokens + g[s \ {Pick(s)}]
    BY DEF Sums
  <2>3. s # {} => f[s \ {Pick(s)}] = g[s \ {Pick(s)}]
    BY <2>1, PickIn
  <2> QED BY <2>1, <2>2, <2>3
<1> QED BY <1>1

\* There is one for every finite set.
LEMMA SumsExist ==
    ASSUME NEW r, NEW S, IsFiniteSet(S)
    PROVE  \E f : Sums(r, f, S)
<1> DEFINE C == {s \in SUBSET S : ~\E f : Sums(r, f, s)}
<1>1. ASSUME C # {} PROVE FALSE
  <2>1. PICK T \in C : \A U \in SUBSET T : U # T => U \notin C
    <3>1. C \in SUBSET (SUBSET S)
      OBVIOUS
    <3> HIDE DEF C
    <3> QED BY <1>1, <3>1, SmallestSubset
  <2>2. ASSUME NEW U \in SUBSET T, U # T
        PROVE  \E f : Sums(r, f, U) /\ f[U] = Total(r, U)
    <3>1. \E f : Sums(r, f, U)
      BY <2>1, <2>2
    <3> QED BY <3>1, TotalDef
  <2> DEFINE h == [s \in SUBSET T |-> IF s = {} THEN 0
                        ELSE r[Pick(s)].tokens + Total(r, s \ {Pick(s)})]
  <2>3. ASSUME NEW U \in SUBSET T, U # T PROVE h[U] = Total(r, U)
    <3>1. PICK f : Sums(r, f, U) /\ f[U] = Total(r, U)
      BY <2>2, <2>3
    <3>2. f[U] = IF U = {} THEN 0 ELSE r[Pick(U)].tokens + f[U \ {Pick(U)}]
      BY <3>1 DEF Sums
    <3>3. CASE U = {}
      BY <3>1, <3>2, <3>3
    <3>4. CASE U # {}
      <4> DEFINE V == U \ {Pick(U)}
      <4>1. V \subseteq U /\ V # T /\ V \in SUBSET T /\ V \in SUBSET S
        BY <3>4, PickIn
      <4>2. PICK g : Sums(r, g, V) /\ g[V] = Total(r, V)
        BY <4>1, <2>2
      <4>3. IsFiniteSet(V)
        BY <4>1, FS_Subset
      <4>4. g[V] = f[V]
        <5> HIDE DEF V
        <5> QED BY <4>1, <4>2, <4>3, <3>1, SumsAgree
      <4> QED BY <3>1, <3>2, <3>4, <4>2, <4>4
    <3> QED BY <3>3, <3>4
  <2>4. h = [s \in SUBSET T |-> IF s = {} THEN 0 ELSE r[Pick(s)].tokens + h[s \ {Pick(s)}]]
    <3>1. ASSUME NEW s \in SUBSET T, s # {}
          PROVE  Total(r, s \ {Pick(s)}) = h[s \ {Pick(s)}]
      <4>1. s \ {Pick(s)} \in SUBSET T /\ s \ {Pick(s)} # T
        BY <3>1, PickIn
      <4> HIDE DEF h
      <4> QED BY <4>1, <2>3
    <3>2. ASSUME NEW s \in SUBSET T
          PROVE  h[s] = IF s = {} THEN 0 ELSE r[Pick(s)].tokens + h[s \ {Pick(s)}]
      BY <3>1
    <3> DEFINE k == [s \in SUBSET T |-> IF s = {} THEN 0 ELSE r[Pick(s)].tokens + h[s \ {Pick(s)}]]
    <3>3. \A s \in SUBSET T : h[s] = k[s]
      BY <3>2
    <3>4. h = [s \in SUBSET T |-> h[s]] /\ k = [s \in SUBSET T |-> k[s]]
      OBVIOUS
    <3> HIDE DEF h
    <3> QED BY <3>3, <3>4
  <2> HIDE DEF h
  <2> QED BY <2>1, <2>4 DEF Sums
<1> QED BY <1>1

\* So the sum takes one element after another.
LEMMA TotalStep ==
    ASSUME NEW r, NEW S, IsFiniteSet(S)
    PROVE  Total(r, S) = IF S = {} THEN 0
                         ELSE r[Pick(S)].tokens + Total(r, S \ {Pick(S)})
<1> DEFINE T == S \ {Pick(S)}
<1>1. PICK f : Sums(r, f, S) /\ Total(r, S) = f[S]
  BY SumsExist, TotalDef
<1>2. f[S] = IF S = {} THEN 0 ELSE r[Pick(S)].tokens + f[T]
  BY <1>1 DEF Sums
<1>3. T \subseteq S /\ IsFiniteSet(T)
  BY FS_RemoveElement
<1>4. PICK g : Sums(r, g, T) /\ Total(r, T) = g[T]
  BY <1>3, SumsExist, TotalDef
<1> HIDE DEF T
<1>5. g[T] = f[T]
  BY <1>1, <1>3, <1>4, SumsAgree
<1> QED BY <1>1, <1>2, <1>4, <1>5 DEF T

\* The sum is a number.
LEMMA TotalNat ==
    ASSUME NEW r, NEW S, IsFiniteSet(S), \A q \in S : r[q].tokens \in Nat
    PROVE  Total(r, S) \in Nat
<1> DEFINE C == {s \in SUBSET S : Total(r, s) \notin Nat}
<1>1. ASSUME C # {} PROVE FALSE
  <2>1. PICK s \in C : \A t \in SUBSET s : t # s => t \notin C
    <3>1. C \in SUBSET (SUBSET S)
      OBVIOUS
    <3> HIDE DEF C
    <3> QED BY <1>1, <3>1, SmallestSubset
  <2>2. IsFiniteSet(s)
    BY FS_Subset
  <2>3. s # {} => Pick(s) \in s /\ Total(r, s \ {Pick(s)}) \in Nat
    BY <2>1, PickIn
  <2> QED BY <2>2, <2>3, TotalStep
<1> QED BY <1>1

\* Any element may be taken first.
LEMMA TotalRemove ==
    ASSUME NEW r, NEW S, IsFiniteSet(S), \A q \in S : r[q].tokens \in Nat, NEW x \in S
    PROVE  Total(r, S) = r[x].tokens + Total(r, S \ {x})
<1> DEFINE C == {s \in SUBSET S : \E y \in s : Total(r, s) # r[y].tokens + Total(r, s \ {y})}
<1>1. ASSUME C # {} PROVE FALSE
  <2>1. PICK s \in C : \A t \in SUBSET s : t # s => t \notin C
    <3>1. C \in SUBSET (SUBSET S)
      OBVIOUS
    <3> HIDE DEF C
    <3> QED BY <1>1, <3>1, SmallestSubset
  <2>2. PICK y \in s : Total(r, s) # r[y].tokens + Total(r, s \ {y})
    OBVIOUS
  <2> DEFINE p == Pick(s)
             sy == s \ {y}
             sp == s \ {p}
             sz == sy \ {p}
  <2>3. p \in s /\ p # y /\ IsFiniteSet(s) /\ Total(r, s) = r[p].tokens + Total(r, sp)
    <3>1. IsFiniteSet(s) /\ p \in s
      BY <2>2, FS_Subset, PickIn
    <3>2. Total(r, s) = r[p].tokens + Total(r, sp)
      BY <3>1, TotalStep
    <3> QED BY <2>2, <3>1, <3>2
  <2>4. Total(r, sp) = r[y].tokens + Total(r, sz)
    <3>1. sp \in SUBSET s /\ sp # s /\ sp \in SUBSET S /\ y \in sp /\ sp \ {y} = sz
      BY <2>3
    <3>2. sp \notin C
      BY <2>1, <3>1
    <3> QED BY <3>1, <3>2
  <2>5. Total(r, sy) = r[p].tokens + Total(r, sz)
    <3>1. sy \in SUBSET s /\ sy # s /\ sy \in SUBSET S /\ p \in sy /\ sy \ {p} = sz
      BY <2>3
    <3>2. sy \notin C
      BY <2>1, <3>1
    <3> QED BY <3>1, <3>2
  <2>6. Total(r, sz) \in Nat /\ r[p].tokens \in Nat /\ r[y].tokens \in Nat
    <3>1. sz \subseteq S /\ p \in S /\ y \in S
      BY <2>3
    <3>2. IsFiniteSet(sz)
      BY <3>1, FS_Subset
    <3> QED BY <3>1, <3>2, TotalNat
  <2> HIDE DEF p, sy, sp, sz
  <2>7. Total(r, s) # r[y].tokens + Total(r, sy)
    BY <2>2 DEF sy
  <2> QED BY <2>3, <2>4, <2>5, <2>6, <2>7
<1> QED BY <1>1

\* The sum depends on what its own elements cost only.
LEMMA TotalSame ==
    ASSUME NEW r, NEW t, NEW S, IsFiniteSet(S), \A q \in S : t[q].tokens = r[q].tokens
    PROVE  Total(t, S) = Total(r, S)
<1> DEFINE C == {s \in SUBSET S : Total(t, s) # Total(r, s)}
<1>1. ASSUME C # {} PROVE FALSE
  <2>1. PICK s \in C : \A u \in SUBSET s : u # s => u \notin C
    <3>1. C \in SUBSET (SUBSET S)
      OBVIOUS
    <3> HIDE DEF C
    <3> QED BY <1>1, <3>1, SmallestSubset
  <2>2. IsFiniteSet(s)
    BY FS_Subset
  <2>3. s # {} => Pick(s) \in s /\ Total(t, s \ {Pick(s)}) = Total(r, s \ {Pick(s)})
    BY <2>1, PickIn
  <2> QED BY <2>2, <2>3, TotalStep
<1> QED BY <1>1

\* One more request adds what it costs.
LEMMA TotalAdd ==
    ASSUME NEW r, NEW S, IsFiniteSet(S), NEW x, x \notin S,
           \A q \in S \cup {x} : r[q].tokens \in Nat
    PROVE  Total(r, S \cup {x}) = Total(r, S) + r[x].tokens
<1>1. IsFiniteSet(S \cup {x}) /\ x \in S \cup {x} /\ (S \cup {x}) \ {x} = S
  BY FS_AddElement
<1>2. Total(r, S \cup {x}) = r[x].tokens + Total(r, S)
  BY <1>1, TotalRemove
<1> QED BY <1>2, TotalNat

-----------------------------------------------------------------------------
(* Charges and stored answers.                                             *)

\* The steps of a request before the model has answered.
Unanswered == {"idle", "history", "retrieve", "credit", "open", "complete", "stream"}

Turns(u) == {q \in committed : req[q].user = u}

\* The inductive invariant: what a user was charged is the cost of the stored
\* turns; an answer has a cost only once the model gave it, and a transaction
\* that charges nothing stores an answer that cost nothing.
SpentInv ==
    /\ IsFiniteSet(committed)
    /\ \A u \in Users : spent[u] = Total(req, Turns(u))
    /\ \A q \in Requests :
          /\ req[q].step \in Unanswered => req[q].tokens = 0
          /\ req[q].step \in Locked /\ ~req[q].paid => req[q].tokens = 0

\* The conjunct about what an answer costs.
LEMMA CostStep ==
    ASSUME TypeOK, LockInv, SpentInv, [Next]_vars, NEW p \in Requests
    PROVE  /\ req'[p].step \in Unanswered => req'[p].tokens = 0
           /\ req'[p].step \in Locked /\ ~req'[p].paid => req'[p].tokens = 0
<1>1. CASE req' = req
  BY <1>1 DEF SpentInv
<1>2. ASSUME NEW q \in Requests, NEW u \in Users, NEW mode \in Modes,
             NEW c \in Convs \cup {NoConv}, Receive(q, u, mode, c)
      PROVE  p = q \/ req'[p] = req[p]
  BY <1>2, ReceiveValue
<1>3. ASSUME NEW q \in Requests, NEW u \in Users, NEW mode \in Modes,
             NEW c \in Convs \cup {NoConv}, Receive(q, u, mode, c)
      PROVE  req'[q].tokens = 0
  BY <1>3, ReceiveValue
<1>4. ASSUME NEW q \in Requests, RequestNext(q) \/ Abort(q)
      PROVE  /\ req'[p].step \in Unanswered => req'[p].tokens = 0
             /\ req'[p].step \in Locked /\ ~req'[p].paid => req'[p].tokens = 0
  <2>1. CASE p # q
    BY <1>4, <2>1, RequestFrame DEF SpentInv
  <2>2. CASE p = q
    <3>1. req[q].step \in {"complete", "stream"} \/ req'[q].tokens = req[q].tokens
      BY <1>4, RequestFrame
    <3>2. ASSUME req'[q].step \in Unanswered
          PROVE  req'[q].tokens = 0
      <4>1. req[q].step \in {"history", "retrieve", "credit", "open"}
        <5>1. /\ req'[q].step \notin {"idle", "history"}
              /\ req'[q].step = "retrieve" => ReadHistory(q)
              /\ req'[q].step = "credit" => req[q].step = "retrieve"
              /\ req'[q].step = "open" => req[q].step = "credit"
              /\ req'[q].step \in {"complete", "stream"} => CheckCredits(q)
          BY <1>4, ControlFlow
        <5>2. /\ ReadHistory(q) => req[q].step = "history"
              /\ CheckCredits(q) => req[q].step \in {"credit", "open"}
          BY DEF ReadHistory, CheckCredits, LookUpAccount, OpenAccount, At
        <5> QED BY <3>2, <5>1, <5>2 DEF Unanswered
      <4> QED BY <3>1, <4>1 DEF SpentInv, Unanswered
    <3>3. ASSUME req'[q].step \in Locked, ~req'[q].paid
          PROVE  req'[q].tokens = 0
      <4>1. ~Charge(q) /\ ~req[q].paid
        BY <1>4, <3>3, RequestFrame, ChargeValue
      <4>2. req[q].step = "retrieve" \/ req[q].step \in Locked
        BY <1>4, <3>3, <4>1, ControlFlow DEF Locked, AddUserMessage, AddAssistantMessage, At
      <4> QED BY <3>1, <4>1, <4>2 DEF SpentInv, Locked, Unanswered
    <3> QED BY <2>2, <3>2, <3>3
  <2> QED BY <2>1, <2>2
<1> QED BY <1>1, <1>2, <1>3, <1>4, NextCases DEF SpentInv

\* A step that stores no turn.
LEMMA QuietSpent ==
    ASSUME TypeOK, SpentInv, UNCHANGED <<committed, spent>>,
           \A q \in committed : /\ req'[q].user = req[q].user
                                /\ req'[q].tokens = req[q].tokens,
           NEW u \in Users
    PROVE  spent'[u] = Total(req', Turns(u)')
<1>1. Turns(u)' = Turns(u) /\ IsFiniteSet(Turns(u))
  BY FS_Subset DEF Turns, SpentInv
<1>2. Total(req', Turns(u)) = Total(req, Turns(u))
  <2>1. \A q \in Turns(u) : req'[q].tokens = req[q].tokens
    BY DEF Turns
  <2> QED BY <1>1, <2>1, TotalSame
<1> QED BY <1>1, <1>2 DEF SpentInv

\* The commit stores a turn and its charge.
LEMMA CommitSpent ==
    ASSUME TypeOK, TurnInv, SpentInv, NEW q \in Requests, Commit(q), NEW u \in Users
    PROVE  spent'[u] = Total(req', Turns(u)')
<1> DEFINE own == Turns(u)
<1>1. /\ \A p \in Requests : p # q => req'[p] = req[p]
      /\ req'[q].user = req[q].user /\ req'[q].tokens = req[q].tokens
      /\ q \notin committed /\ committed' = committed \cup {q}
      /\ committed \subseteq Requests
  BY GotoValue DEF Commit, At, Steps, TurnInv, TypeOK
<1>2. /\ own \subseteq committed /\ IsFiniteSet(own) /\ q \notin own
      /\ \A p \in own \cup {q} : req[p].tokens \in Nat /\ req'[p].tokens = req[p].tokens
  <2>1. own \subseteq committed /\ IsFiniteSet(own)
    BY FS_Subset DEF Turns, SpentInv
  <2>2. \A p \in Requests : req[p].tokens \in Nat /\ req'[p].tokens = req[p].tokens
    BY <1>1 DEF TypeOK, RequestState
  <2> QED BY <1>1, <2>1, <2>2
<1>3. Turns(u)' = IF req[q].user = u THEN own \cup {q} ELSE own
  BY <1>1 DEF Turns
<1>4. spent[u] = Total(req, own) /\ Total(req', own) = Total(req, own)
  BY <1>2, TotalSame DEF SpentInv
<1> HIDE DEF own
<1>5. CASE req[q].user # u
  <2>1. spent'[u] = spent[u]
    <3>1. CASE req[q].paid
      BY <1>5, <3>1, CommitValue
    <3>2. CASE ~req[q].paid
      BY <3>2 DEF Commit
    <3> QED BY <3>1, <3>2
  <2> QED BY <1>3, <1>4, <1>5, <2>1
<1>6. CASE req[q].user = u
  <2>1. spent'[u] = spent[u] + req[q].tokens
    <3>1. CASE req[q].paid
      BY <1>6, <3>1, CommitValue
    <3>2. CASE ~req[q].paid
      <4>1. req[q].tokens = 0 /\ spent' = spent
        BY <3>2 DEF SpentInv, Commit, At, Locked
      <4>2. spent[u] \in Nat
        BY DEF TypeOK
      <4> QED BY <4>1, <4>2
    <3> QED BY <3>1, <3>2
  <2>2. Total(req', own \cup {q}) = Total(req', own) + req'[q].tokens
    BY <1>2, TotalAdd
  <2> QED BY <1>1, <1>3, <1>4, <1>6, <2>1, <2>2
<1> QED BY <1>5, <1>6

\* No charge without its stored answer, and none for another amount.
THEOREM ChargesAreStored == Spec => []SpentIsStored
<1>1. Init => SpentInv
  <2> SUFFICES ASSUME Init PROVE SpentInv OBVIOUS
  <2>1. Total(req, {}) = 0
    BY TotalStep, FS_EmptySet
  <2>2. \A u \in Users : Turns(u) = {}
    BY DEF Init, Turns
  <2> QED BY <2>1, <2>2, FS_EmptySet DEF Init, SpentInv, IdleRequest, Locked
<1>2. TypeOK /\ LockInv /\ TurnInv /\ SpentInv /\ [Next]_vars => SpentInv'
  <2> SUFFICES ASSUME TypeOK, LockInv, TurnInv, SpentInv, [Next]_vars
               PROVE  SpentInv'
    OBVIOUS
  <2>1. ASSUME UNCHANGED <<committed, spent>>,
               \A q \in committed : /\ req'[q].user = req[q].user
                                    /\ req'[q].tokens = req[q].tokens
        PROVE  SpentInv'
    BY <2>1, QuietSpent, CostStep DEF SpentInv
  <2>2. ASSUME NEW q \in Requests, Commit(q) PROVE SpentInv'
    <3>1. IsFiniteSet(committed')
      BY <2>2, FS_AddElement DEF Commit, SpentInv
    <3> QED BY <2>2, <3>1, CommitSpent, CostStep DEF SpentInv
  <2>3. committed \subseteq Requests
    BY DEF TypeOK
  <2>4. ASSUME NEW q \in Requests, NEW u \in Users, NEW mode \in Modes,
               NEW c \in Convs \cup {NoConv}, Receive(q, u, mode, c)
        PROVE  \A p \in committed : req'[p] = req[p]
    BY <2>3, <2>4, ReceiveValue DEF TurnInv
  <2>5. ASSUME NEW q \in Requests, RequestNext(q) \/ Abort(q), ~Commit(q)
        PROVE  SpentInv'
    <3>1. UNCHANGED <<committed, spent>>
      <4>1. OpenAccount(q) => spent' = spent
        BY DEF OpenAccount
      <4> QED BY <2>5, <4>1, SharedFrame DEF money
    <3>2. \A p \in committed : /\ req'[p].user = req[p].user
                               /\ req'[p].tokens = req[p].tokens
      BY <2>3, <2>5, RequestFrame DEF TurnInv
    <3> QED BY <2>1, <3>1, <3>2
  <2> QED BY <2>1, <2>2, <2>4, <2>5, NextCases
<1>3. SpentInv => SpentIsStored
  BY DEF SpentInv, SpentIsStored, Total, Turns
<1>4. Init => LockInv
  BY DEF Init, LockInv, LockIsHeldInTransaction, IdleRequest, Locked
<1> QED BY <1>1, <1>2, <1>3, <1>4, TurnInit, TurnStep, LockStep, TypeCorrect, PTL DEF Spec
=============================================================================
