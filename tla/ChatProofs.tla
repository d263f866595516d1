----------------------------- MODULE ChatProofs -----------------------------
(***************************************************************************)
(* Proofs about chat requests, credits and row locks, for any number of    *)
(* users, requests, conversations and web workers, and under every fault.  *)
(***************************************************************************)
EXTENDS ChatProperties, FiniteSetTheorems, TLAPS

-----------------------------------------------------------------------------
(* Types.                                                                  *)

\* What going on to a step does to the local states.
LEMMA GotoValue ==
    ASSUME TypeOK, NEW q \in Requests, NEW step \in Steps, Goto(q, step)
    PROVE  /\ req' \in [Requests -> RequestState]
           /\ \A p \in Requests : p # q => req'[p] = req[p]
           /\ req'[q].step = step /\ req'[q].user = req[q].user
           /\ req'[q].mode = req[q].mode /\ req'[q].conv = req[q].conv
           /\ req'[q].history = req[q].history /\ req'[q].tokens = req[q].tokens
           /\ req'[q].paid = req[q].paid /\ req'[q].broke = req[q].broke
           /\ req'[q].left = req[q].left
           /\ req'[q].reply = req[q].reply
<1> DEFINE new == [req[q] EXCEPT !.step = step]
<1>1. req[q] \in RequestState
  BY DEF TypeOK
<1>2. /\ new \in RequestState
      /\ new.step = step /\ new.user = req[q].user /\ new.mode = req[q].mode
      /\ new.conv = req[q].conv /\ new.history = req[q].history
      /\ new.tokens = req[q].tokens /\ new.paid = req[q].paid
      /\ new.left = req[q].left
      /\ new.broke = req[q].broke /\ new.reply = req[q].reply
  BY <1>1 DEF RequestState
<1>3. req' = [req EXCEPT ![q] = new]
  BY DEF Goto
<1> HIDE DEF new
<1>4. /\ req' \in [Requests -> RequestState] /\ req'[q] = new
      /\ \A p \in Requests : p # q => req'[p] = req[p]
  BY <1>2, <1>3 DEF TypeOK
<1> QED BY <1>2, <1>4

\* What replying does to the local states.
LEMMA ReplyValue ==
    ASSUME TypeOK, NEW q \in Requests, NEW status \in Replies, Reply(q, status)
    PROVE  /\ req' \in [Requests -> RequestState]
           /\ \A p \in Requests : p # q => req'[p] = req[p]
           /\ req'[q].step = "done" /\ req'[q].user = req[q].user
           /\ req'[q].mode = req[q].mode /\ req'[q].conv = req[q].conv
           /\ req'[q].history = req[q].history /\ req'[q].tokens = req[q].tokens
           /\ req'[q].paid = req[q].paid /\ req'[q].broke = req[q].broke
           /\ req'[q].left = req[q].left
           /\ req'[q].reply = status
<1> DEFINE new == [req[q] EXCEPT !.step = "done", !.reply = status]
<1>1. req[q] \in RequestState /\ "done" \in Steps
  BY DEF TypeOK, Steps
<1>2. /\ new \in RequestState
      /\ new.step = "done" /\ new.user = req[q].user /\ new.mode = req[q].mode
      /\ new.conv = req[q].conv /\ new.history = req[q].history
      /\ new.tokens = req[q].tokens /\ new.paid = req[q].paid
      /\ new.left = req[q].left
      /\ new.broke = req[q].broke /\ new.reply = status
  BY <1>1 DEF RequestState
<1>3. req' = [req EXCEPT ![q] = new]
  BY DEF Reply
<1> HIDE DEF new
<1>4. /\ req' \in [Requests -> RequestState] /\ req'[q] = new
      /\ \A p \in Requests : p # q => req'[p] = req[p]
  BY <1>2, <1>3 DEF TypeOK
<1> QED BY <1>2, <1>4

\* What an answer of the language model does to the local states.
LEMMA AnsweredValue ==
    ASSUME TypeOK, NEW q \in Requests, NEW n \in Nat, Answered(q, n)
    PROVE  /\ req' \in [Requests -> RequestState]
           /\ \A p \in Requests : p # q => req'[p] = req[p]
           /\ req'[q].step = "charge" /\ req'[q].user = req[q].user
           /\ req'[q].mode = req[q].mode /\ req'[q].conv = req[q].conv
           /\ req'[q].history = req[q].history /\ req'[q].tokens = n
           /\ req'[q].paid = req[q].paid /\ req'[q].broke = req[q].broke
           /\ req'[q].left = req[q].left
           /\ req'[q].reply = req[q].reply
<1> DEFINE new == [req[q] EXCEPT !.step = "charge", !.tokens = n]
<1>1. req[q] \in RequestState /\ "charge" \in Steps
  BY DEF TypeOK, Steps
<1>2. /\ new \in RequestState
      /\ new.step = "charge" /\ new.user = req[q].user /\ new.mode = req[q].mode
      /\ new.conv = req[q].conv /\ new.history = req[q].history
      /\ new.tokens = n /\ new.paid = req[q].paid
      /\ new.left = req[q].left
      /\ new.broke = req[q].broke /\ new.reply = req[q].reply
  BY <1>1 DEF RequestState
<1>3. req' = [req EXCEPT ![q] = new]
  BY DEF Answered
<1> HIDE DEF new
<1>4. /\ req' \in [Requests -> RequestState] /\ req'[q] = new
      /\ \A p \in Requests : p # q => req'[p] = req[p]
  BY <1>2, <1>3 DEF TypeOK
<1> QED BY <1>2, <1>4

\* What the update of the balance does to the local states.
LEMMA ChargeValue ==
    ASSUME TypeOK, NEW q \in Requests, Charge(q)
    PROVE  /\ req' \in [Requests -> RequestState]
           /\ \A p \in Requests : p # q => req'[p] = req[p]
           /\ req'[q].step = "user_message" /\ req'[q].user = req[q].user
           /\ req'[q].mode = req[q].mode /\ req'[q].conv = req[q].conv
           /\ req'[q].history = req[q].history /\ req'[q].tokens = req[q].tokens
           /\ req'[q].left = Floored(balance[req[q].user], req[q].tokens)
           /\ req'[q].paid = TRUE /\ req'[q].broke = req[q].broke
           /\ req'[q].reply = req[q].reply
<1> DEFINE rest == Floored(balance[req[q].user], req[q].tokens)
           new == [req[q] EXCEPT !.step = "user_message", !.left = rest, !.paid = TRUE]
<1>1. req[q] \in RequestState /\ "user_message" \in Steps /\ req[q].user \in Users
  BY DEF TypeOK, Steps, Active, Charge, At
<1>0. rest \in Nat
  <2>1. balance[req[q].user] \in Nat /\ req[q].tokens \in Nat
    BY <1>1 DEF TypeOK, RequestState
  <2> QED BY <2>1 DEF Floored
<1> HIDE DEF rest
<1>2. /\ new \in RequestState
      /\ new.step = "user_message" /\ new.user = req[q].user /\ new.mode = req[q].mode
      /\ new.conv = req[q].conv /\ new.history = req[q].history
      /\ new.tokens = req[q].tokens /\ new.left = rest /\ new.paid = TRUE
      /\ new.broke = req[q].broke /\ new.reply = req[q].reply
  BY <1>0, <1>1 DEF RequestState
<1>3. req' = [req EXCEPT ![q] = new]
  BY DEF Charge, Write, rest
<1> HIDE DEF new
<1>4. /\ req' \in [Requests -> RequestState] /\ req'[q] = new
      /\ \A p \in Requests : p # q => req'[p] = req[p]
  BY <1>2, <1>3 DEF TypeOK
<1> QED BY <1>2, <1>4 DEF rest

\* What reading the history does to the local states.
LEMMA ReadHistoryValue ==
    ASSUME TypeOK, NEW q \in Requests, ReadHistory(q)
    PROVE  /\ req' \in [Requests -> RequestState]
           /\ \A p \in Requests : p # q => req'[p] = req[p]
           /\ req'[q].step = "retrieve" /\ req'[q].user = req[q].user
           /\ req'[q].mode = req[q].mode /\ req'[q].conv = req[q].conv
           /\ req'[q].tokens = req[q].tokens
           /\ req'[q].paid = req[q].paid /\ req'[q].broke = req[q].broke
           /\ req'[q].left = req[q].left
           /\ req'[q].reply = req[q].reply
           /\ req[q].conv \in Convs
           /\ \A m \in req'[q].history : \E i \in Visible(req[q].conv) : m = log[req[q].conv][i]
<1> DEFINE c == req[q].conv
           prompt == {log[c][i] : i \in LastN(Visible(c), HistoryTurns)}
           new == [req[q] EXCEPT !.step = "retrieve", !.history = prompt]
<1>1. req[q] \in RequestState /\ "retrieve" \in Steps /\ c \in Convs
  BY DEF TypeOK, Steps, Active, ReadHistory, At
<1>2. prompt \in SUBSET Message /\ \A m \in prompt : \E i \in Visible(c) : m = log[c][i]
  <2>1. LastN(Visible(c), HistoryTurns) \subseteq Visible(c)
    BY DEF LastN
  <2>2. log[c] \in Seq(Message) /\ Visible(c) \subseteq DOMAIN log[c]
    BY <1>1 DEF TypeOK, Visible
  <2> QED BY <2>1, <2>2
<1>3. req' = [req EXCEPT ![q] = new]
  BY DEF ReadHistory
<1> HIDE DEF prompt
<1>4. /\ new \in RequestState
      /\ new.step = "retrieve" /\ new.user = req[q].user /\ new.mode = req[q].mode
      /\ new.conv = req[q].conv /\ new.history = prompt
      /\ new.tokens = req[q].tokens /\ new.paid = req[q].paid
      /\ new.left = req[q].left
      /\ new.broke = req[q].broke /\ new.reply = req[q].reply
  BY <1>1, <1>2 DEF RequestState
<1> HIDE DEF new
<1>5. /\ req' \in [Requests -> RequestState] /\ req'[q] = new
      /\ \A p \in Requests : p # q => req'[p] = req[p]
  BY <1>3, <1>4 DEF TypeOK
<1> QED BY <1>1, <1>2, <1>4, <1>5

\* What arrives: a request with a conversation of its user, or the answer that
\* there is no such conversation.
LEMMA ReceiveValue ==
    ASSUME TypeOK, NEW q \in Requests, NEW u \in Users, NEW mode \in Modes,
           NEW id \in Convs \cup {NoConv}, Receive(q, u, mode, id)
    PROVE  /\ req' \in [Requests -> RequestState]
           /\ \A p \in Requests : p # q => req'[p] = req[p]
           /\ req[q].step = "idle" /\ req'[q].user = u
           /\ req'[q].history = {} /\ req'[q].tokens = 0 /\ req'[q].paid = FALSE
           /\ req'[q].broke = (u \in accounts /\ balance[u] = 0)
           /\ \/ /\ req'[q].step = "history" /\ req'[q].reply = "none"
                 /\ req'[q].conv \in Convs
                 /\ \/ /\ owner[req'[q].conv] = NoUser
                       /\ owner' = [owner EXCEPT ![req'[q].conv] = u]
                    \/ owner[req'[q].conv] = u /\ owner' = owner
              \/ /\ req'[q].step = "done" /\ req'[q].reply = "404"
                 /\ req'[q].conv = NoConv /\ owner' = owner
<1> DEFINE broke == u \in accounts /\ balance[u] = 0
           enter(c) == [IdleRequest EXCEPT !.step = "history", !.user = u,
                           !.mode = mode, !.conv = c, !.broke = broke]
           refused == [enter(NoConv) EXCEPT !.step = "done", !.reply = "404"]
<1>1. ASSUME NEW c \in Convs
      PROVE  /\ enter(c) \in RequestState
             /\ enter(c).step = "history" /\ enter(c).user = u /\ enter(c).conv = c
             /\ enter(c).history = {} /\ enter(c).tokens = 0 /\ enter(c).paid = FALSE
             /\ enter(c).broke = broke /\ enter(c).reply = "none"
  BY <1>1 DEF IdleRequest, RequestState, Steps, Replies
<1>2. /\ refused \in RequestState
      /\ refused.step = "done" /\ refused.user = u /\ refused.conv = NoConv
      /\ refused.history = {} /\ refused.tokens = 0 /\ refused.paid = FALSE
      /\ refused.broke = broke /\ refused.reply = "404"
  BY DEF IdleRequest, RequestState, Steps, Replies
<1>3. /\ req[q].step = "idle"
      /\ \/ \E c \in Convs : /\ owner[c] = NoUser
                             /\ owner' = [owner EXCEPT ![c] = u]
                             /\ req' = [req EXCEPT ![q] = enter(c)]
         \/ /\ id \in Convs /\ owner[id] = u /\ owner' = owner
            /\ req' = [req EXCEPT ![q] = enter(id)]
         \/ owner' = owner /\ req' = [req EXCEPT ![q] = refused]
  BY Zenon DEF Receive, At
<1> HIDE DEF enter, refused
<1>4. CASE \E c \in Convs : /\ owner[c] = NoUser
                            /\ owner' = [owner EXCEPT ![c] = u]
                            /\ req' = [req EXCEPT ![q] = enter(c)]
  <2>1. PICK c \in Convs : /\ owner[c] = NoUser
                           /\ owner' = [owner EXCEPT ![c] = u]
                           /\ req' = [req EXCEPT ![q] = enter(c)]
    BY <1>4
  <2>2. /\ req' \in [Requests -> RequestState] /\ req'[q] = enter(c)
        /\ \A p \in Requests : p # q => req'[p] = req[p]
    BY <2>1, <1>1 DEF TypeOK
  <2> QED BY <2>1, <2>2, <1>1, <1>3
<1>5. CASE /\ id \in Convs /\ owner[id] = u /\ owner' = owner
           /\ req' = [req EXCEPT ![q] = enter(id)]
  <2>1. /\ req' \in [Requests -> RequestState] /\ req'[q] = enter(id)
        /\ \A p \in Requests : p # q => req'[p] = req[p]
    BY <1>5, <1>1 DEF TypeOK
  <2> QED BY <2>1, <1>5, <1>1, <1>3
<1>6. CASE owner' = owner /\ req' = [req EXCEPT ![q] = refused]
  <2>1. /\ req' \in [Requests -> RequestState] /\ req'[q] = refused
        /\ \A p \in Requests : p # q => req'[p] = req[p]
    BY <1>6, <1>2 DEF TypeOK
  <2> QED BY <2>1, <1>6, <1>2, <1>3
<1> QED BY <1>3, <1>4, <1>5, <1>6

\* What every later step of a request leaves alone.
LEMMA RequestFrame ==
    ASSUME TypeOK, NEW q \in Requests, RequestNext(q) \/ Abort(q)
    PROVE  /\ req' \in [Requests -> RequestState]
           /\ \A p \in Requests : p # q => req'[p] = req[p]
           /\ req[q].step \notin {"idle", "done"} /\ req'[q].step # "idle"
           /\ req'[q].user = req[q].user /\ req'[q].conv = req[q].conv
           /\ req'[q].mode = req[q].mode /\ req'[q].broke = req[q].broke
           /\ Charge(q) \/ (req'[q].paid = req[q].paid /\ req'[q].left = req[q].left)
           /\ ReadHistory(q) \/ req'[q].history = req[q].history
           /\ req[q].step \in {"complete", "stream"} \/ req'[q].tokens = req[q].tokens
           /\ owner' = owner /\ indexed' = indexed
<1>1. /\ TokenCounts \subseteq Nat /\ 0 \in Nat
      /\ {"200", "402", "502", "broken", "lost"} \subseteq Replies
      /\ {"credit", "open", "complete", "stream", "user_message", "assistant_message",
          "commit", "respond"} \subseteq Steps
  BY TokensAssumption DEF Replies, Steps
<1>2. CASE ReadHistory(q)
  BY <1>2, ReadHistoryValue DEF ReadHistory, At
<1>3. CASE Retrieve(q)
  BY <1>1, <1>3, GotoValue, ReplyValue DEF Retrieve, At
<1>4. CASE CheckCredits(q)
  BY <1>1, <1>4, GotoValue, ReplyValue
     DEF CheckCredits, LookUpAccount, OpenAccount, CheckBalance, CallModel, At
<1>5. CASE Complete(q)
  BY <1>1, <1>5, AnsweredValue, ReplyValue DEF Complete, At
<1>6. CASE Stream(q)
  BY <1>1, <1>6, AnsweredValue, ReplyValue DEF Stream, At
<1>7. CASE Charge(q)
  BY <1>7, ChargeValue DEF Charge, At
<1>8. CASE AddUserMessage(q)
  BY <1>1, <1>8, GotoValue DEF AddUserMessage, At
<1>9. CASE AddAssistantMessage(q)
  BY <1>1, <1>9, GotoValue DEF AddAssistantMessage, At
<1>10. CASE Commit(q)
  BY <1>1, <1>10, GotoValue DEF Commit, At
<1>11. CASE Respond(q)
  BY <1>1, <1>11, ReplyValue DEF Respond, At
<1>12. CASE Abort(q)
  BY <1>1, <1>12, ReplyValue DEF Abort, Active
<1> QED BY <1>2, <1>3, <1>4, <1>5, <1>6, <1>7, <1>8, <1>9, <1>10, <1>11, <1>12
        DEF RequestNext

\* Which steps write what is shared.
LEMMA SharedFrame ==
    ASSUME NEW q \in Requests, RequestNext(q) \/ Abort(q)
    PROVE  /\ OpenAccount(q) \/ Commit(q) \/ UNCHANGED money
           /\ AddUserMessage(q) \/ AddAssistantMessage(q) \/ UNCHANGED log
           /\ Commit(q) \/ UNCHANGED committed
           /\ Charge(q) \/ Commit(q) \/ Abort(q) \/ UNCHANGED lock
<1>1. CASE ReadHistory(q)
  BY <1>1 DEF ReadHistory
<1>2. CASE Retrieve(q) \/ Complete(q) \/ Stream(q) \/ Respond(q)
  BY <1>2 DEF Retrieve, Complete, Stream, Respond
<1>3. CASE CheckCredits(q) \/ AddUserMessage(q) \/ AddAssistantMessage(q)
  BY <1>3 DEF CheckCredits, LookUpAccount, OpenAccount, AddUserMessage,
              AddAssistantMessage
<1>4. CASE Charge(q)
  BY <1>4 DEF Charge
<1>5. CASE Commit(q)
  BY <1>5 DEF Commit
<1>6. CASE Abort(q)
  BY <1>6 DEF Abort
<1> QED BY <1>1, <1>2, <1>3, <1>4, <1>5, <1>6 DEF RequestNext

\* The whole type invariant.
THEOREM TypeCorrect == Spec => []TypeOK
<1>1. Init => TypeOK
  BY DEF Init, TypeOK, Active, IdleRequest, RequestState, Steps, Modes, Replies
<1>2. TypeOK /\ [Next]_vars => TypeOK'
  <2> SUFFICES ASSUME TypeOK, [Next]_vars PROVE TypeOK' OBVIOUS
  <2>1. CASE UNCHANGED vars
    BY <2>1 DEF TypeOK, Active, vars, money
  <2>2. ASSUME NEW u \in Users, Index(u) PROVE TypeOK'
    BY <2>2 DEF TypeOK, Active, Index, money
  <2>3. ASSUME NEW q \in Requests, NEW u \in Users, NEW mode \in Modes,
               NEW c \in Convs \cup {NoConv}, Receive(q, u, mode, c)
        PROVE  TypeOK'
    <3>1. UNCHANGED <<indexed, log, committed, money, lock>>
      BY <2>3 DEF Receive
    <3>2. owner' \in [Convs -> Users \cup {NoUser}]
      <4>1. CASE owner' = owner
        BY <4>1 DEF TypeOK
      <4>2. CASE owner' = [owner EXCEPT ![req'[q].conv] = u]
        BY <4>2 DEF TypeOK
      <4> QED BY <2>3, <4>1, <4>2, ReceiveValue
    <3>3. /\ req' \in [Requests -> RequestState]
          /\ \A p \in Requests : p # q => req'[p] = req[p]
          /\ req'[q].user \in Users
          /\ req'[q].step = "done" \/ req'[q].conv \in Convs
      BY <2>3, ReceiveValue
    <3> QED BY <3>1, <3>2, <3>3 DEF TypeOK, Active, money
  <2>4. ASSUME NEW q \in Requests, RequestNext(q) \/ Abort(q) PROVE TypeOK'
    <3>1. /\ req' \in [Requests -> RequestState] /\ owner' = owner /\ indexed' = indexed
          /\ \A p \in Requests : p # q => req'[p] = req[p]
          /\ req[q].user \in Users /\ req[q].conv \in Convs
          /\ req'[q].user = req[q].user /\ req'[q].conv = req[q].conv
      BY <2>4, RequestFrame DEF TypeOK, Active
    <3>2. /\ \A p \in Active' : req'[p].user \in Users /\ req'[p].conv \in Convs
      BY <3>1 DEF TypeOK, Active
    <3>3. log' \in [Convs -> Seq(Message)]
      <4>1. ASSUME NEW role \in Roles, AddMessage(q, role)
            PROVE  log' \in [Convs -> Seq(Message)]
        <5>1. [request |-> q, role |-> role] \in Message
          BY DEF Message
        <5> QED BY <3>1, <4>1, <5>1 DEF AddMessage, TypeOK
      <4>2. "user" \in Roles /\ "assistant" \in Roles
        BY DEF Roles
      <4>3. CASE AddUserMessage(q) \/ AddAssistantMessage(q)
        BY <4>1, <4>2, <4>3 DEF AddUserMessage, AddAssistantMessage
      <4> QED BY <2>4, <4>3, SharedFrame DEF TypeOK
    <3>4. committed' \subseteq Requests
      BY <2>4, SharedFrame DEF Commit, TypeOK
    <3>5. lock' \in [Users -> Requests \cup {NoRequest}]
      <4>1. CASE Charge(q)
        BY <4>1 DEF Charge, TypeOK
      <4>2. CASE Commit(q)
        BY <4>2 DEF Commit, TypeOK
      <4>3. CASE Abort(q)
        BY <4>3 DEF Abort, TypeOK
      <4> QED BY <2>4, <4>1, <4>2, <4>3, SharedFrame DEF TypeOK
    <3>6. accounts' \subseteq Users /\ balance' \in [Users -> Nat] /\ spent' \in [Users -> Nat]
      <4>1. CASE OpenAccount(q)
        BY <3>1, <4>1, CreditsAssumption DEF OpenAccount, TypeOK
      <4>2. CASE Commit(q)
        <5>1. req[q].tokens \in Nat /\ req[q].left \in Nat
          BY DEF TypeOK, RequestState
        <5>2. accounts' = accounts
          BY <4>2 DEF Commit
        <5>3. CASE UNCHANGED <<balance, spent>>
          BY <5>2, <5>3 DEF TypeOK
        <5>4. CASE \E u \in Users :
                      /\ balance' = [balance EXCEPT ![u] = req[q].left]
                      /\ spent' = [spent EXCEPT ![u] = @ + req[q].tokens]
          BY <5>1, <5>2, <5>4 DEF TypeOK
        <5> QED BY <3>1, <4>2, <5>3, <5>4 DEF Commit
      <4> QED BY <2>4, <4>1, <4>2, SharedFrame DEF TypeOK, money
    <3> QED BY <3>1, <3>2, <3>3, <3>4, <3>5, <3>6 DEF TypeOK
  <2> QED BY <2>1, <2>2, <2>3, <2>4 DEF Next
<1> QED BY <1>1, <1>2, PTL DEF Spec

-----------------------------------------------------------------------------
(* Where a step of a request comes from.                                   *)

\* Every step but the ends has one way in.
LEMMA ControlFlow ==
    ASSUME TypeOK, NEW q \in Requests, RequestNext(q) \/ Abort(q)
    PROVE  /\ req'[q].step \notin {"idle", "history"}
           /\ req'[q].step = "retrieve" => ReadHistory(q)
           /\ req'[q].step = "credit" => req[q].step = "retrieve"
           /\ req'[q].step = "open" => req[q].step = "credit"
           /\ req'[q].step \in {"complete", "stream"} => CheckCredits(q)
           /\ req'[q].step = "charge" => req[q].step \in {"complete", "stream"}
           /\ req'[q].step = "user_message" => Charge(q) \/ req[q].step = "retrieve"
           /\ req'[q].step = "assistant_message" => AddUserMessage(q)
           /\ req'[q].step = "commit" => AddAssistantMessage(q)
           /\ req'[q].step = "respond" => Commit(q)
<1>1. /\ TokenCounts \subseteq Nat /\ 0 \in Nat
      /\ {"200", "402", "502", "broken", "lost"} \subseteq Replies
      /\ {"credit", "open", "complete", "stream", "user_message", "assistant_message",
          "commit", "respond"} \subseteq Steps
  BY TokensAssumption DEF Replies, Steps
<1>2. CASE ReadHistory(q)
  BY <1>2, ReadHistoryValue
<1>3. CASE Retrieve(q)
  BY <1>1, <1>3, GotoValue, ReplyValue DEF Retrieve, At
<1>4. CASE CheckCredits(q)
  BY <1>1, <1>4, GotoValue, ReplyValue
     DEF CheckCredits, LookUpAccount, OpenAccount, CheckBalance, CallModel, At
<1>5. CASE Complete(q)
  BY <1>1, <1>5, AnsweredValue, ReplyValue DEF Complete, At
<1>6. CASE Stream(q)
  BY <1>1, <1>6, AnsweredValue, ReplyValue DEF Stream, At
<1>7. CASE Charge(q)
  BY <1>7, ChargeValue
<1>8. CASE AddUserMessage(q)
  BY <1>1, <1>8, GotoValue DEF AddUserMessage, At
<1>9. CASE AddAssistantMessage(q)
  BY <1>1, <1>9, GotoValue DEF AddAssistantMessage, At
<1>10. CASE Commit(q)
  BY <1>1, <1>10, GotoValue DEF Commit, At
<1>11. CASE Respond(q)
  BY <1>1, <1>11, ReplyValue DEF Respond, At
<1>12. CASE Abort(q)
  BY <1>1, <1>12, ReplyValue DEF Abort, Active
<1> QED BY <1>2, <1>3, <1>4, <1>5, <1>6, <1>7, <1>8, <1>9, <1>10, <1>11, <1>12
        DEF RequestNext

\* A step is taken by a request, or arrives, or concerns none.
LEMMA NextCases ==
    ASSUME TypeOK, [Next]_vars
    PROVE  \/ UNCHANGED <<owner, log, committed, accounts, balance, spent, lock, req>>
           \/ /\ \E q \in Requests, u \in Users, mode \in Modes,
                    c \in Convs \cup {NoConv} : Receive(q, u, mode, c)
              /\ UNCHANGED <<log, committed, accounts, balance, spent, lock>>
           \/ \E q \in Requests : RequestNext(q) \/ Abort(q)
<1>1. CASE UNCHANGED vars
  BY <1>1 DEF vars
<1>2. CASE \E u \in Users : Index(u)
  BY <1>2 DEF Index, money
<1>3. ASSUME NEW q \in Requests, NEW u \in Users, NEW mode \in Modes,
             NEW c \in Convs \cup {NoConv}, Receive(q, u, mode, c)
      PROVE  UNCHANGED <<log, committed, accounts, balance, spent, lock>>
  BY <1>3 DEF Receive, money
<1> QED BY <1>1, <1>2, <1>3 DEF Next

-----------------------------------------------------------------------------
(* The row lock.                                                           *)

\* The steps of the transaction after the row is locked.
Locked == {"user_message", "assistant_message", "commit"}

\* The inductive invariant: a row is locked exactly while a transaction that
\* charges is open; a request is marked as paid by the charge only.
LockInv ==
    /\ LockIsHeldInTransaction
    /\ \A q \in Requests :
          /\ req[q].paid /\ req[q].step \in Locked => lock[req[q].user] = q
          /\ req[q].paid => req[q].user \in Users /\ req[q].conv \in Convs
          /\ req[q].step \in {"idle", "history", "retrieve", "credit", "open", "complete",
                              "stream", "charge"} => ~req[q].paid

\* In the transaction one step follows another, unless it is cut short.
LEMMA TransactionFlow ==
    ASSUME TypeOK, NEW q \in Requests, RequestNext(q), req[q].step \in Locked
    PROVE  \/ AddUserMessage(q) /\ req'[q].step = "assistant_message"
           \/ AddAssistantMessage(q) /\ req'[q].step = "commit"
           \/ Commit(q) /\ req'[q].step = "respond"
<1>1. AddUserMessage(q) \/ AddAssistantMessage(q) \/ Commit(q)
  BY DEF Locked, RequestNext, ReadHistory, Retrieve, CheckCredits, LookUpAccount,
         OpenAccount, Complete, Stream, Charge, Respond, At
<1>2. {"assistant_message", "commit", "respond"} \subseteq Steps
  BY DEF Steps
<1> QED BY <1>1, <1>2, GotoValue DEF AddUserMessage, AddAssistantMessage, Commit

\* What the steps that touch a lock do to the locks.
LEMMA LockValue ==
    ASSUME TypeOK, LockInv, NEW q \in Requests, RequestNext(q) \/ Abort(q)
    PROVE  /\ \A u \in Users : u # req[q].user => lock'[u] = lock[u]
           /\ Charge(q) => /\ lock[req[q].user] = NoRequest
                           /\ lock'[req[q].user] = q
           /\ Abort(q) \/ Commit(q) => lock'[req[q].user] # q
           /\ lock[req[q].user] \in Requests \ {q} =>
                 lock'[req[q].user] = lock[req[q].user]
           /\ lock'[req[q].user] \in Requests \ {q} =>
                 lock'[req[q].user] = lock[req[q].user]
           /\ Charge(q) \/ Commit(q) \/ Abort(q) \/ lock' = lock
<1>1. req[q].user \in Users
  BY RequestFrame DEF TypeOK, Active
<1>2. CASE Charge(q)
  <2>1. ~Abort(q) /\ ~Commit(q)
    <3>1. req'[q].step = "user_message"
      BY <1>2, ChargeValue
    <3>2. Abort(q) => req'[q].step = "done"
      BY ReplyValue DEF Abort, Replies
    <3>3. Commit(q) => req'[q].step = "respond"
      BY GotoValue DEF Commit, Steps
    <3> QED BY <3>1, <3>2, <3>3
  <2> QED BY <1>1, <1>2, <2>1, NoneAssumption DEF Charge, TypeOK
<1>3. CASE Commit(q)
  <2>1. CASE req[q].paid
    <3>1. lock[req[q].user] = q
      BY <1>3, <2>1 DEF LockInv, Locked, Commit, At
    <3>2. lock' = [lock EXCEPT ![req[q].user] = NoRequest] /\ ~Charge(q)
      BY <1>3, <2>1 DEF Commit, Charge, At
    <3> QED BY <1>1, <1>3, <3>1, <3>2, NoneAssumption DEF TypeOK
  <2>2. CASE ~req[q].paid
    <3>1. lock' = lock /\ ~Charge(q)
      BY <1>3, <2>2 DEF Commit, Charge, At
    <3>2. lock[req[q].user] # q
      BY <1>1, <2>2, NoneAssumption DEF LockInv, LockIsHeldInTransaction
    <3> QED BY <3>1, <3>2
  <2> QED BY <2>1, <2>2
<1>4. CASE Abort(q)
  <2>1. ~Charge(q)
    <3>1. Charge(q) => req'[q].step = "user_message"
      BY ChargeValue
    <3>2. req'[q].step = "done"
      BY <1>4, ReplyValue DEF Abort, Replies
    <3> QED BY <3>1, <3>2
  <2>2. lock' = IF lock[req[q].user] = q
                THEN [lock EXCEPT ![req[q].user] = NoRequest] ELSE lock
    BY <1>4 DEF Abort
  <2> QED BY <1>1, <1>4, <2>1, <2>2, NoneAssumption DEF TypeOK
<1>5. CASE ~Charge(q) /\ ~Commit(q) /\ ~Abort(q)
  BY <1>5, SharedFrame
<1> QED BY <1>2, <1>3, <1>4, <1>5

\* No step breaks the invariant.
LEMMA LockStep ==
    ASSUME TypeOK, LockInv, [Next]_vars
    PROVE  LockInv'
<1>1. CASE UNCHANGED <<lock, req>>
  BY <1>1 DEF LockInv, LockIsHeldInTransaction
<1>2. ASSUME NEW q \in Requests, NEW u \in Users, NEW mode \in Modes,
             NEW c \in Convs \cup {NoConv}, Receive(q, u, mode, c),
             UNCHANGED lock
      PROVE  LockInv'
  <2>1. /\ \A p \in Requests : p # q => req'[p] = req[p]
        /\ ~req'[q].paid
        /\ req[q].step = "idle"
    BY <1>2, ReceiveValue
  <2>2. \A v \in Users : lock[v] # q
    BY <2>1, NoneAssumption DEF LockInv, LockIsHeldInTransaction
  <2>3. \A v \in Users : lock[v] \in Requests \cup {NoRequest}
    BY DEF TypeOK
  <2>4. LockIsHeldInTransaction'
    BY <1>2, <2>1, <2>2, <2>3 DEF LockInv, LockIsHeldInTransaction
  <2> QED BY <1>2, <2>1, <2>4 DEF LockInv
<1>3. ASSUME NEW q \in Requests, RequestNext(q) \/ Abort(q) PROVE LockInv'
  <2>1. /\ \A p \in Requests : p # q => req'[p] = req[p]
        /\ req'[q].user = req[q].user /\ req'[q].conv = req[q].conv
        /\ Charge(q) \/ req'[q].paid = req[q].paid
        /\ req[q].user \in Users /\ req[q].conv \in Convs
    BY <1>3, RequestFrame DEF TypeOK, Active
  <2>2. Charge(q) => req'[q].step = "user_message" /\ req'[q].paid /\ req[q].step = "charge"
    BY ChargeValue DEF Charge, At
  <2>3. \A v \in Users : lock[v] \in Requests \cup {NoRequest}
    BY DEF TypeOK
  <2>4. LockIsHeldInTransaction'
    <3> SUFFICES ASSUME NEW v \in Users, lock'[v] # NoRequest
                 PROVE  /\ req'[lock'[v]].user = v /\ req'[lock'[v]].paid
                        /\ req'[lock'[v]].step \in Locked
      BY DEF LockIsHeldInTransaction, Locked
    <3>1. CASE lock'[v] # q
      <4>1. lock'[v] = lock[v] /\ lock[v] \in Requests
        <5>1. CASE v # req[q].user
          BY <1>3, <2>3, <3>1, <5>1, LockValue
        <5>2. CASE v = req[q].user
          <6>1. CASE Charge(q)
            BY <1>3, <3>1, <5>2, <6>1, LockValue
          <6>2. CASE ~Charge(q)
            <7>1. lock'[v] = lock[v] \/ lock'[v] = NoRequest
              BY <1>3, <5>2, <6>2, <2>1, SharedFrame DEF Commit, Abort, TypeOK
            <7> QED BY <2>3, <7>1
          <6> QED BY <6>1, <6>2
        <5> QED BY <5>1, <5>2
      <4> QED BY <2>1, <3>1, <4>1 DEF LockInv, LockIsHeldInTransaction, Locked
    <3>2. CASE lock'[v] = q
      <4>1. CASE Charge(q)
        <5>1. v = req[q].user
          <6>1. lock[v] = q => req[q].step \in Locked
            BY <3>2, NoneAssumption DEF LockInv, LockIsHeldInTransaction, Locked
          <6>2. lock[v] # q
            BY <2>2, <4>1, <6>1 DEF Locked
          <6> QED BY <1>3, <3>2, <6>2, LockValue
        <5> QED BY <2>1, <2>2, <3>2, <4>1, <5>1 DEF Locked
      <4>2. CASE ~Charge(q)
        <5>1. lock[v] = q
          <6>1. CASE v # req[q].user
            BY <1>3, <3>2, <6>1, LockValue
          <6>2. CASE v = req[q].user
            <7>1. lock'[v] = lock[v] \/ lock'[v] = NoRequest
              BY <1>3, <4>2, <6>2, <2>1, SharedFrame DEF Commit, Abort, TypeOK
            <7> QED BY <3>2, <7>1, NoneAssumption
          <6> QED BY <6>1, <6>2
        <5>2. req[q].user = v /\ req[q].paid /\ req[q].step \in Locked
          BY <5>1, NoneAssumption DEF LockInv, LockIsHeldInTransaction, Locked
        <5>3. ~Abort(q) /\ ~Commit(q)
          BY <1>3, <3>2, <5>2, LockValue
        <5>4. req'[q].step \in Locked
          BY <1>3, <5>2, <5>3, TransactionFlow DEF Locked
        <5> QED BY <2>1, <3>2, <4>2, <5>2, <5>4
      <4> QED BY <4>1, <4>2
    <3> QED BY <3>1, <3>2
  <2>5. ASSUME NEW p \in Requests, req'[p].paid, req'[p].step \in Locked
        PROVE  lock'[req'[p].user] = p
    <3>1. CASE p # q
      <4>1. req[p].paid /\ req[p].user \in Users /\ lock[req[p].user] = p
        BY <2>1, <2>5, <3>1 DEF LockInv
      <4> QED BY <1>3, <2>1, <3>1, <4>1, LockValue
    <3>2. CASE p = q
      <4>1. CASE Charge(q)
        BY <1>3, <2>1, <3>2, <4>1, LockValue
      <4>2. CASE ~Charge(q)
        <5>1. req[q].paid /\ req[q].step \in Locked
          <6>1. req[q].paid
            BY <2>1, <2>5, <3>2, <4>2
          <6>2. \/ req[q].step = "retrieve" \/ AddUserMessage(q) \/ AddAssistantMessage(q)
            BY <1>3, <2>5, <3>2, <4>2, ControlFlow DEF Locked
          <6> QED BY <6>1, <6>2 DEF LockInv, Locked, AddUserMessage, AddAssistantMessage, At
        <5>2. ~Abort(q) /\ ~Commit(q)
          <6>1. Abort(q) => req'[q].step = "done"
            BY ReplyValue DEF Abort, Replies
          <6>2. Commit(q) => req'[q].step = "respond"
            BY GotoValue DEF Commit, Steps
          <6> QED BY <2>5, <3>2, <6>1, <6>2 DEF Locked
        <5> QED BY <1>3, <2>1, <3>2, <4>2, <5>1, <5>2, LockValue DEF LockInv
      <4> QED BY <4>1, <4>2
    <3> QED BY <3>1, <3>2
  <2>6. ASSUME NEW p \in Requests
        PROVE  /\ req'[p].paid => req'[p].user \in Users /\ req'[p].conv \in Convs
               /\ req'[p].step \in {"idle", "history", "retrieve", "credit", "open", "complete",
                                    "stream", "charge"} => ~req'[p].paid
    <3>1. CASE p # q
      BY <2>1, <3>1 DEF LockInv
    <3>2. CASE p = q
      <4>1. req'[q].step \in {"retrieve", "credit", "open", "complete", "stream", "charge"}
               => ~req[q].paid
        BY <1>3, ControlFlow DEF LockInv, ReadHistory, CheckCredits, LookUpAccount,
                                 OpenAccount, At
      <4> QED BY <1>3, <2>1, <2>2, <3>2, <4>1, ControlFlow
    <3> QED BY <3>1, <3>2
  <2> QED BY <2>4, <2>5, <2>6 DEF LockInv
<1> QED BY <1>1, <1>2, <1>3, NextCases

\* No row stays locked behind a request that is over, whatever ended it.
THEOREM LocksAreReleased == Spec => []LockIsHeldInTransaction
<1>1. Init => LockInv
  BY DEF Init, LockInv, LockIsHeldInTransaction, IdleRequest, Locked
<1>2. LockInv => LockIsHeldInTransaction
  BY DEF LockInv
<1> QED BY <1>1, <1>2, LockStep, TypeCorrect, PTL DEF Spec

-----------------------------------------------------------------------------
(* Credits.                                                                *)

\* Charges add up, although the balance stops at zero.
LEMMA FlooredTwice ==
    ASSUME NEW b \in Nat, NEW m \in Nat, NEW n \in Nat
    PROVE  /\ Floored(Floored(b, m), n) = Floored(b, m + n)
           /\ Floored(b, m) \in Nat /\ Floored(b, m) <= b
           /\ Floored(b, 0) = b /\ Floored(0, n) = 0
BY DEF Floored

\* What the commit of a charge does to the accounts.
LEMMA CommitValue ==
    ASSUME TypeOK, NEW q \in Requests, Commit(q), req[q].paid
    PROVE  /\ req[q].user \in Users /\ req[q].tokens \in Nat
           /\ accounts' = accounts
           /\ balance'[req[q].user] = req[q].left
           /\ spent'[req[q].user] = spent[req[q].user] + req[q].tokens
           /\ lock' = [lock EXCEPT ![req[q].user] = NoRequest]
           /\ \A u \in Users : u # req[q].user =>
                 balance'[u] = balance[u] /\ spent'[u] = spent[u]
<1>1. req[q].user \in Users
  BY DEF Commit, At, TypeOK, Active
<1>2. req[q].tokens \in Nat
  BY DEF TypeOK, RequestState
<1> QED BY <1>1, <1>2 DEF Commit, TypeOK

\* What a request does to the accounts before it calls the model: it finds or
\* opens the account, and goes on only with credits.
LEMMA CheckCreditsValue ==
    ASSUME TypeOK, NEW q \in Requests, CheckCredits(q)
    PROVE  /\ req[q].user \in Users /\ req[q].step \in {"credit", "open"} /\ spent' = spent
           /\ \/ UNCHANGED <<accounts, balance>>
              \/ /\ req[q].user \notin accounts /\ accounts' = accounts \cup {req[q].user}
                 /\ balance' = [balance EXCEPT ![req[q].user] = Credits]
           /\ \/ req'[q].step \in {"open", "done"}
              \/ /\ req[q].user \in accounts' /\ balance'[req[q].user] > 0
                 /\ req'[q].step \in {"complete", "stream"}
<1> DEFINE u == req[q].user
<1>1. u \in Users
  BY DEF CheckCredits, LookUpAccount, OpenAccount, At, TypeOK, Active
<1>2. {"open", "complete", "stream"} \subseteq Steps /\ "402" \in Replies
  BY DEF Steps, Replies
<1>3. ASSUME NEW left, CheckBalance(q, left)
      PROVE  req'[q].step = "done" \/ (left > 0 /\ req'[q].step \in {"complete", "stream"})
  BY <1>2, <1>3, GotoValue, ReplyValue DEF CheckBalance, CallModel
<1>4. CASE LookUpAccount(q)
  <2>1. /\ UNCHANGED <<accounts, balance, spent>> /\ req[q].step = "credit"
        /\ \/ u \in accounts /\ CheckBalance(q, balance[u])
           \/ Goto(q, "open")
    BY <1>4 DEF LookUpAccount, At, money
  <2> QED BY <1>1, <1>2, <1>3, <2>1, GotoValue
<1>5. CASE OpenAccount(q)
  <2>1. req[q].step = "open" /\ spent' = spent
    BY <1>5 DEF OpenAccount, At
  <2>2. CASE /\ u \notin accounts /\ accounts' = accounts \cup {u}
             /\ balance' = [balance EXCEPT ![u] = Credits] /\ CheckBalance(q, Credits)
    <3>1. balance'[u] = Credits
      BY <1>1, <2>2 DEF TypeOK
    <3> QED BY <1>1, <1>3, <2>1, <2>2, <3>1
  <2>3. CASE u \in accounts /\ CheckBalance(q, balance[u]) /\ UNCHANGED <<accounts, balance>>
    BY <1>1, <1>3, <2>1, <2>3
  <2> QED BY <1>5, <2>2, <2>3 DEF OpenAccount
<1> QED BY <1>4, <1>5 DEF CheckCredits

\* The inductive invariant: the accounts are exact, who has none has spent
\* nothing, a request that may charge has opened its user's account, and what
\* an open transaction wrote is still the committed balance less its charge.
LedgerInv ==
    /\ BalanceIsExact
    /\ \A u \in Users \ accounts : spent[u] = 0
    /\ \A q \in Requests :
          req[q].paid \/ req[q].step \in {"complete", "stream", "charge"}
             => req[q].user \in accounts
    /\ \A q \in Requests : req[q].paid /\ req[q].step \in Locked
          => req[q].left = Floored(balance[req[q].user], req[q].tokens)

\* The conjunct about accounts that are open.
LEMMA OpenedKept ==
    ASSUME TypeOK, LedgerInv, NEW q \in Requests, RequestNext(q) \/ Abort(q),
           accounts \subseteq accounts'
    PROVE  \A p \in Requests :
              req'[p].paid \/ req'[p].step \in {"complete", "stream", "charge"}
                 => req'[p].user \in accounts'
<1> SUFFICES ASSUME NEW p \in Requests,
                    req'[p].paid \/ req'[p].step \in {"complete", "stream", "charge"}
             PROVE  req'[p].user \in accounts'
  OBVIOUS
<1>1. CASE p # q
  BY <1>1, RequestFrame DEF LedgerInv
<1>2. CASE p = q
  <2>1. req'[q].user = req[q].user
    BY RequestFrame
  <2>2. CASE req'[q].step \in {"complete", "stream"}
    BY <1>2, <2>1, <2>2, ControlFlow, CheckCreditsValue
  <2>3. CASE req'[q].step \notin {"complete", "stream"}
    <3>1. CASE req'[q].step = "charge"
      BY <1>2, <2>1, <3>1, ControlFlow DEF LedgerInv
    <3>2. CASE req'[q].paid /\ ~Charge(q)
      BY <1>2, <2>1, <3>2, RequestFrame DEF LedgerInv
    <3>3. CASE Charge(q)
      BY <1>2, <2>1, <3>3 DEF LedgerInv, Charge, At
    <3> QED BY <1>2, <2>3, <3>1, <3>2, <3>3
  <2> QED BY <2>2, <2>3
<1> QED BY <1>1, <1>2

\* The conjunct about open transactions: the row lock keeps every other charge
\* of the account away.
LEMMA LeftKept ==
    ASSUME TypeOK, LockInv, LedgerInv, NEW q \in Requests, RequestNext(q) \/ Abort(q),
           NEW p \in Requests, req'[p].paid, req'[p].step \in Locked
    PROVE  req'[p].left = Floored(balance'[req'[p].user], req'[p].tokens)
<1>1. CASE p # q
  <2>1. /\ req'[p] = req[p] /\ req[p].user \in Users /\ req[p].user \in accounts
        /\ lock[req[p].user] = p
        /\ req[p].left = Floored(balance[req[p].user], req[p].tokens)
    <3>1. req'[p] = req[p]
      BY <1>1, RequestFrame
    <3> QED BY <3>1 DEF LockInv, LedgerInv
  <2>2. balance'[req[p].user] = balance[req[p].user]
    <3>1. CASE OpenAccount(q)
      <4>1. \/ balance' = balance
            \/ /\ req[q].user \notin accounts
               /\ balance' = [balance EXCEPT ![req[q].user] = Credits]
        BY <3>1 DEF OpenAccount
      <4> QED BY <2>1, <4>1 DEF TypeOK
    <3>2. CASE Commit(q) /\ req[q].paid
      <4>1. lock[req[q].user] = q
        BY <3>2 DEF LockInv, Commit, At, Locked
      <4> QED BY <1>1, <2>1, <3>2, <4>1, CommitValue
    <3>3. CASE Commit(q) /\ ~req[q].paid
      BY <3>3 DEF Commit
    <3>4. CASE UNCHANGED money
      BY <3>4 DEF money
    <3> QED BY <3>1, <3>2, <3>3, <3>4, SharedFrame
  <2> QED BY <2>1, <2>2
<1>2. CASE p = q /\ Charge(q)
  <2>1. balance' = balance
    BY <1>2 DEF Charge, money
  <2> QED BY <1>2, <2>1, ChargeValue
<1>3. CASE p = q /\ ~Charge(q)
  <2>1. /\ req[q].paid /\ req'[q].left = req[q].left /\ req'[q].user = req[q].user
        /\ req[q].step \in {"complete", "stream"} \/ req'[q].tokens = req[q].tokens
    BY <1>3, RequestFrame
  <2>2. AddUserMessage(q) \/ AddAssistantMessage(q)
    BY <1>3, <2>1, ControlFlow DEF Locked, LockInv
  <2>3. req[q].step \in Locked /\ balance' = balance
    BY <2>2 DEF AddUserMessage, AddAssistantMessage, At, Locked, money
  <2> QED BY <1>3, <2>1, <2>3 DEF LedgerInv, Locked
<1> QED BY <1>1, <1>2, <1>3

\* No step breaks it.
LEMMA LedgerStep ==
    ASSUME TypeOK, LockInv, LedgerInv, [Next]_vars
    PROVE  LedgerInv'
<1>1. CASE UNCHANGED <<accounts, balance, spent, req>>
  BY <1>1 DEF LedgerInv, BalanceIsExact
<1>2. ASSUME NEW q \in Requests, NEW u \in Users, NEW mode \in Modes,
             NEW c \in Convs \cup {NoConv}, Receive(q, u, mode, c),
             UNCHANGED <<accounts, balance, spent>>
      PROVE  LedgerInv'
  BY <1>2, ReceiveValue DEF LedgerInv, BalanceIsExact, Locked
<1>3. ASSUME NEW q \in Requests, RequestNext(q) \/ Abort(q) PROVE LedgerInv'
  <2>1. CASE OpenAccount(q)
    <3>0. CheckCredits(q)
      BY <2>1 DEF CheckCredits
    <3>1. BalanceIsExact'
      <4> SUFFICES ASSUME NEW u \in accounts'
                   PROVE  balance'[u] = Floored(Credits, spent'[u])
        BY DEF BalanceIsExact
      <4>1. CASE u \in accounts
        <5>1. u \in Users /\ balance'[u] = balance[u] /\ spent'[u] = spent[u]
          BY <3>0, <4>1, CheckCreditsValue DEF TypeOK
        <5> QED BY <4>1, <5>1 DEF LedgerInv, BalanceIsExact
      <4>2. CASE u \notin accounts
        <5>1. /\ u = req[q].user /\ u \in Users /\ balance'[u] = Credits
              /\ spent' = spent
          BY <3>0, <4>2, CheckCreditsValue DEF TypeOK
        <5>2. spent[u] = 0
          BY <4>2, <5>1 DEF LedgerInv
        <5> QED BY <5>1, <5>2, CreditsAssumption DEF Floored
      <4> QED BY <4>1, <4>2
    <3>2. accounts \subseteq accounts' /\ spent' = spent
      BY <3>0, CheckCreditsValue
    <3>3. \A u \in Users \ accounts' : spent'[u] = 0
      BY <3>2 DEF LedgerInv
    <3> QED BY <1>3, <3>1, <3>2, <3>3, OpenedKept, LeftKept DEF LedgerInv
  <2>2. CASE Commit(q) /\ req[q].paid
    <3>1. req[q].user \in accounts
      BY <2>2 DEF LedgerInv
    <3>2. BalanceIsExact'
      <4> SUFFICES ASSUME NEW u \in accounts'
                   PROVE  balance'[u] = Floored(Credits, spent'[u])
        BY DEF BalanceIsExact
      <4>1. /\ u \in accounts /\ u \in Users /\ spent[u] \in Nat
            /\ balance[u] = Floored(Credits, spent[u])
        BY <2>2, CommitValue DEF TypeOK, LedgerInv, BalanceIsExact
      <4>2. CASE u = req[q].user
        <5>1. /\ req[q].tokens \in Nat
              /\ balance'[u] = Floored(Floored(Credits, spent[u]), req[q].tokens)
              /\ spent'[u] = spent[u] + req[q].tokens
          <6>1. req[q].left = Floored(balance[u], req[q].tokens)
            BY <2>2, <4>2 DEF LedgerInv, Commit, At, Locked
          <6> QED BY <2>2, <4>1, <4>2, <6>1, CommitValue
        <5>2. \A m, n \in Nat : Floored(Floored(Credits, m), n) = Floored(Credits, m + n)
          BY FlooredTwice, CreditsAssumption
        <5> QED BY <4>1, <5>1, <5>2
      <4>3. CASE u # req[q].user
        BY <2>2, <4>1, <4>3, CommitValue
      <4> QED BY <4>2, <4>3
    <3>3. accounts' = accounts /\ \A u \in Users \ accounts : spent'[u] = spent[u]
      BY <2>2, <3>1, CommitValue
    <3> QED BY <1>3, <3>2, <3>3, OpenedKept, LeftKept DEF LedgerInv
  <2>3. CASE UNCHANGED money
    <3>1. UNCHANGED <<accounts, balance, spent>>
      BY <2>3 DEF money
    <3> QED BY <1>3, <3>1, OpenedKept, LeftKept DEF LedgerInv, BalanceIsExact
  <2>4. Commit(q) /\ ~req[q].paid => UNCHANGED money
    BY DEF Commit, money
  <2> QED BY <1>3, <2>1, <2>2, <2>3, <2>4, SharedFrame
<1> QED BY <1>1, <1>2, <1>3, NextCases

\* Both invariants hold in every behaviour.
LEMMA LedgerHolds == Spec => [](TypeOK /\ LockInv /\ LedgerInv)
<1>1. Init => LockInv /\ LedgerInv
  BY DEF Init, LockInv, LockIsHeldInTransaction, LedgerInv, BalanceIsExact, IdleRequest,
         Locked
<1>2. TypeOK /\ LockInv /\ LedgerInv /\ [Next]_vars => LockInv' /\ LedgerInv'
  BY LockStep, LedgerStep
<1> QED BY <1>1, <1>2, TypeCorrect, PTL DEF Spec

\* An account is what it started with less what was charged to it.
THEOREM LedgerIsExact == Spec => []BalanceIsExact
<1>1. LedgerInv => BalanceIsExact
  BY DEF LedgerInv
<1> QED BY <1>1, LedgerHolds, PTL

\* Accounts are never closed and never filled again.
LEMMA AccountsKept ==
    ASSUME TypeOK, LedgerInv, [Next]_vars
    PROVE  \A u \in accounts : u \in accounts' /\ balance'[u] <= balance[u]
<1> DEFINE Kept == \A u \in accounts : u \in accounts' /\ balance'[u] <= balance[u]
<1>1. accounts \subseteq Users /\ \A u \in Users : balance[u] \in Nat
  BY DEF TypeOK
<1>2. CASE UNCHANGED <<accounts, balance>>
  BY <1>1, <1>2
<1>3. ASSUME NEW q \in Requests, RequestNext(q) \/ Abort(q) PROVE Kept
  <2>1. CASE OpenAccount(q)
    <3>1. \/ UNCHANGED <<accounts, balance>>
          \/ /\ req[q].user \notin accounts /\ accounts' = accounts \cup {req[q].user}
             /\ balance' = [balance EXCEPT ![req[q].user] = Credits]
      BY <2>1 DEF OpenAccount
    <3> QED BY <1>1, <1>2, <3>1 DEF TypeOK
  <2>2. CASE Commit(q) /\ req[q].paid
    <3>1. req[q].left = Floored(balance[req[q].user], req[q].tokens)
      BY <2>2 DEF LedgerInv, Commit, At, Locked
    <3>2. \A b, n \in Nat : Floored(b, n) <= b
      BY FlooredTwice
    <3> QED BY <1>1, <2>2, <3>1, <3>2, CommitValue
  <2>3. Commit(q) /\ ~req[q].paid => UNCHANGED money
    BY DEF Commit, money
  <2>4. UNCHANGED money => UNCHANGED <<accounts, balance>>
    BY DEF money
  <2> QED BY <1>2, <1>3, <2>1, <2>2, <2>3, <2>4, SharedFrame
<1> QED BY <1>2, <1>3, NextCases

\* Credits are given once, when the account is opened, and never again.
\* (accounts/models.py:53-56)
BalanceNeverGrows ==
    [][\A u \in accounts : u \in accounts' /\ balance'[u] <= balance[u]]_vars

\* No step of a request gives an account more credits.
THEOREM CreditsAreGivenOnce == Spec => BalanceNeverGrows
<1>1. TypeOK /\ LedgerInv /\ [Next]_vars =>
        [\A u \in accounts : u \in accounts' /\ balance'[u] <= balance[u]]_vars
  BY AccountsKept
<1> QED BY <1>1, LedgerHolds, PTL DEF Spec, BalanceNeverGrows

\* An answer costs one of the amounts the model may ask for, or nothing.
AmountInv == \A q \in Requests : req[q].tokens \in TokenCounts \cup {0}

\* No step charges another amount.
LEMMA AmountStep ==
    ASSUME TypeOK, AmountInv, [Next]_vars
    PROVE  AmountInv'
<1> SUFFICES ASSUME NEW p \in Requests
             PROVE  req'[p].tokens \in TokenCounts \cup {0}
  BY DEF AmountInv
<1>1. CASE req' = req
  BY <1>1 DEF AmountInv
<1>2. ASSUME NEW q \in Requests, NEW u \in Users, NEW mode \in Modes,
             NEW c \in Convs \cup {NoConv}, Receive(q, u, mode, c)
      PROVE  req'[p].tokens \in TokenCounts \cup {0}
  BY <1>2, ReceiveValue DEF AmountInv
<1>3. ASSUME NEW q \in Requests, RequestNext(q) \/ Abort(q)
      PROVE  req'[p].tokens \in TokenCounts \cup {0}
  <2>1. CASE p # q \/ req'[q].tokens = req[q].tokens
    BY <1>3, <2>1, RequestFrame DEF AmountInv
  <2>2. CASE p = q /\ \E n \in TokenCounts \cup {0} : Answered(q, n)
    BY <2>2, AnsweredValue, TokensAssumption
  <2>3. CASE \E status \in Replies : Reply(q, status)
    BY <1>3, <2>1, <2>3, ReplyValue
  <2>4. Complete(q) \/ Stream(q) =>
           \/ \E n \in TokenCounts \cup {0} : Answered(q, n)
           \/ \E status \in Replies : Reply(q, status)
    BY DEF Complete, Stream, Replies
  <2>5. req[q].step \in {"complete", "stream"} => Complete(q) \/ Stream(q) \/ Abort(q)
    BY <1>3 DEF RequestNext, ReadHistory, Retrieve, CheckCredits, LookUpAccount,
                OpenAccount, Charge, AddUserMessage, AddAssistantMessage, Commit, Respond, At
  <2>6. Abort(q) => \E status \in Replies : Reply(q, status)
    BY DEF Abort, Replies
  <2> QED BY <1>3, <2>1, <2>2, <2>3, <2>4, <2>5, <2>6, RequestFrame
<1> QED BY <1>1, <1>2, <1>3, NextCases

\* The accounts implement the abstract ledger: what a request does to them is
\* an opening, one charge, or nothing.
THEOREM ImplementsLedger == Spec => AccountsFollowLedger
<1>1. Init => AmountInv /\ Ledger!Init
  BY DEF Init, IdleRequest, AmountInv, Ledger!Init
<1>2. TypeOK /\ AmountInv /\ [Next]_vars => AmountInv'
  BY AmountStep
<1>3. TypeOK /\ LedgerInv /\ AmountInv /\ [Next]_vars => [Ledger!Next]_(Ledger!vars)
  <2> SUFFICES ASSUME TypeOK, LedgerInv, AmountInv, [Next]_vars
               PROVE  Ledger!Next \/ UNCHANGED <<accounts, balance, spent>>
    BY DEF Ledger!vars
  <2>1. ASSUME NEW q \in Requests, OpenAccount(q)
        PROVE  Ledger!Next \/ UNCHANGED <<accounts, balance, spent>>
    <3> DEFINE u == req[q].user
    <3>1. u \in Users
      BY <2>1, CheckCreditsValue DEF CheckCredits
    <3>2. CASE u \in accounts
      BY <2>1, <3>2 DEF OpenAccount
    <3>3. CASE u \notin accounts
      <4>1. Ledger!Open(u)
        BY <2>1, <3>1, <3>3 DEF OpenAccount, Ledger!Open
      <4> QED BY <3>1, <4>1 DEF Ledger!Next
    <3> QED BY <3>2, <3>3
  <2>2. ASSUME NEW q \in Requests, Commit(q)
        PROVE  Ledger!Next \/ UNCHANGED <<accounts, balance, spent>>
    <3> DEFINE u == req[q].user
    <3>1. CASE ~req[q].paid
      BY <2>2, <3>1 DEF Commit
    <3>2. CASE req[q].paid
      <4>1. u \in accounts /\ u \in Users /\ req[q].tokens \in TokenCounts \cup {0}
        BY <3>2, <2>2, CommitValue DEF LedgerInv, AmountInv
      <4>2. req[q].left = Floored(balance[u], req[q].tokens)
        BY <2>2, <3>2 DEF LedgerInv, Commit, At, Locked
      <4>3. Ledger!Charge(u, req[q].tokens)
        BY <2>2, <3>2, <4>1, <4>2 DEF Commit, Ledger!Charge, Floored, Ledger!Floored
      <4> QED BY <4>1, <4>3 DEF Ledger!Next
    <3> QED BY <3>1, <3>2
  <2>3. UNCHANGED money => UNCHANGED <<accounts, balance, spent>>
    BY DEF money
  <2> QED BY <2>1, <2>2, <2>3, NextCases, SharedFrame
<1> QED BY <1>1, <1>2, <1>3, LedgerHolds, PTL
        DEF Spec, AccountsFollowLedger, Ledger!Spec

\* The inductive invariant: the account of a request that came when it was
\* empty stays empty, so the request is stopped at the check.
BrokeInv ==
    \A q \in Requests : req[q].broke =>
        /\ req[q].user \in accounts /\ balance[req[q].user] = 0
        /\ ~req[q].paid /\ req[q].step \notin {"complete", "stream", "charge"}

\* An empty account buys nothing.
THEOREM EmptyAccountBuysNothing == Spec => []BrokeNeverCallsModel
<1>1. Init => BrokeInv
  BY DEF Init, BrokeInv, IdleRequest
<1>2. TypeOK /\ TypeOK' /\ LedgerInv /\ BrokeInv /\ [Next]_vars => BrokeInv'
  <2> SUFFICES ASSUME TypeOK, TypeOK', LedgerInv, BrokeInv, [Next]_vars,
                      NEW p \in Requests, req'[p].broke
               PROVE  /\ req'[p].user \in accounts' /\ balance'[req'[p].user] = 0
                      /\ ~req'[p].paid
                      /\ req'[p].step \notin {"complete", "stream", "charge"}
    BY DEF BrokeInv
  <2>1. \A u \in accounts : balance[u] = 0 => u \in accounts' /\ balance'[u] = 0
    <3>1. /\ \A u \in accounts : u \in accounts' /\ balance'[u] <= balance[u]
          /\ accounts \subseteq Users /\ \A u \in Users : balance'[u] \in Nat
      BY AccountsKept DEF TypeOK
    <3> QED BY <3>1
  <2>2. CASE req'[p] = req[p]
    BY <2>1, <2>2 DEF BrokeInv
  <2>3. ASSUME NEW q \in Requests, NEW u \in Users, NEW mode \in Modes,
               NEW c \in Convs \cup {NoConv}, Receive(q, u, mode, c), p = q
        PROVE  /\ req'[p].user \in accounts' /\ balance'[req'[p].user] = 0
               /\ ~req'[p].paid
               /\ req'[p].step \notin {"complete", "stream", "charge"}
    <3>1. req'[q].broke = (u \in accounts /\ balance[u] = 0)
      BY <2>3, ReceiveValue
    <3>2. u \in accounts /\ balance[u] = 0
      BY <2>3, <3>1, Zenon
    <3> QED BY <2>1, <2>3, <3>2, ReceiveValue
  <2>4. ASSUME RequestNext(p) \/ Abort(p)
        PROVE  /\ req'[p].user \in accounts' /\ balance'[req'[p].user] = 0
               /\ ~req'[p].paid
               /\ req'[p].step \notin {"complete", "stream", "charge"}
    <3>1. /\ req[p].broke /\ req'[p].user = req[p].user
          /\ Charge(p) \/ req'[p].paid = req[p].paid
      BY <2>4, RequestFrame
    <3>2. /\ req[p].user \in accounts /\ balance[req[p].user] = 0 /\ ~req[p].paid
          /\ req[p].step \notin {"complete", "stream", "charge"}
      BY <3>1 DEF BrokeInv
    <3>3. ~Charge(p)
      BY <3>2 DEF Charge, At
    <3>4. req'[p].step # "charge"
      BY <2>4, <3>2, ControlFlow
    <3>5. req'[p].step \notin {"complete", "stream"}
      <4>1. CASE CheckCredits(p)
        BY <2>1, <3>2, <4>1, CheckCreditsValue
      <4> QED BY <2>4, <4>1, ControlFlow
    <3> QED BY <2>1, <3>1, <3>2, <3>3, <3>4, <3>5
  <2>5. ASSUME NEW q \in Requests, RequestNext(q) \/ Abort(q), p # q
        PROVE  req'[p] = req[p]
    BY <2>5, RequestFrame
  <2>6. ASSUME NEW q \in Requests, NEW u \in Users, NEW mode \in Modes,
               NEW c \in Convs \cup {NoConv}, Receive(q, u, mode, c), p # q
        PROVE  req'[p] = req[p]
    BY <2>6, ReceiveValue
  <2> QED BY <2>2, <2>3, <2>4, <2>5, <2>6, NextCases
<1>3. BrokeInv => BrokeNeverCallsModel
  BY DEF BrokeInv, BrokeNeverCallsModel
<1> QED BY <1>1, <1>2, <1>3, LedgerHolds, PTL DEF Spec

-----------------------------------------------------------------------------
(* Overdrafts.                                                             *)

\* The requests of u that passed the check and have not been charged yet.
Pending(u) ==
    {q \in Requests :
        /\ req[q].user = u
        /\ \/ req[q].step \in {"complete", "stream", "charge"}
           \/ req[q].paid /\ req[q].step \in Locked}

\* An upper bound of what an answer costs.
Dearest(n) == n \in TokenCounts /\ \A m \in TokenCounts : m <= n

\* The inductive invariant: once the credits are used up nobody passes the
\* check, and every charge is paid for with one of the workers' pending requests.
OverdraftInv ==
    /\ IsFiniteSet(Active) /\ Cardinality(Active) <= WebWorkers
    /\ \A u \in Users, n \in TokenCounts :
          Dearest(n) =>
             \/ spent[u] < Credits
             \/ spent[u] + Cardinality(Pending(u)) * n < Credits + WebWorkers * n

\* The products in the invariant.
LEMMA Arithmetic ==
    ASSUME NEW a \in Nat, NEW b \in Nat, NEW n \in Nat
    PROVE  /\ a <= b => a * n <= b * n
           /\ a \in Nat \ {0} => (a - 1) * n = a * n - n
           /\ a * n \in Nat
OBVIOUS

\* Pending requests are under way, so the workers bound them.
LEMMA PendingBound ==
    ASSUME TypeOK, OverdraftInv, NEW u
    PROVE  /\ IsFiniteSet(Pending(u)) /\ Cardinality(Pending(u)) \in Nat
           /\ Cardinality(Pending(u)) <= WebWorkers
<1>1. Pending(u) \in SUBSET Active
  BY DEF Pending, Active, Locked
<1>2. /\ IsFiniteSet(Pending(u))
      /\ Cardinality(Pending(u)) <= Cardinality(Active)
  BY <1>1, FS_Subset DEF OverdraftInv
<1>3. Cardinality(Pending(u)) \in Nat /\ Cardinality(Active) \in Nat
  BY <1>2, FS_CardinalityType DEF OverdraftInv
<1> QED BY <1>2, <1>3, BoundsAssumption DEF OverdraftInv

\* The server never works on more requests than it has workers.
LEMMA WorkersStep ==
    ASSUME TypeOK, OverdraftInv, [Next]_vars
    PROVE  IsFiniteSet(Active') /\ Cardinality(Active') <= WebWorkers
<1>0. IsFiniteSet(Active) /\ Cardinality(Active) <= WebWorkers
  BY DEF OverdraftInv
<1>1. ASSUME Active' \in SUBSET Active
      PROVE  IsFiniteSet(Active') /\ Cardinality(Active') <= WebWorkers
  <2>1. IsFiniteSet(Active') /\ Cardinality(Active') <= Cardinality(Active)
    BY <1>0, <1>1, FS_Subset
  <2> QED BY <1>0, <2>1, FS_CardinalityType, BoundsAssumption
<1>2. CASE UNCHANGED req
  BY <1>1, <1>2 DEF Active
<1>3. ASSUME NEW q \in Requests, NEW u \in Users, NEW mode \in Modes,
             NEW c \in Convs \cup {NoConv}, Receive(q, u, mode, c)
      PROVE  IsFiniteSet(Active') /\ Cardinality(Active') <= WebWorkers
  <2>1. Active' \in SUBSET (Active \cup {q}) /\ Cardinality(Active) < WebWorkers
    BY <1>3, ReceiveValue DEF Active, Receive
  <2>2. /\ IsFiniteSet(Active \cup {q})
        /\ Cardinality(Active \cup {q}) <= WebWorkers
    <3>1. Cardinality(Active) \in Nat
      BY <1>0, FS_CardinalityType
    <3>2. /\ IsFiniteSet(Active \cup {q})
          /\ Cardinality(Active \cup {q}) \in {Cardinality(Active), Cardinality(Active) + 1}
      BY <1>0, FS_AddElement
    <3> QED BY <2>1, <3>1, <3>2, BoundsAssumption
  <2>3. IsFiniteSet(Active') /\ Cardinality(Active') <= Cardinality(Active \cup {q})
    BY <2>1, <2>2, FS_Subset
  <2> QED BY <2>2, <2>3, FS_CardinalityType, BoundsAssumption
<1>4. ASSUME NEW q \in Requests, RequestNext(q) \/ Abort(q)
      PROVE  Active' \in SUBSET Active
  BY <1>4, RequestFrame DEF Active
<1> QED BY <1>1, <1>2, <1>3, <1>4, NextCases

\* A user whose pending requests and charges do not grow.
LEMMA QuietOverdraft ==
    ASSUME TypeOK, OverdraftInv, NEW u \in Users, NEW n \in TokenCounts, Dearest(n),
           spent'[u] = spent[u], Pending(u)' \subseteq Pending(u)
    PROVE  \/ spent'[u] < Credits
           \/ spent'[u] + Cardinality(Pending(u)') * n < Credits + WebWorkers * n
<1> DEFINE a == Cardinality(Pending(u)')
           b == Cardinality(Pending(u))
<1>1. a \in Nat /\ b \in Nat /\ a <= b
  BY PendingBound, FS_Subset, FS_CardinalityType
<1>2. \/ spent[u] < Credits
      \/ spent[u] + b * n < Credits + WebWorkers * n
  BY DEF OverdraftInv
<1>3. n \in Nat /\ spent[u] \in Nat /\ Credits \in Nat /\ WebWorkers \in Nat
  BY TokensAssumption, CreditsAssumption, BoundsAssumption DEF TypeOK
<1> HIDE DEF a, b
<1>4. a * n <= b * n /\ a * n \in Nat /\ b * n \in Nat /\ WebWorkers * n \in Nat
  BY <1>1, <1>3, Arithmetic
<1> QED BY <1>2, <1>3, <1>4 DEF a

\* Only the check lets a request in.
LEMMA PendingShrinks ==
    ASSUME TypeOK, LockInv, NEW q \in Requests, RequestNext(q) \/ Abort(q), NEW u
    PROVE  \/ Pending(u)' \subseteq Pending(u)
           \/ CheckCredits(q) /\ req[q].user = u /\ req'[q].step \in {"complete", "stream"}
<1>1. /\ \A p \in Requests : p # q => req'[p] = req[p]
      /\ req'[q].user = req[q].user
      /\ Charge(q) \/ req'[q].paid = req[q].paid
  BY RequestFrame
<1> SUFFICES ASSUME ~(CheckCredits(q) /\ req[q].user = u
                      /\ req'[q].step \in {"complete", "stream"}),
                    q \in Pending(u)'
             PROVE  q \in Pending(u)
  BY <1>1 DEF Pending
<1>2. req[q].user = u /\ req'[q].step \notin {"complete", "stream"}
  BY <1>1, ControlFlow DEF Pending
<1>3. CASE req'[q].step = "charge"
  BY <1>2, <1>3, ControlFlow DEF Pending
<1>4. CASE req'[q].paid /\ req'[q].step \in Locked
  <2>1. CASE Charge(q)
    BY <1>2, <2>1 DEF Pending, Charge, At
  <2>2. CASE ~Charge(q)
    <3>1. req[q].paid
      BY <1>1, <1>4, <2>2
    <3>2. \/ req[q].step = "retrieve" \/ AddUserMessage(q) \/ AddAssistantMessage(q)
      BY <1>4, <2>2, ControlFlow DEF Locked
    <3>3. req[q].step \in Locked
      BY <3>1, <3>2 DEF LockInv, Locked, AddUserMessage, AddAssistantMessage, At
    <3> QED BY <1>2, <3>1, <3>3 DEF Pending
  <2> QED BY <2>1, <2>2
<1> QED BY <1>2, <1>3, <1>4 DEF Pending

\* A charge uses up one pending request.
LEMMA CommitOverdraft ==
    ASSUME TypeOK, AmountInv, OverdraftInv, NEW q \in Requests,
           Commit(q), req[q].paid, NEW u \in Users, req[q].user = u,
           NEW n \in TokenCounts, Dearest(n)
    PROVE  spent'[u] + Cardinality(Pending(u)') * n < Credits + WebWorkers * n
<1> DEFINE t == req[q].tokens
           b == Cardinality(Pending(u))
<1>1. /\ t \in Nat /\ spent'[u] = spent[u] + t
      /\ spent[u] \in Nat /\ n \in Nat /\ Credits \in Nat /\ WebWorkers \in Nat
  BY CommitValue, TokensAssumption, CreditsAssumption, BoundsAssumption DEF TypeOK
<1>2. t <= n
  BY <1>1 DEF AmountInv, Dearest
<1>3. q \in Pending(u)
  BY DEF Pending, Commit, At, Locked
<1>4. Pending(u)' = Pending(u) \ {q}
  <2>1. /\ \A p \in Requests : p # q => req'[p] = req[p]
        /\ req'[q].step = "respond"
    BY GotoValue DEF Commit, Steps
  <2>2. ASSUME NEW p \in Requests
        PROVE  p \in Pending(u)' <=> p \in Pending(u) /\ p # q
    <3>1. CASE p = q
      BY <2>1, <3>1 DEF Pending, Locked
    <3>2. CASE p # q
      BY <2>1, <3>2 DEF Pending
    <3> QED BY <3>1, <3>2
  <2>3. Pending(u) \subseteq Requests /\ Pending(u)' \subseteq Requests
    BY DEF Pending
  <2> QED BY <2>2, <2>3
<1>5. /\ b \in Nat \ {0} /\ b <= WebWorkers
      /\ Cardinality(Pending(u)') = b - 1
  BY <1>3, <1>4, PendingBound, FS_RemoveElement, FS_EmptySet
<1>6. \/ spent[u] < Credits
      \/ spent[u] + b * n < Credits + WebWorkers * n
  BY <1>1 DEF OverdraftInv
<1>7. /\ b * n <= WebWorkers * n /\ (b - 1) * n = b * n - n
      /\ b * n \in Nat /\ WebWorkers * n \in Nat
  BY <1>1, <1>5, Arithmetic
<1> HIDE DEF b, t
<1>8. spent[u] + t + (b - 1) * n < Credits + WebWorkers * n
  BY <1>1, <1>2, <1>5, <1>6, <1>7
<1> QED BY <1>1, <1>5, <1>8

\* Whatever races past the check, an overdraft stays below one answer a worker.
THEOREM OverdraftsAreBounded == Spec => []OverdraftIsBounded
<1>1. Init => OverdraftInv /\ AmountInv
  <2> SUFFICES ASSUME Init PROVE OverdraftInv /\ AmountInv OBVIOUS
  <2>1. Active = {} /\ \A u : Pending(u) = {}
    BY DEF Init, IdleRequest, Active, Pending, Locked
  <2>2. \A u \in Users, n \in TokenCounts : Dearest(n) =>
           spent[u] + 0 * n < Credits + WebWorkers * n
    <3> SUFFICES ASSUME NEW u \in Users, NEW n \in TokenCounts
                 PROVE  spent[u] + 0 * n < Credits + WebWorkers * n
      OBVIOUS
    <3>1. n \in Nat \ {0} /\ WebWorkers \in Nat \ {0} /\ spent[u] = 0 /\ Credits \in Nat
      BY TokensAssumption, BoundsAssumption, CreditsAssumption DEF Init
    <3>2. WebWorkers * n >= n
      BY <3>1, 1 * n <= WebWorkers * n
    <3> QED BY <3>1, <3>2
  <2>3. AmountInv
    BY DEF Init, IdleRequest, AmountInv
  <2> QED BY <2>1, <2>2, <2>3, FS_EmptySet, BoundsAssumption DEF OverdraftInv
<1>2. /\ TypeOK /\ LockInv /\ AmountInv /\ LedgerInv' /\ OverdraftInv /\ [Next]_vars
      => OverdraftInv'
  <2> SUFFICES ASSUME TypeOK, LockInv, AmountInv, LedgerInv', OverdraftInv, [Next]_vars
               PROVE  OverdraftInv'
    OBVIOUS
  <2> SUFFICES ASSUME NEW u \in Users, NEW n \in TokenCounts, Dearest(n)
               PROVE  \/ spent'[u] < Credits
                      \/ spent'[u] + Cardinality(Pending(u)') * n
                            < Credits + WebWorkers * n
    BY WorkersStep DEF OverdraftInv, Dearest
  <2>1. CASE UNCHANGED <<spent, req>>
    BY <2>1, QuietOverdraft DEF Pending
  <2>2. ASSUME NEW q \in Requests, NEW v \in Users, NEW mode \in Modes,
               NEW c \in Convs \cup {NoConv}, Receive(q, v, mode, c), UNCHANGED spent
        PROVE  Pending(u)' \subseteq Pending(u)
    BY <2>2, ReceiveValue DEF Pending, Locked
  <2>3. ASSUME NEW q \in Requests, RequestNext(q) \/ Abort(q)
        PROVE  \/ spent'[u] < Credits
               \/ spent'[u] + Cardinality(Pending(u)') * n
                     < Credits + WebWorkers * n
    <3>1. CASE Commit(q) /\ req[q].paid /\ req[q].user = u
      BY <3>1, CommitOverdraft
    <3>2. CASE CheckCredits(q) /\ req[q].user = u /\ req'[q].step \in {"complete", "stream"}
      <4>1. u \in accounts' /\ balance'[u] > 0 /\ spent' = spent
        BY <3>2, CheckCreditsValue
      <4>2. balance'[u] = Floored(Credits, spent[u])
        BY <4>1 DEF LedgerInv, BalanceIsExact
      <4>3. spent[u] \in Nat
        BY DEF TypeOK
      <4> QED BY <4>1, <4>2, <4>3, CreditsAssumption DEF Floored
    <3>3. CASE ~(Commit(q) /\ req[q].paid /\ req[q].user = u)
      <4>1. spent'[u] = spent[u]
        <5>1. CASE Commit(q) /\ req[q].paid
          BY <3>3, <5>1, CommitValue
        <5>2. CASE Commit(q) /\ ~req[q].paid
          BY <5>2 DEF Commit
        <5>3. CASE OpenAccount(q)
          BY <5>3 DEF OpenAccount
        <5>4. CASE UNCHANGED money
          BY <5>4 DEF money
        <5> QED BY <2>3, <5>1, <5>2, <5>3, <5>4, SharedFrame
      <4> QED BY <2>3, <3>2, <4>1, PendingShrinks, QuietOverdraft
    <3> QED BY <3>1, <3>3
  <2> QED BY <2>1, <2>2, <2>3, NextCases, QuietOverdraft
<1>3. TypeOK /\ OverdraftInv => OverdraftIsBounded
  <2> SUFFICES ASSUME TypeOK, OverdraftInv, NEW u \in Users, NEW n \in TokenCounts,
                      \A m \in TokenCounts : m <= n
               PROVE  spent[u] < Credits + WebWorkers * n
    BY DEF OverdraftIsBounded
  <2> DEFINE b == Cardinality(Pending(u))
  <2>1. \/ spent[u] < Credits
        \/ spent[u] + b * n < Credits + WebWorkers * n
    BY DEF OverdraftInv, Dearest
  <2>2. /\ b \in Nat /\ n \in Nat /\ spent[u] \in Nat /\ Credits \in Nat
        /\ WebWorkers \in Nat
    BY PendingBound, TokensAssumption, CreditsAssumption, BoundsAssumption DEF TypeOK
  <2> HIDE DEF b
  <2>3. b * n \in Nat /\ WebWorkers * n \in Nat
    BY <2>2, Arithmetic
  <2> QED BY <2>1, <2>2, <2>3
<1> QED BY <1>1, <1>2, <1>3, LedgerHolds, AmountStep, PTL DEF Spec
=============================================================================
