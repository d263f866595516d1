-------------------------------- MODULE Chat --------------------------------
(***************************************************************************)
(* Questions to the indexed documents: ChatQueryView.post and              *)
(* ChatStreamView.post (rag/views.py), the conversations they continue and *)
(* the credit accounts they charge.                                        *)
(*                                                                         *)
(* A request reads history, chunks and balance one after another without a *)
(* lock, waits for the language model, and only then opens the transaction *)
(* that charges the account and stores the turn. Until that transaction    *)
(* ends it holds the lock of the account row, if it charges; its messages  *)
(* carry the time they were created, and nobody sees them, nor the balance *)
(* that its update computed, before it ends.                               *)
(***************************************************************************)
EXTENDS Naturals, Sequences, FiniteSets

CONSTANTS
    Users,
    Requests,       \* the chat requests of a behaviour
    Convs,          \* the conversations that may be created
    WebWorkers,     \* how many requests the web server handles at a time
    Credits,        \* DEFAULT_CHAT_CREDITS
    HistoryTurns,   \* CHAT_HISTORY_TURNS: how many messages a prompt repeats
    TokenCounts,    \* what an answer may cost
    NoUser, NoConv, NoRequest,
    Faults          \* which of AllFaults the environment may exhibit

\* "embedding": the embedding model raises
\* "chroma":    the vector store raises
\* "llm":       the language model raises, at once or in mid-stream
\* "usage":     a stream ends without its usage chunk
\* "leave":     the client of a stream disconnects
\* "crash":     the request is killed, or a database error ends it
AllFaults == {"embedding", "chroma", "llm", "usage", "leave", "crash"}

ASSUME CreditsAssumption == Credits \in Nat
ASSUME TokensAssumption  == TokenCounts \subseteq Nat \ {0}
ASSUME BoundsAssumption  == WebWorkers \in Nat \ {0} /\ HistoryTurns \in Nat
ASSUME NoneAssumption    ==
    NoUser \notin Users /\ NoConv \notin Convs /\ NoRequest \notin Requests
ASSUME FaultsAssumption  == Faults \subseteq AllFaults

VARIABLES
    indexed,    \* users whose collection holds at least one chunk
    owner,      \* owner[c]: who owns conversation c, NoUser before it exists
    log,        \* log[c]: the messages of c in the order of created_at, those
                \*   of open transactions and of rolled-back ones included
    committed,  \* requests whose transaction is committed
    accounts,   \* users with a CreditAccount row
    balance,    \* balance[u]: the committed balance
    lock,       \* lock[u]: request that holds the row lock of u's account
    spent,      \* history: spent[u], the tokens u was charged for
    req         \* req[q]: the local state of request q

vars == <<indexed, owner, log, committed, accounts, balance, lock, spent, req>>
money == <<accounts, balance, spent>>

Steps == {"idle", "history", "retrieve", "credit", "open", "complete", "stream",
          "charge", "user_message", "assistant_message", "commit", "respond",
          "done"}
Modes   == {"query", "stream"}
Roles   == {"user", "assistant"}
\* "broken": an exception ended a stream whose 200 header was sent already.
\* "lost":   the request was killed or its client left.
Replies == {"none", "200", "402", "404", "502", "broken", "lost"}
Message == [request: Requests, role: Roles]

\* `history' is the set of the messages in the prompt, `left' the balance that
\* the update of the transaction wrote.
IdleRequest ==
    [step |-> "idle", user |-> NoUser, mode |-> "query", conv |-> NoConv,
     history |-> {}, tokens |-> 0, left |-> 0, paid |-> FALSE, broke |-> FALSE,
     reply |-> "none"]

Active == {q \in Requests : req[q].step \notin {"idle", "done"}}

Init ==
    /\ indexed = {}
    /\ owner = [c \in Convs |-> NoUser]
    /\ log = [c \in Convs |-> <<>>]
    /\ committed = {}
    /\ accounts = {}
    /\ balance = [u \in Users |-> 0]
    /\ lock = [u \in Users |-> NoRequest]
    /\ spent = [u \in Users |-> 0]
    /\ req = [q \in Requests |-> IdleRequest]

\* Ingestion of a first document, and deletion of the last one.
Index(u) ==
    /\ indexed' \in {indexed \cup {u}, indexed \ {u}}
    /\ indexed' # indexed
    /\ UNCHANGED <<owner, log, committed, money, lock, req>>

-----------------------------------------------------------------------------
At(q, step) == req[q].step = step

Goto(q, step) == req' = [req EXCEPT ![q] = [@ EXCEPT !.step = step]]

Reply(q, status) ==
    req' = [req EXCEPT ![q] = [@ EXCEPT !.step = "done", !.reply = status]]

\* Mutant: the conversation is looked up by its id alone.
ReceiveOfAnyone(q, u, mode, chat_id) ==
    LET enter(c) == [IdleRequest EXCEPT !.step = "history", !.user = u,
                        !.mode = mode, !.conv = c,
                        !.broke = u \in accounts /\ balance[u] = 0]
    IN
    /\ At(q, "idle")
    /\ Cardinality(Active) < WebWorkers
    /\ \/ /\ chat_id = NoConv
          /\ \E c \in Convs :
                /\ owner[c] = NoUser
                /\ owner' = [owner EXCEPT ![c] = u]
                /\ req' = [req EXCEPT ![q] = enter(c)]
       \/ /\ chat_id \in Convs /\ owner[chat_id] # NoUser
          /\ req' = [req EXCEPT ![q] = enter(chat_id)]
          /\ UNCHANGED owner
    /\ UNCHANGED <<indexed, log, committed, money, lock>>

\* get_or_create_conversation. `broke' remembers, for the properties only,
\* whether the user had an account without credits when the request arrived.
Receive(q, u, mode, chat_id) ==
    LET enter(c) == [IdleRequest EXCEPT !.step = "history", !.user = u,
                        !.mode = mode, !.conv = c,
                        !.broke = u \in accounts /\ balance[u] = 0]
    IN
    /\ At(q, "idle")
    /\ Cardinality(Active) < WebWorkers
    /\ \/ /\ chat_id = NoConv
          /\ \E c \in Convs :
                /\ owner[c] = NoUser
                /\ owner' = [owner EXCEPT ![c] = u]
                /\ req' = [req EXCEPT ![q] = enter(c)]
       \/ /\ chat_id \in Convs /\ owner[chat_id] = u
          /\ req' = [req EXCEPT ![q] = enter(chat_id)]
          /\ UNCHANGED owner
       \/ /\ chat_id \in Convs /\ owner[chat_id] # u
          /\ req' = [req EXCEPT ![q] = [enter(NoConv) EXCEPT !.step = "done",
                                                             !.reply = "404"]]
          /\ UNCHANGED owner
    /\ UNCHANGED <<indexed, log, committed, money, lock>>

\* The positions of the messages of conversation c that a query of another
\* transaction sees.
Visible(c) == {i \in DOMAIN log[c] : log[c][i].request \in committed}

\* The n largest members of S.
LastN(S, n) == {i \in S : Cardinality({j \in S : i <= j}) <= n}

\* recent_history: order_by("-created_at")[:n]
ReadHistory(q) ==
    LET c == req[q].conv IN
    /\ At(q, "history")
    /\ req' = [req EXCEPT ![q] = [@ EXCEPT !.step = "retrieve",
                  !.history = {log[c][i] : i \in LastN(Visible(c), HistoryTurns)}]]
    /\ UNCHANGED <<indexed, owner, log, committed, money, lock>>

\* retrieve: an error of the embedding model is answered with 502, one of the
\* store counts as no chunks, and no chunks lead to the fixed answer, free of
\* charge.
Retrieve(q) ==
    /\ At(q, "retrieve")
    /\ \/ req[q].user \in indexed /\ Goto(q, "credit")
       \/ /\ req[q].user \notin indexed \/ "chroma" \in Faults
          /\ Goto(q, "user_message")
       \/ "embedding" \in Faults /\ Reply(q, "502")
    /\ UNCHANGED <<indexed, owner, log, committed, money, lock>>

CallModel(q) == Goto(q, IF req[q].mode = "query" THEN "complete" ELSE "stream")

\* The check of the balance that get_or_create_account returned.
CheckBalance(q, left) ==
    \/ left = 0 /\ Reply(q, "402")
    \/ left > 0 /\ CallModel(q)

\* Mutant: the balance of an existing account is not checked.
LookUpUnchecked(q) ==
    LET u == req[q].user IN
    /\ At(q, "credit")
    /\ \/ u \in accounts /\ CallModel(q)
       \/ u \notin accounts /\ Goto(q, "open")
    /\ UNCHANGED <<indexed, owner, log, committed, money, lock>>

\* get_or_create: the get
LookUpAccount(q) ==
    LET u == req[q].user IN
    /\ At(q, "credit")
    /\ \/ u \in accounts /\ CheckBalance(q, balance[u])
       \/ u \notin accounts /\ Goto(q, "open")
    /\ UNCHANGED <<indexed, owner, log, committed, money, lock>>

\* Mutant: update_or_create in place of get_or_create.
OpenAccountResets(q) ==
    LET u == req[q].user IN
    /\ At(q, "open")
    /\ accounts' = accounts \cup {u}
    /\ balance' = [balance EXCEPT ![u] = Credits]
    /\ CheckBalance(q, Credits)
    /\ UNCHANGED <<indexed, owner, log, committed, lock, spent>>

\* get_or_create: the insert, and another get if somebody else was faster.
OpenAccount(q) ==
    LET u == req[q].user IN
    /\ At(q, "open")
    /\ \/ /\ u \notin accounts
          /\ accounts' = accounts \cup {u}
          /\ balance' = [balance EXCEPT ![u] = Credits]
          /\ CheckBalance(q, Credits)
       \/ u \in accounts /\ CheckBalance(q, balance[u]) /\ UNCHANGED <<accounts, balance>>
    /\ UNCHANGED <<indexed, owner, log, committed, lock, spent>>

CheckCredits(q) == LookUpAccount(q) \/ OpenAccount(q)

Answered(q, n) ==
    req' = [req EXCEPT ![q] = [@ EXCEPT !.step = "charge", !.tokens = n]]

\* complete: any exception becomes a 502.
Complete(q) ==
    /\ At(q, "complete")
    /\ \/ \E n \in TokenCounts : Answered(q, n)
       \/ "llm" \in Faults /\ Reply(q, "502")
    /\ UNCHANGED <<indexed, owner, log, committed, money, lock>>

\* complete_stream, iterated by _sse_generator after the 200 header: tokens
\* stay 0 unless a usage chunk comes; nothing catches an exception.
Stream(q) ==
    /\ At(q, "stream")
    /\ \/ \E n \in TokenCounts : Answered(q, n)
       \/ "usage" \in Faults /\ Answered(q, 0)
       \/ "llm" \in Faults /\ Reply(q, "broken")
    /\ UNCHANGED <<indexed, owner, log, committed, money, lock>>

-----------------------------------------------------------------------------
(* The transaction. The update of the balance comes first and takes the    *)
(* row lock; its effect, like the messages, is visible when it commits.    *)

\* Mutant: the balance has no floor.
Unfloored(b, n) == b - n

\* Greatest(Value(0), F("balance") - n)
Floored(b, n) == IF n <= b THEN b - n ELSE 0

\* The update computes the new balance from the committed one; what it writes
\* stays with the transaction until that ends.
Write(q, left) ==
    req' = [req EXCEPT ![q] = [@ EXCEPT !.step = "user_message", !.left = left,
                                        !.paid = TRUE]]

\* Mutant: a read and a write in place of one update, and no row lock.
ChargeUnlocked(q) ==
    LET u == req[q].user IN
    /\ At(q, "charge")
    /\ lock' = [lock EXCEPT ![u] = q]
    /\ Write(q, Floored(balance[u], req[q].tokens))
    /\ UNCHANGED <<indexed, owner, log, committed, money>>

Charge(q) ==
    LET u == req[q].user IN
    /\ At(q, "charge")
    /\ lock[u] = NoRequest
    /\ lock' = [lock EXCEPT ![u] = q]
    /\ Write(q, Floored(balance[u], req[q].tokens))
    /\ UNCHANGED <<indexed, owner, log, committed, money>>

AddMessage(q, role) ==
    log' = [log EXCEPT ![req[q].conv] = Append(@, [request |-> q, role |-> role])]

\* Mutant: the messages are autocommitted one by one.
AddUserMessageCommitted(q) ==
    /\ At(q, "user_message")
    /\ AddMessage(q, "user")
    /\ committed' = committed \cup {q}
    /\ Goto(q, "assistant_message")
    /\ UNCHANGED <<indexed, owner, money, lock>>

AddUserMessage(q) ==
    /\ At(q, "user_message")
    /\ AddMessage(q, "user")
    /\ Goto(q, "assistant_message")
    /\ UNCHANGED <<indexed, owner, committed, money, lock>>

AddAssistantMessage(q) ==
    /\ At(q, "assistant_message")
    /\ AddMessage(q, "assistant")
    /\ Goto(q, "commit")
    /\ UNCHANGED <<indexed, owner, committed, money, lock>>

\* Mutant: the charge is committed, and may be the only thing that is.
CommitChargeOnly(q) ==
    LET u == req[q].user IN
    /\ At(q, "commit")
    /\ committed' \in {committed, committed \cup {q}}
    /\ \/ /\ req[q].paid
          /\ balance' = [balance EXCEPT ![u] = req[q].left]
          /\ spent' = [spent EXCEPT ![u] = @ + req[q].tokens]
          /\ lock' = [lock EXCEPT ![u] = NoRequest]
       \/ ~req[q].paid /\ UNCHANGED <<balance, spent, lock>>
    /\ Goto(q, "respond")
    /\ UNCHANGED <<indexed, owner, log, accounts>>

\* Mutant: the row stays locked.
CommitLocked(q) ==
    LET u == req[q].user IN
    /\ At(q, "commit")
    /\ committed' = committed \cup {q}
    /\ \/ /\ req[q].paid
          /\ balance' = [balance EXCEPT ![u] = req[q].left]
          /\ spent' = [spent EXCEPT ![u] = @ + req[q].tokens]
       \/ ~req[q].paid /\ UNCHANGED <<balance, spent>>
    /\ Goto(q, "respond")
    /\ UNCHANGED <<indexed, owner, log, accounts, lock>>

Commit(q) ==
    LET u == req[q].user IN
    /\ At(q, "commit")
    /\ committed' = committed \cup {q}
    /\ \/ /\ req[q].paid
          /\ balance' = [balance EXCEPT ![u] = req[q].left]
          /\ spent' = [spent EXCEPT ![u] = @ + req[q].tokens]
          /\ lock' = [lock EXCEPT ![u] = NoRequest]
       \/ ~req[q].paid /\ UNCHANGED <<balance, spent, lock>>
    /\ Goto(q, "respond")
    /\ UNCHANGED <<indexed, owner, log, accounts>>

\* The 200 response, or the done event of the stream.
Respond(q) ==
    /\ At(q, "respond")
    /\ Reply(q, "200")
    /\ UNCHANGED <<indexed, owner, log, committed, money, lock>>

\* Mutant: the transaction of a killed request stays open.
AbortKeepsLock(q) ==
    /\ q \in Active
    /\ "crash" \in Faults
    /\ Reply(q, "lost")
    /\ UNCHANGED <<indexed, owner, log, committed, money, lock>>

\* A request that ends early rolls its open transaction back: the row is
\* unlocked, and nobody ever sees the messages.
Abort(q) ==
    LET u == req[q].user IN
    /\ q \in Active
    /\ \/ "crash" \in Faults
       \/ "leave" \in Faults /\ req[q].mode = "stream" /\ req[q].step \in {"stream", "respond"}
    /\ lock' = IF lock[u] = q THEN [lock EXCEPT ![u] = NoRequest] ELSE lock
    /\ Reply(q, "lost")
    /\ UNCHANGED <<indexed, owner, log, committed, money>>

-----------------------------------------------------------------------------
RequestNext(q) ==
    \/ ReadHistory(q) \/ Retrieve(q) \/ CheckCredits(q)
    \/ Complete(q) \/ Stream(q)
    \/ Charge(q) \/ AddUserMessage(q) \/ AddAssistantMessage(q) \/ Commit(q)
    \/ Respond(q)

Next ==
    \/ \E u \in Users : Index(u)
    \/ \E q \in Requests, u \in Users, mode \in Modes, c \in Convs \cup {NoConv} :
          Receive(q, u, mode, c)
    \/ \E q \in Requests : RequestNext(q) \/ Abort(q)

Spec == Init /\ [][Next]_vars

\* A request that the server took on is run to its end; no new request has to
\* come, and no fault has to happen.
Fairness == \A q \in Requests : WF_vars(RequestNext(q))

FairSpec == Spec /\ Fairness
=============================================================================
