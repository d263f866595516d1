--------------------------- MODULE ChatProperties ---------------------------
(***************************************************************************)
(* What answering and charging questions must guarantee.                   *)
(***************************************************************************)
EXTENDS Chat, FiniteSetsExt

RequestState ==
    [step: Steps, user: Users \cup {NoUser}, mode: Modes, conv: Convs \cup {NoConv},
     history: SUBSET Message, tokens: Nat, left: Nat, paid: BOOLEAN, broke: BOOLEAN,
     reply: Replies]

\* Every variable keeps its type; a request that is under way has a user and
\* a conversation.
TypeOK ==
    /\ indexed \subseteq Users
    /\ owner \in [Convs -> Users \cup {NoUser}]
    /\ log \in [Convs -> Seq(Message)]
    /\ committed \subseteq Requests
    /\ accounts \subseteq Users
    /\ balance \in [Users -> Nat]
    /\ lock \in [Users -> Requests \cup {NoRequest}]
    /\ spent \in [Users -> Nat]
    /\ req \in [Requests -> RequestState]
    /\ \A q \in Active : req[q].user \in Users /\ req[q].conv \in Convs

-----------------------------------------------------------------------------
(* Credits.                                                                *)

\* An account holds exactly the default credits less the tokens of every
\* answer the user was charged for, floored at zero: no charge is lost or
\* applied twice, however requests interleave, fail or are killed.
\* (rag/views.py:427-443, 656-674)
BalanceIsExact ==
    \A u \in accounts : balance[u] = Floored(Credits, spent[u])

\* An answer may be charged to an account that another request has emptied
\* since the check, but the excess stays below what the web workers can have
\* under way at once. (rag/views.py:390-395, 428-430)
OverdraftIsBounded ==
    \A u \in Users, n \in TokenCounts :
        (\A m \in TokenCounts : m <= n)
            => spent[u] < Credits + WebWorkers * n

\* A request that finds the user's account empty gets no answer of the language
\* model and is never charged; it may get the fixed answer for a question
\* without context, which comes before the check. (rag/views.py:390-395, 625-630)
BrokeNeverCallsModel ==
    \A q \in Requests : req[q].broke =>
        ~req[q].paid /\ req[q].step \notin {"complete", "stream", "charge"}

\* What a user was charged is what the stored answers cost, to the token: the
\* charge and the turn stand or fall together. (rag/views.py:427-443, 656-674)
SpentIsStored ==
    \A u \in Users :
        spent[u] = MapThenSumSet(LAMBDA q : req[q].tokens,
                                 {q \in committed : req[q].user = u})

Ledger == INSTANCE CreditLedger WITH Amounts <- TokenCounts \cup {0}

\* Of all a chat request does, the account sees an opening or one charge.
AccountsFollowLedger == Ledger!Spec

-----------------------------------------------------------------------------
(* Turns.                                                                  *)

\* Positions of the messages of request q in its conversation.
Positions(q) ==
    {i \in DOMAIN log[req[q].conv] : log[req[q].conv][i].request = q}

\* A question and the answer to it, and nothing else.
WholeTurn(q) ==
    \E i, j \in Positions(q) :
        /\ i < j /\ Positions(q) = {i, j}
        /\ log[req[q].conv][i].role = "user"
        /\ log[req[q].conv][j].role = "assistant"

\* What others see of a turn is the whole turn, in its conversation only. A
\* client that got an answer finds its turn there and one that got an error
\* does not. (rag/views.py:363-385, 407-455, 592-674)
TurnIsAllOrNothing ==
    /\ \A q \in committed : req[q].conv \in Convs /\ WholeTurn(q)
    /\ \A c \in Convs : \A i \in DOMAIN log[c] : req[log[c][i].request].conv = c
    /\ \A q \in Requests :
          /\ req[q].reply = "200" => q \in committed
          /\ req[q].reply \in {"402", "404", "502", "broken"} => q \notin committed

\* Two turns that were charged never interleave in a conversation, although
\* created_at is taken before the commit: the lock of the account row, which
\* the update takes first, keeps the transactions apart.
\* (rag/views.py:427-443, rag/conversations.py:56)
ChargedTurnsAreContiguous ==
    \A p, q \in committed :
        p # q /\ req[p].paid /\ req[q].paid /\ req[p].conv = req[q].conv =>
            \/ \A i \in Positions(p), j \in Positions(q) : i < j
            \/ \A i \in Positions(p), j \in Positions(q) : j < i

\* The history in a prompt was committed, comes from the conversation the
\* request continues, and is the user's own; it never repeats the request.
\* (rag/conversations.py:18-37, rag/views.py:330-342)
PromptIsOwnHistory ==
    \A q \in Requests : \A m \in req[q].history :
        /\ m.request \in committed \ {q}
        /\ req[m.request].conv = req[q].conv
        /\ req[m.request].user = req[q].user

\* A locked account row belongs to a transaction that is still open: no way
\* through or out of a request leaves the row locked. (rag/views.py:427-443)
LockIsHeldInTransaction ==
    \A u \in Users : lock[u] # NoRequest =>
        /\ req[lock[u]].user = u /\ req[lock[u]].paid
        /\ req[lock[u]].step \in {"user_message", "assistant_message", "commit"}

-----------------------------------------------------------------------------
(* Replies.                                                                *)

\* While nobody kills them, all requests that were taken on are replied to.
EveryRequestIsReplied ==
    \A q \in Requests : q \in Active ~> req[q].reply # "none"

\* "Any network or API error (caller maps to 502)" (rag/llm.py:268).
ModelErrorIs502 == \A q \in Requests : req[q].reply # "broken"
=============================================================================
