-------------------------- MODULE AccountRegistry --------------------------
(***************************************************************************)
(* What registration and login do, as if each request looked at the        *)
(* accounts once: a registration adds its account, or finds the address or *)
(* the name it would be stored under taken, a login finds its account or   *)
(* does not, and an answer that names an account names the one with the    *)
(* address and password of the request.                                    *)
(***************************************************************************)
CONSTANTS
    Names,      \* addresses in lower case, and what they are stored under
    NameOf,     \* NameOf[e]: the name that address e is stored under
    TooLong,    \* addresses that there is no room for
    Passwords,
    Requests,
    NoBody,     \* the body of a request that was not made yet
    NoRow       \* what an answer names if it names no account

VARIABLES
    rows,       \* the accounts
    call        \* call[r]: what request r asks, and what has become of it

vars == <<rows, call>>

Body == [email: Names, password: Passwords, valid: BOOLEAN]

Idle == [op |-> "none", body |-> NoBody, outcome |-> "none", account |-> NoRow]

Init == rows = {} /\ call = [r \in Requests |-> Idle]

\* The account that a body asks for.
Row(body) ==
    [username |-> NameOf[body.email], email |-> body.email, password |-> body.password]

Taken(name) == \E a \in rows : a.username = name

Storable(body) == ~Taken(NameOf[body.email]) /\ body.email \notin TooLong

Pending(r, op) == call[r].outcome = "pending" /\ call[r].op = op

Decide(r, outcome) == call' = [call EXCEPT ![r] = [@ EXCEPT !.outcome = outcome]]

Answer(r, outcome, row) ==
    call' = [call EXCEPT ![r] = [@ EXCEPT !.outcome = outcome, !.account = row]]

Submit(r) ==
    /\ call[r] = Idle
    /\ \E op \in {"register", "login"}, body \in Body :
          call' = [call EXCEPT ![r] =
                     [op |-> op, body |-> body, outcome |-> "pending", account |-> NoRow]]
    /\ UNCHANGED rows

Register(r) ==
    /\ Pending(r, "register") /\ call[r].body.valid /\ Storable(call[r].body)
    /\ rows' = rows \cup {Row(call[r].body)}
    /\ Decide(r, "stored")

Confirm(r) ==
    /\ call[r].outcome = "stored" /\ Row(call[r].body) \in rows
    /\ Answer(r, "created", Row(call[r].body))
    /\ UNCHANGED rows

Refuse(r) ==
    /\ Pending(r, "register") /\ Taken(call[r].body.email)
    /\ Decide(r, "duplicate")
    /\ UNCHANGED rows

Reject(r) ==
    /\ Pending(r, "register") /\ ~call[r].body.valid /\ ~Taken(call[r].body.email)
    /\ Decide(r, "invalid")
    /\ UNCHANGED rows

Fail(r) ==
    /\ Pending(r, "register") /\ call[r].body.valid /\ ~Storable(call[r].body)
    /\ Decide(r, "failed")
    /\ UNCHANGED rows

Opens(row, body) == row.username = body.email /\ row.password = body.password

LogIn(r) ==
    /\ Pending(r, "login")
    /\ \E row \in rows : Opens(row, call[r].body) /\ Answer(r, "token", row)
    /\ UNCHANGED rows

Deny(r) ==
    /\ Pending(r, "login") /\ \A row \in rows : ~Opens(row, call[r].body)
    /\ Decide(r, "denied")
    /\ UNCHANGED rows

\* The client never learns what became of the request; a registration that is
\* lost before it was decided adds nothing.
Lose(r) ==
    /\ call[r].outcome \in {"pending", "stored"}
    /\ Decide(r, "lost")
    /\ UNCHANGED rows

Next ==
    \E r \in Requests :
        \/ Submit(r) \/ Register(r) \/ Confirm(r) \/ Refuse(r) \/ Reject(r) \/ Fail(r)
        \/ LogIn(r) \/ Deny(r) \/ Lose(r)

Spec == Init /\ [][Next]_vars
=============================================================================
