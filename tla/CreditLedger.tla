---------------------------- MODULE CreditLedger ----------------------------
(***************************************************************************)
(* What the credit account of a user promises: it is opened once with the  *)
(* default credits and only ever pays for answers. An answer may cost more *)
(* than is left; the balance stops at zero.                                *)
(***************************************************************************)
EXTENDS Naturals

CONSTANTS
    Users,
    Credits,    \* what a new account starts with
    Amounts     \* what an answer may cost

VARIABLES
    accounts,   \* the users with an account
    balance,    \* balance[u]: what is left
    spent       \* spent[u]: the tokens of all answers u was charged for

vars == <<accounts, balance, spent>>

\* The larger of 0 and b - n.
Floored(b, n) == IF n <= b THEN b - n ELSE 0

TypeOK ==
    /\ accounts \subseteq Users
    /\ balance \in [Users -> Nat]
    /\ spent \in [Users -> Nat]

Init ==
    /\ accounts = {}
    /\ balance = [u \in Users |-> 0]
    /\ spent = [u \in Users |-> 0]

Open(u) ==
    /\ u \notin accounts
    /\ accounts' = accounts \cup {u}
    /\ balance' = [balance EXCEPT ![u] = Credits]
    /\ UNCHANGED spent

Charge(u, n) ==
    /\ u \in accounts
    /\ balance' = [balance EXCEPT ![u] = Floored(@, n)]
    /\ spent' = [spent EXCEPT ![u] = @ + n]
    /\ UNCHANGED accounts

Next == \E u \in Users : Open(u) \/ \E n \in Amounts : Charge(u, n)

Spec == Init /\ [][Next]_vars

\* The balance is a function of what was spent, however the charges interleave.
BalanceIsExact ==
    \A u \in accounts : balance[u] = Floored(Credits, spent[u])
=============================================================================
