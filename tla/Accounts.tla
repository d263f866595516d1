------------------------------ MODULE Accounts ------------------------------
(***************************************************************************)
(* Registration and login (accounts/views.py, services.py, serializers.py).*)
(*                                                                         *)
(* An account is a row of auth_user. A registration looks twice for an     *)
(* account whose username is the address in lower case, in the serializer  *)
(* and in register_user, and then inserts; nothing is locked between these *)
(* statements, so what decides is the unique index. create_user brings the *)
(* username, but not the e-mail, to Unicode's form NFKC, and no look-up    *)
(* does. Bodies without a well-formed address, and logins without a        *)
(* password, are refused before any of this.                               *)
(***************************************************************************)
EXTENDS Naturals, Sequences

CONSTANTS
    Emails,     \* addresses as clients type them
    Lower,      \* Lower[e]: e in lower case
    Nfkc,       \* Nfkc[e]: e in Unicode's normal form NFKC
    TooLong,    \* addresses that the columns of auth_user have no room for
    Passwords,
    Requests,   \* the registrations and logins of a behaviour
    NoEmail, NoPassword,
    Faults      \* {"crash"} if a request may be killed between its steps

ASSUME LowerAssumption ==
    Lower \in [Emails -> Emails] /\ \A e \in Emails : Lower[Lower[e]] = Lower[e]
ASSUME NfkcAssumption ==
    Nfkc \in [Emails -> Emails] /\ \A e \in Emails : Nfkc[Nfkc[e]] = Nfkc[e]
ASSUME LengthAssumption == TooLong \subseteq Emails
ASSUME NoneAssumption == NoEmail \notin Emails /\ NoPassword \notin Passwords
ASSUME FaultsAssumption == Faults \subseteq {"crash"}

VARIABLES
    users,      \* the rows in the order of their ids
    req         \* req[r]: the local state of request r

vars == <<users, req>>

Account == [username: Emails, email: Emails, password: Passwords]
Steps   == {"idle", "validate", "check", "insert", "respond", "login", "done"}
Replies ==
    {"none", "200", "201", "400_duplicate", "400_invalid", "401", "500", "lost"}

RequestState ==
    [step: Steps, op: {"none", "register", "login"}, email: Emails \cup {NoEmail},
     password: Passwords \cup {NoPassword}, valid: BOOLEAN, user: Nat, reply: Replies]

\* `valid' tells whether the passwords of the body pass their rules; `user' is
\* the id of the row inserted, or the one in the response or token; 0 is none.
IdleRequest == [step |-> "idle", op |-> "none", email |-> NoEmail, password |-> NoPassword,
                valid |-> FALSE, user |-> 0, reply |-> "none"]

\* User.objects.filter(username=name).exists()
Taken(name) == \E i \in DOMAIN users : users[i].username = name

Init == users = <<>> /\ req = [r \in Requests |-> IdleRequest]

At(r, step) == req[r].step = step

Goto(r, step) == req' = [req EXCEPT ![r] = [@ EXCEPT !.step = step]]

Reply(r, status, user) ==
    req' = [req EXCEPT ![r] = [@ EXCEPT !.step = "done", !.reply = status, !.user = user]]

\* The row that create_user builds for request r.
RowOf(r) == [username |-> Nfkc[Lower[req[r].email]], email |-> Lower[req[r].email],
             password |-> req[r].password]

\* Mutant: the password, a write_only field, is dropped.
ReceiveWriteOnly(r, op, e, p, ok) ==
    /\ req[r].step = "idle"
    /\ req' = [req EXCEPT ![r] = [IdleRequest EXCEPT
                  !.step = IF op = "register" THEN "validate" ELSE "login",
                  !.op = op, !.email = e, !.valid = ok]]
    /\ UNCHANGED users

Receive(r, op, e, p, ok) ==
    /\ req[r].step = "idle"
    /\ op = "login" => ok
    /\ req' = [req EXCEPT ![r] = [IdleRequest EXCEPT
                  !.step = IF op = "register" THEN "validate" ELSE "login",
                  !.op = op, !.email = e, !.password = p, !.valid = ok]]
    /\ UNCHANGED users

\* RegisterSerializer: the look-up of validate_email, then the rules for
\* passwords; of several errors the view names the first, the address's.
Validate(r) ==
    /\ At(r, "validate")
    /\ \/ Taken(Lower[req[r].email]) /\ Reply(r, "400_duplicate", 0)
       \/ /\ ~Taken(Lower[req[r].email])
          /\ ~req[r].valid
          /\ Reply(r, "400_invalid", 0)
       \/ /\ ~Taken(Lower[req[r].email])
          /\ req[r].valid
          /\ Goto(r, "check")
    /\ UNCHANGED users

\* register_user, up to its ValueError
CheckAgain(r) ==
    /\ At(r, "check")
    /\ \/ Taken(Lower[req[r].email]) /\ Reply(r, "400_duplicate", 0)
       \/ ~Taken(Lower[req[r].email]) /\ Goto(r, "insert")
    /\ UNCHANGED users

\* The database takes the row, and create_user returns it with its id.
Store(r, row) ==
    /\ users' = Append(users, row)
    /\ req' = [req EXCEPT ![r] = [@ EXCEPT !.step = "respond", !.user = Len(users) + 1]]

\* The unique index on usernames, and the widths of the columns.
Storable(r) == ~Taken(RowOf(r).username) /\ Lower[req[r].email] \notin TooLong

\* Mutant: the address is stored as it was typed.
InsertVerbatim(r) ==
    LET row == [RowOf(r) EXCEPT !.username = req[r].email, !.email = req[r].email] IN
    /\ At(r, "insert")
    /\ \/ ~Taken(row.username) /\ Store(r, row)
       \/ Taken(row.username) /\ Reply(r, "500", 0) /\ UNCHANGED users

\* Mutant: the password is set before the name is found to be taken.
InsertOrUpdate(r) ==
    /\ At(r, "insert")
    /\ \/ Storable(r) /\ Store(r, RowOf(r))
       \/ /\ ~Storable(r)
          /\ Reply(r, "500", 0)
          /\ users' = [i \in DOMAIN users |-> IF users[i].username = RowOf(r).username
                           THEN [users[i] EXCEPT !.password = req[r].password]
                           ELSE users[i]]

\* create_user. The database raises IntegrityError or DataError, which are
\* neither the ValueError the view expects nor known to the error handler.
Insert(r) ==
    /\ At(r, "insert")
    /\ \/ Storable(r) /\ Store(r, RowOf(r))
       \/ ~Storable(r) /\ Reply(r, "500", 0) /\ UNCHANGED users

\* Mutant: the response is about the newest account.
RespondNewest(r) ==
    /\ At(r, "respond")
    /\ Reply(r, "201", Len(users))
    /\ UNCHANGED users

Respond(r) ==
    /\ At(r, "respond")
    /\ Reply(r, "201", req[r].user)
    /\ UNCHANGED users

\* Account i is the one that a login for this name and password finds.
Opens(i, name, password) == users[i].username = name /\ users[i].password = password

\* Mutant: the address is looked up as it was typed.
LoginVerbatim(r) ==
    LET Found(i) == Opens(i, req[r].email, req[r].password) IN
    /\ At(r, "login")
    /\ \/ \E i \in DOMAIN users : Found(i) /\ Reply(r, "200", i)
       \/ (\A i \in DOMAIN users : ~Found(i)) /\ Reply(r, "401", 0)
    /\ UNCHANGED users

\* authenticate_user, and the token for the user it returns.
Login(r) ==
    LET Found(i) == Opens(i, Lower[req[r].email], req[r].password) IN
    /\ At(r, "login")
    /\ \/ \E i \in DOMAIN users : Found(i) /\ Reply(r, "200", i)
       \/ (\A i \in DOMAIN users : ~Found(i)) /\ Reply(r, "401", 0)
    /\ UNCHANGED users

Crash(r) ==
    /\ "crash" \in Faults
    /\ req[r].step \notin {"idle", "done"}
    /\ Reply(r, "lost", 0)
    /\ UNCHANGED users

RequestNext(r) ==
    \/ Validate(r) \/ CheckAgain(r) \/ Insert(r) \/ Respond(r) \/ Login(r)

\* Every request of the behaviour was answered.
Quiescent == (\A r \in Requests : req[r].step = "done") /\ UNCHANGED vars

Next ==
    \/ \E r \in Requests, op \in {"register", "login"}, e \in Emails,
          p \in Passwords, ok \in BOOLEAN : Receive(r, op, e, p, ok)
    \/ \E r \in Requests : RequestNext(r) \/ Crash(r)
    \/ Quiescent

Spec == Init /\ [][Next]_vars

-----------------------------------------------------------------------------
(* Properties.                                                             *)

\* Rows and requests keep their types; a request under way has a body.
TypeOK ==
    /\ users \in Seq(Account)
    /\ req \in [Requests -> RequestState]
    /\ \A r \in Requests : req[r].step # "idle" =>
          req[r].email \in Emails /\ req[r].password \in Passwords

\* Two accounts never have the same address, however it is spelled and
\* however many registrations for it race. (accounts/serializers.py:26-31,
\* accounts/services.py:32-41)
OneAccountPerEmail ==
    \A i, j \in DOMAIN users : Lower[users[i].email] = Lower[users[j].email] => i = j

\* What request r was accepted with is not refused when s logs in with it.
NotTurnedAway(r, s) ==
    \/ Lower[req[r].email] # Lower[req[s].email]
    \/ req[r].password # req[s].password

\* Whoever got a 201 can log in, with any spelling of the address, whatever
\* other registrations for it came later or lost the race. Refuted by an
\* address that NFKC changes. (accounts/services.py:36-52, openspec/specs/
\* authentication/spec.md: "SHALL authenticate by email + password")
AcceptedLogsIn ==
    [][\A s \in Requests :
          req[s].reply = "none" /\ req'[s].reply = "401" =>
              \A r \in Requests : req[r].reply = "201" => NotTurnedAway(r, s)]_vars

\* An address that is stored under another name than the one looked up.
Renamed(e) == Nfkc[Lower[e]] # Lower[e]

\* Whoever got a 201 for an address that NFKC leaves alone can log in, with
\* any spelling of it, whatever other registrations, also for addresses that
\* are stored under the same name, came later or lost the race.
\* (accounts/services.py:18-59)
PlainAddressLogsIn ==
    [][\A s \in Requests :
          req[s].reply = "none" /\ req'[s].reply = "401" =>
              \A r \in Requests :
                  req[r].reply = "201" => Renamed(req[r].email) \/ NotTurnedAway(r, s)]_vars

\* A token is for the account under the name that was typed, and it takes the
\* password of a registration stored under that name which was not refused: a
\* loser of the race never changes the winner's password, nor does somebody
\* whose address only normalises to the same name. (accounts/views.py:73-92,
\* 146-165)
TokenNeedsOwnPassword ==
    \A s \in Requests : req[s].reply = "200" =>
        /\ users[req[s].user].username = Lower[req[s].email]
        /\ \E r \in Requests :
              /\ req[r].op = "register" /\ req[r].reply \in {"none", "201", "lost"}
              /\ users[req[s].user] = RowOf(r)
              /\ req[r].password = req[s].password

-----------------------------------------------------------------------------
(* The registry that clients see. The statements of a request are one look *)
(* at the table: the last one before the request is decided.               *)

NoBody    == [email |-> NoEmail, password |-> NoPassword, valid |-> FALSE]
NoAccount == [username |-> NoEmail, email |-> NoEmail, password |-> NoPassword]

OutcomeOf(reply) ==
    CASE reply = "200"           -> "token"
      [] reply = "201"           -> "created"
      [] reply = "400_duplicate" -> "duplicate"
      [] reply = "400_invalid"   -> "invalid"
      [] reply = "401"           -> "denied"
      [] reply = "500"           -> "failed"
      [] OTHER                   -> "lost"

Outcome(r) ==
    CASE At(r, "idle")    -> "none"
      [] At(r, "respond") -> "stored"
      [] At(r, "done")    -> OutcomeOf(req[r].reply)
      [] OTHER            -> "pending"

Call(r) ==
    [op      |-> req[r].op,
     body    |-> IF At(r, "idle") THEN NoBody
                 ELSE [email |-> Lower[req[r].email], password |-> req[r].password,
                       valid |-> req[r].valid],
     outcome |-> Outcome(r),
     account |-> IF req[r].reply \in {"200", "201"} THEN users[req[r].user] ELSE NoAccount]

Table == {users[i] : i \in DOMAIN users}
Calls == [r \in Requests |-> Call(r)]

Registry == INSTANCE AccountRegistry
                WITH Names <- Emails, NameOf <- Nfkc, NoRow <- NoAccount,
                     rows <- Table, call <- Calls

\* Two look-ups and an insert without a lock behave like one atomic check and
\* insert: "duplicate" is answered only while the address is the name of an
\* account, 500 only while the name it would be stored under is taken or has
\* no room, a 201 and a token name the account that was asked for, and no
\* other statement touches the table. (accounts/services.py:18-59,
\* accounts/views.py:70-92, 140-165)
RegistersAtomically == Registry!Spec
=============================================================================
