--------------------------- MODULE AccountsProofs ---------------------------
(***************************************************************************)
(* Proofs about registration and login, for any number of requests: types, *)
(* unique addresses, whose password opens an account, and that requests    *)
(* are as good as atomic.                                                  *)
(***************************************************************************)
EXTENDS Accounts, TLAPS

-----------------------------------------------------------------------------
(* Types.                                                                  *)

\* A request under way has a body that Lower and Passwords apply to, and a row
\* that the table may hold.
LEMMA BodyType ==
    ASSUME TypeOK, NEW r \in Requests, req[r].step # "idle"
    PROVE  /\ req[r].email \in Emails /\ req[r].password \in Passwords
           /\ req[r].valid \in BOOLEAN
           /\ Lower[req[r].email] \in Emails
           /\ Lower[Lower[req[r].email]] = Lower[req[r].email]
           /\ RowOf(r) \in Account
<1>1. /\ req[r].email \in Emails /\ req[r].password \in Passwords
      /\ req[r].valid \in BOOLEAN
  BY DEF TypeOK, RequestState
<1>2. Lower[req[r].email] \in Emails /\ Lower[Lower[req[r].email]] = Lower[req[r].email]
  BY <1>1, LowerAssumption
<1>3. Nfkc[Lower[req[r].email]] \in Emails
  BY <1>2, NfkcAssumption
<1> QED BY <1>1, <1>2, <1>3 DEF RowOf, Account

\* What going on to a step does to the local states.
LEMMA GotoValue ==
    ASSUME TypeOK, NEW r \in Requests, NEW step \in Steps, Goto(r, step)
    PROVE  /\ req' \in [Requests -> RequestState]
           /\ \A s \in Requests : s # r => req'[s] = req[s]
           /\ req'[r].step = step
           /\ req'[r].op = req[r].op /\ req'[r].email = req[r].email
           /\ req'[r].password = req[r].password /\ req'[r].valid = req[r].valid
           /\ req'[r].reply = req[r].reply /\ req'[r].user = req[r].user
<1>1. req[r] \in RequestState
  BY DEF TypeOK
<1>2. [req[r] EXCEPT !.step = step] \in RequestState
  BY <1>1 DEF RequestState
<1>3. /\ req' \in [Requests -> RequestState]
      /\ req'[r] = [req[r] EXCEPT !.step = step]
      /\ \A s \in Requests : s # r => req'[s] = req[s]
  BY <1>2 DEF TypeOK, Goto
<1> QED BY <1>1, <1>3 DEF RequestState

\* What replying does to the local states.
LEMMA ReplyValue ==
    ASSUME TypeOK, NEW r \in Requests, NEW status \in Replies, NEW id \in Nat,
           Reply(r, status, id)
    PROVE  /\ req' \in [Requests -> RequestState]
           /\ \A s \in Requests : s # r => req'[s] = req[s]
           /\ req'[r].step = "done" /\ req'[r].reply = status /\ req'[r].user = id
           /\ req'[r].op = req[r].op /\ req'[r].email = req[r].email
           /\ req'[r].password = req[r].password /\ req'[r].valid = req[r].valid
<1> DEFINE new == [req[r] EXCEPT !.step = "done", !.reply = status, !.user = id]
<1>1. req[r] \in RequestState
  BY DEF TypeOK
<1>2. "done" \in Steps
  BY DEF Steps
<1>3. /\ new \in RequestState
      /\ new.step = "done" /\ new.reply = status /\ new.user = id
      /\ new.op = req[r].op /\ new.email = req[r].email
      /\ new.password = req[r].password /\ new.valid = req[r].valid
  BY <1>1, <1>2 DEF RequestState
<1>4. req' = [req EXCEPT ![r] = new]
  BY DEF Reply
<1> HIDE DEF new
<1>5. /\ req' \in [Requests -> RequestState]
      /\ req'[r] = new
      /\ \A s \in Requests : s # r => req'[s] = req[s]
  BY <1>3, <1>4 DEF TypeOK
<1> QED BY <1>3, <1>5

\* What storing a row does to the table and to the local states.
LEMMA StoreValue ==
    ASSUME TypeOK, NEW r \in Requests, NEW row \in Account, Store(r, row)
    PROVE  /\ users' \in Seq(Account)
           /\ Len(users) + 1 \in Nat
           /\ DOMAIN users' = DOMAIN users \cup {Len(users) + 1}
           /\ users'[Len(users) + 1] = row
           /\ \A i \in DOMAIN users : users'[i] = users[i]
           /\ req' \in [Requests -> RequestState]
           /\ \A s \in Requests : s # r => req'[s] = req[s]
           /\ req'[r].step = "respond" /\ req'[r].user = Len(users) + 1
           /\ req'[r].op = req[r].op /\ req'[r].email = req[r].email
           /\ req'[r].password = req[r].password /\ req'[r].valid = req[r].valid
           /\ req'[r].reply = req[r].reply
<1>1. PICK k : k = Len(users) + 1
  OBVIOUS
<1> DEFINE new == [req[r] EXCEPT !.step = "respond", !.user = k]
<1>2. req[r] \in RequestState /\ k \in Nat /\ "respond" \in Steps
  BY <1>1 DEF TypeOK, Steps
<1>3. /\ new \in RequestState
      /\ new.step = "respond" /\ new.user = k
      /\ new.op = req[r].op /\ new.email = req[r].email
      /\ new.password = req[r].password /\ new.valid = req[r].valid
      /\ new.reply = req[r].reply
  BY <1>2 DEF RequestState
<1>4. req' = [req EXCEPT ![r] = new]
  BY <1>1 DEF Store
<1> HIDE DEF new
<1>5. /\ req' \in [Requests -> RequestState]
      /\ req'[r] = new
      /\ \A s \in Requests : s # r => req'[s] = req[s]
  BY <1>3, <1>4 DEF TypeOK
<1>6. /\ users' \in Seq(Account)
      /\ DOMAIN users' = DOMAIN users \cup {k}
      /\ users'[k] = row
      /\ \A i \in DOMAIN users : users'[i] = users[i]
  BY <1>1 DEF Store, TypeOK
<1> QED BY <1>1, <1>2, <1>3, <1>5, <1>6

\* What receiving a body does to the local states.
LEMMA ReceiveValue ==
    ASSUME TypeOK, NEW r \in Requests, NEW op \in {"register", "login"},
           NEW e \in Emails, NEW p \in Passwords, NEW ok \in BOOLEAN,
           Receive(r, op, e, p, ok)
    PROVE  /\ UNCHANGED users /\ req[r].step = "idle"
           /\ req' \in [Requests -> RequestState]
           /\ \A s \in Requests : s # r => req'[s] = req[s]
           /\ req'[r].step = IF op = "register" THEN "validate" ELSE "login"
           /\ req'[r].op = op /\ req'[r].email = e /\ req'[r].password = p
           /\ req'[r].valid = ok /\ req'[r].reply = "none"
<1>1. PICK step, idle : /\ step = IF op = "register" THEN "validate" ELSE "login"
                        /\ idle = IdleRequest
  OBVIOUS
<1> DEFINE new == [idle EXCEPT !.step = step, !.op = op, !.email = e,
                               !.password = p, !.valid = ok]
<1>2. req' = [req EXCEPT ![r] = new] /\ UNCHANGED users /\ req[r].step = "idle"
  BY <1>1 DEF Receive
<1>3. idle \in RequestState /\ idle.reply = "none"
  BY <1>1 DEF RequestState, Steps, Replies, IdleRequest
<1>4. step \in Steps
  BY <1>1 DEF Steps
<1>5. /\ new \in RequestState
      /\ new.step = step /\ new.op = op /\ new.email = e /\ new.password = p
      /\ new.valid = ok /\ new.reply = "none"
  BY <1>3, <1>4 DEF RequestState
<1> HIDE DEF new
<1>6. /\ req' \in [Requests -> RequestState]
      /\ req'[r] = new
      /\ \A s \in Requests : s # r => req'[s] = req[s]
  BY <1>2, <1>5 DEF TypeOK
<1> QED BY <1>1, <1>2, <1>5, <1>6

\* Every status that an action replies with is one.
LEMMA StatusType ==
    /\ {"200", "201", "400_duplicate", "400_invalid", "401", "500", "lost"}
          = Replies \ {"none"}
    /\ 0 \in Nat
BY DEF Replies

\* So all keep the type of the local states.
LEMMA LocalType ==
    ASSUME TypeOK, NEW r \in Requests, req[r].step # "idle",
           \/ \E step \in Steps : Goto(r, step)
           \/ \E status \in Replies, id \in Nat : Reply(r, status, id)
    PROVE  /\ req' \in [Requests -> RequestState]
           /\ \A s \in Requests : req'[s].step # "idle" =>
                 req'[s].email \in Emails /\ req'[s].password \in Passwords
BY GotoValue, ReplyValue, BodyType DEF TypeOK

\* The whole type invariant, for every number of requests and addresses.
THEOREM TypeCorrect == Spec => []TypeOK
<1>1. Init => TypeOK
  BY DEF Init, TypeOK, IdleRequest, RequestState, Steps, Replies
<1>2. TypeOK /\ [Next]_vars => TypeOK'
  <2> SUFFICES ASSUME TypeOK, [Next]_vars PROVE TypeOK' OBVIOUS
  <2>1. CASE UNCHANGED vars
    BY <2>1 DEF TypeOK, vars
  <2>2. ASSUME NEW r \in Requests, NEW op \in {"register", "login"}, NEW e \in Emails,
               NEW p \in Passwords, NEW ok \in BOOLEAN, Receive(r, op, e, p, ok)
        PROVE  TypeOK'
    BY <2>2, ReceiveValue DEF TypeOK
  <2>3. ASSUME NEW r \in Requests, Validate(r) PROVE TypeOK'
    <3>1. req[r].step # "idle" BY <2>3 DEF Validate, At
    <3> QED BY <2>3, <3>1, LocalType, StatusType DEF Validate, TypeOK, Steps
  <2>4. ASSUME NEW r \in Requests, CheckAgain(r) PROVE TypeOK'
    <3>1. req[r].step # "idle" BY <2>4 DEF CheckAgain, At
    <3> QED BY <2>4, <3>1, LocalType, StatusType DEF CheckAgain, TypeOK, Steps
  <2>5. ASSUME NEW r \in Requests, Insert(r) PROVE TypeOK'
    <3>1. req[r].step # "idle" BY <2>5 DEF Insert, At
    <3>2. CASE Store(r, RowOf(r))
      BY <3>1, <3>2, BodyType, StoreValue DEF TypeOK
    <3>3. CASE Reply(r, "500", 0) /\ UNCHANGED users
      BY <3>1, <3>3, LocalType, StatusType DEF TypeOK
    <3> QED BY <2>5, <3>2, <3>3 DEF Insert
  <2>6. ASSUME NEW r \in Requests, Respond(r) PROVE TypeOK'
    <3>1. req[r].step # "idle" BY <2>6 DEF Respond, At
    <3>2. req[r].user \in Nat BY DEF TypeOK, RequestState
    <3> QED BY <2>6, <3>1, <3>2, LocalType, StatusType DEF Respond, TypeOK
  <2>7. ASSUME NEW r \in Requests, Login(r) PROVE TypeOK'
    <3>1. req[r].step # "idle" BY <2>7 DEF Login, At
    <3>2. DOMAIN users \subseteq Nat BY DEF TypeOK
    <3>3. \E status \in Replies, id \in Nat : Reply(r, status, id)
      BY <2>7, <3>2, StatusType DEF Login
    <3> QED BY <2>7, <3>1, <3>3, LocalType DEF Login, TypeOK
  <2>8. ASSUME NEW r \in Requests, Crash(r) PROVE TypeOK'
    BY <2>8, LocalType, StatusType DEF Crash, TypeOK
  <2> QED BY <2>1, <2>2, <2>3, <2>4, <2>5, <2>6, <2>7, <2>8
          DEF Next, RequestNext, Quiescent
<1> QED BY <1>1, <1>2, PTL DEF Spec

-----------------------------------------------------------------------------
(* One account per address.                                                *)

\* The inductive invariant: addresses are stored in lower case and name their
\* row, so the index that keeps names apart keeps addresses apart too. It does
\* not take that different addresses have different names.
UniqueInv ==
    /\ \A i \in DOMAIN users : /\ Lower[users[i].email] = users[i].email
                               /\ users[i].username = Nfkc[users[i].email]
    /\ \A i, j \in DOMAIN users : users[i].username = users[j].username => i = j

\* The only statement that writes a row keeps the names apart.
LEMMA InsertKeepsUnique ==
    ASSUME TypeOK, UniqueInv, NEW r \in Requests, Insert(r)
    PROVE  UniqueInv'
<1>1. CASE UNCHANGED users
  BY <1>1 DEF UniqueInv
<1>2. CASE Storable(r) /\ Store(r, RowOf(r))
  <2>1. PICK row, k : row = RowOf(r) /\ k = Len(users) + 1
    OBVIOUS
  <2>2. req[r].step # "idle"
    BY DEF Insert, At
  <2>3. /\ DOMAIN users' = DOMAIN users \cup {k}
        /\ users'[k] = row
        /\ \A i \in DOMAIN users : users'[i] = users[i]
    BY <1>2, <2>1, <2>2, BodyType, StoreValue
  <2>4. \A i \in DOMAIN users : users[i].username # row.username
    BY <1>2, <2>1 DEF Storable, Taken
  <2>5. Lower[row.email] = row.email /\ row.username = Nfkc[row.email]
    BY <2>1, <2>2, BodyType DEF RowOf
  <2> QED BY <2>3, <2>4, <2>5 DEF UniqueInv
<1> QED BY <1>1, <1>2 DEF Insert

LEMMA UniqueInvariant == Spec => [](TypeOK /\ UniqueInv)
<1>1. Init => UniqueInv
  BY DEF Init, UniqueInv
<1>2. TypeOK /\ UniqueInv /\ [Next]_vars => UniqueInv'
  <2> SUFFICES ASSUME TypeOK, UniqueInv, [Next]_vars PROVE UniqueInv' OBVIOUS
  <2>1. CASE UNCHANGED users
    BY <2>1 DEF UniqueInv
  <2>2. CASE \E r \in Requests : Insert(r)
    BY <2>2, InsertKeepsUnique
  <2> QED BY <2>1, <2>2 DEF Next, RequestNext, Receive, Validate, CheckAgain,
                            Respond, Login, Crash, Quiescent, vars
<1> QED BY <1>1, <1>2, TypeCorrect, PTL DEF Spec

\* However many registrations race, no two accounts share an address.
THEOREM AddressesAreUnique == Spec => []OneAccountPerEmail
<1>1. UniqueInv => OneAccountPerEmail
  BY DEF UniqueInv, OneAccountPerEmail
<1> QED BY <1>1, UniqueInvariant, PTL

-----------------------------------------------------------------------------
(* A token needs the password of a registration that was not refused.      *)

\* Request r is the one that inserted row i.
Registered(r, i) ==
    /\ req[r].op = "register" /\ req[r].step \in {"respond", "done"}
    /\ req[r].reply \in {"none", "201", "lost"}
    /\ users[i] = RowOf(r)

\* The inductive invariant: every row was inserted by a request that was not
\* refused, a 200 names the row that matched, and a reply is a last step.
TokenInv ==
    /\ \A i \in DOMAIN users : \E r \in Requests : Registered(r, i)
    /\ \A s \in Requests :
          /\ req[s].reply = "200" =>
                /\ req[s].user \in DOMAIN users
                /\ Opens(req[s].user, Lower[req[s].email], req[s].password)
          /\ req[s].step # "done" => req[s].reply = "none"
          /\ req[s].step \in {"validate", "check", "insert", "respond"}
                => req[s].op = "register"

\* A step after which every row is as before and every registration that
\* inserted one still is keeps the first conjunct.
LEMMA RowsKeepOwner ==
    ASSUME TypeOK, TokenInv, UNCHANGED users,
           \A r \in Requests, i \in DOMAIN users : Registered(r, i) => Registered(r, i)'
    PROVE  \A i \in DOMAIN users' : \E r \in Requests : Registered(r, i)'
<1> SUFFICES ASSUME NEW i \in DOMAIN users' PROVE \E r \in Requests : Registered(r, i)'
  OBVIOUS
<1>1. i \in DOMAIN users
  OBVIOUS
<1>2. PICK r \in Requests : Registered(r, i)
  BY <1>1 DEF TokenInv
<1>3. Registered(r, i)'
  BY <1>1, <1>2
<1> QED BY <1>3

\* Steps that leave the table alone.
LEMMA QuietKeepsToken ==
    ASSUME TypeOK, TokenInv, UNCHANGED users, NEW r \in Requests,
           \A s \in Requests : s # r => req'[s] = req[s],
           /\ req'[r].op = "register" \/ req'[r].step \in {"login", "done"}
           /\ req'[r].step # "done" => req'[r].reply = "none"
           /\ req[r].step \notin {"idle", "done"} =>
                 /\ req'[r].op = req[r].op /\ req'[r].email = req[r].email
                 /\ req'[r].password = req[r].password
           /\ req[r].step # "done"
           /\ req[r].step = "respond" => req'[r].step = "done" /\ req'[r].reply \in {"201", "lost"}
           /\ req'[r].reply = "200" =>
                 /\ req'[r].user \in DOMAIN users
                 /\ users[req'[r].user].username = Lower[req'[r].email]
                 /\ users[req'[r].user].password = req'[r].password
    PROVE  TokenInv'
<1>1. \A s \in Requests, i \in DOMAIN users : Registered(s, i) => Registered(s, i)'
  BY DEF Registered, RowOf
<1>2. \A i \in DOMAIN users' : \E s \in Requests : Registered(s, i)'
  BY <1>1, RowsKeepOwner
<1>3. \A s \in Requests :
          /\ req'[s].reply = "200" =>
                /\ req'[s].user \in DOMAIN users'
                /\ users'[req'[s].user].username = Lower[req'[s].email]
                /\ users'[req'[s].user].password = req'[s].password
          /\ req'[s].step # "done" => req'[s].reply = "none"
          /\ req'[s].step \in {"validate", "check", "insert", "respond"}
                => req'[s].op = "register"
  BY DEF TokenInv, Opens
<1> QED BY <1>2, <1>3 DEF TokenInv, Opens

\* A registration that goes on.
LEMMA GotoKeepsToken ==
    ASSUME TypeOK, TokenInv, UNCHANGED users, NEW r \in Requests,
           req[r].step \in {"validate", "check"}, NEW step \in {"check", "insert"},
           Goto(r, step)
    PROVE  TokenInv'
<1>1. step \in Steps
  BY DEF Steps
<1>2. req[r].op = "register" /\ req[r].reply = "none"
  BY DEF TokenInv
<1>3. /\ \A s \in Requests : s # r => req'[s] = req[s]
      /\ req'[r].step = step /\ req'[r].op = req[r].op /\ req'[r].email = req[r].email
      /\ req'[r].password = req[r].password /\ req'[r].reply = req[r].reply
  BY <1>1, GotoValue
<1> QED BY <1>2, <1>3, QuietKeepsToken

\* A request that is answered.
LEMMA ReplyKeepsToken ==
    ASSUME TypeOK, TokenInv, UNCHANGED users, NEW r \in Requests,
           req[r].step \notin {"idle", "done"},
           NEW status \in Replies \ {"none"}, NEW id \in Nat, Reply(r, status, id),
           req[r].step = "respond" => status \in {"201", "lost"},
           status = "200" =>
              id \in DOMAIN users /\ Opens(id, Lower[req[r].email], req[r].password)
    PROVE  TokenInv'
<1>1. /\ \A s \in Requests : s # r => req'[s] = req[s]
      /\ req'[r].step = "done" /\ req'[r].reply = status /\ req'[r].user = id
      /\ req'[r].op = req[r].op /\ req'[r].email = req[r].email
      /\ req'[r].password = req[r].password
  BY ReplyValue
<1> QED BY <1>1, QuietKeepsToken DEF Opens

\* The insert itself.
LEMMA InsertKeepsToken ==
    ASSUME TypeOK, TokenInv, NEW r \in Requests, Insert(r)
    PROVE  TokenInv'
<1>0. req[r].step = "insert"
  BY DEF Insert, At
<1>1. CASE UNCHANGED users /\ Reply(r, "500", 0)
  BY <1>0, <1>1, StatusType, ReplyKeepsToken
<1>2. CASE Store(r, RowOf(r))
  <2>0. PICK k, row : k = Len(users) + 1 /\ row = RowOf(r)
    OBVIOUS
  <2>1. /\ DOMAIN users' = DOMAIN users \cup {k}
        /\ users'[k] = row
        /\ \A i \in DOMAIN users : users'[i] = users[i]
        /\ \A s \in Requests : s # r => req'[s] = req[s]
        /\ req'[r].step = "respond"
        /\ req'[r].op = req[r].op /\ req'[r].email = req[r].email
        /\ req'[r].password = req[r].password /\ req'[r].reply = req[r].reply
    BY <1>0, <1>2, <2>0, BodyType, StoreValue
  <2>2. req[r].op = "register" /\ req[r].reply = "none"
    BY <1>0 DEF TokenInv
  <2>3. Registered(r, k)'
    <3>1. RowOf(r)' = row
      BY <2>0, <2>1 DEF RowOf
    <3> QED BY <3>1, <2>1, <2>2 DEF Registered
  <2>4. ASSUME NEW i \in DOMAIN users PROVE \E s \in Requests : Registered(s, i)'
    <3>1. PICK s \in Requests : Registered(s, i)
      BY DEF TokenInv
    <3>2. s # r
      BY <1>0, <3>1 DEF Registered
    <3>3. Registered(s, i)'
      BY <3>1, <3>2, <2>1 DEF Registered, RowOf
    <3> QED BY <3>3
  <2>5. \A i \in DOMAIN users' : \E s \in Requests : Registered(s, i)'
    <3> SUFFICES ASSUME NEW i \in DOMAIN users' PROVE \E s \in Requests : Registered(s, i)'
      OBVIOUS
    <3>1. i \in DOMAIN users \/ i = k
      BY <2>1
    <3>2. CASE i = k
      BY <3>2, <2>3
    <3> QED BY <3>1, <3>2, <2>4
  <2>6. \A s \in Requests :
            /\ req'[s].reply = "200" =>
                  /\ req'[s].user \in DOMAIN users'
                  /\ users'[req'[s].user].username = Lower[req'[s].email]
                  /\ users'[req'[s].user].password = req'[s].password
            /\ req'[s].step # "done" => req'[s].reply = "none"
            /\ req'[s].step \in {"validate", "check", "insert", "respond"}
                  => req'[s].op = "register"
    BY <2>1, <2>2 DEF TokenInv, Opens
  <2> QED BY <2>5, <2>6 DEF TokenInv, Opens
<1> QED BY <1>1, <1>2 DEF Insert

\* Every step keeps it.
LEMMA TokenInvariant == Spec => [](TypeOK /\ TokenInv)
<1>1. Init => TokenInv
  BY DEF Init, TokenInv, IdleRequest
<1>2. TypeOK /\ TokenInv /\ [Next]_vars => TokenInv'
  <2> SUFFICES ASSUME TypeOK, TokenInv, [Next]_vars PROVE TokenInv' OBVIOUS
  <2>1. CASE UNCHANGED vars
    BY <2>1 DEF TokenInv, Registered, RowOf, Opens, vars
  <2>2. ASSUME NEW r \in Requests, NEW op \in {"register", "login"}, NEW e \in Emails,
               NEW p \in Passwords, NEW ok \in BOOLEAN, Receive(r, op, e, p, ok)
        PROVE  TokenInv'
    BY <2>2, ReceiveValue, QuietKeepsToken
  <2>3. ASSUME NEW r \in Requests, Validate(r) PROVE TokenInv'
    BY <2>3, StatusType, GotoKeepsToken, ReplyKeepsToken DEF Validate, At
  <2>4. ASSUME NEW r \in Requests, CheckAgain(r) PROVE TokenInv'
    BY <2>4, StatusType, GotoKeepsToken, ReplyKeepsToken DEF CheckAgain, At
  <2>5. ASSUME NEW r \in Requests, Insert(r) PROVE TokenInv'
    BY <2>5, InsertKeepsToken
  <2>6. ASSUME NEW r \in Requests, Respond(r) PROVE TokenInv'
    <3>1. req[r].user \in Nat
      BY DEF TypeOK, RequestState
    <3> QED BY <2>6, <3>1, StatusType, ReplyKeepsToken DEF Respond, At
  <2>7. ASSUME NEW r \in Requests, Login(r) PROVE TokenInv'
    <3>1. DOMAIN users \subseteq Nat /\ req[r].step = "login" /\ UNCHANGED users
      BY <2>7 DEF Login, At, TypeOK
    <3>2. ASSUME NEW i \in DOMAIN users, Opens(i, Lower[req[r].email], req[r].password),
                 Reply(r, "200", i)
          PROVE  TokenInv'
      BY <3>1, <3>2, StatusType, ReplyKeepsToken
    <3>3. CASE Reply(r, "401", 0)
      BY <3>1, <3>3, StatusType, ReplyKeepsToken
    <3> QED BY <2>7, <3>2, <3>3 DEF Login
  <2>8. ASSUME NEW r \in Requests, Crash(r) PROVE TokenInv'
    BY <2>8, StatusType, ReplyKeepsToken DEF Crash
  <2> QED BY <2>1, <2>2, <2>3, <2>4, <2>5, <2>6, <2>7, <2>8
          DEF Next, RequestNext, Quiescent
<1> QED BY <1>1, <1>2, TypeCorrect, PTL DEF Spec

\* No refused registration ever leaves a password that opens an account.
THEOREM TokensNeedOwnPassword == Spec => []TokenNeedsOwnPassword
<1>1. TokenInv => TokenNeedsOwnPassword
  <2> SUFFICES ASSUME TokenInv, NEW s \in Requests, req[s].reply = "200"
               PROVE  /\ users[req[s].user].username = Lower[req[s].email]
                      /\ \E r \in Requests :
                            /\ req[r].op = "register" /\ req[r].reply \in {"none", "201", "lost"}
                            /\ users[req[s].user] = RowOf(r)
                            /\ req[r].password = req[s].password
    BY DEF TokenNeedsOwnPassword
  <2>1. /\ req[s].user \in DOMAIN users
        /\ users[req[s].user].username = Lower[req[s].email]
        /\ users[req[s].user].password = req[s].password
    BY DEF TokenInv, Opens
  <2>2. PICK r \in Requests : Registered(r, req[s].user)
    BY <2>1 DEF TokenInv
  <2>3. req[r].password = req[s].password
    BY <2>1, <2>2 DEF Registered, RowOf
  <2> QED BY <2>1, <2>2, <2>3 DEF Registered
<1> QED BY <1>1, TokenInvariant, PTL

-----------------------------------------------------------------------------
(* Who was accepted can log in.                                            *)

\* The inductive invariant: from its insert on a registration names its row, a
\* body that is looked up again was valid, and a request not received is blank.
OwnRowInv ==
    \A r \in Requests :
        /\ At(r, "respond") \/ req[r].reply = "201" =>
              req[r].user \in DOMAIN users /\ users[req[r].user] = RowOf(r)
        /\ At(r, "check") \/ At(r, "insert") => req[r].valid
        /\ At(r, "login") => req[r].op = "login"
        /\ At(r, "idle") => req[r] = IdleRequest

\* Rows are never changed or removed.
LEMMA RowsStay ==
    ASSUME TypeOK, [Next]_vars, NEW i \in DOMAIN users
    PROVE  i \in DOMAIN users' /\ users'[i] = users[i]
<1>1. ASSUME NEW r \in Requests, Insert(r) PROVE i \in DOMAIN users' /\ users'[i] = users[i]
  <2>1. CASE UNCHANGED users
    BY <2>1
  <2>2. CASE Store(r, RowOf(r))
    BY <1>1, <2>2, BodyType, StoreValue DEF Insert, At
  <2> QED BY <1>1, <2>1, <2>2 DEF Insert
<1> QED BY <1>1 DEF Next, RequestNext, Receive, Validate, CheckAgain, Respond, Login,
                    Crash, Quiescent, vars

\* A step of one request concerns no other.
LEMMA OwnRowFrame ==
    ASSUME TypeOK, OwnRowInv, [Next]_vars, NEW r \in Requests,
           \A s \in Requests : s # r => req'[s] = req[s],
           At(r, "respond")' \/ req'[r].reply = "201" =>
              req'[r].user \in DOMAIN users' /\ users'[req'[r].user] = RowOf(r)',
           req'[r].step \in {"check", "insert"} => req'[r].valid,
           req'[r].step = "login" => req'[r].op = "login",
           req'[r].step # "idle"
    PROVE  OwnRowInv'
<1> SUFFICES ASSUME NEW s \in Requests, s # r
             PROVE  /\ At(s, "respond")' \/ req'[s].reply = "201" =>
                          req'[s].user \in DOMAIN users' /\ users'[req'[s].user] = RowOf(s)'
                    /\ At(s, "check")' \/ At(s, "insert")' => req'[s].valid
                    /\ At(s, "login")' => req'[s].op = "login"
                    /\ At(s, "idle")' => req'[s] = IdleRequest
  BY DEF OwnRowInv, At
<1>1. req'[s] = req[s]
  OBVIOUS
<1> QED BY <1>1, RowsStay DEF OwnRowInv, At, RowOf

LEMMA OwnRowStep == TypeOK /\ TokenInv /\ OwnRowInv /\ [Next]_vars => OwnRowInv'
<1> SUFFICES ASSUME TypeOK, TokenInv, OwnRowInv, [Next]_vars PROVE OwnRowInv' OBVIOUS
<1>1. CASE UNCHANGED vars
  BY <1>1 DEF OwnRowInv, RowOf, At, vars
<1>2. ASSUME NEW r \in Requests, NEW op \in {"register", "login"}, NEW e \in Emails,
             NEW p \in Passwords, NEW ok \in BOOLEAN, Receive(r, op, e, p, ok)
      PROVE  OwnRowInv'
  BY <1>2, ReceiveValue, OwnRowFrame DEF At
<1>3. ASSUME NEW r \in Requests, req[r].step # "done", req[r].valid,
             NEW step \in {"check", "insert"}, Goto(r, step)
      PROVE  OwnRowInv'
  <2>1. /\ \A s \in Requests : s # r => req'[s] = req[s]
        /\ req'[r].reply = "none" /\ req'[r].step = step /\ req'[r].valid
    BY <1>3, GotoValue DEF TokenInv, Steps
  <2> QED BY <2>1, OwnRowFrame DEF At
<1>4. ASSUME NEW r \in Requests, NEW status \in Replies, NEW id \in Nat,
             Reply(r, status, id), UNCHANGED users,
             status = "201" => id \in DOMAIN users /\ users[id] = RowOf(r)
      PROVE  OwnRowInv'
  <2>1. /\ \A s \in Requests : s # r => req'[s] = req[s]
        /\ req'[r].reply = status /\ req'[r].step = "done" /\ req'[r].user = id
        /\ req'[r].email = req[r].email /\ req'[r].password = req[r].password
    BY <1>4, ReplyValue
  <2>2. RowOf(r)' = RowOf(r)
    BY <2>1 DEF RowOf
  <2> QED BY <1>4, <2>1, <2>2, OwnRowFrame DEF At
<1>5. ASSUME NEW r \in Requests, At(r, "insert"), Store(r, RowOf(r)) PROVE OwnRowInv'
  <2>1. PICK k, row : k = Len(users) + 1 /\ row = RowOf(r)
    OBVIOUS
  <2>2. /\ k \in DOMAIN users' /\ users'[k] = row
        /\ \A s \in Requests : s # r => req'[s] = req[s]
        /\ req'[r].step = "respond" /\ req'[r].user = k
        /\ req'[r].email = req[r].email /\ req'[r].password = req[r].password
    BY <1>5, <2>1, BodyType, StoreValue DEF At
  <2>3. RowOf(r)' = row
    BY <2>1, <2>2 DEF RowOf
  <2> QED BY <2>2, <2>3, OwnRowFrame
<1>6. ASSUME NEW r \in Requests, RequestNext(r) \/ Crash(r) PROVE OwnRowInv'
  <2>1. DOMAIN users \subseteq Nat
    BY DEF TypeOK
  <2>2. CASE Validate(r) \/ CheckAgain(r)
    BY <1>3, <1>4, <2>2, StatusType DEF Validate, CheckAgain, At, OwnRowInv
  <2>3. CASE Insert(r)
    BY <1>4, <1>5, <2>3, StatusType DEF Insert
  <2>4. CASE Respond(r)
    BY <1>4, <2>1, <2>4, StatusType DEF Respond, OwnRowInv
  <2>5. CASE Login(r)
    BY <1>4, <2>1, <2>5, StatusType DEF Login
  <2>6. CASE Crash(r)
    BY <1>4, <2>6, StatusType DEF Crash
  <2> QED BY <1>6, <2>2, <2>3, <2>4, <2>5, <2>6 DEF RequestNext
<1> QED BY <1>1, <1>2, <1>6 DEF Next, Quiescent

\* Only a login that no row opens is answered 401.
LEMMA RefusedFoundNoRow ==
    ASSUME TypeOK, TokenInv, [Next]_vars, NEW s \in Requests,
           req[s].reply = "none", req'[s].reply = "401"
    PROVE  \A i \in DOMAIN users : ~Opens(i, Lower[req[s].email], req[s].password)
<1>1. ASSUME NEW r \in Requests, NEW status \in Replies, NEW id \in Nat,
             Reply(r, status, id), status # "401"
      PROVE  FALSE
  BY <1>1, ReplyValue
<1>2. ASSUME NEW r \in Requests, NEW step \in Steps, Goto(r, step) PROVE FALSE
  BY <1>2, GotoValue
<1>3. ASSUME NEW r \in Requests, Login(r)
      PROVE  \A i \in DOMAIN users : ~Opens(i, Lower[req[s].email], req[s].password)
  <2>1. DOMAIN users \subseteq Nat
    BY DEF TypeOK
  <2>2. /\ \A i \in DOMAIN users : ~Opens(i, Lower[req[r].email], req[r].password)
        /\ Reply(r, "401", 0)
    BY <1>1, <1>3, <2>1, StatusType DEF Login
  <2>3. r = s
    BY <2>2, StatusType, ReplyValue
  <2> QED BY <2>2, <2>3
<1>4. ASSUME NEW r \in Requests, NEW op \in {"register", "login"}, NEW e \in Emails,
             NEW p \in Passwords, NEW ok \in BOOLEAN, Receive(r, op, e, p, ok)
      PROVE  FALSE
  BY <1>4, ReceiveValue
<1>5. ASSUME NEW r \in Requests, Insert(r) PROVE FALSE
  <2>1. CASE Store(r, RowOf(r))
    BY <1>5, <2>1, BodyType, StoreValue DEF Insert, At
  <2>2. CASE Reply(r, "500", 0)
    BY <1>1, <2>2, StatusType
  <2> QED BY <1>5, <2>1, <2>2 DEF Insert
<1>6. ASSUME NEW r \in Requests,
             Validate(r) \/ CheckAgain(r) \/ Respond(r) \/ Crash(r)
      PROVE  FALSE
  <2>1. {"check", "insert"} \subseteq Steps /\ req[r].user \in Nat
    BY DEF Steps, TypeOK, RequestState
  <2> QED BY <1>1, <1>2, <1>6, <2>1, StatusType DEF Validate, CheckAgain, Respond, Crash
<1>7. ~UNCHANGED vars
  BY DEF vars
<1> QED BY <1>3, <1>4, <1>5, <1>6, <1>7 DEF Next, RequestNext, Quiescent

LEMMA OwnRowInvariant == Spec => [](TypeOK /\ TokenInv /\ OwnRowInv)
<1>1. Init => OwnRowInv
  BY DEF Init, OwnRowInv, IdleRequest, At
<1> QED BY <1>1, OwnRowStep, TokenInvariant, PTL DEF Spec

\* Whoever got a 201 for an address that NFKC leaves alone can log in from then
\* on, with any spelling of it: for any number of requests that race, normalise
\* to the same name or are killed beside it.
THEOREM AcceptedCanLogIn == Spec => PlainAddressLogsIn
<1>1. TypeOK /\ TokenInv /\ OwnRowInv /\ [Next]_vars =>
        [\A s \in Requests :
            req[s].reply = "none" /\ req'[s].reply = "401" =>
                \A r \in Requests :
                    req[r].reply = "201" => Renamed(req[r].email) \/ NotTurnedAway(r, s)]_vars
  <2> SUFFICES ASSUME TypeOK, TokenInv, OwnRowInv, [Next]_vars,
                      NEW s \in Requests, req[s].reply = "none", req'[s].reply = "401",
                      NEW r \in Requests, req[r].reply = "201",
                      ~Renamed(req[r].email), ~NotTurnedAway(r, s)
               PROVE  FALSE
    OBVIOUS
  <2>1. PICK i \in DOMAIN users : users[i] = RowOf(r)
    BY DEF OwnRowInv
  <2>2. users[i].username = Lower[req[s].email] /\ users[i].password = req[s].password
    BY <2>1 DEF RowOf, Renamed, NotTurnedAway
  <2> QED BY <2>2, RefusedFoundNoRow DEF Opens
<1> QED BY <1>1, OwnRowInvariant, PTL DEF Spec, PlainAddressLogsIn

-----------------------------------------------------------------------------
(* Registration and login implement AccountRegistry.                       *)

RegistryInv == TypeOK /\ TokenInv /\ OwnRowInv

\* What request r asks of the registry.
BodyOf(r) == [email |-> Lower[req[r].email], password |-> req[r].password,
              valid |-> req[r].valid]

LEMMA SameRow == ASSUME NEW r PROVE Registry!Row(BodyOf(r)) = RowOf(r)
BY DEF Registry!Row, BodyOf, RowOf

LEMMA SameNamesTaken == ASSUME NEW name PROVE Registry!Taken(name) <=> Taken(name)
BY DEF Registry!Taken, Taken, Table

LEMMA SameStorable == ASSUME NEW r PROVE Registry!Storable(BodyOf(r)) <=> Storable(r)
BY SameNamesTaken DEF Registry!Storable, Storable, BodyOf, RowOf

\* A step of request r changes its call only.
LEMMA CallsMove ==
    ASSUME RegistryInv, [Next]_vars, NEW r \in Requests,
           \A s \in Requests : s # r => req'[s] = req[s]
    PROVE  Calls' = [Calls EXCEPT ![r] = Call(r)']
<1>1. ASSUME NEW s \in Requests, s # r PROVE Call(s)' = Call(s)
  <2>1. req'[s] = req[s]
    BY <1>1
  <2>2. req[s].reply \in {"200", "201"} => users'[req[s].user] = users[req[s].user]
    BY RowsStay DEF RegistryInv, TokenInv, OwnRowInv
  <2> QED BY <2>1, <2>2 DEF Call, Outcome, At
<1> QED BY <1>1 DEF Calls

\* What a request has asked for, once it was received.
LEMMA CallValue ==
    ASSUME NEW r \in Requests, req[r].step # "idle", req[r].reply = "none"
    PROVE  Calls[r] = [op |-> req[r].op, body |-> BodyOf(r),
                       outcome |-> Outcome(r), account |-> NoAccount]
BY DEF Calls, Call, BodyOf, At

\* What the call of a request is after a reply.
LEMMA CallAfterReply ==
    ASSUME RegistryInv, [Next]_vars, NEW r \in Requests, UNCHANGED users,
           req[r].step # "idle",
           NEW status \in Replies \ {"none"}, NEW id \in Nat, Reply(r, status, id)
    PROVE  /\ Calls' = [Calls EXCEPT ![r] = Call(r)']
           /\ Call(r)' = [op |-> req[r].op, body |-> BodyOf(r), outcome |-> OutcomeOf(status),
                          account |-> IF status \in {"200", "201"} THEN users[id]
                                      ELSE NoAccount]
           /\ Table' = Table
<1>1. /\ \A s \in Requests : s # r => req'[s] = req[s]
      /\ req'[r].step = "done" /\ req'[r].reply = status /\ req'[r].user = id
      /\ req'[r].op = req[r].op /\ req'[r].email = req[r].email
      /\ req'[r].password = req[r].password /\ req'[r].valid = req[r].valid
  BY ReplyValue DEF RegistryInv
<1>2. Outcome(r)' = OutcomeOf(status) /\ ~At(r, "idle")'
  BY <1>1 DEF Outcome, At
<1> QED BY <1>1, <1>2, CallsMove DEF Call, BodyOf, Table

\* An answer that names no account.
LEMMA ReplyDecides ==
    ASSUME RegistryInv, [Next]_vars, NEW r \in Requests, UNCHANGED users,
           req[r].step \notin {"idle", "done"},
           NEW status \in {"400_duplicate", "400_invalid", "401", "500", "lost"},
           Reply(r, status, 0)
    PROVE  Registry!Decide(r, OutcomeOf(status)) /\ Table' = Table
<1>1. PICK op, body, none, old, new, c :
         /\ op = req[r].op /\ body = BodyOf(r) /\ none = NoAccount
         /\ old = Outcome(r) /\ new = OutcomeOf(status) /\ c = Calls[r]
  OBVIOUS
<1>2. status \in Replies \ {"none"} /\ status \notin {"200", "201"} /\ 0 \in Nat
  BY StatusType
<1>3. /\ Calls' = [Calls EXCEPT ![r] = Call(r)'] /\ Table' = Table
      /\ Call(r)' = [op |-> op, body |-> body, outcome |-> new, account |-> none]
  BY <1>1, <1>2, CallAfterReply
<1>4. c = [op |-> op, body |-> body, outcome |-> old, account |-> none]
  BY <1>1, CallValue DEF RegistryInv, TokenInv
<1>5. [c EXCEPT !.outcome = new]
        = [op |-> op, body |-> body, outcome |-> new, account |-> none]
  BY <1>4
<1> QED BY <1>1, <1>3, <1>5 DEF Registry!Decide

\* An answer that names an account.
LEMMA ReplyAnswers ==
    ASSUME RegistryInv, [Next]_vars, NEW r \in Requests, UNCHANGED users,
           req[r].step \notin {"idle", "done"},
           NEW status \in {"200", "201"}, NEW i \in DOMAIN users, Reply(r, status, i)
    PROVE  Registry!Answer(r, OutcomeOf(status), users[i]) /\ Table' = Table
<1>1. PICK op, body, none, old, new, c, row :
         /\ op = req[r].op /\ body = BodyOf(r) /\ none = NoAccount
         /\ old = Outcome(r) /\ new = OutcomeOf(status) /\ c = Calls[r]
         /\ row = users[i]
  OBVIOUS
<1>2. status \in Replies \ {"none"} /\ i \in Nat
  BY StatusType DEF RegistryInv, TypeOK
<1>3. /\ Calls' = [Calls EXCEPT ![r] = Call(r)'] /\ Table' = Table
      /\ Call(r)' = [op |-> op, body |-> body, outcome |-> new, account |-> row]
  BY <1>1, <1>2, CallAfterReply
<1>4. c = [op |-> op, body |-> body, outcome |-> old, account |-> none]
  BY <1>1, CallValue DEF RegistryInv, TokenInv
<1>5. PICK d : d = [c EXCEPT !.outcome = new]
  OBVIOUS
<1>6. d = [op |-> op, body |-> body, outcome |-> new, account |-> none]
  BY <1>4, <1>5
<1>7. [c EXCEPT !.outcome = new, !.account = row] = [d EXCEPT !.account = row]
  BY <1>4, <1>5, <1>6
<1>8. [d EXCEPT !.account = row]
        = [op |-> op, body |-> body, outcome |-> new, account |-> row]
  BY <1>6
<1> QED BY <1>1, <1>3, <1>7, <1>8 DEF Registry!Answer

\* Where a request is decides what may become of its call.
LEMMA WherePending ==
    ASSUME RegistryInv, NEW r \in Requests, req[r].step \notin {"idle", "done"}
    PROVE  /\ Calls[r].body = BodyOf(r)
           /\ req[r].step \in {"validate", "check", "insert"} => Registry!Pending(r, "register")
           /\ req[r].step = "login" => Registry!Pending(r, "login")
           /\ req[r].step = "respond" => Calls[r].outcome = "stored"
<1>1. PICK op, body, old, none :
         /\ op = req[r].op /\ body = BodyOf(r) /\ old = Outcome(r) /\ none = NoAccount
  OBVIOUS
<1>2. Calls[r] = [op |-> op, body |-> body, outcome |-> old, account |-> none]
  BY <1>1, CallValue DEF RegistryInv, TokenInv
<1>3. /\ req[r].step \in {"validate", "check", "insert", "login"} => old = "pending"
      /\ req[r].step = "respond" => old = "stored"
  BY <1>1 DEF Outcome, At
<1>4. /\ req[r].step \in {"validate", "check", "insert"} => op = "register"
      /\ req[r].step = "login" => op = "login"
  BY <1>1 DEF RegistryInv, TokenInv, OwnRowInv, At
<1> QED BY <1>1, <1>2, <1>3, <1>4 DEF Registry!Pending

\* A look-up that finds the name free leaves the call as it is.
LEMMA GotoStutters ==
    ASSUME RegistryInv, [Next]_vars, NEW r \in Requests, UNCHANGED users,
           req[r].step \in {"validate", "check"}, NEW step \in {"check", "insert"},
           Goto(r, step)
    PROVE  UNCHANGED <<Table, Calls>>
<1>1. /\ \A s \in Requests : s # r => req'[s] = req[s]
      /\ req'[r].step = step /\ req'[r].op = req[r].op /\ req'[r].email = req[r].email
      /\ req'[r].password = req[r].password /\ req'[r].reply = req[r].reply
      /\ req'[r].valid = req[r].valid
  BY GotoValue DEF RegistryInv, Steps
<1>2. req[r].reply = "none"
  BY DEF RegistryInv, TokenInv
<1>3. Outcome(r) = "pending" /\ Outcome(r)' = "pending"
  BY <1>1 DEF Outcome, At
<1>4. Call(r)' = Call(r)
  BY <1>1, <1>2, <1>3 DEF Call, At
<1>5. Calls' = [Calls EXCEPT ![r] = Call(r)]
  BY <1>1, <1>4, CallsMove
<1>6. Calls' = Calls
  BY <1>5 DEF Calls
<1>7. Table' = Table
  BY DEF Table
<1> QED BY <1>6, <1>7

LEMMA ReceiveSubmits ==
    ASSUME RegistryInv, [Next]_vars, NEW r \in Requests, NEW op \in {"register", "login"},
           NEW e \in Emails, NEW p \in Passwords, NEW ok \in BOOLEAN,
           Receive(r, op, e, p, ok)
    PROVE  Registry!Submit(r)
<1> DEFINE body == [email |-> Lower[e], password |-> p, valid |-> ok]
<1>1. body \in Registry!Body
  BY LowerAssumption DEF Registry!Body
<1>2. req[r] = IdleRequest /\ UNCHANGED users
  BY DEF Receive, At, RegistryInv, OwnRowInv
<1>3. Calls[r] = Registry!Idle
  BY <1>2 DEF Calls, Call, Outcome, At, IdleRequest, Registry!Idle
<1>4. /\ \A s \in Requests : s # r => req'[s] = req[s]
      /\ req'[r].step = IF op = "register" THEN "validate" ELSE "login"
      /\ req'[r].reply = "none" /\ req'[r].op = op
      /\ req'[r].email = e /\ req'[r].password = p /\ req'[r].valid = ok
  BY ReceiveValue DEF RegistryInv
<1>5. Outcome(r)' = "pending" /\ ~At(r, "idle")'
  BY <1>4 DEF Outcome, At
<1>6. Call(r)' = [op |-> op, body |-> body, outcome |-> "pending", account |-> NoAccount]
  BY <1>4, <1>5 DEF Call
<1>7. Calls' = [Calls EXCEPT ![r] = Call(r)']
  BY <1>4, CallsMove
<1>8. Table' = Table
  BY <1>2 DEF Table
<1> HIDE DEF body
<1> QED BY <1>1, <1>3, <1>6, <1>7, <1>8 DEF Registry!Submit

\* The insert is where a registration takes effect.
LEMMA InsertRegisters ==
    ASSUME RegistryInv, [Next]_vars, NEW r \in Requests, At(r, "insert"),
           Storable(r), Store(r, RowOf(r))
    PROVE  Registry!Register(r)
<1>1. PICK k, row, op, body, none, old, c :
         /\ k = Len(users) + 1 /\ row = RowOf(r) /\ op = req[r].op /\ body = BodyOf(r)
         /\ none = NoAccount /\ old = Outcome(r) /\ c = Calls[r]
  OBVIOUS
<1>2. /\ DOMAIN users' = DOMAIN users \cup {k} /\ users'[k] = row
      /\ \A i \in DOMAIN users : users'[i] = users[i]
      /\ \A s \in Requests : s # r => req'[s] = req[s]
      /\ req'[r].step = "respond" /\ req'[r].op = req[r].op
      /\ req'[r].email = req[r].email /\ req'[r].valid = req[r].valid
      /\ req'[r].password = req[r].password /\ req'[r].reply = req[r].reply
  BY <1>1, BodyType, StoreValue DEF RegistryInv, At
<1>3. req[r].reply = "none" /\ req[r].step = "insert" /\ req[r].valid
  BY DEF RegistryInv, TokenInv, OwnRowInv, At
<1>4. c = [op |-> op, body |-> body, outcome |-> old, account |-> none]
  BY <1>1, <1>3, CallValue
<1>5. Outcome(r)' = "stored" /\ ~At(r, "idle")'
  BY <1>2 DEF Outcome, At
<1>6. Call(r)' = [op |-> op, body |-> body, outcome |-> "stored", account |-> none]
  BY <1>1, <1>2, <1>3, <1>5 DEF Call, BodyOf
<1>7. [c EXCEPT !.outcome = "stored"]
        = [op |-> op, body |-> body, outcome |-> "stored", account |-> none]
  BY <1>4
<1>8. Calls' = [Calls EXCEPT ![r] = Call(r)']
  BY <1>2, CallsMove
<1>9. Registry!Decide(r, "stored")
  BY <1>1, <1>6, <1>7, <1>8 DEF Registry!Decide
<1>10. Table' = Table \cup {row}
  BY <1>2 DEF Table
<1>11. Registry!Pending(r, "register") /\ Calls[r].body = BodyOf(r)
  BY <1>3, WherePending
<1>12. BodyOf(r).valid /\ Registry!Storable(BodyOf(r))
  BY <1>3, SameStorable DEF BodyOf
<1>13. Registry!Row(BodyOf(r)) = row
  BY <1>1, SameRow
<1> QED BY <1>9, <1>10, <1>11, <1>12, <1>13 DEF Registry!Register

LEMMA ValidateStep ==
    ASSUME RegistryInv, [Next]_vars, NEW r \in Requests, Validate(r) \/ CheckAgain(r)
    PROVE  Registry!Refuse(r) \/ Registry!Reject(r) \/ UNCHANGED <<Table, Calls>>
<1>1. /\ req[r].step \in {"validate", "check"} /\ UNCHANGED users
      /\ Registry!Pending(r, "register") /\ Calls[r].body = BodyOf(r)
  BY WherePending DEF Validate, CheckAgain, At
<1>2. BodyOf(r).email = Lower[req[r].email] /\ BodyOf(r).valid = req[r].valid
  BY DEF BodyOf
<1>3. CASE Taken(Lower[req[r].email]) /\ Reply(r, "400_duplicate", 0)
  <2>1. Registry!Decide(r, "duplicate") /\ Table' = Table
    BY <1>1, <1>3, ReplyDecides DEF OutcomeOf
  <2> QED BY <1>1, <1>2, <1>3, <2>1, SameNamesTaken DEF Registry!Refuse
<1>4. CASE /\ ~Taken(Lower[req[r].email]) /\ ~req[r].valid
           /\ Reply(r, "400_invalid", 0)
  <2>1. Registry!Decide(r, "invalid") /\ Table' = Table
    BY <1>1, <1>4, ReplyDecides DEF OutcomeOf
  <2> QED BY <1>1, <1>2, <1>4, <2>1, SameNamesTaken DEF Registry!Reject
<1>5. CASE \E step \in {"check", "insert"} : Goto(r, step)
  BY <1>1, <1>5, GotoStutters
<1> QED BY <1>3, <1>4, <1>5 DEF Validate, CheckAgain

LEMMA InsertStep ==
    ASSUME RegistryInv, [Next]_vars, NEW r \in Requests, Insert(r)
    PROVE  Registry!Register(r) \/ Registry!Fail(r)
<1>1. CASE Storable(r) /\ Store(r, RowOf(r))
  BY <1>1, InsertRegisters DEF Insert
<1>2. CASE ~Storable(r) /\ Reply(r, "500", 0) /\ UNCHANGED users
  <2>1. /\ req[r].step = "insert" /\ req[r].valid
        /\ Registry!Pending(r, "register") /\ Calls[r].body = BodyOf(r)
    BY WherePending DEF Insert, At, RegistryInv, OwnRowInv
  <2>2. Registry!Decide(r, "failed") /\ Table' = Table
    BY <1>2, <2>1, ReplyDecides DEF OutcomeOf
  <2>3. BodyOf(r).valid /\ ~Registry!Storable(BodyOf(r))
    BY <1>2, <2>1, SameStorable DEF BodyOf
  <2> QED BY <2>1, <2>2, <2>3 DEF Registry!Fail
<1> QED BY <1>1, <1>2 DEF Insert

LEMMA RespondConfirms ==
    ASSUME RegistryInv, [Next]_vars, NEW r \in Requests, Respond(r)
    PROVE  Registry!Confirm(r)
<1>1. PICK i : i = req[r].user
  OBVIOUS
<1>2. /\ req[r].step = "respond" /\ UNCHANGED users
      /\ Calls[r].outcome = "stored" /\ Calls[r].body = BodyOf(r)
  BY WherePending DEF Respond, At
<1>3. i \in DOMAIN users /\ users[i] = RowOf(r) /\ Reply(r, "201", i)
  BY <1>1 DEF Respond, RegistryInv, OwnRowInv
<1>4. Registry!Answer(r, "created", RowOf(r)) /\ Table' = Table
  BY <1>2, <1>3, ReplyAnswers DEF OutcomeOf
<1>5. RowOf(r) \in Table
  BY <1>3 DEF Table
<1> QED BY <1>2, <1>4, <1>5, SameRow DEF Registry!Confirm

LEMMA LoginStep ==
    ASSUME RegistryInv, [Next]_vars, NEW r \in Requests, Login(r)
    PROVE  Registry!LogIn(r) \/ Registry!Deny(r)
<1>1. /\ req[r].step = "login" /\ UNCHANGED users
      /\ Registry!Pending(r, "login") /\ Calls[r].body = BodyOf(r)
  BY WherePending DEF Login, At
<1>2. ASSUME NEW i \in DOMAIN users
      PROVE  Registry!Opens(users[i], BodyOf(r))
               <=> Opens(i, Lower[req[r].email], req[r].password)
  BY DEF Registry!Opens, Opens, BodyOf
<1>3. ASSUME NEW i \in DOMAIN users, Opens(i, Lower[req[r].email], req[r].password),
             Reply(r, "200", i)
      PROVE  Registry!LogIn(r)
  <2>1. Registry!Answer(r, "token", users[i]) /\ Table' = Table
    BY <1>1, <1>3, ReplyAnswers DEF OutcomeOf
  <2>2. users[i] \in Table /\ Registry!Opens(users[i], BodyOf(r))
    BY <1>2, <1>3 DEF Table
  <2> QED BY <1>1, <2>1, <2>2 DEF Registry!LogIn
<1>4. ASSUME \A i \in DOMAIN users : ~Opens(i, Lower[req[r].email], req[r].password),
             Reply(r, "401", 0)
      PROVE  Registry!Deny(r)
  <2>1. Registry!Decide(r, "denied") /\ Table' = Table
    BY <1>1, <1>4, ReplyDecides DEF OutcomeOf
  <2>2. \A row \in Table : ~Registry!Opens(row, BodyOf(r))
    BY <1>2, <1>4 DEF Table
  <2> QED BY <1>1, <2>1, <2>2 DEF Registry!Deny
<1> QED BY <1>3, <1>4 DEF Login

\* Every statement of a request is one step of the registry or none.
LEMMA RegistryStep ==
    ASSUME RegistryInv, [Next]_vars
    PROVE  Registry!Next \/ UNCHANGED <<Table, Calls>>
<1>1. CASE UNCHANGED vars
  BY <1>1 DEF vars, Table, Calls, Call, Outcome, At
<1>2. ASSUME NEW r \in Requests, NEW op \in {"register", "login"}, NEW e \in Emails,
             NEW p \in Passwords, NEW ok \in BOOLEAN, Receive(r, op, e, p, ok)
      PROVE  Registry!Next
  BY <1>2, ReceiveSubmits DEF Registry!Next
<1>3. ASSUME NEW r \in Requests, RequestNext(r)
      PROVE  Registry!Next \/ UNCHANGED <<Table, Calls>>
  BY <1>3, ValidateStep, InsertStep, RespondConfirms, LoginStep
     DEF RequestNext, Registry!Next
<1>4. ASSUME NEW r \in Requests, Crash(r) PROVE Registry!Next
  <2>1. req[r].step \notin {"idle", "done"} /\ Reply(r, "lost", 0) /\ UNCHANGED users
    BY <1>4 DEF Crash
  <2>2. Table' = Table /\ Registry!Decide(r, "lost")
    BY <2>1, ReplyDecides DEF OutcomeOf
  <2>3. Calls[r].outcome \in {"pending", "stored"}
    <3>1. req[r].step \in {"validate", "check", "insert", "login", "respond"}
      BY <2>1 DEF RegistryInv, TypeOK, RequestState, Steps
    <3> QED BY <2>1, <3>1, WherePending DEF Registry!Pending
  <2> QED BY <2>2, <2>3 DEF Registry!Lose, Registry!Next
<1> QED BY <1>1, <1>2, <1>3, <1>4 DEF Next, Quiescent

\* However many requests race, are killed, spell an address otherwise or have
\* one that normalises to another's, each is answered as if it had looked at
\* the accounts once.
THEOREM RequestsAreAtomic == Spec => RegistersAtomically
<1>1. Init => Registry!Init
  <2> SUFFICES ASSUME Init PROVE Registry!Init OBVIOUS
  <2>1. Table = {}
    BY DEF Init, Table
  <2>2. ASSUME NEW r \in Requests PROVE Call(r) = Registry!Idle
    BY DEF Init, IdleRequest, Call, Outcome, At, Registry!Idle
  <2>3. Calls = [r \in Requests |-> Registry!Idle]
    BY <2>2 DEF Calls
  <2> QED BY <2>1, <2>3 DEF Registry!Init
<1>2. RegistryInv /\ [Next]_vars => [Registry!Next]_(Registry!vars)
  BY RegistryStep DEF Registry!vars
<1>3. Spec => []RegistryInv
  BY OwnRowInvariant, PTL DEF RegistryInv
<1> QED BY <1>1, <1>2, <1>3, PTL DEF Spec, RegistersAtomically, Registry!Spec
=============================================================================
