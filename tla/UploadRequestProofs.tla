-------------------------- MODULE UploadRequestProofs --------------------------
(***************************************************************************)
(* Theorems about UploadRequest, for any number of requests, every size of *)
(* file and every setting of the limit.                                    *)
(***************************************************************************)
EXTENDS UploadRequest, TLAPS

USE SettingsAssumption, UnsetAssumption, SizeAssumption

\* The check of run_ingestion for text, see Extract.
HasText(f) == IF PdfParser(f) THEN f.content = "pdf" ELSE f.content # "blank"

Acceptable(f) == f \in File /\ f.bytes > 0 /\ ~BadFormat(f) /\ ~TooLarge(f)

-----------------------------------------------------------------------------
(* The invariant: what a request has come to at every step.                *)

Untouched(q) == ~q.stored /\ q.outcome = "none"

Waiting(q) == Untouched(q) /\ q.status = 0 /\ q.message = "none"

Accepted(q) == q.stored /\ q.status = 202 /\ q.token /\ Acceptable(q.file)

Refused(q) ==
    /\ Untouched(q)
    /\ \/ q.status = 401 /\ ~q.token /\ q.shape = "error" /\ q.message = "login"
       \/ /\ q.status = 415 /\ q.token /\ q.file = NoFile
          /\ q.shape = "detail" /\ q.message = "media"
       \/ /\ q.status = 400 /\ q.token /\ q.shape = "error"
          /\ q.file \in File => ~Acceptable(q.file)
          /\ q.message = "size" => ~BadFormat(q.file)
          /\ q.file \in File /\ q.file.bytes > 0 => q.message \in {"format", "size"}

RequestInv(q) ==
    /\ q.media # "form" => q.file = NoFile
    /\ q.step \in {"idle", "authenticate", "parse", "validate"} => Waiting(q)
    /\ q.step \in {"parse", "validate"} => q.token
    /\ q.step = "validate" => q.media = "form"
    /\ q.step = "extract" => Accepted(q) /\ q.outcome = "none"
    /\ q.step = "done" =>
          \/ Refused(q)
          \/ Accepted(q) /\ q.outcome = IF HasText(q.file) THEN "SUCCESS" ELSE "FAILURE"

Inv ==
    /\ setting \in Settings
    /\ req \in [Requests -> RequestState]
    /\ \A r \in Requests : RequestInv(req[r])

\* The values the actions put into a request are of the right kind.
LEMMA Literals ==
    /\ {"authenticate", "parse", "validate", "extract", "done"} \subseteq Steps
    /\ {"error", "detail", "payload"} \subseteq Shapes
    /\ {202, 400, 401, 415} \subseteq Statuses
    /\ {"SUCCESS", "FAILURE"} \subseteq Outcomes
  BY DEF Steps, Shapes, Statuses, Outcomes

LEMMA IdleInv == Idle \in RequestState /\ RequestInv(Idle)
  BY DEF Idle, RequestState, RequestInv, Waiting, Untouched, Steps, Shapes,
         Statuses, Outcomes, Messages, Media

LEMMA InvInit == Init => Inv
<1> SUFFICES ASSUME Init PROVE Inv OBVIOUS
<1>1. \A r \in Requests : req[r] = Idle
  BY DEF Init
<1> QED BY <1>1, IdleInv DEF Init, Inv

\* A request that changes into a state that satisfies the invariant keeps it;
\* the setting and the other requests stay.
LEMMA BecomeInv ==
    ASSUME Inv, NEW r \in Requests, NEW s \in RequestState, Become(r, s), RequestInv(s)
    PROVE  Inv'
<1>1. /\ setting' = setting /\ req' \in [Requests -> RequestState]
      /\ \A q \in Requests : req'[q] = IF q = r THEN s ELSE req[q]
  BY DEF Inv, Become
<1>2. MaxBytes' = MaxBytes
  BY <1>1 DEF MaxBytes
<1>3. ASSUME NEW q \in Requests PROVE RequestInv(req[q])'
  <2>1. PICK v : v = req'[q] /\ RequestInv(v)
    BY <1>1 DEF Inv
  <2>2. RequestInv(v)'
    BY <2>1, <1>2 DEF RequestInv, Waiting, Untouched, Accepted, Refused, Acceptable,
                      TooLarge
  <2> QED BY <2>1, <2>2
<1> QED BY <1>1, <1>3 DEF Inv

\* A state of a request has these fields.
LEMMA Fields ==
    ASSUME NEW q \in RequestState
    PROVE  /\ q.file \in File \cup {NoFile} /\ q.media \in Media
           /\ q.token \in BOOLEAN /\ q.stored \in BOOLEAN
  BY DEF RequestState

\* A limit is an integer.
LEMMA LimitIsInteger == Inv => MaxBytes \in Int
<1> SUFFICES ASSUME Inv PROVE MaxBytes \in Int OBVIOUS
<1>1. EnvInt(setting, 10) \in Int
  BY DEF Inv, EnvInt
<1> QED BY <1>1 DEF MaxBytes

\* A request without a file is no request with one.
LEMMA NoFileIsNone == NoFile \notin File
  BY DEF NoFile, File, Extensions

LEMMA ReceiveStep ==
    ASSUME Inv, NEW r \in Requests, NEW token \in BOOLEAN, NEW media \in Media,
           NEW file \in File \cup {NoFile}, Receive(r, token, media, file)
    PROVE  Inv'
<1> DEFINE s == [Idle EXCEPT !.step = "authenticate", !.token = token,
                             !.media = media, !.file = file]
<1>1. s \in RequestState
  <2>1. Idle \in RequestState /\ "authenticate" \in Steps
    BY IdleInv, Literals
  <2> QED BY <2>1 DEF RequestState
<1>2. /\ s.step = "authenticate" /\ s.media = media /\ s.file = file
      /\ s.stored = FALSE /\ s.outcome = "none" /\ s.status = 0 /\ s.message = "none"
  BY DEF Idle
<1>3. Become(r, s) /\ (media # "form" => file = NoFile)
  BY DEF Receive
<1> HIDE DEF s
<1>4. RequestInv(s)
  BY <1>2, <1>3 DEF RequestInv, Waiting, Untouched
<1> QED BY <1>1, <1>3, <1>4, BecomeInv

\* Moving on before the document is stored.
LEMMA GotoInv ==
    ASSUME Inv, NEW r \in Requests, NEW step \in {"parse", "validate"},
           req[r].step \in {"authenticate", "parse"}, Goto(r, step), req[r].token,
           step = "validate" => req[r].media = "form"
    PROVE  Inv'
<1> DEFINE s == [req[r] EXCEPT !.step = step]
<1>1. req[r] \in RequestState /\ RequestInv(req[r])
  BY DEF Inv
<1>2. step \in Steps
  BY Literals
<1>3. /\ s \in RequestState
      /\ s.step = step /\ s.token = req[r].token /\ s.media = req[r].media
      /\ s.file = req[r].file /\ s.stored = req[r].stored
      /\ s.outcome = req[r].outcome /\ s.status = req[r].status
      /\ s.message = req[r].message
  BY <1>1, <1>2 DEF RequestState
<1>4. Become(r, s)
  BY DEF Goto
<1> HIDE DEF s
<1>5. RequestInv(s)
  BY <1>1, <1>3 DEF RequestInv, Waiting, Untouched
<1> QED BY <1>3, <1>4, <1>5, BecomeInv

\* A refusal before the document is stored.
LEMMA RefuseInv ==
    ASSUME Inv, NEW r \in Requests, NEW status \in {400, 401, 415},
           NEW shape \in {"error", "detail"}, NEW message \in Messages,
           req[r].step \in {"authenticate", "parse", "validate"},
           Respond(r, status, shape, message),
           \/ status = 401 /\ ~req[r].token /\ shape = "error" /\ message = "login"
           \/ /\ status = 415 /\ req[r].token /\ req[r].file = NoFile
              /\ shape = "detail" /\ message = "media"
           \/ /\ status = 400 /\ req[r].token /\ shape = "error"
              /\ req[r].file \in File => ~Acceptable(req[r].file)
              /\ message = "size" => ~BadFormat(req[r].file)
              /\ req[r].file \in File /\ req[r].file.bytes > 0
                    => message \in {"format", "size"}
    PROVE  Inv'
<1> DEFINE s == [req[r] EXCEPT !.step = "done", !.status = status,
                               !.shape = shape, !.message = message]
<1>1. req[r] \in RequestState /\ RequestInv(req[r])
  BY DEF Inv
<1>2. s \in RequestState
  <2>1. "done" \in Steps /\ status \in Statuses /\ shape \in Shapes
    BY Literals
  <2> QED BY <1>1, <2>1 DEF RequestState
<1>3. /\ s.step = "done" /\ s.status = status /\ s.shape = shape /\ s.message = message
      /\ s.token = req[r].token /\ s.file = req[r].file /\ s.media = req[r].media
      /\ s.stored = req[r].stored /\ s.outcome = req[r].outcome
  BY <1>1 DEF RequestState
<1>4. Become(r, s)
  BY DEF Respond
<1> HIDE DEF s
<1>5. Untouched(s)
  BY <1>1, <1>3 DEF RequestInv, Waiting, Untouched
<1>6. RequestInv(s)
  BY <1>1, <1>3, <1>5 DEF RequestInv, Refused
<1> QED BY <1>2, <1>4, <1>6, BecomeInv

LEMMA AuthenticateStep ==
    ASSUME Inv, NEW r \in Requests, Authenticate(r)
    PROVE  Inv'
<1>1. CASE req[r].token /\ Goto(r, "parse")
  BY <1>1, GotoInv DEF Authenticate, At
<1>2. CASE ~req[r].token /\ Raise(r, 401, "login")
  <2>1. Respond(r, 401, "error", "login")
    BY <1>2 DEF Raise, Handled
  <2> QED BY <1>2, <2>1, RefuseInv DEF Authenticate, At, Messages
<1> QED BY <1>1, <1>2 DEF Authenticate

LEMMA ParseStep ==
    ASSUME Inv, NEW r \in Requests, Parse(r)
    PROVE  Inv'
<1>1. req[r].step = "parse" /\ req[r].token /\ (req[r].media # "form" => req[r].file = NoFile)
  BY DEF Parse, At, Inv, RequestInv
<1>2. CASE req[r].media = "malformed" /\ Raise(r, 400, "syntax")
  <2>1. Respond(r, 400, "error", "syntax")
    BY <1>2 DEF Raise, Handled
  <2> QED BY <1>1, <1>2, <2>1, RefuseInv, NoFileIsNone DEF Messages
<1>3. CASE req[r].media = "foreign" /\ Raise(r, 415, "media")
  <2>1. Respond(r, 415, "detail", "media")
    BY <1>3 DEF Raise, Handled
  <2> QED BY <1>1, <1>3, <2>1, RefuseInv DEF Messages
<1>4. CASE req[r].media = "form" /\ Goto(r, "validate")
  BY <1>1, <1>4, GotoInv
<1> QED BY <1>2, <1>3, <1>4 DEF Parse

LEMMA ValidateStep ==
    ASSUME Inv, NEW r \in Requests, Validate(r)
    PROVE  Inv'
<1> DEFINE f == req[r].file
<1>1. /\ req[r] \in RequestState /\ RequestInv(req[r]) /\ req[r].step = "validate"
      /\ req[r].token /\ Waiting(req[r]) /\ f \in File \cup {NoFile}
  BY Fields DEF Validate, At, Inv, RequestInv
<1>2. f \in File => f.bytes \in Nat
  BY DEF File
<1>3. CASE f = NoFile /\ Respond(r, 400, "error", "required")
  BY <1>1, <1>3, RefuseInv, NoFileIsNone DEF Messages
<1>4. CASE f # NoFile /\ f.bytes = 0 /\ Respond(r, 400, "error", "empty")
  BY <1>1, <1>4, RefuseInv DEF Messages, Acceptable
<1>5. CASE f # NoFile /\ BadFormat(f) /\ Respond(r, 400, "error", "format")
  BY <1>1, <1>5, RefuseInv DEF Messages, Acceptable
<1>6. CASE f # NoFile /\ ~BadFormat(f) /\ TooLarge(f) /\ Respond(r, 400, "error", "size")
  BY <1>1, <1>6, RefuseInv DEF Messages, Acceptable
<1>7. CASE f # NoFile /\ f.bytes > 0 /\ ~BadFormat(f) /\ ~TooLarge(f) /\ Store(r)
  <2> DEFINE s == [req[r] EXCEPT !.step = "extract", !.status = 202,
                                 !.shape = "payload", !.stored = TRUE]
  <2>1. Become(r, s)
    BY <1>7 DEF Store
  <2>2. s \in RequestState
    <3>1. "extract" \in Steps /\ 202 \in Statuses /\ "payload" \in Shapes
      BY Literals
    <3> QED BY <1>1, <3>1 DEF RequestState
  <2>3. /\ s.step = "extract" /\ s.status = 202 /\ s.stored /\ s.file = f
        /\ s.token = req[r].token /\ s.media = req[r].media
        /\ s.outcome = req[r].outcome
    BY <1>1 DEF RequestState
  <2> HIDE DEF s
  <2>4. Acceptable(s.file)
    BY <1>1, <1>7, <2>3 DEF Acceptable
  <2>5. RequestInv(s)
    BY <1>1, <2>3, <2>4 DEF RequestInv, Accepted, Waiting, Untouched
  <2> QED BY <2>1, <2>2, <2>5, BecomeInv
<1> QED BY <1>3, <1>4, <1>5, <1>6, <1>7 DEF Validate

LEMMA ExtractStep ==
    ASSUME Inv, NEW r \in Requests, Extract(r)
    PROVE  Inv'
<1> DEFINE outcome == IF HasText(req[r].file) THEN "SUCCESS" ELSE "FAILURE"
           s == [req[r] EXCEPT !.step = "done", !.outcome = outcome]
<1>1. req[r] \in RequestState /\ RequestInv(req[r]) /\ req[r].step = "extract"
  BY DEF Extract, At, Inv
<1>2. Become(r, s)
  BY DEF Extract, HasText
<1>3. "done" \in Steps /\ outcome \in Outcomes
  BY Literals
<1> HIDE DEF outcome
<1>4. /\ s \in RequestState
      /\ s.step = "done" /\ s.outcome = outcome
      /\ s.file = req[r].file /\ s.token = req[r].token /\ s.stored = req[r].stored
      /\ s.status = req[r].status /\ s.media = req[r].media
  BY <1>1, <1>3 DEF RequestState
<1> HIDE DEF s
<1>5. RequestInv(s)
  BY <1>1, <1>4 DEF RequestInv, Accepted, outcome
<1> QED BY <1>2, <1>4, <1>5, BecomeInv

LEMMA InvStep == Inv /\ [Next]_vars => Inv'
<1> SUFFICES ASSUME Inv, [Next]_vars PROVE Inv' OBVIOUS
<1>1. CASE UNCHANGED vars
  BY <1>1 DEF vars, Inv, RequestInv, Waiting, Untouched, Accepted, Refused, Acceptable,
              TooLarge, MaxBytes
<1>2. ASSUME NEW r \in Requests, RequestNext(r) PROVE Inv'
  BY <1>2, ReceiveStep, AuthenticateStep, ParseStep, ValidateStep, ExtractStep
     DEF RequestNext
<1> QED BY <1>1, <1>2 DEF Next, Quiescent

LEMMA Invariant == Spec => []Inv
  BY InvInit, InvStep, PTL DEF Spec

-----------------------------------------------------------------------------
\* Every reachable state is well typed, and a document is stored exactly if
\* its request was accepted.
THEOREM TypeCorrect == Spec => []TypeOK
<1>1. Inv => TypeOK
  <2> SUFFICES ASSUME Inv PROVE TypeOK OBVIOUS
  <2>1. ASSUME NEW r \in Requests
        PROVE  /\ req[r].status = 202 <=> req[r].stored
               /\ req[r].outcome # "none" => req[r].stored
               /\ At(r, "validate") => req[r].media = "form"
               /\ At(r, "extract") => req[r].stored /\ req[r].outcome = "none"
               /\ req[r].stored => req[r].file \in File
    <3>1. req[r].step \in Steps /\ RequestInv(req[r])
      BY DEF Inv, RequestState
    <3> QED BY <3>1 DEF RequestInv, Steps, Waiting, Untouched, Accepted, Refused,
                        Acceptable, At
  <2> QED BY <2>1 DEF Inv, TypeOK
<1> QED BY <1>1, Invariant, PTL

\* A refused upload leaves nothing behind and is told why, whatever was sent;
\* the error handler's statuses, and no others, have its envelope.
THEOREM RefusalsLeaveNothing == Spec => []RefusedLeavesNothing
<1>1. Inv => RefusedLeavesNothing
  <2> SUFFICES ASSUME Inv, NEW r \in Requests, req[r].status >= 400
               PROVE  /\ ~req[r].stored /\ req[r].outcome = "none"
                      /\ req[r].shape = "error" <=> req[r].status \in Handled
                      /\ req[r].status = 401 <=> ~req[r].token
                      /\ req[r].message = "size" => ~BadFormat(req[r].file)
                      /\ req[r].token /\ req[r].file \in File /\ req[r].file.bytes > 0
                            => req[r].message \in {"format", "size"}
    BY DEF RefusedLeavesNothing
  <2>1. req[r].step \in Steps /\ RequestInv(req[r])
    BY DEF Inv, RequestState
  <2>2. Refused(req[r])
    BY <2>1 DEF RequestInv, Steps, Waiting, Accepted
  <2> QED BY <2>2, NoFileIsNone DEF Refused, Untouched, Handled
<1> QED BY <1>1, Invariant, PTL

\* Every honest file up to the limit is accepted and found to have text, and a
\* file that claims to be a PDF is ingested only if it is one.
THEOREM HonestUploadsAreIngested == Spec => []HonestUploadIsIngested
<1>1. ASSUME NEW f \in File, Honest(f) PROVE ~BadFormat(f) /\ HasText(f)
  BY <1>1 DEF Honest, BadFormat, HasText, PdfParser, AllowedExtensions, AllowedTypes, Types
<1>2. Inv => HonestUploadIsIngested
  <2> SUFFICES ASSUME Inv, NEW r \in Requests, At(r, "done"), req[r].token,
                      req[r].file \in File
               PROVE  LET f == req[r].file IN
                      /\ Honest(f) /\ f.bytes \in 1 .. MaxBytes => req[r].outcome = "SUCCESS"
                      /\ Honest(f) /\ f.bytes \in 1 .. 10 * Megabyte /\ setting \notin Int
                            => req[r].outcome = "SUCCESS"
                      /\ req[r].outcome = "SUCCESS" /\ (f.ext = ".pdf" \/ f.type = "application/pdf")
                            => f.content = "pdf"
    BY DEF HonestUploadIsIngested
  <2> DEFINE f == req[r].file
  <2>1. MaxBytes \in Int /\ f.bytes \in Nat
    BY LimitIsInteger DEF File
  <2>2. \/ Refused(req[r]) /\ ~Acceptable(f) /\ req[r].outcome = "none"
        \/ req[r].outcome = IF HasText(f) THEN "SUCCESS" ELSE "FAILURE"
    BY NoFileIsNone DEF Inv, RequestInv, At, Refused, Untouched
  <2>3. ASSUME Honest(f), f.bytes \in 1 .. MaxBytes PROVE req[r].outcome = "SUCCESS"
    <3>1. ~BadFormat(f) /\ HasText(f)
      BY <1>1, <2>3
    <3>2. Acceptable(f)
      BY <2>1, <2>3, <3>1 DEF Acceptable, TooLarge
    <3> QED BY <2>2, <3>1, <3>2
  <2>4. setting \notin Int => MaxBytes = 10 * Megabyte
    BY DEF Inv, MaxBytes, EnvInt
  <2>5. req[r].outcome = "SUCCESS" => HasText(f)
    BY <2>2
  <2>6. HasText(f) /\ (f.ext = ".pdf" \/ f.type = "application/pdf") => f.content = "pdf"
    BY DEF HasText, PdfParser
  <2> QED BY <2>3, <2>4, <2>5, <2>6
<1> QED BY <1>2, Invariant, PTL
=============================================================================
