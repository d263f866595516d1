--------------------------- MODULE UploadRequest ---------------------------
(***************************************************************************)
(* What becomes of an upload, from the request to the parser: the checks   *)
(* of POST /api/documents/upload/ (documents/views.py, serializers.py), the*)
(* shape of its errors (common/exceptions.py) and the choice of the parser *)
(* by the worker (rag/pipeline.py), which looks at the stored name and the *)
(* declared type once more. Ingestion models the writes in between step by *)
(* step and with their faults; here they are one step that succeeds.       *)
(***************************************************************************)
EXTENDS Integers

CONSTANTS
    Requests,
    Settings,       \* what the variable MAX_UPLOAD_MB may be: an integer,
    Unset, NoNumber,    \*   not set, or no number
    Megabyte,       \* bound: how many bytes a megabyte has in an instance
    Sizes           \* bound: how many bytes a file may have

ASSUME SettingsAssumption == Settings \subseteq Int \cup {Unset, NoNumber}
ASSUME UnsetAssumption    == Unset \notin Int /\ NoNumber \notin Int
ASSUME SizeAssumption     == Megabyte \in Nat \ {0} /\ Sizes \subseteq Nat

VARIABLES
    setting,    \* the environment variable, read when the settings are loaded
    req         \* req[r]: request r and the document it leads to

vars == <<setting, req>>

-----------------------------------------------------------------------------
(* A file as the client presents it, and what is really in it.             *)

Extensions == {".pdf", ".txt", ".md", "other"}
Types == {"application/pdf", "text/plain", "text/markdown", "text/x-markdown",
          "application/octet-stream", "none", "other"}
\* "scan" is a PDF without text, "blank" consists of white space.
Contents == {"pdf", "scan", "text", "blank"}
Pdfs == {"pdf", "scan"}

\* `capitals' tells whether the extension is spelt .PDF, .Txt and so on.
File == [ext: Extensions, capitals: BOOLEAN, type: Types, bytes: Sizes,
         content: Contents]

\* No value in the field `file', or one that is no file.
NoFile == [ext |-> "none", capitals |-> FALSE, type |-> "none", bytes |-> 0,
           content |-> "none"]

\* "form": a form or JSON; "malformed": a body that does not parse;
\* "foreign": a media type that no parser of the API framework reads.
Media == {"form", "malformed", "foreign"}

AllowedExtensions == {".pdf", ".txt", ".md"}
AllowedTypes == Types \ {"none", "other"}

\* env_int("MAX_UPLOAD_MB", default=10)
EnvInt(raw, default) == IF raw \in {Unset, NoNumber} THEN default ELSE raw
MaxBytes == EnvInt(setting, 10) * Megabyte

\* os.path.splitext(name)[1].lower() in _ALLOWED_EXTENSIONS, and the type
BadFormat(f) == f.ext \notin AllowedExtensions \/ f.type \notin AllowedTypes

TooLarge(f) == f.bytes > MaxBytes

\* Mutant: the name is compared as it is spelt.
PdfParserVerbatim(f) ==
    f.type = "application/pdf" \/ (f.ext = ".pdf" /\ ~f.capitals)

\* extract_text: "pdf" in the type, or the lower-cased path ends with .pdf.
\* The stored path ends with the name the client gave.
PdfParser(f) == f.type = "application/pdf" \/ f.ext = ".pdf"

-----------------------------------------------------------------------------
Steps  == {"idle", "authenticate", "parse", "validate", "extract", "done"}
Shapes == {"none", "payload", "error", "detail"}
Messages == {"none", "login", "syntax", "media", "required", "empty",
             "format", "size"}
Statuses == {0, 202, 400, 401, 415}
Outcomes == {"none", "SUCCESS", "FAILURE"}

RequestState ==
    [step: Steps, token: BOOLEAN, media: Media, file: File \cup {NoFile},
     status: Statuses, shape: Shapes, message: Messages, stored: BOOLEAN,
     outcome: Outcomes]

Idle == [step |-> "idle", token |-> FALSE, media |-> "form", file |-> NoFile,
         status |-> 0, shape |-> "none", message |-> "none", stored |-> FALSE,
         outcome |-> "none"]

Init == setting \in Settings /\ req = [r \in Requests |-> Idle]

At(r, step) == req[r].step = step

Become(r, state) == req' = [req EXCEPT ![r] = state] /\ UNCHANGED setting

Goto(r, step) == Become(r, [req[r] EXCEPT !.step = step])

Respond(r, status, shape, message) ==
    Become(r, [req[r] EXCEPT !.step = "done", !.status = status,
                             !.shape = shape, !.message = message])

\* error_envelope_handler: what an exception of the API framework looks like.
Handled == {400, 401, 403, 404, 405}

Raise(r, status, message) ==
    Respond(r, status, IF status \in Handled THEN "error" ELSE "detail", message)

Receive(r, token, media, file) ==
    /\ At(r, "idle")
    /\ media # "form" => file = NoFile
    /\ Become(r, [Idle EXCEPT !.step = "authenticate", !.token = token,
                              !.media = media, !.file = file])

\* JWTAuthentication and IsAuthenticated, before the view runs.
Authenticate(r) ==
    /\ At(r, "authenticate")
    /\ \/ req[r].token /\ Goto(r, "parse")
       \/ ~req[r].token /\ Raise(r, 401, "login")

\* request.data is read by the first line of UploadView.post.
Parse(r) ==
    /\ At(r, "parse")
    /\ \/ req[r].media = "malformed" /\ Raise(r, 400, "syntax")
       \/ req[r].media = "foreign" /\ Raise(r, 415, "media")
       \/ req[r].media = "form" /\ Goto(r, "validate")

\* create_document, the job and its message; see Ingestion.
Store(r) ==
    Become(r, [req[r] EXCEPT !.step = "extract", !.status = 202,
                             !.shape = "payload", !.stored = TRUE])

\* Mutant: the size is looked at when the file is stored already.
ValidateStored(r) ==
    LET f == req[r].file IN
    /\ At(r, "validate")
    /\ \/ f = NoFile /\ Respond(r, 400, "error", "required")
       \/ /\ f # NoFile
          /\ \/ BadFormat(f) /\ Respond(r, 400, "error", "format")
             \/ /\ ~BadFormat(f) /\ (f.bytes = 0 \/ TooLarge(f))
                /\ Become(r, [req[r] EXCEPT !.step = "done", !.status = 400,
                                !.shape = "error", !.message = "size", !.stored = TRUE])
             \/ ~BadFormat(f) /\ f.bytes > 0 /\ ~TooLarge(f) /\ Store(r)

\* DocumentUploadSerializer: FileField, then validate_file. The view answers
\* with the first message itself; the checks are in this order.
Validate(r) ==
    LET f == req[r].file
        refuse(message) == Respond(r, 400, "error", message)
    IN
    /\ At(r, "validate")
    /\ \/ f = NoFile /\ refuse("required")
       \/ /\ f # NoFile
          /\ \/ f.bytes = 0 /\ refuse("empty")
             \/ f.bytes > 0 /\ BadFormat(f) /\ refuse("format")
             \/ f.bytes > 0 /\ ~BadFormat(f) /\ TooLarge(f) /\ refuse("size")
             \/ f.bytes > 0 /\ ~BadFormat(f) /\ ~TooLarge(f) /\ Store(r)

\* Mutant: the worker removes a document in which it finds no text, although
\* its upload was answered 202.
ExtractDiscards(r) ==
    LET f == req[r].file
        text == IF PdfParser(f) THEN f.content = "pdf" ELSE f.content # "blank"
    IN
    /\ At(r, "extract")
    /\ Become(r, [req[r] EXCEPT !.step = "done", !.stored = text,
                    !.outcome = IF text THEN "SUCCESS" ELSE "FAILURE"])

\* The worker: extract_text and the check for text in run_ingestion. The PDF
\* parser raises on anything else; the text parser replaces what is no UTF-8,
\* so that every file but a blank one has text. What else fails there is the
\* business of Ingestion.
Extract(r) ==
    LET f == req[r].file
        text == IF PdfParser(f) THEN f.content = "pdf" ELSE f.content # "blank"
    IN
    /\ At(r, "extract")
    /\ Become(r, [req[r] EXCEPT !.step = "done",
                    !.outcome = IF text THEN "SUCCESS" ELSE "FAILURE"])

RequestNext(r) ==
    \/ \E token \in BOOLEAN, media \in Media, file \in File \cup {NoFile} :
          Receive(r, token, media, file)
    \/ Authenticate(r) \/ Parse(r) \/ Validate(r) \/ Extract(r)

\* All requests were answered and their documents ingested.
Quiescent == (\A r \in Requests : At(r, "done")) /\ UNCHANGED vars

Next == (\E r \in Requests : RequestNext(r)) \/ Quiescent

Spec == Init /\ [][Next]_vars

-----------------------------------------------------------------------------
\* The setting and every request keep their types; a document is stored
\* exactly if the request was accepted, and ingested only then.
\* (documents/views.py:95-133)
TypeOK ==
    /\ setting \in Settings
    /\ req \in [Requests -> RequestState]
    /\ \A r \in Requests :
          /\ req[r].status = 202 <=> req[r].stored
          /\ req[r].outcome # "none" => req[r].stored
          /\ At(r, "validate") => req[r].media = "form"
          /\ At(r, "extract") => req[r].stored /\ req[r].outcome = "none"
          /\ req[r].stored => req[r].file \in File

\* Name, declared type and content of f agree, as browsers and curl send them.
Honest(f) ==
    \/ /\ f.ext = ".pdf" /\ f.content = "pdf"
       /\ f.type \in {"application/pdf", "application/octet-stream"}
    \/ /\ f.ext \in {".txt", ".md"} /\ f.content = "text"
       /\ f.type \in AllowedTypes \ {"application/pdf"}

\* The serializer and the worker read name and type independently, and agree:
\* an honest file from one byte up to the limit is accepted and ingested, in
\* every spelling of its extension, with the default limit if the setting is
\* missing or malformed. And a file that calls itself a PDF by name or type is
\* never indexed as raw bytes. (documents/serializers.py:46-63,
\* rag/pipeline.py:38-62, common/env.py:46-54)
HonestUploadIsIngested ==
    \A r \in Requests : At(r, "done") /\ req[r].token /\ req[r].file \in File =>
        LET f == req[r].file IN
        /\ Honest(f) /\ f.bytes \in 1 .. MaxBytes => req[r].outcome = "SUCCESS"
        /\ Honest(f) /\ f.bytes \in 1 .. 10 * Megabyte /\ setting \notin Int
              => req[r].outcome = "SUCCESS"
        /\ req[r].outcome = "SUCCESS" /\ (f.ext = ".pdf" \/ f.type = "application/pdf")
              => f.content = "pdf"

\* "no file is persisted and no task is enqueued"
\* (openspec/specs/document-management/spec.md:17-29): what is refused leaves
\* nothing behind, a wrong format is called one although the file is too large
\* as well, and who is not logged in learns nothing of the checks. Of the
\* refusals, which the view and the framework make, exactly those with a status
\* that error_envelope_handler covers are {"error": <message>}; a foreign media
\* type is not. (documents/views.py:95-103, common/exceptions.py:8-23, 70-74)
RefusedLeavesNothing ==
    \A r \in Requests : req[r].status >= 400 =>
        /\ ~req[r].stored /\ req[r].outcome = "none"
        /\ req[r].shape = "error" <=> req[r].status \in Handled
        /\ req[r].status = 401 <=> ~req[r].token
        /\ req[r].message = "size" => ~BadFormat(req[r].file)
        /\ req[r].token /\ req[r].file \in File /\ req[r].file.bytes > 0
              => req[r].message \in {"format", "size"}
=============================================================================
