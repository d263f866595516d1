------------------------------ MODULE Ingestion ------------------------------
(***************************************************************************)
(* Upload, asynchronous ingestion and deletion of documents.               *)
(*                                                                         *)
(* Three kinds of process share the database, the media directory, the     *)
(* Chroma collections and the Celery queue, and none of them holds a lock  *)
(* or a transaction across two of their steps:                             *)
(*   - the upload request of a document     (documents/views.py, UploadView)*)
(*   - the workers that run ingest_document (rag/tasks.py, rag/pipeline.py)*)
(*   - the delete requests        (documents/views.py, DocumentDeleteView) *)
(*                                                                         *)
(* UploadView creates exactly one IngestionJob for the Document it         *)
(* creates, so a job is named by its document. Primary keys are never      *)
(* reused: a member of Docs is uploaded at most once.                      *)
(***************************************************************************)
EXTENDS Naturals, FiniteSets

CONSTANTS
    Users,      \* the accounts
    Docs,       \* the documents that may be uploaded
    Workers,    \* Celery worker processes
    Requests,   \* web workers serving DELETE requests
    Owner,      \* Owner[d]: the user that uploads d
    NChunks,    \* NChunks[d]: how many chunks the text of d splits into
    NoUser, NoDoc,
    Faults      \* which of AllFaults the environment may exhibit

\* "crash":      a process is killed, or a database error ends it, between steps
\* "redelivery": the broker hands out a message again after it was delivered
\* "chroma":     a call to the vector store raises, before or after its effect
\* "broker":     the broker is unreachable, or restarts without its queue
AllFaults == {"crash", "redelivery", "chroma", "broker"}

ASSUME OwnerAssumption  == Owner \in [Docs -> Users]
ASSUME ChunksAssumption == NChunks \in [Docs -> Nat]
ASSUME NoneAssumption   == NoUser \notin Users /\ NoDoc \notin Docs
ASSUME FaultsAssumption == Faults \subseteq AllFaults

VARIABLES
    upload,     \* upload[d]: how far the request that uploads d has come
    files,      \* documents whose file is in the media directory
    doc,        \* doc[d]: status of the Document row, "NONE" without a row
    job,        \* job[d]: the IngestionJob row, status "NONE" without a row
    queue,      \* documents whose job has a message in the broker
    pc, task,   \* pc[w]: next step of worker w; task[w]: the document it runs
    vectors,    \* vectors[u]: chunk ids in the collection user_<u>
    req,        \* req[r]: next step of delete request r, its user and document
    purged      \* history: documents whose vectors a delete asked to remove

vars == <<upload, files, doc, job, queue, pc, task, vectors, req, purged>>
database == <<doc, job>>
worker   == <<pc, task>>

UploadSteps  == {"new", "saved", "inserted", "created", "dispatched",
                 "accepted", "failed"}
DocStatus    == {"NONE", "UPLOADED", "PROCESSING", "SUCCESS", "FAILURE"}
JobStatus    == {"NONE", "PENDING", "STARTED", "SUCCESS", "FAILURE"}
Settled      == {"SUCCESS", "FAILURE"}
WorkerSteps  == {"idle", "mark_started", "mark_processing", "extract", "upsert",
                 "job_success", "doc_success", "job_failure", "doc_failure"}
RequestSteps == {"idle", "purge", "unlink", "delete_row"}

NoJob       == [status |-> "NONE", task_id |-> FALSE, chunk_count |-> 0,
                error |-> FALSE]
IdleRequest == [pc |-> "idle", user |-> NoUser, doc |-> NoDoc]

\* upsert_chunks names the chunks "<document_id>:<i>", so a second run of the
\* same document writes the same ids.
ChunkIds(d) == {d} \X (1 .. NChunks[d])

\* The chunks of document d in the collection of user u.
VectorsOf(u, d) == {c \in vectors[u] : c[1] = d}

Running(d) == {w \in Workers : task[w] = d}

HasRow(d) == doc[d] # "NONE"
HasJob(d) == job[d].status # "NONE"

\* filter(pk=...).update(...): one autocommitted statement, without effect
\* when the row is gone.
SetDocument(d, status) ==
    doc' = IF HasRow(d) THEN [doc EXCEPT ![d] = status] ELSE doc

SetJob(d, row) == job' = IF HasJob(d) THEN [job EXCEPT ![d] = row] ELSE job

Init ==
    /\ upload  = [d \in Docs |-> "new"]
    /\ files   = {}
    /\ doc     = [d \in Docs |-> "NONE"]
    /\ job     = [d \in Docs |-> NoJob]
    /\ queue   = {}
    /\ pc      = [w \in Workers |-> "idle"]
    /\ task    = [w \in Workers |-> NoDoc]
    /\ vectors = [u \in Users |-> {}]
    /\ req     = [r \in Requests |-> IdleRequest]
    /\ purged  = {}

-----------------------------------------------------------------------------
(* The upload request: UploadView.post after its serializer accepted the   *)
(* file.                                                                   *)

UploadStep(d, from, to) ==
    /\ upload[d] = from
    /\ upload' = [upload EXCEPT ![d] = to]

\* create_document: the file is written before the row exists.
SaveFile(d) ==
    /\ UploadStep(d, "new", "saved")
    /\ files' = files \cup {d}
    /\ UNCHANGED <<database, queue, worker, vectors, req, purged>>

InsertDocument(d) ==
    /\ UploadStep(d, "saved", "inserted")
    /\ doc' = [doc EXCEPT ![d] = "UPLOADED"]
    /\ UNCHANGED <<files, job, queue, worker, vectors, req, purged>>

\* Mutant: the job has no foreign key to its document.
CreateJobUnchecked(d) ==
    /\ UploadStep(d, "inserted", "created")
    /\ job' = [job EXCEPT ![d] = [NoJob EXCEPT !.status = "PENDING"]]
    /\ UNCHANGED <<files, doc, queue, worker, vectors, req, purged>>

\* The row may be deleted already: then the foreign key of the insert fails
\* and the request ends with a server error.
CreateJob(d) ==
    /\ \/ /\ HasRow(d)
          /\ UploadStep(d, "inserted", "created")
          /\ job' = [job EXCEPT ![d] = [NoJob EXCEPT !.status = "PENDING"]]
       \/ /\ ~HasRow(d)
          /\ UploadStep(d, "inserted", "failed")
          /\ UNCHANGED job
    /\ UNCHANGED <<files, doc, queue, worker, vectors, req, purged>>

\* Mutant: an unreachable broker is ignored.
DispatchUnchecked(d) ==
    /\ UploadStep(d, "created", "dispatched")
    /\ queue' \in {queue, queue \cup {d}}
    /\ UNCHANGED <<files, database, worker, vectors, req, purged>>

\* ingest_document.delay: nothing catches the error of an unreachable broker.
Dispatch(d) ==
    /\ \/ /\ UploadStep(d, "created", "dispatched")
          /\ queue' = queue \cup {d}
       \/ /\ "broker" \in Faults
          /\ UploadStep(d, "created", "failed")
          /\ UNCHANGED queue
    /\ UNCHANGED <<files, database, worker, vectors, req, purged>>

\* Mutant: the task id is stored only while the job is still PENDING.
RecordTaskIdIfPending(d) ==
    /\ UploadStep(d, "dispatched", "accepted")
    /\ job' = IF job[d].status = "PENDING"
              THEN [job EXCEPT ![d].task_id = TRUE] ELSE job
    /\ UNCHANGED <<files, doc, queue, worker, vectors, req, purged>>

\* filter(pk=...).update(celery_task_id=...), which touches no row when the
\* document was deleted meanwhile, and the 202 response.
RecordTaskId(d) ==
    /\ UploadStep(d, "dispatched", "accepted")
    /\ SetJob(d, [job[d] EXCEPT !.task_id = TRUE])
    /\ UNCHANGED <<files, doc, queue, worker, vectors, req, purged>>

\* Mutant: a clean-up handler removes the file of every failed upload.
UploadCrashCleansUp(d) ==
    /\ "crash" \in Faults
    /\ upload[d] \in {"saved", "inserted", "created", "dispatched"}
    /\ upload' = [upload EXCEPT ![d] = "failed"]
    /\ files' = files \ {d}
    /\ UNCHANGED <<database, queue, worker, vectors, req, purged>>

UploadCrash(d) ==
    /\ "crash" \in Faults
    /\ upload[d] \in {"saved", "inserted", "created", "dispatched"}
    /\ upload' = [upload EXCEPT ![d] = "failed"]
    /\ UNCHANGED <<files, database, queue, worker, vectors, req, purged>>

-----------------------------------------------------------------------------
(* A worker: ingest_document, one action per statement that reads or       *)
(* writes shared state.                                                    *)

WorkerStep(w, from, to) ==
    /\ pc[w] = from
    /\ pc' = [pc EXCEPT ![w] = to]
    /\ task' = IF to = "idle" THEN [task EXCEPT ![w] = NoDoc] ELSE task

\* Broker and worker acknowledge the message before the task body runs; a
\* redelivered message stays in the queue as well. A job that was deleted
\* between dispatch and pick-up ends the task at once.
Begin(w, d) ==
    /\ pc[w] = "idle"
    /\ d \in queue
    /\ \/ queue' = queue \ {d}
       \/ "redelivery" \in Faults /\ queue' = queue
    /\ \/ /\ HasJob(d)
          /\ pc' = [pc EXCEPT ![w] = "mark_started"]
          /\ task' = [task EXCEPT ![w] = d]
       \/ ~HasJob(d) /\ UNCHANGED worker
    /\ UNCHANGED <<upload, files, database, vectors, req, purged>>

MarkStarted(w) ==
    LET d == task[w] IN
    /\ WorkerStep(w, "mark_started", "mark_processing")
    /\ SetJob(d, [job[d] EXCEPT !.status = "STARTED"])
    /\ UNCHANGED <<upload, files, doc, queue, vectors, req, purged>>

\* Mutant: the document gets the status of its job; update() does not check
\* the choices of the column.
MarkProcessingAsJob(w) ==
    /\ WorkerStep(w, "mark_processing", "extract")
    /\ SetDocument(task[w], "STARTED")
    /\ UNCHANGED <<upload, files, job, queue, vectors, req, purged>>

MarkProcessing(w) ==
    /\ WorkerStep(w, "mark_processing", "extract")
    /\ SetDocument(task[w], "PROCESSING")
    /\ UNCHANGED <<upload, files, job, queue, vectors, req, purged>>

\* Mutant: an exception of the parser or the model ends the task.
ExtractUncaught(w) ==
    LET d == task[w] IN
    /\ \/ /\ WorkerStep(w, "extract", "upsert")
          /\ HasRow(d) /\ d \in files /\ NChunks[d] > 0
       \/ WorkerStep(w, "extract", "idle")
    /\ UNCHANGED <<upload, files, database, queue, vectors, req, purged>>

\* run_ingestion up to the embedding: it reads the Document row, then the
\* file, and needs at least one chunk. Parser and embedding model may raise on
\* any document.
Extract(w) ==
    LET d == task[w] IN
    /\ \/ /\ WorkerStep(w, "extract", "upsert")
          /\ HasRow(d) /\ d \in files /\ NChunks[d] > 0
       \/ WorkerStep(w, "extract", "job_failure")
    /\ UNCHANGED <<upload, files, database, queue, vectors, req, purged>>

\* Mutant: an exception of the store is swallowed.
UpsertSwallowed(w) ==
    LET u == Owner[task[w]] IN
    /\ WorkerStep(w, "upsert", "job_success")
    /\ vectors' \in {vectors, [vectors EXCEPT ![u] = @ \cup ChunkIds(task[w])]}
    /\ UNCHANGED <<upload, files, database, queue, req, purged>>

\* Mutant: the collection is not the owner's.
UpsertElsewhere(w) ==
    /\ WorkerStep(w, "upsert", "job_success")
    /\ \E u \in Users : vectors' = [vectors EXCEPT ![u] = @ \cup ChunkIds(task[w])]
    /\ UNCHANGED <<upload, files, database, queue, req, purged>>

\* upsert_chunks writes all chunks in one call. A call that raises may have
\* reached the store or not.
Upsert(w) ==
    LET d == task[w]
        u == Owner[d]
        written == [vectors EXCEPT ![u] = @ \cup ChunkIds(d)]
    IN
    /\ \/ WorkerStep(w, "upsert", "job_success") /\ vectors' = written
       \/ /\ "chroma" \in Faults
          /\ WorkerStep(w, "upsert", "job_failure")
          /\ vectors' \in {vectors, written}
    /\ UNCHANGED <<upload, files, database, queue, req, purged>>

\* Mutant: the document is marked before its job.
MarkJobSuccessLast(w) ==
    /\ WorkerStep(w, "job_success", "doc_success")
    /\ SetDocument(task[w], "SUCCESS")
    /\ UNCHANGED <<upload, files, job, queue, vectors, req, purged>>

MarkJobSuccess(w) ==
    LET d == task[w] IN
    /\ WorkerStep(w, "job_success", "doc_success")
    /\ SetJob(d, [job[d] EXCEPT !.status = "SUCCESS", !.chunk_count = NChunks[d]])
    /\ UNCHANGED <<upload, files, doc, queue, vectors, req, purged>>

MarkDocumentSuccess(w) ==
    /\ WorkerStep(w, "doc_success", "idle")
    /\ SetDocument(task[w], "SUCCESS")
    /\ UNCHANGED <<upload, files, job, queue, vectors, req, purged>>

\* Mutant: a failed job is made ready to be tried again.
MarkJobFailureRetries(w) ==
    LET d == task[w] IN
    /\ WorkerStep(w, "job_failure", "doc_failure")
    /\ SetJob(d, [job[d] EXCEPT !.status = "PENDING", !.error = TRUE])
    /\ UNCHANGED <<upload, files, doc, queue, vectors, req, purged>>

\* Mutant: a failed job is also put into the queue again.
MarkJobFailureRequeues(w) ==
    LET d == task[w] IN
    /\ WorkerStep(w, "job_failure", "doc_failure")
    /\ SetJob(d, [job[d] EXCEPT !.status = "FAILURE", !.error = TRUE])
    /\ queue' = queue \cup {d}
    /\ UNCHANGED <<upload, files, doc, vectors, req, purged>>

MarkJobFailure(w) ==
    LET d == task[w] IN
    /\ WorkerStep(w, "job_failure", "doc_failure")
    /\ SetJob(d, [job[d] EXCEPT !.status = "FAILURE", !.error = TRUE])
    /\ UNCHANGED <<upload, files, doc, queue, vectors, req, purged>>

\* Mutant: the status of the document is not kept in step.
MarkDocumentFailureSkipped(w) ==
    /\ WorkerStep(w, "doc_failure", "idle")
    /\ UNCHANGED <<upload, files, database, queue, vectors, req, purged>>

MarkDocumentFailure(w) ==
    /\ WorkerStep(w, "doc_failure", "idle")
    /\ SetDocument(task[w], "FAILURE")
    /\ UNCHANGED <<upload, files, job, queue, vectors, req, purged>>

\* The message is acknowledged already, so the run is lost.
WorkerCrash(w) ==
    /\ "crash" \in Faults
    /\ pc[w] # "idle"
    /\ pc' = [pc EXCEPT ![w] = "idle"]
    /\ task' = [task EXCEPT ![w] = NoDoc]
    /\ UNCHANGED <<upload, files, database, queue, vectors, req, purged>>

\* compose.yaml runs redis without any persistence.
BrokerRestart ==
    /\ "broker" \in Faults
    /\ queue # {}
    /\ queue' = {}
    /\ UNCHANGED <<upload, files, database, worker, vectors, req, purged>>

-----------------------------------------------------------------------------
(* A delete request: DocumentDeleteView.delete.                            *)

RequestStep(r, from, to) ==
    /\ req[r].pc = from
    /\ req' = [req EXCEPT ![r] = IF to = "idle" THEN IdleRequest
                                 ELSE [@ EXCEPT !.pc = to]]

\* Mutant: the lookup ignores the owner.
FindDocumentOfAnyone(r, u, d) ==
    /\ req[r].pc = "idle"
    /\ HasRow(d)
    /\ req' = [req EXCEPT ![r] = [pc |-> "purge", user |-> u, doc |-> d]]
    /\ UNCHANGED <<upload, files, database, queue, worker, vectors, purged>>

\* get_object_or_404(Document, pk=pk, owner=request.user); the 404 response
\* changes nothing.
FindDocument(r, u, d) ==
    /\ req[r].pc = "idle"
    /\ HasRow(d) /\ Owner[d] = u
    /\ req' = [req EXCEPT ![r] = [pc |-> "purge", user |-> u, doc |-> d]]
    /\ UNCHANGED <<upload, files, database, queue, worker, vectors, purged>>

\* delete_document_vectors swallows every error of the store.
PurgeVectors(r) ==
    LET d == req[r].doc
        u == req[r].user
    IN
    /\ RequestStep(r, "purge", "unlink")
    /\ \/ vectors' = [vectors EXCEPT ![u] = @ \ VectorsOf(u, d)]
       \/ "chroma" \in Faults /\ UNCHANGED vectors
    /\ purged' = purged \cup {d}
    /\ UNCHANGED <<upload, files, database, queue, worker>>

UnlinkFile(r) ==
    /\ RequestStep(r, "unlink", "delete_row")
    /\ files' = files \ {req[r].doc}
    /\ UNCHANGED <<upload, database, queue, worker, vectors, purged>>

\* doc.delete() removes the job and then the row in one transaction; then the
\* 204 response. A job inserted between these two statements refers to the row
\* and makes the commit fail: the request ends with a server error and deletes
\* nothing, which is what RequestCrash leaves behind.
DeleteRow(r) ==
    LET d == req[r].doc IN
    /\ RequestStep(r, "delete_row", "idle")
    /\ doc' = [doc EXCEPT ![d] = "NONE"]
    /\ job' = [job EXCEPT ![d] = NoJob]
    /\ UNCHANGED <<upload, files, queue, worker, vectors, purged>>

RequestCrash(r) ==
    /\ "crash" \in Faults
    /\ req[r].pc # "idle"
    /\ req' = [req EXCEPT ![r] = IdleRequest]
    /\ UNCHANGED <<upload, files, database, queue, worker, vectors, purged>>

\* StatusView: what a user gets for the task id of document d.
PublicStatus(u, d) ==
    IF ~(HasJob(d) /\ job[d].task_id /\ Owner[d] = u) THEN "NOT_FOUND"
    ELSE IF job[d].status \in Settled THEN job[d].status
    ELSE "PROCESSING"

-----------------------------------------------------------------------------
UploadNext(d) ==
    \/ SaveFile(d) \/ InsertDocument(d) \/ CreateJob(d)
    \/ Dispatch(d) \/ RecordTaskId(d)

WorkerNext(w) ==
    \/ \E d \in Docs : Begin(w, d)
    \/ MarkStarted(w) \/ MarkProcessing(w) \/ Extract(w) \/ Upsert(w)
    \/ MarkJobSuccess(w) \/ MarkDocumentSuccess(w)
    \/ MarkJobFailure(w) \/ MarkDocumentFailure(w)

RequestNext(r) ==
    \/ \E u \in Users, d \in Docs : FindDocument(r, u, d)
    \/ PurgeVectors(r) \/ UnlinkFile(r) \/ DeleteRow(r)

FaultNext ==
    \/ \E d \in Docs : UploadCrash(d)
    \/ \E w \in Workers : WorkerCrash(w)
    \/ \E r \in Requests : RequestCrash(r)
    \/ BrokerRestart

\* Nothing is left to do: every document was refused or deleted again.
Quiescent ==
    /\ \A d \in Docs : upload[d] \in {"accepted", "failed"} /\ ~HasRow(d)
    /\ queue = {}
    /\ \A w \in Workers : pc[w] = "idle"
    /\ \A r \in Requests : req[r].pc = "idle"
    /\ UNCHANGED vars

Next ==
    \/ \E d \in Docs : UploadNext(d)
    \/ \E w \in Workers : WorkerNext(w)
    \/ \E r \in Requests : RequestNext(r)
    \/ FaultNext
    \/ Quiescent

Spec == Init /\ [][Next]_vars

\* A request that was accepted by the web server and a worker process run on;
\* nobody has to upload or to delete, and no fault has to happen.
Fairness ==
    /\ \A d \in Docs : WF_vars(UploadNext(d) /\ upload[d] # "new")
    /\ \A w \in Workers : WF_vars(WorkerNext(w))
=============================================================================
