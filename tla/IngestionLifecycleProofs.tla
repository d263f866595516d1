----------------------- MODULE IngestionLifecycleProofs -----------------------
(***************************************************************************)
(* More theorems about Ingestion: what uploads and deletions leave behind  *)
(* under every fault, and, as long as the broker delivers no message twice,*)
(* the job's life cycle, its outcome and the deletion of what is settled.  *)
(***************************************************************************)
EXTENDS IngestionProofs, IngestionHistory

USE OwnerAssumption, ChunksAssumption, NoneAssumption

\* Rows and files belong together, and what an upload has done so far shows.
FileInv(d) ==
    /\ upload[d] = "saved" => d \in files
    /\ HasRow(d) /\ d \notin purged => d \in files
    /\ d \in purged /\ ~HasRow(d) => d \notin files

RowInv(d) ==
    /\ HasRow(d) \/ HasJob(d) \/ d \in purged => upload[d] \notin {"new", "saved"}
    /\ HasJob(d) => HasRow(d)
    /\ upload[d] \in {"new", "saved", "inserted"} => ~HasJob(d)
    /\ HasRow(d) /\ upload[d] \in {"created", "dispatched", "accepted"} => HasJob(d)
    /\ HasJob(d) /\ upload[d] = "accepted" => job[d].task_id
    /\ job[d].status = "FAILURE" => job[d].error

\* What a delete request has done so far.
DeleteInv(r) ==
    req[r].pc # "idle" =>
        /\ upload[req[r].doc] \notin {"new", "saved"}
        /\ HasRow(req[r].doc) \/ req[r].doc \in purged
        /\ req[r].pc \in {"unlink", "delete_row"} => req[r].doc \in purged
        /\ req[r].pc = "delete_row" => req[r].doc \notin files

RecordInv ==
    /\ \A d \in Docs : FileInv(d) /\ RowInv(d)
    /\ \A r \in Requests : DeleteInv(r)

LEMMA RecordInit == Init => RecordInv
  BY DEF Init, RecordInv, FileInv, RowInv, DeleteInv, HasRow, HasJob, NoJob, IdleRequest

\* A worker writes statuses into rows that exist and nothing else the
\* invariant is about.
LEMMA WorkerRows ==
    ASSUME TypeOK, NEW w \in Workers, WorkerNext(w)
    PROVE  /\ UNCHANGED <<upload, files, req, purged>>
           /\ \A d \in Docs : /\ HasRow(d)' <=> HasRow(d)
                              /\ HasJob(d)' <=> HasJob(d)
                              /\ job'[d].task_id = job[d].task_id
                              /\ \/ job'[d].status = job[d].status /\ job'[d].error = job[d].error
                                 \/ job'[d].status \in {"STARTED", "SUCCESS"}
                                 \/ job'[d].status = "FAILURE" /\ job'[d].error
<1> DEFINE Rows == \A d \in Docs : HasRow(d)' <=> HasRow(d)
           Jobs == \A d \in Docs :
                      /\ HasJob(d)' <=> HasJob(d)
                      /\ job'[d].task_id = job[d].task_id
                      /\ \/ job'[d].status = job[d].status /\ job'[d].error = job[d].error
                         \/ job'[d].status \in {"STARTED", "SUCCESS"}
                         \/ job'[d].status = "FAILURE" /\ job'[d].error
<1>1. ASSUME UNCHANGED doc PROVE Rows
  BY <1>1 DEF HasRow
<1>2. ASSUME UNCHANGED job PROVE Jobs
  BY <1>2 DEF HasJob
<1>3. ASSUME NEW e, NEW s \in DocStatus \ {"NONE"}, SetDocument(e, s) PROVE Rows
  BY <1>3 DEF SetDocument, HasRow, TypeOK
<1>4. ASSUME NEW e \in Docs, NEW row \in JobType, SetJob(e, row),
             row.task_id = job[e].task_id,
             row.status \in {"STARTED", "SUCCESS"} \/ (row.status = "FAILURE" /\ row.error)
      PROVE  Jobs
  <2>1. (job'[e] = row /\ HasJob(e)) \/ job'[e] = job[e]
    BY <1>4 DEF SetJob, TypeOK
  <2>2. \A d \in Docs : d # e => job'[d] = job[d]
    BY <1>4 DEF SetJob, TypeOK
  <2> QED BY <1>4, <2>1, <2>2 DEF HasJob
<1> HIDE DEF Rows, Jobs
<1>5. ASSUME NEW from \in WorkerSteps \ {"idle"}, NEW to \in WorkerSteps,
             WorkerStep(w, from, to)
      PROVE  task[w] \in Docs /\ job[task[w]] \in JobType
  BY <1>5, WorkerStepType DEF TypeOK, JobType
<1>6. UNCHANGED <<upload, files, req, purged>>
  BY DEF WorkerNext, Begin, MarkStarted, MarkProcessing, Extract, Upsert, MarkJobSuccess,
         MarkDocumentSuccess, MarkJobFailure, MarkDocumentFailure, database
<1>7. Rows /\ Jobs
  <2>1. CASE (\E d \in Docs : Begin(w, d)) \/ Extract(w) \/ Upsert(w)
    BY <2>1, <1>1, <1>2 DEF Begin, Extract, Upsert, database
  <2>2. CASE MarkProcessing(w) \/ MarkDocumentSuccess(w) \/ MarkDocumentFailure(w)
    BY <2>2, <1>2, <1>3 DEF MarkProcessing, MarkDocumentSuccess, MarkDocumentFailure,
                            DocStatus
  <2>3. CASE MarkStarted(w)
    <3> DEFINE row == [job[task[w]] EXCEPT !.status = "STARTED"]
    <3>1. /\ task[w] \in Docs /\ job[task[w]] \in JobType /\ SetJob(task[w], row)
          /\ UNCHANGED doc
      BY <2>3, <1>5 DEF MarkStarted, WorkerSteps
    <3>2. "STARTED" \in JobStatus /\ 0 \in Nat
      BY DEF JobStatus
    <3>3. row \in JobType
      BY <3>1, <3>2, JobUpdates
    <3>4. row.status = "STARTED" /\ row.task_id = job[task[w]].task_id
      BY <3>1 DEF JobType
    <3> HIDE DEF row
    <3> QED BY <3>1, <3>3, <3>4, <1>1, <1>4
  <2>4. CASE MarkJobSuccess(w)
    <3> DEFINE row == [job[task[w]] EXCEPT !.status = "SUCCESS", !.chunk_count = NChunks[task[w]]]
    <3>1. /\ task[w] \in Docs /\ job[task[w]] \in JobType /\ SetJob(task[w], row)
          /\ UNCHANGED doc
      BY <2>4, <1>5 DEF MarkJobSuccess, WorkerSteps
    <3>2. "SUCCESS" \in JobStatus /\ NChunks[task[w]] \in Nat
      BY <3>1 DEF JobStatus
    <3>3. row \in JobType
      BY <3>1, <3>2, JobUpdates
    <3>4. row.status = "SUCCESS" /\ row.task_id = job[task[w]].task_id
      BY <3>1 DEF JobType
    <3> HIDE DEF row
    <3> QED BY <3>1, <3>3, <3>4, <1>1, <1>4
  <2>5. CASE MarkJobFailure(w)
    <3> DEFINE row == [job[task[w]] EXCEPT !.status = "FAILURE", !.error = TRUE]
    <3>1. /\ task[w] \in Docs /\ job[task[w]] \in JobType /\ SetJob(task[w], row)
          /\ UNCHANGED doc
      BY <2>5, <1>5 DEF MarkJobFailure, WorkerSteps
    <3>2. "FAILURE" \in JobStatus /\ 0 \in Nat
      BY DEF JobStatus
    <3>3. row \in JobType
      BY <3>1, <3>2, JobUpdates
    <3>4. row.status = "FAILURE" /\ row.task_id = job[task[w]].task_id /\ row.error
      BY <3>1 DEF JobType
    <3> HIDE DEF row
    <3> QED BY <3>1, <3>3, <3>4, <1>1, <1>4
  <2> QED BY <2>1, <2>2, <2>3, <2>4, <2>5 DEF WorkerNext
<1> QED BY <1>6, <1>7 DEF Rows, Jobs

\* So worker steps keep the invariant.
LEMMA RecordWorker ==
    ASSUME TypeOK, RecordInv, NEW w \in Workers, WorkerNext(w)
    PROVE  RecordInv'
<1>1. /\ UNCHANGED <<upload, files, req, purged>>
      /\ \A d \in Docs : /\ HasRow(d)' <=> HasRow(d)
                         /\ HasJob(d)' <=> HasJob(d)
                         /\ job'[d].task_id = job[d].task_id
                         /\ \/ job'[d].status = job[d].status /\ job'[d].error = job[d].error
                            \/ job'[d].status \in {"STARTED", "SUCCESS"}
                            \/ job'[d].status = "FAILURE" /\ job'[d].error
  BY WorkerRows
<1>2. ASSUME NEW d \in Docs PROVE FileInv(d)' /\ RowInv(d)'
  BY <1>1 DEF RecordInv, FileInv, RowInv
<1>3. ASSUME NEW r \in Requests PROVE DeleteInv(r)'
  <2>1. req[r].pc # "idle" => req[r].doc \in Docs
    BY DEF TypeOK, IdleRequest
  <2> QED BY <1>1, <2>1 DEF RecordInv, DeleteInv
<1> QED BY <1>2, <1>3 DEF RecordInv

\* An upload moves forward and touches its own document only.
LEMMA UploadStepValue ==
    ASSUME TypeOK, NEW d \in Docs, NEW from \in UploadSteps, NEW to \in UploadSteps,
           UploadStep(d, from, to)
    PROVE  /\ upload[d] = from /\ upload'[d] = to
           /\ \A e \in Docs : e # d => upload'[e] = upload[e]
  BY DEF UploadStep, TypeOK

\* An upload step keeps the invariant if it keeps it for its document.
LEMMA RecordFrame ==
    ASSUME TypeOK, RecordInv, NEW d \in Docs, UNCHANGED <<req, purged>>,
           upload[d] = "new" \/ upload'[d] \notin {"new", "saved"},
           \A e \in Docs : e # d => /\ upload'[e] = upload[e]
                                    /\ doc'[e] = doc[e] /\ job'[e] = job[e]
                                    /\ e \in files' <=> e \in files,
           HasRow(d) => HasRow(d)',
           d \in files' => d \in files \/ upload[d] = "new",
           FileInv(d)', RowInv(d)'
    PROVE  RecordInv'
<1>1. ASSUME NEW e \in Docs PROVE FileInv(e)' /\ RowInv(e)'
  BY DEF RecordInv, FileInv, RowInv, HasRow, HasJob
<1>2. ASSUME NEW r \in Requests PROVE DeleteInv(r)'
  <2>1. req[r].pc # "idle" => req[r].doc \in Docs
    BY DEF TypeOK, IdleRequest
  <2> QED BY <2>1 DEF RecordInv, DeleteInv, HasRow
<1> QED BY <1>1, <1>2 DEF RecordInv

LEMMA RecordUpload ==
    ASSUME TypeOK, RecordInv, NEW d \in Docs, UploadNext(d) \/ UploadCrash(d)
    PROVE  RecordInv'
<1> USE DEF UploadSteps
<1>1. FileInv(d) /\ RowInv(d)
  BY DEF RecordInv
<1>2. CASE SaveFile(d)
  <2>1. /\ upload[d] = "new" /\ upload'[d] = "saved" /\ files' = files \cup {d}
        /\ \A e \in Docs : e # d => upload'[e] = upload[e]
        /\ UNCHANGED <<doc, job, req, purged>>
    BY <1>2, UploadStepValue DEF SaveFile, database
  <2>2. FileInv(d)' /\ RowInv(d)'
    BY <1>1, <2>1 DEF FileInv, RowInv, HasRow, HasJob
  <2> QED BY <2>1, <2>2, RecordFrame DEF HasRow
<1>3. CASE InsertDocument(d)
  <2>1. /\ upload[d] = "saved" /\ upload'[d] = "inserted" /\ doc'[d] = "UPLOADED"
        /\ \A e \in Docs : e # d => upload'[e] = upload[e] /\ doc'[e] = doc[e]
        /\ UNCHANGED <<files, job, req, purged>>
    BY <1>3, UploadStepValue DEF InsertDocument, TypeOK
  <2>2. FileInv(d)' /\ RowInv(d)'
    BY <1>1, <2>1 DEF FileInv, RowInv, HasRow, HasJob
  <2> QED BY <2>1, <2>2, RecordFrame DEF HasRow
<1>4. CASE CreateJob(d)
  <2>1. /\ upload[d] = "inserted" /\ UNCHANGED <<files, doc, req, purged>>
        /\ \A e \in Docs : e # d => upload'[e] = upload[e] /\ job'[e] = job[e]
        /\ \/ upload'[d] = "created" /\ HasRow(d) /\ job'[d].status = "PENDING"
           \/ upload'[d] = "failed" /\ job' = job
    BY <1>4, UploadStepValue DEF CreateJob, TypeOK, NoJob
  <2>2. FileInv(d)' /\ RowInv(d)'
    BY <1>1, <2>1 DEF FileInv, RowInv, HasRow, HasJob
  <2> QED BY <2>1, <2>2, RecordFrame DEF HasRow
<1>5. CASE Dispatch(d)
  <2>1. /\ upload[d] = "created" /\ upload'[d] \in {"dispatched", "failed"}
        /\ \A e \in Docs : e # d => upload'[e] = upload[e]
        /\ UNCHANGED <<files, doc, job, req, purged>>
    BY <1>5, UploadStepValue DEF Dispatch, database
  <2>2. FileInv(d)' /\ RowInv(d)'
    BY <1>1, <2>1 DEF FileInv, RowInv, HasRow, HasJob
  <2> QED BY <2>1, <2>2, RecordFrame DEF HasRow
<1>6. CASE RecordTaskId(d)
  <2> DEFINE row == [job[d] EXCEPT !.task_id = TRUE]
  <2>1. /\ upload[d] = "dispatched" /\ upload'[d] = "accepted"
        /\ \A e \in Docs : e # d => upload'[e] = upload[e]
        /\ UNCHANGED <<files, doc, req, purged>> /\ SetJob(d, row)
    BY <1>6, UploadStepValue DEF RecordTaskId
  <2>2. row.task_id /\ row.status = job[d].status /\ row.error = job[d].error
    BY DEF TypeOK
  <2> HIDE DEF row
  <2>3. /\ \A e \in Docs : e # d => job'[e] = job[e]
        /\ \/ HasJob(d) /\ job'[d] = row
           \/ ~HasJob(d) /\ job'[d] = job[d]
    BY <2>1 DEF SetJob, TypeOK
  <2>4. FileInv(d)' /\ RowInv(d)'
    BY <1>1, <2>1, <2>2, <2>3 DEF FileInv, RowInv, HasRow, HasJob
  <2> QED BY <2>1, <2>3, <2>4, RecordFrame DEF HasRow
<1>7. CASE UploadCrash(d)
  <2>1. /\ upload[d] # "new" /\ upload'[d] = "failed"
        /\ \A e \in Docs : e # d => upload'[e] = upload[e]
        /\ UNCHANGED <<files, doc, job, req, purged>>
    BY <1>7 DEF UploadCrash, TypeOK, database
  <2>2. FileInv(d)' /\ RowInv(d)'
    BY <1>1, <2>1 DEF FileInv, RowInv, HasRow, HasJob
  <2> QED BY <2>1, <2>2, RecordFrame DEF HasRow
<1> QED BY <1>2, <1>3, <1>4, <1>5, <1>6, <1>7 DEF UploadNext

LEMMA RecordRequest ==
    ASSUME TypeOK, RecordInv, NEW r \in Requests, RequestNext(r) \/ RequestCrash(r)
    PROVE  RecordInv'
<1> USE DEF RequestSteps
<1>1. ASSUME NEW u \in Users, NEW d \in Docs, FindDocument(r, u, d) PROVE RecordInv'
  <2>1. /\ UNCHANGED <<upload, files, doc, job, purged>> /\ HasRow(d)
        /\ req'[r] = [pc |-> "purge", user |-> u, doc |-> d]
        /\ \A s \in Requests : s # r => req'[s] = req[s]
    BY <1>1 DEF FindDocument, TypeOK, database
  <2>2. \A e \in Docs : FileInv(e)' /\ RowInv(e)'
    BY <2>1 DEF RecordInv, FileInv, RowInv, HasRow, HasJob
  <2>3. \A s \in Requests : DeleteInv(s)'
    BY <2>1 DEF RecordInv, RowInv, DeleteInv, HasRow
  <2> QED BY <2>2, <2>3 DEF RecordInv
<1>2. ASSUME NEW from \in RequestSteps \ {"idle"}, NEW to \in RequestSteps,
             RequestStep(r, from, to)
      PROVE  /\ req[r].pc = from /\ req[r].doc \in Docs /\ DeleteInv(r)
             /\ FileInv(req[r].doc) /\ RowInv(req[r].doc)
             /\ req'[r].pc = to /\ (to # "idle" => req'[r].doc = req[r].doc)
             /\ \A s \in Requests : s # r => req'[s] = req[s]
  BY <1>2, RequestStepType DEF RequestStep, TypeOK, RecordInv, IdleRequest
<1>3. \A s \in Requests : req[s].pc # "idle" => req[s].doc \in Docs
  BY DEF TypeOK, IdleRequest
<1>4. CASE PurgeVectors(r)
  <2> DEFINE d == req[r].doc
  <2>1. /\ RequestStep(r, "purge", "unlink") /\ purged' = purged \cup {d}
        /\ UNCHANGED <<upload, files, doc, job>>
    BY <1>4 DEF PurgeVectors, database
  <2>2. /\ d \in Docs /\ DeleteInv(r) /\ req[r].pc = "purge" /\ FileInv(d) /\ RowInv(d)
        /\ req'[r].pc = "unlink" /\ req'[r].doc = d
        /\ \A s \in Requests : s # r => req'[s] = req[s]
    BY <2>1, <1>2
  <2> HIDE DEF d
  <2>3. upload[d] \notin {"new", "saved"} /\ (HasRow(d) \/ d \in purged)
    BY <2>2 DEF DeleteInv, d
  <2>4. \A e \in Docs : FileInv(e)' /\ RowInv(e)'
    BY <2>1, <2>3 DEF RecordInv, FileInv, RowInv, HasRow, HasJob
  <2>5. ASSUME NEW s \in Requests PROVE DeleteInv(s)'
    <3>1. CASE s = r
      BY <3>1, <2>1, <2>2, <2>3 DEF DeleteInv, HasRow
    <3>2. CASE s # r
      BY <3>2, <2>1, <2>2 DEF RecordInv, DeleteInv, HasRow
    <3> QED BY <3>1, <3>2
  <2> QED BY <2>4, <2>5 DEF RecordInv
<1>5. CASE UnlinkFile(r)
  <2> DEFINE d == req[r].doc
  <2>1. /\ RequestStep(r, "unlink", "delete_row") /\ files' = files \ {d}
        /\ UNCHANGED <<upload, doc, job, purged>>
    BY <1>5 DEF UnlinkFile, database
  <2>2. /\ d \in Docs /\ DeleteInv(r) /\ req[r].pc = "unlink"
        /\ req'[r].pc = "delete_row" /\ req'[r].doc = d
        /\ \A s \in Requests : s # r => req'[s] = req[s]
    BY <2>1, <1>2
  <2> HIDE DEF d
  <2>3. upload[d] \notin {"new", "saved"} /\ d \in purged
    BY <2>2 DEF DeleteInv, d
  <2>4. \A e \in Docs : FileInv(e)' /\ RowInv(e)'
    BY <2>1, <2>3 DEF RecordInv, FileInv, RowInv, HasRow, HasJob
  <2>5. ASSUME NEW s \in Requests PROVE DeleteInv(s)'
    <3>1. CASE s = r
      BY <3>1, <2>1, <2>2, <2>3 DEF DeleteInv, HasRow
    <3>2. CASE s # r
      BY <3>2, <2>1, <2>2 DEF RecordInv, DeleteInv, HasRow
    <3> QED BY <3>1, <3>2
  <2> QED BY <2>4, <2>5 DEF RecordInv
<1>6. CASE DeleteRow(r)
  <2> DEFINE d == req[r].doc
  <2>1. /\ RequestStep(r, "delete_row", "idle") /\ UNCHANGED <<upload, files, purged>>
        /\ doc' = [doc EXCEPT ![d] = "NONE"] /\ job' = [job EXCEPT ![d] = NoJob]
    BY <1>6 DEF DeleteRow
  <2>2. /\ d \in Docs /\ DeleteInv(r) /\ req[r].pc = "delete_row"
        /\ req'[r].pc = "idle"
        /\ \A s \in Requests : s # r => req'[s] = req[s]
    BY <2>1, <1>2
  <2> HIDE DEF d
  <2>3. upload[d] \notin {"new", "saved"} /\ d \in purged /\ d \notin files
    BY <2>2 DEF DeleteInv, d
  <2>4. /\ doc'[d] = "NONE" /\ job'[d] = NoJob /\ NoJob.status = "NONE"
        /\ \A e \in Docs : e # d => doc'[e] = doc[e] /\ job'[e] = job[e]
    <3>1. doc'[d] = "NONE" /\ \A e \in Docs : e # d => doc'[e] = doc[e]
      BY <2>1, <2>2 DEF TypeOK
    <3>2. job'[d] = NoJob /\ \A e \in Docs : e # d => job'[e] = job[e]
      BY <2>1, <2>2 DEF TypeOK
    <3> QED BY <3>1, <3>2 DEF NoJob
  <2>5. ASSUME NEW e \in Docs PROVE FileInv(e)' /\ RowInv(e)'
    <3>1. CASE e = d
      BY <3>1, <2>1, <2>3, <2>4 DEF FileInv, RowInv, HasRow, HasJob
    <3>2. CASE e # d
      BY <3>2, <2>1, <2>4 DEF RecordInv, FileInv, RowInv, HasRow, HasJob
    <3> QED BY <3>1, <3>2
  <2>6. ASSUME NEW s \in Requests PROVE DeleteInv(s)'
    <3>1. CASE s = r
      BY <3>1, <2>2 DEF DeleteInv
    <3>2. CASE s # r
      BY <3>2, <1>3, <2>1, <2>2, <2>3, <2>4 DEF RecordInv, DeleteInv, HasRow
    <3> QED BY <3>1, <3>2
  <2> QED BY <2>5, <2>6 DEF RecordInv
<1>7. CASE RequestCrash(r)
  <2>1. /\ UNCHANGED <<upload, files, doc, job, purged>> /\ req'[r].pc = "idle"
        /\ \A s \in Requests : s # r => req'[s] = req[s]
    BY <1>7 DEF RequestCrash, TypeOK, database, IdleRequest
  <2>2. \A e \in Docs : FileInv(e)' /\ RowInv(e)'
    BY <2>1 DEF RecordInv, FileInv, RowInv, HasRow, HasJob
  <2>3. \A s \in Requests : DeleteInv(s)'
    BY <2>1 DEF RecordInv, DeleteInv, HasRow
  <2> QED BY <2>2, <2>3 DEF RecordInv
<1> QED BY <1>1, <1>4, <1>5, <1>6, <1>7 DEF RequestNext

LEMMA RecordStep == TypeOK /\ RecordInv /\ [Next]_vars => RecordInv'
<1> SUFFICES ASSUME TypeOK, RecordInv, [Next]_vars PROVE RecordInv' OBVIOUS
<1>1. ASSUME UNCHANGED <<upload, files, doc, job, req, purged>> PROVE RecordInv'
  BY <1>1 DEF RecordInv, FileInv, RowInv, DeleteInv, HasRow, HasJob
<1>2. CASE FaultNext
  <2>1. ASSUME NEW w \in Workers, WorkerCrash(w) PROVE RecordInv'
    BY <2>1, <1>1 DEF WorkerCrash, database
  <2>2. CASE BrokerRestart
    BY <2>2, <1>1 DEF BrokerRestart, database
  <2> QED BY <1>2, <2>1, <2>2, RecordUpload, RecordRequest DEF FaultNext
<1>3. CASE UNCHANGED vars
  BY <1>3, <1>1 DEF vars
<1> QED BY <1>2, <1>3, RecordUpload, RecordRequest, RecordWorker DEF Next, Quiescent

LEMMA RecordInvariant == Spec => [](TypeOK /\ SearchInv /\ RecordInv)
  BY TypeInit, TypeStep, SearchInit, SearchStep, RecordInit, RecordStep, PTL DEF Spec

\* A document that is listed and that nobody asked to delete has its file,
\* whatever fails.
THEOREM ListedHaveFiles == Spec => []ListedHasFile
<1>1. RecordInv => ListedHasFile
  BY DEF RecordInv, FileInv, ListedHasFile
<1> QED BY <1>1, RecordInvariant, PTL

\* A deletion that ran to its end took row, job and file away for good, for
\* any number of workers and requests that run beside it.
THEOREM DeletionsAreFinal == Spec => []DeletedIsGone
<1>1. RecordInv => DeletedIsGone
  BY DEF RecordInv, FileInv, RowInv, DeletedIsGone, Deleted
<1> QED BY <1>1, RecordInvariant, PTL

\* The task id of an accepted upload can be polled while the document is
\* listed, by its owner only, and a settled answer is complete.
THEOREM AcceptedArePollable == Spec => []AcceptedIsPollable
<1>1. SearchInv /\ RecordInv => AcceptedIsPollable
  <2> SUFFICES ASSUME SearchInv, RecordInv, NEW d \in Docs, NEW u \in Users
               PROVE  /\ u # Owner[d] => PublicStatus(u, d) = "NOT_FOUND"
                      /\ upload[d] = "accepted" /\ HasRow(d)
                            => PublicStatus(Owner[d], d) # "NOT_FOUND"
                      /\ PublicStatus(u, d) = "SUCCESS" => job[d].chunk_count > 0
                      /\ PublicStatus(u, d) = "FAILURE" => job[d].error
    BY DEF AcceptedIsPollable
  <2>1. RowInv(d)
    BY DEF RecordInv
  <2>2. job[d].status = "SUCCESS" => job[d].chunk_count > 0
    BY DEF SearchInv, SuccessIsIndexed
  <2> QED BY <2>1, <2>2 DEF RowInv, PublicStatus, Settled
<1> QED BY <1>1, RecordInvariant, PTL

\* Only two steps of the code write to the store.
LEMMA StoreSteps ==
    ASSUME [Next]_vars
    PROVE  \/ UNCHANGED vectors
           \/ \E w \in Workers : Upsert(w)
           \/ \E r \in Requests : PurgeVectors(r)
  BY DEF Next, UploadNext, WorkerNext, RequestNext, FaultNext, Quiescent, vars,
         SaveFile, InsertDocument, CreateJob, Dispatch, RecordTaskId, UploadCrash,
         Begin, MarkStarted, MarkProcessing, Extract, MarkJobSuccess, MarkDocumentSuccess,
         MarkJobFailure, MarkDocumentFailure, WorkerCrash, BrokerRestart,
         FindDocument, UnlinkFile, DeleteRow, RequestCrash

-----------------------------------------------------------------------------
(* Who takes a document away. FindDocument looks the document up among     *)
(* those of the user who asks, and the request carries that user on.       *)

AsksForOwn(r) == req[r].pc # "idle" => req[r].user = Owner[req[r].doc]

OwnInv == \A r \in Requests : AsksForOwn(r)

LEMMA OwnInit == Init => OwnInv
  BY DEF Init, OwnInv, AsksForOwn, IdleRequest

\* A request step ends the request or keeps its user and its document.
LEMMA RequestStepValue ==
    ASSUME TypeOK, NEW r \in Requests, NEW from \in RequestSteps \ {"idle"},
           NEW to \in RequestSteps, RequestStep(r, from, to)
    PROVE  /\ req[r].pc = from /\ req[r].doc \in Docs /\ req[r].user \in Users
           /\ \/ req'[r] = IdleRequest
              \/ req'[r].user = req[r].user /\ req'[r].doc = req[r].doc
           /\ \A s \in Requests : s # r => req'[s] = req[s]
  BY DEF TypeOK, RequestStep, IdleRequest

LEMMA OwnStep == TypeOK /\ OwnInv /\ [Next]_vars => OwnInv'
<1> SUFFICES ASSUME TypeOK, OwnInv, [Next]_vars PROVE OwnInv' OBVIOUS
<1>1. ASSUME UNCHANGED req PROVE OwnInv'
  BY <1>1 DEF OwnInv, AsksForOwn
<1>2. ASSUME NEW r \in Requests, RequestNext(r) \/ RequestCrash(r) PROVE OwnInv'
  <2>1. CASE \E u \in Users, d \in Docs : FindDocument(r, u, d)
    BY <2>1 DEF OwnInv, AsksForOwn, FindDocument, TypeOK
  <2>2. ASSUME NEW from \in RequestSteps \ {"idle"}, NEW to \in RequestSteps,
               RequestStep(r, from, to)
        PROVE  OwnInv'
    BY <2>2, RequestStepValue DEF OwnInv, AsksForOwn, IdleRequest
  <2>3. CASE RequestCrash(r)
    BY <2>3 DEF RequestCrash, OwnInv, AsksForOwn, TypeOK, IdleRequest
  <2> QED BY <1>2, <2>1, <2>2, <2>3
          DEF RequestNext, PurgeVectors, UnlinkFile, DeleteRow, RequestSteps
<1>3. ASSUME NEW w \in Workers, WorkerNext(w) PROVE OwnInv'
  BY <1>1, <1>3, WorkerRows
<1> QED BY <1>1, <1>2, <1>3
        DEF Next, UploadNext, FaultNext, Quiescent, vars, SaveFile, InsertDocument,
            CreateJob, Dispatch, RecordTaskId, UploadCrash, WorkerCrash, BrokerRestart

\* Rows, files and chunks disappear in three steps of a delete request only.
LEMMA TakenByRequest ==
    ASSUME TypeOK, [Next]_vars, NEW d \in Docs,
           \/ HasRow(d) /\ ~HasRow(d)'
           \/ d \in files \ files'
           \/ \E u \in Users : ~(VectorsOf(u, d) \subseteq VectorsOf(u, d)')
    PROVE  \E r \in Requests : req[r].doc = d /\ req[r].pc # "idle"
<1>1. CASE HasRow(d) /\ ~HasRow(d)'
  <2>1. ~UNCHANGED doc
    BY <1>1 DEF HasRow
  <2>2. ASSUME NEW e \in Docs, UploadNext(e) PROVE FALSE
    BY <1>1, <2>1, <2>2 DEF UploadNext, SaveFile, InsertDocument, CreateJob, Dispatch,
       RecordTaskId, database, HasRow, TypeOK
  <2>3. ASSUME NEW w \in Workers, WorkerNext(w) PROVE FALSE
    BY <1>1, <2>3, WorkerRows
  <2>4. PICK r \in Requests : DeleteRow(r)
    BY <2>1, <2>2, <2>3
       DEF Next, RequestNext, FaultNext, Quiescent, vars, FindDocument, PurgeVectors,
           UnlinkFile, UploadCrash, WorkerCrash, RequestCrash, BrokerRestart, database
  <2>5. req[r].pc = "delete_row" /\ doc' = [doc EXCEPT ![req[r].doc] = "NONE"]
    BY <2>4 DEF DeleteRow, RequestStep
  <2> QED BY <1>1, <2>5 DEF HasRow, TypeOK
<1>2. CASE d \in files \ files'
  <2>1. ASSUME NEW w \in Workers, WorkerNext(w) PROVE FALSE
    BY <1>2, <2>1, WorkerRows
  <2>2. PICK r \in Requests : UnlinkFile(r)
    BY <1>2, <2>1
       DEF Next, UploadNext, SaveFile, InsertDocument, CreateJob, Dispatch, RecordTaskId,
           RequestNext, FaultNext, Quiescent, vars, FindDocument, PurgeVectors, DeleteRow,
           UploadCrash, WorkerCrash, RequestCrash, BrokerRestart
  <2>3. req[r].pc = "unlink" /\ files' = files \ {req[r].doc}
    BY <2>2 DEF UnlinkFile, RequestStep
  <2> QED BY <1>2, <2>3
<1>3. ASSUME NEW u \in Users, ~(VectorsOf(u, d) \subseteq VectorsOf(u, d)')
      PROVE  \E r \in Requests : req[r].doc = d /\ req[r].pc # "idle"
  <2>1. ~(vectors[u] \subseteq vectors'[u])
    BY <1>3 DEF VectorsOf
  <2>2. ASSUME NEW w \in Workers, Upsert(w) PROVE FALSE
    BY <2>1, <2>2 DEF Upsert, TypeOK
  <2>3. PICK r \in Requests : PurgeVectors(r)
    BY <2>1, <2>2, StoreSteps
  <2>4. req[r].pc = "purge"
    BY <2>3 DEF PurgeVectors, RequestStep
  <2>5. \A c \in vectors[u] \ vectors'[u] : c[1] = req[r].doc
    BY <2>3 DEF PurgeVectors, VectorsOf, TypeOK
  <2>6. PICK c \in vectors[u] \ vectors'[u] : c[1] = d
    BY <1>3 DEF VectorsOf
  <2> QED BY <2>4, <2>5, <2>6
<1> QED BY <1>1, <1>2, <1>3

\* Only a delete request of the owner takes a document, its file or its
\* chunks away, whatever fails: no worker, upload, crash or redelivery does.
THEOREM DeletedByOwnerOnly == Spec => OnlyOwnerDeletes
<1>1. TypeOK /\ OwnInv /\ [Next]_vars =>
        [\A d \in Docs :
            \/ HasRow(d) /\ ~HasRow(d)'
            \/ d \in files \ files'
            \/ \E u \in Users : ~(VectorsOf(u, d) \subseteq VectorsOf(u, d)')
            => \E r \in Requests : req[r].doc = d /\ req[r].user = Owner[d]]_vars
  BY TakenByRequest DEF OwnInv, AsksForOwn
<1> QED BY <1>1, TypeInit, TypeStep, OwnInit, OwnStep, PTL DEF Spec, OnlyOwnerDeletes

-----------------------------------------------------------------------------
(* The life cycle of a job. As long as the broker delivers no message      *)
(* twice, at most one worker runs a document, and where that worker is     *)
(* tells what it has written.                                              *)

Sent(d) == upload[d] \in {"dispatched", "accepted", "failed"}

\* No worker had the message of d yet.
Waiting(d) == ~Sent(d) \/ d \in queue

\* Statuses of job and document while a worker is about to do a step.
Phase(step, j, s) ==
    \/ step = "mark_started" /\ j = "PENDING" /\ s = "UPLOADED"
    \/ step = "mark_processing" /\ j = "STARTED" /\ s = "UPLOADED"
    \/ /\ step \in {"extract", "upsert", "job_success", "job_failure"}
       /\ j = "STARTED" /\ s = "PROCESSING"
    \/ step = "doc_success" /\ j = "SUCCESS" /\ s = "PROCESSING"
    \/ step = "doc_failure" /\ j = "FAILURE" /\ s = "PROCESSING"

\* The pairs of statuses DocumentLagsJob allows.
Lag(j, s) ==
    \/ j \in {"PENDING", "STARTED"} /\ s = "UPLOADED"
    \/ j \in Settled \cup {"STARTED"} /\ s = "PROCESSING"
    \/ j \in Settled /\ s = j

OnceDoc(d) ==
    /\ d \in queue => Sent(d)
    /\ Waiting(d) =>
          /\ \A w \in Workers : task[w] # d
          /\ HasJob(d) => job[d].status = "PENDING"
          /\ HasRow(d) => doc[d] = "UPLOADED"
    /\ HasJob(d) => Lag(job[d].status, doc[d])

OnceWork(w) ==
    /\ \A v \in Workers : pc[w] # "idle" /\ task[v] = task[w] => v = w
    /\ pc[w] # "idle" /\ HasJob(task[w])
          => Phase(pc[w], job[task[w]].status, doc[task[w]])

OnceInv ==
    /\ \A d \in Docs : OnceDoc(d)
    /\ \A w \in Workers : OnceWork(w)

LEMMA OnceInit == Init => OnceInv
  BY DEF Init, OnceInv, OnceDoc, OnceWork, Waiting, Sent, HasRow, HasJob, NoJob

\* A step of upload or delete request keeps the invariant if it keeps it for
\* its document and shows nothing new to the workers.
LEMMA OnceFrame ==
    ASSUME TypeOK, OnceInv, NEW d \in Docs, UNCHANGED <<pc, task>>,
           \A e \in Docs : e # d => /\ upload'[e] = upload[e] /\ doc'[e] = doc[e]
                                    /\ job'[e].status = job[e].status
                                    /\ e \in queue' <=> e \in queue,
           OnceDoc(d)',
           \/ job'[d].status = job[d].status /\ doc'[d] = doc[d]
           \/ job'[d].status = "NONE"
           \/ \A w \in Workers : task[w] # d
    PROVE  OnceInv'
<1>1. ASSUME NEW e \in Docs, e # d PROVE OnceDoc(e)'
  BY <1>1 DEF OnceInv, OnceDoc, Waiting, Sent, HasRow, HasJob
<1>2. ASSUME NEW w \in Workers PROVE OnceWork(w)'
  <2>1. OnceWork(w) /\ (pc[w] # "idle" => task[w] \in Docs)
    BY DEF OnceInv, TypeOK
  <2>2. CASE task[w] = d
    BY <2>1, <2>2 DEF OnceWork, HasJob
  <2>3. CASE task[w] # d
    BY <2>1, <2>3 DEF OnceWork, HasJob
  <2> QED BY <2>2, <2>3
<1> QED BY <1>1, <1>2 DEF OnceInv

LEMMA OnceUpload ==
    ASSUME TypeOK, RecordInv, OnceInv, NEW d \in Docs, UploadNext(d) \/ UploadCrash(d)
    PROVE  OnceInv'
<1> USE DEF UploadSteps
<1>1. OnceDoc(d) /\ RowInv(d)
  BY DEF RecordInv, OnceInv
<1>2. CASE SaveFile(d)
  <2>1. /\ upload[d] = "new" /\ upload'[d] = "saved"
        /\ \A e \in Docs : e # d => upload'[e] = upload[e]
        /\ UNCHANGED <<doc, job, queue, pc, task>>
    BY <1>2, UploadStepValue DEF SaveFile, database, worker
  <2>2. OnceDoc(d)'
    BY <1>1, <2>1 DEF OnceDoc, Waiting, Sent, HasRow, HasJob
  <2> QED BY <2>1, <2>2, OnceFrame
<1>3. CASE InsertDocument(d)
  <2>1. /\ upload[d] = "saved" /\ upload'[d] = "inserted" /\ doc'[d] = "UPLOADED"
        /\ \A e \in Docs : e # d => upload'[e] = upload[e] /\ doc'[e] = doc[e]
        /\ UNCHANGED <<job, queue, pc, task>>
    BY <1>3, UploadStepValue DEF InsertDocument, TypeOK, worker
  <2>2. OnceDoc(d)' /\ \A w \in Workers : task[w] # d
    BY <1>1, <2>1 DEF OnceDoc, RowInv, Waiting, Sent, HasRow, HasJob
  <2> QED BY <2>1, <2>2, OnceFrame
<1>4. CASE CreateJob(d)
  <2>1. /\ upload[d] = "inserted" /\ UNCHANGED <<doc, queue, pc, task>>
        /\ \A e \in Docs : e # d => upload'[e] = upload[e] /\ job'[e] = job[e]
        /\ \/ upload'[d] = "created" /\ HasRow(d) /\ job'[d].status = "PENDING"
           \/ upload'[d] = "failed" /\ job' = job
    BY <1>4, UploadStepValue DEF CreateJob, TypeOK, NoJob, worker
  <2>2. \A w \in Workers : task[w] # d
    BY <1>1, <2>1 DEF OnceDoc, Waiting, Sent
  <2>3. OnceDoc(d)'
    BY <1>1, <2>1, <2>2 DEF OnceDoc, RowInv, Waiting, Sent, HasRow, HasJob, Lag
  <2> QED BY <2>1, <2>2, <2>3, OnceFrame
<1>5. CASE Dispatch(d)
  <2>1. /\ upload[d] = "created" /\ Sent(d)' /\ UNCHANGED <<doc, job, pc, task>>
        /\ \A e \in Docs : e # d => upload'[e] = upload[e] /\ (e \in queue' <=> e \in queue)
    BY <1>5, UploadStepValue DEF Dispatch, database, worker, Sent
  <2>2. OnceDoc(d)'
    BY <1>1, <2>1 DEF OnceDoc, Waiting, Sent, HasRow, HasJob
  <2> QED BY <2>1, <2>2, OnceFrame
<1>6. CASE RecordTaskId(d)
  <2> DEFINE row == [job[d] EXCEPT !.task_id = TRUE]
  <2>1. /\ upload[d] = "dispatched" /\ upload'[d] = "accepted"
        /\ \A e \in Docs : e # d => upload'[e] = upload[e]
        /\ UNCHANGED <<doc, queue, pc, task>> /\ SetJob(d, row)
    BY <1>6, UploadStepValue DEF RecordTaskId, worker
  <2>2. row.status = job[d].status
    BY DEF TypeOK
  <2> HIDE DEF row
  <2>3. \A e \in Docs : job'[e].status = job[e].status
    BY <2>1, <2>2, SetJobValue
  <2>4. OnceDoc(d)'
    BY <1>1, <2>1, <2>3 DEF OnceDoc, Waiting, Sent, HasRow, HasJob
  <2> QED BY <2>1, <2>3, <2>4, OnceFrame
<1>7. CASE UploadCrash(d)
  <2>1. /\ upload'[d] = "failed" /\ UNCHANGED <<doc, job, queue, pc, task>>
        /\ \A e \in Docs : e # d => upload'[e] = upload[e]
    BY <1>7 DEF UploadCrash, TypeOK, database, worker
  <2>2. OnceDoc(d)'
    BY <1>1, <2>1 DEF OnceDoc, Waiting, Sent, HasRow, HasJob
  <2> QED BY <2>1, <2>2, OnceFrame
<1> QED BY <1>2, <1>3, <1>4, <1>5, <1>6, <1>7 DEF UploadNext

LEMMA OnceRequest ==
    ASSUME TypeOK, OnceInv, NEW r \in Requests, RequestNext(r) \/ RequestCrash(r)
    PROVE  OnceInv'
<1>1. CASE DeleteRow(r)
  <2>1. PICK d \in Docs : /\ doc' = [doc EXCEPT ![d] = "NONE"]
                          /\ job' = [job EXCEPT ![d] = NoJob]
    BY <1>1, RequestStepType DEF DeleteRow, RequestSteps
  <2>2. UNCHANGED <<upload, queue, pc, task>> /\ NoJob.status = "NONE"
    BY <1>1 DEF DeleteRow, worker, NoJob
  <2>3. doc'[d] = "NONE" /\ \A e \in Docs : e # d => doc'[e] = doc[e]
    BY <2>1 DEF TypeOK
  <2>4. job'[d] = NoJob /\ \A e \in Docs : e # d => job'[e] = job[e]
    BY <2>1 DEF TypeOK
  <2>5. OnceDoc(d)'
    BY <2>2, <2>3, <2>4 DEF OnceInv, OnceDoc, Waiting, Sent, HasRow, HasJob
  <2> QED BY <2>2, <2>3, <2>4, <2>5, OnceFrame
<1>2. ASSUME UNCHANGED <<upload, doc, job, queue, pc, task>> PROVE OnceInv'
  BY <1>2 DEF OnceInv, OnceDoc, OnceWork, Waiting, Sent, HasRow, HasJob
<1> QED
  BY <1>1, <1>2 DEF RequestNext, FindDocument, PurgeVectors, UnlinkFile, RequestCrash,
                    database, worker

\* A step of the worker that runs d keeps the invariant if it leaves the
\* statuses of d as the step after it expects them.
LEMMA OnceRun ==
    ASSUME TypeOK, OnceInv, NEW w \in Workers, NEW d \in Docs, task[w] = d,
           NEW from \in WorkerSteps \ {"idle"}, NEW to \in WorkerSteps,
           WorkerStep(w, from, to), UNCHANGED <<upload, queue>>,
           \A e \in Docs : e # d => doc'[e] = doc[e] /\ job'[e].status = job[e].status,
           HasJob(d)' => /\ Lag(job'[d].status, doc'[d])
                         /\ to # "idle" => Phase(to, job'[d].status, doc'[d])
    PROVE  OnceInv'
<1>1. /\ pc[w] # "idle" /\ pc'[w] = to
      /\ \A v \in Workers : v # w => pc'[v] = pc[v] /\ task'[v] = task[v]
      /\ to # "idle" => task'[w] = d
      /\ to = "idle" => task'[w] = NoDoc
  BY WorkerStepType DEF WorkerStep, TypeOK
<1>2. OnceWork(w) /\ OnceDoc(d)
  BY DEF OnceInv
<1>3. ASSUME NEW e \in Docs PROVE OnceDoc(e)'
  <2>1. CASE e = d
    <3>1. Sent(d) /\ d \notin queue
      BY <1>2 DEF OnceDoc, Waiting
    <3>2. Sent(d)' /\ d \notin queue'
      BY <3>1 DEF Sent
    <3> QED BY <2>1, <3>2 DEF OnceDoc, Waiting, HasJob
  <2>2. CASE e # d
    BY <2>2, <1>1 DEF OnceInv, OnceDoc, Waiting, Sent, HasRow, HasJob
  <2> QED BY <2>1, <2>2
<1>4. ASSUME NEW v \in Workers PROVE OnceWork(v)'
  <2>1. CASE v = w
    <3>1. ASSUME to # "idle", NEW x \in Workers, task'[x] = d PROVE x = w
      BY <3>1, <1>1, <1>2 DEF OnceWork
    <3> QED BY <2>1, <3>1, <1>1 DEF OnceWork, HasJob
  <2>2. CASE v # w
    <3>1. OnceWork(v) /\ (pc[v] # "idle" => task[v] \in Docs /\ task[v] # d)
      BY <2>2, <1>1, <1>2 DEF OnceInv, OnceWork, TypeOK
    <3>2. ASSUME pc[v] # "idle", NEW x \in Workers, task'[x] = task[v] PROVE x = v
      BY <3>1, <3>2, <1>1 DEF OnceWork
    <3> QED BY <2>2, <3>1, <3>2, <1>1 DEF OnceWork, HasJob
  <2> QED BY <2>1, <2>2
<1> QED BY <1>3, <1>4 DEF OnceInv

\* Taking a message that is not delivered again.
LEMMA OnceBegin ==
    ASSUME TypeOK, RecordInv, OnceInv, NEW w \in Workers, NEW d \in Docs, Begin(w, d),
           "redelivery" \notin Faults
    PROVE  OnceInv'
<1>1. /\ UNCHANGED <<upload, doc, job>> /\ pc[w] = "idle" /\ d \in queue
      /\ queue' = queue \ {d}
      /\ \A v \in Workers : v # w => pc'[v] = pc[v] /\ task'[v] = task[v]
      /\ \/ HasJob(d) /\ pc'[w] = "mark_started" /\ task'[w] = d
         \/ pc'[w] = pc[w] /\ task'[w] = task[w]
  BY DEF Begin, TypeOK, database, worker
<1>2. /\ \A v \in Workers : task[v] # d
      /\ Sent(d) /\ (HasJob(d) => job[d].status = "PENDING" /\ doc[d] = "UPLOADED")
  BY <1>1 DEF OnceInv, OnceDoc, Waiting, RecordInv, RowInv
<1>3. ASSUME NEW e \in Docs PROVE OnceDoc(e)'
  <2>1. OnceDoc(e) /\ (HasJob(e)' <=> HasJob(e)) /\ (HasRow(e)' <=> HasRow(e))
        /\ (Sent(e)' <=> Sent(e))
    BY <1>1 DEF OnceInv, HasJob, HasRow, Sent
  <2>2. CASE e = d
    BY <2>1, <2>2, <1>1, <1>2 DEF OnceDoc, Waiting
  <2>3. CASE e # d
    BY <2>1, <2>3, <1>1 DEF OnceDoc, Waiting
  <2> QED BY <2>2, <2>3
<1>4. ASSUME NEW v \in Workers PROVE OnceWork(v)'
  <2>1. CASE v = w
    BY <2>1, <1>1, <1>2 DEF OnceWork, HasJob, Phase
  <2>2. CASE v # w
    BY <2>2, <1>1, <1>2 DEF OnceInv, OnceWork, HasJob
  <2> QED BY <2>1, <2>2
<1> QED BY <1>3, <1>4 DEF OnceInv

LEMMA OnceWorker ==
    ASSUME TypeOK, RecordInv, OnceInv, NEW w \in Workers, WorkerNext(w),
           "redelivery" \notin Faults
    PROVE  OnceInv'
<1>1. CASE \E d \in Docs : Begin(w, d)
  BY <1>1, OnceBegin
<1>2. ASSUME ~\E d \in Docs : Begin(w, d) PROVE OnceInv'
  <2>1. PICK d \in Docs : task[w] = d
    BY <1>2, WorkerStepType
       DEF WorkerNext, MarkStarted, MarkProcessing, Extract, Upsert, MarkJobSuccess,
           MarkDocumentSuccess, MarkJobFailure, MarkDocumentFailure, WorkerSteps
  <2>2. /\ RowInv(d)
        /\ HasJob(d) => Phase(pc[w], job[d].status, doc[d]) /\ HasRow(d)
    BY <2>1 DEF OnceInv, OnceWork, TypeOK, RecordInv, RowInv
  <2> USE DEF WorkerSteps
  <2>3. ASSUME NEW s \in DocStatus \ {"NONE"}, SetDocument(d, s)
        PROVE  /\ \A e \in Docs : e # d => doc'[e] = doc[e]
               /\ HasRow(d) => doc'[d] = s
    BY <2>3 DEF SetDocument, TypeOK
  <2>4. CASE MarkStarted(w)
    <3> DEFINE row == [job[d] EXCEPT !.status = "STARTED"]
    <3>1. WorkerStep(w, "mark_started", "mark_processing") /\ SetJob(d, row)
          /\ UNCHANGED <<upload, queue, doc>> /\ pc[w] = "mark_started"
      BY <2>1, <2>4 DEF MarkStarted, WorkerStep
    <3>2. row.status = "STARTED"
      BY DEF TypeOK
    <3> HIDE DEF row
    <3>3. /\ \A e \in Docs : e # d => job'[e] = job[e]
          /\ HasJob(d)' => HasJob(d) /\ job'[d] = row
      BY <3>1, <2>1 DEF SetJob, HasJob, TypeOK
    <3> QED BY <2>1, <2>2, <3>1, <3>2, <3>3, OnceRun DEF Phase, Lag
  <2>5. CASE MarkProcessing(w)
    <3>1. WorkerStep(w, "mark_processing", "extract") /\ SetDocument(d, "PROCESSING")
          /\ UNCHANGED <<upload, queue, job>> /\ pc[w] = "mark_processing"
      BY <2>1, <2>5 DEF MarkProcessing, WorkerStep
    <3>2. \A e \in Docs : e # d => doc'[e] = doc[e]
      BY <3>1, <2>3 DEF DocStatus
    <3>3. HasJob(d)' => job'[d].status = "STARTED" /\ doc'[d] = "PROCESSING"
      BY <3>1, <2>2, <2>3 DEF HasJob, Phase, DocStatus
    <3> QED BY <2>1, <3>1, <3>2, <3>3, OnceRun DEF Phase, Lag
  <2>6. CASE Extract(w)
    <3>1. PICK to \in {"upsert", "job_failure"} :
             WorkerStep(w, "extract", to) /\ UNCHANGED <<upload, queue, job, doc>>
      BY <2>6 DEF Extract, database
    <3>2. HasJob(d)' => job'[d].status = "STARTED" /\ doc'[d] = "PROCESSING"
      BY <3>1, <2>2 DEF HasJob, Phase, WorkerStep
    <3> QED BY <2>1, <3>1, <3>2, OnceRun DEF Phase, Lag
  <2>7. CASE Upsert(w)
    <3>1. PICK to \in {"job_success", "job_failure"} :
             WorkerStep(w, "upsert", to) /\ UNCHANGED <<upload, queue, job, doc>>
      BY <2>7 DEF Upsert, database
    <3>2. HasJob(d)' => job'[d].status = "STARTED" /\ doc'[d] = "PROCESSING"
      BY <3>1, <2>2 DEF HasJob, Phase, WorkerStep
    <3> QED BY <2>1, <3>1, <3>2, OnceRun DEF Phase, Lag
  <2>8. CASE MarkJobSuccess(w)
    <3> DEFINE row == [job[d] EXCEPT !.status = "SUCCESS", !.chunk_count = NChunks[d]]
    <3>1. WorkerStep(w, "job_success", "doc_success") /\ SetJob(d, row)
          /\ UNCHANGED <<upload, queue, doc>> /\ pc[w] = "job_success"
      BY <2>1, <2>8 DEF MarkJobSuccess, WorkerStep
    <3>2. row.status = "SUCCESS"
      BY DEF TypeOK
    <3> HIDE DEF row
    <3>3. /\ \A e \in Docs : e # d => job'[e] = job[e]
          /\ HasJob(d)' => HasJob(d) /\ job'[d] = row
      BY <3>1, <2>1 DEF SetJob, HasJob, TypeOK
    <3> QED BY <2>1, <2>2, <3>1, <3>2, <3>3, OnceRun DEF Phase, Lag, Settled
  <2>9. CASE MarkDocumentSuccess(w)
    <3>1. WorkerStep(w, "doc_success", "idle") /\ SetDocument(d, "SUCCESS")
          /\ UNCHANGED <<upload, queue, job>> /\ pc[w] = "doc_success"
      BY <2>1, <2>9 DEF MarkDocumentSuccess, WorkerStep
    <3>2. \A e \in Docs : e # d => doc'[e] = doc[e]
      BY <3>1, <2>3 DEF DocStatus
    <3>3. HasJob(d)' => job'[d].status = "SUCCESS" /\ doc'[d] = "SUCCESS"
      BY <3>1, <2>2, <2>3 DEF HasJob, Phase, DocStatus
    <3> QED BY <2>1, <3>1, <3>2, <3>3, OnceRun DEF Lag, Settled
  <2>10. CASE MarkJobFailure(w)
    <3> DEFINE row == [job[d] EXCEPT !.status = "FAILURE", !.error = TRUE]
    <3>1. WorkerStep(w, "job_failure", "doc_failure") /\ SetJob(d, row)
          /\ UNCHANGED <<upload, queue, doc>> /\ pc[w] = "job_failure"
      BY <2>1, <2>10 DEF MarkJobFailure, WorkerStep
    <3>2. row.status = "FAILURE"
      BY DEF TypeOK
    <3> HIDE DEF row
    <3>3. /\ \A e \in Docs : e # d => job'[e] = job[e]
          /\ HasJob(d)' => HasJob(d) /\ job'[d] = row
      BY <3>1, <2>1 DEF SetJob, HasJob, TypeOK
    <3> QED BY <2>1, <2>2, <3>1, <3>2, <3>3, OnceRun DEF Phase, Lag, Settled
  <2>11. CASE MarkDocumentFailure(w)
    <3>1. WorkerStep(w, "doc_failure", "idle") /\ SetDocument(d, "FAILURE")
          /\ UNCHANGED <<upload, queue, job>> /\ pc[w] = "doc_failure"
      BY <2>1, <2>11 DEF MarkDocumentFailure, WorkerStep
    <3>2. \A e \in Docs : e # d => doc'[e] = doc[e]
      BY <3>1, <2>3 DEF DocStatus
    <3>3. HasJob(d)' => job'[d].status = "FAILURE" /\ doc'[d] = "FAILURE"
      BY <3>1, <2>2, <2>3 DEF HasJob, Phase, DocStatus
    <3> QED BY <2>1, <3>1, <3>2, <3>3, OnceRun DEF Lag, Settled
  <2> QED BY <1>2, <2>4, <2>5, <2>6, <2>7, <2>8, <2>9, <2>10, <2>11 DEF WorkerNext
<1> QED BY <1>1, <1>2

LEMMA OnceStep ==
    ASSUME TypeOK, RecordInv, OnceInv, [Next]_vars, "redelivery" \notin Faults
    PROVE  OnceInv'
<1>1. ASSUME NEW w \in Workers, WorkerCrash(w) PROVE OnceInv'
  <2>1. /\ UNCHANGED <<upload, doc, job, queue>> /\ pc'[w] = "idle" /\ task'[w] = NoDoc
        /\ \A v \in Workers : v # w => pc'[v] = pc[v] /\ task'[v] = task[v]
    BY <1>1 DEF WorkerCrash, TypeOK, database
  <2>2. ASSUME NEW d \in Docs PROVE OnceDoc(d)'
    BY <2>1 DEF OnceInv, OnceDoc, Waiting, Sent, HasRow, HasJob
  <2>3. ASSUME NEW v \in Workers PROVE OnceWork(v)'
    <3>1. OnceWork(v) /\ (pc[v] # "idle" => task[v] # NoDoc)
      BY DEF OnceInv, TypeOK
    <3> QED BY <2>1, <3>1 DEF OnceWork, HasJob
  <2> QED BY <2>2, <2>3 DEF OnceInv
<1>2. CASE BrokerRestart
  <2>1. UNCHANGED <<upload, doc, job, pc, task>> /\ queue' = {}
    BY <1>2 DEF BrokerRestart, database, worker
  <2> QED BY <2>1 DEF OnceInv, OnceDoc, OnceWork, Waiting, Sent, HasRow, HasJob
<1>3. CASE UNCHANGED vars
  BY <1>3 DEF vars, OnceInv, OnceDoc, OnceWork, Waiting, Sent, HasRow, HasJob
<1> QED BY <1>1, <1>2, <1>3, OnceUpload, OnceRequest, OnceWorker DEF Next, FaultNext, Quiescent

LEMMA OnceInvariant ==
    ASSUME "redelivery" \notin Faults
    PROVE  Spec => [](TypeOK /\ RecordInv /\ OnceInv)
<1>1. TypeOK /\ RecordInv /\ OnceInv /\ [Next]_vars => OnceInv'
  BY OnceStep
<1>2. Spec => []TypeOK /\ []RecordInv
  BY RecordInvariant, PTL
<1> QED BY <1>1, <1>2, OnceInit, PTL DEF Spec

\* As long as nothing is redelivered, the document's status follows the
\* job's and lags it by one write at most, whatever crashes.
THEOREM DocumentsLagJobs ==
    ASSUME "redelivery" \notin Faults PROVE Spec => []DocumentLagsJob
<1>1. OnceInv => DocumentLagsJob
  <2> SUFFICES ASSUME OnceInv, NEW d \in Docs, HasJob(d)
               PROVE  <<job[d].status, doc[d]>> \in
                          {<<"PENDING", "UPLOADED">>, <<"STARTED", "UPLOADED">>}
                          \cup {<<s, "PROCESSING">> : s \in Settled \cup {"STARTED"}}
                          \cup {<<s, s>> : s \in Settled}
    BY DEF DocumentLagsJob
  <2>1. Lag(job[d].status, doc[d])
    BY DEF OnceInv, OnceDoc
  <2> QED BY <2>1 DEF Lag, Settled
<1> QED BY <1>1, OnceInvariant, PTL

\* The moves of the documented state machine, and what a step does to the jobs.
Move(s, t) ==
    \/ s = "NONE" /\ t = "PENDING"
    \/ s = "PENDING" /\ t = "STARTED"
    \/ s = "STARTED" /\ t \in Settled
    \/ s # "REMOVED" /\ t = "REMOVED"

JobsMove ==
    \/ \A e \in Docs : JobState(e)' = JobState(e)
    \/ \E d \in Docs : /\ \A e \in Docs : e # d => JobState(e)' = JobState(e)
                       /\ Move(JobState(d), JobState(d)')

\* A job whose rows and deletion are as before is in the state it was in.
LEMMA SameJob ==
    ASSUME NEW e \in Docs, HasRow(e)' <=> HasRow(e), job'[e].status = job[e].status,
           e \in purged' <=> e \in purged
    PROVE  JobState(e)' = JobState(e)
  BY DEF JobState, HasJob, Deleted

\* One status write of a worker is one move.
LEMMA WorkerMoves ==
    ASSUME TypeOK, OnceInv, NEW w \in Workers, WorkerNext(w)
    PROVE  JobsMove
<1>1. /\ UNCHANGED purged
      /\ \A d \in Docs : (HasRow(d)' <=> HasRow(d)) /\ (HasJob(d)' <=> HasJob(d))
  BY WorkerRows
<1>2. ASSUME UNCHANGED job PROVE JobsMove
  BY <1>1, <1>2, SameJob DEF JobsMove
<1>3. ASSUME NEW d \in Docs, NEW row, SetJob(d, row),
             HasJob(d) => \/ job[d].status = "PENDING" /\ row.status = "STARTED"
                          \/ job[d].status = "STARTED" /\ row.status \in Settled
      PROVE  JobsMove
  <2>1. CASE HasJob(d)
    <3>1. job'[d] = row /\ \A e \in Docs : e # d => job'[e] = job[e]
      BY <1>3, <2>1 DEF SetJob, TypeOK
    <3>2. \A e \in Docs : e # d => JobState(e)' = JobState(e)
      BY <1>1, <3>1, SameJob
    <3>3. JobState(d) = job[d].status /\ JobState(d)' = row.status
      BY <1>1, <2>1, <3>1 DEF JobState
    <3> QED BY <1>3, <2>1, <3>2, <3>3 DEF JobsMove, Move
  <2>2. CASE ~HasJob(d)
    BY <1>2, <1>3, <2>2 DEF SetJob
  <2> QED BY <2>1, <2>2
<1>4. ASSUME pc[w] # "idle"
      PROVE  /\ task[w] \in Docs
             /\ HasJob(task[w]) => Phase(pc[w], job[task[w]].status, doc[task[w]])
  BY <1>4 DEF OnceInv, OnceWork, TypeOK
<1>5. CASE MarkStarted(w)
  <2> DEFINE row == [job[task[w]] EXCEPT !.status = "STARTED"]
  <2>1. pc[w] = "mark_started" /\ SetJob(task[w], row)
    BY <1>5 DEF MarkStarted, WorkerStep
  <2>2. row.status = "STARTED"
    BY <1>4, <2>1 DEF TypeOK
  <2> HIDE DEF row
  <2> QED BY <2>1, <2>2, <1>3, <1>4 DEF Phase
<1>6. CASE MarkJobSuccess(w)
  <2> DEFINE row == [job[task[w]] EXCEPT !.status = "SUCCESS", !.chunk_count = NChunks[task[w]]]
  <2>1. pc[w] = "job_success" /\ SetJob(task[w], row)
    BY <1>6 DEF MarkJobSuccess, WorkerStep
  <2>2. row.status = "SUCCESS"
    BY <1>4, <2>1 DEF TypeOK
  <2> HIDE DEF row
  <2> QED BY <2>1, <2>2, <1>3, <1>4 DEF Phase, Settled
<1>7. CASE MarkJobFailure(w)
  <2> DEFINE row == [job[task[w]] EXCEPT !.status = "FAILURE", !.error = TRUE]
  <2>1. pc[w] = "job_failure" /\ SetJob(task[w], row)
    BY <1>7 DEF MarkJobFailure, WorkerStep
  <2>2. row.status = "FAILURE"
    BY <1>4, <2>1 DEF TypeOK
  <2> HIDE DEF row
  <2> QED BY <2>1, <2>2, <1>3, <1>4 DEF Phase, Settled
<1> QED
  BY <1>2, <1>5, <1>6, <1>7
     DEF WorkerNext, Begin, MarkProcessing, Extract, Upsert, MarkDocumentSuccess,
         MarkDocumentFailure, database

LEMMA UploadMoves ==
    ASSUME TypeOK, RecordInv, NEW d \in Docs, UploadNext(d) \/ UploadCrash(d)
    PROVE  JobsMove
<1>1. ASSUME UNCHANGED <<doc, purged>>, \A e \in Docs : job'[e].status = job[e].status
      PROVE  JobsMove
  BY <1>1, SameJob DEF JobsMove, HasRow
<1>2. CASE InsertDocument(d)
  <2>1. /\ UNCHANGED <<job, purged>> /\ upload[d] = "saved"
        /\ \A e \in Docs : e # d => doc'[e] = doc[e]
    BY <1>2 DEF InsertDocument, UploadStep, TypeOK
  <2>2. \A e \in Docs : e # d => JobState(e)' = JobState(e)
    BY <2>1, SameJob DEF HasRow
  <2>3. ~HasJob(d) /\ d \notin purged
    BY <2>1 DEF RecordInv, RowInv
  <2>4. JobState(d)' = JobState(d)
    BY <2>1, <2>3 DEF JobState, HasJob, Deleted
  <2> QED BY <2>2, <2>4 DEF JobsMove
<1>3. CASE CreateJob(d)
  <2>1. CASE job' = job
    BY <1>1, <1>3, <2>1 DEF CreateJob
  <2>2. CASE job' # job
    <3>1. /\ HasRow(d) /\ job'[d].status = "PENDING" /\ upload[d] = "inserted"
          /\ \A e \in Docs : e # d => job'[e] = job[e]
          /\ UNCHANGED <<doc, purged>>
      BY <1>3, <2>2 DEF CreateJob, UploadStep, TypeOK, NoJob
    <3>2. \A e \in Docs : e # d => JobState(e)' = JobState(e)
      BY <3>1, SameJob DEF HasRow
    <3>3. ~HasJob(d)
      BY <3>1 DEF RecordInv, RowInv
    <3>4. JobState(d) = "NONE" /\ JobState(d)' = "PENDING"
      BY <3>1, <3>3 DEF JobState, HasJob, Deleted
    <3> QED BY <3>2, <3>4 DEF JobsMove, Move
  <2> QED BY <2>1, <2>2
<1>4. CASE RecordTaskId(d)
  <2> DEFINE row == [job[d] EXCEPT !.task_id = TRUE]
  <2>1. SetJob(d, row) /\ UNCHANGED <<doc, purged>> /\ row.status = job[d].status
    BY <1>4 DEF RecordTaskId, TypeOK
  <2> HIDE DEF row
  <2> QED BY <2>1, <1>1, SetJobValue
<1>5. ASSUME UNCHANGED <<doc, job, purged>> PROVE JobsMove
  BY <1>1, <1>5
<1> QED BY <1>2, <1>3, <1>4, <1>5 DEF UploadNext, SaveFile, Dispatch, UploadCrash, database

LEMMA RequestMoves ==
    ASSUME TypeOK, RecordInv, NEW r \in Requests, RequestNext(r) \/ RequestCrash(r)
    PROVE  JobsMove
<1>1. ASSUME UNCHANGED <<doc, job, purged>> PROVE JobsMove
  BY <1>1, SameJob DEF JobsMove, HasRow
<1>2. CASE PurgeVectors(r)
  <2>1. PICK d \in Docs : d = req[r].doc /\ req[r].pc = "purge" /\ purged' = purged \cup {d}
    BY <1>2, RequestStepType DEF PurgeVectors, RequestStep, RequestSteps
  <2>2. (HasRow(d) \/ d \in purged) /\ UNCHANGED <<doc, job>>
    BY <1>2, <2>1 DEF RecordInv, DeleteInv, PurgeVectors, database
  <2>3. ASSUME NEW e \in Docs PROVE JobState(e)' = JobState(e)
    BY <2>1, <2>2 DEF JobState, HasJob, HasRow, Deleted
  <2> QED BY <2>3 DEF JobsMove
<1>3. CASE DeleteRow(r)
  <2>1. PICK d \in Docs : /\ d = req[r].doc /\ req[r].pc = "delete_row"
                          /\ doc' = [doc EXCEPT ![d] = "NONE"]
                          /\ job' = [job EXCEPT ![d] = NoJob]
    BY <1>3, RequestStepType DEF DeleteRow, RequestStep, RequestSteps
  <2>2. d \in purged /\ UNCHANGED purged /\ NoJob.status = "NONE"
    BY <1>3, <2>1 DEF RecordInv, DeleteInv, DeleteRow, NoJob
  <2>3. doc'[d] = "NONE" /\ \A e \in Docs : e # d => doc'[e] = doc[e]
    BY <2>1 DEF TypeOK
  <2>4. job'[d] = NoJob /\ \A e \in Docs : e # d => job'[e] = job[e]
    BY <2>1 DEF TypeOK
  <2>5. \A e \in Docs : e # d => JobState(e)' = JobState(e)
    BY <2>2, <2>3, <2>4, SameJob DEF HasRow
  <2>6. JobState(d)' = "REMOVED"
    BY <2>2, <2>3, <2>4 DEF JobState, HasJob, HasRow, Deleted
  <2>7. CASE JobState(d) = "REMOVED"
    BY <2>5, <2>6, <2>7 DEF JobsMove
  <2>8. CASE JobState(d) # "REMOVED"
    BY <2>5, <2>6, <2>8 DEF JobsMove, Move
  <2> QED BY <2>7, <2>8
<1> QED
  BY <1>1, <1>2, <1>3 DEF RequestNext, FindDocument, UnlinkFile, RequestCrash, database

LEMMA JobMoves == TypeOK /\ RecordInv /\ OnceInv /\ [Next]_vars => JobsMove
<1> SUFFICES ASSUME TypeOK, RecordInv, OnceInv, [Next]_vars PROVE JobsMove OBVIOUS
<1>1. ASSUME UNCHANGED <<doc, job, purged>> PROVE JobsMove
  BY <1>1, SameJob DEF JobsMove, HasRow
<1> QED
  BY <1>1, WorkerMoves, UploadMoves, RequestMoves
     DEF Next, FaultNext, Quiescent, WorkerCrash, BrokerRestart, vars, database

\* As long as nothing is redelivered, a settled job stays settled until its
\* document is deleted.
THEOREM SettledJobsAreFinal ==
    ASSUME "redelivery" \notin Faults PROVE Spec => SettledIsFinal
<1>1. TypeOK /\ TypeOK' /\ RecordInv /\ OnceInv /\ [Next]_vars =>
        [\A d \in Docs :
            job[d].status \in Settled => job'[d].status \in {job[d].status, "NONE"}]_vars
  <2> SUFFICES ASSUME TypeOK, TypeOK', RecordInv, OnceInv, [Next]_vars, NEW d \in Docs,
                      job[d].status \in Settled
               PROVE  job'[d].status \in {job[d].status, "NONE"}
    OBVIOUS
  <2>1. JobState(d) = job[d].status
    BY DEF JobState, HasJob, Settled
  <2>2. JobState(d)' \in {job[d].status, "REMOVED"}
    BY <2>1, JobMoves DEF JobsMove, Move, Settled
  <2>3. HasJob(d)' => JobState(d)' = job'[d].status
    BY DEF JobState
  <2>4. job'[d].status # "REMOVED"
    BY DEF TypeOK, JobStatus
  <2> QED BY <2>2, <2>3, <2>4 DEF HasJob
<1> QED BY <1>1, OnceInvariant, PTL DEF Spec, SettledIsFinal

\* As long as nothing is redelivered, the jobs implement the documented state
\* machine: every step of the system is one move of one job or none.
THEOREM JobsFollowLifecycle ==
    ASSUME "redelivery" \notin Faults PROVE Spec => FollowsLifecycle
<1>1. Init => Lifecycle!Init
  BY DEF Init, Lifecycle!Init, JobState, HasJob, HasRow, Deleted, NoJob
<1>2. TypeOK /\ RecordInv /\ OnceInv /\ [Next]_vars
         => [Lifecycle!Next]_([d \in Docs |-> JobState(d)])
  <2> DEFINE state == [d \in Docs |-> JobState(d)]
  <2> SUFFICES ASSUME TypeOK, RecordInv, OnceInv, [Next]_vars
               PROVE  Lifecycle!Next \/ state' = state
    OBVIOUS
  <2>1. JobsMove
    BY JobMoves
  <2>2. CASE \A e \in Docs : JobState(e)' = JobState(e)
    BY <2>2
  <2>3. ASSUME NEW d \in Docs, \A e \in Docs : e # d => JobState(e)' = JobState(e),
               Move(JobState(d), JobState(d)')
        PROVE  Lifecycle!Next
    <3>1. ASSUME NEW s, JobState(d)' = s PROVE Lifecycle!Become(d, s)
      BY <2>3, <3>1 DEF Lifecycle!Become
    <3>2. state[d] = JobState(d)
      OBVIOUS
    <3>3. Lifecycle!Create(d) \/ Lifecycle!Start(d) \/ Lifecycle!Finish(d) \/ Lifecycle!Remove(d)
      BY <2>3, <3>1, <3>2
         DEF Move, Lifecycle!Create, Lifecycle!Start, Lifecycle!Finish, Lifecycle!Remove,
             Settled, Lifecycle!Settled
    <3> QED BY <3>3 DEF Lifecycle!Next
  <2> QED BY <2>1, <2>2, <2>3 DEF JobsMove
<1> QED BY <1>1, <1>2, OnceInvariant, PTL DEF Spec, FollowsLifecycle, Lifecycle!Spec

\* Chunks of a document are written only while its job is STARTED, or after a
\* delete took the job away from the worker that runs it.
IndexedOnlyWhileStarted ==
    [][\A d \in Docs :
          VectorsOf(Owner[d], d)' \subseteq VectorsOf(Owner[d], d)
          \/ job[d].status \in {"STARTED", "NONE"}]_vars

\* As long as nothing is redelivered, chunks of a document are written only
\* while its job is STARTED, or after a delete took the job away.
THEOREM IndexedWhileStarted ==
    ASSUME "redelivery" \notin Faults PROVE Spec => IndexedOnlyWhileStarted
<1>1. TypeOK /\ OnceInv /\ [Next]_vars =>
        [\A d \in Docs :
            VectorsOf(Owner[d], d)' \subseteq VectorsOf(Owner[d], d)
            \/ job[d].status \in {"STARTED", "NONE"}]_vars
  <2> SUFFICES ASSUME TypeOK, OnceInv, [Next]_vars, NEW d \in Docs
               PROVE  \/ VectorsOf(Owner[d], d)' \subseteq VectorsOf(Owner[d], d)
                      \/ job[d].status \in {"STARTED", "NONE"}
    OBVIOUS
  <2>1. ASSUME NEW w \in Workers, Upsert(w)
        PROVE  \/ VectorsOf(Owner[d], d)' \subseteq VectorsOf(Owner[d], d)
               \/ job[d].status \in {"STARTED", "NONE"}
    <3>1. /\ pc[w] = "upsert" /\ task[w] \in Docs /\ OnceWork(w)
          /\ vectors' \in {vectors, [vectors EXCEPT ![Owner[task[w]]] = @ \cup ChunkIds(task[w])]}
      BY <2>1, WorkerStepType DEF Upsert, WorkerStep, WorkerSteps, OnceInv
    <3>2. CASE task[w] = d
      BY <3>1, <3>2 DEF OnceWork, HasJob, Phase
    <3>3. CASE task[w] # d
      <4>1. \A c \in ChunkIds(task[w]) : c[1] # d
        BY <3>1, <3>3, ChunkIdsFirst
      <4>2. \A c \in vectors'[Owner[d]] : c \in vectors[Owner[d]] \/ c \in ChunkIds(task[w])
        BY <3>1 DEF TypeOK
      <4> QED BY <4>1, <4>2 DEF VectorsOf
    <3> QED BY <3>2, <3>3
  <2>2. ASSUME NEW r \in Requests, PurgeVectors(r)
        PROVE  VectorsOf(Owner[d], d)' \subseteq VectorsOf(Owner[d], d)
    <3>1. vectors'[Owner[d]] \subseteq vectors[Owner[d]]
      BY <2>2 DEF PurgeVectors, VectorsOf, TypeOK
    <3> QED BY <3>1 DEF VectorsOf
  <2>3. ASSUME UNCHANGED vectors
        PROVE  VectorsOf(Owner[d], d)' \subseteq VectorsOf(Owner[d], d)
    BY <2>3 DEF VectorsOf
  <2> QED BY <2>1, <2>2, <2>3, StoreSteps
<1> QED BY <1>1, OnceInvariant, PTL DEF Spec, IndexedOnlyWhileStarted

-----------------------------------------------------------------------------
(* Deletion after the work is done. A message is sent once, so a document  *)
(* that no message and no worker before the upsert is left of stays so.    *)

\* Only the upload request of a document sends its message.
LEMMA NewMessage ==
    ASSUME TypeOK, [Next]_vars, NEW d \in queue', d \notin queue
    PROVE  upload[d] = "created" /\ Sent(d)'
<1>1. \E e \in Docs : Dispatch(e)
  BY DEF Next, UploadNext, WorkerNext, RequestNext, FaultNext, Quiescent, vars,
         SaveFile, InsertDocument, CreateJob, RecordTaskId, UploadCrash,
         Begin, MarkStarted, MarkProcessing, Extract, Upsert, MarkJobSuccess,
         MarkDocumentSuccess, MarkJobFailure, MarkDocumentFailure, WorkerCrash,
         BrokerRestart, FindDocument, PurgeVectors, UnlinkFile, DeleteRow, RequestCrash
<1> QED BY <1>1 DEF Dispatch, UploadStep, Sent, TypeOK

\* A message that was sent stays sent.
LEMMA SentStable ==
    ASSUME TypeOK, [Next]_vars, NEW d \in Docs, Sent(d) PROVE Sent(d)'
<1>1. ASSUME NEW e \in Docs, UploadNext(e) \/ UploadCrash(e) PROVE Sent(d)'
  BY <1>1 DEF UploadNext, SaveFile, InsertDocument, CreateJob, Dispatch, RecordTaskId,
              UploadCrash, UploadStep, Sent, TypeOK
<1>2. CASE UNCHANGED upload
  BY <1>2 DEF Sent
<1> QED
  BY <1>1, <1>2
     DEF Next, WorkerNext, RequestNext, FaultNext, Quiescent, vars, Begin, MarkStarted,
         MarkProcessing, Extract, Upsert, MarkJobSuccess, MarkDocumentSuccess, MarkJobFailure,
         MarkDocumentFailure, WorkerCrash, BrokerRestart, FindDocument, PurgeVectors,
         UnlinkFile, DeleteRow, RequestCrash

\* Nobody starts again what is finished. Under every fault.
LEMMA FinishedStable ==
    ASSUME TypeOK, [Next]_vars, NEW d \in Docs, Finished(d)
    PROVE  Finished(d)'
<1> DEFINE Late == {"job_success", "doc_success", "job_failure", "doc_failure"}
<1>1. /\ Sent(d)' /\ d \notin queue /\ d \notin queue'
      /\ \A v \in Workers : task[v] = d => pc[v] \in Late
  BY SentStable, NewMessage DEF Finished, Sent, Running
<1>2. ASSUME NEW v \in Workers, task'[v] = d PROVE pc'[v] \in Late
  <2> USE DEF WorkerSteps
  <2>1. CASE pc'[v] = pc[v] /\ task'[v] = task[v]
    BY <1>1, <1>2, <2>1
  <2>2. ASSUME NEW e \in Docs, Begin(v, e) PROVE pc'[v] \in Late
    BY <1>1, <1>2, <2>2 DEF Begin, TypeOK, worker
  <2>3. ASSUME NEW from \in WorkerSteps \ {"idle"}, NEW to \in WorkerSteps,
               WorkerStep(v, from, to)
        PROVE  from \in Late /\ pc'[v] = to /\ to # "idle"
    <3>1. pc[v] = from /\ pc'[v] = to /\ (to = "idle" => task'[v] = NoDoc)
      BY <2>3 DEF WorkerStep, TypeOK
    <3>2. to # "idle"
      BY <1>2, <3>1
    <3>3. task'[v] = task[v]
      BY <2>3, <3>2, WorkerStepValue
    <3> QED BY <1>1, <1>2, <3>1, <3>2, <3>3
  <2>4. CASE WorkerNext(v)
    BY <2>2, <2>3, <2>4
       DEF WorkerNext, MarkStarted, MarkProcessing, Extract, Upsert, MarkJobSuccess,
           MarkDocumentSuccess, MarkJobFailure, MarkDocumentFailure
  <2>5. ASSUME NEW w \in Workers, w # v, WorkerNext(w)
        PROVE  pc'[v] = pc[v] /\ task'[v] = task[v]
    BY <2>5 DEF WorkerNext, Begin, MarkStarted, MarkProcessing, Extract, Upsert,
                MarkJobSuccess, MarkDocumentSuccess, MarkJobFailure, MarkDocumentFailure,
                WorkerStep, TypeOK, worker
  <2>6. ASSUME NEW w \in Workers, WorkerCrash(w)
        PROVE  (pc'[v] = pc[v] /\ task'[v] = task[v]) \/ task'[v] = NoDoc
    BY <2>6 DEF WorkerCrash, TypeOK
  <2>7. \/ UNCHANGED <<pc, task>>
        \/ \E w \in Workers : WorkerNext(w) \/ WorkerCrash(w)
    BY DEF Next, UploadNext, RequestNext, FaultNext, Quiescent, vars, worker,
           SaveFile, InsertDocument, CreateJob, Dispatch, RecordTaskId, UploadCrash,
           BrokerRestart, FindDocument, PurgeVectors, UnlinkFile, DeleteRow, RequestCrash
  <2> QED BY <1>2, <2>1, <2>4, <2>5, <2>6, <2>7
<1> QED BY <1>1, <1>2 DEF Finished, Sent, Running

\* What is settled is finished, as the message came once.
LEMMA SettledIsFinished ==
    ASSUME TypeOK, OnceInv, NEW d \in Docs, job[d].status \in Settled
    PROVE  Finished(d)
<1>1. ~Waiting(d)
  BY DEF OnceInv, OnceDoc, HasJob, Settled
<1>2. ASSUME NEW w \in Running(d)
      PROVE  pc[w] \in {"job_success", "doc_success", "job_failure", "doc_failure"}
  <2>1. OnceWork(w) /\ task[w] = d /\ pc[w] # "idle" /\ HasJob(d)
    BY <1>2 DEF OnceInv, Running, TypeOK, HasJob, Settled
  <2> QED BY <2>1 DEF OnceWork, Phase, Settled
<1> QED BY <1>1, <1>2 DEF Finished, Waiting, Sent

\* A finished document gets no chunks any more.
LEMMA FinishedIsNotWritten ==
    ASSUME TypeOK, [Next]_vars, NEW d \in Docs, Finished(d)
    PROVE  VectorsOf(Owner[d], d)' \subseteq VectorsOf(Owner[d], d)
<1>1. ASSUME NEW w \in Workers, Upsert(w)
      PROVE  VectorsOf(Owner[d], d)' \subseteq VectorsOf(Owner[d], d)
  <2>1. /\ pc[w] = "upsert" /\ task[w] \in Docs
        /\ vectors' \in {vectors, [vectors EXCEPT ![Owner[task[w]]] = @ \cup ChunkIds(task[w])]}
    BY <1>1, WorkerStepType DEF Upsert, WorkerStep, WorkerSteps
  <2>2. \A c \in ChunkIds(task[w]) : c[1] # d
    BY <2>1, ChunkIdsFirst DEF Finished, Running
  <2>3. \A c \in vectors'[Owner[d]] : c \in vectors[Owner[d]] \/ c \in ChunkIds(task[w])
    BY <2>1 DEF TypeOK
  <2> QED BY <2>2, <2>3 DEF VectorsOf
<1>2. ASSUME NEW r \in Requests, PurgeVectors(r)
      PROVE  VectorsOf(Owner[d], d)' \subseteq VectorsOf(Owner[d], d)
  <2>1. vectors'[Owner[d]] \subseteq vectors[Owner[d]]
    BY <1>2 DEF PurgeVectors, VectorsOf, TypeOK
  <2> QED BY <2>1 DEF VectorsOf
<1>3. ASSUME UNCHANGED vectors
      PROVE  VectorsOf(Owner[d], d)' \subseteq VectorsOf(Owner[d], d)
  BY <1>3 DEF VectorsOf
<1> QED BY <1>1, <1>2, <1>3, StoreSteps

\* What is removed after the work is done is removed for good: a deletion
\* leaves chunks behind only if it overtakes the worker.
THEOREM SettledDeletionsAreFinal ==
    ASSUME "redelivery" \notin Faults PROVE Spec => SettledDeletionIsFinal
<1>1. TypeOK /\ OnceInv /\ [Next]_vars =>
        [\A d \in Docs :
            /\ VectorsOf(Owner[d], d) = {}
            /\ job[d].status \in Settled \/ Finished(d)
            => VectorsOf(Owner[d], d)' = {} /\ Finished(d)']_vars
  BY SettledIsFinished, FinishedStable, FinishedIsNotWritten
<1> QED BY <1>1, OnceInvariant, PTL DEF Spec, SettledDeletionIsFinal

\* The same of whole behaviours: a document that was once seen settled and
\* without chunks is never found again.
THEOREM SettledDeletionsLast ==
    ASSUME "redelivery" \notin Faults, NEW d \in Docs
    PROVE  Spec => []( job[d].status \in Settled /\ VectorsOf(Owner[d], d) = {}
                       => [](VectorsOf(Owner[d], d) = {}) )
<1> DEFINE Swept == Finished(d) /\ VectorsOf(Owner[d], d) = {}
<1>1. TypeOK /\ OnceInv /\ job[d].status \in Settled /\ VectorsOf(Owner[d], d) = {} => Swept
  BY SettledIsFinished
<1>2. TypeOK /\ Swept /\ [Next]_vars => Swept'
  BY FinishedStable, FinishedIsNotWritten
<1>3. Swept => VectorsOf(Owner[d], d) = {}
  OBVIOUS
<1> HIDE DEF Swept
<1> QED BY <1>1, <1>2, <1>3, OnceInvariant, PTL DEF Spec

-----------------------------------------------------------------------------
(* Nothing gets stuck. As long as the broker delivers no message twice, a   *)
(* job whose run was not lost waits for a worker, is in the hands of one,  *)
(* or is settled together with its document.                               *)

\* The recorded system is the system: a record changes no step.
LEMMA HistoryStep == [HistoryNext]_<<vars, lost>> => [Next]_vars
  BY DEF HistoryNext, LoseRun, LoseQueue, Next, FaultNext, Quiescent

\* The message of d is still to be sent, in the queue, or never sent.
Offered(d) == upload[d] \in {"created", "failed"} \/ d \in queue

QuietDoc(d) == HasJob(d) /\ Running(d) = {} =>
    \/ Offered(d) /\ job[d].status = "PENDING" /\ doc[d] = "UPLOADED"
    \/ job[d].status \in Settled /\ doc[d] = job[d].status

QuietInv == \A d \in Docs \ lost : QuietDoc(d)

\* A step that leaves rows and workers of a document alone keeps the
\* invariant for it.
LEMMA QuietFrame ==
    ASSUME NEW d \in Docs, QuietDoc(d), doc'[d] = doc[d],
           job'[d].status = job[d].status, Offered(d) => Offered(d)',
           \A w \in Workers : task[w] = d => task'[w] = d
    PROVE  QuietDoc(d)'
  BY DEF QuietDoc, HasJob, Running

LEMMA QuietWorker ==
    ASSUME TypeOK, RecordInv, OnceInv, NEW w \in Workers, WorkerNext(w),
           NEW d \in Docs, QuietDoc(d)
    PROVE  QuietDoc(d)'
<1> USE DEF WorkerSteps
<1>1. UNCHANGED upload
  BY WorkerRows
<1>2. ASSUME NEW e \in Docs, Begin(w, e) PROVE QuietDoc(d)'
  <2>1. /\ UNCHANGED <<upload, doc, job>> /\ (d \in queue => d \in queue' \/ d = e)
        /\ \A v \in Workers : v # w => task'[v] = task[v]
        /\ pc[w] = "idle" /\ (HasJob(e) => task'[w] = e)
    BY <1>2 DEF Begin, TypeOK, database, worker
  <2>2. CASE d # e
    <3>1. task[w] = NoDoc
      BY <2>1 DEF TypeOK
    <3> QED BY <1>1, <2>1, <2>2, <3>1, QuietFrame DEF Offered
  <2>3. CASE d = e
    BY <2>1, <2>3 DEF QuietDoc, HasJob, Running
  <2> QED BY <2>2, <2>3
<1>3. ASSUME NEW from \in WorkerSteps \ {"idle"}, NEW to \in WorkerSteps,
             WorkerStep(w, from, to)
      PROVE  /\ pc[w] = from /\ task[w] \in Docs
             /\ \A v \in Workers : v # w => task'[v] = task[v]
             /\ to # "idle" => task'[w] = task[w]
  BY <1>3, WorkerStepType, WorkerStepValue DEF WorkerStep, TypeOK
\* As long as the run goes on, only other documents are affected.
<1>4. ASSUME NEW from \in WorkerSteps \ {"idle"}, NEW to \in WorkerSteps \ {"idle"},
             WorkerStep(w, from, to), UNCHANGED queue,
             d # task[w] => doc'[d] = doc[d] /\ job'[d] = job[d]
      PROVE  QuietDoc(d)'
  <2>1. CASE d = task[w]
    BY <1>3, <1>4, <2>1 DEF QuietDoc, Running
  <2>2. CASE d # task[w]
    <3>1. Offered(d) => Offered(d)'
      BY <1>1, <1>4 DEF Offered
    <3> QED BY <1>1, <1>3, <1>4, <2>2, <3>1, QuietFrame
  <2> QED BY <2>1, <2>2
\* The last write of a run brings the document in line with its job.
<1>5. ASSUME NEW s \in Settled, NEW from \in {"doc_success", "doc_failure"},
             WorkerStep(w, from, "idle"), UNCHANGED <<job, queue>>,
             SetDocument(task[w], s),
             from = "doc_success" <=> s = "SUCCESS"
      PROVE  QuietDoc(d)'
  <2>1. /\ pc[w] = from /\ task[w] \in Docs /\ OnceWork(w) /\ RowInv(d)
        /\ \A v \in Workers : v # w => task'[v] = task[v]
    BY <1>3, <1>5 DEF OnceInv, RecordInv
  <2>2. CASE d = task[w]
    <3>1. HasJob(d) => job[d].status = s /\ HasRow(d)
      BY <1>5, <2>1, <2>2 DEF OnceWork, Phase, Settled, RowInv
    <3>2. HasRow(d) => doc'[d] = s
      BY <1>5, <2>2 DEF SetDocument, TypeOK
    <3> QED BY <1>5, <3>1, <3>2 DEF QuietDoc, HasJob
  <2>3. CASE d # task[w]
    <3>1. doc'[d] = doc[d]
      BY <1>5, <2>3 DEF SetDocument, TypeOK
    <3>2. Offered(d) => Offered(d)'
      BY <1>1, <1>5 DEF Offered
    <3> QED BY <1>1, <1>5, <2>1, <2>3, <3>1, <3>2, QuietFrame
  <2> QED BY <2>2, <2>3
<1>6. ASSUME NEW e \in Docs, d # e, NEW row, SetJob(e, row) PROVE job'[d] = job[d]
  BY <1>6 DEF SetJob
<1>7. ASSUME NEW e \in Docs, d # e, NEW s, SetDocument(e, s) PROVE doc'[d] = doc[d]
  BY <1>7 DEF SetDocument
<1>8. CASE MarkStarted(w) \/ MarkJobSuccess(w) \/ MarkJobFailure(w)
  BY <1>3, <1>4, <1>6, <1>8 DEF MarkStarted, MarkJobSuccess, MarkJobFailure
<1>9. CASE MarkProcessing(w)
  BY <1>3, <1>4, <1>7, <1>9 DEF MarkProcessing
<1>10. CASE Extract(w) \/ Upsert(w)
  BY <1>4, <1>10 DEF Extract, Upsert, database
<1>11. CASE MarkDocumentSuccess(w) \/ MarkDocumentFailure(w)
  BY <1>5, <1>11 DEF MarkDocumentSuccess, MarkDocumentFailure, Settled
<1> QED BY <1>2, <1>8, <1>9, <1>10, <1>11 DEF WorkerNext

LEMMA QuietUpload ==
    ASSUME TypeOK, RecordInv, OnceInv, NEW d \in Docs, UploadNext(d) \/ UploadCrash(d),
           NEW e \in Docs, QuietDoc(e)
    PROVE  QuietDoc(e)'
<1> USE DEF UploadSteps
<1>1. RowInv(d) /\ UNCHANGED <<pc, task>>
  BY DEF RecordInv, UploadNext, SaveFile, InsertDocument, CreateJob, Dispatch,
         RecordTaskId, UploadCrash, worker
<1>2. CASE SaveFile(d)
  <2>1. /\ UNCHANGED <<doc, job, queue>> /\ upload[d] = "new"
        /\ \A x \in Docs : x # d => upload'[x] = upload[x]
    BY <1>2, UploadStepValue DEF SaveFile, database
  <2> QED BY <1>1, <2>1, QuietFrame DEF Offered
<1>3. CASE InsertDocument(d)
  <2>1. /\ UNCHANGED <<job, queue>> /\ upload[d] = "saved"
        /\ \A x \in Docs : x # d => upload'[x] = upload[x] /\ doc'[x] = doc[x]
    BY <1>3, UploadStepValue DEF InsertDocument, TypeOK
  <2>2. ~HasJob(d)'
    BY <1>1, <2>1 DEF RowInv, HasJob
  <2> QED BY <1>1, <2>1, <2>2, QuietFrame DEF Offered, QuietDoc
<1>4. CASE CreateJob(d)
  <2>1. /\ upload[d] = "inserted" /\ UNCHANGED <<doc, queue>>
        /\ \A x \in Docs : x # d => upload'[x] = upload[x] /\ job'[x] = job[x]
        /\ \/ upload'[d] = "created" /\ HasRow(d) /\ job'[d].status = "PENDING"
           \/ upload'[d] = "failed" /\ job' = job
    BY <1>4, UploadStepValue DEF CreateJob, TypeOK, NoJob
  <2>2. CASE e = d
    <3>1. OnceDoc(d) /\ (HasRow(d) => doc[d] = "UPLOADED")
      BY <2>1 DEF OnceInv, OnceDoc, Waiting, Sent
    <3> QED BY <1>1, <2>1, <2>2, <3>1 DEF QuietDoc, RowInv, Offered, HasJob
  <2>3. CASE e # d
    BY <1>1, <2>1, <2>3, QuietFrame DEF Offered
  <2> QED BY <2>2, <2>3
<1>5. CASE Dispatch(d)
  <2>1. /\ UNCHANGED <<doc, job>>
        /\ queue' = queue \cup {d} \/ (queue' = queue /\ upload'[d] = "failed")
        /\ \A x \in Docs : x # d => upload'[x] = upload[x]
    BY <1>5, UploadStepValue DEF Dispatch, database
  <2> QED BY <1>1, <2>1, QuietFrame DEF Offered
<1>6. CASE RecordTaskId(d)
  <2> DEFINE row == [job[d] EXCEPT !.task_id = TRUE]
  <2>1. /\ UNCHANGED <<doc, queue>> /\ SetJob(d, row) /\ row.status = job[d].status
        /\ upload[d] = "dispatched"
        /\ \A x \in Docs : x # d => upload'[x] = upload[x]
    BY <1>6, UploadStepValue DEF RecordTaskId, TypeOK
  <2> HIDE DEF row
  <2>2. job'[e].status = job[e].status
    BY <2>1, SetJobValue
  <2> QED BY <1>1, <2>1, <2>2, QuietFrame DEF Offered
<1>7. CASE UploadCrash(d)
  <2>1. /\ UNCHANGED <<doc, job, queue>> /\ upload'[d] = "failed"
        /\ \A x \in Docs : x # d => upload'[x] = upload[x]
    BY <1>7 DEF UploadCrash, TypeOK, database
  <2> QED BY <1>1, <2>1, QuietFrame DEF Offered
<1> QED BY <1>2, <1>3, <1>4, <1>5, <1>6, <1>7 DEF UploadNext

LEMMA QuietRequest ==
    ASSUME TypeOK, NEW r \in Requests, RequestNext(r) \/ RequestCrash(r),
           NEW d \in Docs, QuietDoc(d)
    PROVE  QuietDoc(d)'
<1>1. UNCHANGED <<upload, queue, pc, task>>
  BY DEF RequestNext, FindDocument, PurgeVectors, UnlinkFile, DeleteRow, RequestCrash, worker
<1>2. CASE UNCHANGED <<doc, job>>
  BY <1>1, <1>2, QuietFrame DEF Offered
<1>3. CASE DeleteRow(r)
  <2>1. (job'[d] = job[d] /\ doc'[d] = doc[d]) \/ job'[d].status = "NONE"
    BY <1>3 DEF DeleteRow, TypeOK, NoJob
  <2> QED BY <1>1, <2>1, QuietFrame DEF Offered, QuietDoc, HasJob
<1> QED BY <1>2, <1>3
        DEF RequestNext, FindDocument, PurgeVectors, UnlinkFile, RequestCrash, database

\* A fault that takes a run or a message away is recorded for its document,
\* and touches no other.
LEMMA QuietLoss ==
    ASSUME TypeOK, NEW d \in Docs, d \notin lost', QuietDoc(d), LoseRun \/ LoseQueue
    PROVE  QuietDoc(d)'
<1>1. CASE LoseRun
  <2>1. PICK w \in Workers : WorkerCrash(w) /\ lost' = lost \cup {task[w]}
    BY <1>1 DEF LoseRun
  <2>2. /\ UNCHANGED <<upload, doc, job, queue>> /\ task[w] # d
        /\ \A v \in Workers : v # w => task'[v] = task[v]
    BY <2>1 DEF WorkerCrash, TypeOK, database
  <2> QED BY <2>2, QuietFrame DEF Offered
<1>2. CASE LoseQueue
  <2>1. UNCHANGED <<upload, doc, job, task>> /\ d \notin queue
    BY <1>2 DEF LoseQueue, BrokerRestart, database, worker
  <2> QED BY <2>1, QuietFrame DEF Offered
<1> QED BY <1>1, <1>2

LEMMA QuietStep ==
    ASSUME TypeOK, RecordInv, OnceInv, QuietInv, [HistoryNext]_<<vars, lost>>
    PROVE  QuietInv'
<1> SUFFICES ASSUME NEW d \in Docs, d \notin lost' PROVE QuietDoc(d)'
  BY DEF QuietInv
<1>1. QuietDoc(d)
  BY DEF QuietInv, HistoryNext, LoseRun, LoseQueue
<1>2. CASE UNCHANGED vars
  BY <1>1, <1>2, QuietFrame DEF vars, Offered
<1> QED BY <1>1, <1>2, QuietUpload, QuietWorker, QuietRequest, QuietLoss
        DEF HistoryNext, Quiescent

\* However processes crash, the store fails and the broker forgets messages:
\* a job that no worker runs, and whose run was not taken away by such a fault,
\* is waiting for a worker, was never dispatched, or has settled together
\* with its document.
THEOREM QuietStatusesAgree ==
    ASSUME "redelivery" \notin Faults
    PROVE  HistorySpec => []QuietStatusAgrees
<1>1. HistoryInit => Init /\ QuietInv
  BY DEF HistoryInit, Init, QuietInv, QuietDoc, HasJob, NoJob
<1>2. TypeOK /\ RecordInv /\ OnceInv /\ QuietInv /\ [HistoryNext]_<<vars, lost>> => QuietInv'
  BY QuietStep
<1>3. QuietInv => QuietStatusAgrees
  BY DEF QuietInv, QuietDoc, Offered, QuietStatusAgrees, Agreed
<1>4. HistorySpec => Spec
  BY <1>1, HistoryStep, PTL DEF HistorySpec, Spec
<1> QED BY <1>1, <1>2, <1>3, <1>4, OnceInvariant, PTL DEF HistorySpec
=============================================================================
