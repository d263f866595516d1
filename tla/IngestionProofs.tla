--------------------------- MODULE IngestionProofs ---------------------------
(***************************************************************************)
(* Theorems about Ingestion, for all users, documents, workers, requests   *)
(* and faults.                                                             *)
(***************************************************************************)
EXTENDS IngestionProperties, FiniteSetTheorems, TLAPS

USE OwnerAssumption, ChunksAssumption, NoneAssumption

(* Type correctness.                                                       *)

\* A job as the type invariant describes it.
JobType == [status: JobStatus, task_id: BOOLEAN, chunk_count: Nat, error: BOOLEAN]

LEMMA NoJobType == NoJob \in JobType
  BY DEF NoJob, JobType, JobStatus

\* What the code writes into a job row keeps its type.
LEMMA JobUpdates ==
    ASSUME NEW row \in JobType, NEW s \in JobStatus, NEW n \in Nat
    PROVE  /\ [row EXCEPT !.task_id = TRUE] \in JobType
           /\ [row EXCEPT !.status = s] \in JobType
           /\ [row EXCEPT !.status = s, !.chunk_count = n] \in JobType
           /\ [row EXCEPT !.status = s, !.error = TRUE] \in JobType
  BY DEF JobType

\* The initial state is well typed.
LEMMA TypeInit == Init => TypeOK
  BY NoJobType DEF Init, TypeOK, JobType, UploadSteps, DocStatus, WorkerSteps

\* A worker step keeps the types of pc and task, and the task its worker has.
LEMMA WorkerStepType ==
    ASSUME TypeOK, NEW w \in Workers, NEW from \in WorkerSteps \ {"idle"},
           NEW to \in WorkerSteps, WorkerStep(w, from, to)
    PROVE  /\ task[w] \in Docs
           /\ pc' \in [Workers -> WorkerSteps]
           /\ task' \in [Workers -> Docs \cup {NoDoc}]
           /\ \A v \in Workers : pc'[v] = "idle" <=> task'[v] = NoDoc
  BY DEF TypeOK, WorkerStep

\* SetDocument keeps the type of doc.
LEMMA SetDocumentType ==
    ASSUME TypeOK, NEW d \in Docs, NEW s \in DocStatus, SetDocument(d, s)
    PROVE  doc' \in [Docs -> DocStatus]
  BY DEF TypeOK, SetDocument

\* SetJob keeps the type of job.
LEMMA SetJobType ==
    ASSUME TypeOK, NEW d \in Docs, NEW row \in JobType, SetJob(d, row)
    PROVE  job' \in [Docs -> JobType]
  BY DEF TypeOK, SetJob, JobType

\* A request step keeps the type of req, and the request has a user and a
\* document.
LEMMA RequestStepType ==
    ASSUME TypeOK, NEW r \in Requests, NEW from \in RequestSteps \ {"idle"},
           NEW to \in RequestSteps, RequestStep(r, from, to)
    PROVE  /\ req[r].doc \in Docs /\ req[r].user \in Users
           /\ req' \in [Requests -> {IdleRequest}
                  \cup [pc: RequestSteps \ {"idle"}, user: Users, doc: Docs]]
  BY DEF TypeOK, RequestStep, IdleRequest

\* Every step keeps the types.
LEMMA TypeStep == TypeOK /\ [Next]_vars => TypeOK'
<1> SUFFICES ASSUME TypeOK, [Next]_vars PROVE TypeOK' OBVIOUS
<1> USE DEF UploadSteps, DocStatus, JobStatus, WorkerSteps, RequestSteps
<1>1. ASSUME NEW d \in Docs, UploadNext(d) PROVE TypeOK'
  <2>1. CASE SaveFile(d)
    BY <2>1 DEF TypeOK, SaveFile, UploadStep, database, worker
  <2>2. CASE InsertDocument(d)
    BY <2>2 DEF TypeOK, InsertDocument, UploadStep, worker
  <2>3. CASE CreateJob(d)
    <3>1. [NoJob EXCEPT !.status = "PENDING"] \in JobType
      BY DEF NoJob, JobType
    <3>2. job' \in [Docs -> JobType]
      BY <2>3, <3>1 DEF TypeOK, CreateJob, JobType
    <3>3. upload' \in [Docs -> UploadSteps]
      BY <2>3 DEF TypeOK, CreateJob, UploadStep
    <3> QED BY <2>3, <3>2, <3>3 DEF TypeOK, CreateJob, JobType, worker
  <2>4. CASE Dispatch(d)
    BY <2>4 DEF TypeOK, Dispatch, UploadStep, database, worker
  <2>5. CASE RecordTaskId(d)
    <3> DEFINE row == [job[d] EXCEPT !.task_id = TRUE]
    <3>1. row \in JobType /\ SetJob(d, row)
      <4>1. job[d] \in JobType /\ "NONE" \in JobStatus /\ 0 \in Nat
        BY DEF TypeOK, JobType
      <4>2. row \in JobType
        BY <4>1, JobUpdates
      <4> QED BY <4>2, <2>5 DEF RecordTaskId
    <3>2. job' \in [Docs -> JobType]
      <4> HIDE DEF row
      <4> QED BY <3>1, SetJobType
    <3> QED BY <2>5, <3>2 DEF TypeOK, RecordTaskId, UploadStep, worker, JobType
  <2> QED BY <1>1, <2>1, <2>2, <2>3, <2>4, <2>5 DEF UploadNext
<1>2. ASSUME NEW w \in Workers, WorkerNext(w) PROVE TypeOK'
  <2>1. ASSUME NEW d \in Docs, Begin(w, d) PROVE TypeOK'
    <3>1. queue' \subseteq Docs
      BY <2>1 DEF TypeOK, Begin
    <3>2. /\ pc' \in [Workers -> WorkerSteps]
          /\ task' \in [Workers -> Docs \cup {NoDoc}]
          /\ \A v \in Workers : pc'[v] = "idle" <=> task'[v] = NoDoc
      <4>1. CASE UNCHANGED <<pc, task>>
        BY <4>1 DEF TypeOK
      <4>2. CASE /\ pc' = [pc EXCEPT ![w] = "mark_started"]
                 /\ task' = [task EXCEPT ![w] = d]
        BY <4>2 DEF TypeOK
      <4> QED BY <2>1, <4>1, <4>2 DEF Begin, worker
    <3> QED BY <2>1, <3>1, <3>2 DEF TypeOK, Begin, database
  <2>2. CASE MarkStarted(w)
    <3> DEFINE row == [job[task[w]] EXCEPT !.status = "STARTED"]
    <3>1. task[w] \in Docs /\ SetJob(task[w], row)
      BY <2>2, WorkerStepType DEF MarkStarted
    <3>2. row \in JobType
      <4>1. job[task[w]] \in JobType /\ NChunks[task[w]] \in Nat /\ "STARTED" \in JobStatus
        BY <3>1 DEF TypeOK, JobType
      <4> QED BY <4>1, JobUpdates
    <3>3. job' \in [Docs -> JobType]
      <4> HIDE DEF row
      <4> QED BY <3>1, <3>2, SetJobType
    <3> QED BY <2>2, <3>3, WorkerStepType DEF TypeOK, MarkStarted, JobType
  <2>3. CASE MarkProcessing(w)
    BY <2>3, WorkerStepType, SetDocumentType DEF TypeOK, MarkProcessing
  <2>4. CASE Extract(w)
    BY <2>4, WorkerStepType DEF TypeOK, Extract, database
  <2>5. CASE Upsert(w)
    <3>1. task[w] \in Docs /\ UNCHANGED <<upload, files, database, queue, req, purged>>
      BY <2>5, WorkerStepType DEF Upsert
    <3>2. vectors' \in [Users -> SUBSET (Docs \X Nat)]
      BY <2>5, <3>1 DEF TypeOK, Upsert, ChunkIds
    <3> QED BY <2>5, <3>1, <3>2, WorkerStepType DEF TypeOK, Upsert, database
  <2>6. CASE MarkJobSuccess(w)
    <3> DEFINE row == [job[task[w]] EXCEPT !.status = "SUCCESS", !.chunk_count = NChunks[task[w]]]
    <3>1. task[w] \in Docs /\ SetJob(task[w], row)
      BY <2>6, WorkerStepType DEF MarkJobSuccess
    <3>2. row \in JobType
      <4>1. job[task[w]] \in JobType /\ NChunks[task[w]] \in Nat /\ "SUCCESS" \in JobStatus
        BY <3>1 DEF TypeOK, JobType
      <4> QED BY <4>1, JobUpdates
    <3>3. job' \in [Docs -> JobType]
      <4> HIDE DEF row
      <4> QED BY <3>1, <3>2, SetJobType
    <3> QED BY <2>6, <3>3, WorkerStepType DEF TypeOK, MarkJobSuccess, JobType
  <2>7. CASE MarkDocumentSuccess(w)
    BY <2>7, WorkerStepType, SetDocumentType DEF TypeOK, MarkDocumentSuccess
  <2>8. CASE MarkJobFailure(w)
    <3> DEFINE row == [job[task[w]] EXCEPT !.status = "FAILURE", !.error = TRUE]
    <3>1. task[w] \in Docs /\ SetJob(task[w], row)
      BY <2>8, WorkerStepType DEF MarkJobFailure
    <3>2. row \in JobType
      <4>1. job[task[w]] \in JobType /\ NChunks[task[w]] \in Nat /\ "FAILURE" \in JobStatus
        BY <3>1 DEF TypeOK, JobType
      <4> QED BY <4>1, JobUpdates
    <3>3. job' \in [Docs -> JobType]
      <4> HIDE DEF row
      <4> QED BY <3>1, <3>2, SetJobType
    <3> QED BY <2>8, <3>3, WorkerStepType DEF TypeOK, MarkJobFailure, JobType
  <2>9. CASE MarkDocumentFailure(w)
    BY <2>9, WorkerStepType, SetDocumentType DEF TypeOK, MarkDocumentFailure
  <2> QED BY <1>2, <2>1, <2>2, <2>3, <2>4, <2>5, <2>6, <2>7, <2>8, <2>9 DEF WorkerNext
<1>3. ASSUME NEW r \in Requests, RequestNext(r) PROVE TypeOK'
  <2>1. ASSUME NEW u \in Users, NEW d \in Docs, FindDocument(r, u, d) PROVE TypeOK'
    <3>1. [pc |-> "purge", user |-> u, doc |-> d]
             \in [pc: RequestSteps \ {"idle"}, user: Users, doc: Docs]
      OBVIOUS
    <3>2. req' \in [Requests -> {IdleRequest}
                  \cup [pc: RequestSteps \ {"idle"}, user: Users, doc: Docs]]
      BY <2>1, <3>1 DEF TypeOK, FindDocument
    <3>3. UNCHANGED <<upload, files, doc, job, queue, pc, task, vectors, purged>>
      BY <2>1 DEF FindDocument, database, worker
    <3> QED BY <3>2, <3>3 DEF TypeOK
  <2>2. CASE PurgeVectors(r)
    BY <2>2, RequestStepType DEF TypeOK, PurgeVectors, VectorsOf, database, worker
  <2>3. CASE UnlinkFile(r)
    BY <2>3, RequestStepType DEF TypeOK, UnlinkFile, database, worker
  <2>4. CASE DeleteRow(r)
    BY <2>4, RequestStepType, NoJobType DEF TypeOK, DeleteRow, JobType, worker
  <2> QED BY <1>3, <2>1, <2>2, <2>3, <2>4 DEF RequestNext
<1>4. ASSUME FaultNext PROVE TypeOK'
  <2>1. ASSUME NEW d \in Docs, UploadCrash(d) PROVE TypeOK'
    BY <2>1 DEF TypeOK, UploadCrash, database, worker
  <2>2. ASSUME NEW w \in Workers, WorkerCrash(w) PROVE TypeOK'
    BY <2>2 DEF TypeOK, WorkerCrash, database
  <2>3. ASSUME NEW r \in Requests, RequestCrash(r) PROVE TypeOK'
    BY <2>3 DEF TypeOK, RequestCrash, database, worker
  <2>4. CASE BrokerRestart
    BY <2>4 DEF TypeOK, BrokerRestart, database, worker
  <2> QED BY <1>4, <2>1, <2>2, <2>3, <2>4 DEF FaultNext
<1>5. ASSUME UNCHANGED vars PROVE TypeOK'
  BY <1>5 DEF TypeOK, vars
<1> QED BY <1>1, <1>2, <1>3, <1>4, <1>5 DEF Next, Quiescent

\* All reachable states are well typed; in particular a task that runs and a
\* request under way always have their document.
THEOREM TypeCorrect == Spec => []TypeOK
  BY TypeInit, TypeStep, PTL DEF Spec

-----------------------------------------------------------------------------
(* SUCCESS means searchable. The invariant follows a task from the moment  *)
(* its chunks are written to the two updates that announce it: announcing  *)
(* is the last thing that happens, and only a purge takes chunks away.     *)

Indexed(d) == ChunkIds(d) \subseteq vectors[Owner[d]]

VectorsAreChunks ==
    \A u \in Users : \A c \in vectors[u] : Owner[c[1]] = u /\ c \in ChunkIds(c[1])

TaskHasIndexed ==
    \A w \in Workers :
        /\ pc[w] \in {"upsert", "job_success", "doc_success"} => NChunks[task[w]] > 0
        /\ pc[w] \in {"job_success", "doc_success"} /\ task[w] \notin purged
              => Indexed(task[w])

SuccessIsIndexed ==
    \A d \in Docs :
        /\ doc[d] = "SUCCESS" /\ d \notin purged => Indexed(d)
        /\ job[d].status = "SUCCESS" =>
              /\ job[d].chunk_count = NChunks[d] /\ NChunks[d] > 0
              /\ d \notin purged => Indexed(d)

SearchInv == VectorsAreChunks /\ TaskHasIndexed /\ SuccessIsIndexed

\* A chunk id starts with its document.
LEMMA ChunkIdsFirst == \A d \in Docs : \A c \in ChunkIds(d) : c[1] = d
  BY DEF ChunkIds

LEMMA SearchInit == Init => SearchInv
  BY DEF Init, SearchInv, VectorsAreChunks, TaskHasIndexed, SuccessIsIndexed, NoJob

\* SetJob changes the row of its document at most.
LEMMA SetJobValue ==
    ASSUME TypeOK, NEW d \in Docs, NEW row, SetJob(d, row)
    PROVE  /\ \A e \in Docs : e # d => job'[e] = job[e]
           /\ job'[d] \in {job[d], row}
  BY DEF TypeOK, SetJob

\* A worker step moves its worker only, and the task stays or ends.
LEMMA WorkerStepValue ==
    ASSUME TypeOK, NEW w \in Workers, NEW from \in WorkerSteps, NEW to \in WorkerSteps,
           WorkerStep(w, from, to)
    PROVE  /\ pc[w] = from /\ pc' = [pc EXCEPT ![w] = to]
           /\ \A v \in Workers : v # w => task'[v] = task[v]
           /\ to # "idle" => task'[w] = task[w]
  BY DEF TypeOK, WorkerStep

\* A step that leaves the store alone keeps the invariant if everything it
\* newly announces is indexed.
LEMMA SearchAnnounce ==
    ASSUME SearchInv, UNCHANGED <<vectors, purged>>,
           \A e \in Docs : \/ doc'[e] = doc[e]
                           \/ doc'[e] # "SUCCESS"
                           \/ e \notin purged => Indexed(e),
           \A e \in Docs : \/ job'[e].status = job[e].status
                              /\ job'[e].chunk_count = job[e].chunk_count
                           \/ job'[e].status # "SUCCESS"
                           \/ /\ job'[e].chunk_count = NChunks[e] /\ NChunks[e] > 0
                              /\ e \notin purged => Indexed(e),
           \A v \in Workers : \/ pc'[v] = pc[v] /\ task'[v] = task[v]
                              \/ pc'[v] \notin {"upsert", "job_success", "doc_success"}
                              \/ /\ NChunks[task'[v]] > 0
                                 /\ pc'[v] # "upsert" /\ task'[v] \notin purged
                                       => Indexed(task'[v])
    PROVE  SearchInv'
<1>1. VectorsAreChunks'
  BY DEF SearchInv, VectorsAreChunks
<1>2. \A e : Indexed(e)' <=> Indexed(e)
  BY DEF Indexed
<1>3. TaskHasIndexed'
  BY <1>2 DEF SearchInv, TaskHasIndexed
<1>4. SuccessIsIndexed'
  BY <1>2 DEF SearchInv, SuccessIsIndexed
<1> QED BY <1>1, <1>3, <1>4 DEF SearchInv

\* Writing the chunks of a document keeps the invariant.
LEMMA SearchUpsert ==
    ASSUME TypeOK, SearchInv, NEW w \in Workers, Upsert(w)
    PROVE  SearchInv'
<1> DEFINE d == task[w]
           written == [vectors EXCEPT ![Owner[d]] = @ \cup ChunkIds(d)]
<1>1. /\ d \in Docs /\ Owner[d] \in Users
      /\ UNCHANGED <<doc, job, purged>>
  BY WorkerStepType DEF Upsert, WorkerSteps, database
<1>2. /\ pc[w] = "upsert" /\ task' = task
      /\ \/ pc' = [pc EXCEPT ![w] = "job_success"] /\ vectors' = written
         \/ pc' = [pc EXCEPT ![w] = "job_failure"] /\ vectors' \in {vectors, written}
  BY DEF Upsert, WorkerStep
<1>3. \A u \in Users : vectors'[u] =
          IF u = Owner[d] /\ vectors' = written THEN vectors[u] \cup ChunkIds(d)
          ELSE vectors[u]
  BY <1>1, <1>2 DEF TypeOK
<1>4. \A u \in Users : /\ vectors[u] \subseteq vectors'[u]
                       /\ \A c \in vectors'[u] : c \in vectors[u] \/ (u = Owner[d] /\ c \in ChunkIds(d))
  <2> HIDE DEF written
  <2> QED BY <1>3
<1>5. vectors' = written => ChunkIds(d) \subseteq vectors'[Owner[d]]
  BY <1>1, <1>3
<1> HIDE DEF written
<1>6. VectorsAreChunks'
  BY <1>1, <1>4, ChunkIdsFirst DEF SearchInv, VectorsAreChunks
<1>7. \A e \in Docs : Indexed(e) => Indexed(e)'
  <2> SUFFICES ASSUME NEW e \in Docs, Indexed(e) PROVE Indexed(e)' OBVIOUS
  <2>1. Owner[e] \in Users
    OBVIOUS
  <2> QED BY <1>4, <2>1 DEF Indexed
<1>8. /\ NChunks[d] > 0
      /\ pc'[w] = "job_success" => Indexed(d)'
  BY <1>1, <1>2, <1>5 DEF SearchInv, TaskHasIndexed, Indexed, TypeOK
<1>9. \A v \in Workers : v # w => pc'[v] = pc[v]
  BY <1>2 DEF TypeOK
<1>10. pc'[w] \in {"job_success", "job_failure"}
  BY <1>2 DEF TypeOK
<1>11. TaskHasIndexed'
  <2> SUFFICES ASSUME NEW v \in Workers
               PROVE  /\ pc'[v] \in {"upsert", "job_success", "doc_success"}
                            => NChunks[task[v]] > 0
                      /\ pc'[v] \in {"job_success", "doc_success"} /\ task[v] \notin purged
                            => Indexed(task[v])'
    BY <1>1, <1>2 DEF TaskHasIndexed, Indexed
  <2>1. CASE v = w
    BY <2>1, <1>1, <1>8, <1>10
  <2>2. CASE v # w
    <3>1. pc[v] # "idle" => task[v] \in Docs
      BY DEF TypeOK
    <3>2. pc'[v] = pc[v]
      BY <2>2, <1>9
    <3>3. pc[v] \in {"upsert", "job_success", "doc_success"} => NChunks[task[v]] > 0
      BY DEF SearchInv, TaskHasIndexed
    <3>4. pc[v] \in {"job_success", "doc_success"} /\ task[v] \notin purged
             => Indexed(task[v])
      BY DEF SearchInv, TaskHasIndexed
    <3>5. ASSUME pc[v] \in {"job_success", "doc_success"}, task[v] \notin purged
          PROVE  Indexed(task[v])'
      <4>1. task[v] \in Docs /\ Indexed(task[v])
        BY <3>1, <3>4, <3>5
      <4>2. PICK e \in Docs : e = task[v] /\ Indexed(e)'
        BY <4>1, <1>7
      <4> QED BY <4>2, <1>2 DEF Indexed
    <3> QED BY <3>2, <3>3, <3>5
  <2> QED BY <2>1, <2>2
<1>12. SuccessIsIndexed'
  BY <1>1, <1>7 DEF SearchInv, SuccessIsIndexed
<1> QED BY <1>6, <1>11, <1>12 DEF SearchInv

\* Removing the chunks of a document keeps the invariant.
LEMMA SearchPurge ==
    ASSUME TypeOK, SearchInv, NEW r \in Requests, PurgeVectors(r)
    PROVE  SearchInv'
<1> DEFINE d == req[r].doc
<1>1. /\ d \in Docs /\ req[r].user \in Users /\ purged' = purged \cup {d}
      /\ UNCHANGED <<doc, job, pc, task>>
  BY RequestStepType DEF PurgeVectors, RequestSteps, database, worker
<1>2. \A u \in Users : /\ vectors'[u] \subseteq vectors[u]
                       /\ \A c \in vectors[u] \ vectors'[u] : c[1] = d
  BY <1>1 DEF PurgeVectors, VectorsOf, TypeOK
<1>3. \A e \in Docs : e # d /\ Indexed(e) => Indexed(e)'
  <2> SUFFICES ASSUME NEW e \in Docs, e # d, Indexed(e) PROVE Indexed(e)' OBVIOUS
  <2>1. Owner[e] \in Users /\ \A c \in ChunkIds(e) : c[1] = e
    BY ChunkIdsFirst
  <2> QED BY <1>2, <2>1 DEF Indexed
<1>4. VectorsAreChunks'
  BY <1>2 DEF SearchInv, VectorsAreChunks
<1>5. TaskHasIndexed'
  BY <1>1, <1>3 DEF SearchInv, TaskHasIndexed, TypeOK
<1>6. SuccessIsIndexed'
  BY <1>1, <1>3 DEF SearchInv, SuccessIsIndexed
<1> QED BY <1>4, <1>5, <1>6 DEF SearchInv

\* What the upload does to the rows announces nothing.
LEMMA SearchUpload ==
    ASSUME TypeOK, SearchInv, NEW d \in Docs, UploadNext(d)
    PROVE  SearchInv'
<1>1. UNCHANGED <<pc, task, vectors, purged>>
  BY DEF UploadNext, SaveFile, InsertDocument, CreateJob, Dispatch, RecordTaskId, worker
<1>2. /\ \A e \in Docs : doc'[e] \in {doc[e], "UPLOADED"}
      /\ \A e \in Docs : \/ job'[e].status = job[e].status
                            /\ job'[e].chunk_count = job[e].chunk_count
                         \/ job'[e].status = "PENDING"
  <2>1. CASE SaveFile(d) BY <2>1 DEF SaveFile, database
  <2>2. CASE InsertDocument(d) BY <2>2 DEF InsertDocument, TypeOK
  <2>3. CASE CreateJob(d) BY <2>3 DEF CreateJob, TypeOK, NoJob
  <2>4. CASE Dispatch(d) BY <2>4 DEF Dispatch, database
  <2>5. CASE RecordTaskId(d) BY <2>5, SetJobValue DEF RecordTaskId, TypeOK
  <2> QED BY <2>1, <2>2, <2>3, <2>4, <2>5 DEF UploadNext
<1> QED BY <1>1, <1>2, SearchAnnounce

\* A worker announces SUCCESS only for what it has indexed.
LEMMA SearchWorker ==
    ASSUME TypeOK, SearchInv, NEW w \in Workers, WorkerNext(w)
    PROVE  SearchInv'
<1> DEFINE d == task[w]
<1>1. ASSUME NEW e \in Docs, Begin(w, e) PROVE SearchInv'
  <2>1. UNCHANGED <<doc, job, vectors, purged>>
    BY <1>1 DEF Begin, database
  <2>2. \A v \in Workers : \/ pc'[v] = pc[v] /\ task'[v] = task[v]
                           \/ pc'[v] = "mark_started"
    BY <1>1 DEF Begin, worker, TypeOK
  <2> QED BY <2>1, <2>2, SearchAnnounce
<1>2. ASSUME NEW from \in WorkerSteps \ {"idle"}, NEW to \in WorkerSteps,
             WorkerStep(w, from, to), UNCHANGED <<vectors, purged>>,
             \A e \in Docs : e # d => doc'[e] = doc[e] /\ job'[e] = job[e],
             \/ doc'[d] = doc[d]
             \/ doc'[d] # "SUCCESS"
             \/ d \notin purged => Indexed(d),
             \/ job'[d] = job[d]
             \/ job'[d].status # "SUCCESS"
             \/ /\ job'[d].chunk_count = NChunks[d] /\ NChunks[d] > 0
                /\ d \notin purged => Indexed(d),
             \/ to \notin {"upsert", "job_success", "doc_success"}
             \/ NChunks[d] > 0 /\ (to # "upsert" /\ d \notin purged => Indexed(d))
      PROVE  SearchInv'
  <2>1. \A v \in Workers : \/ pc'[v] = pc[v] /\ task'[v] = task[v]
                           \/ v = w /\ pc'[v] = to /\ (to # "idle" => task'[v] = d)
    BY <1>2, WorkerStepValue DEF TypeOK
  <2> QED BY <1>2, <2>1, SearchAnnounce
<1>3. ASSUME NEW from \in WorkerSteps \ {"idle"}, NEW to \in WorkerSteps,
             WorkerStep(w, from, to)
      PROVE  /\ d \in Docs /\ pc[w] = from
             /\ from \in {"job_success", "doc_success"}
                   => NChunks[d] > 0 /\ (d \notin purged => Indexed(d))
  BY <1>3, WorkerStepType, WorkerStepValue DEF SearchInv, TaskHasIndexed
<1>4. CASE MarkStarted(w)
  <2> DEFINE row == [job[d] EXCEPT !.status = "STARTED"]
  <2>1. WorkerStep(w, "mark_started", "mark_processing") /\ SetJob(d, row)
    BY <1>4 DEF MarkStarted
  <2>2. row.status # "SUCCESS"
    BY <1>3, <2>1 DEF TypeOK, WorkerSteps
  <2> HIDE DEF row
  <2> QED BY <1>4, <1>2, <1>3, <2>1, <2>2, SetJobValue DEF MarkStarted, WorkerSteps
<1>5. CASE MarkProcessing(w)
  <2>1. \A e \in Docs : doc'[e] = doc[e] \/ (e = d /\ doc'[e] = "PROCESSING")
    BY <1>5 DEF MarkProcessing, SetDocument, TypeOK
  <2> QED BY <1>5, <1>2, <1>3, <2>1 DEF MarkProcessing, WorkerSteps
<1>6. CASE Extract(w)
  BY <1>6, <1>2 DEF Extract, WorkerSteps, database
<1>7. CASE Upsert(w)
  BY <1>7, SearchUpsert
<1>8. CASE MarkJobSuccess(w)
  <2> DEFINE row == [job[d] EXCEPT !.status = "SUCCESS", !.chunk_count = NChunks[d]]
  <2>1. WorkerStep(w, "job_success", "doc_success") /\ SetJob(d, row)
    BY <1>8 DEF MarkJobSuccess
  <2>2. d \in Docs /\ row.chunk_count = NChunks[d]
    BY <1>3, <2>1 DEF TypeOK, WorkerSteps
  <2> HIDE DEF row
  <2> QED BY <1>8, <1>2, <1>3, <2>1, <2>2, SetJobValue DEF MarkJobSuccess, WorkerSteps
<1>9. CASE MarkDocumentSuccess(w)
  <2>1. \A e \in Docs : doc'[e] = doc[e] \/ e = d
    BY <1>9 DEF MarkDocumentSuccess, SetDocument, TypeOK
  <2> QED BY <1>9, <1>2, <1>3, <2>1 DEF MarkDocumentSuccess, WorkerSteps
<1>10. CASE MarkJobFailure(w)
  <2> DEFINE row == [job[d] EXCEPT !.status = "FAILURE", !.error = TRUE]
  <2>1. WorkerStep(w, "job_failure", "doc_failure") /\ SetJob(d, row)
    BY <1>10 DEF MarkJobFailure
  <2>2. row.status # "SUCCESS"
    BY <1>3, <2>1 DEF TypeOK, WorkerSteps
  <2> HIDE DEF row
  <2> QED BY <1>10, <1>2, <1>3, <2>1, <2>2, SetJobValue DEF MarkJobFailure, WorkerSteps
<1>11. CASE MarkDocumentFailure(w)
  <2>1. \A e \in Docs : doc'[e] = doc[e] \/ (e = d /\ doc'[e] = "FAILURE")
    BY <1>11 DEF MarkDocumentFailure, SetDocument, TypeOK
  <2> QED BY <1>11, <1>2, <1>3, <2>1 DEF MarkDocumentFailure, WorkerSteps
<1> QED BY <1>1, <1>4, <1>5, <1>6, <1>7, <1>8, <1>9, <1>10, <1>11 DEF WorkerNext

\* Every step keeps the invariant.
LEMMA SearchStep == TypeOK /\ SearchInv /\ [Next]_vars => SearchInv'
<1> SUFFICES ASSUME TypeOK, SearchInv, [Next]_vars PROVE SearchInv' OBVIOUS
<1>1. ASSUME NEW r \in Requests, RequestNext(r) PROVE SearchInv'
  <2>1. CASE PurgeVectors(r)
    BY <2>1, SearchPurge
  <2>2. CASE DeleteRow(r)
    <3>1. /\ UNCHANGED <<pc, task, vectors, purged>>
          /\ \A e \in Docs : doc'[e] \in {doc[e], "NONE"}
          /\ \A e \in Docs : job'[e] = job[e] \/ job'[e].status = "NONE"
      BY <2>2 DEF DeleteRow, worker, TypeOK, NoJob
    <3> QED BY <3>1, SearchAnnounce
  <2>3. CASE UnlinkFile(r) \/ \E u \in Users, d \in Docs : FindDocument(r, u, d)
    <3>1. UNCHANGED <<doc, job, pc, task, vectors, purged>>
      BY <2>3 DEF UnlinkFile, FindDocument, database, worker
    <3> QED BY <3>1, SearchAnnounce
  <2> QED BY <1>1, <2>1, <2>2, <2>3 DEF RequestNext
<1>2. ASSUME FaultNext PROVE SearchInv'
  <2>1. UNCHANGED <<doc, job, vectors, purged>>
    BY <1>2 DEF FaultNext, UploadCrash, WorkerCrash, RequestCrash, BrokerRestart, database
  <2>2. \A v \in Workers : \/ pc'[v] = pc[v] /\ task'[v] = task[v]
                           \/ pc'[v] = "idle"
    BY <1>2 DEF FaultNext, UploadCrash, WorkerCrash, RequestCrash, BrokerRestart,
                worker, TypeOK
  <2> QED BY <2>1, <2>2, SearchAnnounce
<1>3. ASSUME UNCHANGED vars PROVE SearchInv'
  BY <1>3, SearchAnnounce DEF vars
<1> QED BY <1>1, <1>2, <1>3, SearchUpload, SearchWorker DEF Next, Quiescent

LEMMA SearchInvariant == Spec => [](TypeOK /\ SearchInv)
  BY TypeInit, TypeStep, SearchInit, SearchStep, PTL DEF Spec

\* Whatever crashes, fails or is delivered twice: a user's collection holds
\* chunks of the user's documents only.
THEOREM VectorsAreIsolated == Spec => []VectorIsolation
<1>1. TypeOK /\ SearchInv => VectorIsolation
  BY DEF SearchInv, VectorsAreChunks, VectorIsolation
<1> QED BY <1>1, SearchInvariant, PTL

\* A document has as many chunk ids as chunks.
LEMMA ChunkCount ==
    ASSUME NEW d \in Docs
    PROVE  Cardinality(ChunkIds(d)) = NChunks[d]
<1>1. IsFiniteSet({d}) /\ Cardinality({d}) = 1
  BY FS_Singleton
<1>2. NChunks[d] \in Nat
  OBVIOUS
<1>3. IsFiniteSet(1 .. NChunks[d]) /\ Cardinality(1 .. NChunks[d]) = NChunks[d]
  BY <1>2, FS_Interval
<1>4. Cardinality({d} \X (1 .. NChunks[d])) = 1 * NChunks[d]
  BY <1>1, <1>3, FS_Product
<1> QED BY <1>2, <1>4 DEF ChunkIds

\* What the database calls SUCCESS is searchable, for every number of users,
\* documents, workers and requests and whatever crashes, fails or is delivered
\* twice.
THEOREM SuccessAlwaysSearchable == Spec => []SuccessIsSearchable
<1>1. ASSUME TypeOK, SearchInv, NEW d \in Docs, Indexed(d)
      PROVE  VectorsOf(Owner[d], d) = ChunkIds(d)
  <2>1. Owner[d] \in Users
    OBVIOUS
  <2> QED BY <1>1, <2>1, ChunkIdsFirst
          DEF SearchInv, VectorsAreChunks, VectorsOf, Indexed
<1>2. TypeOK /\ SearchInv => SuccessIsSearchable
  <2> SUFFICES ASSUME TypeOK, SearchInv, NEW d \in Docs, d \notin purged
               PROVE  /\ doc[d] = "SUCCESS" \/ job[d].status = "SUCCESS"
                            => VectorsOf(Owner[d], d) = ChunkIds(d)
                      /\ job[d].status = "SUCCESS" =>
                            /\ job[d].chunk_count = Cardinality(VectorsOf(Owner[d], d))
                            /\ job[d].chunk_count > 0
    BY DEF SuccessIsSearchable
  <2> QED BY <1>1, ChunkCount DEF SearchInv, SuccessIsIndexed
<1> QED BY <1>2, SearchInvariant, PTL
=============================================================================
