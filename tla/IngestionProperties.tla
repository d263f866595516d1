------------------------- MODULE IngestionProperties -------------------------
(***************************************************************************)
(* What uploading, ingesting and deleting documents must guarantee.        *)
(***************************************************************************)
EXTENDS Ingestion

\* Every variable keeps its type; a worker has a document exactly while it
\* runs a task, a request exactly while it deletes.
TypeOK ==
    /\ upload \in [Docs -> UploadSteps]
    /\ files \subseteq Docs
    /\ doc \in [Docs -> DocStatus]
    /\ job \in [Docs -> [status: JobStatus, task_id: BOOLEAN,
                         chunk_count: Nat, error: BOOLEAN]]
    /\ queue \subseteq Docs
    /\ pc \in [Workers -> WorkerSteps]
    /\ task \in [Workers -> Docs \cup {NoDoc}]
    /\ \A w \in Workers : pc[w] = "idle" <=> task[w] = NoDoc
    /\ vectors \in [Users -> SUBSET (Docs \X Nat)]
    /\ req \in [Requests -> {IdleRequest}
                  \cup [pc: RequestSteps \ {"idle"}, user: Users, doc: Docs]]
    /\ purged \subseteq Docs

\* A document whose deletion ran to its end (the 204 response).
Deleted(d) == d \in purged /\ ~HasRow(d)

-----------------------------------------------------------------------------
(* Search.                                                                 *)

\* What the database calls SUCCESS is searchable: as long as nobody asked to
\* delete it, a document whose job or row says SUCCESS has exactly the chunks
\* of its text in its owner's collection, and chunk_count is their number.
\* Whatever crashes, fails or is delivered twice. (rag/tasks.py:64-93)
SuccessIsSearchable ==
    \A d \in Docs \ purged :
        /\ doc[d] = "SUCCESS" \/ job[d].status = "SUCCESS"
              => VectorsOf(Owner[d], d) = ChunkIds(d)
        /\ job[d].status = "SUCCESS" =>
              /\ job[d].chunk_count = Cardinality(VectorsOf(Owner[d], d))
              /\ job[d].chunk_count > 0

\* A collection only ever holds chunks of documents of its user.
\* (rag/vectorstore.py:70-108)
VectorIsolation ==
    \A u \in Users : \A c \in vectors[u] : Owner[c[1]] = u

\* The message of d was delivered, and no worker is on its way to the store
\* with it.
Finished(d) ==
    /\ upload[d] \in {"dispatched", "accepted", "failed"} /\ d \notin queue
    /\ \A w \in Running(d) :
          pc[w] \in {"job_success", "doc_success", "job_failure", "doc_failure"}

\* A document whose chunks are removed after its job was settled, or after its
\* last worker is past the store, never gets any again: only a delete that
\* overtakes the ingestion leaves chunks behind. Holds while nothing is
\* redelivered. (rag/tasks.py:54-93, documents/views.py:205-217)
SettledDeletionIsFinal ==
    [][\A d \in Docs :
          /\ VectorsOf(Owner[d], d) = {}
          /\ job[d].status \in Settled \/ Finished(d)
          => VectorsOf(Owner[d], d)' = {} /\ Finished(d)']_vars

\* "Deleting a document removes its vectors"
\* (openspec/specs/document-ingestion/spec.md:46-48): when a document is
\* deleted and no worker runs its job any more, its chunks are gone.
DeletedIsNotSearchable ==
    \A d \in Docs :
        Deleted(d) /\ Running(d) = {} => VectorsOf(Owner[d], d) = {}

-----------------------------------------------------------------------------
(* Job and document status.                                                *)

\* A settled job keeps its status until its document is deleted: a client
\* that polled SUCCESS or FAILURE never sees PROCESSING again. Holds while
\* nothing is redelivered. (rag/tasks.py:53-54)
SettledIsFinal ==
    [][\A d \in Docs :
          job[d].status \in Settled => job'[d].status \in {job[d].status, "NONE"}]_vars

\* The status shown in the document list is never ahead of the job, never
\* contradicts its outcome, and lags it by one write at most, even if
\* processes crash between the two writes. (rag/tasks.py:54-61, 67-71, 89-93)
DocumentLagsJob ==
    \A d \in Docs : HasJob(d) =>
        <<job[d].status, doc[d]>> \in
            {<<"PENDING", "UPLOADED">>, <<"STARTED", "UPLOADED">>}
            \cup {<<s, "PROCESSING">> : s \in Settled \cup {"STARTED"}}
            \cup {<<s, s>> : s \in Settled}

\* The task id of a 202 response can be polled by the owner for as long as
\* the document is listed, and a settled answer is complete: SUCCESS stands
\* for at least one chunk and FAILURE comes with an error. Nobody else can
\* poll it. (documents/views.py:106-133, rag/views.py:180-220)
AcceptedIsPollable ==
    \A d \in Docs, u \in Users :
        /\ u # Owner[d] => PublicStatus(u, d) = "NOT_FOUND"
        /\ upload[d] = "accepted" /\ HasRow(d) => PublicStatus(Owner[d], d) # "NOT_FOUND"
        /\ PublicStatus(u, d) = "SUCCESS" => job[d].chunk_count > 0
        /\ PublicStatus(u, d) = "FAILURE" => job[d].error

-----------------------------------------------------------------------------
(* Files and deletion.                                                     *)

\* A document that is listed and that nobody asked to delete has its file.
\* (documents/services.py:31-40)
ListedHasFile == \A d \in Docs \ purged : HasRow(d) => d \in files

\* A completed deletion is complete and final in the database and on disk,
\* whatever upload, worker or second delete request ran beside it.
\* (documents/views.py:202-217, rag/tasks.py:41-48)
DeletedIsGone ==
    \A d \in Docs : Deleted(d) => d \notin files /\ ~HasJob(d)

\* Only a delete request of the owner takes a document, its file or its
\* chunks away. (documents/views.py:202)
OnlyOwnerDeletes ==
    [][\A d \in Docs :
          \/ HasRow(d) /\ ~HasRow(d)'
          \/ d \in files \ files'
          \/ \E u \in Users : ~(VectorsOf(u, d) \subseteq VectorsOf(u, d)')
          => \E r \in Requests : req[r].doc = d /\ req[r].user = Owner[d]]_vars

-----------------------------------------------------------------------------
(* The job's life cycle, as a client sees it.                              *)

JobState(d) ==
    IF HasJob(d) THEN job[d].status
    ELSE IF Deleted(d) THEN "REMOVED" ELSE "NONE"

Lifecycle == INSTANCE JobLifecycle
                 WITH Jobs <- Docs, state <- [d \in Docs |-> JobState(d)]

\* While nothing is redelivered, a job only moves along the documented state
\* machine, whatever crashes or fails. (rag/tasks.py:9-12)
FollowsLifecycle == Lifecycle!Spec
=============================================================================
