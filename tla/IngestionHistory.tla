--------------------------- MODULE IngestionHistory ---------------------------
(***************************************************************************)
(* Ingestion with a record of the runs that faults took away, and what must*)
(* become of all others.                                                   *)
(*                                                                         *)
(* Broker and worker acknowledge a message before its task runs, and redis *)
(* keeps nothing on disk: a killed worker and a restarted broker lose work *)
(* that nobody starts again. The record says whose work that was, so that  *)
(* the properties can promise an outcome to everybody else while processes *)
(* crash, the store raises and the broker is restarted. No step of the     *)
(* system reads it.                                                        *)
(***************************************************************************)
EXTENDS IngestionProperties

VARIABLE lost   \* history: documents whose message or whose run was lost

\* A killed worker loses its run, a restarted broker its whole queue.
LoseRun == \E w \in Workers : WorkerCrash(w) /\ lost' = lost \cup {task[w]}

LoseQueue == BrokerRestart /\ lost' = lost \cup queue

HistoryInit == Init /\ lost = {}

HistoryNext ==
    \/ /\ \/ \E d \in Docs : UploadNext(d) \/ UploadCrash(d)
          \/ \E w \in Workers : WorkerNext(w)
          \/ \E r \in Requests : RequestNext(r) \/ RequestCrash(r)
          \/ Quiescent
       /\ UNCHANGED lost
    \/ LoseRun
    \/ LoseQueue

HistorySpec == HistoryInit /\ [][HistoryNext]_<<vars, lost>> /\ Fairness

-----------------------------------------------------------------------------
\* Job and row of a document settle on the same outcome.
Agreed(d) == job[d].status \in Settled /\ doc[d] = job[d].status

\* A crash between the two writes that end a run leaves job and document
\* apart for good. Nothing else does: when no worker runs a document and no
\* run of it was lost, both show the same outcome, or the job still waits for
\* a worker, or the upload broke off before its message was sent. Holds while
\* nothing is redelivered. (rag/tasks.py:64-105, documents/views.py:106-123)
QuietStatusAgrees ==
    \A d \in Docs \ lost : HasJob(d) /\ Running(d) = {} =>
        \/ /\ job[d].status = "PENDING" /\ doc[d] = "UPLOADED"
           /\ upload[d] \in {"created", "failed"} \/ d \in queue
        \/ Agreed(d)

\* A message in the queue is worked off: job and document come to the same
\* outcome, unless the document is deleted or the message or its run is lost.
\* Whatever the parser, the model and the store raise. (rag/tasks.py:41-105)
MessageIsWorkedOff ==
    \A d \in Docs : d \in queue ~> Agreed(d) \/ ~HasJob(d) \/ d \in lost

\* An accepted upload comes to an outcome its owner can poll, unless it is
\* deleted or its message or its run is lost: the 202 response is only given
\* once the message was sent. (documents/views.py:119-133, rag/tasks.py:64-105)
AcceptedIsSettled ==
    \A d \in Docs :
        upload[d] = "accepted"
            ~> PublicStatus(Owner[d], d) \in Settled \/ Deleted(d) \/ d \in lost
=============================================================================
