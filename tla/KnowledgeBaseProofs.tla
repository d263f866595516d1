------------------------- MODULE KnowledgeBaseProofs -------------------------
(***************************************************************************)
(* Theorems about KnowledgeBase: what questions find beside any number of  *)
(* uploads, workers and deletions, whatever fails.                         *)
(***************************************************************************)
EXTENDS KnowledgeBase, IngestionLifecycleProofs

USE OwnerAssumption, ChunksAssumption, NoneAssumption, TopKAssumption

\* Questions change nothing of ingestion, so its invariants hold beside them.
LEMMA QuestionsOnlyRead == KBSpec => Spec
<1>1. [KBNext]_kbVars => [Next]_vars
  BY DEF KBNext, kbVars, Change, Question, AskKnowing, R!Ask, R!Embed, R!FirstCount,
         R!SecondCount, R!Search, R!StoreRaises, vars, database, worker
<1> QED BY <1>1, PTL DEF KBSpec, KBInit, Spec

LEMMA IngestionInvariant == KBSpec => [](TypeOK /\ SearchInv /\ RecordInv)
  BY QuestionsOnlyRead, RecordInvariant, PTL

-----------------------------------------------------------------------------
(* Chunks come from work that was begun.                                   *)

\* The message of d was sent, and the job is there until a delete takes it.
Taken(d) == Sent(d) /\ (HasJob(d) \/ d \in purged)

Begun(d) == Taken(d) /\ job[d].status # "PENDING"

BegunInv ==
    /\ \A d \in queue : Sent(d)
    /\ \A w \in Workers : pc[w] # "idle" =>
          /\ Taken(task[w])
          /\ pc[w] # "mark_started" => Begun(task[w])
    /\ \A u \in Users : \A c \in vectors[u] : Begun(c[1])

LEMMA BegunInit == Init => BegunInv
  BY DEF Init, BegunInv

\* Neither of the two ever ends.
LEMMA BegunStable ==
    ASSUME TypeOK, RecordInv, [Next]_vars, NEW d \in Docs, Taken(d)
    PROVE  Taken(d)' /\ (Begun(d) => Begun(d)')
<1>1. ASSUME Sent(d)', purged \subseteq purged',
             HasJob(d) => HasJob(d)' \/ d \in purged',
             job'[d].status = "PENDING" => job[d].status = "PENDING"
      PROVE  Taken(d)' /\ (Begun(d) => Begun(d)')
  BY <1>1 DEF Taken, Begun
<1>2. ASSUME UNCHANGED <<upload, job>>, purged \subseteq purged'
      PROVE  Taken(d)' /\ (Begun(d) => Begun(d)')
  BY <1>1, <1>2 DEF Taken, Sent, HasJob
<1>3. ASSUME NEW e \in Docs, UploadNext(e) \/ UploadCrash(e)
      PROVE  Taken(d)' /\ (Begun(d) => Begun(d)')
  <2> USE DEF UploadSteps
  <2>1. /\ Sent(d)' /\ UNCHANGED purged
        /\ e = d => ~(SaveFile(e) \/ InsertDocument(e) \/ CreateJob(e) \/ Dispatch(e))
    BY <1>3 DEF UploadNext, SaveFile, InsertDocument, CreateJob, Dispatch, RecordTaskId,
                UploadCrash, UploadStep, Taken, Sent, TypeOK
  <2>2. job'[d].status = job[d].status
    <3>1. CASE CreateJob(e)
      BY <2>1, <3>1 DEF CreateJob, TypeOK
    <3>2. CASE RecordTaskId(e)
      <4> DEFINE row == [job[e] EXCEPT !.task_id = TRUE]
      <4>1. SetJob(e, row) /\ row.status = job[e].status
        BY <3>2 DEF RecordTaskId, TypeOK
      <4> HIDE DEF row
      <4> QED BY <4>1, SetJobValue
    <3> QED BY <1>3, <3>1, <3>2 DEF UploadNext, SaveFile, InsertDocument, Dispatch,
                                    UploadCrash, database
  <2> QED BY <1>1, <2>1, <2>2 DEF HasJob
<1>4. ASSUME NEW w \in Workers, WorkerNext(w)
      PROVE  Taken(d)' /\ (Begun(d) => Begun(d)')
  <2>1. /\ UNCHANGED <<upload, purged>> /\ (HasJob(d)' <=> HasJob(d))
        /\ \/ job'[d].status = job[d].status
           \/ job'[d].status \in {"STARTED", "SUCCESS", "FAILURE"}
    BY <1>4, WorkerRows
  <2> QED BY <1>1, <2>1 DEF Taken, Sent
<1>5. ASSUME NEW r \in Requests, RequestNext(r) \/ RequestCrash(r)
      PROVE  Taken(d)' /\ (Begun(d) => Begun(d)')
  <2>1. CASE DeleteRow(r)
    <3>1. PICK e \in Docs : /\ e = req[r].doc /\ req[r].pc = "delete_row"
                            /\ job' = [job EXCEPT ![e] = NoJob]
      BY <2>1, RequestStepType DEF DeleteRow, RequestStep, RequestSteps
    <3>2. e \in purged /\ UNCHANGED <<upload, purged>> /\ NoJob.status = "NONE"
      BY <2>1, <3>1 DEF RecordInv, DeleteInv, DeleteRow, NoJob
    <3>3. job'[e] = NoJob /\ (d # e => job'[d] = job[d])
      BY <3>1 DEF TypeOK
    <3> QED BY <1>1, <3>2, <3>3 DEF Taken, Sent, HasJob
  <2> QED BY <1>2, <1>5, <2>1 DEF RequestNext, FindDocument, PurgeVectors, UnlinkFile,
                                  RequestCrash, database
<1> QED BY <1>2, <1>3, <1>4, <1>5 DEF Next, FaultNext, Quiescent, WorkerCrash, BrokerRestart,
                                      database, vars

\* What the steps do to a worker.
LEMMA NewTask ==
    ASSUME TypeOK, RecordInv, BegunInv, [Next]_vars, NEW v \in Workers, pc'[v] # "idle"
    PROVE  /\ task'[v] \in Docs /\ Taken(task'[v])
           /\ \/ pc'[v] = "mark_started"
              \/ Begun(task'[v])
              \/ MarkStarted(v) /\ task'[v] = task[v]
<1> USE DEF WorkerSteps
<1>1. CASE pc'[v] = pc[v] /\ task'[v] = task[v]
  BY <1>1 DEF BegunInv, TypeOK
<1>2. ASSUME NEW d \in Docs, Begin(v, d) PROVE
           /\ task'[v] \in Docs /\ Taken(task'[v]) /\ pc'[v] = "mark_started"
  BY <1>2 DEF Begin, BegunInv, Taken, TypeOK, worker
<1>3. ASSUME NEW from \in WorkerSteps \ {"idle"}, NEW to \in WorkerSteps,
             WorkerStep(v, from, to)
      PROVE  /\ task'[v] \in Docs /\ task'[v] = task[v] /\ pc[v] = from
             /\ Taken(task[v]) /\ (from # "mark_started" => Begun(task[v]))
  <2>1. pc[v] = from /\ task[v] \in Docs /\ pc'[v] = to
    BY <1>3, WorkerStepType, WorkerStepValue DEF TypeOK
  <2>2. task'[v] = task[v]
    BY <1>3, <2>1, WorkerStepValue
  <2> QED BY <2>1, <2>2 DEF BegunInv
<1>4. CASE WorkerNext(v)
  BY <1>2, <1>3, <1>4
     DEF WorkerNext, MarkStarted, MarkProcessing, Extract, Upsert, MarkJobSuccess,
         MarkDocumentSuccess, MarkJobFailure, MarkDocumentFailure
<1>5. ASSUME NEW w \in Workers, w # v, WorkerNext(w)
      PROVE  pc'[v] = pc[v] /\ task'[v] = task[v]
  BY <1>5 DEF WorkerNext, Begin, MarkStarted, MarkProcessing, Extract, Upsert, MarkJobSuccess,
              MarkDocumentSuccess, MarkJobFailure, MarkDocumentFailure, WorkerStep, TypeOK, worker
<1>6. ASSUME NEW w \in Workers, WorkerCrash(w)
      PROVE  pc'[v] = pc[v] /\ task'[v] = task[v]
  BY <1>6 DEF WorkerCrash, TypeOK
<1>7. \/ UNCHANGED <<pc, task>>
      \/ \E w \in Workers : WorkerNext(w) \/ WorkerCrash(w)
  BY DEF Next, UploadNext, RequestNext, FaultNext, Quiescent, vars, worker,
         SaveFile, InsertDocument, CreateJob, Dispatch, RecordTaskId, UploadCrash,
         BrokerRestart, FindDocument, PurgeVectors, UnlinkFile, DeleteRow, RequestCrash
<1> QED BY <1>1, <1>4, <1>5, <1>6, <1>7

\* New chunks are those of a document a worker is about to write; a collection
\* loses only chunks of a document that was asked to be deleted.
LEMMA StoreChange ==
    ASSUME TypeOK, [Next]_vars
    PROVE  /\ purged \subseteq purged'
           /\ \A u \in Users :
                \/ vectors'[u] \subseteq vectors[u]
                   /\ \A c \in vectors[u] \ vectors'[u] : c[1] \in purged'
                \/ \E w \in Workers : /\ pc[w] = "upsert" /\ task[w] \in Docs
                                      /\ vectors'[u] = vectors[u] \cup ChunkIds(task[w])
<1>1. purged \subseteq purged'
  BY DEF Next, UploadNext, WorkerNext, RequestNext, FaultNext, Quiescent, vars,
         SaveFile, InsertDocument, CreateJob, Dispatch, RecordTaskId, UploadCrash,
         Begin, MarkStarted, MarkProcessing, Extract, Upsert, MarkJobSuccess,
         MarkDocumentSuccess, MarkJobFailure, MarkDocumentFailure, WorkerCrash,
         BrokerRestart, FindDocument, PurgeVectors, UnlinkFile, DeleteRow, RequestCrash
<1>2. ASSUME NEW u \in Users, NEW w \in Workers, Upsert(w)
      PROVE  \/ vectors'[u] = vectors[u]
             \/ /\ pc[w] = "upsert" /\ task[w] \in Docs
                /\ vectors'[u] = vectors[u] \cup ChunkIds(task[w])
  <2>1. pc[w] = "upsert" /\ task[w] \in Docs
    BY <1>2, WorkerStepType DEF Upsert, WorkerStep, WorkerSteps
  <2>2. vectors' \in {vectors, [vectors EXCEPT ![Owner[task[w]]] = @ \cup ChunkIds(task[w])]}
    BY <1>2 DEF Upsert
  <2> QED BY <2>1, <2>2 DEF TypeOK
<1>3. ASSUME NEW u \in Users, NEW r \in Requests, PurgeVectors(r)
      PROVE  vectors'[u] \subseteq vectors[u]
             /\ \A c \in vectors[u] \ vectors'[u] : c[1] \in purged'
  BY <1>3 DEF PurgeVectors, VectorsOf, TypeOK
<1> QED BY <1>1, <1>2, <1>3, StoreSteps

LEMMA BegunStep == TypeOK /\ SearchInv /\ RecordInv /\ BegunInv /\ [Next]_vars => BegunInv'
<1> SUFFICES ASSUME TypeOK, SearchInv, RecordInv, BegunInv, [Next]_vars PROVE BegunInv'
  OBVIOUS
<1>1. ASSUME NEW d \in queue' PROVE Sent(d)'
  <2>1. CASE d \in queue
    BY <2>1, SentStable DEF BegunInv, TypeOK
  <2>2. CASE d \notin queue
    BY <2>2, NewMessage
  <2> QED BY <2>1, <2>2
<1>2. ASSUME NEW w \in Workers, pc'[w] # "idle"
      PROVE  /\ Taken(task[w])'
             /\ pc'[w] # "mark_started" => Begun(task[w])'
  <2>1. PICK d \in Docs : d = task'[w] /\ Taken(d)
    BY <1>2, NewTask
  <2>2. Taken(d)' /\ (Begun(d) => Begun(d)')
    BY <2>1, BegunStable
  <2>3. ASSUME MarkStarted(w), task[w] = d PROVE Begun(d)'
    <3> DEFINE row == [job[d] EXCEPT !.status = "STARTED"]
    <3>1. SetJob(d, row)
      BY <2>3 DEF MarkStarted
    <3>2. row.status = "STARTED"
      BY DEF TypeOK
    <3> HIDE DEF row
    <3>3. job'[d].status # "PENDING"
      BY <3>1, <3>2 DEF SetJob, HasJob, TypeOK
    <3> QED BY <2>2, <3>3 DEF Begun
  <2>4. pc'[w] = "mark_started" \/ Begun(d)'
    BY <1>2, <2>1, <2>2, <2>3, NewTask
  <2> QED BY <2>1, <2>2, <2>4 DEF Taken, Begun, Sent, HasJob
<1>3. ASSUME NEW u \in Users, NEW c \in vectors'[u] PROVE Begun(c[1])'
  <2>1. c[1] \in Docs /\ Begun(c[1])
    <3>1. CASE c \in vectors[u]
      BY <3>1 DEF BegunInv, TypeOK
    <3>2. CASE c \notin vectors[u]
      <4>1. PICK w \in Workers : pc[w] = "upsert" /\ task[w] \in Docs /\ c \in ChunkIds(task[w])
        BY <3>2, StoreChange
      <4>2. c[1] = task[w]
        BY <4>1, ChunkIdsFirst
      <4> QED BY <4>1, <4>2 DEF BegunInv
    <3> QED BY <3>1, <3>2
  <2>2. PICK d \in Docs : d = c[1]
    BY <2>1
  <2>3. Begun(d)'
    BY <2>1, <2>2, BegunStable DEF Begun
  <2> QED BY <2>2, <2>3 DEF Taken, Begun, Sent, HasJob
<1> QED BY <1>1, <1>2, <1>3 DEF BegunInv

\* No step of ingestion takes from a collection what nobody asked to delete.
LEMMA IndexedStable ==
    ASSUME TypeOK, [Next]_vars, NEW d \in Docs, Indexed(d) \/ d \in purged
    PROVE  (Indexed(d) \/ d \in purged)'
<1>1. Owner[d] \in Users /\ purged \subseteq purged'
  BY StoreChange
<1>2. ASSUME Indexed(d), d \notin purged' PROVE Indexed(d)'
  <2>1. \A c \in ChunkIds(d) : c \in vectors[Owner[d]] /\ c[1] = d
    BY <1>2, ChunkIdsFirst DEF Indexed
  <2>2. \A c \in ChunkIds(d) : c \in vectors'[Owner[d]]
    BY <1>1, <1>2, <2>1, StoreChange
  <2> QED BY <2>2 DEF Indexed
<1> QED BY <1>1, <1>2

\* Collections are finite at all times.
StoreInv == \A u \in Users : IsFiniteSet(vectors[u])

LEMMA StoreInit == Init => StoreInv
  BY FS_EmptySet DEF Init, StoreInv

LEMMA ChunkIdsFinite ==
    ASSUME NEW d \in Docs PROVE IsFiniteSet(ChunkIds(d))
<1>1. IsFiniteSet({d})
  BY FS_Singleton
<1>2. NChunks[d] \in Int
  OBVIOUS
<1>3. IsFiniteSet(1 .. NChunks[d])
  BY <1>2, FS_Interval
<1>4. IsFiniteSet({d} \X (1 .. NChunks[d]))
  BY <1>1, <1>3, FS_Product
<1> QED BY <1>4 DEF ChunkIds

LEMMA StoreFinite == TypeOK /\ StoreInv /\ [Next]_vars => StoreInv'
<1> SUFFICES ASSUME TypeOK, StoreInv, [Next]_vars, NEW u \in Users
             PROVE  IsFiniteSet(vectors'[u])
  BY DEF StoreInv
<1>1. IsFiniteSet(vectors[u])
  BY DEF StoreInv
<1>2. CASE vectors'[u] \subseteq vectors[u]
  BY <1>1, <1>2, FS_Subset
<1>3. ASSUME NEW w \in Workers, task[w] \in Docs,
             vectors'[u] = vectors[u] \cup ChunkIds(task[w])
      PROVE  IsFiniteSet(vectors'[u])
  <2>1. IsFiniteSet(ChunkIds(task[w]))
    BY <1>3, ChunkIdsFinite
  <2>2. IsFiniteSet(vectors[u] \cup ChunkIds(task[w]))
    BY <1>1, <2>1, FS_Union
  <2> QED BY <1>3, <2>2
<1> QED BY <1>2, <1>3, StoreChange

-----------------------------------------------------------------------------
(* A question, from the moment it is asked: what its user knew then is in  *)
(* the collection until somebody asks to delete it, so each count is at    *)
(* least as large as what the question can still count on.                 *)

Asked == [step: R!Steps, user: Users \cup {NoUser}, n: Nat, found: SUBSET (Docs \X Nat),
          outcome: R!Outcomes]

AskTypeOK == ask \in [Questions -> Asked] /\ known \in [Questions -> SUBSET Docs]

\* The number of chunks a question must find.
Wanted(q) == R!Smaller(TopK, Cardinality(Dependable(q)))

KnownInv(q) ==
    /\ ask[q].step # "idle" => ask[q].user \in Users
    /\ ask[q].step # "done" => ask[q].outcome = "none" /\ ask[q].found = {}
    /\ \A d \in known[q] : Owner[d] = ask[q].user /\ (Indexed(d) \/ d \in purged)

CountInv(q) ==
    /\ ask[q].step = "search" => ask[q].n <= TopK /\ Wanted(q) <= ask[q].n
    /\ ask[q].outcome = "found" =>
          /\ IsFiniteSet(ask[q].found)
          /\ Cardinality(ask[q].found) <= TopK
          /\ Wanted(q) <= Cardinality(ask[q].found)

FoundInv(q) ==
    \A c \in ask[q].found : Owner[c[1]] = ask[q].user /\ Begun(c[1])

QuestionInv ==
    /\ AskTypeOK
    /\ \A q \in Questions : KnownInv(q) /\ CountInv(q) /\ FoundInv(q)

LEMMA QuestionInit == KBInit => QuestionInv
<1> SUFFICES ASSUME KBInit PROVE QuestionInv OBVIOUS
<1>1. R!NoQuestion \in Asked
  BY DEF R!NoQuestion, Asked, R!Steps, R!Outcomes
<1>2. AskTypeOK
  BY <1>1 DEF KBInit, R!AskInit, AskTypeOK
<1>3. \A q \in Questions : ask[q] = R!NoQuestion /\ known[q] = {}
  BY DEF KBInit, R!AskInit
<1> QED BY <1>2, <1>3 DEF QuestionInv, KnownInv, CountInv, FoundInv, R!NoQuestion

\* What a question can count on is in the collection.
LEMMA DependableIsThere ==
    ASSUME TypeOK, StoreInv, AskTypeOK, NEW q \in Questions, KnownInv(q),
           ask[q].step # "idle"
    PROVE  /\ Dependable(q) \subseteq vectors[ask[q].user]
           /\ IsFiniteSet(vectors[ask[q].user]) /\ IsFiniteSet(Dependable(q))
           /\ Cardinality(Dependable(q)) \in Nat
           /\ Cardinality(vectors[ask[q].user]) \in Nat
           /\ Cardinality(Dependable(q)) <= Cardinality(vectors[ask[q].user])
<1>1. ASSUME NEW d \in known[q], d \notin purged
      PROVE  ChunkIds(d) \subseteq vectors[ask[q].user]
  BY <1>1 DEF KnownInv, Indexed
<1>2. Dependable(q) \subseteq vectors[ask[q].user]
  BY <1>1 DEF Dependable
<1>3. IsFiniteSet(vectors[ask[q].user])
  BY DEF KnownInv, StoreInv
<1>4. /\ IsFiniteSet(Dependable(q))
      /\ Cardinality(Dependable(q)) <= Cardinality(vectors[ask[q].user])
  BY <1>2, <1>3, FS_Subset
<1>5. Cardinality(Dependable(q)) \in Nat /\ Cardinality(vectors[ask[q].user]) \in Nat
  BY <1>3, <1>4, FS_CardinalityType
<1> QED BY <1>2, <1>3, <1>4, <1>5

\* It only becomes less.
LEMMA WantedShrinks ==
    ASSUME TypeOK, StoreInv, AskTypeOK, NEW q \in Questions, KnownInv(q),
           ask[q].step # "idle", known'[q] = known[q], purged \subseteq purged'
    PROVE  Wanted(q) \in Nat /\ Wanted(q)' \in Nat /\ Wanted(q)' <= Wanted(q)
<1>1. Dependable(q)' \subseteq Dependable(q)
  BY DEF Dependable
<1>2. /\ Cardinality(Dependable(q)') \in Nat /\ Cardinality(Dependable(q)) \in Nat
      /\ Cardinality(Dependable(q)') <= Cardinality(Dependable(q))
  BY <1>1, DependableIsThere, FS_Subset, FS_CardinalityType
<1> QED BY <1>2 DEF Wanted, R!Smaller

\* Ingestion and deletion keep what questions rely on.
LEMMA QuestionChange ==
    ASSUME TypeOK, StoreInv, RecordInv, QuestionInv, [Next]_vars, UNCHANGED <<ask, known>>
    PROVE  QuestionInv'
<1>1. AskTypeOK'
  BY DEF QuestionInv, AskTypeOK
<1>2. ASSUME NEW q \in Questions PROVE KnownInv(q)'
  <2>1. KnownInv(q) /\ known[q] \subseteq Docs
    BY DEF QuestionInv, AskTypeOK
  <2>2. ASSUME NEW d \in known[q] PROVE (Indexed(d) \/ d \in purged)'
    BY <2>1, <2>2, IndexedStable DEF KnownInv
  <2> QED BY <2>1, <2>2 DEF KnownInv
<1>3. ASSUME NEW q \in Questions PROVE CountInv(q)'
  <2>1. KnownInv(q) /\ CountInv(q) /\ ask[q] \in Asked
    BY DEF QuestionInv, AskTypeOK
  <2>2. ask[q].outcome = "found" => ask[q].step # "idle"
    BY <2>1 DEF KnownInv
  <2>3. CASE ask[q].step = "idle"
    BY <2>2, <2>3 DEF CountInv
  <2>4. CASE ask[q].step # "idle"
    <3>1. Wanted(q) \in Nat /\ Wanted(q)' \in Nat /\ Wanted(q)' <= Wanted(q)
      BY <2>1, <2>4, WantedShrinks, StoreChange DEF QuestionInv
    <3>2. ask[q].n \in Nat
      BY <2>1 DEF Asked
    <3>3. IsFiniteSet(ask[q].found) => Cardinality(ask[q].found) \in Nat
      BY FS_CardinalityType
    <3> QED BY <2>1, <3>1, <3>2, <3>3 DEF CountInv
  <2> QED BY <2>3, <2>4
<1>4. ASSUME NEW q \in Questions PROVE FoundInv(q)'
  <2>1. ask[q].found \subseteq Docs \X Nat
    BY DEF QuestionInv, AskTypeOK, Asked
  <2>2. ASSUME NEW c \in ask[q].found PROVE Owner[c[1]] = ask[q].user /\ Begun(c[1])'
    <3>1. PICK d \in Docs : d = c[1]
      BY <2>1
    <3>2. Begun(d) /\ Owner[d] = ask[q].user
      BY <3>1 DEF QuestionInv, FoundInv
    <3>3. Begun(d)'
      BY <3>2, BegunStable DEF Begun
    <3> QED BY <3>1, <3>2, <3>3 DEF Begun, Taken, Sent, HasJob
  <2> QED BY <2>2 DEF FoundInv
<1> QED BY <1>1, <1>2, <1>3, <1>4 DEF QuestionInv

-----------------------------------------------------------------------------
(* The steps of a question.                                                *)

\* What each kind of step writes into the local state of its question.
LEMMA AskStepValue ==
    ASSUME AskTypeOK, NEW q \in Questions, NEW from, NEW to \in R!Steps, R!AskStep(q, from, to)
    PROVE  /\ ask' \in [Questions -> Asked]
           /\ \A p \in Questions : p # q => ask'[p] = ask[p]
           /\ ask[q].step = from /\ ask'[q].step = to /\ ask'[q].user = ask[q].user
           /\ ask'[q].n = ask[q].n /\ ask'[q].found = ask[q].found
           /\ ask'[q].outcome = ask[q].outcome
  BY DEF AskTypeOK, Asked, R!AskStep

LEMMA CountValue ==
    ASSUME AskTypeOK, NEW q \in Questions, NEW n \in Nat,
           ask' = [ask EXCEPT ![q] = [@ EXCEPT !.step = "search", !.n = n]]
    PROVE  /\ ask' \in [Questions -> Asked]
           /\ \A p \in Questions : p # q => ask'[p] = ask[p]
           /\ ask'[q].step = "search" /\ ask'[q].user = ask[q].user
           /\ ask'[q].n = n /\ ask'[q].found = ask[q].found
           /\ ask'[q].outcome = ask[q].outcome
<1> DEFINE new == [ask[q] EXCEPT !.step = "search", !.n = n]
<1>1. "search" \in R!Steps /\ ask[q] \in Asked
  BY DEF R!Steps, AskTypeOK
<1>2. /\ new \in Asked /\ new.step = "search" /\ new.user = ask[q].user
      /\ new.n = n /\ new.found = ask[q].found /\ new.outcome = ask[q].outcome
  BY <1>1 DEF Asked
<1>3. ask' = [ask EXCEPT ![q] = new]
  OBVIOUS
<1> HIDE DEF new
<1> QED BY <1>2, <1>3 DEF AskTypeOK

LEMMA FinishValue ==
    ASSUME AskTypeOK, NEW q \in Questions, NEW outcome \in R!Outcomes,
           NEW found \in SUBSET (Docs \X Nat), R!Finish(q, outcome, found)
    PROVE  /\ ask' \in [Questions -> Asked]
           /\ \A p \in Questions : p # q => ask'[p] = ask[p]
           /\ ask'[q].step = "done" /\ ask'[q].user = ask[q].user
           /\ ask'[q].found = found /\ ask'[q].outcome = outcome
<1> DEFINE new == [ask[q] EXCEPT !.step = "done", !.n = 0,
                                 !.outcome = outcome, !.found = found]
<1>1. "done" \in R!Steps /\ ask[q] \in Asked
  BY DEF R!Steps, AskTypeOK
<1>2. /\ new \in Asked /\ new.step = "done" /\ new.user = ask[q].user
      /\ new.found = found /\ new.outcome = outcome
  BY <1>1 DEF Asked
<1>3. ask' = [ask EXCEPT ![q] = new]
  BY DEF R!Finish
<1> HIDE DEF new
<1> QED BY <1>2, <1>3 DEF AskTypeOK

LEMMA AskValue ==
    ASSUME AskTypeOK, NEW q \in Questions, NEW u \in Users, R!Ask(q, u)
    PROVE  /\ ask' \in [Questions -> Asked]
           /\ \A p \in Questions : p # q => ask'[p] = ask[p]
           /\ ask[q].step \in {"idle", "done"}
           /\ ask'[q].step = "embed" /\ ask'[q].user = u
           /\ ask'[q].found = {} /\ ask'[q].outcome = "none"
<1> DEFINE new == [R!NoQuestion EXCEPT !.step = "embed", !.user = u]
<1>1. /\ new.step = "embed" /\ new.user = u /\ new.found = {} /\ new.outcome = "none"
  BY DEF R!NoQuestion
<1>2. new \in Asked
  <2>1. "embed" \in R!Steps /\ "none" \in R!Outcomes
    BY DEF R!Steps, R!Outcomes
  <2> QED BY <2>1 DEF Asked, R!NoQuestion
<1>3. ask' = [ask EXCEPT ![q] = new] /\ ask[q].step \in {"idle", "done"}
  BY DEF R!Ask
<1> HIDE DEF new
<1> QED BY <1>1, <1>2, <1>3 DEF AskTypeOK

\* Questions do not disturb each other.
LEMMA QuestionFrame ==
    ASSUME QuestionInv, NEW q \in Questions, UNCHANGED vars,
           ask' \in [Questions -> Asked], known' \in [Questions -> SUBSET Docs],
           \A p \in Questions : p # q => ask'[p] = ask[p] /\ known'[p] = known[p],
           KnownInv(q)', CountInv(q)', FoundInv(q)'
    PROVE  QuestionInv'
<1>1. AskTypeOK'
  BY DEF AskTypeOK
<1>2. ASSUME NEW p \in Questions, p # q PROVE KnownInv(p)' /\ CountInv(p)' /\ FoundInv(p)'
  <2>1. KnownInv(p) /\ CountInv(p) /\ FoundInv(p)
    BY DEF QuestionInv
  <2>2. UNCHANGED <<upload, job, vectors, purged>>
    BY DEF vars
  <2>3. ask'[p] = ask[p] /\ known'[p] = known[p]
    BY <1>2
  <2>4. Wanted(p)' = Wanted(p)
    BY <2>2, <2>3 DEF Wanted, Dependable
  <2>5. KnownInv(p)'
    BY <2>1, <2>2, <2>3 DEF KnownInv, Indexed
  <2>6. CountInv(p)'
    BY <2>1, <2>3, <2>4 DEF CountInv
  <2>7. FoundInv(p)'
    BY <2>1, <2>2, <2>3 DEF FoundInv, Begun, Taken, Sent, HasJob
  <2> QED BY <2>5, <2>6, <2>7
<1> QED BY <1>1, <1>2 DEF QuestionInv

\* A step that leaves a question's user and its knowledge alone and does not
\* answer it.
LEMMA QuestionGoesOn ==
    ASSUME TypeOK, StoreInv, QuestionInv, NEW q \in Questions, UNCHANGED <<vars, known>>,
           ask' \in [Questions -> Asked],
           \A p \in Questions : p # q => ask'[p] = ask[p],
           ask[q].step \notin {"idle", "done"}, ask'[q].step \notin {"idle", "done"},
           ask'[q].user = ask[q].user, ask'[q].found = ask[q].found,
           ask'[q].outcome = ask[q].outcome,
           ask'[q].step = "search" => ask'[q].n <= TopK /\ Wanted(q) <= ask'[q].n
    PROVE  QuestionInv'
<1>1. KnownInv(q) /\ known' \in [Questions -> SUBSET Docs]
  BY DEF QuestionInv, AskTypeOK
<1>2. UNCHANGED <<vectors, purged>>
  BY DEF vars
<1>3. ask'[q].outcome = "none" /\ ask'[q].found = {}
  BY <1>1 DEF KnownInv
<1>4. Wanted(q)' = Wanted(q)
  BY <1>2 DEF Wanted, Dependable
<1>5. KnownInv(q)' /\ CountInv(q)' /\ FoundInv(q)'
  BY <1>1, <1>2, <1>3, <1>4 DEF KnownInv, CountInv, FoundInv, Indexed
<1> QED BY <1>1, <1>5, QuestionFrame

\* An answer keeps the invariant if its chunks are in the collection and
\* enough.
LEMMA QuestionEnds ==
    ASSUME TypeOK, SearchInv, StoreInv, BegunInv, QuestionInv, NEW q \in Questions,
           UNCHANGED <<vars, known>>, ask[q].step \notin {"idle", "done"},
           NEW outcome \in R!Outcomes, NEW found \in SUBSET vectors[ask[q].user],
           R!Finish(q, outcome, found),
           outcome = "found" => /\ Cardinality(found) <= TopK
                                /\ Wanted(q) <= Cardinality(found)
    PROVE  QuestionInv'
<1>1. KnownInv(q) /\ known' \in [Questions -> SUBSET Docs] /\ AskTypeOK
  BY DEF QuestionInv, AskTypeOK
<1>2. UNCHANGED <<upload, job, vectors, purged>>
  BY DEF vars
<1>3. ask[q].user \in Users
  BY <1>1 DEF KnownInv
<1>4. found \subseteq Docs \X Nat /\ IsFiniteSet(found)
  <2>1. vectors[ask[q].user] \subseteq Docs \X Nat /\ IsFiniteSet(vectors[ask[q].user])
    BY <1>3 DEF TypeOK, StoreInv
  <2> QED BY <2>1, FS_Subset
<1>5. /\ ask' \in [Questions -> Asked]
      /\ \A p \in Questions : p # q => ask'[p] = ask[p]
      /\ ask'[q].step = "done" /\ ask'[q].user = ask[q].user
      /\ ask'[q].found = found /\ ask'[q].outcome = outcome
  BY <1>1, <1>4, FinishValue
<1>6. Wanted(q)' = Wanted(q)
  BY <1>2 DEF Wanted, Dependable
<1>7. KnownInv(q)'
  BY <1>1, <1>2, <1>5 DEF KnownInv, Indexed
<1>8. CountInv(q)'
  BY <1>4, <1>5, <1>6 DEF CountInv
<1>9. FoundInv(q)'
  <2>1. ASSUME NEW c \in found PROVE Owner[c[1]] = ask[q].user /\ Begun(c[1])
    BY <1>3 DEF SearchInv, VectorsAreChunks, BegunInv
  <2> QED BY <1>2, <1>5, <2>1 DEF FoundInv, Begun, Taken, Sent, HasJob
<1> QED BY <1>1, <1>5, <1>7, <1>8, <1>9, QuestionFrame

\* Retrieval counts as the library does.
LEMMA SameCount == \A S : R!Cardinality(S) = Cardinality(S)
  BY DEF R!Cardinality, Cardinality

LEMMA QuestionStep ==
    ASSUME TypeOK, SearchInv, StoreInv, BegunInv, QuestionInv, NEW q \in Questions, Question(q)
    PROVE  QuestionInv'
<1> USE DEF R!Steps
<1>1. AskTypeOK /\ KnownInv(q) /\ CountInv(q) /\ ask[q] \in Asked
  BY DEF QuestionInv, AskTypeOK
<1>2. UNCHANGED vars
  BY DEF Question, AskKnowing, R!Ask, R!Embed, R!FirstCount, R!SecondCount, R!Search,
         R!StoreRaises, vars, database, worker
<1>3. ASSUME NEW u \in Users, AskKnowing(q, u) PROVE QuestionInv'
  <2>1. /\ ask' \in [Questions -> Asked]
        /\ \A p \in Questions : p # q => ask'[p] = ask[p]
        /\ ask'[q].step = "embed" /\ ask'[q].user = u
        /\ ask'[q].found = {} /\ ask'[q].outcome = "none"
    BY <1>1, <1>3, AskValue DEF AskKnowing
  <2>2. Polled(u) \subseteq Docs
    BY DEF Polled
  <2>3. /\ known' \in [Questions -> SUBSET Docs] /\ known'[q] = Polled(u)
        /\ \A p \in Questions : p # q => known'[p] = known[p]
    BY <1>1, <1>3, <2>2 DEF AskKnowing, AskTypeOK
  <2>4. ASSUME NEW d \in Polled(u) PROVE Owner[d] = u /\ (Indexed(d) \/ d \in purged)
    <3>1. d \in Docs /\ PublicStatus(u, d) = "SUCCESS"
      BY <2>4 DEF Polled
    <3>2. Owner[d] = u /\ job[d].status = "SUCCESS"
      BY <3>1 DEF PublicStatus, Settled
    <3> QED BY <3>1, <3>2 DEF SearchInv, SuccessIsIndexed
  <2>5. KnownInv(q)'
    BY <1>2, <2>1, <2>3, <2>4 DEF KnownInv, Indexed, vars
  <2>6. CountInv(q)' /\ FoundInv(q)'
    BY <2>1 DEF CountInv, FoundInv
  <2> QED BY <1>2, <2>1, <2>3, <2>5, <2>6, QuestionFrame
<1>4. UNCHANGED known \/ \E u \in Users : AskKnowing(q, u)
  BY DEF Question
<1> DEFINE C == vectors[ask[q].user]
           m == Cardinality(C)
<1>5. ASSUME ask[q].step # "idle"
      PROVE  /\ Dependable(q) \subseteq C /\ IsFiniteSet(C) /\ m \in Nat
             /\ Cardinality(Dependable(q)) \in Nat /\ Cardinality(Dependable(q)) <= m
             /\ Wanted(q) \in Nat /\ Wanted(q) <= TopK /\ Wanted(q) <= m
  BY <1>1, <1>5, DependableIsThere DEF Wanted, R!Smaller
<1>6. ASSUME UNCHANGED known, R!Embed(q) PROVE QuestionInv'
  <2>1. ask[q].step = "embed"
    BY <1>6 DEF R!Embed, R!AskStep
  <2>2. CASE R!AskStep(q, "embed", "count")
    BY <1>1, <1>2, <1>6, <2>1, <2>2, AskStepValue, QuestionGoesOn
  <2>3. CASE R!Finish(q, "error", {})
    BY <1>2, <1>6, <2>1, <2>3, QuestionEnds DEF R!Outcomes
  <2> QED BY <1>6, <2>2, <2>3 DEF R!Embed
<1>7. ASSUME UNCHANGED known, R!FirstCount(q) PROVE QuestionInv'
  <2>1. ask[q].step = "count"
    BY <1>7 DEF R!FirstCount
  <2>2. CASE ask' = [ask EXCEPT ![q] = [@ EXCEPT !.step = "recount"]]
    <3>1. R!AskStep(q, "count", "recount")
      BY <2>1, <2>2 DEF R!AskStep
    <3> QED BY <1>1, <1>2, <1>7, <2>1, <3>1, AskStepValue, QuestionGoesOn
  <2>3. CASE C = {} /\ ask' = [ask EXCEPT ![q] = [@ EXCEPT !.step = "search", !.n = 1]]
    <3>1. Wanted(q) <= 1 /\ 1 <= TopK
      BY <1>5, <2>1, <2>3, FS_EmptySet
    <3> QED BY <1>1, <1>2, <1>7, <2>1, <2>3, <3>1, CountValue, QuestionGoesOn
  <2> QED BY <1>7, <2>2, <2>3 DEF R!FirstCount, R!Collection
<1>8. ASSUME UNCHANGED known, R!SecondCount(q) PROVE QuestionInv'
  <2> DEFINE n == R!Smaller(TopK, R!Cardinality(C))
  <2>1. /\ ask[q].step = "recount"
        /\ ask' = [ask EXCEPT ![q] = [@ EXCEPT !.step = "search", !.n = n]]
    BY <1>8, Zenon DEF R!SecondCount, R!Collection
  <2> HIDE DEF C
  <2>2. n \in Nat /\ n <= TopK /\ Wanted(q) <= n
    BY <1>5, <2>1, SameCount DEF R!Smaller
  <2> HIDE DEF n
  <2>3. /\ ask' \in [Questions -> Asked]
        /\ \A p \in Questions : p # q => ask'[p] = ask[p]
        /\ ask'[q].step = "search" /\ ask'[q].user = ask[q].user
        /\ ask'[q].n = n /\ ask'[q].found = ask[q].found
        /\ ask'[q].outcome = ask[q].outcome
    BY <1>1, <2>1, <2>2, CountValue
  <2> QED BY <1>2, <1>8, <2>1, <2>2, <2>3, QuestionGoesOn
<1>9. ASSUME UNCHANGED known, R!Search(q) PROVE QuestionInv'
  <2>1. /\ ask[q].step = "search" /\ ask[q].n \in Nat /\ ask[q].n <= TopK
        /\ Wanted(q) <= ask[q].n
    BY <1>1, <1>9 DEF R!Search, CountInv, Asked
  <2>2. ASSUME NEW S \in SUBSET C, Cardinality(S) = R!Smaller(ask[q].n, m),
               R!Finish(q, "found", S)
        PROVE  QuestionInv'
    <3>1. Cardinality(S) <= TopK /\ Wanted(q) <= Cardinality(S)
      BY <1>5, <2>1, <2>2 DEF R!Smaller
    <3> QED BY <1>2, <1>9, <2>1, <2>2, <3>1, QuestionEnds DEF R!Outcomes
  <2>3. CASE ask[q].n = 0 /\ R!Finish(q, "found", {})
    <3>1. Cardinality({}) <= TopK /\ Wanted(q) <= Cardinality({})
      BY <2>1, <2>3, FS_EmptySet
    <3> QED BY <1>2, <1>9, <2>1, <2>3, <3>1, QuestionEnds DEF R!Outcomes
  <2>4. \/ \E S \in SUBSET C : /\ R!Cardinality(S) = R!Smaller(ask[q].n, R!Cardinality(C))
                               /\ R!Finish(q, "found", S)
        \/ ask[q].n = 0 /\ R!Finish(q, "found", {})
    BY <1>9, Zenon DEF R!Search, R!Collection
  <2> HIDE DEF C
  <2> QED BY <2>2, <2>3, <2>4, SameCount
<1>10. ASSUME UNCHANGED known, R!StoreRaises(q) PROVE QuestionInv'
  BY <1>2, <1>10, QuestionEnds DEF R!StoreRaises, R!Outcomes
<1> QED BY <1>3, <1>4, <1>6, <1>7, <1>8, <1>9, <1>10 DEF Question

LEMMA KBInvariant ==
    KBSpec => [](TypeOK /\ SearchInv /\ RecordInv /\ StoreInv /\ BegunInv /\ QuestionInv)
<1> DEFINE Inv == StoreInv /\ BegunInv /\ QuestionInv
<1>1. KBInit => Inv
  BY StoreInit, BegunInit, QuestionInit DEF KBInit
<1>2. TypeOK /\ SearchInv /\ RecordInv /\ Inv /\ [KBNext]_kbVars => Inv'
  <2> SUFFICES ASSUME TypeOK, SearchInv, RecordInv, Inv, [KBNext]_kbVars PROVE Inv' OBVIOUS
  <2>1. CASE Change
    BY <2>1, StoreFinite, BegunStep, QuestionChange DEF Change
  <2>2. ASSUME NEW q \in Questions, Question(q) PROVE Inv'
    <3>1. UNCHANGED vars
      BY <2>2 DEF Question, AskKnowing, R!Ask, R!Embed, R!FirstCount, R!SecondCount, R!Search,
                  R!StoreRaises, vars, database, worker
    <3> QED BY <2>2, <3>1, StoreFinite, BegunStep, QuestionStep
  <2>3. CASE UNCHANGED kbVars
    BY <2>3, StoreFinite, BegunStep, QuestionChange DEF kbVars
  <2> QED BY <2>1, <2>2, <2>3 DEF KBNext
<1> HIDE DEF Inv
<1>3. KBSpec => []Inv
  BY <1>1, <1>2, IngestionInvariant, PTL DEF KBSpec
<1>4. Inv => StoreInv /\ BegunInv /\ QuestionInv
  BY DEF Inv
<1> QED BY <1>3, <1>4, IngestionInvariant, PTL

\* A question that is asked after a SUCCESS was polled finds TopK chunks or
\* as many as its user can count on, for any number of workers, deletions and
\* other questions beside it, and whatever crashes, fails or is delivered
\* twice, as long as the store answers.
THEOREM SuccessesAreRetrieved == KBSpec => []SuccessIsRetrieved
<1>1. QuestionInv => SuccessIsRetrieved
  BY DEF QuestionInv, CountInv, SuccessIsRetrieved, Wanted
<1> QED BY <1>1, KBInvariant, PTL

\* No question ever finds a chunk of another user, or of a document whose
\* ingestion was never begun.
THEOREM OnlyOwnDocumentsAreFound == KBSpec => []FindsOwnDocuments
<1>1. QuestionInv => FindsOwnDocuments
  BY DEF QuestionInv, FoundInv, FindsOwnDocuments, Begun, Taken
<1> QED BY <1>1, KBInvariant, PTL

-----------------------------------------------------------------------------
(* Retrieval in three calls implements retrieval in one step.              *)

\* The abstract answer, for the state function that Outcome is.
LEMMA AtomicAnswer ==
    ASSUME AskTypeOK, NEW q \in Questions, UNCHANGED vectors,
           \A p \in Questions : p # q => ask'[p] = ask[p],
           ask'[q].user = ask[q].user, ask[q].user \in Users,
           Outcome(q) = "pending",
           NEW o \in {"chunks", "nothing", "outage", "error"}, Outcome(q)' = o,
           o = "chunks" => vectors[ask[q].user] # {},
           o = "nothing" => vectors[ask[q].user] = {},
           o = "outage" => "chroma" \in Faults
    PROVE  Atomic!Next
<1> DEFINE stocked == {u \in Users : vectors[u] # {}}
           user == [p \in Questions |-> ask[p].user]
           outcome == [p \in Questions |-> Outcome(p)]
<1>1. stocked' = stocked /\ user' = user
  OBVIOUS
<1>2. \A p \in Questions : p # q => Outcome(p)' = Outcome(p)
  BY DEF Outcome
<1>3. outcome' = [outcome EXCEPT ![q] = o]
  BY <1>2
<1>4. outcome[q] = "pending" /\ user[q] = ask[q].user
  OBVIOUS
<1>5. (user[q] \in stocked) <=> (vectors[ask[q].user] # {})
  BY <1>4
<1>6. Atomic!Answer(q)
  <2> HIDE DEF stocked, user, outcome
  <2>1. /\ outcome[q] = "pending"
        /\ o = "chunks" => user[q] \in stocked
        /\ o = "nothing" => user[q] \notin stocked
        /\ o = "outage" => "chroma" \in Faults
        /\ outcome' = [outcome EXCEPT ![q] = o]
        /\ UNCHANGED <<stocked, user>>
    BY <1>1, <1>3, <1>4, <1>5
  <2> QED BY <2>1 DEF Atomic!Answer, stocked, user, outcome
<1> QED BY <1>6 DEF Atomic!Next

LEMMA AtomicStutter ==
    ASSUME NEW q \in Questions, UNCHANGED vectors,
           \A p \in Questions : p # q => ask'[p] = ask[p],
           ask'[q].user = ask[q].user, Outcome(q)' = Outcome(q)
    PROVE  UNCHANGED Atomic!vars
<1>1. \A p \in Questions : Outcome(p)' = Outcome(p) /\ ask'[p].user = ask[p].user
  BY DEF Outcome
<1> QED BY <1>1 DEF Atomic!vars

LEMMA AtomicAsk ==
    ASSUME AskTypeOK, NEW q \in Questions, NEW u \in Users, R!Ask(q, u)
    PROVE  Atomic!Next
<1> DEFINE stocked == {v \in Users : vectors[v] # {}}
           user == [p \in Questions |-> ask[p].user]
           outcome == [p \in Questions |-> Outcome(p)]
<1>1. /\ \A p \in Questions : p # q => ask'[p] = ask[p]
      /\ ask[q].step \in {"idle", "done"}
      /\ ask'[q].step = "embed" /\ ask'[q].user = u
  BY AskValue
<1>2. UNCHANGED vectors
  BY DEF R!Ask
<1>3. Outcome(q) # "pending" /\ Outcome(q)' = "pending"
  BY <1>1 DEF Outcome
<1>4. \A p \in Questions : p # q => Outcome(p)' = Outcome(p) /\ ask'[p].user = ask[p].user
  BY <1>1 DEF Outcome
<1>5. user' = [user EXCEPT ![q] = u] /\ outcome' = [outcome EXCEPT ![q] = "pending"]
  BY <1>1, <1>3, <1>4
<1>6. outcome[q] # "pending" /\ stocked' = stocked
  BY <1>2, <1>3
<1>7. Atomic!Ask(q, u)
  <2> HIDE DEF stocked, user, outcome
  <2> QED BY <1>5, <1>6 DEF Atomic!Ask, stocked, user, outcome
<1> QED BY <1>7 DEF Atomic!Next

LEMMA AtomicStep ==
    ASSUME TypeOK, StoreInv, QuestionInv, NEW q \in Questions, Question(q)
    PROVE  Atomic!Next \/ UNCHANGED Atomic!vars
<1> USE DEF R!Steps
<1>1. AskTypeOK /\ KnownInv(q) /\ ask[q] \in Asked
  BY DEF QuestionInv, AskTypeOK
<1>2. CASE \E u \in Users : AskKnowing(q, u)
  BY <1>1, <1>2, AtomicAsk DEF AskKnowing
<1> DEFINE C == vectors[ask[q].user]
<1>3. ASSUME ask[q].step # "idle"
      PROVE  /\ ask[q].user \in Users /\ IsFiniteSet(C) /\ Cardinality(C) \in Nat
             /\ Cardinality(C) = 0 <=> C = {}
  <2>1. ask[q].user \in Users
    BY <1>1, <1>3 DEF KnownInv
  <2>2. IsFiniteSet(C)
    BY <2>1 DEF StoreInv
  <2> QED BY <2>1, <2>2, FS_EmptySet, FS_CardinalityType
<1>4. CASE R!Embed(q)
  <2>1. ask[q].step = "embed" /\ UNCHANGED vectors /\ Outcome(q) = "pending"
    BY <1>4 DEF R!Embed, R!AskStep, Outcome
  <2>2. CASE R!AskStep(q, "embed", "count")
    <3>1. Outcome(q)' = "pending"
      BY <1>1, <2>2, AskStepValue DEF Outcome
    <3> QED BY <1>1, <2>1, <2>2, <3>1, AskStepValue, AtomicStutter
  <2>3. CASE R!Finish(q, "error", {})
    <3>1. /\ \A p \in Questions : p # q => ask'[p] = ask[p]
          /\ ask'[q].step = "done" /\ ask'[q].user = ask[q].user /\ ask'[q].outcome = "error"
      BY <1>1, <2>3, FinishValue DEF R!Outcomes
    <3>2. Outcome(q)' = "error"
      BY <3>1 DEF Outcome
    <3> QED BY <1>1, <1>3, <2>1, <3>1, <3>2, AtomicAnswer
  <2> QED BY <1>4, <2>2, <2>3 DEF R!Embed
<1>5. CASE R!FirstCount(q)
  <2>1. ask[q].step = "count" /\ UNCHANGED vectors /\ Outcome(q) = "pending"
    BY <1>5 DEF R!FirstCount, Outcome
  <2>2. CASE ask' = [ask EXCEPT ![q] = [@ EXCEPT !.step = "recount"]]
    <3>1. R!AskStep(q, "count", "recount")
      BY <2>1, <2>2 DEF R!AskStep
    <3>2. Outcome(q)' = "pending"
      BY <1>1, <3>1, AskStepValue DEF Outcome
    <3> QED BY <1>1, <2>1, <3>1, <3>2, AskStepValue, AtomicStutter
  <2>3. CASE ask' = [ask EXCEPT ![q] = [@ EXCEPT !.step = "search", !.n = 1]]
    <3>1. /\ \A p \in Questions : p # q => ask'[p] = ask[p]
          /\ ask'[q].step = "search" /\ ask'[q].user = ask[q].user /\ ask'[q].n = 1
      BY <1>1, <2>3, CountValue
    <3>2. Outcome(q)' = "pending"
      BY <3>1 DEF Outcome
    <3> QED BY <2>1, <3>1, <3>2, AtomicStutter
  <2> QED BY <1>5, <2>2, <2>3 DEF R!FirstCount
<1>6. CASE R!SecondCount(q)
  <2> DEFINE n == R!Smaller(TopK, R!Cardinality(C))
  <2>1. /\ ask[q].step = "recount" /\ UNCHANGED vectors
        /\ ask' = [ask EXCEPT ![q] = [@ EXCEPT !.step = "search", !.n = n]]
    BY <1>6, Zenon DEF R!SecondCount, R!Collection
  <2>2. Outcome(q) = "pending"
    BY <2>1 DEF Outcome
  <2>3. n \in Nat /\ (n = 0 <=> C = {})
    <3> HIDE DEF C
    <3> QED BY <1>3, <2>1, SameCount DEF R!Smaller
  <2> HIDE DEF n
  <2>4. /\ \A p \in Questions : p # q => ask'[p] = ask[p]
        /\ ask'[q].step = "search" /\ ask'[q].user = ask[q].user /\ ask'[q].n = n
    BY <1>1, <2>1, <2>3, CountValue
  <2>5. CASE n = 0
    <3>1. Outcome(q)' = "nothing"
      BY <2>4, <2>5 DEF Outcome
    <3> QED BY <1>1, <1>3, <2>1, <2>2, <2>3, <2>4, <2>5, <3>1, AtomicAnswer
  <2>6. CASE n # 0
    <3>1. Outcome(q)' = "pending"
      BY <2>4, <2>6 DEF Outcome
    <3> QED BY <2>1, <2>2, <2>4, <3>1, AtomicStutter
  <2> QED BY <2>5, <2>6
<1>7. CASE R!Search(q)
  <2>1. ask[q].step = "search" /\ UNCHANGED vectors /\ ask[q].n \in Nat
    BY <1>1, <1>7 DEF R!Search, Asked
  <2>2. ask[q].user \in Users /\ C \subseteq Docs \X Nat
    BY <1>3, <2>1 DEF TypeOK
  <2>3. ASSUME NEW S \in SUBSET C, R!Finish(q, "found", S)
        PROVE  /\ \A p \in Questions : p # q => ask'[p] = ask[p]
               /\ ask'[q].user = ask[q].user
               /\ Outcome(q)' = IF S = {} THEN "nothing" ELSE "chunks"
    <3>1. /\ \A p \in Questions : p # q => ask'[p] = ask[p]
          /\ ask'[q].step = "done" /\ ask'[q].user = ask[q].user
          /\ ask'[q].outcome = "found" /\ ask'[q].found = S
      BY <1>1, <2>2, <2>3, FinishValue DEF R!Outcomes
    <3> QED BY <3>1 DEF Outcome
  <2>4. ASSUME ask[q].n > 0, NEW S \in SUBSET C,
               R!Cardinality(S) = R!Smaller(ask[q].n, R!Cardinality(C)), R!Finish(q, "found", S)
        PROVE  Atomic!Next
    <3>1. Outcome(q) = "pending"
      BY <2>1, <2>4 DEF Outcome
    <3>2. S = {} <=> C = {}
      <4> HIDE DEF C
      <4>1. Cardinality(S) = R!Smaller(ask[q].n, Cardinality(C))
        BY <2>4, SameCount
      <4>2. IsFiniteSet(S)
        BY <1>3, <2>1, FS_Subset
      <4>3. Cardinality(S) = 0 <=> S = {}
        BY <4>2, FS_EmptySet
      <4>4. Cardinality(S) = 0 <=> Cardinality(C) = 0
        BY <1>3, <2>1, <2>4, <4>1 DEF R!Smaller
      <4> QED BY <1>3, <2>1, <4>3, <4>4
    <3>3. CASE S = {}
      BY <1>1, <2>1, <2>2, <2>3, <2>4, <3>1, <3>2, <3>3, AtomicAnswer
    <3>4. CASE S # {}
      BY <1>1, <2>1, <2>2, <2>3, <2>4, <3>1, <3>2, <3>4, AtomicAnswer
    <3> QED BY <3>3, <3>4
  <2>5. CASE ask[q].n = 0 /\ R!Finish(q, "found", {})
    <3>1. Outcome(q) = "nothing"
      BY <2>1, <2>5 DEF Outcome
    <3> QED BY <2>1, <2>3, <2>5, <3>1, AtomicStutter
  <2>6. \/ /\ ask[q].n > 0
           /\ \E S \in SUBSET C : /\ R!Cardinality(S) = R!Smaller(ask[q].n, R!Cardinality(C))
                                  /\ R!Finish(q, "found", S)
        \/ ask[q].n = 0 /\ R!Finish(q, "found", {})
    BY <1>7, Zenon DEF R!Search, R!Collection
  <2> HIDE DEF C
  <2> QED BY <2>4, <2>5, <2>6
<1>8. CASE R!StoreRaises(q)
  <2>1. /\ ask[q].step \in {"count", "recount", "search"} /\ UNCHANGED vectors
        /\ ask[q].step = "search" => ask[q].n > 0
        /\ "chroma" \in Faults /\ R!Finish(q, "raised", {})
    BY <1>8 DEF R!StoreRaises
  <2>2. Outcome(q) = "pending"
    <3>1. ask[q].step = "search" => ask[q].n # 0
      BY <1>1, <2>1 DEF Asked
    <3> QED BY <2>1, <3>1 DEF Outcome
  <2>3. /\ \A p \in Questions : p # q => ask'[p] = ask[p]
        /\ ask'[q].step = "done" /\ ask'[q].user = ask[q].user /\ ask'[q].outcome = "raised"
    BY <1>1, <2>1, FinishValue DEF R!Outcomes
  <2>4. Outcome(q)' = "outage"
    BY <2>3 DEF Outcome
  <2> QED BY <1>1, <1>3, <2>1, <2>2, <2>3, <2>4, AtomicAnswer
<1> QED BY <1>2, <1>4, <1>5, <1>6, <1>7, <1>8 DEF Question

\* Counting twice and searching after that is as good as one look at the
\* collection, although ingestion and deletion run in between.
THEOREM RetrievalIsAtomic == KBSpec => RetrievesAtomically
<1>1. KBInit => Atomic!Init
  BY DEF KBInit, Init, R!AskInit, R!NoQuestion, Atomic!Init, Outcome
<1>2. TypeOK /\ StoreInv /\ QuestionInv /\ [KBNext]_kbVars => [Atomic!Next]_(Atomic!vars)
  <2> SUFFICES ASSUME TypeOK, StoreInv, QuestionInv, [KBNext]_kbVars
               PROVE  Atomic!Next \/ UNCHANGED Atomic!vars
    OBVIOUS
  <2>1. ASSUME UNCHANGED ask PROVE Atomic!Next
    <3>1. \A p \in Questions : Outcome(p)' = Outcome(p)
      BY <2>1 DEF Outcome
    <3>2. Atomic!Restock
      BY <2>1, <3>1 DEF Atomic!Restock
    <3> QED BY <3>2 DEF Atomic!Next
  <2> QED BY <2>1, AtomicStep DEF KBNext, Change, kbVars
<1> QED BY <1>1, <1>2, KBInvariant, PTL DEF KBSpec, RetrievesAtomically, Atomic!Spec
=============================================================================
