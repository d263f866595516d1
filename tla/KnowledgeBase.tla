--------------------------- MODULE KnowledgeBase ---------------------------
(***************************************************************************)
(* Questions beside ingestion and deletion: the collections that Retrieval *)
(* counts and searches are those that the workers and the delete requests  *)
(* of Ingestion write, and nothing orders the one against the other.       *)
(***************************************************************************)
EXTENDS IngestionProperties

CONSTANTS
    Questions,  \* the web workers that serve questions
    TopK        \* RETRIEVAL_TOP_K

ASSUME TopKAssumption == TopK \in Nat \ {0}

VARIABLES
    ask,        \* see Retrieval
    known       \* history: known[q], the documents whose SUCCESS the user of
                \*   q could poll when q was asked

R == INSTANCE Retrieval WITH MayRaise <- "chroma" \in Faults

kbVars == <<vars, ask, known>>

KBInit == Init /\ R!AskInit /\ known = [q \in Questions |-> {}]

Polled(u) == {d \in Docs : PublicStatus(u, d) = "SUCCESS"}

AskKnowing(q, u) ==
    /\ R!Ask(q, u)
    /\ known' = [known EXCEPT ![q] = Polled(u)]

\* A step of ingestion or deletion.
Change == Next /\ UNCHANGED <<ask, known>>

\* A step of a question.
Question(q) ==
    /\ \/ \E u \in Users : AskKnowing(q, u)
       \/ /\ \/ R!Embed(q) \/ R!FirstCount(q) \/ R!SecondCount(q)
             \/ R!Search(q) \/ R!StoreRaises(q)
          /\ UNCHANGED known
    /\ UNCHANGED <<upload, files, database, queue, worker, req, purged>>

KBNext == Change \/ \E q \in Questions : Question(q)

KBSpec == KBInit /\ [][KBNext]_kbVars

-----------------------------------------------------------------------------
\* The chunks a question can count on: those of documents whose SUCCESS the
\* user could see when asking and that nobody has asked to delete yet.
Dependable(q) == UNION {ChunkIds(d) : d \in known[q] \ purged}

\* Read your own uploads: a question that is asked after a SUCCESS was polled
\* gets TopK chunks, or as many as its user can count on, although the two
\* counts and the search see three different collections, whatever is
\* indexed, deleted, delivered twice or killed meanwhile. Only a store that
\* raises comes in between. (rag/vectorstore.py:148-153, rag/retrieval.py:45-77)
SuccessIsRetrieved ==
    \A q \in Questions :
        ask[q].outcome = "found" =>
            /\ Cardinality(ask[q].found) <= TopK
            /\ Cardinality(ask[q].found) >= R!Smaller(TopK, Cardinality(Dependable(q)))

\* "user B's documents are never retrieved or referenced"
\* (openspec/specs/rag-chat/spec.md:16-18): whatever a question finds are
\* chunks of its user's documents, and of no document whose job is still
\* PENDING or gone without a deletion. (rag/retrieval.py:48-49)
FindsOwnDocuments ==
    \A q \in Questions : \A c \in ask[q].found :
        /\ Owner[c[1]] = ask[q].user
        /\ job[c[1]].status # "PENDING"
        /\ ~HasJob(c[1]) => c[1] \in purged

-----------------------------------------------------------------------------
\* The abstract question is answered by the search, or already by the second
\* count if that is 0: then the result is empty whatever is indexed since.
Outcome(q) ==
    IF ask[q].step = "idle" THEN "none"
    ELSE IF ask[q].step = "done"
    THEN CASE ask[q].outcome = "error"  -> "error"
           [] ask[q].outcome = "raised" -> "outage"
           [] OTHER -> IF ask[q].found = {} THEN "nothing" ELSE "chunks"
    ELSE IF ask[q].step = "search" /\ ask[q].n = 0 THEN "nothing" ELSE "pending"

Atomic == INSTANCE AtomicRetrieval
              WITH MayRaise <- "chroma" \in Faults,
                   stocked <- {u \in Users : vectors[u] # {}},
                   user <- [q \in Questions |-> ask[q].user],
                   outcome <- [q \in Questions |-> Outcome(q)]

\* Three calls to the store are as good as one look at the collection: "no
\* chunks" was true at some moment of the question. So the one step that
\* module Chat takes for retrieval is enough. (rag/vectorstore.py:148-153)
RetrievesAtomically == Atomic!Spec
=============================================================================
