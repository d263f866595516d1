----------------------------- MODULE Retrieval -----------------------------
(***************************************************************************)
(* A question's way through the user's collection: retrieve of             *)
(* rag/retrieval.py and query of rag/vectorstore.py. The store is called   *)
(* three times, for two counts and the search, and ingestion and deletion  *)
(* may change the collection between the calls.                            *)
(***************************************************************************)
EXTENDS Naturals, FiniteSets

CONSTANTS
    Users, NoUser,
    Questions,  \* the web workers that serve questions
    TopK,       \* RETRIEVAL_TOP_K
    MayRaise    \* TRUE if calls to the store may raise

VARIABLES
    vectors,    \* vectors[u]: the chunks in the collection user_<u>
    ask         \* ask[q]: the local state of question q

Steps    == {"idle", "embed", "count", "recount", "search", "done"}
Outcomes == {"none", "found", "raised", "error"}

\* `n' is n_results, `found' the chunks that retrieve returns. A store that
\* raised and one without chunks look the same to the caller; `outcome' tells
\* them apart for the properties only.
NoQuestion == [step |-> "idle", user |-> NoUser, n |-> 0, found |-> {},
               outcome |-> "none"]

Collection(q) == vectors[ask[q].user]

Smaller(m, n) == IF m <= n THEN m ELSE n

AskInit == ask = [q \in Questions |-> NoQuestion]

AskStep(q, from, to) ==
    /\ ask[q].step = from
    /\ ask' = [ask EXCEPT ![q] = [@ EXCEPT !.step = to]]

Finish(q, outcome, found) ==
    ask' = [ask EXCEPT ![q] = [@ EXCEPT !.step = "done", !.n = 0,
                                  !.outcome = outcome, !.found = found]]

\* retrieve is called, by a worker that has answered its last question.
Ask(q, u) ==
    /\ ask[q].step \in {"idle", "done"}
    /\ ask' = [ask EXCEPT ![q] = [NoQuestion EXCEPT !.step = "embed", !.user = u]]
    /\ UNCHANGED vectors

\* get_embeddings().embed_query; its exception leaves retrieve and becomes a
\* 502. get_or_create_collection changes nothing that is counted or found.
Embed(q) ==
    /\ \/ AskStep(q, "embed", "count")
       \/ ask[q].step = "embed" /\ Finish(q, "error", {})
    /\ UNCHANGED vectors

\* The condition of the conditional expression: collection.count() > 0. An
\* empty collection is searched for one result.
FirstCount(q) ==
    /\ ask[q].step = "count"
    /\ \/ /\ Collection(q) # {}
          /\ ask' = [ask EXCEPT ![q] = [@ EXCEPT !.step = "recount"]]
       \/ /\ Collection(q) = {}
          /\ ask' = [ask EXCEPT ![q] = [@ EXCEPT !.step = "search", !.n = 1]]
    /\ UNCHANGED vectors

\* Mutant: the number of results is one too small.
SecondCountExclusive(q) ==
    /\ ask[q].step = "recount"
    /\ ask' = [ask EXCEPT ![q] = [@ EXCEPT !.step = "search",
                  !.n = Smaller(TopK, Cardinality(Collection(q)) - 1)]]
    /\ UNCHANGED vectors

\* min(k, collection.count()): the collection may have been emptied since.
SecondCount(q) ==
    /\ ask[q].step = "recount"
    /\ ask' = [ask EXCEPT ![q] = [@ EXCEPT !.step = "search",
                  !.n = Smaller(TopK, Cardinality(Collection(q)))]]
    /\ UNCHANGED vectors

\* Mutant: the search goes to a collection that all users share.
SearchShared(q) ==
    /\ ask[q].step = "search"
    /\ LET all == UNION {vectors[u] : u \in Users} IN
       \/ /\ ask[q].n > 0
          /\ \E S \in SUBSET all :
                /\ Cardinality(S) = Smaller(ask[q].n, Cardinality(all))
                /\ Finish(q, "found", S)
       \/ ask[q].n = 0 /\ Finish(q, "found", {})
    /\ UNCHANGED vectors

\* Mutant: a store that refuses to return more chunks than it has.
SearchStrict(q) ==
    /\ ask[q].step = "search"
    /\ \/ /\ ask[q].n \in 1 .. Cardinality(Collection(q))
          /\ \E S \in SUBSET Collection(q) :
                Cardinality(S) = ask[q].n /\ Finish(q, "found", S)
       \/ ask[q].n \notin 1 .. Cardinality(Collection(q)) /\ Finish(q, "found", {})
    /\ UNCHANGED vectors

\* collection.query: the n nearest of the chunks that are there now. Chroma
\* refuses n = 0; retrieve turns the exception into an empty list.
Search(q) ==
    /\ ask[q].step = "search"
    /\ \/ /\ ask[q].n > 0
          /\ \E S \in SUBSET Collection(q) :
                /\ Cardinality(S) = Smaller(ask[q].n, Cardinality(Collection(q)))
                /\ Finish(q, "found", S)
       \/ ask[q].n = 0 /\ Finish(q, "found", {})
    /\ UNCHANGED vectors

\* Any of the three calls, or that of get_collection, raises; retrieve
\* catches it all and returns an empty list, as it does for n = 0.
StoreRaises(q) ==
    /\ MayRaise
    /\ ask[q].step \in {"count", "recount", "search"}
    /\ ask[q].step = "search" => ask[q].n > 0
    /\ Finish(q, "raised", {})
    /\ UNCHANGED vectors

AskNext(q) ==
    \/ \E u \in Users : Ask(q, u)
    \/ Embed(q) \/ FirstCount(q) \/ SecondCount(q) \/ Search(q) \/ StoreRaises(q)
=============================================================================
