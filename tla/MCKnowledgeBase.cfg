\* A user with two documents, another with none; one worker, a delete request
\* and a question at a time; any call to the vector store may raise.
SPECIFICATION KBSpec
CONSTANTS
    alice = alice
    bob = bob
    d1 = d1
    d2 = d2
    Users = {alice, bob}
    Docs = {d1, d2}
    Workers = {w1}
    Requests = {r1}
    Questions = {q1}
    TopK = 2
    Owner <- OneOwner
    NChunks <- TwoAndOne
    NoUser = NoUser
    NoDoc = NoDoc
    Faults = {"chroma"}
INVARIANTS
    SuccessIsRetrieved
    FindsOwnDocuments
PROPERTY RetrievesAtomically
