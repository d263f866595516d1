\* One document, two workers and two delete requests, every fault.
SPECIFICATION Spec
CONSTANTS
    alice = alice
    bob = bob
    d1 = d1
    Users = {alice, bob}
    Docs = {d1}
    Workers = {w1, w2}
    Requests = {r1, r2}
    Owner <- OneOwner
    NChunks <- TwoChunks
    NoUser = NoUser
    NoDoc = NoDoc
    Faults = {"crash", "redelivery", "chroma", "broker"}
SYMMETRY Symmetry
INVARIANTS
    TypeOK
    SuccessIsSearchable
    VectorIsolation
    AcceptedIsPollable
    ListedHasFile
    DeletedIsGone
PROPERTY OnlyOwnerDeletes
