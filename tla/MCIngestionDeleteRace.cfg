\* A delete request beside the worker that ingests the document; no fault.
SPECIFICATION Spec
CONSTANTS
    alice = alice
    bob = bob
    d1 = d1
    Users = {alice, bob}
    Docs = {d1}
    Workers = {w1}
    Requests = {r1}
    Owner <- OneOwner
    NChunks <- TwoChunks
    NoUser = NoUser
    NoDoc = NoDoc
    Faults = {}
INVARIANT DeletedIsNotSearchable
