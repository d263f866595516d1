\* Two workers receive the same message; no other fault.
SPECIFICATION Spec
CONSTANTS
    alice = alice
    bob = bob
    d1 = d1
    Users = {alice, bob}
    Docs = {d1}
    Workers = {w1, w2}
    Requests = {r1}
    Owner <- OneOwner
    NChunks <- TwoChunks
    NoUser = NoUser
    NoDoc = NoDoc
    Faults = {"redelivery"}
PROPERTY SettledIsFinal
