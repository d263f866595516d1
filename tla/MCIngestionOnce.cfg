\* Two users with a document each, one of them without text; processes crash,
\* the store and the broker fail, but the broker delivers every message at
\* most once.
SPECIFICATION HistorySpec
CONSTANTS
    alice = alice
    bob = bob
    d1 = d1
    d2 = d2
    Users = {alice, bob}
    Docs = {d1, d2}
    Workers = {w1}
    Requests = {r1}
    Owner <- TwoOwners
    NChunks <- OneEmpty
    NoUser = NoUser
    NoDoc = NoDoc
    Faults = {"crash", "chroma", "broker"}
INVARIANTS
    DocumentLagsJob
    QuietStatusAgrees
PROPERTIES
    SettledIsFinal
    SettledDeletionIsFinal
    FollowsLifecycle
    MessageIsWorkedOff
    AcceptedIsSettled
