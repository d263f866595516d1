\* Three requests of one user, two at a time, every fault; prompts without history.
SPECIFICATION Spec
CONSTANTS
    Users = {alice}
    Requests = {q1, q2, q3}
    Convs = {c1, c2}
    WebWorkers = 2
    Credits = 2
    HistoryTurns = 0
    TokenCounts = {1, 3}
    NoUser = NoUser
    NoConv = NoConv
    NoRequest = NoRequest
    Faults = {"embedding", "chroma", "llm", "usage", "leave", "crash"}
SYMMETRY Symmetry
INVARIANTS
    TypeOK
    BalanceIsExact
    SpentIsStored
    OverdraftIsBounded
    BrokeNeverCallsModel
    TurnIsAllOrNothing
    ChargedTurnsAreContiguous
    LockIsHeldInTransaction
PROPERTIES
    AccountsFollowLedger
