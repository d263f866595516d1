\* A stream whose language model raises.
SPECIFICATION Spec
CONSTANTS
    Users = {alice}
    Requests = {q1}
    Convs = {c1}
    WebWorkers = 1
    Credits = 1
    HistoryTurns = 2
    TokenCounts = {1}
    NoUser = NoUser
    NoConv = NoConv
    NoRequest = NoRequest
    Faults = {"llm"}
INVARIANT ModelErrorIs502
