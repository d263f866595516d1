\* Two users, two requests at a time; nothing is killed.
SPECIFICATION FairSpec
CONSTANTS
    Users = {alice, bob}
    Requests = {q1, q2}
    Convs = {c1, c2}
    WebWorkers = 2
    Credits = 1
    HistoryTurns = 1
    TokenCounts = {1, 2}
    NoUser = NoUser
    NoConv = NoConv
    NoRequest = NoRequest
    Faults = {"llm"}
INVARIANTS
    PromptIsOwnHistory
PROPERTIES
    EveryRequestIsReplied
