SPECIFICATION FairSpec
CONSTANTS
    Clients = {c1}
    TwoStepClients = {c1}
    UseTxTwoSteps = TRUE
    SeqMax = 2
    WaitLoop = 1
    PollMs = 50
    CycleMs = 1000
    MsgLife = 1
    MaxReq = 2
    MaxCopies = 1
    Faults = {"late", "duplicates", "plainSync", "sendFails"}
    c1 = c1
    c2 = c2
INVARIANTS
    OnlyAnswers
PROPERTIES
    FlowEnds
