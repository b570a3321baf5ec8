SPECIFICATION FairSpec
CONSTANTS
    Clients = {c1, c2}
    TwoStepClients = {c1}
    UseTxTwoSteps = TRUE
    SeqMax = 2
    WaitLoop = 2
    PollMs = 50
    CycleMs = 1000
    MsgLife = 2
    MaxReq = 3
    MaxCopies = 1
    Faults = {}
    c1 = c1
    c2 = c2
INVARIANTS
    CycleKept
PROPERTIES
    Answered
