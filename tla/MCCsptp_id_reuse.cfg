SPECIFICATION Spec
CONSTANTS
    Clients = {c1}
    TwoStepClients = {c1}
    UseTxTwoSteps = TRUE
    SeqMax = 2
    WaitLoop = 2
    PollMs = 50
    CycleMs = 1000
    MsgLife = 2
    MaxReq = 3
    MaxCopies = 1
    Faults = {"late", "sendFails"}
    c1 = c1
    c2 = c2
INVARIANTS
    Matched
