SPECIFICATION Spec
CONSTANTS
    Clients = {c1, c2}
    ServiceBuf = 256
    Protocols = {"UDP_IPv4", "UDP_IPv6"}
    NameLens = {0, 9}
    MaxWire = 2
SYMMETRY ClientSymmetry
INVARIANTS
    TypeOK
    Accounting
    AlwaysAnswered
    SameSize
    ArrivesAsBuilt
    AnswersRequest
