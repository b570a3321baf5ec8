SPECIFICATION Spec
CONSTANTS
    MsecPerSec = 2
    NsecPerMsec = 2
    LowRange = 2
    HighRange = 1
    HalfWord = 8
    Hosts = {"h1"}
    MaxFds = 2
    Nics = {"eth0", "eth1"}
    Ptps = {0, 1}
    Ports = {319, 320}
    RxFilters = {"NONE", "PTP_V2_DELAY_REQ"}
    SecBound = 1
    ClockSecs = {0, 1}
    MsecBound = 5
    PhaseBound = 1
    Programs = {{"if", "sock"}, {"phc", "sock"}, {"phc", "ts"}, {"addr", "sock"}}
INVARIANTS
    TypeOK
    DescriptorsOwned
    WholeInterface
    Arithmetic
PROPERTIES
    HwStampsAsked
    ImplementsTimeLine
