SPECIFICATION Spec
CONSTANTS
    Workers = {w1}
    Ips = {0, 1}
    SeqIds = {1, 2}
    Times = {1, 2}
    HashSize = 1
    MaxNodes = 2
    MaxNow = 1
    MaxGap = 0
INVARIANT FetchRight
PROPERTY ImplementsMap
