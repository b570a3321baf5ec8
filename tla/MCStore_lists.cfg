SPECIFICATION FairSpec
CONSTANTS
    Workers = {w1}
    Ips = {0, 1, 2, 4}
    SeqIds = {1}
    Times = {1}
    HashSize = 2
    MaxNodes = 3
    MaxNow = 1
    MaxGap = 0
INVARIANTS
    TypeOK
    ListsWellFormed
    CleanerOnList
    Swept
PROPERTIES
    CleanupSpares
    CleanupEnds
