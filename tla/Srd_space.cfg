SPECIFICATION FairSpec
CONSTANTS
    Paths = {p1, p2}
    DiskSize = 3
    ReservedSpace = 1
    Workers = {w1}
    Clients = {c1}
    Requests <- MCRequests
    InitCapacity = 2
    SRD_MAX_PER_TURN = 2
    SRD_NUMBER_UPPER_LIMIT = 3
    SRD_VALIDATE_MIN_NUM = 1
    ValidateDiv = 2
    SRD_PUNISH_FACTOR = 2
    MaxRequests = 1
    MaxOther = 1
    MaxFaults = 1
INVARIANTS TypeOK InfoCoversSrd
CHECK_DEADLOCK FALSE
PROPERTIES DecreaseIsTight ReserveRestored MainLoopTurns
