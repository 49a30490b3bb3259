SPECIFICATION FairSpec
CONSTANTS
    Threads = {t1, t2}
    Calls = {c}
    StartTries = 0
    MetaTries = 0
    CompleteTries = 1
    Tryout = 1
    MaxChanges = 1
    MaxLaunches = 2
INVARIANTS TakesOneWorkload IdleMeansOpen
PROPERTY UpgradeEnds
CHECK_DEADLOCK FALSE
