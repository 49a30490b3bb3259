SPECIFICATION FairSpec
CONSTANTS
    Accounts <- MCAccounts
    QuoteTries = 1
    IasTries = 2
    PostTries = 2
    MaxStarts = 3
    MaxOutages = 1
INVARIANTS TypeOK RunningIsRegistered EvidenceIsForKey
PROPERTIES OneKeyPerLife 
CHECK_DEADLOCK FALSE
