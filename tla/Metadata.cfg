SPECIFICATION Spec
CONSTANTS
    HashLength = 2
    Paths <- MCPaths
    Hashes <- MCHashes
    KeyPairs <- MCKeyPairs
    Accounts <- MCAccounts
    Heights = {310}
    Sizes = {7, 600}
    Statuses = {"1", "3"}
    INT_RANGE = 1000
    MaxHashes = 2
    MaxFiles = 2
INVARIANTS RestartGivesBack CopiesAgree
PROPERTIES UpgradeGivesWork
