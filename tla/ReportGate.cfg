SPECIFICATION Spec
CONSTANTS
    ERA_LENGTH = 3
    WORKREPORT_REPORT_INTERVAL = 1
    LOWER_LIMIT = 1
    Modulus = 32
    MaxHeight = 10
    MaxCrashes = 1
INVARIANTS TypeOK EraOnce GateKnowsChain BuildHasProof
