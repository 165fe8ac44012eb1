CONSTANTS
    NumEndpoints = 3
    OnChain = {1, 3}
    Depth = 2
    MaxFaults = 2
    MaxBlock = 3
    Nobody = Nobody
    Accounts = {1, 2, 3}
    Slots = {1, 2, 3}
    Probes <- CollidingProbes
    Fingerprint <- OneFingerprint
    KeyTag <- TwoTags
    MaxBalance = 2
    Amounts = {0, 1, 2}
    Deliverable <- ShortBlocks
SPECIFICATION Spec
INVARIANTS WindowBounded AppliedIsTheChain ScansAgree
PROPERTIES EveryBlockIsApplied ImplementsMap
CHECK_DEADLOCK FALSE
