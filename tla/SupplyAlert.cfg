\* A run is cut short after the supply monitor has recorded its alert.
SPECIFICATION MCSpec
CHECK_DEADLOCK FALSE
CONSTANTS
    ChainEvent <- MCChainEvent
    Amount <- MCAmount
    FundingHash <- MCFundingHash
    MinterLists <- MCMinterLists
    SupplyLevels = {100, 106, 112}
    MaxBlock = 5
    MaxLag = 0
    MaxReorgs = 1
    MaxFaults = 1
    MaxConfirmations = 1
    ReorgDepthBlocks = 1
    RedemptionRequestStaleBlocks = 3
    MintingRequestTimeoutBlocks = 2
    MintingFinalizationMargin = 1
    OptimisticMintingDelay = 12
    TotalSupplyBlockSpan = 2
    LargeDepositThresholdSat = 1000000000
    LargeRedemptionThresholdSat = 1000000000
INVARIANTS
    RecordedSupplyAlertsDelivered
