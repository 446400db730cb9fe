\* One deposit, one redemption key and one wallet; timeouts of 2 blocks, reorganizations of 1.
SPECIFICATION MCSpec
CHECK_DEADLOCK FALSE
CONSTANTS
    ChainEvent <- MCChainEvent
    Amount <- MCAmount
    FundingHash <- MCFundingHash
    MinterLists <- MCMinterLists
    SupplyLevels = {100, 106, 112}
    MaxBlock = 5
    MaxLag = 1
    MaxReorgs = 1
    MaxFaults = 1
    MaxConfirmations = 1
    ReorgDepthBlocks = 1
    RedemptionRequestStaleBlocks = 3
    MintingRequestTimeoutBlocks = 2
    MintingFinalizationMargin = 1
    OptimisticMintingDelay = 11
    TotalSupplyBlockSpan = 2
    LargeDepositThresholdSat = 1000000000
    LargeRedemptionThresholdSat = 1000000000
INVARIANTS
    CheckpointCoversEvents
    OverdueReported
PROPERTIES
    RepeatedOnlyIfUnstored
    EventuallyAnnounced
