\* The smallest instance: one deposit, one owner, a relayer without faults.
SPECIFICATION SdkDepositsSpec
CHECK_DEADLOCK FALSE
CONSTANTS
    DestinationChain = {"Sei"}
    ChainOwner = {"o1"}
    RecoveryAddress <- MCRecoveryAddress
    DepositWallet = {"w1"}
    InputList <- MCInputList
    DepositValue = 5
    FundingFee = 1
    RefundFee = 1
    RefundDuration = 2
    RevealAhead = 1
    MedianTimeLag = 1
    MaxSdkTime = 2
    MaxLocktime = 3
    MaxDeposits = 1
    RelayerRetries = 1
    MaxRelayerFaults = 0
INVARIANT OwnerInExtraDataUsable
