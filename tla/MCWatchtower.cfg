\* One wallet with one redemption key, two redeemers, three guardians.
SPECIFICATION WatchedSpec
SYMMETRY MCInterchangeable
CHECK_DEADLOCK FALSE
CONSTANTS
    Guardian = {g1, g2, g3}
    InitialWatchtowerParameters <- MCInitialParameters
    WatchtowerParameters <- MCParameters
    Wallet = {w1}
    NoWallet = NoWallet
    User = {u1, u2}
    NoUser = NoUser
    Vault = {}
    NoVault = NoVault
    BridgeAccount = Bridge
    Treasury = Treasury
    Watchtower = Watchtower
    TransferAmount = {}
    Script = {s1}
    DepositKey = {d1}
    DepositAmount = {4}
    MaxTime = 3
    WalletCreationPeriod = 1
    WalletCreationMinBtcBalance = 1
    WalletCreationMaxBtcBalance = 4
    WalletClosureMinBtcBalance = 1
    WalletMaxAge = 4
    WalletClosingPeriod = 1
    WalletMaxBtcTransfer = 2
    MovingFundsTxMaxTotalFee = 1
    MovingFundsDustThreshold = 1
    MovingFundsTimeoutResetDelay = 1
    MovingFundsTimeout = 2
    MovedFundsSweepTxMaxTotalFee = 1
    MovedFundsSweepTimeout = 1
    RedemptionDustThreshold = 2
    RedemptionTreasuryFeeDivisor = 0
    RedemptionTxMaxFee = 1
    RedemptionTxMaxTotalFee = 1
    RedemptionTimeout = 1
    DepositDustThreshold = 2
    DepositTreasuryFeeDivisor = 0
    DepositTxMaxFee = 1
    Sighash = {}
    FraudChallengeDefeatTimeout = 1
INVARIANTS
    DetainedFundsHeld
    ObjectionsCountExact
    ObjectionsConcernPending
PROPERTIES
    ReleasedRequestsStayReleased
