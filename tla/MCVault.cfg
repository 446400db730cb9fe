\* Two depositors, deposits and vaults, of which a scenario uses one or both.
SPECIFICATION ScenariosSpec
SYMMETRY MCSymmetry
CHECK_DEADLOCK FALSE
CONSTANTS
    Wallet = {w1}
    NoWallet = NoWallet
    User = {u1, u2}
    NoUser = NoUser
    Vault = {v1, v2}
    NoVault = NoVault
    BridgeAccount = Bridge
    Treasury = Treasury
    Watchtower = Watchtower
    TransferAmount = {}
    Script = {s1}
    DepositKey = {d1, d2}
    DepositAmount = {3}
    MaxTime = 2
    WalletCreationPeriod = 1
    WalletCreationMinBtcBalance = 1
    WalletCreationMaxBtcBalance = 4
    WalletClosureMinBtcBalance = 0
    WalletMaxAge = 9
    WalletClosingPeriod = 1
    WalletMaxBtcTransfer = 1
    MovingFundsTxMaxTotalFee = 1
    MovingFundsDustThreshold = 1
    MovingFundsTimeoutResetDelay = 1
    MovingFundsTimeout = 2
    MovedFundsSweepTxMaxTotalFee = 1
    MovedFundsSweepTimeout = 1
    RedemptionDustThreshold = 2
    RedemptionTreasuryFeeDivisor = 0
    RedemptionTxMaxFee = 1
    RedemptionTxMaxTotalFee = 1
    RedemptionTimeout = 1
    DepositDustThreshold = 2
    DepositTreasuryFeeDivisor = 0
    DepositTxMaxFee = 1
    Sighash = {}
    FraudChallengeDefeatTimeout = 1
    TBTCVault = v1
    SatoshiMultiplier = 2
    GovernanceDelay = 1
    InitialOptimisticMintingFeeDivisor = 4
    InitialOptimisticMintingDelay = 0
    Minter = {m1}
    Guardian = {g1}
    TokenAmount = {5}
    NewFeeDivisor = {0}
    NewDelay = {1}
    OtherVault = v2
INVARIANTS
    SupplyBacked
PROPERTIES
    ExcessDebtBounded
    BackingLossBounded
