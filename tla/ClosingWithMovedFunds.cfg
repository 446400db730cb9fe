\* A closing wallet may be left with moved funds to sweep.
SPECIFICATION Spec
SYMMETRY Interchangeable
CHECK_DEADLOCK FALSE
CONSTANTS
    Wallet = {w1, w2, w3}
    NoWallet = NoWallet
    User = {u1}
    NoUser = NoUser
    Vault = {}
    NoVault = NoVault
    BridgeAccount = Bridge
    Treasury = Treasury
    Watchtower = Watchtower
    TransferAmount = {}
    Script = {}
    DepositKey = {d1}
    DepositAmount = {3}
    MaxTime = 3
    WalletCreationPeriod = 1
    WalletCreationMinBtcBalance = 1
    WalletCreationMaxBtcBalance = 4
    WalletClosureMinBtcBalance = 1
    WalletMaxAge = 2
    WalletClosingPeriod = 1
    WalletMaxBtcTransfer = 1
    MovingFundsTxMaxTotalFee = 1
    MovingFundsDustThreshold = 1
    MovingFundsTimeoutResetDelay = 1
    MovingFundsTimeout = 2
    MovedFundsSweepTxMaxTotalFee = 1
    MovedFundsSweepTimeout = 1
    RedemptionDustThreshold = 2
    RedemptionTreasuryFeeDivisor = 0
    RedemptionTxMaxFee = 1
    RedemptionTxMaxTotalFee = 1
    RedemptionTimeout = 1
    DepositDustThreshold = 2
    DepositTreasuryFeeDivisor = 0
    DepositTxMaxFee = 1
    Sighash = {}
    FraudChallengeDefeatTimeout = 1
INVARIANTS
    ClosingWalletsOweNoSweep
