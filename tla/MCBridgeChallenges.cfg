\* Challenges of every kind to one wallet; over funds moved between two.
SPECIFICATION ScenariosSpec
CHECK_DEADLOCK FALSE
CONSTANTS
    Wallet = {w1, w2}
    NoWallet = NoWallet
    User = {u1}
    NoUser = NoUser
    Vault = {}
    NoVault = NoVault
    BridgeAccount = Bridge
    Treasury = Treasury
    Watchtower = Watchtower
    TransferAmount = {}
    Script = {}
    DepositKey = {d1}
    DepositAmount = {3}
    MaxTime = 3
    WalletCreationPeriod = 1
    WalletCreationMinBtcBalance = 1
    WalletCreationMaxBtcBalance = 4
    WalletClosureMinBtcBalance = 1
    WalletMaxAge = 2
    WalletClosingPeriod = 1
    WalletMaxBtcTransfer = 1
    MovingFundsTxMaxTotalFee = 1
    MovingFundsDustThreshold = 1
    MovingFundsTimeoutResetDelay = 1
    MovingFundsTimeout = 2
    MovedFundsSweepTxMaxTotalFee = 1
    MovedFundsSweepTimeout = 1
    RedemptionDustThreshold = 2
    RedemptionTreasuryFeeDivisor = 3
    RedemptionTxMaxFee = 1
    RedemptionTxMaxTotalFee = 1
    RedemptionTimeout = 1
    DepositDustThreshold = 2
    DepositTreasuryFeeDivisor = 4
    DepositTxMaxFee = 1
    Sighash <- AnySighash
    FraudChallengeDefeatTimeout = 1
    Scenarios = {"fraud", "movedFundsFraud"}
INVARIANTS
    EtherHeldForOpenChallenges
PROPERTIES
    SpentMainUtxosRecorded
