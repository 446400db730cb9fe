\* Upgrades: the three networks the scripts know, three runs of scripts with
\* one failure.  Simulation: two operators and one more who joins, wallets
\* of two, four days.  Sui: both networks, two administrators, five programs
\* or calls, messages from both chains and a minting limit they exceed.
\* Rebate staking: a stake of two tokens, three users for delegations, three
\* blocks, and a cap of two rebates of one.
CONSTANTS
  UpgradeNetwork = {"mainnet", "sepolia", "hardhat"}
  Changes <- MCChanges
  MaxScriptRuns = 3
  MaxScriptFaults = 1
  OperatorCount = 2
  WalletSize = 2
  Heartbeat = 2
  DaysToUnstake = 2
  WalletCreationPeriod = 1
  WalletMaxAge = 3
  WalletMinBtc = 1
  WalletTransferMax = 2
  NewDeposit = {0, 4}
  NewWithdraw = {0, 3}
  TransferImplementation =
    {"randomTransfer", "randomTransferWithoutCap", "transferToActive"}
  DaysToSimulate = 4
  MaxOperators = 3
  SuiNetwork = {"mainnet", "testnet"}
  Administrator = {a1, a2}
  Vaa <- MCVaa
  MintingLimitMax = 9
  NewMintingLimit = {0, 2}
  NonceLimit = 1
  MaxAdministration = 5
  Wealthy = Wealthy
  Helper = Helper
  Bystander = Bystander
  RebateUser <- MCRebateUser
  ZeroAddress = ZeroAddress
  RequestKey = {k1}
  TokenSupply <- MCTokenSupply
  RollingWindow = {1, 2}
  UnstakingPeriod = {1}
  RebatePerToken = {1}
  FeeMode = {"RedemptionOnly"}
  TreasuryFee = {1}
  RequestTimeout = 1
  UINT64_MAX = 2
  MaxRebates = 2
  FirstBlockTime = 2
  LastBlockTime = 4
INIT OperationsInit
NEXT OperationsNext
CHECK_DEADLOCK FALSE
INVARIANTS
  NewBridgeMeetsNewRebate
  PlansLinkTheirRevision
  OperatorsKnowTheirWallets
  CanonicalBacked
  StakesHeld
  DelegationsMutual
PROPERTIES
  GrantedWithinCap
