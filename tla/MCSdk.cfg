CONSTANTS
  \* redemptions
  Registered <- MCRegistered
  InitialValue <- MCInitialValue
  RedeemerInput <- MCRedeemerInput
  TokenAmount = {25}
  SatoshiMultiplier = 10
  ConcurrencyLimit = 2
  TotalRetryAttempts = 1
  MaxChanges = 3
  MaxReadFaults = 1
  MaxLostReplies = 1
  \* wallet transactions
  SigningWallet = {"w1", "w2"}
  FundedDeposit <- MCFundedDeposit
  RedeemerScript = {"s1", "s2"}
  SweepFee = {1}
  RequestedAmount = {6}
  RequestFee = 3
  RequestTxMaxFee = 2
  TxMaxTotalFee = 4
  SweepTxMaxFee = 2
  MainOutputValue = 9
  Witness = TRUE
  MaxTransactions = 2
  MaxRequests = 2
  \* Electrum
  BitcoinTransaction = {"t1", "t2", "t3"}
  OutputScripts <- MCOutputScripts
  Credentials = 2
  RetryAttempts = 1
  PlaceInBlock <- MCPlaceInBlock
  HistoryLimit = {0, 1}
  MaxHeight = 3
  MaxElectrumFaults = 4
  \* Ethereum
  DepositTx = {"f1"}
  RedeemScript = {"s"}
  WalletKey = {"k1", "k2"}
  VaultChoice = {"none", "v"}
  ExtraData = {"none", "e"}
  HandleRetries = 1
  BlockInterval = 1
  MaxBlock = 3
  MaxHandleFaults = 2
  MaxForeign = 3
  \* deposits
  DestinationChain = {"Base", "Arbitrum", "StarkNet", "Sui", "Solana", "Sei"}
  ChainOwner = {"o1", "o2"}
  RecoveryAddress <- MCRecoveryAddress
  DepositWallet = {"w1"}
  InputList <- MCInputList
  DepositValue = 5
  FundingFee = 1
  RefundFee = 1
  RefundDuration = 2
  RevealAhead = 1
  MedianTimeLag = 1
  MaxSdkTime = 4
  MaxLocktime = 2
  MaxDeposits = 1
  RelayerRetries = 1
  MaxRelayerFaults = 2
  \* SPV
  BlockContent <- MCBlockContent
  EpochBits <- MCEpochBits
  ProofRequests <- MCProofRequests
  ForgedBranches <- MCForgedBranches
  MaxForgedHeaders = 1
  EpochBlocks = 2
  Diff1Target = 16776960
  MaxBlocks = 4
  MaxReorgs = 1
  MaxSpvFaults = 1
SPECIFICATION SdkSpec
CHECK_DEADLOCK FALSE
INVARIANTS
  AbleWalletFound
  RequestsAccountedFor
  AssembledTxProvable
  AnswerTruthful
  RetriesHideFaults
  EventsExactlyOnce
  DepositsRecoverable
  
  QuietProofAccepted
PROPERTY ReportedMainUtxoRegistered
