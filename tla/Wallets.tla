------------------------------- MODULE Wallets -------------------------------
(***************************************************************************)
(* The wallet registry of the Bridge (library Wallets): the life of every  *)
(* ECDSA wallet, the active wallet and the count of live wallets.          *)
(*                                                                         *)
(* Each VARIABLE is one field of struct Wallet, or of BridgeState.Storage, *)
(* as a function of the wallet's public key hash.  Operators named like    *)
(* internal functions of the library (MoveFunds, TerminateWallet, ...) say *)
(* what they do to walletState, the two timestamps, activeWallet and       *)
(* liveWalletsCount; the handlers of the other libraries conjoin them.     *)
(*                                                                         *)
(* A main UTXO is represented by its value: the handlers only accept the   *)
(* UTXO whose hash is stored, so its identity never differs.  The main     *)
(* UTXOs of a wallet are numbered in the order they were current; those in *)
(* the mapping spentMainUTXOs are the first spentMainUTXOs[w].  The ECDSA  *)
(* wallet registry is external: it runs one key generation at a time and   *)
(* keeps the wallets it has created until the Bridge closes them.          *)
(***************************************************************************)
EXTENDS Integers, FiniteSets

CONSTANTS
    Wallet,                       \* public key hashes a wallet can have
    NoWallet,                     \* the zero public key hash
    WalletCreationPeriod,
    WalletCreationMinBtcBalance,
    WalletCreationMaxBtcBalance,
    WalletClosureMinBtcBalance,
    WalletMaxAge,
    WalletClosingPeriod,
    MaxTime                       \* bound: the last block timestamp explored

ASSUME WalletAssumption ==
    /\ IsFiniteSet(Wallet)
    /\ NoWallet \notin Wallet
    /\ MaxTime \in Nat

\* What BridgeState.updateWalletParameters lets governance set.
WalletParametersAccepted ==
    /\ {WalletCreationPeriod, WalletMaxAge, WalletCreationMinBtcBalance,
        WalletClosureMinBtcBalance} \subseteq Nat
    /\ WalletCreationMaxBtcBalance \in Nat
    /\ WalletCreationMaxBtcBalance > WalletCreationMinBtcBalance
    /\ WalletClosingPeriod \in Nat \ {0}
ASSUME WalletParametersAssumption == WalletParametersAccepted

VARIABLES
    now,                          \* block.timestamp
    walletState,
    mainUtxo,                     \* value of the main UTXO, NoUtxo if none
    pendingRedemptionsValue,
    createdAt,
    movingFundsRequestedAt,
    closingStartedAt,
    pendingMovedFundsSweepRequestsCount,
    spentMainUTXOs,               \* how many main UTXOs were honestly spent
    commitment,                   \* target wallets committed to, {} if none
    activeWallet,
    liveWalletsCount,
    creationState,                \* the registry's key generation
    registryWallets               \* wallets open in the registry

walletVars == <<walletState, createdAt, movingFundsRequestedAt,
                closingStartedAt, activeWallet, liveWalletsCount>>
registryVars == <<creationState, registryWallets>>

WalletState == {"Unknown", "Live", "MovingFunds", "Closing", "Closed",
                "Terminated"}

NoUtxo == -1
HasMainUtxo(w) == mainUtxo[w] # NoUtxo

\* The satoshis of a main UTXO; getWalletBtcBalance for wallet w.
UtxoValue(utxo) == IF utxo = NoUtxo THEN 0 ELSE utxo
WalletBtcBalance(w) == UtxoValue(mainUtxo[w])

WalletsTypeOK ==
    /\ now \in Nat \ {0}
    /\ walletState \in [Wallet -> WalletState]
    /\ mainUtxo \in [Wallet -> Nat \union {NoUtxo}]
    /\ pendingRedemptionsValue \in [Wallet -> Int]
    /\ createdAt \in [Wallet -> Nat]
    /\ movingFundsRequestedAt \in [Wallet -> Nat]
    /\ closingStartedAt \in [Wallet -> Nat]
    /\ pendingMovedFundsSweepRequestsCount \in [Wallet -> Int]
    /\ spentMainUTXOs \in [Wallet -> Nat]
    /\ commitment \in [Wallet -> SUBSET Wallet]
    /\ activeWallet \in Wallet \union {NoWallet}
    /\ liveWalletsCount \in Int
    /\ creationState \in {"IDLE", "IN_PROGRESS"}
    /\ registryWallets \subseteq Wallet

WalletsInit ==
    /\ now = 1
    /\ walletState = [w \in Wallet |-> "Unknown"]
    /\ mainUtxo = [w \in Wallet |-> NoUtxo]
    /\ pendingRedemptionsValue = [w \in Wallet |-> 0]
    /\ createdAt = [w \in Wallet |-> 0]
    /\ movingFundsRequestedAt = [w \in Wallet |-> 0]
    /\ closingStartedAt = [w \in Wallet |-> 0]
    /\ pendingMovedFundsSweepRequestsCount = [w \in Wallet |-> 0]
    /\ spentMainUTXOs = [w \in Wallet |-> 0]
    /\ commitment = [w \in Wallet |-> {}]
    /\ activeWallet = NoWallet
    /\ liveWalletsCount = 0
    /\ creationState = "IDLE"
    /\ registryWallets = {}

-----------------------------------------------------------------------------
(* Internal functions of the library.                                      *)

\* Mutants: every termination is counted; closing leaves the wallet registered.
AlwaysDecrementLiveWallets(w) == liveWalletsCount' = liveWalletsCount - 1
KeepInRegistry(w) == UNCHANGED registryWallets

UnsetActiveWallet(w) ==
    activeWallet' = IF activeWallet = w THEN NoWallet ELSE activeWallet

BeginWalletClosing(w) ==
    /\ walletState' = [walletState EXCEPT ![w] = "Closing"]
    /\ closingStartedAt' = [closingStartedAt EXCEPT ![w] = now]

\* ecdsaWalletRegistry.closeWallet
CloseInRegistry(w) == registryWallets' = registryWallets \ {w}

FinalizeWalletClosing(w) ==
    /\ walletState' = [walletState EXCEPT ![w] = "Closed"]
    /\ CloseInRegistry(w)

\* Mutant: the fee of a transaction is not bounded.
TxFeeUnbounded(inputsValue, outputsValue, maxFee) == outputsValue <= inputsValue

\* A Bitcoin transaction cannot create value; the proof of one that pays more
\* than the maximum fee is rejected.
TxFeeWithin(inputsValue, outputsValue, maxFee) ==
    /\ outputsValue <= inputsValue
    /\ inputsValue - outputsValue <= maxFee

\* Mutant: the spent main UTXO is not recorded.
ForgetSpentUtxo(w) == UNCHANGED spentMainUTXOs

\* A proven transaction spends the main UTXO of w, if it has one.
SpendMainUtxo(w) ==
    spentMainUTXOs' = IF HasMainUtxo(w) THEN [spentMainUTXOs EXCEPT ![w] = @ + 1]
                                        ELSE spentMainUTXOs

\* A wallet with nothing to move starts closing at once.
MoveFunds(w) ==
    /\ \/ /\ ~HasMainUtxo(w)
          /\ BeginWalletClosing(w)
          /\ UNCHANGED movingFundsRequestedAt
       \/ /\ HasMainUtxo(w)
          /\ walletState' = [walletState EXCEPT ![w] = "MovingFunds"]
          /\ movingFundsRequestedAt' = [movingFundsRequestedAt EXCEPT ![w] = now]
          /\ UNCHANGED closingStartedAt
    /\ UnsetActiveWallet(w)
    /\ liveWalletsCount' = liveWalletsCount - 1
    /\ UNCHANGED <<createdAt, registryVars>>

DecrementLiveWalletsIfLive(w) ==
    liveWalletsCount' = IF walletState[w] = "Live"
                        THEN liveWalletsCount - 1 ELSE liveWalletsCount

TerminateWallet(w) ==
    /\ DecrementLiveWalletsIfLive(w)
    /\ walletState' = [walletState EXCEPT ![w] = "Terminated"]
    /\ UnsetActiveWallet(w)
    /\ CloseInRegistry(w)
    /\ UNCHANGED <<createdAt, movingFundsRequestedAt, closingStartedAt,
                   creationState>>

\* Mutant: the timeout punishes the wallet but leaves it Live.
OnlySeize(w) ==
    /\ walletState[w] \in {"Live", "MovingFunds", "Terminated"}
    /\ UNCHANGED <<walletVars, registryVars>>

\* Slashing (registry.seize) changes no state of the Bridge; it reverts for a
\* wallet the registry no longer holds, which RegistryAgreement rules out.
NotifyWalletRedemptionTimeout(w) ==
    \/ walletState[w] = "Live" /\ MoveFunds(w)
    \/ /\ walletState[w] \in {"MovingFunds", "Terminated"}
       /\ UNCHANGED <<walletVars, registryVars>>

NotifyWalletFundsMoved(w, targets) ==
    /\ walletState[w] = "MovingFunds"
    /\ commitment[w] # {}
    /\ commitment[w] = targets
    /\ mainUtxo' = [mainUtxo EXCEPT ![w] = NoUtxo]
    /\ BeginWalletClosing(w)
    /\ UNCHANGED <<createdAt, movingFundsRequestedAt, activeWallet,
                   liveWalletsCount, registryVars>>

NotifyWalletMovingFundsBelowDust(w) ==
    /\ walletState[w] = "MovingFunds"
    /\ BeginWalletClosing(w)
    /\ UNCHANGED <<createdAt, movingFundsRequestedAt, activeWallet,
                   liveWalletsCount, registryVars>>

\* Mutant: the state of the wallet is not checked.
TerminateInAnyState(w) == TerminateWallet(w)

NotifyWalletMovingFundsTimeout(w) ==
    /\ walletState[w] = "MovingFunds"
    /\ TerminateWallet(w)

NotifyWalletMovedFundsSweepTimeout(w) ==
    \/ walletState[w] \in {"Live", "MovingFunds"} /\ TerminateWallet(w)
    \/ walletState[w] = "Terminated" /\ UNCHANGED <<walletVars, registryVars>>

NotifyWalletFraudChallengeDefeatTimeout(w) ==
    \/ walletState[w] \in {"Live", "MovingFunds", "Closing"} /\ TerminateWallet(w)
    \/ walletState[w] = "Terminated" /\ UNCHANGED <<walletVars, registryVars>>

-----------------------------------------------------------------------------
(* Entry points of the Bridge that belong to this library.  They leave the *)
(* balance fields of the wallets alone.                                    *)

balanceFields == <<mainUtxo, spentMainUTXOs, pendingRedemptionsValue,
                   pendingMovedFundsSweepRequestsCount, commitment>>

RequestNewWallet ==
    /\ creationState = "IDLE"
    /\ activeWallet # NoWallet =>
          \/ /\ now >= createdAt[activeWallet] + WalletCreationPeriod
             /\ WalletBtcBalance(activeWallet) >= WalletCreationMinBtcBalance
          \/ WalletBtcBalance(activeWallet) >= WalletCreationMaxBtcBalance
    /\ creationState' = "IN_PROGRESS"
    /\ UNCHANGED <<now, walletVars, registryWallets, balanceFields>>

\* The registry calls back once the key is generated.
RegisterNewWallet(w) ==
    /\ creationState = "IN_PROGRESS"
    /\ walletState[w] = "Unknown"
    /\ walletState' = [walletState EXCEPT ![w] = "Live"]
    /\ createdAt' = [createdAt EXCEPT ![w] = now]
    /\ activeWallet' = w
    /\ liveWalletsCount' = liveWalletsCount + 1
    /\ creationState' = "IDLE"
    /\ registryWallets' = registryWallets \union {w}
    /\ UNCHANGED <<now, movingFundsRequestedAt, closingStartedAt, balanceFields>>

\* The key generation fails in the registry: no call reaches the Bridge.
WalletCreationFails ==
    /\ creationState = "IN_PROGRESS"
    /\ creationState' = "IDLE"
    /\ UNCHANGED <<now, walletVars, registryWallets, balanceFields>>

\* The registry calls back for a wallet it holds.
NotifyWalletHeartbeatFailed(w) ==
    /\ w \in registryWallets
    /\ walletState[w] = "Live"
    /\ MoveFunds(w)
    /\ UNCHANGED <<now, balanceFields>>

NotifyWalletCloseable(w) ==
    /\ activeWallet # w
    /\ walletState[w] = "Live"
    /\ \/ now >= createdAt[w] + WalletMaxAge
       \/ WalletBtcBalance(w) < WalletClosureMinBtcBalance
    /\ MoveFunds(w)
    /\ UNCHANGED <<now, balanceFields>>

NotifyWalletClosingPeriodElapsed(w) ==
    /\ walletState[w] = "Closing"
    /\ now > closingStartedAt[w] + WalletClosingPeriod
    /\ FinalizeWalletClosing(w)
    /\ UNCHANGED <<now, createdAt, movingFundsRequestedAt, closingStartedAt,
                   activeWallet, liveWalletsCount, creationState, balanceFields>>

\* Time passes.
Tick ==
    /\ now < MaxTime
    /\ now' = now + 1
    /\ UNCHANGED <<walletVars, registryVars, balanceFields>>

WalletsNext ==
    \/ RequestNewWallet
    \/ WalletCreationFails
    \/ Tick
    \/ \E w \in Wallet :
          \/ RegisterNewWallet(w)
          \/ NotifyWalletHeartbeatFailed(w)
          \/ NotifyWalletCloseable(w)
          \/ NotifyWalletClosingPeriodElapsed(w)
=============================================================================
