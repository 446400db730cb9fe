----------------------------- MODULE MovingFunds -----------------------------
(***************************************************************************)
(* Moving the funds of a retiring wallet to live wallets (library          *)
(* MovingFunds): the target wallets commitment, the moving funds proof     *)
(* that hands a sweep request to every target, the sweep of the moved      *)
(* funds by the targets, and the timeouts of both halves.                  *)
(*                                                                         *)
(* A moving funds transaction has one output per target and a wallet has   *)
(* at most one such transaction proven, so an output (txHash, index) is    *)
(* named by the pair <<source, target>>.  The list of targets has to be    *)
(* strictly increasing, so it is a set.  The values of the outputs are     *)
(* those of a Bitcoin transaction: any distribution of at most the input.  *)
(***************************************************************************)
EXTENDS Wallets, Sums

CONSTANTS
    WalletMaxBtcTransfer,
    MovingFundsTxMaxTotalFee,
    MovingFundsDustThreshold,
    MovingFundsTimeoutResetDelay,
    MovingFundsTimeout,
    MovedFundsSweepTxMaxTotalFee,
    MovedFundsSweepTimeout

\* What updateMovingFundsParameters and updateWalletParameters require.
MovingFundsParametersAccepted ==
    /\ {WalletMaxBtcTransfer, MovingFundsTxMaxTotalFee,
        MovingFundsDustThreshold, MovingFundsTimeoutResetDelay,
        MovedFundsSweepTxMaxTotalFee, MovedFundsSweepTimeout} \subseteq Nat \ {0}
    /\ MovingFundsTimeout \in Nat
    /\ MovingFundsTimeout > MovingFundsTimeoutResetDelay
ASSUME MovingFundsParametersAssumption == MovingFundsParametersAccepted

VARIABLE movedFundsSweepRequests

SweepRequestKey == Wallet \X Wallet

SweepRequestState == {"Unknown", "Pending", "Processed", "TimedOut"}

SweepRequest == [value : Nat, createdAt : Nat, state : SweepRequestState]

MovingFundsTypeOK == movedFundsSweepRequests \in [SweepRequestKey -> SweepRequest]

MovingFundsInit ==
    movedFundsSweepRequests =
        [k \in SweepRequestKey |-> [value |-> 0, createdAt |-> 0, state |-> "Unknown"]]

-----------------------------------------------------------------------------
MinOf(a, b) == IF a <= b THEN a ELSE b
CeilDiv(a, b) == (a + b - 1) \div b

ExpectedTargetWalletsCount(w) ==
    MinOf(liveWalletsCount, CeilDiv(WalletBtcBalance(w), WalletMaxBtcTransfer))

SubmitMovingFundsCommitment(w, targets) ==
    /\ walletState[w] = "MovingFunds"
    /\ pendingRedemptionsValue[w] = 0
    /\ pendingMovedFundsSweepRequestsCount[w] = 0
    /\ commitment[w] = {}
    /\ WalletBtcBalance(w) > 0
    /\ ExpectedTargetWalletsCount(w) > 0
    /\ Cardinality(targets) = ExpectedTargetWalletsCount(w)
    /\ w \notin targets
    /\ \A t \in targets : walletState[t] = "Live"
    /\ commitment' = [commitment EXCEPT ![w] = targets]
    /\ UNCHANGED <<now, walletVars, registryVars, mainUtxo, spentMainUTXOs,
                   pendingRedemptionsValue, pendingMovedFundsSweepRequestsCount,
                   movedFundsSweepRequests>>

ResetMovingFundsTimeout(w) ==
    /\ walletState[w] = "MovingFunds"
    /\ commitment[w] = {}
    /\ liveWalletsCount = 0
    /\ now > movingFundsRequestedAt[w] + MovingFundsTimeoutResetDelay
    /\ movingFundsRequestedAt' = [movingFundsRequestedAt EXCEPT ![w] = now]
    /\ UNCHANGED <<now, walletState, createdAt, closingStartedAt, activeWallet,
                   liveWalletsCount, registryVars, balanceFields,
                   movedFundsSweepRequests>>

\* The remainder of an even split may go to any of the outputs.
DistributedEvenly(outputs) ==
    LET count == Cardinality(DOMAIN outputs)
        total == Total(outputs)
        remainder == total % count
        minOutput == (total - remainder) \div count
    IN  \A t \in DOMAIN outputs :
            minOutput <= outputs[t] /\ outputs[t] <= minOutput + remainder

\* outputs: the values the transaction pays to its output wallets, in
\* [targets -> Nat] for a set of targets that has to match the commitment.
SubmitMovingFundsProof(w, outputs) ==
    /\ HasMainUtxo(w)
    /\ DOMAIN outputs # {}
    /\ TxFeeWithin(mainUtxo[w], Total(outputs), MovingFundsTxMaxTotalFee)
    /\ DistributedEvenly(outputs)
    /\ SpendMainUtxo(w)
    /\ NotifyWalletFundsMoved(w, DOMAIN outputs)
    /\ movedFundsSweepRequests' =
           [k \in SweepRequestKey |->
               IF k[1] = w /\ k[2] \in DOMAIN outputs
               THEN [value |-> outputs[k[2]], createdAt |-> now, state |-> "Pending"]
               ELSE movedFundsSweepRequests[k]]
    /\ pendingMovedFundsSweepRequestsCount' =
           [t \in Wallet |->
               IF t \in DOMAIN outputs
               THEN pendingMovedFundsSweepRequestsCount[t] + 1
               ELSE pendingMovedFundsSweepRequestsCount[t]]
    /\ UNCHANGED <<now, pendingRedemptionsValue, commitment>>

NotifyMovingFundsTimeout(w) ==
    /\ now > movingFundsRequestedAt[w] + MovingFundsTimeout
    /\ NotifyWalletMovingFundsTimeout(w)
    /\ UNCHANGED <<now, balanceFields, movedFundsSweepRequests>>

NotifyMovingFundsBelowDust(w) ==
    /\ WalletBtcBalance(w) < MovingFundsDustThreshold
    /\ NotifyWalletMovingFundsBelowDust(w)
    /\ UNCHANGED <<now, balanceFields, movedFundsSweepRequests>>

\* Mutant: a settled request stays in the count.
KeepSweepRequestsCount(w) == UNCHANGED pendingMovedFundsSweepRequestsCount

DecrementSweepRequestsCount(w) ==
    pendingMovedFundsSweepRequestsCount' =
        [pendingMovedFundsSweepRequestsCount EXCEPT ![w] = @ - 1]

\* The transaction spends the output source -> w and, exactly when w has one,
\* the main UTXO of w; its single output, of outputValue, pays w.
SubmitMovedFundsSweepProof(source, w, outputValue) ==
    LET request == movedFundsSweepRequests[<<source, w>>]
        inputsTotalValue == request.value + WalletBtcBalance(w)
    IN  /\ walletState[w] \in {"Live", "MovingFunds"}
        /\ request.state = "Pending"
        /\ TxFeeWithin(inputsTotalValue, outputValue, MovedFundsSweepTxMaxTotalFee)
        /\ movedFundsSweepRequests' =
               [movedFundsSweepRequests EXCEPT ![<<source, w>>].state = "Processed"]
        /\ DecrementSweepRequestsCount(w)
        /\ SpendMainUtxo(w)
        /\ mainUtxo' = [mainUtxo EXCEPT ![w] = outputValue]
        /\ UNCHANGED <<now, walletVars, registryVars, pendingRedemptionsValue,
                       commitment>>

NotifyMovedFundsSweepTimeout(source, w) ==
    LET request == movedFundsSweepRequests[<<source, w>>]
    IN  /\ request.state = "Pending"
        /\ now > request.createdAt + MovedFundsSweepTimeout
        /\ NotifyWalletMovedFundsSweepTimeout(w)
        /\ movedFundsSweepRequests' =
               [movedFundsSweepRequests EXCEPT ![<<source, w>>].state = "TimedOut"]
        /\ DecrementSweepRequestsCount(w)
        /\ UNCHANGED <<now, mainUtxo, spentMainUTXOs, pendingRedemptionsValue,
                       commitment>>

MovingFundsNext ==
    \E w \in Wallet :
        \/ \E targets \in SUBSET Wallet : SubmitMovingFundsCommitment(w, targets)
        \/ ResetMovingFundsTimeout(w)
        \/ \E outputs \in [commitment[w] -> 0..WalletBtcBalance(w)] :
              SubmitMovingFundsProof(w, outputs)
        \/ NotifyMovingFundsTimeout(w)
        \/ NotifyMovingFundsBelowDust(w)
        \/ \E source \in Wallet :
              \/ \E outputValue \in
                    0..(movedFundsSweepRequests[<<source, w>>].value + WalletBtcBalance(w)) :
                       SubmitMovedFundsSweepProof(source, w, outputValue)
              \/ NotifyMovedFundsSweepTimeout(source, w)
=============================================================================
