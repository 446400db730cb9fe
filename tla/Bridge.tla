------------------------------- MODULE Bridge -------------------------------
(***************************************************************************)
(* The Bridge: wallets, deposits, redemptions, moving funds and fraud      *)
(* challenges over one storage, with the Bank whose balances the Bridge    *)
(* issues.  Every action is one external call (or one callback of an       *)
(* external contract), which Ethereum executes atomically; calls           *)
(* interleave in any order.                                                *)
(***************************************************************************)
EXTENDS MovingFunds, Redemption, Deposits, Fraud

walletStorage == <<walletVars, registryVars, balanceFields>>
vars == <<now, walletStorage, movedFundsSweepRequests, redemptionVars,
          depositVars, fraudVars, balanceOf>>

Init ==
    /\ WalletsInit
    /\ MovingFundsInit
    /\ RedemptionInit
    /\ DepositInit
    /\ FraudInit
    /\ BankInit

\* Account owners other than the Bridge may move or burn their balances.
OwnerNext(account) ==
    /\ \E amount \in TransferAmount :
          \/ \E recipient \in Account : TransferBalance(account, recipient, amount)
          \/ DecreaseBalance(account, amount)
    /\ UNCHANGED <<now, walletStorage, movedFundsSweepRequests, redemptionVars,
                   depositVars, fraudVars>>

\* The steps that leave the Bank alone.
QuietNext ==
    \/ /\ WalletsNext
       /\ UNCHANGED <<movedFundsSweepRequests, redemptionVars, depositVars,
                      fraudVars, balanceOf>>
    \/ /\ MovingFundsNext
       /\ UNCHANGED <<redemptionVars, depositVars, fraudVars, balanceOf>>
    \/ /\ RevealNext \/ VaultStatusNext
       /\ UNCHANGED <<movedFundsSweepRequests, redemptionVars, fraudVars>>
    \/ /\ FraudNext
       /\ UNCHANGED redemptionVars

Next ==
    \/ QuietNext
    \/ /\ SweepNext
       /\ UNCHANGED <<movedFundsSweepRequests, redemptionVars, fraudVars>>
    \/ /\ RedemptionNext
       /\ UNCHANGED <<movedFundsSweepRequests, depositVars, fraudVars>>
    \/ \E account \in Account : OwnerNext(account)

Spec == Init /\ [][Next]_vars

-----------------------------------------------------------------------------
TypeOK ==
    /\ WalletsTypeOK
    /\ MovingFundsTypeOK
    /\ RedemptionTypeOK
    /\ DepositTypeOK
    /\ FraudTypeOK
    /\ BankTypeOK

(***************************************************************************)
(* Bookkeeping: a value the code maintains by increments and decrements in *)
(* several libraries equals what it is supposed to count.                  *)
(***************************************************************************)

\* liveWalletsCount is the number of wallets in the Live state.  The commitment
\* and the timeout reset rely on it; it is decremented in two places.
LiveWallets == {w \in Wallet : walletState[w] = "Live"}
LiveWalletsCountExact == liveWalletsCount = Cardinality(LiveWallets)

\* requestNewWallet relies on "an active wallet is always one of the registered
\* ones"; deposits and redemptions need it to be live.
ActiveWalletIsLive == activeWallet # NoWallet => walletState[activeWallet] = "Live"

\* The wallets the ECDSA registry holds are those the Bridge can still slash:
\* no seize or closeWallet call reaches the registry for a wallet it has
\* already closed, in which case the whole notification would revert.
OpenWallets == {w \in Wallet : walletState[w] \in {"Live", "MovingFunds", "Closing"}}
RegistryAgreement == registryWallets = OpenWallets

\* pendingRedemptionsValue is the redeemable value of the pending requests of
\* the wallet, whichever of the proof, the timeout or the veto ends them.
RedeemableOf(w) ==
    [s \in Script |-> RedeemableAmount(pendingRedemptions[<<w, s>>])]
PendingRedemptionsValueExact ==
    \A w \in Wallet : pendingRedemptionsValue[w] = Total(RedeemableOf(w))

\* pendingMovedFundsSweepRequestsCount counts the Pending sweep requests that
\* target the wallet, whatever state the wallet has reached meanwhile.
PendingSweepSources(w) ==
    {source \in Wallet : movedFundsSweepRequests[<<source, w>>].state = "Pending"}
SweepRequestsCountExact ==
    \A w \in Wallet :
        pendingMovedFundsSweepRequestsCount[w] = Cardinality(PendingSweepSources(w))

(***************************************************************************)
(* Redemptions.                                                            *)
(***************************************************************************)

\* The Bridge always holds the Bank balance locked by the pending requests, so
\* that no proof, timeout or veto can fail for want of balance.
BridgeHoldsLockedBalance ==
    balanceOf[BridgeAccount] >=
        Total([k \in RedemptionKey |-> pendingRedemptions[k].requestedAmount])

\* A timed-out request only exists for a wallet that takes no more requests:
\* the same key cannot be pending and timed out, and a report of a timeout
\* never overwrites an earlier one.
TimedOutKeysNotReused ==
    \A k \in RedemptionKey : Exists(timedOutRedemptions[k]) =>
        /\ ~Exists(pendingRedemptions[k])
        /\ walletState[k[1]] # "Live"

(***************************************************************************)
(* Moving funds.                                                           *)
(***************************************************************************)

\* A wallet commits to its targets only after the last redemption it owes, and
\* owes none from then on: moving its funds away strands no redeemer.
CommittedWalletsOweNoRedemption ==
    \A w \in Wallet : commitment[w] # {} =>
        \A s \in Script : ~Exists(pendingRedemptions[<<w, s>>])

(***************************************************************************)
(* Fraud challenges.                                                       *)
(***************************************************************************)

\* The Bridge holds the ether of every open challenge, so that its receiver can
\* be paid: a challenge is settled once, by a defeat or by a timeout, and never
\* at the expense of another one.
EtherHeldForOpenChallenges ==
    bridgeEther >= Cardinality({k \in ChallengeKey : IsOpen(fraudChallenges[k])})

\* A proof that replaces or removes the main UTXO of a wallet records the old
\* one as honestly spent: a challenge over it can be defeated from then on,
\* whichever of the libraries has accepted the proof.
SpentMainUtxosRecorded ==
    [][\A w \in Wallet : HasMainUtxo(w) /\ mainUtxo'[w] # mainUtxo[w] =>
           spentMainUTXOs'[w] = spentMainUTXOs[w] + 1]_vars

(***************************************************************************)
(* Backing.  Reserve is the BTC the wallets hold for the Bridge: their     *)
(* main UTXOs and the moved funds not swept yet.                           *)
(***************************************************************************)
MovedFunds ==
    [k \in SweepRequestKey |->
        IF movedFundsSweepRequests[k].state \in {"Pending", "TimedOut"}
        THEN movedFundsSweepRequests[k].value ELSE 0]
Reserve == Total([w \in Wallet |-> WalletBtcBalance(w)]) + Total(MovedFunds)
Deficit == BankSupply - Reserve

ServedAfterTimeout ==
    [k \in RedemptionKey |->
        IF Exists(timedOutRedemptions[k]) /\ ~Exists(timedOutRedemptions[k])'
        THEN RedeemableAmount(timedOutRedemptions[k]) ELSE 0]
TxMaxTotalFees == {MovingFundsTxMaxTotalFee, MovedFundsSweepTxMaxTotalFee,
                   RedemptionTxMaxTotalFee}
LargestTxFee == CHOOSE fee \in TxMaxTotalFees :
                    \A other \in TxMaxTotalFees : other <= fee

\* The Bank issues no balance that no BTC backs: only Bitcoin transactions of
\* a wallet other than deposit sweeps, which replace its main UTXO, may lose
\* backing, and no more than their fee and what they pay to redeemers who got
\* their balance back at a timeout.
BackingLossBounded ==
    [][\/ Deficit' <= Deficit
       \/ /\ <<mainUtxo, spentMainUTXOs>>' # <<mainUtxo, spentMainUTXOs>>
          /\ UNCHANGED deposits
          /\ Deficit' <= Deficit + LargestTxFee + Total(ServedAfterTimeout)]_vars

(***************************************************************************)
(* What the documentation says of the code and the code does not keep.     *)
(***************************************************************************)

\* Wallets.WalletState.Closing: "The wallet moved or redeemed all their funds":
\* a wallet that is closing has no moved funds left to sweep.
ClosingWalletsOweNoSweep ==
    \A w \in Wallet : walletState[w] \in {"Closing", "Closed"} =>
        PendingSweepSources(w) = {}

\* docs/README.adoc: after the timeout anyone may report a redemption that was
\* not served, and the redeemer is reimbursed.
TimedOutRedemptionsReportable ==
    \A k \in RedemptionKey :
        Exists(pendingRedemptions[k])
            /\ pendingRedemptions[k].requestedAt + RedemptionTimeout < now
        => walletState[k[1]] \in {"Live", "MovingFunds", "Terminated"}

\* Fraud.submitFraudChallenge: the ether "is returned back upon justified fraud
\* challenge or confiscated otherwise"; a challenge no preimage can justify
\* must therefore not outlive the states in which its timeout can be reported.
JustifiedChallengesReportable ==
    \A k \in ChallengeKey :
        IsOpen(fraudChallenges[k]) /\ k[2][1] = "other" => walletState[k[1]] # "Closed"

(***************************************************************************)
(* The Bridge keeps the promises of WalletLifecycle.                       *)
(***************************************************************************)
Lifecycle == INSTANCE WalletLifecycle WITH state <- walletState,
                                           active <- activeWallet
LifecycleSpec == Lifecycle!Spec
=============================================================================
