----------------------------- MODULE Redemption -----------------------------
(***************************************************************************)
(* Redemptions (library Redemption): a request locks Bank balance in the   *)
(* Bridge and reserves BTC of a live wallet; it ends with the proof of a   *)
(* Bitcoin transaction, with a timeout or with a veto of the watchtower.   *)
(*                                                                         *)
(* A redemption key is the pair <<wallet, script>>.  As in the code, a     *)
(* request exists when its requestedAt is not zero, and deleting it writes *)
(* zeroes.  The watchtower and the rebates are external here: the          *)
(* watchtower may accept every request and veto any, and a rebate lowers   *)
(* the treasury fee by any amount.  The balance owner's approval of the    *)
(* Bridge is implied.                                                      *)
(***************************************************************************)
EXTENDS Wallets, BankBalances

CONSTANTS
    Script,                       \* redeemer output scripts
    RedemptionDustThreshold,
    RedemptionTreasuryFeeDivisor,
    RedemptionTxMaxFee,
    RedemptionTxMaxTotalFee,
    RedemptionTimeout

\* What updateRedemptionParameters requires.
RedemptionParametersAccepted ==
    /\ RedemptionTreasuryFeeDivisor \in Nat
    /\ {RedemptionDustThreshold, RedemptionTxMaxFee, RedemptionTxMaxTotalFee,
        RedemptionTimeout} \subseteq Nat \ {0}
    /\ RedemptionDustThreshold > RedemptionTxMaxFee
    /\ RedemptionTxMaxTotalFee >= RedemptionTxMaxFee
ASSUME RedemptionParametersAssumption == RedemptionParametersAccepted

ASSUME ScriptAssumption == IsFiniteSet(Script)

VARIABLES
    pendingRedemptions,
    timedOutRedemptions

redemptionVars == <<pendingRedemptions, timedOutRedemptions>>

RedemptionKey == Wallet \X Script

Request == [redeemer : User \union {NoUser}, requestedAmount : Nat,
            treasuryFee : Nat, txMaxFee : Nat, requestedAt : Nat]

NoRequest == [redeemer |-> NoUser, requestedAmount |-> 0, treasuryFee |-> 0,
              txMaxFee |-> 0, requestedAt |-> 0]

Exists(request) == request.requestedAt # 0
RedeemableAmount(request) == request.requestedAmount - request.treasuryFee

RedemptionTypeOK ==
    /\ pendingRedemptions \in [RedemptionKey -> Request]
    /\ timedOutRedemptions \in [RedemptionKey -> Request]

RedemptionInit ==
    /\ pendingRedemptions = [k \in RedemptionKey |-> NoRequest]
    /\ timedOutRedemptions = [k \in RedemptionKey |-> NoRequest]

-----------------------------------------------------------------------------
\* The fees a request may carry: the divisor's, lowered by a rebate.
RedemptionTreasuryFees(amount) ==
    IF RedemptionTreasuryFeeDivisor > 0
    THEN 0..(amount \div RedemptionTreasuryFeeDivisor)
    ELSE {0}

\* Mutant: a wallet that is moving its funds takes requests as well.
LiveOrMovingFunds(w) == walletState[w] \in {"Live", "MovingFunds"}
TakesRequests(w) == walletState[w] = "Live"

RequestRedemption(w, script, owner, redeemer, amount, treasuryFee) ==
    LET key == <<w, script>>
        reserved == pendingRedemptionsValue[w] + amount - treasuryFee
    IN  /\ TakesRequests(w)
        /\ HasMainUtxo(w)
        /\ amount >= RedemptionDustThreshold
        /\ ~Exists(pendingRedemptions[key])
        /\ treasuryFee \in RedemptionTreasuryFees(amount)
        /\ mainUtxo[w] >= reserved
        /\ pendingRedemptionsValue' = [pendingRedemptionsValue EXCEPT ![w] = reserved]
        /\ pendingRedemptions' = [pendingRedemptions EXCEPT ![key] =
               [redeemer |-> redeemer, requestedAmount |-> amount,
                treasuryFee |-> treasuryFee, txMaxFee |-> RedemptionTxMaxFee,
                requestedAt |-> now]]
        /\ CanDecrease(balanceOf, owner, amount)
        /\ balanceOf' = Transferred(balanceOf, owner, BridgeAccount, amount)
        /\ UNCHANGED <<now, walletVars, registryVars, mainUtxo, spentMainUTXOs,
                       commitment, pendingMovedFundsSweepRequestsCount,
                       timedOutRedemptions>>

\* The request an output to the script of key fulfils: the pending one, or
\* else the one that was reported as timed out.
RequestOfOutput(key) ==
    IF Exists(pendingRedemptions[key]) THEN pendingRedemptions[key]
                                       ELSE timedOutRedemptions[key]

AcceptableOutput(request, value) ==
    /\ Exists(request)
    /\ RedeemableAmount(request) >= request.txMaxFee
    /\ RedeemableAmount(request) - request.txMaxFee <= value
    /\ value <= RedeemableAmount(request)

\* The transaction spends the main UTXO of w; outputs maps the scripts it
\* pays to the values paid, and changeValue goes back to the wallet.
SubmitRedemptionProof(w, outputs, changeValue) ==
    LET scripts == DOMAIN outputs
        pending == {s \in scripts : Exists(pendingRedemptions[<<w, s>>])}
        totalBurnableValue ==
            Total([s \in pending |-> RedeemableAmount(pendingRedemptions[<<w, s>>])])
        totalTreasuryFee ==
            Total([s \in pending |-> pendingRedemptions[<<w, s>>].treasuryFee])
        burned == Decreased(balanceOf, BridgeAccount, totalBurnableValue)
    IN  /\ walletState[w] \in {"Live", "MovingFunds"}
        /\ HasMainUtxo(w)
        /\ scripts # {}
        /\ \A s \in scripts : AcceptableOutput(RequestOfOutput(<<w, s>>), outputs[s])
        /\ TxFeeWithin(mainUtxo[w], Total(outputs) + changeValue,
                       RedemptionTxMaxTotalFee)
        /\ SpendMainUtxo(w)
        /\ mainUtxo' = [mainUtxo EXCEPT ![w] =
                            IF changeValue > 0 THEN changeValue ELSE NoUtxo]
        /\ pendingRedemptionsValue' =
               [pendingRedemptionsValue EXCEPT ![w] = @ - totalBurnableValue]
        /\ pendingRedemptions' =
               [k \in RedemptionKey |->
                   IF k[1] = w /\ k[2] \in pending THEN NoRequest
                                                   ELSE pendingRedemptions[k]]
        /\ timedOutRedemptions' =
               [k \in RedemptionKey |->
                   IF k[1] = w /\ k[2] \in scripts \ pending
                   THEN NoRequest ELSE timedOutRedemptions[k]]
        /\ CanDecrease(balanceOf, BridgeAccount, totalBurnableValue + totalTreasuryFee)
        /\ balanceOf' = Transferred(burned, BridgeAccount, Treasury, totalTreasuryFee)
        /\ UNCHANGED <<now, walletVars, registryVars, commitment,
                       pendingMovedFundsSweepRequestsCount>>

\* Mutants: the whole requested amount is released, treasury fee included; the
\* request stays pending.
ReleaseRequestedAmount(w, request) ==
    pendingRedemptionsValue' =
        [pendingRedemptionsValue EXCEPT ![w] = @ - request.requestedAmount]
KeepPendingRedemption(key) == UNCHANGED pendingRedemptions

ReleasePendingValue(w, request) ==
    pendingRedemptionsValue' =
        [pendingRedemptionsValue EXCEPT ![w] = @ - RedeemableAmount(request)]

DeletePendingRedemption(key) ==
    pendingRedemptions' = [pendingRedemptions EXCEPT ![key] = NoRequest]

NotifyRedemptionTimeout(w, script) ==
    LET key == <<w, script>>
        request == pendingRedemptions[key]
    IN  /\ Exists(request)
        /\ request.requestedAt + RedemptionTimeout < now
        /\ ReleasePendingValue(w, request)
        /\ NotifyWalletRedemptionTimeout(w)
        /\ timedOutRedemptions' = [timedOutRedemptions EXCEPT ![key] = request]
        /\ DeletePendingRedemption(key)
        /\ CanDecrease(balanceOf, BridgeAccount, request.requestedAmount)
        /\ balanceOf' = Transferred(balanceOf, BridgeAccount, request.redeemer,
                                    request.requestedAmount)
        /\ UNCHANGED <<now, mainUtxo, spentMainUTXOs, commitment,
                       pendingMovedFundsSweepRequestsCount>>

\* The watchtower vetoes a request and burns a penalty out of what it detains in
\* the same transaction.
NotifyRedemptionVeto(w, script, penaltyFee) ==
    LET key == <<w, script>>
        request == pendingRedemptions[key]
        detained == Transferred(balanceOf, BridgeAccount, Watchtower,
                                request.requestedAmount)
    IN  /\ Exists(request)
        /\ ReleasePendingValue(w, request)
        /\ DeletePendingRedemption(key)
        /\ CanDecrease(balanceOf, BridgeAccount, request.requestedAmount)
        /\ CanDecrease(detained, Watchtower, penaltyFee)
        /\ balanceOf' = Decreased(detained, Watchtower, penaltyFee)
        /\ UNCHANGED <<now, walletVars, registryVars, mainUtxo, spentMainUTXOs,
                       commitment, pendingMovedFundsSweepRequestsCount,
                       timedOutRedemptions>>

\* Balance owners are users, or vaults that redeem for them.
RequestNext(w) ==
    \E s \in Script, owner \in User \union Vault, redeemer \in User :
        \E amount \in 1..balanceOf[owner] :
            \E treasuryFee \in RedemptionTreasuryFees(amount) :
                RequestRedemption(w, s, owner, redeemer, amount, treasuryFee)

VetoNext(w) ==
    \E s \in Script :
        \E penaltyFee \in 0..pendingRedemptions[<<w, s>>].requestedAmount :
            NotifyRedemptionVeto(w, s, penaltyFee)

SettleNext(w) ==
    \/ \E s \in Script : NotifyRedemptionTimeout(w, s)
    \/ \E scripts \in SUBSET Script :
          \E outputs \in [scripts -> 0..WalletBtcBalance(w)] :
              \E changeValue \in 0..WalletBtcBalance(w) :
                  SubmitRedemptionProof(w, outputs, changeValue)

RedemptionNext == \E w \in Wallet : RequestNext(w) \/ VetoNext(w) \/ SettleNext(w)
=============================================================================
