------------------------------ MODULE Deposits ------------------------------
(***************************************************************************)
(* Deposits (libraries Deposit and DepositSweep): a depositor reveals a    *)
(* Bitcoin deposit to a live wallet, the proof of a sweep transaction      *)
(* folds deposits into the main UTXO of a wallet and credits the Bank.     *)
(*                                                                         *)
(* A deposit key is the hash of a Bitcoin outpoint.  As in the code, a     *)
(* deposit exists when its revealedAt is not zero, does not remember the   *)
(* wallet it was revealed for, and keeps the vault it has to be routed to. *)
(* The refund locktime is checked on reveal and not stored: any deposit    *)
(* considered here has an acceptable one.                                  *)
(***************************************************************************)
EXTENDS Wallets, BankBalances

CONSTANTS
    DepositKey,
    DepositAmount,                \* amounts of the funding outputs
    NoVault,                      \* the zero address
    DepositDustThreshold,
    DepositTreasuryFeeDivisor,
    DepositTxMaxFee

\* What updateDepositParameters requires.
DepositParametersAccepted ==
    /\ DepositTreasuryFeeDivisor \in Nat
    /\ {DepositDustThreshold, DepositTxMaxFee} \subseteq Nat \ {0}
    /\ DepositDustThreshold > DepositTxMaxFee
ASSUME DepositParametersAssumption == DepositParametersAccepted

ASSUME DepositAssumption ==
    /\ IsFiniteSet(DepositKey)
    /\ DepositAmount \subseteq Nat
    /\ NoVault \notin Vault

VARIABLES
    deposits,
    isVaultTrusted                \* the set of trusted vaults

depositVars == <<deposits, isVaultTrusted>>

DepositRequest == [depositor : User \union {NoUser}, amount : Nat,
                   revealedAt : Nat, vault : Vault \union {NoVault},
                   treasuryFee : Nat, sweptAt : Nat]

NoDeposit == [depositor |-> NoUser, amount |-> 0, revealedAt |-> 0,
              vault |-> NoVault, treasuryFee |-> 0, sweptAt |-> 0]

DepositTypeOK ==
    /\ deposits \in [DepositKey -> DepositRequest]
    /\ isVaultTrusted \subseteq Vault

DepositInit ==
    /\ deposits = [d \in DepositKey |-> NoDeposit]
    /\ isVaultTrusted = {}

-----------------------------------------------------------------------------
\* The fees a deposit may carry: the divisor's, lowered by a rebate.
DepositTreasuryFees(amount) ==
    IF DepositTreasuryFeeDivisor > 0
    THEN 0..(amount \div DepositTreasuryFeeDivisor)
    ELSE {0}

RevealDeposit(d, w, depositor, amount, vault, treasuryFee) ==
    /\ walletState[w] = "Live"
    /\ vault = NoVault \/ vault \in isVaultTrusted
    /\ deposits[d].revealedAt = 0
    /\ amount >= DepositDustThreshold
    /\ treasuryFee \in DepositTreasuryFees(amount)
    /\ deposits' = [deposits EXCEPT ![d] =
           [depositor |-> depositor, amount |-> amount, revealedAt |-> now,
            vault |-> vault, treasuryFee |-> treasuryFee, sweptAt |-> 0]]
    /\ UNCHANGED <<now, walletVars, registryVars, balanceFields, balanceOf,
                   isVaultTrusted>>

\* Fee shares: even, the remainder on top of the last deposit's.
DepositTxFee(txFee, count) == (txFee - (txFee % count)) \div count
DepositTxFeeIncurred(d, last, txFee, count) ==
    DepositTxFee(txFee, count) + IF d = last THEN txFee % count ELSE 0

\* Mutant: the remainder of the fee is charged to nobody.
DepositCreditWithoutRemainder(d, last, txFee, count) ==
    deposits[d].amount - deposits[d].treasuryFee - DepositTxFee(txFee, count)

DepositCredit(d, last, txFee, count) ==
    deposits[d].amount - deposits[d].treasuryFee
        - DepositTxFeeIncurred(d, last, txFee, count)

\* The Bank balance increases of a sweep: credit[d] for the depositor of d, or
\* all of them for the vault while it is trusted, and the treasury's fees.
SweepCredits(swept, vault, credit) ==
    LET depositorsOf(a) == {d \in swept : deposits[d].depositor = a}
        treasuryFees == Total([d \in swept |-> deposits[d].treasuryFee])
        routed == vault # NoVault /\ vault \in isVaultTrusted
    IN  [a \in Account |->
            (IF routed THEN (IF a = vault THEN Total(credit) ELSE 0)
             ELSE Total([d \in depositorsOf(a) |-> credit[d]]))
            + (IF a = Treasury THEN treasuryFees ELSE 0)]

\* What the inputs of a sweep are worth.
SweepInputs(w, swept) ==
    Total([d \in swept |-> deposits[d].amount]) + WalletBtcBalance(w)

\* depositedAmounts, after the treasury and transaction fees.
DepositedAmounts(w, swept, last, outputValue) ==
    [d \in swept |-> DepositCredit(d, last, SweepInputs(w, swept) - outputValue,
                                   Cardinality(swept))]

\* The transaction spends the deposits in swept, the last of its deposit
\* inputs being last, and the main UTXO of w exactly when w has one.
SubmitDepositSweepProof(w, swept, last, outputValue, vault) ==
    LET txFee == SweepInputs(w, swept) - outputValue
        count == Cardinality(swept)
        credit == DepositedAmounts(w, swept, last, outputValue)
    IN  /\ walletState[w] \in {"Live", "MovingFunds"}
        /\ last \in swept
        /\ \A d \in swept : /\ deposits[d].revealedAt # 0
                            /\ deposits[d].sweptAt = 0
                            /\ deposits[d].vault = vault
        /\ outputValue <= SweepInputs(w, swept)
        /\ DepositTxFeeIncurred(last, last, txFee, count) <= DepositTxMaxFee
        /\ \A d \in swept : credit[d] >= 0
        /\ deposits' = [d \in DepositKey |->
               IF d \in swept THEN [deposits[d] EXCEPT !.sweptAt = now]
                              ELSE deposits[d]]
        /\ SpendMainUtxo(w)
        /\ mainUtxo' = [mainUtxo EXCEPT ![w] = outputValue]
        /\ balanceOf' = AllIncreased(balanceOf, SweepCredits(swept, vault, credit))
        /\ UNCHANGED <<now, walletVars, registryVars, pendingRedemptionsValue,
                       pendingMovedFundsSweepRequestsCount, commitment,
                       isVaultTrusted>>

\* Bridge.setVaultStatus, by governance.
SetVaultStatus(vault, isTrusted) ==
    /\ isVaultTrusted' = IF isTrusted THEN isVaultTrusted \union {vault}
                                      ELSE isVaultTrusted \ {vault}
    /\ UNCHANGED <<now, walletVars, registryVars, balanceFields, balanceOf,
                   deposits>>

RevealNext ==
    \E d \in DepositKey, w \in Wallet, depositor \in User, amount \in DepositAmount,
       vault \in Vault \union {NoVault} :
        \E treasuryFee \in DepositTreasuryFees(amount) :
            RevealDeposit(d, w, depositor, amount, vault, treasuryFee)

SweepNext ==
    \E w \in Wallet, swept \in SUBSET DepositKey, vault \in Vault \union {NoVault} :
        \E last \in swept, outputValue \in 0..SweepInputs(w, swept) :
            SubmitDepositSweepProof(w, swept, last, outputValue, vault)

VaultStatusNext ==
    \E vault \in Vault, isTrusted \in BOOLEAN : SetVaultStatus(vault, isTrusted)

DepositNext == RevealNext \/ SweepNext \/ VaultStatusNext
=============================================================================
