----------------------------- MODULE TbtcVault -----------------------------
(***************************************************************************)
(* The TBTC vault (contracts TBTCVault and TBTCOptimisticMinting) and the  *)
(* TBTC token it owns, composed with the Bridge.                           *)
(*                                                                         *)
(* TBTC is minted against Bank balance handed to the vault, or before the  *)
(* deposit is swept, against a debt of the depositor which the sweeps of   *)
(* the depositor's deposits repay.  One satoshi is SatoshiMultiplier units *)
(* of the token.  Approvals of Bank balance and of tokens are implied.     *)
(* The list of minters, which only a view function reads, is represented   *)
(* by the set.  The recovery of other tokens is left out.                  *)
(***************************************************************************)
EXTENDS Bridge

CONSTANTS
    TBTCVault,                    \* the vault of this module
    SatoshiMultiplier,
    GovernanceDelay,
    InitialOptimisticMintingFeeDivisor,
    InitialOptimisticMintingDelay,
    Minter,
    Guardian,
    TokenAmount,                  \* bound: amounts users name in calls
    NewFeeDivisor,                \* bound: what the owner may set
    NewDelay                      \* bound: what the owner may set

\* Vaults are contracts that hold the balance of others: none of them deposits,
\* redeems or holds tokens for itself.
ASSUME VaultAssumption ==
    /\ TBTCVault \in Vault
    /\ User \intersect Vault = {}
    /\ SatoshiMultiplier \in Nat \ {0}
    /\ GovernanceDelay \in Nat
    /\ InitialOptimisticMintingFeeDivisor \in Nat
    /\ InitialOptimisticMintingDelay \in Nat
    /\ TokenAmount \subseteq Nat
    /\ NewFeeDivisor \subseteq Nat
    /\ NewDelay \subseteq Nat

VARIABLES
    tbtcBalanceOf,
    tokenOwner,                   \* the only contract that may mint
    isOptimisticMintingPaused,
    optimisticMintingFeeDivisor,
    optimisticMintingDelay,
    isMinter,                     \* the set of minters
    isGuardian,                   \* the set of guardians
    optimisticMintingRequests,
    optimisticMintingDebt,
    feeUpdate,                    \* pending update of the fee divisor
    delayUpdate,                  \* pending update of the delay
    upgrade                       \* pending upgrade to a new vault

governedVars == <<isOptimisticMintingPaused, optimisticMintingFeeDivisor,
                  optimisticMintingDelay, isMinter, isGuardian, feeUpdate,
                  delayUpdate>>
ownershipVars == <<tokenOwner, upgrade>>
mintingVars == <<tbtcBalanceOf, optimisticMintingRequests, optimisticMintingDebt>>

Holder == User \union {Treasury}
MintingRequest == [requestedAt : Nat, finalizedAt : Nat]
NoMintingRequest == [requestedAt |-> 0, finalizedAt |-> 0]

\* A pending change; it is not in progress when initiatedAt is zero.
Update(values) == [value : values, initiatedAt : Nat]
NoUpdate(value) == [value |-> value, initiatedAt |-> 0]

VaultTypeOK ==
    /\ tbtcBalanceOf \in [Holder -> Nat]
    /\ tokenOwner \in Vault
    /\ isOptimisticMintingPaused \in BOOLEAN
    /\ optimisticMintingFeeDivisor \in Nat
    /\ optimisticMintingDelay \in Nat
    /\ isMinter \subseteq Minter
    /\ isGuardian \subseteq Guardian
    /\ optimisticMintingRequests \in [DepositKey -> MintingRequest]
    /\ optimisticMintingDebt \in [User -> Nat]
    /\ feeUpdate \in Update(Nat)
    /\ delayUpdate \in Update(Nat)
    /\ upgrade \in Update(Vault \union {NoVault})

VaultInit ==
    /\ tbtcBalanceOf = [h \in Holder |-> 0]
    /\ tokenOwner = TBTCVault
    /\ isOptimisticMintingPaused = FALSE
    /\ optimisticMintingFeeDivisor = InitialOptimisticMintingFeeDivisor
    /\ optimisticMintingDelay = InitialOptimisticMintingDelay
    /\ isMinter = {}
    /\ isGuardian = {}
    /\ optimisticMintingRequests = [d \in DepositKey |-> NoMintingRequest]
    /\ optimisticMintingDebt = [u \in User |-> 0]
    /\ feeUpdate = NoUpdate(0)
    /\ delayUpdate = NoUpdate(0)
    /\ upgrade = NoUpdate(NoVault)

-----------------------------------------------------------------------------
(* Minting and unminting.                                                  *)

\* amountToSatoshis: the remainder stays with the caller.
Satoshis(amount) == amount \div SatoshiMultiplier

\* The token mints for its owner only.
MayMint == tokenOwner = TBTCVault

IssueFor(owner, satoshis) ==
    /\ MayMint
    /\ CanDecrease(balanceOf, owner, satoshis)
    /\ balanceOf' = Transferred(balanceOf, owner, TBTCVault, satoshis)
    /\ tbtcBalanceOf' =
           Increased(tbtcBalanceOf, owner, satoshis * SatoshiMultiplier)
    /\ UNCHANGED <<now, walletStorage, movedFundsSweepRequests, redemptionVars,
                   depositVars, fraudVars, governedVars, ownershipVars,
                   optimisticMintingRequests, optimisticMintingDebt>>

Mint(owner, amount) == IssueFor(owner, Satoshis(amount))

\* Through Bank.approveBalanceAndCall.
ReceiveBalanceApproval(owner, satoshis) == IssueFor(owner, satoshis)

\* _unmint and _unmintAndRedeem burn first.
BurnFrom(holder, satoshis) ==
    /\ CanDecrease(tbtcBalanceOf, holder, satoshis * SatoshiMultiplier)
    /\ tbtcBalanceOf' =
           Decreased(tbtcBalanceOf, holder, satoshis * SatoshiMultiplier)

Unmint(holder, amount) ==
    /\ BurnFrom(holder, Satoshis(amount))
    /\ CanDecrease(balanceOf, TBTCVault, Satoshis(amount))
    /\ balanceOf' = Transferred(balanceOf, TBTCVault, holder, Satoshis(amount))
    /\ UNCHANGED <<now, walletStorage, movedFundsSweepRequests, redemptionVars,
                   depositVars, fraudVars, governedVars, ownershipVars,
                   optimisticMintingRequests, optimisticMintingDebt>>

UnmintAndRedeem(holder, amount, w, script, redeemer, treasuryFee) ==
    /\ BurnFrom(holder, Satoshis(amount))
    /\ RequestRedemption(w, script, TBTCVault, redeemer, Satoshis(amount), treasuryFee)
    /\ UNCHANGED <<movedFundsSweepRequests, depositVars, fraudVars, governedVars,
                   ownershipVars, optimisticMintingRequests, optimisticMintingDebt>>

\* Holders may move their tokens.
TokenTransfer(holder, recipient, amount) ==
    /\ CanDecrease(tbtcBalanceOf, holder, amount)
    /\ tbtcBalanceOf' = Transferred(tbtcBalanceOf, holder, recipient, amount)
    /\ UNCHANGED <<vars, governedVars, ownershipVars, optimisticMintingRequests,
                   optimisticMintingDebt>>

-----------------------------------------------------------------------------
(* Sweeps routed to the vault.                                             *)

\* Mutant: what is repaid is minted as well.
MintAll(u, amount) == amount

\* repayOptimisticMintingDebt: what is left to mint after the repayment.
LeftToMint(u, amount) ==
    IF amount > optimisticMintingDebt[u] THEN amount - optimisticMintingDebt[u] ELSE 0

DebtLeft(u, amount) ==
    IF amount > optimisticMintingDebt[u] THEN 0 ELSE optimisticMintingDebt[u] - amount

\* The deposits of a depositor repay and mint one after the other, which comes
\* to the same as repaying and minting with their sum.
ReceiveBalanceIncrease(swept, depositedAmounts) ==
    LET amountOf(u) == SatoshiMultiplier *
            Total([d \in {e \in swept : deposits[e].depositor = u} |->
                      depositedAmounts[d]])
    IN  /\ MayMint
        /\ optimisticMintingDebt' = [u \in User |-> DebtLeft(u, amountOf(u))]
        /\ tbtcBalanceOf' =
               [h \in Holder |-> tbtcBalanceOf[h] +
                   IF h \in User THEN LeftToMint(h, amountOf(h)) ELSE 0]

SweepForVault(w, swept, last, outputValue, vault) ==
    /\ SubmitDepositSweepProof(w, swept, last, outputValue, vault)
    /\ \/ /\ vault = TBTCVault /\ vault \in isVaultTrusted
          /\ ReceiveBalanceIncrease(swept,
                                    DepositedAmounts(w, swept, last, outputValue))
       \/ /\ ~(vault = TBTCVault /\ vault \in isVaultTrusted)
          /\ UNCHANGED <<tbtcBalanceOf, optimisticMintingDebt>>
    /\ UNCHANGED <<movedFundsSweepRequests, redemptionVars, fraudVars, governedVars,
                   ownershipVars, optimisticMintingRequests>>

-----------------------------------------------------------------------------
(* Optimistic minting.                                                     *)

RequestOptimisticMint(minter, d) ==
    /\ minter \in isMinter
    /\ ~isOptimisticMintingPaused
    /\ optimisticMintingRequests[d].requestedAt = 0
    /\ deposits[d].revealedAt # 0
    /\ deposits[d].sweptAt = 0
    /\ deposits[d].vault = TBTCVault
    /\ optimisticMintingRequests' =
           [optimisticMintingRequests EXCEPT ![d].requestedAt = now]
    /\ UNCHANGED <<vars, governedVars, ownershipVars, tbtcBalanceOf,
                   optimisticMintingDebt>>

NotSwept(d) == deposits[d].sweptAt = 0

FinalizeOptimisticMint(minter, d) ==
    LET request == optimisticMintingRequests[d]
        depositor == deposits[d].depositor
        amountToMint == (deposits[d].amount - deposits[d].treasuryFee) * SatoshiMultiplier
        optimisticMintFee == IF optimisticMintingFeeDivisor > 0
                             THEN amountToMint \div optimisticMintingFeeDivisor ELSE 0
    IN  /\ minter \in isMinter
        /\ ~isOptimisticMintingPaused
        /\ request.requestedAt # 0
        /\ request.finalizedAt = 0
        /\ now > request.requestedAt + optimisticMintingDelay
        /\ NotSwept(d)
        /\ MayMint
        /\ optimisticMintingDebt' =
               [optimisticMintingDebt EXCEPT ![depositor] = @ + amountToMint]
        /\ tbtcBalanceOf' =
               Increased(Increased(tbtcBalanceOf, depositor,
                                   amountToMint - optimisticMintFee),
                         Treasury, optimisticMintFee)
        /\ optimisticMintingRequests' =
               [optimisticMintingRequests EXCEPT ![d].finalizedAt = now]
        /\ UNCHANGED <<vars, governedVars, ownershipVars>>

\* Mutant: a finalized request can be cancelled, and made again.
CancellableAnyTime(d) == optimisticMintingRequests[d].requestedAt # 0
Cancellable(d) == optimisticMintingRequests[d].requestedAt # 0
                  /\ optimisticMintingRequests[d].finalizedAt = 0

CancelOptimisticMint(guardian, d) ==
    /\ guardian \in isGuardian
    /\ Cancellable(d)
    /\ optimisticMintingRequests' =
           [optimisticMintingRequests EXCEPT ![d] = NoMintingRequest]
    /\ UNCHANGED <<vars, governedVars, ownershipVars, tbtcBalanceOf,
                   optimisticMintingDebt>>

-----------------------------------------------------------------------------
(* Governance of the vault.                                                *)

SetMinter(minter, isOne) ==
    /\ (minter \in isMinter) # isOne
    /\ isMinter' = IF isOne THEN isMinter \union {minter} ELSE isMinter \ {minter}
    /\ UNCHANGED <<isOptimisticMintingPaused, optimisticMintingFeeDivisor,
                   optimisticMintingDelay, isGuardian, feeUpdate, delayUpdate>>

SetGuardian(guardian, isOne) ==
    /\ (guardian \in isGuardian) # isOne
    /\ isGuardian' = IF isOne THEN isGuardian \union {guardian}
                              ELSE isGuardian \ {guardian}
    /\ UNCHANGED <<isOptimisticMintingPaused, optimisticMintingFeeDivisor,
                   optimisticMintingDelay, isMinter, feeUpdate, delayUpdate>>

\* pauseOptimisticMinting and unpauseOptimisticMinting
SetPaused(isPaused) ==
    /\ isOptimisticMintingPaused # isPaused
    /\ isOptimisticMintingPaused' = isPaused
    /\ UNCHANGED <<optimisticMintingFeeDivisor, optimisticMintingDelay, isMinter,
                   isGuardian, feeUpdate, delayUpdate>>

AfterGovernanceDelay(update) ==
    /\ update.initiatedAt > 0
    /\ now - update.initiatedAt >= GovernanceDelay

BeginOptimisticMintingFeeUpdate(divisor) ==
    /\ feeUpdate' = [value |-> divisor, initiatedAt |-> now]
    /\ UNCHANGED <<isOptimisticMintingPaused, optimisticMintingFeeDivisor,
                   optimisticMintingDelay, isMinter, isGuardian, delayUpdate>>

FinalizeOptimisticMintingFeeUpdate ==
    /\ AfterGovernanceDelay(feeUpdate)
    /\ optimisticMintingFeeDivisor' = feeUpdate.value
    /\ feeUpdate' = NoUpdate(0)
    /\ UNCHANGED <<isOptimisticMintingPaused, optimisticMintingDelay, isMinter,
                   isGuardian, delayUpdate>>

BeginOptimisticMintingDelayUpdate(delay) ==
    /\ delayUpdate' = [value |-> delay, initiatedAt |-> now]
    /\ UNCHANGED <<isOptimisticMintingPaused, optimisticMintingFeeDivisor,
                   optimisticMintingDelay, isMinter, isGuardian, feeUpdate>>

FinalizeOptimisticMintingDelayUpdate ==
    /\ AfterGovernanceDelay(delayUpdate)
    /\ optimisticMintingDelay' = delayUpdate.value
    /\ delayUpdate' = NoUpdate(0)
    /\ UNCHANGED <<isOptimisticMintingPaused, optimisticMintingFeeDivisor, isMinter,
                   isGuardian, feeUpdate>>

InitiateUpgrade(newVault) ==
    /\ upgrade' = [value |-> newVault, initiatedAt |-> now]
    /\ UNCHANGED <<vars, mintingVars, governedVars, tokenOwner>>

\* transferOwnership reverts for a vault that has been upgraded before.
FinalizeUpgrade ==
    /\ AfterGovernanceDelay(upgrade)
    /\ MayMint
    /\ tokenOwner' = upgrade.value
    /\ balanceOf' = Transferred(balanceOf, TBTCVault, upgrade.value,
                                balanceOf[TBTCVault])
    /\ upgrade' = NoUpdate(NoVault)
    /\ UNCHANGED <<now, walletStorage, movedFundsSweepRequests, redemptionVars,
                   depositVars, fraudVars, mintingVars, governedVars>>

-----------------------------------------------------------------------------
GovernanceNext ==
    \/ /\ \/ \E minter \in Minter, isOne \in BOOLEAN : SetMinter(minter, isOne)
          \/ \E guardian \in Guardian, isOne \in BOOLEAN : SetGuardian(guardian, isOne)
          \/ \E isPaused \in BOOLEAN : SetPaused(isPaused)
          \/ \E divisor \in NewFeeDivisor : BeginOptimisticMintingFeeUpdate(divisor)
          \/ FinalizeOptimisticMintingFeeUpdate
          \/ \E delay \in NewDelay : BeginOptimisticMintingDelayUpdate(delay)
          \/ FinalizeOptimisticMintingDelayUpdate
       /\ UNCHANGED <<vars, mintingVars, ownershipVars>>
    \/ \E newVault \in Vault : InitiateUpgrade(newVault)
    \/ FinalizeUpgrade

\* Treasury fees are minted to the treasury, which may unmint like any holder.
HolderNext(holder) ==
    \E amount \in TokenAmount :
        \/ Mint(holder, amount)
        \/ ReceiveBalanceApproval(holder, amount)
        \/ Unmint(holder, amount)
        \/ \E w \in Wallet, s \in Script, redeemer \in User :
              \E treasuryFee \in RedemptionTreasuryFees(Satoshis(amount)) :
                  UnmintAndRedeem(holder, amount, w, s, redeemer, treasuryFee)
        \/ \E recipient \in Holder : TokenTransfer(holder, recipient, amount)

OptimisticMintingNext ==
    \E d \in DepositKey :
        \/ \E minter \in Minter : RequestOptimisticMint(minter, d)
                                  \/ FinalizeOptimisticMint(minter, d)
        \/ \E guardian \in Guardian : CancelOptimisticMint(guardian, d)

\* The steps of the Bridge other than sweeps; of the vaults only TBTCVault owns
\* balances, which it redeems for token holders.
BridgeNext ==
    /\ \/ QuietNext
       \/ /\ \E w \in Wallet :
                \/ \E s \in Script, owner \in User, redeemer \in User :
                      \E amount \in 1..balanceOf[owner] :
                          \E treasuryFee \in RedemptionTreasuryFees(amount) :
                              RequestRedemption(w, s, owner, redeemer, amount,
                                                treasuryFee)
                \/ VetoNext(w)
                \/ SettleNext(w)
          /\ UNCHANGED <<movedFundsSweepRequests, depositVars, fraudVars>>
       \/ \E account \in Account \ Vault : OwnerNext(account)
    /\ UNCHANGED <<mintingVars, governedVars, ownershipVars>>

VaultSweepNext ==
    \E w \in Wallet, swept \in SUBSET DepositKey, vault \in Vault \union {NoVault} :
        \E last \in swept, outputValue \in 0..SweepInputs(w, swept) :
            SweepForVault(w, swept, last, outputValue, vault)

MintingNext ==
    \/ BridgeNext
    \/ VaultSweepNext
    \/ \E holder \in Holder : HolderNext(holder)
    \/ OptimisticMintingNext
    \/ GovernanceNext

MintingInit == Init /\ VaultInit
mintingSystemVars == <<vars, mintingVars, governedVars, ownershipVars>>
MintingSpec == MintingInit /\ [][MintingNext]_mintingSystemVars

-----------------------------------------------------------------------------
\* Every TBTC is backed by Bank balance of the vault (or of the vault that has
\* replaced it) or is a debt of a depositor, whatever order deposits are minted
\* for, swept and redeemed in.
VaultBalance == Total([v \in Vault |-> balanceOf[v]])
SupplyBacked ==
    Total(tbtcBalanceOf) <=
        SatoshiMultiplier * VaultBalance + Total(optimisticMintingDebt)

\* What a depositor owes over and above the deposits that are minted for and
\* still have to be swept.
MintedUnswept(u) ==
    {d \in DepositKey : /\ deposits[d].depositor = u
                        /\ optimisticMintingRequests[d].finalizedAt # 0
                        /\ deposits[d].sweptAt = 0}
NetAmount(d) == deposits[d].amount - deposits[d].treasuryFee
ExcessDebt(u) ==
    LET excess == optimisticMintingDebt[u]
                  - SatoshiMultiplier * Total([d \in MintedUnswept(u) |-> NetAmount(d)])
    IN  IF excess > 0 THEN excess ELSE 0

\* A deposit is minted for once, and its sweep repays what was minted except for
\* the transaction fee: uncovered debt only grows by that fee, or by the whole
\* deposit when the Bridge has stopped trusting the vault before the sweep.
ExcessDebtBounded ==
    [][\A u \in User :
           LET swept == MintedUnswept(u) \ MintedUnswept(u)'
           IN  ExcessDebt(u)' <= ExcessDebt(u) + SatoshiMultiplier *
                   Total([d \in swept |-> IF TBTCVault \in isVaultTrusted
                                          THEN DepositTxMaxFee ELSE NetAmount(d)])
      ]_mintingSystemVars
=============================================================================
