---------------------------- MODULE VaultProofs ----------------------------
(***************************************************************************)
(* The TBTC vault, for every set of users, vaults and deposits and every   *)
(* choice of its parameters:                                               *)
(*   - no TBTC exists that is neither backed by Bank balance of a vault    *)
(*     nor owed by a depositor;                                            *)
(*   - what a depositor owes is covered by deposits that were minted for,  *)
(*     up to transaction fees, while the Bridge trusts the vault;          *)
(*   - whatever the vault does to the Bridge and the Bank is something the *)
(*     Bridge allows.                                                      *)
(***************************************************************************)
EXTENDS TbtcVault, BridgeProofs

\* TBTC is only minted optimistically for revealed deposits.
RequestedDepositsRevealed ==
    \A d \in DepositKey :
        optimisticMintingRequests[d].requestedAt # 0 => deposits[d].revealedAt # 0

\* An upgrade hands the balance over to a vault.
UpgradesToVault == upgrade.initiatedAt # 0 => upgrade.value \in Vault

VaultInv ==
    /\ VaultTypeOK
    /\ DepositsKnown
    /\ RequestedDepositsRevealed
    /\ UpgradesToVault
    /\ SupplyBacked

-----------------------------------------------------------------------------
(***************************************************************************)
(* What the vault does to the Bridge and the Bank: a step of the Bridge,   *)
(* or a transfer of Bank balance by an account owner.                      *)
(***************************************************************************)
TransferStep ==
    /\ \E spender \in Account \ {BridgeAccount}, recipient \in Account, amount \in Nat :
          TransferBalance(spender, recipient, amount)
    /\ UNCHANGED <<now, walletStorage, movedFundsSweepRequests, redemptionVars,
                   depositVars, fraudVars>>

LEMMA HolderAccounts ==
    /\ Holder \subseteq Account \ (Vault \union {BridgeAccount})
    /\ TBTCVault \in Account \ {BridgeAccount}
BY AccountAssumption, VaultAssumption DEF Holder, Account

LEMMA SatoshisType ==
    ASSUME NEW amount \in TokenAmount
    PROVE  amount \in Nat /\ Satoshis(amount) \in Nat
<1>1. amount \in Nat /\ SatoshiMultiplier \in Nat /\ SatoshiMultiplier > 0
  BY VaultAssumption
<1>2. amount \div SatoshiMultiplier \in 0..amount
  BY <1>1, DivBound
<1> QED
  BY <1>1, <1>2 DEF Satoshis

LEMMA BridgeNextStep == BridgeNext => Next
BY DEF BridgeNext, Next, RedemptionNext, RequestNext

LEMMA VaultSweepStep == VaultSweepNext => Next
<1>1. VaultSweepNext => SweepNext /\ UNCHANGED <<movedFundsSweepRequests, redemptionVars,
                                                 fraudVars>>
  BY DEF VaultSweepNext, SweepForVault, SweepNext
<1> QED
  BY <1>1 DEF Next

LEMMA UnmintAndRedeemStep ==
    ASSUME TypeInv, NEW holder, NEW amount \in TokenAmount, NEW w \in Wallet,
           NEW s \in Script, NEW redeemer \in User,
           NEW treasuryFee \in RedemptionTreasuryFees(Satoshis(amount)),
           UnmintAndRedeem(holder, amount, w, s, redeemer, treasuryFee)
    PROVE  Next
<1> DEFINE satoshis == Satoshis(amount)
<1>1. RequestRedemption(w, s, TBTCVault, redeemer, satoshis, treasuryFee)
  BY DEF UnmintAndRedeem
<1>2. satoshis \in 1..balanceOf[TBTCVault]
  <2>1. satoshis \in Nat /\ balanceOf[TBTCVault] \in Nat
    BY SatoshisType, HolderAccounts DEF TypeInv, TypeOK, BankTypeOK
  <2>2. satoshis >= RedemptionDustThreshold /\ balanceOf[TBTCVault] >= satoshis
    BY <1>1 DEF RequestRedemption, CanDecrease
  <2>3. RedemptionDustThreshold \in Nat /\ RedemptionDustThreshold > 0
    BY RedemptionParametersAssumption DEF RedemptionParametersAccepted
  <2> HIDE DEF satoshis
  <2> QED
    BY <2>1, <2>2, <2>3
<1>3. RequestNext(w)
  BY <1>1, <1>2, VaultAssumption DEF RequestNext
<1> QED
  BY <1>3 DEF UnmintAndRedeem, RedemptionNext, Next

LEMMA HolderStep ==
    ASSUME TypeInv, NEW holder \in Holder, HolderNext(holder)
    PROVE  [Next]_vars \/ TransferStep
<1>1. ASSUME NEW satoshis \in Nat, IssueFor(holder, satoshis) PROVE TransferStep
  BY <1>1, HolderAccounts DEF IssueFor, TransferStep, TransferBalance
<1>2. ASSUME NEW amount \in TokenAmount, Unmint(holder, amount) PROVE TransferStep
  BY <1>2, HolderAccounts, SatoshisType DEF Unmint, TransferStep, TransferBalance
<1>3. ASSUME NEW recipient, NEW amount, TokenTransfer(holder, recipient, amount)
      PROVE  UNCHANGED vars
  BY <1>3 DEF TokenTransfer
<1> QED
  BY <1>1, <1>2, <1>3, SatoshisType, UnmintAndRedeemStep
     DEF HolderNext, Mint, ReceiveBalanceApproval

LEMMA OptimisticMintingStep == OptimisticMintingNext => UNCHANGED vars
BY DEF OptimisticMintingNext, RequestOptimisticMint, FinalizeOptimisticMint,
       CancelOptimisticMint

LEMMA GovernanceStep ==
    ASSUME TypeInv, UpgradesToVault, VaultTypeOK, GovernanceNext
    PROVE  UNCHANGED vars \/ TransferStep
<1>1. ASSUME FinalizeUpgrade PROVE TransferStep
  <2>1. upgrade.initiatedAt # 0
    BY <1>1 DEF FinalizeUpgrade, AfterGovernanceDelay, VaultTypeOK, Update
  <2>2. upgrade.value \in Account
    BY <2>1 DEF UpgradesToVault, Account
  <2>3. balanceOf[TBTCVault] \in Nat
    BY HolderAccounts DEF TypeInv, TypeOK, BankTypeOK
  <2>4. TransferBalance(TBTCVault, upgrade.value, balanceOf[TBTCVault])
    BY <1>1, <2>3, HolderAccounts DEF FinalizeUpgrade, TransferBalance, CanDecrease
  <2> QED
    BY <1>1, <2>2, <2>3, <2>4, HolderAccounts DEF FinalizeUpgrade, TransferStep
<1> QED
  BY <1>1 DEF GovernanceNext, InitiateUpgrade

LEMMA MintingStep ==
    ASSUME TypeInv, VaultTypeOK, UpgradesToVault, [MintingNext]_mintingSystemVars
    PROVE  [Next]_vars \/ TransferStep
BY BridgeNextStep, VaultSweepStep, HolderStep, OptimisticMintingStep, GovernanceStep
   DEF MintingNext, mintingSystemVars

LEMMA MintingTypeNext ==
    ASSUME TypeInv, VaultTypeOK, UpgradesToVault, [MintingNext]_mintingSystemVars
    PROVE  TypeInv'
<1>1. CASE TransferStep
  <2>1. BankTypeOK'
    BY <1>1, TransferredType
       DEF TransferStep, TransferBalance, TypeInv, TypeOK, BankTypeOK
  <2>2. WalletsTypeOK'
    BY <1>1 DEF TransferStep, TypeInv, TypeOK, WalletsTypeOK, walletStorage, walletVars,
                registryVars, balanceFields
  <2> QED
    BY <1>1, <2>1, <2>2, TypeUnchanged DEF TransferStep, TypeInv, TypeOK
<1> QED
  BY <1>1, MintingStep, TypeNext

-----------------------------------------------------------------------------
(***************************************************************************)
(* Minting requests.                                                       *)
(***************************************************************************)

LEMMA MintingDepositStep ==
    ASSUME TypeInv, VaultTypeOK, UpgradesToVault, [MintingNext]_mintingSystemVars,
           NEW d \in DepositKey
    PROVE  DepositStep(d)
<1>1. ASSUME UNCHANGED deposits PROVE DepositStep(d)
  BY <1>1 DEF DepositStep
<1>2. CASE TransferStep
  BY <1>1, <1>2 DEF TransferStep, depositVars
<1>3. CASE [Next]_vars
  <2>1. ASSUME NEW account, OwnerNext(account) PROVE UNCHANGED deposits
    BY <2>1 DEF OwnerNext, depositVars
  <2>2. CASE FraudNext
    BY <1>1, <2>2 DEF FraudNext, depositVars
  <2> QED
    BY <1>1, <1>3, <2>1, <2>2, DepositNextStep
       DEF Next, QuietNext, DepositNext, vars, depositVars
<1> QED
  BY <1>2, <1>3, MintingStep

\* The requests are those of VaultTypeOK, and for revealed deposits.
RequestsOK ==
    /\ optimisticMintingRequests \in [DepositKey -> MintingRequest]
    /\ RequestedDepositsRevealed

\* Only optimistic minting touches the requests.
LEMMA QuietRequests ==
    ASSUME GovernanceNext \/ VaultSweepNext \/ BridgeNext
               \/ \E holder \in Holder : HolderNext(holder)
    PROVE  UNCHANGED optimisticMintingRequests
<1>1. ASSUME NEW holder, HolderNext(holder) PROVE UNCHANGED optimisticMintingRequests
  BY <1>1 DEF HolderNext, Mint, ReceiveBalanceApproval, IssueFor, Unmint,
              UnmintAndRedeem, TokenTransfer
<1> QED
  BY <1>1 DEF GovernanceNext, InitiateUpgrade, FinalizeUpgrade, VaultSweepNext,
              SweepForVault, BridgeNext, mintingVars

LEMMA RequestsNext ==
    ASSUME TypeInv, VaultTypeOK, RequestedDepositsRevealed,
           \A d \in DepositKey : DepositStep(d), [MintingNext]_mintingSystemVars
    PROVE  RequestsOK'
<1>1. /\ now \in Nat
      /\ optimisticMintingRequests \in [DepositKey -> MintingRequest]
  BY DEF TypeInv, TypeOK, WalletsTypeOK, VaultTypeOK
<1>2. \A d \in DepositKey : deposits[d].revealedAt # 0 => deposits'[d].revealedAt # 0
  BY DEF DepositStep
<1>3. CASE UNCHANGED optimisticMintingRequests
  BY <1>1, <1>2, <1>3 DEF RequestsOK, RequestedDepositsRevealed
<1>4. ASSUME NEW minter, NEW d \in DepositKey, RequestOptimisticMint(minter, d)
      PROVE  RequestsOK'
  <2>1. /\ deposits[d].revealedAt # 0
        /\ optimisticMintingRequests' =
               [optimisticMintingRequests EXCEPT ![d].requestedAt = now]
    BY <1>4 DEF RequestOptimisticMint
  <2>2. optimisticMintingRequests' \in [DepositKey -> MintingRequest]
    BY <1>1, <2>1 DEF MintingRequest
  <2>3. \A e \in DepositKey \ {d} :
            optimisticMintingRequests'[e] = optimisticMintingRequests[e]
    BY <1>1, <2>1
  <2> QED
    BY <1>2, <2>1, <2>2, <2>3 DEF RequestsOK, RequestedDepositsRevealed
<1>5. ASSUME NEW minter, NEW d \in DepositKey, FinalizeOptimisticMint(minter, d)
      PROVE  RequestsOK'
  <2>1. optimisticMintingRequests' =
            [optimisticMintingRequests EXCEPT ![d].finalizedAt = now]
    BY <1>5 DEF FinalizeOptimisticMint
  <2>2. optimisticMintingRequests' \in [DepositKey -> MintingRequest]
    BY <1>1, <2>1 DEF MintingRequest
  <2>3. \A e \in DepositKey : optimisticMintingRequests'[e].requestedAt
                                  = optimisticMintingRequests[e].requestedAt
    BY <1>1, <2>1 DEF MintingRequest
  <2> QED
    BY <1>2, <2>2, <2>3 DEF RequestsOK, RequestedDepositsRevealed
<1>6. ASSUME NEW guardian, NEW d \in DepositKey, CancelOptimisticMint(guardian, d)
      PROVE  RequestsOK'
  BY <1>1, <1>2, <1>6 DEF CancelOptimisticMint, NoMintingRequest, MintingRequest,
                          RequestsOK, RequestedDepositsRevealed
<1>7. CASE OptimisticMintingNext
  BY <1>4, <1>5, <1>6, <1>7 DEF OptimisticMintingNext
<1> QED
  BY <1>3, <1>7, QuietRequests DEF MintingNext, mintingSystemVars, mintingVars

\* What the owner of the vault governs.
GovernedOK ==
    /\ tokenOwner \in Vault
    /\ isOptimisticMintingPaused \in BOOLEAN
    /\ optimisticMintingFeeDivisor \in Nat
    /\ optimisticMintingDelay \in Nat
    /\ isMinter \subseteq Minter
    /\ isGuardian \subseteq Guardian
    /\ feeUpdate \in Update(Nat)
    /\ delayUpdate \in Update(Nat)
    /\ upgrade \in Update(Vault \union {NoVault})
    /\ UpgradesToVault

LEMMA GovernedNext ==
    ASSUME TypeInv, VaultTypeOK, UpgradesToVault, [MintingNext]_mintingSystemVars
    PROVE  GovernedOK'
<1>0. now \in Nat /\ GovernedOK
  BY DEF TypeInv, TypeOK, WalletsTypeOK, VaultTypeOK, GovernedOK
<1>1. CASE UNCHANGED <<governedVars, ownershipVars>>
  BY <1>0, <1>1 DEF GovernedOK, UpgradesToVault, governedVars, ownershipVars
<1>2. ASSUME UNCHANGED ownershipVars,
             \/ \E minter \in Minter, isOne \in BOOLEAN : SetMinter(minter, isOne)
             \/ \E guardian \in Guardian, isOne \in BOOLEAN : SetGuardian(guardian, isOne)
             \/ \E isPaused \in BOOLEAN : SetPaused(isPaused)
      PROVE  GovernedOK'
  BY <1>0, <1>2 DEF GovernedOK, UpgradesToVault, ownershipVars, SetMinter, SetGuardian,
                    SetPaused
<1>3. ASSUME UNCHANGED ownershipVars,
             \/ \E divisor \in NewFeeDivisor : BeginOptimisticMintingFeeUpdate(divisor)
             \/ \E delay \in NewDelay : BeginOptimisticMintingDelayUpdate(delay)
      PROVE  GovernedOK'
  BY <1>0, <1>3, VaultAssumption
     DEF GovernedOK, UpgradesToVault, ownershipVars, Update,
         BeginOptimisticMintingFeeUpdate, BeginOptimisticMintingDelayUpdate
<1>4. ASSUME UNCHANGED ownershipVars,
             FinalizeOptimisticMintingFeeUpdate \/ FinalizeOptimisticMintingDelayUpdate
      PROVE  GovernedOK'
  BY <1>0, <1>4
     DEF GovernedOK, UpgradesToVault, ownershipVars, Update, NoUpdate,
         FinalizeOptimisticMintingFeeUpdate, FinalizeOptimisticMintingDelayUpdate
<1>5. ASSUME NEW newVault \in Vault, InitiateUpgrade(newVault) PROVE GovernedOK'
  BY <1>0, <1>5 DEF GovernedOK, UpgradesToVault, InitiateUpgrade, governedVars, Update
<1>6. ASSUME FinalizeUpgrade PROVE GovernedOK'
  <2>1. upgrade.value \in Vault
    BY <1>0, <1>6 DEF GovernedOK, UpgradesToVault, FinalizeUpgrade,
                      AfterGovernanceDelay, Update
  <2> QED
    BY <1>0, <1>6, <2>1 DEF GovernedOK, UpgradesToVault, FinalizeUpgrade, governedVars,
                            Update, NoUpdate
<1>7. CASE GovernanceNext
  BY <1>2, <1>3, <1>4, <1>5, <1>6, <1>7 DEF GovernanceNext
<1>8. ASSUME NEW holder, HolderNext(holder) PROVE GovernedOK'
  BY <1>1, <1>8 DEF HolderNext, Mint, ReceiveBalanceApproval, IssueFor, Unmint,
                    UnmintAndRedeem, TokenTransfer
<1>9. CASE OptimisticMintingNext \/ VaultSweepNext \/ BridgeNext
  BY <1>1, <1>9 DEF OptimisticMintingNext, RequestOptimisticMint,
                    FinalizeOptimisticMint, CancelOptimisticMint, VaultSweepNext,
                    SweepForVault, BridgeNext
<1> QED
  BY <1>1, <1>7, <1>8, <1>9 DEF MintingNext, mintingSystemVars

-----------------------------------------------------------------------------
(***************************************************************************)
(* The supply and what backs it.                                           *)
(***************************************************************************)

\* What the vaults hold out of balances.
VaultTotal(balances) == Total([v \in Vault |-> balances[v]])
IsBacked(tbtc, balances, debt) ==
    Total(tbtc) <= SatoshiMultiplier * VaultTotal(balances) + Total(debt)

LEMMA SupplyBackedIsBacked ==
    /\ SupplyBacked <=> IsBacked(tbtcBalanceOf, balanceOf, optimisticMintingDebt)
    /\ SupplyBacked' <=> IsBacked(tbtcBalanceOf', balanceOf', optimisticMintingDebt')
BY DEF SupplyBacked, VaultBalance, IsBacked, VaultTotal

LEMMA HolderFinite == IsFiniteSet(Holder) /\ Treasury \notin User
BY AccountAssumption, FS_Singleton, FS_Union DEF Holder

LEMMA ScaleSum ==
    ASSUME NEW k \in Nat, NEW a \in Int, NEW b \in Int
    PROVE  k * (a + b) = k * a + k * b
OBVIOUS

LEMMA ScaleDifference ==
    ASSUME NEW k \in Nat, NEW a \in Int, NEW b \in Int
    PROVE  k * (a - b) = k * a - k * b
OBVIOUS

LEMMA ScaleType ==
    ASSUME NEW k \in Nat, NEW a \in Nat
    PROVE  k * a \in Nat /\ a * k = k * a
OBVIOUS

LEMMA ScaleMonotone ==
    ASSUME NEW k \in Nat, NEW a \in Nat, NEW b \in Nat, a <= b
    PROVE  k * a <= k * b
<1>1. PICK c \in Nat : b = a + c
  <2>1. b - a \in Nat /\ b = a + (b - a)
    OBVIOUS
  <2> QED
    BY <2>1
<1>2. k * b = k * a + k * c
  BY <1>1, ScaleSum
<1>3. k * a \in Nat /\ k * c \in Nat
  BY ScaleType
<1> QED
  BY <1>2, <1>3

LEMMA VaultTotalType ==
    ASSUME NEW b \in [Account -> Nat]
    PROVE  /\ [v \in Vault |-> b[v]] \in [Vault -> Nat]
           /\ VaultTotal(b) \in Nat
<1>1. [v \in Vault |-> b[v]] \in [Vault -> Nat]
  BY Accounts
<1> QED
  BY <1>1, AccountAssumption, TotalType DEF VaultTotal

LEMMA VaultTotalMonotone ==
    ASSUME NEW b \in [Account -> Nat], NEW c \in [Account -> Nat],
           \A v \in Vault : b[v] <= c[v]
    PROVE  VaultTotal(b) <= VaultTotal(c)
<1> DEFINE f == [v \in Vault |-> b[v]]
           g == [v \in Vault |-> c[v]]
<1>1. f \in [Vault -> Nat] /\ g \in [Vault -> Nat] /\ \A v \in Vault : f[v] <= g[v]
  BY VaultTotalType
<1> HIDE DEF f, g
<1>2. Total(f) <= Total(g)
  BY <1>1, AccountAssumption, TotalMonotone
<1> QED
  BY <1>2 DEF VaultTotal, f, g

\* The balance of one vault changes by n.
LEMMA VaultTotalChange ==
    ASSUME NEW b \in [Account -> Nat], NEW c \in [Account -> Nat], NEW vault \in Vault,
           NEW n \in Int, c[vault] = b[vault] + n,
           \A v \in Vault \ {vault} : c[v] = b[v]
    PROVE  VaultTotal(c) = VaultTotal(b) + n
<1> DEFINE f == [v \in Vault |-> b[v]]
           g == [v \in Vault |-> c[v]]
<1>1. /\ f \in [Vault -> Nat] /\ g \in [Vault -> Nat]
      /\ g[vault] = f[vault] + n /\ f[vault] \in Nat
      /\ \A v \in Vault \ {vault} : g[v] = f[v]
  BY VaultTotalType
<1> HIDE DEF f, g
<1>2. Total(g) = Total(f) - f[vault] + g[vault] /\ Total(f) \in Nat
  BY <1>1, AccountAssumption, TotalUpdate, TotalType
<1>3. Total(g) = Total(f) + n
  BY <1>1, <1>2
<1> QED
  BY <1>3 DEF VaultTotal, f, g

\* One vault hands balance over to another.
LEMMA VaultTotalTransferred ==
    ASSUME NEW b \in [Account -> Nat], NEW spender \in Vault, NEW recipient \in Vault,
           NEW amount \in Nat, CanDecrease(b, spender, amount)
    PROVE  VaultTotal(Transferred(b, spender, recipient, amount)) = VaultTotal(b)
<1> DEFINE f == [v \in Vault |-> b[v]]
           g == [v \in Vault |-> Transferred(b, spender, recipient, amount)[v]]
<1>1. f \in [Vault -> Nat]
  BY VaultTotalType
<1>2. CanDecrease(f, spender, amount)
  BY DEF CanDecrease
<1>3. g = Transferred(f, spender, recipient, amount)
  BY Accounts DEF Transferred, Increased, Decreased
<1> HIDE DEF f, g
<1>4. Total(g) = Total(f)
  BY <1>1, <1>2, <1>3, AccountAssumption, TransferredTotal
<1> QED
  BY <1>4 DEF VaultTotal, f, g

\* An account that pays nothing loses nothing.
LEMMA OthersPay ==
    ASSUME NEW b \in [Account -> Nat], NEW a \in Account, NEW spender, spender # a,
           NEW recipient, NEW amount \in Nat
    PROVE  Transferred(b, spender, recipient, amount)[a] >= b[a]
<1>1. b[a] \in Nat /\ Decreased(b, spender, amount)[a] = b[a]
      /\ a \in DOMAIN Decreased(b, spender, amount)
  BY DEF Decreased
<1>2. Transferred(b, spender, recipient, amount)[a] \in {b[a], b[a] + amount}
  BY <1>1 DEF Transferred, Increased
<1> QED
  BY <1>1, <1>2

LEMMA VaultsOfTheirOwn ==
    ASSUME NEW v \in Vault
    PROVE  /\ v \in Account /\ v \notin User
           /\ v # BridgeAccount /\ v # Treasury /\ v # Watchtower
BY AccountAssumption, VaultAssumption, Accounts

\* The Bridge only takes balance of its own and of those who redeem.
LEMMA RedemptionVaultBalance ==
    ASSUME TypeInv, NEW v \in Vault, NEW w \in Wallet,
           \/ \E s \in Script, owner \in User, redeemer \in User :
                 \E amount \in 1..balanceOf[owner] :
                     \E treasuryFee \in RedemptionTreasuryFees(amount) :
                         RequestRedemption(w, s, owner, redeemer, amount, treasuryFee)
           \/ VetoNext(w)
           \/ SettleNext(w)
    PROVE  balanceOf'[v] >= balanceOf[v]
<1>0. balanceOf \in [Account -> Nat] /\ balanceOf[v] \in Nat
  BY VaultsOfTheirOwn DEF TypeInv, TypeOK, BankTypeOK
<1>1. ASSUME NEW s \in Script, NEW owner \in User, NEW redeemer \in User,
             NEW amount \in 1..balanceOf[owner], NEW treasuryFee,
             RequestRedemption(w, s, owner, redeemer, amount, treasuryFee)
      PROVE  balanceOf'[v] >= balanceOf[v]
  <2>1. amount \in Nat
    BY <1>0, Accounts
  <2>2. balanceOf' = Transferred(balanceOf, owner, BridgeAccount, amount)
    BY <1>1 DEF RequestRedemption
  <2> QED
    BY <1>0, <2>1, <2>2, VaultsOfTheirOwn, OthersPay
<1>2. ASSUME NEW s \in Script, NEW penaltyFee, NotifyRedemptionVeto(w, s, penaltyFee)
      PROVE  balanceOf'[v] >= balanceOf[v]
  <2> DEFINE amount == pendingRedemptions[<<w, s>>].requestedAmount
             detained == Transferred(balanceOf, BridgeAccount, Watchtower, amount)
  <2>1. amount \in Nat /\ CanDecrease(balanceOf, BridgeAccount, amount)
    BY <1>2, RequestFields DEF NotifyRedemptionVeto
  <2>2. balanceOf' = Decreased(detained, Watchtower, penaltyFee)
    BY <1>2 DEF NotifyRedemptionVeto
  <2>3. detained[v] >= balanceOf[v]
    <3> HIDE DEF amount
    <3> QED
      BY <1>0, <2>1, VaultsOfTheirOwn, OthersPay
  <2>4. detained \in [Account -> Nat]
    <3> HIDE DEF amount
    <3> QED
      BY <1>0, <2>1, Accounts, TransferredType
  <2> HIDE DEF detained
  <2>5. balanceOf'[v] = detained[v]
    BY <2>2, <2>4, VaultsOfTheirOwn DEF Decreased
  <2> QED
    BY <2>3, <2>5
<1>3. ASSUME NEW s \in Script, NotifyRedemptionTimeout(w, s)
      PROVE  balanceOf'[v] >= balanceOf[v]
  <2>1. balanceOf' = Transferred(balanceOf, BridgeAccount,
                                 pendingRedemptions[<<w, s>>].redeemer,
                                 pendingRedemptions[<<w, s>>].requestedAmount)
    BY <1>3 DEF NotifyRedemptionTimeout
  <2> QED
    BY <1>0, <2>1, RequestFields, VaultsOfTheirOwn, OthersPay
<1>4. ASSUME NEW outputs, NEW changeValue, SubmitRedemptionProof(w, outputs, changeValue)
      PROVE  balanceOf'[v] >= balanceOf[v]
  <2> DEFINE Paid(burnt, fee) == Transferred(Decreased(balanceOf, BridgeAccount, burnt),
                                             BridgeAccount, Treasury, fee)
  <2>1. \E burnt, fee : balanceOf' = Paid(burnt, fee)
    BY <1>4 DEF SubmitRedemptionProof
  <2>2. ASSUME NEW burnt, NEW fee PROVE Paid(burnt, fee)[v] = balanceOf[v]
    BY <1>0, VaultsOfTheirOwn DEF Transferred, Decreased, Increased
  <2> QED
    BY <1>0, <2>1, <2>2
<1> QED
  BY <1>1, <1>2, <1>3, <1>4 DEF VetoNext, SettleNext

\* No step of the Bridge, and no sweep, takes balance from a vault.
LEMMA BridgeVaultBalance ==
    ASSUME TypeInv, NEW v \in Vault, BridgeNext \/ VaultSweepNext
    PROVE  balanceOf'[v] >= balanceOf[v]
<1>0. balanceOf \in [Account -> Nat] /\ balanceOf[v] \in Nat
  BY VaultsOfTheirOwn DEF TypeInv, TypeOK, BankTypeOK
<1>1. CASE RevealNext \/ VaultStatusNext \/ VaultSweepNext
  <2>1. DepositNext
    BY <1>1 DEF VaultSweepNext, SweepForVault, DepositNext, SweepNext
  <2> QED
    BY <2>1, VaultsOfTheirOwn, DepositBalances
<1>2. CASE UNCHANGED balanceOf
  BY <1>0, <1>2
<1>3. ASSUME NEW account \in Account \ Vault, OwnerNext(account)
      PROVE  balanceOf'[v] >= balanceOf[v]
  <2>1. ASSUME NEW amount \in TransferAmount, NEW recipient \in Account,
               TransferBalance(account, recipient, amount)
        PROVE  balanceOf'[v] >= balanceOf[v]
    BY <1>0, <2>1, AccountAssumption, VaultsOfTheirOwn, OthersPay DEF TransferBalance
  <2>2. ASSUME NEW amount \in TransferAmount, DecreaseBalance(account, amount)
        PROVE  balanceOf'[v] >= balanceOf[v]
    BY <1>0, <2>2, VaultsOfTheirOwn DEF DecreaseBalance, Decreased
  <2> QED
    BY <1>3, <2>1, <2>2 DEF OwnerNext
<1>4. CASE QuietNext
  BY <1>1, <1>2, <1>4 DEF QuietNext, FraudNext
<1> QED
  BY <1>1, <1>3, <1>4, RedemptionVaultBalance DEF BridgeNext

SupplyOK ==
    /\ tbtcBalanceOf \in [Holder -> Nat]
    /\ optimisticMintingDebt \in [User -> Nat]
    /\ SupplyBacked

\* The totals SupplyOK compares are natural numbers.
LEMMA SupplyTotals ==
    ASSUME NEW tbtc \in [Holder -> Nat], NEW balances \in [Account -> Nat],
           NEW debt \in [User -> Nat]
    PROVE  /\ Total(tbtc) \in Nat
           /\ Total(debt) \in Nat
           /\ SatoshiMultiplier * VaultTotal(balances) \in Nat
<1>1. VaultTotal(balances) \in Nat /\ SatoshiMultiplier \in Nat
  BY VaultTotalType, VaultAssumption
<1>2. SatoshiMultiplier * VaultTotal(balances) \in Nat
  BY <1>1, ScaleType
<1>3. Total(tbtc) \in Nat /\ Total(debt) \in Nat
  BY HolderFinite, AccountAssumption, TotalType
<1> QED
  BY <1>2, <1>3

LEMMA MoreBalance ==
    ASSUME NEW b \in [Account -> Nat], NEW c \in [Account -> Nat],
           \A v \in Vault : c[v] >= b[v],
           NEW tbtc \in [Holder -> Nat], NEW debt \in [User -> Nat],
           IsBacked(tbtc, b, debt)
    PROVE  IsBacked(tbtc, c, debt)
<1>1. VaultTotal(b) \in Nat /\ VaultTotal(c) \in Nat /\ SatoshiMultiplier \in Nat
  BY VaultTotalType, VaultAssumption
<1>2. VaultTotal(b) <= VaultTotal(c)
  <2>1. \A v \in Vault : b[v] <= c[v]
    BY Accounts
  <2> QED
    BY <2>1, VaultTotalMonotone
<1>3. SatoshiMultiplier * VaultTotal(b) <= SatoshiMultiplier * VaultTotal(c)
  BY <1>1, <1>2, ScaleMonotone
<1> QED
  BY <1>3, SupplyTotals DEF IsBacked

LEMMA BridgeSupply ==
    ASSUME TypeInv, TypeInv', SupplyOK, BridgeNext
    PROVE  SupplyOK'
<1>1. UNCHANGED <<tbtcBalanceOf, optimisticMintingDebt>>
  BY DEF BridgeNext, mintingVars
<1>2. balanceOf \in [Account -> Nat] /\ balanceOf' \in [Account -> Nat]
  BY DEF TypeInv, TypeOK, BankTypeOK
<1>3. \A v \in Vault : balanceOf'[v] >= balanceOf[v]
  BY BridgeVaultBalance
<1>4. IsBacked(tbtcBalanceOf, balanceOf', optimisticMintingDebt)
  BY <1>2, <1>3, MoreBalance, SupplyBackedIsBacked DEF SupplyOK
<1> QED
  BY <1>1, <1>4, SupplyBackedIsBacked DEF SupplyOK

\* Minting: TBTC and the balance of the vault grow together.
LEMMA IssueForSupply ==
    ASSUME TypeInv, TypeInv', SupplyOK, NEW holder \in Holder, NEW satoshis \in Nat,
           IssueFor(holder, satoshis)
    PROVE  SupplyOK'
<1> DEFINE amount == satoshis * SatoshiMultiplier
<1>1. amount \in Nat /\ amount = SatoshiMultiplier * satoshis /\ SatoshiMultiplier \in Nat
  BY VaultAssumption, ScaleType
<1>2. /\ tbtcBalanceOf' = Increased(tbtcBalanceOf, holder, amount)
      /\ balanceOf' = Transferred(balanceOf, holder, TBTCVault, satoshis)
      /\ UNCHANGED optimisticMintingDebt
  BY DEF IssueFor
<1>3. balanceOf \in [Account -> Nat] /\ balanceOf' \in [Account -> Nat]
  BY DEF TypeInv, TypeOK, BankTypeOK
<1> HIDE DEF amount
<1>4. /\ tbtcBalanceOf' \in [Holder -> Nat]
      /\ Total(tbtcBalanceOf') = Total(tbtcBalanceOf) + amount
  BY <1>1, <1>2, HolderFinite, IncreasedTotal DEF SupplyOK
<1>5. VaultTotal(balanceOf') = VaultTotal(balanceOf) + satoshis
  <2>1. /\ balanceOf'[TBTCVault] = balanceOf[TBTCVault] + satoshis
        /\ \A v \in Vault \ {TBTCVault} : balanceOf'[v] = balanceOf[v]
    BY <1>2, <1>3, HolderAccounts, VaultAssumption, VaultsOfTheirOwn
       DEF Transferred, Decreased, Increased
  <2> QED
    BY <1>3, <2>1, VaultAssumption, VaultTotalChange
<1>6. SatoshiMultiplier * VaultTotal(balanceOf')
          = SatoshiMultiplier * VaultTotal(balanceOf) + amount
  BY <1>1, <1>3, <1>5, VaultTotalType, ScaleSum
<1>7. IsBacked(tbtcBalanceOf', balanceOf', optimisticMintingDebt')
  BY <1>1, <1>2, <1>3, <1>4, <1>6, SupplyTotals, SupplyBackedIsBacked
     DEF SupplyOK, IsBacked
<1> QED
  BY <1>2, <1>4, <1>7, SupplyBackedIsBacked DEF SupplyOK

\* Unminting and redeeming: TBTC is burned for the balance the vault gives away.
LEMMA BurnSupply ==
    ASSUME TypeInv, TypeInv', SupplyOK, NEW holder \in Holder, NEW satoshis \in Nat,
           BurnFrom(holder, satoshis), UNCHANGED optimisticMintingDebt,
           NEW recipient \in Account \ Vault,
           CanDecrease(balanceOf, TBTCVault, satoshis),
           balanceOf' = Transferred(balanceOf, TBTCVault, recipient, satoshis)
    PROVE  SupplyOK'
<1> DEFINE amount == satoshis * SatoshiMultiplier
<1>1. amount \in Nat /\ amount = SatoshiMultiplier * satoshis /\ SatoshiMultiplier \in Nat
  BY VaultAssumption, ScaleType
<1>2. /\ CanDecrease(tbtcBalanceOf, holder, amount)
      /\ tbtcBalanceOf' = Decreased(tbtcBalanceOf, holder, amount)
  BY DEF BurnFrom
<1>3. balanceOf \in [Account -> Nat] /\ balanceOf' \in [Account -> Nat]
  BY DEF TypeInv, TypeOK, BankTypeOK
<1> HIDE DEF amount
<1>4. /\ tbtcBalanceOf' \in [Holder -> Nat]
      /\ Total(tbtcBalanceOf') = Total(tbtcBalanceOf) - amount
  BY <1>1, <1>2, HolderFinite, DecreasedTotal DEF SupplyOK
<1>5. VaultTotal(balanceOf') = VaultTotal(balanceOf) - satoshis
  <2>1. /\ balanceOf'[TBTCVault] = balanceOf[TBTCVault] - satoshis
        /\ \A v \in Vault \ {TBTCVault} : balanceOf'[v] = balanceOf[v]
    BY <1>3, HolderAccounts, VaultAssumption, VaultsOfTheirOwn
       DEF Transferred, Decreased, Increased
  <2>2. balanceOf'[TBTCVault] = balanceOf[TBTCVault] + (-satoshis)
    BY <1>3, <2>1, HolderAccounts
  <2>3. VaultTotal(balanceOf') = VaultTotal(balanceOf) + (-satoshis)
    BY <1>3, <2>1, <2>2, VaultAssumption, VaultTotalChange
  <2> QED
    BY <1>3, <2>3, VaultTotalType
<1>6. SatoshiMultiplier * VaultTotal(balanceOf')
          = SatoshiMultiplier * VaultTotal(balanceOf) - amount
  BY <1>1, <1>3, <1>5, VaultTotalType, ScaleDifference
<1>7. IsBacked(tbtcBalanceOf', balanceOf', optimisticMintingDebt')
  BY <1>1, <1>3, <1>4, <1>6, SupplyTotals, SupplyBackedIsBacked
     DEF SupplyOK, IsBacked
<1> QED
  BY <1>4, <1>7, SupplyBackedIsBacked DEF SupplyOK

LEMMA HolderSupply ==
    ASSUME TypeInv, TypeInv', SupplyOK, NEW holder \in Holder, HolderNext(holder)
    PROVE  SupplyOK'
<1>1. ASSUME NEW amount \in TokenAmount,
             Mint(holder, amount) \/ ReceiveBalanceApproval(holder, amount)
      PROVE  SupplyOK'
  BY <1>1, SatoshisType, IssueForSupply DEF Mint, ReceiveBalanceApproval
<1>2. ASSUME NEW amount \in TokenAmount, Unmint(holder, amount)
      PROVE  SupplyOK'
  BY <1>2, SatoshisType, HolderAccounts, BurnSupply DEF Unmint
<1>3. ASSUME NEW amount \in TokenAmount, NEW w, NEW s, NEW redeemer, NEW treasuryFee,
             UnmintAndRedeem(holder, amount, w, s, redeemer, treasuryFee)
      PROVE  SupplyOK'
  <2>1. BridgeAccount \in Account \ Vault
    BY Accounts, AccountAssumption
  <2>2. /\ CanDecrease(balanceOf, TBTCVault, Satoshis(amount))
        /\ balanceOf' = Transferred(balanceOf, TBTCVault, BridgeAccount, Satoshis(amount))
        /\ BurnFrom(holder, Satoshis(amount))
        /\ UNCHANGED optimisticMintingDebt
    BY <1>3 DEF UnmintAndRedeem, RequestRedemption
  <2> QED
    BY <2>1, <2>2, SatoshisType, BurnSupply
<1>4. ASSUME NEW amount \in TokenAmount, NEW recipient \in Holder,
             TokenTransfer(holder, recipient, amount)
      PROVE  SupplyOK'
  <2>1. /\ amount \in Nat /\ CanDecrease(tbtcBalanceOf, holder, amount)
        /\ tbtcBalanceOf' = Transferred(tbtcBalanceOf, holder, recipient, amount)
        /\ UNCHANGED <<balanceOf, optimisticMintingDebt>>
    BY <1>4, SatoshisType DEF TokenTransfer, vars
  <2>2. /\ tbtcBalanceOf' \in [Holder -> Nat]
        /\ Total(tbtcBalanceOf') = Total(tbtcBalanceOf)
    BY <2>1, HolderFinite, TransferredTotal DEF SupplyOK
  <2> QED
    BY <2>1, <2>2, SupplyBackedIsBacked DEF SupplyOK, IsBacked
<1> QED
  BY <1>1, <1>2, <1>3, <1>4 DEF HolderNext

LEMMA GovernanceSupply ==
    ASSUME TypeInv, VaultTypeOK, UpgradesToVault, SupplyOK, GovernanceNext
    PROVE  SupplyOK'
<1>1. UNCHANGED <<tbtcBalanceOf, optimisticMintingDebt>>
  BY DEF GovernanceNext, InitiateUpgrade, FinalizeUpgrade, mintingVars
<1>2. CASE UNCHANGED balanceOf
  BY <1>1, <1>2, SupplyBackedIsBacked DEF SupplyOK
<1>3. CASE FinalizeUpgrade
  <2>1. upgrade.value \in Vault
    BY <1>3 DEF FinalizeUpgrade, AfterGovernanceDelay, VaultTypeOK, Update,
                UpgradesToVault
  <2>2. /\ balanceOf \in [Account -> Nat] /\ balanceOf[TBTCVault] \in Nat
        /\ CanDecrease(balanceOf, TBTCVault, balanceOf[TBTCVault])
    BY HolderAccounts DEF TypeInv, TypeOK, BankTypeOK, CanDecrease
  <2>3. balanceOf' = Transferred(balanceOf, TBTCVault, upgrade.value,
                                 balanceOf[TBTCVault])
    BY <1>3 DEF FinalizeUpgrade
  <2>4. VaultTotal(balanceOf') = VaultTotal(balanceOf)
    BY <2>1, <2>2, <2>3, VaultAssumption, VaultTotalTransferred
  <2> QED
    BY <1>1, <2>4, SupplyBackedIsBacked DEF SupplyOK, IsBacked
<1> QED
  BY <1>2, <1>3 DEF GovernanceNext, InitiateUpgrade, vars

\* Optimistic minting: the depositor and the treasury get what the depositor
\* owes from then on.
LEMMA FinalizeOptimisticMintSupply ==
    ASSUME TypeInv, VaultTypeOK, SupplyOK, DepositsKnown, RequestedDepositsRevealed,
           NEW minter, NEW d \in DepositKey, FinalizeOptimisticMint(minter, d)
    PROVE  SupplyOK'
<1> DEFINE depositor == deposits[d].depositor
           amountToMint == (deposits[d].amount - deposits[d].treasuryFee)
                               * SatoshiMultiplier
           fee == IF optimisticMintingFeeDivisor > 0
                  THEN amountToMint \div optimisticMintingFeeDivisor ELSE 0
           toDepositor == Increased(tbtcBalanceOf, depositor, amountToMint - fee)
<1>1. /\ optimisticMintingDebt' =
             [optimisticMintingDebt EXCEPT ![depositor] = @ + amountToMint]
      /\ tbtcBalanceOf' = Increased(toDepositor, Treasury, fee)
      /\ UNCHANGED balanceOf
  BY DEF FinalizeOptimisticMint, vars
<1>2. depositor \in User /\ depositor \in Holder /\ Treasury \in Holder
  BY DEF FinalizeOptimisticMint, RequestedDepositsRevealed, DepositsKnown, Holder
<1>3. amountToMint \in Nat
  <2>1. /\ deposits[d].amount \in Nat /\ deposits[d].treasuryFee \in Nat
        /\ deposits[d].treasuryFee <= deposits[d].amount
    BY DEF DepositsKnown, TypeInv, TypeOK, DepositTypeOK, DepositRequest
  <2>2. deposits[d].amount - deposits[d].treasuryFee \in Nat
    BY <2>1
  <2> QED
    BY <2>2, VaultAssumption, ScaleType
<1> HIDE DEF amountToMint
<1>4. fee \in Nat /\ amountToMint - fee \in Nat
  <2>1. optimisticMintingFeeDivisor \in Nat
    BY DEF VaultTypeOK
  <2>2. fee \in 0..amountToMint
    BY <1>3, <2>1, DivBound
  <2> HIDE DEF fee
  <2> QED
    BY <1>3, <2>2
<1> HIDE DEF depositor, fee
<1>5. /\ toDepositor \in [Holder -> Nat]
      /\ Total(toDepositor) = Total(tbtcBalanceOf) + (amountToMint - fee)
  BY <1>2, <1>4, HolderFinite, IncreasedTotal DEF SupplyOK
<1> HIDE DEF toDepositor
<1>6. /\ tbtcBalanceOf' \in [Holder -> Nat]
      /\ Total(tbtcBalanceOf') = Total(toDepositor) + fee
  BY <1>1, <1>2, <1>4, <1>5, HolderFinite, IncreasedTotal
<1>7. /\ optimisticMintingDebt' \in [User -> Nat]
      /\ Total(optimisticMintingDebt') = Total(optimisticMintingDebt) + amountToMint
  <2>1. optimisticMintingDebt' = Increased(optimisticMintingDebt, depositor, amountToMint)
    BY <1>1 DEF Increased
  <2> QED
    BY <1>2, <1>3, <2>1, AccountAssumption, IncreasedTotal DEF SupplyOK
<1>8. balanceOf \in [Account -> Nat]
  BY DEF TypeInv, TypeOK, BankTypeOK
<1>9. IsBacked(tbtcBalanceOf', balanceOf', optimisticMintingDebt')
  <2>1. IsBacked(tbtcBalanceOf, balanceOf, optimisticMintingDebt)
    BY SupplyBackedIsBacked DEF SupplyOK
  <2>2. Total(tbtcBalanceOf') = Total(tbtcBalanceOf) + amountToMint
    BY <1>3, <1>4, <1>5, <1>6, <1>8, SupplyTotals DEF SupplyOK
  <2> QED
    BY <1>1, <1>3, <1>7, <1>8, <2>1, <2>2, SupplyTotals DEF SupplyOK, IsBacked
<1> QED
  BY <1>6, <1>7, <1>9, SupplyBackedIsBacked DEF SupplyOK

LEMMA OptimisticMintingSupply ==
    ASSUME TypeInv, VaultTypeOK, SupplyOK, DepositsKnown, RequestedDepositsRevealed,
           OptimisticMintingNext
    PROVE  SupplyOK'
<1>1. CASE UNCHANGED <<balanceOf, tbtcBalanceOf, optimisticMintingDebt>>
  BY <1>1, SupplyBackedIsBacked DEF SupplyOK
<1>2. ASSUME NEW minter, NEW guardian, NEW d,
             RequestOptimisticMint(minter, d) \/ CancelOptimisticMint(guardian, d)
      PROVE  UNCHANGED <<balanceOf, tbtcBalanceOf, optimisticMintingDebt>>
  BY <1>2 DEF RequestOptimisticMint, CancelOptimisticMint, vars
<1> QED
  BY <1>1, <1>2, FinalizeOptimisticMintSupply DEF OptimisticMintingNext

\* What a routed sweep pays in: all that it credits, to the vault.
LEMMA RoutedSweepBalance ==
    ASSUME TypeInv, TypeInv', NEW w \in Wallet, NEW swept \in SUBSET DepositKey,
           NEW last \in swept, NEW outputValue \in Nat, TBTCVault \in isVaultTrusted,
           SubmitDepositSweepProof(w, swept, last, outputValue, TBTCVault)
    PROVE  VaultTotal(balanceOf') = VaultTotal(balanceOf)
               + Total(DepositedAmounts(w, swept, last, outputValue))
<1> DEFINE credit == DepositedAmounts(w, swept, last, outputValue)
           credits == SweepCredits(swept, TBTCVault, credit)
<1>1. credit \in [swept -> Nat]
  BY DepositedAmountsType
<1>2. balanceOf' = AllIncreased(balanceOf, credits)
  BY DEF SubmitDepositSweepProof
<1> HIDE DEF credit
<1>3. Total(credit) \in Nat
  BY <1>1, DepositAssumption, FS_Subset, TotalType
<1>4. balanceOf \in [Account -> Nat] /\ balanceOf' \in [Account -> Nat]
  BY DEF TypeInv, TypeOK, BankTypeOK
<1>5. ASSUME NEW v \in Vault
      PROVE  credits[v] = IF v = TBTCVault THEN Total(credit) ELSE 0
  <2>1. TBTCVault # NoVault /\ v \in Account /\ v # Treasury
    BY DepositAssumption, VaultAssumption, VaultsOfTheirOwn
  <2>2. credits[v] = (IF v = TBTCVault THEN Total(credit) ELSE 0) + 0
    BY <2>1 DEF SweepCredits
  <2> QED
    BY <1>3, <2>2
<1> HIDE DEF credits
<1>6. /\ balanceOf'[TBTCVault] = balanceOf[TBTCVault] + Total(credit)
      /\ \A v \in Vault \ {TBTCVault} : balanceOf'[v] = balanceOf[v]
  BY <1>2, <1>4, <1>5, Accounts, VaultAssumption DEF AllIncreased
<1>7. VaultTotal(balanceOf') = VaultTotal(balanceOf) + Total(credit)
  BY <1>3, <1>4, <1>6, VaultAssumption, VaultTotalChange
<1> QED
  BY <1>7 DEF credit

\* What the depositors of a routed sweep get, in units of the token: all of it.
DepositorAmount(swept, credit, u) ==
    SatoshiMultiplier *
        Total([d \in {e \in swept : deposits[e].depositor = u} |-> credit[d]])

LEMMA DepositorAmounts ==
    ASSUME NEW swept \in SUBSET DepositKey, NEW credit \in [swept -> Nat],
           \A d \in swept : deposits[d].depositor \in User,
           NEW amounts, amounts = [u \in User |-> DepositorAmount(swept, credit, u)]
    PROVE  /\ amounts \in [User -> Nat]
           /\ Total(amounts) = SatoshiMultiplier * Total(credit)
<1> DEFINE of(u) == {e \in swept : deposits[e].depositor = u}
           inSatoshis == [u \in User |-> Total([d \in of(u) |-> credit[d]])]
           class == [d \in swept |-> deposits[d].depositor]
<1>1. IsFiniteSet(swept) /\ \A u : IsFiniteSet(of(u))
  BY DepositAssumption, FS_Subset
<1>2. ASSUME NEW u \in User PROVE Total([d \in of(u) |-> credit[d]]) \in Nat
  <2>1. [d \in of(u) |-> credit[d]] \in [of(u) -> Nat]
    OBVIOUS
  <2> HIDE DEF of
  <2> QED
    BY <1>1, <2>1, TotalType
<1>3. inSatoshis \in [User -> Nat] /\ class \in [swept -> User]
  BY <1>2
<1>4. \A u \in User :
          inSatoshis[u] = Total([d \in {e \in swept : class[e] = u} |-> credit[d]])
  <2> SUFFICES ASSUME NEW u \in User
               PROVE  inSatoshis[u]
                          = Total([d \in {e \in swept : class[e] = u} |-> credit[d]])
    OBVIOUS
  <2>1. of(u) = {e \in swept : class[e] = u}
    OBVIOUS
  <2>2. inSatoshis[u] = Total([d \in of(u) |-> credit[d]])
    OBVIOUS
  <2> HIDE DEF of, class, inSatoshis
  <2> QED
    BY <2>1, <2>2
<1>5. \A u \in User : amounts[u] = SatoshiMultiplier * inSatoshis[u]
  BY DEF DepositorAmount
<1> HIDE DEF inSatoshis, class
<1>6. Total(inSatoshis) = Total(credit)
  BY <1>1, <1>3, <1>4, AccountAssumption, TotalPartition
<1>7. amounts \in [User -> Nat]
  <2>1. \A u \in User : amounts[u] \in Nat
    BY <1>3, <1>5, VaultAssumption, ScaleType
  <2> QED
    BY <2>1
<1>8. Total(amounts) = SatoshiMultiplier * Total(inSatoshis)
  BY <1>3, <1>5, <1>7, AccountAssumption, VaultAssumption, TotalScale
<1> QED
  BY <1>6, <1>7, <1>8

\* A routed sweep mints what it does not repay.
LEMMA RepayAndMint ==
    ASSUME VaultTypeOK, NEW amounts \in [User -> Nat],
           NEW tbtc, tbtc = [h \in Holder |-> tbtcBalanceOf[h] +
                                IF h \in User THEN LeftToMint(h, amounts[h]) ELSE 0],
           NEW debt, debt = [u \in User |-> DebtLeft(u, amounts[u])]
    PROVE  /\ tbtc \in [Holder -> Nat] /\ debt \in [User -> Nat]
           /\ Total(tbtc) + Total(optimisticMintingDebt)
                  = Total(tbtcBalanceOf) + Total(debt) + Total(amounts)
<1> DEFINE minted == [u \in User |-> LeftToMint(u, amounts[u])]
           mintedTo == [h \in Holder |->
                           IF h \in User THEN LeftToMint(h, amounts[h]) ELSE 0]
           sum == [u \in User |-> minted[u] + optimisticMintingDebt[u]]
<1>1. tbtcBalanceOf \in [Holder -> Nat] /\ optimisticMintingDebt \in [User -> Nat]
  BY DEF VaultTypeOK
<1>2. ASSUME NEW u \in User
      PROVE  /\ LeftToMint(u, amounts[u]) \in Nat /\ DebtLeft(u, amounts[u]) \in Nat
             /\ LeftToMint(u, amounts[u]) + optimisticMintingDebt[u]
                    = DebtLeft(u, amounts[u]) + amounts[u]
  BY <1>1 DEF LeftToMint, DebtLeft
<1>3. minted \in [User -> Nat] /\ debt \in [User -> Nat] /\ mintedTo \in [Holder -> Nat]
  BY <1>2
<1>4. sum \in [User -> Nat] /\ \A u \in User : sum[u] = debt[u] + amounts[u]
  BY <1>1, <1>2
<1>5. \A u \in User : sum[u] = minted[u] + optimisticMintingDebt[u]
  OBVIOUS
<1>6. \A h \in Holder : tbtc[h] = tbtcBalanceOf[h] + mintedTo[h]
  OBVIOUS
<1>7. tbtc \in [Holder -> Nat]
  <2>1. \A h \in Holder : tbtc[h] \in Nat
    BY <1>1, <1>3, <1>6
  <2> QED
    BY <2>1
<1>8. /\ \A h \in Holder : mintedTo[h] # 0 => h \in User /\ minted[h] = mintedTo[h]
      /\ \A u \in User : minted[u] # 0 => u \in Holder /\ mintedTo[u] = minted[u]
  BY DEF Holder
<1> HIDE DEF minted, mintedTo, sum
<1>9. Total(mintedTo) = Total(minted)
  BY <1>3, <1>8, TotalOfNonzero, Z3
<1>10. Total(sum) = Total(minted) + Total(optimisticMintingDebt)
  BY <1>1, <1>3, <1>4, <1>5, AccountAssumption, TotalSum
<1>11. Total(sum) = Total(debt) + Total(amounts)
  BY <1>3, <1>4, AccountAssumption, TotalSum
<1>12. Total(tbtc) = Total(tbtcBalanceOf) + Total(mintedTo)
  BY <1>1, <1>3, <1>6, <1>7, HolderFinite, TotalSum
<1>13. /\ Total(tbtcBalanceOf) \in Nat /\ Total(minted) \in Nat
       /\ Total(optimisticMintingDebt) \in Nat
       /\ Total(debt) \in Nat /\ Total(amounts) \in Nat
  BY <1>1, <1>3, HolderFinite, AccountAssumption, TotalType
<1>14. Total(tbtc) + Total(optimisticMintingDebt)
           = Total(tbtcBalanceOf) + Total(debt) + Total(amounts)
  BY <1>9, <1>10, <1>11, <1>12, <1>13
<1> QED
  BY <1>3, <1>7, <1>14

LEMMA RoutedSweepSupply ==
    ASSUME TypeInv, TypeInv', VaultTypeOK, SupplyBacked, DepositsKnown,
           NEW w \in Wallet, NEW swept \in SUBSET DepositKey, NEW last \in swept,
           NEW outputValue \in Nat, TBTCVault \in isVaultTrusted,
           SubmitDepositSweepProof(w, swept, last, outputValue, TBTCVault),
           ReceiveBalanceIncrease(swept, DepositedAmounts(w, swept, last, outputValue))
    PROVE  SupplyOK'
<1> DEFINE credit == DepositedAmounts(w, swept, last, outputValue)
           amounts == [u \in User |-> DepositorAmount(swept, credit, u)]
<1>1. credit \in [swept -> Nat]
  BY DepositedAmountsType
<1>2. \A d \in swept : deposits[d].depositor \in User
  BY DEF SubmitDepositSweepProof, DepositsKnown
<1>3. /\ optimisticMintingDebt' = [u \in User |-> DebtLeft(u, amounts[u])]
      /\ tbtcBalanceOf' =
             [h \in Holder |-> tbtcBalanceOf[h] +
                 IF h \in User THEN LeftToMint(h, amounts[h]) ELSE 0]
  BY DEF ReceiveBalanceIncrease, DepositorAmount
<1>4. VaultTotal(balanceOf') = VaultTotal(balanceOf) + Total(credit)
  BY RoutedSweepBalance
<1>5. Total(credit) \in Nat
  <2> HIDE DEF credit
  <2> QED
    BY <1>1, DepositAssumption, FS_Subset, TotalType
<1> HIDE DEF credit
<1>6. amounts \in [User -> Nat] /\ Total(amounts) = SatoshiMultiplier * Total(credit)
  BY <1>1, <1>2, DepositorAmounts
<1> HIDE DEF amounts
<1>7. /\ tbtcBalanceOf' \in [Holder -> Nat] /\ optimisticMintingDebt' \in [User -> Nat]
      /\ Total(tbtcBalanceOf') + Total(optimisticMintingDebt)
             = Total(tbtcBalanceOf) + Total(optimisticMintingDebt') + Total(amounts)
  BY <1>3, <1>6, RepayAndMint
<1>8. /\ balanceOf \in [Account -> Nat] /\ balanceOf' \in [Account -> Nat]
      /\ tbtcBalanceOf \in [Holder -> Nat] /\ optimisticMintingDebt \in [User -> Nat]
  BY DEF TypeInv, TypeOK, BankTypeOK, VaultTypeOK
<1>9. SatoshiMultiplier * VaultTotal(balanceOf')
          = SatoshiMultiplier * VaultTotal(balanceOf) + Total(amounts)
  BY <1>4, <1>5, <1>6, <1>8, VaultAssumption, VaultTotalType, ScaleSum
<1>10. IsBacked(tbtcBalanceOf', balanceOf', optimisticMintingDebt')
  <2>1. /\ Total(tbtcBalanceOf) \in Nat /\ Total(tbtcBalanceOf') \in Nat
        /\ Total(optimisticMintingDebt) \in Nat /\ Total(optimisticMintingDebt') \in Nat
        /\ SatoshiMultiplier * VaultTotal(balanceOf) \in Nat
        /\ SatoshiMultiplier * VaultTotal(balanceOf') \in Nat
    BY <1>7, <1>8, SupplyTotals
  <2>2. Total(tbtcBalanceOf) <= SatoshiMultiplier * VaultTotal(balanceOf)
                                    + Total(optimisticMintingDebt)
    BY SupplyBackedIsBacked DEF IsBacked
  <2>3. Total(amounts) \in Nat
    BY <1>6, AccountAssumption, TotalType
  <2>4. Total(tbtcBalanceOf') <= SatoshiMultiplier * VaultTotal(balanceOf')
                                     + Total(optimisticMintingDebt')
    BY <1>7, <1>9, <2>1, <2>2, <2>3
  <2> QED
    BY <2>4 DEF IsBacked
<1> QED
  BY <1>7, <1>10, SupplyBackedIsBacked DEF SupplyOK

LEMMA VaultSweepSupply ==
    ASSUME TypeInv, TypeInv', VaultTypeOK, SupplyOK, DepositsKnown, VaultSweepNext
    PROVE  SupplyOK'
<1>1. ASSUME UNCHANGED <<tbtcBalanceOf, optimisticMintingDebt>> PROVE SupplyOK'
  <2>1. balanceOf \in [Account -> Nat] /\ balanceOf' \in [Account -> Nat]
    BY DEF TypeInv, TypeOK, BankTypeOK
  <2>2. IsBacked(tbtcBalanceOf, balanceOf', optimisticMintingDebt)
    BY <2>1, BridgeVaultBalance, MoreBalance, SupplyBackedIsBacked DEF SupplyOK
  <2> QED
    BY <1>1, <2>2, SupplyBackedIsBacked DEF SupplyOK
<1>2. PICK w \in Wallet, swept \in SUBSET DepositKey, vault \in Vault \union {NoVault} :
          \E last \in swept, outputValue \in 0..SweepInputs(w, swept) :
              SweepForVault(w, swept, last, outputValue, vault)
  BY DEF VaultSweepNext
<1>3. PICK last \in swept, outputValue \in 0..SweepInputs(w, swept) :
          SweepForVault(w, swept, last, outputValue, vault)
  BY <1>2
<1>4. outputValue \in Nat
  BY SweepInputsType
<1>5. SubmitDepositSweepProof(w, swept, last, outputValue, vault)
  BY <1>3 DEF SweepForVault
<1>6. CASE vault = TBTCVault /\ vault \in isVaultTrusted
  <2>1. ReceiveBalanceIncrease(swept, DepositedAmounts(w, swept, last, outputValue))
    BY <1>3, <1>6 DEF SweepForVault
  <2> QED
    BY <1>4, <1>5, <1>6, <2>1, RoutedSweepSupply DEF SupplyOK
<1>7. CASE ~(vault = TBTCVault /\ vault \in isVaultTrusted)
  BY <1>1, <1>3, <1>7 DEF SweepForVault
<1> QED
  BY <1>6, <1>7

-----------------------------------------------------------------------------
(***************************************************************************)
(* The invariant of the vault.                                             *)
(***************************************************************************)
LEMMA VaultInvParts ==
    ASSUME VaultInv
    PROVE  /\ VaultTypeOK /\ DepositsKnown /\ RequestedDepositsRevealed
           /\ UpgradesToVault /\ SupplyOK
BY DEF VaultInv, SupplyOK, VaultTypeOK

LEMMA SupplyNext ==
    ASSUME TypeInv, TypeInv', VaultInv, [MintingNext]_mintingSystemVars
    PROVE  SupplyOK'
<1>1. /\ VaultTypeOK /\ DepositsKnown /\ RequestedDepositsRevealed
      /\ UpgradesToVault /\ SupplyOK
  BY VaultInvParts
<1>2. CASE UNCHANGED mintingSystemVars
  BY <1>1, <1>2, SupplyBackedIsBacked
     DEF mintingSystemVars, mintingVars, vars, SupplyOK
<1> QED
  BY <1>1, <1>2, BridgeSupply, VaultSweepSupply, HolderSupply, OptimisticMintingSupply,
     GovernanceSupply DEF MintingNext

LEMMA VaultInvNext ==
    ASSUME TypeInv, VaultInv, [MintingNext]_mintingSystemVars
    PROVE  TypeInv' /\ VaultInv'
<1>1. TypeInv'
  BY VaultInvParts, MintingTypeNext
<1>2. \A d \in DepositKey : DepositStep(d)
  BY VaultInvParts, MintingDepositStep
<1>3. DepositsKnown' /\ RequestsOK' /\ GovernedOK' /\ SupplyOK'
  BY <1>1, <1>2, VaultInvParts, DepositsKnownNext, RequestsNext, GovernedNext, SupplyNext
<1> QED
  BY <1>1, <1>3 DEF VaultInv, VaultTypeOK, RequestsOK, GovernedOK, SupplyOK

LEMMA VaultInvInit == MintingInit => VaultInv
<1> SUFFICES ASSUME Init, VaultInit PROVE VaultInv
  BY DEF MintingInit
<1>1. VaultTypeOK
  BY VaultAssumption DEF VaultInit, VaultTypeOK, NoMintingRequest, MintingRequest,
                         NoUpdate, Update
<1>2. DepositsKnown /\ RequestedDepositsRevealed /\ UpgradesToVault
  BY DEF Init, DepositInit, NoDeposit, VaultInit, NoMintingRequest, NoUpdate,
         DepositsKnown, RequestedDepositsRevealed, UpgradesToVault
<1>3. IsBacked(tbtcBalanceOf, balanceOf, optimisticMintingDebt)
  <2>1. balanceOf \in [Account -> Nat]
    BY TypeInit DEF TypeInv, TypeOK, BankTypeOK
  <2>2. tbtcBalanceOf \in [Holder -> Nat] /\ optimisticMintingDebt \in [User -> Nat]
    BY <1>1 DEF VaultTypeOK
  <2>3. Total(tbtcBalanceOf) = 0
    BY <2>2, TotalZero DEF VaultInit
  <2> QED
    BY <2>1, <2>2, <2>3, SupplyTotals DEF IsBacked
<1> QED
  BY <1>1, <1>2, <1>3, SupplyBackedIsBacked DEF VaultInv

\* The Bridge and the vault stay well typed together, requests are for revealed
\* deposits, and the books of the vault balance.
THEOREM VaultInvariant == MintingSpec => [](TypeInv /\ VaultInv)
<1>1. MintingInit => TypeInv /\ VaultInv
  BY TypeInit, VaultInvInit DEF MintingInit
<1>2. TypeInv /\ VaultInv /\ [MintingNext]_mintingSystemVars => TypeInv' /\ VaultInv'
  BY VaultInvNext
<1> QED
  BY <1>1, <1>2, PTL DEF MintingSpec

\* Every TBTC is backed by Bank balance that a vault holds, or by what depositors
\* owe for deposits that were minted for: whatever is minted, swept, repaid,
\* unminted and redeemed in whatever order, also after the vault was replaced.
THEOREM SupplyBackedTheorem == MintingSpec => []SupplyBacked
<1>1. VaultInv => SupplyBacked
  BY DEF VaultInv
<1> QED
  BY <1>1, VaultInvariant, PTL

\* The vault uses the Bridge and the Bank as any account owner may: with it, the
\* Bridge keeps the behaviour that its own theorems are about.  TransferAmount
\* bounds what the model checker tries; here it bounds nothing.
THEOREM VaultImplementsBridge ==
    ASSUME TransferAmount = Nat
    PROVE  MintingSpec => Spec
<1>1. MintingInit => Init
  BY DEF MintingInit
<1>2. TypeInv /\ VaultInv /\ [MintingNext]_mintingSystemVars => [Next]_vars
  <2> SUFFICES ASSUME TypeInv, VaultInv, [MintingNext]_mintingSystemVars
               PROVE  [Next]_vars
    OBVIOUS
  <2>1. ASSUME TransferStep PROVE Next
    BY <2>1 DEF TransferStep, Next, OwnerNext
  <2> QED
    BY <2>1, VaultInvParts, MintingStep
<1> QED
  BY <1>1, <1>2, VaultInvariant, PTL DEF MintingSpec, Spec

-----------------------------------------------------------------------------
(***************************************************************************)
(* Uncovered debt.                                                         *)
(***************************************************************************)
\* A deposit that was minted for has been requested, and routed to the vault.
MintedInv ==
    \A d \in DepositKey :
        /\ optimisticMintingRequests[d].finalizedAt # 0 =>
              optimisticMintingRequests[d].requestedAt # 0
        /\ optimisticMintingRequests[d].requestedAt # 0 => deposits[d].vault = TBTCVault

LEMMA MintedNext ==
    ASSUME TypeInv, VaultTypeOK, RequestedDepositsRevealed, MintedInv,
           \A d \in DepositKey : DepositStep(d), [MintingNext]_mintingSystemVars
    PROVE  MintedInv'
<1>1. optimisticMintingRequests \in [DepositKey -> MintingRequest]
  BY DEF VaultTypeOK
<1>2. \A d \in DepositKey : deposits[d].revealedAt # 0 => deposits'[d].vault = deposits[d].vault
  BY DEF DepositStep
<1>3. CASE UNCHANGED optimisticMintingRequests
  BY <1>2, <1>3 DEF MintedInv, RequestedDepositsRevealed
<1>4. ASSUME NEW minter, NEW d \in DepositKey, RequestOptimisticMint(minter, d)
      PROVE  MintedInv'
  <2>1. /\ deposits[d].vault = TBTCVault
        /\ UNCHANGED deposits
        /\ optimisticMintingRequests' =
               [optimisticMintingRequests EXCEPT ![d].requestedAt = now]
        /\ now # 0
    BY <1>4 DEF RequestOptimisticMint, vars, depositVars, TypeInv, TypeOK, WalletsTypeOK
  <2>2. \A e \in DepositKey : optimisticMintingRequests'[e].finalizedAt
                                  = optimisticMintingRequests[e].finalizedAt
    BY <1>1, <2>1 DEF MintingRequest
  <2>3. \A e \in DepositKey \ {d} :
            optimisticMintingRequests'[e] = optimisticMintingRequests[e]
    BY <1>1, <2>1
  <2>4. optimisticMintingRequests'[d].requestedAt = now
    BY <1>1, <2>1 DEF MintingRequest
  <2> QED
    BY <2>1, <2>2, <2>3, <2>4 DEF MintedInv
<1>5. ASSUME NEW minter, NEW d \in DepositKey, FinalizeOptimisticMint(minter, d)
      PROVE  MintedInv'
  <2>1. /\ optimisticMintingRequests[d].requestedAt # 0
        /\ UNCHANGED deposits
        /\ optimisticMintingRequests' =
               [optimisticMintingRequests EXCEPT ![d].finalizedAt = now]
    BY <1>5 DEF FinalizeOptimisticMint, vars, depositVars
  <2>2. \A e \in DepositKey : optimisticMintingRequests'[e].requestedAt
                                  = optimisticMintingRequests[e].requestedAt
    BY <1>1, <2>1 DEF MintingRequest
  <2>3. \A e \in DepositKey \ {d} :
            optimisticMintingRequests'[e] = optimisticMintingRequests[e]
    BY <1>1, <2>1
  <2> QED
    BY <2>1, <2>2, <2>3 DEF MintedInv
<1>6. ASSUME NEW guardian, NEW d \in DepositKey, CancelOptimisticMint(guardian, d)
      PROVE  MintedInv'
  BY <1>1, <1>6 DEF CancelOptimisticMint, NoMintingRequest, MintingRequest, MintedInv,
                    vars, depositVars
<1>7. CASE OptimisticMintingNext
  BY <1>4, <1>5, <1>6, <1>7 DEF OptimisticMintingNext
<1> QED
  BY <1>3, <1>7, QuietRequests DEF MintingNext, mintingSystemVars, mintingVars

\* What ExcessDebtBounded says of a depositor.
Owed(u) == Total([d \in MintedUnswept(u) |-> NetAmount(d)])
UncoveredGrowth(lost) ==
    SatoshiMultiplier * Total([d \in lost |-> IF TBTCVault \in isVaultTrusted
                                              THEN DepositTxMaxFee ELSE NetAmount(d)])
ExcessStep(u) ==
    ExcessDebt(u)' <= ExcessDebt(u) + UncoveredGrowth(MintedUnswept(u) \ MintedUnswept(u)')

Excess(debt, owed) ==
    IF debt - SatoshiMultiplier * owed > 0 THEN debt - SatoshiMultiplier * owed ELSE 0

LEMMA ExcessParts ==
    ASSUME NEW u
    PROVE  /\ ExcessDebt(u) = Excess(optimisticMintingDebt[u], Owed(u))
           /\ ExcessDebt(u)' = Excess(optimisticMintingDebt'[u], Owed(u)')
BY DEF ExcessDebt, Excess, Owed

LEMMA NetAmountType ==
    ASSUME TypeInv, DepositsKnown, NEW d \in DepositKey
    PROVE  NetAmount(d) \in Nat
BY DEF TypeInv, TypeOK, DepositTypeOK, DepositRequest, DepositsKnown, NetAmount

LEMMA OwedType ==
    ASSUME TypeInv, DepositsKnown, NEW S \in SUBSET DepositKey
    PROVE  /\ IsFiniteSet(S)
           /\ [d \in S |-> NetAmount(d)] \in [S -> Nat]
           /\ Total([d \in S |-> NetAmount(d)]) \in Nat
<1>1. IsFiniteSet(S)
  BY DepositAssumption, FS_Subset
<1>2. [d \in S |-> NetAmount(d)] \in [S -> Nat]
  BY NetAmountType
<1> QED
  BY <1>1, <1>2, TotalType

LEMMA UncoveredGrowthType ==
    ASSUME TypeInv, DepositsKnown, NEW S \in SUBSET DepositKey
    PROVE  UncoveredGrowth(S) \in Nat
<1> DEFINE f == [d \in S |-> IF TBTCVault \in isVaultTrusted
                             THEN DepositTxMaxFee ELSE NetAmount(d)]
<1>1. f \in [S -> Nat]
  BY NetAmountType, DepositParametersAssumption DEF DepositParametersAccepted
<1>2. IsFiniteSet(S)
  BY OwedType
<1> HIDE DEF f
<1>3. Total(f) \in Nat
  BY <1>1, <1>2, TotalType
<1>4. SatoshiMultiplier * Total(f) \in Nat
  BY <1>3, VaultAssumption, ScaleType
<1> QED
  BY <1>4 DEF UncoveredGrowth, f

\* Where neither the debt nor what is minted and unswept changes, nor does the
\* uncovered debt.
LEMMA ExcessKept ==
    ASSUME TypeInv, VaultTypeOK, DepositsKnown, NEW u \in User,
           optimisticMintingDebt'[u] = optimisticMintingDebt[u],
           \A d \in DepositKey : /\ optimisticMintingRequests'[d].finalizedAt
                                        = optimisticMintingRequests[d].finalizedAt
                                 /\ optimisticMintingRequests[d].finalizedAt # 0
                                        => deposits'[d] = deposits[d]
    PROVE  ExcessStep(u)
<1>1. MintedUnswept(u)' = MintedUnswept(u)
  BY DEF MintedUnswept
<1>2. \A d \in MintedUnswept(u) : NetAmount(d)' = NetAmount(d)
  BY DEF MintedUnswept, NetAmount
<1>3. Owed(u)' = Owed(u)
  <2>1. [d \in MintedUnswept(u)' |-> NetAmount(d)'] = [d \in MintedUnswept(u) |-> NetAmount(d)]
    BY <1>1, <1>2
  <2> QED
    BY <2>1 DEF Owed
<1>4. UncoveredGrowth(MintedUnswept(u) \ MintedUnswept(u)') \in Nat
  <2>1. MintedUnswept(u) \ MintedUnswept(u)' \in SUBSET DepositKey
    BY DEF MintedUnswept
  <2> QED
    BY <2>1, UncoveredGrowthType
<1>5. ExcessDebt(u)' = ExcessDebt(u) /\ ExcessDebt(u) \in Int
  <2>1. /\ optimisticMintingDebt[u] \in Nat /\ Owed(u) \in Nat
    BY OwedType DEF VaultTypeOK, Owed, MintedUnswept
  <2>2. SatoshiMultiplier * Owed(u) \in Nat
    BY <2>1, VaultAssumption, ScaleType
  <2> QED
    BY <1>3, <2>1, <2>2, ExcessParts DEF Excess
<1> QED
  BY <1>4, <1>5 DEF ExcessStep

\* Minting optimistically adds the same to the debt and to what is to be swept.
LEMMA FinalizeExcess ==
    ASSUME TypeInv, VaultTypeOK, DepositsKnown, RequestedDepositsRevealed,
           NEW minter, NEW d \in DepositKey, FinalizeOptimisticMint(minter, d),
           NEW u \in User
    PROVE  ExcessStep(u)
<1> DEFINE minted == MintedUnswept(u)
           f == [e \in minted \union {d} |-> NetAmount(e)]
<1>1. /\ UNCHANGED deposits
      /\ deposits[d].sweptAt = 0
      /\ optimisticMintingRequests[d].finalizedAt = 0
      /\ optimisticMintingRequests' =
             [optimisticMintingRequests EXCEPT ![d].finalizedAt = now]
      /\ optimisticMintingDebt' =
             [optimisticMintingDebt EXCEPT ![deposits[d].depositor]
                                  = @ + NetAmount(d) * SatoshiMultiplier]
      /\ optimisticMintingDebt \in [User -> Nat]
      /\ now # 0
  BY DEF FinalizeOptimisticMint, NotSwept, NetAmount, vars, depositVars, VaultTypeOK,
         TypeInv, TypeOK, WalletsTypeOK
<1>2. /\ optimisticMintingRequests'[d].finalizedAt # 0
      /\ \A e \in DepositKey \ {d} : optimisticMintingRequests'[e] = optimisticMintingRequests[e]
  BY <1>1 DEF VaultTypeOK, MintingRequest
<1>3. CASE deposits[d].depositor # u
  <2>1. optimisticMintingDebt'[u] = optimisticMintingDebt[u]
    BY <1>1, <1>3
  <2>2. MintedUnswept(u)' = MintedUnswept(u)
    BY <1>1, <1>2, <1>3 DEF MintedUnswept
  <2>3. Owed(u)' = Owed(u)
    <3>1. [e \in MintedUnswept(u)' |-> NetAmount(e)'] = [e \in MintedUnswept(u) |-> NetAmount(e)]
      BY <1>1, <2>2 DEF NetAmount
    <3> QED
      BY <3>1 DEF Owed
  <2>4. UncoveredGrowth(MintedUnswept(u) \ MintedUnswept(u)') \in Nat
    <3>1. MintedUnswept(u) \ MintedUnswept(u)' \in SUBSET DepositKey
      BY DEF MintedUnswept
    <3> QED
      BY <3>1, UncoveredGrowthType
  <2>5. ExcessDebt(u)' = ExcessDebt(u) /\ ExcessDebt(u) \in Int
    <3>1. optimisticMintingDebt[u] \in Nat /\ Owed(u) \in Nat
      BY OwedType DEF VaultTypeOK, Owed, MintedUnswept
    <3>2. SatoshiMultiplier * Owed(u) \in Nat
      BY <3>1, VaultAssumption, ScaleType
    <3> QED
      BY <2>1, <2>3, <3>1, <3>2, ExcessParts DEF Excess
  <2> QED
    BY <2>4, <2>5 DEF ExcessStep
<1>4. CASE deposits[d].depositor = u
  <2>1. optimisticMintingDebt'[u] = optimisticMintingDebt[u] + NetAmount(d) * SatoshiMultiplier
    BY <1>1, <1>4
  <2>2. MintedUnswept(u)' = minted \union {d} /\ d \notin minted /\ minted \in SUBSET DepositKey
    BY <1>1, <1>2, <1>4 DEF MintedUnswept
  <2>3. Owed(u)' = Total(f)
    <3>1. [e \in MintedUnswept(u)' |-> NetAmount(e)'] = f
      BY <1>1, <2>2 DEF NetAmount
    <3> QED
      BY <3>1 DEF Owed
  <2>4. Total(f) = Owed(u) + NetAmount(d)
    <3>1. f \in [minted \union {d} -> Nat] /\ IsFiniteSet(minted \union {d})
          /\ minted \in SUBSET (minted \union {d})
      BY <2>2, OwedType
    <3>2. /\ [e \in minted |-> f[e]] = [e \in minted |-> NetAmount(e)]
          /\ [e \in (minted \union {d}) \ minted |-> f[e]] = [e \in {d} |-> NetAmount(e)]
      BY <2>2
    <3> HIDE DEF f, minted
    <3>3. Total(f) = Total([e \in minted |-> f[e]])
                         + Total([e \in (minted \union {d}) \ minted |-> f[e]])
      BY <3>1, TotalSplit, Zenon
    <3>4. Total([e \in {d} |-> NetAmount(e)]) = NetAmount(d)
      <4>1. [e \in {d} |-> NetAmount(e)] \in [{d} -> Nat]
        BY NetAmountType
      <4> QED
        BY <4>1, TotalSingleton
    <3> QED
      BY <3>2, <3>3, <3>4 DEF Owed, minted
  <2>5. /\ optimisticMintingDebt[u] \in Nat /\ Owed(u) \in Nat /\ NetAmount(d) \in Nat
        /\ SatoshiMultiplier \in Nat
    BY <1>1, <2>2, OwedType, NetAmountType, VaultAssumption DEF Owed
  <2>6. SatoshiMultiplier * (Owed(u) + NetAmount(d))
            = SatoshiMultiplier * Owed(u) + NetAmount(d) * SatoshiMultiplier
    BY <2>5, ScaleSum, ScaleType
  <2>7. /\ SatoshiMultiplier * Owed(u) \in Nat
        /\ NetAmount(d) * SatoshiMultiplier \in Nat
    BY <2>5, ScaleType
  <2>8. ExcessDebt(u)' = ExcessDebt(u) /\ ExcessDebt(u) \in Int
    BY <2>1, <2>3, <2>4, <2>5, <2>6, <2>7, ExcessParts DEF Excess
  <2>9. UncoveredGrowth(MintedUnswept(u) \ MintedUnswept(u)') \in Nat
    <3>1. MintedUnswept(u) \ MintedUnswept(u)' \in SUBSET DepositKey
      BY DEF MintedUnswept
    <3> QED
      BY <3>1, UncoveredGrowthType
  <2> QED
    BY <2>8, <2>9 DEF ExcessStep
<1> QED
  BY <1>3, <1>4

\* A sweep takes the deposits in lost from what is still to be swept and repays
\* some of the debt.
LEMMA SweptExcess ==
    ASSUME TypeInv, VaultTypeOK, DepositsKnown, NEW u \in User,
           NEW lost \in SUBSET MintedUnswept(u),
           MintedUnswept(u)' = MintedUnswept(u) \ lost,
           \A d \in MintedUnswept(u)' : NetAmount(d)' = NetAmount(d),
           NEW repaid \in Nat,
           optimisticMintingDebt'[u] = IF repaid > optimisticMintingDebt[u] THEN 0
                                       ELSE optimisticMintingDebt[u] - repaid,
           SatoshiMultiplier * Total([d \in lost |-> NetAmount(d)])
               <= repaid + UncoveredGrowth(lost)
    PROVE  ExcessStep(u)
<1> DEFINE minted == MintedUnswept(u)
           f == [d \in minted |-> NetAmount(d)]
           lostNet == Total([d \in lost |-> NetAmount(d)])
           debt == optimisticMintingDebt[u]
           scale(x) == SatoshiMultiplier * x
<1>1. minted \in SUBSET DepositKey /\ lost \in SUBSET DepositKey
      /\ MintedUnswept(u) \ MintedUnswept(u)' = lost
  BY DEF MintedUnswept
<1>2. Owed(u)' = Total([d \in minted \ lost |-> NetAmount(d)])
  <2>1. [d \in MintedUnswept(u)' |-> NetAmount(d)'] = [d \in minted \ lost |-> NetAmount(d)]
    OBVIOUS
  <2> QED
    BY <2>1 DEF Owed
<1>3. Owed(u) = lostNet + Owed(u)'
  <2>1. f \in [minted -> Nat] /\ IsFiniteSet(minted)
    BY <1>1, OwedType
  <2>2. /\ [d \in lost |-> f[d]] = [d \in lost |-> NetAmount(d)]
        /\ [d \in minted \ lost |-> f[d]] = [d \in minted \ lost |-> NetAmount(d)]
    OBVIOUS
  <2>3. lost \in SUBSET minted
    OBVIOUS
  <2> HIDE DEF f, minted
  <2>4. Total(f) = Total([d \in lost |-> f[d]]) + Total([d \in minted \ lost |-> f[d]])
    BY ONLY <2>1, <2>3, TotalSplit
  <2> QED
    BY <1>2, <2>2, <2>4 DEF Owed, f, minted
<1>4. /\ lostNet \in Nat /\ Owed(u)' \in Nat /\ Owed(u) \in Nat
      /\ debt \in Nat /\ UncoveredGrowth(lost) \in Nat
  <2>1. lostNet \in Nat /\ UncoveredGrowth(lost) \in Nat
    BY <1>1, OwedType, UncoveredGrowthType
  <2>2. Total([d \in minted \ lost |-> NetAmount(d)]) \in Nat
    BY <1>1, OwedType
  <2>3. Owed(u) \in Nat
    BY <1>1, OwedType DEF Owed
  <2> QED
    BY <1>2, <2>1, <2>2, <2>3 DEF VaultTypeOK
<1> HIDE DEF lostNet, minted, f
<1>5. /\ SatoshiMultiplier * Owed(u) = SatoshiMultiplier * lostNet + SatoshiMultiplier * Owed(u)'
      /\ SatoshiMultiplier * Owed(u) \in Nat /\ SatoshiMultiplier * lostNet \in Nat
      /\ SatoshiMultiplier * Owed(u)' \in Nat
  BY <1>3, <1>4, VaultAssumption, ScaleSum, ScaleType
<1>6. SatoshiMultiplier * lostNet <= repaid + UncoveredGrowth(lost)
  BY DEF lostNet
<1>7. Excess(optimisticMintingDebt'[u], Owed(u)')
          <= Excess(debt, Owed(u)) + UncoveredGrowth(lost)
  BY <1>4, <1>5, <1>6 DEF Excess
<1> QED
  BY <1>1, <1>7, ExcessParts DEF ExcessStep

\* No deposit bears more than the fee that the Bridge checked for the last one.
LEMMA FeeShareBound ==
    ASSUME TypeInv, NEW w \in Wallet, NEW swept \in SUBSET DepositKey, NEW vault,
           NEW last \in swept, NEW outputValue \in Nat,
           SubmitDepositSweepProof(w, swept, last, outputValue, vault), NEW d \in swept
    PROVE  NetAmount(d) <= DepositedAmounts(w, swept, last, outputValue)[d]
                               + DepositTxMaxFee
<1> DEFINE txFee == SweepInputs(w, swept) - outputValue
           count == Cardinality(swept)
           credit == DepositedAmounts(w, swept, last, outputValue)
<1>1. txFee \in Nat
  BY SweepInputsType DEF SubmitDepositSweepProof
<1>2. count \in Nat /\ count > 0
  BY DepositAssumption, FS_Subset, FS_CardinalityType, FS_EmptySet
<1>3. DepositTxFeeIncurred(last, last, txFee, count) <= DepositTxMaxFee
  BY DEF SubmitDepositSweepProof
<1>4. credit[d] = DepositCredit(d, last, txFee, count)
  BY DEF DepositedAmounts
<1>5. NetAmount(d) \in Int /\ DepositTxMaxFee \in Int
  BY DepositParametersAssumption
     DEF DepositParametersAccepted, TypeInv, TypeOK, DepositTypeOK, DepositRequest, NetAmount
<1> HIDE DEF txFee, count, credit
<1>6. txFee % count \in Nat /\ DepositTxFee(txFee, count) \in Int
  BY <1>1, <1>2 DEF DepositTxFee
<1>7. DepositTxFeeIncurred(d, last, txFee, count) \in Int
      /\ DepositTxFeeIncurred(d, last, txFee, count) <= DepositTxMaxFee
  BY <1>3, <1>5, <1>6 DEF DepositTxFeeIncurred
<1>8. credit[d] = NetAmount(d) - DepositTxFeeIncurred(d, last, txFee, count)
  BY <1>4 DEF DepositCredit, NetAmount
<1>9. NetAmount(d) <= credit[d] + DepositTxMaxFee
  BY <1>5, <1>7, <1>8
<1> QED
  BY <1>9 DEF credit

\* What a routed sweep pays in for a depositor covers the minted deposits it
\* takes, up to the largest fee for each of them.
LEMMA RoutedCover ==
    ASSUME TypeInv, DepositsKnown, TBTCVault \in isVaultTrusted,
           NEW swept \in SUBSET DepositKey, NEW credit \in [swept -> Nat],
           \A d \in swept : NetAmount(d) <= credit[d] + DepositTxMaxFee,
           NEW u, NEW lost \in SUBSET {d \in swept : deposits[d].depositor = u}
    PROVE  /\ DepositorAmount(swept, credit, u) \in Nat
           /\ SatoshiMultiplier * Total([d \in lost |-> NetAmount(d)])
                  <= DepositorAmount(swept, credit, u) + UncoveredGrowth(lost)
<1> DEFINE of == {d \in swept : deposits[d].depositor = u}
           credited == [d \in of |-> credit[d]]
           creditLost == [d \in lost |-> credit[d]]
           creditRest == [d \in of \ lost |-> credit[d]]
           net == [d \in lost |-> NetAmount(d)]
           fees == [d \in lost |-> DepositTxMaxFee]
           bound == [d \in lost |-> credit[d] + DepositTxMaxFee]
<1>1. /\ of \in SUBSET DepositKey /\ lost \in SUBSET of /\ lost \in SUBSET DepositKey
      /\ IsFiniteSet(of) /\ IsFiniteSet(lost) /\ IsFiniteSet(of \ lost)
  BY DepositAssumption, FS_Subset
<1>2. DepositTxMaxFee \in Nat
  BY DepositParametersAssumption DEF DepositParametersAccepted
<1>3. /\ credited \in [of -> Nat] /\ creditLost \in [lost -> Nat]
      /\ creditRest \in [of \ lost -> Nat]
      /\ net \in [lost -> Nat] /\ fees \in [lost -> Nat] /\ bound \in [lost -> Nat]
  <2>1. net \in [lost -> Nat]
    BY <1>1, NetAmountType
  <2> QED
    BY <1>2, <2>1
<1>4. /\ [d \in lost |-> credited[d]] = creditLost
      /\ [d \in of \ lost |-> credited[d]] = creditRest
  BY <1>1
<1>5. /\ \A d \in lost : net[d] <= bound[d]
      /\ \A d \in lost : bound[d] = creditLost[d] + fees[d]
  BY <1>1
<1>6. Total([d \in lost |-> NetAmount(d)]) = Total(net)
  OBVIOUS
<1>7. UncoveredGrowth(lost) = SatoshiMultiplier * Total(fees)
  BY DEF UncoveredGrowth
<1>8. DepositorAmount(swept, credit, u) = SatoshiMultiplier * Total(credited)
  BY DEF DepositorAmount
<1> HIDE DEF of, credited, creditLost, creditRest, net, fees, bound
<1>9. Total(credited) = Total(creditLost) + Total(creditRest)
  <2>1. IsFiniteSet(of) /\ lost \in SUBSET of /\ credited \in [of -> Nat]
    BY <1>1, <1>3
  <2>2. Total(credited) = Total([d \in lost |-> credited[d]])
                              + Total([d \in of \ lost |-> credited[d]])
    BY <2>1, TotalSplit, Zenon
  <2> QED
    BY <1>4, <2>2
<1>10. Total(net) <= Total(bound)
  BY <1>1, <1>3, <1>5, TotalMonotone
<1>11. Total(bound) = Total(creditLost) + Total(fees)
  BY <1>1, <1>3, <1>5, TotalSum
<1>12. /\ Total(credited) \in Nat /\ Total(creditLost) \in Nat /\ Total(creditRest) \in Nat
       /\ Total(net) \in Nat /\ Total(fees) \in Nat
  BY <1>1, <1>3, TotalType
<1>13. Total(net) <= Total(credited) + Total(fees)
  BY <1>9, <1>10, <1>11, <1>12
<1>14. /\ SatoshiMultiplier \in Nat
       /\ Total(credited) + Total(fees) \in Nat
  BY <1>12, VaultAssumption
<1>15. SatoshiMultiplier * Total(net)
           <= SatoshiMultiplier * (Total(credited) + Total(fees))
  BY <1>12, <1>13, <1>14, ScaleMonotone
<1>16. SatoshiMultiplier * (Total(credited) + Total(fees))
           = SatoshiMultiplier * Total(credited) + SatoshiMultiplier * Total(fees)
  BY <1>12, <1>14, ScaleSum
<1>17. SatoshiMultiplier * Total(credited) \in Nat
  BY <1>12, <1>14, ScaleType
<1> QED
  BY <1>6, <1>7, <1>8, <1>15, <1>16, <1>17

\* A sweep, routed to the vault or not.
LEMMA SweepForVaultExcess ==
    ASSUME TypeInv, VaultTypeOK, DepositsKnown, MintedInv,
           NEW w \in Wallet, NEW swept \in SUBSET DepositKey, NEW last \in swept,
           NEW outputValue \in Nat, NEW vault,
           SweepForVault(w, swept, last, outputValue, vault), NEW u \in User
    PROVE  ExcessStep(u)
<1> DEFINE credit == DepositedAmounts(w, swept, last, outputValue)
           minted == MintedUnswept(u)
           lost == minted \intersect swept
           repaid == IF vault = TBTCVault /\ vault \in isVaultTrusted
                     THEN DepositorAmount(swept, credit, u) ELSE 0
<1>1. SubmitDepositSweepProof(w, swept, last, outputValue, vault)
      /\ UNCHANGED optimisticMintingRequests
  BY DEF SweepForVault
<1>2. \A d \in DepositKey :
          deposits'[d] = IF d \in swept THEN [deposits[d] EXCEPT !.sweptAt = now]
                                        ELSE deposits[d]
  BY <1>1 DEF SubmitDepositSweepProof
<1>3. /\ \A d \in DepositKey \ swept : deposits'[d] = deposits[d]
      /\ \A d \in swept : deposits'[d].sweptAt # 0
  BY <1>2 DEF TypeInv, TypeOK, WalletsTypeOK, DepositTypeOK, DepositRequest
<1>4. MintedUnswept(u)' = minted \ lost
  BY <1>1, <1>3 DEF MintedUnswept
<1>5. \A d \in MintedUnswept(u)' : NetAmount(d)' = NetAmount(d)
  <2>1. \A d \in MintedUnswept(u)' : d \in DepositKey \ swept
    BY <1>3 DEF MintedUnswept
  <2> QED
    BY <1>3, <2>1 DEF NetAmount
<1>6. /\ lost \in SUBSET minted
      /\ lost \in SUBSET {d \in swept : deposits[d].depositor = u}
      /\ lost \in SUBSET DepositKey
  BY DEF MintedUnswept
<1>7. lost # {} => vault = TBTCVault
  BY <1>1 DEF MintedUnswept, MintedInv, SubmitDepositSweepProof
<1>8. credit \in [swept -> Nat]
  BY <1>1, DepositedAmountsType
<1>9. \A d \in swept : NetAmount(d) <= credit[d] + DepositTxMaxFee
  BY <1>1, FeeShareBound
<1>10. optimisticMintingDebt'[u] =
           IF vault = TBTCVault /\ vault \in isVaultTrusted
           THEN DebtLeft(u, DepositorAmount(swept, credit, u))
           ELSE optimisticMintingDebt[u]
  BY DEF SweepForVault, ReceiveBalanceIncrease, DepositorAmount
<1>11. optimisticMintingDebt[u] \in Nat
  BY DEF VaultTypeOK
<1> HIDE DEF credit, lost
<1>12. /\ repaid \in Nat
       /\ SatoshiMultiplier * Total([d \in lost |-> NetAmount(d)])
              <= repaid + UncoveredGrowth(lost)
  <2>1. CASE vault = TBTCVault /\ vault \in isVaultTrusted
    BY <1>6, <1>8, <1>9, <2>1, RoutedCover
  <2>2. CASE ~(vault = TBTCVault /\ vault \in isVaultTrusted)
    <3>1. repaid = 0
      BY <2>2
    <3>2. SatoshiMultiplier * Total([d \in lost |-> NetAmount(d)]) \in Nat
      BY <1>6, OwedType, ScaleType, VaultAssumption
    <3>3. SatoshiMultiplier * Total([d \in lost |-> NetAmount(d)]) = UncoveredGrowth(lost)
      <4>1. [d \in lost |-> IF TBTCVault \in isVaultTrusted
                            THEN DepositTxMaxFee ELSE NetAmount(d)]
                = [d \in lost |-> NetAmount(d)]
        BY <1>7, <2>2
      <4> QED
        BY <4>1 DEF UncoveredGrowth
    <3> HIDE DEF repaid
    <3> QED
      BY <3>1, <3>2, <3>3
  <2> QED
    BY <2>1, <2>2
<1>13. optimisticMintingDebt'[u] =
           IF repaid > optimisticMintingDebt[u] THEN 0
           ELSE optimisticMintingDebt[u] - repaid
  BY <1>10, <1>11 DEF DebtLeft
<1> HIDE DEF repaid
<1> QED
  BY <1>4, <1>5, <1>6, <1>12, <1>13, SweptExcess

LEMMA VaultSweepExcess ==
    ASSUME TypeInv, VaultTypeOK, DepositsKnown, MintedInv, VaultSweepNext, NEW u \in User
    PROVE  ExcessStep(u)
<1>1. PICK w \in Wallet, swept \in SUBSET DepositKey, vault \in Vault \union {NoVault} :
          \E last \in swept, outputValue \in 0..SweepInputs(w, swept) :
              SweepForVault(w, swept, last, outputValue, vault)
  BY DEF VaultSweepNext
<1>2. PICK last \in swept, outputValue \in 0..SweepInputs(w, swept) :
          SweepForVault(w, swept, last, outputValue, vault)
  BY <1>1
<1>3. outputValue \in Nat
  BY SweepInputsType
<1> QED
  BY <1>2, <1>3, SweepForVaultExcess

\* Any other step of the Bridge or of a token holder takes nothing of what is
\* minted and unswept: it may only reveal a deposit, which no request was for.
LEMMA QuietExcess ==
    ASSUME TypeInv, VaultTypeOK, DepositsKnown, RequestedDepositsRevealed, MintedInv,
           \/ GovernanceNext \/ BridgeNext
           \/ \E holder \in Holder : HolderNext(holder),
           NEW u \in User
    PROVE  ExcessStep(u)
<1>1. UNCHANGED <<optimisticMintingRequests, optimisticMintingDebt>>
  <2>1. ASSUME NEW holder, HolderNext(holder) PROVE UNCHANGED optimisticMintingDebt
    BY <2>1 DEF HolderNext, Mint, ReceiveBalanceApproval, IssueFor, Unmint,
                UnmintAndRedeem, TokenTransfer
  <2>2. CASE GovernanceNext \/ BridgeNext
    BY <2>2, QuietRequests
       DEF GovernanceNext, InitiateUpgrade, FinalizeUpgrade, BridgeNext, mintingVars
  <2> QED
    BY <2>1, <2>2, QuietRequests
<1>2. \A d \in DepositKey : deposits[d].revealedAt # 0 => deposits'[d] = deposits[d]
  <2>1. ASSUME NEW holder, HolderNext(holder) PROVE UNCHANGED deposits
    BY <2>1 DEF HolderNext, Mint, ReceiveBalanceApproval, IssueFor, Unmint,
                UnmintAndRedeem, TokenTransfer, vars, depositVars
  <2>2. CASE GovernanceNext
    BY <2>2 DEF GovernanceNext, InitiateUpgrade, FinalizeUpgrade, vars, depositVars
  <2>3. ASSUME NEW account, OwnerNext(account) PROVE UNCHANGED deposits
    BY <2>3 DEF OwnerNext, depositVars
  <2>4. ASSUME RevealNext, NEW d \in DepositKey, deposits[d].revealedAt # 0
        PROVE  deposits'[d] = deposits[d]
    BY <2>4 DEF RevealNext, RevealDeposit, TypeInv, TypeOK, DepositTypeOK
  <2>5. ASSUME VaultStatusNext PROVE UNCHANGED deposits
    BY <2>5 DEF VaultStatusNext, SetVaultStatus
  <2>6. CASE QuietNext
    BY <2>4, <2>5, <2>6 DEF QuietNext, FraudNext, depositVars
  <2>7. CASE BridgeNext
    BY <2>3, <2>6, <2>7 DEF BridgeNext, depositVars
  <2> QED
    BY <2>1, <2>2, <2>7
<1>3. \A d \in DepositKey : optimisticMintingRequests[d].finalizedAt # 0
                                => deposits'[d] = deposits[d]
  BY <1>2 DEF MintedInv, RequestedDepositsRevealed
<1> QED
  BY <1>1, <1>3, ExcessKept

LEMMA OptimisticMintingExcess ==
    ASSUME TypeInv, VaultTypeOK, DepositsKnown, RequestedDepositsRevealed,
           OptimisticMintingNext, NEW u \in User
    PROVE  ExcessStep(u)
<1>1. ASSUME NEW minter, NEW d \in DepositKey, RequestOptimisticMint(minter, d)
      PROVE  ExcessStep(u)
  <2>1. /\ UNCHANGED <<deposits, optimisticMintingDebt>>
        /\ optimisticMintingRequests' =
               [optimisticMintingRequests EXCEPT ![d].requestedAt = now]
    BY <1>1 DEF RequestOptimisticMint, vars, depositVars
  <2>2. \A e \in DepositKey : optimisticMintingRequests'[e].finalizedAt
                                  = optimisticMintingRequests[e].finalizedAt
    BY <2>1 DEF VaultTypeOK, MintingRequest
  <2> QED
    BY <2>1, <2>2, ExcessKept
<1>2. ASSUME NEW guardian, NEW d \in DepositKey, CancelOptimisticMint(guardian, d)
      PROVE  ExcessStep(u)
  <2>1. /\ UNCHANGED <<deposits, optimisticMintingDebt>>
        /\ optimisticMintingRequests[d].finalizedAt = 0
        /\ optimisticMintingRequests' =
               [optimisticMintingRequests EXCEPT ![d] = NoMintingRequest]
    BY <1>2 DEF CancelOptimisticMint, Cancellable, vars, depositVars
  <2>2. \A e \in DepositKey : optimisticMintingRequests'[e].finalizedAt
                                  = optimisticMintingRequests[e].finalizedAt
    BY <2>1 DEF VaultTypeOK, MintingRequest, NoMintingRequest
  <2> QED
    BY <2>1, <2>2, ExcessKept
<1> QED
  BY <1>1, <1>2, FinalizeExcess DEF OptimisticMintingNext

\* Debt that no minted and unswept deposit covers grows by transaction fees only,
\* as long as the Bridge trusts the vault.
THEOREM ExcessDebtTheorem == MintingSpec => ExcessDebtBounded
<1> DEFINE Inv == TypeInv /\ VaultInv /\ MintedInv
<1>1. MintingInit => MintedInv
  BY DEF MintingInit, VaultInit, NoMintingRequest, MintedInv
<1>2. Inv /\ [MintingNext]_mintingSystemVars => MintedInv'
  BY VaultInvParts, MintingDepositStep, MintedNext
<1>3. Inv /\ [MintingNext]_mintingSystemVars
          => [\A u \in User : ExcessStep(u)]_mintingSystemVars
  BY VaultInvParts, VaultSweepExcess, QuietExcess, OptimisticMintingExcess DEF MintingNext
<1>4. [\A u \in User : ExcessStep(u)]_mintingSystemVars
          => [\A u \in User :
                LET swept == MintedUnswept(u) \ MintedUnswept(u)'
                IN  ExcessDebt(u)' <= ExcessDebt(u) + SatoshiMultiplier *
                        Total([d \in swept |-> IF TBTCVault \in isVaultTrusted
                                               THEN DepositTxMaxFee ELSE NetAmount(d)])
             ]_mintingSystemVars
  BY DEF ExcessStep, UncoveredGrowth
<1> QED
  BY <1>1, <1>2, <1>3, <1>4, VaultInvariant, PTL DEF MintingSpec, ExcessDebtBounded
=============================================================================
