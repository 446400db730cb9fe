---------------------------- MODULE BridgeProofs ----------------------------
(***************************************************************************)
(* The lives of the wallets and the books of the Bridge, for every number  *)
(* of wallets, deposits, redemptions and challenges and every value of the *)
(* parameters.  First types, then the counters, the active wallet and the  *)
(* external registry, which stay in agreement with the states of the       *)
(* wallets, and the refinement of WalletLifecycle.  Then the books: the    *)
(* count of sweep requests, the ether of the challenges, the value and the *)
(* balance reserved by pending redemptions, the timed out redemptions, and *)
(* what a wallet that commits to move its funds still owes.  Each of them  *)
(* is kept by increments and decrements in several libraries; each section *)
(* names what the handlers do to one book, shows that every step does      *)
(* nothing else, and that doing it keeps the book exact.  The last         *)
(* sections put the supply of the Bank beside what the wallets hold.       *)
(***************************************************************************)
EXTENDS Bridge, SumsProofs

(***************************************************************************)
(* Type correctness.  Beyond the shape of the storage it says that no      *)
(* account of the Bank is ever overdrawn.  It is not inductive by itself:  *)
(* a redemption proof adds up redeemable amounts, which are natural        *)
(* numbers because no treasury fee exceeds the amount it is taken from.    *)
(***************************************************************************)
FeesWithinAmounts ==
    \A k \in RedemptionKey :
        /\ pendingRedemptions[k].treasuryFee <= pendingRedemptions[k].requestedAmount
        /\ timedOutRedemptions[k].treasuryFee <= timedOutRedemptions[k].requestedAmount

TypeInv == TypeOK /\ FeesWithinAmounts

LEMMA TypeInit == Init => TypeInv
<1> SUFFICES ASSUME Init PROVE TypeInv
  OBVIOUS
<1> USE DEF Init
<1>1. WalletsTypeOK
  BY DEF WalletsInit, WalletsTypeOK, WalletState, NoUtxo
<1>2. MovingFundsTypeOK
  BY DEF MovingFundsInit, MovingFundsTypeOK, SweepRequest, SweepRequestState
<1>3. RedemptionTypeOK /\ FeesWithinAmounts
  BY DEF RedemptionInit, RedemptionTypeOK, Request, NoRequest, FeesWithinAmounts
<1>4. DepositTypeOK
  BY DEF DepositInit, DepositTypeOK, DepositRequest, NoDeposit
<1>5. FraudTypeOK
  BY DEF FraudInit, FraudTypeOK, FraudChallenge
<1>6. BankTypeOK
  BY DEF BankInit, BankTypeOK
<1> QED
  BY <1>1, <1>2, <1>3, <1>4, <1>5, <1>6 DEF TypeInv, TypeOK

-----------------------------------------------------------------------------
(***************************************************************************)
(* The Bank.                                                               *)
(***************************************************************************)
LEMMA IncreasedType ==
    ASSUME NEW b \in [Account -> Nat], NEW account, NEW amount \in Nat
    PROVE  Increased(b, account, amount) \in [Account -> Nat]
<1>1. Increased(b, account, amount) =
          [a \in Account |-> IF a = account THEN b[account] + amount ELSE b[a]]
  BY DEF Increased
<1>2. ASSUME NEW a \in Account
      PROVE  (IF a = account THEN b[account] + amount ELSE b[a]) \in Nat
  BY <1>2
<1> QED
  BY <1>1, <1>2

LEMMA DecreasedType ==
    ASSUME NEW b \in [Account -> Nat], NEW account \in Account, NEW amount \in Nat,
           CanDecrease(b, account, amount)
    PROVE  /\ Decreased(b, account, amount) \in [Account -> Nat]
           /\ Decreased(b, account, amount)[account] = b[account] - amount
           /\ \A a \in Account \ {account} : Decreased(b, account, amount)[a] = b[a]
BY DEF Decreased, CanDecrease

LEMMA TransferredType ==
    ASSUME NEW b \in [Account -> Nat], NEW spender \in Account,
           NEW recipient \in Account, NEW amount \in Nat,
           CanDecrease(b, spender, amount)
    PROVE  Transferred(b, spender, recipient, amount) \in [Account -> Nat]
BY DecreasedType, IncreasedType DEF Transferred

\* What they do to the total of the balances, whoever the owners in A are.
LEMMA IncreasedTotal ==
    ASSUME NEW A, IsFiniteSet(A), NEW b \in [A -> Nat], NEW account \in A,
           NEW amount \in Nat
    PROVE  /\ Increased(b, account, amount) \in [A -> Nat]
           /\ Total(Increased(b, account, amount)) = Total(b) + amount
<1> DEFINE new == Increased(b, account, amount)
<1>1. /\ new \in [A -> Nat] /\ new[account] = b[account] + amount
      /\ \A a \in A \ {account} : new[a] = b[a]
  BY DEF Increased
<1> HIDE DEF new
<1>2. Total(new) = Total(b) - b[account] + new[account]
  BY <1>1, TotalUpdate
<1>3. Total(b) \in Nat /\ b[account] \in Nat
  BY TotalType
<1>4. Total(new) = Total(b) + amount
  BY <1>1, <1>2, <1>3
<1> QED
  BY <1>1, <1>4 DEF new

LEMMA DecreasedTotal ==
    ASSUME NEW A, IsFiniteSet(A), NEW b \in [A -> Nat], NEW account \in A,
           NEW amount \in Nat, CanDecrease(b, account, amount)
    PROVE  /\ Decreased(b, account, amount) \in [A -> Nat]
           /\ Total(Decreased(b, account, amount)) = Total(b) - amount
<1> DEFINE new == Decreased(b, account, amount)
<1>1. /\ new \in [A -> Nat] /\ new[account] = b[account] - amount
      /\ \A a \in A \ {account} : new[a] = b[a]
  BY DEF Decreased, CanDecrease
<1> HIDE DEF new
<1>2. Total(new) = Total(b) - b[account] + new[account]
  BY <1>1, TotalUpdate
<1>3. Total(b) \in Nat /\ b[account] \in Nat
  BY TotalType
<1>4. Total(new) = Total(b) - amount
  BY <1>1, <1>2, <1>3
<1> QED
  BY <1>1, <1>4 DEF new

LEMMA TransferredTotal ==
    ASSUME NEW A, IsFiniteSet(A), NEW b \in [A -> Nat], NEW spender \in A,
           NEW recipient \in A, NEW amount \in Nat, CanDecrease(b, spender, amount)
    PROVE  /\ Transferred(b, spender, recipient, amount) \in [A -> Nat]
           /\ Total(Transferred(b, spender, recipient, amount)) = Total(b)
<1> DEFINE debited == Decreased(b, spender, amount)
<1>0. ASSUME NEW m \in [A -> Nat]
      PROVE  /\ Increased(m, recipient, amount) \in [A -> Nat]
             /\ Total(Increased(m, recipient, amount)) = Total(m) + amount
  BY IncreasedTotal, Z3
<1>1. debited \in [A -> Nat] /\ Total(debited) = Total(b) - amount
  BY DecreasedTotal
<1> HIDE DEF debited
<1>2. /\ Increased(debited, recipient, amount) \in [A -> Nat]
      /\ Total(Increased(debited, recipient, amount)) = Total(debited) + amount
  BY <1>0, <1>1
<1>3. Total(b) \in Nat
  BY TotalType
<1>4. Total(Increased(debited, recipient, amount)) = Total(b)
  BY <1>1, <1>2, <1>3
<1>5. Transferred(b, spender, recipient, amount) = Increased(debited, recipient, amount)
  BY DEF debited, Transferred
<1> QED
  BY <1>2, <1>4, <1>5

\* The Bridge, the treasury and the watchtower have accounts of their own.
LEMMA Accounts ==
    /\ BridgeAccount \in Account /\ Treasury \in Account /\ Watchtower \in Account
    /\ User \subseteq Account /\ Vault \subseteq Account
BY DEF Account

-----------------------------------------------------------------------------
(***************************************************************************)
(* Wallets.                                                                *)
(***************************************************************************)
LEMMA MoveFundsType ==
    ASSUME WalletsTypeOK, NEW w \in Wallet, MoveFunds(w)
    PROVE  /\ walletState' \in [Wallet -> WalletState]
           /\ createdAt' \in [Wallet -> Nat]
           /\ movingFundsRequestedAt' \in [Wallet -> Nat]
           /\ closingStartedAt' \in [Wallet -> Nat]
           /\ activeWallet' \in Wallet \union {NoWallet}
           /\ liveWalletsCount' \in Int
           /\ UNCHANGED registryVars
BY DEF MoveFunds, BeginWalletClosing, UnsetActiveWallet, WalletsTypeOK, WalletState

LEMMA TerminateWalletType ==
    ASSUME WalletsTypeOK, NEW w \in Wallet, TerminateWallet(w)
    PROVE  /\ walletState' \in [Wallet -> WalletState]
           /\ createdAt' \in [Wallet -> Nat]
           /\ movingFundsRequestedAt' \in [Wallet -> Nat]
           /\ closingStartedAt' \in [Wallet -> Nat]
           /\ activeWallet' \in Wallet \union {NoWallet}
           /\ liveWalletsCount' \in Int
           /\ creationState' \in {"IDLE", "IN_PROGRESS"}
           /\ registryWallets' \subseteq Wallet
BY DEF TerminateWallet, DecrementLiveWalletsIfLive, UnsetActiveWallet, CloseInRegistry,
       WalletsTypeOK, WalletState

LEMMA WalletsType ==
    ASSUME WalletsTypeOK, WalletsNext PROVE WalletsTypeOK'
<1>1. CASE RequestNewWallet \/ WalletCreationFails
  BY <1>1 DEF RequestNewWallet, WalletCreationFails, WalletsTypeOK, walletVars,
              registryVars, balanceFields
<1>2. CASE Tick
  BY <1>2 DEF Tick, WalletsTypeOK, walletVars, registryVars, balanceFields
<1>3. ASSUME NEW w \in Wallet, RegisterNewWallet(w) PROVE WalletsTypeOK'
  BY <1>3 DEF RegisterNewWallet, WalletsTypeOK, WalletState, balanceFields
<1>4. ASSUME NEW w \in Wallet,
             NotifyWalletHeartbeatFailed(w) \/ NotifyWalletCloseable(w)
      PROVE  WalletsTypeOK'
  BY <1>4, MoveFundsType
     DEF NotifyWalletHeartbeatFailed, NotifyWalletCloseable, WalletsTypeOK,
         registryVars, balanceFields
<1>5. ASSUME NEW w \in Wallet, NotifyWalletClosingPeriodElapsed(w) PROVE WalletsTypeOK'
  BY <1>5 DEF NotifyWalletClosingPeriodElapsed, FinalizeWalletClosing, CloseInRegistry,
              WalletsTypeOK, WalletState, balanceFields
<1> QED
  BY <1>1, <1>2, <1>3, <1>4, <1>5 DEF WalletsNext

-----------------------------------------------------------------------------
(***************************************************************************)
(* Moving funds.                                                           *)
(***************************************************************************)
LEMMA SweepRequestFields ==
    ASSUME MovingFundsTypeOK, NEW source \in Wallet, NEW w \in Wallet,
           NEW st \in SweepRequestState
    PROVE  /\ movedFundsSweepRequests[<<source, w>>].value \in Nat
           /\ movedFundsSweepRequests[<<source, w>>].createdAt \in Nat
           /\ [movedFundsSweepRequests EXCEPT ![<<source, w>>].state = st]
                  \in [SweepRequestKey -> SweepRequest]
BY DEF MovingFundsTypeOK, SweepRequestKey, SweepRequest

LEMMA SpendMainUtxoType ==
    ASSUME WalletsTypeOK, NEW w \in Wallet, SpendMainUtxo(w)
    PROVE  spentMainUTXOs' \in [Wallet -> Nat]
BY DEF SpendMainUtxo, WalletsTypeOK

LEMMA DecrementSweepRequestsCountType ==
    ASSUME WalletsTypeOK, NEW w \in Wallet, DecrementSweepRequestsCount(w)
    PROVE  pendingMovedFundsSweepRequestsCount' \in [Wallet -> Int]
BY DEF DecrementSweepRequestsCount, WalletsTypeOK

LEMMA WalletBtcBalanceType ==
    ASSUME WalletsTypeOK, NEW w \in Wallet
    PROVE  WalletBtcBalance(w) \in Nat
BY DEF WalletBtcBalance, UtxoValue, NoUtxo, WalletsTypeOK

LEMMA MovingFundsProofType ==
    ASSUME WalletsTypeOK, MovingFundsTypeOK, NEW w \in Wallet,
           NEW outputs \in [commitment[w] -> 0..WalletBtcBalance(w)],
           SubmitMovingFundsProof(w, outputs)
    PROVE  WalletsTypeOK' /\ MovingFundsTypeOK'
<1>1. DOMAIN outputs = commitment[w] /\ commitment[w] \subseteq Wallet
  BY DEF WalletsTypeOK
<1>2. \A t \in DOMAIN outputs : outputs[t] \in Nat
  BY WalletBtcBalanceType
<1>3. movedFundsSweepRequests' \in [SweepRequestKey -> SweepRequest]
  <2>1. \A k \in SweepRequestKey :
            movedFundsSweepRequests'[k] \in SweepRequest
    BY <1>1, <1>2 DEF SubmitMovingFundsProof, MovingFundsTypeOK, SweepRequest,
                      SweepRequestState, WalletsTypeOK
  <2> QED
    BY <2>1 DEF SubmitMovingFundsProof
<1>4. pendingMovedFundsSweepRequestsCount' \in [Wallet -> Int]
  BY DEF SubmitMovingFundsProof, WalletsTypeOK
<1>5. spentMainUTXOs' \in [Wallet -> Nat]
  BY SpendMainUtxoType DEF SubmitMovingFundsProof
<1> QED
  BY <1>3, <1>4, <1>5
     DEF SubmitMovingFundsProof, NotifyWalletFundsMoved, BeginWalletClosing,
         WalletsTypeOK, WalletState, registryVars, MovingFundsTypeOK

LEMMA MovedFundsSweepProofType ==
    ASSUME WalletsTypeOK, MovingFundsTypeOK,
           NEW source \in Wallet, NEW w \in Wallet, NEW outputValue \in Nat,
           SubmitMovedFundsSweepProof(source, w, outputValue)
    PROVE  WalletsTypeOK' /\ MovingFundsTypeOK'
<1>1. movedFundsSweepRequests' \in [SweepRequestKey -> SweepRequest]
  BY SweepRequestFields DEF SubmitMovedFundsSweepProof, SweepRequestState
<1>2. spentMainUTXOs' \in [Wallet -> Nat]
  BY SpendMainUtxoType DEF SubmitMovedFundsSweepProof
<1>3. pendingMovedFundsSweepRequestsCount' \in [Wallet -> Int]
  BY DecrementSweepRequestsCountType DEF SubmitMovedFundsSweepProof
<1> QED
  BY <1>1, <1>2, <1>3
     DEF SubmitMovedFundsSweepProof, WalletsTypeOK, MovingFundsTypeOK, walletVars,
         registryVars

LEMMA MovedFundsSweepTimeoutType ==
    ASSUME WalletsTypeOK, MovingFundsTypeOK, NEW source \in Wallet, NEW w \in Wallet,
           NotifyMovedFundsSweepTimeout(source, w)
    PROVE  WalletsTypeOK' /\ MovingFundsTypeOK'
<1>1. movedFundsSweepRequests' \in [SweepRequestKey -> SweepRequest]
  BY SweepRequestFields DEF NotifyMovedFundsSweepTimeout, SweepRequestState
<1>2. pendingMovedFundsSweepRequestsCount' \in [Wallet -> Int]
  BY DecrementSweepRequestsCountType DEF NotifyMovedFundsSweepTimeout
<1> QED
  BY <1>1, <1>2, TerminateWalletType
     DEF NotifyMovedFundsSweepTimeout, NotifyWalletMovedFundsSweepTimeout,
         WalletsTypeOK, MovingFundsTypeOK, walletVars, registryVars

LEMMA MovingFundsType ==
    ASSUME WalletsTypeOK, MovingFundsTypeOK, MovingFundsNext
    PROVE  WalletsTypeOK' /\ MovingFundsTypeOK'
<1>1. PICK w \in Wallet : MovingFundsNext!(w)
  BY DEF MovingFundsNext
<1>2. ASSUME NEW targets \in SUBSET Wallet, SubmitMovingFundsCommitment(w, targets)
      PROVE  WalletsTypeOK' /\ MovingFundsTypeOK'
  BY <1>2 DEF SubmitMovingFundsCommitment, WalletsTypeOK, MovingFundsTypeOK,
              walletVars, registryVars
<1>3. CASE ResetMovingFundsTimeout(w)
  BY <1>3 DEF ResetMovingFundsTimeout, WalletsTypeOK, MovingFundsTypeOK, registryVars,
              balanceFields
<1>4. CASE NotifyMovingFundsTimeout(w)
  BY <1>4, TerminateWalletType
     DEF NotifyMovingFundsTimeout, NotifyWalletMovingFundsTimeout, WalletsTypeOK,
         MovingFundsTypeOK, balanceFields
<1>5. CASE NotifyMovingFundsBelowDust(w)
  BY <1>5 DEF NotifyMovingFundsBelowDust, NotifyWalletMovingFundsBelowDust,
              BeginWalletClosing, WalletsTypeOK, WalletState, MovingFundsTypeOK,
              registryVars, balanceFields
<1>6. ASSUME NEW source \in Wallet,
             NEW outputValue \in 0..(movedFundsSweepRequests[<<source, w>>].value
                                     + WalletBtcBalance(w)),
             SubmitMovedFundsSweepProof(source, w, outputValue)
      PROVE  WalletsTypeOK' /\ MovingFundsTypeOK'
  <2>1. outputValue \in Nat
    BY SweepRequestFields, WalletBtcBalanceType DEF SweepRequestState
  <2> QED
    BY <1>6, <2>1, MovedFundsSweepProofType
<1> QED
  BY <1>1, <1>2, <1>3, <1>4, <1>5, <1>6, MovingFundsProofType,
     MovedFundsSweepTimeoutType

-----------------------------------------------------------------------------
(***************************************************************************)
(* Redemptions.                                                            *)
(***************************************************************************)
LEMMA DivBound ==
    ASSUME NEW amount \in Nat, NEW divisor \in Nat, divisor > 0
    PROVE  amount \div divisor \in 0..amount
OBVIOUS

LEMMA RedemptionTreasuryFeesBound ==
    ASSUME NEW amount \in Nat, NEW fee \in RedemptionTreasuryFees(amount)
    PROVE  fee \in Nat /\ fee <= amount
<1>1. RedemptionTreasuryFeeDivisor \in Nat
  BY RedemptionParametersAssumption DEF RedemptionParametersAccepted
<1>2. CASE RedemptionTreasuryFeeDivisor > 0
  <2>1. amount \div RedemptionTreasuryFeeDivisor \in 0..amount
    BY <1>1, <1>2, DivBound
  <2> QED
    BY <1>2, <2>1 DEF RedemptionTreasuryFees
<1>3. CASE ~(RedemptionTreasuryFeeDivisor > 0)
  BY <1>3 DEF RedemptionTreasuryFees
<1> QED
  BY <1>2, <1>3

LEMMA RequestFields ==
    ASSUME TypeInv, NEW w \in Wallet, NEW s \in Script
    PROVE  /\ <<w, s>> \in RedemptionKey
           /\ pendingRedemptions[<<w, s>>] \in Request
           /\ timedOutRedemptions[<<w, s>>] \in Request
           /\ pendingRedemptions[<<w, s>>].treasuryFee \in Nat
           /\ pendingRedemptions[<<w, s>>].requestedAmount \in Nat
           /\ RedeemableAmount(pendingRedemptions[<<w, s>>]) \in Nat
           /\ RedeemableAmount(timedOutRedemptions[<<w, s>>]) \in Nat
<1>1. <<w, s>> \in RedemptionKey
  BY DEF RedemptionKey
<1>2. pendingRedemptions[<<w, s>>] \in Request /\ timedOutRedemptions[<<w, s>>] \in Request
  BY <1>1 DEF TypeInv, TypeOK, RedemptionTypeOK
<1> QED
  BY <1>1, <1>2 DEF TypeInv, FeesWithinAmounts, RedeemableAmount, Request

LEMMA NoRequestFields ==
    /\ NoRequest \in Request
    /\ NoRequest.treasuryFee <= NoRequest.requestedAmount
BY DEF NoRequest, Request

LEMMA RequestRedemptionType ==
    ASSUME TypeInv, NEW w \in Wallet, NEW s \in Script,
           NEW owner \in User \union Vault, NEW redeemer \in User, NEW amount \in Nat,
           NEW treasuryFee \in RedemptionTreasuryFees(amount),
           RequestRedemption(w, s, owner, redeemer, amount, treasuryFee)
    PROVE  /\ WalletsTypeOK' /\ RedemptionTypeOK' /\ BankTypeOK'
           /\ FeesWithinAmounts'
<1> DEFINE request == [redeemer |-> redeemer, requestedAmount |-> amount,
                       treasuryFee |-> treasuryFee, txMaxFee |-> RedemptionTxMaxFee,
                       requestedAt |-> now]
<1>1. treasuryFee \in Nat /\ treasuryFee <= amount
  BY RedemptionTreasuryFeesBound
<1>2. request \in Request
  BY <1>1, RedemptionParametersAssumption
     DEF RedemptionParametersAccepted, Request, TypeInv, TypeOK, WalletsTypeOK
<1>3. RedemptionTypeOK' /\ FeesWithinAmounts'
  <2>1. pendingRedemptions' = [pendingRedemptions EXCEPT ![<<w, s>>] = request]
    BY DEF RequestRedemption
  <2>2. timedOutRedemptions' = timedOutRedemptions
    BY DEF RequestRedemption
  <2>3. request.treasuryFee <= request.requestedAmount
    BY <1>1
  <2> HIDE DEF request
  <2> QED
    BY <1>2, <2>1, <2>2, <2>3
       DEF TypeInv, TypeOK, RedemptionTypeOK, FeesWithinAmounts, RedemptionKey
<1>4. BankTypeOK'
  BY TransferredType, Accounts DEF RequestRedemption, TypeInv, TypeOK, BankTypeOK
<1>5. WalletsTypeOK'
  BY <1>1 DEF RequestRedemption, TypeInv, TypeOK, WalletsTypeOK, walletVars,
              registryVars
<1> QED
  BY <1>3, <1>4, <1>5

LEMMA ReleasePendingValueType ==
    ASSUME TypeInv, NEW w \in Wallet, NEW s \in Script,
           ReleasePendingValue(w, pendingRedemptions[<<w, s>>])
    PROVE  pendingRedemptionsValue' \in [Wallet -> Int]
BY RequestFields DEF ReleasePendingValue, TypeInv, TypeOK, WalletsTypeOK

LEMMA DeletePendingRedemptionType ==
    ASSUME TypeInv, NEW w \in Wallet, NEW s \in Script,
           DeletePendingRedemption(<<w, s>>)
    PROVE  /\ pendingRedemptions' \in [RedemptionKey -> Request]
           /\ \A k \in RedemptionKey :
                 pendingRedemptions'[k].treasuryFee <= pendingRedemptions'[k].requestedAmount
BY NoRequestFields
   DEF DeletePendingRedemption, TypeInv, TypeOK, RedemptionTypeOK, FeesWithinAmounts

LEMMA NotifyRedemptionTimeoutType ==
    ASSUME TypeInv, NEW w \in Wallet, NEW s \in Script, NotifyRedemptionTimeout(w, s)
    PROVE  /\ WalletsTypeOK' /\ RedemptionTypeOK' /\ BankTypeOK'
           /\ FeesWithinAmounts'
<1> DEFINE request == pendingRedemptions[<<w, s>>]
<1>1. request \in Request /\ request.treasuryFee <= request.requestedAmount
  BY RequestFields DEF TypeInv, FeesWithinAmounts
<1>2. timedOutRedemptions' = [timedOutRedemptions EXCEPT ![<<w, s>>] = request]
  BY DEF NotifyRedemptionTimeout
<1>3. RedemptionTypeOK' /\ FeesWithinAmounts'
  <2>1. DeletePendingRedemption(<<w, s>>)
    BY DEF NotifyRedemptionTimeout
  <2> HIDE DEF request
  <2> QED
    BY <1>1, <1>2, <2>1, DeletePendingRedemptionType
       DEF TypeInv, TypeOK, RedemptionTypeOK, FeesWithinAmounts
<1>4. pendingRedemptionsValue' \in [Wallet -> Int]
  BY ReleasePendingValueType DEF NotifyRedemptionTimeout
<1>5. NotifyWalletRedemptionTimeout(w)
  BY DEF NotifyRedemptionTimeout
<1>6. WalletsTypeOK'
  <2>1. CASE MoveFunds(w)
    BY <1>4, <2>1, MoveFundsType
       DEF NotifyRedemptionTimeout, TypeInv, TypeOK, WalletsTypeOK, registryVars
  <2>2. CASE UNCHANGED <<walletVars, registryVars>>
    BY <1>4, <2>2
       DEF NotifyRedemptionTimeout, TypeInv, TypeOK, WalletsTypeOK, walletVars,
           registryVars
  <2> QED
    BY <1>5, <2>1, <2>2 DEF NotifyWalletRedemptionTimeout
\* Crediting an account the Bank does not know would change no known balance.
<1>7. BankTypeOK'
  <2> DEFINE amount == request.requestedAmount
             debited == Decreased(balanceOf, BridgeAccount, amount)
  <2>1. amount \in Nat
    BY <1>1 DEF Request
  <2>2. debited \in [Account -> Nat]
    BY <2>1, DecreasedType, Accounts
       DEF NotifyRedemptionTimeout, TypeInv, TypeOK, BankTypeOK
  <2>3. balanceOf' = Increased(debited, request.redeemer, amount)
    BY DEF NotifyRedemptionTimeout, Transferred
  <2> HIDE DEF amount, debited
  <2> QED
    BY <2>1, <2>2, <2>3, IncreasedType DEF BankTypeOK
<1> QED
  BY <1>3, <1>6, <1>7

LEMMA NotifyRedemptionVetoType ==
    ASSUME TypeInv, NEW w \in Wallet, NEW s \in Script, NEW penaltyFee \in Nat,
           NotifyRedemptionVeto(w, s, penaltyFee)
    PROVE  /\ WalletsTypeOK' /\ RedemptionTypeOK' /\ BankTypeOK'
           /\ FeesWithinAmounts'
<1>1. pendingRedemptionsValue' \in [Wallet -> Int]
  BY ReleasePendingValueType DEF NotifyRedemptionVeto
<1>2. RedemptionTypeOK' /\ FeesWithinAmounts'
  BY DeletePendingRedemptionType
     DEF NotifyRedemptionVeto, TypeInv, TypeOK, RedemptionTypeOK, FeesWithinAmounts
<1>3. BankTypeOK'
  <2> DEFINE amount == pendingRedemptions[<<w, s>>].requestedAmount
             detained == Transferred(balanceOf, BridgeAccount, Watchtower, amount)
  <2>1. amount \in Nat
    BY RequestFields
  <2>2. detained \in [Account -> Nat]
    BY <2>1, TransferredType, Accounts
       DEF NotifyRedemptionVeto, TypeInv, TypeOK, BankTypeOK
  <2>3. CanDecrease(detained, Watchtower, penaltyFee)
        /\ balanceOf' = Decreased(detained, Watchtower, penaltyFee)
    BY DEF NotifyRedemptionVeto
  <2> HIDE DEF detained
  <2> QED
    BY <2>2, <2>3, DecreasedType, Accounts DEF BankTypeOK
<1> QED
  BY <1>1, <1>2, <1>3
     DEF NotifyRedemptionVeto, TypeInv, TypeOK, WalletsTypeOK, walletVars, registryVars

LEMMA SubmitRedemptionProofType ==
    ASSUME TypeInv, NEW w \in Wallet, NEW scripts \in SUBSET Script,
           NEW outputs \in [scripts -> Nat], NEW changeValue \in Nat,
           SubmitRedemptionProof(w, outputs, changeValue)
    PROVE  /\ WalletsTypeOK' /\ RedemptionTypeOK' /\ BankTypeOK'
           /\ FeesWithinAmounts'
<1> DEFINE pending == {s \in scripts : Exists(pendingRedemptions[<<w, s>>])}
           burnable == [s \in pending |-> RedeemableAmount(pendingRedemptions[<<w, s>>])]
           fees == [s \in pending |-> pendingRedemptions[<<w, s>>].treasuryFee]
           burned == Decreased(balanceOf, BridgeAccount, Total(burnable))
<1>0. DOMAIN outputs = scripts
  OBVIOUS
<1>1. Total(burnable) \in Nat /\ Total(fees) \in Nat
  <2>1. IsFiniteSet(pending)
    BY ScriptAssumption, FS_Subset
  <2>2. burnable \in [pending -> Nat] /\ fees \in [pending -> Nat]
    BY RequestFields
  <2> HIDE DEF pending, burnable, fees
  <2> QED
    BY <2>1, <2>2, TotalType
<1>2. CanDecrease(balanceOf, BridgeAccount, Total(burnable) + Total(fees))
  BY <1>0 DEF SubmitRedemptionProof
<1>3. balanceOf' = Transferred(burned, BridgeAccount, Treasury, Total(fees))
  BY <1>0 DEF SubmitRedemptionProof
<1>4. BankTypeOK'
  <2>1. balanceOf \in [Account -> Nat] /\ CanDecrease(balanceOf, BridgeAccount, Total(burnable))
    BY <1>1, <1>2, Accounts DEF CanDecrease, TypeInv, TypeOK, BankTypeOK
  <2>2. /\ burned \in [Account -> Nat]
        /\ burned[BridgeAccount] = balanceOf[BridgeAccount] - Total(burnable)
    BY <1>1, <2>1, DecreasedType, Accounts
  <2>3. CanDecrease(burned, BridgeAccount, Total(fees))
    BY <1>1, <1>2, <2>1, <2>2, Accounts DEF CanDecrease
  <2> HIDE DEF burnable, fees, burned
  <2> QED
    BY <1>1, <1>3, <2>2, <2>3, TransferredType, Accounts DEF BankTypeOK
<1>5. pendingRedemptionsValue' \in [Wallet -> Int]
  <2>1. pendingRedemptionsValue' =
            [pendingRedemptionsValue EXCEPT ![w] = @ - Total(burnable)]
    BY <1>0 DEF SubmitRedemptionProof
  <2> QED
    BY <1>1, <2>1 DEF TypeInv, TypeOK, WalletsTypeOK
<1>6. WalletsTypeOK'
  <2>1. spentMainUTXOs' \in [Wallet -> Nat]
    BY SpendMainUtxoType DEF SubmitRedemptionProof, TypeInv, TypeOK
  <2>2. mainUtxo' \in [Wallet -> Nat \union {NoUtxo}]
    BY DEF SubmitRedemptionProof, TypeInv, TypeOK, WalletsTypeOK
  <2> QED
    BY <1>5, <2>1, <2>2
       DEF SubmitRedemptionProof, TypeInv, TypeOK, WalletsTypeOK, walletVars,
           registryVars
<1>7. RedemptionTypeOK' /\ FeesWithinAmounts'
  <2>1. /\ pendingRedemptions' =
               [k \in RedemptionKey |->
                   IF k[1] = w /\ k[2] \in pending THEN NoRequest
                                                   ELSE pendingRedemptions[k]]
        /\ timedOutRedemptions' =
               [k \in RedemptionKey |->
                   IF k[1] = w /\ k[2] \in scripts \ pending
                   THEN NoRequest ELSE timedOutRedemptions[k]]
    BY <1>0 DEF SubmitRedemptionProof
  <2> HIDE DEF pending
  <2> QED
    BY <2>1, NoRequestFields
       DEF TypeInv, TypeOK, RedemptionTypeOK, FeesWithinAmounts
<1> QED
  BY <1>4, <1>6, <1>7

LEMMA RedemptionType ==
    ASSUME TypeInv, RedemptionNext
    PROVE  /\ WalletsTypeOK' /\ RedemptionTypeOK' /\ BankTypeOK'
           /\ FeesWithinAmounts'
<1>1. PICK w \in Wallet : RequestNext(w) \/ VetoNext(w) \/ SettleNext(w)
  BY DEF RedemptionNext
<1>2. ASSUME NEW s \in Script, NEW owner \in User \union Vault, NEW redeemer \in User,
             NEW amount \in 1..balanceOf[owner],
             NEW treasuryFee \in RedemptionTreasuryFees(amount),
             RequestRedemption(w, s, owner, redeemer, amount, treasuryFee)
      PROVE  WalletsTypeOK' /\ RedemptionTypeOK' /\ BankTypeOK' /\ FeesWithinAmounts'
  <2>1. amount \in Nat
    BY Accounts DEF TypeInv, TypeOK, BankTypeOK
  <2> QED
    BY <1>2, <2>1, RequestRedemptionType
<1>3. ASSUME NEW scripts \in SUBSET Script,
             NEW outputs \in [scripts -> 0..WalletBtcBalance(w)],
             NEW changeValue \in 0..WalletBtcBalance(w),
             SubmitRedemptionProof(w, outputs, changeValue)
      PROVE  WalletsTypeOK' /\ RedemptionTypeOK' /\ BankTypeOK' /\ FeesWithinAmounts'
  <2>1. outputs \in [scripts -> Nat] /\ changeValue \in Nat
    BY WalletBtcBalanceType DEF TypeInv, TypeOK
  <2> QED
    BY <1>3, <2>1, SubmitRedemptionProofType
<1>4. ASSUME NEW s \in Script,
             NEW penaltyFee \in 0..pendingRedemptions[<<w, s>>].requestedAmount,
             NotifyRedemptionVeto(w, s, penaltyFee)
      PROVE  WalletsTypeOK' /\ RedemptionTypeOK' /\ BankTypeOK' /\ FeesWithinAmounts'
  <2>1. penaltyFee \in Nat
    BY RequestFields
  <2> QED
    BY <1>4, <2>1, NotifyRedemptionVetoType
<1> QED
  BY <1>1, <1>2, <1>3, <1>4, NotifyRedemptionTimeoutType
     DEF RequestNext, VetoNext, SettleNext

-----------------------------------------------------------------------------
(***************************************************************************)
(* Deposits.                                                               *)
(***************************************************************************)
LEMMA DepositTreasuryFeesBound ==
    ASSUME NEW amount \in Nat, NEW fee \in DepositTreasuryFees(amount)
    PROVE  fee \in Nat /\ fee <= amount
<1>1. DepositTreasuryFeeDivisor \in Nat
  BY DepositParametersAssumption DEF DepositParametersAccepted
<1>2. CASE DepositTreasuryFeeDivisor > 0
  <2>1. amount \div DepositTreasuryFeeDivisor \in 0..amount
    BY <1>1, <1>2, DivBound
  <2> QED
    BY <1>2, <2>1 DEF DepositTreasuryFees
<1>3. CASE ~(DepositTreasuryFeeDivisor > 0)
  BY <1>3 DEF DepositTreasuryFees
<1> QED
  BY <1>2, <1>3

\* What a sweep credits to each account is a natural number.
LEMMA SweepCreditsType ==
    ASSUME DepositTypeOK, NEW swept \in SUBSET DepositKey,
           NEW credit \in [swept -> Nat], NEW vault
    PROVE  SweepCredits(swept, vault, credit) \in [Account -> Nat]
<1>1. \A S \in SUBSET swept : IsFiniteSet(S)
  BY DepositAssumption, FS_Subset
<1>2. Total(credit) \in Nat
  BY <1>1, TotalType
<1>3. Total([d \in swept |-> deposits[d].treasuryFee]) \in Nat
  <2>1. [d \in swept |-> deposits[d].treasuryFee] \in [swept -> Nat]
    BY DEF DepositTypeOK, DepositRequest
  <2> QED
    BY <1>1, <2>1, TotalType
<1>4. ASSUME NEW a PROVE
        Total([d \in {d \in swept : deposits[d].depositor = a} |-> credit[d]]) \in Nat
  <2> DEFINE of == {d \in swept : deposits[d].depositor = a}
             part == [d \in of |-> credit[d]]
  <2>1. of \in SUBSET swept /\ part \in [of -> Nat]
    OBVIOUS
  <2>2. IsFiniteSet(of)
    BY <1>1, <2>1
  <2> HIDE DEF of, part
  <2>3. Total(part) \in Nat
    BY <2>1, <2>2, TotalType
  <2> QED
    BY <2>3 DEF of, part
<1> DEFINE depositorsOf(a) == {d \in swept : deposits[d].depositor = a}
           treasuryFees == Total([d \in swept |-> deposits[d].treasuryFee])
           routed == vault # NoVault /\ vault \in isVaultTrusted
           paid(a) == IF routed THEN (IF a = vault THEN Total(credit) ELSE 0)
                      ELSE Total([d \in depositorsOf(a) |-> credit[d]])
           due(a) == IF a = Treasury THEN treasuryFees ELSE 0
<1>5. \A a \in Account : paid(a) \in Nat
  BY <1>2, <1>4
<1>6. \A a \in Account : due(a) \in Nat
  BY <1>3
<1>7. SweepCredits(swept, vault, credit) = [a \in Account |-> paid(a) + due(a)]
  BY DEF SweepCredits
<1> HIDE DEF paid, due
<1> QED
  BY <1>5, <1>6, <1>7

LEMMA RevealDepositType ==
    ASSUME TypeInv, NEW d \in DepositKey, NEW w \in Wallet, NEW depositor \in User,
           NEW amount \in Nat, NEW vault \in Vault \union {NoVault},
           NEW treasuryFee \in DepositTreasuryFees(amount),
           RevealDeposit(d, w, depositor, amount, vault, treasuryFee)
    PROVE  DepositTypeOK'
<1>1. treasuryFee \in Nat /\ now \in Nat
  BY DepositTreasuryFeesBound DEF TypeInv, TypeOK, WalletsTypeOK
<1> QED
  BY <1>1 DEF RevealDeposit, TypeInv, TypeOK, DepositTypeOK, DepositRequest

LEMMA SweepInputsType ==
    ASSUME TypeInv, NEW w \in Wallet, NEW swept \in SUBSET DepositKey
    PROVE  SweepInputs(w, swept) \in Nat
<1>1. IsFiniteSet(swept)
  BY DepositAssumption, FS_Subset
<1>2. [d \in swept |-> deposits[d].amount] \in [swept -> Nat]
  BY DEF TypeInv, TypeOK, DepositTypeOK, DepositRequest
<1> QED
  BY <1>1, <1>2, TotalType, WalletBtcBalanceType DEF SweepInputs, TypeInv, TypeOK

\* No depositor is charged more than the deposit.
LEMMA DepositedAmountsType ==
    ASSUME TypeInv, NEW w \in Wallet, NEW swept \in SUBSET DepositKey,
           NEW vault, NEW last \in swept, NEW outputValue \in Nat,
           SubmitDepositSweepProof(w, swept, last, outputValue, vault)
    PROVE  DepositedAmounts(w, swept, last, outputValue) \in [swept -> Nat]
<1> DEFINE txFee == SweepInputs(w, swept) - outputValue
           count == Cardinality(swept)
           credit == DepositedAmounts(w, swept, last, outputValue)
<1>1. txFee \in Nat
  BY SweepInputsType DEF SubmitDepositSweepProof
<1>2. count \in Nat /\ count > 0
  BY DepositAssumption, FS_Subset, FS_CardinalityType, FS_EmptySet
<1>3. \A d \in swept : credit[d] >= 0
  BY DEF SubmitDepositSweepProof
<1>4. ASSUME NEW d \in swept PROVE credit[d] \in Int
  <2>1. deposits[d].amount \in Nat /\ deposits[d].treasuryFee \in Nat
    BY DEF TypeInv, TypeOK, DepositTypeOK, DepositRequest
  <2>2. credit[d] = DepositCredit(d, last, txFee, count)
    BY DEF DepositedAmounts
  <2> HIDE DEF txFee, count, credit
  <2>3. txFee % count \in Int /\ DepositTxFee(txFee, count) \in Int
    BY <1>1, <1>2 DEF DepositTxFee
  <2> QED
    BY <2>1, <2>2, <2>3 DEF DepositCredit, DepositTxFeeIncurred
<1>5. credit = [d \in swept |-> credit[d]]
  BY DEF DepositedAmounts
<1> QED
  BY <1>3, <1>4, <1>5

LEMMA SubmitDepositSweepProofType ==
    ASSUME TypeInv, NEW w \in Wallet, NEW swept \in SUBSET DepositKey,
           NEW vault \in Vault \union {NoVault}, NEW last \in swept,
           NEW outputValue \in Nat,
           SubmitDepositSweepProof(w, swept, last, outputValue, vault)
    PROVE  WalletsTypeOK' /\ DepositTypeOK' /\ BankTypeOK'
<1> DEFINE credit == DepositedAmounts(w, swept, last, outputValue)
<1>1. credit \in [swept -> Nat]
  BY DepositedAmountsType
<1>2. BankTypeOK'
  <2>1. SweepCredits(swept, vault, credit) \in [Account -> Nat]
    BY <1>1, SweepCreditsType DEF TypeInv, TypeOK
  <2>2. balanceOf' = AllIncreased(balanceOf, SweepCredits(swept, vault, credit))
    BY DEF SubmitDepositSweepProof
  <2> HIDE DEF credit
  <2> QED
    BY <2>1, <2>2 DEF AllIncreased, TypeInv, TypeOK, BankTypeOK
<1>3. DepositTypeOK'
  <2>1. deposits' = [d \in DepositKey |->
                        IF d \in swept THEN [deposits[d] EXCEPT !.sweptAt = now]
                                       ELSE deposits[d]]
    BY DEF SubmitDepositSweepProof
  <2>2. now \in Nat /\ deposits \in [DepositKey -> DepositRequest]
    BY DEF TypeInv, TypeOK, WalletsTypeOK, DepositTypeOK
  <2>3. ASSUME NEW d \in DepositKey
        PROVE  [deposits[d] EXCEPT !.sweptAt = now] \in DepositRequest
    BY <2>2 DEF DepositRequest
  <2>4. isVaultTrusted' = isVaultTrusted
    BY DEF SubmitDepositSweepProof
  <2> QED
    BY <2>1, <2>2, <2>3, <2>4 DEF TypeInv, TypeOK, DepositTypeOK
<1>4. WalletsTypeOK'
  <2>1. spentMainUTXOs' \in [Wallet -> Nat]
    BY SpendMainUtxoType DEF SubmitDepositSweepProof, TypeInv, TypeOK
  <2> QED
    BY <2>1 DEF SubmitDepositSweepProof, TypeInv, TypeOK, WalletsTypeOK, walletVars,
                registryVars
<1> QED
  BY <1>2, <1>3, <1>4

LEMMA DepositType ==
    ASSUME TypeInv, DepositNext
    PROVE  WalletsTypeOK' /\ DepositTypeOK' /\ BankTypeOK'
<1>1. ASSUME NEW d \in DepositKey, NEW w \in Wallet, NEW depositor \in User,
             NEW amount \in DepositAmount, NEW vault \in Vault \union {NoVault},
             NEW treasuryFee \in DepositTreasuryFees(amount),
             RevealDeposit(d, w, depositor, amount, vault, treasuryFee)
      PROVE  WalletsTypeOK' /\ DepositTypeOK' /\ BankTypeOK'
  <2>1. DepositTypeOK'
    BY <1>1, RevealDepositType, DepositAssumption
  <2> QED
    BY <1>1, <2>1 DEF RevealDeposit, TypeInv, TypeOK, WalletsTypeOK, BankTypeOK,
                      walletVars, registryVars, balanceFields
<1>2. ASSUME NEW w \in Wallet, NEW swept \in SUBSET DepositKey,
             NEW vault \in Vault \union {NoVault}, NEW last \in swept,
             NEW outputValue \in 0..SweepInputs(w, swept),
             SubmitDepositSweepProof(w, swept, last, outputValue, vault)
      PROVE  WalletsTypeOK' /\ DepositTypeOK' /\ BankTypeOK'
  <2>1. SweepInputs(w, swept) \in Nat
    BY SweepInputsType
  <2> QED
    BY <1>2, <2>1, SubmitDepositSweepProofType
<1>3. ASSUME NEW vault \in Vault, NEW isTrusted \in BOOLEAN,
             SetVaultStatus(vault, isTrusted)
      PROVE  WalletsTypeOK' /\ DepositTypeOK' /\ BankTypeOK'
  BY <1>3 DEF SetVaultStatus, TypeInv, TypeOK, WalletsTypeOK, DepositTypeOK, BankTypeOK,
              walletVars, registryVars, balanceFields
<1> QED
  BY <1>1, <1>2, <1>3 DEF DepositNext, RevealNext, SweepNext, VaultStatusNext

-----------------------------------------------------------------------------
(***************************************************************************)
(* Fraud challenges, the Bank, and the whole.                              *)
(***************************************************************************)
LEMMA FraudType ==
    ASSUME TypeInv, FraudNext
    PROVE  WalletsTypeOK' /\ FraudTypeOK'
<1> USE DEF TypeInv, TypeOK
<1>1. ASSUME NEW w \in Wallet, NEW sighash \in Sighash,
             ResolveFraudChallenge(<<w, sighash>>)
      PROVE  FraudTypeOK'
  <2>1. [fraudChallenges EXCEPT ![<<w, sighash>>].resolved = TRUE]
            \in [ChallengeKey -> FraudChallenge]
    BY DEF FraudTypeOK, FraudChallenge, ChallengeKey
  <2>2. bridgeEther \in Int /\ (bridgeEther' = bridgeEther - 1 \/ bridgeEther' = bridgeEther)
    BY <1>1 DEF ResolveFraudChallenge, FraudTypeOK
  <2> QED
    BY <1>1, <2>1, <2>2 DEF ResolveFraudChallenge, FraudTypeOK
<1>2. ASSUME NEW w \in Wallet, NEW sighash \in Sighash, SubmitFraudChallenge(w, sighash)
      PROVE  FraudTypeOK'
  <2>1. [reportedAt |-> now, resolved |-> FALSE] \in FraudChallenge
    BY DEF FraudChallenge, WalletsTypeOK
  <2>2. fraudChallenges \in [ChallengeKey -> FraudChallenge] /\ bridgeEther \in Int
    BY DEF FraudTypeOK
  <2>3. /\ fraudChallenges' = [fraudChallenges EXCEPT ![<<w, sighash>>] =
                                    [reportedAt |-> now, resolved |-> FALSE]]
        /\ bridgeEther' = bridgeEther + 1
    BY <1>2 DEF SubmitFraudChallenge
  <2> DEFINE challenge == [reportedAt |-> now, resolved |-> FALSE]
  <2> HIDE DEF challenge
  <2>4. [fraudChallenges EXCEPT ![<<w, sighash>>] = challenge]
            \in [ChallengeKey -> FraudChallenge]
    BY <2>1, <2>2 DEF challenge
  <2> QED
    BY <2>2, <2>3, <2>4 DEF FraudTypeOK, challenge
<1>3. FraudTypeOK'
  BY <1>1, <1>2 DEF FraudNext, DefeatFraudChallenge, DefeatFraudChallengeWithHeartbeat,
                    NotifyFraudChallengeDefeatTimeout
<1>4. ASSUME NEW w \in Wallet, NotifyWalletFraudChallengeDefeatTimeout(w),
             UNCHANGED <<now, balanceFields>>
      PROVE  WalletsTypeOK'
  BY <1>4, TerminateWalletType
     DEF NotifyWalletFraudChallengeDefeatTimeout, WalletsTypeOK, walletVars,
         registryVars, balanceFields
<1>5. ASSUME UNCHANGED <<now, balanceFields, walletVars, registryVars>>
      PROVE  WalletsTypeOK'
  BY <1>5 DEF WalletsTypeOK, walletVars, registryVars, balanceFields
<1>6. WalletsTypeOK'
  BY <1>4, <1>5 DEF FraudNext, SubmitFraudChallenge, DefeatFraudChallenge,
                    DefeatFraudChallengeWithHeartbeat, NotifyFraudChallengeDefeatTimeout
<1> QED
  BY <1>3, <1>6

LEMMA OwnerType ==
    ASSUME TypeInv, NEW account \in Account, OwnerNext(account)
    PROVE  WalletsTypeOK' /\ BankTypeOK'
<1>1. BankTypeOK'
  BY AccountAssumption, TransferredType, DecreasedType
     DEF OwnerNext, TransferBalance, DecreaseBalance, BankTypeOK, TypeInv, TypeOK
<1>2. WalletsTypeOK'
  BY DEF OwnerNext, TypeInv, TypeOK, WalletsTypeOK, walletStorage, walletVars,
         registryVars, balanceFields
<1> QED
  BY <1>1, <1>2

LEMMA TypeUnchanged ==
    ASSUME TypeInv
    PROVE  /\ UNCHANGED movedFundsSweepRequests => MovingFundsTypeOK'
           /\ UNCHANGED redemptionVars => RedemptionTypeOK' /\ FeesWithinAmounts'
           /\ UNCHANGED depositVars => DepositTypeOK'
           /\ UNCHANGED fraudVars => FraudTypeOK'
           /\ UNCHANGED balanceOf => BankTypeOK'
BY DEF TypeInv, TypeOK, MovingFundsTypeOK, RedemptionTypeOK, FeesWithinAmounts,
       DepositTypeOK, FraudTypeOK, BankTypeOK, redemptionVars, depositVars, fraudVars

LEMMA TypeNext == TypeInv /\ [Next]_vars => TypeInv'
<1> SUFFICES ASSUME TypeInv, [Next]_vars PROVE TypeInv'
  OBVIOUS
<1> USE TypeUnchanged
<1>0. /\ WalletsTypeOK /\ MovingFundsTypeOK
      /\ (WalletsTypeOK' /\ MovingFundsTypeOK' /\ RedemptionTypeOK' /\ FeesWithinAmounts'
          /\ DepositTypeOK' /\ FraudTypeOK' /\ BankTypeOK' => TypeInv')
  BY DEF TypeInv, TypeOK
<1>1. CASE /\ WalletsNext
           /\ UNCHANGED <<movedFundsSweepRequests, redemptionVars, depositVars,
                          fraudVars, balanceOf>>
  BY <1>0, <1>1, WalletsType
<1>2. CASE /\ MovingFundsNext
           /\ UNCHANGED <<redemptionVars, depositVars, fraudVars, balanceOf>>
  BY <1>0, <1>2, MovingFundsType
<1>3. CASE /\ RedemptionNext
           /\ UNCHANGED <<movedFundsSweepRequests, depositVars, fraudVars>>
  BY <1>0, <1>3, RedemptionType
<1>4. CASE /\ DepositNext
           /\ UNCHANGED <<movedFundsSweepRequests, redemptionVars, fraudVars>>
  BY <1>0, <1>4, DepositType
<1>5. CASE FraudNext /\ UNCHANGED redemptionVars
  BY <1>0, <1>5, FraudType DEF FraudNext
<1>6. ASSUME NEW account \in Account, OwnerNext(account) PROVE TypeInv'
  BY <1>0, <1>6, OwnerType DEF OwnerNext
<1>7. CASE UNCHANGED vars
  <2>1. WalletsTypeOK'
    BY <1>0, <1>7 DEF vars, walletStorage, walletVars, registryVars, balanceFields,
                      WalletsTypeOK
  <2> QED
    BY <1>0, <1>7, <2>1 DEF vars
<1> QED
  BY <1>1, <1>2, <1>3, <1>4, <1>5, <1>6, <1>7 DEF Next, QuietNext, DepositNext

\* Every reachable state of the Bridge is well-typed and no treasury fee exceeds
\* its amount.
THEOREM TypeInvariant == Spec => []TypeInv
BY TypeInit, TypeNext, PTL DEF Spec

\* Every reachable state is well-typed: in particular no account of the Bank,
\* whose balances leave it unchecked in several calls of one transaction, is
\* overdrawn.
THEOREM TypeCorrect == Spec => []TypeOK
<1>1. TypeInv => TypeOK
  BY DEF TypeInv
<1> QED
  BY <1>1, TypeInvariant, PTL

(***************************************************************************)
(* The forty or so handlers of the Bridge change the lives of wallets in   *)
(* seven ways only.                                                        *)
(***************************************************************************)
lifeVars == <<walletState, activeWallet, liveWalletsCount, registryWallets>>

Registers(w) ==
    /\ walletState[w] = "Unknown"
    /\ walletState' = [walletState EXCEPT ![w] = "Live"]
    /\ activeWallet' = w
    /\ liveWalletsCount' = liveWalletsCount + 1
    /\ registryWallets' = registryWallets \union {w}

Retires(w) ==
    /\ walletState[w] = "Live"
    /\ \/ walletState' = [walletState EXCEPT ![w] = "Closing"]
       \/ walletState' = [walletState EXCEPT ![w] = "MovingFunds"]
    /\ UnsetActiveWallet(w)
    /\ liveWalletsCount' = liveWalletsCount - 1
    /\ UNCHANGED registryWallets

StartsClosing(w) ==
    /\ walletState[w] = "MovingFunds"
    /\ walletState' = [walletState EXCEPT ![w] = "Closing"]
    /\ UNCHANGED <<activeWallet, liveWalletsCount, registryWallets>>

Closes(w) ==
    /\ walletState[w] = "Closing"
    /\ walletState' = [walletState EXCEPT ![w] = "Closed"]
    /\ CloseInRegistry(w)
    /\ UNCHANGED <<activeWallet, liveWalletsCount>>

IsTerminated(w) ==
    /\ walletState[w] \in {"Live", "MovingFunds", "Closing"}
    /\ DecrementLiveWalletsIfLive(w)
    /\ walletState' = [walletState EXCEPT ![w] = "Terminated"]
    /\ UnsetActiveWallet(w)
    /\ CloseInRegistry(w)

LifeStep ==
    \/ UNCHANGED lifeVars
    \/ \E w \in Wallet :
          Registers(w) \/ Retires(w) \/ StartsClosing(w) \/ Closes(w) \/ IsTerminated(w)

\* MoveFunds(w), called for a live wallet, retires it.
LEMMA MoveFundsRetires ==
    ASSUME NEW w \in Wallet, walletState[w] = "Live", MoveFunds(w)
    PROVE  Retires(w)
BY DEF MoveFunds, Retires, BeginWalletClosing, registryVars

LEMMA TerminateWalletTerminates ==
    ASSUME NEW w \in Wallet, walletState[w] \in {"Live", "MovingFunds", "Closing"},
           TerminateWallet(w)
    PROVE  IsTerminated(w)
BY DEF TerminateWallet, IsTerminated

\* Every handler of library Wallets takes a LifeStep.
LEMMA WalletsLifeStep == WalletsNext => LifeStep
<1> SUFFICES ASSUME WalletsNext PROVE LifeStep
  OBVIOUS
<1>1. CASE RequestNewWallet \/ WalletCreationFails \/ Tick
  BY <1>1 DEF RequestNewWallet, WalletCreationFails, Tick, LifeStep, lifeVars,
              walletVars, registryVars
<1>2. ASSUME NEW w \in Wallet, RegisterNewWallet(w) PROVE LifeStep
  BY <1>2 DEF RegisterNewWallet, LifeStep, Registers
<1>3. ASSUME NEW w \in Wallet,
             NotifyWalletHeartbeatFailed(w) \/ NotifyWalletCloseable(w)
      PROVE  LifeStep
  BY <1>3, MoveFundsRetires
     DEF NotifyWalletHeartbeatFailed, NotifyWalletCloseable, LifeStep
<1>4. ASSUME NEW w \in Wallet, NotifyWalletClosingPeriodElapsed(w) PROVE LifeStep
  BY <1>4 DEF NotifyWalletClosingPeriodElapsed, FinalizeWalletClosing, LifeStep, Closes
<1> QED
  BY <1>1, <1>2, <1>3, <1>4 DEF WalletsNext

\* Every handler of library MovingFunds takes a LifeStep.
LEMMA MovingFundsLifeStep == MovingFundsNext => LifeStep
<1> SUFFICES ASSUME NEW w \in Wallet,
        \/ \E targets \in SUBSET Wallet : SubmitMovingFundsCommitment(w, targets)
        \/ ResetMovingFundsTimeout(w)
        \/ \E outputs \in [commitment[w] -> 0..WalletBtcBalance(w)] :
              SubmitMovingFundsProof(w, outputs)
        \/ NotifyMovingFundsTimeout(w)
        \/ NotifyMovingFundsBelowDust(w)
        \/ \E source \in Wallet :
              \/ \E outputValue \in
                    0..(movedFundsSweepRequests[<<source, w>>].value + WalletBtcBalance(w)) :
                       SubmitMovedFundsSweepProof(source, w, outputValue)
              \/ NotifyMovedFundsSweepTimeout(source, w)
             PROVE  LifeStep
  BY DEF MovingFundsNext
<1>1. ASSUME NEW targets \in SUBSET Wallet, SubmitMovingFundsCommitment(w, targets)
      PROVE  LifeStep
  BY <1>1 DEF SubmitMovingFundsCommitment, LifeStep, lifeVars, walletVars, registryVars
<1>2. CASE ResetMovingFundsTimeout(w)
  BY <1>2 DEF ResetMovingFundsTimeout, LifeStep, lifeVars, registryVars
<1>3. ASSUME NEW outputs, SubmitMovingFundsProof(w, outputs) PROVE LifeStep
  <2>1. StartsClosing(w)
    BY <1>3 DEF SubmitMovingFundsProof, NotifyWalletFundsMoved, StartsClosing,
                BeginWalletClosing, registryVars
  <2> QED
    BY <2>1 DEF LifeStep
<1>4. CASE NotifyMovingFundsTimeout(w)
  BY <1>4, TerminateWalletTerminates
     DEF NotifyMovingFundsTimeout, NotifyWalletMovingFundsTimeout, LifeStep
<1>5. CASE NotifyMovingFundsBelowDust(w)
  BY <1>5 DEF NotifyMovingFundsBelowDust, NotifyWalletMovingFundsBelowDust, LifeStep,
              StartsClosing, BeginWalletClosing, registryVars
<1>6. ASSUME NEW source, NEW outputValue,
             SubmitMovedFundsSweepProof(source, w, outputValue)
      PROVE  LifeStep
  BY <1>6 DEF SubmitMovedFundsSweepProof, LifeStep, lifeVars, walletVars, registryVars
<1>7. ASSUME NEW source, NotifyMovedFundsSweepTimeout(source, w) PROVE LifeStep
  <2>1. NotifyWalletMovedFundsSweepTimeout(w)
    BY <1>7 DEF NotifyMovedFundsSweepTimeout
  <2> QED
    BY <2>1, TerminateWalletTerminates
       DEF NotifyWalletMovedFundsSweepTimeout, LifeStep, lifeVars, walletVars, registryVars
<1> QED
  BY <1>1, <1>2, <1>3, <1>4, <1>5, <1>6, <1>7

\* Every handler of library Redemption takes a LifeStep.
LEMMA RedemptionLifeStep == RedemptionNext => LifeStep
<1>1. ASSUME NEW w \in Wallet, NEW s, NEW owner, NEW redeemer, NEW amount, NEW fee,
             RequestRedemption(w, s, owner, redeemer, amount, fee)
      PROVE  LifeStep
  BY <1>1 DEF RequestRedemption, LifeStep, lifeVars, walletVars, registryVars
<1>2. ASSUME NEW w \in Wallet, NEW s, NotifyRedemptionTimeout(w, s) PROVE LifeStep
  <2>1. NotifyWalletRedemptionTimeout(w)
    BY <1>2 DEF NotifyRedemptionTimeout
  <2> QED
    BY <2>1, MoveFundsRetires
       DEF NotifyWalletRedemptionTimeout, LifeStep, lifeVars, walletVars, registryVars
<1>3. ASSUME NEW w \in Wallet, NEW s, NEW penaltyFee,
             NotifyRedemptionVeto(w, s, penaltyFee)
      PROVE  LifeStep
  BY <1>3 DEF NotifyRedemptionVeto, LifeStep, lifeVars, walletVars, registryVars
<1>4. ASSUME NEW w \in Wallet, NEW outputs, NEW changeValue,
             SubmitRedemptionProof(w, outputs, changeValue)
      PROVE  LifeStep
  BY <1>4 DEF SubmitRedemptionProof, LifeStep, lifeVars, walletVars, registryVars
<1> QED
  BY <1>1, <1>2, <1>3, <1>4 DEF RedemptionNext, RequestNext, VetoNext, SettleNext

\* No handler of Deposit and DepositSweep changes the life of a wallet.
LEMMA DepositLifeStep == DepositNext => UNCHANGED lifeVars
<1>1. ASSUME NEW d, NEW w, NEW depositor, NEW amount, NEW vault, NEW fee,
             RevealDeposit(d, w, depositor, amount, vault, fee)
      PROVE  UNCHANGED lifeVars
  BY <1>1 DEF RevealDeposit, lifeVars, walletVars, registryVars
<1>2. ASSUME NEW w, NEW swept, NEW last, NEW outputValue, NEW vault,
             SubmitDepositSweepProof(w, swept, last, outputValue, vault)
      PROVE  UNCHANGED lifeVars
  BY <1>2 DEF SubmitDepositSweepProof, lifeVars, walletVars, registryVars
<1>3. ASSUME NEW vault, NEW isTrusted, SetVaultStatus(vault, isTrusted)
      PROVE  UNCHANGED lifeVars
  BY <1>3 DEF SetVaultStatus, lifeVars, walletVars, registryVars
<1> QED
  BY <1>1, <1>2, <1>3 DEF DepositNext, RevealNext, SweepNext, VaultStatusNext

\* Every handler of library Fraud takes a LifeStep.
LEMMA FraudLifeStep == FraudNext => LifeStep
<1> SUFFICES ASSUME NEW w \in Wallet, NEW sighash \in Sighash,
                    \/ SubmitFraudChallenge(w, sighash)
                    \/ DefeatFraudChallenge(w, sighash)
                    \/ DefeatFraudChallengeWithHeartbeat(w, sighash)
                    \/ NotifyFraudChallengeDefeatTimeout(w, sighash)
             PROVE  LifeStep
  BY DEF FraudNext
<1>1. CASE \/ SubmitFraudChallenge(w, sighash)
           \/ DefeatFraudChallenge(w, sighash)
           \/ DefeatFraudChallengeWithHeartbeat(w, sighash)
  BY <1>1 DEF SubmitFraudChallenge, DefeatFraudChallenge, LifeStep, lifeVars,
              DefeatFraudChallengeWithHeartbeat, walletVars, registryVars
<1>2. CASE NotifyFraudChallengeDefeatTimeout(w, sighash)
  <2>1. NotifyWalletFraudChallengeDefeatTimeout(w)
    BY <1>2 DEF NotifyFraudChallengeDefeatTimeout
  <2> QED
    BY <2>1, TerminateWalletTerminates
       DEF NotifyWalletFraudChallengeDefeatTimeout, LifeStep, lifeVars, walletVars,
           registryVars
<1> QED
  BY <1>1, <1>2

\* Every step of the Bridge takes a LifeStep.
LEMMA NextLifeStep == [Next]_vars => LifeStep
<1>1. UNCHANGED vars => LifeStep
  BY DEF vars, walletStorage, walletVars, registryVars, LifeStep, lifeVars
<1>2. ASSUME NEW account, OwnerNext(account) PROVE LifeStep
  BY <1>2 DEF OwnerNext, walletStorage, walletVars, registryVars, LifeStep, lifeVars
<1> QED
  BY <1>1, <1>2, WalletsLifeStep, MovingFundsLifeStep, RedemptionLifeStep,
     DepositLifeStep, FraudLifeStep
     DEF Next, QuietNext, DepositNext, LifeStep

-----------------------------------------------------------------------------
(***************************************************************************)
(* The inductive invariant.                                                *)
(***************************************************************************)
LifeTypeOK ==
    /\ walletState \in [Wallet -> WalletState]
    /\ activeWallet \in Wallet \union {NoWallet}
    /\ liveWalletsCount \in Int
    /\ registryWallets \subseteq Wallet

LifeInv == LifeTypeOK /\ ActiveWalletIsLive /\ RegistryAgreement /\ LiveWalletsCountExact

LEMMA LifeInit == Init => LifeInv
<1> SUFFICES ASSUME Init PROVE LifeInv
  OBVIOUS
<1> USE DEF Init, WalletsInit
<1>1. LifeTypeOK
  BY DEF LifeTypeOK, WalletState
<1>2. LiveWallets = {} /\ OpenWallets = {}
  BY DEF LiveWallets, OpenWallets
<1> QED
  BY <1>1, <1>2, FS_EmptySet
     DEF LifeInv, ActiveWalletIsLive, RegistryAgreement, LiveWalletsCountExact

LEMMA LifeNext == LifeInv /\ LifeStep => LifeInv'
<1> SUFFICES ASSUME LifeInv, LifeStep PROVE LifeInv'
  OBVIOUS
<1> USE DEF LifeInv
<1>finite. IsFiniteSet(Wallet) /\ NoWallet \notin Wallet
  BY WalletAssumption
<1>live. IsFiniteSet(LiveWallets)
  BY <1>finite, FS_Subset DEF LiveWallets
<1>1. CASE UNCHANGED lifeVars
  BY <1>1 DEF lifeVars, LifeTypeOK, ActiveWalletIsLive, RegistryAgreement, OpenWallets,
              LiveWalletsCountExact, LiveWallets
<1>2. ASSUME NEW w \in Wallet, Registers(w) PROVE LifeInv'
  <2> USE <1>2 DEF Registers, LifeTypeOK, WalletState
  <2>1. LifeTypeOK' /\ ActiveWalletIsLive' /\ RegistryAgreement'
    BY <1>finite DEF ActiveWalletIsLive, RegistryAgreement, OpenWallets
  <2>2. LiveWallets' = LiveWallets \union {w} /\ w \notin LiveWallets
    BY DEF LiveWallets
  <2>3. LiveWalletsCountExact'
    BY <2>2, <1>live, FS_AddElement DEF LiveWalletsCountExact
  <2> QED
    BY <2>1, <2>3
<1>3. ASSUME NEW w \in Wallet, Retires(w) PROVE LifeInv'
  <2> USE <1>3 DEF Retires, LifeTypeOK, WalletState
  <2>1. LifeTypeOK' /\ ActiveWalletIsLive' /\ RegistryAgreement'
    BY <1>finite DEF ActiveWalletIsLive, RegistryAgreement, OpenWallets, UnsetActiveWallet
  <2>2. LiveWallets' = LiveWallets \ {w} /\ w \in LiveWallets
    BY DEF LiveWallets
  <2>3. LiveWalletsCountExact'
    BY <2>2, <1>live, FS_RemoveElement DEF LiveWalletsCountExact
  <2> QED
    BY <2>1, <2>3
<1>4. ASSUME NEW w \in Wallet, StartsClosing(w) \/ Closes(w) PROVE LifeInv'
  <2> USE <1>4 DEF StartsClosing, Closes, CloseInRegistry, LifeTypeOK, WalletState
  <2>1. LifeTypeOK' /\ ActiveWalletIsLive' /\ RegistryAgreement'
    BY <1>finite DEF ActiveWalletIsLive, RegistryAgreement, OpenWallets
  <2>2. LiveWallets' = LiveWallets
    BY DEF LiveWallets
  <2>3. LiveWalletsCountExact'
    BY <2>2 DEF LiveWalletsCountExact
  <2> QED
    BY <2>1, <2>3
<1>5. ASSUME NEW w \in Wallet, IsTerminated(w) PROVE LifeInv'
  <2> USE <1>5 DEF IsTerminated, CloseInRegistry, LifeTypeOK, WalletState
  <2>1. LifeTypeOK' /\ ActiveWalletIsLive' /\ RegistryAgreement'
    BY <1>finite DEF ActiveWalletIsLive, RegistryAgreement, OpenWallets,
                     UnsetActiveWallet, DecrementLiveWalletsIfLive
  <2>2. CASE walletState[w] = "Live"
    <3>1. LiveWallets' = LiveWallets \ {w} /\ w \in LiveWallets
      BY <2>2 DEF LiveWallets
    <3>2. LiveWalletsCountExact'
      BY <2>2, <3>1, <1>live, FS_RemoveElement
         DEF LiveWalletsCountExact, DecrementLiveWalletsIfLive
    <3> QED
      BY <2>1, <3>2
  <2>3. CASE walletState[w] # "Live"
    <3>1. LiveWallets' = LiveWallets
      BY <2>3 DEF LiveWallets
    <3>2. LiveWalletsCountExact'
      BY <2>3, <3>1 DEF LiveWalletsCountExact, DecrementLiveWalletsIfLive
    <3> QED
      BY <2>1, <3>2
  <2> QED
    BY <2>2, <2>3
<1> QED
  BY <1>1, <1>2, <1>3, <1>4, <1>5 DEF LifeStep

\* The inductive invariant holds in every reachable state of the Bridge.
THEOREM LifeInvariant == Spec => []LifeInv
<1>1. LifeInv /\ [Next]_vars => LifeInv'
  BY NextLifeStep, LifeNext
<1> QED
  BY LifeInit, <1>1, PTL DEF Spec

\* The active wallet is always one of the live wallets.
THEOREM ActiveWalletTheorem == Spec => []ActiveWalletIsLive
<1>1. LifeInv => ActiveWalletIsLive
  BY DEF LifeInv
<1> QED
  BY <1>1, LifeInvariant, PTL

\* liveWalletsCount is exact, although two functions decrement it.
THEOREM LiveWalletsCountTheorem == Spec => []LiveWalletsCountExact
<1>1. LifeInv => LiveWalletsCountExact
  BY DEF LifeInv
<1> QED
  BY <1>1, LifeInvariant, PTL

\* The ECDSA registry holds exactly the wallets the Bridge may still slash.
THEOREM RegistryAgreementTheorem == Spec => []RegistryAgreement
<1>1. LifeInv => RegistryAgreement
  BY DEF LifeInv
<1> QED
  BY <1>1, LifeInvariant, PTL

-----------------------------------------------------------------------------
(***************************************************************************)
(* Refinement.                                                             *)
(***************************************************************************)
LEMMA LifeStepRefines == LifeStep => [Lifecycle!Next]_(Lifecycle!lifecycleVars)
<1> SUFFICES ASSUME LifeStep PROVE [Lifecycle!Next]_(Lifecycle!lifecycleVars)
  OBVIOUS
<1> USE DEF Lifecycle!Next, Lifecycle!lifecycleVars, Lifecycle!Becomes,
            Lifecycle!Deactivate, UnsetActiveWallet
<1>1. CASE UNCHANGED lifeVars
  BY <1>1 DEF lifeVars
<1>2. ASSUME NEW w \in Wallet, Registers(w) PROVE Lifecycle!Next
  BY <1>2 DEF Registers, Lifecycle!Register
<1>3. ASSUME NEW w \in Wallet, Retires(w) PROVE Lifecycle!Next
  BY <1>3 DEF Retires, Lifecycle!Retire
<1>4. ASSUME NEW w \in Wallet, StartsClosing(w) PROVE Lifecycle!Next
  BY <1>4 DEF StartsClosing, Lifecycle!BeginClosing
<1>5. ASSUME NEW w \in Wallet, Closes(w) PROVE Lifecycle!Next
  BY <1>5 DEF Closes, Lifecycle!Close
<1>6. ASSUME NEW w \in Wallet, IsTerminated(w) PROVE Lifecycle!Next
  BY <1>6 DEF IsTerminated, Lifecycle!Terminate
<1> QED
  BY <1>1, <1>2, <1>3, <1>4, <1>5, <1>6 DEF LifeStep

\* The Bridge implements WalletLifecycle: wallets go through their states in
\* one direction only, and stop being active when they stop being live.
THEOREM BridgeImplementsLifecycle == Spec => LifecycleSpec
<1>1. Init => Lifecycle!Init
  BY DEF Init, WalletsInit, Lifecycle!Init
<1>2. [Next]_vars => [Lifecycle!Next]_(Lifecycle!lifecycleVars)
  BY NextLifeStep, LifeStepRefines
<1> QED
  BY <1>1, <1>2, PTL DEF Spec, LifecycleSpec, Lifecycle!Spec

-----------------------------------------------------------------------------
(***************************************************************************)
(* The strengthened invariants.                                            *)
(***************************************************************************)

\* Only a wallet that has handed its funds over is the source of a sweep
\* request: the proof that creates the requests takes it out of MovingFunds,
\* so that no request is ever created twice.
SweepSourcesRetired ==
    \A source, w \in Wallet :
        movedFundsSweepRequests[<<source, w>>].state # "Unknown"
            => walletState[source] \notin {"Unknown", "Live", "MovingFunds"}
SweepInv == SweepSourcesRetired /\ SweepRequestsCountExact

\* Where no request is pending nothing is recorded, so that a new request adds
\* to the totals all that it records.
AbsentRequestsEmpty ==
    \A k \in RedemptionKey : ~Exists(pendingRedemptions[k]) =>
        /\ pendingRedemptions[k].requestedAmount = 0
        /\ pendingRedemptions[k].treasuryFee = 0
RedemptionInv ==
    AbsentRequestsEmpty /\ PendingRedemptionsValueExact /\ BridgeHoldsLockedBalance

\* A wallet with a timed out request has been registered, and never takes
\* requests again.
TimeoutInv ==
    \A k \in RedemptionKey : Exists(timedOutRedemptions[k]) =>
        /\ ~Exists(pendingRedemptions[k])
        /\ walletState[k[1]] \notin {"Unknown", "Live"}

\* A pending request has something left to redeem, so that the value reserved
\* by a wallet is zero only if no request is pending; and only wallets that take
\* no more requests have committed.
CommitmentInv ==
    /\ \A k \in RedemptionKey : Exists(pendingRedemptions[k]) =>
          RedeemableAmount(pendingRedemptions[k]) > 0
    /\ \A w \in Wallet : commitment[w] # {} => walletState[w] \notin {"Unknown", "Live"}
    /\ CommittedWalletsOweNoRedemption

-----------------------------------------------------------------------------
(***************************************************************************)
(* Fraud challenges.                                                       *)
(***************************************************************************)
OpenChallenges == {k \in ChallengeKey : IsOpen(fraudChallenges[k])}

LEMMA OpenChallengesFinite == IsFiniteSet(ChallengeKey) /\ IsFiniteSet(OpenChallenges)
<1>1. IsFiniteSet(ChallengeKey)
  BY WalletAssumption, SighashAssumption, FS_Product DEF ChallengeKey
<1> QED
  BY <1>1, FS_Subset DEF OpenChallenges

\* A challenge is reported once, with a deposit of ether.
LEMMA SubmitFraudChallengeEther ==
    ASSUME TypeInv, EtherHeldForOpenChallenges, NEW w \in Wallet, NEW sighash \in Sighash,
           SubmitFraudChallenge(w, sighash)
    PROVE  EtherHeldForOpenChallenges'
<1> DEFINE key == <<w, sighash>>
<1>1. key \in ChallengeKey /\ now > 0
  BY DEF ChallengeKey, TypeInv, TypeOK, WalletsTypeOK
<1>2. OpenChallenges' = OpenChallenges \union {key} /\ key \notin OpenChallenges
  BY <1>1 DEF SubmitFraudChallenge, OpenChallenges, IsOpen, TypeInv, TypeOK, FraudTypeOK,
              ChallengeKey, FraudChallenge
<1>3. Cardinality(OpenChallenges') = Cardinality(OpenChallenges) + 1
  BY <1>2, OpenChallengesFinite, FS_AddElement
<1>4. bridgeEther' = bridgeEther + 1 /\ bridgeEther \in Int
  BY DEF SubmitFraudChallenge, TypeInv, TypeOK, FraudTypeOK
<1>5. Cardinality(OpenChallenges) \in Nat
  BY OpenChallengesFinite, FS_CardinalityType
<1> QED
  BY <1>3, <1>4, <1>5 DEF EtherHeldForOpenChallenges, OpenChallenges

\* A resolved challenge is not open any more, whether its ether leaves or not.
LEMMA ResolveFraudChallengeEther ==
    ASSUME TypeInv, EtherHeldForOpenChallenges, NEW key \in ChallengeKey,
           IsOpen(fraudChallenges[key]), ResolveFraudChallenge(key)
    PROVE  EtherHeldForOpenChallenges'
<1>1. OpenChallenges' = OpenChallenges \ {key} /\ key \in OpenChallenges
  BY DEF ResolveFraudChallenge, OpenChallenges, IsOpen, TypeInv, TypeOK, FraudTypeOK,
         FraudChallenge
<1>2. Cardinality(OpenChallenges') = Cardinality(OpenChallenges) - 1
  BY <1>1, OpenChallengesFinite, FS_RemoveElement
<1>3. bridgeEther \in Int /\ (bridgeEther' = bridgeEther - 1 \/ bridgeEther' = bridgeEther)
  BY DEF ResolveFraudChallenge, TypeInv, TypeOK, FraudTypeOK
<1>4. Cardinality(OpenChallenges) \in Nat
  BY OpenChallengesFinite, FS_CardinalityType
<1> QED
  BY <1>2, <1>3, <1>4 DEF EtherHeldForOpenChallenges, OpenChallenges

LEMMA FraudNextEther ==
    ASSUME TypeInv, EtherHeldForOpenChallenges, FraudNext
    PROVE  EtherHeldForOpenChallenges'
<1>1. PICK w \in Wallet, sighash \in Sighash :
          \/ SubmitFraudChallenge(w, sighash)
          \/ DefeatFraudChallenge(w, sighash)
          \/ DefeatFraudChallengeWithHeartbeat(w, sighash)
          \/ NotifyFraudChallengeDefeatTimeout(w, sighash)
  BY DEF FraudNext
<1>2. <<w, sighash>> \in ChallengeKey
  BY DEF ChallengeKey
<1>3. \/ SubmitFraudChallenge(w, sighash)
      \/ /\ IsOpen(fraudChallenges[<<w, sighash>>])
         /\ ResolveFraudChallenge(<<w, sighash>>)
  BY <1>1 DEF DefeatFraudChallenge, DefeatFraudChallengeWithHeartbeat,
              NotifyFraudChallengeDefeatTimeout
<1> QED
  BY <1>2, <1>3, SubmitFraudChallengeEther, ResolveFraudChallengeEther

\* Only the handlers of library Fraud touch the challenges and their ether.
LEMMA FraudStep == [Next]_vars => FraudNext \/ UNCHANGED fraudVars
<1>1. ASSUME NEW account, OwnerNext(account) PROVE UNCHANGED fraudVars
  BY <1>1 DEF OwnerNext
<1> QED
  BY <1>1 DEF Next, QuietNext, vars

\* The Bridge can always pay out the ether of every open challenge: a challenge
\* is settled once, and never at the expense of another one.
THEOREM EtherTheorem == Spec => []EtherHeldForOpenChallenges
<1>1. Init => EtherHeldForOpenChallenges
  <2> SUFFICES ASSUME Init PROVE EtherHeldForOpenChallenges
    OBVIOUS
  <2>1. OpenChallenges = {} /\ bridgeEther = 0
    BY DEF Init, FraudInit, IsOpen, OpenChallenges
  <2>2. bridgeEther >= Cardinality(OpenChallenges)
    BY <2>1, FS_EmptySet
  <2> QED
    BY <2>2 DEF OpenChallenges, EtherHeldForOpenChallenges
<1>2. TypeInv /\ EtherHeldForOpenChallenges /\ [Next]_vars => EtherHeldForOpenChallenges'
  <2>1. EtherHeldForOpenChallenges /\ UNCHANGED fraudVars => EtherHeldForOpenChallenges'
    BY DEF EtherHeldForOpenChallenges, fraudVars
  <2> QED
    BY <2>1, FraudStep, FraudNextEther
<1> QED
  BY <1>1, <1>2, TypeInvariant, PTL DEF Spec

-----------------------------------------------------------------------------
(***************************************************************************)
(* Main UTXOs.                                                             *)
(***************************************************************************)

\* A handler that changes the main UTXO of a wallet records the old one.
MainUtxoStep ==
    \/ UNCHANGED mainUtxo
    \/ \E w \in Wallet :
          /\ \E utxo : mainUtxo' = [mainUtxo EXCEPT ![w] = utxo]
          /\ SpendMainUtxo(w)

LEMMA WalletsMainUtxo == WalletsNext => UNCHANGED balanceFields
BY DEF WalletsNext, RequestNewWallet, WalletCreationFails, Tick, RegisterNewWallet,
       NotifyWalletHeartbeatFailed, NotifyWalletCloseable,
       NotifyWalletClosingPeriodElapsed

LEMMA MovingFundsMainUtxo == MovingFundsNext => MainUtxoStep
<1>1. ASSUME NEW w \in Wallet, NEW targets, SubmitMovingFundsCommitment(w, targets)
      PROVE  UNCHANGED mainUtxo
  BY <1>1 DEF SubmitMovingFundsCommitment
<1>2. ASSUME NEW w \in Wallet,
             \/ ResetMovingFundsTimeout(w)
             \/ NotifyMovingFundsTimeout(w)
             \/ NotifyMovingFundsBelowDust(w)
      PROVE  UNCHANGED mainUtxo
  BY <1>2 DEF ResetMovingFundsTimeout, NotifyMovingFundsTimeout,
              NotifyMovingFundsBelowDust, balanceFields
<1>3. ASSUME NEW w \in Wallet, NEW outputs, SubmitMovingFundsProof(w, outputs)
      PROVE  MainUtxoStep
  BY <1>3 DEF SubmitMovingFundsProof, NotifyWalletFundsMoved, MainUtxoStep
<1>4. ASSUME NEW w \in Wallet, NEW source, NEW outputValue,
             SubmitMovedFundsSweepProof(source, w, outputValue)
      PROVE  MainUtxoStep
  BY <1>4 DEF SubmitMovedFundsSweepProof, MainUtxoStep
<1>5. ASSUME NEW w \in Wallet, NEW source, NotifyMovedFundsSweepTimeout(source, w)
      PROVE  UNCHANGED mainUtxo
  BY <1>5 DEF NotifyMovedFundsSweepTimeout
<1> QED
  BY <1>1, <1>2, <1>3, <1>4, <1>5 DEF MovingFundsNext, MainUtxoStep

LEMMA RedemptionMainUtxo == RedemptionNext => MainUtxoStep
<1>1. ASSUME NEW w \in Wallet, NEW s, NEW owner, NEW redeemer, NEW amount, NEW fee,
             RequestRedemption(w, s, owner, redeemer, amount, fee)
      PROVE  UNCHANGED mainUtxo
  BY <1>1 DEF RequestRedemption
<1>2. ASSUME NEW w \in Wallet, NEW s, NotifyRedemptionTimeout(w, s)
      PROVE  UNCHANGED mainUtxo
  BY <1>2 DEF NotifyRedemptionTimeout
<1>3. ASSUME NEW w \in Wallet, NEW s, NEW penaltyFee,
             NotifyRedemptionVeto(w, s, penaltyFee)
      PROVE  UNCHANGED mainUtxo
  BY <1>3 DEF NotifyRedemptionVeto
<1>4. ASSUME NEW w \in Wallet, NEW outputs, NEW changeValue,
             SubmitRedemptionProof(w, outputs, changeValue)
      PROVE  MainUtxoStep
  BY <1>4 DEF SubmitRedemptionProof, MainUtxoStep
<1> QED
  BY <1>1, <1>2, <1>3, <1>4
     DEF RedemptionNext, RequestNext, VetoNext, SettleNext, MainUtxoStep

LEMMA DepositMainUtxo == DepositNext => MainUtxoStep
<1>1. ASSUME NEW d, NEW w, NEW depositor, NEW amount, NEW vault, NEW fee,
             RevealDeposit(d, w, depositor, amount, vault, fee)
      PROVE  UNCHANGED mainUtxo
  BY <1>1 DEF RevealDeposit, balanceFields
<1>2. ASSUME NEW w \in Wallet, NEW swept, NEW last, NEW outputValue, NEW vault,
             SubmitDepositSweepProof(w, swept, last, outputValue, vault)
      PROVE  MainUtxoStep
  BY <1>2 DEF SubmitDepositSweepProof, MainUtxoStep
<1>3. ASSUME NEW vault, NEW isTrusted, SetVaultStatus(vault, isTrusted)
      PROVE  UNCHANGED mainUtxo
  BY <1>3 DEF SetVaultStatus, balanceFields
<1> QED
  BY <1>1, <1>2, <1>3
     DEF DepositNext, RevealNext, SweepNext, VaultStatusNext, MainUtxoStep

LEMMA NextMainUtxo == [Next]_vars => MainUtxoStep
<1>1. UNCHANGED balanceFields => MainUtxoStep
  BY DEF balanceFields, MainUtxoStep
<1>2. FraudNext => UNCHANGED balanceFields
  BY DEF FraudNext
<1>3. ASSUME NEW account, OwnerNext(account) PROVE UNCHANGED balanceFields
  BY <1>3 DEF OwnerNext, walletStorage
<1>4. UNCHANGED vars => UNCHANGED balanceFields
  BY DEF vars, walletStorage
<1> QED
  BY <1>1, <1>2, <1>3, <1>4, WalletsMainUtxo, MovingFundsMainUtxo, RedemptionMainUtxo,
     DepositMainUtxo
     DEF Next, QuietNext, DepositNext

\* Whichever library accepts the proof that replaces or removes the main UTXO of
\* a wallet records the old one as honestly spent, so that a challenge over it
\* can be defeated.
THEOREM SpentMainUtxosTheorem == Spec => SpentMainUtxosRecorded
<1> DEFINE Recorded ==
              \A w \in Wallet : HasMainUtxo(w) /\ mainUtxo'[w] # mainUtxo[w] =>
                  spentMainUTXOs'[w] = spentMainUTXOs[w] + 1
<1>1. TypeInv /\ [Next]_vars => Recorded
  <2> SUFFICES ASSUME TypeInv, [Next]_vars, NEW w \in Wallet,
                      HasMainUtxo(w), mainUtxo'[w] # mainUtxo[w]
               PROVE  spentMainUTXOs'[w] = spentMainUTXOs[w] + 1
    OBVIOUS
  <2>1. PICK v \in Wallet : /\ \E utxo : mainUtxo' = [mainUtxo EXCEPT ![v] = utxo]
                            /\ SpendMainUtxo(v)
    BY NextMainUtxo DEF MainUtxoStep
  <2>2. v = w
    BY <2>1 DEF TypeInv, TypeOK, WalletsTypeOK
  <2> QED
    BY <2>1, <2>2 DEF SpendMainUtxo, TypeInv, TypeOK, WalletsTypeOK
<1>2. TypeInv /\ [Next]_vars => [Recorded]_vars
  BY <1>1
<1> QED
  BY <1>2, TypeInvariant, PTL DEF Spec, SpentMainUtxosRecorded

-----------------------------------------------------------------------------
(***************************************************************************)
(* Sweep requests.                                                         *)
(***************************************************************************)
sweepVars == <<movedFundsSweepRequests, pendingMovedFundsSweepRequestsCount>>

\* What handlers do to the sweep requests and their counts: the proof that moves
\* the funds of w to targets creates them, ...
MovesFunds(w, targets) ==
    /\ walletState[w] = "MovingFunds"
    /\ walletState' = [walletState EXCEPT ![w] = "Closing"]
    /\ targets \subseteq Wallet
    /\ \A k \in SweepRequestKey :
          movedFundsSweepRequests'[k].state =
              IF k[1] = w /\ k[2] \in targets THEN "Pending"
                                              ELSE movedFundsSweepRequests[k].state
    /\ pendingMovedFundsSweepRequestsCount' =
           [t \in Wallet |-> IF t \in targets
                             THEN pendingMovedFundsSweepRequestsCount[t] + 1
                             ELSE pendingMovedFundsSweepRequestsCount[t]]

\* ... and the proof or the timeout of the sweep by w ends one of them.
EndsSweepRequest(source, w) ==
    /\ movedFundsSweepRequests[<<source, w>>].state = "Pending"
    /\ \A k \in SweepRequestKey \ {<<source, w>>} :
          movedFundsSweepRequests'[k].state = movedFundsSweepRequests[k].state
    /\ movedFundsSweepRequests'[<<source, w>>].state \in {"Processed", "TimedOut"}
    /\ DecrementSweepRequestsCount(w)

SweepStep ==
    \/ UNCHANGED sweepVars
    \/ \E w \in Wallet, targets \in SUBSET Wallet : MovesFunds(w, targets)
    \/ \E source, w \in Wallet : EndsSweepRequest(source, w)

LEMMA MovingFundsProofMoves ==
    ASSUME TypeInv, NEW w \in Wallet, NEW outputs \in [commitment[w] -> Nat],
           SubmitMovingFundsProof(w, outputs)
    PROVE  MovesFunds(w, commitment[w])
<1>1. DOMAIN outputs = commitment[w] /\ commitment[w] \subseteq Wallet
  BY DEF TypeInv, TypeOK, WalletsTypeOK
<1>2. walletState[w] = "MovingFunds" /\ walletState' = [walletState EXCEPT ![w] = "Closing"]
  BY DEF SubmitMovingFundsProof, NotifyWalletFundsMoved, BeginWalletClosing
<1>3. \A k \in SweepRequestKey :
          movedFundsSweepRequests'[k].state =
              IF k[1] = w /\ k[2] \in commitment[w] THEN "Pending"
                                                    ELSE movedFundsSweepRequests[k].state
  BY <1>1 DEF SubmitMovingFundsProof
<1> QED
  BY <1>1, <1>2, <1>3 DEF SubmitMovingFundsProof, MovesFunds

LEMMA EndedSweepRequest ==
    ASSUME TypeInv, NEW source \in Wallet, NEW w \in Wallet,
           movedFundsSweepRequests[<<source, w>>].state = "Pending",
           NEW st \in {"Processed", "TimedOut"},
           movedFundsSweepRequests' =
               [movedFundsSweepRequests EXCEPT ![<<source, w>>].state = st],
           DecrementSweepRequestsCount(w)
    PROVE  EndsSweepRequest(source, w)
<1>1. <<source, w>> \in SweepRequestKey
  BY DEF SweepRequestKey
<1>2. movedFundsSweepRequests \in [SweepRequestKey -> SweepRequest]
  BY DEF TypeInv, TypeOK, MovingFundsTypeOK
<1>3. \A k \in SweepRequestKey \ {<<source, w>>} :
          movedFundsSweepRequests'[k] = movedFundsSweepRequests[k]
  BY <1>1, <1>2
<1>4. movedFundsSweepRequests'[<<source, w>>].state = st
  BY <1>1, <1>2 DEF SweepRequest
<1> QED
  BY <1>3, <1>4 DEF EndsSweepRequest

LEMMA MovingFundsSweepStep ==
    ASSUME TypeInv, MovingFundsNext
    PROVE  SweepStep
<1>1. PICK w \in Wallet : MovingFundsNext!(w)
  BY DEF MovingFundsNext
<1>2. ASSUME NEW targets, SubmitMovingFundsCommitment(w, targets)
      PROVE  UNCHANGED sweepVars
  BY <1>2 DEF SubmitMovingFundsCommitment, sweepVars
<1>3. CASE ResetMovingFundsTimeout(w)
  BY <1>3 DEF ResetMovingFundsTimeout, balanceFields, sweepVars, SweepStep
<1>4. ASSUME NEW outputs \in [commitment[w] -> 0..WalletBtcBalance(w)],
             SubmitMovingFundsProof(w, outputs)
      PROVE  SweepStep
  <2>1. outputs \in [commitment[w] -> Nat] /\ commitment[w] \in SUBSET Wallet
    BY WalletBtcBalanceType DEF TypeInv, TypeOK, WalletsTypeOK
  <2> QED
    BY <1>4, <2>1, MovingFundsProofMoves DEF SweepStep
<1>5. CASE NotifyMovingFundsTimeout(w) \/ NotifyMovingFundsBelowDust(w)
  BY <1>5 DEF NotifyMovingFundsTimeout, NotifyMovingFundsBelowDust, balanceFields,
              sweepVars, SweepStep
<1>6. ASSUME NEW source \in Wallet, NEW outputValue,
             SubmitMovedFundsSweepProof(source, w, outputValue)
      PROVE  SweepStep
  BY <1>6, EndedSweepRequest DEF SubmitMovedFundsSweepProof, SweepStep
<1>7. ASSUME NEW source \in Wallet, NotifyMovedFundsSweepTimeout(source, w)
      PROVE  SweepStep
  BY <1>7, EndedSweepRequest DEF NotifyMovedFundsSweepTimeout, SweepStep
<1> QED
  BY <1>1, <1>2, <1>3, <1>4, <1>5, <1>6, <1>7 DEF SweepStep

LEMMA RedemptionSweepCounts ==
    RedemptionNext => UNCHANGED pendingMovedFundsSweepRequestsCount
<1>1. ASSUME NEW w, NEW s, NEW owner, NEW redeemer, NEW amount, NEW fee,
             RequestRedemption(w, s, owner, redeemer, amount, fee)
      PROVE  UNCHANGED pendingMovedFundsSweepRequestsCount
  BY <1>1 DEF RequestRedemption
<1>2. ASSUME NEW w, NEW s, NEW penaltyFee,
             NotifyRedemptionTimeout(w, s) \/ NotifyRedemptionVeto(w, s, penaltyFee)
      PROVE  UNCHANGED pendingMovedFundsSweepRequestsCount
  BY <1>2 DEF NotifyRedemptionTimeout, NotifyRedemptionVeto
<1>3. ASSUME NEW w, NEW outputs, NEW changeValue,
             SubmitRedemptionProof(w, outputs, changeValue)
      PROVE  UNCHANGED pendingMovedFundsSweepRequestsCount
  BY <1>3 DEF SubmitRedemptionProof
<1> QED
  BY <1>1, <1>2, <1>3 DEF RedemptionNext, RequestNext, VetoNext, SettleNext

LEMMA DepositSweepCounts ==
    DepositNext => UNCHANGED pendingMovedFundsSweepRequestsCount
BY DEF DepositNext, RevealNext, SweepNext, VaultStatusNext, RevealDeposit,
       SubmitDepositSweepProof, SetVaultStatus, balanceFields

\* Only the handlers of library MovingFunds touch the requests and their counts.
LEMMA NextSweepStep ==
    ASSUME TypeInv, [Next]_vars
    PROVE  SweepStep
<1>1. UNCHANGED <<balanceFields, movedFundsSweepRequests>> => SweepStep
  BY DEF balanceFields, sweepVars, SweepStep
<1>2. UNCHANGED <<movedFundsSweepRequests, pendingMovedFundsSweepRequestsCount>> => SweepStep
  BY DEF sweepVars, SweepStep
<1>3. FraudNext => UNCHANGED <<balanceFields, movedFundsSweepRequests>>
  BY DEF FraudNext
<1>4. ASSUME NEW account, OwnerNext(account)
      PROVE  UNCHANGED <<balanceFields, movedFundsSweepRequests>>
  BY <1>4 DEF OwnerNext, walletStorage
<1>5. UNCHANGED vars => UNCHANGED <<balanceFields, movedFundsSweepRequests>>
  BY DEF vars, walletStorage
<1> QED
  BY <1>1, <1>2, <1>3, <1>4, <1>5, WalletsMainUtxo, MovingFundsSweepStep,
     RedemptionSweepCounts, DepositSweepCounts
     DEF Next, QuietNext, DepositNext

\* No step takes a wallet back to the states in which it has funds of its own to
\* move, and only a registration takes it out of Unknown.
LEMMA RetiredStays ==
    ASSUME TypeInv, [Next]_vars, NEW w \in Wallet
    PROVE  /\ walletState'[w] \in {"Unknown", "Live", "MovingFunds"}
                  => walletState[w] \in {"Unknown", "Live", "MovingFunds"}
           /\ walletState'[w] \in {"Unknown", "Live"}
                  => walletState[w] \in {"Unknown", "Live"}
<1>1. LifeStep
  BY NextLifeStep
<1>2. walletState \in [Wallet -> WalletState]
  BY DEF TypeInv, TypeOK, WalletsTypeOK
<1>3. CASE UNCHANGED lifeVars
  BY <1>3 DEF lifeVars
<1>4. ASSUME NEW v \in Wallet,
             \/ Registers(v) \/ Retires(v) \/ StartsClosing(v) \/ Closes(v)
             \/ IsTerminated(v)
      PROVE  /\ walletState'[w] \in {"Unknown", "Live", "MovingFunds"}
                    => walletState[w] \in {"Unknown", "Live", "MovingFunds"}
             /\ walletState'[w] \in {"Unknown", "Live"}
                    => walletState[w] \in {"Unknown", "Live"}
  BY <1>2, <1>4 DEF Registers, Retires, StartsClosing, Closes, IsTerminated
<1> QED
  BY <1>1, <1>3, <1>4 DEF LifeStep

LEMMA PendingSweepSourcesFinite ==
    ASSUME NEW w \in Wallet PROVE IsFiniteSet(PendingSweepSources(w))
BY WalletAssumption, FS_Subset DEF PendingSweepSources

LEMMA MovesFundsKeepsSweepInv ==
    ASSUME TypeInv, SweepInv, NEW w \in Wallet, NEW targets \in SUBSET Wallet,
           MovesFunds(w, targets)
    PROVE  SweepInv'
<1> USE DEF SweepInv
<1>1. walletState \in [Wallet -> WalletState]
      /\ pendingMovedFundsSweepRequestsCount \in [Wallet -> Int]
  BY DEF TypeInv, TypeOK, WalletsTypeOK
<1>2. SweepSourcesRetired'
  BY <1>1 DEF SweepSourcesRetired, MovesFunds, SweepRequestKey, WalletState
<1>3. ASSUME NEW t \in Wallet
      PROVE  pendingMovedFundsSweepRequestsCount'[t] = Cardinality(PendingSweepSources(t))'
  <2>1. pendingMovedFundsSweepRequestsCount[t] = Cardinality(PendingSweepSources(t))
    BY DEF SweepRequestsCountExact
  <2>2. CASE t \in targets
    <3>1. movedFundsSweepRequests[<<w, t>>].state = "Unknown"
      BY DEF MovesFunds, SweepSourcesRetired
    <3>2. /\ PendingSweepSources(t)' = PendingSweepSources(t) \union {w}
          /\ w \notin PendingSweepSources(t)
      BY <2>2, <3>1 DEF MovesFunds, PendingSweepSources, SweepRequestKey
    <3>3. Cardinality(PendingSweepSources(t)') = Cardinality(PendingSweepSources(t)) + 1
      BY <3>2, PendingSweepSourcesFinite, FS_AddElement
    <3> QED
      BY <2>1, <2>2, <3>3 DEF MovesFunds
  <2>3. CASE t \notin targets
    <3>1. PendingSweepSources(t)' = PendingSweepSources(t)
      BY <2>3 DEF MovesFunds, PendingSweepSources, SweepRequestKey
    <3> QED
      BY <2>1, <2>3, <3>1 DEF MovesFunds
  <2> QED
    BY <2>2, <2>3
<1> QED
  BY <1>2, <1>3 DEF SweepRequestsCountExact

LEMMA EndsSweepRequestKeepsCount ==
    ASSUME TypeInv, SweepRequestsCountExact, NEW source \in Wallet, NEW w \in Wallet,
           EndsSweepRequest(source, w)
    PROVE  SweepRequestsCountExact'
<1>1. pendingMovedFundsSweepRequestsCount \in [Wallet -> Int]
  BY DEF TypeInv, TypeOK, WalletsTypeOK
<1>2. ASSUME NEW t \in Wallet
      PROVE  pendingMovedFundsSweepRequestsCount'[t] = Cardinality(PendingSweepSources(t))'
  <2>1. pendingMovedFundsSweepRequestsCount[t] = Cardinality(PendingSweepSources(t))
    BY DEF SweepRequestsCountExact
  <2>2. CASE t = w
    <3>1. PendingSweepSources(w)' = PendingSweepSources(w) \ {source}
          /\ source \in PendingSweepSources(w)
      BY DEF EndsSweepRequest, PendingSweepSources, SweepRequestKey
    <3>2. Cardinality(PendingSweepSources(w)') = Cardinality(PendingSweepSources(w)) - 1
      BY <3>1, PendingSweepSourcesFinite, FS_RemoveElement
    <3> QED
      BY <1>1, <2>1, <2>2, <3>2 DEF EndsSweepRequest, DecrementSweepRequestsCount
  <2>3. CASE t # w
    <3>1. PendingSweepSources(t)' = PendingSweepSources(t)
      BY <2>3 DEF EndsSweepRequest, PendingSweepSources, SweepRequestKey
    <3> QED
      BY <1>1, <2>1, <2>3, <3>1 DEF EndsSweepRequest, DecrementSweepRequestsCount
  <2> QED
    BY <2>2, <2>3
<1> QED
  BY <1>2 DEF SweepRequestsCountExact

LEMMA SweepInvNext ==
    ASSUME TypeInv, SweepInv, [Next]_vars
    PROVE  SweepInv'
<1>1. SweepStep
  BY NextSweepStep
<1>2. CASE UNCHANGED sweepVars
  <2>1. SweepSourcesRetired'
    BY <1>2, RetiredStays DEF SweepInv, SweepSourcesRetired, sweepVars
  <2>2. SweepRequestsCountExact'
    BY <1>2 DEF SweepInv, SweepRequestsCountExact, PendingSweepSources, sweepVars
  <2> QED
    BY <2>1, <2>2 DEF SweepInv
<1>3. ASSUME NEW source \in Wallet, NEW w \in Wallet, EndsSweepRequest(source, w)
      PROVE  SweepInv'
  <2>1. \A v, t \in Wallet :
            movedFundsSweepRequests'[<<v, t>>].state # "Unknown"
                => movedFundsSweepRequests[<<v, t>>].state # "Unknown"
    BY <1>3 DEF EndsSweepRequest, SweepRequestKey
  <2>2. SweepSourcesRetired'
    BY <2>1, RetiredStays DEF SweepInv, SweepSourcesRetired
  <2> QED
    BY <1>3, <2>2, EndsSweepRequestKeepsCount DEF SweepInv
<1> QED
  BY <1>1, <1>2, <1>3, MovesFundsKeepsSweepInv DEF SweepStep

LEMMA SweepInvInit == Init => SweepInv
<1> SUFFICES ASSUME Init PROVE SweepInv
  OBVIOUS
<1>1. \A source, w \in Wallet : movedFundsSweepRequests[<<source, w>>].state = "Unknown"
  BY DEF Init, MovingFundsInit, SweepRequestKey
<1>2. \A w \in Wallet : PendingSweepSources(w) = {}
  BY <1>1 DEF PendingSweepSources
<1>3. \A w \in Wallet : pendingMovedFundsSweepRequestsCount[w] = 0
  BY DEF Init, WalletsInit
<1> QED
  BY <1>1, <1>2, <1>3, FS_EmptySet
     DEF SweepInv, SweepSourcesRetired, SweepRequestsCountExact

\* pendingMovedFundsSweepRequestsCount counts the pending sweep requests of the
\* wallet: no proof creates a request twice, and a request that is proven or
\* timed out leaves the count once.
THEOREM SweepRequestsCountTheorem == Spec => []SweepRequestsCountExact
<1>1. TypeInv /\ SweepInv /\ [Next]_vars => SweepInv'
  BY SweepInvNext
<1>2. SweepInv => SweepRequestsCountExact
  BY DEF SweepInv
<1> QED
  BY SweepInvInit, <1>1, <1>2, TypeInvariant, PTL DEF Spec

-----------------------------------------------------------------------------
(***************************************************************************)
(* Redemptions: which requests there are.                                  *)
(***************************************************************************)

\* What a handler may do to the requests of key k: only a live wallet gets a new
\* one, and only a wallet that is retired in the same step, or was before, gets a
\* timed out one.
RequestStep(k) ==
    /\ Exists(pendingRedemptions'[k]) =>
          \/ Exists(pendingRedemptions[k])
          \/ walletState[k[1]] = "Live" /\ UNCHANGED walletState
    /\ Exists(timedOutRedemptions'[k]) =>
          \/ Exists(timedOutRedemptions[k])
          \/ /\ ~Exists(pendingRedemptions'[k])
             /\ walletState'[k[1]] \notin {"Unknown", "Live"}

LEMMA RequestRedemptionStep ==
    ASSUME TypeInv, NEW w \in Wallet, NEW s \in Script, NEW owner, NEW redeemer,
           NEW amount, NEW fee,
           RequestRedemption(w, s, owner, redeemer, amount, fee),
           NEW k \in RedemptionKey
    PROVE  RequestStep(k)
<1>1. walletState[w] = "Live" /\ UNCHANGED <<walletState, timedOutRedemptions>>
  BY DEF RequestRedemption, TakesRequests, walletVars
<1>2. k # <<w, s>> => pendingRedemptions'[k] = pendingRedemptions[k]
  BY DEF RequestRedemption, TypeInv, TypeOK, RedemptionTypeOK
<1> QED
  BY <1>1, <1>2 DEF RequestStep

LEMMA NotifyRedemptionTimeoutStep ==
    ASSUME TypeInv, NEW w \in Wallet, NEW s \in Script, NotifyRedemptionTimeout(w, s),
           NEW k \in RedemptionKey
    PROVE  RequestStep(k)
<1>1. /\ pendingRedemptions' = [pendingRedemptions EXCEPT ![<<w, s>>] = NoRequest]
      /\ timedOutRedemptions' =
             [timedOutRedemptions EXCEPT ![<<w, s>>] = pendingRedemptions[<<w, s>>]]
  BY DEF NotifyRedemptionTimeout, DeletePendingRedemption
<1>2. walletState'[w] \notin {"Unknown", "Live"}
  BY DEF NotifyRedemptionTimeout, NotifyWalletRedemptionTimeout, MoveFunds,
         BeginWalletClosing, walletVars, TypeInv, TypeOK, WalletsTypeOK
<1>3. ~Exists(NoRequest)
  BY DEF Exists, NoRequest
<1>4. CASE k = <<w, s>>
  BY <1>1, <1>2, <1>3, <1>4 DEF RequestStep, TypeInv, TypeOK, RedemptionTypeOK
<1>5. CASE k # <<w, s>>
  BY <1>1, <1>5 DEF RequestStep, TypeInv, TypeOK, RedemptionTypeOK
<1> QED
  BY <1>4, <1>5

LEMMA NotifyRedemptionVetoStep ==
    ASSUME TypeInv, NEW w \in Wallet, NEW s \in Script, NEW penaltyFee,
           NotifyRedemptionVeto(w, s, penaltyFee), NEW k \in RedemptionKey
    PROVE  RequestStep(k)
<1>1. /\ pendingRedemptions' = [pendingRedemptions EXCEPT ![<<w, s>>] = NoRequest]
      /\ UNCHANGED timedOutRedemptions
  BY DEF NotifyRedemptionVeto, DeletePendingRedemption
<1>2. ~Exists(NoRequest)
  BY DEF Exists, NoRequest
<1> QED
  BY <1>1, <1>2 DEF RequestStep, TypeInv, TypeOK, RedemptionTypeOK

LEMMA SubmitRedemptionProofStep ==
    ASSUME TypeInv, NEW w \in Wallet, NEW outputs, NEW changeValue,
           SubmitRedemptionProof(w, outputs, changeValue), NEW k \in RedemptionKey
    PROVE  RequestStep(k)
<1>1. /\ pendingRedemptions'[k] = NoRequest
            \/ pendingRedemptions'[k] = pendingRedemptions[k]
      /\ timedOutRedemptions'[k] = NoRequest
            \/ timedOutRedemptions'[k] = timedOutRedemptions[k]
  BY DEF SubmitRedemptionProof
<1>2. ~Exists(NoRequest)
  BY DEF Exists, NoRequest
<1> QED
  BY <1>1, <1>2 DEF RequestStep

LEMMA RedemptionRequestStep ==
    ASSUME TypeInv, RedemptionNext, NEW k \in RedemptionKey
    PROVE  RequestStep(k)
BY RequestRedemptionStep, NotifyRedemptionTimeoutStep, NotifyRedemptionVetoStep,
   SubmitRedemptionProofStep
   DEF RedemptionNext, RequestNext, VetoNext, SettleNext

LEMMA RequestsOnlyInRedemption == [Next]_vars => RedemptionNext \/ UNCHANGED redemptionVars
<1>1. ASSUME NEW account, OwnerNext(account) PROVE UNCHANGED redemptionVars
  BY <1>1 DEF OwnerNext
<1> QED
  BY <1>1 DEF Next, QuietNext, vars

LEMMA TimeoutInvNext ==
    ASSUME TypeInv, TimeoutInv, [Next]_vars
    PROVE  TimeoutInv'
<1> SUFFICES ASSUME NEW k \in RedemptionKey, Exists(timedOutRedemptions'[k])
             PROVE  /\ ~Exists(pendingRedemptions'[k])
                    /\ walletState'[k[1]] \notin {"Unknown", "Live"}
  BY DEF TimeoutInv, Exists
<1>1. k[1] \in Wallet
  BY DEF RedemptionKey
<1>2. RequestStep(k)
  BY RedemptionRequestStep, RequestsOnlyInRedemption DEF RequestStep, redemptionVars
<1>3. CASE Exists(timedOutRedemptions[k])
  <2>1. ~Exists(pendingRedemptions[k]) /\ walletState[k[1]] \notin {"Unknown", "Live"}
    BY <1>3 DEF TimeoutInv
  <2> QED
    BY <1>1, <1>2, <2>1, RetiredStays DEF RequestStep
<1>4. CASE ~Exists(timedOutRedemptions[k])
  BY <1>2, <1>4 DEF RequestStep
<1> QED
  BY <1>3, <1>4

\* A timed out redemption is never pending again and its wallet never live: the
\* report of a timeout overwrites no earlier one, which the wallet could still
\* serve.
THEOREM TimedOutKeysTheorem == Spec => []TimedOutKeysNotReused
<1>1. Init => TimeoutInv
  BY DEF Init, RedemptionInit, TimeoutInv, Exists, NoRequest
<1>2. TypeInv /\ TimeoutInv /\ [Next]_vars => TimeoutInv'
  BY TimeoutInvNext
<1>3. TimeoutInv => TimedOutKeysNotReused
  BY DEF TimeoutInv, TimedOutKeysNotReused
<1> QED
  BY <1>1, <1>2, <1>3, TypeInvariant, PTL DEF Spec

-----------------------------------------------------------------------------
(***************************************************************************)
(* Redemptions: what is reserved for them.                                 *)
(***************************************************************************)

\* The Bank balance locked by each pending request.
Locked == [k \in RedemptionKey |-> pendingRedemptions[k].requestedAmount]

\* What the requests of wallet w to the scripts in S redeem and lock.
RedeemableAt(w, S) == Total([s \in S |-> RedeemableAmount(pendingRedemptions[<<w, s>>])])
LockedAt(w, S) == Total([s \in S |-> pendingRedemptions[<<w, s>>].requestedAmount])

\* A new request reserves value of its wallet and locks Bank balance.
AddsRequest(w, s, request) ==
    /\ ~Exists(pendingRedemptions[<<w, s>>])
    /\ request \in Request
    /\ request.treasuryFee <= request.requestedAmount
    /\ Exists(request)
    /\ pendingRedemptions' = [pendingRedemptions EXCEPT ![<<w, s>>] = request]
    /\ pendingRedemptionsValue' =
           [pendingRedemptionsValue EXCEPT ![w] = @ + RedeemableAmount(request)]
    /\ balanceOf'[BridgeAccount] = balanceOf[BridgeAccount] + request.requestedAmount

\* Requests end, by a proof, a timeout or a veto, with the release of what they
\* reserved; at most what they locked leaves the Bridge.
SettlesRequests(w, S) ==
    /\ pendingRedemptions' =
           [k \in RedemptionKey |-> IF k[1] = w /\ k[2] \in S THEN NoRequest
                                                              ELSE pendingRedemptions[k]]
    /\ pendingRedemptionsValue' =
           [pendingRedemptionsValue EXCEPT ![w] = @ - RedeemableAt(w, S)]
    /\ balanceOf'[BridgeAccount] >= balanceOf[BridgeAccount] - LockedAt(w, S)

\* No other step takes balance from the Bridge.
KeepsRequests ==
    /\ UNCHANGED <<pendingRedemptions, pendingRedemptionsValue>>
    /\ balanceOf'[BridgeAccount] >= balanceOf[BridgeAccount]

ReservationStep ==
    \/ KeepsRequests
    \/ \E w \in Wallet, s \in Script, request \in Request : AddsRequest(w, s, request)
    \/ \E w \in Wallet, S \in SUBSET Script : SettlesRequests(w, S)

LEMMA RedemptionKeyFinite == IsFiniteSet(RedemptionKey)
BY WalletAssumption, ScriptAssumption, FS_Product DEF RedemptionKey

LEMMA RedeemableOfType ==
    ASSUME TypeInv, NEW w \in Wallet
    PROVE  /\ RedeemableOf(w) \in [Script -> Nat]
           /\ Total(RedeemableOf(w)) \in Nat
<1>1. RedeemableOf(w) \in [Script -> Nat]
  BY RequestFields DEF RedeemableOf
<1> QED
  BY <1>1, ScriptAssumption, TotalType

LEMMA LockedType ==
    ASSUME TypeInv
    PROVE  Locked \in [RedemptionKey -> Nat] /\ Total(Locked) \in Nat
<1>1. Locked \in [RedemptionKey -> Nat]
  BY DEF Locked, TypeInv, TypeOK, RedemptionTypeOK, Request
<1> QED
  BY <1>1, RedemptionKeyFinite, TotalType

\* The same in the next state.
LEMMA ReservedTypeNext ==
    ASSUME TypeInv'
    PROVE  /\ \A w \in Wallet : RedeemableOf(w)' \in [Script -> Nat]
           /\ Locked' \in [RedemptionKey -> Nat]
<1>1. /\ pendingRedemptions' \in [RedemptionKey -> Request]
      /\ \A k \in RedemptionKey :
            pendingRedemptions'[k].treasuryFee <= pendingRedemptions'[k].requestedAmount
  BY DEF TypeInv, TypeOK, RedemptionTypeOK, FeesWithinAmounts
<1>2. ASSUME NEW w \in Wallet, NEW s \in Script
      PROVE  RedeemableAmount(pendingRedemptions'[<<w, s>>]) \in Nat
  <2>1. <<w, s>> \in RedemptionKey
    BY DEF RedemptionKey
  <2> QED
    BY <1>1, <2>1 DEF RedeemableAmount, Request
<1>3. ASSUME NEW w \in Wallet PROVE RedeemableOf(w)' \in [Script -> Nat]
  BY <1>2 DEF RedeemableOf
<1>4. Locked' \in [RedemptionKey -> Nat]
  BY <1>1 DEF Locked, Request
<1> QED
  BY <1>3, <1>4

LEMMA SettledType ==
    ASSUME TypeInv, NEW w \in Wallet, NEW S \in SUBSET Script
    PROVE  RedeemableAt(w, S) \in Nat /\ LockedAt(w, S) \in Nat
<1> DEFINE redeemable == [s \in S |-> RedeemableAmount(pendingRedemptions[<<w, s>>])]
           locked == [s \in S |-> pendingRedemptions[<<w, s>>].requestedAmount]
<1>1. redeemable \in [S -> Nat] /\ locked \in [S -> Nat]
  BY RequestFields
<1>2. IsFiniteSet(S)
  BY ScriptAssumption, FS_Subset
<1> HIDE DEF redeemable, locked
<1>3. Total(redeemable) \in Nat /\ Total(locked) \in Nat
  BY <1>1, <1>2, TotalType
<1> QED
  BY <1>3 DEF redeemable, locked, RedeemableAt, LockedAt

LEMMA KeepsRequestsKeepsInv ==
    ASSUME TypeInv, TypeInv', RedemptionInv, KeepsRequests
    PROVE  RedemptionInv'
<1>1. AbsentRequestsEmpty' /\ PendingRedemptionsValueExact'
  BY DEF KeepsRequests, RedemptionInv, AbsentRequestsEmpty, PendingRedemptionsValueExact,
         RedeemableOf
<1>2. Locked' = Locked
  BY DEF KeepsRequests, Locked
<1>3. balanceOf[BridgeAccount] \in Nat /\ balanceOf'[BridgeAccount] \in Nat
  BY Accounts DEF TypeInv, TypeOK, BankTypeOK
<1>4. balanceOf[BridgeAccount] >= Total(Locked)
  BY DEF RedemptionInv, BridgeHoldsLockedBalance, Locked
<1>5. balanceOf'[BridgeAccount] >= Total(Locked')
  BY <1>2, <1>3, <1>4, LockedType DEF KeepsRequests
<1> QED
  BY <1>1, <1>5 DEF RedemptionInv, BridgeHoldsLockedBalance, Locked

LEMMA AddsRequestKeepsInv ==
    ASSUME TypeInv, TypeInv', RedemptionInv, NEW w \in Wallet, NEW s \in Script,
           NEW request, AddsRequest(w, s, request)
    PROVE  RedemptionInv'
<1> DEFINE key == <<w, s>>
<1>0. key \in RedemptionKey
  BY DEF RedemptionKey
<1>1. pendingRedemptions \in [RedemptionKey -> Request]
  BY DEF TypeInv, TypeOK, RedemptionTypeOK
<1>2. /\ pendingRedemptions'[key] = request
      /\ \A k \in RedemptionKey \ {key} : pendingRedemptions'[k] = pendingRedemptions[k]
  BY <1>0, <1>1 DEF AddsRequest
<1>3. pendingRedemptions[key].requestedAmount = 0 /\ pendingRedemptions[key].treasuryFee = 0
  BY <1>0 DEF AddsRequest, RedemptionInv, AbsentRequestsEmpty
<1>4. AbsentRequestsEmpty'
  BY <1>2 DEF RedemptionInv, AbsentRequestsEmpty, AddsRequest
<1>5. ASSUME NEW v \in Wallet
      PROVE  pendingRedemptionsValue'[v] = Total(RedeemableOf(v)')
  <2>1. pendingRedemptionsValue[v] = Total(RedeemableOf(v))
    BY DEF RedemptionInv, PendingRedemptionsValueExact
  <2>2. pendingRedemptionsValue \in [Wallet -> Int]
    BY DEF TypeInv, TypeOK, WalletsTypeOK
  <2>3. RedeemableOf(v) \in [Script -> Nat] /\ RedeemableOf(v)' \in [Script -> Nat]
    BY RedeemableOfType, ReservedTypeNext
  <2>4. CASE v = w
    <3>1. /\ RedeemableOf(w)[s] = 0 /\ RedeemableOf(w)'[s] = RedeemableAmount(request)
          /\ \A t \in Script \ {s} : RedeemableOf(w)'[t] = RedeemableOf(w)[t]
      BY <1>2, <1>3 DEF RedeemableOf, RedeemableAmount, RedemptionKey
    <3>2. Total(RedeemableOf(w)') = Total(RedeemableOf(w)) - 0 + RedeemableAmount(request)
      BY <2>3, <2>4, <3>1, ScriptAssumption, TotalUpdate
    <3>3. RedeemableAmount(request) \in Int
      BY DEF AddsRequest, Request, RedeemableAmount
    <3> QED
      BY <2>1, <2>2, <2>4, <3>2, <3>3, RedeemableOfType DEF AddsRequest
  <2>5. CASE v # w
    <3>1. RedeemableOf(v)' = RedeemableOf(v)
      BY <1>2, <2>5 DEF RedeemableOf, RedemptionKey
    <3> QED
      BY <2>1, <2>2, <2>5, <3>1 DEF AddsRequest
  <2> QED
    BY <2>4, <2>5
<1>6. balanceOf'[BridgeAccount] >= Total(Locked')
  <2>1. Locked \in [RedemptionKey -> Nat] /\ Locked' \in [RedemptionKey -> Nat]
    BY LockedType, ReservedTypeNext
  <2>2. /\ Locked[key] = 0 /\ Locked'[key] = request.requestedAmount
        /\ \A k \in RedemptionKey \ {key} : Locked'[k] = Locked[k]
    BY <1>0, <1>2, <1>3 DEF Locked
  <2>3. Total(Locked') = Total(Locked) - 0 + request.requestedAmount
    BY <1>0, <2>1, <2>2, RedemptionKeyFinite, TotalUpdate
  <2>4. balanceOf[BridgeAccount] \in Nat /\ request.requestedAmount \in Nat
    BY Accounts DEF TypeInv, TypeOK, BankTypeOK, AddsRequest, Request
  <2>5. balanceOf[BridgeAccount] >= Total(Locked)
    BY DEF RedemptionInv, BridgeHoldsLockedBalance, Locked
  <2> QED
    BY <2>3, <2>4, <2>5, LockedType DEF AddsRequest
<1>7. BridgeHoldsLockedBalance'
  BY <1>6 DEF BridgeHoldsLockedBalance, Locked
<1> QED
  BY <1>4, <1>5, <1>7 DEF RedemptionInv, PendingRedemptionsValueExact

LEMMA SettlesRequestsKeepsInv ==
    ASSUME TypeInv, TypeInv', RedemptionInv, NEW w \in Wallet, NEW S \in SUBSET Script,
           SettlesRequests(w, S)
    PROVE  RedemptionInv'
<1>1. \A k \in RedemptionKey :
          pendingRedemptions'[k] = IF k[1] = w /\ k[2] \in S THEN NoRequest
                                                             ELSE pendingRedemptions[k]
  BY DEF SettlesRequests
<1>2. NoRequest.requestedAmount = 0 /\ NoRequest.treasuryFee = 0
      /\ RedeemableAmount(NoRequest) = 0
  BY DEF NoRequest, RedeemableAmount
<1>3. AbsentRequestsEmpty'
  BY <1>1, <1>2 DEF RedemptionInv, AbsentRequestsEmpty
<1>4. ASSUME NEW v \in Wallet
      PROVE  pendingRedemptionsValue'[v] = Total(RedeemableOf(v)')
  <2>1. pendingRedemptionsValue[v] = Total(RedeemableOf(v))
    BY DEF RedemptionInv, PendingRedemptionsValueExact
  <2>2. pendingRedemptionsValue \in [Wallet -> Int]
    BY DEF TypeInv, TypeOK, WalletsTypeOK
  <2>3. RedeemableOf(v) \in [Script -> Nat] /\ RedeemableOf(v)' \in [Script -> Nat]
    BY RedeemableOfType, ReservedTypeNext
  <2>4. CASE v = w
    <3>1. /\ \A s \in S : RedeemableOf(w)'[s] = 0
          /\ \A s \in Script \ S : RedeemableOf(w)'[s] = RedeemableOf(w)[s]
      BY <1>1, <1>2 DEF RedeemableOf, RedemptionKey
    <3>2. Total(RedeemableOf(w)') =
              Total(RedeemableOf(w)) - Total([s \in S |-> RedeemableOf(w)[s]])
      BY <2>3, <2>4, <3>1, ScriptAssumption, TotalClear
    <3>3. [s \in S |-> RedeemableOf(w)[s]] =
              [s \in S |-> RedeemableAmount(pendingRedemptions[<<w, s>>])]
      BY DEF RedeemableOf
    <3>4. Total(RedeemableOf(w)') = Total(RedeemableOf(w)) - RedeemableAt(w, S)
      BY <3>2, <3>3 DEF RedeemableAt
    <3> QED
      BY <2>1, <2>2, <2>4, <3>4 DEF SettlesRequests
  <2>5. CASE v # w
    <3>1. RedeemableOf(v)' = RedeemableOf(v)
      BY <1>1, <2>5 DEF RedeemableOf, RedemptionKey
    <3> QED
      BY <2>1, <2>2, <2>5, <3>1 DEF SettlesRequests
  <2> QED
    BY <2>4, <2>5
<1>5. Total(Locked') = Total(Locked) - LockedAt(w, S)
  <2> DEFINE settled == {k \in RedemptionKey : k[1] = w /\ k[2] \in S}
             keyOf == [s \in S |-> <<w, s>>]
             atS == [s \in S |-> pendingRedemptions[<<w, s>>].requestedAmount]
             atKeys == [k \in settled |-> Locked[k]]
  <2>1. Locked \in [RedemptionKey -> Nat] /\ Locked' \in [RedemptionKey -> Nat]
    BY LockedType, ReservedTypeNext
  <2>2. /\ \A k \in settled : Locked'[k] = 0
        /\ \A k \in RedemptionKey \ settled : Locked'[k] = Locked[k]
    BY <1>1, <1>2 DEF Locked
  <2>3. settled \in SUBSET RedemptionKey
    OBVIOUS
  <2>4. Total(Locked') = Total(Locked) - Total(atKeys)
    <3> HIDE DEF settled
    <3> QED
      BY <2>1, <2>2, <2>3, RedemptionKeyFinite, TotalClear
  <2>5. keyOf \in Bijection(S, settled)
    <3>1. keyOf \in [S -> settled]
      BY DEF RedemptionKey
    <3>2. \A a, b \in S : keyOf[a] = keyOf[b] => a = b
      OBVIOUS
    <3>3. \A k \in settled : \E s \in S : keyOf[s] = k
      BY DEF RedemptionKey
    <3> QED
      BY <3>1, <3>2, <3>3, Fun_IsBij
  <2>6. IsFiniteSet(S)
    BY ScriptAssumption, FS_Subset
  <2>7. atS \in [S -> Nat] /\ atKeys \in [settled -> Nat]
    BY <2>1, RequestFields
  <2>8. \A s \in S : keyOf[s] \in settled /\ atKeys[keyOf[s]] = atS[s]
    BY DEF Locked, RedemptionKey
  <2>9. Total(atKeys) = Total(atS)
    <3> HIDE DEF keyOf, atS, atKeys, settled
    <3> QED
      BY <2>5, <2>6, <2>7, <2>8, TotalReindex
  <2> QED
    BY <2>4, <2>9 DEF LockedAt
<1>6. balanceOf'[BridgeAccount] >= Total(Locked')
  <2>1. balanceOf[BridgeAccount] \in Nat /\ balanceOf'[BridgeAccount] \in Nat
    BY Accounts DEF TypeInv, TypeOK, BankTypeOK
  <2>2. balanceOf[BridgeAccount] >= Total(Locked)
    BY DEF RedemptionInv, BridgeHoldsLockedBalance, Locked
  <2> QED
    BY <1>5, <2>1, <2>2, LockedType, SettledType DEF SettlesRequests
<1>7. BridgeHoldsLockedBalance'
  BY <1>6 DEF BridgeHoldsLockedBalance, Locked
<1> QED
  BY <1>3, <1>4, <1>7 DEF RedemptionInv, PendingRedemptionsValueExact

LEMMA RequestRedemptionAdds ==
    ASSUME TypeInv, NEW w \in Wallet, NEW s \in Script, NEW owner \in User \union Vault,
           NEW redeemer \in User, NEW amount \in Nat,
           NEW treasuryFee \in RedemptionTreasuryFees(amount),
           RequestRedemption(w, s, owner, redeemer, amount, treasuryFee)
    PROVE  \E request \in Request : AddsRequest(w, s, request)
<1> DEFINE request == [redeemer |-> redeemer, requestedAmount |-> amount,
                       treasuryFee |-> treasuryFee, txMaxFee |-> RedemptionTxMaxFee,
                       requestedAt |-> now]
<1>1. treasuryFee \in Nat /\ treasuryFee <= amount
  BY RedemptionTreasuryFeesBound
<1>2. now \in Nat \ {0} /\ pendingRedemptionsValue \in [Wallet -> Int]
  BY DEF TypeInv, TypeOK, WalletsTypeOK
<1>3. request \in Request
  BY <1>1, <1>2, RedemptionParametersAssumption DEF RedemptionParametersAccepted, Request
<1>4. Exists(request) /\ request.treasuryFee <= request.requestedAmount
  BY <1>1, <1>2 DEF Exists
<1>5. pendingRedemptionsValue' =
          [pendingRedemptionsValue EXCEPT ![w] = @ + RedeemableAmount(request)]
  <2>1. RedeemableAmount(request) = amount - treasuryFee
    BY DEF RedeemableAmount
  <2>2. pendingRedemptionsValue[w] + amount - treasuryFee
            = pendingRedemptionsValue[w] + (amount - treasuryFee)
    BY <1>1, <1>2
  <2>3. pendingRedemptionsValue' =
            [pendingRedemptionsValue EXCEPT ![w] =
                 pendingRedemptionsValue[w] + amount - treasuryFee]
    BY DEF RequestRedemption
  <2> QED
    BY <2>1, <2>2, <2>3
<1>6. balanceOf'[BridgeAccount] = balanceOf[BridgeAccount] + request.requestedAmount
  <2>1. owner # BridgeAccount /\ owner \in Account
    BY AccountAssumption DEF Account
  <2>2. balanceOf' = Transferred(balanceOf, owner, BridgeAccount, amount)
    BY DEF RequestRedemption
  <2> QED
    BY <2>1, <2>2, Accounts
       DEF Transferred, Decreased, Increased, TypeInv, TypeOK, BankTypeOK
<1>7. /\ pendingRedemptions' = [pendingRedemptions EXCEPT ![<<w, s>>] = request]
      /\ ~Exists(pendingRedemptions[<<w, s>>])
  BY DEF RequestRedemption
<1> HIDE DEF request
<1> QED
  BY <1>3, <1>4, <1>5, <1>6, <1>7 DEF AddsRequest

\* The sums of a single request.
LEMMA SettledAlone ==
    ASSUME TypeInv, NEW w \in Wallet, NEW s \in Script
    PROVE  /\ RedeemableAt(w, {s}) = RedeemableAmount(pendingRedemptions[<<w, s>>])
           /\ LockedAt(w, {s}) = pendingRedemptions[<<w, s>>].requestedAmount
<1> DEFINE redeemable == [t \in {s} |-> RedeemableAmount(pendingRedemptions[<<w, t>>])]
           locked == [t \in {s} |-> pendingRedemptions[<<w, t>>].requestedAmount]
<1>1. redeemable \in [{s} -> Nat] /\ locked \in [{s} -> Nat]
  BY RequestFields
<1>2. /\ redeemable[s] = RedeemableAmount(pendingRedemptions[<<w, s>>])
      /\ locked[s] = pendingRedemptions[<<w, s>>].requestedAmount
  OBVIOUS
<1> HIDE DEF redeemable, locked
<1>3. Total(redeemable) = redeemable[s] /\ Total(locked) = locked[s]
  BY <1>1, TotalSingleton
<1> QED
  BY <1>2, <1>3 DEF redeemable, locked, RedeemableAt, LockedAt

LEMMA DeletedAlone ==
    ASSUME TypeInv, NEW w \in Wallet, NEW s \in Script,
           ReleasePendingValue(w, pendingRedemptions[<<w, s>>]),
           DeletePendingRedemption(<<w, s>>),
           balanceOf'[BridgeAccount] >=
               balanceOf[BridgeAccount] - pendingRedemptions[<<w, s>>].requestedAmount
    PROVE  SettlesRequests(w, {s})
<1>1. pendingRedemptions' =
          [k \in RedemptionKey |-> IF k[1] = w /\ k[2] \in {s} THEN NoRequest
                                                               ELSE pendingRedemptions[k]]
  <2>1. pendingRedemptions' = [pendingRedemptions EXCEPT ![<<w, s>>] = NoRequest]
    BY DEF DeletePendingRedemption
  <2>2. \A k \in RedemptionKey : k = <<w, s>> <=> k[1] = w /\ k[2] \in {s}
    BY DEF RedemptionKey
  <2>3. pendingRedemptions \in [RedemptionKey -> Request]
    BY DEF TypeInv, TypeOK, RedemptionTypeOK
  <2> QED
    BY <2>1, <2>2, <2>3
<1> QED
  BY <1>1, SettledAlone DEF SettlesRequests, ReleasePendingValue

LEMMA NotifyRedemptionTimeoutSettles ==
    ASSUME TypeInv, NEW w \in Wallet, NEW s \in Script, NotifyRedemptionTimeout(w, s)
    PROVE  SettlesRequests(w, {s})
<1> DEFINE amount == pendingRedemptions[<<w, s>>].requestedAmount
           redeemer == pendingRedemptions[<<w, s>>].redeemer
           debited == Decreased(balanceOf, BridgeAccount, amount)
<1>1. amount \in Nat
  BY RequestFields
<1>2. CanDecrease(balanceOf, BridgeAccount, amount)
      /\ balanceOf' = Increased(debited, redeemer, amount)
  BY DEF NotifyRedemptionTimeout, Transferred
<1>3. debited \in [Account -> Nat] /\ debited[BridgeAccount] = balanceOf[BridgeAccount] - amount
  BY <1>1, <1>2, DecreasedType, Accounts DEF TypeInv, TypeOK, BankTypeOK
<1>4. balanceOf'[BridgeAccount] >= balanceOf[BridgeAccount] - amount
  <2> HIDE DEF amount, redeemer, debited
  <2> QED
    BY <1>1, <1>2, <1>3, Accounts DEF Increased
<1> QED
  BY <1>4, DeletedAlone DEF NotifyRedemptionTimeout

LEMMA NotifyRedemptionVetoSettles ==
    ASSUME TypeInv, NEW w \in Wallet, NEW s \in Script, NEW penaltyFee \in Nat,
           NotifyRedemptionVeto(w, s, penaltyFee)
    PROVE  SettlesRequests(w, {s})
<1> DEFINE amount == pendingRedemptions[<<w, s>>].requestedAmount
<1>1. amount \in Nat
  BY RequestFields
<1>2. balanceOf' = Decreased(Transferred(balanceOf, BridgeAccount, Watchtower, amount),
                             Watchtower, penaltyFee)
  BY DEF NotifyRedemptionVeto
<1>3. balanceOf'[BridgeAccount] = balanceOf[BridgeAccount] - amount
  <2> HIDE DEF amount
  <2> QED
    BY <1>1, <1>2, Accounts, AccountAssumption
       DEF Decreased, Transferred, Increased, TypeInv, TypeOK, BankTypeOK
<1>4. balanceOf[BridgeAccount] \in Nat
  BY Accounts DEF TypeInv, TypeOK, BankTypeOK
<1>5. balanceOf'[BridgeAccount] >= balanceOf[BridgeAccount] - amount
  BY <1>1, <1>3, <1>4
<1> QED
  BY <1>5, DeletedAlone DEF NotifyRedemptionVeto

\* What a proof burns and pays to the treasury is what its requests locked.
LEMMA SubmitRedemptionProofSettles ==
    ASSUME TypeInv, NEW w \in Wallet, NEW scripts \in SUBSET Script,
           NEW outputs \in [scripts -> Nat], NEW changeValue,
           SubmitRedemptionProof(w, outputs, changeValue)
    PROVE  \E S \in SUBSET Script : SettlesRequests(w, S)
<1> DEFINE pending == {s \in scripts : Exists(pendingRedemptions[<<w, s>>])}
           burnable == [s \in pending |-> RedeemableAmount(pendingRedemptions[<<w, s>>])]
           fees == [s \in pending |-> pendingRedemptions[<<w, s>>].treasuryFee]
           locked == [s \in pending |-> pendingRedemptions[<<w, s>>].requestedAmount]
           burned == Decreased(balanceOf, BridgeAccount, Total(burnable))
<1>0. DOMAIN outputs = scripts
  OBVIOUS
<1>1. IsFiniteSet(pending) /\ pending \in SUBSET Script
  BY ScriptAssumption, FS_Subset
<1>2. burnable \in [pending -> Nat] /\ fees \in [pending -> Nat] /\ locked \in [pending -> Nat]
  BY RequestFields
<1>3. \A s \in pending : locked[s] = burnable[s] + fees[s]
  BY RequestFields DEF RedeemableAmount
<1>4. /\ Total(burnable) \in Nat /\ Total(fees) \in Nat
      /\ Total(locked) = Total(burnable) + Total(fees)
  <2> HIDE DEF pending, burnable, fees, locked
  <2> QED
    BY <1>1, <1>2, <1>3, TotalType, TotalSum
<1>5. /\ pendingRedemptions' =
             [k \in RedemptionKey |-> IF k[1] = w /\ k[2] \in pending
                                      THEN NoRequest ELSE pendingRedemptions[k]]
      /\ pendingRedemptionsValue' =
             [pendingRedemptionsValue EXCEPT ![w] = @ - Total(burnable)]
      /\ balanceOf' = Transferred(burned, BridgeAccount, Treasury, Total(fees))
  BY <1>0 DEF SubmitRedemptionProof
<1>6. balanceOf'[BridgeAccount] >= balanceOf[BridgeAccount] - Total(locked)
  <2>1. balanceOf \in [Account -> Nat] /\ balanceOf[BridgeAccount] \in Nat
    BY Accounts DEF TypeInv, TypeOK, BankTypeOK
  <2>2. balanceOf'[BridgeAccount] =
            balanceOf[BridgeAccount] - Total(burnable) - Total(fees)
    <3> HIDE DEF burnable, fees, locked
    <3> QED
      BY <1>4, <1>5, <2>1, Accounts, AccountAssumption
         DEF Decreased, Transferred, Increased
  <2> QED
    BY <1>4, <2>1, <2>2
<1>7. SettlesRequests(w, pending)
  BY <1>5, <1>6 DEF SettlesRequests, RedeemableAt, LockedAt
<1> QED
  BY <1>1, <1>7

LEMMA RedemptionReservationStep ==
    ASSUME TypeInv, RedemptionNext
    PROVE  ReservationStep
<1>1. PICK w \in Wallet : RequestNext(w) \/ VetoNext(w) \/ SettleNext(w)
  BY DEF RedemptionNext
<1>2. ASSUME NEW s \in Script, NEW owner \in User \union Vault, NEW redeemer \in User,
             NEW amount \in 1..balanceOf[owner],
             NEW treasuryFee \in RedemptionTreasuryFees(amount),
             RequestRedemption(w, s, owner, redeemer, amount, treasuryFee)
      PROVE  ReservationStep
  <2>1. amount \in Nat
    BY Accounts DEF TypeInv, TypeOK, BankTypeOK
  <2> QED
    BY <1>2, <2>1, RequestRedemptionAdds DEF ReservationStep
<1>3. ASSUME NEW s \in Script,
             NEW penaltyFee \in 0..pendingRedemptions[<<w, s>>].requestedAmount,
             NotifyRedemptionVeto(w, s, penaltyFee)
      PROVE  ReservationStep
  <2>1. penaltyFee \in Nat
    BY RequestFields
  <2> QED
    BY <1>3, <2>1, NotifyRedemptionVetoSettles DEF ReservationStep
<1>4. ASSUME NEW s \in Script, NotifyRedemptionTimeout(w, s) PROVE ReservationStep
  BY <1>4, NotifyRedemptionTimeoutSettles DEF ReservationStep
<1>5. ASSUME NEW scripts \in SUBSET Script,
             NEW outputs \in [scripts -> 0..WalletBtcBalance(w)], NEW changeValue,
             SubmitRedemptionProof(w, outputs, changeValue)
      PROVE  ReservationStep
  <2>1. outputs \in [scripts -> Nat]
    BY WalletBtcBalanceType DEF TypeInv, TypeOK
  <2> QED
    BY <1>5, <2>1, SubmitRedemptionProofSettles DEF ReservationStep
<1> QED
  BY <1>1, <1>2, <1>3, <1>4, <1>5 DEF RequestNext, VetoNext, SettleNext

\* The value reserved by redemptions is kept by library Redemption only.
LEMMA MovingFundsPendingValue == MovingFundsNext => UNCHANGED pendingRedemptionsValue
<1>1. ASSUME NEW w, NEW targets, SubmitMovingFundsCommitment(w, targets)
      PROVE  UNCHANGED pendingRedemptionsValue
  BY <1>1 DEF SubmitMovingFundsCommitment
<1>2. ASSUME NEW w, \/ ResetMovingFundsTimeout(w)
                    \/ NotifyMovingFundsTimeout(w)
                    \/ NotifyMovingFundsBelowDust(w)
      PROVE  UNCHANGED pendingRedemptionsValue
  BY <1>2 DEF ResetMovingFundsTimeout, NotifyMovingFundsTimeout,
              NotifyMovingFundsBelowDust, balanceFields
<1>3. ASSUME NEW w, NEW outputs, SubmitMovingFundsProof(w, outputs)
      PROVE  UNCHANGED pendingRedemptionsValue
  BY <1>3 DEF SubmitMovingFundsProof
<1>4. ASSUME NEW w, NEW source, NEW outputValue,
             \/ SubmitMovedFundsSweepProof(source, w, outputValue)
             \/ NotifyMovedFundsSweepTimeout(source, w)
      PROVE  UNCHANGED pendingRedemptionsValue
  BY <1>4 DEF SubmitMovedFundsSweepProof, NotifyMovedFundsSweepTimeout
<1> QED
  BY <1>1, <1>2, <1>3, <1>4 DEF MovingFundsNext

LEMMA DepositPendingValue == DepositNext => UNCHANGED pendingRedemptionsValue
BY DEF DepositNext, RevealNext, SweepNext, VaultStatusNext, RevealDeposit,
       SubmitDepositSweepProof, SetVaultStatus, balanceFields

\* A sweep only credits accounts.
LEMMA SweepCreditsOnly ==
    ASSUME TypeInv, NEW w \in Wallet, NEW swept \in SUBSET DepositKey,
           NEW vault \in Vault \union {NoVault}, NEW last \in swept,
           NEW outputValue \in Nat, NEW a \in Account,
           SubmitDepositSweepProof(w, swept, last, outputValue, vault)
    PROVE  balanceOf'[a] >= balanceOf[a]
<1> DEFINE credit == DepositedAmounts(w, swept, last, outputValue)
<1>1. credit \in [swept -> Nat]
  BY DepositedAmountsType
<1>2. SweepCredits(swept, vault, credit) \in [Account -> Nat]
  <2> HIDE DEF credit
  <2> QED
    BY <1>1, SweepCreditsType DEF TypeInv, TypeOK
<1>3. balanceOf' = AllIncreased(balanceOf, SweepCredits(swept, vault, credit))
  BY DEF SubmitDepositSweepProof
<1> HIDE DEF credit
<1> QED
  BY <1>2, <1>3, Accounts DEF AllIncreased, TypeInv, TypeOK, BankTypeOK

LEMMA DepositBalances ==
    ASSUME TypeInv, DepositNext, NEW a \in Account
    PROVE  balanceOf'[a] >= balanceOf[a]
<1>0. balanceOf[a] \in Nat
  BY Accounts DEF TypeInv, TypeOK, BankTypeOK
<1>1. CASE RevealNext \/ VaultStatusNext
  BY <1>0, <1>1 DEF RevealNext, VaultStatusNext, RevealDeposit, SetVaultStatus
<1>2. ASSUME NEW w \in Wallet, NEW swept \in SUBSET DepositKey,
             NEW vault \in Vault \union {NoVault}, NEW last \in swept,
             NEW outputValue \in 0..SweepInputs(w, swept),
             SubmitDepositSweepProof(w, swept, last, outputValue, vault)
      PROVE  balanceOf'[a] >= balanceOf[a]
  <2>1. outputValue \in Nat
    BY SweepInputsType
  <2> QED
    BY <1>2, <2>1, SweepCreditsOnly
<1> QED
  BY <1>1, <1>2 DEF DepositNext, SweepNext

\* No account owner other than the Bridge spends its balance.
LEMMA OwnerBridgeBalance ==
    ASSUME TypeInv, NEW account \in Account, OwnerNext(account)
    PROVE  balanceOf'[BridgeAccount] >= balanceOf[BridgeAccount]
<1>1. PICK amount \in TransferAmount :
          \/ \E recipient \in Account : TransferBalance(account, recipient, amount)
          \/ DecreaseBalance(account, amount)
  BY DEF OwnerNext
<1>2. amount \in Nat /\ balanceOf \in [Account -> Nat]
  BY AccountAssumption DEF TypeInv, TypeOK, BankTypeOK
<1> QED
  BY <1>1, <1>2, Accounts
     DEF TransferBalance, DecreaseBalance, Transferred, Decreased, Increased

LEMMA NextReservationStep ==
    ASSUME TypeInv, [Next]_vars
    PROVE  ReservationStep
<1>0. balanceOf[BridgeAccount] \in Nat
  BY Accounts DEF TypeInv, TypeOK, BankTypeOK
<1>1. /\ UNCHANGED <<pendingRedemptions, pendingRedemptionsValue>>
      /\ balanceOf'[BridgeAccount] >= balanceOf[BridgeAccount]
      => ReservationStep
  BY DEF KeepsRequests, ReservationStep
<1>2. CASE /\ WalletsNext
           /\ UNCHANGED <<movedFundsSweepRequests, redemptionVars, depositVars,
                          fraudVars, balanceOf>>
  BY <1>0, <1>1, <1>2, WalletsMainUtxo DEF balanceFields, redemptionVars
<1>3. CASE /\ MovingFundsNext
           /\ UNCHANGED <<redemptionVars, depositVars, fraudVars, balanceOf>>
  BY <1>0, <1>1, <1>3, MovingFundsPendingValue DEF redemptionVars
<1>4. CASE DepositNext /\ UNCHANGED redemptionVars
  BY <1>1, <1>4, Accounts, DepositPendingValue, DepositBalances DEF redemptionVars
<1>5. CASE FraudNext /\ UNCHANGED redemptionVars
  BY <1>0, <1>1, <1>5 DEF FraudNext, balanceFields, redemptionVars
<1>6. ASSUME NEW account \in Account, OwnerNext(account) PROVE ReservationStep
  BY <1>1, <1>6, OwnerBridgeBalance
     DEF OwnerNext, walletStorage, balanceFields, redemptionVars
<1>7. CASE UNCHANGED vars
  BY <1>0, <1>1, <1>7 DEF vars, walletStorage, balanceFields, redemptionVars
<1> QED
  BY <1>2, <1>3, <1>4, <1>5, <1>6, <1>7, RedemptionReservationStep
     DEF Next, QuietNext, DepositNext

LEMMA RedemptionInvNext ==
    ASSUME TypeInv, TypeInv', RedemptionInv, [Next]_vars
    PROVE  RedemptionInv'
BY NextReservationStep, KeepsRequestsKeepsInv, AddsRequestKeepsInv,
   SettlesRequestsKeepsInv
   DEF ReservationStep

LEMMA RedemptionInvInit == Init => RedemptionInv
<1> SUFFICES ASSUME Init PROVE RedemptionInv
  OBVIOUS
<1>1. TypeInv
  BY TypeInit
<1>2. pendingRedemptions = [k \in RedemptionKey |-> NoRequest]
  BY DEF Init, RedemptionInit
<1>3. AbsentRequestsEmpty
  BY <1>2 DEF AbsentRequestsEmpty, NoRequest
<1>4. ASSUME NEW w \in Wallet PROVE Total(RedeemableOf(w)) = 0
  <2>1. \A s \in Script : RedeemableOf(w)[s] = 0
    BY <1>2 DEF RedeemableOf, RedeemableAmount, NoRequest, RedemptionKey
  <2> QED
    BY <1>1, <2>1, RedeemableOfType, TotalZero
<1>5. Total(Locked) = 0
  <2>1. \A k \in RedemptionKey : Locked[k] = 0
    BY <1>2 DEF Locked, NoRequest
  <2> QED
    BY <1>1, <2>1, LockedType, TotalZero
<1>6. /\ balanceOf[BridgeAccount] = 0
      /\ \A w \in Wallet : pendingRedemptionsValue[w] = 0
  BY Accounts DEF Init, BankInit, WalletsInit
<1>7. balanceOf[BridgeAccount] >= Total(Locked)
  BY <1>5, <1>6
<1> QED
  BY <1>3, <1>4, <1>6, <1>7
     DEF RedemptionInv, PendingRedemptionsValueExact, BridgeHoldsLockedBalance, Locked

\* The books of the redemptions balance: what each wallet reserves, and what the
\* Bridge has locked, is what the pending requests add up to.
THEOREM RedemptionInvariant == Spec => []RedemptionInv
<1>1. TypeInv /\ TypeInv' /\ RedemptionInv /\ [Next]_vars => RedemptionInv'
  BY RedemptionInvNext
<1> QED
  BY RedemptionInvInit, <1>1, TypeInvariant, PTL DEF Spec

\* The value a wallet reserves is that of its pending redemptions, whichever of
\* the proof, the timeout or the veto ends them.
THEOREM PendingRedemptionsValueTheorem == Spec => []PendingRedemptionsValueExact
<1>1. RedemptionInv => PendingRedemptionsValueExact
  BY DEF RedemptionInv
<1> QED
  BY <1>1, RedemptionInvariant, PTL

\* The Bridge holds the balance its pending redemptions have locked: none of
\* their proofs, timeouts and vetoes fails for want of balance.
THEOREM LockedBalanceTheorem == Spec => []BridgeHoldsLockedBalance
<1>1. RedemptionInv => BridgeHoldsLockedBalance
  BY DEF RedemptionInv
<1> QED
  BY <1>1, RedemptionInvariant, PTL

-----------------------------------------------------------------------------
(***************************************************************************)
(* What a wallet that commits to its targets still owes.  The commitment   *)
(* is guarded by the reserved value only.  That value is zero without any  *)
(* pending request, because no fee eats up the amount of a request: this   *)
(* takes a divisor other than one, with which the whole amount would be    *)
(* the treasury's.                                                         *)
(***************************************************************************)
LEMMA RedemptionLeavesSomething ==
    ASSUME RedemptionTreasuryFeeDivisor # 1, NEW amount \in Nat, amount > 0,
           NEW fee \in RedemptionTreasuryFees(amount)
    PROVE  amount - fee > 0
<1>1. RedemptionTreasuryFeeDivisor \in Nat
  BY RedemptionParametersAssumption DEF RedemptionParametersAccepted
<1>2. CASE RedemptionTreasuryFeeDivisor > 0
  <2>1. fee \in 0..(amount \div RedemptionTreasuryFeeDivisor)
    BY <1>2 DEF RedemptionTreasuryFees
  <2>2. ASSUME NEW divisor \in Nat, divisor > 1 PROVE amount \div divisor < amount
    BY <2>2
  <2>3. amount \div RedemptionTreasuryFeeDivisor < amount
    BY <1>1, <1>2, <2>2
  <2>4. amount \div RedemptionTreasuryFeeDivisor \in Nat
    BY <1>1, <1>2, DivBound
  <2> HIDE <1>2
  <2> QED
    BY <2>1, <2>3, <2>4
<1>3. CASE ~(RedemptionTreasuryFeeDivisor > 0)
  BY <1>3 DEF RedemptionTreasuryFees
<1> QED
  BY <1>2, <1>3

\* A pending request after a redemption step was there before, or has something
\* to redeem.
LEMMA RedemptionPendingPositive ==
    ASSUME TypeInv, RedemptionTreasuryFeeDivisor # 1, RedemptionNext,
           NEW k \in RedemptionKey, Exists(pendingRedemptions'[k])
    PROVE  \/ pendingRedemptions'[k] = pendingRedemptions[k]
           \/ RedeemableAmount(pendingRedemptions'[k]) > 0
<1> DEFINE Goal == \/ pendingRedemptions'[k] = pendingRedemptions[k]
                   \/ RedeemableAmount(pendingRedemptions'[k]) > 0
<1>0. ~Exists(NoRequest) /\ pendingRedemptions \in [RedemptionKey -> Request]
  BY DEF Exists, NoRequest, TypeInv, TypeOK, RedemptionTypeOK
<1>1. ASSUME NEW w \in Wallet, NEW s \in Script, NEW owner \in User \union Vault,
             NEW redeemer \in User, NEW amount \in 1..balanceOf[owner],
             NEW fee \in RedemptionTreasuryFees(amount),
             RequestRedemption(w, s, owner, redeemer, amount, fee)
      PROVE  Goal
  <2>1. amount \in Nat /\ amount > 0
    BY Accounts DEF TypeInv, TypeOK, BankTypeOK
  <2>2. amount - fee > 0
    BY <2>1, RedemptionLeavesSomething
  <2>3. k = <<w, s>> => RedeemableAmount(pendingRedemptions'[k]) = amount - fee
    BY <1>0, <1>1 DEF RequestRedemption, RedeemableAmount
  <2>4. k # <<w, s>> => pendingRedemptions'[k] = pendingRedemptions[k]
    BY <1>0, <1>1 DEF RequestRedemption
  <2> QED
    BY <2>2, <2>3, <2>4
<1>2. ASSUME NEW w \in Wallet, NEW s \in Script, NEW penaltyFee,
             NotifyRedemptionTimeout(w, s) \/ NotifyRedemptionVeto(w, s, penaltyFee)
      PROVE  Goal
  <2>1. pendingRedemptions' = [pendingRedemptions EXCEPT ![<<w, s>>] = NoRequest]
    BY <1>2 DEF NotifyRedemptionTimeout, NotifyRedemptionVeto, DeletePendingRedemption
  <2> QED
    BY <1>0, <2>1
<1>3. ASSUME NEW w \in Wallet, NEW outputs, NEW changeValue,
             SubmitRedemptionProof(w, outputs, changeValue)
      PROVE  Goal
  BY <1>0, <1>3 DEF SubmitRedemptionProof
<1> HIDE DEF Goal
<1>4. Goal
  BY <1>1, <1>2, <1>3 DEF RedemptionNext, RequestNext, VetoNext, SettleNext
<1> QED
  BY <1>4 DEF Goal

\* A commitment is only ever made by its own handler, which leaves the
\* redemptions alone.
LEMMA CommitmentStep ==
    [Next]_vars =>
        \/ UNCHANGED commitment
        \/ /\ \E w \in Wallet, targets \in SUBSET Wallet :
                 SubmitMovingFundsCommitment(w, targets)
           /\ UNCHANGED pendingRedemptions
<1>1. MovingFundsNext =>
          \/ UNCHANGED commitment
          \/ \E w \in Wallet, targets \in SUBSET Wallet :
                SubmitMovingFundsCommitment(w, targets)
  <2>1. ASSUME NEW w, \/ ResetMovingFundsTimeout(w)
                      \/ NotifyMovingFundsTimeout(w)
                      \/ NotifyMovingFundsBelowDust(w)
        PROVE  UNCHANGED commitment
    BY <2>1 DEF ResetMovingFundsTimeout, NotifyMovingFundsTimeout,
                NotifyMovingFundsBelowDust, balanceFields
  <2>2. ASSUME NEW w, NEW outputs, SubmitMovingFundsProof(w, outputs)
        PROVE  UNCHANGED commitment
    BY <2>2 DEF SubmitMovingFundsProof
  <2>3. ASSUME NEW w, NEW source, NEW outputValue,
               \/ SubmitMovedFundsSweepProof(source, w, outputValue)
               \/ NotifyMovedFundsSweepTimeout(source, w)
        PROVE  UNCHANGED commitment
    BY <2>3 DEF SubmitMovedFundsSweepProof, NotifyMovedFundsSweepTimeout
  <2> QED
    BY <2>1, <2>2, <2>3 DEF MovingFundsNext
<1>2. RedemptionNext => UNCHANGED commitment
  <2>1. ASSUME NEW w, NEW s, NEW owner, NEW redeemer, NEW amount, NEW fee,
               RequestRedemption(w, s, owner, redeemer, amount, fee)
        PROVE  UNCHANGED commitment
    BY <2>1 DEF RequestRedemption
  <2>2. ASSUME NEW w, NEW s, NEW penaltyFee,
               NotifyRedemptionTimeout(w, s) \/ NotifyRedemptionVeto(w, s, penaltyFee)
        PROVE  UNCHANGED commitment
    BY <2>2 DEF NotifyRedemptionTimeout, NotifyRedemptionVeto
  <2>3. ASSUME NEW w, NEW outputs, NEW changeValue,
               SubmitRedemptionProof(w, outputs, changeValue)
        PROVE  UNCHANGED commitment
    BY <2>3 DEF SubmitRedemptionProof
  <2> QED
    BY <2>1, <2>2, <2>3 DEF RedemptionNext, RequestNext, VetoNext, SettleNext
<1>3. DepositNext => UNCHANGED commitment
  BY DEF DepositNext, RevealNext, SweepNext, VaultStatusNext, RevealDeposit,
         SubmitDepositSweepProof, SetVaultStatus, balanceFields
<1>4. FraudNext => UNCHANGED commitment
  BY DEF FraudNext, balanceFields
<1>5. ASSUME NEW account, OwnerNext(account) PROVE UNCHANGED commitment
  BY <1>5 DEF OwnerNext, walletStorage, balanceFields
<1>6. UNCHANGED vars => UNCHANGED commitment
  BY DEF vars, walletStorage, balanceFields
<1> QED
  BY <1>1, <1>2, <1>3, <1>4, <1>5, <1>6, WalletsMainUtxo
     DEF Next, QuietNext, DepositNext, balanceFields, redemptionVars

LEMMA CommitmentInvNext ==
    ASSUME TypeInv, RedemptionInv, CommitmentInv, RedemptionTreasuryFeeDivisor # 1,
           [Next]_vars
    PROVE  CommitmentInv'
<1>1. ASSUME NEW k \in RedemptionKey, Exists(pendingRedemptions'[k])
      PROVE  RedeemableAmount(pendingRedemptions'[k]) > 0
  <2>1. \/ pendingRedemptions'[k] = pendingRedemptions[k]
        \/ RedeemableAmount(pendingRedemptions'[k]) > 0
    BY <1>1, RequestsOnlyInRedemption, RedemptionPendingPositive DEF redemptionVars
  <2> QED
    BY <1>1, <2>1 DEF CommitmentInv
<1>2. ASSUME NEW w \in Wallet, commitment'[w] # {}
      PROVE  /\ walletState'[w] \notin {"Unknown", "Live"}
             /\ \A s \in Script : ~Exists(pendingRedemptions'[<<w, s>>])
  <2>1. CASE commitment'[w] = commitment[w]
    <3>1. /\ walletState[w] \notin {"Unknown", "Live"}
          /\ \A s \in Script : ~Exists(pendingRedemptions[<<w, s>>])
      BY <1>2, <2>1 DEF CommitmentInv, CommittedWalletsOweNoRedemption
    <3>2. ASSUME NEW s \in Script PROVE ~Exists(pendingRedemptions'[<<w, s>>])
      <4>1. <<w, s>> \in RedemptionKey /\ <<w, s>>[1] = w
        BY DEF RedemptionKey
      <4>2. RequestStep(<<w, s>>)
        BY <4>1, RedemptionRequestStep, RequestsOnlyInRedemption
           DEF RequestStep, redemptionVars
      <4> QED
        BY <3>1, <4>1, <4>2 DEF RequestStep
    <3> QED
      BY <3>1, <3>2, RetiredStays
\* The commitment is made in this step, with nothing reserved.
  <2>2. CASE commitment'[w] # commitment[w]
    <3>1. PICK v \in Wallet, targets \in SUBSET Wallet :
              SubmitMovingFundsCommitment(v, targets) /\ UNCHANGED pendingRedemptions
      BY <2>2, CommitmentStep
    <3>2. v = w
      BY <2>2, <3>1 DEF SubmitMovingFundsCommitment, TypeInv, TypeOK, WalletsTypeOK
    <3>3. /\ walletState[w] = "MovingFunds" /\ walletState' = walletState
          /\ pendingRedemptionsValue[w] = 0
      BY <3>1, <3>2 DEF SubmitMovingFundsCommitment, walletVars
    <3>4. Total(RedeemableOf(w)) = 0
      BY <3>3 DEF RedemptionInv, PendingRedemptionsValueExact
    <3>5. ASSUME NEW s \in Script PROVE ~Exists(pendingRedemptions[<<w, s>>])
      <4>1. RedeemableOf(w)[s] = 0
        BY <3>4, RedeemableOfType, ScriptAssumption, TotalZeroEntries
      <4>2. RedeemableAmount(pendingRedemptions[<<w, s>>]) = 0 /\ <<w, s>> \in RedemptionKey
        BY <4>1 DEF RedeemableOf, RedemptionKey
      <4> QED
        BY <4>2 DEF CommitmentInv
    <3> QED
      BY <3>1, <3>3, <3>5
  <2> QED
    BY <2>1, <2>2
<1> QED
  BY <1>1, <1>2
     DEF CommitmentInv, CommittedWalletsOweNoRedemption, Exists, RedeemableAmount

\* A wallet commits to its targets only after the last redemption it owes, and
\* owes none from then on.
THEOREM CommittedWalletsTheorem ==
    ASSUME RedemptionTreasuryFeeDivisor # 1
    PROVE  Spec => []CommittedWalletsOweNoRedemption
<1>1. Init => CommitmentInv
  BY DEF Init, WalletsInit, RedemptionInit, CommitmentInv, Exists, NoRequest,
         CommittedWalletsOweNoRedemption, RedemptionKey
<1>2. TypeInv /\ RedemptionInv /\ CommitmentInv /\ [Next]_vars => CommitmentInv'
  BY CommitmentInvNext
<1>3. CommitmentInv => CommittedWalletsOweNoRedemption
  BY DEF CommitmentInv
<1> QED
  BY <1>1, <1>2, <1>3, TypeInvariant, RedemptionInvariant, PTL DEF Spec

-----------------------------------------------------------------------------
(***************************************************************************)
(* Deposits.                                                               *)
(***************************************************************************)
\* A revealed deposit names its depositor, who will be credited, and leaves
\* something after the treasury fee.
DepositsKnown ==
    \A d \in DepositKey :
        /\ deposits[d].treasuryFee <= deposits[d].amount
        /\ deposits[d].revealedAt # 0 => deposits[d].depositor \in User

\* A step reveals deposit d, or changes nothing of it but the time of its sweep.
DepositStep(d) ==
    \/ /\ deposits'[d].depositor = deposits[d].depositor
       /\ deposits'[d].amount = deposits[d].amount
       /\ deposits'[d].vault = deposits[d].vault
       /\ deposits'[d].treasuryFee = deposits[d].treasuryFee
       /\ deposits'[d].revealedAt = deposits[d].revealedAt
    \/ /\ deposits[d].revealedAt = 0
       /\ deposits'[d].depositor \in User
       /\ deposits'[d].treasuryFee <= deposits'[d].amount

LEMMA DepositNextStep ==
    ASSUME TypeInv, DepositNext, NEW d \in DepositKey
    PROVE  DepositStep(d)
<1>0. deposits \in [DepositKey -> DepositRequest]
  BY DEF TypeInv, TypeOK, DepositTypeOK
<1>1. ASSUME NEW e \in DepositKey, NEW w \in Wallet, NEW depositor \in User,
             NEW amount \in DepositAmount, NEW vault \in Vault \union {NoVault},
             NEW treasuryFee \in DepositTreasuryFees(amount),
             RevealDeposit(e, w, depositor, amount, vault, treasuryFee)
      PROVE  DepositStep(d)
  <2>1. treasuryFee <= amount
    BY DepositAssumption, DepositTreasuryFeesBound
  <2>2. CASE d = e
    BY <1>0, <1>1, <2>1, <2>2 DEF RevealDeposit, DepositStep
  <2>3. CASE d # e
    BY <1>0, <1>1, <2>3 DEF RevealDeposit, DepositStep
  <2> QED
    BY <2>2, <2>3
<1>2. ASSUME NEW w, NEW swept, NEW vault, NEW last, NEW outputValue,
             SubmitDepositSweepProof(w, swept, last, outputValue, vault)
      PROVE  DepositStep(d)
  <2>1. deposits'[d] = IF d \in swept THEN [deposits[d] EXCEPT !.sweptAt = now]
                                      ELSE deposits[d]
    BY <1>2 DEF SubmitDepositSweepProof
  <2> QED
    BY <1>0, <2>1 DEF DepositStep, DepositRequest
<1>3. ASSUME VaultStatusNext PROVE DepositStep(d)
  BY <1>3 DEF VaultStatusNext, SetVaultStatus, DepositStep
<1> QED
  BY <1>1, <1>2, <1>3 DEF DepositNext, RevealNext, SweepNext

LEMMA DepositsKnownNext ==
    ASSUME DepositsKnown, \A d \in DepositKey : DepositStep(d)
    PROVE  DepositsKnown'
BY DEF DepositsKnown, DepositStep

-----------------------------------------------------------------------------
(***************************************************************************)
(* Backing: what a step does to the supply of the Bank, to the funds in    *)
(* the main UTXOs and to the moved funds that are not swept yet.           *)
(***************************************************************************)
Funds(utxos) == Total([w \in Wallet |-> UtxoValue(utxos[w])])
Moved(requests) ==
    Total([k \in SweepRequestKey |->
              IF requests[k].state \in {"Pending", "TimedOut"}
              THEN requests[k].value ELSE 0])

LEMMA ReserveParts ==
    /\ Deficit = Total(balanceOf) - (Funds(mainUtxo) + Moved(movedFundsSweepRequests))
    /\ Deficit' = Total(balanceOf') - (Funds(mainUtxo') + Moved(movedFundsSweepRequests'))
BY DEF Deficit, BankSupply, Reserve, Funds, Moved, MovedFunds, WalletBtcBalance

Utxos == [Wallet -> Nat \union {NoUtxo}]

LEMMA FundsType ==
    ASSUME NEW utxos \in Utxos
    PROVE  /\ [w \in Wallet |-> UtxoValue(utxos[w])] \in [Wallet -> Nat]
           /\ Funds(utxos) \in Nat
<1>1. [w \in Wallet |-> UtxoValue(utxos[w])] \in [Wallet -> Nat]
  BY DEF UtxoValue, Utxos, NoUtxo
<1> QED
  BY <1>1, WalletAssumption, TotalType DEF Funds

\* A transaction that replaces the main UTXO of w.
LEMMA FundsReplaced ==
    ASSUME NEW utxos \in Utxos, NEW w \in Wallet, NEW utxo \in Nat \union {NoUtxo}
    PROVE  Funds([utxos EXCEPT ![w] = utxo])
               = Funds(utxos) - UtxoValue(utxos[w]) + UtxoValue(utxo)
<1> DEFINE new == [utxos EXCEPT ![w] = utxo]
           f == [v \in Wallet |-> UtxoValue(utxos[v])]
           g == [v \in Wallet |-> UtxoValue(new[v])]
<1>1. new \in Utxos /\ new[w] = utxo /\ \A v \in Wallet \ {w} : new[v] = utxos[v]
  BY DEF Utxos
<1>2. /\ f \in [Wallet -> Nat] /\ g \in [Wallet -> Nat]
      /\ f[w] = UtxoValue(utxos[w]) /\ g[w] = UtxoValue(utxo)
      /\ \A v \in Wallet \ {w} : g[v] = f[v]
  <2> HIDE DEF new
  <2> QED
    BY <1>1, FundsType
<1> HIDE DEF f, g
<1>3. Total(g) = Total(f) - f[w] + g[w]
  BY <1>2, WalletAssumption, TotalUpdate
<1> QED
  BY <1>2, <1>3 DEF Funds, f, g

LEMMA SweepRequestKeyFinite == IsFiniteSet(SweepRequestKey)
BY WalletAssumption, FS_Product DEF SweepRequestKey

SweepRequests == [SweepRequestKey -> SweepRequest]
Unswept(requests) ==
    [k \in SweepRequestKey |-> IF requests[k].state \in {"Pending", "TimedOut"}
                               THEN requests[k].value ELSE 0]

LEMMA MovedType ==
    ASSUME NEW requests \in SweepRequests
    PROVE  /\ Unswept(requests) \in [SweepRequestKey -> Nat]
           /\ Moved(requests) \in Nat
<1>1. Unswept(requests) \in [SweepRequestKey -> Nat]
  BY DEF Unswept, SweepRequests, SweepRequest
<1> QED
  BY <1>1, SweepRequestKeyFinite, TotalType DEF Moved, Unswept

\* A sweep takes the value of the request, a timeout leaves it with the wallet.
LEMMA MovedEnded ==
    ASSUME NEW requests \in SweepRequests, NEW k \in SweepRequestKey,
           requests[k].state = "Pending", NEW st \in {"Processed", "TimedOut"}
    PROVE  Moved([requests EXCEPT ![k].state = st])
               = Moved(requests) - IF st = "Processed" THEN requests[k].value ELSE 0
<1> DEFINE new == [requests EXCEPT ![k].state = st]
<1>1. /\ new \in SweepRequests /\ new[k].state = st /\ new[k].value = requests[k].value
      /\ \A l \in SweepRequestKey \ {k} : new[l] = requests[l]
      /\ requests[k].value \in Nat
  BY DEF SweepRequests, SweepRequest, SweepRequestState
<1> HIDE DEF new
<1>2. /\ Unswept(requests)[k] = requests[k].value
      /\ Unswept(new)[k] = requests[k].value - IF st = "Processed" THEN requests[k].value ELSE 0
      /\ \A l \in SweepRequestKey \ {k} : Unswept(new)[l] = Unswept(requests)[l]
  BY <1>1 DEF Unswept
<1>3. Total(Unswept(new)) =
          Total(Unswept(requests)) - Unswept(requests)[k] + Unswept(new)[k]
  BY <1>1, <1>2, MovedType, SweepRequestKeyFinite, TotalUpdate
<1>4. Moved(requests) = Total(Unswept(requests)) /\ Moved(new) = Total(Unswept(new))
  BY DEF Moved, Unswept
<1>5. Moved(requests) \in Nat
  BY MovedType
<1>6. Moved(new) = Moved(requests) - IF st = "Processed" THEN requests[k].value ELSE 0
  BY <1>1, <1>2, <1>3, <1>4, <1>5
<1> QED
  BY <1>6 DEF new

\* The proof that moves funds hands what it pays to the requests it creates.
LEMMA MovedCreated ==
    ASSUME NEW requests \in SweepRequests, NEW w \in Wallet, NEW targets \in SUBSET Wallet,
           NEW outputs \in [targets -> Nat],
           \A t \in Wallet : requests[<<w, t>>].state = "Unknown",
           NEW new,
           \A k \in SweepRequestKey :
               IF k[1] = w /\ k[2] \in targets
               THEN new[k].state = "Pending" /\ new[k].value = outputs[k[2]]
               ELSE new[k] = requests[k]
    PROVE  Moved(new) = Moved(requests) + Total(outputs)
<1> DEFINE added == [k \in SweepRequestKey |->
                        IF k[1] = w /\ k[2] \in targets THEN outputs[k[2]] ELSE 0]
<1>1. IsFiniteSet(targets)
  BY WalletAssumption, FS_Subset
<1>2. added \in [SweepRequestKey -> Nat]
  OBVIOUS
<1>3. \A k \in SweepRequestKey : k[1] \in Wallet /\ k[2] \in Wallet /\ k = <<k[1], k[2]>>
  BY DEF SweepRequestKey
<1>4. \A x \in targets : <<w, x>> \in SweepRequestKey /\ added[<<w, x>>] = outputs[x]
  BY DEF SweepRequestKey
<1>5. \A k \in SweepRequestKey : added[k] # 0 => \E x \in targets : k = <<w, x>>
  BY <1>3
<1>6. ASSUME NEW k \in SweepRequestKey
      PROVE  Unswept(new)[k] = Unswept(requests)[k] + added[k]
  <2>1. Unswept(requests)[k] \in Nat
    BY MovedType
  <2>2. CASE k[1] = w /\ k[2] \in targets
    <3>1. requests[k].state = "Unknown"
      BY <1>3, <2>2
    <3>2. Unswept(requests)[k] = 0
      BY <3>1 DEF Unswept
    <3>3. new[k].state = "Pending" /\ new[k].value = outputs[k[2]] /\ outputs[k[2]] \in Nat
      BY <2>2
    <3>4. Unswept(new)[k] = outputs[k[2]]
      BY <3>3 DEF Unswept
    <3> QED
      BY <2>2, <3>2, <3>3, <3>4
  <2>3. CASE ~(k[1] = w /\ k[2] \in targets)
    BY <2>1, <2>3 DEF Unswept
  <2> QED
    BY <2>2, <2>3
<1> HIDE DEF added
<1>7. Total(added) = Total(outputs)
  <2>1. outputs \in [targets -> Nat]
    OBVIOUS
  <2>2. SpreadOverPairs(added, SweepRequestKey, w, outputs, targets)
    BY <1>4, <1>5 DEF SpreadOverPairs
  <2> QED
    BY <1>1, <1>2, <2>1, <2>2, TotalOfPairs
<1>8. Unswept(requests) \in [SweepRequestKey -> Nat]
  BY MovedType
<1>9. Unswept(new) \in [SweepRequestKey -> Nat]
  <2>1. \A k \in SweepRequestKey : Unswept(new)[k] \in Nat
    BY <1>2, <1>6, <1>8
  <2> QED
    BY <2>1 DEF Unswept
<1>10. Total(Unswept(new)) = Total(Unswept(requests)) + Total(added)
  BY <1>2, <1>6, <1>8, <1>9, SweepRequestKeyFinite, TotalSum
<1> QED
  BY <1>7, <1>10 DEF Moved, Unswept

-----------------------------------------------------------------------------
\* The supply of the Bank.
LEMMA AccountFinite == IsFiniteSet(Account)
<1>1. IsFiniteSet({BridgeAccount, Treasury, Watchtower})
  <2>1. {BridgeAccount, Treasury, Watchtower}
            = {BridgeAccount} \union ({Treasury} \union {Watchtower})
    OBVIOUS
  <2>2. /\ IsFiniteSet({BridgeAccount}) /\ IsFiniteSet({Treasury})
        /\ IsFiniteSet({Watchtower})
    BY FS_Singleton
  <2>3. IsFiniteSet({Treasury} \union {Watchtower})
    BY <2>2, FS_Union
  <2>4. IsFiniteSet({BridgeAccount} \union ({Treasury} \union {Watchtower}))
    BY <2>2, <2>3, FS_Union
  <2> QED
    BY <2>1, <2>4, Zenon
<1>2. IsFiniteSet(User \union Vault)
  BY AccountAssumption, FS_Union
<1> QED
  BY <1>1, <1>2, FS_Union DEF Account

LEMMA BackingTypes ==
    ASSUME TypeInv
    PROVE  /\ balanceOf \in [Account -> Nat] /\ Total(balanceOf) \in Nat
           /\ mainUtxo \in Utxos /\ Funds(mainUtxo) \in Nat
           /\ movedFundsSweepRequests \in SweepRequests
           /\ Moved(movedFundsSweepRequests) \in Nat
<1>1. /\ balanceOf \in [Account -> Nat] /\ mainUtxo \in Utxos
      /\ movedFundsSweepRequests \in SweepRequests
  BY DEF TypeInv, TypeOK, BankTypeOK, WalletsTypeOK, MovingFundsTypeOK, Utxos,
         SweepRequests
<1> QED
  BY <1>1, AccountFinite, TotalType, FundsType, MovedType

LEMMA BackingTypesNext ==
    ASSUME TypeInv'
    PROVE  /\ balanceOf' \in [Account -> Nat] /\ Total(balanceOf') \in Nat
           /\ mainUtxo' \in Utxos /\ Funds(mainUtxo') \in Nat
           /\ movedFundsSweepRequests' \in SweepRequests
           /\ Moved(movedFundsSweepRequests') \in Nat
<1>1. /\ balanceOf' \in [Account -> Nat] /\ mainUtxo' \in Utxos
      /\ movedFundsSweepRequests' \in SweepRequests
  BY DEF TypeInv, TypeOK, BankTypeOK, WalletsTypeOK, MovingFundsTypeOK, Utxos,
         SweepRequests
<1> QED
  BY <1>1, AccountFinite, TotalType, FundsType, MovedType

\* A transfer issues nothing, whoever it goes to.
LEMMA TransferSupply ==
    ASSUME NEW b \in [Account -> Nat], NEW spender \in Account, NEW recipient,
           NEW amount \in Nat, CanDecrease(b, spender, amount)
    PROVE  Total(Transferred(b, spender, recipient, amount)) <= Total(b)
<1>0. Total(b) \in Nat
  BY AccountFinite, TotalType
<1>1. CASE recipient \in Account
  <2>1. Total(Transferred(b, spender, recipient, amount)) = Total(b)
    BY <1>1, AccountFinite, TransferredTotal
  <2> QED
    BY <1>0, <2>1
<1>2. CASE recipient \notin Account
  <2> DEFINE debited == Decreased(b, spender, amount)
  <2>1. debited \in [Account -> Nat] /\ Total(debited) = Total(b) - amount
    BY AccountFinite, DecreasedTotal
  <2> HIDE DEF debited
  <2>2. Increased(debited, recipient, amount) = debited
    BY <1>2, <2>1 DEF Increased
  <2>3. Transferred(b, spender, recipient, amount) = debited
    BY <2>2 DEF Transferred, debited
  <2> QED
    BY <1>0, <2>1, <2>3
<1> QED
  BY <1>1, <1>2

-----------------------------------------------------------------------------
\* What BackingLossBounded allows.
BackingStep ==
    \/ Deficit' <= Deficit
    \/ /\ <<mainUtxo, spentMainUTXOs>>' # <<mainUtxo, spentMainUTXOs>>
       /\ UNCHANGED deposits
       /\ Deficit' <= Deficit + LargestTxFee + Total(ServedAfterTimeout)

LEMMA LargestTxFeeBound ==
    /\ LargestTxFee \in Nat
    /\ \A fee \in TxMaxTotalFees : fee \in Nat /\ fee <= LargestTxFee
<1>1. /\ MovingFundsTxMaxTotalFee \in Nat /\ MovedFundsSweepTxMaxTotalFee \in Nat
      /\ RedemptionTxMaxTotalFee \in Nat
  BY MovingFundsParametersAssumption, RedemptionParametersAssumption
     DEF MovingFundsParametersAccepted, RedemptionParametersAccepted
<1>2. \A fee \in TxMaxTotalFees : fee \in Nat
  BY <1>1 DEF TxMaxTotalFees
<1>3. \E fee \in TxMaxTotalFees : \A other \in TxMaxTotalFees : other <= fee
  BY <1>1 DEF TxMaxTotalFees
<1>4. LargestTxFee \in TxMaxTotalFees /\ \A other \in TxMaxTotalFees : other <= LargestTxFee
  BY <1>3 DEF LargestTxFee
<1> QED
  BY <1>2, <1>4

LEMMA ServedType ==
    ASSUME TypeInv
    PROVE  /\ ServedAfterTimeout \in [RedemptionKey -> Nat]
           /\ Total(ServedAfterTimeout) \in Nat
<1>1. \A k \in RedemptionKey : RedeemableAmount(timedOutRedemptions[k]) \in Nat
  BY DEF TypeInv, TypeOK, RedemptionTypeOK, FeesWithinAmounts, RedeemableAmount, Request
<1>2. ServedAfterTimeout \in [RedemptionKey -> Nat]
  BY <1>1 DEF ServedAfterTimeout
<1> QED
  BY <1>2, RedemptionKeyFinite, TotalType

\* A step that leaves the reserve alone and issues nothing.
LEMMA ReserveKept ==
    ASSUME TypeInv, TypeInv', UNCHANGED mainUtxo,
           Moved(movedFundsSweepRequests') = Moved(movedFundsSweepRequests),
           Total(balanceOf') <= Total(balanceOf)
    PROVE  BackingStep
BY ReserveParts, BackingTypes, BackingTypesNext DEF BackingStep

\* A transaction of a wallet that spends its main UTXO.
LEMMA MainUtxoSpent ==
    ASSUME TypeInv, NEW w \in Wallet, HasMainUtxo(w), SpendMainUtxo(w)
    PROVE  /\ spentMainUTXOs' # spentMainUTXOs
           /\ mainUtxo[w] \in Nat /\ UtxoValue(mainUtxo[w]) = mainUtxo[w]
<1>1. spentMainUTXOs'[w] = spentMainUTXOs[w] + 1 /\ spentMainUTXOs[w] \in Nat
  BY DEF HasMainUtxo, SpendMainUtxo, TypeInv, TypeOK, WalletsTypeOK
<1> QED
  BY <1>1 DEF HasMainUtxo, UtxoValue, TypeInv, TypeOK, WalletsTypeOK

LEMMA MovingFundsProofBacking ==
    ASSUME TypeInv, TypeInv', SweepSourcesRetired, NEW w \in Wallet,
           NEW outputs \in [commitment[w] -> Nat], SubmitMovingFundsProof(w, outputs),
           UNCHANGED <<deposits, balanceOf>>
    PROVE  BackingStep
<1>1. DOMAIN outputs = commitment[w] /\ commitment[w] \in SUBSET Wallet
  BY DEF TypeInv, TypeOK, WalletsTypeOK
<1>2. /\ HasMainUtxo(w) /\ SpendMainUtxo(w)
      /\ mainUtxo' = [mainUtxo EXCEPT ![w] = NoUtxo]
      /\ mainUtxo[w] - Total(outputs) <= MovingFundsTxMaxTotalFee
      /\ walletState[w] = "MovingFunds"
  BY DEF SubmitMovingFundsProof, NotifyWalletFundsMoved, TxFeeWithin
<1>3. \A t \in Wallet : movedFundsSweepRequests[<<w, t>>].state = "Unknown"
  BY <1>2 DEF SweepSourcesRetired
<1>4. Moved(movedFundsSweepRequests') = Moved(movedFundsSweepRequests) + Total(outputs)
  <2>1. \A k \in SweepRequestKey :
            IF k[1] = w /\ k[2] \in commitment[w]
            THEN /\ movedFundsSweepRequests'[k].state = "Pending"
                 /\ movedFundsSweepRequests'[k].value = outputs[k[2]]
            ELSE movedFundsSweepRequests'[k] = movedFundsSweepRequests[k]
    BY <1>1 DEF SubmitMovingFundsProof
  <2>2. movedFundsSweepRequests \in SweepRequests
    BY BackingTypes
  <2> QED
    BY <1>1, <1>3, <2>1, <2>2, MovedCreated, Z3
<1>5. spentMainUTXOs' # spentMainUTXOs /\ mainUtxo[w] \in Nat
      /\ UtxoValue(mainUtxo[w]) = mainUtxo[w]
  BY <1>2, MainUtxoSpent
<1>6. Funds(mainUtxo') = Funds(mainUtxo) - mainUtxo[w]
  <2>1. Funds(mainUtxo') = Funds(mainUtxo) - UtxoValue(mainUtxo[w]) + UtxoValue(NoUtxo)
    BY <1>2, BackingTypes, FundsReplaced
  <2> QED
    BY <1>5, <2>1, BackingTypes DEF UtxoValue
<1>7. Total(outputs) \in Nat
  <2>1. IsFiniteSet(commitment[w])
    BY <1>1, WalletAssumption, FS_Subset
  <2> QED
    BY <2>1, TotalType
<1>8. /\ MovingFundsTxMaxTotalFee \in Nat /\ LargestTxFee \in Nat
      /\ MovingFundsTxMaxTotalFee <= LargestTxFee
  BY LargestTxFeeBound DEF TxMaxTotalFees
<1>9. Deficit' <= Deficit + LargestTxFee + Total(ServedAfterTimeout)
  BY <1>2, <1>4, <1>5, <1>6, <1>7, <1>8, ReserveParts, BackingTypes, ServedType
<1> QED
  BY <1>5, <1>9 DEF BackingStep

LEMMA MovedFundsSweepProofBacking ==
    ASSUME TypeInv, TypeInv', NEW source \in Wallet, NEW w \in Wallet,
           NEW outputValue \in Nat, SubmitMovedFundsSweepProof(source, w, outputValue),
           UNCHANGED <<deposits, balanceOf>>
    PROVE  BackingStep
<1> DEFINE value == movedFundsSweepRequests[<<source, w>>].value
<1>1. <<source, w>> \in SweepRequestKey /\ value \in Nat
  BY SweepRequestFields DEF SweepRequestKey, SweepRequestState, TypeInv, TypeOK
<1>2. /\ movedFundsSweepRequests[<<source, w>>].state = "Pending"
      /\ movedFundsSweepRequests' =
             [movedFundsSweepRequests EXCEPT ![<<source, w>>].state = "Processed"]
      /\ SpendMainUtxo(w)
      /\ mainUtxo' = [mainUtxo EXCEPT ![w] = outputValue]
  BY DEF SubmitMovedFundsSweepProof
<1>3. Moved(movedFundsSweepRequests') = Moved(movedFundsSweepRequests) - value
  BY <1>1, <1>2, BackingTypes, MovedEnded
<1>4. Funds(mainUtxo') = Funds(mainUtxo) - WalletBtcBalance(w) + outputValue
  <2>1. Funds(mainUtxo') = Funds(mainUtxo) - UtxoValue(mainUtxo[w]) + UtxoValue(outputValue)
    BY <1>2, BackingTypes, FundsReplaced
  <2> QED
    BY <2>1 DEF UtxoValue, NoUtxo, WalletBtcBalance
<1>5. WalletBtcBalance(w) \in Nat
  BY WalletBtcBalanceType DEF TypeInv, TypeOK
<1>6. /\ MovedFundsSweepTxMaxTotalFee \in Nat /\ LargestTxFee \in Nat
      /\ MovedFundsSweepTxMaxTotalFee <= LargestTxFee
  BY LargestTxFeeBound DEF TxMaxTotalFees
<1>7. spentMainUTXOs' # spentMainUTXOs \/ mainUtxo' # mainUtxo
  <2>1. CASE HasMainUtxo(w)
    BY <1>2, <2>1, MainUtxoSpent
  <2>2. CASE ~HasMainUtxo(w)
    BY <1>2, <2>2 DEF HasMainUtxo, NoUtxo, TypeInv, TypeOK, WalletsTypeOK
  <2> QED
    BY <2>1, <2>2
<1>8. value + WalletBtcBalance(w) - outputValue <= MovedFundsSweepTxMaxTotalFee
  BY <1>1, <1>5 DEF SubmitMovedFundsSweepProof, TxFeeWithin
<1> HIDE DEF value
<1>9. Deficit' <= Deficit + LargestTxFee + Total(ServedAfterTimeout)
  BY <1>1, <1>3, <1>4, <1>5, <1>6, <1>8, ReserveParts, BackingTypes, ServedType
<1> QED
  BY <1>7, <1>9 DEF BackingStep

\* What a redemption proof burns and what its transaction pays: to a redeemer,
\* no more than the request of the output is worth, which is burnt if the
\* request was pending.
PendingScripts(w, scripts) == {s \in scripts : Exists(pendingRedemptions[<<w, s>>])}
Burnable(w, scripts) ==
    [s \in PendingScripts(w, scripts) |-> RedeemableAmount(pendingRedemptions[<<w, s>>])]
PendingFees(w, scripts) ==
    [s \in PendingScripts(w, scripts) |-> pendingRedemptions[<<w, s>>].treasuryFee]

LEMMA BurnableType ==
    ASSUME TypeInv, NEW w \in Wallet, NEW scripts \in SUBSET Script
    PROVE  /\ Burnable(w, scripts) \in [PendingScripts(w, scripts) -> Nat]
           /\ Total(Burnable(w, scripts)) \in Nat
           /\ Total(PendingFees(w, scripts)) \in Nat
<1>1. IsFiniteSet(PendingScripts(w, scripts))
  BY ScriptAssumption, FS_Subset DEF PendingScripts
<1>2. /\ Burnable(w, scripts) \in [PendingScripts(w, scripts) -> Nat]
      /\ PendingFees(w, scripts) \in [PendingScripts(w, scripts) -> Nat]
  BY RequestFields DEF Burnable, PendingFees, PendingScripts
<1> QED
  BY <1>1, <1>2, TotalType

LEMMA RedemptionSupply ==
    ASSUME TypeInv, NEW w \in Wallet, NEW scripts \in SUBSET Script,
           NEW outputs \in [scripts -> Nat], NEW changeValue,
           SubmitRedemptionProof(w, outputs, changeValue)
    PROVE  Total(balanceOf') = Total(balanceOf) - Total(Burnable(w, scripts))
<1> DEFINE burnt == Total(Burnable(w, scripts))
           fees == Total(PendingFees(w, scripts))
           burned == Decreased(balanceOf, BridgeAccount, burnt)
<1>1. burnt \in Nat /\ fees \in Nat
  BY BurnableType
<1>2. /\ CanDecrease(balanceOf, BridgeAccount, burnt + fees)
      /\ balanceOf' = Transferred(burned, BridgeAccount, Treasury, fees)
  <2>1. DOMAIN outputs = scripts
    OBVIOUS
  <2> QED
    BY <2>1 DEF SubmitRedemptionProof, Burnable, PendingFees, PendingScripts
<1> HIDE DEF burnt, fees
<1>3. balanceOf \in [Account -> Nat] /\ balanceOf[BridgeAccount] \in Nat
  BY Accounts, BackingTypes
<1>4. CanDecrease(balanceOf, BridgeAccount, burnt)
  BY <1>1, <1>2, <1>3 DEF CanDecrease
<1>5. burned \in [Account -> Nat] /\ Total(burned) = Total(balanceOf) - burnt
  BY <1>1, <1>3, <1>4, Accounts, AccountFinite, DecreasedTotal
<1>6. CanDecrease(burned, BridgeAccount, fees)
  <2>1. burned[BridgeAccount] = balanceOf[BridgeAccount] - burnt
    BY <1>1, <1>3, <1>4, Accounts, DecreasedType
  <2> QED
    BY <1>1, <1>2, <1>3, <2>1 DEF CanDecrease
<1> HIDE DEF burned
<1>7. Total(Transferred(burned, BridgeAccount, Treasury, fees)) = Total(burned)
  BY <1>1, <1>5, <1>6, Accounts, AccountFinite, TransferredTotal
<1> QED
  BY <1>2, <1>5, <1>7 DEF burnt

LEMMA RedemptionPayments ==
    ASSUME TypeInv, NEW w \in Wallet, NEW scripts \in SUBSET Script,
           NEW outputs \in [scripts -> Nat], NEW changeValue,
           SubmitRedemptionProof(w, outputs, changeValue)
    PROVE  /\ Total(outputs) \in Nat
           /\ Total(outputs) <= Total(Burnable(w, scripts)) + Total(ServedAfterTimeout)
<1> DEFINE pending == PendingScripts(w, scripts)
           late == scripts \ pending
           worth == [s \in scripts |-> RedeemableAmount(RequestOfOutput(<<w, s>>))]
           worthLate == [s \in late |-> worth[s]]
           served == ServedAfterTimeout
<1>0. DOMAIN outputs = scripts
  OBVIOUS
<1>1. IsFiniteSet(scripts) /\ IsFiniteSet(pending) /\ IsFiniteSet(late)
  BY ScriptAssumption, FS_Subset DEF PendingScripts
<1>2. \A s \in scripts : /\ RedeemableAmount(RequestOfOutput(<<w, s>>)) \in Nat
                         /\ Exists(RequestOfOutput(<<w, s>>))
                         /\ outputs[s] <= RedeemableAmount(RequestOfOutput(<<w, s>>))
  BY <1>0, RequestFields DEF SubmitRedemptionProof, AcceptableOutput, RequestOfOutput
<1>3. worth \in [scripts -> Nat] /\ \A s \in scripts : outputs[s] <= worth[s]
  BY <1>2
<1>4. [s \in pending |-> worth[s]] = Burnable(w, scripts)
  BY DEF PendingScripts, Burnable, RequestOfOutput
<1>5. worthLate \in [late -> Nat]
  BY <1>3
<1>6. ASSUME NEW s \in late
      PROVE  /\ <<w, s>> \in RedemptionKey
             /\ ServedAfterTimeout[<<w, s>>] = worthLate[s]
  <2>1. <<w, s>> \in RedemptionKey /\ ~Exists(pendingRedemptions[<<w, s>>])
    BY DEF RedemptionKey, PendingScripts
  <2>2. RequestOfOutput(<<w, s>>) = timedOutRedemptions[<<w, s>>]
    BY <2>1 DEF RequestOfOutput
  <2>3. Exists(timedOutRedemptions[<<w, s>>])
    BY <1>2, <2>2
  <2>4. timedOutRedemptions'[<<w, s>>] = NoRequest
    BY <1>0, <2>1 DEF SubmitRedemptionProof, PendingScripts
  <2>5. ~Exists(timedOutRedemptions[<<w, s>>])'
    BY <2>4 DEF Exists, NoRequest
  <2> QED
    BY <2>1, <2>2, <2>3, <2>5 DEF ServedAfterTimeout
<1>7. ASSUME NEW k \in RedemptionKey, ServedAfterTimeout[k] # 0
      PROVE  \E s \in late : k = <<w, s>>
  <2>1. Exists(timedOutRedemptions[k]) /\ ~Exists(timedOutRedemptions[k])'
    BY <1>7 DEF ServedAfterTimeout
  <2>2. timedOutRedemptions'[k] # timedOutRedemptions[k]
    BY <2>1 DEF Exists
  <2>3. k[1] = w /\ k[2] \in late
    BY <1>0, <2>2 DEF SubmitRedemptionProof, PendingScripts
  <2> QED
    BY <2>3 DEF RedemptionKey
<1>8. ServedAfterTimeout \in [RedemptionKey -> Nat]
  BY ServedType
<1>10. Total(worth) = Total([s \in pending |-> worth[s]]) + Total(worthLate)
  <2>1. pending \in SUBSET scripts
    BY DEF PendingScripts
  <2> HIDE DEF pending, worth
  <2> QED
    BY <1>1, <1>3, <2>1, TotalSplit, Zenon
<1> HIDE DEF pending, late, worth, worthLate, served
<1>9. Total(ServedAfterTimeout) = Total(worthLate)
  <2>1. \A s \in late : <<w, s>> \in RedemptionKey /\ served[<<w, s>>] = worthLate[s]
    BY <1>6 DEF served
  <2>2. \A k \in RedemptionKey : served[k] # 0 => \E s \in late : k = <<w, s>>
    BY <1>7 DEF served
  <2>3. served \in [RedemptionKey -> Nat]
    BY <1>8 DEF served
  <2>4. SpreadOverPairs(served, RedemptionKey, w, worthLate, late)
    BY <2>1, <2>2 DEF SpreadOverPairs
  <2>5. Total(served) = Total(worthLate)
    BY <1>1, <1>5, <2>3, <2>4, TotalOfPairs
  <2> QED
    BY <2>5 DEF served
<1>11. Total(outputs) <= Total(worth) /\ Total(outputs) \in Nat
  BY <1>1, <1>3, TotalMonotone, TotalType
<1> QED
  BY <1>4, <1>9, <1>10, <1>11

LEMMA RedemptionProofBacking ==
    ASSUME TypeInv, TypeInv', NEW w \in Wallet, NEW scripts \in SUBSET Script,
           NEW outputs \in [scripts -> Nat], NEW changeValue \in Nat,
           SubmitRedemptionProof(w, outputs, changeValue),
           UNCHANGED <<movedFundsSweepRequests, deposits>>
    PROVE  BackingStep
<1> DEFINE change == IF changeValue > 0 THEN changeValue ELSE NoUtxo
<1>1. /\ HasMainUtxo(w) /\ SpendMainUtxo(w)
      /\ mainUtxo' = [mainUtxo EXCEPT ![w] = change]
      /\ TxFeeWithin(mainUtxo[w], Total(outputs) + changeValue, RedemptionTxMaxTotalFee)
  BY DEF SubmitRedemptionProof
<1>2. spentMainUTXOs' # spentMainUTXOs /\ mainUtxo[w] \in Nat
      /\ UtxoValue(mainUtxo[w]) = mainUtxo[w]
  BY <1>1, MainUtxoSpent
<1>3. change \in Nat \union {NoUtxo} /\ UtxoValue(change) = changeValue
  BY DEF UtxoValue, NoUtxo
<1> HIDE DEF change
<1>4. Funds(mainUtxo') = Funds(mainUtxo) - mainUtxo[w] + changeValue
  BY <1>1, <1>2, <1>3, BackingTypes, FundsReplaced
<1>5. mainUtxo[w] - (Total(outputs) + changeValue) <= RedemptionTxMaxTotalFee
  BY <1>1 DEF TxFeeWithin
<1>6. /\ RedemptionTxMaxTotalFee \in Nat /\ LargestTxFee \in Nat
      /\ RedemptionTxMaxTotalFee <= LargestTxFee
  BY LargestTxFeeBound DEF TxMaxTotalFees
<1>7. /\ Total(balanceOf') = Total(balanceOf) - Total(Burnable(w, scripts))
      /\ Total(outputs) \in Nat
      /\ Total(outputs) <= Total(Burnable(w, scripts)) + Total(ServedAfterTimeout)
      /\ Total(Burnable(w, scripts)) \in Nat
  BY RedemptionSupply, RedemptionPayments, BurnableType
<1>8. Deficit' <= Deficit + LargestTxFee + Total(ServedAfterTimeout)
  BY <1>2, <1>4, <1>5, <1>6, <1>7, ReserveParts, BackingTypes, ServedType
<1> QED
  BY <1>2, <1>8 DEF BackingStep

-----------------------------------------------------------------------------
\* A sweep credits what its output adds to the main UTXO: the deposits, less
\* the fee of the transaction, which is charged to the last satoshi.
LEMMA EvenShares ==
    ASSUME NEW n \in Nat, NEW c \in Nat, c > 0
    PROVE  /\ n % c \in Nat /\ n \div c \in Nat
           /\ (n - (n % c)) \div c = n \div c
           /\ c * (n \div c) + (n % c) = n
<1>1. n % c \in 0..(c - 1) /\ n % c \in Nat
  OBVIOUS
<1>2. n \div c \in Nat
  OBVIOUS
<1>3. c * (n \div c) + (n % c) = n
  OBVIOUS
<1>4. n - (n % c) = c * (n \div c)
  BY <1>1, <1>2, <1>3
<1>5. \A q \in Nat : (c * q) \div c = q
  OBVIOUS
<1>6. (n - (n % c)) \div c = n \div c
  BY <1>2, <1>4, <1>5
<1> QED
  BY <1>1, <1>2, <1>3, <1>6

LEMMA SweepFeeCharged ==
    ASSUME NEW swept, IsFiniteSet(swept), NEW last \in swept, NEW txFee \in Nat,
           NEW shares,
           shares = [d \in swept |->
                        DepositTxFeeIncurred(d, last, txFee, Cardinality(swept))]
    PROVE  shares \in [swept -> Nat] /\ Total(shares) = txFee
<1> DEFINE count == Cardinality(swept)
           even == [d \in swept |-> txFee \div count]
           rest == [d \in swept |-> IF d = last THEN txFee % count ELSE 0]
<1>1. count \in Nat /\ count > 0
  BY FS_CardinalityType, FS_EmptySet
<1>2. /\ txFee % count \in Nat /\ txFee \div count \in Nat
      /\ DepositTxFee(txFee, count) = txFee \div count
      /\ count * (txFee \div count) + (txFee % count) = txFee
  <2> HIDE DEF count
  <2> QED
    BY <1>1, EvenShares DEF DepositTxFee
<1>3. even \in [swept -> Nat] /\ rest \in [swept -> Nat]
  BY <1>2
<1>4. \A d \in swept : shares[d] = even[d] + rest[d]
  BY <1>2 DEF DepositTxFeeIncurred
<1>5. shares \in [swept -> Nat]
  <2>1. \A d \in swept : shares[d] \in Nat
    BY <1>3, <1>4
  <2> QED
    BY <2>1
<1>6. /\ \A d \in swept : even[d] = txFee \div count
      /\ rest[last] = txFee % count /\ \A d \in swept \ {last} : rest[d] = 0
  OBVIOUS
<1> HIDE DEF even, rest
<1>7. Total(shares) = Total(even) + Total(rest)
  BY <1>3, <1>4, <1>5, TotalSum
<1>8. Total(even) = (txFee \div count) * count
  BY <1>2, <1>3, <1>6, TotalOfConstant
<1>9. Total(rest) = txFee % count
  BY <1>3, <1>6, TotalOfOne
<1>10. (txFee \div count) * count + (txFee % count) = txFee
  BY <1>1, <1>2
<1> QED
  BY <1>5, <1>7, <1>8, <1>9, <1>10

\* Every satoshi that a sweep credits reaches an account, the vault's or those
\* of the depositors, and the treasury's.
LEMMA SweepCreditsTotal ==
    ASSUME TypeInv, NEW swept \in SUBSET DepositKey, NEW credit \in [swept -> Nat],
           NEW vault \in Vault \union {NoVault},
           \A d \in swept : deposits[d].depositor \in User
    PROVE  /\ SweepCredits(swept, vault, credit) \in [Account -> Nat]
           /\ Total(SweepCredits(swept, vault, credit)) =
                  Total(credit) + Total([d \in swept |-> deposits[d].treasuryFee])
<1> DEFINE of(a) == {d \in swept : deposits[d].depositor = a}
           fees == Total([d \in swept |-> deposits[d].treasuryFee])
           routed == vault # NoVault /\ vault \in isVaultTrusted
           class == [d \in swept |-> deposits[d].depositor]
           paid == [a \in Account |->
                       IF routed THEN (IF a = vault THEN Total(credit) ELSE 0)
                       ELSE Total([d \in of(a) |-> credit[d]])]
           due == [a \in Account |-> IF a = Treasury THEN fees ELSE 0]
           credits == SweepCredits(swept, vault, credit)
<1>1. IsFiniteSet(swept) /\ \A a : IsFiniteSet(of(a))
  BY DepositAssumption, FS_Subset
<1>2. Total(credit) \in Nat
  BY <1>1, TotalType
<1>3. fees \in Nat
  <2>1. [d \in swept |-> deposits[d].treasuryFee] \in [swept -> Nat]
    BY DEF TypeInv, TypeOK, DepositTypeOK, DepositRequest
  <2> QED
    BY <1>1, <2>1, TotalType
<1>4. \A a \in Account : credits[a] = paid[a] + due[a]
  BY DEF SweepCredits
<1>5. due \in [Account -> Nat] /\ due[Treasury] = fees
      /\ \A a \in Account \ {Treasury} : due[a] = 0
  BY <1>3, Accounts
<1>6. paid \in [Account -> Nat] /\ Total(paid) = Total(credit)
  <2>1. CASE routed
    <3>1. vault \in Account
      BY <2>1, Accounts
    <3>2. /\ paid \in [Account -> Nat] /\ paid[vault] = Total(credit)
          /\ \A a \in Account \ {vault} : paid[a] = 0
      BY <1>2, <2>1, <3>1
    <3> HIDE DEF paid, routed
    <3> QED
      BY <3>1, <3>2, AccountFinite, TotalOfOne
  <2>2. CASE ~routed
    <3>1. ASSUME NEW a \in Account PROVE Total([d \in of(a) |-> credit[d]]) \in Nat
      <4>1. [d \in of(a) |-> credit[d]] \in [of(a) -> Nat]
        OBVIOUS
      <4> HIDE DEF of
      <4> QED
        BY <1>1, <4>1, TotalType
    <3>2. paid \in [Account -> Nat]
      BY <2>2, <3>1
    <3>3. class \in [swept -> Account]
      BY Accounts
    <3>4. \A a \in Account :
              paid[a] = Total([d \in {e \in swept : class[e] = a} |-> credit[d]])
      <4> SUFFICES ASSUME NEW a \in Account
                   PROVE  paid[a] = Total([d \in {e \in swept : class[e] = a} |-> credit[d]])
        OBVIOUS
      <4>1. of(a) = {e \in swept : class[e] = a}
        OBVIOUS
      <4>2. paid[a] = Total([d \in of(a) |-> credit[d]])
        BY <2>2
      <4> HIDE DEF of, class, paid
      <4> QED
        BY <4>1, <4>2
    <3> HIDE DEF paid, class
    <3>5. Total(paid) = Total(credit)
      BY <1>1, <3>2, <3>3, <3>4, AccountFinite, TotalPartition
    <3> QED
      BY <3>2, <3>5
  <2> QED
    BY <2>1, <2>2
<1>7. credits \in [Account -> Nat]
  BY SweepCreditsType DEF TypeInv, TypeOK
<1> HIDE DEF paid, due, credits, fees
<1>8. Total(due) = fees
  BY <1>5, Accounts, AccountFinite, TotalOfOne
<1>9. Total(credits) = Total(paid) + Total(due)
  BY <1>4, <1>5, <1>6, <1>7, AccountFinite, TotalSum
<1> QED
  BY <1>6, <1>7, <1>8, <1>9 DEF credits, fees

\* What the deposits of a sweep are worth is credited, but for the fee of the
\* transaction.
LEMMA SweepCredited ==
    ASSUME TypeInv, NEW w \in Wallet, NEW swept \in SUBSET DepositKey,
           NEW vault, NEW last \in swept, NEW outputValue \in Nat,
           SubmitDepositSweepProof(w, swept, last, outputValue, vault)
    PROVE  Total(DepositedAmounts(w, swept, last, outputValue))
               + Total([d \in swept |-> deposits[d].treasuryFee])
                   = outputValue - WalletBtcBalance(w)
<1> DEFINE txFee == SweepInputs(w, swept) - outputValue
           credit == DepositedAmounts(w, swept, last, outputValue)
           fees == [d \in swept |-> deposits[d].treasuryFee]
           amounts == [d \in swept |-> deposits[d].amount]
           shares == [d \in swept |->
                         DepositTxFeeIncurred(d, last, txFee, Cardinality(swept))]
           net == [d \in swept |-> credit[d] + fees[d]]
<1>1. IsFiniteSet(swept)
  BY DepositAssumption, FS_Subset
<1>2. fees \in [swept -> Nat] /\ amounts \in [swept -> Nat]
  BY DEF TypeInv, TypeOK, DepositTypeOK, DepositRequest
<1>3. credit \in [swept -> Nat]
  BY DepositedAmountsType
<1>4. txFee \in Nat /\ WalletBtcBalance(w) \in Nat
  BY SweepInputsType, WalletBtcBalanceType DEF SubmitDepositSweepProof, TypeInv, TypeOK
<1>5. /\ txFee = SweepInputs(w, swept) - outputValue
      /\ SweepInputs(w, swept) = Total(amounts) + WalletBtcBalance(w)
  BY Zenon DEF SweepInputs
<1>6. \A d \in swept : credit[d] = amounts[d] - fees[d] - shares[d]
  BY DEF DepositedAmounts, DepositCredit
<1> HIDE DEF txFee, credit, fees, amounts
<1>7. shares \in [swept -> Nat] /\ Total(shares) = txFee
  BY <1>1, <1>4, SweepFeeCharged
<1> HIDE DEF shares
<1>8. net \in [swept -> Nat] /\ \A d \in swept : net[d] = credit[d] + fees[d]
  BY <1>2, <1>3
<1>9. \A d \in swept : amounts[d] = net[d] + shares[d]
  BY <1>2, <1>3, <1>6, <1>7
<1> HIDE DEF net
<1>10. Total(net) = Total(credit) + Total(fees)
  BY <1>1, <1>2, <1>3, <1>8, TotalSum
<1>11. Total(amounts) = Total(net) + Total(shares)
  BY <1>1, <1>2, <1>7, <1>8, <1>9, TotalSum
<1>12. /\ Total(credit) \in Nat /\ Total(fees) \in Nat /\ Total(amounts) \in Nat
       /\ Total(net) \in Nat
  BY <1>1, <1>2, <1>3, <1>8, TotalType
<1>13. Total(credit) + Total(fees) = outputValue - WalletBtcBalance(w)
  BY <1>4, <1>5, <1>7, <1>10, <1>11, <1>12
<1> QED
  BY <1>13 DEF credit, fees

\* The supply grows by what the main UTXO gains.
LEMMA DepositSweepBacking ==
    ASSUME TypeInv, TypeInv', DepositsKnown,
           NEW w \in Wallet, NEW swept \in SUBSET DepositKey,
           NEW vault \in Vault \union {NoVault}, NEW last \in swept,
           NEW outputValue \in Nat,
           SubmitDepositSweepProof(w, swept, last, outputValue, vault),
           UNCHANGED movedFundsSweepRequests
    PROVE  BackingStep
<1> DEFINE credit == DepositedAmounts(w, swept, last, outputValue)
           credits == SweepCredits(swept, vault, credit)
           treasuryFees == Total([d \in swept |-> deposits[d].treasuryFee])
<1>1. credit \in [swept -> Nat]
  BY DepositedAmountsType
<1>2. \A d \in swept : deposits[d].depositor \in User
  BY DEF DepositsKnown, SubmitDepositSweepProof
<1>3. Total(credit) + treasuryFees = outputValue - WalletBtcBalance(w)
  BY SweepCredited
<1>4. /\ balanceOf' = AllIncreased(balanceOf, credits)
      /\ mainUtxo' = [mainUtxo EXCEPT ![w] = outputValue]
  BY DEF SubmitDepositSweepProof
<1> HIDE DEF credit, treasuryFees
<1>5. credits \in [Account -> Nat] /\ Total(credits) = Total(credit) + treasuryFees
  BY <1>1, <1>2, SweepCreditsTotal DEF treasuryFees
<1> HIDE DEF credits
<1>6. \A a \in Account : balanceOf'[a] = balanceOf[a] + credits[a]
  BY <1>4, BackingTypes DEF AllIncreased
<1>7. Total(balanceOf') = Total(balanceOf) + Total(credits)
  BY <1>5, <1>6, BackingTypes, BackingTypesNext, AccountFinite, TotalSum
<1>8. Funds(mainUtxo') = Funds(mainUtxo) - WalletBtcBalance(w) + outputValue
  <2>1. Funds(mainUtxo') = Funds(mainUtxo) - UtxoValue(mainUtxo[w]) + UtxoValue(outputValue)
    BY <1>4, BackingTypes, FundsReplaced
  <2> QED
    BY <2>1 DEF UtxoValue, NoUtxo, WalletBtcBalance
<1>9. WalletBtcBalance(w) \in Nat
  BY WalletBtcBalanceType DEF TypeInv, TypeOK
<1>10. Deficit' = Deficit
  BY <1>3, <1>5, <1>7, <1>8, <1>9, ReserveParts, BackingTypes, BackingTypesNext
<1> QED
  BY <1>10, ReserveParts, BackingTypes DEF BackingStep

-----------------------------------------------------------------------------
\* The other steps issue nothing and leave the reserve alone.
LEMMA WalletsBacking ==
    ASSUME TypeInv, TypeInv', WalletsNext, UNCHANGED <<movedFundsSweepRequests, balanceOf>>
    PROVE  BackingStep
<1>1. UNCHANGED mainUtxo
  BY WalletsMainUtxo DEF balanceFields
<1> QED
  BY <1>1, ReserveKept, BackingTypes

LEMMA MovingFundsBacking ==
    ASSUME TypeInv, TypeInv', SweepSourcesRetired, MovingFundsNext,
           UNCHANGED <<deposits, balanceOf>>
    PROVE  BackingStep
<1>0. ASSUME UNCHANGED <<mainUtxo, movedFundsSweepRequests>> PROVE BackingStep
  BY <1>0, ReserveKept, BackingTypes
<1>1. ASSUME NEW w \in Wallet, NEW targets \in SUBSET Wallet,
             SubmitMovingFundsCommitment(w, targets)
      PROVE  BackingStep
  BY <1>0, <1>1 DEF SubmitMovingFundsCommitment
<1>2. ASSUME NEW w \in Wallet, ResetMovingFundsTimeout(w) PROVE BackingStep
  BY <1>0, <1>2 DEF ResetMovingFundsTimeout, balanceFields
<1>3. ASSUME NEW w \in Wallet, NotifyMovingFundsTimeout(w) PROVE BackingStep
  BY <1>0, <1>3 DEF NotifyMovingFundsTimeout, balanceFields
<1>4. ASSUME NEW w \in Wallet, NotifyMovingFundsBelowDust(w) PROVE BackingStep
  BY <1>0, <1>4 DEF NotifyMovingFundsBelowDust, balanceFields
<1>5. ASSUME NEW w \in Wallet, NEW outputs \in [commitment[w] -> 0..WalletBtcBalance(w)],
             SubmitMovingFundsProof(w, outputs)
      PROVE  BackingStep
  <2>1. outputs \in [commitment[w] -> Nat]
    BY WalletBtcBalanceType DEF TypeInv, TypeOK
  <2> QED
    BY <1>5, <2>1, MovingFundsProofBacking
<1>6. ASSUME NEW w \in Wallet, NEW source \in Wallet,
             NEW outputValue \in
                 0..(movedFundsSweepRequests[<<source, w>>].value + WalletBtcBalance(w)),
             SubmitMovedFundsSweepProof(source, w, outputValue)
      PROVE  BackingStep
  <2>1. outputValue \in Nat
    OBVIOUS
  <2> QED
    BY <1>6, <2>1, MovedFundsSweepProofBacking
<1>7. ASSUME NEW w \in Wallet, NEW source \in Wallet, NotifyMovedFundsSweepTimeout(source, w)
      PROVE  BackingStep
  <2>1. <<source, w>> \in SweepRequestKey
    BY DEF SweepRequestKey
  <2>2. /\ movedFundsSweepRequests[<<source, w>>].state = "Pending"
        /\ movedFundsSweepRequests' =
               [movedFundsSweepRequests EXCEPT ![<<source, w>>].state = "TimedOut"]
        /\ UNCHANGED mainUtxo
    BY <1>7 DEF NotifyMovedFundsSweepTimeout
  <2>3. Moved(movedFundsSweepRequests') = Moved(movedFundsSweepRequests) - 0
    BY <2>1, <2>2, BackingTypes, MovedEnded
  <2> QED
    BY <2>2, <2>3, ReserveKept, BackingTypes
<1> QED
  BY <1>1, <1>2, <1>3, <1>4, <1>5, <1>6, <1>7 DEF MovingFundsNext

LEMMA RedemptionBacking ==
    ASSUME TypeInv, TypeInv', RedemptionNext, UNCHANGED <<movedFundsSweepRequests, deposits>>
    PROVE  BackingStep
<1>0. balanceOf \in [Account -> Nat] /\ Total(balanceOf) \in Nat
  BY BackingTypes
<1>1. ASSUME UNCHANGED mainUtxo, Total(balanceOf') <= Total(balanceOf) PROVE BackingStep
  BY <1>1, ReserveKept, BackingTypes
<1>2. ASSUME NEW w \in Wallet, NEW s \in Script, NEW owner \in User \union Vault,
             NEW redeemer \in User, NEW amount \in 1..balanceOf[owner], NEW treasuryFee,
             RequestRedemption(w, s, owner, redeemer, amount, treasuryFee)
      PROVE  BackingStep
  <2>1. owner \in Account /\ amount \in Nat
    BY <1>0, Accounts
  <2>2. /\ CanDecrease(balanceOf, owner, amount)
        /\ balanceOf' = Transferred(balanceOf, owner, BridgeAccount, amount)
        /\ UNCHANGED mainUtxo
    BY <1>2 DEF RequestRedemption
  <2>3. Total(balanceOf') <= Total(balanceOf)
    BY <1>0, <2>1, <2>2, TransferSupply
  <2> QED
    BY <1>1, <2>2, <2>3
<1>3. ASSUME NEW w \in Wallet, NEW s \in Script, NotifyRedemptionTimeout(w, s)
      PROVE  BackingStep
  <2> DEFINE request == pendingRedemptions[<<w, s>>]
  <2>1. request.requestedAmount \in Nat
    BY DEF RedemptionKey, TypeInv, TypeOK, RedemptionTypeOK, Request
  <2>2. /\ CanDecrease(balanceOf, BridgeAccount, request.requestedAmount)
        /\ balanceOf' = Transferred(balanceOf, BridgeAccount, request.redeemer,
                                    request.requestedAmount)
        /\ UNCHANGED mainUtxo
    BY <1>3 DEF NotifyRedemptionTimeout
  <2> HIDE DEF request
  <2>3. Total(balanceOf') <= Total(balanceOf)
    BY <1>0, <2>1, <2>2, Accounts, TransferSupply
  <2> QED
    BY <1>1, <2>2, <2>3
<1>4. ASSUME NEW w \in Wallet, NEW s \in Script,
             NEW penaltyFee \in 0..pendingRedemptions[<<w, s>>].requestedAmount,
             NotifyRedemptionVeto(w, s, penaltyFee)
      PROVE  BackingStep
  <2> DEFINE amount == pendingRedemptions[<<w, s>>].requestedAmount
             detained == Transferred(balanceOf, BridgeAccount, Watchtower, amount)
  <2>1. amount \in Nat /\ penaltyFee \in Nat
    BY DEF RedemptionKey, TypeInv, TypeOK, RedemptionTypeOK, Request
  <2>2. /\ CanDecrease(balanceOf, BridgeAccount, amount)
        /\ CanDecrease(detained, Watchtower, penaltyFee)
        /\ balanceOf' = Decreased(detained, Watchtower, penaltyFee)
        /\ UNCHANGED mainUtxo
    BY <1>4 DEF NotifyRedemptionVeto
  <2> HIDE DEF amount
  <2>3. detained \in [Account -> Nat] /\ Total(detained) = Total(balanceOf)
    BY <1>0, <2>1, <2>2, Accounts, AccountFinite, TransferredTotal
  <2> HIDE DEF detained
  <2>4. Total(balanceOf') = Total(detained) - penaltyFee
    BY <2>1, <2>2, <2>3, Accounts, AccountFinite, DecreasedTotal
  <2>5. Total(balanceOf') <= Total(balanceOf)
    BY <1>0, <2>1, <2>3, <2>4
  <2> QED
    BY <1>1, <2>2, <2>5
<1>5. ASSUME NEW w \in Wallet, NEW scripts \in SUBSET Script,
             NEW outputs \in [scripts -> 0..WalletBtcBalance(w)],
             NEW changeValue \in 0..WalletBtcBalance(w),
             SubmitRedemptionProof(w, outputs, changeValue)
      PROVE  BackingStep
  <2>1. outputs \in [scripts -> Nat] /\ changeValue \in Nat
    BY WalletBtcBalanceType DEF TypeInv, TypeOK
  <2> QED
    BY <1>5, <2>1, RedemptionProofBacking
<1> QED
  BY <1>2, <1>3, <1>4, <1>5 DEF RedemptionNext, RequestNext, VetoNext, SettleNext

\* What an account owner does, or a library that leaves funds and balances alone.
LEMMA OwnerBacking ==
    ASSUME TypeInv, TypeInv', NEW account \in Account, OwnerNext(account)
    PROVE  BackingStep
<1>1. UNCHANGED <<mainUtxo, movedFundsSweepRequests>>
  BY DEF OwnerNext, walletStorage, balanceFields
<1>2. PICK amount \in TransferAmount :
          \/ \E recipient \in Account : TransferBalance(account, recipient, amount)
          \/ DecreaseBalance(account, amount)
  BY DEF OwnerNext
<1>3. amount \in Nat
  BY AccountAssumption
<1>4. Total(balanceOf') <= Total(balanceOf)
  <2>1. ASSUME NEW recipient \in Account, TransferBalance(account, recipient, amount)
        PROVE  Total(balanceOf') <= Total(balanceOf)
    BY <1>3, <2>1, BackingTypes, TransferSupply DEF TransferBalance
  <2>2. ASSUME DecreaseBalance(account, amount)
        PROVE  Total(balanceOf') <= Total(balanceOf)
    <3>1. Total(balanceOf') = Total(balanceOf) - amount
      BY <1>3, <2>2, BackingTypes, AccountFinite, DecreasedTotal DEF DecreaseBalance
    <3> QED
      BY <1>3, <3>1, BackingTypes
  <2> QED
    BY <1>2, <2>1, <2>2
<1> QED
  BY <1>1, <1>4, ReserveKept

LEMMA NextBacking ==
    ASSUME TypeInv, TypeInv', DepositsKnown, SweepSourcesRetired, [Next]_vars
    PROVE  BackingStep
<1>0. ASSUME UNCHANGED <<mainUtxo, movedFundsSweepRequests, balanceOf>> PROVE BackingStep
  BY <1>0, ReserveKept, BackingTypes
<1>1. ASSUME WalletsNext, UNCHANGED <<movedFundsSweepRequests, balanceOf>>
      PROVE  BackingStep
  BY <1>1, WalletsBacking
<1>2. ASSUME MovingFundsNext, UNCHANGED <<depositVars, balanceOf>> PROVE BackingStep
  BY <1>2, MovingFundsBacking DEF depositVars
<1>3. ASSUME NEW d, NEW w, NEW depositor, NEW amount, NEW vault, NEW fee,
             RevealDeposit(d, w, depositor, amount, vault, fee),
             UNCHANGED movedFundsSweepRequests
      PROVE  BackingStep
  BY <1>0, <1>3 DEF RevealDeposit, balanceFields
<1>4. ASSUME VaultStatusNext, UNCHANGED movedFundsSweepRequests PROVE BackingStep
  BY <1>0, <1>4 DEF VaultStatusNext, SetVaultStatus, balanceFields
<1>5. ASSUME FraudNext PROVE BackingStep
  BY <1>0, <1>5 DEF FraudNext, balanceFields
<1>6. ASSUME SweepNext, UNCHANGED movedFundsSweepRequests PROVE BackingStep
  <2>1. PICK w \in Wallet, swept \in SUBSET DepositKey, vault \in Vault \union {NoVault} :
            \E last \in swept, outputValue \in 0..SweepInputs(w, swept) :
                SubmitDepositSweepProof(w, swept, last, outputValue, vault)
    BY <1>6 DEF SweepNext
  <2>2. PICK last \in swept : \E outputValue \in 0..SweepInputs(w, swept) :
                SubmitDepositSweepProof(w, swept, last, outputValue, vault)
    BY <2>1
  <2>3. PICK outputValue \in 0..SweepInputs(w, swept) :
                SubmitDepositSweepProof(w, swept, last, outputValue, vault)
    BY <2>2
  <2>4. outputValue \in Nat
    BY SweepInputsType
  <2> QED
    BY <1>6, <2>3, <2>4, DepositSweepBacking
<1>7. ASSUME RedemptionNext, UNCHANGED <<movedFundsSweepRequests, depositVars>>
      PROVE  BackingStep
  BY <1>7, RedemptionBacking DEF depositVars
<1>8. ASSUME UNCHANGED vars PROVE BackingStep
  BY <1>0, <1>8 DEF vars, walletStorage, balanceFields
<1> QED
  BY <1>1, <1>2, <1>3, <1>4, <1>5, <1>6, <1>7, <1>8, OwnerBacking
     DEF Next, QuietNext, RevealNext

LEMMA NextDeposits ==
    ASSUME TypeInv, DepositsKnown, [Next]_vars
    PROVE  DepositsKnown'
<1>1. CASE UNCHANGED deposits
  BY <1>1 DEF DepositsKnown
<1>2. CASE DepositNext
  BY <1>2, DepositNextStep, DepositsKnownNext
<1>3. DepositNext \/ UNCHANGED deposits
  BY DEF Next, QuietNext, DepositNext, OwnerNext, FraudNext, depositVars, vars
<1> QED
  BY <1>1, <1>2, <1>3

LEMMA DepositsKnownInit == Init => DepositsKnown
BY DEF Init, DepositInit, NoDeposit, DepositsKnown

\* Whatever the libraries do, no balance is issued that no BTC backs; what the
\* reserve can lose in one step is the fee of a Bitcoin transaction that replaces
\* a main UTXO and what it pays on requests that have already timed out.
THEOREM BackingTheorem == Spec => BackingLossBounded
<1> DEFINE Backed == DepositsKnown /\ SweepInv
           Bounded ==
              \/ Deficit' <= Deficit
              \/ /\ <<mainUtxo, spentMainUTXOs>>' # <<mainUtxo, spentMainUTXOs>>
                 /\ UNCHANGED deposits
                 /\ Deficit' <= Deficit + LargestTxFee + Total(ServedAfterTimeout)
<1>1. Init => Backed
  BY DepositsKnownInit, SweepInvInit
<1>2. TypeInv /\ Backed /\ [Next]_vars => Backed'
  BY NextDeposits, SweepInvNext
<1>3. TypeInv /\ TypeInv' /\ Backed /\ [Next]_vars => Bounded
  BY NextBacking DEF BackingStep, SweepInv
<1>4. TypeInv /\ TypeInv' /\ Backed /\ [Next]_vars => [Bounded]_vars
  BY <1>3
<1> QED
  BY <1>1, <1>2, <1>4, TypeInvariant, PTL DEF Spec, BackingLossBounded
=============================================================================
