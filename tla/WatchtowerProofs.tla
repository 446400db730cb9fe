-------------------------- MODULE WatchtowerProofs --------------------------
(***************************************************************************)
(* The redemption watchtower, for every set of guardians and every choice  *)
(* of the parameters: what it detains it can pay out, three guardians are  *)
(* behind every veto, objections concern the request that is pending, no   *)
(* objection delays a request that has been released; and everything that  *)
(* BridgeProofs says of the Bridge is true of the Bridge under the         *)
(* watchtower, which does nothing the Bridge alone does not allow.         *)
(***************************************************************************)
EXTENDS RedemptionWatchtower, BridgeProofs

\* A request is finalized by the last objection only: an objection to a request
\* under a fresh key never inherits an earlier veto.
FinalizedByLastObjection ==
    \A k \in RedemptionKey :
        vetoProposals[k].objectionsCount < REQUIRED_OBJECTIONS_COUNT
            => vetoProposals[k].finalizedAt = 0

\* Requests name the user to pay.
RedeemersKnown ==
    /\ \A k \in RedemptionKey : Exists(pendingRedemptions[k]) =>
          pendingRedemptions[k].redeemer \in User
    /\ \A k \in RedemptionKey : vetoProposals[k].finalizedAt # 0 =>
          vetoProposals[k].redeemer \in User

WatchtowerInv ==
    /\ WatchtowerTypeOK
    /\ FinalizedByLastObjection
    /\ RedeemersKnown
    /\ DetainedFundsHeld
    /\ ObjectionsCountExact
    /\ ObjectionsConcernPending

-----------------------------------------------------------------------------
(***************************************************************************)
(* Types.                                                                  *)
(***************************************************************************)
LEMMA PenaltyFeeBound ==
    ASSUME WatchtowerTypeOK, NEW amount \in Nat
    PROVE  PenaltyFee(amount) \in Nat /\ PenaltyFee(amount) <= amount
<1>1. watchtowerParameters.vetoPenaltyFeeDivisor \in Nat
  BY DEF WatchtowerTypeOK, WatchtowerParametersType
<1>2. CASE watchtowerParameters.vetoPenaltyFeeDivisor > 0
  <2>1. amount \div watchtowerParameters.vetoPenaltyFeeDivisor \in 0..amount
    BY <1>1, <1>2, DivBound
  <2> QED
    BY <1>2, <2>1 DEF PenaltyFee
<1>3. CASE ~(watchtowerParameters.vetoPenaltyFeeDivisor > 0)
  BY <1>3 DEF PenaltyFee
<1> QED
  BY <1>2, <1>3

LEMMA ProposalFields ==
    ASSUME WatchtowerTypeOK, NEW k \in RedemptionKey
    PROVE  /\ vetoProposals[k] \in VetoProposal
           /\ vetoProposals[k].withdrawableAmount \in Nat
           /\ vetoProposals[k].finalizedAt \in Nat
           /\ vetoProposals[k].objectionsCount \in 0..REQUIRED_OBJECTIONS_COUNT
BY DEF WatchtowerTypeOK, VetoProposal

\* What an objection records: proposal, under the key of the request, ...
Objects(k, proposal) ==
    /\ vetoProposals' = [vetoProposals EXCEPT ![k] = proposal]
    /\ proposal \in VetoProposal
    /\ proposal.redeemer = pendingRedemptions[k].redeemer
    /\ proposal.objectionsCount = vetoProposals[k].objectionsCount + 1

\* ... which leaves the request pending, unless it is the last one, ...
LeavesPending(k, proposal) ==
    /\ proposal.objectionsCount < REQUIRED_OBJECTIONS_COUNT
    /\ proposal.withdrawableAmount = vetoProposals[k].withdrawableAmount
    /\ proposal.finalizedAt = vetoProposals[k].finalizedAt
    /\ UNCHANGED <<vars, isBanned>>

\* ... which vetoes it.
Vetoes(w, s, proposal) ==
    LET request == pendingRedemptions[<<w, s>>]
        penaltyFee == PenaltyFee(request.requestedAmount)
    IN  /\ proposal.objectionsCount = REQUIRED_OBJECTIONS_COUNT
        /\ proposal.withdrawableAmount = request.requestedAmount - penaltyFee
        /\ proposal.finalizedAt = now
        /\ isBanned' = isBanned \union {request.redeemer}
        /\ NotifyRedemptionVeto(w, s, penaltyFee)
        /\ UNCHANGED <<movedFundsSweepRequests, depositVars, fraudVars>>

LEMMA ObjectionRecords ==
    ASSUME TypeInv, WatchtowerTypeOK, NEW w \in Wallet, NEW s \in Script, NEW guardian,
           RaiseObjection(w, s, guardian)
    PROVE  \E proposal : /\ Objects(<<w, s>>, proposal)
                         /\ LeavesPending(<<w, s>>, proposal) \/ Vetoes(w, s, proposal)
<1> DEFINE key == <<w, s>>
           old == vetoProposals[key]
           request == pendingRedemptions[key]
           penaltyFee == PenaltyFee(request.requestedAmount)
           objected == [old EXCEPT !.redeemer = request.redeemer,
                                   !.objectionsCount = old.objectionsCount + 1]
           finalized == [objected EXCEPT
                            !.withdrawableAmount = request.requestedAmount - penaltyFee,
                            !.finalizedAt = now]
<1>1. old \in VetoProposal
  BY ProposalFields DEF RedemptionKey
<1>2. /\ request.redeemer \in User \union {NoUser} /\ request.requestedAmount \in Nat
      /\ now \in Nat
  BY RequestFields DEF Request, TypeInv, TypeOK, WalletsTypeOK
<1>3. request.requestedAmount - penaltyFee \in Nat
  BY <1>2, PenaltyFeeBound
<1>4. old.objectionsCount + 1 \in 0..REQUIRED_OBJECTIONS_COUNT
  <2>1. old.objectionsCount + 1 <= REQUIRED_OBJECTIONS_COUNT
    BY DEF RaiseObjection
  <2> QED
    BY <1>1, <2>1 DEF VetoProposal, REQUIRED_OBJECTIONS_COUNT
<1>5. CASE /\ old.objectionsCount + 1 < REQUIRED_OBJECTIONS_COUNT
           /\ vetoProposals' = [vetoProposals EXCEPT ![key] = objected]
           /\ UNCHANGED <<vars, isBanned>>
  <2>1. /\ objected \in VetoProposal
        /\ objected.redeemer = request.redeemer
        /\ objected.objectionsCount = old.objectionsCount + 1
        /\ objected.withdrawableAmount = old.withdrawableAmount
        /\ objected.finalizedAt = old.finalizedAt
    <3> HIDE DEF old, request
    <3> QED
      BY <1>1, <1>2, <1>4 DEF VetoProposal
  <2> HIDE DEF objected
  <2>2. Objects(key, objected) /\ LeavesPending(key, objected)
    BY <1>5, <2>1 DEF Objects, LeavesPending
  <2> QED
    BY <2>2
<1>6. CASE /\ old.objectionsCount + 1 = REQUIRED_OBJECTIONS_COUNT
           /\ vetoProposals' = [vetoProposals EXCEPT ![key] = finalized]
           /\ isBanned' = isBanned \union {request.redeemer}
           /\ NotifyRedemptionVeto(w, s, penaltyFee)
           /\ UNCHANGED <<movedFundsSweepRequests, depositVars, fraudVars>>
  <2>1. /\ finalized \in VetoProposal
        /\ finalized.redeemer = request.redeemer
        /\ finalized.objectionsCount = old.objectionsCount + 1
        /\ finalized.withdrawableAmount = request.requestedAmount - penaltyFee
        /\ finalized.finalizedAt = now
    <3> HIDE DEF penaltyFee, old, request
    <3> QED
      BY <1>1, <1>2, <1>3, <1>4 DEF VetoProposal
  <2> HIDE DEF finalized
  <2>2. Objects(key, finalized) /\ Vetoes(w, s, finalized)
    BY <1>6, <2>1 DEF Objects, Vetoes
  <2> QED
    BY <2>2
<1> HIDE DEF objected, finalized
<1> QED
  BY <1>5, <1>6 DEF RaiseObjection, objected, finalized

-----------------------------------------------------------------------------
(***************************************************************************)
(* The Bridge under the watchtower: every step is one of the Bridge alone, *)
(* except the withdrawal of a detained balance.                            *)
(***************************************************************************)
Withdraws == \E key \in RedemptionKey : WithdrawVetoedFunds(key)

LEMMA WatchedBridgeStep ==
    ASSUME WatchedBridgeNext
    PROVE  Next
<1>1. ASSUME NEW w \in Wallet, WatchedRequestNext(w) PROVE RequestNext(w)
  BY <1>1 DEF WatchedRequestNext, RequestNext
<1>2. CASE /\ \E w \in Wallet : WatchedRequestNext(w) \/ SettleNext(w)
           /\ UNCHANGED <<movedFundsSweepRequests, depositVars, fraudVars>>
  BY <1>1, <1>2 DEF RedemptionNext, Next
<1> QED
  BY <1>2 DEF WatchedBridgeNext, Next

\* A veto is one of those the Bridge allows.
LEMMA VetoStep ==
    ASSUME TypeInv, WatchtowerTypeOK, NEW w \in Wallet, NEW s \in Script, NEW proposal,
           Vetoes(w, s, proposal)
    PROVE  Next
<1> DEFINE amount == pendingRedemptions[<<w, s>>].requestedAmount
<1>1. amount \in Nat
  BY RequestFields
<1>2. PenaltyFee(amount) \in 0..amount
  BY <1>1, PenaltyFeeBound
<1>3. NotifyRedemptionVeto(w, s, PenaltyFee(amount))
  BY DEF Vetoes
<1>4. VetoNext(w)
  BY <1>2, <1>3 DEF VetoNext
<1> QED
  BY <1>4 DEF Vetoes, RedemptionNext, Next

LEMMA AdministrationStep ==
    ASSUME WatchtowerNext
    PROVE  \/ UNCHANGED <<vars, vetoProposals, objections>>
           \/ \E guardian \in Guardian, w \in Wallet, s \in Script :
                 RaiseObjection(w, s, guardian)
           \/ Withdraws
BY DEF WatchtowerNext, EnableWatchtower, DisableWatchtower, AddGuardian, RemoveGuardian,
       UpdateWatchtowerParameters, Unban, Withdraws

LEMMA WatchedStep ==
    ASSUME TypeInv, WatchtowerTypeOK, [WatchedNext]_watchedVars
    PROVE  [Next]_vars \/ Withdraws
<1>1. ASSUME NEW guardian \in Guardian, NEW w \in Wallet, NEW s \in Script,
             RaiseObjection(w, s, guardian)
      PROVE  [Next]_vars
  BY <1>1, ObjectionRecords, VetoStep DEF LeavesPending
<1>2. CASE UNCHANGED watchedVars
  BY <1>2 DEF watchedVars
<1> QED
  BY <1>1, <1>2, WatchedBridgeStep, AdministrationStep DEF WatchedNext

\* A withdrawal moves a balance away from the watchtower, and is nothing else to
\* the Bridge.
LEMMA WithdrawalStep ==
    ASSUME TypeInv, WatchtowerTypeOK, NEW key \in RedemptionKey, WithdrawVetoedFunds(key)
    PROVE  /\ balanceOf' \in [Account -> Nat]
           /\ \A a \in Account \ {Watchtower} : balanceOf'[a] >= balanceOf[a]
           /\ balanceOf'[Watchtower] >=
                  balanceOf[Watchtower] - vetoProposals[key].withdrawableAmount
<1> DEFINE amount == vetoProposals[key].withdrawableAmount
           debited == Decreased(balanceOf, Watchtower, amount)
           redeemer == vetoProposals[key].redeemer
<1>1. amount \in Nat /\ balanceOf \in [Account -> Nat] /\ Watchtower \in Account
  BY ProposalFields, Accounts DEF TypeInv, TypeOK, BankTypeOK
<1>2. CanDecrease(balanceOf, Watchtower, amount)
      /\ balanceOf' = Increased(debited, redeemer, amount)
  BY DEF WithdrawVetoedFunds, Transferred
<1>3. /\ debited \in [Account -> Nat]
      /\ debited[Watchtower] = balanceOf[Watchtower] - amount
      /\ \A a \in Account \ {Watchtower} : debited[a] = balanceOf[a]
  BY <1>1, <1>2, DecreasedType
<1>4. balanceOf' \in [Account -> Nat]
  <2> HIDE DEF debited, amount, redeemer
  <2> QED
    BY <1>1, <1>2, <1>3, IncreasedType
<1>5. ASSUME NEW a \in Account PROVE balanceOf'[a] >= debited[a]
  <2> HIDE DEF debited, amount, redeemer
  <2>1. balanceOf'[a] = debited[a] \/ balanceOf'[a] = debited[a] + amount
    BY <1>1, <1>2, <1>3 DEF Increased
  <2> QED
    BY <1>1, <1>3, <2>1
<1> HIDE DEF debited
<1>6. ASSUME NEW a \in Account \ {Watchtower} PROVE balanceOf'[a] >= balanceOf[a]
  BY <1>3, <1>5
<1> QED
  BY <1>1, <1>3, <1>4, <1>5, <1>6

LEMMA WithdrawalStorage ==
    ASSUME Withdraws
    PROVE  UNCHANGED <<now, walletStorage, movedFundsSweepRequests, redemptionVars,
                       depositVars, fraudVars>>
BY DEF Withdraws, WithdrawVetoedFunds

LEMMA WatchedTypeNext ==
    ASSUME TypeInv, WatchtowerTypeOK, [WatchedNext]_watchedVars
    PROVE  TypeInv'
<1>1. CASE Withdraws
  <2>1. BankTypeOK'
    BY <1>1, WithdrawalStep DEF Withdraws, BankTypeOK
  <2>2. WalletsTypeOK'
    BY <1>1, WithdrawalStorage
       DEF TypeInv, TypeOK, WalletsTypeOK, walletStorage, walletVars, registryVars,
           balanceFields
  <2> QED
    BY <1>1, <2>1, <2>2, WithdrawalStorage, TypeUnchanged DEF TypeInv, TypeOK
<1> QED
  BY <1>1, WatchedStep, TypeNext

\* The books of the Bridge.
Books == RedemptionInv /\ SweepInv /\ TimeoutInv /\ LifeInv

LEMMA BooksNext ==
    ASSUME TypeInv, TypeInv', WatchtowerTypeOK, Books, [WatchedNext]_watchedVars
    PROVE  Books'
<1>1. CASE Withdraws
  <2>1. UNCHANGED <<walletStorage, movedFundsSweepRequests, redemptionVars>>
    BY <1>1, WithdrawalStorage
  <2>2. RedemptionInv'
    <3>1. balanceOf'[BridgeAccount] >= balanceOf[BridgeAccount]
      BY <1>1, WithdrawalStep, Accounts, AccountAssumption DEF Withdraws
    <3>2. KeepsRequests
      BY <2>1, <3>1 DEF KeepsRequests, walletStorage, balanceFields, redemptionVars
    <3> QED
      BY <3>2, KeepsRequestsKeepsInv DEF Books
  <2>3. SweepInv'
    BY <2>1 DEF Books, SweepInv, SweepSourcesRetired, SweepRequestsCountExact,
                PendingSweepSources, walletStorage, walletVars, balanceFields
  <2>4. TimeoutInv'
    BY <2>1 DEF Books, TimeoutInv, walletStorage, walletVars, redemptionVars
  <2>5. LifeInv'
    <3>1. UNCHANGED lifeVars
      BY <2>1 DEF lifeVars, walletStorage, walletVars, registryVars
    <3> QED
      BY <3>1, LifeNext DEF Books, LifeStep
  <2> QED
    BY <2>2, <2>3, <2>4, <2>5 DEF Books
<1>2. CASE [Next]_vars
  BY <1>2, RedemptionInvNext, SweepInvNext, TimeoutInvNext, NextLifeStep, LifeNext
     DEF Books
<1> QED
  BY <1>1, <1>2, WatchedStep

-----------------------------------------------------------------------------
(***************************************************************************)
(* Which requests objections concern.                                      *)
(***************************************************************************)

\* A request pending after a step was so before, or is a new one, made by the
\* Bridge under a key nobody has objected to.
PendingStep(k) ==
    Exists(pendingRedemptions'[k]) =>
        \/ pendingRedemptions'[k] = pendingRedemptions[k]
        \/ /\ pendingRedemptions'[k].redeemer \in User
           /\ ~Exists(pendingRedemptions[k])
           /\ vetoProposals[k].objectionsCount = 0
           /\ UNCHANGED <<vetoProposals, now, watchtowerEnabledAt>>

LEMMA WatchedRequestPending ==
    ASSUME TypeInv, NEW w \in Wallet, WatchedRequestNext(w), UNCHANGED watchtowerVars,
           NEW k \in RedemptionKey
    PROVE  PendingStep(k)
<1>1. PICK s \in Script, owner \in User \union Vault, redeemer \in User :
          /\ IsSafeRedemption(w, s, owner, redeemer)
          /\ \E amount, fee : RequestRedemption(w, s, owner, redeemer, amount, fee)
  BY DEF WatchedRequestNext
<1>2. PICK amount, fee : RequestRedemption(w, s, owner, redeemer, amount, fee)
  BY <1>1
<1>3. pendingRedemptions \in [RedemptionKey -> Request]
  BY DEF TypeInv, TypeOK, RedemptionTypeOK
<1>4. CASE k = <<w, s>>
  <2>1. pendingRedemptions'[k].redeemer = redeemer
    BY <1>2, <1>3, <1>4 DEF RequestRedemption
  <2>2. ~Exists(pendingRedemptions[k]) /\ UNCHANGED now
    BY <1>2, <1>4 DEF RequestRedemption
  <2>3. vetoProposals[k].objectionsCount = 0
    BY <1>1, <1>4 DEF IsSafeRedemption
  <2> QED
    BY <2>1, <2>2, <2>3 DEF PendingStep, watchtowerVars
<1>5. CASE k # <<w, s>>
  BY <1>2, <1>3, <1>5 DEF RequestRedemption, PendingStep
<1> QED
  BY <1>4, <1>5

LEMMA SettlePending ==
    ASSUME TypeInv, NEW w \in Wallet, SettleNext(w), NEW k \in RedemptionKey
    PROVE  PendingStep(k)
<1>0. ~Exists(NoRequest) /\ pendingRedemptions \in [RedemptionKey -> Request]
  BY DEF Exists, NoRequest, TypeInv, TypeOK, RedemptionTypeOK
<1>1. ASSUME NEW s, NotifyRedemptionTimeout(w, s) PROVE PendingStep(k)
  BY <1>0, <1>1 DEF NotifyRedemptionTimeout, DeletePendingRedemption, PendingStep
<1>2. ASSUME NEW outputs, NEW changeValue, SubmitRedemptionProof(w, outputs, changeValue)
      PROVE  PendingStep(k)
  BY <1>0, <1>2 DEF SubmitRedemptionProof, PendingStep
<1> QED
  BY <1>1, <1>2 DEF SettleNext

LEMMA ObjectionPending ==
    ASSUME TypeInv, WatchtowerTypeOK, NEW w \in Wallet, NEW s \in Script, NEW guardian,
           RaiseObjection(w, s, guardian), NEW k \in RedemptionKey
    PROVE  PendingStep(k)
<1>0. ~Exists(NoRequest) /\ pendingRedemptions \in [RedemptionKey -> Request]
  BY DEF Exists, NoRequest, TypeInv, TypeOK, RedemptionTypeOK
<1>1. PICK proposal : \/ LeavesPending(<<w, s>>, proposal)
                      \/ Vetoes(w, s, proposal)
  BY ObjectionRecords
<1>2. CASE LeavesPending(<<w, s>>, proposal)
  BY <1>2 DEF LeavesPending, vars, redemptionVars, PendingStep
<1>3. CASE Vetoes(w, s, proposal)
  <2>1. pendingRedemptions' = [pendingRedemptions EXCEPT ![<<w, s>>] = NoRequest]
    BY <1>3 DEF Vetoes, NotifyRedemptionVeto, DeletePendingRedemption
  <2> QED
    BY <1>0, <2>1 DEF PendingStep
<1> QED
  BY <1>1, <1>2, <1>3

LEMMA WatchedPendingStep ==
    ASSUME TypeInv, WatchtowerTypeOK, [WatchedNext]_watchedVars, NEW k \in RedemptionKey
    PROVE  PendingStep(k)
<1>1. UNCHANGED redemptionVars => PendingStep(k)
  BY DEF redemptionVars, PendingStep
<1>2. ASSUME WatchedBridgeNext PROVE PendingStep(k)
  BY <1>1, <1>2, WatchedRequestPending, SettlePending
     DEF WatchedBridgeNext, QuietNext, OwnerNext
<1>3. ASSUME WatchtowerNext PROVE PendingStep(k)
  BY <1>1, <1>3, AdministrationStep, ObjectionPending, WithdrawalStorage DEF vars
<1> QED
  BY <1>1, <1>2, <1>3 DEF WatchedNext, watchedVars, vars

-----------------------------------------------------------------------------
(***************************************************************************)
(* The three kinds of steps that touch what the watchtower keeps of        *)
(* requests: none, an objection, a withdrawal.                             *)
(***************************************************************************)
KeepsObjections == UNCHANGED <<vetoProposals, objections>>

LEMMA WatchtowerStep ==
    ASSUME [WatchedNext]_watchedVars
    PROVE  \/ KeepsObjections
           \/ \E guardian \in Guardian, w \in Wallet, s \in Script :
                 RaiseObjection(w, s, guardian)
           \/ Withdraws
<1>1. WatchedBridgeNext => KeepsObjections
  BY DEF WatchedBridgeNext, watchtowerVars, KeepsObjections
<1>2. UNCHANGED watchedVars => KeepsObjections
  BY DEF watchedVars, watchtowerVars, KeepsObjections
<1> QED
  BY <1>1, <1>2, AdministrationStep DEF WatchedNext, KeepsObjections

LEMMA AdministrationType ==
    ASSUME TypeInv, WatchtowerTypeOK,
           \/ \E guardians \in SUBSET Guardian : EnableWatchtower(guardians)
           \/ DisableWatchtower
           \/ \E guardian \in Guardian : AddGuardian(guardian) \/ RemoveGuardian(guardian)
           \/ \E new \in WatchtowerParameters : UpdateWatchtowerParameters(new)
           \/ \E redeemer \in User : Unban(redeemer)
    PROVE  WatchtowerTypeOK'
<1>1. now \in Nat
  BY DEF TypeInv, TypeOK, WalletsTypeOK
<1>2. ASSUME NEW guardians \in SUBSET Guardian, EnableWatchtower(guardians)
      PROVE  WatchtowerTypeOK'
  BY <1>1, <1>2 DEF EnableWatchtower, WatchtowerTypeOK
<1>3. CASE DisableWatchtower
  BY <1>1, <1>3 DEF DisableWatchtower, WatchtowerTypeOK
<1>4. ASSUME NEW guardian \in Guardian, AddGuardian(guardian) \/ RemoveGuardian(guardian)
      PROVE  WatchtowerTypeOK'
  BY <1>4 DEF AddGuardian, RemoveGuardian, WatchtowerTypeOK
<1>5. ASSUME NEW new \in WatchtowerParameters, UpdateWatchtowerParameters(new)
      PROVE  WatchtowerTypeOK'
  BY <1>5, WatchtowerAssumption DEF UpdateWatchtowerParameters, WatchtowerTypeOK
<1>6. ASSUME NEW redeemer \in User, Unban(redeemer) PROVE WatchtowerTypeOK'
  BY <1>6 DEF Unban, WatchtowerTypeOK
<1> QED
  BY <1>2, <1>3, <1>4, <1>5, <1>6

LEMMA ObjectionType ==
    ASSUME TypeInv, WatchtowerTypeOK, RedeemersKnown, NEW w \in Wallet, NEW s \in Script,
           NEW guardian \in Guardian, RaiseObjection(w, s, guardian)
    PROVE  WatchtowerTypeOK'
<1> DEFINE key == <<w, s>>
<1>1. PICK proposal : /\ Objects(key, proposal)
                      /\ LeavesPending(key, proposal) \/ Vetoes(w, s, proposal)
  BY ObjectionRecords
<1>2. key \in RedemptionKey /\ Exists(pendingRedemptions[key])
  BY DEF RedemptionKey, RaiseObjection
<1>3. vetoProposals' \in [RedemptionKey -> VetoProposal]
  BY <1>1 DEF Objects, WatchtowerTypeOK
<1>4. pendingRedemptions[key].redeemer \in User
  BY <1>2 DEF RedeemersKnown
<1>5. isBanned' \subseteq User
  BY <1>1, <1>4 DEF LeavesPending, Vetoes, WatchtowerTypeOK
<1>6. objections' \subseteq RedemptionKey \X Guardian
  BY <1>2 DEF RaiseObjection, RecordObjection, WatchtowerTypeOK
<1> QED
  BY <1>3, <1>5, <1>6 DEF RaiseObjection, WatchtowerTypeOK

LEMMA WithdrawalType ==
    ASSUME WatchtowerTypeOK, NEW key \in RedemptionKey, WithdrawVetoedFunds(key)
    PROVE  WatchtowerTypeOK'
<1>1. vetoProposals' \in [RedemptionKey -> VetoProposal]
  <2>1. [vetoProposals[key] EXCEPT !.withdrawableAmount = 0] \in VetoProposal
    BY ProposalFields DEF VetoProposal
  <2>2. vetoProposals' =
            [vetoProposals EXCEPT ![key] =
                [vetoProposals[key] EXCEPT !.withdrawableAmount = 0]]
    BY DEF WithdrawVetoedFunds, ClearWithdrawable
  <2> QED
    BY <2>1, <2>2 DEF WatchtowerTypeOK
<1> QED
  BY <1>1 DEF WithdrawVetoedFunds, WatchtowerTypeOK

LEMMA WatchtowerTypeNext ==
    ASSUME TypeInv, WatchtowerTypeOK, RedeemersKnown, [WatchedNext]_watchedVars
    PROVE  WatchtowerTypeOK'
<1>1. UNCHANGED watchtowerVars => WatchtowerTypeOK'
  BY DEF watchtowerVars, WatchtowerTypeOK
<1> QED
  BY <1>1, AdministrationType, ObjectionType, WithdrawalType
     DEF WatchedNext, WatchedBridgeNext, WatchtowerNext, watchedVars

\* What becomes of the proposal under key k.
ProposalStep(k) ==
    \/ vetoProposals'[k] = vetoProposals[k]
    \/ /\ vetoProposals'[k].redeemer = vetoProposals[k].redeemer
       /\ vetoProposals'[k].objectionsCount = vetoProposals[k].objectionsCount
       /\ vetoProposals'[k].finalizedAt = vetoProposals[k].finalizedAt
    \/ /\ Exists(pendingRedemptions[k])
       /\ vetoProposals'[k].redeemer = pendingRedemptions[k].redeemer
       /\ vetoProposals'[k].objectionsCount = vetoProposals[k].objectionsCount + 1
       /\ \/ /\ vetoProposals'[k].objectionsCount < REQUIRED_OBJECTIONS_COUNT
             /\ vetoProposals'[k].finalizedAt = vetoProposals[k].finalizedAt
             /\ UNCHANGED pendingRedemptions
          \/ /\ vetoProposals'[k].objectionsCount = REQUIRED_OBJECTIONS_COUNT
             /\ ~Exists(pendingRedemptions'[k])

LEMMA WatchtowerProposalStep ==
    ASSUME TypeInv, WatchtowerTypeOK, [WatchedNext]_watchedVars, NEW k \in RedemptionKey
    PROVE  ProposalStep(k)
<1>1. vetoProposals \in [RedemptionKey -> VetoProposal]
  BY DEF WatchtowerTypeOK
<1>2. ASSUME NEW guardian \in Guardian, NEW w \in Wallet, NEW s \in Script,
             RaiseObjection(w, s, guardian)
      PROVE  ProposalStep(k)
  <2>1. PICK proposal : /\ Objects(<<w, s>>, proposal)
                        /\ LeavesPending(<<w, s>>, proposal) \/ Vetoes(w, s, proposal)
    BY <1>2, ObjectionRecords
  <2>2. CASE k # <<w, s>>
    BY <1>1, <2>1, <2>2 DEF Objects, ProposalStep
  <2>3. CASE k = <<w, s>>
    <3>1. vetoProposals'[k] = proposal
      BY <1>1, <2>1, <2>3 DEF Objects
    <3>2. Exists(pendingRedemptions[k])
      BY <1>2, <2>3 DEF RaiseObjection
    <3>3. CASE LeavesPending(k, proposal)
      BY <2>1, <2>3, <3>1, <3>2, <3>3
         DEF Objects, LeavesPending, vars, redemptionVars, ProposalStep
    <3>4. CASE Vetoes(w, s, proposal)
      <4>1. pendingRedemptions' = [pendingRedemptions EXCEPT ![<<w, s>>] = NoRequest]
        BY <3>4 DEF Vetoes, NotifyRedemptionVeto, DeletePendingRedemption
      <4>2. ~Exists(pendingRedemptions'[k])
        BY <2>3, <4>1 DEF Exists, NoRequest, TypeInv, TypeOK, RedemptionTypeOK
      <4> QED
        BY <2>1, <2>3, <3>1, <3>2, <3>4, <4>2 DEF Objects, Vetoes, ProposalStep
    <3> QED
      BY <2>1, <2>3, <3>3, <3>4
  <2> QED
    BY <2>2, <2>3
<1>3. CASE KeepsObjections
  BY <1>3 DEF KeepsObjections, ProposalStep
<1>4. CASE Withdraws
  <2>1. PICK key \in RedemptionKey :
            vetoProposals' = [vetoProposals EXCEPT ![key].withdrawableAmount = 0]
    BY <1>4 DEF Withdraws, WithdrawVetoedFunds, ClearWithdrawable
  <2>2. CASE k = key
    <3>1. vetoProposals'[k] = [vetoProposals[k] EXCEPT !.withdrawableAmount = 0]
          /\ vetoProposals[k] \in VetoProposal
      BY <1>1, <2>1, <2>2
    <3> QED
      BY <3>1 DEF VetoProposal, ProposalStep
  <2>3. CASE k # key
    BY <1>1, <2>1, <2>3 DEF ProposalStep
  <2> QED
    BY <2>2, <2>3
<1> QED
  BY <1>2, <1>3, <1>4, WatchtowerStep

LEMMA ConcernNext ==
    ASSUME TypeInv, WatchtowerTypeOK, WatchtowerTypeOK', FinalizedByLastObjection,
           RedeemersKnown, ObjectionsConcernPending, [WatchedNext]_watchedVars
    PROVE  FinalizedByLastObjection' /\ RedeemersKnown' /\ ObjectionsConcernPending'
<1>1. ASSUME NEW k \in RedemptionKey
      PROVE  /\ vetoProposals[k].objectionsCount \in 0..REQUIRED_OBJECTIONS_COUNT
             /\ vetoProposals'[k].objectionsCount \in 0..REQUIRED_OBJECTIONS_COUNT
             /\ vetoProposals[k].finalizedAt \in Nat
             /\ PendingStep(k) /\ ProposalStep(k)
  BY WatchedPendingStep, WatchtowerProposalStep DEF WatchtowerTypeOK, VetoProposal
<1> USE DEF REQUIRED_OBJECTIONS_COUNT
<1>2. ASSUME NEW k \in RedemptionKey,
             vetoProposals'[k].objectionsCount < REQUIRED_OBJECTIONS_COUNT
      PROVE  vetoProposals'[k].finalizedAt = 0
  BY <1>1, <1>2 DEF FinalizedByLastObjection, ProposalStep
<1>3. ASSUME NEW k \in RedemptionKey, Exists(pendingRedemptions'[k])
      PROVE  pendingRedemptions'[k].redeemer \in User
  BY <1>1, <1>3 DEF RedeemersKnown, PendingStep
<1>4. ASSUME NEW k \in RedemptionKey, vetoProposals'[k].finalizedAt # 0
      PROVE  vetoProposals'[k].redeemer \in User
  BY <1>1, <1>4 DEF RedeemersKnown, ProposalStep
<1>5. ASSUME NEW k \in RedemptionKey, Exists(pendingRedemptions'[k]),
             vetoProposals'[k].objectionsCount > 0
      PROVE  /\ vetoProposals'[k].redeemer = pendingRedemptions'[k].redeemer
             /\ vetoProposals'[k].finalizedAt = 0
             /\ vetoProposals'[k].objectionsCount < REQUIRED_OBJECTIONS_COUNT
  <2>1. CASE pendingRedemptions'[k] = pendingRedemptions[k]
    <3>1. Exists(pendingRedemptions[k])
      BY <1>5, <2>1
    <3> QED
      BY <1>1, <1>2, <1>5, <2>1, <3>1 DEF ObjectionsConcernPending, ProposalStep
  <2>2. CASE vetoProposals[k].objectionsCount = 0 /\ UNCHANGED vetoProposals
    BY <1>5, <2>2
  <2> QED
    BY <1>1, <1>5, <2>1, <2>2 DEF PendingStep
<1> QED
  BY <1>2, <1>3, <1>4, <1>5
     DEF FinalizedByLastObjection, RedeemersKnown, ObjectionsConcernPending, Exists

-----------------------------------------------------------------------------
(***************************************************************************)
(* Objections are counted once.                                            *)
(***************************************************************************)
Objectors(k) == {g \in Guardian : <<k, g>> \in objections}

LEMMA ObjectorsFinite == \A k : IsFiniteSet(Objectors(k))
BY WatchtowerAssumption, FS_Subset DEF Objectors

LEMMA ObjectionCounted ==
    ASSUME TypeInv, WatchtowerTypeOK, ObjectionsCountExact, NEW w \in Wallet,
           NEW s \in Script, NEW guardian \in Guardian, RaiseObjection(w, s, guardian)
    PROVE  ObjectionsCountExact'
<1> DEFINE key == <<w, s>>
<1>1. PICK proposal : Objects(key, proposal)
  BY ObjectionRecords
<1>2. /\ <<key, guardian>> \notin objections
      /\ objections' = objections \union {<<key, guardian>>}
  BY DEF RaiseObjection, RecordObjection
<1>3. ASSUME NEW k \in RedemptionKey
      PROVE  vetoProposals'[k].objectionsCount = Cardinality(Objectors(k)')
  <2>1. vetoProposals[k].objectionsCount = Cardinality(Objectors(k))
    BY DEF ObjectionsCountExact, Objectors
  <2>2. CASE k = key
    <3>1. Objectors(k)' = Objectors(k) \union {guardian} /\ guardian \notin Objectors(k)
      BY <1>2, <2>2 DEF Objectors
    <3>2. Cardinality(Objectors(k)') = Cardinality(Objectors(k)) + 1
      BY <3>1, ObjectorsFinite, FS_AddElement
    <3>3. vetoProposals'[k] = proposal
      BY <1>1, <2>2 DEF Objects, WatchtowerTypeOK
    <3> QED
      BY <1>1, <2>1, <2>2, <3>2, <3>3 DEF Objects
  <2>3. CASE k # key
    <3>1. Objectors(k)' = Objectors(k)
      BY <1>2, <2>3 DEF Objectors
    <3>2. vetoProposals'[k] = vetoProposals[k]
      BY <1>1, <2>3 DEF Objects, WatchtowerTypeOK
    <3> QED
      BY <2>1, <3>1, <3>2
  <2> QED
    BY <2>2, <2>3
<1> QED
  BY <1>3 DEF ObjectionsCountExact, Objectors

LEMMA CountNext ==
    ASSUME TypeInv, WatchtowerTypeOK, ObjectionsCountExact, [WatchedNext]_watchedVars
    PROVE  ObjectionsCountExact'
<1>1. CASE KeepsObjections
  BY <1>1 DEF KeepsObjections, ObjectionsCountExact
<1>2. CASE Withdraws
  <2>1. UNCHANGED objections
    BY <1>2 DEF Withdraws, WithdrawVetoedFunds
  <2>2. PICK key \in RedemptionKey :
            vetoProposals' = [vetoProposals EXCEPT ![key].withdrawableAmount = 0]
    BY <1>2 DEF Withdraws, WithdrawVetoedFunds, ClearWithdrawable
  <2>3. ASSUME NEW k \in RedemptionKey
        PROVE  vetoProposals'[k].objectionsCount = vetoProposals[k].objectionsCount
    <3>1. vetoProposals[k] \in VetoProposal
      BY DEF WatchtowerTypeOK
    <3> QED
      BY <2>2, <3>1 DEF WatchtowerTypeOK, VetoProposal
  <2> QED
    BY <2>1, <2>3 DEF ObjectionsCountExact
<1> QED
  BY <1>1, <1>2, ObjectionCounted, WatchtowerStep

-----------------------------------------------------------------------------
(***************************************************************************)
(* What the watchtower holds.                                              *)
(***************************************************************************)

\* Nobody but the watchtower spends its balance: ...
LEMMA RequestWatchtowerBalance ==
    ASSUME TypeInv, NEW w, NEW s, NEW owner \in User \union Vault, NEW redeemer,
           NEW amount \in Nat, NEW fee, RequestRedemption(w, s, owner, redeemer, amount, fee)
    PROVE  balanceOf'[Watchtower] >= balanceOf[Watchtower]
<1>1. owner \in Account \ {Watchtower} /\ Watchtower # BridgeAccount
  BY AccountAssumption DEF Account
<1>2. balanceOf \in [Account -> Nat]
  BY DEF TypeInv, TypeOK, BankTypeOK
<1>3. balanceOf' = Transferred(balanceOf, owner, BridgeAccount, amount)
  BY DEF RequestRedemption
<1> QED
  BY <1>1, <1>2, <1>3, Accounts DEF Transferred, Decreased, Increased

\* ... neither those who settle requests ...
LEMMA TimeoutWatchtowerBalance ==
    ASSUME TypeInv, NEW w \in Wallet, NEW s \in Script, NotifyRedemptionTimeout(w, s)
    PROVE  balanceOf'[Watchtower] >= balanceOf[Watchtower]
<1> DEFINE amount == pendingRedemptions[<<w, s>>].requestedAmount
           redeemer == pendingRedemptions[<<w, s>>].redeemer
<1>1. amount \in Nat /\ balanceOf \in [Account -> Nat] /\ Watchtower # BridgeAccount
  BY RequestFields, AccountAssumption DEF TypeInv, TypeOK, BankTypeOK
<1>2. balanceOf' = Transferred(balanceOf, BridgeAccount, redeemer, amount)
  BY DEF NotifyRedemptionTimeout
<1> HIDE DEF amount, redeemer
<1> QED
  BY <1>1, <1>2, Accounts DEF Transferred, Decreased, Increased

LEMMA ProofWatchtowerBalance ==
    ASSUME TypeInv, NEW w, NEW outputs, NEW changeValue,
           SubmitRedemptionProof(w, outputs, changeValue)
    PROVE  balanceOf'[Watchtower] >= balanceOf[Watchtower]
<1>1. /\ balanceOf \in [Account -> Nat] /\ balanceOf[Watchtower] \in Nat
      /\ Watchtower \notin {BridgeAccount, Treasury}
  BY AccountAssumption, Accounts DEF TypeInv, TypeOK, BankTypeOK
<1>2. \E burned, fees :
          balanceOf' = Transferred(Decreased(balanceOf, BridgeAccount, burned),
                                   BridgeAccount, Treasury, fees)
  BY DEF SubmitRedemptionProof
<1>3. balanceOf'[Watchtower] = balanceOf[Watchtower]
  BY <1>1, <1>2, Accounts DEF Transferred, Decreased, Increased
<1> QED
  BY <1>1, <1>3

\* ... nor the owners of other accounts.
LEMMA OwnerWatchtowerBalance ==
    ASSUME TypeInv, NEW account \in Account \ {Watchtower}, OwnerNext(account)
    PROVE  balanceOf'[Watchtower] >= balanceOf[Watchtower]
<1>1. PICK amount \in TransferAmount :
          \/ \E recipient \in Account : TransferBalance(account, recipient, amount)
          \/ DecreaseBalance(account, amount)
  BY DEF OwnerNext
<1>2. amount \in Nat /\ balanceOf \in [Account -> Nat]
  BY AccountAssumption DEF TypeInv, TypeOK, BankTypeOK
<1> QED
  BY <1>1, <1>2, Accounts
     DEF TransferBalance, DecreaseBalance, Transferred, Decreased, Increased

LEMMA WatchtowerBalance ==
    ASSUME TypeInv, WatchedBridgeNext
    PROVE  balanceOf'[Watchtower] >= balanceOf[Watchtower]
<1>0. balanceOf[Watchtower] \in Nat /\ balanceOf \in [Account -> Nat]
  BY Accounts DEF TypeInv, TypeOK, BankTypeOK
<1>1. CASE QuietNext
  <2>1. RevealNext \/ VaultStatusNext => UNCHANGED balanceOf
    BY DEF RevealNext, VaultStatusNext, RevealDeposit, SetVaultStatus
  <2>2. UNCHANGED balanceOf
    BY <1>1, <2>1 DEF QuietNext, FraudNext
  <2> QED
    BY <1>0, <2>2
<1>2. CASE SweepNext
  BY <1>2, Accounts, DepositBalances DEF DepositNext
<1>3. ASSUME NEW w \in Wallet, WatchedRequestNext(w)
      PROVE  balanceOf'[Watchtower] >= balanceOf[Watchtower]
  <2>1. PICK s \in Script, owner \in User \union Vault, redeemer \in User :
            \E amount \in 1..balanceOf[owner] : \E fee :
                RequestRedemption(w, s, owner, redeemer, amount, fee)
    BY <1>3 DEF WatchedRequestNext
  <2>2a. PICK amount \in 1..balanceOf[owner] :
             \E fee : RequestRedemption(w, s, owner, redeemer, amount, fee)
    BY <2>1
  <2>2. PICK fee : RequestRedemption(w, s, owner, redeemer, amount, fee)
    BY <2>2a
  <2>3. amount \in Nat
    BY <1>0, Accounts
  <2> QED
    BY <2>2, <2>3, RequestWatchtowerBalance
<1>4. ASSUME NEW w \in Wallet, SettleNext(w)
      PROVE  balanceOf'[Watchtower] >= balanceOf[Watchtower]
  BY <1>4, TimeoutWatchtowerBalance, ProofWatchtowerBalance DEF SettleNext
<1> QED
  BY <1>1, <1>2, <1>3, <1>4, OwnerWatchtowerBalance DEF WatchedBridgeNext

LEMMA WithdrawableType ==
    ASSUME WatchtowerTypeOK
    PROVE  /\ WithdrawableAmounts \in [RedemptionKey -> Nat]
           /\ Total(WithdrawableAmounts) \in Nat
<1>1. WithdrawableAmounts \in [RedemptionKey -> Nat]
  BY ProposalFields DEF WithdrawableAmounts
<1> QED
  BY <1>1, RedemptionKeyFinite, TotalType

\* A step that changes what is withdrawable under one key only.
LEMMA WithdrawableUpdate ==
    ASSUME WatchtowerTypeOK, WatchtowerTypeOK', NEW key \in RedemptionKey,
           \A k \in RedemptionKey \ {key} : vetoProposals'[k] = vetoProposals[k]
    PROVE  Total(WithdrawableAmounts') =
               Total(WithdrawableAmounts) - vetoProposals[key].withdrawableAmount
                   + vetoProposals'[key].withdrawableAmount
<1>1. WithdrawableAmounts \in [RedemptionKey -> Nat]
  BY WithdrawableType
<1>2. WithdrawableAmounts' \in [RedemptionKey -> Nat]
  BY DEF WithdrawableAmounts, WatchtowerTypeOK, VetoProposal
<1>3. /\ WithdrawableAmounts[key] = vetoProposals[key].withdrawableAmount
      /\ WithdrawableAmounts'[key] = vetoProposals'[key].withdrawableAmount
      /\ \A k \in RedemptionKey \ {key} : WithdrawableAmounts'[k] = WithdrawableAmounts[k]
  BY DEF WithdrawableAmounts
<1> HIDE DEF WithdrawableAmounts
<1> QED
  BY <1>1, <1>2, <1>3, RedemptionKeyFinite, TotalUpdate

LEMMA VetoDetains ==
    ASSUME TypeInv, WatchtowerTypeOK, WatchtowerTypeOK', DetainedFundsHeld,
           NEW w \in Wallet, NEW s \in Script, NEW proposal,
           Objects(<<w, s>>, proposal), Vetoes(w, s, proposal)
    PROVE  DetainedFundsHeld'
<1> DEFINE key == <<w, s>>
           amount == pendingRedemptions[key].requestedAmount
           penaltyFee == PenaltyFee(amount)
<1>1. /\ key \in RedemptionKey /\ amount \in Nat
      /\ penaltyFee \in Nat /\ penaltyFee <= amount
  BY RequestFields, PenaltyFeeBound
<1>2. vetoProposals'[key].withdrawableAmount = amount - penaltyFee
      /\ \A k \in RedemptionKey \ {key} : vetoProposals'[k] = vetoProposals[k]
  BY <1>1 DEF Objects, Vetoes, WatchtowerTypeOK
<1>3. balanceOf' = Decreased(Transferred(balanceOf, BridgeAccount, Watchtower, amount),
                             Watchtower, penaltyFee)
  BY DEF Vetoes, NotifyRedemptionVeto
<1>4. balanceOf[Watchtower] \in Nat /\ vetoProposals[key].withdrawableAmount \in Nat
      /\ balanceOf \in [Account -> Nat] /\ Watchtower # BridgeAccount
  BY <1>1, Accounts, AccountAssumption, ProposalFields DEF TypeInv, TypeOK, BankTypeOK
<1>5. Total(WithdrawableAmounts') =
          Total(WithdrawableAmounts) - vetoProposals[key].withdrawableAmount
              + (amount - penaltyFee)
  <2> HIDE DEF key, amount, penaltyFee
  <2> QED
    BY <1>1, <1>2, WithdrawableUpdate
<1> HIDE DEF amount, penaltyFee, key
<1>6. balanceOf'[Watchtower] = balanceOf[Watchtower] + amount - penaltyFee
  BY <1>1, <1>3, <1>4, Accounts DEF Decreased, Transferred, Increased
<1>7. balanceOf[Watchtower] >= Total(WithdrawableAmounts) /\ Total(WithdrawableAmounts) \in Nat
  BY WithdrawableType DEF DetainedFundsHeld
<1>8. balanceOf'[Watchtower] >= Total(WithdrawableAmounts')
  BY <1>1, <1>4, <1>5, <1>6, <1>7
<1> QED
  BY <1>8 DEF DetainedFundsHeld

LEMMA WithdrawalHeld ==
    ASSUME TypeInv, TypeInv', WatchtowerTypeOK, WatchtowerTypeOK', DetainedFundsHeld,
           NEW key \in RedemptionKey, WithdrawVetoedFunds(key)
    PROVE  DetainedFundsHeld'
<1>1. /\ vetoProposals'[key].withdrawableAmount = 0
      /\ \A k \in RedemptionKey \ {key} : vetoProposals'[k] = vetoProposals[k]
  BY DEF WithdrawVetoedFunds, ClearWithdrawable, WatchtowerTypeOK, VetoProposal
<1>2. Total(WithdrawableAmounts') =
          Total(WithdrawableAmounts) - vetoProposals[key].withdrawableAmount
  BY <1>1, WithdrawableUpdate, WithdrawableType, ProposalFields
<1>3. /\ balanceOf[Watchtower] \in Nat /\ balanceOf'[Watchtower] \in Nat
      /\ Total(WithdrawableAmounts) \in Nat
      /\ vetoProposals[key].withdrawableAmount \in Nat
  BY Accounts, ProposalFields, WithdrawableType DEF TypeInv, TypeOK, BankTypeOK
<1>4. /\ balanceOf[Watchtower] >= Total(WithdrawableAmounts)
      /\ balanceOf'[Watchtower] >=
             balanceOf[Watchtower] - vetoProposals[key].withdrawableAmount
  BY WithdrawalStep DEF DetainedFundsHeld
<1>5. balanceOf'[Watchtower] >= Total(WithdrawableAmounts')
  BY <1>2, <1>3, <1>4
<1> QED
  BY <1>5 DEF DetainedFundsHeld

LEMMA DetainedNext ==
    ASSUME TypeInv, TypeInv', WatchtowerTypeOK, WatchtowerTypeOK', DetainedFundsHeld,
           [WatchedNext]_watchedVars
    PROVE  DetainedFundsHeld'
<1>1. /\ balanceOf[Watchtower] \in Nat /\ balanceOf'[Watchtower] \in Nat
      /\ Total(WithdrawableAmounts) \in Nat
      /\ balanceOf[Watchtower] >= Total(WithdrawableAmounts)
  BY Accounts, WithdrawableType DEF TypeInv, TypeOK, BankTypeOK, DetainedFundsHeld
<1>2. ASSUME WithdrawableAmounts' = WithdrawableAmounts,
             balanceOf'[Watchtower] >= balanceOf[Watchtower]
      PROVE  DetainedFundsHeld'
  <2>1. balanceOf'[Watchtower] >= Total(WithdrawableAmounts')
    BY <1>1, <1>2
  <2> QED
    BY <2>1 DEF DetainedFundsHeld
<1>3. CASE WatchedBridgeNext
  BY <1>2, <1>3, WatchtowerBalance DEF WatchedBridgeNext, watchtowerVars, WithdrawableAmounts
<1>4. CASE UNCHANGED <<vars, vetoProposals, objections>>
  BY <1>1, <1>2, <1>4 DEF vars, WithdrawableAmounts
<1>5. ASSUME NEW guardian \in Guardian, NEW w \in Wallet, NEW s \in Script,
             RaiseObjection(w, s, guardian)
      PROVE  DetainedFundsHeld'
  <2>1. PICK proposal : /\ Objects(<<w, s>>, proposal)
                        /\ LeavesPending(<<w, s>>, proposal) \/ Vetoes(w, s, proposal)
    BY <1>5, ObjectionRecords
  <2>2. CASE LeavesPending(<<w, s>>, proposal)
    <3>1. WithdrawableAmounts' = WithdrawableAmounts
      BY <2>1, <2>2 DEF Objects, LeavesPending, WithdrawableAmounts, WatchtowerTypeOK
    <3> QED
      BY <1>1, <1>2, <2>2, <3>1 DEF LeavesPending, vars
  <2> QED
    BY <2>1, <2>2, VetoDetains
<1>6. CASE Withdraws
  BY <1>6, WithdrawalHeld DEF Withdraws
<1> QED
  BY <1>3, <1>4, <1>5, <1>6, AdministrationStep
     DEF WatchedNext, watchedVars, watchtowerVars

-----------------------------------------------------------------------------
(***************************************************************************)
(* The invariants.                                                         *)
(***************************************************************************)
LEMMA WatchtowerInvNext ==
    ASSUME TypeInv, TypeInv', WatchtowerInv, [WatchedNext]_watchedVars
    PROVE  WatchtowerInv'
<1>1. WatchtowerTypeOK'
  BY WatchtowerTypeNext DEF WatchtowerInv
<1> QED
  BY <1>1, ConcernNext, CountNext, DetainedNext DEF WatchtowerInv

LEMMA WatchtowerInvInit ==
    ASSUME WatchedInit
    PROVE  WatchtowerInv
<1> USE DEF WatchedInit, WatchtowerInit
<1>1. WatchtowerTypeOK
  BY WatchtowerAssumption DEF WatchtowerTypeOK, VetoProposal, REQUIRED_OBJECTIONS_COUNT
<1>2. FinalizedByLastObjection /\ RedeemersKnown /\ ObjectionsConcernPending
  BY DEF FinalizedByLastObjection, RedeemersKnown, ObjectionsConcernPending, Init,
         RedemptionInit, Exists, NoRequest
<1>3. DetainedFundsHeld
  <2>1. \A k \in RedemptionKey : WithdrawableAmounts[k] = 0
    BY DEF WithdrawableAmounts
  <2>2. Total(WithdrawableAmounts) = 0
    BY <1>1, <2>1, WithdrawableType, TotalZero
  <2>3. balanceOf[Watchtower] = 0
    BY Accounts DEF Init, BankInit
  <2> QED
    BY <2>2, <2>3 DEF DetainedFundsHeld
<1>4. ObjectionsCountExact
  BY FS_EmptySet DEF ObjectionsCountExact
<1> QED
  BY <1>1, <1>2, <1>3, <1>4 DEF WatchtowerInv

LEMMA BooksInit == WatchedInit => TypeInv /\ Books
<1>1. Init => TimeoutInv
  BY DEF Init, RedemptionInit, TimeoutInv, Exists, NoRequest
<1> QED
  BY <1>1, TypeInit, RedemptionInvInit, SweepInvInit, LifeInit DEF WatchedInit, Books

\* The inductive invariant holds in every reachable state of the Bridge under
\* the watchtower; no account is overdrawn there either.
THEOREM WatchtowerInvariant == WatchedSpec => [](TypeInv /\ WatchtowerInv)
<1>1. WatchedInit => TypeInv /\ WatchtowerInv
  BY BooksInit, WatchtowerInvInit
<1>2. TypeInv /\ WatchtowerInv /\ [WatchedNext]_watchedVars => (TypeInv /\ WatchtowerInv)'
  BY WatchedTypeNext, WatchtowerInvNext DEF WatchtowerInv
<1> QED
  BY <1>1, <1>2, PTL DEF WatchedSpec

\* The watchtower can pay out every balance it has detained, whatever has been
\* burnt and withdrawn before.
THEOREM DetainedFundsTheorem == WatchedSpec => []DetainedFundsHeld
<1>1. WatchtowerInv => DetainedFundsHeld
  BY DEF WatchtowerInv
<1> QED
  BY <1>1, WatchtowerInvariant, PTL

\* A veto takes as many guardians as it counts objections.
THEOREM ObjectionsCountTheorem == WatchedSpec => []ObjectionsCountExact
<1>1. WatchtowerInv => ObjectionsCountExact
  BY DEF WatchtowerInv
<1> QED
  BY <1>1, WatchtowerInvariant, PTL

\* The objections under a redemption key concern the request pending under it.
THEOREM ObjectionsConcernTheorem == WatchedSpec => []ObjectionsConcernPending
<1>1. WatchtowerInv => ObjectionsConcernPending
  BY DEF WatchtowerInv
<1> QED
  BY <1>1, WatchtowerInvariant, PTL

\* The Bridge keeps its books under the watchtower: what is reserved for
\* redemptions and sweeps, the timed out redemptions, the wallets it counts.
THEOREM WatchedBooksTheorem == WatchedSpec => []Books
<1>1. TypeInv /\ TypeInv' /\ WatchtowerInv /\ Books /\ [WatchedNext]_watchedVars => Books'
  BY BooksNext DEF WatchtowerInv
<1> QED
  BY <1>1, BooksInit, WatchtowerInvariant, PTL DEF WatchedSpec

-----------------------------------------------------------------------------
(***************************************************************************)
(* Released requests.                                                      *)
(***************************************************************************)

\* Time never goes back.
LEMMA MovingFundsNow == MovingFundsNext => UNCHANGED now
<1>1. ASSUME NEW w, NEW targets, SubmitMovingFundsCommitment(w, targets)
      PROVE  UNCHANGED now
  BY <1>1 DEF SubmitMovingFundsCommitment
<1>2. ASSUME NEW w, \/ ResetMovingFundsTimeout(w)
                    \/ NotifyMovingFundsTimeout(w)
                    \/ NotifyMovingFundsBelowDust(w)
      PROVE  UNCHANGED now
  BY <1>2 DEF ResetMovingFundsTimeout, NotifyMovingFundsTimeout, NotifyMovingFundsBelowDust
<1>3. ASSUME NEW w, NEW outputs, SubmitMovingFundsProof(w, outputs)
      PROVE  UNCHANGED now
  BY <1>3 DEF SubmitMovingFundsProof
<1>4. ASSUME NEW w, NEW source, NEW outputValue,
             \/ SubmitMovedFundsSweepProof(source, w, outputValue)
             \/ NotifyMovedFundsSweepTimeout(source, w)
      PROVE  UNCHANGED now
  BY <1>4 DEF SubmitMovedFundsSweepProof, NotifyMovedFundsSweepTimeout
<1> QED
  BY <1>1, <1>2, <1>3, <1>4 DEF MovingFundsNext

LEMMA RedemptionNow == RedemptionNext => UNCHANGED now
<1>1. ASSUME NEW w, NEW s, NEW owner, NEW redeemer, NEW amount, NEW fee,
             RequestRedemption(w, s, owner, redeemer, amount, fee)
      PROVE  UNCHANGED now
  BY <1>1 DEF RequestRedemption
<1>2. ASSUME NEW w, NEW s, NEW penaltyFee,
             NotifyRedemptionTimeout(w, s) \/ NotifyRedemptionVeto(w, s, penaltyFee)
      PROVE  UNCHANGED now
  BY <1>2 DEF NotifyRedemptionTimeout, NotifyRedemptionVeto
<1>3. ASSUME NEW w, NEW outputs, NEW changeValue,
             SubmitRedemptionProof(w, outputs, changeValue)
      PROVE  UNCHANGED now
  BY <1>3 DEF SubmitRedemptionProof
<1> QED
  BY <1>1, <1>2, <1>3 DEF RedemptionNext, RequestNext, VetoNext, SettleNext

LEMMA WalletsNow == WalletsNext => now' = now \/ now' = now + 1
<1>1. ASSUME NEW w, \/ NotifyWalletHeartbeatFailed(w) \/ NotifyWalletCloseable(w)
      PROVE  UNCHANGED now
  BY <1>1 DEF NotifyWalletHeartbeatFailed, NotifyWalletCloseable
<1>2. ASSUME NEW w, RegisterNewWallet(w) \/ NotifyWalletClosingPeriodElapsed(w)
      PROVE  UNCHANGED now
  BY <1>2 DEF RegisterNewWallet, NotifyWalletClosingPeriodElapsed
<1>3. RequestNewWallet \/ WalletCreationFails => UNCHANGED now
  BY DEF RequestNewWallet, WalletCreationFails
<1> QED
  BY <1>1, <1>2, <1>3 DEF WalletsNext, Tick

LEMMA TimePasses == [Next]_vars => now' = now \/ now' = now + 1
<1>1. DepositNext => UNCHANGED now
  BY DEF DepositNext, RevealNext, SweepNext, VaultStatusNext, RevealDeposit,
         SubmitDepositSweepProof, SetVaultStatus
<1>2. ASSUME NEW account, OwnerNext(account) PROVE UNCHANGED now
  BY <1>2 DEF OwnerNext
<1> QED
  BY <1>1, <1>2, MovingFundsNow, RedemptionNow, WalletsNow
     DEF Next, QuietNext, DepositNext, FraudNext, vars

LEMMA WatchedTimePasses ==
    ASSUME TypeInv, WatchtowerTypeOK, [WatchedNext]_watchedVars
    PROVE  now \in Nat /\ now' \in Nat /\ now' >= now
<1>1. now \in Nat
  BY DEF TypeInv, TypeOK, WalletsTypeOK
<1>2. now' = now \/ now' = now + 1
  BY WatchedStep, TimePasses, WithdrawalStorage
<1> QED
  BY <1>1, <1>2

\* The watchtower is enabled once, and disabled once.
LEMMA EnabledOnce ==
    ASSUME [WatchedNext]_watchedVars
    PROVE  /\ watchtowerEnabledAt # 0 => watchtowerEnabledAt' = watchtowerEnabledAt
           /\ watchtowerDisabledAt # 0 => watchtowerDisabledAt' = watchtowerDisabledAt
           /\ watchtowerDisabledAt' # watchtowerDisabledAt => watchtowerDisabledAt' = now
<1> DEFINE Goal ==
        /\ watchtowerEnabledAt # 0 => watchtowerEnabledAt' = watchtowerEnabledAt
        /\ watchtowerDisabledAt # 0 => watchtowerDisabledAt' = watchtowerDisabledAt
        /\ watchtowerDisabledAt' # watchtowerDisabledAt => watchtowerDisabledAt' = now
<1>1. UNCHANGED <<watchtowerEnabledAt, watchtowerDisabledAt>> => Goal
  OBVIOUS
<1>2. (\E guardians \in SUBSET Guardian : EnableWatchtower(guardians)) => Goal
  BY DEF EnableWatchtower
<1>3. DisableWatchtower => Goal
  BY DEF DisableWatchtower
<1>4. ASSUME NEW guardian, NEW w, NEW s,
             AddGuardian(guardian) \/ RemoveGuardian(guardian)
                 \/ RaiseObjection(w, s, guardian)
      PROVE  UNCHANGED <<watchtowerEnabledAt, watchtowerDisabledAt>>
  BY <1>4 DEF AddGuardian, RemoveGuardian, RaiseObjection
<1>5. ASSUME NEW new, NEW redeemer, NEW key,
             UpdateWatchtowerParameters(new) \/ Unban(redeemer)
                 \/ WithdrawVetoedFunds(key)
      PROVE  UNCHANGED <<watchtowerEnabledAt, watchtowerDisabledAt>>
  BY <1>5 DEF UpdateWatchtowerParameters, Unban, WithdrawVetoedFunds
<1>6. WatchedBridgeNext \/ UNCHANGED watchedVars
          => UNCHANGED <<watchtowerEnabledAt, watchtowerDisabledAt>>
  BY DEF WatchedBridgeNext, watchedVars, watchtowerVars
<1> HIDE DEF Goal
<1>7. Goal
  BY <1>1, <1>2, <1>3, <1>4, <1>5, <1>6 DEF WatchedNext, WatchtowerNext
<1> QED
  BY <1>7 DEF Goal

\* An objection needs a request that can be objected to.
LEMMA ObjectionNeedsObjectable ==
    ASSUME TypeInv, WatchtowerTypeOK, [WatchedNext]_watchedVars, NEW k \in RedemptionKey,
           ~Objectable(k)
    PROVE  vetoProposals'[k].objectionsCount = vetoProposals[k].objectionsCount
<1>1. vetoProposals \in [RedemptionKey -> VetoProposal]
  BY DEF WatchtowerTypeOK
<1>2. ASSUME NEW guardian \in Guardian, NEW w \in Wallet, NEW s \in Script,
             RaiseObjection(w, s, guardian)
      PROVE  vetoProposals'[k] = vetoProposals[k]
  <2>1. \E proposal : vetoProposals' = [vetoProposals EXCEPT ![<<w, s>>] = proposal]
    BY <1>2, ObjectionRecords DEF Objects
  <2>2. k # <<w, s>>
    BY <1>2 DEF RaiseObjection
  <2> QED
    BY <1>1, <2>1, <2>2
<1>3. CASE Withdraws
  <2>1. PICK key \in RedemptionKey :
            vetoProposals' = [vetoProposals EXCEPT ![key].withdrawableAmount = 0]
    BY <1>3 DEF Withdraws, WithdrawVetoedFunds, ClearWithdrawable
  <2>2. vetoProposals[k] \in VetoProposal
    BY <1>1
  <2> QED
    BY <1>1, <2>1, <2>2 DEF VetoProposal
<1> QED
  BY <1>2, <1>3, WatchtowerStep DEF KeepsObjections

\* The delay of a request with fewer objections than a veto takes.
LEMMA DelayType ==
    ASSUME WatchtowerTypeOK, NEW count \in 0..2, NEW amount
    PROVE  RedemptionDelay(count, amount) \in Nat
<1>1. /\ watchtowerParameters.defaultDelay \in Nat
      /\ watchtowerParameters.levelOneDelay \in Nat
      /\ watchtowerParameters.levelTwoDelay \in Nat
  BY DEF WatchtowerTypeOK, WatchtowerParametersType
<1>2. CASE count = 0
  BY <1>1, <1>2 DEF RedemptionDelay
<1>3. CASE count = 1
  BY <1>1, <1>3 DEF RedemptionDelay
<1>4. CASE count = 2
  BY <1>1, <1>4 DEF RedemptionDelay
<1> QED
  BY <1>2, <1>3, <1>4

\* The delay of a request only gets shorter without a new objection or new
\* delays: the watchtower may be disabled.
LEMMA DelayStep ==
    ASSUME WatchtowerTypeOK, [WatchedNext]_watchedVars, UNCHANGED watchtowerParameters,
           NEW count \in 0..2, NEW amount
    PROVE  \/ RedemptionDelay(count, amount)' = RedemptionDelay(count, amount)
           \/ RedemptionDelay(count, amount)' = 0
<1>1. CASE watchtowerDisabledAt' # 0
  BY <1>1 DEF RedemptionDelay
<1>2. CASE watchtowerDisabledAt' = 0
  <2>1. watchtowerDisabledAt = 0
    BY <1>2, EnabledOnce
  <2> QED
    BY <1>2, <2>1 DEF RedemptionDelay
<1> QED
  BY <1>1, <1>2

LEMMA ReleasedStays ==
    ASSUME TypeInv, WatchtowerInv, [WatchedNext]_watchedVars,
           UNCHANGED watchtowerParameters, NEW k \in RedemptionKey, Released(k),
           Exists(pendingRedemptions'[k])
    PROVE  Released(k)'
<1> DEFINE request == pendingRedemptions[k]
           count == vetoProposals[k].objectionsCount
           delay == RedemptionDelay(count, request.requestedAmount)
<1>1. WatchtowerTypeOK /\ ObjectionsConcernPending
  BY DEF WatchtowerInv
<1>2. /\ Exists(request) /\ watchtowerEnabledAt # 0
      /\ request.requestedAt >= watchtowerEnabledAt
      /\ now >= request.requestedAt + delay
  BY DEF Released
<1>3. count \in 0..2
  <2>1. count \in 0..3
    BY <1>1, ProposalFields DEF REQUIRED_OBJECTIONS_COUNT
  <2>2. count > 0 => count < 3
    BY <1>1, <1>2 DEF ObjectionsConcernPending, REQUIRED_OBJECTIONS_COUNT
  <2> QED
    BY <2>1, <2>2
<1>4. request.requestedAt \in Nat /\ delay \in Nat
  <2>1. request \in Request
    BY DEF TypeInv, TypeOK, RedemptionTypeOK
  <2> QED
    BY <1>1, <1>3, <2>1, DelayType DEF Request
<1>5. now \in Nat /\ now' \in Nat /\ now' >= now
  BY <1>1, WatchedTimePasses
<1>6. vetoProposals'[k].objectionsCount = count
  <2>1. ~Objectable(k)
    BY <1>2, <1>4, <1>5 DEF Objectable
  <2> QED
    BY <1>1, <2>1, ObjectionNeedsObjectable
<1>7. pendingRedemptions'[k] = request
  BY <1>1, <1>2, WatchedPendingStep DEF PendingStep
<1>8. watchtowerEnabledAt' = watchtowerEnabledAt
  BY <1>2, EnabledOnce
<1>9a. PICK c \in 0..2 : c = count
  BY <1>3
<1>9b. PICK a : a = request.requestedAmount
  OBVIOUS
<1>9. c = count /\ a = request.requestedAmount
  BY <1>9a, <1>9b
<1>10. \/ RedemptionDelay(c, a)' = RedemptionDelay(c, a)
       \/ RedemptionDelay(c, a)' = 0
  BY <1>1, DelayStep
<1>11. /\ vetoProposals'[k].objectionsCount = c
       /\ pendingRedemptions'[k].requestedAmount = a
       /\ delay = RedemptionDelay(c, a)
  BY <1>6, <1>7, <1>9
<1>12. now' >= pendingRedemptions'[k].requestedAt + RedemptionDelay(c, a)'
  <2>1. pendingRedemptions'[k].requestedAt = request.requestedAt
    BY <1>7
  <2> HIDE DEF delay, request, count
  <2> QED
    BY <1>2, <1>4, <1>5, <1>10, <1>11, <2>1
<1>13. RedemptionDelay(vetoProposals[k].objectionsCount,
                       pendingRedemptions[k].requestedAmount)'
           = RedemptionDelay(c, a)'
  BY <1>11 DEF RedemptionDelay
<1> QED
  BY <1>2, <1>7, <1>8, <1>12, <1>13 DEF Released

\* Once its delay is over a request stays released for payment: whatever the
\* guardians do to it comes too late. They cannot start another delay, for there
\* is none for a request with three objections, which is not pending any more.
THEOREM ReleasedRequestsTheorem == WatchedSpec => ReleasedRequestsStayReleased
<1> DEFINE StaysReleased ==
        UNCHANGED watchtowerParameters =>
            \A k \in RedemptionKey :
                Released(k) /\ Exists(pendingRedemptions[k])' => Released(k)'
<1>1. ASSUME TypeInv, WatchtowerInv, [WatchedNext]_watchedVars
      PROVE  StaysReleased
  <2> SUFFICES ASSUME UNCHANGED watchtowerParameters, NEW k \in RedemptionKey,
                      Released(k), Exists(pendingRedemptions[k])'
               PROVE  Released(k)'
    OBVIOUS
  <2>1. Exists(pendingRedemptions'[k])
    BY DEF Exists
  <2> QED
    BY <1>1, <2>1, ReleasedStays
<1>2. TypeInv /\ WatchtowerInv /\ [WatchedNext]_watchedVars => [StaysReleased]_watchedVars
  BY <1>1
<1> QED
  BY <1>2, WatchtowerInvariant, PTL DEF WatchedSpec, ReleasedRequestsStayReleased

-----------------------------------------------------------------------------
(***************************************************************************)
(* The watchtower implements what the Bridge expects of it.  TransferAmount *)
(* bounds the amounts that account owners move in a run; the Bank does not. *)
(***************************************************************************)
LEMMA WithdrawalIsTransfer ==
    ASSUME TransferAmount = Nat, TypeInv, WatchtowerInv, Withdraws
    PROVE  Next
<1>1. PICK key \in RedemptionKey : WithdrawVetoedFunds(key)
  BY DEF Withdraws
<1> DEFINE veto == vetoProposals[key]
<1>2. veto.withdrawableAmount \in TransferAmount /\ veto.redeemer \in Account
  BY <1>1, ProposalFields, Accounts DEF WithdrawVetoedFunds, WatchtowerInv, RedeemersKnown
<1>3. TransferBalance(Watchtower, veto.redeemer, veto.withdrawableAmount)
  BY <1>1, AccountAssumption DEF WithdrawVetoedFunds, TransferBalance
<1>4. OwnerNext(Watchtower)
  BY <1>2, <1>3, WithdrawalStorage DEF OwnerNext
<1> QED
  BY <1>4, Accounts DEF Next

\* Every behaviour of the Bridge under the watchtower is one of the Bridge alone:
\* a withdrawal is a transfer by the account owner, vetoes and accepted requests
\* are among those the Bridge leaves open. All that is proved of the Bridge alone
\* therefore holds under the watchtower as well.
THEOREM WatchedBridgeImplementsBridge ==
    ASSUME TransferAmount = Nat
    PROVE  WatchedSpec => BridgeSpec
<1>1. WatchedInit => Init
  BY DEF WatchedInit
<1>2. TypeInv /\ WatchtowerInv /\ [WatchedNext]_watchedVars => [Next]_vars
  BY WatchedStep, WithdrawalIsTransfer DEF WatchtowerInv
<1> QED
  BY <1>1, <1>2, WatchtowerInvariant, PTL DEF WatchedSpec, BridgeSpec, Spec
=============================================================================
