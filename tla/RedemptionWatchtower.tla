------------------------ MODULE RedemptionWatchtower ------------------------
(***************************************************************************)
(* The redemption watchtower: guardians object to pending redemptions,     *)
(* the third objection vetoes the request, the watchtower detains its      *)
(* Bank balance, burns a penalty and returns the rest to the redeemer      *)
(* after a freeze period.  The module composes the watchtower with the     *)
(* Bridge, which leaves the acceptance of requests and the vetoes open.    *)
(*                                                                         *)
(* The watchtower has been set in the Bridge (Bridge.setRedemptionWatchtower) *)
(* before it is enabled.  The manager and the owner are the callers of     *)
(* the actions reserved for them; there is a manager once the watchtower   *)
(* is enabled.                                                             *)
(***************************************************************************)
EXTENDS Bridge

CONSTANTS
    Guardian,
    InitialWatchtowerParameters,
    WatchtowerParameters          \* bound: what the manager may set

WatchtowerParametersType ==
    [watchtowerLifetime : Nat, vetoPenaltyFeeDivisor : Nat, vetoFreezePeriod : Nat,
     defaultDelay : Nat, levelOneDelay : Nat, levelTwoDelay : Nat,
     waivedAmountLimit : Nat]

ASSUME WatchtowerAssumption ==
    /\ IsFiniteSet(Guardian)
    /\ InitialWatchtowerParameters \in WatchtowerParametersType
    /\ WatchtowerParameters \subseteq WatchtowerParametersType

REQUIRED_OBJECTIONS_COUNT == 3

VARIABLES
    isGuardian,                   \* the set of guardians
    isBanned,                     \* the set of banned redeemers
    vetoProposals,
    objections,                   \* who has objected to what
    watchtowerEnabledAt,
    watchtowerDisabledAt,
    watchtowerParameters

watchtowerVars == <<isGuardian, isBanned, vetoProposals, objections,
                    watchtowerEnabledAt, watchtowerDisabledAt, watchtowerParameters>>

VetoProposal == [redeemer : User \union {NoUser}, withdrawableAmount : Nat,
                 finalizedAt : Nat, objectionsCount : 0..REQUIRED_OBJECTIONS_COUNT]

WatchtowerTypeOK ==
    /\ isGuardian \subseteq Guardian
    /\ isBanned \subseteq User
    /\ vetoProposals \in [RedemptionKey -> VetoProposal]
    /\ objections \subseteq RedemptionKey \X Guardian
    /\ watchtowerEnabledAt \in Nat
    /\ watchtowerDisabledAt \in Nat
    /\ watchtowerParameters \in WatchtowerParametersType

WatchtowerInit ==
    /\ isGuardian = {}
    /\ isBanned = {}
    /\ vetoProposals = [k \in RedemptionKey |->
           [redeemer |-> NoUser, withdrawableAmount |-> 0, finalizedAt |-> 0,
            objectionsCount |-> 0]]
    /\ objections = {}
    /\ watchtowerEnabledAt = 0
    /\ watchtowerDisabledAt = 0
    /\ watchtowerParameters = InitialWatchtowerParameters

-----------------------------------------------------------------------------
(* Administration.                                                         *)

EnableWatchtower(guardians) ==
    /\ watchtowerEnabledAt = 0
    /\ isGuardian' = guardians
    /\ watchtowerEnabledAt' = now
    /\ UNCHANGED <<vars, isBanned, vetoProposals, objections, watchtowerDisabledAt,
                   watchtowerParameters>>

DisableWatchtower ==
    /\ watchtowerEnabledAt # 0
    /\ watchtowerDisabledAt = 0
    /\ now > watchtowerEnabledAt + watchtowerParameters.watchtowerLifetime
    /\ watchtowerDisabledAt' = now
    /\ UNCHANGED <<vars, isGuardian, isBanned, vetoProposals, objections,
                   watchtowerEnabledAt, watchtowerParameters>>

AddGuardian(guardian) ==
    /\ watchtowerEnabledAt # 0
    /\ guardian \notin isGuardian
    /\ isGuardian' = isGuardian \union {guardian}
    /\ UNCHANGED <<vars, isBanned, vetoProposals, objections, watchtowerEnabledAt,
                   watchtowerDisabledAt, watchtowerParameters>>

RemoveGuardian(guardian) ==
    /\ guardian \in isGuardian
    /\ isGuardian' = isGuardian \ {guardian}
    /\ UNCHANGED <<vars, isBanned, vetoProposals, objections, watchtowerEnabledAt,
                   watchtowerDisabledAt, watchtowerParameters>>

UpdateWatchtowerParameters(new) ==
    /\ watchtowerEnabledAt # 0
    /\ new.watchtowerLifetime >= watchtowerParameters.watchtowerLifetime
    /\ new.vetoPenaltyFeeDivisor >= 20 \/ new.vetoPenaltyFeeDivisor = 0
    /\ new.levelTwoDelay >= new.levelOneDelay
    /\ new.levelOneDelay >= new.defaultDelay
    /\ watchtowerParameters' = new
    /\ UNCHANGED <<vars, isGuardian, isBanned, vetoProposals, objections,
                   watchtowerEnabledAt, watchtowerDisabledAt>>

Unban(redeemer) ==
    /\ watchtowerEnabledAt # 0
    /\ redeemer \in isBanned
    /\ isBanned' = isBanned \ {redeemer}
    /\ UNCHANGED <<vars, isGuardian, vetoProposals, objections, watchtowerEnabledAt,
                   watchtowerDisabledAt, watchtowerParameters>>

-----------------------------------------------------------------------------
(* Objections and vetoes.                                                  *)

RedemptionDelay(objectionsCount, requestedAmount) ==
    IF watchtowerDisabledAt # 0 \/ requestedAmount < watchtowerParameters.waivedAmountLimit
    THEN 0
    ELSE CASE objectionsCount = 0 -> watchtowerParameters.defaultDelay
           [] objectionsCount = 1 -> watchtowerParameters.levelOneDelay
           [] objectionsCount = 2 -> watchtowerParameters.levelTwoDelay

\* Mutant: the objections to a request are not limited in time.
ObjectableForever(key) == TRUE

\* A request older than the watchtower can be objected to at any time.
Objectable(key) ==
    LET request == pendingRedemptions[key]
    IN  request.requestedAt >= watchtowerEnabledAt =>
            now < request.requestedAt
                  + RedemptionDelay(vetoProposals[key].objectionsCount,
                                    request.requestedAmount)

\* Mutant: a guardian may object again.
ObjectAgain(key, guardian) == objections' = objections \union {<<key, guardian>>}

RecordObjection(key, guardian) ==
    /\ <<key, guardian>> \notin objections
    /\ objections' = objections \union {<<key, guardian>>}

PenaltyFee(amount) ==
    IF watchtowerParameters.vetoPenaltyFeeDivisor > 0
    THEN amount \div watchtowerParameters.vetoPenaltyFeeDivisor ELSE 0

RaiseObjection(w, script, guardian) ==
    LET key == <<w, script>>
        request == pendingRedemptions[key]
        count == vetoProposals[key].objectionsCount + 1
        penaltyFee == PenaltyFee(request.requestedAmount)
        Objected == [vetoProposals[key] EXCEPT !.redeemer = request.redeemer,
                                               !.objectionsCount = count]
        Finalized == [Objected EXCEPT
                         !.withdrawableAmount = request.requestedAmount - penaltyFee,
                         !.finalizedAt = now]
    IN  /\ guardian \in isGuardian
        /\ count <= REQUIRED_OBJECTIONS_COUNT
        /\ Exists(request)
        /\ Objectable(key)
        /\ RecordObjection(key, guardian)
        /\ \/ /\ count < REQUIRED_OBJECTIONS_COUNT
              /\ vetoProposals' = [vetoProposals EXCEPT ![key] = Objected]
              /\ UNCHANGED <<vars, isBanned>>
           \/ /\ count = REQUIRED_OBJECTIONS_COUNT
              /\ vetoProposals' = [vetoProposals EXCEPT ![key] = Finalized]
              /\ isBanned' = isBanned \union {request.redeemer}
              /\ NotifyRedemptionVeto(w, script, penaltyFee)
              /\ UNCHANGED <<movedFundsSweepRequests, depositVars, fraudVars>>
        /\ UNCHANGED <<isGuardian, watchtowerEnabledAt, watchtowerDisabledAt,
                       watchtowerParameters>>

\* Mutant: the withdrawn amount stays withdrawable.
KeepWithdrawable(key) == UNCHANGED vetoProposals

ClearWithdrawable(key) ==
    vetoProposals' = [vetoProposals EXCEPT ![key].withdrawableAmount = 0]

\* Called by the redeemer of the request.
WithdrawVetoedFunds(key) ==
    LET veto == vetoProposals[key]
    IN  /\ veto.finalizedAt # 0
        /\ now > veto.finalizedAt + watchtowerParameters.vetoFreezePeriod
        /\ veto.withdrawableAmount > 0
        /\ ClearWithdrawable(key)
        /\ CanDecrease(balanceOf, Watchtower, veto.withdrawableAmount)
        /\ balanceOf' = Transferred(balanceOf, Watchtower, veto.redeemer,
                                    veto.withdrawableAmount)
        /\ UNCHANGED <<now, walletStorage, movedFundsSweepRequests, redemptionVars,
                       depositVars, fraudVars, isGuardian, isBanned, objections,
                       watchtowerEnabledAt, watchtowerDisabledAt,
                       watchtowerParameters>>

\* Mutant: keys with objections may be used again.
SafeIfNotBanned(w, script, owner, redeemer) == {owner, redeemer} \intersect isBanned = {}

IsSafeRedemption(w, script, owner, redeemer) ==
    /\ owner \notin isBanned
    /\ redeemer \notin isBanned
    /\ vetoProposals[<<w, script>>].objectionsCount = 0

-----------------------------------------------------------------------------
(* The Bridge under the watchtower.                                        *)

WatchedRequestNext(w) ==
    \E s \in Script, owner \in User \union Vault, redeemer \in User :
        /\ IsSafeRedemption(w, s, owner, redeemer)
        /\ \E amount \in 1..balanceOf[owner] :
              \E treasuryFee \in RedemptionTreasuryFees(amount) :
                  RequestRedemption(w, s, owner, redeemer, amount, treasuryFee)

WatchedBridgeNext ==
    /\ \/ QuietNext
       \/ /\ SweepNext
          /\ UNCHANGED <<movedFundsSweepRequests, redemptionVars, fraudVars>>
       \/ /\ \E w \in Wallet : WatchedRequestNext(w) \/ SettleNext(w)
          /\ UNCHANGED <<movedFundsSweepRequests, depositVars, fraudVars>>
       \/ \E account \in Account \ {Watchtower} : OwnerNext(account)
    /\ UNCHANGED watchtowerVars

WatchtowerNext ==
    \/ \E guardians \in SUBSET Guardian : EnableWatchtower(guardians)
    \/ DisableWatchtower
    \/ \E guardian \in Guardian :
          \/ AddGuardian(guardian)
          \/ RemoveGuardian(guardian)
          \/ \E w \in Wallet, s \in Script : RaiseObjection(w, s, guardian)
    \/ \E new \in WatchtowerParameters : UpdateWatchtowerParameters(new)
    \/ \E redeemer \in User : Unban(redeemer)
    \/ \E key \in RedemptionKey : WithdrawVetoedFunds(key)

WatchedInit == Init /\ WatchtowerInit
WatchedNext == WatchedBridgeNext \/ WatchtowerNext
watchedVars == <<vars, watchtowerVars>>
WatchedSpec == WatchedInit /\ [][WatchedNext]_watchedVars

-----------------------------------------------------------------------------
WatchedTypeOK == TypeOK /\ WatchtowerTypeOK

\* The watchtower holds the balance of every vetoed redemption whose redeemer
\* has not withdrawn it yet: withdrawVetoedFunds cannot fail for want of balance
\* and pays nobody at the expense of another redeemer.
WithdrawableAmounts == [k \in RedemptionKey |-> vetoProposals[k].withdrawableAmount]
DetainedFundsHeld == balanceOf[Watchtower] >= Total(WithdrawableAmounts)

\* A veto takes three guardians: no guardian counts twice.
ObjectionsCountExact ==
    \A k \in RedemptionKey :
        vetoProposals[k].objectionsCount =
            Cardinality({g \in Guardian : <<k, g>> \in objections})

\* The objections kept under a redemption key concern the request pending under
\* it, and nothing is pending under a vetoed key: isSafeRedemption refuses keys
\* with objections, which are never erased.
ObjectionsConcernPending ==
    \A k \in RedemptionKey :
        Exists(pendingRedemptions[k]) /\ vetoProposals[k].objectionsCount > 0 =>
            /\ vetoProposals[k].redeemer = pendingRedemptions[k].redeemer
            /\ vetoProposals[k].finalizedAt = 0
            /\ vetoProposals[k].objectionsCount < REQUIRED_OBJECTIONS_COUNT

\* Once the delay of a request is over, the wallet may pay it: no objection can
\* start another delay, unless the manager changes the delays.
Released(k) ==
    /\ Exists(pendingRedemptions[k])
    /\ watchtowerEnabledAt # 0
    /\ pendingRedemptions[k].requestedAt >= watchtowerEnabledAt
    /\ now >= pendingRedemptions[k].requestedAt
               + RedemptionDelay(vetoProposals[k].objectionsCount,
                                 pendingRedemptions[k].requestedAmount)
ReleasedRequestsStayReleased ==
    [][UNCHANGED watchtowerParameters =>
           \A k \in RedemptionKey :
               Released(k) /\ Exists(pendingRedemptions[k])' => Released(k)']_watchedVars

\* Neither the veto nor the penalty and the withdrawal lose track of the backing:
\* the composition does nothing to the Bridge and the Bank that Bridge does not
\* allow.
BridgeSpec == Spec
=============================================================================
