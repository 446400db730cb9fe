---------------------------- MODULE RebateStaking ----------------------------
(***************************************************************************)
(* RebateStaking: T tokens staked in return for rebates on the treasury    *)
(* fees of deposits and redemptions.  A staker may have rebates of up to   *)
(* its stake divided by rebatePerToken within a rolling window; it may let *)
(* one delegatee use them, withdraw the stake after a period of unstaking, *)
(* and the owner may move the stake to another address.                    *)
(*                                                                         *)
(* Of the Bridge, the callers of applyForRebate and cancelRebate, the      *)
(* module keeps the redemption requests a timeout may still be notified    *)
(* for; everything else about them is in Bridge.tla, which lets the        *)
(* treasury fee of a deposit or a request be any part of the full fee.     *)
(***************************************************************************)
EXTENDS Sums, Sequences

CONSTANTS
    RebateUser,                   \* addresses, but for 0x0 and that of this contract
    ZeroAddress,
    RequestKey,                   \* redemption keys of the Bridge
    TokenSupply,                  \* TokenSupply[u]: T tokens u has at the start
    RollingWindow,                \* bound: rolling windows the owner may set
    UnstakingPeriod,              \* bound: unstaking periods the owner may set
    RebatePerToken,               \* bound: coefficients the owner may set
    FeeMode,                      \* bound: modes users set
    TreasuryFee,                  \* bound: full treasury fees the Bridge computes
    RequestTimeout,               \* Bridge.redemptionTimeout
    UINT64_MAX,
    MaxRebates,                   \* bound on the rebates a transferred stake may have
    FirstBlockTime, LastBlockTime \* bound on the time

RebateTreasuryFeeMode == {"Both", "DepositOnly", "RedemptionOnly"}

ASSUME RebateStakingAssumption ==
    /\ IsFiniteSet(RebateUser) /\ ZeroAddress \notin RebateUser
    /\ TokenSupply \in [RebateUser -> Nat]
    /\ RollingWindow \subseteq Nat \ {0}
    /\ UnstakingPeriod \subseteq Nat
    /\ RebatePerToken \subseteq Nat
    /\ FeeMode \subseteq RebateTreasuryFeeMode
    /\ TreasuryFee \subseteq 0..UINT64_MAX
    /\ {RequestTimeout, UINT64_MAX, MaxRebates, FirstBlockTime, LastBlockTime} \subseteq Nat
    /\ FirstBlockTime > 0

VARIABLES
    blockTime,                    \* block.timestamp
    rollingWindow, unstakingPeriod, rebatePerToken,
    stakedAmount, unstakingAmount, unstakingTimestamp,  \* the fields of stakes[u]
    rollingWindowStartIndex, rebates, rebateTreasuryFeeMode, delegatee,
    delegates,                    \* delegates[d]: the staker d may use the rebates of
    tokenBalance, heldTokens,     \* T tokens of the users, and of this contract
    requests,                     \* pending redemption requests of the Bridge
    countedFrom                   \* history: rebates of u from then on are all counted

parameterVars == <<rollingWindow, unstakingPeriod, rebatePerToken>>
stakeVars == <<stakedAmount, unstakingAmount, unstakingTimestamp>>
rebateVars == <<rollingWindowStartIndex, rebates, countedFrom>>
delegationVars == <<delegatee, delegates>>
tokenVars == <<tokenBalance, heldTokens>>
stakingVars == <<blockTime, parameterVars, stakeVars, rebateVars, rebateTreasuryFeeMode,
                 delegationVars, tokenVars, requests>>

Rebate == [timestamp : Nat, feeRebate : 0..UINT64_MAX]
NoRequest == [redeemer |-> ZeroAddress, requestedAt |-> 0]
Request == [redeemer : RebateUser, requestedAt : Nat] \union {NoRequest}

StakingTypeOK ==
    /\ blockTime \in Nat
    /\ rollingWindow \in Nat \ {0}
    /\ unstakingPeriod \in Nat
    /\ rebatePerToken \in Nat
    /\ stakedAmount \in [RebateUser -> Nat]
    /\ unstakingAmount \in [RebateUser -> Nat]
    /\ unstakingTimestamp \in [RebateUser -> Nat]
    /\ rollingWindowStartIndex \in [RebateUser -> Nat]
    /\ rebates \in [RebateUser -> Seq(Rebate)]
    /\ rebateTreasuryFeeMode \in [RebateUser -> RebateTreasuryFeeMode]
    /\ delegatee \in [RebateUser -> RebateUser \union {ZeroAddress}]
    /\ delegates \in [RebateUser -> RebateUser \union {ZeroAddress}]
    /\ tokenBalance \in [RebateUser -> Nat]
    /\ heldTokens \in Nat
    /\ requests \in [RequestKey -> Request]
    /\ countedFrom \in [RebateUser -> Nat]

StakingInit ==
    /\ blockTime = FirstBlockTime
    /\ rollingWindow \in RollingWindow
    /\ unstakingPeriod \in UnstakingPeriod
    /\ rebatePerToken \in RebatePerToken
    /\ stakedAmount = [u \in RebateUser |-> 0]
    /\ unstakingAmount = [u \in RebateUser |-> 0]
    /\ unstakingTimestamp = [u \in RebateUser |-> 0]
    /\ rollingWindowStartIndex = [u \in RebateUser |-> 0]
    /\ rebates = [u \in RebateUser |-> <<>>]
    /\ rebateTreasuryFeeMode = [u \in RebateUser |-> "Both"]
    /\ delegatee = [u \in RebateUser |-> ZeroAddress]
    /\ delegates = [u \in RebateUser |-> ZeroAddress]
    /\ tokenBalance = TokenSupply
    /\ heldTokens = 0
    /\ requests = [k \in RequestKey |-> NoRequest]
    /\ countedFrom = [u \in RebateUser |-> 0]

-----------------------------------------------------------------------------
(* Calls of the owner.                                                     *)

UpdateRollingWindow(new) ==
    /\ new # 0
    /\ rollingWindow' = new
    /\ UNCHANGED <<blockTime, unstakingPeriod, rebatePerToken, stakeVars, rebateVars,
                   rebateTreasuryFeeMode, delegationVars, tokenVars, requests>>

UpdateUnstakingPeriod(new) ==
    /\ unstakingPeriod' = new
    /\ UNCHANGED <<blockTime, rollingWindow, rebatePerToken, stakeVars, rebateVars,
                   rebateTreasuryFeeMode, delegationVars, tokenVars, requests>>

UpdateRebatePerToken(new) ==
    /\ rebatePerToken' = new
    /\ UNCHANGED <<blockTime, rollingWindow, unstakingPeriod, stakeVars, rebateVars,
                   rebateTreasuryFeeMode, delegationVars, tokenVars, requests>>

\* Mutant: what was moved stays where it was, too.
Copied(f, oldStaker, newStaker, left) == [f EXCEPT ![newStaker] = f[oldStaker]]

Moved(f, oldStaker, newStaker, left) ==
    [f EXCEPT ![newStaker] = f[oldStaker], ![oldStaker] = left]

\* The rebates of the old staker are copied, and stay in its own list too.  When
\* the new staker had some before, the list is not ordered, and countedFrom
\* claims nothing of either.
ForceStakeTransfer(oldStaker, newStaker) ==
    LET Move(f, left) == Moved(f, oldStaker, newStaker, left)
        d == delegatee[oldStaker]
    IN  /\ stakedAmount[oldStaker] # 0
        /\ stakedAmount[newStaker] = 0
        /\ delegates[newStaker] = ZeroAddress
        /\ stakedAmount' = Move(stakedAmount, 0)
        /\ unstakingAmount' = Move(unstakingAmount, 0)
        /\ unstakingTimestamp' = Move(unstakingTimestamp, 0)
        /\ rebateTreasuryFeeMode' = Move(rebateTreasuryFeeMode, "Both")
        /\ rollingWindowStartIndex' = Move(rollingWindowStartIndex, 0)
        /\ rebates' = [rebates EXCEPT ![newStaker] = rebates[newStaker] \o rebates[oldStaker]]
        /\ countedFrom' = [countedFrom EXCEPT ![newStaker] =
               IF rebates[newStaker] = <<>> THEN countedFrom[oldStaker] ELSE blockTime + 1]
        /\ IF d = ZeroAddress THEN UNCHANGED delegationVars
           ELSE /\ delegatee' = Move(delegatee, ZeroAddress)
                /\ delegates' = [delegates EXCEPT ![d] = newStaker]
        /\ UNCHANGED <<blockTime, parameterVars, tokenVars, requests>>

-----------------------------------------------------------------------------
(* Calls of users.                                                         *)

SetRebateTreasuryFeeMode(user, mode) ==
    /\ rebateTreasuryFeeMode' = [rebateTreasuryFeeMode EXCEPT ![user] = mode]
    /\ UNCHANGED <<blockTime, parameterVars, stakeVars, rebateVars, delegationVars,
                   tokenVars, requests>>

\* Mutant: the delegatee of user is not told.
StillDelegated(user) == delegates

\* delegates without the delegation of user.
Undelegated(user) ==
    [d \in RebateUser |-> IF d = delegatee[user] THEN ZeroAddress ELSE delegates[d]]

SetDelegatee(user, d) ==
    /\ stakedAmount[user] # 0
    /\ IF d \in {ZeroAddress, user}
       THEN /\ delegatee' = [delegatee EXCEPT ![user] = ZeroAddress]
            /\ delegates' = Undelegated(user)
       ELSE /\ Undelegated(user)[d] = ZeroAddress
            /\ stakedAmount[d] = 0
            /\ delegatee' = [delegatee EXCEPT ![user] = d]
            /\ delegates' = [Undelegated(user) EXCEPT ![d] = user]
    /\ UNCHANGED <<blockTime, parameterVars, stakeVars, rebateVars, rebateTreasuryFeeMode,
                   tokenVars, requests>>

\* A delegatee that stakes is no delegatee any more.
StakeTokens(user, amount) ==
    /\ amount # 0
    /\ amount <= tokenBalance[user]
    /\ delegatee' = [s \in RebateUser |->
           IF s = delegates[user] THEN ZeroAddress ELSE delegatee[s]]
    /\ delegates' = [delegates EXCEPT ![user] = ZeroAddress]
    /\ stakedAmount' = [stakedAmount EXCEPT ![user] = @ + amount]
    /\ tokenBalance' = [tokenBalance EXCEPT ![user] = @ - amount]
    /\ heldTokens' = heldTokens + amount
    /\ UNCHANGED <<blockTime, parameterVars, unstakingAmount, unstakingTimestamp, rebateVars,
                   rebateTreasuryFeeMode, requests>>

StartUnstaking(user, amount) ==
    /\ amount # 0
    /\ unstakingTimestamp[user] = 0
    /\ amount <= stakedAmount[user]
    /\ unstakingTimestamp' = [unstakingTimestamp EXCEPT ![user] = blockTime]
    /\ unstakingAmount' = [unstakingAmount EXCEPT ![user] = amount]
    /\ UNCHANGED <<blockTime, parameterVars, stakedAmount, rebateVars, rebateTreasuryFeeMode,
                   delegationVars, tokenVars, requests>>

FinalizeUnstaking(user, to) ==
    /\ unstakingTimestamp[user] # 0
    /\ unstakingTimestamp[user] + unstakingPeriod <= blockTime
    /\ stakedAmount' = [stakedAmount EXCEPT ![user] = @ - unstakingAmount[user]]
    /\ unstakingAmount' = [unstakingAmount EXCEPT ![user] = 0]
    /\ unstakingTimestamp' = [unstakingTimestamp EXCEPT ![user] = 0]
    /\ IF stakedAmount[user] = unstakingAmount[user]
       THEN /\ delegates' = Undelegated(user)
            /\ delegatee' = [delegatee EXCEPT ![user] = ZeroAddress]
       ELSE UNCHANGED delegationVars
    /\ tokenBalance' = [tokenBalance EXCEPT ![to] = @ + unstakingAmount[user]]
    /\ heldTokens' = heldTokens - unstakingAmount[user]
    /\ UNCHANGED <<blockTime, parameterVars, rebateVars, rebateTreasuryFeeMode, requests>>

-----------------------------------------------------------------------------
(* Calls of the Bridge.                                                    *)

WindowStart == blockTime - rollingWindow

GetRebateCap(user) ==
    IF rebatePerToken = 0 THEN 0
    ELSE (stakedAmount[user] - unstakingAmount[user]) \div rebatePerToken

GetStaker(user) ==
    IF stakedAmount[user] = 0 /\ delegates[user] # ZeroAddress THEN delegates[user] ELSE user

IsRebateEnabled(user, type) ==
    \/ rebateTreasuryFeeMode[user] = "Both"
    \/ rebateTreasuryFeeMode[user] = "DepositOnly" /\ type = "Deposit"
    \/ rebateTreasuryFeeMode[user] = "RedemptionOnly" /\ type = "Redemption"

\* The rebates a loop over them starts with, and those that left the window.
Remembered(user) == (rollingWindowStartIndex[user] + 1)..Len(rebates[user])

\* Mutant: the start of the window is not in the window.
ExpiredAtStart(user) == {i \in Remembered(user) : rebates[user][i].timestamp <= WindowStart}

Expired(user) == {i \in Remembered(user) : rebates[user][i].timestamp < WindowStart}

RebateInRollingWindow(user) ==
    Total([i \in Remembered(user) \ Expired(user) |-> rebates[user][i].feeRebate])

\* The rebate a staker gets on a fee: what is left of its cap.
RebateOn(user, fee) ==
    LET left == GetRebateCap(user) - RebateInRollingWindow(user)
    IN  IF left > fee THEN fee ELSE left

\* A loop that skips n expired rebates does not look at what is that old again.
SkipRebates(user, n) ==
    /\ rollingWindowStartIndex' = [rollingWindowStartIndex EXCEPT ![user] = @ + n]
    /\ countedFrom' = [countedFrom EXCEPT ![user] =
                           IF @ < WindowStart THEN WindowStart ELSE @]

Rebated(user, type) ==
    /\ IsRebateEnabled(user, type) /\ GetRebateCap(user) # 0
    /\ RebateInRollingWindow(user) < GetRebateCap(user)

GrantRebate(user, fee) ==
    rebates' = [rebates EXCEPT ![user] =
        Append(@, [timestamp |-> blockTime, feeRebate |-> RebateOn(user, fee)])]

\* Reverts when the cap or the sum overflows, or a window starts before time 0.
ApplyForRebate(user, fee, type) ==
    LET staker == GetStaker(user)
    IN  IF ~IsRebateEnabled(staker, type) \/ GetRebateCap(staker) = 0
        THEN UNCHANGED rebateVars
        ELSE /\ GetRebateCap(staker) <= UINT64_MAX
             /\ rebates[staker] # <<>> => /\ rollingWindow <= blockTime
                                          /\ RebateInRollingWindow(staker) <= UINT64_MAX
             /\ SkipRebates(staker, Cardinality(Expired(staker)))
             /\ IF Rebated(staker, type) THEN GrantRebate(staker, fee) ELSE UNCHANGED rebates

\* The rebate that cancels the loop: granted at that time, and still in the window.
\* The loop also ends at the first rebate granted later.
CancelRebate(user, requestedAt) ==
    LET staker == GetStaker(user)
        Granted(i) == rebates[staker][i].timestamp
        Ends(i) == \/ Granted(i) > requestedAt
                   \/ Granted(i) = requestedAt /\ Granted(i) >= WindowStart
        Reached(i) == \A j \in Remembered(staker) : j < i => ~Ends(j)
        Cancelled(i) == /\ i \in Remembered(staker) /\ Reached(i)
                        /\ Ends(i) /\ Granted(i) = requestedAt
    IN  IF stakedAmount[staker] = 0 THEN UNCHANGED rebateVars
        ELSE /\ rollingWindow <= blockTime
             /\ SkipRebates(staker, Cardinality(
                    {i \in Expired(staker) : Reached(i) /\ ~Ends(i)}))
             /\ rebates' = [rebates EXCEPT ![staker] =
                    [i \in 1..Len(rebates[staker]) |->
                        IF Cancelled(i) THEN [rebates[staker][i] EXCEPT !.feeRebate = 0]
                        ELSE rebates[staker][i]]]

\* Deposit.revealDeposit asks for a rebate when there is a fee.
RevealDeposit(depositor, fee) ==
    /\ fee # 0
    /\ ApplyForRebate(depositor, fee, "Deposit")
    /\ UNCHANGED <<blockTime, parameterVars, stakeVars, rebateTreasuryFeeMode, delegationVars,
                   tokenVars, requests>>

\* So does Redemption.requestRedemption.
RequestRedemption(key, redeemer, fee) ==
    /\ requests[key] = NoRequest
    /\ IF fee = 0 THEN UNCHANGED rebateVars ELSE ApplyForRebate(redeemer, fee, "Redemption")
    /\ requests' = [requests EXCEPT ![key] =
           [redeemer |-> redeemer, requestedAt |-> blockTime]]
    /\ UNCHANGED <<blockTime, parameterVars, stakeVars, rebateTreasuryFeeMode, delegationVars,
                   tokenVars>>

NotifyRedemptionTimeout(key) ==
    /\ requests[key] # NoRequest
    /\ requests[key].requestedAt + RequestTimeout < blockTime
    /\ CancelRebate(requests[key].redeemer, requests[key].requestedAt)
    /\ requests' = [requests EXCEPT ![key] = NoRequest]
    /\ UNCHANGED <<blockTime, parameterVars, stakeVars, rebateTreasuryFeeMode, delegationVars,
                   tokenVars>>

\* A proof or a veto ends a request without a call of this contract.
EndRequest(key) ==
    /\ requests[key] # NoRequest
    /\ requests' = [requests EXCEPT ![key] = NoRequest]
    /\ UNCHANGED <<blockTime, parameterVars, stakeVars, rebateVars, rebateTreasuryFeeMode,
                   delegationVars, tokenVars>>

NextBlock ==
    /\ blockTime < LastBlockTime
    /\ blockTime' = blockTime + 1
    /\ UNCHANGED <<parameterVars, stakeVars, rebateVars, rebateTreasuryFeeMode,
                   delegationVars, tokenVars, requests>>

-----------------------------------------------------------------------------
OwnerNext ==
    \/ \E new \in RollingWindow : UpdateRollingWindow(new)
    \/ \E new \in UnstakingPeriod : UpdateUnstakingPeriod(new)
    \/ \E new \in RebatePerToken : UpdateRebatePerToken(new)
    \/ \E oldStaker, newStaker \in RebateUser :
          /\ Len(rebates[oldStaker]) + Len(rebates[newStaker]) <= MaxRebates
          /\ ForceStakeTransfer(oldStaker, newStaker)

UserNext(user) ==
    \/ \E mode \in FeeMode : SetRebateTreasuryFeeMode(user, mode)
    \/ \E d \in RebateUser \union {ZeroAddress} : SetDelegatee(user, d)
    \/ \E amount \in 1..tokenBalance[user] : StakeTokens(user, amount)
    \/ \E amount \in 1..stakedAmount[user] : StartUnstaking(user, amount)
    \/ \E to \in RebateUser : FinalizeUnstaking(user, to)

FeeNext(user) ==
    \E fee \in TreasuryFee :
        \/ RevealDeposit(user, fee)
        \/ \E key \in RequestKey : RequestRedemption(key, user, fee)

StakingNext ==
    \/ OwnerNext
    \/ \E user \in RebateUser : UserNext(user) \/ FeeNext(user)
    \/ \E key \in RequestKey : NotifyRedemptionTimeout(key) \/ EndRequest(key)
    \/ NextBlock

StakingSpec == StakingInit /\ [][StakingNext]_stakingVars

-----------------------------------------------------------------------------
(***************************************************************************)
(* Properties.                                                             *)
(***************************************************************************)

\* The contract holds exactly the tokens at stake, and never owes more of a
\* stake than there is of it: unstaking, withdrawals and transfers of stakes,
\* in any order, neither lose tokens nor pay them out twice.
StakesHeld ==
    /\ heldTokens = Total(stakedAmount)
    /\ \A u \in RebateUser : unstakingAmount[u] <= stakedAmount[u]

\* delegatee and delegates are two views of one relation, from stakers to users
\* without a stake: staking, unstaking, changing a delegatee and transferring a
\* stake keep both mappings in step.
DelegationsMutual ==
    /\ \A s, d \in RebateUser : delegatee[s] = d <=> delegates[d] = s
    /\ \A s \in RebateUser : delegatee[s] # ZeroAddress =>
           stakedAmount[s] > 0 /\ stakedAmount[delegatee[s]] = 0

\* The start index never passes a rebate that is to be counted, though it is
\* moved by one for each expired rebate and not past the last of them: rebates
\* that count come after all others, in the order they were granted.
StartIndexSound ==
    \A u \in RebateUser :
        /\ rollingWindowStartIndex[u] <= Len(rebates[u])
        /\ \A i \in 1..rollingWindowStartIndex[u] : rebates[u][i].timestamp < countedFrom[u]
        /\ \A i, j \in 1..Len(rebates[u]) :
               i < j /\ rebates[u][i].timestamp >= countedFrom[u]
                   => rebates[u][i].timestamp <= rebates[u][j].timestamp

\* The rebates of user in the rolling window, granted at time from or later.
RebatesSince(user, from) ==
    Total([i \in {j \in 1..Len(rebates[user]) :
                     rebates[user][j].timestamp >= (IF from < WindowStart THEN WindowStart
                                                    ELSE from)}
           |-> rebates[user][i].feeRebate])

\* A rebate is never granted beyond the cap: with it, the rebates the staker has
\* had in the rolling window are within what its stake gives.  This leaves out
\* what was skipped before the window was made longer, and what both had when a
\* stake was transferred to a user with rebates of its own.
GrantedWithinCap ==
    [][\A u \in RebateUser :
          stakedAmount' = stakedAmount /\ Len(rebates'[u]) > Len(rebates[u])
              => RebatesSince(u, countedFrom[u])' <= GetRebateCap(u)]_stakingVars
=============================================================================
