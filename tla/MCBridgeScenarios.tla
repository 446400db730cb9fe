------------------------- MODULE MCBridgeScenarios -------------------------
(* Runs of the Bridge that check several small instances at once: what each *)
(* behaviour uses of the constants depends on its scenario.                 *)
EXTENDS MCBridge

CONSTANT Scenarios
VARIABLE scenario

\* How many wallets and scripts are used, the amount deposited, the last block
\* time, what the wallets may have signed and whether balances are transferred.
Scenario(wallets, scripts, amount, time, sighashes, transfers) ==
    [wallets |-> wallets, scripts |-> scripts, amount |-> amount, time |-> time,
     sighashes |-> sighashes, transfers |-> transfers]

Instances ==
    [redemption |-> Scenario(1, 2, 4, 3, {}, TRUE),
     retirement |-> Scenario(2, 1, 3, 4, {}, FALSE),
     movingFunds |-> Scenario(3, 0, 3, 4, {}, FALSE),
     fraud |-> Scenario(1, 0, 3, 3, MCSighash, FALSE),
     movedFundsFraud |-> Scenario(2, 0, 3, 3, MCMovedSighash, FALSE)]

AnySighash == MCSighash \union MCMovedSighash

KnownWallets == {w \in Wallet : walletState[w] # "Unknown"}
UsedScripts ==
    {s \in Script : \E w \in Wallet : \/ Exists(pendingRedemptions[<<w, s>>])
                                      \/ Exists(timedOutRedemptions[<<w, s>>])}

Within(instance) ==
    /\ now <= instance.time
    /\ Cardinality(KnownWallets) <= instance.wallets
    /\ Cardinality(UsedScripts) <= instance.scripts
    /\ \A d \in DepositKey : deposits[d].amount \in {0, instance.amount}
    /\ \A k \in ChallengeKey :
          fraudChallenges[k].reportedAt > 0 => k[2] \in instance.sighashes

\* Without symmetry the only wallet is always the same one.
SameWallet == scenario = "fraud" => KnownWallets \subseteq {CHOOSE w \in Wallet : TRUE}

ScenariosInit == scenario \in Scenarios /\ Init
ScenariosNext ==
    /\ Next /\ UNCHANGED scenario
    /\ Within(Instances[scenario])' /\ SameWallet'
    /\ ~Instances[scenario].transfers =>
          ~UNCHANGED <<now, walletStorage, movedFundsSweepRequests, redemptionVars,
                       depositVars, fraudVars>>
ScenariosSpec == ScenariosInit /\ [][ScenariosNext]_<<vars, scenario>>
=============================================================================
