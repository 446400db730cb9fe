---------------------------- MODULE MCOperations ----------------------------
(***************************************************************************)
(* One run for what surrounds the Bridge: the upgrade scripts, the wallet   *)
(* simulation, the Sui gateway with its set-up programs and rebate staking. *)
(* They share no state: a behaviour exercises one of them, its `theme`.     *)
(* Rebate staking has two, one for stakes and one for rebates.             *)
(***************************************************************************)
EXTENDS BridgeUpgrade, Simulation, SuiGateway, RebateStaking

CONSTANTS Wealthy, Helper, Bystander  \* the users of RebateStaking

VARIABLE theme

(* TIP-109 and the hotfix that followed it.                                  *)
MCChanges ==
  <<{"Deposit", "Redemption", "Bridge", "RebateStaking"},
    {"Redemption", "RebateStaking"}>>

Message(id, chain, emitter, amount) ==
  [id |-> id, chain |-> chain, emitter |-> emitter, amount |-> amount]
MCVaa ==
  {Message(1, 2, "tokenBridge", 1), Message(2, 2, "tokenBridge", 2),
   Message(3, 10002, "tokenBridge", 1), Message(4, 10002, "tokenBridge", 2),
   Message(5, 2, "btcDepositorWormhole", 1)}

MCRebateUser == {Wealthy, Helper, Bystander}
MCTokenSupply == [u \in MCRebateUser |-> IF u = Bystander THEN 0 ELSE 2]

\* Three users, and no rebates.
StakesNext ==
  /\ StakingNext
  /\ rebates' = rebates /\ requests' = requests /\ rollingWindow' = rollingWindow

\* One stake of two tokens and two users, with rebates.
RebatesNext ==
  /\ StakingNext
  /\ rebateTreasuryFeeMode' = rebateTreasuryFeeMode
  /\ tokenBalance'[Helper] >= tokenBalance[Helper]
  /\ \A u \in RebateUser : stakedAmount'[u] # 1
  /\ tokenBalance'[Bystander] + stakedAmount'[Bystander] = 0
  /\ delegates'[Bystander] = ZeroAddress
  /\ \A k \in RequestKey : requests'[k].redeemer # Bystander

OperationsInit ==
  /\ theme \in {"upgrade", "simulation", "sui", "stakes", "rebates"}
  /\ UpgradeInit /\ (theme # "upgrade" => network = "mainnet")
  /\ SimulationInit /\ (theme # "simulation" => transfer = "transferToActive")
  /\ SuiInit /\ (theme # "sui" => suiNetwork = "mainnet")
  /\ StakingInit
  /\ theme # "rebates" => rollingWindow = 1

OperationsNext ==
  /\ UNCHANGED theme
  /\ \/ /\ theme = "upgrade" /\ UpgradeNext
        /\ UNCHANGED <<simulationVars, suiVars, stakingVars>>
     \/ /\ theme = "simulation" /\ SimulationNext
        /\ UNCHANGED <<upgradeVars, suiVars, stakingVars>>
     \/ /\ theme = "sui" /\ SuiNext
        /\ UNCHANGED <<upgradeVars, simulationVars, stakingVars>>
     \/ /\ \/ theme = "stakes" /\ StakesNext
           \/ theme = "rebates" /\ RebatesNext
        /\ UNCHANGED <<upgradeVars, simulationVars, suiVars>>
=============================================================================
