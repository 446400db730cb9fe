--------------------------- MODULE BridgeUpgrade ---------------------------
(***************************************************************************)
(* The upgrade of the Bridge and of RebateStaking by the deploy scripts 80 *)
(* to 86 of src/solidity/deploy.  A script runs step by step, keeps what   *)
(* it deployed as hardhat-deploy artifacts, and may die between two steps. *)
(* Where the deployer owns the ProxyAdmin it upgrades the proxies itself;  *)
(* on mainnet the Timelock owns it, and the scripts 85 and 86 leave a plan *)
(* of calldata that the Council schedules and executes later, action by    *)
(* action.                                                                 *)
(*                                                                         *)
(* A contract's code is the revision of the sources that last changed it;  *)
(* the libraries that never change (DepositSweep, Wallets, Fraud,          *)
(* MovingFunds) and all printing and source verification are left out.     *)
(* Revision 1 (TIP-109) gives applyForRebate its third argument: Deposit   *)
(* and Redemption pass it, RebateStaking takes it.                         *)
(***************************************************************************)
EXTENDS Integers, Sequences, FiniteSetsExt

CONSTANTS
  UpgradeNetwork,   \* networks considered, of "mainnet", "sepolia", "hardhat"
  Changes,          \* Changes[r]: the contracts that revision r changed
  MaxScriptRuns,    \* bound on the runs of scripts
  MaxScriptFaults   \* bound on the runs that die between two steps

Revision == 0..Len(Changes)
ScriptName == {"UpgradeBridge", "UpgradeBridgeVaultFix",
               "DeployRebateAndPrepareTxs", "VerifyRebateDeployment",
               "RepairBridgeRebateStaking", "DeployTIP109GovernanceUpgrade",
               "DeployTIP109Hotfix"}

ASSUME UpgradeAssumption ==
  /\ UpgradeNetwork \subseteq {"mainnet", "sepolia", "hardhat"}
  /\ \A r \in 1..Len(Changes) :
        Changes[r] \subseteq {"Deposit", "Redemption", "Bridge", "RebateStaking"}
  /\ {MaxScriptRuns, MaxScriptFaults} \subseteq Nat

(* TIP-109 changes RebateStaking; the hotfixes after it leave Deposit alone   *)
(* ("PRs #939/#940 do not touch Deposit.sol").                               *)
ASSUME ReleaseAssumption ==
  /\ Len(Changes) \in Nat
  /\ Len(Changes) >= 1 => "RebateStaking" \in Changes[1]
  /\ \A r \in 2..Len(Changes) : "Deposit" \notin Changes[r]

VARIABLES
  network,        \* the network the scripts are run on
  revision,       \* the revision of the sources that is checked out
  artifacts,      \* artifact name -> version of the code recorded for it
  bridgeProxy,    \* the Bridge proxy: implementation, initialized, rebate, vault
  rebateProxy,    \* version behind the RebateStaking proxy, -1: no proxy
  plans,          \* the upgrade plans written so far
  script,         \* the script in progress
  report,         \* what script 83 last reported
  scriptRuns, scriptFaults

upgradeChainVars == <<bridgeProxy, rebateProxy>>
upgradeVars == <<network, revision, artifacts, upgradeChainVars, plans, script,
                 report, scriptRuns, scriptFaults>>

(* The version of a contract in revision r, and in the one checked out.     *)
VersionIn(contract, r) == Max({0} \cup {q \in 1..r : contract \in Changes[q]})
Version(contract) == VersionIn(contract, revision)

Nothing == [d \in {} |-> 0]
Idle == [name |-> "idle", step |-> 0, built |-> Nothing]
ProxyAdminOwnedByDeployer == network # "mainnet"

UpgradeInit ==
  /\ network \in UpgradeNetwork
  /\ revision = 0
  /\ artifacts = [c \in {"Deposit", "Redemption", "Bridge"} \cup
                        (IF network = "hardhat" THEN {} ELSE {"RebateStaking"})
                     |-> 0]
  /\ bridgeProxy \in
       [implementation : {[code |-> 0, deposit |-> 0, redemption |-> 0]},
        initialized : {1},
        rebate : IF network = "hardhat" THEN {"none"} ELSE {"stale", "proxy"},
        vault : IF network = "mainnet" THEN {"zero"} ELSE {"no deposit", "zero"}]
  /\ rebateProxy = IF network = "hardhat" THEN -1 ELSE 0
  /\ plans = <<>>
  /\ script = Idle
  /\ report = "none"
  /\ scriptRuns = 0
  /\ scriptFaults = 0

------------------------------------------------------------------------------
(* The reinitializers and the proxies, as the upgrade transactions run them. *)

MayInitializeV2 == bridgeProxy.initialized < 2 /\ bridgeProxy.vault = "zero"
InitializeV2_FixVaultZeroDeposit(b) ==
  [b EXCEPT !.initialized = 2, !.vault = "TBTCVault"]

MayInitializeV5(target) ==
  bridgeProxy.initialized < 5 /\ bridgeProxy.rebate # target
InitializeV5_RepairRebateStaking(b, target) ==
  [b EXCEPT !.initialized = 5, !.rebate = target]

UpgradedTo(implementation) ==
  [bridgeProxy EXCEPT !.implementation = implementation]

(* The Bridge implementation a script deploys, with the libraries it links. *)
BridgeLinked(depositLibrary, redemptionLibrary) ==
  [code |-> Version("Bridge"), deposit |-> depositLibrary,
   redemption |-> redemptionLibrary]

------------------------------------------------------------------------------
(* Running a script.                                                         *)

Merged(new, old) ==
  [n \in DOMAIN new \cup DOMAIN old |-> IF n \in DOMAIN new THEN new[n] ELSE old[n]]

At(name, step) == script.name = name /\ script.step = step
GoOn(built) ==
  script' = [script EXCEPT !.step = @ + 1, !.built = Merged(built, @)]
Stop == script' = Idle
RecordedAs(names, contract) ==
  artifacts' = Merged([n \in names |-> Version(contract)], artifacts)
Recorded(names) == artifacts' = Merged([n \in names |-> Version(n)], artifacts)

(* Conditions under which a script goes past func.skip and its first check:  *)
(* 82 and 83 throw outside of hardhat, 84 needs the SDK artifact of the      *)
(* network, 85 and 86 come with the revisions they deploy.                   *)
CanStart(name) ==
  CASE name \in {"DeployRebateAndPrepareTxs", "VerifyRebateDeployment"} ->
         network = "hardhat"
    [] name = "RepairBridgeRebateStaking" ->
         network # "hardhat" /\ revision >= 1
    [] name = "DeployTIP109GovernanceUpgrade" ->
         "RebateStaking" \in DOMAIN artifacts /\ revision >= 1
    [] name = "DeployTIP109Hotfix" ->
         /\ revision >= 2
         /\ \E i \in 1..Len(plans) :
               plans[i].script = "DeployTIP109GovernanceUpgrade"
    [] OTHER -> TRUE

StartScript(name) ==
  /\ script = Idle
  /\ scriptRuns < MaxScriptRuns
  /\ CanStart(name)
  /\ script' = [Idle EXCEPT !.name = name, !.step = 1]
  /\ scriptRuns' = scriptRuns + 1
  /\ UNCHANGED <<network, revision, artifacts, upgradeChainVars, plans, report,
                 scriptFaults>>

(* A transaction or a request fails: what was recorded stays.                *)
ScriptDies ==
  /\ script # Idle
  /\ scriptFaults < MaxScriptFaults
  /\ Stop
  /\ scriptFaults' = scriptFaults + 1
  /\ UNCHANGED <<network, revision, artifacts, upgradeChainVars, plans, report,
                 scriptRuns>>

CheckOutNextRevision ==
  /\ script = Idle
  /\ revision + 1 \in Revision
  /\ revision' = revision + 1
  /\ UNCHANGED <<network, artifacts, upgradeChainVars, plans, script, report,
                 scriptRuns, scriptFaults>>

(* Steps that only record and go on leave the chain and the plans alone.     *)
offChainVars == <<network, revision, plans, report, scriptRuns, scriptFaults>>
localVars == <<offChainVars, upgradeChainVars>>

------------------------------------------------------------------------------
(* 80: a new Deposit library, a new implementation, a plain upgrade.         *)

UpgradeBridgeDeposit ==
  /\ At("UpgradeBridge", 1)
  /\ Recorded({"Deposit"})
  /\ GoOn([Deposit |-> Version("Deposit")])
  /\ UNCHANGED localVars

UpgradeBridgeImplementation ==
  /\ At("UpgradeBridge", 2)
  /\ GoOn([Bridge |-> BridgeLinked(script.built["Deposit"],
                                   artifacts["Redemption"])])
  /\ UNCHANGED <<artifacts, localVars>>

(* The calldata printed for a ProxyAdmin of another owner goes nowhere: the   *)
(* header of the script forbids it to governance.                            *)
UpgradeBridgeProxy ==
  /\ At("UpgradeBridge", 3)
  /\ bridgeProxy' = IF ProxyAdminOwnedByDeployer
                      THEN UpgradedTo(script.built["Bridge"])
                      ELSE bridgeProxy
  /\ Stop
  /\ UNCHANGED <<artifacts, rebateProxy, offChainVars>>

(* 81: the recorded libraries, and initializeV2 in the upgrade transaction.  *)
UpgradeBridgeVaultFix ==
  LET implementation == BridgeLinked(artifacts["Deposit"], artifacts["Redemption"])
  IN
  /\ At("UpgradeBridgeVaultFix", 1)
  /\ IF ProxyAdminOwnedByDeployer /\ MayInitializeV2
       THEN /\ bridgeProxy' =
                 InitializeV2_FixVaultZeroDeposit(UpgradedTo(implementation))
            /\ Recorded({"Bridge"})
       ELSE UNCHANGED <<bridgeProxy, artifacts>>
  /\ Stop
  /\ UNCHANGED <<rebateProxy, offChainVars>>

------------------------------------------------------------------------------
(* 82: RebateStaking where there is none, an implementation on the recorded  *)
(* libraries, and a plan.                                                    *)

PrepareRebateStaking ==
  /\ At("DeployRebateAndPrepareTxs", 1)
  /\ IF "RebateStaking" \in DOMAIN artifacts
       THEN UNCHANGED <<artifacts, rebateProxy>>
       ELSE /\ Recorded({"RebateStaking"})
            /\ rebateProxy' = Version("RebateStaking")
  /\ GoOn(Nothing)
  /\ UNCHANGED <<bridgeProxy, offChainVars>>

PrepareBridgeImplementation ==
  /\ At("DeployRebateAndPrepareTxs", 2)
  /\ GoOn([Bridge |-> BridgeLinked(artifacts["Deposit"], artifacts["Redemption"])])
  /\ UNCHANGED <<artifacts, localVars>>

(* A plan: the upgrades the ProxyAdmin's owner executes, in this order.      *)
Upgrade(proxy, code, call) ==
  [proxy |-> proxy, implementation |-> code, call |-> call]
Plan(actions) ==
  [script |-> script.name, revision |-> revision, actions |-> actions,
   scheduled |-> FALSE, done |-> 0]
WritePlan(actions) ==
  /\ plans' = Append(plans, Plan(actions))
  /\ Stop
  /\ UNCHANGED <<network, revision, artifacts, upgradeChainVars, report,
                 scriptRuns, scriptFaults>>

WriteRebatePlan ==
  /\ At("DeployRebateAndPrepareTxs", 3)
  /\ WritePlan(<<Upgrade("Bridge", script.built["Bridge"], "none")>>)

(* 83: compares the chain with the newest plan of 82, one read at a time.    *)
RebatePlans == {i \in 1..Len(plans) : plans[i].script = "DeployRebateAndPrepareTxs"}
ReadImplementation ==
  /\ At("VerifyRebateDeployment", 1)
  /\ IF RebatePlans = {}
       THEN Stop
       ELSE GoOn([upgraded |-> (bridgeProxy.implementation =
                   plans[Max(RebatePlans)].actions[1].implementation)])
  /\ UNCHANGED <<artifacts, localVars>>

ReadRebateStaking ==
  /\ At("VerifyRebateDeployment", 2)
  /\ GoOn([connected |-> (bridgeProxy.rebate = "proxy")])
  /\ UNCHANGED <<artifacts, localVars>>

ReportStatus ==
  /\ At("VerifyRebateDeployment", 3)
  /\ report' = IF script.built["upgraded"] /\ script.built["connected"]
                 THEN "complete"
                 ELSE "in progress"
  /\ Stop
  /\ UNCHANGED <<network, revision, artifacts, upgradeChainVars, plans,
                 scriptRuns, scriptFaults>>

------------------------------------------------------------------------------
(* 84: an implementation on the recorded libraries (or those of the SDK's    *)
(* artifact) and initializeV5 in the upgrade transaction.                    *)

ResolveAddress(library) ==
  IF library \in DOMAIN artifacts THEN artifacts[library] ELSE 0

RepairImplementation ==
  /\ At("RepairBridgeRebateStaking", 1)
  /\ GoOn([Bridge |-> BridgeLinked(ResolveAddress("Deposit"),
                                   ResolveAddress("Redemption"))])
  /\ UNCHANGED <<artifacts, localVars>>

RepairProxy(repairTarget) ==
  /\ At("RepairBridgeRebateStaking", 2)
  /\ bridgeProxy' =
       IF ProxyAdminOwnedByDeployer /\ MayInitializeV5(repairTarget)
         THEN InitializeV5_RepairRebateStaking(UpgradedTo(script.built["Bridge"]),
                                               repairTarget)
         ELSE bridgeProxy
  /\ Stop
  /\ UNCHANGED <<artifacts, rebateProxy, offChainVars>>

------------------------------------------------------------------------------
(* 85: new libraries, new implementations and the plan of TIP-109.           *)

TIP109Libraries ==
  /\ At("DeployTIP109GovernanceUpgrade", 1)
  /\ Recorded({"Deposit", "Redemption"})
  /\ GoOn([c \in {"Deposit", "Redemption"} |-> Version(c)])
  /\ UNCHANGED localVars

TIP109BridgeImplementation ==
  /\ At("DeployTIP109GovernanceUpgrade", 2)
  /\ GoOn([Bridge |-> BridgeLinked(script.built["Deposit"],
                                   script.built["Redemption"])])
  /\ UNCHANGED <<artifacts, localVars>>

TIP109RebateImplementation ==
  /\ At("DeployTIP109GovernanceUpgrade", 3)
  /\ GoOn([RebateStaking |-> Version("RebateStaking")])
  /\ UNCHANGED <<artifacts, localVars>>

EncodeRebateStakingUpgrade(code) == Upgrade("RebateStaking", code, "none")

EncodeBridgeUpgradeAndCall(code) == Upgrade("Bridge", code, "initializeV5")

\* Mutant: the Bridge first.
BridgeFirst(built) ==
  <<EncodeBridgeUpgradeAndCall(built["Bridge"]),
    EncodeRebateStakingUpgrade(built["RebateStaking"])>>

TIP109TimelockActions(built) ==
  <<EncodeRebateStakingUpgrade(built["RebateStaking"]),
    EncodeBridgeUpgradeAndCall(built["Bridge"])>>

WriteTIP109Plan ==
  /\ At("DeployTIP109GovernanceUpgrade", 4)
  /\ WritePlan(TIP109TimelockActions(script.built))

(* 86: the recorded Deposit library, a Redemption library under a name of    *)
(* its own, new implementations, and a plan of plain upgrades.  The proxies' *)
(* artifacts name the new implementations before any proxy does.             *)

HotfixRedemption ==
  /\ At("DeployTIP109Hotfix", 1)
  /\ RecordedAs({"RedemptionTIP109Hotfix"}, "Redemption")
  /\ GoOn([Redemption |-> Version("Redemption")])
  /\ UNCHANGED localVars

\* Mutant: the recorded Redemption library is linked again.
LibrariesOfLastRelease ==
  [deposit |-> artifacts["Deposit"], redemption |-> artifacts["Redemption"]]

HotfixLibraries ==
  [deposit |-> artifacts["Deposit"], redemption |-> script.built["Redemption"]]

HotfixBridgeImplementation ==
  /\ At("DeployTIP109Hotfix", 2)
  /\ GoOn([Bridge |-> BridgeLinked(HotfixLibraries.deposit,
                                   HotfixLibraries.redemption)])
  /\ UNCHANGED <<artifacts, localVars>>

HotfixRebateImplementation ==
  /\ At("DeployTIP109Hotfix", 3)
  /\ GoOn([RebateStaking |-> Version("RebateStaking")])
  /\ UNCHANGED <<artifacts, localVars>>

HotfixArtifacts ==
  /\ At("DeployTIP109Hotfix", 4)
  /\ Recorded({"Bridge", "RebateStaking"})
  /\ GoOn(Nothing)
  /\ UNCHANGED localVars

WriteHotfixPlan ==
  /\ At("DeployTIP109Hotfix", 5)
  /\ WritePlan(<<Upgrade("RebateStaking", script.built["RebateStaking"], "none"),
                 Upgrade("Bridge", script.built["Bridge"], "none")>>)

------------------------------------------------------------------------------
(* The owners of the contracts.                                              *)

Executed(i) == plans[i].done = Len(plans[i].actions)

(* The Council schedules a plan in the Timelock; the hotfix amends a release, *)
(* so its plan waits for the release's.                                      *)
CouncilSchedules(i) ==
  /\ ~plans[i].scheduled
  /\ plans[i].script = "DeployTIP109Hotfix" =>
       \E j \in 1..Len(plans) :
          plans[j].script = "DeployTIP109GovernanceUpgrade" /\ Executed(j)
  /\ plans' = [plans EXCEPT ![i].scheduled = TRUE]
  /\ UNCHANGED <<network, revision, artifacts, upgradeChainVars, script, report,
                 scriptRuns, scriptFaults>>

(* The delay is over and the next action of the plan is executed; one that   *)
(* would revert stays, and with it those after it.                           *)
ExecuteNextAction(i) ==
  LET action == plans[i].actions[plans[i].done + 1] IN
  /\ plans[i].scheduled
  /\ ~Executed(i)
  /\ IF action.proxy = "RebateStaking"
       THEN /\ rebateProxy' = action.implementation
            /\ UNCHANGED bridgeProxy
       ELSE /\ action.call = "initializeV5" => MayInitializeV5("none")
            /\ bridgeProxy' =
                 IF action.call = "initializeV5"
                   THEN InitializeV5_RepairRebateStaking(
                          UpgradedTo(action.implementation), "none")
                   ELSE UpgradedTo(action.implementation)
            /\ UNCHANGED rebateProxy
  /\ plans' = [plans EXCEPT ![i].done = @ + 1]
  /\ UNCHANGED <<network, revision, artifacts, script, report, scriptRuns,
                 scriptFaults>>

(* BridgeGovernance.setRebateStaking, at any time once there is a plan.      *)
CouncilSetsRebateStaking ==
  /\ plans # <<>>
  /\ rebateProxy # -1
  /\ bridgeProxy.rebate = "none"
  /\ bridgeProxy' = [bridgeProxy EXCEPT !.rebate = "proxy"]
  /\ UNCHANGED <<network, revision, artifacts, rebateProxy, plans, script, report,
                 scriptRuns, scriptFaults>>

UpgradeNext ==
  \/ \E name \in ScriptName : StartScript(name)
  \/ ScriptDies
  \/ CheckOutNextRevision
  \/ UpgradeBridgeDeposit \/ UpgradeBridgeImplementation \/ UpgradeBridgeProxy
  \/ UpgradeBridgeVaultFix
  \/ PrepareRebateStaking \/ PrepareBridgeImplementation \/ WriteRebatePlan
  \/ ReadImplementation \/ ReadRebateStaking \/ ReportStatus
  \/ RepairImplementation
  \/ \E repairTarget \in {"none", "proxy"} : RepairProxy(repairTarget)
  \/ TIP109Libraries \/ TIP109BridgeImplementation \/ TIP109RebateImplementation
  \/ WriteTIP109Plan
  \/ HotfixRedemption \/ HotfixBridgeImplementation \/ HotfixRebateImplementation
  \/ HotfixArtifacts \/ WriteHotfixPlan
  \/ \E i \in 1..Len(plans) : CouncilSchedules(i) \/ ExecuteNextAction(i)
  \/ CouncilSetsRebateStaking

UpgradeSpec == UpgradeInit /\ [][UpgradeNext]_upgradeVars

------------------------------------------------------------------------------
(* A mainnet Bridge that passes the third argument and knows the proxy finds *)
(* a RebateStaking that takes it, whatever failed, in whatever order plans   *)
(* were written, scheduled and executed and whenever the Council connected   *)
(* the two ("This ordering ensures the RebateStaking proxy has the new 3-arg *)
(* ABI before Bridge activation references it").                             *)
NewBridgeMeetsNewRebate ==
  ( /\ network = "mainnet"
    /\ bridgeProxy.rebate = "proxy"
    /\ \E library \in {"deposit", "redemption"} :
          bridgeProxy.implementation[library] >= 1 )
    => rebateProxy >= 1

(* The Bridge a plan of the scripts 85 and 86 activates links the libraries  *)
(* of the revision the plan was written from, though one script deploys them *)
(* anew and the other takes what earlier runs recorded.                      *)
PlansLinkTheirRevision ==
  \A i \in 1..Len(plans) :
    plans[i].script \in {"DeployTIP109GovernanceUpgrade", "DeployTIP109Hotfix"} =>
      \A j \in 1..Len(plans[i].actions) :
        LET action == plans[i].actions[j] IN
        action.proxy = "Bridge" =>
          /\ action.implementation.deposit =
               VersionIn("Deposit", plans[i].revision)
          /\ action.implementation.redemption =
               VersionIn("Redemption", plans[i].revision)
==============================================================================
