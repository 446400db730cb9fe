-------------------------- MODULE OperationsProofs --------------------------
(***************************************************************************)
(* Theorems about the programs around the contracts: that canonical coins  *)
(* on Sui are backed, for every set of networks, administrators, messages  *)
(* and limits; that what the upgrade scripts of Ethereum propose and link  *)
(* belongs together, for every series of releases and revisions and every  *)
(* run of a script that died; that operators and wallets agree in the      *)
(* simulation, for every size of it; and that the stakes, delegations and  *)
(* rebates of RebateStaking are accounted for, for every set of users and  *)
(* whatever windows, periods and coefficients the owner sets.              *)
(***************************************************************************)
EXTENDS SuiGateway, BridgeUpgrade, Simulation, RebateStaking, SumsProofs,
        WellFoundedInduction, TLAPS

(* The three quantities of the property are numbers, and fields the state    *)
(* objects keep whatever the administrators and their programs do to them.   *)
CoinTypes ==
  /\ {"supply", "paused", "minters"} \subseteq DOMAIN token
  /\ {"mintedAmount", "mintingLimit", "nonce", "processed", "emitters",
      "receivers", "paused", "initialized"} \subseteq DOMAIN gateway
  /\ treasury \in Nat /\ wrappedHeld \in Nat

Backed == CoinTypes /\ CanonicalBacked

(* What a step that moves no canonical coin leaves of the two objects.       *)
CoinsStay ==
  /\ DOMAIN token' = DOMAIN token /\ token'.supply = token.supply
  /\ DOMAIN gateway' = DOMAIN gateway
  /\ gateway'.mintedAmount = gateway.mintedAmount
  /\ treasury' = treasury /\ wrappedHeld' \in Nat

(* Nothing but coins in motion can disturb the invariant.                    *)
LEMMA CoinsStayBacked == ASSUME Backed, CoinsStay PROVE Backed'
BY DEF Backed, CoinsStay, CoinTypes, CanonicalBacked

(* Programs and administrators move no coins, whatever they read and however *)
(* their steps interleave: a Gateway initialised twice or a changed limit    *)
(* does not reset what was counted.                                          *)
LEMMA ProgramsMoveNoCoins ==
  ASSUME NEW a \in Administrator, CoinTypes, ProgramNext(a) PROVE CoinsStay
<1>1. CASE LoadConfig(a)
  BY <1>1 DEF LoadConfig, CoinsStay, CoinTypes, suiTokenVars
<1>2. ASSUME ReadGatewayState(a) \/ ReadMinters(a) \/ DryRunInitialization(a)
      PROVE  CoinsStay
  BY <1>2 DEF ReadGatewayState, ReadMinters, DryRunInitialization, NothingSent,
              CoinsStay, CoinTypes, suiTokenVars
<1>3. ASSUME ExecuteInitialization(a) PROVE CoinsStay
  BY <1>3 DEF ExecuteInitialization, AddMinterAndInitialize, AddMinterWithCap,
              InitializeGateway, CoinsStay, CoinTypes
<1>4. CASE InitializeGatewayMainnet(a)
  BY <1>2, <1>3, <1>4 DEF InitializeGatewayMainnet
<1>5. CASE CheckBeforeInitializeGatewayV2(a) \/ SendInitializeGatewayV2(a)
  BY <1>2, <1>3, <1>5 DEF CheckBeforeInitializeGatewayV2, SendInitializeGatewayV2
<1>6. CASE SetGatewayTrustedEmitter(a)
  BY <1>6 DEF SetGatewayTrustedEmitter, AddTrustedEmitter, NothingSent,
              SentToGateway, CoinsStay, CoinTypes, suiTokenVars
<1>7. CASE ReadEmitters(a) \/ ListEmitters(a)
  BY <1>7 DEF ReadEmitters, ListEmitters, NothingSent, CoinsStay, CoinTypes,
              suiTokenVars
<1>8. CASE RemoveListedEmitter(a)
  BY <1>8 DEF RemoveListedEmitter, RemoveTrustedEmitter, SentToGateway, CoinsStay,
              CoinTypes, suiTokenVars
<1>9. CASE SetGatewayTrustedReceiver(a)
  BY <1>9 DEF SetGatewayTrustedReceiver, AddTrustedReceiver, SentToGateway,
              CoinsStay, CoinTypes, suiTokenVars
<1>10. CASE SetDepositorTrustedEmitter(a)
  BY <1>10 DEF SetDepositorTrustedEmitter, CoinsStay, CoinTypes, suiTokenVars
<1>11. CASE CheckDepositor(a) \/ CheckGateway(a)
  BY <1>11 DEF CheckDepositor, CheckGateway, CoinsStay, CoinTypes, suiTokenVars
<1> QED
  BY <1>1, <1>4, <1>5, <1>6, <1>7, <1>8, <1>9, <1>10, <1>11 DEF ProgramNext

(* Nor do the calls an administrator makes directly.                         *)
LEMMA AdministrationMovesNoCoins ==
  ASSUME CoinTypes, AdministerGateway \/ AdministerToken \/ AdministerDepositor
  PROVE  CoinsStay
<1>1. CASE AdministerGateway
  BY <1>1 DEF AdministerGateway, AdministrationAllowed, RemoveTrustedEmitter,
              RemoveTrustedReceiver, PauseGateway, UnpauseGateway,
              UpdateMintingLimit, CoinsStay, CoinTypes
<1>2. CASE AdministerToken
  BY <1>2 DEF AdministerToken, AdministrationAllowed, RemoveMinter, PauseToken,
              UnpauseToken, CoinsStay, CoinTypes
<1>3. CASE AdministerDepositor
  BY <1>3 DEF AdministerDepositor, AdministrationAllowed, CoinsStay, CoinTypes
<1> QED BY <1>1, <1>2, <1>3

(* Both branches of the limit: coins are minted, counted and their wrapped   *)
(* counterparts stored together, or not at all.                              *)
LEMMA RedeemBacked ==
  ASSUME Backed, NEW vaa \in Vaa, Redeem(vaa) PROVE Backed'
<1>1. vaa.amount \in Nat BY SuiAssumption
<1>2. /\ DOMAIN gateway' = DOMAIN gateway
      /\ gateway'.mintedAmount =
           IF gateway.mintedAmount + vaa.amount <= gateway.mintingLimit
           THEN gateway.mintedAmount + vaa.amount ELSE gateway.mintedAmount
  BY DEF Redeem, Backed, CoinTypes
<1>3. CASE gateway.mintedAmount + vaa.amount <= gateway.mintingLimit
  BY <1>1, <1>2, <1>3
  DEF Redeem, RedeemCoins, Mint, Backed, CoinTypes, CanonicalBacked
<1>4. CASE ~(gateway.mintedAmount + vaa.amount <= gateway.mintingLimit)
  BY <1>1, <1>2, <1>4 DEF Redeem, RedeemCoins, Backed, CoinTypes, CanonicalBacked
<1> QED BY <1>3, <1>4

(* As much is burned as is released, and the counter, which would stop at 0, *)
(* never has to: it is the treasury, which covers the amount.                *)
LEMMA BurnAndReleaseBacked ==
  ASSUME Backed, NEW amount \in Nat, NEW nonce, BurnAndRelease(amount, nonce)
  PROVE  Backed'
<1>1. /\ DOMAIN gateway' = DOMAIN gateway
      /\ gateway'.mintedAmount = MintedAfterSending(gateway.mintedAmount, amount)
  BY DEF BurnAndRelease, Backed, CoinTypes
<1>2. treasury >= amount /\ treasury' = treasury - amount /\ treasury' \in Nat
  BY DEF BurnAndRelease, Backed, CoinTypes
<1>3. DOMAIN token' = DOMAIN token /\ token'.supply = token.supply - amount
  BY DEF BurnAndRelease, Burn, Backed, CoinTypes
<1>4. wrappedHeld' = wrappedHeld BY DEF BurnAndRelease
<1> QED
  BY <1>1, <1>2, <1>3, <1>4
  DEF MintedAfterSending, Backed, CoinTypes, CanonicalBacked

(* Wrapped coins that never entered the treasury leave without touching it.  *)
LEMMA SendWrappedMovesNoCanonical ==
  ASSUME CoinTypes, NEW amount \in Nat, NEW chain, NEW nonce,
         SendWrappedTokens(amount, chain, nonce)
  PROVE  CoinsStay
BY DEF SendWrappedTokens, CoinsStay, CoinTypes

(* Before the Gateway is initialised there are no coins at all.              *)
LEMMA InitBacked == SuiInit => Backed
BY DEF SuiInit, Backed, CoinTypes, CanonicalBacked

(* The invariant is inductive: one case for each group of callers.           *)
LEMMA StepBacked == Backed /\ [SuiNext]_suiVars => Backed'
<1> SUFFICES ASSUME Backed, [SuiNext]_suiVars PROVE Backed'
  OBVIOUS
<1>1. CoinTypes /\ CanonicalBacked BY DEF Backed
<1>2. CASE \E a \in Administrator : ProgramNext(a)
  BY <1>1, <1>2, ProgramsMoveNoCoins, CoinsStayBacked
<1>3. CASE AdministerGateway \/ AdministerToken \/ AdministerDepositor
  BY <1>1, <1>3, AdministrationMovesNoCoins, CoinsStayBacked
<1>4. CASE \E vaa \in Vaa : RedeemTokens(vaa) \/ ReceiveWormholeMessages(vaa)
  BY <1>4, RedeemBacked DEF RedeemTokens, ReceiveWormholeMessages
<1>5. ASSUME NEW amount \in 1 .. token.supply + wrappedHeld,
             NEW nonce \in 1 .. NonceLimit + 1,
             \/ SendTokens(amount, L1ChainId, nonce)
             \/ SendTokensStandard(amount, nonce)
             \/ SendWrappedTokens(amount, L1ChainId, nonce)
      PROVE  Backed'
  <2>1. amount \in Nat BY <1>1 DEF CoinTypes, CanonicalBacked
  <2>2. CASE BurnAndRelease(amount, nonce)
    BY <2>1, <2>2, BurnAndReleaseBacked
  <2>3. CASE SendWrappedTokens(amount, L1ChainId, nonce)
    BY <1>1, <2>1, <2>3, SendWrappedMovesNoCanonical, CoinsStayBacked
  <2> QED BY <1>5, <2>2, <2>3 DEF SendTokens, SendTokensStandard
<1>6. CASE UNCHANGED suiVars
  BY <1>6 DEF suiVars, suiTokenVars, Backed, CoinTypes, CanonicalBacked
<1> QED BY <1>2, <1>3, <1>4, <1>5, <1>6 DEF SuiNext

(* On Sui the supply of canonical coins, the wrapped coins in the treasury   *)
(* and the gateway's own count of what it minted are equal in every          *)
(* reachable state, however the limit is moved and whoever administers the   *)
(* gateway meanwhile.                                                        *)
THEOREM CanonicalBackedTheorem == SuiSpec => []CanonicalBacked
<1>1. Backed => CanonicalBacked BY DEF Backed
<1> QED BY <1>1, InitBacked, StepBacked, PTL DEF SuiSpec

-----------------------------------------------------------------------------
(***************************************************************************)
(* Versions of contracts.                                                  *)
(***************************************************************************)

\* Every set of natural numbers has a least element, and a bounded one a largest.
LEMMA LeastElement ==
    ASSUME NEW T \in SUBSET Nat, T # {}
    PROVE  \E x \in T : \A y \in T : x <= y
<1> DEFINE R == {ss \in Nat \X Nat : ss[1] < ss[2]}
<1>1. R = OpToRel(<, Nat)
  BY DEF OpToRel
<1>2. IsWellFoundedOn(R, Nat)
  BY <1>1, NatLessThanWellFounded
<1>3. \A x, y \in Nat : <<y, x>> \in R <=> y < x
  OBVIOUS
<1> HIDE DEF R
<1>4. PICK x \in T : \A y \in T : ~ (<<y, x>> \in R)
  BY <1>2, WFMin
<1>5. \A y \in T : ~(y < x) /\ x \in Nat /\ y \in Nat
  BY <1>3, <1>4
<1> QED  BY <1>5

LEMMA MaxFacts ==
    ASSUME NEW r \in Nat, NEW S \in SUBSET (0..r), S # {}
    PROVE  Max(S) \in S /\ \A y \in S : Max(S) >= y
<1> DEFINE T == {n \in Nat : \E y \in S : n = r - y}
<1>1. T # {} /\ T \in SUBSET Nat
  <2>1. PICK y \in S : TRUE
    OBVIOUS
  <2>2. r - y \in T
    BY <2>1
  <2> QED  BY <2>2
<1>2. \E x \in T : \A y \in T : x <= y
  <2> HIDE DEF T
  <2> QED  BY <1>1, LeastElement
<1>3. \E x \in S : \A y \in S : x >= y
  <2>1. PICK x \in T : \A y \in T : x <= y
    BY <1>2
  <2>2. PICK z \in S : x = r - z
    BY <2>1
  <2>3. ASSUME NEW y \in S PROVE z >= y
    <3>1. r - y \in T
      OBVIOUS
    <3>2. \A n \in T : x <= n
      BY <2>1
    <3> HIDE DEF T
    <3>3. x <= r - y
      BY <3>1, <3>2
    <3> QED  BY <2>2, <3>3
  <2> QED  BY <2>3
<1> QED  BY <1>3 DEF Max

\* From TIP-109 on RebateStaking is new, and Deposit is what TIP-109 made it.
LEMMA ReleaseVersions ==
    ASSUME NEW r \in Revision, r >= 1
    PROVE  /\ VersionIn("RebateStaking", r) >= 1
           /\ VersionIn("Deposit", r) = VersionIn("Deposit", 1)
<1>1. r \in Nat /\ r <= Len(Changes) /\ Len(Changes) \in Nat
  BY ReleaseAssumption DEF Revision
<1> DEFINE S == {0} \cup {q \in 1..r : "RebateStaking" \in Changes[q]}
<1>2. S \in SUBSET (0..r) /\ 1 \in S
  BY <1>1, ReleaseAssumption
<1>3. VersionIn("RebateStaking", r) = Max(S)
  BY DEF VersionIn
<1>4. Max(S) \in S /\ \A y \in S : Max(S) >= y
  <2> HIDE DEF S
  <2> QED  BY <1>1, <1>2, MaxFacts
<1>5. {q \in 1..r : "Deposit" \in Changes[q]} = {q \in 1..1 : "Deposit" \in Changes[q]}
  BY <1>1, ReleaseAssumption
<1> HIDE DEF S
<1> QED  BY <1>2, <1>3, <1>4, <1>5 DEF VersionIn

-----------------------------------------------------------------------------
(***************************************************************************)
(* The upgrade of the Bridge.                                              *)
(***************************************************************************)
Release == "DeployTIP109GovernanceUpgrade"
Hotfix == "DeployTIP109Hotfix"
ForHardhat == {"DeployRebateAndPrepareTxs", "VerifyRebateDeployment"}

\* The libraries of a Bridge are those of a revision.
Links(implementation, r) ==
    /\ implementation.deposit = VersionIn("Deposit", r)
    /\ implementation.redemption = VersionIn("Redemption", r)

\* What a script has built is of the revision that is checked out while it runs.
Built(s, r, contract) ==
    contract \in DOMAIN s.built /\ s.built[contract] = VersionIn(contract, r)
BuiltBridge(s, r) == "Bridge" \in DOMAIN s.built /\ Links(s.built["Bridge"], r)

ScriptInv ==
    /\ DOMAIN script = {"name", "step", "built"} /\ script.step \in Nat
    /\ revision \in Revision
    /\ script.name \in {Release, Hotfix} => revision >= 1
    /\ network = "mainnet" => script.name \notin ForHardhat
    /\ script.name = Release /\ script.step >= 2 => /\ Built(script, revision, "Deposit")
                                                   /\ Built(script, revision, "Redemption")
    /\ script.name = Hotfix /\ script.step >= 2 => Built(script, revision, "Redemption")
    /\ script.name \in {Release, Hotfix} /\ script.step >= 3 => BuiltBridge(script, revision)
    /\ script.name \in {Release, Hotfix} /\ script.step >= 4
           => Built(script, revision, "RebateStaking")

\* Once the release is prepared, the recorded Deposit library is the release's: hotfixes
\* find it there.
Written == \E i \in 1..Len(plans) : plans[i].script = Release
Prepared == Written \/ (script.name = Release /\ script.step >= 2)
RecordedInv ==
    /\ script.name = Hotfix => Written
    /\ Prepared => /\ revision >= 1
                   /\ "Deposit" \in DOMAIN artifacts
                   /\ artifacts["Deposit"] = VersionIn("Deposit", 1)

\* A plan of the scripts 85 and 86 upgrades RebateStaking first, to what the revision has.
PlanMade(p) ==
    /\ DOMAIN p = {"script", "revision", "actions", "scheduled", "done"} /\ p.done \in Nat
    /\ p.script \in {Release, Hotfix} =>
           /\ p.revision \in Revision /\ p.revision >= 1
           /\ Len(p.actions) = 2 /\ p.done <= 2
           /\ p.actions[1].proxy = "RebateStaking"
           /\ p.actions[1].implementation = VersionIn("RebateStaking", p.revision)
           /\ p.actions[2].proxy = "Bridge" /\ Links(p.actions[2].implementation, p.revision)
IsSequence(list) == \E S : list \in Seq(S)
PlansInv == IsSequence(plans) /\ \A i \in 1..Len(plans) : PlanMade(plans[i])

\* On mainnet, nothing but such plans changes the proxies.
MainnetInv ==
    /\ DOMAIN bridgeProxy = {"implementation", "initialized", "rebate", "vault"}
    /\ network = "mainnet" =>
           /\ \A i \in 1..Len(plans) : /\ plans[i].script \in {Release, Hotfix}
                                       /\ plans[i].done >= 1 => rebateProxy >= 1
           /\ \A library \in {"deposit", "redemption"} :
                  bridgeProxy.implementation[library] >= 1 => rebateProxy >= 1

UpgradeInv == ScriptInv /\ RecordedInv /\ PlansInv /\ MainnetInv

LEMMA MergedFacts ==
    ASSUME NEW new, NEW old
    PROVE  /\ DOMAIN Merged(new, old) = DOMAIN new \cup DOMAIN old
           /\ \A n \in DOMAIN new : Merged(new, old)[n] = new[n]
           /\ \A n \in DOMAIN old \ DOMAIN new : Merged(new, old)[n] = old[n]
BY DEF Merged

\* A script goes on with what it has built.
LEMMA GoOnFacts ==
    ASSUME ScriptInv, NEW new, GoOn(new)
    PROVE  /\ DOMAIN script' = {"name", "step", "built"}
           /\ script'.name = script.name /\ script'.step = script.step + 1
           /\ DOMAIN script'.built = DOMAIN new \cup DOMAIN script.built
           /\ \A n \in DOMAIN new : script'.built[n] = new[n]
           /\ \A n \in DOMAIN script.built \ DOMAIN new : script'.built[n] = script.built[n]
<1>1. /\ DOMAIN script' = {"name", "step", "built"}
      /\ script'.name = script.name /\ script'.step = script.step + 1
      /\ script'.built = Merged(new, script.built)
  BY DEF ScriptInv, GoOn
<1> DEFINE built == Merged(new, script.built)
<1>2. /\ DOMAIN built = DOMAIN new \cup DOMAIN script.built
      /\ \A n \in DOMAIN new : built[n] = new[n]
      /\ \A n \in DOMAIN script.built \ DOMAIN new : built[n] = script.built[n]
  BY MergedFacts
<1> HIDE DEF built
<1>3. script'.built = built
  BY <1>1 DEF built
<1> QED  BY <1>1, <1>2, <1>3

\* A script that is not one of 85 and 86, or has ended.
LEMMA OtherScript ==
    ASSUME ScriptInv, UNCHANGED <<revision, network>>,
           DOMAIN script' = {"name", "step", "built"}, script'.step \in Nat,
           script'.name \notin {Release, Hotfix},
           network = "mainnet" => script'.name \notin ForHardhat
    PROVE  ScriptInv'
BY DEF ScriptInv

LEMMA IdleScript ==
    ASSUME UpgradeInv, script' = Idle, UNCHANGED <<revision, network>>
    PROVE  ScriptInv'
<1>1. /\ DOMAIN Idle = {"name", "step", "built"} /\ Idle.step \in Nat
      /\ Idle.name \notin ForHardhat \cup {Release, Hotfix}
  BY DEF Idle, ForHardhat, Release, Hotfix
<1> QED  BY <1>1, OtherScript DEF UpgradeInv

Others ==
    \/ UpgradeBridgeDeposit \/ UpgradeBridgeImplementation
    \/ PrepareRebateStaking \/ PrepareBridgeImplementation
    \/ ReadImplementation \/ ReadRebateStaking \/ RepairImplementation
LEMMA OthersGoOn ==
    ASSUME UpgradeInv, Others
    PROVE  ScriptInv' /\ UNCHANGED <<revision, network>>
<1>1. /\ script.name \notin {Release, Hotfix}
      /\ UNCHANGED <<revision, network>>
      /\ script' = Idle \/ \E new : GoOn(new)
  BY DEF Others, UpgradeBridgeDeposit, UpgradeBridgeImplementation, PrepareRebateStaking,
         PrepareBridgeImplementation, ReadImplementation, ReadRebateStaking,
         RepairImplementation, At, Stop, localVars, offChainVars, Release, Hotfix
<1>2. CASE script' = Idle
  BY <1>1, <1>2, IdleScript
<1>3. ASSUME NEW new, GoOn(new) PROVE ScriptInv'
  <2>1. /\ DOMAIN script' = {"name", "step", "built"}
        /\ script'.name = script.name /\ script'.step = script.step + 1
    BY <1>3, GoOnFacts DEF UpgradeInv
  <2> QED  BY <1>1, <2>1, OtherScript DEF UpgradeInv, ScriptInv
<1> QED  BY <1>1, <1>2, <1>3
\* The steps of the release (85) and of the hotfix (86): what they build is of the present
\* revision.
LEMMA LibrariesBuilt ==
    ASSUME UpgradeInv, TIP109Libraries \/ HotfixRedemption
    PROVE  ScriptInv'
<1>1. /\ ScriptInv /\ script.step = 1 /\ script.name \in {Release, Hotfix} /\ revision >= 1
      /\ UNCHANGED <<revision, network>>
  BY DEF UpgradeInv, ScriptInv, TIP109Libraries, HotfixRedemption, At, localVars,
         offChainVars, Release, Hotfix
<1> DEFINE deposit == VersionIn("Deposit", revision)
           redemption == VersionIn("Redemption", revision)
<1>2. CASE TIP109Libraries
  <2> DEFINE new == [c \in {"Deposit", "Redemption"} |-> Version(c)]
  <2>1. script.name = Release /\ GoOn(new)
    BY <1>2 DEF TIP109Libraries, At, Release
  <2>2. DOMAIN new = {"Deposit", "Redemption"} /\ new["Deposit"] = deposit
        /\ new["Redemption"] = redemption
    BY DEF Version
  <2> HIDE DEF new, deposit, redemption
  <2>3. /\ DOMAIN script' = {"name", "step", "built"} /\ script'.name = Release
        /\ script'.step = 2
        /\ "Deposit" \in DOMAIN script'.built /\ script'.built["Deposit"] = deposit
        /\ "Redemption" \in DOMAIN script'.built /\ script'.built["Redemption"] = redemption
    BY <1>1, <2>1, <2>2, GoOnFacts
  <2>4. Built(script', revision, "Deposit") /\ Built(script', revision, "Redemption")
    BY <2>3 DEF Built, deposit, redemption
  <2> QED  BY <1>1, <2>3, <2>4 DEF ScriptInv, ForHardhat, Release, Hotfix
<1>3. CASE HotfixRedemption
  <2> DEFINE new == [Redemption |-> Version("Redemption")]
  <2>1. script.name = Hotfix /\ GoOn(new)
    BY <1>3 DEF HotfixRedemption, At, Hotfix
  <2>2. DOMAIN new = {"Redemption"} /\ new["Redemption"] = redemption
    BY DEF Version
  <2> HIDE DEF new, deposit, redemption
  <2>3. /\ DOMAIN script' = {"name", "step", "built"} /\ script'.name = Hotfix
        /\ script'.step = 2
        /\ "Redemption" \in DOMAIN script'.built /\ script'.built["Redemption"] = redemption
    BY <1>1, <2>1, <2>2, GoOnFacts
  <2>4. Built(script', revision, "Redemption")
    BY <2>3 DEF Built, redemption
  <2> QED  BY <1>1, <2>3, <2>4 DEF ScriptInv, ForHardhat, Release, Hotfix
<1> QED  BY <1>2, <1>3

\* What was built before is still there after a step that builds something else.
LEMMA BuiltStays ==
    ASSUME ScriptInv, NEW new, GoOn(new), NEW contract, contract \notin DOMAIN new,
           Built(script, revision, contract)
    PROVE  Built(script', revision, contract)
BY GoOnFacts DEF Built

LEMMA BridgeBuilt ==
    ASSUME UpgradeInv, TIP109BridgeImplementation \/ HotfixBridgeImplementation
    PROVE  ScriptInv'
<1>1. /\ ScriptInv /\ script.step = 2 /\ script.name \in {Release, Hotfix} /\ revision >= 1
      /\ UNCHANGED <<revision, network>>
      /\ revision \in Revision
  BY DEF UpgradeInv, ScriptInv, TIP109BridgeImplementation, HotfixBridgeImplementation, At,
         localVars, offChainVars, Release, Hotfix
<1>2. PICK code, deposit, redemption :
          /\ GoOn([Bridge |-> [code |-> code, deposit |-> deposit, redemption |-> redemption]])
          /\ deposit = VersionIn("Deposit", revision)
          /\ redemption = VersionIn("Redemption", revision)
  <2>1. CASE TIP109BridgeImplementation
    <3>1. /\ script.built["Deposit"] = VersionIn("Deposit", revision)
          /\ script.built["Redemption"] = VersionIn("Redemption", revision)
      BY <1>1, <2>1 DEF TIP109BridgeImplementation, At, ScriptInv, Built, Release
    <3> QED  BY <2>1, <3>1 DEF TIP109BridgeImplementation, BridgeLinked
  <2>2. CASE HotfixBridgeImplementation
    <3>1. script.name = Hotfix
      BY <2>2 DEF HotfixBridgeImplementation, At, Hotfix
    <3>2. script.built["Redemption"] = VersionIn("Redemption", revision)
      BY <1>1, <3>1 DEF ScriptInv, Built
    <3>3. artifacts["Deposit"] = VersionIn("Deposit", revision)
      BY <1>1, <3>1, ReleaseVersions DEF UpgradeInv, RecordedInv, Prepared
    <3> QED  BY <2>2, <3>2, <3>3 DEF HotfixBridgeImplementation, HotfixLibraries, BridgeLinked
  <2> QED  BY <2>1, <2>2
<1> DEFINE bridge == [code |-> code, deposit |-> deposit, redemption |-> redemption]
           new == [Bridge |-> bridge]
<1>3. Links(bridge, revision)
  BY <1>2 DEF Links
<1>4. GoOn(new) /\ DOMAIN new = {"Bridge"} /\ new["Bridge"] = bridge
  BY <1>2
<1> HIDE DEF bridge, new
<1>5. /\ DOMAIN script' = {"name", "step", "built"} /\ script'.name = script.name
      /\ script'.step = 3
      /\ "Bridge" \in DOMAIN script'.built /\ script'.built["Bridge"] = bridge
  BY <1>1, <1>4, GoOnFacts
<1>6. BuiltBridge(script', revision)
  BY <1>3, <1>5 DEF BuiltBridge
<1>7. \A contract \in {"Deposit", "Redemption"} :
          Built(script, revision, contract) => Built(script', revision, contract)
  BY <1>1, <1>4, BuiltStays
<1> QED  BY <1>1, <1>5, <1>6, <1>7 DEF ScriptInv, ForHardhat, Release, Hotfix

\* A step after the Bridge is built, which builds RebateStaking or nothing.
LEMMA RebateBuilt ==
    ASSUME UpgradeInv,
           TIP109RebateImplementation \/ HotfixRebateImplementation \/ HotfixArtifacts
    PROVE  ScriptInv'
<1>1. /\ ScriptInv /\ script.step \in {3, 4} /\ script.name \in {Release, Hotfix}
      /\ revision >= 1 /\ revision \in Revision
      /\ UNCHANGED <<revision, network>>
  BY DEF UpgradeInv, ScriptInv, TIP109RebateImplementation, HotfixRebateImplementation,
         HotfixArtifacts, At, localVars, offChainVars, Release, Hotfix
<1>2. PICK new : /\ GoOn(new)
                 /\ \/ DOMAIN new = {} /\ script.step = 4
                    \/ /\ DOMAIN new = {"RebateStaking"}
                       /\ new["RebateStaking"] = VersionIn("RebateStaking", revision)
  <2>1. CASE HotfixArtifacts
    BY <2>1 DEF HotfixArtifacts, At, Nothing
  <2>2. CASE TIP109RebateImplementation \/ HotfixRebateImplementation
    BY <2>2 DEF TIP109RebateImplementation, HotfixRebateImplementation, Version
  <2> QED  BY <2>1, <2>2
<1>3. /\ DOMAIN script' = {"name", "step", "built"} /\ script'.name = script.name
      /\ script'.step = script.step + 1
  BY <1>1, <1>2, GoOnFacts
<1>4. Built(script', revision, "RebateStaking")
  <2>1. CASE DOMAIN new = {} /\ script.step = 4
    <3>1. Built(script, revision, "RebateStaking")
      BY <1>1, <2>1 DEF ScriptInv
    <3> QED  BY <1>1, <1>2, <2>1, <3>1, BuiltStays
  <2>2. CASE DOMAIN new = {"RebateStaking"}
             /\ new["RebateStaking"] = VersionIn("RebateStaking", revision)
    BY <1>1, <1>2, <2>2, GoOnFacts DEF Built
  <2> QED  BY <1>2, <2>1, <2>2
<1>5. \A contract \in {"Deposit", "Redemption"} :
          Built(script, revision, contract) => Built(script', revision, contract)
  BY <1>1, <1>2, BuiltStays
<1>6. BuiltBridge(script', revision)
  <2>1. BuiltBridge(script, revision)
    BY <1>1 DEF ScriptInv
  <2> QED  BY <1>1, <1>2, <2>1, GoOnFacts DEF BuiltBridge
<1> QED  BY <1>1, <1>3, <1>4, <1>5, <1>6 DEF ScriptInv, ForHardhat, Release, Hotfix
\* A script starts, ends or dies, or another revision is checked out between scripts.
Stops ==
    \/ ScriptDies \/ UpgradeBridgeProxy \/ UpgradeBridgeVaultFix \/ WriteRebatePlan
    \/ ReportStatus \/ WriteTIP109Plan \/ WriteHotfixPlan
    \/ \E repairTarget \in {"none", "proxy"} : RepairProxy(repairTarget)
Council ==
    \/ \E i \in 1..Len(plans) : CouncilSchedules(i) \/ ExecuteNextAction(i)
    \/ CouncilSetsRebateStaking

LEMMA StartInv ==
    ASSUME UpgradeInv, NEW name \in ScriptName, StartScript(name)
    PROVE  /\ ScriptInv' /\ script'.step = 1
           /\ script'.name = Hotfix => Written
<1>1. /\ DOMAIN script' = {"name", "step", "built"} /\ script'.name = name /\ script'.step = 1
      /\ UNCHANGED <<revision, network>> /\ CanStart(name)
  BY DEF StartScript, Idle
<1>2. /\ name \in {Release, Hotfix} => revision >= 1
      /\ network = "mainnet" => name \notin ForHardhat
      /\ name = Hotfix => Written
  <2>1. revision \in Nat
    BY DEF UpgradeInv, ScriptInv, Revision
  <2> QED  BY <1>1, <2>1
           DEF CanStart, Release, Hotfix, ForHardhat, Written, ScriptName
<1> QED  BY <1>1, <1>2 DEF UpgradeInv, ScriptInv

LEMMA ScriptNext == ASSUME UpgradeInv, [UpgradeNext]_upgradeVars PROVE ScriptInv'
<1>1. ASSUME NEW name \in ScriptName, StartScript(name) PROVE ScriptInv'
  BY <1>1, StartInv
<1>2. CASE Stops
  <2>1. script' = Idle /\ UNCHANGED <<revision, network>>
    BY <1>2 DEF Stops, ScriptDies, UpgradeBridgeProxy, UpgradeBridgeVaultFix, WriteRebatePlan,
                ReportStatus, WriteTIP109Plan, WriteHotfixPlan, RepairProxy, Stop, WritePlan,
                offChainVars
  <2> QED  BY <2>1, IdleScript
<1>3. CASE CheckOutNextRevision
  <2>1. script' = Idle /\ revision' \in Revision /\ UNCHANGED network
    BY <1>3 DEF CheckOutNextRevision
  <2> QED  BY <2>1 DEF ScriptInv, Idle, Release, Hotfix, ForHardhat
<1>4. CASE Others
  BY <1>4, OthersGoOn
<1>5. CASE TIP109Libraries \/ HotfixRedemption
  BY <1>5, LibrariesBuilt
<1>6. CASE TIP109BridgeImplementation \/ HotfixBridgeImplementation
  BY <1>6, BridgeBuilt
<1>7. CASE TIP109RebateImplementation \/ HotfixRebateImplementation \/ HotfixArtifacts
  BY <1>7, RebateBuilt
<1>8. CASE Council \/ UNCHANGED upgradeVars
  <2>1. UNCHANGED <<script, revision, network>>
    BY <1>8 DEF Council, CouncilSchedules, ExecuteNextAction, CouncilSetsRebateStaking,
                upgradeVars
  <2> QED  BY <2>1 DEF UpgradeInv, ScriptInv
<1> QED  BY <1>1, <1>2, <1>3, <1>4, <1>5, <1>6, <1>7, <1>8
         DEF UpgradeNext, Stops, Others, Council

\* Recording what is deployed leaves the Deposit library of the release in place.
LEMMA DepositStays ==
    ASSUME revision \in Revision, revision >= 1, "Deposit" \in DOMAIN artifacts,
           artifacts["Deposit"] = VersionIn("Deposit", 1),
           \/ \E names : Recorded(names)
           \/ RecordedAs({"RedemptionTIP109Hotfix"}, "Redemption")
           \/ UNCHANGED artifacts
    PROVE  "Deposit" \in DOMAIN artifacts' /\ artifacts'["Deposit"] = VersionIn("Deposit", 1)
<1>1. Version("Deposit") = VersionIn("Deposit", 1)
  BY ReleaseVersions DEF Version
<1>2. ASSUME NEW new, artifacts' = Merged(new, artifacts),
             "Deposit" \in DOMAIN new => new["Deposit"] = VersionIn("Deposit", 1)
      PROVE  "Deposit" \in DOMAIN artifacts' /\ artifacts'["Deposit"] = VersionIn("Deposit", 1)
  BY <1>2 DEF Merged
<1>3. CASE \E names : Recorded(names)
  <2>1. PICK names : Recorded(names)
    BY <1>3
  <2> DEFINE new == [n \in names |-> Version(n)]
  <2>2. artifacts' = Merged(new, artifacts)
    BY <2>1 DEF Recorded
  <2>3. "Deposit" \in DOMAIN new => new["Deposit"] = VersionIn("Deposit", 1)
    BY <1>1
  <2> HIDE DEF new
  <2> QED  BY <1>2, <2>2, <2>3
<1>4. CASE RecordedAs({"RedemptionTIP109Hotfix"}, "Redemption")
  <2> DEFINE new == [n \in {"RedemptionTIP109Hotfix"} |-> Version("Redemption")]
  <2>1. artifacts' = Merged(new, artifacts)
    BY <1>4 DEF RecordedAs
  <2>2. "Deposit" \notin DOMAIN new
    OBVIOUS
  <2> HIDE DEF new
  <2> QED  BY <1>2, <2>1, <2>2
<1> QED  BY <1>3, <1>4

LEMMA RecordedKeeps ==
    ASSUME UpgradeInv, UNCHANGED revision, Prepared' => Prepared,
           script'.name = Hotfix => Written',
           \/ \E names : Recorded(names)
           \/ RecordedAs({"RedemptionTIP109Hotfix"}, "Redemption")
           \/ UNCHANGED artifacts
    PROVE  RecordedInv'
<1>1. revision \in Revision
  BY DEF UpgradeInv, ScriptInv
<1> QED  BY <1>1, DepositStays DEF UpgradeInv, RecordedInv

\* The release records its own Deposit library.
LEMMA ReleaseRecords ==
    ASSUME UpgradeInv, TIP109Libraries
    PROVE  RecordedInv'
<1>1. /\ script.name = Release /\ revision \in Revision /\ UNCHANGED revision
      /\ Recorded({"Deposit", "Redemption"}) /\ revision >= 1
  BY DEF UpgradeInv, ScriptInv, TIP109Libraries, At, localVars, offChainVars, Release
<1>2. script'.name = Release
  BY <1>1, GoOnFacts DEF TIP109Libraries, UpgradeInv
<1>3. Version("Deposit") = VersionIn("Deposit", 1)
  BY <1>1, ReleaseVersions DEF Version
<1>4. "Deposit" \in DOMAIN artifacts' /\ artifacts'["Deposit"] = Version("Deposit")
  BY <1>1 DEF Recorded, Merged
<1> QED  BY <1>1, <1>2, <1>3, <1>4 DEF RecordedInv, Release, Hotfix
-----------------------------------------------------------------------------
\* Plans are appended to the others, which stay.
LEMMA PlanAppended ==
    ASSUME IsSequence(plans), NEW p, plans' = Append(plans, p)
    PROVE  /\ IsSequence(plans')
           /\ \A i \in 1..Len(plans') :
                  \/ i \in 1..Len(plans) /\ plans'[i] = plans[i]
                  \/ i = Len(plans) + 1 /\ plans'[i] = p
           /\ \A i \in 1..Len(plans) : i \in 1..Len(plans') /\ plans'[i] = plans[i]
<1>1. PICK S : plans \in Seq(S)
  BY DEF IsSequence
<1> DEFINE T == S \cup {p}
<1>2. plans \in Seq(T) /\ p \in T
  BY <1>1
<1>3. plans' \in Seq(T)
  BY <1>2
<1> QED  BY <1>1, <1>3 DEF IsSequence

LEMMA PlanUpdated ==
    ASSUME IsSequence(plans), NEW i \in 1..Len(plans), NEW p, plans' = [plans EXCEPT ![i] = p]
    PROVE  /\ IsSequence(plans') /\ Len(plans') = Len(plans)
           /\ plans'[i] = p
           /\ \A j \in 1..Len(plans) : j # i => plans'[j] = plans[j]
<1>1. PICK S : plans \in Seq(S)
  BY DEF IsSequence
<1> DEFINE T == S \cup {p}
<1>2. plans \in Seq(T) /\ p \in T
  BY <1>1
<1>3. plans' \in Seq(T)
  BY <1>2
<1> QED  BY <1>1, <1>3 DEF IsSequence

Writes == WriteRebatePlan \/ WriteTIP109Plan \/ WriteHotfixPlan

\* Every plan is made of what its script has built.
LEMMA WrittenPlan ==
    ASSUME UpgradeInv, Writes
    PROVE  \E p : /\ plans' = Append(plans, p) /\ PlanMade(p)
                  /\ p.script = script.name /\ p.done = 0
                  /\ network = "mainnet" => p.script \in {Release, Hotfix}
<1>1. PICK actions : WritePlan(actions)
      /\ \/ script.name = "DeployRebateAndPrepareTxs"
         \/ /\ script.name \in {Release, Hotfix} /\ script.step >= 4
            /\ \E call : actions = <<Upgrade("RebateStaking", script.built["RebateStaking"], "none"),
                                     Upgrade("Bridge", script.built["Bridge"], call)>>
  <2>1. CASE WriteRebatePlan
    BY <2>1 DEF WriteRebatePlan, At
  <2>2. CASE WriteTIP109Plan
    BY <2>2 DEF WriteTIP109Plan, At, Release, TIP109TimelockActions, EncodeRebateStakingUpgrade,
                EncodeBridgeUpgradeAndCall
  <2>3. CASE WriteHotfixPlan
    BY <2>3 DEF WriteHotfixPlan, At, Hotfix
  <2> QED  BY <2>1, <2>2, <2>3 DEF Writes
<1> DEFINE p == Plan(actions)
<1>2. plans' = Append(plans, p)
  BY <1>1 DEF WritePlan
<1>3. /\ DOMAIN p = {"script", "revision", "actions", "scheduled", "done"}
      /\ p.script = script.name /\ p.revision = revision /\ p.actions = actions /\ p.done = 0
  BY DEF Plan
<1> HIDE DEF p
<1>4. network = "mainnet" => p.script \in {Release, Hotfix}
  BY <1>1, <1>3 DEF UpgradeInv, ScriptInv, ForHardhat
<1>5. ASSUME p.script \in {Release, Hotfix}
      PROVE  /\ p.revision \in Revision /\ p.revision >= 1
             /\ Len(actions) = 2 /\ actions[1].proxy = "RebateStaking"
             /\ actions[1].implementation = VersionIn("RebateStaking", p.revision)
             /\ actions[2].proxy = "Bridge" /\ Links(actions[2].implementation, p.revision)
  <2>1. script.name \in {Release, Hotfix} /\ script.step >= 4
    BY <1>1, <1>3, <1>5 DEF Release, Hotfix
  <2>2. /\ revision \in Revision /\ revision >= 1
        /\ script.built["RebateStaking"] = VersionIn("RebateStaking", revision)
        /\ Links(script.built["Bridge"], revision)
    BY <2>1 DEF UpgradeInv, ScriptInv, Built, BuiltBridge
  <2>3. PICK call :
          actions = <<Upgrade("RebateStaking", script.built["RebateStaking"], "none"),
                      Upgrade("Bridge", script.built["Bridge"], call)>>
    BY <1>1, <2>1 DEF Release, Hotfix
  <2> QED  BY <1>3, <2>2, <2>3 DEF Upgrade
<1>6. PlanMade(p)
  BY <1>3, <1>5 DEF PlanMade
<1> QED  BY <1>2, <1>3, <1>4, <1>6

\* A plan is scheduled.
LEMMA PlanScheduled ==
    ASSUME UpgradeInv, NEW i \in 1..Len(plans), CouncilSchedules(i)
    PROVE  \E p : /\ plans' = [plans EXCEPT ![i] = p] /\ PlanMade(p)
                  /\ p.script = plans[i].script /\ p.done = plans[i].done
<1> DEFINE p == [plans[i] EXCEPT !.scheduled = TRUE]
<1>1. PlanMade(plans[i])
  BY DEF UpgradeInv, PlansInv
<1>2. plans' = [plans EXCEPT ![i] = p]
  BY DEF CouncilSchedules
<1>3. /\ DOMAIN p = {"script", "revision", "actions", "scheduled", "done"}
      /\ p.script = plans[i].script /\ p.revision = plans[i].revision
      /\ p.actions = plans[i].actions /\ p.done = plans[i].done
  BY <1>1 DEF PlanMade
<1> HIDE DEF p
<1>4. PlanMade(p)
  BY <1>1, <1>3 DEF PlanMade
<1> QED  BY <1>2, <1>3, <1>4

\* The next action of a plan is executed.
LEMMA PlanExecuted ==
    ASSUME UpgradeInv, NEW i \in 1..Len(plans), ExecuteNextAction(i)
    PROVE  \E p : /\ plans' = [plans EXCEPT ![i] = p] /\ PlanMade(p)
                  /\ p.script = plans[i].script /\ p.done = plans[i].done + 1
<1> DEFINE p == [plans[i] EXCEPT !.done = plans[i].done + 1]
<1>1. PlanMade(plans[i])
  BY DEF UpgradeInv, PlansInv
<1>2. plans' = [plans EXCEPT ![i] = p]
  BY DEF ExecuteNextAction
<1>3. /\ DOMAIN p = {"script", "revision", "actions", "scheduled", "done"}
      /\ p.script = plans[i].script /\ p.revision = plans[i].revision
      /\ p.actions = plans[i].actions /\ p.done = plans[i].done + 1
  BY <1>1 DEF PlanMade
<1> HIDE DEF p
<1>4. p.script \in {Release, Hotfix} => plans[i].done # 2
  BY <1>1, <1>3 DEF ExecuteNextAction, Executed, PlanMade
<1>5. PlanMade(p)
  BY <1>1, <1>3, <1>4 DEF PlanMade
<1> QED  BY <1>2, <1>3, <1>5

LEMMA PlansNext == ASSUME UpgradeInv, [UpgradeNext]_upgradeVars PROVE PlansInv'
<1>1. CASE Writes
  <2>1. PICK p : plans' = Append(plans, p) /\ PlanMade(p)
    BY <1>1, WrittenPlan
  <2> QED  BY <2>1, PlanAppended DEF UpgradeInv, PlansInv
<1>2. ASSUME NEW i \in 1..Len(plans), CouncilSchedules(i) \/ ExecuteNextAction(i)
      PROVE  PlansInv'
  <2>1. PICK p : plans' = [plans EXCEPT ![i] = p] /\ PlanMade(p)
    BY <1>2, PlanScheduled, PlanExecuted
  <2>2. IsSequence(plans)
    BY DEF UpgradeInv, PlansInv
  <2>3. /\ IsSequence(plans') /\ Len(plans') = Len(plans)
        /\ plans'[i] = p
        /\ \A j \in 1..Len(plans) : j # i => plans'[j] = plans[j]
    BY <2>1, <2>2, PlanUpdated
  <2> QED  BY <2>1, <2>3 DEF UpgradeInv, PlansInv
<1>3. UNCHANGED plans \/ Writes
      \/ \E i \in 1..Len(plans) : CouncilSchedules(i) \/ ExecuteNextAction(i)
  BY DEF UpgradeNext, StartScript, ScriptDies, CheckOutNextRevision, UpgradeBridgeDeposit,
         UpgradeBridgeImplementation, UpgradeBridgeProxy, UpgradeBridgeVaultFix,
         PrepareRebateStaking, PrepareBridgeImplementation, ReadImplementation,
         ReadRebateStaking, ReportStatus, RepairImplementation, RepairProxy, TIP109Libraries,
         TIP109BridgeImplementation, TIP109RebateImplementation, HotfixRedemption,
         HotfixBridgeImplementation, HotfixRebateImplementation, HotfixArtifacts, Writes,
         CouncilSetsRebateStaking, localVars, offChainVars, upgradeVars
<1>4. CASE UNCHANGED plans
  BY <1>4 DEF UpgradeInv, PlansInv
<1> QED  BY <1>1, <1>2, <1>3, <1>4
LEMMA WrittenStays ==
    ASSUME UpgradeInv,
           UNCHANGED plans \/ \E i \in 1..Len(plans) : CouncilSchedules(i) \/ ExecuteNextAction(i)
    PROVE  Written' <=> Written
<1>1. CASE UNCHANGED plans
  BY <1>1 DEF Written
<1>2. ASSUME NEW i \in 1..Len(plans), CouncilSchedules(i) \/ ExecuteNextAction(i)
      PROVE  Written' <=> Written
  <2>1. PICK p : plans' = [plans EXCEPT ![i] = p] /\ p.script = plans[i].script
    BY <1>2, PlanScheduled, PlanExecuted
  <2>2. IsSequence(plans)
    BY DEF UpgradeInv, PlansInv
  <2>3. /\ Len(plans') = Len(plans) /\ plans'[i] = p
        /\ \A j \in 1..Len(plans) : j # i => plans'[j] = plans[j]
    BY <2>1, <2>2, PlanUpdated
  <2> QED  BY <2>1, <2>3 DEF Written
<1> QED  BY <1>1, <1>2

LEMMA RecordedNext == ASSUME UpgradeInv, [UpgradeNext]_upgradeVars PROVE RecordedInv'
<1>1. ASSUME NEW name \in ScriptName, StartScript(name) PROVE RecordedInv'
  <2>1. UNCHANGED <<plans, artifacts, revision>>
    BY <1>1 DEF StartScript
  <2>2. Written' <=> Written
    BY <2>1, WrittenStays
  <2>3. script'.step = 1 /\ (script'.name = Hotfix => Written)
    BY <1>1, StartInv
  <2>4. Prepared' => Prepared
    BY <2>2, <2>3 DEF Prepared
  <2> QED  BY <2>1, <2>2, <2>3, <2>4, RecordedKeeps
<1>2. CASE ScriptDies \/ UpgradeBridgeProxy \/ UpgradeBridgeVaultFix \/ ReportStatus
           \/ (\E repairTarget \in {"none", "proxy"} : RepairProxy(repairTarget))
  <2>1. /\ script' = Idle /\ UNCHANGED <<plans, revision>>
        /\ UNCHANGED artifacts \/ \E names : Recorded(names)
    BY <1>2 DEF ScriptDies, UpgradeBridgeProxy, UpgradeBridgeVaultFix, ReportStatus,
                RepairProxy, Stop, offChainVars
  <2>2. Written' <=> Written
    BY <2>1, WrittenStays
  <2>3. script'.name \notin {Release, Hotfix}
    BY <2>1 DEF Idle, Release, Hotfix
  <2>4. Prepared' => Prepared
    BY <2>2, <2>3 DEF Prepared
  <2> QED  BY <2>1, <2>3, <2>4, RecordedKeeps
<1>3. CASE Writes
  <2>1. PICK p : plans' = Append(plans, p) /\ p.script = script.name
    BY <1>3, WrittenPlan
  <2>2. script' = Idle /\ UNCHANGED <<artifacts, revision>>
        /\ (script.name = Release => script.step >= 2)
    BY <1>3 DEF Writes, WriteRebatePlan, WriteTIP109Plan, WriteHotfixPlan, WritePlan, Stop, At,
                Release
  <2>3. script'.name \notin {Release, Hotfix}
    BY <2>2 DEF Idle, Release, Hotfix
  <2>4. IsSequence(plans)
    BY DEF UpgradeInv, PlansInv
  <2>5. \A i \in 1..Len(plans') : \/ i \in 1..Len(plans) /\ plans'[i] = plans[i]
                                  \/ i = Len(plans) + 1 /\ plans'[i] = p
    BY <2>1, <2>4, PlanAppended
  <2>6. Prepared' => Prepared
    BY <2>1, <2>2, <2>3, <2>5 DEF Prepared, Written
  <2> QED  BY <2>2, <2>3, <2>6, RecordedKeeps
<1>4. CASE CheckOutNextRevision
  <2>1. UNCHANGED <<plans, artifacts, script>> /\ revision' = revision + 1
        /\ script' = Idle
    BY <1>4 DEF CheckOutNextRevision
  <2>2. Prepared' <=> Prepared
    BY <2>1 DEF Prepared, Written
  <2>3. revision \in Nat
    BY DEF UpgradeInv, ScriptInv, Revision
  <2> QED  BY <2>1, <2>2, <2>3 DEF UpgradeInv, RecordedInv, Idle, Hotfix
<1>5. CASE Others
  <2>1. /\ UNCHANGED <<plans, revision>> /\ script.name \notin {Release, Hotfix}
        /\ UNCHANGED artifacts \/ \E names : Recorded(names)
        /\ script' = Idle \/ \E new : GoOn(new)
    BY <1>5 DEF Others, UpgradeBridgeDeposit, UpgradeBridgeImplementation, PrepareRebateStaking,
         PrepareBridgeImplementation, ReadImplementation, ReadRebateStaking,
         RepairImplementation, At, Stop, localVars, offChainVars, Release, Hotfix
  <2>2. script'.name \notin {Release, Hotfix}
    <3>1. Idle.name \notin {Release, Hotfix}
      BY DEF Idle, Release, Hotfix
    <3> QED  BY <2>1, <3>1, GoOnFacts DEF UpgradeInv
  <2>3. Prepared' => Prepared
    BY <2>1, <2>2 DEF Prepared, Written
  <2> QED  BY <2>1, <2>2, <2>3, RecordedKeeps
<1>6. CASE TIP109Libraries
  BY <1>6, ReleaseRecords
<1>7. CASE TIP109BridgeImplementation \/ TIP109RebateImplementation
  <2>1. /\ UNCHANGED <<plans, revision, artifacts>> /\ script.name = Release /\ script.step >= 2
        /\ \E new : GoOn(new)
    BY <1>7 DEF TIP109BridgeImplementation, TIP109RebateImplementation, At, Release, localVars,
                offChainVars
  <2>2. script'.name = Release
    BY <2>1, GoOnFacts DEF UpgradeInv
  <2> QED  BY <2>1, <2>2, RecordedKeeps DEF Prepared, Release, Hotfix
<1>8. CASE HotfixRedemption \/ HotfixBridgeImplementation \/ HotfixRebateImplementation
           \/ HotfixArtifacts
  <2>1. /\ UNCHANGED <<plans, revision>> /\ script.name = Hotfix /\ \E new : GoOn(new)
        /\ \/ UNCHANGED artifacts \/ \E names : Recorded(names)
           \/ RecordedAs({"RedemptionTIP109Hotfix"}, "Redemption")
    BY <1>8 DEF HotfixRedemption, HotfixBridgeImplementation, HotfixRebateImplementation,
                HotfixArtifacts, At, Hotfix, localVars, offChainVars
  <2>2. script'.name = Hotfix
    BY <2>1, GoOnFacts DEF UpgradeInv
  <2>3. Written' <=> Written
    BY <2>1, WrittenStays
  <2>4. (Prepared' => Prepared) /\ Written'
    BY <2>1, <2>2, <2>3 DEF Prepared, UpgradeInv, RecordedInv, Release, Hotfix
  <2> QED  BY <2>1, <2>4, RecordedKeeps
<1>9. CASE Council \/ UNCHANGED upgradeVars
  <2>1. /\ UNCHANGED <<script, revision, artifacts>>
        /\ \/ UNCHANGED plans
           \/ \E i \in 1..Len(plans) : CouncilSchedules(i) \/ ExecuteNextAction(i)
    BY <1>9 DEF Council, CouncilSchedules, ExecuteNextAction, CouncilSetsRebateStaking,
                upgradeVars
  <2>2. Written' <=> Written
    BY <2>1, WrittenStays
  <2> QED  BY <2>1, <2>2 DEF UpgradeInv, RecordedInv, Prepared
<1> QED  BY <1>1, <1>2, <1>3, <1>4, <1>5, <1>6, <1>7, <1>8, <1>9
         DEF UpgradeNext, Writes, Others, Council

-----------------------------------------------------------------------------
\* Off mainnet nothing is claimed of the proxies.
LEMMA MainnetNext == ASSUME UpgradeInv, [UpgradeNext]_upgradeVars PROVE MainnetInv'
<1>1. CASE Writes
  <2>1. PICK p : /\ plans' = Append(plans, p) /\ p.done = 0
                 /\ network = "mainnet" => p.script \in {Release, Hotfix}
    BY <1>1, WrittenPlan
  <2>2. UNCHANGED <<network, bridgeProxy, rebateProxy>>
    BY <1>1 DEF Writes, WriteRebatePlan, WriteTIP109Plan, WriteHotfixPlan, WritePlan,
                upgradeChainVars
  <2>3. IsSequence(plans)
    BY DEF UpgradeInv, PlansInv
  <2>4. \A i \in 1..Len(plans') : \/ i \in 1..Len(plans) /\ plans'[i] = plans[i]
                                  \/ i = Len(plans) + 1 /\ plans'[i] = p
    BY <2>1, <2>3, PlanAppended
  <2> QED  BY <2>1, <2>2, <2>4 DEF UpgradeInv, MainnetInv
<1>2. ASSUME NEW i \in 1..Len(plans), CouncilSchedules(i)
      PROVE  MainnetInv'
  <2>1. PICK p : /\ plans' = [plans EXCEPT ![i] = p] /\ p.script = plans[i].script
                 /\ p.done = plans[i].done
    BY <1>2, PlanScheduled
  <2>3. UNCHANGED <<network, bridgeProxy, rebateProxy>>
    BY <1>2 DEF CouncilSchedules, upgradeChainVars
  <2>4. IsSequence(plans)
    BY DEF UpgradeInv, PlansInv
  <2>5. /\ Len(plans') = Len(plans) /\ plans'[i] = p
        /\ \A j \in 1..Len(plans) : j # i => plans'[j] = plans[j]
    BY <2>1, <2>4, PlanUpdated
  <2> QED  BY <2>1, <2>3, <2>5 DEF UpgradeInv, MainnetInv
<1>3. ASSUME NEW i \in 1..Len(plans), ExecuteNextAction(i)
      PROVE  MainnetInv'
  <2>1. PICK p : /\ plans' = [plans EXCEPT ![i] = p] /\ p.script = plans[i].script
                 /\ p.done = plans[i].done + 1
    BY <1>3, PlanExecuted
  <2>2. IsSequence(plans) /\ PlanMade(plans[i])
    BY DEF UpgradeInv, PlansInv
  <2>3. /\ Len(plans') = Len(plans) /\ plans'[i] = p
        /\ \A j \in 1..Len(plans) : j # i => plans'[j] = plans[j]
    BY <2>1, <2>2, PlanUpdated
  <2> DEFINE action == plans[i].actions[plans[i].done + 1]
  <2>4. DOMAIN bridgeProxy' = {"implementation", "initialized", "rebate", "vault"}
        /\ UNCHANGED network
    BY <1>3 DEF ExecuteNextAction, InitializeV5_RepairRebateStaking, UpgradedTo, UpgradeInv,
                MainnetInv
  <2>5. CASE network = "mainnet"
    <3>1. plans[i].script \in {Release, Hotfix} /\ plans[i].done \in Nat
          /\ plans[i].revision \in Revision /\ plans[i].revision >= 1
      BY <2>2, <2>5 DEF UpgradeInv, MainnetInv, PlanMade
    <3>2. VersionIn("RebateStaking", plans[i].revision) >= 1
      BY <3>1, ReleaseVersions
    <3>3. plans[i].done \in {0, 1}
      BY <1>3, <2>2, <3>1 DEF ExecuteNextAction, Executed, PlanMade
    <3>4. CASE plans[i].done = 0
      <4>1. action.proxy = "RebateStaking"
            /\ action.implementation = VersionIn("RebateStaking", plans[i].revision)
        BY <2>2, <3>1, <3>4 DEF PlanMade
      <4>2. rebateProxy' >= 1
        BY <1>3, <3>2, <4>1 DEF ExecuteNextAction
      <4>3. \A j \in 1..Len(plans') : plans'[j].script \in {Release, Hotfix}
        BY <2>1, <2>3, <2>5 DEF UpgradeInv, MainnetInv
      <4> QED  BY <2>4, <4>2, <4>3 DEF MainnetInv
    <3>5. CASE plans[i].done = 1
      <4>1. action.proxy = "Bridge"
        BY <2>2, <3>1, <3>5 DEF PlanMade
      <4>2. rebateProxy' = rebateProxy
        BY <1>3, <4>1 DEF ExecuteNextAction
      <4>3. rebateProxy >= 1
        BY <2>5, <3>5 DEF UpgradeInv, MainnetInv
      <4>4. \A j \in 1..Len(plans') : plans'[j].script \in {Release, Hotfix}
        BY <2>1, <2>3, <2>5 DEF UpgradeInv, MainnetInv
      <4> QED  BY <2>4, <4>2, <4>3, <4>4 DEF MainnetInv
    <3> QED  BY <3>3, <3>4, <3>5
  <2> QED  BY <2>4, <2>5 DEF MainnetInv
<1>4. CASE CouncilSetsRebateStaking
  <2>1. /\ UNCHANGED <<plans, network, rebateProxy>>
        /\ bridgeProxy'.implementation = bridgeProxy.implementation
        /\ DOMAIN bridgeProxy' = DOMAIN bridgeProxy
    BY <1>4 DEF CouncilSetsRebateStaking, UpgradeInv, MainnetInv
  <2> QED  BY <2>1 DEF UpgradeInv, MainnetInv
<1>5. CASE UpgradeBridgeProxy \/ UpgradeBridgeVaultFix \/ PrepareRebateStaking
           \/ (\E repairTarget \in {"none", "proxy"} : RepairProxy(repairTarget))
  <2>1. UNCHANGED <<plans, network>>
    BY <1>5 DEF UpgradeBridgeProxy, UpgradeBridgeVaultFix, PrepareRebateStaking, RepairProxy,
                offChainVars
  <2>2. network = "mainnet" => UNCHANGED <<bridgeProxy, rebateProxy>>
    BY <1>5 DEF UpgradeBridgeProxy, UpgradeBridgeVaultFix, PrepareRebateStaking, RepairProxy,
                ProxyAdminOwnedByDeployer, At, UpgradeInv, ScriptInv, ForHardhat
  <2>3. DOMAIN bridgeProxy' = DOMAIN bridgeProxy
    BY <1>5 DEF UpgradeBridgeProxy, UpgradeBridgeVaultFix, PrepareRebateStaking, RepairProxy,
                InitializeV2_FixVaultZeroDeposit, InitializeV5_RepairRebateStaking, UpgradedTo,
                UpgradeInv, MainnetInv
  <2> QED  BY <2>1, <2>2, <2>3 DEF UpgradeInv, MainnetInv
<1>6. UNCHANGED <<network, bridgeProxy, rebateProxy, plans>> \/ Writes
      \/ (\E i \in 1..Len(plans) : CouncilSchedules(i) \/ ExecuteNextAction(i))
      \/ CouncilSetsRebateStaking
      \/ UpgradeBridgeProxy \/ UpgradeBridgeVaultFix \/ PrepareRebateStaking
      \/ (\E repairTarget \in {"none", "proxy"} : RepairProxy(repairTarget))
  BY DEF UpgradeNext, StartScript, ScriptDies, CheckOutNextRevision, UpgradeBridgeDeposit,
         UpgradeBridgeImplementation, PrepareBridgeImplementation, ReadImplementation,
         ReadRebateStaking, ReportStatus, RepairImplementation, TIP109Libraries,
         TIP109BridgeImplementation, TIP109RebateImplementation, HotfixRedemption,
         HotfixBridgeImplementation, HotfixRebateImplementation, HotfixArtifacts, Writes,
         localVars, offChainVars, upgradeChainVars, upgradeVars
<1>7. CASE UNCHANGED <<network, bridgeProxy, rebateProxy, plans>>
  BY <1>7 DEF UpgradeInv, MainnetInv
<1> QED  BY <1>1, <1>2, <1>3, <1>4, <1>5, <1>6, <1>7

LEMMA UpgradeInvariant == UpgradeSpec => []UpgradeInv
<1>1. UpgradeInit => UpgradeInv
  <2> SUFFICES ASSUME UpgradeInit PROVE UpgradeInv
    OBVIOUS
  <2>1. ScriptInv
    <3>1. /\ DOMAIN Idle = {"name", "step", "built"} /\ Idle.step \in Nat
          /\ Idle.name \notin ForHardhat \cup {Release, Hotfix}
      BY DEF Idle, ForHardhat, Release, Hotfix
    <3>2. 0 \in Revision
      BY ReleaseAssumption DEF Revision
    <3> QED  BY <3>1, <3>2 DEF UpgradeInit, ScriptInv
  <2>2. plans = <<>> /\ script.name = "idle"
    BY DEF UpgradeInit, Idle
  <2>3. RecordedInv
    BY <2>2 DEF RecordedInv, Prepared, Written, Release, Hotfix
  <2>4. IsSequence(plans)
    BY <2>2 DEF IsSequence
  <2>5. PlansInv
    BY <2>2, <2>4 DEF PlansInv
  <2>6. DOMAIN bridgeProxy = {"implementation", "initialized", "rebate", "vault"}
        /\ bridgeProxy.implementation = [code |-> 0, deposit |-> 0, redemption |-> 0]
    BY DEF UpgradeInit
  <2>7. MainnetInv
    BY <2>2, <2>6 DEF MainnetInv
  <2> QED  BY <2>1, <2>3, <2>5, <2>7 DEF UpgradeInv
<1>2. UpgradeInv /\ [UpgradeNext]_upgradeVars => UpgradeInv'
  BY ScriptNext, RecordedNext, PlansNext, MainnetNext DEF UpgradeInv
<1> QED  BY <1>1, <1>2, PTL DEF UpgradeSpec

\* A new Bridge meets a new RebateStaking: see NewBridgeMeetsNewRebate. On mainnet only the
\* Council's plans change the proxies, and every plan upgrades RebateStaking first.
THEOREM RebateFirstTheorem == UpgradeSpec => []NewBridgeMeetsNewRebate
<1>1. UpgradeInv => NewBridgeMeetsNewRebate
  BY DEF UpgradeInv, MainnetInv, NewBridgeMeetsNewRebate
<1> QED  BY <1>1, UpgradeInvariant, PTL

\* A plan links the libraries of its revision: see PlansLinkTheirRevision. The hotfix takes
\* the recorded Deposit library, which is the release's whatever other scripts recorded.
THEOREM PlansLinkTheorem == UpgradeSpec => []PlansLinkTheirRevision
<1>1. UpgradeInv => PlansLinkTheirRevision
  <2> SUFFICES ASSUME UpgradeInv, NEW i \in 1..Len(plans), plans[i].script \in {Release, Hotfix},
                      NEW j \in 1..Len(plans[i].actions), plans[i].actions[j].proxy = "Bridge"
               PROVE  Links(plans[i].actions[j].implementation, plans[i].revision)
    BY DEF PlansLinkTheirRevision, Links, Release, Hotfix
  <2>1. PlanMade(plans[i])
    BY DEF UpgradeInv, PlansInv
  <2>2. j \in {1, 2}
    BY <2>1 DEF PlanMade
  <2> QED  BY <2>1, <2>2 DEF PlanMade
<1> QED  BY <1>1, UpgradeInvariant, PTL

-----------------------------------------------------------------------------
(***************************************************************************)
(* The simulation: operators and the wallets they sign for.                *)
(***************************************************************************)

\* The wallets that list an operator among their signers.
SignsFor(o) == {w \in DOMAIN walletStakingOperators : o \in walletStakingOperators[w]}

\* Wallets and operators are numbered as they come; numbers are not used again.
Numbered ==
  /\ walletIndex \in Nat /\ operatorIndex \in Nat
  /\ DOMAIN walletStakingOperators \subseteq 0..(walletIndex - 1)
  /\ \A w \in DOMAIN walletStakingOperators :
        walletStakingOperators[w] \subseteq 0..(operatorIndex - 1)
  /\ DOMAIN operatorToWallets \subseteq 0..(operatorIndex - 1)
  /\ stakingOperators \subseteq 0..(operatorIndex - 1)

\* The loop over operators meets staking ones only, the loop over the wallets of a
\* quitter, who stakes no longer, open wallets only.
LoopKeys ==
  /\ phase = "begin unstaking" => todo \subseteq stakingOperators
  /\ phase = "leave" => /\ quitter \notin stakingOperators
                        /\ todo \subseteq DOMAIN walletStakingOperators

Agree == \A o \in stakingOperators : WalletsOf(o) = SignsFor(o)

SimulationInv == Numbered /\ LoopKeys /\ Agree

LEMMA NextKeyOfTodo ==
    ASSUME todo \subseteq Nat, todo # {}
    PROVE  NextKey \in todo
<1>1. \E x \in todo : \A y \in todo : x <= y
  BY LeastElement
<1> QED  BY <1>1 DEF NextKey, Min

LEMMA SimulationInitInv == SimulationInit => SimulationInv
<1>1. OperatorCount \in Nat
  BY SimulationAssumption
<1> SUFFICES ASSUME SimulationInit  PROVE  SimulationInv
  OBVIOUS
<1>2. /\ walletIndex = 0 /\ operatorIndex = OperatorCount
      /\ stakingOperators = 0..(OperatorCount - 1) /\ phase = "close old"
      /\ walletStakingOperators = NoKeys /\ operatorToWallets = NoKeys
  BY DEF SimulationInit
<1>3. DOMAIN NoKeys = {}
  BY DEF NoKeys
<1> QED  BY <1>1, <1>2, <1>3 DEF SimulationInv, Numbered, LoopKeys, Agree, WalletsOf, SignsFor

\* Wherever a wallet is closed, its signers forget it and no other wallet, though the
\* list of signers may lack an operator who is leaving.
LEMMA CloseAgrees ==
    ASSUME NEW wallet, NEW balance, NEW stakers, CloseWallet(wallet, balance, stakers),
           DOMAIN stakers = DOMAIN walletStakingOperators,
           \A w \in DOMAIN stakers : stakers[w] \subseteq walletStakingOperators[w],
           \A w \in DOMAIN stakers : \A o \in stakingOperators :
               o \in walletStakingOperators[w] => o \in stakers[w],
           Agree, stakingOperators' = stakingOperators
    PROVE  /\ Agree'
           /\ DOMAIN operatorToWallets' = DOMAIN operatorToWallets
           /\ DOMAIN walletStakingOperators \ {wallet} \subseteq DOMAIN walletStakingOperators'
           /\ DOMAIN walletStakingOperators' \subseteq DOMAIN walletStakingOperators
           /\ \A w \in DOMAIN walletStakingOperators' :
                 walletStakingOperators'[w] \subseteq walletStakingOperators[w]
<1>1. CASE ~CanClose(wallet)
  <2>1. walletStakingOperators' = stakers /\ operatorToWallets' = operatorToWallets
    BY <1>1 DEF CloseWallet
  <2> QED  BY <2>1 DEF Agree, WalletsOf, SignsFor
<1>2. CASE CanClose(wallet)
  <2>1. /\ walletStakingOperators' = Without(stakers, wallet)
        /\ operatorToWallets' = Forget(wallet, stakers[wallet])
    BY <1>2 DEF CloseWallet
  <2>2. /\ DOMAIN walletStakingOperators' = DOMAIN stakers \ {wallet}
        /\ \A w \in DOMAIN stakers \ {wallet} : walletStakingOperators'[w] = stakers[w]
    BY <2>1 DEF Without
  <2>3. /\ DOMAIN operatorToWallets' = DOMAIN operatorToWallets
        /\ \A o \in DOMAIN operatorToWallets :
              operatorToWallets'[o] = IF o \in stakers[wallet]
                                      THEN operatorToWallets[o] \ {wallet}
                                      ELSE operatorToWallets[o]
    BY <2>1 DEF Forget
  <2>4. ASSUME NEW o \in stakingOperators
        PROVE  WalletsOf(o)' = SignsFor(o)'
    <3>1. WalletsOf(o) = SignsFor(o)
      BY DEF Agree
    <3>2. SignsFor(o)' = SignsFor(o) \ {wallet}
      BY <2>2 DEF SignsFor
    <3>3. CASE o \in DOMAIN operatorToWallets
      <4>1. WalletsOf(o)' = IF o \in stakers[wallet] THEN WalletsOf(o) \ {wallet}
                            ELSE WalletsOf(o)
        BY <2>3, <3>3 DEF WalletsOf
      <4>2. o \notin stakers[wallet] => wallet \notin SignsFor(o)
        BY DEF SignsFor
      <4> QED  BY <3>1, <3>2, <4>1, <4>2
    <3>4. CASE o \notin DOMAIN operatorToWallets
      BY <2>3, <3>1, <3>2, <3>4 DEF WalletsOf
    <3> QED  BY <3>3, <3>4
  <2> QED  BY <2>2, <2>3, <2>4 DEF Agree
<1> QED  BY <1>1, <1>2

\* A step that lets a wallet close, or closes none, and lets no operator in or out.
LEMMA GroupsKept ==
    ASSUME SimulationInv, UNCHANGED <<walletIndex, operatorIndex, stakingOperators>>,
           \/ UNCHANGED walletGroupVars
           \/ \E wallet, balance : CloseWallet(wallet, balance, walletStakingOperators)
    PROVE  Numbered' /\ Agree'
<1>1. CASE UNCHANGED walletGroupVars
  BY <1>1 DEF walletGroupVars, SimulationInv, Numbered, Agree, WalletsOf, SignsFor
<1>2. ASSUME NEW wallet, NEW balance, CloseWallet(wallet, balance, walletStakingOperators)
      PROVE  Numbered' /\ Agree'
  <2>1. /\ Agree'
        /\ DOMAIN operatorToWallets' = DOMAIN operatorToWallets
        /\ DOMAIN walletStakingOperators' \subseteq DOMAIN walletStakingOperators
        /\ \A w \in DOMAIN walletStakingOperators' :
              walletStakingOperators'[w] \subseteq walletStakingOperators[w]
    BY <1>2, CloseAgrees DEF SimulationInv
  <2> QED  BY <2>1 DEF SimulationInv, Numbered
<1> QED  BY <1>1, <1>2

LEMMA SimulationStep ==
    ASSUME SimulationInv, SimulationNext
    PROVE  SimulationInv'
<1> USE DEF operatorVars
<1>1. CASE CloseOldWallet
  <2>1. Numbered' /\ Agree'
    BY <1>1, GroupsKept DEF CloseOldWallet
  <2> QED  BY <1>1, <2>1 DEF CloseOldWallet, SimulationInv, LoopKeys
<1>2. CASE RegisterNewOperators
  <2>1. PICK newOperators \in 0..(MaxOperators - operatorIndex) :
          LET joined == operatorIndex..(operatorIndex + newOperators - 1) IN
          /\ stakingOperators' = stakingOperators \cup joined
          /\ operatorIndex' = operatorIndex + newOperators
          /\ Enter("begin unstaking", stakingOperators \cup joined)
    BY <1>2 DEF RegisterNewOperators
  <2>2. UNCHANGED <<walletIndex, walletStakingOperators, operatorToWallets>>
    BY <1>2 DEF RegisterNewOperators, walletGroupVars
  <2>3. newOperators \in Nat /\ operatorIndex \in Nat
    BY SimulationAssumption DEF SimulationInv, Numbered
  <2>4. Numbered'
    <3>0. operatorIndex' = operatorIndex + newOperators
      BY <2>1
    <3>1. operatorIndex' \in Nat /\ 0..(operatorIndex - 1) \subseteq 0..(operatorIndex' - 1)
      BY <2>3, <3>0
    <3>2. operatorIndex..(operatorIndex + newOperators - 1) \subseteq 0..(operatorIndex' - 1)
      BY <2>3, <3>0
    <3> QED  BY <2>1, <2>2, <3>1, <3>2 DEF SimulationInv, Numbered
  <2>5. LoopKeys'
    BY <2>1 DEF LoopKeys, Enter
  <2>6. ASSUME NEW o \in stakingOperators'
        PROVE  WalletsOf(o)' = SignsFor(o)'
    <3>1. WalletsOf(o)' = WalletsOf(o) /\ SignsFor(o)' = SignsFor(o)
      BY <2>2 DEF WalletsOf, SignsFor
    <3>2. CASE o \in stakingOperators
      BY <3>1, <3>2 DEF SimulationInv, Agree
    <3>3. CASE o \notin stakingOperators
      <4>0. o \in operatorIndex..(operatorIndex + newOperators - 1)
        BY <2>1, <3>3
      <4>1. o \notin 0..(operatorIndex - 1)
        BY <2>3, <4>0
      <4> QED  BY <3>1, <4>1 DEF SimulationInv, Numbered, WalletsOf, SignsFor
    <3> QED  BY <3>2, <3>3
  <2> QED  BY <2>4, <2>5, <2>6 DEF SimulationInv, Agree
<1>3. CASE OperatorStays
  BY <1>3 DEF OperatorStays, walletGroupVars, SimulationInv, Numbered, LoopKeys, Agree,
     WalletsOf, SignsFor
<1>4. CASE OperatorQuits
  <2>1. NextKey \in stakingOperators
    <3>1. todo \subseteq stakingOperators /\ todo # {}
      BY <1>4 DEF OperatorQuits, SimulationInv, LoopKeys
    <3>2. todo \subseteq Nat
      BY <3>1 DEF SimulationInv, Numbered
    <3> QED  BY <3>1, <3>2, NextKeyOfTodo
  <2>2. WalletsOf(NextKey) \subseteq DOMAIN walletStakingOperators
    BY <2>1 DEF SimulationInv, Agree, SignsFor
  <2>3. LoopKeys'
    BY <1>4, <2>2 DEF OperatorQuits, Enter, LoopKeys, walletGroupVars
  <2> QED  BY <1>4, <2>3 DEF OperatorQuits, walletGroupVars, SimulationInv, Numbered, Agree,
              WalletsOf, SignsFor
<1>5. CASE LeaveWallet
  <2> DEFINE wallet == NextKey
             stakers == [walletStakingOperators EXCEPT ![wallet] = @ \ {quitter}]
  <2>1. /\ quitter \notin stakingOperators
        /\ todo \subseteq DOMAIN walletStakingOperators
    BY <1>5 DEF LeaveWallet, SimulationInv, LoopKeys
  <2>2. /\ DOMAIN stakers = DOMAIN walletStakingOperators
        /\ \A w \in DOMAIN stakers : stakers[w] \subseteq walletStakingOperators[w]
        /\ \A w \in DOMAIN stakers : \A o \in stakingOperators :
              o \in walletStakingOperators[w] => o \in stakers[w]
    BY <2>1
  <2>3. /\ \/ CloseWallet(wallet, walletBalances[wallet], stakers)
           \/ walletStakingOperators' = stakers /\ operatorToWallets' = operatorToWallets
        /\ todo' = todo \ {wallet} /\ phase' = phase /\ quitter' = quitter
        /\ walletIndex' = walletIndex /\ operatorIndex' = operatorIndex
        /\ stakingOperators' = stakingOperators
    BY <1>5 DEF LeaveWallet
  <2> HIDE DEF wallet, stakers
  <2>4. /\ Agree'
        /\ DOMAIN operatorToWallets' = DOMAIN operatorToWallets
        /\ DOMAIN walletStakingOperators \ {wallet} \subseteq DOMAIN walletStakingOperators'
        /\ DOMAIN walletStakingOperators' \subseteq DOMAIN walletStakingOperators
        /\ \A w \in DOMAIN walletStakingOperators' :
              walletStakingOperators'[w] \subseteq walletStakingOperators[w]
    <3>1. CASE CloseWallet(wallet, walletBalances[wallet], stakers)
      BY <2>2, <2>3, <3>1, CloseAgrees DEF SimulationInv
    <3>2. CASE walletStakingOperators' = stakers /\ operatorToWallets' = operatorToWallets
      BY <2>2, <2>3, <3>2 DEF SimulationInv, Agree, WalletsOf, SignsFor
    <3> QED  BY <2>3, <3>1, <3>2
  <2>5. Numbered'
    BY <2>3, <2>4 DEF SimulationInv, Numbered
  <2>6. LoopKeys'
    BY <1>5, <2>1, <2>3, <2>4 DEF LoopKeys, LeaveWallet
  <2> QED  BY <2>4, <2>5, <2>6 DEF SimulationInv
<1>6. CASE OperatorHasLeft
  BY <1>6 DEF OperatorHasLeft, Enter, walletGroupVars, SimulationInv, Numbered, LoopKeys, Agree,
     WalletsOf, SignsFor
<1>7. CASE UnstakeOperators
  BY <1>7 DEF UnstakeOperators, Enter, walletGroupVars, SimulationInv, Numbered, LoopKeys, Agree,
     WalletsOf, SignsFor
<1>8. CASE CreateNewWalletEvent
  <2>1. UNCHANGED <<operatorIndex, stakingOperators>> /\ phase' = "deposit"
    BY <1>8 DEF CreateNewWalletEvent, Enter
  <2>2. LoopKeys'
    BY <2>1 DEF LoopKeys
  <2>3. CASE UNCHANGED <<walletIndex, walletGroupVars>>
    BY <2>1, <2>2, <2>3, GroupsKept DEF SimulationInv
  <2>4. ASSUME NEW operators \in GetRandomSample(stakingOperators, WalletSize),
               NewWallet(operators)
        PROVE  SimulationInv'
    <3>1. operators \subseteq stakingOperators
      BY <2>4 DEF GetRandomSample, kSubset
    <3>2. /\ DOMAIN walletStakingOperators' = DOMAIN walletStakingOperators \cup {walletIndex}
          /\ walletStakingOperators'[walletIndex] = operators
          /\ \A w \in DOMAIN walletStakingOperators \ {walletIndex} :
                walletStakingOperators'[w] = walletStakingOperators[w]
      BY <2>4 DEF NewWallet, With
    <3>3. /\ DOMAIN operatorToWallets' = DOMAIN operatorToWallets \cup operators
          /\ \A o \in DOMAIN operatorToWallets \cup operators : operatorToWallets'[o] =
                IF o \in operators THEN WalletsOf(o) \cup {walletIndex} ELSE operatorToWallets[o]
          /\ walletIndex' = walletIndex + 1
      BY <2>4 DEF NewWallet
    <3>4. walletIndex \in Nat /\ walletIndex \notin DOMAIN walletStakingOperators
      BY DEF SimulationInv, Numbered
    <3>5. ASSUME NEW o \in stakingOperators
          PROVE  WalletsOf(o)' = SignsFor(o)'
      <4>1. WalletsOf(o) = SignsFor(o)
        BY DEF SimulationInv, Agree
      <4>2. WalletsOf(o)' = IF o \in operators THEN WalletsOf(o) \cup {walletIndex}
                            ELSE WalletsOf(o)
        BY <3>3 DEF WalletsOf
      <4>3. SignsFor(o)' = IF o \in operators THEN SignsFor(o) \cup {walletIndex}
                           ELSE SignsFor(o)
        BY <3>2, <3>4 DEF SignsFor
      <4> QED  BY <4>1, <4>2, <4>3
    <3>6. Numbered'
      <4>1. 0..(walletIndex - 1) \cup {walletIndex} \subseteq 0..(walletIndex' - 1)
        BY <3>3, <3>4
      <4>2. DOMAIN walletStakingOperators' \subseteq 0..(walletIndex' - 1)
        BY <3>2, <4>1 DEF SimulationInv, Numbered
      <4>3. \A w \in DOMAIN walletStakingOperators' :
              walletStakingOperators'[w] \subseteq 0..(operatorIndex' - 1)
        BY <2>1, <3>1, <3>2 DEF SimulationInv, Numbered
      <4>4. DOMAIN operatorToWallets' \subseteq 0..(operatorIndex' - 1)
        BY <2>1, <3>1, <3>3 DEF SimulationInv, Numbered
      <4>5. walletIndex' \in Nat /\ operatorIndex' \in Nat
            /\ stakingOperators' \subseteq 0..(operatorIndex' - 1)
        BY <2>1, <3>3, <3>4 DEF SimulationInv, Numbered
      <4> QED  BY <4>2, <4>3, <4>4, <4>5 DEF Numbered
    <3> QED  BY <2>1, <2>2, <3>5, <3>6 DEF SimulationInv, Agree
  <2> QED  BY <1>8, <2>3, <2>4 DEF CreateNewWalletEvent
<1>9. CASE DailyDeposit
  BY <1>9, GroupsKept DEF DailyDeposit, Enter, SimulationInv, LoopKeys
<1>10. CASE StartDailyWithdraw
  BY <1>10, GroupsKept DEF StartDailyWithdraw, Enter, SimulationInv, LoopKeys
<1>11. CASE DailyWithdraw
  <2>1. /\ phase = "withdraw" /\ phase' = phase
        /\ UNCHANGED <<walletIndex, operatorIndex, stakingOperators>>
    BY <1>11 DEF DailyWithdraw
  <2>2. \/ UNCHANGED walletGroupVars
        \/ \E wallet, balance : CloseWallet(wallet, balance, walletStakingOperators)
    BY <1>11 DEF DailyWithdraw, Withdraw
  <2> QED  BY <2>1, <2>2, GroupsKept DEF SimulationInv, LoopKeys
<1>12. CASE NewDay
  BY <1>12, GroupsKept DEF NewDay, Enter, SimulationInv, LoopKeys
<1> QED  BY <1>1, <1>2, <1>3, <1>4, <1>5, <1>6, <1>7, <1>8, <1>9, <1>10, <1>11, <1>12
            DEF SimulationNext

(* A staking operator knows exactly the open wallets it signs for, and one    *)
(* who quits finds each of its wallets open when the loop comes to it, though *)
(* wallets close in the middle of the loops over operators and wallets: for   *)
(* any number of operators and days and any sizes and ages of wallets.        *)
THEOREM OperatorsKnowTheorem == SimulationSpec => []OperatorsKnowTheirWallets
<1>1. SimulationInv => OperatorsKnowTheirWallets
  BY DEF SimulationInv, LoopKeys, Agree, SignsFor, OperatorsKnowTheirWallets
<1>2. SimulationInv /\ UNCHANGED simulationVars => SimulationInv'
  BY DEF simulationVars, loopVars, operatorVars, walletGroupVars, SimulationInv, Numbered,
     LoopKeys, Agree, WalletsOf, SignsFor
<1> QED  BY <1>1, <1>2, SimulationInitInv, SimulationStep, PTL DEF SimulationSpec

-----------------------------------------------------------------------------
(* Rebate staking.                                                         *)

\* What StartIndexSound says of one list of rebates.
IndexSound(list, index, from) ==
    /\ index <= Len(list)
    /\ \A i \in 1..index : list[i].timestamp < from
    /\ \A i, j \in 1..Len(list) :
           i < j /\ list[i].timestamp >= from => list[i].timestamp <= list[j].timestamp

Later(from, start) == IF from < start THEN start ELSE from

RebatesPast ==
    \A u \in RebateUser : \A i \in 1..Len(rebates[u]) : rebates[u][i].timestamp <= blockTime

StakingInv ==
    StakingTypeOK /\ StakesHeld /\ DelegationsMutual /\ StartIndexSound /\ RebatesPast

LEMMA StartIndexSoundLists ==
    StartIndexSound <=> \A u \in RebateUser :
        IndexSound(rebates[u], rollingWindowStartIndex[u], countedFrom[u])
BY DEF StartIndexSound, IndexSound

LEMMA RebateTimes ==
    ASSUME NEW list \in Seq(Rebate)
    PROVE  Len(list) \in Nat /\ \A i \in 1..Len(list) :
               list[i] \in Rebate /\ list[i].timestamp \in Nat
                                  /\ list[i].feeRebate \in Nat
<1>1. Len(list) \in Nat /\ \A i \in 1..Len(list) : list[i] \in Rebate
  OBVIOUS
<1> QED
  BY <1>1 DEF Rebate

(* Of the entries that expired, each moves the index by one: it gets past    *)
(* expired ones only, as those that count are in order and come last.        *)
LEMMA SkipSound ==
    ASSUME NEW list \in Seq(Rebate), NEW index \in Nat, NEW from \in Nat, NEW start \in Int,
           IndexSound(list, index, from),
           NEW S \in SUBSET {i \in (index + 1)..Len(list) : list[i].timestamp < start}
    PROVE  Cardinality(S) \in Nat /\ IndexSound(list, index + Cardinality(S), Later(from, start))
<1> DEFINE n == Len(list)
           rest == (index + 1)..n
           new == Later(from, start)
<1>1. n \in Nat /\ (\A i \in 1..n : list[i].timestamp \in Nat)
  BY RebateTimes
<1>2. index <= n /\ (\A i \in 1..index : list[i].timestamp < from)
      /\ (\A i, j \in 1..n : i < j /\ list[i].timestamp >= from
                                 => list[i].timestamp <= list[j].timestamp)
  BY DEF IndexSound
<1>3. new \in Int /\ new >= from /\ new >= start
  BY DEF Later
<1>4. IsFiniteSet(rest) /\ S \subseteq rest
  <2>1. index + 1 \in Int /\ n \in Int
    BY <1>1
  <2>2. IsFiniteSet(rest)
    BY ONLY <2>1, FS_Interval
  <2>3. S \subseteq rest
    OBVIOUS
  <2> QED
    BY <2>2, <2>3
<1>5. IsFiniteSet(S) /\ Cardinality(S) \in Nat
  BY <1>4, FS_Subset, FS_CardinalityType
<1>6. ASSUME NEW last \in index..n, S \subseteq (index + 1)..last
      PROVE  Cardinality(S) <= last - index
  <2>1. index + 1 \in Int /\ last \in Int /\ last - (index + 1) + 1 = last - index
    BY <1>1
  <2>2. IsFiniteSet((index + 1)..last)
        /\ Cardinality((index + 1)..last) = IF index + 1 > last THEN 0 ELSE last - (index + 1) + 1
    BY ONLY <2>1, FS_Interval
  <2>3. Cardinality((index + 1)..last) = last - index
    BY <2>1, <2>2, <1>1
  <2>4. Cardinality(S) <= Cardinality((index + 1)..last)
    BY ONLY <2>2, <1>6, FS_Subset
  <2> QED
    BY <2>3, <2>4
<1>7. index + Cardinality(S) <= n
  <2>1. n \in index..n /\ S \subseteq (index + 1)..n
    BY <1>1, <1>2, <1>4
  <2>2. Cardinality(S) <= n - index
    BY <2>1, <1>6
  <2> QED
    BY ONLY <2>2, <1>1, <1>5, index \in Nat
<1>8. ASSUME NEW i \in 1..(index + Cardinality(S))
      PROVE  list[i].timestamp < new
  <2>1. i \in 1..n
    BY <1>1, <1>5, <1>7
  <2> SUFFICES ASSUME list[i].timestamp >= new
               PROVE  FALSE
    BY <2>1, <1>1, <1>3
  <2>2. i > index
    BY <2>1, <1>1, <1>2, <1>3
  <2>3. \A j \in S : j < i
    <3> SUFFICES ASSUME NEW j \in S, j >= i
                 PROVE  FALSE
      BY <2>1, <1>4
    <3>1. j \in 1..n /\ list[j].timestamp < start
      BY <1>1
    <3> QED
      BY <3>1, <2>1, <1>1, <1>2, <1>3
  <2>4. S \subseteq (index + 1)..(i - 1) /\ i - 1 \in index..n
    BY <2>1, <2>2, <2>3, <1>4
  <2>5. Cardinality(S) <= i - 1 - index
    BY <2>4, <1>6
  <2> QED
    BY <2>5, <2>1, <1>5
<1> HIDE DEF new
<1>9. \A i, j \in 1..n : i < j /\ list[i].timestamp >= new
                             => list[i].timestamp <= list[j].timestamp
  <2> TAKE i, j \in 1..n
  <2>1. list[i].timestamp >= new => list[i].timestamp >= from
    BY <1>1, <1>3
  <2> QED
    BY <2>1, <1>2
<1>10. IndexSound(list, index + Cardinality(S), new)
  BY <1>7, <1>8, <1>9 DEF IndexSound
<1> QED
  BY <1>5, <1>10 DEF new

LEMMA AppendSound ==
    ASSUME NEW list \in Seq(Rebate), NEW index \in Nat, NEW from \in Nat, NEW r \in Rebate,
           IndexSound(list, index, from),
           \A i \in 1..Len(list) : list[i].timestamp <= r.timestamp
    PROVE  IndexSound(Append(list, r), index, from)
<1> DEFINE longer == Append(list, r)
           n == Len(list)
<1>1. n \in Nat /\ Len(longer) = n + 1 /\ longer[n + 1] = r
      /\ (\A i \in 1..n : longer[i] = list[i])
  OBVIOUS
<1> HIDE DEF longer
<1>2. index <= n /\ (\A i \in 1..index : list[i].timestamp < from)
      /\ (\A i, j \in 1..n : i < j /\ list[i].timestamp >= from
                                 => list[i].timestamp <= list[j].timestamp)
  BY DEF IndexSound
<1>3. \A i \in 1..index : longer[i].timestamp < from
  BY <1>1, <1>2
<1>4. ASSUME NEW i \in 1..(n + 1), NEW j \in 1..(n + 1), i < j, longer[i].timestamp >= from
      PROVE  longer[i].timestamp <= longer[j].timestamp
  <2>1. i \in 1..n /\ longer[i] = list[i]
    BY <1>1, <1>4
  <2>2. CASE j = n + 1
    BY <2>1, <2>2, <1>1
  <2>3. CASE j \in 1..n
    BY <2>1, <2>3, <1>1, <1>2, <1>4
  <2> QED
    BY <2>2, <2>3, <1>1
<1>5. IndexSound(longer, index, from)
  BY <1>1, <1>2, <1>3, <1>4 DEF IndexSound
<1> QED
  BY <1>5 DEF longer

(* Nothing of two lists put together counts from the next block on.          *)
LEMMA ConcatSound ==
    ASSUME NEW list \in Seq(Rebate), NEW more \in Seq(Rebate), NEW index \in Nat,
           index <= Len(more), NEW time \in Nat,
           \A i \in 1..Len(list) : list[i].timestamp <= time,
           \A i \in 1..Len(more) : more[i].timestamp <= time
    PROVE  /\ list \o more \in Seq(Rebate)
           /\ \A i \in 1..Len(list \o more) : (list \o more)[i].timestamp <= time
           /\ IndexSound(list \o more, index, time + 1)
<1> DEFINE both == list \o more
<1>1. both \in Seq(Rebate) /\ Len(both) = Len(list) + Len(more)
      /\ Len(list) \in Nat /\ Len(more) \in Nat
      /\ (\A i \in 1..Len(both) :
             both[i] = IF i <= Len(list) THEN list[i] ELSE more[i - Len(list)])
  OBVIOUS
<1> HIDE DEF both
<1>2. \A i \in 1..Len(both) : both[i].timestamp <= time /\ both[i].timestamp \in Nat
  <2> TAKE i \in 1..Len(both)
  <2>1. both[i].timestamp \in Nat
    BY <1>1, RebateTimes
  <2>2. CASE i <= Len(list)
    BY <2>1, <2>2, <1>1
  <2>3. CASE i > Len(list)
    <3>1. i - Len(list) \in 1..Len(more) /\ both[i] = more[i - Len(list)]
      BY <2>3, <1>1
    <3> QED
      BY <3>1, <2>1
  <2> QED
    BY <2>2, <2>3, <1>1
<1>3. IndexSound(both, index, time + 1)
  <2>1. index <= Len(both)
    BY <1>1
  <2>2. \A i \in 1..Len(both) : both[i].timestamp < time + 1
    BY <1>2
  <2>3. \A i \in 1..index : both[i].timestamp < time + 1
    BY <2>1, <2>2, <1>1
  <2> QED
    BY <2>1, <2>2, <2>3, <1>2 DEF IndexSound
<1> QED
  BY <1>1, <1>2, <1>3 DEF both

LEMMA TotalSubset ==
    ASSUME NEW D, IsFiniteSet(D), NEW S \in SUBSET D, NEW f \in [D -> Nat]
    PROVE  Total([x \in S |-> f[x]]) \in Nat /\ Total([x \in S |-> f[x]]) <= Total(f)
<1> DEFINE in == [x \in S |-> f[x]]
           out == [x \in D \ S |-> f[x]]
<1>1. IsFiniteSet(S) /\ IsFiniteSet(D \ S)
  BY FS_Subset
<1>2. in \in [S -> Nat] /\ out \in [D \ S -> Nat]
  OBVIOUS
<1>3. Total(f) = Total(in) + Total(out)
  BY TotalSplit
<1> HIDE DEF in, out
<1>4. Total(in) \in Nat /\ Total(out) \in Nat /\ Total(f) \in Nat
  BY <1>1, <1>2, TotalType
<1>5. Total(in) \in Nat /\ Total(in) <= Total(f)
  BY <1>3, <1>4
<1> QED
  BY <1>5 DEF in

\* The rebates of a list since a time, and those of the loop over it.
SinceIn(list, time) ==
    Total([i \in {j \in 1..Len(list) : list[j].timestamp >= time} |-> list[i].feeRebate])
ExpiredIn(list, index, start) == {i \in (index + 1)..Len(list) : list[i].timestamp < start}
UsedIn(list, index, start) ==
    Total([i \in ((index + 1)..Len(list)) \ ExpiredIn(list, index, start) |-> list[i].feeRebate])

LEMMA UsedType ==
    ASSUME NEW list \in Seq(Rebate), NEW index \in Nat, NEW start \in Int
    PROVE  UsedIn(list, index, start) \in Nat
<1> DEFINE kept == ((index + 1)..Len(list)) \ ExpiredIn(list, index, start)
           used == [i \in kept |-> list[i].feeRebate]
<1>1. kept \subseteq 1..Len(list) /\ IsFiniteSet(1..Len(list))
  BY RebateTimes, UpToCardinality
<1>2. IsFiniteSet(kept)
  BY <1>1, FS_Subset
<1>3. used \in [kept -> Nat]
  BY <1>1, RebateTimes
<1> HIDE DEF used, kept
<1>4. Total(used) \in Nat
  BY <1>2, <1>3, TotalType
<1> QED
  BY <1>4 DEF used, kept, UsedIn

LEMMA SinceType ==
    ASSUME NEW list \in Seq(Rebate), NEW time \in Int
    PROVE  SinceIn(list, time) \in Nat
<1> DEFINE kept == {j \in 1..Len(list) : list[j].timestamp >= time}
           since == [i \in kept |-> list[i].feeRebate]
<1>1. kept \subseteq 1..Len(list) /\ IsFiniteSet(1..Len(list))
  BY RebateTimes, UpToCardinality
<1>2. IsFiniteSet(kept)
  BY <1>1, FS_Subset
<1>3. since \in [kept -> Nat]
  BY <1>1, RebateTimes
<1> HIDE DEF since, kept
<1>4. Total(since) \in Nat
  BY <1>2, <1>3, TotalType
<1> QED
  BY <1>4 DEF since, kept, SinceIn

(* What the loop adds up is no less than what was granted since.             *)
LEMMA GrantWithinUsed ==
    ASSUME NEW list \in Seq(Rebate), NEW index \in Nat, NEW from \in Nat, NEW start \in Int,
           IndexSound(list, index, from), NEW r \in Rebate
    PROVE  SinceIn(Append(list, r), Later(from, start))
              <= UsedIn(list, index, start) + r.feeRebate
<1> DEFINE n == Len(list)
           longer == Append(list, r)
           D == {j \in 1..Len(longer) : longer[j].timestamp >= Later(from, start)}
           f == [i \in D |-> longer[i].feeRebate]
           last == D \intersect {n + 1}
           kept == ((index + 1)..Len(list)) \ ExpiredIn(list, index, start)
           used == [i \in kept |-> list[i].feeRebate]
           fLast == [i \in last |-> f[i]]
           fRest == [i \in D \ last |-> f[i]]
           usedRest == [i \in D \ last |-> used[i]]
<1>1. n \in Nat /\ Len(longer) = n + 1 /\ longer[n + 1] = r
      /\ (\A i \in 1..n : longer[i] = list[i])
  OBVIOUS
<1>2. longer \in Seq(Rebate)
  OBVIOUS
<1>3. D \subseteq 1..(n + 1) /\ IsFiniteSet(1..(n + 1)) /\ IsFiniteSet(1..n)
  BY <1>1, UpToCardinality
<1>4. IsFiniteSet(D) /\ IsFiniteSet(last) /\ IsFiniteSet(D \ last)
  BY <1>3, FS_Subset
<1>5. f \in [D -> Nat]
  <2>1. \A i \in D : longer[i].feeRebate \in Nat
    <3> HIDE DEF longer
    <3>1. \A i \in 1..Len(longer) : longer[i].feeRebate \in Nat
      BY <1>2, RebateTimes
    <3> QED
      BY <3>1
  <2> QED
    BY <2>1
<1>6. kept \subseteq 1..n /\ IsFiniteSet(kept)
  <2>1. kept \subseteq 1..n
    BY <1>1
  <2> QED
    BY <2>1, <1>3, FS_Subset
<1>7. used \in [kept -> Nat]
  <2>1. \A i \in kept : list[i].feeRebate \in Nat
    BY <1>6, RebateTimes
  <2> QED
    BY <2>1
<1>8. D \ last \subseteq kept /\ \A i \in D \ last : f[i] = used[i]
  <2> SUFFICES ASSUME NEW i \in D \ last
               PROVE  i \in kept /\ f[i] = used[i]
    OBVIOUS
  <2>1. i \in 1..n /\ longer[i] = list[i] /\ list[i].timestamp >= Later(from, start)
    BY <1>1, <1>3
  <2>2. list[i].timestamp \in Nat
    BY <2>1, RebateTimes
  <2>3. list[i].timestamp >= from /\ list[i].timestamp >= start
    BY <2>1, <2>2 DEF Later
  <2>4. i > index
    BY <2>1, <2>2, <2>3 DEF IndexSound
  <2>5. i \in kept
    BY <2>1, <2>2, <2>3, <2>4, <1>1 DEF ExpiredIn
  <2> QED
    BY <2>1, <2>5
<1>9. Total(fLast) \in Nat /\ Total(fLast) <= r.feeRebate
  <2>1. r.feeRebate \in Nat
    BY RebateStakingAssumption DEF Rebate
  <2>2. CASE n + 1 \in D
    <3>1. last = {n + 1} /\ f[n + 1] = r.feeRebate
      BY <2>2, <1>1
    <3>2. fLast \in [{n + 1} -> Nat] /\ fLast[n + 1] = r.feeRebate
      BY <3>1, <1>5, <2>2
    <3> HIDE DEF fLast, n
    <3>3. Total(fLast) = fLast[n + 1]
      BY <3>2, TotalSingleton
    <3> QED
      BY <3>2, <3>3, <2>1
  <2>3. CASE n + 1 \notin D
    <3>1. last = {}
      BY <2>3
    <3>2. fLast \in [{} -> Nat]
      BY <3>1
    <3> HIDE DEF fLast
    <3>3. Total(fLast) = 0
      BY <3>2, TotalZero
    <3> QED
      BY <3>3, <2>1
  <2> QED
    BY <2>2, <2>3
<1> HIDE DEF D, f, kept, used, last, longer
<1>10. Total(fRest) \in Nat /\ Total(fRest) <= Total(used) /\ Total(used) \in Nat
  <2>1. Total(usedRest) \in Nat /\ Total(usedRest) <= Total(used)
    BY <1>6, <1>7, <1>8, TotalSubset
  <2>2. fRest = usedRest
    BY <1>8
  <2>3. Total(used) \in Nat
    BY <1>6, <1>7, TotalType
  <2> QED
    BY <2>1, <2>2, <2>3
<1>11. Total(f) = Total(fLast) + Total(fRest)
  <2>1. last \in SUBSET D
    BY DEF last
  <2> QED
    BY <2>1, <1>4, <1>5, TotalSplit
<1>12. r.feeRebate \in Nat
  BY RebateStakingAssumption DEF Rebate
<1> HIDE DEF fRest, fLast
<1>13. Total(f) <= Total(used) + r.feeRebate
  BY <1>9, <1>10, <1>11, <1>12
<1> QED
  BY <1>13 DEF SinceIn, UsedIn, D, f, kept, used, longer

RebateTypeOK ==
    /\ rollingWindowStartIndex \in [RebateUser -> Nat]
    /\ rebates \in [RebateUser -> Seq(Rebate)]
    /\ countedFrom \in [RebateUser -> Nat]

RebateInv == RebateTypeOK /\ StartIndexSound /\ RebatesPast

LEMMA RebateFacts ==
    ASSUME StakingInv
    PROVE  /\ WindowStart \in Int /\ WindowStart <= blockTime /\ blockTime \in Nat
           /\ RebateInv
           /\ \A u \in RebateUser :
                 /\ rebates[u] \in Seq(Rebate) /\ rollingWindowStartIndex[u] \in Nat
                 /\ countedFrom[u] \in Nat
                 /\ IndexSound(rebates[u], rollingWindowStartIndex[u], countedFrom[u])
                 /\ Expired(u) = ExpiredIn(rebates[u], rollingWindowStartIndex[u], WindowStart)
                 /\ RebateInRollingWindow(u)
                       = UsedIn(rebates[u], rollingWindowStartIndex[u], WindowStart)
                 /\ RebateInRollingWindow(u) \in Nat
<1>1. blockTime \in Nat /\ rollingWindow \in Nat /\ RebateInv
  BY DEF StakingInv, StakingTypeOK, RebateInv, RebateTypeOK
<1>2. WindowStart \in Int /\ WindowStart <= blockTime
  BY <1>1 DEF WindowStart
<1>3. ASSUME NEW u \in RebateUser
      PROVE  /\ rebates[u] \in Seq(Rebate) /\ rollingWindowStartIndex[u] \in Nat
             /\ countedFrom[u] \in Nat
             /\ IndexSound(rebates[u], rollingWindowStartIndex[u], countedFrom[u])
  BY <1>1, StartIndexSoundLists DEF RebateInv, RebateTypeOK
<1>4. ASSUME NEW u \in RebateUser
      PROVE  /\ Expired(u) = ExpiredIn(rebates[u], rollingWindowStartIndex[u], WindowStart)
             /\ RebateInRollingWindow(u)
                   = UsedIn(rebates[u], rollingWindowStartIndex[u], WindowStart)
  BY DEF Expired, Remembered, ExpiredIn, RebateInRollingWindow, UsedIn
<1>5. \A u \in RebateUser : RebateInRollingWindow(u) \in Nat
  BY <1>2, <1>3, <1>4, UsedType
<1> QED
  BY <1>1, <1>2, <1>3, <1>4, <1>5

LEMMA SkipStep ==
    ASSUME StakingInv, NEW s \in RebateUser, NEW S \in SUBSET Expired(s),
           SkipRebates(s, Cardinality(S))
    PROVE  /\ rollingWindowStartIndex' \in [RebateUser -> Nat]
           /\ countedFrom' \in [RebateUser -> Nat]
           /\ countedFrom'[s] = Later(countedFrom[s], WindowStart)
           /\ \A u \in RebateUser :
                 IndexSound(rebates[u], rollingWindowStartIndex'[u], countedFrom'[u])
<1>1. /\ rebates[s] \in Seq(Rebate) /\ rollingWindowStartIndex[s] \in Nat
      /\ countedFrom[s] \in Nat /\ WindowStart \in Int
      /\ IndexSound(rebates[s], rollingWindowStartIndex[s], countedFrom[s])
      /\ rollingWindowStartIndex \in [RebateUser -> Nat]
      /\ countedFrom \in [RebateUser -> Nat]
  BY RebateFacts DEF RebateInv, RebateTypeOK
<1>2. S \in SUBSET {i \in (rollingWindowStartIndex[s] + 1)..Len(rebates[s]) :
                       rebates[s][i].timestamp < WindowStart}
  BY RebateFacts DEF ExpiredIn
<1>3. /\ Cardinality(S) \in Nat
      /\ IndexSound(rebates[s], rollingWindowStartIndex[s] + Cardinality(S),
                    Later(countedFrom[s], WindowStart))
  BY <1>1, <1>2, SkipSound
<1>4. /\ rollingWindowStartIndex' = [rollingWindowStartIndex EXCEPT ![s] = @ + Cardinality(S)]
      /\ countedFrom' = [countedFrom EXCEPT ![s] = Later(@, WindowStart)]
  BY DEF SkipRebates, Later
<1>5. Later(countedFrom[s], WindowStart) \in Nat
  BY <1>1 DEF Later
<1>6. /\ rollingWindowStartIndex' \in [RebateUser -> Nat]
      /\ countedFrom' \in [RebateUser -> Nat]
      /\ countedFrom'[s] = Later(countedFrom[s], WindowStart)
      /\ rollingWindowStartIndex'[s] = rollingWindowStartIndex[s] + Cardinality(S)
      /\ \A u \in RebateUser \ {s} :
            rollingWindowStartIndex'[u] = rollingWindowStartIndex[u]
            /\ countedFrom'[u] = countedFrom[u]
  BY <1>1, <1>3, <1>4, <1>5
<1>7. ASSUME NEW u \in RebateUser
      PROVE  IndexSound(rebates[u], rollingWindowStartIndex'[u], countedFrom'[u])
  <2>1. CASE u = s
    BY <2>1, <1>3, <1>6
  <2>2. CASE u # s
    BY <2>2, <1>6, RebateFacts
  <2> QED
    BY <2>1, <2>2
<1> QED
  BY <1>6, <1>7

LEMMA CapType ==
    ASSUME StakingInv, NEW u \in RebateUser
    PROVE  GetRebateCap(u) \in Nat
<1> DEFINE stake == stakedAmount[u] - unstakingAmount[u]
<1>1. stake \in Nat /\ rebatePerToken \in Nat
  BY DEF StakingInv, StakesHeld, StakingTypeOK
<1>2. rebatePerToken # 0 => stake \div rebatePerToken \in Nat
  <2> HIDE DEF stake
  <2> QED
    BY <1>1
<1> QED
  BY <1>2 DEF GetRebateCap

(* A rebate is a part of the fee, and of what is left of the cap.            *)
LEMMA RebateBounds ==
    ASSUME StakingInv, NEW u \in RebateUser, NEW fee \in 0..UINT64_MAX, NEW type,
           Rebated(u, type)
    PROVE  /\ RebateOn(u, fee) \in 0..fee /\ RebateOn(u, fee) \in 0..UINT64_MAX
           /\ fee > 0 => RebateOn(u, fee) > 0
           /\ RebateInRollingWindow(u) + RebateOn(u, fee) <= GetRebateCap(u)
<1>1. UINT64_MAX \in Nat /\ fee \in Nat /\ fee <= UINT64_MAX
  BY RebateStakingAssumption
<1>3. GetRebateCap(u) \in Nat
  BY CapType
<1>4. RebateInRollingWindow(u) \in Nat /\ RebateInRollingWindow(u) < GetRebateCap(u)
  BY RebateFacts DEF Rebated
<1> DEFINE cap == GetRebateCap(u)
           used == RebateInRollingWindow(u)
<1>5. RebateOn(u, fee) = IF cap - used > fee THEN fee ELSE cap - used
  BY DEF RebateOn
<1> HIDE DEF cap, used
<1>6. cap \in Nat /\ used \in Nat /\ used < cap
  BY <1>3, <1>4 DEF cap, used
<1>7. /\ RebateOn(u, fee) \in 0..fee /\ RebateOn(u, fee) \in 0..UINT64_MAX
      /\ fee > 0 => RebateOn(u, fee) > 0
      /\ used + RebateOn(u, fee) <= cap
  BY <1>1, <1>5, <1>6
<1> QED
  BY <1>7 DEF cap, used

\* What a call of the Bridge does to the rebates of a staker.
SameTimes(s) ==
    /\ rebates' \in [RebateUser -> Seq(Rebate)]
    /\ \A u \in RebateUser :
          /\ Len(rebates'[u]) = Len(rebates[u])
          /\ \A i \in 1..Len(rebates[u]) :
                rebates'[u][i].timestamp = rebates[u][i].timestamp

Granted(s) ==
    \E fee \in 0..UINT64_MAX, type \in {"Deposit", "Redemption"} :
        Rebated(s, type) /\ GrantRebate(s, fee)

RebateChange ==
    \/ UNCHANGED rebateVars
    \/ \E s \in RebateUser : \E S \in SUBSET Expired(s) :
          /\ SkipRebates(s, Cardinality(S))
          /\ UNCHANGED rebates \/ SameTimes(s) \/ Granted(s)

LEMMA StakerIsUser ==
    ASSUME StakingInv, NEW u \in RebateUser
    PROVE  GetStaker(u) \in RebateUser
BY DEF StakingInv, StakingTypeOK, GetStaker

LEMMA ApplyChange ==
    ASSUME StakingInv, NEW u \in RebateUser, NEW fee \in TreasuryFee,
           NEW type \in {"Deposit", "Redemption"}, ApplyForRebate(u, fee, type)
    PROVE  RebateChange
<1> DEFINE staker == GetStaker(u)
<1>1. staker \in RebateUser /\ fee \in 0..UINT64_MAX
  BY StakerIsUser, RebateStakingAssumption
<1>2. \/ UNCHANGED rebateVars
      \/ /\ SkipRebates(staker, Cardinality(Expired(staker)))
         /\ IF Rebated(staker, type) THEN GrantRebate(staker, fee) ELSE UNCHANGED rebates
  BY DEF ApplyForRebate
<1> HIDE DEF staker
<1>3. UNCHANGED rebates \/ (Rebated(staker, type) /\ GrantRebate(staker, fee))
  BY <1>2 DEF rebateVars
<1>4. UNCHANGED rebates \/ Granted(staker)
  BY <1>1, <1>3 DEF Granted
<1>5. Expired(staker) \in SUBSET Expired(staker)
  OBVIOUS
<1> QED
  BY <1>1, <1>2, <1>4, <1>5 DEF RebateChange

LEMMA CancelChange ==
    ASSUME StakingInv, NEW u \in RebateUser, NEW requestedAt, CancelRebate(u, requestedAt)
    PROVE  RebateChange
<1> DEFINE staker == GetStaker(u)
           GrantedAt(i) == rebates[staker][i].timestamp
           Ends(i) == \/ GrantedAt(i) > requestedAt
                      \/ GrantedAt(i) = requestedAt /\ GrantedAt(i) >= WindowStart
           Reached(i) == \A j \in Remembered(staker) : j < i => ~Ends(j)
           Cancelled(i) == /\ i \in Remembered(staker) /\ Reached(i)
                           /\ Ends(i) /\ GrantedAt(i) = requestedAt
           skipped == {i \in Expired(staker) : Reached(i) /\ ~Ends(i)}
           new == [i \in 1..Len(rebates[staker]) |->
                      IF Cancelled(i) THEN [rebates[staker][i] EXCEPT !.feeRebate = 0]
                      ELSE rebates[staker][i]]
<1>1. staker \in RebateUser /\ skipped \in SUBSET Expired(staker)
  BY StakerIsUser
<1>2. \/ UNCHANGED rebateVars
      \/ /\ SkipRebates(staker, Cardinality(skipped))
         /\ rebates' = [rebates EXCEPT ![staker] = new]
  BY DEF CancelRebate
<1> HIDE DEF skipped, Cancelled
<1>3. rebates[staker] \in Seq(Rebate) /\ rebates \in [RebateUser -> Seq(Rebate)]
  BY <1>1, RebateFacts DEF RebateInv, RebateTypeOK
<1>4. /\ \A i \in 1..Len(rebates[staker]) :
            new[i] \in Rebate /\ new[i].timestamp = rebates[staker][i].timestamp
      /\ Len(rebates[staker]) \in Nat
  <2>1. Len(rebates[staker]) \in Nat
        /\ \A i \in 1..Len(rebates[staker]) : rebates[staker][i] \in Rebate
    BY <1>3, RebateTimes
  <2>2. 0 \in 0..UINT64_MAX
    BY RebateStakingAssumption
  <2>3. ASSUME NEW r \in Rebate
        PROVE  [r EXCEPT !.feeRebate = 0] \in Rebate
               /\ [r EXCEPT !.feeRebate = 0].timestamp = r.timestamp
    BY <2>2 DEF Rebate
  <2> QED
    BY <2>1, <2>3
<1>5. new \in Seq(Rebate) /\ Len(new) = Len(rebates[staker])
  <2>1. new \in [1..Len(rebates[staker]) -> Rebate]
    BY <1>4
  <2> HIDE DEF new
  <2> QED
    BY <2>1, <1>4, SeqDef, LenProperties
<1> HIDE DEF new, staker
<1>6. ASSUME rebates' = [rebates EXCEPT ![staker] = new]
      PROVE  SameTimes(staker)
  BY <1>1, <1>3, <1>4, <1>5, <1>6 DEF SameTimes
<1> QED
  BY <1>1, <1>2, <1>6 DEF RebateChange

LEMMA SameTimesSound ==
    ASSUME NEW list, NEW new, NEW index \in Nat, NEW from, IndexSound(list, index, from),
           Len(list) \in Nat, Len(new) = Len(list),
           \A i \in 1..Len(list) : new[i].timestamp = list[i].timestamp
    PROVE  IndexSound(new, index, from)
<1>1. index <= Len(list) /\ \A i \in 1..index : i \in 1..Len(list)
  BY DEF IndexSound
<1> QED
  BY <1>1 DEF IndexSound

(* No call of the Bridge makes the index pass a rebate that counts.          *)
LEMMA RebateChangeKeeps ==
    ASSUME StakingInv, RebateChange, UNCHANGED blockTime
    PROVE  RebateInv'
<1>1. CASE UNCHANGED rebateVars
  BY <1>1, RebateFacts
     DEF rebateVars, RebateInv, RebateTypeOK, StartIndexSound, RebatesPast
<1>2. ASSUME NEW s \in RebateUser, NEW S \in SUBSET Expired(s),
             SkipRebates(s, Cardinality(S))
      PROVE  /\ rollingWindowStartIndex' \in [RebateUser -> Nat]
             /\ countedFrom' \in [RebateUser -> Nat]
             /\ \A u \in RebateUser :
                   IndexSound(rebates[u], rollingWindowStartIndex'[u], countedFrom'[u])
  BY <1>2, SkipStep
<1>3. ASSUME /\ rollingWindowStartIndex' \in [RebateUser -> Nat]
             /\ countedFrom' \in [RebateUser -> Nat]
             /\ rebates' \in [RebateUser -> Seq(Rebate)]
             /\ \A u \in RebateUser :
                   /\ IndexSound(rebates'[u], rollingWindowStartIndex'[u], countedFrom'[u])
                   /\ \A i \in 1..Len(rebates'[u]) : rebates'[u][i].timestamp <= blockTime
      PROVE  RebateInv'
  BY <1>3 DEF RebateInv, RebateTypeOK, RebatesPast, StartIndexSound, IndexSound
<1>4. rebates \in [RebateUser -> Seq(Rebate)] /\ RebatesPast /\ blockTime \in Nat
  BY RebateFacts DEF RebateInv, RebateTypeOK
<1>5. ASSUME NEW s \in RebateUser, NEW S \in SUBSET Expired(s),
             SkipRebates(s, Cardinality(S)), UNCHANGED rebates
      PROVE  RebateInv'
  BY <1>2, <1>3, <1>4, <1>5 DEF RebatesPast
<1>6. ASSUME NEW s \in RebateUser, NEW S \in SUBSET Expired(s),
             SkipRebates(s, Cardinality(S)), SameTimes(s)
      PROVE  RebateInv'
  <2>1. ASSUME NEW u \in RebateUser
        PROVE  /\ IndexSound(rebates'[u], rollingWindowStartIndex'[u], countedFrom'[u])
               /\ \A i \in 1..Len(rebates'[u]) : rebates'[u][i].timestamp <= blockTime
    <3>1. IndexSound(rebates[u], rollingWindowStartIndex'[u], countedFrom'[u])
          /\ rollingWindowStartIndex'[u] \in Nat
      BY <1>2, <1>6
    <3>2. /\ Len(rebates'[u]) = Len(rebates[u]) /\ Len(rebates[u]) \in Nat
          /\ \A i \in 1..Len(rebates[u]) :
                rebates'[u][i].timestamp = rebates[u][i].timestamp
      BY <1>4, <1>6, RebateTimes DEF SameTimes
    <3>3. IndexSound(rebates'[u], rollingWindowStartIndex'[u], countedFrom'[u])
      BY <3>1, <3>2, SameTimesSound
    <3>4. \A i \in 1..Len(rebates'[u]) : rebates'[u][i].timestamp <= blockTime
      BY <3>2, <1>4 DEF RebatesPast
    <3> QED
      BY <3>3, <3>4
  <2> QED
    BY <2>1, <1>2, <1>3, <1>6 DEF SameTimes
<1>7. ASSUME NEW s \in RebateUser, NEW S \in SUBSET Expired(s),
             SkipRebates(s, Cardinality(S)), Granted(s)
      PROVE  RebateInv'
  <2>1. PICK fee \in 0..UINT64_MAX, type \in {"Deposit", "Redemption"} :
            Rebated(s, type) /\ GrantRebate(s, fee)
    BY <1>7 DEF Granted
  <2> DEFINE r == [timestamp |-> blockTime, feeRebate |-> RebateOn(s, fee)]
  <2>2. r \in Rebate /\ r.timestamp = blockTime
    BY <2>1, <1>4, RebateBounds DEF Rebate
  <2>3. rebates' = [rebates EXCEPT ![s] = Append(rebates[s], r)]
    BY <2>1 DEF GrantRebate
  <2> HIDE DEF r
  <2>4. ASSUME NEW u \in RebateUser
        PROVE  /\ IndexSound(rebates'[u], rollingWindowStartIndex'[u], countedFrom'[u])
               /\ \A i \in 1..Len(rebates'[u]) : rebates'[u][i].timestamp <= blockTime
    <3>1. /\ IndexSound(rebates[u], rollingWindowStartIndex'[u], countedFrom'[u])
          /\ rollingWindowStartIndex'[u] \in Nat /\ countedFrom'[u] \in Nat
          /\ rebates[u] \in Seq(Rebate)
          /\ \A i \in 1..Len(rebates[u]) : rebates[u][i].timestamp <= blockTime
      BY <1>2, <1>4, <1>7 DEF RebatesPast
    <3>2. CASE u # s
      BY <3>1, <3>2, <2>3, <1>4
    <3>3. CASE u = s
      <4>1. rebates'[u] = Append(rebates[u], r)
        BY <3>3, <2>3, <1>4
      <4>2. IndexSound(Append(rebates[u], r), rollingWindowStartIndex'[u], countedFrom'[u])
        BY <3>1, <2>2, AppendSound
      <4>3. \A i \in 1..Len(Append(rebates[u], r)) :
                Append(rebates[u], r)[i].timestamp <= blockTime
        BY <3>1, <2>2, <1>4
      <4> QED
        BY <4>1, <4>2, <4>3
    <3> QED
      BY <3>2, <3>3
  <2>5. rebates' \in [RebateUser -> Seq(Rebate)]
    BY <2>2, <2>3, <1>4
  <2> QED
    BY <2>4, <2>5, <1>2, <1>3, <1>7
<1> QED
  BY <1>1, <1>5, <1>6, <1>7 DEF RebateChange

(* A stake takes its rebates along; what the new staker had before does not  *)
(* count from the next block on, nor does what is copied behind it.          *)
LEMMA TransferKeepsRebates ==
    ASSUME StakingInv, NEW o \in RebateUser, NEW n \in RebateUser, ForceStakeTransfer(o, n)
    PROVE  RebateInv'
<1>1. /\ RebateTypeOK /\ RebatesPast /\ blockTime \in Nat /\ blockTime' = blockTime
      /\ o # n
  BY RebateFacts DEF RebateInv, ForceStakeTransfer
<1>2. /\ rollingWindowStartIndex' = [rollingWindowStartIndex EXCEPT
             ![n] = rollingWindowStartIndex[o], ![o] = 0]
      /\ rebates' = [rebates EXCEPT ![n] = rebates[n] \o rebates[o]]
      /\ countedFrom' = [countedFrom EXCEPT ![n] =
             IF rebates[n] = <<>> THEN countedFrom[o] ELSE blockTime + 1]
  BY DEF ForceStakeTransfer, Moved
<1>3. /\ rebates[n] \in Seq(Rebate) /\ rebates[o] \in Seq(Rebate)
      /\ IndexSound(rebates[o], rollingWindowStartIndex[o], countedFrom[o])
      /\ rollingWindowStartIndex[o] \in Nat
      /\ \A i \in 1..Len(rebates[n]) : rebates[n][i].timestamp <= blockTime
      /\ \A i \in 1..Len(rebates[o]) : rebates[o][i].timestamp <= blockTime
  BY <1>1, RebateFacts DEF RebatesPast
<1>4. rollingWindowStartIndex[o] <= Len(rebates[o])
  BY <1>3 DEF IndexSound
<1> DEFINE both == rebates[n] \o rebates[o]
<1>5. /\ both \in Seq(Rebate)
      /\ \A i \in 1..Len(both) : both[i].timestamp <= blockTime
      /\ IndexSound(both, rollingWindowStartIndex[o], blockTime + 1)
  BY <1>1, <1>3, <1>4, ConcatSound
<1>6. rebates[n] = <<>> => both = rebates[o]
  BY <1>3
<1> HIDE DEF both
<1>7. /\ rebates' = [rebates EXCEPT ![n] = both]
      /\ rebates' \in [RebateUser -> Seq(Rebate)]
      /\ rollingWindowStartIndex' \in [RebateUser -> Nat]
      /\ countedFrom' \in [RebateUser -> Nat]
  BY <1>1, <1>2, <1>5 DEF RebateTypeOK, both
<1>8. ASSUME NEW u \in RebateUser
      PROVE  /\ IndexSound(rebates'[u], rollingWindowStartIndex'[u], countedFrom'[u])
             /\ \A i \in 1..Len(rebates'[u]) : rebates'[u][i].timestamp <= blockTime
  <2>1. CASE u = n
    <3>1. /\ rebates'[u] = both /\ rollingWindowStartIndex'[u] = rollingWindowStartIndex[o]
          /\ countedFrom'[u] = IF rebates[n] = <<>> THEN countedFrom[o] ELSE blockTime + 1
      BY <2>1, <1>1, <1>2, <1>7 DEF RebateTypeOK
    <3> QED
      BY <3>1, <1>3, <1>5, <1>6
  <2>2. CASE u = o
    <3>1. /\ rebates'[u] = rebates[u] /\ rollingWindowStartIndex'[u] = 0
          /\ countedFrom'[u] = countedFrom[u]
      BY <2>2, <1>1, <1>2 DEF RebateTypeOK
    <3> QED
      BY <3>1, <2>2, <1>3, RebateTimes DEF IndexSound
  <2>3. CASE u \notin {n, o}
    <3>1. /\ rebates'[u] = rebates[u] /\ countedFrom'[u] = countedFrom[u]
          /\ rollingWindowStartIndex'[u] = rollingWindowStartIndex[u]
      BY <2>3, <1>1, <1>2 DEF RebateTypeOK
    <3> QED
      BY <3>1, <1>1, RebateFacts DEF RebatesPast
  <2> QED
    BY <2>1, <2>2, <2>3
<1> QED
  BY <1>1, <1>7, <1>8 DEF RebateInv, RebateTypeOK, RebatesPast, StartIndexSound, IndexSound

LEMMA RebatesStay ==
    ASSUME StakingInv, UNCHANGED rebateVars, blockTime' \in Nat, blockTime' >= blockTime
    PROVE  RebateInv'
<1>1. RebateTypeOK' /\ StartIndexSound'
  BY RebateFacts DEF rebateVars, RebateInv, RebateTypeOK, StartIndexSound
<1>2. ASSUME NEW u \in RebateUser, NEW i \in 1..Len(rebates[u])
      PROVE  rebates[u][i].timestamp <= blockTime'
  BY RebateFacts, RebateTimes DEF RebateInv, RebatesPast
<1> QED
  BY <1>1, <1>2 DEF rebateVars, RebateInv, RebatesPast

\* The steps that leave tokens, stakes and delegations alone.
Aside ==
    \/ \E new \in RollingWindow : UpdateRollingWindow(new)
    \/ \E new \in UnstakingPeriod : UpdateUnstakingPeriod(new)
    \/ \E new \in RebatePerToken : UpdateRebatePerToken(new)
    \/ \E user \in RebateUser, mode \in FeeMode : SetRebateTreasuryFeeMode(user, mode)
    \/ \E user \in RebateUser : FeeNext(user)
    \/ \E key \in RequestKey : NotifyRedemptionTimeout(key) \/ EndRequest(key)
    \/ NextBlock
    \/ UNCHANGED stakingVars

LEMMA StakingCases ==
    ASSUME [StakingNext]_stakingVars
    PROVE  \/ Aside
           \/ \E o, n \in RebateUser : ForceStakeTransfer(o, n)
           \/ \E u \in RebateUser : \E d \in RebateUser \union {ZeroAddress} : SetDelegatee(u, d)
           \/ \E u \in RebateUser : \E amount \in 1..tokenBalance[u] : StakeTokens(u, amount)
           \/ \E u \in RebateUser : \E amount \in 1..stakedAmount[u] : StartUnstaking(u, amount)
           \/ \E u, to \in RebateUser : FinalizeUnstaking(u, to)
BY DEF StakingNext, OwnerNext, UserNext, Aside

LEMMA AsideKeeps ==
    ASSUME Aside
    PROVE  UNCHANGED <<stakeVars, delegationVars, tokenVars>>
BY DEF Aside, FeeNext, UpdateRollingWindow, UpdateUnstakingPeriod, UpdateRebatePerToken,
       SetRebateTreasuryFeeMode, RevealDeposit, RequestRedemption, NotifyRedemptionTimeout,
       EndRequest, NextBlock, stakingVars

LEMMA RebatesStep ==
    ASSUME StakingInv, [StakingNext]_stakingVars
    PROVE  RebateInv'
<1>0. blockTime \in Nat /\ blockTime >= blockTime
  BY RebateFacts
<1>1. ASSUME NEW u \in RebateUser, NEW fee \in TreasuryFee, RevealDeposit(u, fee)
      PROVE  RebateInv'
  BY <1>1, ApplyChange, RebateChangeKeeps DEF RevealDeposit
<1>2. ASSUME NEW u \in RebateUser, NEW fee \in TreasuryFee, NEW k \in RequestKey,
             RequestRedemption(k, u, fee)
      PROVE  RebateInv'
  <2>1. UNCHANGED rebateVars \/ ApplyForRebate(u, fee, "Redemption")
    BY <1>2 DEF RequestRedemption
  <2>2. RebateChange /\ UNCHANGED blockTime
    BY <2>1, <1>2, ApplyChange DEF RebateChange, RequestRedemption
  <2> QED
    BY <2>2, RebateChangeKeeps
<1>3. ASSUME NEW k \in RequestKey, NotifyRedemptionTimeout(k)
      PROVE  RebateInv'
  <2>1. requests[k].redeemer \in RebateUser
    <3>1. requests[k] \in Request /\ requests[k] # NoRequest
      BY <1>3 DEF StakingInv, StakingTypeOK, NotifyRedemptionTimeout
    <3> QED
      BY <3>1 DEF Request
  <2>2. RebateChange /\ UNCHANGED blockTime
    BY <2>1, <1>3, CancelChange DEF NotifyRedemptionTimeout
  <2> QED
    BY <2>2, RebateChangeKeeps
<1>4. CASE NextBlock
  BY <1>0, <1>4, RebatesStay DEF NextBlock, rebateVars
<1>5. CASE UNCHANGED <<rebateVars, blockTime>>
  BY <1>0, <1>5, RebatesStay DEF rebateVars
<1>6. ASSUME Aside
      PROVE  RebateInv'
  <2>1. \/ UNCHANGED <<rebateVars, blockTime>> \/ NextBlock
        \/ \E u \in RebateUser, fee \in TreasuryFee :
              RevealDeposit(u, fee) \/ \E k \in RequestKey : RequestRedemption(k, u, fee)
        \/ \E k \in RequestKey : NotifyRedemptionTimeout(k)
    BY <1>6 DEF Aside, FeeNext, UpdateRollingWindow, UpdateUnstakingPeriod,
                UpdateRebatePerToken, SetRebateTreasuryFeeMode, EndRequest, stakingVars
  <2> QED
    BY <2>1, <1>1, <1>2, <1>3, <1>4, <1>5
<1>7. ASSUME NEW u \in RebateUser, NEW x,
             \/ SetDelegatee(u, x) \/ StakeTokens(u, x) \/ StartUnstaking(u, x)
             \/ FinalizeUnstaking(u, x)
      PROVE  RebateInv'
  <2>1. UNCHANGED <<rebateVars, blockTime>>
    BY <1>7 DEF SetDelegatee, StakeTokens, StartUnstaking, FinalizeUnstaking
  <2> QED
    BY <2>1, <1>5
<1> QED
  BY <1>6, <1>7, StakingCases, TransferKeepsRebates

\* What the rebates are not part of.
OtherTypesOK ==
    /\ blockTime \in Nat
    /\ rollingWindow \in Nat \ {0}
    /\ unstakingPeriod \in Nat
    /\ rebatePerToken \in Nat
    /\ rebateTreasuryFeeMode \in [RebateUser -> RebateTreasuryFeeMode]
    /\ requests \in [RequestKey -> Request]

HoldingTypesOK ==
    /\ stakedAmount \in [RebateUser -> Nat]
    /\ unstakingAmount \in [RebateUser -> Nat]
    /\ unstakingTimestamp \in [RebateUser -> Nat]
    /\ delegatee \in [RebateUser -> RebateUser \union {ZeroAddress}]
    /\ delegates \in [RebateUser -> RebateUser \union {ZeroAddress}]
    /\ tokenBalance \in [RebateUser -> Nat]
    /\ heldTokens \in Nat

LEMMA StakingTypeParts ==
    StakingTypeOK <=> OtherTypesOK /\ HoldingTypesOK /\ RebateTypeOK
BY DEF StakingTypeOK, OtherTypesOK, HoldingTypesOK, RebateTypeOK

LEMMA OtherTypesStep ==
    ASSUME StakingInv, [StakingNext]_stakingVars
    PROVE  OtherTypesOK'
<1> DEFINE otherVars == <<blockTime, parameterVars, rebateTreasuryFeeMode, requests>>
<1>1. OtherTypesOK
  BY StakingTypeParts DEF StakingInv
<1>2. CASE UNCHANGED otherVars
  BY <1>1, <1>2 DEF OtherTypesOK, parameterVars
<1>3. ASSUME NEW o \in RebateUser, NEW n \in RebateUser, ForceStakeTransfer(o, n)
      PROVE  OtherTypesOK'
  <2>1. rebateTreasuryFeeMode' = [rebateTreasuryFeeMode EXCEPT
             ![n] = rebateTreasuryFeeMode[o], ![o] = "Both"]
        /\ UNCHANGED <<blockTime, parameterVars, requests>>
    BY <1>3 DEF ForceStakeTransfer, Moved
  <2> QED
    BY <2>1, <1>1 DEF OtherTypesOK, parameterVars, RebateTreasuryFeeMode
<1>4. ASSUME NEW u \in RebateUser, NEW x,
             \/ SetDelegatee(u, x) \/ StakeTokens(u, x) \/ StartUnstaking(u, x)
             \/ FinalizeUnstaking(u, x)
      PROVE  OtherTypesOK'
  <2>1. UNCHANGED otherVars
    BY <1>4 DEF SetDelegatee, StakeTokens, StartUnstaking, FinalizeUnstaking
  <2> QED
    BY <2>1, <1>2
<1>5. ASSUME NEW u \in RebateUser, NEW mode \in FeeMode, SetRebateTreasuryFeeMode(u, mode)
      PROVE  OtherTypesOK'
  <2>1. mode \in RebateTreasuryFeeMode
    BY RebateStakingAssumption
  <2> QED
    BY <2>1, <1>1, <1>5 DEF OtherTypesOK, SetRebateTreasuryFeeMode, parameterVars
<1>6. ASSUME NEW new, \/ new \in RollingWindow /\ UpdateRollingWindow(new)
                      \/ new \in UnstakingPeriod /\ UpdateUnstakingPeriod(new)
                      \/ new \in RebatePerToken /\ UpdateRebatePerToken(new)
      PROVE  OtherTypesOK'
  BY <1>1, <1>6, RebateStakingAssumption
     DEF OtherTypesOK, UpdateRollingWindow, UpdateUnstakingPeriod, UpdateRebatePerToken
<1>7. ASSUME NEW k \in RequestKey, NEW new \in Request,
             requests' = [requests EXCEPT ![k] = new],
             UNCHANGED <<blockTime, parameterVars, rebateTreasuryFeeMode>>
      PROVE  OtherTypesOK'
  BY <1>1, <1>7 DEF OtherTypesOK, parameterVars
<1>8. ASSUME NEW k \in RequestKey, NotifyRedemptionTimeout(k) \/ EndRequest(k)
      PROVE  OtherTypesOK'
  BY <1>7, <1>8 DEF NotifyRedemptionTimeout, EndRequest, Request
<1>9. ASSUME NEW u \in RebateUser, NEW fee \in TreasuryFee, NEW k \in RequestKey,
             RequestRedemption(k, u, fee)
      PROVE  OtherTypesOK'
  <2> DEFINE new == [redeemer |-> u, requestedAt |-> blockTime]
  <2>1. new \in Request
    BY RebateFacts DEF Request
  <2>2. requests' = [requests EXCEPT ![k] = new]
        /\ UNCHANGED <<blockTime, parameterVars, rebateTreasuryFeeMode>>
    BY <1>9 DEF RequestRedemption
  <2> QED
    BY <2>1, <2>2, <1>7
<1>10. ASSUME NEW u \in RebateUser, NEW fee \in TreasuryFee, RevealDeposit(u, fee)
       PROVE  OtherTypesOK'
  BY <1>2, <1>10 DEF RevealDeposit
<1>11. CASE NextBlock
  BY <1>1, <1>11 DEF NextBlock, OtherTypesOK, parameterVars
<1>12. CASE UNCHANGED stakingVars
  BY <1>2, <1>12 DEF stakingVars
<1>13. ASSUME Aside
       PROVE  OtherTypesOK'
  BY <1>5, <1>6, <1>8, <1>9, <1>10, <1>11, <1>12, <1>13 DEF Aside, FeeNext
<1> QED
  BY <1>3, <1>4, <1>13, StakingCases

LEMMA MovedFacts ==
    ASSUME NEW V, NEW f \in [RebateUser -> V], NEW o \in RebateUser, NEW n \in RebateUser,
           o # n, NEW left \in V, NEW g, g = Moved(f, o, n, left)
    PROVE  /\ g \in [RebateUser -> V] /\ g[n] = f[o] /\ g[o] = left
           /\ \A u \in RebateUser \ {o, n} : g[u] = f[u]
BY DEF Moved

LEMMA StakeFacts ==
    ASSUME StakingInv
    PROVE  /\ HoldingTypesOK /\ heldTokens = Total(stakedAmount)
           /\ IsFiniteSet(RebateUser) /\ blockTime \in Nat
           /\ \A u \in RebateUser :
                 /\ stakedAmount[u] \in Nat /\ unstakingAmount[u] \in Nat
                 /\ tokenBalance[u] \in Nat
                 /\ unstakingAmount[u] <= stakedAmount[u]
BY StakingTypeParts, RebateStakingAssumption
   DEF StakingInv, StakesHeld, HoldingTypesOK, OtherTypesOK

\* A user without a stake holds nothing that is being unstaked.
LEMMA NoStakeNoUnstaking ==
    ASSUME StakingInv, NEW u \in RebateUser, stakedAmount[u] = 0
    PROVE  unstakingAmount[u] = 0
BY StakeFacts

(* What is at stake moves along as a whole: the total stays the same.        *)
LEMMA TransferKeepsStakes ==
    ASSUME StakingInv, NEW o \in RebateUser, NEW n \in RebateUser, ForceStakeTransfer(o, n)
    PROVE  HoldingTypesOK' /\ StakesHeld'
<1>1. o # n /\ stakedAmount[n] = 0 /\ UNCHANGED tokenVars
  BY DEF ForceStakeTransfer
<1>2. /\ stakedAmount' = Moved(stakedAmount, o, n, 0)
      /\ unstakingAmount' = Moved(unstakingAmount, o, n, 0)
      /\ unstakingTimestamp' = Moved(unstakingTimestamp, o, n, 0)
      /\ \/ UNCHANGED delegationVars
         \/ /\ delegatee' = Moved(delegatee, o, n, ZeroAddress)
            /\ delegates' = [delegates EXCEPT ![delegatee[o]] = n]
  BY DEF ForceStakeTransfer
<1>3. /\ stakedAmount \in [RebateUser -> Nat] /\ unstakingAmount \in [RebateUser -> Nat]
      /\ unstakingTimestamp \in [RebateUser -> Nat]
      /\ delegatee \in [RebateUser -> RebateUser \union {ZeroAddress}]
      /\ delegates \in [RebateUser -> RebateUser \union {ZeroAddress}]
      /\ tokenBalance \in [RebateUser -> Nat] /\ heldTokens \in Nat
  BY StakeFacts DEF HoldingTypesOK
<1>4. /\ stakedAmount' \in [RebateUser -> Nat]
      /\ stakedAmount'[n] = stakedAmount[o] /\ stakedAmount'[o] = 0
      /\ \A u \in RebateUser \ {o, n} : stakedAmount'[u] = stakedAmount[u]
  <2>1. stakedAmount' = Moved(stakedAmount, o, n, 0) /\ stakedAmount \in [RebateUser -> Nat]
        /\ o # n /\ 0 \in Nat
    BY <1>1, <1>2, <1>3
  <2> QED
    BY <2>1 DEF Moved
<1>5. /\ unstakingAmount' \in [RebateUser -> Nat]
      /\ unstakingAmount'[n] = unstakingAmount[o] /\ unstakingAmount'[o] = 0
      /\ \A u \in RebateUser \ {o, n} : unstakingAmount'[u] = unstakingAmount[u]
  <2>1. unstakingAmount' = Moved(unstakingAmount, o, n, 0) /\ unstakingAmount \in [RebateUser -> Nat]
        /\ o # n /\ 0 \in Nat
    BY <1>1, <1>2, <1>3
  <2> QED
    BY <2>1 DEF Moved
<1>6. unstakingTimestamp' \in [RebateUser -> Nat]
  <2>1. unstakingTimestamp' = Moved(unstakingTimestamp, o, n, 0)
        /\ unstakingTimestamp \in [RebateUser -> Nat] /\ o # n /\ 0 \in Nat
    BY <1>1, <1>2, <1>3
  <2> QED
    BY <2>1 DEF Moved
<1>7. /\ delegatee' \in [RebateUser -> RebateUser \union {ZeroAddress}]
      /\ delegates' \in [RebateUser -> RebateUser \union {ZeroAddress}]
  <2>1. CASE UNCHANGED delegationVars
    BY <2>1, <1>3 DEF delegationVars
  <2>2. CASE /\ delegatee' = Moved(delegatee, o, n, ZeroAddress)
             /\ delegates' = [delegates EXCEPT ![delegatee[o]] = n]
    <3>1. delegatee' \in [RebateUser -> RebateUser \union {ZeroAddress}]
      BY <2>2, <1>1, <1>3, MovedFacts
    <3>2. delegates' \in [RebateUser -> RebateUser \union {ZeroAddress}]
      BY <2>2, <1>3
    <3> QED
      BY <3>1, <3>2
  <2> QED
    BY <2>1, <2>2, <1>2
<1>8. HoldingTypesOK'
  BY <1>1, <1>3, <1>4, <1>5, <1>6, <1>7 DEF HoldingTypesOK, tokenVars
<1>9. heldTokens' = Total(stakedAmount')
  <2> DEFINE emptied == [stakedAmount EXCEPT ![o] = 0]
  <2>1. emptied \in [RebateUser -> Nat] /\ emptied[o] = 0 /\ emptied[n] = 0
        /\ \A u \in RebateUser \ {o} : emptied[u] = stakedAmount[u]
    BY <1>1, <1>3
  <2> HIDE DEF emptied
  <2>2. Total(emptied) = Total(stakedAmount) - stakedAmount[o] + emptied[o]
    BY <2>1, <1>3, StakeFacts, TotalUpdate
  <2>3. \A u \in RebateUser \ {n} : stakedAmount'[u] = emptied[u]
    BY <2>1, <1>1, <1>4
  <2>4. Total(stakedAmount') = Total(emptied) - emptied[n] + stakedAmount'[n]
    BY <2>1, <2>3, <1>4, StakeFacts, TotalUpdate
  <2>5. heldTokens' = heldTokens /\ heldTokens = Total(stakedAmount)
        /\ heldTokens \in Nat /\ stakedAmount[o] \in Nat
    BY <1>1, <1>3, StakeFacts DEF tokenVars
  <2> QED
    BY <2>1, <2>2, <2>4, <2>5, <1>4
<1>10. \A u \in RebateUser : unstakingAmount'[u] <= stakedAmount'[u]
  <2> TAKE u \in RebateUser
  <2>1. unstakingAmount[o] <= stakedAmount[o] /\ unstakingAmount[u] <= stakedAmount[u]
    BY StakeFacts
  <2> QED
    BY <2>1, <1>4, <1>5
<1> QED
  BY <1>8, <1>9, <1>10 DEF StakesHeld

LEMMA UndelegatedType ==
    ASSUME StakingInv, NEW u \in RebateUser
    PROVE  Undelegated(u) \in [RebateUser -> RebateUser \union {ZeroAddress}]
BY StakeFacts DEF HoldingTypesOK, Undelegated

(* Staking, unstaking and delegating leave the tokens held and those at      *)
(* stake the same.                                                           *)
LEMMA StakesStep ==
    ASSUME StakingInv, [StakingNext]_stakingVars
    PROVE  HoldingTypesOK' /\ StakesHeld'
<1>1. /\ stakedAmount \in [RebateUser -> Nat] /\ unstakingAmount \in [RebateUser -> Nat]
      /\ unstakingTimestamp \in [RebateUser -> Nat]
      /\ delegatee \in [RebateUser -> RebateUser \union {ZeroAddress}]
      /\ delegates \in [RebateUser -> RebateUser \union {ZeroAddress}]
      /\ tokenBalance \in [RebateUser -> Nat] /\ heldTokens \in Nat
  BY StakeFacts DEF HoldingTypesOK
<1>2. ASSUME UNCHANGED <<stakeVars, tokenVars>>,
             delegatee' \in [RebateUser -> RebateUser \union {ZeroAddress}],
             delegates' \in [RebateUser -> RebateUser \union {ZeroAddress}]
      PROVE  HoldingTypesOK' /\ StakesHeld'
  BY <1>1, <1>2, StakeFacts DEF HoldingTypesOK, StakesHeld, stakeVars, tokenVars
<1>3. CASE Aside
  BY <1>1, <1>2, <1>3, AsideKeeps DEF delegationVars
<1>4. ASSUME NEW u \in RebateUser, NEW d \in RebateUser \union {ZeroAddress}, SetDelegatee(u, d)
      PROVE  HoldingTypesOK' /\ StakesHeld'
  <2>1. UNCHANGED <<stakeVars, tokenVars>>
    BY <1>4 DEF SetDelegatee
  <2>2. delegatee' \in [RebateUser -> RebateUser \union {ZeroAddress}]
    BY <1>1, <1>4 DEF SetDelegatee
  <2>3. delegates' \in [RebateUser -> RebateUser \union {ZeroAddress}]
    <3>1. \/ delegates' = Undelegated(u)
          \/ d \in RebateUser /\ delegates' = [Undelegated(u) EXCEPT ![d] = u]
      BY <1>4 DEF SetDelegatee
    <3> QED
      BY <3>1, UndelegatedType
  <2> QED
    BY <2>1, <2>2, <2>3, <1>2
<1>5. ASSUME NEW u \in RebateUser, NEW amount \in 1..tokenBalance[u], StakeTokens(u, amount)
      PROVE  HoldingTypesOK' /\ StakesHeld'
  <2>1. amount \in Nat /\ amount <= tokenBalance[u] /\ tokenBalance[u] \in Nat
        /\ stakedAmount[u] \in Nat
    BY <1>1
  <2>2. /\ stakedAmount' = [stakedAmount EXCEPT ![u] = stakedAmount[u] + amount]
        /\ tokenBalance' = [tokenBalance EXCEPT ![u] = tokenBalance[u] - amount]
        /\ heldTokens' = heldTokens + amount
        /\ UNCHANGED <<unstakingAmount, unstakingTimestamp>>
    BY <1>5 DEF StakeTokens
  <2>3. /\ delegatee' = [s \in RebateUser |->
               IF s = delegates[u] THEN ZeroAddress ELSE delegatee[s]]
        /\ delegates' = [delegates EXCEPT ![u] = ZeroAddress]
    BY <1>5 DEF StakeTokens
  <2>4. /\ stakedAmount' \in [RebateUser -> Nat]
        /\ stakedAmount'[u] = stakedAmount[u] + amount
        /\ \A v \in RebateUser \ {u} : stakedAmount'[v] = stakedAmount[v]
    BY <2>1, <2>2, <1>1
  <2>5. tokenBalance' \in [RebateUser -> Nat]
    <3>1. tokenBalance[u] - amount \in Nat
      BY <2>1
    <3> QED
      BY <3>1, <2>2, <1>1
  <2>6. /\ delegatee' \in [RebateUser -> RebateUser \union {ZeroAddress}]
        /\ delegates' \in [RebateUser -> RebateUser \union {ZeroAddress}]
    BY <2>3, <1>1
  <2>7. heldTokens' \in Nat
    BY <2>1, <2>2, <1>1
  <2>8. HoldingTypesOK'
    BY <2>2, <2>4, <2>5, <2>6, <2>7, <1>1 DEF HoldingTypesOK
  <2>9. Total(stakedAmount') = Total(stakedAmount) - stakedAmount[u] + stakedAmount'[u]
    BY <2>4, <1>1, StakeFacts, TotalUpdate
  <2>10. heldTokens' = Total(stakedAmount')
    BY <2>1, <2>2, <2>4, <2>9, <1>1, StakeFacts
  <2>11. \A v \in RebateUser : unstakingAmount'[v] <= stakedAmount'[v]
    BY <2>1, <2>2, <2>4, StakeFacts
  <2> QED
    BY <2>8, <2>10, <2>11 DEF StakesHeld
<1>6. ASSUME NEW u \in RebateUser, NEW amount \in 1..stakedAmount[u], StartUnstaking(u, amount)
      PROVE  HoldingTypesOK' /\ StakesHeld'
  <2>1. amount \in Nat /\ amount <= stakedAmount[u] /\ blockTime \in Nat
    BY <1>1, StakeFacts
  <2>2. /\ unstakingTimestamp' = [unstakingTimestamp EXCEPT ![u] = blockTime]
        /\ unstakingAmount' = [unstakingAmount EXCEPT ![u] = amount]
        /\ UNCHANGED <<stakedAmount, delegationVars, tokenVars>>
    BY <1>6 DEF StartUnstaking
  <2>3. HoldingTypesOK'
    BY <2>1, <2>2, <1>1 DEF HoldingTypesOK, delegationVars, tokenVars
  <2>4. \A v \in RebateUser : unstakingAmount'[v] <= stakedAmount'[v]
    BY <2>1, <2>2, <1>1, StakeFacts
  <2>5. heldTokens' = Total(stakedAmount')
    BY <2>2, StakeFacts DEF tokenVars
  <2> QED
    BY <2>3, <2>4, <2>5 DEF StakesHeld
<1>7. ASSUME NEW u \in RebateUser, NEW to \in RebateUser, FinalizeUnstaking(u, to)
      PROVE  HoldingTypesOK' /\ StakesHeld'
  <2> DEFINE amount == unstakingAmount[u]
  <2>1. amount \in Nat /\ amount <= stakedAmount[u] /\ stakedAmount[u] \in Nat
        /\ tokenBalance[to] \in Nat
    BY StakeFacts
  <2>2. /\ stakedAmount' = [stakedAmount EXCEPT ![u] = stakedAmount[u] - amount]
        /\ unstakingAmount' = [unstakingAmount EXCEPT ![u] = 0]
        /\ unstakingTimestamp' = [unstakingTimestamp EXCEPT ![u] = 0]
        /\ tokenBalance' = [tokenBalance EXCEPT ![to] = tokenBalance[to] + amount]
        /\ heldTokens' = heldTokens - amount
    BY <1>7 DEF FinalizeUnstaking
  <2>3. \/ UNCHANGED delegationVars
        \/ /\ delegates' = Undelegated(u)
           /\ delegatee' = [delegatee EXCEPT ![u] = ZeroAddress]
    BY <1>7 DEF FinalizeUnstaking
  <2> HIDE DEF amount
  <2>4. /\ stakedAmount' \in [RebateUser -> Nat]
        /\ stakedAmount'[u] = stakedAmount[u] - amount
        /\ \A v \in RebateUser \ {u} : stakedAmount'[v] = stakedAmount[v]
    <3>1. stakedAmount[u] - amount \in Nat
      BY <2>1
    <3> QED
      BY <3>1, <2>2, <1>1
  <2>5. /\ unstakingAmount' \in [RebateUser -> Nat] /\ unstakingAmount'[u] = 0
        /\ \A v \in RebateUser \ {u} : unstakingAmount'[v] = unstakingAmount[v]
    BY <2>2, <1>1
  <2>6. /\ unstakingTimestamp' \in [RebateUser -> Nat]
        /\ tokenBalance' \in [RebateUser -> Nat]
    BY <2>1, <2>2, <1>1
  <2>7. /\ delegatee' \in [RebateUser -> RebateUser \union {ZeroAddress}]
        /\ delegates' \in [RebateUser -> RebateUser \union {ZeroAddress}]
    BY <2>3, <1>1, UndelegatedType DEF delegationVars
  <2>8. Total(stakedAmount') = Total(stakedAmount) - stakedAmount[u] + stakedAmount'[u]
        /\ Total(stakedAmount') \in Nat
    BY <2>4, <1>1, StakeFacts, TotalUpdate, TotalType
  <2>9. heldTokens' = Total(stakedAmount') /\ heldTokens' \in Nat
    BY <2>1, <2>2, <2>4, <2>8, <1>1, StakeFacts
  <2>10. HoldingTypesOK'
    BY <2>4, <2>5, <2>6, <2>7, <2>9 DEF HoldingTypesOK
  <2>11. \A v \in RebateUser : unstakingAmount'[v] <= stakedAmount'[v]
    BY <2>1, <2>4, <2>5, StakeFacts
  <2> QED
    BY <2>9, <2>10, <2>11 DEF StakesHeld
<1> QED
  BY <1>3, <1>4, <1>5, <1>6, <1>7, StakingCases, TransferKeepsStakes

LEMMA DelegationFacts ==
    ASSUME StakingInv
    PROVE  /\ ZeroAddress \notin RebateUser
           /\ stakedAmount \in [RebateUser -> Nat]
           /\ delegatee \in [RebateUser -> RebateUser \union {ZeroAddress}]
           /\ delegates \in [RebateUser -> RebateUser \union {ZeroAddress}]
           /\ \A s, d \in RebateUser : delegatee[s] = d <=> delegates[d] = s
           /\ \A s \in RebateUser : delegatee[s] # ZeroAddress =>
                  stakedAmount[s] > 0 /\ stakedAmount[delegatee[s]] = 0
BY RebateStakingAssumption DEF StakingInv, StakingTypeOK, DelegationsMutual

\* A delegation moves along with the stake of its staker.
LEMMA TransferKeepsDelegations ==
    ASSUME StakingInv, NEW o \in RebateUser, NEW n \in RebateUser, ForceStakeTransfer(o, n)
    PROVE  DelegationsMutual'
<1>1. stakedAmount[o] # 0 /\ stakedAmount[n] = 0 /\ delegates[n] = ZeroAddress
  BY DEF ForceStakeTransfer
<1>2. /\ stakedAmount'[n] = stakedAmount[o] /\ stakedAmount'[o] = 0
      /\ \A u \in RebateUser \ {o, n} : stakedAmount'[u] = stakedAmount[u]
  <2>1. stakedAmount' = Moved(stakedAmount, o, n, 0)
    BY DEF ForceStakeTransfer
  <2> QED
    BY <2>1, <1>1, DelegationFacts DEF Moved
<1>3. delegatee[n] = ZeroAddress /\ o # n
  BY <1>1, DelegationFacts
<1>4. CASE delegatee[o] = ZeroAddress
  <2>1. UNCHANGED <<delegatee, delegates>>
    BY <1>4 DEF ForceStakeTransfer, delegationVars
  <2>2. ASSUME NEW s \in RebateUser, delegatee[s] # ZeroAddress
        PROVE  stakedAmount'[s] > 0 /\ stakedAmount'[delegatee[s]] = 0
    <3>1. s \notin {o, n} /\ delegatee[s] \in RebateUser
      BY <2>2, <1>3, <1>4, DelegationFacts
    <3>2. delegatee[s] \notin {o, n}
      BY <3>1, <2>2, <1>1, DelegationFacts
    <3> QED
      BY <3>1, <3>2, <2>2, <1>2, DelegationFacts
  <2> QED
    BY <2>1, <2>2, DelegationFacts DEF DelegationsMutual
<1>5. CASE delegatee[o] # ZeroAddress
  <2> DEFINE d == delegatee[o]
  <2>1. /\ delegatee' = Moved(delegatee, o, n, ZeroAddress)
        /\ delegates' = [delegates EXCEPT ![d] = n]
    BY <1>5 DEF ForceStakeTransfer
  <2>2. d \in RebateUser /\ stakedAmount[d] = 0 /\ delegates[d] = o /\ d # o /\ d # n
    BY <1>1, <1>5, DelegationFacts
  <2> HIDE DEF d
  <2>3. /\ delegatee'[n] = d /\ delegatee'[o] = ZeroAddress
        /\ \A u \in RebateUser \ {o, n} : delegatee'[u] = delegatee[u]
    BY <2>1, <1>3, DelegationFacts DEF Moved, d
  <2>4. /\ delegates'[d] = n
        /\ \A u \in RebateUser \ {d} : delegates'[u] = delegates[u]
    BY <2>1, <2>2, DelegationFacts
  <2>5. ASSUME NEW s \in RebateUser, NEW e \in RebateUser
        PROVE  delegatee'[s] = e <=> delegates'[e] = s
    <3>1. delegatee[s] = e <=> delegates[e] = s
      BY DelegationFacts
    <3>2. delegatee[o] = d /\ ZeroAddress # e /\ ZeroAddress # s
      BY DelegationFacts DEF d
    <3>3. delegatee[s] = d <=> s = o
      BY <2>2, DelegationFacts
    <3>4. delegatee[o] = e <=> e = d
      BY DEF d
    <3>5. delegates[e] # n
      BY <1>3, DelegationFacts
    <3>6. CASE e = d
      BY <3>6, <3>2, <3>3, <2>2, <2>3, <2>4, <1>3
    <3>7. CASE e # d
      BY <3>7, <3>1, <3>2, <3>4, <3>5, <2>3, <2>4
    <3> QED
      BY <3>6, <3>7
  <2>6. ASSUME NEW s \in RebateUser, delegatee'[s] # ZeroAddress
        PROVE  stakedAmount'[s] > 0 /\ stakedAmount'[delegatee'[s]] = 0
    <3>1. s # o
      BY <2>6, <2>3
    <3>2. CASE s = n
      BY <3>2, <2>2, <2>3, <1>1, <1>2, DelegationFacts
    <3>3. CASE s # n
      <4>1. delegatee'[s] = delegatee[s] /\ s \in RebateUser \ {o, n}
        BY <3>1, <3>3, <2>3
      <4>2. stakedAmount[s] > 0 /\ stakedAmount[delegatee[s]] = 0
            /\ delegatee[s] \in RebateUser
        BY <4>1, <2>6, DelegationFacts
      <4>3. delegatee[s] \notin {o, n}
        BY <4>1, <4>2, <1>1, DelegationFacts
      <4> QED
        BY <4>1, <4>2, <4>3, <1>2
    <3> QED
      BY <3>2, <3>3
  <2> QED
    BY <2>5, <2>6 DEF DelegationsMutual
<1> QED
  BY <1>4, <1>5

(* Without the delegation of a staker, the rest of them are mutual still.    *)
LEMMA UndelegatedMutual ==
    ASSUME StakingInv, NEW u \in RebateUser
    PROVE  /\ \A d \in RebateUser : Undelegated(u)[d] # u
           /\ \A s \in RebateUser \ {u} : \A d \in RebateUser :
                 delegatee[s] = d <=> Undelegated(u)[d] = s
<1>1. \A d \in RebateUser :
          Undelegated(u)[d] = IF d = delegatee[u] THEN ZeroAddress ELSE delegates[d]
  BY DEF Undelegated
<1>2. ASSUME NEW d \in RebateUser
      PROVE  Undelegated(u)[d] # u
  BY <1>1, DelegationFacts
<1>3. ASSUME NEW s \in RebateUser \ {u}, NEW d \in RebateUser
      PROVE  delegatee[s] = d <=> Undelegated(u)[d] = s
  <2>1. /\ delegatee[s] = d <=> delegates[d] = s
        /\ delegatee[u] = d <=> delegates[d] = u
        /\ s # ZeroAddress
    BY DelegationFacts
  <2> QED
    BY <2>1, <1>1
<1> QED
  BY <1>2, <1>3

(* Setting a delegatee ends what the staker delegated before, staking what   *)
(* was delegated to the user, and withdrawing all what the user delegated.   *)
LEMMA DelegationsStep ==
    ASSUME StakingInv, [StakingNext]_stakingVars
    PROVE  DelegationsMutual'
<1>1. CASE UNCHANGED <<delegatee, delegates, stakedAmount>>
  BY <1>1, DelegationFacts DEF DelegationsMutual
<1>2. CASE Aside
  BY <1>1, <1>2, AsideKeeps DEF stakeVars, delegationVars
<1>3. ASSUME NEW u \in RebateUser, NEW d \in RebateUser \union {ZeroAddress}, SetDelegatee(u, d)
      PROVE  DelegationsMutual'
  <2>1. stakedAmount[u] > 0 /\ UNCHANGED stakedAmount
    BY <1>3, DelegationFacts DEF SetDelegatee, stakeVars
  <2>2. CASE d \in {ZeroAddress, u}
    <3>1. /\ delegatee' = [delegatee EXCEPT ![u] = ZeroAddress]
          /\ delegates' = Undelegated(u)
      BY <1>3, <2>2 DEF SetDelegatee
    <3>2. delegatee'[u] = ZeroAddress
          /\ \A s \in RebateUser \ {u} : delegatee'[s] = delegatee[s]
      BY <3>1, DelegationFacts
    <3>3. ASSUME NEW s \in RebateUser, NEW e \in RebateUser
          PROVE  delegatee'[s] = e <=> delegates'[e] = s
      BY <3>1, <3>2, UndelegatedMutual, DelegationFacts
    <3>4. ASSUME NEW s \in RebateUser, delegatee'[s] # ZeroAddress
          PROVE  stakedAmount'[s] > 0 /\ stakedAmount'[delegatee'[s]] = 0
      BY <3>2, <3>4, <2>1, DelegationFacts
    <3> QED
      BY <3>3, <3>4 DEF DelegationsMutual
  <2>3. CASE d \notin {ZeroAddress, u}
    <3>1. /\ d \in RebateUser /\ d # u
          /\ Undelegated(u)[d] = ZeroAddress /\ stakedAmount[d] = 0
          /\ delegatee' = [delegatee EXCEPT ![u] = d]
          /\ delegates' = [Undelegated(u) EXCEPT ![d] = u]
      BY <1>3, <2>3 DEF SetDelegatee
    <3>2. delegatee'[u] = d
          /\ \A s \in RebateUser \ {u} : delegatee'[s] = delegatee[s]
      BY <3>1, DelegationFacts
    <3>3. delegates'[d] = u
          /\ \A e \in RebateUser \ {d} : delegates'[e] = Undelegated(u)[e]
      BY <3>1, UndelegatedType
    <3>4. ASSUME NEW s \in RebateUser, NEW e \in RebateUser
          PROVE  delegatee'[s] = e <=> delegates'[e] = s
      <4>1. CASE e = d
        <5>1. s # u => delegatee[s] # d
          BY <3>1, UndelegatedMutual, DelegationFacts
        <5> QED
          BY <5>1, <4>1, <3>2, <3>3
      <4>2. CASE e # d
        BY <4>2, <3>2, <3>3, UndelegatedMutual
      <4> QED
        BY <4>1, <4>2
    <3>5. ASSUME NEW s \in RebateUser, delegatee'[s] # ZeroAddress
          PROVE  stakedAmount'[s] > 0 /\ stakedAmount'[delegatee'[s]] = 0
      BY <3>1, <3>2, <3>5, <2>1, DelegationFacts
    <3> QED
      BY <3>4, <3>5 DEF DelegationsMutual
  <2> QED
    BY <2>2, <2>3
<1>4. ASSUME NEW u \in RebateUser, NEW amount \in 1..tokenBalance[u], StakeTokens(u, amount)
      PROVE  DelegationsMutual'
  <2>1. amount > 0 /\ amount \in Nat
    BY StakeFacts
  <2>2. stakedAmount'[u] > 0
        /\ \A s \in RebateUser \ {u} : stakedAmount'[s] = stakedAmount[s]
    BY <2>1, <1>4, DelegationFacts DEF StakeTokens
  <2>3. \A s \in RebateUser :
            delegatee'[s] = IF s = delegates[u] THEN ZeroAddress ELSE delegatee[s]
    BY <1>4 DEF StakeTokens
  <2>4. delegates'[u] = ZeroAddress
        /\ \A e \in RebateUser \ {u} : delegates'[e] = delegates[e]
    BY <1>4, DelegationFacts DEF StakeTokens
  <2>5. ASSUME NEW s \in RebateUser, NEW e \in RebateUser
        PROVE  delegatee'[s] = e <=> delegates'[e] = s
    <3>1. /\ delegatee[s] = e <=> delegates[e] = s
          /\ delegatee[s] = u <=> delegates[u] = s
          /\ s # ZeroAddress /\ e # ZeroAddress
      BY DelegationFacts
    <3> QED
      BY <3>1, <2>3, <2>4
  <2>6. ASSUME NEW s \in RebateUser, delegatee'[s] # ZeroAddress
        PROVE  stakedAmount'[s] > 0 /\ stakedAmount'[delegatee'[s]] = 0
    <3>1. s # delegates[u] /\ delegatee'[s] = delegatee[s] /\ delegatee[s] \in RebateUser
      BY <2>3, <2>6, DelegationFacts
    <3>2. delegatee[s] # u
      BY <3>1, DelegationFacts
    <3>3. stakedAmount[s] > 0 /\ stakedAmount[delegatee[s]] = 0
      BY <3>1, <2>6, DelegationFacts
    <3> QED
      BY <3>1, <3>2, <3>3, <2>2
  <2> QED
    BY <2>5, <2>6 DEF DelegationsMutual
<1>5. ASSUME NEW u \in RebateUser, NEW amount, StartUnstaking(u, amount)
      PROVE  DelegationsMutual'
  BY <1>1, <1>5 DEF StartUnstaking, delegationVars
<1>6. ASSUME NEW u \in RebateUser, NEW to \in RebateUser, FinalizeUnstaking(u, to)
      PROVE  DelegationsMutual'
  <2>1. /\ stakedAmount[u] \in Nat /\ unstakingAmount[u] \in Nat
        /\ unstakingAmount[u] <= stakedAmount[u]
    BY StakeFacts
  <2>2. stakedAmount'[u] = stakedAmount[u] - unstakingAmount[u]
        /\ \A s \in RebateUser \ {u} : stakedAmount'[s] = stakedAmount[s]
    BY <1>6, DelegationFacts DEF FinalizeUnstaking
  <2>3. ASSUME NEW e \in RebateUser, stakedAmount[e] = 0
        PROVE  stakedAmount'[e] = 0
    BY <2>1, <2>2, <2>3
  <2>4. CASE stakedAmount[u] = unstakingAmount[u]
    <3>1. /\ delegatee' = [delegatee EXCEPT ![u] = ZeroAddress]
          /\ delegates' = Undelegated(u)
      BY <1>6, <2>4 DEF FinalizeUnstaking
    <3>2. delegatee'[u] = ZeroAddress
          /\ \A s \in RebateUser \ {u} : delegatee'[s] = delegatee[s]
      BY <3>1, DelegationFacts
    <3>3. ASSUME NEW s \in RebateUser, NEW e \in RebateUser
          PROVE  delegatee'[s] = e <=> delegates'[e] = s
      BY <3>1, <3>2, UndelegatedMutual, DelegationFacts
    <3>4. ASSUME NEW s \in RebateUser, delegatee'[s] # ZeroAddress
          PROVE  stakedAmount'[s] > 0 /\ stakedAmount'[delegatee'[s]] = 0
      <4>1. s # u /\ delegatee'[s] = delegatee[s] /\ delegatee[s] \in RebateUser
        BY <3>2, <3>4, DelegationFacts
      <4>2. stakedAmount[s] > 0 /\ stakedAmount[delegatee[s]] = 0
        BY <4>1, <3>4, DelegationFacts
      <4> QED
        BY <4>1, <4>2, <2>2, <2>3
    <3> QED
      BY <3>3, <3>4 DEF DelegationsMutual
  <2>5. CASE stakedAmount[u] # unstakingAmount[u]
    <3>1. UNCHANGED <<delegatee, delegates>>
      BY <1>6, <2>5 DEF FinalizeUnstaking, delegationVars
    <3>2. stakedAmount'[u] > 0
      BY <2>1, <2>2, <2>5
    <3>3. ASSUME NEW s \in RebateUser, delegatee[s] # ZeroAddress
          PROVE  stakedAmount'[s] > 0 /\ stakedAmount'[delegatee[s]] = 0
      <4>1. delegatee[s] \in RebateUser /\ stakedAmount[s] > 0
            /\ stakedAmount[delegatee[s]] = 0
        BY <3>3, DelegationFacts
      <4> QED
        BY <4>1, <3>2, <2>2, <2>3
    <3> QED
      BY <3>1, <3>3, DelegationFacts DEF DelegationsMutual
  <2> QED
    BY <2>4, <2>5
<1> QED
  BY <1>2, <1>3, <1>4, <1>5, <1>6, StakingCases, TransferKeepsDelegations

LEMMA StakingInitInv == StakingInit => StakingInv
<1> SUFFICES ASSUME StakingInit
             PROVE  StakingInv
  OBVIOUS
<1>1. /\ rebates = [u \in RebateUser |-> <<>>]
      /\ rollingWindowStartIndex = [u \in RebateUser |-> 0]
      /\ countedFrom = [u \in RebateUser |-> 0]
      /\ stakedAmount = [u \in RebateUser |-> 0]
      /\ unstakingAmount = [u \in RebateUser |-> 0]
      /\ heldTokens = 0
      /\ delegatee = [u \in RebateUser |-> ZeroAddress]
      /\ delegates = [u \in RebateUser |-> ZeroAddress]
  BY DEF StakingInit
<1>2. ASSUME NEW u \in RebateUser
      PROVE  rebates[u] \in Seq(Rebate) /\ Len(rebates[u]) = 0
  BY <1>1
<1>3. RebateTypeOK
  BY <1>1 DEF RebateTypeOK
<1>4. StartIndexSound /\ RebatesPast
  BY <1>1, <1>2 DEF StartIndexSound, RebatesPast
<1>5. OtherTypesOK
  BY RebateStakingAssumption
     DEF StakingInit, OtherTypesOK, Request, RebateTreasuryFeeMode
<1>6. HoldingTypesOK
  BY RebateStakingAssumption DEF StakingInit, HoldingTypesOK
<1>7. StakesHeld
  <2>1. stakedAmount \in [RebateUser -> Nat] /\ \A u \in RebateUser : stakedAmount[u] = 0
    BY <1>1
  <2>2. Total(stakedAmount) = 0
    BY <2>1, TotalZero
  <2> QED
    BY <2>2, <1>1 DEF StakesHeld
<1>8. DelegationsMutual
  BY <1>1, RebateStakingAssumption DEF DelegationsMutual
<1> QED
  BY <1>3, <1>4, <1>5, <1>6, <1>7, <1>8, StakingTypeParts DEF StakingInv

(* Tokens at stake, delegations, and the start index of the window are as    *)
(* they should be after any sequence of calls.                               *)
THEOREM StakingInvariant == StakingSpec => []StakingInv
<1>1. StakingInit => StakingInv
  BY StakingInitInv
<1>2. StakingInv /\ [StakingNext]_stakingVars => StakingInv'
  <2> SUFFICES ASSUME StakingInv, [StakingNext]_stakingVars
               PROVE  StakingInv'
    OBVIOUS
  <2>1. RebateInv' /\ OtherTypesOK' /\ HoldingTypesOK' /\ StakesHeld' /\ DelegationsMutual'
    BY RebatesStep, OtherTypesStep, StakesStep, DelegationsStep
  <2>2. StakingTypeOK'
    BY <2>1 DEF StakingTypeOK, RebateInv, RebateTypeOK, OtherTypesOK, HoldingTypesOK
  <2> QED
    BY <2>1, <2>2 DEF StakingInv, RebateInv
<1> QED
  BY <1>1, <1>2, PTL DEF StakingSpec

\* No call overflows, or leaves the types of the contract's fields.
THEOREM StakingTypes == StakingSpec => []StakingTypeOK
BY StakingInvariant, PTL DEF StakingInv

\* The tokens of the contract are those at stake.
THEOREM StakesAlwaysHeld == StakingSpec => []StakesHeld
BY StakingInvariant, PTL DEF StakingInv

\* The two mappings of delegations stay in step.
THEOREM DelegationsStayMutual == StakingSpec => []DelegationsMutual
BY StakingInvariant, PTL DEF StakingInv

\* The start index never passes a rebate that counts.
THEOREM StartIndexStaysSound == StakingSpec => []StartIndexSound
BY StakingInvariant, PTL DEF StakingInv

\* What a step may do to the rebates.
LEMMA RebateCalls ==
    ASSUME StakingInv, [StakingNext]_stakingVars
    PROVE  \/ UNCHANGED rebates
           \/ RebateChange /\ UNCHANGED <<blockTime, rollingWindow>>
           \/ \E o, n \in RebateUser : ForceStakeTransfer(o, n)
<1>1. ASSUME NEW u \in RebateUser, NEW fee \in TreasuryFee, RevealDeposit(u, fee)
      PROVE  RebateChange /\ UNCHANGED <<blockTime, rollingWindow>>
  BY <1>1, ApplyChange DEF RevealDeposit, parameterVars
<1>2. ASSUME NEW u \in RebateUser, NEW fee \in TreasuryFee, NEW k \in RequestKey,
             RequestRedemption(k, u, fee)
      PROVE  UNCHANGED rebates \/ (RebateChange /\ UNCHANGED <<blockTime, rollingWindow>>)
  <2>1. UNCHANGED rebateVars \/ ApplyForRebate(u, fee, "Redemption")
    BY <1>2 DEF RequestRedemption
  <2> QED
    BY <2>1, <1>2, ApplyChange DEF RequestRedemption, rebateVars, parameterVars
<1>3. ASSUME NEW k \in RequestKey, NotifyRedemptionTimeout(k)
      PROVE  RebateChange /\ UNCHANGED <<blockTime, rollingWindow>>
  <2>1. requests[k].redeemer \in RebateUser
    <3>1. requests[k] \in Request /\ requests[k] # NoRequest
      BY <1>3 DEF StakingInv, StakingTypeOK, NotifyRedemptionTimeout
    <3> QED
      BY <3>1 DEF Request
  <2> QED
    BY <2>1, <1>3, CancelChange DEF NotifyRedemptionTimeout, parameterVars
<1>4. ASSUME Aside
      PROVE  UNCHANGED rebates \/ (RebateChange /\ UNCHANGED <<blockTime, rollingWindow>>)
  <2>1. \/ UNCHANGED rebates
        \/ \E u \in RebateUser, fee \in TreasuryFee :
              RevealDeposit(u, fee) \/ \E k \in RequestKey : RequestRedemption(k, u, fee)
        \/ \E k \in RequestKey : NotifyRedemptionTimeout(k)
    BY <1>4 DEF Aside, FeeNext, UpdateRollingWindow, UpdateUnstakingPeriod,
                UpdateRebatePerToken, SetRebateTreasuryFeeMode, EndRequest, NextBlock,
                rebateVars, stakingVars
  <2> QED
    BY <2>1, <1>1, <1>2, <1>3
<1>5. ASSUME NEW u \in RebateUser, NEW x,
             \/ SetDelegatee(u, x) \/ StakeTokens(u, x) \/ StartUnstaking(u, x)
             \/ FinalizeUnstaking(u, x)
      PROVE  UNCHANGED rebates
  BY <1>5 DEF SetDelegatee, StakeTokens, StartUnstaking, FinalizeUnstaking, rebateVars
<1> QED
  BY <1>4, <1>5, StakingCases

(* What the loop added up counts every rebate since, so that the cap holds   *)
(* for them and the new one together.                                        *)
LEMMA GrantKeepsCap ==
    ASSUME StakingInv, UNCHANGED <<blockTime, rollingWindow>>, NEW s \in RebateUser,
           NEW S \in SUBSET Expired(s), SkipRebates(s, Cardinality(S)), Granted(s)
    PROVE  /\ \A u \in RebateUser \ {s} : rebates'[u] = rebates[u]
           /\ RebatesSince(s, countedFrom[s])' <= GetRebateCap(s)
<1>1. PICK fee \in 0..UINT64_MAX, type \in {"Deposit", "Redemption"} :
          Rebated(s, type) /\ GrantRebate(s, fee)
  BY DEF Granted
<1> DEFINE r == [timestamp |-> blockTime, feeRebate |-> RebateOn(s, fee)]
           list == rebates[s]
           index == rollingWindowStartIndex[s]
           from == countedFrom[s]
           start == WindowStart
           later == Later(from, start)
<1>2. /\ RebateOn(s, fee) \in 0..UINT64_MAX
      /\ RebateInRollingWindow(s) + RebateOn(s, fee) <= GetRebateCap(s)
  BY <1>1, RebateBounds
<1>3. r \in Rebate /\ r.feeRebate = RebateOn(s, fee)
  BY <1>2, RebateFacts DEF Rebate
<1>4. /\ list \in Seq(Rebate) /\ index \in Nat /\ from \in Nat /\ start \in Int
      /\ IndexSound(list, index, from) /\ RebateInRollingWindow(s) = UsedIn(list, index, start)
      /\ rebates \in [RebateUser -> Seq(Rebate)]
  BY RebateFacts DEF RebateInv, RebateTypeOK
<1>5. rebates' = [rebates EXCEPT ![s] = Append(list, r)]
  BY <1>1 DEF GrantRebate
<1>6. countedFrom'[s] = later /\ WindowStart' = start
  BY SkipStep DEF WindowStart
<1> HIDE DEF r, list, index, from, start
<1>7. SinceIn(Append(list, r), later) <= UsedIn(list, index, start) + r.feeRebate
  BY <1>3, <1>4, GrantWithinUsed
<1>8. later \in Int /\ (IF later < start THEN start ELSE later) = later
  BY <1>4 DEF Later
<1> HIDE DEF later
<1>9. rebates'[s] = Append(list, r)
  BY <1>4, <1>5
<1>10. RebatesSince(s, countedFrom[s])' = SinceIn(Append(list, r), later)
  <2>1. RebatesSince(s, countedFrom[s])'
            = SinceIn(rebates'[s], IF countedFrom'[s] < WindowStart' THEN WindowStart'
                                   ELSE countedFrom'[s])
    BY DEF RebatesSince, SinceIn
  <2> QED
    BY <2>1, <1>6, <1>8, <1>9
<1>11. RebatesSince(s, countedFrom[s])' <= GetRebateCap(s)
  <2>1. SinceIn(Append(list, r), later) <= RebateInRollingWindow(s) + RebateOn(s, fee)
    BY <1>3, <1>4, <1>7
  <2>2. SinceIn(Append(list, r), later) \in Nat
    <3>1. Append(list, r) \in Seq(Rebate)
      BY <1>3, <1>4
    <3> HIDE DEF r
    <3> QED
      BY <3>1, <1>8, SinceType
  <2>3. RebateInRollingWindow(s) \in Nat /\ RebateOn(s, fee) \in Nat
        /\ GetRebateCap(s) \in Nat
    BY <1>2, RebateFacts, RebateStakingAssumption, CapType
  <2> QED
    BY <2>1, <2>2, <2>3, <1>2, <1>10
<1> QED
  BY <1>4, <1>5, <1>11

(* No rebate is granted beyond the cap.                                      *)
THEOREM RebatesWithinCap == StakingSpec => GrantedWithinCap
<1> DEFINE Within ==
        \A u \in RebateUser :
            stakedAmount' = stakedAmount /\ Len(rebates'[u]) > Len(rebates[u])
                => RebatesSince(u, countedFrom[u])' <= GetRebateCap(u)
<1>1. ASSUME StakingInv, [StakingNext]_stakingVars
      PROVE  Within
  <2> SUFFICES ASSUME NEW u \in RebateUser, stakedAmount' = stakedAmount,
                      Len(rebates'[u]) > Len(rebates[u])
               PROVE  RebatesSince(u, countedFrom[u])' <= GetRebateCap(u)
    OBVIOUS
  <2>0. rebates[u] \in Seq(Rebate) /\ Len(rebates[u]) \in Nat
    BY <1>1, RebateFacts
  <2>1. rebates'[u] # rebates[u]
    BY <2>0
  <2>2. ASSUME NEW o \in RebateUser, NEW n \in RebateUser, ForceStakeTransfer(o, n)
        PROVE  FALSE
    <3>1. stakedAmount[o] # 0 /\ stakedAmount' = Moved(stakedAmount, o, n, 0)
          /\ o # n
      BY <2>2 DEF ForceStakeTransfer
    <3>2. stakedAmount \in [RebateUser -> Nat]
      BY <1>1, DelegationFacts
    <3>3. stakedAmount'[o] = 0
      BY <3>1, <3>2 DEF Moved
    <3> QED
      BY <3>1, <3>3
  <2>3. UNCHANGED <<blockTime, rollingWindow>> /\ RebateChange
    BY <1>1, <2>1, <2>2, RebateCalls
  <2>4. PICK s \in RebateUser : \E S \in SUBSET Expired(s) :
            SkipRebates(s, Cardinality(S)) /\ (SameTimes(s) \/ Granted(s))
    BY <2>1, <2>3 DEF RebateChange, rebateVars
  <2>5. PICK S \in SUBSET Expired(s) : SkipRebates(s, Cardinality(S)) /\ Granted(s)
    BY <2>0, <2>4 DEF SameTimes
  <2>6. /\ \A v \in RebateUser \ {s} : rebates'[v] = rebates[v]
        /\ RebatesSince(s, countedFrom[s])' <= GetRebateCap(s)
    BY <1>1, <2>3, <2>5, GrantKeepsCap
  <2>7. u = s
    BY <2>1, <2>6
  <2> QED
    BY <2>6, <2>7
<1>2. StakingInv /\ [StakingNext]_stakingVars => Within
  BY <1>1
<1> QED
  BY <1>2, StakingInvariant, PTL DEF StakingSpec, GrantedWithinCap

(* A rebate is a part of the fee, and of what is left of the cap: this is    *)
(* why the treasury fee of a deposit or a request may be any part of the     *)
(* full fee, and never below zero.                                           *)
THEOREM RebateWithinFee ==
    StakingSpec => [](\A u \in RebateUser, fee \in TreasuryFee,
                         type \in {"Deposit", "Redemption"} :
                         Rebated(u, type) =>
                             /\ RebateOn(u, fee) \in 0..fee
                             /\ RebateInRollingWindow(u) + RebateOn(u, fee)
                                    <= GetRebateCap(u))
<1>1. StakingInv => \A u \in RebateUser, fee \in TreasuryFee,
                       type \in {"Deposit", "Redemption"} :
                       Rebated(u, type) =>
                           /\ RebateOn(u, fee) \in 0..fee
                           /\ RebateInRollingWindow(u) + RebateOn(u, fee)
                                  <= GetRebateCap(u)
  BY RebateBounds, RebateStakingAssumption
<1> QED
  BY <1>1, StakingInvariant, PTL
=============================================================================
