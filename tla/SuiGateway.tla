----------------------------- MODULE SuiGateway -----------------------------
(***************************************************************************)
(* src/cross-chain/sui/deploy_l2: the Sui Gateway with the TBTC coin and   *)
(* the BitcoinDepositor it works with (Move), and the TypeScript and       *)
(* JavaScript programs an administrator sets them up with.  A program      *)
(* reads the chain, then sends one transaction, and two administrators may *)
(* run programs at the same time; a transaction is atomic, and one that    *)
(* aborts changes nothing.  The Wormhole core and its token bridge are     *)
(* external: a VAA is transferred once, if the token bridge emitted it.    *)
(***************************************************************************)
EXTENDS Integers, FiniteSets

CONSTANTS
  SuiNetwork,              \* the networks considered, "mainnet" and "testnet"
  Administrator,           \* who may run a program, all with the same key
  Vaa,                     \* the signed messages, [id, chain, emitter, amount]
  MintingLimitMax,         \* u64::MAX
  NewMintingLimit,         \* the limits the administrator may set
  NonceLimit,              \* 4_294_967_293: the nonce starts again after it
  MaxAdministration        \* bound on program runs and administrative calls

ASSUME SuiAssumption ==
  /\ SuiNetwork \subseteq {"mainnet", "testnet"}
  /\ {MintingLimitMax, NonceLimit, MaxAdministration} \subseteq Nat
  /\ NewMintingLimit \subseteq Nat
  /\ \A vaa \in Vaa : vaa.amount \in Nat \ {0} /\ vaa.chain \in Nat

VARIABLES
  suiNetwork,       \* NETWORK of the environment
  gateway,          \* Gateway::GatewayState
  receiver,         \* BitcoinDepositor::ReceiverState
  token,            \* TBTC::TokenState and the supply of its coin
  treasury,         \* coins in Gateway::WrappedTokenTreasury
  wrappedHeld,      \* wrapped coins in the hands of users
  setup,            \* program and step each administrator is at
  administration,   \* program runs and administrative calls so far
  emittersReport    \* what check-trusted-emitters.js printed last

suiTokenVars == <<token, treasury, wrappedHeld>>
suiScriptVars == <<setup, administration, emittersReport>>
suiVars == <<suiNetwork, gateway, receiver, suiTokenVars, suiScriptVars>>

(* public-config.json knows no Ethereum, public-config-mainnet.json no       *)
(* Sepolia: an id looked up in the wrong one is undefined.                   *)
ChainIds ==
  IF suiNetwork = "mainnet" THEN [ethereum |-> 2, sui |-> 21]
                            ELSE [sepolia |-> 10002, sui |-> 21]
L1ChainId ==
  IF suiNetwork = "mainnet" THEN ChainIds.ethereum ELSE ChainIds.sepolia
EMITTER_CHAIN_L1 == 2

NoProgram == [program |-> "none", step |-> "none"]
NothingReported == [depositor |-> "none", gateway |-> {}]

SuiInit ==
  /\ suiNetwork \in SuiNetwork
  /\ gateway = [initialized |-> FALSE, paused |-> FALSE, nonce |-> 0,
                emitters |-> <<>>, receivers |-> <<>>, processed |-> {},
                mintingLimit |-> MintingLimitMax, mintedAmount |-> 0]
  /\ receiver = [trustedEmitter |-> "zero", processed |-> {}]
  /\ token = [minters |-> {}, paused |-> FALSE, supply |-> 0]
  /\ treasury = 0 /\ wrappedHeld = 0
  /\ setup = [a \in Administrator |-> NoProgram]
  /\ administration = 0 /\ emittersReport = NothingReported
-----------------------------------------------------------------------------
(* The entry functions of Gateway an administrator calls.                    *)

Entry(table, chain, address) ==
  [c \in DOMAIN table \cup {chain} |-> IF c = chain THEN address ELSE table[c]]
WithoutEntry(table, chain) == [c \in DOMAIN table \ {chain} |-> table[c]]

(* Table::add aborts on a key the table has already.                         *)
AddTrustedEmitter(chain, emitter) ==
  /\ gateway.initialized /\ chain \notin DOMAIN gateway.emitters
  /\ gateway' = [gateway EXCEPT !.emitters = Entry(@, chain, emitter)]

RemoveTrustedEmitter(chain) ==
  /\ gateway.initialized /\ chain \in DOMAIN gateway.emitters
  /\ gateway' = [gateway EXCEPT !.emitters = WithoutEntry(@, chain)]

AddTrustedReceiver(chain, address) ==
  /\ gateway.initialized /\ chain \notin DOMAIN gateway.receivers
  /\ gateway' = [gateway EXCEPT !.receivers = Entry(@, chain, address)]

RemoveTrustedReceiver(chain) ==
  /\ gateway.initialized /\ chain \in DOMAIN gateway.receivers
  /\ gateway' = [gateway EXCEPT !.receivers = WithoutEntry(@, chain)]

PauseGateway ==
  /\ gateway.initialized /\ ~gateway.paused
  /\ gateway' = [gateway EXCEPT !.paused = TRUE]

UnpauseGateway ==
  /\ gateway.initialized /\ gateway.paused
  /\ gateway' = [gateway EXCEPT !.paused = FALSE]

UpdateMintingLimit(limit) ==
  /\ gateway.initialized
  /\ gateway' = [gateway EXCEPT !.mintingLimit = limit]

(* The MinterCap add_minter_with_cap returns goes into the capabilities that *)
(* initialize_gateway shares, within one transaction.                        *)
AddMinterWithCap(minter) ==
  /\ minter \notin token.minters
  /\ token' = [token EXCEPT !.minters = @ \cup {minter}]

InitializeGateway ==
  /\ ~gateway.initialized
  /\ gateway' = [gateway EXCEPT !.initialized = TRUE]

RemoveMinter(minter) ==
  /\ minter \in token.minters
  /\ token' = [token EXCEPT !.minters = @ \ {minter}]

PauseToken == ~token.paused /\ token' = [token EXCEPT !.paused = TRUE]
UnpauseToken == token.paused /\ token' = [token EXCEPT !.paused = FALSE]

SetTrustedEmitter(emitter) ==
  receiver' = [receiver EXCEPT !.trustedEmitter = emitter]

AdministrationAllowed ==
  /\ administration < MaxAdministration
  /\ administration' = administration + 1
  /\ UNCHANGED <<suiNetwork, treasury, wrappedHeld, setup, emittersReport>>

AdministerGateway ==
  /\ AdministrationAllowed /\ UNCHANGED <<receiver, token>>
  /\ \/ RemoveTrustedEmitter(L1ChainId)
     \/ RemoveTrustedReceiver(L1ChainId)
     \/ PauseGateway
     \/ UnpauseGateway
     \/ \E limit \in NewMintingLimit : UpdateMintingLimit(limit)

AdministerToken ==
  /\ AdministrationAllowed /\ UNCHANGED <<gateway, receiver>>
  /\ RemoveMinter("gateway") \/ PauseToken \/ UnpauseToken

AdministerDepositor ==
  /\ AdministrationAllowed /\ UNCHANGED <<gateway, token>>
  /\ SetTrustedEmitter("btcDepositorWormhole")
-----------------------------------------------------------------------------
(* The programs.  A run ends at its last step, at an early return and at a   *)
(* transaction that aborts.                                                  *)

SuiStep(a, program, step) == setup[a] = [program |-> program, step |-> step]
NextSuiStep(a, step) == setup' = [setup EXCEPT ![a].step = step]
EndProgram(a) == setup' = [setup EXCEPT ![a] = NoProgram]
ContinueIf(a, condition, step) ==
  IF condition THEN NextSuiStep(a, step) ELSE EndProgram(a)

(* Every program loads the configuration of NETWORK first.                   *)
LoadConfig(a) ==
  /\ setup[a] = NoProgram /\ administration < MaxAdministration
  /\ \E program \in {"initialize gateway", "set gateway emitter",
                     "remove gateway emitter", "set gateway receiver",
                     "set depositor emitter", "check emitters"} :
       setup' = [setup EXCEPT ![a] = [program |-> program, step |-> "read"]]
  /\ administration' = administration + 1
  /\ UNCHANGED <<suiNetwork, gateway, receiver, suiTokenVars, emittersReport>>

NothingSent ==
  UNCHANGED <<suiNetwork, gateway, receiver, suiTokenVars, administration,
              emittersReport>>

ReadGatewayState(a) ==
  /\ SuiStep(a, "initialize gateway", "read")
  /\ ContinueIf(a, ~gateway.initialized, "minters")
  /\ NothingSent

ReadMinters(a) ==
  /\ SuiStep(a, "initialize gateway", "minters")
  /\ ContinueIf(a, "gateway" \notin token.minters, "dry run")
  /\ NothingSent

(* The transaction block of both calls.                                      *)
AddMinterAndInitialize == AddMinterWithCap("gateway") /\ InitializeGateway
WouldInitialize == "gateway" \notin token.minters /\ ~gateway.initialized

DryRunInitialization(a) ==
  /\ SuiStep(a, "initialize gateway", "dry run")
  /\ ContinueIf(a, WouldInitialize, "execute")
  /\ NothingSent

ExecuteInitialization(a) ==
  /\ SuiStep(a, "initialize gateway", "execute")
  /\ IF WouldInitialize THEN AddMinterAndInitialize ELSE UNCHANGED <<gateway, token>>
  /\ EndProgram(a)
  /\ UNCHANGED <<suiNetwork, receiver, treasury, wrappedHeld, administration,
                 emittersReport>>

InitializeGatewayMainnet(a) ==
  /\ suiNetwork = "mainnet"
  /\ \/ ReadGatewayState(a)
     \/ ReadMinters(a)
     \/ DryRunInitialization(a)
     \/ ExecuteInitialization(a)

(* initialize_gateway_v2_ptb.ts has the same steps for the testnet package.  *)
CheckBeforeInitializeGatewayV2(a) ==
  suiNetwork = "testnet" /\ (ReadGatewayState(a) \/ ReadMinters(a))
SendInitializeGatewayV2(a) ==
  suiNetwork = "testnet" /\ (DryRunInitialization(a) \/ ExecuteInitialization(a))

SentToGateway(a) ==
  /\ EndProgram(a)
  /\ UNCHANGED <<suiNetwork, receiver, suiTokenVars, administration, emittersReport>>

SetGatewayTrustedEmitter(a) ==
  \/ /\ SuiStep(a, "set gateway emitter", "read")
     /\ ContinueIf(a, gateway.initialized, "send")
     /\ NothingSent
  \/ /\ SuiStep(a, "set gateway emitter", "send")
     /\ IF L1ChainId \in DOMAIN gateway.emitters THEN UNCHANGED gateway
        ELSE AddTrustedEmitter(L1ChainId, "tokenBridge")
     /\ SentToGateway(a)

(* The program for both networks asks for Sepolia: the first key compared    *)
(* with the undefined id of mainnet throws.                                  *)
ReadEmitters(a) ==
  /\ SuiStep(a, "remove gateway emitter", "read")
  /\ ContinueIf(a, gateway.initialized /\ gateway.emitters # <<>>, "list")
  /\ NothingSent

ListEmitters(a) ==
  /\ SuiStep(a, "remove gateway emitter", "list")
  /\ ContinueIf(a, "sepolia" \in DOMAIN ChainIds
                     /\ ChainIds["sepolia"] \in DOMAIN gateway.emitters, "send")
  /\ NothingSent

RemoveListedEmitter(a) ==
  /\ SuiStep(a, "remove gateway emitter", "send")
  /\ IF ChainIds["sepolia"] \in DOMAIN gateway.emitters
     THEN RemoveTrustedEmitter(ChainIds["sepolia"]) ELSE UNCHANGED gateway
  /\ SentToGateway(a)

(* This program reads nothing: an uninitialised gateway aborts the call.     *)
SetGatewayTrustedReceiver(a) ==
  /\ SuiStep(a, "set gateway receiver", "read")
  /\ IF gateway.initialized /\ L1ChainId \notin DOMAIN gateway.receivers
     THEN AddTrustedReceiver(L1ChainId, "tokenBridge") ELSE UNCHANGED gateway
  /\ SentToGateway(a)

SetDepositorTrustedEmitter(a) ==
  /\ SuiStep(a, "set depositor emitter", "read")
  /\ SetTrustedEmitter("tokenBridge")
  /\ EndProgram(a)
  /\ UNCHANGED <<suiNetwork, gateway, suiTokenVars, administration, emittersReport>>

DepositorVerdict ==
  CASE receiver.trustedEmitter = "btcDepositorWormhole" -> "Configured for BTCDepositorWormhole"
    [] receiver.trustedEmitter = "tokenBridge" -> "Configured for Token Bridge"
    [] OTHER -> "Unknown emitter address"

CheckDepositor(a) ==
  /\ SuiStep(a, "check emitters", "read")
  /\ emittersReport' = [NothingReported EXCEPT !.depositor = DepositorVerdict]
  /\ NextSuiStep(a, "gateway")
  /\ UNCHANGED <<suiNetwork, gateway, receiver, suiTokenVars, administration>>

(* The chains whose emitter is "Correctly set to Token Bridge".              *)
CheckGateway(a) ==
  /\ SuiStep(a, "check emitters", "gateway")
  /\ emittersReport' =
       [emittersReport EXCEPT !.gateway =
          {c \in DOMAIN gateway.emitters :
             gateway.initialized /\ c = L1ChainId
               /\ gateway.emitters[c] = "tokenBridge"}]
  /\ EndProgram(a)
  /\ UNCHANGED <<suiNetwork, gateway, receiver, suiTokenVars, administration>>
-----------------------------------------------------------------------------
(* The entry functions users and relayers call.                              *)

(* TBTC::mint asks for the MinterCap only, the list of minters is not read.  *)
MayMint == ~token.paused
Mint(amount) == [token EXCEPT !.supply = @ + amount]
Burn(amount) == [token EXCEPT !.supply = @ - amount]

(* Mutant: the wrapped coins are stored whatever the branch.                 *)
RedeemStoringAll(amount) ==
  /\ treasury' = treasury + amount
  /\ IF gateway.mintedAmount + amount <= gateway.mintingLimit
     THEN MayMint /\ token' = Mint(amount) /\ UNCHANGED wrappedHeld
     ELSE UNCHANGED <<token, wrappedHeld>>

(* Within the limit canonical coins are minted against the wrapped ones;     *)
(* over it the recipient receives the wrapped coins themselves.              *)
RedeemCoins(amount) ==
  IF gateway.mintedAmount + amount <= gateway.mintingLimit
  THEN /\ MayMint
       /\ token' = Mint(amount)
       /\ treasury' = treasury + amount
       /\ UNCHANGED wrappedHeld
  ELSE wrappedHeld' = wrappedHeld + amount /\ UNCHANGED <<token, treasury>>

(* Verify_only_once and authorize_transfer of the token bridge.              *)
Transferable(vaa) == vaa.emitter = "tokenBridge" /\ vaa.id \notin gateway.processed

Redeem(vaa) ==
  /\ ~gateway.paused /\ gateway.initialized
  /\ vaa.id \notin gateway.processed
  /\ vaa.chain \in DOMAIN gateway.emitters
  /\ vaa.emitter = gateway.emitters[vaa.chain]
  /\ Transferable(vaa)
  /\ gateway' = [gateway EXCEPT
       !.processed = @ \cup {vaa.id},
       !.mintedAmount =
          IF @ + vaa.amount <= gateway.mintingLimit THEN @ + vaa.amount ELSE @]
  /\ RedeemCoins(vaa.amount)

RedeemTokens(vaa) ==
  Redeem(vaa) /\ UNCHANGED <<suiNetwork, receiver, suiScriptVars>>

(* BitcoinDepositor passes the message on to the Gateway in the same call.   *)
ReceiveWormholeMessages(vaa) ==
  /\ vaa.id \notin receiver.processed
  /\ vaa.chain = EMITTER_CHAIN_L1 /\ vaa.emitter = receiver.trustedEmitter
  /\ receiver' = [receiver EXCEPT !.processed = @ \cup {vaa.id}]
  /\ Redeem(vaa)
  /\ UNCHANGED <<suiNetwork, suiScriptVars>>

IncrementNonce(nonce) == IF nonce = NonceLimit THEN 0 ELSE nonce + 1

GatewayAccepts(nonce) ==
  gateway.initialized /\ ~gateway.paused /\ gateway.nonce + 1 = nonce

(* Mutant: the amount minted is left alone when coins leave.                 *)
MintedStays(minted, amount) == minted

MintedAfterSending(minted, amount) ==
  IF minted >= amount THEN minted - amount ELSE 0

(* Canonical coins are burned and as many wrapped ones leave the treasury.   *)
BurnAndRelease(amount, nonce) ==
  /\ GatewayAccepts(nonce)
  /\ amount <= token.supply /\ treasury >= amount /\ ~token.paused
  /\ token' = Burn(amount)
  /\ treasury' = treasury - amount
  /\ gateway' = [gateway EXCEPT
       !.mintedAmount = MintedAfterSending(@, amount), !.nonce = IncrementNonce(@)]
  /\ UNCHANGED <<suiNetwork, receiver, wrappedHeld, suiScriptVars>>

SendTokens(amount, chain, nonce) ==
  chain \in DOMAIN gateway.receivers /\ BurnAndRelease(amount, nonce)

(* Without a payload no receiver has to be registered.                       *)
SendTokensStandard(amount, nonce) == BurnAndRelease(amount, nonce)

SendWrappedTokens(amount, chain, nonce) ==
  /\ GatewayAccepts(nonce)
  /\ chain \in DOMAIN gateway.receivers /\ amount <= wrappedHeld
  /\ wrappedHeld' = wrappedHeld - amount
  /\ gateway' = [gateway EXCEPT !.nonce = IncrementNonce(@)]
  /\ UNCHANGED <<suiNetwork, receiver, token, treasury, suiScriptVars>>
-----------------------------------------------------------------------------
ProgramNext(a) ==
  \/ LoadConfig(a)
  \/ InitializeGatewayMainnet(a)
  \/ CheckBeforeInitializeGatewayV2(a)
  \/ SendInitializeGatewayV2(a)
  \/ SetGatewayTrustedEmitter(a)
  \/ ReadEmitters(a)
  \/ ListEmitters(a)
  \/ RemoveListedEmitter(a)
  \/ SetGatewayTrustedReceiver(a)
  \/ SetDepositorTrustedEmitter(a)
  \/ CheckDepositor(a)
  \/ CheckGateway(a)

SuiNext ==
  \/ \E a \in Administrator : ProgramNext(a)
  \/ AdministerGateway
  \/ AdministerToken
  \/ AdministerDepositor
  \/ \E vaa \in Vaa : RedeemTokens(vaa) \/ ReceiveWormholeMessages(vaa)
  \/ \E amount \in 1 .. token.supply + wrappedHeld, nonce \in 1 .. NonceLimit + 1 :
       \/ SendTokens(amount, L1ChainId, nonce)
       \/ SendTokensStandard(amount, nonce)
       \/ SendWrappedTokens(amount, L1ChainId, nonce)

SuiSpec == SuiInit /\ [][SuiNext]_suiVars

(* Every canonical coin on Sui is backed by one wrapped coin in the          *)
(* treasury, and the gateway counts exactly the coins it minted: sending out *)
(* never meets the branch "This should not happen, but just in case", even   *)
(* as the limit moves and transfers pass it.                                 *)
CanonicalBacked == token.supply = treasury /\ gateway.mintedAmount = treasury
=============================================================================
