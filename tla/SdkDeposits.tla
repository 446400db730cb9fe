------------------------------ MODULE SdkDeposits ------------------------------
(***************************************************************************)
(* The deposits of the SDK (services/deposits, services/tbtc and the       *)
(* depositors of the chains under lib): a deposit is initiated for an      *)
(* owner, here or on another chain, funded on Bitcoin, revealed to the     *)
(* Bridge directly, by an L2 transaction or by a relayer, and refunded     *)
(* after its locktime if the wallet did not sweep it.                      *)
(***************************************************************************)
EXTENDS Integers, Sequences, FiniteSets

CONSTANTS
    DestinationChain,     \* the chains besides Ethereum in use
    ChainOwner,           \* owners of deposits, accounts of those chains
    RecoveryAddress,      \* records [key, type, compressed, network]
    DepositWallet,        \* wallets that deposits may be made to
    InputList,            \* sequences of [type, value], for the SDK's funding transaction
    DepositValue, FundingFee, RefundFee,
    RefundDuration,       \* 23328000 s in the code
    RevealAhead,          \* of the Bridge
    MedianTimeLag,        \* of the median time of the last Bitcoin blocks, 1 hour in the code
    MaxSdkTime, MaxLocktime,   \* bound; the largest 4-byte number in the code
    MaxDeposits,          \* bound on the deposits initiated
    RelayerRetries,       \* 3 in the code
    MaxRelayerFaults      \* bound on relayer's failures and lost answers

ASSUME DurationAssumption ==
    RefundDuration \in Nat /\ RevealAhead \in Nat /\ MedianTimeLag \in Nat
ASSUME ChainAssumption ==
    DestinationChain \subseteq {"Base", "Arbitrum", "StarkNet", "Sui", "Solana", "Sei"}

VARIABLES
    sdk,             \* the TBTC object: its network, what it has loaded, and for whom
    interfaces,      \* the interfaces loaded for other chains, a sequence of [chain, owner]
    depositWallets,  \* the Bridge's wallets: [active, live]
    now,             \* the time on both chains
    objects,         \* the Deposit objects, a sequence
    outputs,         \* Bitcoin outputs that fund deposits, a sequence
    jobs,            \* what has been handed over to be revealed on L1: [output, extra]
    revealed,        \* what the Bridge has accepted: [output, extra]
    minting,         \* the call of initiateMinting in progress
    relayerFaults

depositVars == <<sdk, interfaces, depositWallets, now, objects, outputs, jobs, revealed,
                 minting, relayerFaults>>

ZeroOwner == "0x0"
NoExtra == [bytes |-> 0, owner |-> "none"]
NoMinting == [object |-> 0, pc |-> "idle", output |-> 0, extra |-> NoExtra, attempt |-> 0,
              error |-> "none"]
NotMinting == minting.pc \in {"idle", "done", "failed"}
-----------------------------------------------------------------------------
(* The TBTC object.                                                         *)

DestinationNetwork == [mainnet |-> "mainnet", sepolia |-> "testnet"]

NothingLoaded == [network |-> "none", loader |-> FALSE, depositor |-> "none",
                  loaded |-> [c \in DestinationChain |-> 0]]

\* A signer knows its account and its network; a mere provider has no account.
SdkSigner == [kind : {"account", "provider"}, owner : ChainOwner,
              network : {"mainnet", "testnet"}]

EthereumAddressFromSigner(signer) == IF signer.kind = "account" THEN signer.owner ELSE "none"

\* Contracts are loaded for the chain that the signer uses, or not at all.
LoadEthereumCoreContracts(signer, network) == signer.network = DestinationNetwork[network]

InitializeEthereum(network, signer, crossChainSupport) ==
    /\ sdk.network = "none"
    /\ LoadEthereumCoreContracts(signer, network)
    /\ sdk' = [NothingLoaded EXCEPT !.network = network, !.loader = crossChainSupport,
                   !.depositor = EthereumAddressFromSigner(signer)]
    /\ UNCHANGED <<interfaces, depositWallets, now, objects, outputs, jobs, revealed,
                   minting, relayerFaults>>

\* A StarkNet provider without an account gets a placeholder address.
ExtractStarkNetAddress(signer) == IF signer.kind = "account" THEN signer.owner ELSE ZeroOwner

\* Of each chain: whether its interfaces can be loaded, and the owner they are loaded for.
LoadOnSignersChain(signer) ==
    [loads |-> signer.network = DestinationNetwork[sdk.network],
     owner |-> EthereumAddressFromSigner(signer)]
LoadBaseCrossChainInterfaces(signer) == LoadOnSignersChain(signer)
LoadArbitrumCrossChainInterfaces(signer) == LoadOnSignersChain(signer)
LoadStarkNetCrossChainInterfaces(signer) ==
    [loads |-> TRUE, owner |-> ExtractStarkNetAddress(signer)]
LoadSuiCrossChainInterfaces(signer) ==
    [loads |-> signer.kind = "account", owner |-> signer.owner]
LoadSolanaCrossChainInterfaces(signer) ==
    [loads |-> signer.kind = "account", owner |-> signer.owner]

\* initializeCrossChain does not know Sei: the caller puts its depositor together.
ConstructSeiDepositor(signer) == [loads |-> signer.kind = "account", owner |-> signer.owner]

InitializeCrossChain(chain, signer) ==
    /\ sdk.network # "none" /\ sdk.loader /\ Len(interfaces) < MaxDeposits
    /\ LET new == CASE chain = "Base" -> LoadBaseCrossChainInterfaces(signer)
                    [] chain = "Arbitrum" -> LoadArbitrumCrossChainInterfaces(signer)
                    [] chain = "StarkNet" -> LoadStarkNetCrossChainInterfaces(signer)
                    [] chain = "Sui" -> LoadSuiCrossChainInterfaces(signer)
                    [] chain = "Solana" -> LoadSolanaCrossChainInterfaces(signer)
                    [] chain = "Sei" -> ConstructSeiDepositor(signer)
       IN /\ new.loads
          /\ interfaces' = Append(interfaces, [chain |-> chain, owner |-> new.owner])
    /\ sdk' = [sdk EXCEPT !.loaded[chain] = Len(interfaces')]
    /\ UNCHANGED <<depositWallets, now, objects, outputs, jobs, revealed, minting, relayerFaults>>

\* The interfaces of earlier deposits are shared: their owner can be set anew.
SetDepositOwner(k, owner) ==
    /\ interfaces[k].owner # owner
    /\ interfaces' = [interfaces EXCEPT ![k].owner = owner]
    /\ UNCHANGED <<sdk, depositWallets, now, objects, outputs, jobs, revealed, minting,
                   relayerFaults>>
-----------------------------------------------------------------------------
(* Deposit receipts and scripts.                                            *)

\* Extra data is 32 bytes: the owner's address, padded if it has 20.
EncodeDepositOwner(owner) == [bytes |-> 32, owner |-> owner]
DecodeAs(bytes, extra) == [bytes |-> bytes, owner |-> extra.owner]
DecodeEthereumOwner(extra) == DecodeAs(20, extra)
DecodeArbitrumOwner(extra) == DecodeAs(20, extra)
DecodeSuiOwner(extra) == DecodeAs(32, extra)

\* A locktime is four bytes in one order or the other; read in the wrong one it is a
\* number that is far off.
FarOff == 2 * MaxLocktime
ByteReversed(bytes) ==
    [order |-> IF bytes.order = "little" THEN "big" ELSE "little", value |-> bytes.value]
ReadBytes(order, bytes) == IF bytes.order = order THEN bytes.value ELSE FarOff

CalculateLocktime == ByteReversed([order |-> "big", value |-> now + RefundDuration])
LocktimeFits == now + RefundDuration <= MaxLocktime

\* Scripts, and the Bridge, read numbers least significant byte first.
LocktimeInScript(locktime) == ReadBytes("little", locktime)

\* The recovery address is of the network in use, and one that a single key can spend from.
RecoveryAddressAccepted(recovery) ==
    recovery.network = DestinationNetwork[sdk.network] /\ recovery.type \in {"P2PKH", "P2WPKH"}

ExtraDataAccepted(extra) == extra = NoExtra \/ (extra.bytes = 32 /\ extra.owner # ZeroOwner)

ReceiptAccepted(recovery, extra) ==
    /\ depositWallets.active # "none" /\ RecoveryAddressAccepted(recovery)
    /\ LocktimeFits /\ ExtraDataAccepted(extra)

GenerateDepositReceipt(recovery, depositor, extra) ==
    [depositor |-> depositor, wallet |-> depositWallets.active, refundKey |-> recovery.key,
     refundLocktime |-> CalculateLocktime, extraData |-> extra]

\* The script of a receipt, which fixes the address, holds all of it.
PlainText(receipt) == receipt

NewObject(receipt, via, mode) ==
    /\ Len(objects) < MaxDeposits
    /\ objects' = Append(objects, [receipt |-> receipt, via |-> via, mode |-> mode])
    /\ UNCHANGED <<sdk, interfaces, depositWallets, now, outputs, jobs, revealed, minting,
                   relayerFaults>>

\* The extra data of a deposit on Ethereum are the caller's.
ExtraDataGiven ==
    {NoExtra} \union [bytes : {20, 32}, owner : ChainOwner \union {ZeroOwner}]

InitiateDeposit(recovery, extra) ==
    /\ sdk.network # "none" /\ sdk.depositor # "none" /\ ReceiptAccepted(recovery, extra)
    /\ NewObject(GenerateDepositReceipt(recovery, sdk.depositor, extra), 0, "Direct")

InitiateDepositWithProxy(recovery, depositor, extra, via, mode) ==
    /\ ReceiptAccepted(recovery, extra)
    /\ NewObject(GenerateDepositReceipt(recovery, depositor, extra), via, mode)

\* The depositor is the L1 contract for the chain; the owner goes into the extra data.
L1Depositor(chain) == "depositor of " \o chain

InitiateCrossChainDeposit(recovery, chain, mode) ==
    /\ sdk.network # "none" /\ sdk.loaded[chain] # 0
    /\ LET owner == interfaces[sdk.loaded[chain]].owner
       IN /\ owner # "none"
          /\ InitiateDepositWithProxy(recovery, L1Depositor(chain), EncodeDepositOwner(owner),
                                      sdk.loaded[chain], mode)
-----------------------------------------------------------------------------
(* Bitcoin.                                                                 *)

FundOutput(i, type, value) ==
    /\ Len(outputs) < MaxDeposits
    /\ outputs' = Append(outputs, [object |-> i, script |-> PlainText(objects[i].receipt),
                                   type |-> type, value |-> value, spent |-> FALSE])
    /\ UNCHANGED <<sdk, interfaces, depositWallets, now, objects, jobs, revealed, minting,
                   relayerFaults>>

\* Someone pays to the deposit's address.
FundFromOutside(i) == FundOutput(i, "P2WSH", DepositValue)

\* The SDK's funding transaction takes the inputs that it supports, in their order, until
\* they reach the amount and the fee.
SupportedInputs(list, k) == {i \in 1..k : list[i].type = "P2WPKH"}
TotalInputValue(list, k) ==
    LET f[j \in 0..k] == IF j = 0 THEN 0
                         ELSE f[j - 1] + (IF list[j].type = "P2WPKH" THEN list[j].value ELSE 0)
    IN f[k]
TotalExpenses == DepositValue + FundingFee
EnoughAt(list) == {k \in 1..Len(list) : TotalInputValue(list, k) >= TotalExpenses}
LastTaken(list) == CHOOSE k \in EnoughAt(list) : \A j \in EnoughAt(list) : k <= j

ChangeValue(list) == TotalInputValue(list, LastTaken(list)) - TotalExpenses

AssembleFunding(list) ==
    [inputs |-> SupportedInputs(list, LastTaken(list)),
     outputs |-> IF ChangeValue(list) > 0 THEN <<DepositValue, ChangeValue(list)>>
                 ELSE <<DepositValue>>]

SubmitFunding(i, list, witness) ==
    /\ EnoughAt(list) # {}
    /\ FundOutput(i, IF witness THEN "P2WSH" ELSE "P2SH", AssembleFunding(list).outputs[1])

\* Mutant: the bytes are parsed as they are in the script.
LocktimeUnreversed(locktime) == ReadBytes("big", locktime)

LocktimeToUnixTimestamp(locktime) == ReadBytes("big", ByteReversed(locktime))

RefundSequence == "0xfffffffe"

RefundTransaction(o, key) ==
    LET receipt == objects[o.object].receipt
    IN [locktime |-> LocktimeToUnixTimestamp(receipt.refundLocktime), sequence |-> RefundSequence,
        script |-> PlainText(receipt), key |-> key.key,
        unlocks |-> IF o.type = "P2SH" THEN "scriptSig" ELSE "witness"]

\* It is signed with the receipt's key only, in compressed form, and pays what is left.
RefundSigned(o, key) ==
    key.key = objects[o.object].receipt.refundKey /\ key.compressed /\ o.value >= RefundFee

\* The times that the median of the last blocks may be at.
MedianTime == (now - MedianTimeLag)..now

\* What Bitcoin nodes demand of a transaction that takes the script's refund branch: its
\* locktime is not before the script's, and the median time is past it.
RefundAccepted(o, tx, medianTime) ==
    /\ ~o.spent /\ tx.script = o.script /\ tx.key = o.script.refundKey
    /\ tx.locktime >= LocktimeInScript(o.script.refundLocktime)
    /\ tx.sequence # "0xffffffff" /\ tx.locktime < medianTime
    /\ tx.unlocks = (IF o.type = "P2SH" THEN "scriptSig" ELSE "witness")

SubmitRefund(n, key) ==
    /\ RefundSigned(outputs[n], key)
    /\ \E medianTime \in MedianTime :
           RefundAccepted(outputs[n], RefundTransaction(outputs[n], key), medianTime)
    /\ outputs' = [outputs EXCEPT ![n].spent = TRUE]
    /\ UNCHANGED <<sdk, interfaces, depositWallets, now, objects, jobs, revealed, minting,
                   relayerFaults>>

\* The wallet sweeps what was revealed to the Bridge.
SweepRevealed(n) ==
    /\ ~outputs[n].spent /\ \E r \in revealed : r.output = n
    /\ outputs' = [outputs EXCEPT ![n].spent = TRUE]
    /\ UNCHANGED <<sdk, interfaces, depositWallets, now, objects, jobs, revealed, minting,
                   relayerFaults>>
-----------------------------------------------------------------------------
(* Revealing.                                                               *)

\* What the Bridge demands: the script, rebuilt from the sender's data, is the one that
\* the output pays to.
ScriptMatches(n, depositor, extra) ==
    outputs[n].script.depositor = depositor /\ outputs[n].script.extraData = extra

RevealAccepted(n, depositor, extra) ==
    /\ ScriptMatches(n, depositor, extra)
    /\ outputs[n].script.wallet \in depositWallets.live
    /\ LocktimeInScript(outputs[n].script.refundLocktime) >= now + RevealAhead
    /\ \A r \in revealed : r.output # n

DetectFunding(i) ==
    {n \in DOMAIN outputs : outputs[n].object = i /\ outputs[n].type = "P2WSH"
                               /\ ~outputs[n].spent}
MostRecent(n, found) == n \in found /\ \A k \in found : k <= n

StartMinting(i, n) ==
    /\ NotMinting
    /\ minting' = [NoMinting EXCEPT !.object = i, !.output = n, !.pc = objects[i].mode]
    /\ UNCHANGED <<sdk, interfaces, depositWallets, now, objects, outputs, jobs, revealed,
                   relayerFaults>>

\* Without an outpoint from the caller, the most recent output is revealed.
InitiateMinting(i) ==
    \E n \in DOMAIN outputs : MostRecent(n, DetectFunding(i)) /\ StartMinting(i, n)
InitiateMintingOf(n) == StartMinting(outputs[n].object, n)

MintingObject == objects[minting.object]
Ended(error) == [minting EXCEPT !.pc = IF error = "none" THEN "done" ELSE "failed",
                                !.error = error]

\* One transaction on Ethereum, of the depositor or through the L1 contract.
RevealOnL1 ==
    /\ minting.pc \in {"Direct", "L1Transaction"}
    /\ LET receipt == MintingObject.receipt n == minting.output
       IN IF RevealAccepted(n, receipt.depositor, receipt.extraData)
          THEN /\ revealed' = revealed \union {[output |-> n, extra |-> receipt.extraData]}
               /\ minting' = Ended("none")
          ELSE minting' = Ended("reverted") /\ UNCHANGED revealed
    /\ UNCHANGED <<sdk, interfaces, depositWallets, now, objects, outputs, jobs, relayerFaults>>

MintingChain == interfaces[MintingObject.via].chain

HandOver(extra) == jobs' = jobs \union {[output |-> minting.output, extra |-> extra]}

\* An L2 contract takes the owner's address and emits what relayers carry to L1.
InitializeOnL2(chain, owner) ==
    /\ minting.pc = "L2Transaction" /\ MintingChain = chain
    /\ HandOver(EncodeDepositOwner(owner))
    /\ minting' = Ended("none")
    /\ UNCHANGED <<sdk, interfaces, depositWallets, now, objects, outputs, revealed,
                   relayerFaults>>
InitializeOnBase ==
    InitializeOnL2("Base", DecodeEthereumOwner(MintingObject.receipt.extraData).owner)
InitializeOnArbitrum ==
    InitializeOnL2("Arbitrum", DecodeArbitrumOwner(MintingObject.receipt.extraData).owner)
InitializeOnSui ==
    InitializeOnL2("Sui", DecodeSuiOwner(MintingObject.receipt.extraData).owner)

\* Owners as relayers want them: 32 bytes.
FormatStarkNetAddressAsBytes32(address) ==
    IF address.bytes = 32 THEN address ELSE [address EXCEPT !.bytes = -1]
FormatSeiAddressAsBytes32(address) ==
    IF address.bytes = 20 THEN [address EXCEPT !.bytes = 32] ELSE [address EXCEPT !.bytes = -1]

\* The deposit's own extra data come first.
L2DepositOwner(object) == object.receipt.extraData

FormattedOwner ==
    CASE MintingChain = "StarkNet" -> FormatStarkNetAddressAsBytes32(L2DepositOwner(MintingObject))
      [] MintingChain = "Sei" -> FormatSeiAddressAsBytes32(L2DepositOwner(MintingObject))
      [] MintingChain = "Solana" -> L2DepositOwner(MintingObject)

\* The request for a relayer is made up once, before the first attempt.
PrepareRelayerRequest ==
    /\ minting.pc = "L2Transaction" /\ MintingChain \in {"StarkNet", "Sei", "Solana"}
    /\ minting' = IF interfaces[MintingObject.via].owner = "none" THEN Ended("no owner")
                  ELSE IF FormattedOwner.bytes # 32 THEN Ended("owner format")
                  ELSE [minting EXCEPT !.pc = "post", !.extra = FormattedOwner]
    /\ UNCHANGED <<sdk, interfaces, depositWallets, now, objects, outputs, jobs, revealed,
                   relayerFaults>>

\* The Solana depositor asks once and treats every error alike.
Retries == IF MintingChain = "Solana" THEN 0 ELSE RelayerRetries

\* Timeouts and the relayer's own failures are retried, nothing else is.
IsRetryableError(error) == error \in {"timeout", "unavailable"}

PostFailed(error) ==
    minting' = IF IsRetryableError(error) /\ minting.attempt < Retries
               THEN [minting EXCEPT !.attempt = @ + 1]
               ELSE Ended(error)

RelayerFault == relayerFaults < MaxRelayerFaults /\ relayerFaults' = relayerFaults + 1

\* A relayer that knows the deposit says so; only if it gives the deposit's number as well
\* do the depositors of StarkNet and Sei answer with it.
RelayerKnows ==
    /\ minting.pc = "post" /\ \E j \in jobs : j.output = minting.output
    /\ \/ MintingChain # "Solana" /\ minting' = Ended("none")
       \/ PostFailed("known")
    /\ UNCHANGED <<sdk, interfaces, depositWallets, now, objects, outputs, jobs, revealed,
                   relayerFaults>>

\* Its answer may not arrive in time, or not be the one that is expected.
RelayerTakes ==
    /\ minting.pc = "post" /\ \A j \in jobs : j.output # minting.output
    /\ HandOver(minting.extra)
    /\ \/ minting' = Ended("none") /\ UNCHANGED relayerFaults
       \/ RelayerFault /\ \E error \in {"timeout", "unavailable", "refused"} : PostFailed(error)
    /\ UNCHANGED <<sdk, interfaces, depositWallets, now, objects, outputs, revealed>>

RelayerFails ==
    /\ minting.pc = "post" /\ RelayerFault
    /\ \E error \in {"timeout", "unavailable", "refused"} : PostFailed(error)
    /\ UNCHANGED <<sdk, interfaces, depositWallets, now, objects, outputs, jobs, revealed>>

\* A relayer sends what it was handed to the L1 contract of the chain.
RelayerReveals(j) ==
    /\ LET o == outputs[j.output] chain == interfaces[objects[o.object].via].chain
       IN RevealAccepted(j.output, L1Depositor(chain), j.extra)
    /\ revealed' = revealed \union {[output |-> j.output, extra |-> j.extra]}
    /\ UNCHANGED <<sdk, interfaces, depositWallets, now, objects, outputs, jobs, minting,
                   relayerFaults>>
-----------------------------------------------------------------------------
\* Wallets come and go, and time passes.
NewActiveWallet(w) ==
    /\ w \notin depositWallets.live
    /\ depositWallets' = [active |-> w, live |-> depositWallets.live \union {w}]
    /\ UNCHANGED <<sdk, interfaces, now, objects, outputs, jobs, revealed, minting, relayerFaults>>
WalletLeaves(w) ==
    /\ w \in depositWallets.live
    /\ depositWallets' = [active |-> IF depositWallets.active = w THEN "none"
                                     ELSE depositWallets.active,
                          live |-> depositWallets.live \ {w}]
    /\ UNCHANGED <<sdk, interfaces, now, objects, outputs, jobs, revealed, minting, relayerFaults>>
TimePasses ==
    /\ now < MaxSdkTime /\ now' = now + 1
    /\ UNCHANGED <<sdk, interfaces, depositWallets, objects, outputs, jobs, revealed, minting,
                   relayerFaults>>

SessionStep ==
    \/ \E network \in {"mainnet", "sepolia"}, signer \in SdkSigner, support \in BOOLEAN :
           InitializeEthereum(network, signer, support)
    \/ \E chain \in DestinationChain, signer \in SdkSigner : InitializeCrossChain(chain, signer)
    \/ \E k \in DOMAIN interfaces, owner \in ChainOwner : SetDepositOwner(k, owner)
    \/ \E recovery \in RecoveryAddress :
           \/ \E extra \in ExtraDataGiven : InitiateDeposit(recovery, extra)
           \/ \E chain \in DestinationChain, mode \in {"L1Transaction", "L2Transaction"} :
                  InitiateCrossChainDeposit(recovery, chain, mode)
FundingStep ==
    \/ \E i \in DOMAIN objects :
           \/ FundFromOutside(i)
           \/ \E list \in InputList, witness \in BOOLEAN : SubmitFunding(i, list, witness)
    \/ \E n \in DOMAIN outputs :
           (\E key \in RecoveryAddress : SubmitRefund(n, key)) \/ SweepRevealed(n)
MintingStep ==
    \/ \E i \in DOMAIN objects : InitiateMinting(i)
    \/ \E n \in DOMAIN outputs : InitiateMintingOf(n)
    \/ RevealOnL1 \/ InitializeOnBase \/ InitializeOnArbitrum \/ InitializeOnSui
    \/ PrepareRelayerRequest \/ RelayerKnows \/ RelayerTakes \/ RelayerFails
    \/ \E j \in jobs : RelayerReveals(j)
DepositWorld ==
    \/ \E w \in DepositWallet : NewActiveWallet(w) \/ WalletLeaves(w)
    \/ TimePasses

SdkDepositsNext == SessionStep \/ FundingStep \/ MintingStep \/ DepositWorld

SdkDepositsInit ==
    /\ sdk = NothingLoaded /\ interfaces = <<>>
    /\ depositWallets = [active |-> "none", live |-> {}]
    /\ now = 0 /\ objects = <<>> /\ outputs = <<>> /\ jobs = {} /\ revealed = {}
    /\ minting = NoMinting /\ relayerFaults = 0

SdkDepositsSpec == SdkDepositsInit /\ [][SdkDepositsNext]_depositVars
-----------------------------------------------------------------------------
(* Properties.                                                              *)

\* A deposit is never lost: every output paid to the address of a deposit, of either kind
\* and whatever became of its wallet, its owner and its reveal, can be refunded with the
\* (compressed) recovery key "after refundLocktime passes plus 1 hour", wherever the median
\* time of the blocks is by then, until it is swept.
DepositsRecoverable ==
    \A n \in DOMAIN outputs : \A key \in RecoveryAddress, medianTime \in MedianTime :
        /\ ~outputs[n].spent /\ key.compressed /\ key.key = outputs[n].script.refundKey
        /\ objects[outputs[n].object].receipt.refundLocktime.value + MedianTimeLag < now
        => RefundAccepted(outputs[n], RefundTransaction(outputs[n], key), medianTime)

\* What relayers are handed is what the Bridge will accept: the owner that the deposit was
\* initiated for, who is part of the funded script, although the depositor's owner may have
\* been set anew before the reveal.
HandedOverAsInitiated ==
    \A j \in jobs :
        LET o == outputs[j.output]
        IN ScriptMatches(j.output, L1Depositor(interfaces[objects[o.object].via].chain), j.extra)

\* "Use deposit owner from extraData if available": the owner in a deposit's extra data is
\* one that the depositor can work with.
OwnerInExtraDataUsable == minting.error # "owner format"

=============================================================================
