------------------------------- MODULE WalletTx -------------------------------
(***************************************************************************)
(* The wallet transactions of the SDK (services/maintenance/wallet-tx.ts): *)
(* sweeps of deposits and redemptions are assembled from what the chains   *)
(* say, signed, broadcast, and later proved to the Bridge by the SPV       *)
(* maintainer, which is the point where the Bridge judges them.            *)
(*                                                                         *)
(* An output is a record of its transaction, position, value and lock; a   *)
(* lock is what has to be unlocked, and by whose key.                      *)
(***************************************************************************)
EXTENDS Integers, Sequences, FiniteSets, FiniteSetsExt, Sums

CONSTANTS
    SigningWallet,     \* wallets, as the owners of private keys
    FundedDeposit,     \* records [name, wallet, vault, lock, value], revealed to the Bridge
    RedeemerScript,    \* the scripts of redeemers
    SweepFee,          \* fees a maintainer asks for
    RequestedAmount,   \* amounts of redemption requests
    RequestFee,        \* their treasury fee
    RequestTxMaxFee,   \* redemptionTxMaxFee
    TxMaxTotalFee,     \* redemptionTxMaxTotalFee
    SweepTxMaxFee,     \* depositTxMaxFee
    MainOutputValue,   \* satoshis in the first main UTXO of a wallet
    Witness,           \* whether the wallet's outputs are P2WPKH rather than P2PKH
    MaxTransactions,   \* bound on the transactions assembled
    MaxRequests        \* bound on the requests made to the Bridge

ASSUME WalletTxAssumption ==
    /\ \A d \in FundedDeposit : d.lock \in {"P2SH", "P2WSH"} /\ d.value \in Nat
    /\ SweepFee \subseteq Nat /\ RequestedAmount \subseteq Nat
    /\ RequestFee \in Nat /\ RequestTxMaxFee \in Nat /\ TxMaxTotalFee \in Nat
    /\ SweepTxMaxFee \in Nat /\ MainOutputValue \in Nat

VARIABLES
    txs,           \* transactions assembled: [kind, wallet, inputs, outputs, unlocks, requests]
    txStatus,      \* of each: "rejected", "mempool", "confirmed", "proved"
    reported,      \* of each: the new main UTXO the SDK reported
    registeredMain,    \* of each wallet, the main UTXO in the Bridge
    sweptDeposits,
    redemptionRequests,    \* of <<wallet, script>>: the pending request
    timedOutRequests,
    requestsMade,
    redeeming      \* the submission of a redemption in progress

walletTxVars == <<txs, txStatus, reported, registeredMain, sweptDeposits,
                  redemptionRequests, timedOutRequests, requestsMade, redeeming>>

NoUtxo == [tx |-> 0, index |-> 0, value |-> 0, lock |-> <<"none", "none">>]
NoRedemptionRequest == [amount |-> 0, number |-> 0]
NotRedeeming == [pc |-> "idle", wallet |-> "none", main |-> NoUtxo, scripts |-> <<>>,
                 requests |-> <<>>]

ValuesOf(outputs) == [i \in DOMAIN outputs |-> outputs[i].value]

\* Transactions 0 of the wallets and of the deposits exist from the start.
FirstMain(w) == [tx |-> <<"main", w>>, index |-> 0, value |-> MainOutputValue,
                 lock |-> <<"P2WPKH", w>>]
DepositUtxo(d) == [tx |-> <<"deposit", d.name>>, index |-> 0, value |-> d.value,
                   lock |-> <<d.lock, d.name>>]
OutputAt(n, i) == [tx |-> <<"tx", n>>, index |-> i - 1, value |-> txs[n].outputs[i].value,
                   lock |-> txs[n].outputs[i].lock]
-----------------------------------------------------------------------------
(* Bitcoin.  The unlocking data of an input names the kind of output it was *)
(* made for, the key that signed and, for a deposit, the script.            *)

Unlocks(utxo, unlock) ==
    LET kind == utxo.lock[1]
        owner == utxo.lock[2]
    IN /\ unlock.kind = kind
       /\ kind \in {"P2PKH", "P2WPKH"} => unlock.key = owner
       /\ kind \in {"P2SH", "P2WSH"} =>
              /\ unlock.script = owner
              /\ \E d \in FundedDeposit : d.name = owner /\ d.wallet = unlock.key

SpentUtxos ==
    UNION {{txs[n].inputs[i] : i \in DOMAIN txs[n].inputs} :
               n \in {m \in DOMAIN txs : txStatus[m] # "rejected"}}
ExistingUtxos ==
    {FirstMain(w) : w \in SigningWallet} \union {DepositUtxo(d) : d \in FundedDeposit}
    \union UNION {{OutputAt(n, i) : i \in DOMAIN txs[n].outputs} :
                      n \in {m \in DOMAIN txs : txStatus[m] # "rejected"}}

ValidOnBitcoin(tx) ==
    /\ \A i, j \in DOMAIN tx.inputs : i # j => tx.inputs[i] # tx.inputs[j]
    /\ \A i \in DOMAIN tx.inputs : /\ tx.inputs[i] \in ExistingUtxos \ SpentUtxos
                                   /\ Unlocks(tx.inputs[i], tx.unlocks[i])
    /\ Total(ValuesOf(tx.outputs)) <= Total(ValuesOf(tx.inputs))

\* Broadcasting may fail silently: the caller has its answer in any case.
Broadcast(tx, newMain) ==
    /\ txs' = Append(txs, tx)
    /\ reported' = Append(reported, newMain)
    /\ txStatus' = Append(txStatus, IF ValidOnBitcoin(tx) THEN "mempool" ELSE "rejected")

\* The outputs a transaction spends are confirmed before it.
ConfirmTx(n) ==
    /\ txStatus[n] = "mempool"
    /\ \A m \in DOMAIN txs :
           txStatus[m] = "mempool" => \A i \in DOMAIN txs[n].inputs : txs[n].inputs[i].tx # <<"tx", m>>
    /\ txStatus' = [txStatus EXCEPT ![n] = "confirmed"]
    /\ UNCHANGED <<txs, reported, registeredMain, sweptDeposits, redemptionRequests,
                   timedOutRequests, requestsMade, redeeming>>
-----------------------------------------------------------------------------
(* Signing.                                                                 *)

WalletOutputLock(w) == <<IF Witness THEN "P2WPKH" ELSE "P2PKH", w>>

CanSpendOutput(key, lock) == lock[1] \in {"P2PKH", "P2WPKH"} /\ lock[2] = key

SignMainUtxoInput(key, utxo) == [kind |-> utxo.lock[1], key |-> key, script |-> "none"]

\* The deposit script embeds the wallet the deposit was made to.
PrepareDepositScript(key, d) == IF d.wallet = key THEN d.name ELSE "error"

SignP2SHDepositInput(key, d) ==
    [kind |-> "P2SH", key |-> key, script |-> PrepareDepositScript(key, d)]

SignP2WSHDepositInput(key, d) ==
    [kind |-> "P2WSH", key |-> key, script |-> PrepareDepositScript(key, d)]

SignDepositInput(key, utxo, d) ==
    IF utxo.lock[1] = "P2SH" THEN SignP2SHDepositInput(key, d) ELSE SignP2WSHDepositInput(key, d)
-----------------------------------------------------------------------------
(* Deposit sweeps.                                                          *)

SweepInputs(main, deposits) ==
    (IF main = NoUtxo THEN <<>> ELSE <<main>>)
    \o [i \in DOMAIN deposits |-> DepositUtxo(deposits[i])]

SweepOutputValue(main, deposits, fee) ==
    Total(ValuesOf(SweepInputs(main, deposits))) - fee

\* What stops a sweep from being assembled.
SweepRefused(key, main, deposits, fee) ==
    \/ deposits = <<>>
    \/ SweepOutputValue(main, deposits, fee) < 0
    \/ main # NoUtxo /\ ~CanSpendOutput(key, main.lock)
    \/ \E i \in DOMAIN deposits : PrepareDepositScript(key, deposits[i]) = "error"

\* The main UTXO, if there is one, is the first input.
SweepUnlocks(key, main, deposits) ==
    (IF main = NoUtxo THEN <<>> ELSE <<SignMainUtxoInput(key, main)>>)
    \o [i \in DOMAIN deposits |->
           SignDepositInput(key, DepositUtxo(deposits[i]), deposits[i])]

AssembleSweepTransaction(key, main, deposits, fee) ==
    [kind |-> "sweep", wallet |-> key, inputs |-> SweepInputs(main, deposits),
     outputs |-> <<[value |-> SweepOutputValue(main, deposits, fee),
                    lock |-> WalletOutputLock(key)]>>,
     unlocks |-> SweepUnlocks(key, main, deposits), requests |-> <<>>]

SubmitSweepTransaction(key, main, deposits, fee) ==
    /\ ~SweepRefused(key, main, deposits, fee)
    /\ Len(txs) < MaxTransactions
    /\ LET tx == AssembleSweepTransaction(key, main, deposits, fee)
       IN Broadcast(tx, [tx |-> <<"tx", Len(txs) + 1>>, index |-> 0,
                         value |-> tx.outputs[1].value, lock |-> tx.outputs[1].lock])
    /\ UNCHANGED <<registeredMain, sweptDeposits, redemptionRequests, timedOutRequests,
                   requestsMade, redeeming>>
-----------------------------------------------------------------------------
(* Redemptions.  The requests are read from the Bridge one by one.          *)

SubmitRedemptionTransaction(key, main, scripts) ==
    /\ redeeming.pc = "idle" /\ Len(txs) < MaxTransactions
    /\ scripts # <<>>
    /\ redeeming' = [pc |-> "reading", wallet |-> key, main |-> main, scripts |-> scripts,
                     requests |-> <<>>]
    /\ UNCHANGED <<txs, txStatus, reported, registeredMain, sweptDeposits, redemptionRequests,
                   timedOutRequests, requestsMade>>

ReadRequest ==
    /\ redeeming.pc = "reading" /\ redeeming.scripts # <<>>
    /\ LET script == Head(redeeming.scripts)
           request == redemptionRequests[<<redeeming.wallet, script>>]
       IN redeeming' = IF request = NoRedemptionRequest THEN NotRedeeming
                       ELSE [redeeming EXCEPT !.scripts = Tail(@), !.requests =
                                Append(@, [script |-> script, request |-> request])]
    /\ UNCHANGED <<txs, txStatus, reported, registeredMain, sweptDeposits, redemptionRequests,
                   timedOutRequests, requestsMade>>

\* Mutant: the treasury fee is forgotten.
OutputWithTreasuryFee(request) == request.amount - RequestTxMaxFee

RedemptionOutputValue(request) == request.amount - RequestTxMaxFee - RequestFee

RedemptionOutputs(requests) ==
    [i \in DOMAIN requests |-> [value |-> RedemptionOutputValue(requests[i].request),
                                lock |-> <<"redeemer", requests[i].script>>]]

ChangeOutputValue(main, requests) ==
    main.value - Total(ValuesOf(RedemptionOutputs(requests))) - Len(requests) * RequestTxMaxFee

\* The change, if any, is the last output.
AssembleRedemptionTransaction(key, main, requests) ==
    LET change == ChangeOutputValue(main, requests)
    IN [kind |-> "redemption", wallet |-> key, inputs |-> <<main>>,
        outputs |-> RedemptionOutputs(requests)
            \o (IF change > 0 THEN <<[value |-> change, lock |-> WalletOutputLock(key)]>> ELSE <<>>),
        unlocks |-> <<SignMainUtxoInput(key, main)>>,
        requests |-> requests]

\* Mutant: the change is reported as the first output.
ChangeReportedFirst(n, main, requests) ==
    IF ChangeOutputValue(main, requests) > 0
    THEN [tx |-> <<"tx", n>>, index |-> 0, value |-> ChangeOutputValue(main, requests),
          lock |-> WalletOutputLock(redeeming.wallet)]
    ELSE NoUtxo

NewMainUtxo(n, main, requests) ==
    IF ChangeOutputValue(main, requests) > 0
    THEN [tx |-> <<"tx", n>>, index |-> Len(requests), value |-> ChangeOutputValue(main, requests),
          lock |-> WalletOutputLock(redeeming.wallet)]
    ELSE NoUtxo

\* A transaction that spends more than its input, or that the key cannot sign, is not
\* extracted.
RedemptionRefused(key, main, requests) ==
    \/ main.lock[1] \notin {"P2PKH", "P2WPKH"} \/ ~CanSpendOutput(key, main.lock)
    \/ Total(ValuesOf(RedemptionOutputs(requests))) > main.value
    \/ \E i \in DOMAIN requests : RedemptionOutputValue(requests[i].request) < 0

AssembleAndBroadcast ==
    /\ redeeming.pc = "reading" /\ redeeming.scripts = <<>> /\ Len(txs) < MaxTransactions
    /\ redeeming' = NotRedeeming
    /\ IF RedemptionRefused(redeeming.wallet, redeeming.main, redeeming.requests)
       THEN UNCHANGED <<txs, txStatus, reported>>
       ELSE Broadcast(AssembleRedemptionTransaction(redeeming.wallet, redeeming.main,
                                                    redeeming.requests),
                      NewMainUtxo(Len(txs) + 1, redeeming.main, redeeming.requests))
    /\ UNCHANGED <<registeredMain, sweptDeposits, redemptionRequests, timedOutRequests,
                   requestsMade>>
-----------------------------------------------------------------------------
(* The Bridge: requests, timeouts and the judgement of proofs.              *)

RequestToBridge(w, script, amount) ==
    /\ requestsMade < MaxRequests
    /\ redemptionRequests[<<w, script>>] = NoRedemptionRequest
    /\ requestsMade' = requestsMade + 1
    /\ redemptionRequests' = [redemptionRequests EXCEPT ![<<w, script>>] =
                                  [amount |-> amount, number |-> requestsMade + 1]]
    /\ UNCHANGED <<txs, txStatus, reported, registeredMain, sweptDeposits, timedOutRequests,
                   redeeming>>

TimeoutAtBridge(w, script) ==
    /\ redemptionRequests[<<w, script>>] # NoRedemptionRequest
    /\ timedOutRequests' = [timedOutRequests EXCEPT ![<<w, script>>] =
                                redemptionRequests[<<w, script>>]]
    /\ redemptionRequests' = [redemptionRequests EXCEPT ![<<w, script>>] = NoRedemptionRequest]
    /\ UNCHANGED <<txs, txStatus, reported, registeredMain, sweptDeposits, requestsMade, redeeming>>

TxDeposits(tx) == {d \in FundedDeposit : \E i \in DOMAIN tx.inputs : tx.inputs[i] = DepositUtxo(d)}
TxFee(tx) == Total(ValuesOf(tx.inputs)) - Total(ValuesOf(tx.outputs))
InputsSet(tx) == {tx.inputs[i] : i \in DOMAIN tx.inputs}

\* Fees are shared evenly by the deposits, the last one bears the remainder.
SweepFeeShare(fee, count) == (fee \div count) + (fee % count)

\* One output to the wallet; all inputs are deposits of one vault not swept yet, and the
\* main UTXO of the wallet if there is one.
BridgeAcceptsSweep(tx) ==
    LET main == registeredMain[tx.wallet]
        deposits == TxDeposits(tx)
    IN /\ Len(tx.outputs) = 1 /\ tx.outputs[1].lock[2] = tx.wallet
       /\ InputsSet(tx) = {DepositUtxo(d) : d \in deposits}
                              \union (IF main = NoUtxo THEN {} ELSE {main})
       /\ deposits # {} /\ deposits \intersect sweptDeposits = {}
       /\ \A d, e \in deposits : d.vault = e.vault
       /\ SweepFeeShare(TxFee(tx), Cardinality(deposits)) <= SweepTxMaxFee

\* Outputs are looked at in their order: each pays a request, or is the only change.
RequestPaid(tx, i) ==
    LET key == <<tx.wallet, tx.outputs[i].lock[2]>>
    IN IF redemptionRequests[key] # NoRedemptionRequest THEN redemptionRequests[key]
       ELSE timedOutRequests[key]

IsChange(tx, i) == tx.outputs[i].lock[1] # "redeemer"

BridgeAcceptsRedemption(tx) ==
    /\ registeredMain[tx.wallet] # NoUtxo /\ tx.inputs = <<registeredMain[tx.wallet]>>
    /\ \A i \in DOMAIN tx.outputs : ~IsChange(tx, i) =>
           /\ RequestPaid(tx, i) # NoRedemptionRequest
           /\ tx.outputs[i].value \in
                  (RequestPaid(tx, i).amount - RequestFee - RequestTxMaxFee)
                  ..(RequestPaid(tx, i).amount - RequestFee)
           /\ \A j \in DOMAIN tx.outputs : j # i => tx.outputs[j].lock # tx.outputs[i].lock
    /\ TxFee(tx) <= TxMaxTotalFee

\* The main UTXO the Bridge finds in the proven transaction.
ProvenMainUtxo(n) ==
    LET mine == {i \in DOMAIN txs[n].outputs : txs[n].outputs[i].lock = WalletOutputLock(txs[n].wallet)}
    IN IF mine = {} THEN NoUtxo ELSE OutputAt(n, Min(mine))

\* The maintainer of sweeps assembles the proof of a confirmed transaction.
SubmitSweepProof(n) ==
    /\ txStatus[n] = "confirmed" /\ txs[n].kind = "sweep"
    /\ BridgeAcceptsSweep(txs[n])
    /\ sweptDeposits' = sweptDeposits \union TxDeposits(txs[n])
    /\ registeredMain' = [registeredMain EXCEPT ![txs[n].wallet] = ProvenMainUtxo(n)]
    /\ txStatus' = [txStatus EXCEPT ![n] = "proved"]
    /\ UNCHANGED <<txs, reported, redemptionRequests, timedOutRequests, requestsMade, redeeming>>

SubmitRedemptionTxProof(n) ==
    /\ txStatus[n] = "confirmed" /\ txs[n].kind = "redemption"
    /\ BridgeAcceptsRedemption(txs[n])
    /\ LET paid == {<<txs[n].wallet, txs[n].outputs[i].lock[2]>> :
                       i \in {j \in DOMAIN txs[n].outputs : ~IsChange(txs[n], j)}}
           Cleared(requests) == [k \in DOMAIN requests |->
                                    IF k \in paid THEN NoRedemptionRequest ELSE requests[k]]
       IN /\ redemptionRequests' = Cleared(redemptionRequests)
          /\ timedOutRequests' = [k \in DOMAIN timedOutRequests |->
                 IF k \in paid /\ redemptionRequests[k] = NoRedemptionRequest
                 THEN NoRedemptionRequest ELSE timedOutRequests[k]]
    /\ registeredMain' = [registeredMain EXCEPT ![txs[n].wallet] = ProvenMainUtxo(n)]
    /\ txStatus' = [txStatus EXCEPT ![n] = "proved"]
    /\ UNCHANGED <<txs, reported, sweptDeposits, requestsMade, redeeming>>

\* The UTXOs a maintainer may hold for the main one: the registered one or a reported one.
KnownMain(w) ==
    {NoUtxo, registeredMain[w]} \union {reported[n] : n \in {m \in DOMAIN txs : txs[m].wallet = w}}

DepositLists == {<<>>} \union {<<d>> : d \in FundedDeposit}
                \union {<<d, e>> : d, e \in FundedDeposit}
ScriptLists == {<<s>> : s \in RedeemerScript} \union {<<s, t>> : s, t \in RedeemerScript}

WalletTxNext ==
    \/ \E key \in SigningWallet, deposits \in DepositLists, fee \in SweepFee :
           \E main \in KnownMain(key) : SubmitSweepTransaction(key, main, deposits, fee)
    \/ \E key \in SigningWallet, scripts \in ScriptLists :
           \E main \in KnownMain(key) \ {NoUtxo} : SubmitRedemptionTransaction(key, main, scripts)
    \/ ReadRequest
    \/ AssembleAndBroadcast
    \/ \E w \in SigningWallet, s \in RedeemerScript :
           \/ \E amount \in RequestedAmount : RequestToBridge(w, s, amount)
           \/ TimeoutAtBridge(w, s)
    \/ \E n \in DOMAIN txs : ConfirmTx(n) \/ SubmitSweepProof(n) \/ SubmitRedemptionTxProof(n)

WalletTxInit ==
    /\ txs = <<>> /\ txStatus = <<>> /\ reported = <<>>
    /\ registeredMain \in [SigningWallet -> {NoUtxo}] \union
                          {[w \in SigningWallet |-> FirstMain(w)]}
    /\ sweptDeposits = {}
    /\ redemptionRequests = [k \in SigningWallet \X RedeemerScript |-> NoRedemptionRequest]
    /\ timedOutRequests = [k \in SigningWallet \X RedeemerScript |-> NoRedemptionRequest]
    /\ requestsMade = 0 /\ redeeming = NotRedeeming

WalletTxSpec == WalletTxInit /\ [][WalletTxNext]_walletTxVars
-----------------------------------------------------------------------------
(* Properties.                                                              *)

\* What the maintainer gave the SDK is still what the Bridge knows: the main UTXO, deposits
\* not swept and of one vault, the very requests that were read, each of them once, and
\* fees within the Bridge's limits.
InputsCurrent(tx) ==
    IF tx.kind = "sweep"
    THEN /\ (registeredMain[tx.wallet] = NoUtxo \/ registeredMain[tx.wallet] \in InputsSet(tx))
         /\ \A u \in InputsSet(tx) : u = registeredMain[tx.wallet] \/ u.lock[1] \in {"P2SH", "P2WSH"}
         /\ TxDeposits(tx) \intersect sweptDeposits = {}
         /\ \A d, e \in TxDeposits(tx) : d.vault = e.vault
         /\ \A fee \in SweepFee : SweepFeeShare(fee, Cardinality(TxDeposits(tx))) <= SweepTxMaxFee
    ELSE /\ registeredMain[tx.wallet] \in InputsSet(tx)
         /\ \A i \in DOMAIN tx.requests :
                LET key == <<tx.wallet, tx.requests[i].script>>
                IN \/ redemptionRequests[key] = tx.requests[i].request
                   \/ /\ redemptionRequests[key] = NoRedemptionRequest
                      /\ timedOutRequests[key] = tx.requests[i].request
         /\ \A i, j \in DOMAIN tx.requests :
                i # j => tx.requests[i].script # tx.requests[j].script
         /\ Len(tx.requests) * RequestTxMaxFee <= TxMaxTotalFee

\* The transactions the SDK assembles are ones the Bridge accepts the proof of, as long as
\* nothing they were assembled from has changed in the Bridge: outputs, fees, inputs and
\* the order of both agree with the contract, and a request that timed out after it was
\* read does not make the transaction unprovable.
AssembledTxProvable ==
    \A n \in DOMAIN txs :
        txStatus[n] = "confirmed" /\ InputsCurrent(txs[n]) =>
            IF txs[n].kind = "sweep" THEN BridgeAcceptsSweep(txs[n])
            ELSE BridgeAcceptsRedemption(txs[n])

\* The new main UTXO reported for a transaction, from which the next one may be assembled
\* before the first is proved, is the one the Bridge registers once it is.
ReportedMainUtxoRegistered ==
    [][\A n \in DOMAIN txs : txStatus[n] = "confirmed" /\ txStatus'[n] = "proved" =>
           registeredMain'[txs[n].wallet] = reported[n]]_walletTxVars
=============================================================================
