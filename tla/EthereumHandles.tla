---------------------------- MODULE EthereumHandles ----------------------------
(***************************************************************************)
(* The handles through which the SDK reads and writes the contracts on     *)
(* Ethereum (lib/ethereum): each call turns its arguments into what the    *)
(* contract takes, is repeated when it fails, and turns the answer into    *)
(* the SDK's form.  Blocks are mined, and others use the same contracts,   *)
(* between the attempts.                                                   *)
(***************************************************************************)
EXTENDS Integers, Sequences, FiniteSets, Orderings

CONSTANTS
    DepositTx,            \* transactions that fund deposits
    RedeemScript,         \* scripts of redeemers
    WalletKey,            \* public keys of the wallets
    VaultChoice,          \* "none" or a vault, for a deposit
    ExtraData,            \* "none" or 32 bytes, for a deposit
    HandleRetries,        \* 3 in the code
    BlockInterval,        \* of a partial pull, 10000 in the code
    MaxBlock,             \* bound on the blocks
    MaxHandleFaults,      \* bound on the failed or unanswered messages
    MaxForeign            \* bound on what others do with the contracts

ASSUME IntervalAssumption == BlockInterval \in Nat

VARIABLES
    contracts,      \* the Bridge, the vault and the wallet registry, as the handles use them
    events,         \* the log: [name, block, args]
    block,          \* the height
    mempool,        \* transactions sent by the handles and not mined yet
    handle,         \* the call in progress
    handleFaults, foreign,
    refused         \* the first final refusal that the call met

handleWorldVars == <<contracts, events, block, mempool>>
handleVars == <<handleWorldVars, handle, handleFaults, foreign, refused>>

(* Hashes have two byte orders: explorers and the SDK use one, the Bitcoin  *)
(* protocol and the contracts the other.                                    *)
Rpc(tx) == [tx |-> tx, order |-> "rpc"]
Reversed(hash) == [hash EXCEPT !.order = IF @ = "rpc" THEN "internal" ELSE "rpc"]

BuildDepositKey(hash, index) == <<Reversed(hash), index>>

\* The script is prefixed with its length.
Prefixed(script) == <<"length", script>>
BuildRedemptionKey(pkh, script) == <<Prefixed(script), pkh>>

Hash160(key) == <<"hash160", key>>
ParamOfUtxo(utxo) == <<Reversed(utxo[1]), utxo[2], utxo[3]>>
BuildUtxoHash(utxo) == ParamOfUtxo(utxo)

\* The zero address stands for no vault.
VaultParam(vault) == IF vault = "none" THEN "0x0" ELSE vault
ParseVault(vault) == IF vault = "0x0" THEN "none" ELSE vault
-----------------------------------------------------------------------------
(* The contracts.                                                           *)

Key(tx) == <<[tx |-> tx, order |-> "internal"], 0>>
DepositKeys == {<<[tx |-> t, order |-> o], 0>> : t \in DepositTx, o \in {"rpc", "internal"}}
NoDeposit == [revealed |-> FALSE, vault |-> "0x0", extra |-> "none", swept |-> FALSE]

ContractsInit ==
    [deposits |-> [k \in DepositKeys |-> NoDeposit],
     minting |-> [k \in DepositKeys |-> "none"],         \* none, requested, finalized
     pendingRedemptions |-> {},                          \* keys
     mainUtxo |-> [w \in WalletKey |-> <<>>],
     active |-> "none",                                  \* the active wallet
     registry |-> {}]                                    \* wallets with a public key

\* The message of the revert, or "ok".
Verdict(tx) ==
    CASE tx.op = "revealDeposit" ->
             IF contracts.deposits[tx.key].revealed THEN "Deposit already revealed" ELSE "ok"
      [] tx.op = "requestOptimisticMint" ->
             CASE contracts.minting[tx.key] # "none" -> "already requested"
               [] ~contracts.deposits[tx.key].revealed -> "has not been revealed"
               [] contracts.deposits[tx.key].swept -> "already swept"
               [] OTHER -> "ok"
      [] tx.op = "finalizeOptimisticMint" ->
             CASE contracts.minting[tx.key] = "none" -> "not requested"
               [] contracts.minting[tx.key] = "finalized" -> "already finalized"
               [] contracts.deposits[tx.key].swept -> "already swept"
               [] OTHER -> "ok"
      [] tx.op = "cancelOptimisticMint" ->
             CASE contracts.minting[tx.key] = "none" -> "not requested"
               [] contracts.minting[tx.key] = "finalized" -> "already finalized"
               [] OTHER -> "ok"
      [] tx.op = "requestRedemption" ->
             IF <<tx.script, tx.wallet>> \in contracts.pendingRedemptions
                 \/ contracts.mainUtxo[tx.wallet[2]] # tx.utxo
             THEN "not accepted" ELSE "ok"
      [] tx.op = "submitDepositSweepProof" ->
             IF contracts.deposits[tx.key].revealed /\ ~contracts.deposits[tx.key].swept
             THEN "ok" ELSE "not accepted"
      [] tx.op = "submitRedemptionProof" ->
             IF contracts.mainUtxo[tx.wallet[2]] = tx.utxo /\ contracts.pendingRedemptions # {}
             THEN "ok" ELSE "not accepted"

Effect(tx) ==
    CASE tx.op = "revealDeposit" ->
             [contracts EXCEPT !.deposits[tx.key] =
                  [revealed |-> TRUE, vault |-> tx.vault, extra |-> tx.extra, swept |-> FALSE]]
      [] tx.op = "requestOptimisticMint" -> [contracts EXCEPT !.minting[tx.key] = "requested"]
      [] tx.op = "finalizeOptimisticMint" -> [contracts EXCEPT !.minting[tx.key] = "finalized"]
      [] tx.op = "cancelOptimisticMint" -> [contracts EXCEPT !.minting[tx.key] = "none"]
      [] tx.op = "requestRedemption" ->
             [contracts EXCEPT !.pendingRedemptions = @ \union {<<tx.script, tx.wallet>>}]
      [] tx.op = "submitDepositSweepProof" ->
             [contracts EXCEPT !.deposits[tx.key].swept = TRUE,
                               !.mainUtxo = [w \in WalletKey |-> IF w = tx.owner
                                   THEN <<tx.key[1], 0, 1>> ELSE contracts.mainUtxo[w]]]
      [] tx.op = "submitRedemptionProof" ->
             [contracts EXCEPT !.pendingRedemptions = {}, !.mainUtxo[tx.wallet[2]] = <<>>]

\* The event of a transaction: its name, and its arguments as the contract has them.
Emitted(tx) ==
    [name |-> CASE tx.op = "revealDeposit" -> "DepositRevealed"
                [] tx.op = "requestOptimisticMint" -> "OptimisticMintingRequested"
                [] tx.op = "finalizeOptimisticMint" -> "OptimisticMintingFinalized"
                [] tx.op = "cancelOptimisticMint" -> "OptimisticMintingCancelled"
                [] tx.op = "requestRedemption" -> "RedemptionRequested"
                [] OTHER -> "other",
     block |-> block + 1, tx |-> tx]

Apply(tx) ==
    /\ contracts' = Effect(tx)
    /\ events' = Append(events, Emitted(tx))
    /\ block' = block + 1

\* A transaction of a handle is mined; it reverts if its time has passed.
MineHandleTx ==
    /\ block < MaxBlock /\ mempool # <<>>
    /\ mempool' = Tail(mempool)
    /\ IF Verdict(Head(mempool)) = "ok" THEN Apply(Head(mempool))
       ELSE block' = block + 1 /\ UNCHANGED <<contracts, events>>
    /\ UNCHANGED <<handle, handleFaults, foreign, refused>>
-----------------------------------------------------------------------------
(* What each method sends for what its caller asks.                         *)

PackRevealDepositParameters(ask) ==
    [op |-> "revealDeposit", key |-> Key(ask.tx),
     vault |-> VaultParam(ask.vault), extra |-> ask.extra]

RevealDepositTx(ask) == PackRevealDepositParameters(ask)

SubmitDepositSweepProofTx(ask) ==
    [op |-> "submitDepositSweepProof", key |-> Key(ask.tx), owner |-> ask.wallet]

OptimisticMintTx(ask) ==
    [op |-> ask.op, key |-> <<Reversed(Rpc(ask.tx)), 0>>]

RequestRedemptionTx(ask) ==
    [op |-> "requestRedemption", wallet |-> Hash160(ask.wallet),
     utxo |-> ParamOfUtxo(<<Rpc(ask.tx), 0, 1>>), script |-> Prefixed(ask.script)]

SubmitRedemptionProofTx(ask) ==
    [op |-> "submitRedemptionProof", wallet |-> Hash160(ask.wallet),
     utxo |-> ParamOfUtxo(<<Rpc(ask.tx), 0, 1>>)]

TxOf(ask) ==
    CASE ask.op = "revealDeposit" -> RevealDepositTx(ask)
      [] ask.op = "submitDepositSweepProof" -> SubmitDepositSweepProofTx(ask)
      [] ask.op = "requestRedemption" -> RequestRedemptionTx(ask)
      [] ask.op = "submitRedemptionProof" -> SubmitRedemptionProofTx(ask)
      [] OTHER -> OptimisticMintTx(ask)

\* Errors after which a write is not repeated: the work is done.
NonRetryable(op) ==
    CASE op = "revealDeposit" -> {"Deposit already revealed"}
      [] op = "requestOptimisticMint" -> {"already requested", "already swept"}
      [] op = "cancelOptimisticMint" -> {"already finalized"}
      [] op = "finalizeOptimisticMint" -> {"already finalized", "already swept"}
      [] OTHER -> {}

WriteAsks ==
    [op : {"revealDeposit"}, tx : DepositTx, vault : VaultChoice, extra : ExtraData]
    \union [op : {"requestOptimisticMint", "cancelOptimisticMint", "finalizeOptimisticMint"},
            tx : DepositTx]
    \union [op : {"submitDepositSweepProof", "submitRedemptionProof"}, tx : DepositTx,
            wallet : WalletKey]
    \union [op : {"requestRedemption"}, tx : DepositTx, wallet : WalletKey, script : RedeemScript]

ReadAsks ==
    [op : {"deposits", "optimisticMintingRequests"}, tx : DepositTx]
    \union [op : {"pendingRedemptions"}, wallet : WalletKey, script : RedeemScript]
    \union [op : {"wallets"}, wallet : WalletKey] \union [op : {"activeWalletPublicKey"}]

EventNames == {"DepositRevealed", "RedemptionRequested", "OptimisticMintingRequested",
               "OptimisticMintingFinalized", "OptimisticMintingCancelled"}
\* An end of -1 is the latest block, the default.
Latest == -1
EventAsks == [op : {"getEvents"}, name : EventNames, from : 0..1, to : {Latest, 2}]

\* Others act on the same contracts.
Foreign(tx) ==
    /\ foreign < MaxForeign /\ block < MaxBlock /\ Verdict(tx) = "ok"
    /\ Apply(tx)
    /\ foreign' = foreign + 1
    /\ UNCHANGED <<mempool, handle, handleFaults, refused>>

\* A wallet becomes the active one, a wallet ceases to be, or is closed in the registry.
WalletChange ==
    /\ foreign < MaxForeign /\ foreign' = foreign + 1
    /\ \E w \in WalletKey :
           \/ contracts' = [contracts EXCEPT !.active = w, !.registry = @ \union {w}]
           \/ contracts.active = w /\ contracts' = [contracts EXCEPT !.active = "none"]
           \/ /\ w \in contracts.registry /\ contracts.active # w
              /\ contracts' = [contracts EXCEPT !.registry = @ \ {w}]
    /\ UNCHANGED <<events, block, mempool, handle, handleFaults, refused>>
-----------------------------------------------------------------------------
(* Attempts.                                                                *)

NoHandleCall == [ask |-> [op |-> "none"], pc |-> "idle", attempt |-> 0, start |-> 0,
                 to |-> 0, batchStart |-> 0, batch |-> 0, pulled |-> <<>>, wallet |-> "none",
                 error |-> "none", answer |-> [kind |-> "none"]]

Fault == handleFaults < MaxHandleFaults /\ handleFaults' = handleFaults + 1

FirstStage(ask) ==
    CASE ask \in WriteAsks -> "send"
      [] ask.op = "getEvents" -> "query"
      [] ask.op = "activeWalletPublicKey" -> "active"
      [] ask.op = "wallets" -> "wallet"
      [] OTHER -> "read"

StartHandleCall(ask) ==
    /\ handle.pc \in {"idle", "done", "failed"}
    /\ ask.op = "getEvents" => ask.to <= block
    /\ handle' = [NoHandleCall EXCEPT !.ask = ask, !.pc = FirstStage(ask), !.start = block,
                      !.wallet = IF ask.op = "wallets" THEN ask.wallet ELSE "none"]
    /\ refused' = "none"
    /\ UNCHANGED <<handleWorldVars, handleFaults, foreign>>

Goto(pc) == handle' = [handle EXCEPT !.pc = pc, !.attempt = 0]
AnswerWith(answer) == handle' = [handle EXCEPT !.pc = "done", !.answer = answer]

RetryWhenNotMatched(error) == error \notin NonRetryable(handle.ask.op)

\* The revert's message, which the library wraps in the error of its gas estimation.
ResolveEthersError(reason) == reason

\* backoffRetrier: an attempt at the current stage has failed.
AttemptFailed(error) ==
    handle' = IF handle.attempt < HandleRetries
                 /\ (handle.ask \in WriteAsks => RetryWhenNotMatched(error))
              THEN [handle EXCEPT !.attempt = @ + 1, !.pulled = <<>>, !.pc =
                        IF @ \in {"latest", "batch"} THEN "query" ELSE @]
              ELSE [handle EXCEPT !.pc = "failed", !.error = error]

\* sendWithRetry: the node simulates the transaction, then takes it; its answer may be lost.
SendTx ==
    /\ handle.pc = "send"
    /\ LET tx == TxOf(handle.ask) verdict == Verdict(tx)
       IN \/ /\ verdict # "ok"
             /\ AttemptFailed(ResolveEthersError(verdict))
             /\ refused' = IF refused = "none" /\ verdict \in NonRetryable(handle.ask.op)
                           THEN verdict ELSE refused
             /\ UNCHANGED <<mempool, handleFaults>>
          \/ /\ verdict = "ok"
             /\ mempool' = Append(mempool, tx)
             /\ \/ AnswerWith([kind |-> "hash"]) /\ UNCHANGED handleFaults
                \/ AttemptFailed("network") /\ Fault
             /\ UNCHANGED refused
    /\ UNCHANGED <<contracts, events, block, foreign>>

\* A message that gets no answer and has no effect.
MessageLost ==
    /\ handle.pc \in {"send", "read", "active", "wallet", "references", "query", "latest", "batch"}
    /\ Fault
    /\ IF handle.pc = "query" THEN handle' = [handle EXCEPT !.pc =
               IF handle.ask.to = Latest THEN "latest" ELSE "batch",
               !.to = IF handle.ask.to = Latest THEN 0 ELSE handle.ask.to,
               !.batchStart = handle.ask.from]
       ELSE AttemptFailed("network")
    /\ UNCHANGED <<handleWorldVars, foreign, refused>>
-----------------------------------------------------------------------------
(* Reads.                                                                   *)

ParseDepositRequest(d) == [kind |-> "deposit", revealed |-> d.revealed,
                           vault |-> ParseVault(d.vault), swept |-> d.swept]

\* A key no deposit was stored under reads as an empty record.
Deposits(tx) == ParseDepositRequest(contracts.deposits[BuildDepositKey(Rpc(tx), 0)])

OptimisticMintingRequests(tx) ==
    [kind |-> "minting", status |-> contracts.minting[BuildDepositKey(Rpc(tx), 0)]]

PendingRedemptionsByWalletPKH(pkh, script) ==
    [kind |-> "redemption",
     exists |-> BuildRedemptionKey(pkh, script) \in contracts.pendingRedemptions]
PendingRedemptions(wallet, script) == PendingRedemptionsByWalletPKH(Hash160(wallet), script)

ReadContract ==
    /\ handle.pc = "read"
    /\ AnswerWith(CASE handle.ask.op = "deposits" -> Deposits(handle.ask.tx)
                    [] handle.ask.op = "optimisticMintingRequests" ->
                           OptimisticMintingRequests(handle.ask.tx)
                    [] handle.ask.op = "pendingRedemptions" ->
                           PendingRedemptions(handle.ask.wallet, handle.ask.script))
    /\ UNCHANGED <<handleWorldVars, handleFaults, foreign, refused>>

\* The active wallet is read by its hash, its record next, its public key last.
ActiveWalletPublicKey ==
    /\ handle.pc = "active"
    /\ IF contracts.active = "none" THEN AnswerWith([kind |-> "key", key |-> "undefined"])
       ELSE handle' = [handle EXCEPT !.pc = "wallet", !.attempt = 0, !.wallet = contracts.active]
    /\ UNCHANGED <<handleWorldVars, handleFaults, foreign, refused>>

Wallets ==
    /\ handle.pc = "wallet" /\ Goto("references")
    /\ UNCHANGED <<handleWorldVars, handleFaults, foreign, refused>>

WalletRegistryHandle ==
    /\ handle.pc = "references" /\ Goto("publicKey")
    /\ UNCHANGED <<handleWorldVars, handleFaults, foreign, refused>>

\* Whatever goes wrong here, the key is reported as undefined.
GetWalletCompressedPublicKey ==
    /\ handle.pc = "publicKey"
    /\ \/ /\ AnswerWith([kind |-> "key", key |-> IF handle.wallet \in contracts.registry
                                                THEN handle.wallet ELSE "undefined"])
          /\ UNCHANGED handleFaults
       \/ Fault /\ (IF handle.attempt < HandleRetries THEN AttemptFailed("network")
                    ELSE AnswerWith([kind |-> "key", key |-> "undefined"]))
    /\ UNCHANGED <<handleWorldVars, foreign, refused>>
-----------------------------------------------------------------------------
(* Events.                                                                  *)

Matching(name, from, to) ==
    {i \in DOMAIN events :
        events[i].name = name /\ from <= events[i].block /\ events[i].block <= to}

EventsIn(name, from, to) == Selected(events, Matching(name, from, to))

HashOfEvent(hash) == Reversed(hash)

\* What the SDK hands over: the hash in its own order, the script without its prefix.
DepositEvent(e) ==
    [name |-> e.name, block |-> e.block, hash |-> HashOfEvent(e.tx.key[1]), script |-> "none",
     wallet |-> <<"none">>, vault |-> ParseVault(e.tx.vault)]
RedemptionEvent(e) ==
    [name |-> e.name, block |-> e.block, hash |-> Rpc("none"), script |-> e.tx.script[2],
     wallet |-> e.tx.wallet, vault |-> "none"]
MintingEvent(e) ==
    [name |-> e.name, block |-> e.block, hash |-> HashOfEvent(e.tx.key[1]), script |-> "none",
     wallet |-> <<"none">>, vault |-> "none"]

ParseEvent(e) ==
    CASE e.name = "DepositRevealed" -> DepositEvent(e)
      [] e.name = "RedemptionRequested" -> RedemptionEvent(e)
      [] OTHER -> MintingEvent(e)

ParsedEvents(found) == [i \in DOMAIN found |-> ParseEvent(found[i])]

\* All blocks at once.
QueryAll ==
    /\ handle.pc = "query"
    /\ LET to == IF handle.ask.to = Latest THEN block ELSE handle.ask.to
       IN AnswerWith([kind |-> "events", to |-> to,
              events |-> ParsedEvents(EventsIn(handle.ask.name, handle.ask.from, to))])
    /\ UNCHANGED <<handleWorldVars, handleFaults, foreign, refused>>

LatestBlock ==
    /\ handle.pc = "latest"
    /\ handle' = [handle EXCEPT !.pc = "batch", !.to = block]
    /\ UNCHANGED <<handleWorldVars, handleFaults, foreign, refused>>

\* Mutant: the end of a batch is taken to be outside of it.
NextStartByInterval(end) == handle.batchStart + BlockInterval

NextBatchStart(end) == end + 1

BatchEnd(start) ==
    IF start + BlockInterval > handle.to THEN handle.to ELSE start + BlockInterval

PullBatch ==
    /\ handle.pc = "batch" /\ handle.batchStart <= handle.to
    /\ LET end == BatchEnd(handle.batchStart)
       IN handle' = [handle EXCEPT !.batchStart = NextBatchStart(end),
                         !.batch = end - handle.batchStart + 1,
                         !.pulled = @ \o EventsIn(handle.ask.name, handle.batchStart, end)]
    /\ UNCHANGED <<handleWorldVars, handleFaults, foreign, refused>>

BatchesDone ==
    /\ handle.pc = "batch" /\ handle.batchStart > handle.to
    /\ AnswerWith([kind |-> "events", to |-> handle.to, events |-> ParsedEvents(handle.pulled)])
    /\ UNCHANGED <<handleWorldVars, handleFaults, foreign, refused>>
-----------------------------------------------------------------------------
HandleStep ==
    \/ SendTx \/ MessageLost \/ ReadContract \/ ActiveWalletPublicKey \/ Wallets
    \/ WalletRegistryHandle \/ GetWalletCompressedPublicKey
    \/ QueryAll \/ LatestBlock \/ PullBatch \/ BatchesDone

EthereumNext ==
    \/ \E ask \in WriteAsks \union ReadAsks \union EventAsks : StartHandleCall(ask)
    \/ HandleStep
    \/ MineHandleTx \/ WalletChange
    \/ \E ask \in WriteAsks : Foreign(TxOf(ask))

EthereumInit ==
    /\ contracts = ContractsInit /\ events = <<>> /\ block = 0 /\ mempool = <<>>
    /\ handle = NoHandleCall /\ handleFaults = 0 /\ foreign = 0
    /\ refused = "none"

EthereumSpec == EthereumInit /\ [][EthereumNext]_handleVars
-----------------------------------------------------------------------------
(* Properties.                                                              *)

\* A search for events hands each event of the blocks it covers over once, in the order of
\* the chain, though it may fall back to pulls of a few blocks, fail in the middle, start
\* anew and see blocks mined meanwhile; it covers all blocks there were when it began.
EventsExactlyOnce ==
    handle.pc = "done" /\ handle.ask.op = "getEvents" =>
        LET to == handle.answer.to
        IN /\ to >= (IF handle.ask.to = Latest THEN handle.start ELSE handle.ask.to)
           /\ [i \in DOMAIN handle.answer.events |-> handle.answer.events[i].block]
              = [i \in DOMAIN EventsIn(handle.ask.name, handle.ask.from, to) |->
                    EventsIn(handle.ask.name, handle.ask.from, to)[i].block]

\* A write that finds its work already done, by others or by an attempt whose answer was
\* lost, says so: no later attempt replaces that answer by another error.
RefusalReported ==
    handle.pc \in {"done", "failed"} /\ refused # "none"
        => handle.pc = "failed" /\ handle.error = refused

=============================================================================
