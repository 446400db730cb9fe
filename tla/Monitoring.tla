----------------------------- MODULE Monitoring -----------------------------
(***************************************************************************)
(* The monitoring tool (monitoring/src): runs, triggered in a loop, each   *)
(* examine a window of blocks of the chain, turn what they find into       *)
(* system events, hand those to the receivers and persist what was handled *)
(* and how far the chain has been examined.                                *)
(***************************************************************************)
EXTENDS Integers, Sequences, FiniteSets, TLC

CONSTANTS
    ChainEvent,     \* what may be mined: records [kind, key, nonce, minter]
    Amount,         \* satoshis of each deposit and redemption key
    FundingHash,    \* of each deposit key: the number its designated minter follows from
    MinterLists,    \* the lists of minters the vault may have, sequences
    SupplyLevels,   \* total supplies of the token
    MaxBlock,       \* bound on the length of the chain
    MaxLag,         \* bound on how far behind the chain a node may answer
    MaxReorgs,      \* bound on the number of reorganizations
    MaxFaults,      \* bound on failed calls, lost answers and crashes
    MaxConfirmations,                \* bound on the confirmations of a funding transaction
    ReorgDepthBlocks,                \* 12 in the code
    RedemptionRequestStaleBlocks,    \* 2400 in the code
    MintingRequestTimeoutBlocks,     \* 600 in the code
    MintingFinalizationMargin,       \* 300 in the code
    OptimisticMintingDelay,          \* in seconds
    TotalSupplyBlockSpan,            \* 3600 in the code
    LargeDepositThresholdSat,
    LargeRedemptionThresholdSat

ASSUME WindowAssumption ==
    /\ {ReorgDepthBlocks, RedemptionRequestStaleBlocks, MintingRequestTimeoutBlocks}
           \subseteq Nat
    /\ RedemptionRequestStaleBlocks >= ReorgDepthBlocks
    /\ MintingRequestTimeoutBlocks >= ReorgDepthBlocks
    /\ OptimisticMintingDelay \in Nat /\ MintingFinalizationMargin \in Nat
    /\ MintingFinalizationMargin >= ReorgDepthBlocks

\* The Bridge takes one redemption request per key at a time: of two requests under a key
\* the earlier one has been settled.
ASSUME RequestsAssumption ==
    \A e1, e2 \in ChainEvent :
        /\ e1.kind = "RedemptionRequested" /\ e2.kind = "RedemptionRequested"
        /\ e1.key = e2.key /\ e1 # e2
        => \/ e1.nonce < e2.nonce /\ \E s \in ChainEvent :
                 s.kind = "RedemptionSettled" /\ s.key = e1.key /\ s.nonce = e1.nonce
           \/ e2.nonce < e1.nonce /\ \E s \in ChainEvent :
                 s.kind = "RedemptionSettled" /\ s.key = e2.key /\ s.nonce = e2.nonce

VARIABLES
    \* the chains
    tip,            \* number of the latest block
    minedAt,        \* block of each chain event, 0 if it is not mined
    everMined,      \* the chain events that were mined once, be it on a branch given up
    reorgs,
    minters,        \* minters of the vault
    confirmations,  \* of the funding transactions, on Bitcoin
    supply,         \* supply[b + 1] is the total supply at block b
    \* what is persisted
    checkpointBlock,
    handledSystemEvents,             \* of each receiver
    lastHighTotalSupplyChangeBlock,
    \* the run in progress
    step, fromBlock, toBlock, errors, found, systemEvents, acks,
    \* what the receivers got, and the environment's misdeeds
    delivered,      \* of each receiver
    unstored,       \* deliveries whose acknowledgement was lost
    origin,         \* first block of the first run that succeeded, MaxBlock before it
    faults

chainVars == <<tip, minedAt, everMined, reorgs, minters, confirmations, supply>>
persistedVars == <<checkpointBlock, handledSystemEvents, lastHighTotalSupplyChangeBlock>>
runVars == <<step, fromBlock, toBlock, errors, found, systemEvents, acks>>
historyVars == <<delivered, unstored, origin, faults>>
vars == <<chainVars, persistedVars, runVars, historyVars>>
-----------------------------------------------------------------------------
(* System events.  The data of an event is what distinguishes it: the key   *)
(* it is about and what the monitor found out.                              *)

SystemEvent(title, type, ce, detail) ==
    [title |-> title, type |-> type, data |-> <<ce.kind, ce.key, ce.nonce, detail>>,
     block |-> ce.block]

DepositRevealed(ce) == SystemEvent("Deposit revealed", "informational", ce, "")
LargeDepositRevealed(ce) == SystemEvent("Large deposit revealed", "warning", ce, "")
RedemptionRequested(ce) == SystemEvent("Redemption requested", "informational", ce, "")
LargeRedemptionRequested(ce) ==
    SystemEvent("Large redemption requested", "warning", ce, "")
StaleRedemption(ce) == SystemEvent("Stale redemption", "warning", ce, "")
WalletRegistered(ce) == SystemEvent("Wallet registered", "informational", ce, "")
DkgResultSubmitted(ce) == SystemEvent("DKG result submitted", "informational", ce, "")
DkgResultApproved(ce) == SystemEvent("DKG result approved", "informational", ce, "")
DkgResultChallenged(ce) == SystemEvent("DKG result challenged", "critical", ce, "")
OptimisticMintingCancelled(ce) ==
    SystemEvent("Optimistic minting cancelled", "warning", ce, "")
OptimisticMintingRequestedTooEarly(ce, actualConfirmations) ==
    SystemEvent("Optimistic minting requested too early", "critical", ce,
                ToString(actualConfirmations))
OptimisticMintingRequestedForUndeterminedBtcTx(ce, btcClientResponse) ==
    SystemEvent("Optimistic minting requested for undetermined Bitcoin transaction",
                "critical", ce, btcClientResponse)
OptimisticMintingNotRequestedByDesignatedMinter(ce, designatedMinter) ==
    SystemEvent("Optimistic minting not requested by designated minter", "warning", ce,
                designatedMinter)
OptimisticMintingNotFinalizedByDesignatedMinter(ce, designatedMinter) ==
    SystemEvent("Optimistic minting not finalized by designated minter", "warning", ce,
                designatedMinter)
OptimisticMintingNotRequestedByAnyMinter(ce) ==
    SystemEvent("Optimistic minting not requested by any minter", "warning", ce, "")
OptimisticMintingNotFinalizedByAnyMinter(ce) ==
    SystemEvent("Optimistic minting not finalized by any minter", "warning", ce, "")
HighTotalSupplyChange(change, threshold, referenceBlock, currentBlock) ==
    [title |-> "High TBTC token total supply change", type |-> "critical",
     data |-> <<ToString(change), ToString(threshold), referenceBlock, "">>,
     block |-> currentBlock]

Receiver == {"Discord", "Sentry"}

IsSupportedSystemEvent(r, se) ==
    CASE r = "Discord" -> se.type = "informational"
      [] r = "Sentry" -> se.type \in {"warning", "critical"}
-----------------------------------------------------------------------------
(* The chains.                                                              *)

Kind(kind) == {e \in ChainEvent : e.kind = kind}
Mined(e) == minedAt[e] # 0

\* What must have been mined before e, in any order of blocks the chain may take.
Causes(e) ==
    CASE e.kind = "OptimisticMintingRequested" ->
            {c \in Kind("DepositRevealed") : c.key = e.key}
      [] e.kind \in {"OptimisticMintingFinalized", "OptimisticMintingCancelled"} ->
            {c \in Kind("OptimisticMintingRequested") : c.key = e.key}
      [] e.kind \in {"DkgResultApproved", "DkgResultChallenged"} ->
            {c \in Kind("DkgResultSubmitted") : c.key = e.key}
      [] e.kind = "NewWalletRegistered" ->
            {c \in Kind("DkgResultApproved") : c.key = e.key}
      [] e.kind = "RedemptionSettled" ->
            {c \in Kind("RedemptionRequested") : c.key = e.key /\ c.nonce = e.nonce}
      [] e.kind = "RedemptionRequested" ->
            {c \in Kind("RedemptionSettled") : c.key = e.key /\ c.nonce < e.nonce}
      [] OTHER -> {}

Causal(at) ==
    \A e \in ChainEvent : at[e] # 0 => \A c \in Causes(e) : at[c] # 0 /\ at[c] <= at[e]

\* The chain events of the blocks from..to, with the block they are in.
Occurrences(kind, from, to) ==
    {[kind |-> kind, key |-> e.key, nonce |-> e.nonce, minter |-> e.minter,
      block |-> minedAt[e]] : e \in {x \in Kind(kind) : Mined(x) /\ minedAt[x] \in from..to}}

\* The state of the contracts the monitors read.
MintingRequestExists(key) ==
    /\ \E e \in Kind("OptimisticMintingRequested") : e.key = key /\ Mined(e)
    /\ ~\E e \in Kind("OptimisticMintingCancelled") : e.key = key /\ Mined(e)
MintingRequestFinalized(key) ==
    \E e \in Kind("OptimisticMintingFinalized") : e.key = key /\ Mined(e)

\* Block in which the redemption now pending under the key was requested, 0 if none is:
\* its timestamp stands for requestedAt.
PendingRedemptionRequestedAt(key) ==
    LET pending == {e \in Kind("RedemptionRequested") :
                        /\ e.key = key /\ Mined(e)
                        /\ ~\E s \in Kind("RedemptionSettled") :
                                s.key = key /\ s.nonce = e.nonce /\ Mined(s)}
    IN IF pending = {} THEN 0 ELSE minedAt[CHOOSE e \in pending : TRUE]

Mine(mined) ==
    /\ tip < MaxBlock
    /\ tip' = tip + 1
    /\ mined \subseteq {e \in ChainEvent : ~Mined(e)}
    /\ minedAt' = [e \in ChainEvent |-> IF e \in mined THEN tip + 1 ELSE minedAt[e]]
    /\ Causal(minedAt')
    /\ everMined' = everMined \union mined
    /\ \E s \in SupplyLevels : supply' = Append(supply, s)
    /\ UNCHANGED <<reorgs, minters, confirmations>>

\* The last d blocks are replaced: their events, and others, are mined in the new ones, or
\* not.
Reorg(d) ==
    /\ reorgs < MaxReorgs
    /\ reorgs' = reorgs + 1
    /\ LET loose == {e \in ChainEvent : ~Mined(e) \/ minedAt[e] > tip - d} IN
       \E e \in loose, b \in {0} \union ((tip - d + 1)..tip) :
           /\ minedAt' = [x \in ChainEvent |-> IF x = e THEN b ELSE minedAt[x]]
           /\ everMined' = IF b = 0 THEN everMined ELSE everMined \union {e}
    /\ minedAt' # minedAt
    /\ Causal(minedAt')
    /\ UNCHANGED <<tip, minters, confirmations, supply>>

UpdateMinters ==
    /\ minters' \in MinterLists \ {minters}
    /\ tip < MaxBlock
    /\ UNCHANGED <<tip, minedAt, everMined, reorgs, confirmations, supply>>

BitcoinBlock ==
    /\ confirmations < MaxConfirmations
    /\ confirmations' = confirmations + 1
    /\ UNCHANGED <<tip, minedAt, everMined, reorgs, minters, supply>>

ChainNext ==
    /\ \/ \E e \in ChainEvent : Mine({e})
       \/ Mine({})
       \/ \E d \in 1..ReorgDepthBlocks : d < tip /\ Reorg(d)
       \/ UpdateMinters
       \/ BitcoinBlock
    /\ UNCHANGED <<persistedVars, runVars, historyVars>>
-----------------------------------------------------------------------------
(* The monitors.  A check first fetches the chain events of its windows and *)
(* reads the state of the contracts afterwards.                             *)

RewindBlock(block, shift) == IF block - shift > 0 THEN block - shift ELSE 0

MintingFinalizationTimeoutBlocks(delay) == delay \div 12 + MintingFinalizationMargin

\* Mutant: only the end of the window is moved back.
RewindEndOnly(kind, from, to, shift) == Occurrences(kind, from, RewindBlock(to, shift))

\* Events whose time for something has run out between from and to.
RewoundOccurrences(kind, from, to, shift) ==
    Occurrences(kind, RewindBlock(from, shift), RewindBlock(to, shift))

\* The windows of a run over from..to.
Fetched(from, to) ==
    LET Rewound(kind, shift) == RewoundOccurrences(kind, from, to, shift)
        unfinalizedShift == MintingFinalizationTimeoutBlocks(OptimisticMintingDelay)
    IN [revealed      |-> Occurrences("DepositRevealed", from, to),
        requested     |-> Occurrences("OptimisticMintingRequested", from, to),
        finalized     |-> Occurrences("OptimisticMintingFinalized", from, to),
        cancelled     |-> Occurrences("OptimisticMintingCancelled", from, to),
        notRequested  |-> Rewound("DepositRevealed", MintingRequestTimeoutBlocks),
        notFinalized  |-> Rewound("OptimisticMintingRequested", unfinalizedShift),
        redemptions   |-> Occurrences("RedemptionRequested", from, to),
        stale         |-> Rewound("RedemptionRequested", RedemptionRequestStaleBlocks),
        wallets       |-> Occurrences("NewWalletRegistered", from, to),
        dkgSubmitted  |-> Occurrences("DkgResultSubmitted", from, to),
        dkgApproved   |-> Occurrences("DkgResultApproved", from, to),
        dkgChallenged |-> Occurrences("DkgResultChallenged", from, to)]

DepositCheck(f) ==
    {DepositRevealed(ce) : ce \in f.revealed}
    \union {LargeDepositRevealed(ce) :
                ce \in {x \in f.revealed : Amount[x.key] > LargeDepositThresholdSat}}

RequestedRedemptions(f) ==
    {RedemptionRequested(ce) : ce \in f.redemptions}
    \union {LargeRedemptionRequested(ce) :
                ce \in {x \in f.redemptions : Amount[x.key] > LargeRedemptionThresholdSat}}

StaleRedemptions(f) ==
    {StaleRedemption(ce) :
        ce \in {x \in f.stale : PendingRedemptionRequestedAt(x.key) = x.block}}

RedemptionCheck(f) == RequestedRedemptions(f) \union StaleRedemptions(f)

WalletCheck(f) ==
    {WalletRegistered(ce) : ce \in f.wallets}
    \union {DkgResultSubmitted(ce) : ce \in f.dkgSubmitted}
    \union {DkgResultApproved(ce) : ce \in f.dkgApproved}
    \union {DkgResultChallenged(ce) : ce \in f.dkgChallenged}

RequiredConfirmations(amountSat) ==
    CASE amountSat < 10000000 -> 1
      [] amountSat >= 10000000 /\ amountSat < 100000000 -> 3
      [] amountSat >= 100000000 -> 6

\* The reads of a check of the minting monitor that may be rejected one by one, without
\* failing the check.
MintingRead(f) ==
    ({"confirmations"} \X f.requested) \union ({"matching request"} \X f.finalized)
    \union ({"request"} \X f.notRequested) \union ({"finalization"} \X f.notFinalized)

MintingRequestsValidity(f, unanswered) ==
    LET undetermined == {x \in f.requested : <<"confirmations", x>> \in unanswered}
    IN {OptimisticMintingRequestedForUndeterminedBtcTx(ce, "error") : ce \in undetermined}
       \union {OptimisticMintingRequestedTooEarly(ce, confirmations) :
                  ce \in {x \in f.requested \ undetermined :
                              confirmations < RequiredConfirmations(Amount[x.key])}}

DesignatedMinter(key) == minters[(FundingHash[key] % Len(minters)) + 1]

DesignatedMintersRequests(f) ==
    {OptimisticMintingNotRequestedByDesignatedMinter(ce, DesignatedMinter(ce.key)) :
        ce \in {x \in f.requested : x.minter # DesignatedMinter(x.key)}}

\* A finalization is matched with the one request of its deposit; if there is not exactly
\* one, or none can be read, the minter designated for it is unknown.
MinterOfFinalization(ce, unanswered) ==
    LET requests == {e \in Kind("OptimisticMintingRequested") : e.key = ce.key /\ Mined(e)}
    IN IF Cardinality(requests) = 1 /\ <<"matching request", ce>> \notin unanswered
       THEN DesignatedMinter(ce.key) ELSE "unknown"

DesignatedMintersFinalizations(f, unanswered) ==
    {OptimisticMintingNotFinalizedByDesignatedMinter(ce, MinterOfFinalization(ce, unanswered)) :
        ce \in {x \in f.finalized : x.minter # MinterOfFinalization(x, unanswered)}}

\* A request that cannot be read is taken for one that does not exist.
MintingNotRequested(f, unanswered) ==
    {OptimisticMintingNotRequestedByAnyMinter(ce) :
        ce \in {x \in f.notRequested :
                    <<"request", x>> \in unanswered \/ ~MintingRequestExists(x.key)}}

MintingNotFinalized(f, unanswered) ==
    {OptimisticMintingNotFinalizedByAnyMinter(ce) :
        ce \in {x \in f.notFinalized :
                    <<"finalization", x>> \in unanswered \/ ~MintingRequestFinalized(x.key)}}

MintingCheck(f, unanswered) ==
    {OptimisticMintingCancelled(ce) : ce \in f.cancelled}
    \union MintingRequestsValidity(f, unanswered)
    \union DesignatedMintersRequests(f) \union DesignatedMintersFinalizations(f, unanswered)
    \union MintingNotRequested(f, unanswered) \union MintingNotFinalized(f, unanswered)

\* The reference is the block a span ago or the last block with an alert, whichever is
\* later; in the second case half the change suffices.
SupplyReference ==
    LET spanAgo == RewindBlock(toBlock, TotalSupplyBlockSpan) IN
    IF lastHighTotalSupplyChangeBlock > spanAgo
    THEN [block |-> lastHighTotalSupplyChangeBlock, threshold |-> 5]
    ELSE [block |-> spanAgo, threshold |-> 10]

SupplyCheck ==
    LET reference == SupplyReference
        referenceSupply == supply[reference.block + 1]
        difference == supply[toBlock + 1] - referenceSupply
        change == ((IF difference < 0 THEN -difference ELSE difference) * 100)
                    \div referenceSupply
    IN IF change >= reference.threshold
       THEN {HighTotalSupplyChange(change, reference.threshold, reference.block, toBlock)}
       ELSE {}

Monitor == {"deposit", "minting", "supply", "wallet", "redemption"}

CheckOf(m, unanswered) ==
    CASE m = "deposit" -> DepositCheck(found)
      [] m = "minting" -> MintingCheck(found, unanswered)
      [] m = "supply" -> SupplyCheck
      [] m = "wallet" -> WalletCheck(found)
      [] m = "redemption" -> RedemptionCheck(found)
-----------------------------------------------------------------------------
(* A run of the manager.                                                    *)

NothingFound == Fetched(1, 0)
NoAcks == [r \in Receiver |-> {}]

Idle ==
    /\ step' = "idle" /\ fromBlock' = 0 /\ toBlock' = 0 /\ errors' = FALSE
    /\ found' = [w \in DOMAIN found |-> {}] /\ systemEvents' = {} /\ acks' = NoAcks

Faulty == faults < MaxFaults /\ faults' = faults + 1

\* Mutant: no allowance for reorganizations.
WindowStartAfterCheckpoint(checkpoint, latest) ==
    IF checkpoint > 0 /\ checkpoint < latest THEN checkpoint + 1 ELSE latest

WindowStart(checkpoint, latest) ==
    LET valid == checkpoint > 0 /\ checkpoint < latest
    IN RewindBlock(IF valid THEN checkpoint ELSE latest, ReorgDepthBlocks)

\* The node asked for the latest block may lag behind the chain.
Trigger(latestBlock) ==
    /\ step = "idle"
    /\ step' = "fetching"
    /\ fromBlock' = WindowStart(checkpointBlock, latestBlock)
    /\ toBlock' = latestBlock
    /\ UNCHANGED <<errors, found, systemEvents, acks, persistedVars, historyVars>>

Fetch ==
    /\ step = "fetching"
    /\ step' = "checking"
    /\ found' = Fetched(fromBlock, toBlock)
    /\ UNCHANGED <<fromBlock, toBlock, errors, systemEvents, acks, persistedVars, historyVars>>

\* The supply monitor records its alert before the manager sees it.
RecordSupplyAlert(alerts) ==
    lastHighTotalSupplyChangeBlock' =
        IF alerts = {} THEN lastHighTotalSupplyChangeBlock ELSE toBlock

Check(rejected, unanswered) ==
    /\ step = "checking"
    /\ step' = "dispatching"
    /\ systemEvents' = UNION {CheckOf(m, unanswered) : m \in Monitor \ rejected}
    /\ errors' = (rejected # {})
    /\ RecordSupplyAlert(IF "supply" \in rejected THEN {} ELSE SupplyCheck)
    /\ IF rejected = {} /\ unanswered = {} THEN UNCHANGED faults ELSE Faulty
    /\ UNCHANGED <<fromBlock, toBlock, found, acks, checkpointBlock, handledSystemEvents,
                   delivered, unstored, origin>>

\* The system events a receiver is sent: those it supports and, as its deduplicator
\* sees to, has not handled yet.
ToReceive(r) ==
    {se \in systemEvents : IsSupportedSystemEvent(r, se) /\ se \notin handledSystemEvents[r]}

\* A post to Discord may fail, before or after Discord got it; Sentry's client queues what
\* it is given and does not report failures.
Dispatch(failed, got) ==
    /\ step = "dispatching"
    /\ step' = "storing"
    /\ failed \subseteq ToReceive("Discord") /\ got \subseteq failed
    /\ acks' = [r \in Receiver |-> IF r = "Discord" THEN ToReceive(r) \ failed ELSE ToReceive(r)]
    /\ delivered' = [r \in Receiver |-> delivered[r] \union
                        (IF r = "Discord" THEN ToReceive(r) \ (failed \ got) ELSE ToReceive(r))]
    /\ unstored' = unstored \union ({"Discord"} \X got)
    /\ errors' = (errors \/ failed # {})
    /\ IF failed = {} THEN UNCHANGED faults ELSE Faulty
    /\ UNCHANGED <<fromBlock, toBlock, found, systemEvents, persistedVars, origin>>

AckedDeliveries == UNION {{r} \X acks[r] : r \in Receiver}

\* Mutant: what was handled is stored by clean runs only.
StoreUnlessErrors ==
    handledSystemEvents' = IF errors THEN handledSystemEvents
                           ELSE [r \in Receiver |-> handledSystemEvents[r] \union acks[r]]

StoreHandledSystemEvents ==
    handledSystemEvents' = [r \in Receiver |-> handledSystemEvents[r] \union acks[r]]

Store ==
    /\ step = "storing"
    /\ step' = "checkpointing"
    /\ \/ StoreHandledSystemEvents /\ UNCHANGED <<errors, unstored, faults>>
       \/ /\ AckedDeliveries # {}
          /\ Faulty /\ errors' = TRUE
          /\ unstored' = unstored \union AckedDeliveries
          /\ UNCHANGED handledSystemEvents
    /\ acks' = NoAcks
    /\ UNCHANGED <<fromBlock, toBlock, found, systemEvents, checkpointBlock,
                   lastHighTotalSupplyChangeBlock, delivered, origin>>

\* Mutant: failed runs move the checkpoint too.
AdvanceAlways == TRUE

MayAdvance == ~errors

UpdateCheckpointBlock ==
    /\ step = "checkpointing"
    /\ IF MayAdvance
       THEN \/ /\ checkpointBlock' = toBlock
               /\ origin' = IF origin = MaxBlock THEN fromBlock ELSE origin
               /\ UNCHANGED faults
            \/ Faulty /\ UNCHANGED <<checkpointBlock, origin>>
       ELSE UNCHANGED <<checkpointBlock, origin, faults>>
    /\ Idle
    /\ UNCHANGED <<handledSystemEvents, lastHighTotalSupplyChangeBlock, delivered, unstored>>

\* The process dies, or an exception trigger() catches ends the run: the checkpoint, the
\* latest block or the events handled before cannot be read.
Abort ==
    /\ step # "idle"
    /\ Faulty
    /\ Idle
    /\ unstored' = unstored \union AckedDeliveries
    /\ UNCHANGED <<persistedVars, delivered, origin>>

RunStep ==
    /\ \/ \E lag \in 0..MaxLag : lag < tip /\ Trigger(tip - lag)
       \/ Fetch
       \/ \E rejected \in {{}} \union {{m} : m \in Monitor} :
              \E unanswered \in {{}} \union {{read} : read \in MintingRead(found)} :
                  Check(rejected, unanswered)
       \/ \E failed \in {{}} \union {{se} : se \in ToReceive("Discord")} :
              \E got \in SUBSET failed : Dispatch(failed, got)
       \/ Store
       \/ UpdateCheckpointBlock
    /\ UNCHANGED chainVars

MonitoringNext == RunStep \/ (Abort /\ UNCHANGED chainVars) \/ ChainNext

MonitoringInit ==
    /\ tip = 1 /\ minedAt = [e \in ChainEvent |-> 0] /\ everMined = {} /\ reorgs = 0
    /\ minters \in MinterLists /\ confirmations = 0
    /\ \E s \in SupplyLevels : supply = <<s, s>>
    /\ checkpointBlock = 0 /\ handledSystemEvents = NoAcks
    /\ lastHighTotalSupplyChangeBlock = 0
    /\ step = "idle" /\ fromBlock = 0 /\ toBlock = 0 /\ errors = FALSE
    /\ found = NothingFound /\ systemEvents = {} /\ acks = NoAcks
    /\ delivered = NoAcks /\ unstored = {} /\ origin = MaxBlock /\ faults = 0

\* The tool is triggered in a loop, and a node that lags does not do so for ever; nothing
\* is assumed of the chain.
UpToDate == Trigger(tip) /\ UNCHANGED chainVars
MonitoringSpec ==
    MonitoringInit /\ [][MonitoringNext]_vars /\ WF_vars(RunStep) /\ SF_vars(UpToDate)
-----------------------------------------------------------------------------
(* Properties.                                                              *)

At(e, b) == [kind |-> e.kind, key |-> e.key, nonce |-> e.nonce, minter |-> e.minter, block |-> b]

\* What has to reach a receiver because e is in block b, whatever else happens.
Announcements(e, b) ==
    CASE e.kind = "DepositRevealed" ->
            {DepositRevealed(At(e, b))}
            \union (IF Amount[e.key] > LargeDepositThresholdSat
                    THEN {LargeDepositRevealed(At(e, b))} ELSE {})
      [] e.kind = "RedemptionRequested" ->
            {RedemptionRequested(At(e, b))}
            \union (IF Amount[e.key] > LargeRedemptionThresholdSat
                    THEN {LargeRedemptionRequested(At(e, b))} ELSE {})
      [] e.kind = "OptimisticMintingCancelled" -> {OptimisticMintingCancelled(At(e, b))}
      [] e.kind = "NewWalletRegistered" -> {WalletRegistered(At(e, b))}
      [] e.kind = "DkgResultSubmitted" -> {DkgResultSubmitted(At(e, b))}
      [] e.kind = "DkgResultApproved" -> {DkgResultApproved(At(e, b))}
      [] e.kind = "DkgResultChallenged" -> {DkgResultChallenged(At(e, b))}
      [] OTHER -> {}

Announced(e) ==
    \A se \in Announcements(e, minedAt[e]) :
        \A r \in Receiver : IsSupportedSystemEvent(r, se) => se \in delivered[r]

\* The checkpoint never overtakes an event no receiver was told of: every event of the
\* window of the first successful run or later, and deeper than a reorganization can reach
\* below the checkpoint, was announced, although monitors, posts, the database and the
\* process itself may have failed on the way.
CheckpointCoversEvents ==
    \A e \in ChainEvent :
        Mined(e) /\ minedAt[e] >= origin /\ minedAt[e] <= checkpointBlock - ReorgDepthBlocks
            => Announced(e)

\* A receiver is sent the same event twice only if the acknowledgement of an earlier
\* delivery was lost by a fault; the failure of some other event's delivery, which makes
\* the whole window be examined again, does not repeat it.
RepeatedOnlyIfUnstored ==
    [][\A r \in Receiver :
        step = "dispatching" /\ step' = "storing" =>
            \A se \in ToReceive(r) \intersect delivered[r] : <<r, se>> \in unstored]_vars

\* How long after its block an event is overdue if nothing has settled it.
TimeFor(e) ==
    CASE e.kind = "RedemptionRequested" -> RedemptionRequestStaleBlocks
      [] e.kind = "DepositRevealed" -> MintingRequestTimeoutBlocks
      [] e.kind = "OptimisticMintingRequested" ->
            MintingFinalizationTimeoutBlocks(OptimisticMintingDelay)

\* What settles it: the end of the redemption, a request to mint for the deposit, the
\* finalization of the request.
Settles(s, e) ==
    CASE e.kind = "RedemptionRequested" ->
            s.kind = "RedemptionSettled" /\ s.key = e.key /\ s.nonce = e.nonce
      [] e.kind = "DepositRevealed" -> s.kind = "OptimisticMintingRequested" /\ s.key = e.key
      [] e.kind = "OptimisticMintingRequested" ->
            s.kind = "OptimisticMintingFinalized" /\ s.key = e.key

OverdueReport(e, b) ==
    CASE e.kind = "RedemptionRequested" -> StaleRedemption(At(e, b))
      [] e.kind = "DepositRevealed" -> OptimisticMintingNotRequestedByAnyMinter(At(e, b))
      [] e.kind = "OptimisticMintingRequested" ->
            OptimisticMintingNotFinalizedByAnyMinter(At(e, b))

MayBeOverdue == {"RedemptionRequested", "DepositRevealed", "OptimisticMintingRequested"}

\* A redemption that nobody settles, a deposit for which nobody requests minting and a
\* request for minting that nobody finalizes, on any branch of the chain, are reported by
\* the time the checkpoint has passed the end of their time.
OverdueReported ==
    \A e \in ChainEvent :
        /\ e.kind \in MayBeOverdue /\ Mined(e) /\ minedAt[e] >= origin
        /\ minedAt[e] <= checkpointBlock - TimeFor(e)
        /\ ~\E s \in everMined : Settles(s, e)
        => OverdueReport(e, minedAt[e]) \in delivered["Sentry"]

\* However the runs failed, there comes a time when every event of the chain has been
\* announced or was mined before monitoring began, and after it another one, as long as the
\* chain has events: no fault makes the loop of runs lose sight of one.  (The chain of an
\* instance ends at MaxBlock, so that every event has the time to be announced.)
EventuallyAnnounced ==
    []<>(\A e \in ChainEvent : Mined(e) => Announced(e) \/ minedAt[e] < origin)

\* monitoring/README.adoc:98, of runs like the one that records an alert: no system event is
\* missed.  Once a run through block b has succeeded, the alert recorded for a block up to
\* b has reached the receiver.
RecordedSupplyAlertsDelivered ==
    lastHighTotalSupplyChangeBlock # 0 /\ step = "idle"
        /\ checkpointBlock >= lastHighTotalSupplyChangeBlock =>
            \E se \in delivered["Sentry"] :
                /\ se.title = "High TBTC token total supply change"
                /\ se.block = lastHighTotalSupplyChangeBlock
=============================================================================
