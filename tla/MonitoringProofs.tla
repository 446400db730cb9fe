-------------------------- MODULE MonitoringProofs --------------------------
(***************************************************************************)
(* The monitoring tool, for every chain, every depth of reorganizations    *)
(* and every bound on failures: the checkpoint leaves no event behind that *)
(* a receiver was not told of, nothing is overdue unreported, and a        *)
(* receiver is told twice only after an acknowledgement was lost.          *)
(***************************************************************************)
EXTENDS Monitoring, TLAPS

\* Nothing among the events ever mined settles e, which would be overdue some day.
Unsettled(e, ever) == e.kind \in MayBeOverdue /\ ~\E s \in ever : Settles(s, e)

\* Block b is one of start..end, and at least depth blocks before end.
Deep(b, start, end, depth) == b # 0 /\ b >= start /\ b <= end - depth

\* The reports that blocks up to end call for because of event e of block b.
Expected(e, b, ever, start, lateStart, end) ==
    (IF Deep(b, start, end, ReorgDepthBlocks) THEN Announcements(e, b) ELSE {})
    \union (IF Unsettled(e, ever) /\ Deep(b, lateStart, end, TimeFor(e))
            THEN {OverdueReport(e, b)} ELSE {})

Reach(got, reports) ==
    \A se \in reports : \A r \in Receiver : IsSupportedSystemEvent(r, se) => se \in got[r]

\* What the fetched events f have to contain for those reports.
FoundOf(f, kind) ==
    CASE kind = "DepositRevealed" -> f.revealed
      [] kind = "RedemptionRequested" -> f.redemptions
      [] kind = "OptimisticMintingCancelled" -> f.cancelled
      [] kind = "NewWalletRegistered" -> f.wallets
      [] kind = "DkgResultSubmitted" -> f.dkgSubmitted
      [] kind = "DkgResultApproved" -> f.dkgApproved
      [] kind = "DkgResultChallenged" -> f.dkgChallenged

AnnouncedKind ==
    {"DepositRevealed", "RedemptionRequested", "OptimisticMintingCancelled",
     "NewWalletRegistered", "DkgResultSubmitted", "DkgResultApproved",
     "DkgResultChallenged"}

OverdueOf(f, kind) ==
    CASE kind = "RedemptionRequested" -> f.stale
      [] kind = "DepositRevealed" -> f.notRequested
      [] kind = "OptimisticMintingRequested" -> f.notFinalized

Holds(f, e, b, ever, start, lateStart, end) ==
    /\ Deep(b, start, end, ReorgDepthBlocks) /\ e.kind \in AnnouncedKind
           => At(e, b) \in FoundOf(f, e.kind)
    /\ Unsettled(e, ever) /\ Deep(b, lateStart, end, TimeFor(e))
           => At(e, b) \in OverdueOf(f, e.kind)

-----------------------------------------------------------------------------
(***************************************************************************)
(* The invariant.                                                          *)
(***************************************************************************)

\* The chain is of past blocks, and in causal order.
ChainInv ==
    /\ tip \in Nat
    /\ minedAt \in [ChainEvent -> Nat]
    /\ \A e \in ChainEvent : minedAt[e] <= tip
    /\ \A e \in ChainEvent : minedAt[e] # 0 => e \in everMined
    /\ Causal(minedAt)

\* A run examines blocks of the chain, from the checkpoint it has started with.
WindowInv ==
    /\ checkpointBlock \in 0..tip
    /\ checkpointBlock = 0 => origin = MaxBlock
    /\ step # "idle" => /\ toBlock \in 1..tip
                        /\ fromBlock = WindowStart(checkpointBlock, toBlock)

\* What was delivered is known to be handled, or about to be, unless that was lost.
BooksInv ==
    \A r \in Receiver :
        /\ handledSystemEvents[r] \union acks[r] \subseteq delivered[r]
        /\ step # "storing" => acks[r] = {}
        /\ \A se \in delivered[r] :
              se \in handledSystemEvents[r] \/ se \in acks[r] \/ <<r, se>> \in unstored

LateStart(e) == RewindBlock(fromBlock, TimeFor(e))
RunExpected(e) == Expected(e, minedAt[e], everMined, fromBlock, LateStart(e), toBlock)

\* What a run without errors has got so far.
ProgressInv ==
    \A e \in ChainEvent :
        /\ step = "checking" =>
              Holds(found, e, minedAt[e], everMined, fromBlock, LateStart(e), toBlock)
        /\ step = "dispatching" /\ ~errors => RunExpected(e) \subseteq systemEvents
        /\ step \in {"storing", "checkpointing"} /\ ~errors =>
              Reach(delivered, RunExpected(e))

\* Up to the checkpoint, receivers got everything.
CoverInv ==
    \A e \in ChainEvent :
        Reach(delivered,
              Expected(e, minedAt[e], everMined, origin, origin, checkpointBlock))

MonitorInv == ChainInv /\ WindowInv /\ BooksInv /\ ProgressInv /\ CoverInv

-----------------------------------------------------------------------------
(***************************************************************************)
(* What is expected, over time.                                            *)
(***************************************************************************)

LEMMA DepthsType ==
    /\ ReorgDepthBlocks \in Nat
    /\ \A e : e.kind \in MayBeOverdue => TimeFor(e) \in Nat /\ TimeFor(e) >= ReorgDepthBlocks
<1>1. /\ ReorgDepthBlocks \in Nat /\ RedemptionRequestStaleBlocks \in Nat
      /\ MintingRequestTimeoutBlocks \in Nat
      /\ RedemptionRequestStaleBlocks >= ReorgDepthBlocks
      /\ MintingRequestTimeoutBlocks >= ReorgDepthBlocks
  BY WindowAssumption
<1>2. /\ MintingFinalizationTimeoutBlocks(OptimisticMintingDelay) \in Nat
      /\ MintingFinalizationTimeoutBlocks(OptimisticMintingDelay) >= ReorgDepthBlocks
  BY WindowAssumption DEF MintingFinalizationTimeoutBlocks
<1> QED
  BY <1>1, <1>2 DEF TimeFor, MayBeOverdue

\* Blocks that no reorganization can reach call for no more than before.
LEMMA ExpectedStable ==
    ASSUME NEW e, NEW b \in Nat, NEW b2 \in Nat, NEW ever, NEW ever2, ever \subseteq ever2,
           NEW start, NEW lateStart, NEW end \in Int, NEW last \in Int, end <= last,
           b2 # 0 /\ b2 <= last - ReorgDepthBlocks => b2 = b, NEW f
    PROVE  /\ Expected(e, b2, ever2, start, lateStart, end)
                  \subseteq Expected(e, b, ever, start, lateStart, end)
           /\ Holds(f, e, b, ever, start, lateStart, end)
                  => Holds(f, e, b2, ever2, start, lateStart, end)
<1>1. Unsettled(e, ever2) => Unsettled(e, ever)
  BY DEF Unsettled
<1>2. /\ Deep(b2, start, end, ReorgDepthBlocks) => b2 = b
      /\ Unsettled(e, ever2) /\ Deep(b2, lateStart, end, TimeFor(e)) => b2 = b
  BY DepthsType DEF Deep, Unsettled
<1>3. CASE b2 = b
  BY <1>1, <1>3 DEF Expected, Holds
<1>4. CASE b2 # b
  BY <1>2, <1>4 DEF Expected, Holds
<1> QED
  BY <1>3, <1>4

\* What a run adds to what the checkpoint covers reaches to its last block, also when that
\* is before the checkpoint.
LEMMA ExpectedByRuns ==
    ASSUME NEW e, NEW b \in Nat, NEW ever, NEW checkpoint \in Nat, NEW end \in Nat, end > 0,
           NEW first, checkpoint = 0 => first = MaxBlock,
           NEW start, start = WindowStart(checkpoint, end),
           NEW next, next = IF first = MaxBlock THEN start ELSE first
    PROVE  Expected(e, b, ever, next, next, end)
               \subseteq Expected(e, b, ever, first, first, checkpoint)
                   \union Expected(e, b, ever, start,
                                   RewindBlock(start, TimeFor(e)), end)
<1>1. start \in Nat
  BY DepthsType DEF WindowStart, RewindBlock
<1>2. ASSUME NEW depth \in Nat, depth >= ReorgDepthBlocks, Deep(b, next, end, depth),
             ~Deep(b, first, checkpoint, depth)
      PROVE  /\ Deep(b, RewindBlock(start, depth), end, depth)
             /\ depth = ReorgDepthBlocks => Deep(b, start, end, depth)
  <2>1. CASE first = MaxBlock
    <3>1. b # 0 /\ b >= start /\ b <= end - depth
      BY <1>2, <2>1 DEF Deep
    <3>2. RewindBlock(start, depth) \in Nat /\ RewindBlock(start, depth) <= start
      BY <1>1, <1>2 DEF RewindBlock
    <3> QED
      BY <1>1, <3>1, <3>2 DEF Deep
  <2>2. CASE first # MaxBlock
    <3>1. b > checkpoint - depth /\ b <= end - depth /\ b # 0 /\ checkpoint > 0
      BY <1>2, <2>2 DEF Deep
    <3>2. start = RewindBlock(checkpoint, ReorgDepthBlocks)
      BY <3>1, <1>2 DEF WindowStart
    <3> QED
      BY <1>2, <3>1, <3>2, DepthsType DEF Deep, RewindBlock
  <2> QED
    BY <2>1, <2>2
<1>3. Deep(b, next, end, ReorgDepthBlocks)
          => \/ Deep(b, first, checkpoint, ReorgDepthBlocks)
             \/ Deep(b, start, end, ReorgDepthBlocks)
  BY <1>2, DepthsType
<1>4. Unsettled(e, ever) /\ Deep(b, next, end, TimeFor(e))
          => \/ Deep(b, first, checkpoint, TimeFor(e))
             \/ Deep(b, RewindBlock(start, TimeFor(e)), end, TimeFor(e))
  BY <1>2, DepthsType DEF Unsettled
<1> QED
  BY <1>3, <1>4 DEF Expected

-----------------------------------------------------------------------------
(***************************************************************************)
(* What a run finds and reports.                                           *)
(***************************************************************************)

LEMMA OccurrenceFound ==
    ASSUME NEW e \in ChainEvent, minedAt[e] \in Nat, NEW start \in Nat, NEW end \in Nat,
           minedAt[e] # 0, minedAt[e] >= start, minedAt[e] <= end
    PROVE  At(e, minedAt[e]) \in Occurrences(e.kind, start, end)
<1>1. e \in {x \in Kind(e.kind) : Mined(x) /\ minedAt[x] \in start..end}
  BY DEF Kind, Mined
<1>2. At(e, minedAt[e]) = [kind |-> e.kind, key |-> e.key, nonce |-> e.nonce,
                           minter |-> e.minter, block |-> minedAt[e]]
  BY DEF At
<1> QED
  BY <1>1, <1>2 DEF Occurrences

LEMMA FetchedHolds ==
    ASSUME ChainInv, NEW e \in ChainEvent, NEW start \in Nat, NEW end \in Nat
    PROVE  Holds(Fetched(start, end), e, minedAt[e], everMined, start,
                 RewindBlock(start, TimeFor(e)), end)
<1> DEFINE b == minedAt[e]
           late == TimeFor(e)
<1>1. b \in Nat
  BY DEF ChainInv
<1>2. ASSUME Deep(b, start, end, ReorgDepthBlocks), e.kind \in AnnouncedKind
      PROVE  At(e, b) \in FoundOf(Fetched(start, end), e.kind)
  <2>1. At(e, b) \in Occurrences(e.kind, start, end)
    BY <1>1, <1>2, DepthsType, OccurrenceFound DEF Deep
  <2> QED
    BY <1>2, <2>1 DEF AnnouncedKind, FoundOf, Fetched
<1>3. ASSUME Deep(b, RewindBlock(start, late), end, late), Unsettled(e, everMined)
      PROVE  At(e, b) \in OverdueOf(Fetched(start, end), e.kind)
  <2>1. /\ RewindBlock(start, late) \in Nat /\ RewindBlock(end, late) \in Nat
        /\ b # 0 /\ b >= RewindBlock(start, late) /\ b <= RewindBlock(end, late)
    BY <1>1, <1>3, DepthsType DEF Deep, RewindBlock, Unsettled
  <2>2. e.kind \in MayBeOverdue
    BY <1>3 DEF Unsettled
  <2>3. At(e, b) \in RewoundOccurrences(e.kind, start, end, late)
    BY <1>1, <2>1, OccurrenceFound DEF RewoundOccurrences
  <2>4. CASE e.kind = "RedemptionRequested"
    BY <2>3, <2>4 DEF Fetched, TimeFor, OverdueOf
  <2>5. CASE e.kind = "DepositRevealed"
    BY <2>3, <2>5 DEF Fetched, TimeFor, OverdueOf
  <2>6. CASE e.kind = "OptimisticMintingRequested"
    BY <2>3, <2>6 DEF Fetched, TimeFor, OverdueOf
  <2> QED
    BY <2>2, <2>4, <2>5, <2>6 DEF MayBeOverdue
<1> QED
  BY <1>2, <1>3 DEF Holds

\* The request pending under the key of an unsettled request is this request.
LEMMA UnsettledPending ==
    ASSUME ChainInv, NEW e \in ChainEvent, minedAt[e] # 0, Unsettled(e, everMined),
           e.kind = "RedemptionRequested"
    PROVE  PendingRedemptionRequestedAt(e.key) = minedAt[e]
<1>0. ~\E s \in everMined : s.kind = "RedemptionSettled" /\ s.key = e.key /\ s.nonce = e.nonce
  BY DEF Unsettled, Settles
<1> DEFINE pending == {x \in Kind("RedemptionRequested") :
                          /\ x.key = e.key /\ Mined(x)
                          /\ ~\E s \in Kind("RedemptionSettled") :
                                  s.key = e.key /\ s.nonce = x.nonce /\ Mined(s)}
<1>1. e \in pending
  BY <1>0 DEF Kind, Mined, ChainInv
<1>2. ASSUME NEW x \in pending, x # e PROVE FALSE
  <2>1. /\ x \in ChainEvent /\ x.kind = "RedemptionRequested" /\ x.key = e.key
        /\ minedAt[x] # 0 /\ e.kind = "RedemptionRequested"
    BY <1>2 DEF Kind, Mined
  <2>2. ASSUME NEW c \in ChainEvent, NEW q \in ChainEvent, minedAt[q] # 0,
               q.kind = "RedemptionRequested", c.kind = "RedemptionSettled",
               c.key = q.key, c.nonce < q.nonce
        PROVE  minedAt[c] # 0
    <3>1. c \in Causes(q)
      BY <2>2 DEF Causes, Kind
    <3> QED
      BY <2>2, <3>1 DEF ChainInv, Causal
  <2>3. CASE /\ e.nonce < x.nonce
             /\ \E s \in ChainEvent : s.kind = "RedemptionSettled" /\ s.key = e.key
                                      /\ s.nonce = e.nonce
    BY <1>0, <2>1, <2>2, <2>3 DEF ChainInv
  <2>4. CASE /\ x.nonce < e.nonce
             /\ \E s \in ChainEvent : s.kind = "RedemptionSettled" /\ s.key = x.key
                                      /\ s.nonce = x.nonce
    <3>1. PICK s \in ChainEvent : s.kind = "RedemptionSettled" /\ s.key = x.key
                                  /\ s.nonce = x.nonce
      BY <2>4
    <3>2. minedAt[s] # 0
      BY <2>1, <2>2, <2>4, <3>1
    <3> QED
      BY <1>2, <2>1, <3>1, <3>2 DEF Kind, Mined
  <2> QED
    BY <1>2, <2>1, <2>3, <2>4, RequestsAssumption
<1>3. PendingRedemptionRequestedAt(e.key)
          = IF pending = {} THEN 0 ELSE minedAt[CHOOSE x \in pending : TRUE]
  BY DEF PendingRedemptionRequestedAt
<1> HIDE DEF pending
<1>4. (CHOOSE x \in pending : TRUE) = e
  BY <1>1, <1>2
<1> QED
  BY <1>1, <1>3, <1>4

\* What the monitors report of the events found.
Reports(unanswered) == UNION {CheckOf(m, unanswered) : m \in Monitor}

LEMMA AnnouncementsReported ==
    ASSUME NEW e, NEW b, e.kind \in AnnouncedKind, At(e, b) \in FoundOf(found, e.kind),
           NEW unanswered
    PROVE  Announcements(e, b) \subseteq Reports(unanswered)
<1>1. /\ DepositCheck(found) \subseteq Reports(unanswered)
      /\ RedemptionCheck(found) \subseteq Reports(unanswered)
      /\ WalletCheck(found) \subseteq Reports(unanswered)
      /\ MintingCheck(found, unanswered) \subseteq Reports(unanswered)
  <2>1. /\ CheckOf("deposit", unanswered) = DepositCheck(found)
        /\ CheckOf("redemption", unanswered) = RedemptionCheck(found)
        /\ CheckOf("wallet", unanswered) = WalletCheck(found)
        /\ CheckOf("minting", unanswered) = MintingCheck(found, unanswered)
    BY DEF CheckOf
  <2>2. {"deposit", "redemption", "wallet", "minting"} \subseteq Monitor
    BY DEF Monitor
  <2> QED
    BY <2>1, <2>2 DEF Reports
<1>2. At(e, b).key = e.key
  BY DEF At
<1>3. CASE e.kind = "DepositRevealed"
  <2>1. At(e, b) \in found.revealed
    BY <1>3 DEF FoundOf
  <2>2. Announcements(e, b) \subseteq DepositCheck(found)
    BY <1>2, <1>3, <2>1 DEF Announcements, DepositCheck
  <2> QED
    BY <1>1, <2>2
<1>4. CASE e.kind = "RedemptionRequested"
  <2>1. At(e, b) \in found.redemptions
    BY <1>4 DEF FoundOf
  <2>2. Announcements(e, b) \subseteq RedemptionCheck(found)
    BY <1>2, <1>4, <2>1 DEF Announcements, RedemptionCheck, RequestedRedemptions
  <2> QED
    BY <1>1, <2>2
<1>5. CASE e.kind = "OptimisticMintingCancelled"
  <2>1. At(e, b) \in found.cancelled
    BY <1>5 DEF FoundOf
  <2>2. Announcements(e, b) \subseteq MintingCheck(found, unanswered)
    BY <1>5, <2>1 DEF Announcements, MintingCheck
  <2> QED
    BY <1>1, <2>2
<1>6. CASE e.kind \in {"NewWalletRegistered", "DkgResultSubmitted", "DkgResultApproved",
                       "DkgResultChallenged"}
  <2>1. Announcements(e, b) \subseteq WalletCheck(found)
    BY <1>6 DEF FoundOf, Announcements, WalletCheck
  <2> QED
    BY <1>1, <2>1
<1> QED
  BY <1>3, <1>4, <1>5, <1>6 DEF AnnouncedKind

LEMMA ExpectedReported ==
    ASSUME ChainInv, NEW e \in ChainEvent, NEW start, NEW lateStart, NEW end,
           Holds(found, e, minedAt[e], everMined, start, lateStart, end), NEW unanswered
    PROVE  Expected(e, minedAt[e], everMined, start, lateStart, end)
               \subseteq Reports(unanswered)
<1> DEFINE b == minedAt[e]
<1>1. e.kind \notin AnnouncedKind => Announcements(e, b) = {}
  BY DEF Announcements, AnnouncedKind
<1>2. ASSUME Deep(b, start, end, ReorgDepthBlocks)
      PROVE  Announcements(e, b) \subseteq Reports(unanswered)
  BY <1>1, <1>2, AnnouncementsReported DEF Holds
<1>3. ASSUME Unsettled(e, everMined), Deep(b, lateStart, end, TimeFor(e))
      PROVE  OverdueReport(e, b) \in Reports(unanswered)
  <2>1. At(e, b) \in OverdueOf(found, e.kind)
    BY <1>3 DEF Holds
  <2>2. At(e, b).key = e.key /\ At(e, b).block = b
    BY DEF At
  <2>3. /\ CheckOf("redemption", unanswered) = RedemptionCheck(found)
        /\ CheckOf("minting", unanswered) = MintingCheck(found, unanswered)
        /\ "redemption" \in Monitor /\ "minting" \in Monitor
    BY DEF CheckOf, Monitor
  <2>4. CASE e.kind = "RedemptionRequested"
    <3>1. At(e, b) \in found.stale
      BY <2>1, <2>4 DEF OverdueOf
    <3>2. PendingRedemptionRequestedAt(e.key) = b
      BY <1>3, <2>4, UnsettledPending DEF Deep
    <3>3. StaleRedemption(At(e, b)) \in RedemptionCheck(found)
      BY <2>2, <3>1, <3>2 DEF RedemptionCheck, StaleRedemptions
    <3> QED
      BY <2>3, <2>4, <3>3 DEF Reports, OverdueReport
  <2>5. CASE e.kind = "DepositRevealed"
    <3>1. At(e, b) \in found.notRequested
      BY <2>1, <2>5 DEF OverdueOf
    <3>2. ~\E s \in everMined : s.kind = "OptimisticMintingRequested" /\ s.key = e.key
      BY <1>3, <2>5 DEF Unsettled, Settles
    <3>3. ~MintingRequestExists(At(e, b).key)
      BY <2>2, <3>2 DEF MintingRequestExists, Kind, Mined, ChainInv
    <3>4. OptimisticMintingNotRequestedByAnyMinter(At(e, b)) \in MintingCheck(found, unanswered)
      BY <3>1, <3>3 DEF MintingCheck, MintingNotRequested
    <3> QED
      BY <2>3, <2>5, <3>4 DEF Reports, OverdueReport
  <2>6. CASE e.kind = "OptimisticMintingRequested"
    <3>1. At(e, b) \in found.notFinalized
      BY <2>1, <2>6 DEF OverdueOf
    <3>2. ~\E s \in everMined : s.kind = "OptimisticMintingFinalized" /\ s.key = e.key
      BY <1>3, <2>6 DEF Unsettled, Settles
    <3>3. ~MintingRequestFinalized(At(e, b).key)
      BY <2>2, <3>2 DEF MintingRequestFinalized, Kind, Mined, ChainInv
    <3>4. OptimisticMintingNotFinalizedByAnyMinter(At(e, b)) \in MintingCheck(found, unanswered)
      BY <3>1, <3>3 DEF MintingCheck, MintingNotFinalized
    <3> QED
      BY <2>3, <2>6, <3>4 DEF Reports, OverdueReport
  <2> QED
    BY <1>3, <2>4, <2>5, <2>6 DEF Unsettled, MayBeOverdue
<1> QED
  BY <1>2, <1>3 DEF Expected

-----------------------------------------------------------------------------
(***************************************************************************)
(* The steps.                                                              *)
(***************************************************************************)

LEMMA WindowType ==
    ASSUME ChainInv, WindowInv, step # "idle"
    PROVE  /\ toBlock \in Nat /\ toBlock > 0 /\ toBlock <= tip
           /\ fromBlock \in Nat /\ checkpointBlock \in Nat
BY DepthsType DEF ChainInv, WindowInv, WindowStart, RewindBlock

\* What the chain does changes nothing below the reach of reorganizations.
LEMMA ChainStep ==
    ASSUME ChainInv, ChainNext
    PROVE  /\ ChainInv'
           /\ tip' \in Nat /\ tip <= tip' /\ everMined \subseteq everMined'
           /\ \A e \in ChainEvent :
                 minedAt'[e] # 0 /\ minedAt'[e] <= tip - ReorgDepthBlocks
                     => minedAt'[e] = minedAt[e]
<1>1. /\ tip \in Nat /\ minedAt \in [ChainEvent -> Nat] /\ ReorgDepthBlocks \in Nat
      /\ \A e \in ChainEvent : minedAt[e] <= tip
      /\ \A e \in ChainEvent : minedAt[e] # 0 => e \in everMined
      /\ Causal(minedAt)
  BY DepthsType DEF ChainInv
<1> DEFINE Goal == /\ ChainInv'
                   /\ tip' \in Nat /\ tip <= tip' /\ everMined \subseteq everMined'
                   /\ \A e \in ChainEvent :
                         minedAt'[e] # 0 /\ minedAt'[e] <= tip - ReorgDepthBlocks
                             => minedAt'[e] = minedAt[e]
<1>2. ASSUME NEW mined, Mine(mined) PROVE Goal
  <2>1. /\ tip' = tip + 1
        /\ \A e \in ChainEvent : minedAt'[e] = IF e \in mined THEN tip + 1 ELSE minedAt[e]
        /\ minedAt' = [e \in ChainEvent |-> IF e \in mined THEN tip + 1 ELSE minedAt[e]]
        /\ Causal(minedAt')
        /\ everMined' = everMined \union mined
    BY <1>2 DEF Mine
  <2>2. minedAt' \in [ChainEvent -> Nat]
    BY <1>1, <2>1
  <2>3. ChainInv'
    BY <1>1, <2>1, <2>2 DEF ChainInv
  <2> QED
    BY <1>1, <2>1, <2>3
<1>3. ASSUME NEW d \in 1..ReorgDepthBlocks, Reorg(d), d < tip PROVE Goal
  <2>1. PICK e \in {x \in ChainEvent : ~Mined(x) \/ minedAt[x] > tip - d},
             b \in {0} \union ((tip - d + 1)..tip) :
                 /\ minedAt' = [x \in ChainEvent |-> IF x = e THEN b ELSE minedAt[x]]
                 /\ everMined' = IF b = 0 THEN everMined ELSE everMined \union {e}
    BY <1>3 DEF Reorg
  <2>2. tip' = tip /\ Causal(minedAt')
    BY <1>3 DEF Reorg
  <2>3. b \in Nat /\ b <= tip /\ (b = 0 \/ b > tip - d)
    BY <1>1, <1>3
  <2>4. minedAt' \in [ChainEvent -> Nat]
    BY <1>1, <2>1, <2>3
  <2>5. \A x \in ChainEvent : minedAt'[x] = IF x = e THEN b ELSE minedAt[x]
    BY <2>1
  <2>6. ChainInv'
    BY <1>1, <2>1, <2>2, <2>3, <2>4, <2>5 DEF ChainInv
  <2> QED
    BY <1>1, <2>1, <2>2, <2>3, <2>5, <2>6
<1>4. ASSUME UNCHANGED <<tip, minedAt, everMined>> PROVE Goal
  BY <1>1, <1>4 DEF ChainInv
<1> HIDE DEF Goal
<1>5. Goal
  BY <1>2, <1>3, <1>4 DEF ChainNext, UpdateMinters, BitcoinBlock
<1> QED
  BY <1>5 DEF Goal

LEMMA ReachLess ==
    ASSUME NEW got, NEW reports, NEW fewer, fewer \subseteq reports, Reach(got, reports)
    PROVE  Reach(got, fewer)
BY DEF Reach

LEMMA ChainNextInv == MonitorInv /\ ChainNext => MonitorInv'
<1> SUFFICES ASSUME MonitorInv, ChainNext PROVE MonitorInv'
  OBVIOUS
<1>1. ChainInv /\ WindowInv /\ BooksInv /\ ProgressInv /\ CoverInv
  BY DEF MonitorInv
<1>2. /\ ChainInv'
      /\ tip' \in Nat /\ tip <= tip' /\ everMined \subseteq everMined'
      /\ \A e \in ChainEvent :
            minedAt'[e] # 0 /\ minedAt'[e] <= tip - ReorgDepthBlocks
                => minedAt'[e] = minedAt[e]
  BY <1>1, ChainStep
<1>3. UNCHANGED <<persistedVars, runVars, historyVars>>
  BY DEF ChainNext
<1>4. UNCHANGED <<step, fromBlock, toBlock, errors, found, systemEvents, acks,
                  checkpointBlock, handledSystemEvents, delivered, unstored, origin>>
  BY <1>3 DEF persistedVars, runVars, historyVars
<1>5. tip \in Nat /\ checkpointBlock \in Nat /\ checkpointBlock <= tip
  BY <1>1 DEF ChainInv, WindowInv
<1>6. WindowInv'
  BY <1>1, <1>2, <1>4, <1>5 DEF WindowInv
<1>7. BooksInv'
  BY <1>1, <1>4 DEF BooksInv
<1>8. \A e : LateStart(e)' = LateStart(e)
  BY <1>4 DEF LateStart
<1>9. ASSUME NEW e \in ChainEvent PROVE minedAt[e] \in Nat /\ minedAt'[e] \in Nat
  BY <1>1, <1>2 DEF ChainInv
<1>10. ASSUME step # "idle", NEW e \in ChainEvent
       PROVE  /\ RunExpected(e)' \subseteq RunExpected(e)
              /\ Holds(found, e, minedAt[e], everMined, fromBlock, LateStart(e), toBlock)
                   => Holds(found', e, minedAt'[e], everMined', fromBlock', LateStart(e)',
                            toBlock')
  <2>1. toBlock \in Int /\ tip \in Int /\ toBlock <= tip
    BY <1>1, <1>10, WindowType, <1>5
  <2>2. /\ Expected(e, minedAt'[e], everMined', fromBlock, LateStart(e), toBlock)
               \subseteq Expected(e, minedAt[e], everMined, fromBlock, LateStart(e), toBlock)
        /\ Holds(found, e, minedAt[e], everMined, fromBlock, LateStart(e), toBlock)
               => Holds(found, e, minedAt'[e], everMined', fromBlock, LateStart(e), toBlock)
    BY <1>2, <1>9, <2>1, ExpectedStable
  <2> QED
    BY <1>4, <1>8, <2>2 DEF RunExpected
<1>11. ProgressInv'
  <2> SUFFICES ASSUME NEW e \in ChainEvent
               PROVE  /\ step = "checking" =>
                            Holds(found', e, minedAt'[e], everMined', fromBlock',
                                  LateStart(e)', toBlock')
                      /\ step = "dispatching" /\ ~errors =>
                            RunExpected(e)' \subseteq systemEvents
                      /\ step \in {"storing", "checkpointing"} /\ ~errors =>
                            Reach(delivered, RunExpected(e)')
    BY <1>4 DEF ProgressInv
  <2>1. CASE step = "idle"
    BY <2>1
  <2>2. CASE step # "idle"
    BY <1>1, <1>10, <2>2, ReachLess DEF ProgressInv
  <2> QED
    BY <2>1, <2>2
<1>12. CoverInv'
  <2> SUFFICES ASSUME NEW e \in ChainEvent
               PROVE  Reach(delivered, Expected(e, minedAt'[e], everMined', origin, origin,
                                                checkpointBlock))
    BY <1>4 DEF CoverInv
  <2>1. checkpointBlock \in Int /\ tip \in Int /\ checkpointBlock <= tip
    BY <1>5
  <2>2. Expected(e, minedAt'[e], everMined', origin, origin, checkpointBlock)
            \subseteq Expected(e, minedAt[e], everMined, origin, origin, checkpointBlock)
    BY <1>2, <1>9, <2>1, ExpectedStable
  <2> QED
    BY <1>1, <2>2, ReachLess DEF CoverInv
<1> QED
  BY <1>2, <1>6, <1>7, <1>11, <1>12 DEF MonitorInv

LEMMA ReachMore ==
    ASSUME NEW got, NEW more, \A r \in Receiver : got[r] \subseteq more[r],
           NEW reports, Reach(got, reports)
    PROVE  Reach(more, reports)
BY DEF Reach

\* A run changes nothing of the chain, and only its end changes what is covered.
LEMMA CoverKept ==
    ASSUME CoverInv, UNCHANGED <<minedAt, everMined, origin, checkpointBlock>>,
           \A r \in Receiver : delivered[r] \subseteq delivered'[r]
    PROVE  CoverInv'
BY ReachMore DEF CoverInv

LEMMA ExpectedKept ==
    ASSUME UNCHANGED <<minedAt, everMined, fromBlock, toBlock>>
    PROVE  \A e : LateStart(e)' = LateStart(e) /\ RunExpected(e)' = RunExpected(e)
BY DEF LateStart, RunExpected

\* After a run, or its end by a fault, no run is in progress.
LEMMA IdleInv ==
    ASSUME Idle
    PROVE  ProgressInv' /\ (\A r \in Receiver : acks'[r] = {}) /\ step' = "idle"
BY DEF Idle, ProgressInv, NoAcks

LEMMA TriggerInv ==
    ASSUME MonitorInv, UNCHANGED chainVars, NEW lag \in 0..MaxLag, lag < tip,
           Trigger(tip - lag)
    PROVE  MonitorInv'
<1>1. ChainInv /\ WindowInv /\ BooksInv /\ ProgressInv /\ CoverInv
  BY DEF MonitorInv
<1>2. /\ step = "idle" /\ step' = "fetching" /\ toBlock' = tip - lag
      /\ fromBlock' = WindowStart(checkpointBlock, tip - lag)
      /\ UNCHANGED <<tip, minedAt, everMined, acks, checkpointBlock, handledSystemEvents,
                     delivered, unstored, origin>>
  BY DEF Trigger, chainVars, persistedVars, historyVars
<1>3. ChainInv' /\ BooksInv'
  BY <1>1, <1>2 DEF ChainInv, BooksInv
<1>4. toBlock' \in 1..tip
  BY <1>1, <1>2 DEF ChainInv
<1>5. WindowInv'
  BY <1>1, <1>2, <1>4 DEF WindowInv
<1>6. ProgressInv'
  BY <1>2 DEF ProgressInv
<1>7. CoverInv'
  BY <1>1, <1>2, CoverKept
<1> QED
  BY <1>3, <1>5, <1>6, <1>7 DEF MonitorInv

LEMMA FetchInv ==
    ASSUME MonitorInv, UNCHANGED chainVars, Fetch
    PROVE  MonitorInv'
<1>1. ChainInv /\ WindowInv /\ BooksInv /\ ProgressInv /\ CoverInv
  BY DEF MonitorInv
<1>2. /\ step = "fetching" /\ step' = "checking" /\ found' = Fetched(fromBlock, toBlock)
      /\ UNCHANGED <<tip, minedAt, everMined, fromBlock, toBlock, acks, checkpointBlock,
                     handledSystemEvents, delivered, unstored, origin>>
  BY DEF Fetch, chainVars, persistedVars, historyVars
<1>3. ChainInv' /\ WindowInv' /\ BooksInv'
  BY <1>1, <1>2 DEF ChainInv, WindowInv, BooksInv
<1>4. ASSUME NEW e \in ChainEvent
      PROVE  Holds(found', e, minedAt'[e], everMined', fromBlock', LateStart(e)', toBlock')
  <2>1. fromBlock \in Nat /\ toBlock \in Nat
    BY <1>1, <1>2, WindowType
  <2>2. Holds(Fetched(fromBlock, toBlock), e, minedAt[e], everMined, fromBlock, LateStart(e),
              toBlock)
    BY <1>1, <2>1, FetchedHolds DEF LateStart
  <2> QED
    BY <1>2, <2>2, ExpectedKept
<1>5. ProgressInv'
  BY <1>2, <1>4 DEF ProgressInv
<1>6. CoverInv'
  BY <1>1, <1>2, CoverKept
<1> QED
  BY <1>3, <1>5, <1>6 DEF MonitorInv

LEMMA CheckInv ==
    ASSUME MonitorInv, UNCHANGED chainVars, NEW rejected, NEW unanswered,
           Check(rejected, unanswered)
    PROVE  MonitorInv'
<1>1. ChainInv /\ WindowInv /\ BooksInv /\ ProgressInv /\ CoverInv
  BY DEF MonitorInv
<1>2. /\ step = "checking" /\ step' = "dispatching" /\ errors' = (rejected # {})
      /\ systemEvents' = UNION {CheckOf(m, unanswered) : m \in Monitor \ rejected}
      /\ UNCHANGED <<tip, minedAt, everMined, fromBlock, toBlock, acks, checkpointBlock,
                     handledSystemEvents, delivered, unstored, origin>>
  BY DEF Check, chainVars
<1>3. ChainInv' /\ WindowInv' /\ BooksInv'
  BY <1>1, <1>2 DEF ChainInv, WindowInv, BooksInv
<1>4. ASSUME NEW e \in ChainEvent, ~errors'
      PROVE  RunExpected(e)' \subseteq systemEvents'
  <2>1. systemEvents' = Reports(unanswered)
    <3>1. rejected = {}
      BY <1>2, <1>4
    <3>2. Monitor \ rejected = Monitor
      BY <3>1
    <3> QED
      BY <1>2, <3>2 DEF Reports
  <2>2. RunExpected(e) \subseteq Reports(unanswered)
    <3>1. Holds(found, e, minedAt[e], everMined, fromBlock, LateStart(e), toBlock)
      BY <1>1, <1>2 DEF ProgressInv
    <3>2. Expected(e, minedAt[e], everMined, fromBlock, LateStart(e), toBlock)
              \subseteq Reports(unanswered)
      BY <1>1, <3>1, ExpectedReported
    <3> QED
      BY <3>2 DEF RunExpected
  <2>3. UNCHANGED <<minedAt, everMined, fromBlock, toBlock>>
    BY <1>2
  <2>4. RunExpected(e)' = RunExpected(e)
    BY <2>3, ExpectedKept
  <2> QED
    BY <2>1, <2>2, <2>4
<1>5. ProgressInv'
  BY <1>2, <1>4 DEF ProgressInv
<1>6. CoverInv'
  BY <1>1, <1>2, CoverKept
<1> QED
  BY <1>3, <1>5, <1>6 DEF MonitorInv

LEMMA DispatchInv ==
    ASSUME MonitorInv, UNCHANGED chainVars, NEW failed, NEW got, Dispatch(failed, got)
    PROVE  MonitorInv'
<1>1. ChainInv /\ WindowInv /\ BooksInv /\ ProgressInv /\ CoverInv
  BY DEF MonitorInv
<1>2. /\ step = "dispatching" /\ step' = "storing" /\ errors' = (errors \/ failed # {})
      /\ failed \subseteq ToReceive("Discord") /\ got \subseteq failed
      /\ unstored' = unstored \union ({"Discord"} \X got)
      /\ UNCHANGED <<tip, minedAt, everMined, fromBlock, toBlock, systemEvents,
                     checkpointBlock, handledSystemEvents, origin>>
  BY DEF Dispatch, chainVars, persistedVars
<1>3. ASSUME NEW r \in Receiver
      PROVE  /\ acks'[r] = IF r = "Discord" THEN ToReceive(r) \ failed ELSE ToReceive(r)
             /\ delivered'[r] = delivered[r] \union
                    (IF r = "Discord" THEN ToReceive(r) \ (failed \ got) ELSE ToReceive(r))
  BY DEF Dispatch
<1>4. ChainInv' /\ WindowInv'
  BY <1>1, <1>2 DEF ChainInv, WindowInv
<1>5. BooksInv'
  <2> SUFFICES ASSUME NEW r \in Receiver
               PROVE  /\ handledSystemEvents[r] \union acks'[r] \subseteq delivered'[r]
                      /\ \A se \in delivered'[r] :
                            \/ se \in handledSystemEvents[r]
                            \/ se \in acks'[r]
                            \/ <<r, se>> \in unstored'
    BY <1>2 DEF BooksInv
  <2>1. /\ handledSystemEvents[r] \subseteq delivered[r]
        /\ \A se \in delivered[r] : se \in handledSystemEvents[r] \/ <<r, se>> \in unstored
    BY <1>1, <1>2 DEF BooksInv
  <2>2. ASSUME r = "Discord", NEW se \in got PROVE <<r, se>> \in unstored'
    BY <1>2, <2>2
  <2>3. \A se : <<r, se>> \in unstored => <<r, se>> \in unstored'
    BY <1>2
  <2>4. CASE r = "Discord"
    <3>1. /\ acks'[r] = ToReceive(r) \ failed
          /\ delivered'[r] = delivered[r] \union (ToReceive(r) \ (failed \ got))
      BY <1>3, <2>4
    <3> QED
      BY <2>1, <2>2, <2>3, <2>4, <3>1
  <2>5. CASE r # "Discord"
    <3>1. acks'[r] = ToReceive(r) /\ delivered'[r] = delivered[r] \union ToReceive(r)
      BY <1>3, <2>5
    <3> QED
      BY <2>1, <2>3, <3>1
  <2> QED
    BY <2>4, <2>5
<1>6. ASSUME NEW e \in ChainEvent, ~errors' PROVE Reach(delivered', RunExpected(e)')
  <2>1. failed = {} /\ RunExpected(e) \subseteq systemEvents
    BY <1>1, <1>2, <1>6 DEF ProgressInv
  <2>2. ASSUME NEW r \in Receiver, NEW se \in systemEvents, IsSupportedSystemEvent(r, se)
        PROVE  se \in delivered'[r]
    BY <1>1, <1>3, <2>1, <2>2 DEF ToReceive, BooksInv
  <2>3. Reach(delivered', RunExpected(e))
    BY <2>1, <2>2 DEF Reach
  <2> QED
    BY <1>2, <2>3, ExpectedKept
<1>7. ProgressInv'
  BY <1>2, <1>6 DEF ProgressInv
<1>8. CoverInv'
  BY <1>1, <1>2, <1>3, CoverKept
<1> QED
  BY <1>4, <1>5, <1>7, <1>8 DEF MonitorInv

LEMMA AckedMember ==
    ASSUME NEW r \in Receiver, NEW se \in acks[r]
    PROVE  <<r, se>> \in AckedDeliveries
<1>1. <<r, se>> \in {r} \X acks[r]
  OBVIOUS
<1> QED
  BY <1>1 DEF AckedDeliveries

LEMMA StoreInv ==
    ASSUME MonitorInv, UNCHANGED chainVars, Store
    PROVE  MonitorInv'
<1>1. ChainInv /\ WindowInv /\ BooksInv /\ ProgressInv /\ CoverInv
  BY DEF MonitorInv
<1>2. /\ step = "storing" /\ step' = "checkpointing" /\ acks' = NoAcks
      /\ errors' = errors \/ errors' = TRUE
      /\ UNCHANGED <<tip, minedAt, everMined, fromBlock, toBlock, checkpointBlock,
                     delivered, origin>>
  BY DEF Store, chainVars
<1>3. ChainInv' /\ WindowInv'
  BY <1>1, <1>2 DEF ChainInv, WindowInv
<1>4. \A r \in Receiver : acks'[r] = {}
  BY <1>2 DEF NoAcks
<1>5. BooksInv'
  <2> SUFFICES ASSUME NEW r \in Receiver
               PROVE  /\ handledSystemEvents'[r] \subseteq delivered[r]
                      /\ \A se \in delivered[r] : \/ se \in handledSystemEvents'[r]
                                                  \/ <<r, se>> \in unstored'
    BY <1>2, <1>4 DEF BooksInv
  <2>0. /\ handledSystemEvents[r] \union acks[r] \subseteq delivered[r]
        /\ \A se \in delivered[r] :
              se \in handledSystemEvents[r] \/ se \in acks[r] \/ <<r, se>> \in unstored
    BY <1>1 DEF BooksInv
  <2>1. CASE StoreHandledSystemEvents /\ UNCHANGED unstored
    <3>1. handledSystemEvents'[r] = handledSystemEvents[r] \union acks[r]
      BY <2>1 DEF StoreHandledSystemEvents
    <3> QED
      BY <2>0, <2>1, <3>1
  <2>2. CASE /\ unstored' = unstored \union AckedDeliveries
             /\ UNCHANGED handledSystemEvents
    BY <2>0, <2>2, AckedMember
  <2> QED
    BY <2>1, <2>2 DEF Store
<1>6. ProgressInv'
  <2> SUFFICES ASSUME NEW e \in ChainEvent, ~errors'
               PROVE  Reach(delivered, RunExpected(e)')
    BY <1>2 DEF ProgressInv
  <2>1. Reach(delivered, RunExpected(e))
    BY <1>1, <1>2 DEF ProgressInv
  <2> QED
    BY <1>2, <2>1, ExpectedKept
<1>7. CoverInv'
  BY <1>1, <1>2, CoverKept
<1> QED
  BY <1>3, <1>5, <1>6, <1>7 DEF MonitorInv

LEMMA UpdateCheckpointBlockInv ==
    ASSUME MonitorInv, UNCHANGED chainVars, UpdateCheckpointBlock
    PROVE  MonitorInv'
<1>1. ChainInv /\ WindowInv /\ BooksInv /\ ProgressInv /\ CoverInv
  BY DEF MonitorInv
<1>2. /\ step = "checkpointing" /\ Idle
      /\ UNCHANGED <<tip, minedAt, everMined, handledSystemEvents, delivered, unstored>>
  BY DEF UpdateCheckpointBlock, chainVars
<1>3. ProgressInv' /\ (\A r \in Receiver : acks'[r] = {}) /\ step' = "idle"
  BY <1>2, IdleInv
<1>4. ChainInv' /\ BooksInv'
  <2>1. \A r \in Receiver : acks[r] = {}
    BY <1>1, <1>2 DEF BooksInv
  <2> QED
    BY <1>1, <1>2, <1>3, <2>1 DEF ChainInv, BooksInv
<1>5. CASE UNCHANGED <<checkpointBlock, origin>>
  <2>1. WindowInv'
    BY <1>1, <1>2, <1>3, <1>5 DEF WindowInv
  <2>2. CoverInv'
    BY <1>1, <1>2, <1>5, CoverKept
  <2> QED
    BY <1>3, <1>4, <2>1, <2>2 DEF MonitorInv
<1>6. CASE /\ ~errors /\ checkpointBlock' = toBlock
           /\ origin' = IF origin = MaxBlock THEN fromBlock ELSE origin
  <2>1. /\ toBlock \in Nat /\ toBlock > 0 /\ toBlock <= tip
        /\ checkpointBlock \in Nat /\ (checkpointBlock = 0 => origin = MaxBlock)
        /\ fromBlock = WindowStart(checkpointBlock, toBlock)
    BY <1>1, <1>2, WindowType DEF WindowInv
  <2>2. WindowInv'
    BY <1>1, <1>2, <1>3, <1>6, <2>1 DEF WindowInv, ChainInv
  <2>3. ASSUME NEW e \in ChainEvent
        PROVE  Reach(delivered, Expected(e, minedAt[e], everMined, origin', origin', toBlock))
    <3>1. minedAt[e] \in Nat
      BY <1>1 DEF ChainInv
    <3>2. Expected(e, minedAt[e], everMined, origin', origin', toBlock)
              \subseteq Expected(e, minedAt[e], everMined, origin, origin, checkpointBlock)
                  \union RunExpected(e)
      BY <1>6, <2>1, <3>1, ExpectedByRuns DEF RunExpected, LateStart
    <3>3. Reach(delivered, Expected(e, minedAt[e], everMined, origin, origin,
                                    checkpointBlock))
      BY <1>1 DEF CoverInv
    <3>4. Reach(delivered, RunExpected(e))
      BY <1>1, <1>2, <1>6 DEF ProgressInv
    <3> QED
      BY <3>2, <3>3, <3>4 DEF Reach
  <2>4. CoverInv'
    BY <1>2, <1>6, <2>3 DEF CoverInv
  <2> QED
    BY <1>3, <1>4, <2>2, <2>4 DEF MonitorInv
<1> QED
  BY <1>5, <1>6 DEF UpdateCheckpointBlock, MayAdvance

LEMMA AbortInv ==
    ASSUME MonitorInv, UNCHANGED chainVars, Abort
    PROVE  MonitorInv'
<1>1. ChainInv /\ WindowInv /\ BooksInv /\ ProgressInv /\ CoverInv
  BY DEF MonitorInv
<1>2. /\ Idle /\ unstored' = unstored \union AckedDeliveries
      /\ UNCHANGED <<tip, minedAt, everMined, checkpointBlock, handledSystemEvents,
                     delivered, origin>>
  BY DEF Abort, chainVars, persistedVars
<1>3. ProgressInv' /\ (\A r \in Receiver : acks'[r] = {}) /\ step' = "idle"
  BY <1>2, IdleInv
<1>4. ChainInv' /\ WindowInv'
  BY <1>1, <1>2, <1>3 DEF ChainInv, WindowInv
<1>5. BooksInv'
  BY <1>1, <1>2, <1>3, AckedMember DEF BooksInv
<1>6. CoverInv'
  BY <1>1, <1>2, CoverKept
<1> QED
  BY <1>3, <1>4, <1>5, <1>6 DEF MonitorInv

-----------------------------------------------------------------------------
(***************************************************************************)
(* The theorems.                                                           *)
(***************************************************************************)

LEMMA MonitorInvInit == MonitoringInit => MonitorInv
<1> SUFFICES ASSUME MonitoringInit PROVE MonitorInv
  OBVIOUS
<1>1. /\ tip = 1 /\ minedAt = [e \in ChainEvent |-> 0] /\ everMined = {}
      /\ checkpointBlock = 0 /\ handledSystemEvents = NoAcks /\ acks = NoAcks
      /\ delivered = NoAcks /\ step = "idle" /\ origin = MaxBlock
  BY DEF MonitoringInit
<1>2. ChainInv
  BY <1>1 DEF ChainInv, Causal
<1>3. WindowInv
  BY <1>1 DEF WindowInv
<1>4. BooksInv
  BY <1>1 DEF BooksInv, NoAcks
<1>5. ProgressInv
  BY <1>1 DEF ProgressInv
<1>6. CoverInv
  BY <1>1 DEF CoverInv, Reach, Expected, Deep
<1> QED
  BY <1>2, <1>3, <1>4, <1>5, <1>6 DEF MonitorInv

LEMMA MonitorInvNext == MonitorInv /\ [MonitoringNext]_vars => MonitorInv'
<1> SUFFICES ASSUME MonitorInv, [MonitoringNext]_vars PROVE MonitorInv'
  OBVIOUS
<1>1. CASE UNCHANGED vars
  <2>1. UNCHANGED <<tip, minedAt, everMined, checkpointBlock, handledSystemEvents, step,
                    fromBlock, toBlock, errors, found, systemEvents, acks, delivered,
                    unstored, origin>>
    BY <1>1 DEF vars, chainVars, persistedVars, runVars, historyVars
  <2>2. ChainInv' /\ WindowInv' /\ BooksInv'
    BY <2>1 DEF MonitorInv, ChainInv, WindowInv, BooksInv
  <2>3. ProgressInv' /\ CoverInv'
    BY <2>1, ExpectedKept DEF MonitorInv, ProgressInv, CoverInv
  <2> QED
    BY <2>2, <2>3 DEF MonitorInv
<1>2. CASE RunStep
  BY <1>2, TriggerInv, FetchInv, CheckInv, DispatchInv, StoreInv, UpdateCheckpointBlockInv
     DEF RunStep
<1>3. CASE Abort /\ UNCHANGED chainVars
  BY <1>3, AbortInv
<1>4. CASE ChainNext
  BY <1>4, ChainNextInv
<1> QED
  BY <1>1, <1>2, <1>3, <1>4 DEF MonitoringNext

\* Every behaviour of the tool keeps the invariant: what is below the checkpoint has been
\* reported, and a run without errors reports what its window holds.
THEOREM MonitorInvariant == MonitoringSpec => []MonitorInv
BY MonitorInvInit, MonitorInvNext, PTL DEF MonitoringSpec

\* No event that the checkpoint has passed is unannounced, whatever failed on the way and
\* whatever the reorganizations, as long as they are not deeper than the tool allows for.
THEOREM CheckpointTheorem == MonitoringSpec => []CheckpointCoversEvents
<1>1. MonitorInv => CheckpointCoversEvents
  <2> SUFFICES ASSUME MonitorInv, NEW e \in ChainEvent, Mined(e), minedAt[e] >= origin,
                      minedAt[e] <= checkpointBlock - ReorgDepthBlocks
               PROVE  Announced(e)
    BY DEF CheckpointCoversEvents
  <2>1. Reach(delivered, Expected(e, minedAt[e], everMined, origin, origin,
                                  checkpointBlock))
    BY DEF MonitorInv, CoverInv
  <2>2. Deep(minedAt[e], origin, checkpointBlock, ReorgDepthBlocks)
    BY DEF Deep, Mined
  <2> QED
    BY <2>1, <2>2 DEF Expected, Reach, Announced
<1> QED
  BY <1>1, MonitorInvariant, PTL

\* No redemption, deposit or request for minting is overdue unreported when the checkpoint
\* has passed the end of its time.
THEOREM OverdueTheorem == MonitoringSpec => []OverdueReported
<1>1. MonitorInv => OverdueReported
  <2> SUFFICES ASSUME MonitorInv, NEW e \in ChainEvent, Mined(e), minedAt[e] >= origin,
                      minedAt[e] <= checkpointBlock - TimeFor(e),
                      Unsettled(e, everMined)
               PROVE  OverdueReport(e, minedAt[e]) \in delivered["Sentry"]
    BY DEF OverdueReported, Unsettled
  <2>1. Reach(delivered, Expected(e, minedAt[e], everMined, origin, origin,
                                  checkpointBlock))
    BY DEF MonitorInv, CoverInv
  <2>2. Deep(minedAt[e], origin, checkpointBlock, TimeFor(e))
    BY DEF Deep, Mined
  <2>3. IsSupportedSystemEvent("Sentry", OverdueReport(e, minedAt[e]))
    BY DEF IsSupportedSystemEvent, OverdueReport, Unsettled, MayBeOverdue, StaleRedemption,
           OptimisticMintingNotRequestedByAnyMinter, OptimisticMintingNotFinalizedByAnyMinter,
           SystemEvent
  <2>4. OverdueReport(e, minedAt[e])
            \in Expected(e, minedAt[e], everMined, origin, origin, checkpointBlock)
    BY <2>2 DEF Expected
  <2> QED
    BY <2>1, <2>3, <2>4 DEF Reach, Receiver
<1> QED
  BY <1>1, MonitorInvariant, PTL

\* A receiver is told again only of what it had been told by a delivery whose
\* acknowledgement was lost.
THEOREM RepeatedTheorem == MonitoringSpec => RepeatedOnlyIfUnstored
<1>1. MonitorInv => [\A r \in Receiver :
          step = "dispatching" /\ step' = "storing" =>
              \A se \in ToReceive(r) \intersect delivered[r] : <<r, se>> \in unstored]_vars
  BY DEF MonitorInv, BooksInv, ToReceive
<1> QED
  BY <1>1, MonitorInvariant, PTL DEF RepeatedOnlyIfUnstored
=============================================================================
