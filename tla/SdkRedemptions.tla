---------------------------- MODULE SdkRedemptions ----------------------------
(***************************************************************************)
(* The redemptions service of the SDK (services/redemptions): it picks the *)
(* wallet that is to serve a redemption, from what an API says or from     *)
(* what it reads of both chains one call at a time, and sends the request, *)
(* which is mined, or reverted, after the service has answered.  The       *)
(* chains, used by others as well, change between the calls.               *)
(***************************************************************************)
EXTENDS Integers, Sequences, FiniteSets, FiniteSetsExt

CONSTANTS
    Registered,          \* the wallets, a sequence in the order of their registration
    RedeemerInput,       \* what callers give as redeemer: records [kind, type]
    TokenAmount,         \* amounts callers ask for, in the token's precision
    SatoshiMultiplier,   \* 10^10 in the code
    ConcurrencyLimit,    \* 50 in the code
    TotalRetryAttempts,  \* 3 in the code
    InitialValue,        \* satoshis in the first main UTXO of each wallet
    MaxChanges,          \* bound on what others do to the chains
    MaxReadFaults,       \* bound on failed reads and sends
    MaxLostReplies       \* bound on transactions sent without the caller knowing

ASSUME ConcurrencyAssumption == ConcurrencyLimit \in Nat \ {0}
ASSUME RegisteredAssumption == Len(Registered) \in Nat /\ DOMAIN Registered = 1..Len(Registered)
ASSUME AmountAssumption ==
    /\ SatoshiMultiplier \in Nat \ {0}
    /\ \A a \in TokenAmount : a \in Nat
    /\ \A i \in DOMAIN Registered : InitialValue[Registered[i]] \in Nat

VARIABLES
    \* the Bridge
    wallets,        \* of each wallet: [state, mainUtxo, pendingRedemptionsValue]
    pending,        \* the wallets with a pending request to the caller's script
    vm,             \* the message of a redemption requested on an L2
    \* Bitcoin: of each wallet, its confirmed transactions
    history,
    \* the explorer's API: the candidates it offers
    snapshot,
    \* the call in progress
    redemption,     \* its parameters and where it is
    candidates,     \* what the API offered
    scan,           \* of each wallet, what the scan has found out
    chosen,
    \* what happened in this call
    inFlight,       \* of its transactions that wait to be mined, the wallet and its UTXO,
                    \* in the order of their nonces
    sent,           \* the number of its transactions
    made,           \* of those, the number the Bridge granted
    lost,           \* of those, the number whose sending was reported as a failure
    able,           \* the wallets that could have served it at every moment
    \* bounded
    readFaults, changes

redemptionCallVars == <<redemption, candidates, scan, chosen>>
redemptionChainVars == <<wallets, pending, vm, history, snapshot>>
requestVars == <<inFlight, sent, made, lost>>
redemptionVars == <<redemptionChainVars, redemptionCallVars, requestVars,
                    readFaults, changes, able>>

RedemptionWallet == {Registered[i] : i \in DOMAIN Registered}
NoChoice == [wallet |-> "none", utxo |-> 0]
NotScanned == [stage |-> "todo", pendingValue |-> 0, utxo |-> 0, balance |-> 0]
NoCall == [op |-> "none", pc |-> "idle", input |-> "none", amount |-> 0, manual |-> FALSE,
           index |-> 0, attempts |-> 0, result |-> "none"]
-----------------------------------------------------------------------------
(* Pure parts.                                                              *)

AmountToSatoshi(value) == (value - (value % SatoshiMultiplier)) \div SatoshiMultiplier

StandardTypes == {"P2PKH", "P2WPKH", "P2SH", "P2WSH"}

\* The script of a Bitcoin address, which has to be of a standard type.
RedeemerOutputScript(input) ==
    IF input.kind = "address" /\ input.type \in StandardTypes THEN input.type ELSE "invalid"

\* A string of hexadecimal digits, whole bytes and two of them at least, is the script
\* itself, whatever its type.
ResolvedRedeemerOutputScript(input) ==
    CASE input.kind = "hex" -> input.type
      [] input.kind = "malformed hex" -> "invalid"
      [] OTHER -> RedeemerOutputScript(input)

\* Positions of the n-th chunk of wallets.
ChunkArray(n) ==
    {i \in DOMAIN Registered : (n - 1) * ConcurrencyLimit < i /\ i <= n * ConcurrencyLimit}

\* The first output of a wallet's transaction that pays the wallet, if its hash is the one
\* the Bridge stores.
MainUtxoIn(w, utxo) == \E i \in DOMAIN history[w] : history[w][i].id = utxo
ValueOf(w, utxo) == history[w][CHOOSE i \in DOMAIN history[w] : history[w][i].id = utxo].value

MainUtxoValue(w) == ValueOf(w, wallets[w].mainUtxo)
Balance(w) == MainUtxoValue(w) - wallets[w].pendingRedemptionsValue

\* What Bridge.requestRedemption demands of the wallet.
BridgeAccepts(w, utxo, amount) ==
    /\ wallets[w].state = "Live"
    /\ wallets[w].mainUtxo # 0 /\ wallets[w].mainUtxo = utxo
    /\ w \notin pending
    /\ MainUtxoValue(w) >= wallets[w].pendingRedemptionsValue + amount

CanServe(w) == BridgeAccepts(w, wallets[w].mainUtxo, redemption.amount)
-----------------------------------------------------------------------------
(* The rest of the world.                                                   *)

Change ==
    /\ changes < MaxChanges /\ changes' = changes + 1
    /\ UNCHANGED <<redemptionCallVars, vm, requestVars, readFaults>>

OtherRequest(w) ==
    /\ wallets[w].state = "Live" /\ wallets[w].mainUtxo # 0 /\ Balance(w) > 0
    /\ wallets' = [wallets EXCEPT ![w].pendingRedemptionsValue = @ + 1]
    /\ UNCHANGED <<pending, history, snapshot>>

LeaveLive(w) ==
    /\ wallets[w].state = "Live"
    /\ wallets' = [wallets EXCEPT ![w].state = "MovingFunds"]
    /\ UNCHANGED <<pending, history, snapshot>>

LatestTx(w) == history[w][Len(history[w])]

\* A transaction that pays all pending redemptions of w is confirmed on Bitcoin.
RedemptionMined(w) ==
    /\ wallets[w].mainUtxo # 0 /\ wallets[w].pendingRedemptionsValue > 0 /\ Balance(w) > 0
    /\ LatestTx(w).id = wallets[w].mainUtxo
    /\ history' = [history EXCEPT ![w] = Append(@,
           [id |-> wallets[w].mainUtxo + 1, value |-> Balance(w), pays |-> w \in pending])]
    /\ UNCHANGED <<wallets, pending, snapshot>>

RedemptionProved(w) ==
    /\ wallets[w].mainUtxo # 0 /\ LatestTx(w).id # wallets[w].mainUtxo
    /\ wallets' = [wallets EXCEPT ![w].mainUtxo = LatestTx(w).id,
                       ![w].pendingRedemptionsValue = @ - (MainUtxoValue(w) - LatestTx(w).value)]
    /\ pending' = IF LatestTx(w).pays THEN pending \ {w} ELSE pending
    /\ UNCHANGED <<history, snapshot>>

\* The API's answer is as old as its last refresh.
ApiCandidates ==
    LET offered == SelectSeq(Registered,
                       LAMBDA w : wallets[w].state = "Live" /\ wallets[w].mainUtxo # 0)
    IN [i \in DOMAIN offered |-> [wallet |-> offered[i], utxo |-> wallets[offered[i]].mainUtxo,
                                  balance |-> Balance(offered[i])]]
ApiRefresh ==
    /\ snapshot' = ApiCandidates /\ snapshot' # snapshot
    /\ UNCHANGED <<wallets, pending, history>>

RedemptionWorld ==
    /\ \/ \E w \in RedemptionWallet :
              OtherRequest(w) \/ LeaveLive(w) \/ RedemptionMined(w) \/ RedemptionProved(w)
       \/ ApiRefresh
    /\ Change
-----------------------------------------------------------------------------
(* Calls.  Outcomes are kept in redemption.result.                          *)

At(pc) == redemption.pc = pc
Fail(error) == redemption' = [redemption EXCEPT !.pc = "failed", !.result = error]

\* An error of the way through the API makes the call go the manual way; there it is final.
Escalate(error) ==
    IF redemption.manual \/ redemption.op \notin {"request", "relay"}
    THEN Fail(error) /\ UNCHANGED <<scan, chosen>>
    ELSE /\ redemption' = [redemption EXCEPT !.pc = "resolve", !.manual = TRUE, !.attempts = 0]
         /\ scan' = [w \in RedemptionWallet |-> NotScanned] /\ chosen' = NoChoice

ReadFault == readFaults < MaxReadFaults /\ readFaults' = readFaults + 1

\* A call starts when the transactions of the one before it have been mined.
NewCall(op, input, amount) ==
    /\ redemption.pc \in {"idle", "failed", "done"}
    /\ redemption' = [NoCall EXCEPT !.op = op, !.pc = "resolve", !.input = input,
                          !.amount = AmountToSatoshi(amount)]
    /\ scan' = [w \in RedemptionWallet |-> NotScanned]
    /\ candidates' = <<>> /\ chosen' = NoChoice
    /\ inFlight = <<>> /\ sent' = 0 /\ made' = 0 /\ lost' = 0
    /\ able' = {w \in RedemptionWallet :
                    BridgeAccepts(w, wallets[w].mainUtxo, AmountToSatoshi(amount))}
    /\ UNCHANGED <<redemptionChainVars, inFlight, readFaults, changes>>

RequestRedemption(input, amount) == NewCall("request", input, amount)
RequestRedemptionWithProxy(input, amount) == NewCall("proxy", input, amount)
RequestCrossChainRedemption(input, amount) ==
    vm = "none" /\ NewCall("crossChain", input, amount)
RelayRedemptionRequestToL1(input, amount) == vm # "none" /\ NewCall("relay", input, amount)
GetRedemptionRequests(input) == NewCall("query", input, 0)

\* The first thing every way does: the API's answer, where one is asked, then the script.
FetchWallets ==
    /\ At("resolve") /\ redemption.op \in {"request", "relay"} /\ ~redemption.manual
    /\ \/ /\ IF ResolvedRedeemerOutputScript(redemption.input) = "invalid"
             THEN IF redemption.op = "relay" THEN Fail("script") /\ UNCHANGED <<scan, chosen>>
                  ELSE Escalate("script")
             ELSE /\ redemption' = [redemption EXCEPT !.pc = "candidate", !.index = 1]
                  /\ UNCHANGED <<scan, chosen>>
          /\ candidates' = snapshot
       \/ Escalate("api") /\ UNCHANGED candidates      \* not the mainnet, or no answer
    /\ UNCHANGED <<redemptionChainVars, requestVars, readFaults, changes>>

ResolveScript ==
    /\ At("resolve") /\ (redemption.manual \/ redemption.op \in {"proxy", "crossChain", "query"})
    /\ LET script == IF redemption.op = "relay" THEN ResolvedRedeemerOutputScript(redemption.input)
                     ELSE RedeemerOutputScript(redemption.input)
       IN IF script = "invalid" THEN Fail("script")
          ELSE redemption' = [redemption EXCEPT !.index = 1, !.pc =
                   CASE redemption.op = "crossChain" -> "submitL2"
                     [] redemption.op = "query" -> "query"
                     [] OTHER -> "scan"]
    /\ UNCHANGED <<redemptionChainVars, candidates, scan, chosen, requestVars, readFaults, changes>>

\* determineValidRedemptionWallet, one candidate of the API's list.
DetermineValidRedemptionWallet ==
    /\ At("candidate")
    /\ \/ IF redemption.index > Len(candidates) THEN Escalate("no candidate")
          ELSE LET c == candidates[redemption.index]
               IN IF c.balance < redemption.amount \/ c.wallet \in pending
                  THEN /\ redemption' = [redemption EXCEPT !.index = @ + 1]
                       /\ UNCHANGED <<scan, chosen>>
                  ELSE /\ redemption' = [redemption EXCEPT !.pc = "submit"]
                       /\ chosen' = [wallet |-> c.wallet, utxo |-> c.utxo]
                       /\ UNCHANGED scan
    /\ UNCHANGED <<redemptionChainVars, candidates, requestVars, readFaults, changes>>
-----------------------------------------------------------------------------
(* findWalletForRedemption: the wallets of a chunk are examined at the same  *)
(* time, each by a chain of reads, and the next chunk after all of them.    *)

InChunk(w) == \E i \in ChunkArray(redemption.index) : Registered[i] = w
Scanned(w, stage) == At("scan") /\ InChunk(w) /\ scan[w].stage = stage
Finished == {"notLive", "noKey", "taken", "noUtxo", "small", "candidate"}

Advance(w, record) ==
    /\ scan' = [scan EXCEPT ![w] = record]
    /\ UNCHANGED <<redemptionChainVars, redemption, candidates, chosen, requestVars, changes>>

ReadWallet(w) ==
    /\ Scanned(w, "todo")
    /\ Advance(w, [scan[w] EXCEPT !.pendingValue = wallets[w].pendingRedemptionsValue, !.stage =
           IF wallets[w].state = "Live" THEN "live" ELSE "notLive"])
    /\ UNCHANGED readFaults

\* Any error of the wallet registry is taken for a wallet without a public key, which is
\* passed over like one that is not Live.
ReadWalletWithoutKey(w) ==
    /\ Scanned(w, "todo")
    /\ ReadFault
    /\ Advance(w, [scan[w] EXCEPT !.pendingValue = wallets[w].pendingRedemptionsValue, !.stage =
           IF wallets[w].state = "Live" THEN "noKey" ELSE "notLive"])

ReadPendingRedemption(w) ==
    /\ Scanned(w, "live")
    /\ Advance(w, [scan[w] EXCEPT !.stage = IF w \in pending THEN "taken" ELSE "free"])
    /\ UNCHANGED readFaults

ReadMainUtxoHash(w) ==
    /\ Scanned(w, "free")
    /\ Advance(w, [scan[w] EXCEPT !.utxo = wallets[w].mainUtxo, !.stage =
           IF wallets[w].mainUtxo = 0 THEN "noUtxo" ELSE "hash"])
    /\ UNCHANGED readFaults

\* The transactions of the wallet are searched from the latest one for the stored hash.
DetermineWalletMainUtxo(w) ==
    /\ Scanned(w, "hash")
    /\ LET balance == ValueOf(w, scan[w].utxo) - scan[w].pendingValue
       IN Advance(w, IF ~MainUtxoIn(w, scan[w].utxo) THEN [scan[w] EXCEPT !.stage = "noUtxo"]
                     ELSE [scan[w] EXCEPT !.balance = balance, !.stage =
                              IF balance >= redemption.amount THEN "candidate" ELSE "small"])
    /\ UNCHANGED readFaults

\* Mutant: the last chunk is taken for the end of the list.
LastChunkSkipped == redemption.index * ConcurrencyLimit >= Len(Registered) - 1

AllChunksDone == redemption.index * ConcurrencyLimit >= Len(Registered)

ScanError ==
    IF \A w \in RedemptionWallet : scan[w].stage \in {"todo", "notLive", "noKey"} THEN "noLive"
    ELSE IF \A w \in RedemptionWallet : scan[w].balance <= 0 THEN "allPending"
    ELSE "notEnough"

FindWalletForRedemption ==
    /\ At("scan")
    /\ \A i \in ChunkArray(redemption.index) : scan[Registered[i]].stage \in Finished
    /\ LET found == {i \in DOMAIN Registered : scan[Registered[i]].stage = "candidate"}
       IN CASE ~AllChunksDone ->
                  redemption' = [redemption EXCEPT !.index = @ + 1] /\ UNCHANGED chosen
            [] AllChunksDone /\ found = {} -> Fail(ScanError) /\ UNCHANGED chosen
            [] AllChunksDone /\ found # {} ->
                  LET w == Registered[Min(found)]
                  IN /\ chosen' = [wallet |-> w, utxo |-> scan[w].utxo]
                     /\ redemption' = [redemption EXCEPT !.pc = "submit"]
    /\ UNCHANGED <<redemptionChainVars, candidates, scan, requestVars, readFaults, changes>>

\* A read that fails for good rejects the whole search.
FailedRead ==
    /\ redemption.pc \in {"candidate", "scan", "query"}
    /\ ReadFault
    /\ Escalate("read")
    /\ UNCHANGED <<redemptionChainVars, candidates, requestVars, changes>>
-----------------------------------------------------------------------------
(* Submission.                                                              *)

\* The token is approved and called with retries; the L1 redeemer and an integrator's
\* proxy are called once.
MaxAttempts == IF redemption.op = "request" THEN TotalRetryAttempts + 1 ELSE 1

NotSent(error) ==
    IF redemption.attempts + 1 < MaxAttempts
    THEN redemption' = [redemption EXCEPT !.attempts = @ + 1] /\ UNCHANGED <<scan, chosen>>
    ELSE IF redemption.op = "relay" THEN Fail(error) /\ UNCHANGED <<scan, chosen>>
    ELSE Escalate(error)

\* Mutant: the way through the API does not return after its request.
AnsweredWithoutReturn ==
    redemption' = IF redemption.manual THEN [redemption EXCEPT !.pc = "done", !.result = "ok"]
                  ELSE [redemption EXCEPT !.pc = "resolve", !.manual = TRUE, !.attempts = 0]

\* The answer is the hash of the transaction sent; nobody waits until it is mined.
Answered == redemption' = [redemption EXCEPT !.pc = "done", !.result = "ok"]

Sent == inFlight' = Append(inFlight, chosen) /\ sent' = sent + 1

\* The message from an L2 can be redeemed once.
Granted(t) ==
    /\ BridgeAccepts(t.wallet, t.utxo, redemption.amount)
    /\ redemption.op = "relay" => vm = "emitted"

\* A transaction that would revert at the moment of sending fails in the estimation of its
\* gas and is not sent.
SubmitRequest ==
    /\ At("submit")
    /\ IF Granted(chosen)
       THEN /\ Sent
            /\ \/ Answered /\ UNCHANGED <<scan, chosen, lost>>
               \/ lost < MaxLostReplies /\ lost' = lost + 1 /\ NotSent("lost")
       ELSE NotSent("reverted") /\ UNCHANGED <<inFlight, sent, lost>>
    /\ UNCHANGED <<redemptionChainVars, candidates, made, readFaults, changes>>

\* The L2 redeemer is called once.
SubmitL2Request ==
    /\ At("submitL2")
    /\ Sent
    /\ \/ Answered /\ UNCHANGED lost
       \/ lost < MaxLostReplies /\ lost' = lost + 1 /\ Fail("lost")
    /\ UNCHANGED <<redemptionChainVars, candidates, scan, chosen, made, readFaults, changes>>

SendFailed ==
    /\ redemption.pc \in {"submit", "submitL2"}
    /\ ReadFault
    /\ IF At("submit") THEN NotSent("read") ELSE Fail("read") /\ UNCHANGED <<scan, chosen>>
    /\ UNCHANGED <<redemptionChainVars, candidates, requestVars, changes>>

\* By the time it is mined a transaction may revert: the chains have changed.
RequestMined ==
    /\ redemption.op # "crossChain"
    /\ inFlight # <<>> /\ inFlight' = Tail(inFlight)
    /\ LET t == Head(inFlight)
       IN IF Granted(t)
          THEN /\ wallets' = [wallets EXCEPT ![t.wallet].pendingRedemptionsValue =
                                  @ + redemption.amount]
               /\ pending' = pending \union {t.wallet}
               /\ vm' = IF redemption.op = "relay" THEN "redeemed" ELSE vm
               /\ made' = made + 1
          ELSE UNCHANGED <<wallets, pending, vm, made>>
    /\ UNCHANGED <<history, snapshot, redemptionCallVars, sent, lost, readFaults, changes>>

\* The L2 redeemer takes the tokens and emits the message to be relayed, or reverts.
L2RequestMined ==
    /\ redemption.op = "crossChain"
    /\ inFlight # <<>> /\ inFlight' = Tail(inFlight)
    /\ \/ vm' = "emitted" /\ made' = made + 1
       \/ UNCHANGED <<vm, made>>
    /\ UNCHANGED <<wallets, pending, history, snapshot, redemptionCallVars, sent, lost,
                   readFaults, changes>>

ReadRedemptionRequest ==
    /\ At("query")
    /\ \E w \in RedemptionWallet :
           redemption' = [redemption EXCEPT !.pc = "done", !.result =
                              IF w \in pending THEN "exists" ELSE "does not exist"]
    /\ UNCHANGED <<redemptionChainVars, candidates, scan, chosen, requestVars, readFaults, changes>>

RedemptionCallStep ==
    \/ FetchWallets \/ ResolveScript \/ DetermineValidRedemptionWallet
    \/ \E w \in RedemptionWallet : \/ ReadWallet(w) \/ ReadWalletWithoutKey(w)
                         \/ ReadPendingRedemption(w)
                         \/ ReadMainUtxoHash(w) \/ DetermineWalletMainUtxo(w)
    \/ FindWalletForRedemption \/ FailedRead
    \/ SubmitRequest \/ SubmitL2Request \/ SendFailed \/ ReadRedemptionRequest

NewRedemptionCall ==
    \E input \in RedeemerInput, amount \in TokenAmount :
        \/ RequestRedemption(input, amount)
        \/ RequestRedemptionWithProxy(input, amount)
        \/ RequestCrossChainRedemption(input, amount)
        \/ RelayRedemptionRequestToL1(input, amount)
        \/ GetRedemptionRequests(input)

\* The wallets that could have served the request at every moment since it was made, with
\* one and the same main UTXO.
StillAble ==
    able' = {w \in able : /\ CanServe(w)'
                          /\ wallets'[w].mainUtxo = wallets[w].mainUtxo}

SdkRedemptionsNext ==
    \/ NewRedemptionCall
    \/ (RedemptionCallStep \/ RequestMined \/ L2RequestMined \/ RedemptionWorld) /\ StillAble

SdkRedemptionsInit ==
    /\ wallets = [w \in RedemptionWallet |->
                     [state |-> "Live", mainUtxo |-> 1, pendingRedemptionsValue |-> 0]]
    /\ pending = {} /\ vm = "none"
    /\ history = [w \in RedemptionWallet |-> <<[id |-> 1, value |-> InitialValue[w], pays |-> FALSE]>>]
    /\ snapshot = ApiCandidates
    /\ redemption = NoCall /\ candidates = <<>>
    /\ scan = [w \in RedemptionWallet |-> NotScanned] /\ chosen = NoChoice
    /\ inFlight = <<>> /\ sent = 0 /\ made = 0 /\ lost = 0 /\ able = {}
    /\ readFaults = 0 /\ changes = 0

SdkRedemptionsSpec == SdkRedemptionsInit /\ [][SdkRedemptionsNext]_redemptionVars
-----------------------------------------------------------------------------
(* Properties.                                                              *)

\* The search of the chains overlooks a wallet for one reason only: if it ends without a
\* wallet, every wallet that could have served the request, with one main UTXO, at every
\* moment of the call is one whose public key could not be read.  It reads each wallet
\* piece by piece while others use it, and a wallet whose redemptions are mined but not
\* proved is found by the transaction before the latest.
AbleWalletFound ==
    redemption.pc = "failed" /\ redemption.result \in {"noLive", "allPending", "notEnough"}
        => \A w \in able : scan[w].stage = "noKey"

\* A call that answers has sent a transaction, and no call sends more than one, and one more
\* for each whose sending was reported as a failure: an error before or after the
\* submission, a retry and the change to the manual way do not send another.  What the
\* chains grant, or may still grant, is no more than that: the caller's tokens are not
\* taken again.
RequestsAccountedFor ==
    /\ redemption.result = "ok" => sent >= 1
    /\ sent <= lost + (IF redemption.result = "ok" THEN 1 ELSE 0)
    /\ made + Len(inFlight) <= sent

=============================================================================
