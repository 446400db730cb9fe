------------------------------ MODULE SdkProofs ------------------------------
(***************************************************************************)
(* Parts of the SDK, for every number of wallets, every input and every    *)
(* bound on failures and on what others do meanwhile.                      *)
(***************************************************************************)
EXTENDS SdkRedemptions, SdkDeposits, EthereumHandles, WalletTx, SumsProofs,
        SequenceTheorems, FunctionTheorems, TLAPS

(***************************************************************************)
(* The redemptions service: types.                                         *)
(***************************************************************************)
BitcoinTx == [id : Nat, value : Int, pays : BOOLEAN]
WalletRecord == [state : {"Live", "MovingFunds"}, mainUtxo : Nat,
                 pendingRedemptionsValue : Int]
ScanRecord == [stage : {"todo", "live", "free", "hash"} \union Finished,
               pendingValue : Int, utxo : Nat, balance : Int]
CallOp == {"none", "request", "proxy", "crossChain", "relay", "query"}
CallPc == {"idle", "resolve", "candidate", "scan", "submit", "submitL2", "query", "done", "failed"}
CallError == {"script", "api", "no candidate", "read", "reverted", "lost",
              "noLive", "allPending", "notEnough"}
CallResult == {"none", "ok", "exists", "does not exist"} \union CallError
CallRecord == [op : CallOp, pc : CallPc, input : RedeemerInput \union {"none"}, amount : Int,
               manual : BOOLEAN, index : Nat, attempts : Nat, result : CallResult]

\* The main UTXO of each wallet is one of its transactions, or was.
RedemptionTypes ==
    /\ wallets \in [RedemptionWallet -> WalletRecord]
    /\ history \in [RedemptionWallet -> Seq(BitcoinTx)]
    /\ \A w \in RedemptionWallet : MainUtxoIn(w, wallets[w].mainUtxo)
    /\ redemption \in CallRecord
    /\ scan \in [RedemptionWallet -> ScanRecord]
    /\ able \subseteq RedemptionWallet

\* The value of an output that is there is a number.
LEMMA ValueOfInt ==
    ASSUME NEW w \in RedemptionWallet, NEW utxo,
           history \in [RedemptionWallet -> Seq(BitcoinTx)], MainUtxoIn(w, utxo)
    PROVE  ValueOf(w, utxo) \in Int
<1> DEFINE i == CHOOSE j \in DOMAIN history[w] : history[w][j].id = utxo
<1>1. i \in DOMAIN history[w]
  BY DEF MainUtxoIn
<1>2. history[w] \in Seq(BitcoinTx)
  OBVIOUS
<1>3. history[w][i] \in BitcoinTx
  BY <1>1, <1>2
<1> HIDE DEF i
<1>4. history[w][i].value \in Int
  BY <1>3 DEF BitcoinTx
<1> QED  BY <1>4 DEF ValueOf, i

\* Likewise what a wallet has left.
LEMMA BalanceInt ==
    ASSUME RedemptionTypes, NEW w \in RedemptionWallet
    PROVE  MainUtxoValue(w) \in Int /\ Balance(w) \in Int
<1>1. MainUtxoIn(w, wallets[w].mainUtxo) /\ history \in [RedemptionWallet -> Seq(BitcoinTx)]
  BY DEF RedemptionTypes
<1>2. MainUtxoValue(w) \in Int
  BY <1>1, ValueOfInt DEF MainUtxoValue
<1>3. wallets[w].pendingRedemptionsValue \in Int
  BY DEF RedemptionTypes, WalletRecord
<1> QED  BY <1>2, <1>3 DEF Balance

\* The last transaction of a wallet.
LEMMA LatestTxTyped ==
    ASSUME RedemptionTypes, NEW w \in RedemptionWallet
    PROVE  /\ LatestTx(w) \in BitcoinTx
           /\ \E i \in DOMAIN history[w] : history[w][i] = LatestTx(w)
<1>1. history[w] \in Seq(BitcoinTx) /\ DOMAIN history[w] # {}
  BY DEF RedemptionTypes, MainUtxoIn
<1>2. Len(history[w]) \in DOMAIN history[w]
  BY <1>1
<1> QED  BY <1>1, <1>2 DEF LatestTx

LEMMA AmountInt ==
    ASSUME NEW a \in TokenAmount \union {0} PROVE AmountToSatoshi(a) \in Int
<1>1. a \in Int /\ SatoshiMultiplier \in Int /\ SatoshiMultiplier > 0
  BY AmountAssumption
<1>2. a % SatoshiMultiplier \in Int
  BY <1>1
<1>3. \A x, y \in Int : y > 0 => x \div y \in Int
  OBVIOUS
<1> QED  BY <1>1, <1>2, <1>3 DEF AmountToSatoshi

-----------------------------------------------------------------------------
(***************************************************************************)
(* What others do keeps the types.                                         *)
(***************************************************************************)

\* What the call keeps.
CallTypes ==
    /\ redemption \in CallRecord
    /\ scan \in [RedemptionWallet -> ScanRecord]
ChainTypes ==
    /\ wallets \in [RedemptionWallet -> WalletRecord]
    /\ history \in [RedemptionWallet -> Seq(BitcoinTx)]
    /\ \A w \in RedemptionWallet : MainUtxoIn(w, wallets[w].mainUtxo)

LEMMA TypesAreBoth ==
    RedemptionTypes <=> CallTypes /\ ChainTypes /\ able \subseteq RedemptionWallet
BY DEF RedemptionTypes, CallTypes, ChainTypes

\* A step that leaves the history and the main UTXOs alone keeps the main UTXOs known.
LEMMA MainUtxosKept ==
    ASSUME ChainTypes, UNCHANGED history, wallets' \in [RedemptionWallet -> WalletRecord],
           \A w \in RedemptionWallet : wallets'[w].mainUtxo = wallets[w].mainUtxo
    PROVE  ChainTypes'
BY DEF ChainTypes, MainUtxoIn

LEMMA OtherRequestTypes ==
    ASSUME ChainTypes, NEW w \in RedemptionWallet, OtherRequest(w) \/ LeaveLive(w)
    PROVE  ChainTypes'
<1>1. wallets \in [RedemptionWallet -> WalletRecord]
  BY DEF ChainTypes
<1>2. PICK record \in WalletRecord :
          /\ wallets' = [wallets EXCEPT ![w] = record]
          /\ record.mainUtxo = wallets[w].mainUtxo
  <2>1. CASE OtherRequest(w)
    <3> DEFINE record == [wallets[w] EXCEPT !.pendingRedemptionsValue = @ + 1]
    <3>1. record \in WalletRecord /\ record.mainUtxo = wallets[w].mainUtxo
      BY <1>1 DEF WalletRecord
    <3>2. wallets' = [wallets EXCEPT ![w] = record]
      BY <2>1 DEF OtherRequest
    <3> QED  BY <3>1, <3>2
  <2>2. CASE LeaveLive(w)
    <3> DEFINE record == [wallets[w] EXCEPT !.state = "MovingFunds"]
    <3>1. record \in WalletRecord /\ record.mainUtxo = wallets[w].mainUtxo
      BY <1>1 DEF WalletRecord
    <3>2. wallets' = [wallets EXCEPT ![w] = record]
      BY <2>2 DEF LeaveLive
    <3> QED  BY <3>1, <3>2
  <2> QED  BY <2>1, <2>2
<1>3. wallets' \in [RedemptionWallet -> WalletRecord]
  BY <1>1, <1>2
<1>4. \A v \in RedemptionWallet : wallets'[v].mainUtxo = wallets[v].mainUtxo
  BY <1>1, <1>2
<1> QED  BY <1>3, <1>4, MainUtxosKept DEF OtherRequest, LeaveLive

LEMMA MinedTypes ==
    ASSUME RedemptionTypes, NEW w \in RedemptionWallet, RedemptionMined(w)
    PROVE  ChainTypes'
<1> DEFINE tx == [id |-> wallets[w].mainUtxo + 1, value |-> Balance(w), pays |-> w \in pending]
<1>1. tx \in BitcoinTx
  <2>1. wallets[w].mainUtxo + 1 \in Nat
    BY DEF RedemptionTypes, WalletRecord
  <2>2. Balance(w) \in Int
    BY BalanceInt
  <2>3. (w \in pending) \in BOOLEAN
    OBVIOUS
  <2> QED  BY <2>1, <2>2, <2>3 DEF BitcoinTx
<1> HIDE DEF tx
<1>2. /\ history' = [history EXCEPT ![w] = Append(history[w], tx)]
      /\ UNCHANGED wallets
  BY DEF RedemptionMined, tx
<1>3. history \in [RedemptionWallet -> Seq(BitcoinTx)]
  BY DEF RedemptionTypes
<1>4. history' \in [RedemptionWallet -> Seq(BitcoinTx)]
  BY <1>1, <1>2, <1>3
<1>5. ASSUME NEW v \in RedemptionWallet
      PROVE  MainUtxoIn(v, wallets[v].mainUtxo)'
  <2>1. PICK i \in DOMAIN history[v] : history[v][i].id = wallets[v].mainUtxo
    BY DEF RedemptionTypes, MainUtxoIn
  <2>2. i \in DOMAIN history'[v] /\ history'[v][i] = history[v][i]
    <3>1. CASE v = w
      <4>1. history'[v] = Append(history[v], tx) /\ history[v] \in Seq(BitcoinTx)
        BY <1>2, <1>3, <3>1
      <4> QED  BY <4>1, <1>1
    <3>2. CASE v # w
      BY <1>2, <1>3, <3>2
    <3> QED  BY <3>1, <3>2
  <2> QED  BY <1>2, <2>1, <2>2 DEF MainUtxoIn
<1> QED  BY <1>2, <1>4, <1>5 DEF ChainTypes, RedemptionTypes

\* A proven transaction becomes the main UTXO of its wallet.
LEMMA ProvedRecord ==
    ASSUME RedemptionTypes, NEW w \in RedemptionWallet, RedemptionProved(w)
    PROVE  \E new \in WalletRecord :
               new.mainUtxo = LatestTx(w).id /\ wallets' = [wallets EXCEPT ![w] = new]
<1>1. LatestTx(w) \in BitcoinTx
  BY LatestTxTyped
<1>2. MainUtxoValue(w) \in Int
  BY BalanceInt
<1>3. wallets \in [RedemptionWallet -> WalletRecord]
  BY DEF RedemptionTypes
<1> DEFINE rest == wallets[w].pendingRedemptionsValue - (MainUtxoValue(w) - LatestTx(w).value)
<1>4. rest \in Int /\ LatestTx(w).id \in Nat
  BY <1>1, <1>2, <1>3 DEF BitcoinTx, WalletRecord
<1> HIDE DEF rest
<1> DEFINE step == [wallets EXCEPT ![w].mainUtxo = LatestTx(w).id]
           moved == [wallets[w] EXCEPT !.mainUtxo = LatestTx(w).id]
           new == [moved EXCEPT !.pendingRedemptionsValue = rest]
<1>5. wallets[w] \in WalletRecord
  BY <1>3
<1>6. /\ moved \in WalletRecord
      /\ moved.pendingRedemptionsValue = wallets[w].pendingRedemptionsValue
      /\ moved.mainUtxo = LatestTx(w).id
  BY <1>4, <1>5 DEF WalletRecord
<1>7. step = [wallets EXCEPT ![w] = moved]
  OBVIOUS
<1>8. wallets' = [step EXCEPT ![w].pendingRedemptionsValue =
                      @ - (MainUtxoValue(w) - LatestTx(w).value)]
  BY DEF RedemptionProved
<1> HIDE DEF step, moved
<1>9. step[w] = moved
  BY <1>3, <1>7
<1>10. wallets' = [step EXCEPT ![w] = new]
  BY <1>6, <1>8, <1>9 DEF rest
<1>11. wallets' = [wallets EXCEPT ![w] = new]
  <2> HIDE DEF new
  <2> QED  BY <1>3, <1>7, <1>10
<1>12. new \in WalletRecord /\ new.mainUtxo = LatestTx(w).id
  BY <1>4, <1>6 DEF WalletRecord
<1> QED  BY <1>11, <1>12

LEMMA ProvedTypes ==
    ASSUME RedemptionTypes, NEW w \in RedemptionWallet, RedemptionProved(w)
    PROVE  ChainTypes'
<1>3. wallets \in [RedemptionWallet -> WalletRecord]
  BY DEF RedemptionTypes
<1>5. PICK new \in WalletRecord :
          new.mainUtxo = LatestTx(w).id /\ wallets' = [wallets EXCEPT ![w] = new]
  BY ProvedRecord
<1>6. wallets' \in [RedemptionWallet -> WalletRecord]
  BY <1>3, <1>5
<1>7. ASSUME NEW v \in RedemptionWallet
      PROVE  MainUtxoIn(v, wallets'[v].mainUtxo)
  <2>1. CASE v = w
    BY <2>1, <1>3, <1>5, LatestTxTyped DEF MainUtxoIn
  <2>2. CASE v # w
    BY <2>2, <1>3, <1>5 DEF RedemptionTypes
  <2> QED  BY <2>1, <2>2
<1> QED  BY <1>6, <1>7 DEF ChainTypes, RedemptionTypes, RedemptionProved, MainUtxoIn

\* The rest of the world touches nothing of the call.
LEMMA WorldTypes ==
    ASSUME RedemptionTypes, RedemptionWorld
    PROVE  ChainTypes' /\ CallTypes' /\ UNCHANGED <<redemption, scan, requestVars>>
<1>1. UNCHANGED <<redemption, scan, requestVars>>
  BY DEF RedemptionWorld, Change, redemptionCallVars
<1>2. CallTypes'
  BY <1>1 DEF RedemptionTypes, CallTypes
<1>3. ChainTypes
  BY TypesAreBoth
<1>4. ASSUME ApiRefresh PROVE ChainTypes'
  <2>1. UNCHANGED wallets /\ UNCHANGED history
    BY <1>4 DEF ApiRefresh
  <2>2. wallets' \in [RedemptionWallet -> WalletRecord]
    BY <1>3, <2>1 DEF ChainTypes
  <2>3. \A w \in RedemptionWallet : wallets'[w].mainUtxo = wallets[w].mainUtxo
    BY <2>1
  <2> QED  BY <1>3, <2>1, <2>2, <2>3, MainUtxosKept
<1>5. ASSUME NEW w \in RedemptionWallet,
             OtherRequest(w) \/ LeaveLive(w) \/ RedemptionMined(w) \/ RedemptionProved(w)
      PROVE  ChainTypes'
  BY <1>3, <1>5, OtherRequestTypes, MinedTypes, ProvedTypes
<1> QED  BY <1>1, <1>2, <1>4, <1>5 DEF RedemptionWorld

-----------------------------------------------------------------------------
(***************************************************************************)
(* What the call itself does keeps the types.                              *)
(***************************************************************************)

\* Every change that a step makes to the record of the call.
LEMMA CallUpdates ==
    ASSUME NEW c \in CallRecord
    PROVE  /\ \A pc \in CallPc : [c EXCEPT !.pc = pc] \in CallRecord
           /\ \A pc \in CallPc, result \in CallResult :
                  [c EXCEPT !.pc = pc, !.result = result] \in CallRecord
           /\ \A pc \in CallPc, manual \in BOOLEAN, n \in Nat :
                  [c EXCEPT !.pc = pc, !.manual = manual, !.attempts = n] \in CallRecord
           /\ \A pc \in CallPc, n \in Nat :
                  /\ [c EXCEPT !.pc = pc, !.index = n] \in CallRecord
                  /\ [c EXCEPT !.index = n, !.pc = pc] \in CallRecord
           /\ [c EXCEPT !.index = @ + 1] \in CallRecord
           /\ [c EXCEPT !.attempts = @ + 1] \in CallRecord
<1>1. \A pc \in CallPc : [c EXCEPT !.pc = pc] \in CallRecord
  BY DEF CallRecord
<1>2. ASSUME NEW pc \in CallPc, NEW result \in CallResult
      PROVE  [c EXCEPT !.pc = pc, !.result = result] \in CallRecord
  BY DEF CallRecord
<1>3. ASSUME NEW pc \in CallPc, NEW manual \in BOOLEAN, NEW n \in Nat
      PROVE  [c EXCEPT !.pc = pc, !.manual = manual, !.attempts = n] \in CallRecord
  BY DEF CallRecord
<1>4. ASSUME NEW pc \in CallPc, NEW n \in Nat
      PROVE  [c EXCEPT !.pc = pc, !.index = n] \in CallRecord
  BY DEF CallRecord
<1>5. ASSUME NEW pc \in CallPc, NEW n \in Nat
      PROVE  [c EXCEPT !.index = n, !.pc = pc] \in CallRecord
  BY DEF CallRecord
<1>6. c.index + 1 \in Nat /\ c.attempts + 1 \in Nat
  BY DEF CallRecord
<1>7. [c EXCEPT !.index = @ + 1] \in CallRecord
  BY <1>6 DEF CallRecord
<1>8. [c EXCEPT !.attempts = @ + 1] \in CallRecord
  BY <1>6 DEF CallRecord
<1> QED  BY <1>1, <1>2, <1>3, <1>4, <1>5, <1>7, <1>8

\* An error ends the call or makes it start again the manual way.
LEMMA EscalateTypes ==
    ASSUME CallTypes, NEW error \in CallError, Escalate(error)
    PROVE  redemption' \in CallRecord /\ scan' \in [RedemptionWallet -> ScanRecord]
<1>1. redemption \in CallRecord /\ scan \in [RedemptionWallet -> ScanRecord]
  BY DEF CallTypes
<1>2. CASE redemption' = [redemption EXCEPT !.pc = "failed", !.result = error] /\ UNCHANGED scan
  <2>1. "failed" \in CallPc /\ error \in CallResult
    BY DEF CallPc, CallResult
  <2> QED  BY <1>1, <1>2, <2>1, CallUpdates
<1>3. CASE /\ redemption' = [redemption EXCEPT !.pc = "resolve", !.manual = TRUE, !.attempts = 0]
           /\ scan' = [w \in RedemptionWallet |-> NotScanned]
  <2>1. NotScanned \in ScanRecord
    BY DEF NotScanned, ScanRecord
  <2>2. "resolve" \in CallPc /\ TRUE \in BOOLEAN /\ 0 \in Nat
    BY DEF CallPc
  <2>3. redemption' \in CallRecord
    BY <1>1, <1>3, <2>2, CallUpdates
  <2> QED  BY <1>3, <2>1, <2>3
<1> QED  BY <1>2, <1>3 DEF Escalate, Fail

LEMMA NotSentTypes ==
    ASSUME CallTypes, NEW error \in CallError, NotSent(error)
    PROVE  redemption' \in CallRecord /\ scan' \in [RedemptionWallet -> ScanRecord]
<1>1. redemption \in CallRecord /\ scan \in [RedemptionWallet -> ScanRecord]
  BY DEF CallTypes
<1>2. CASE redemption' = [redemption EXCEPT !.attempts = @ + 1] /\ UNCHANGED scan
  BY <1>1, <1>2, CallUpdates
<1>3. CASE redemption' = [redemption EXCEPT !.pc = "failed", !.result = error] /\ UNCHANGED scan
  <2>1. "failed" \in CallPc /\ error \in CallResult
    BY DEF CallPc, CallResult
  <2> QED  BY <1>1, <1>3, <2>1, CallUpdates
<1>4. CASE Escalate(error)
  BY <1>4, EscalateTypes
<1> QED  BY <1>2, <1>3, <1>4 DEF NotSent, Fail

\* What the transactions of the call change when they are mined.
LEMMA RequestMinedTypes ==
    ASSUME RedemptionTypes, RequestMined \/ L2RequestMined
    PROVE  CallTypes' /\ ChainTypes' /\ UNCHANGED <<redemption, scan>>
<1>1. UNCHANGED redemption /\ UNCHANGED scan /\ UNCHANGED history
  BY DEF RequestMined, L2RequestMined, redemptionCallVars
<1>2. CallTypes'
  BY <1>1 DEF CallTypes, RedemptionTypes
<1>3. ChainTypes /\ wallets \in [RedemptionWallet -> WalletRecord] /\ redemption \in CallRecord
  BY TypesAreBoth DEF RedemptionTypes
<1>4. /\ wallets' \in [RedemptionWallet -> WalletRecord]
      /\ \A v \in RedemptionWallet : wallets'[v].mainUtxo = wallets[v].mainUtxo
  <2>1. CASE UNCHANGED wallets
    BY <1>3, <2>1
  <2>2. CASE ~UNCHANGED wallets
    <3> DEFINE w == Head(inFlight).wallet
    <3>1. wallets' = [wallets EXCEPT ![w].pendingRedemptionsValue = @ + redemption.amount]
      BY <2>2 DEF RequestMined, L2RequestMined
    <3> HIDE DEF w
    <3>2. CASE w \in RedemptionWallet
      <4> DEFINE new == [wallets[w] EXCEPT !.pendingRedemptionsValue = @ + redemption.amount]
      <4>1. redemption.amount \in Int /\ wallets[w] \in WalletRecord
        BY <1>3, <3>2 DEF CallRecord
      <4>2. new \in WalletRecord /\ new.mainUtxo = wallets[w].mainUtxo
        BY <4>1 DEF WalletRecord
      <4>3. wallets' = [wallets EXCEPT ![w] = new]
        BY <3>1
      <4> HIDE DEF new
      <4> QED  BY <1>3, <3>2, <4>2, <4>3
    <3>3. CASE w \notin RedemptionWallet
      <4>1. wallets' = wallets
        BY <1>3, <3>1, <3>3
      <4> QED  BY <1>3, <4>1
    <3> QED  BY <3>2, <3>3
  <2> QED  BY <2>1, <2>2
<1> QED  BY <1>1, <1>2, <1>3, <1>4, MainUtxosKept

\* The submission changes nothing but the record of the call.
LEMMA SubmitTypes ==
    ASSUME CallTypes, SubmitRequest \/ SubmitL2Request \/ SendFailed
    PROVE  CallTypes'
<1>1. redemption \in CallRecord /\ scan \in [RedemptionWallet -> ScanRecord]
  BY DEF CallTypes
<1>2. {"lost", "reverted", "read"} \subseteq CallError
      /\ {"lost", "read", "ok"} \subseteq CallResult
      /\ "done" \in CallPc /\ "failed" \in CallPc
  BY DEF CallError, CallResult, CallPc
<1>3. CASE Answered /\ UNCHANGED scan
  BY <1>1, <1>2, <1>3, CallUpdates DEF Answered, CallTypes
<1>4. ASSUME NEW error \in {"lost", "reverted", "read"}, NotSent(error) PROVE CallTypes'
  BY <1>2, <1>4, NotSentTypes DEF CallTypes
<1>5. ASSUME NEW error \in {"lost", "read"}, Fail(error) /\ UNCHANGED scan PROVE CallTypes'
  BY <1>1, <1>2, <1>5, CallUpdates DEF Fail, CallTypes
<1> QED  BY <1>3, <1>4, <1>5 DEF SubmitRequest, SubmitL2Request, SendFailed

\* A call starts with nothing scanned.
LEMMA NewCallTypes ==
    ASSUME NEW op \in CallOp, NEW input \in RedeemerInput, NEW amount \in TokenAmount \union {0},
           NewCall(op, input, amount)
    PROVE  CallTypes' /\ able' \subseteq RedemptionWallet
<1>1. AmountToSatoshi(amount) \in Int
  BY AmountInt
<1> DEFINE c == [NoCall EXCEPT !.op = op, !.pc = "resolve", !.input = input,
                     !.amount = AmountToSatoshi(amount)]
<1>2. "none" \in CallOp /\ "none" \in CallResult /\ "idle" \in CallPc /\ "resolve" \in CallPc
  BY DEF CallOp, CallPc, CallResult
<1>3. NoCall \in CallRecord
  BY <1>2 DEF NoCall, CallRecord
<1>4. c \in CallRecord
  <2> HIDE DEF NoCall, AmountToSatoshi
  <2> QED  BY <1>1, <1>2, <1>3 DEF CallRecord
<1>5. NotScanned \in ScanRecord
  BY DEF NotScanned, ScanRecord
<1>6. /\ redemption' = c
      /\ scan' = [w \in RedemptionWallet |-> NotScanned]
  BY DEF NewCall
<1>7. able' \subseteq RedemptionWallet
  BY DEF NewCall
<1> HIDE DEF c
<1> QED  BY <1>4, <1>5, <1>6, <1>7 DEF CallTypes

\* A step of the search records what it read of a wallet.
LEMMA AdvanceTypes ==
    ASSUME CallTypes, NEW w \in RedemptionWallet, NEW record \in ScanRecord, Advance(w, record)
    PROVE  CallTypes'
BY DEF CallTypes, Advance, redemptionChainVars

LEMMA ScanTypes ==
    ASSUME RedemptionTypes, NEW w \in RedemptionWallet,
           \/ ReadWallet(w) \/ ReadWalletWithoutKey(w) \/ ReadPendingRedemption(w)
           \/ ReadMainUtxoHash(w) \/ DetermineWalletMainUtxo(w)
    PROVE  CallTypes' /\ UNCHANGED <<wallets, history>>
<1>1. CallTypes /\ scan[w] \in ScanRecord /\ wallets[w] \in WalletRecord
  BY TypesAreBoth DEF RedemptionTypes
<1>2. wallets[w].pendingRedemptionsValue \in Int /\ wallets[w].mainUtxo \in Nat
  BY <1>1 DEF WalletRecord
<1>3. CASE ReadWallet(w) \/ ReadWalletWithoutKey(w)
  <2> DEFINE live == IF ReadWallet(w) THEN "live" ELSE "noKey"
             stage == IF wallets[w].state = "Live" THEN live ELSE "notLive"
             record == [scan[w] EXCEPT !.pendingValue = wallets[w].pendingRedemptionsValue,
                                       !.stage = stage]
  <2>1. stage \in {"todo", "live", "free", "hash"} \union Finished
    BY DEF Finished
  <2>2. Advance(w, record)
    <3>1. CASE ReadWallet(w)
      BY <3>1 DEF ReadWallet
    <3>2. CASE ~ReadWallet(w)
      BY <1>3, <3>2 DEF ReadWalletWithoutKey
    <3> QED  BY <3>1, <3>2
  <2> HIDE DEF stage
  <2>3. record \in ScanRecord
    BY <1>1, <1>2, <2>1 DEF ScanRecord
  <2> HIDE DEF record
  <2> QED  BY <1>1, <2>2, <2>3, AdvanceTypes DEF Advance, redemptionChainVars
<1>4. CASE ReadPendingRedemption(w)
  <2> DEFINE stage == IF w \in pending THEN "taken" ELSE "free"
             record == [scan[w] EXCEPT !.stage = stage]
  <2>1. stage \in {"todo", "live", "free", "hash"} \union Finished
    BY DEF Finished
  <2>2. Advance(w, record)
    BY <1>4 DEF ReadPendingRedemption
  <2> HIDE DEF stage
  <2>3. record \in ScanRecord
    BY <1>1, <2>1 DEF ScanRecord
  <2> HIDE DEF record
  <2> QED  BY <1>1, <2>2, <2>3, AdvanceTypes DEF Advance, redemptionChainVars
<1>5. CASE ReadMainUtxoHash(w)
  <2> DEFINE stage == IF wallets[w].mainUtxo = 0 THEN "noUtxo" ELSE "hash"
             record == [scan[w] EXCEPT !.utxo = wallets[w].mainUtxo, !.stage = stage]
  <2>1. stage \in {"todo", "live", "free", "hash"} \union Finished
    BY DEF Finished
  <2>2. Advance(w, record)
    BY <1>5 DEF ReadMainUtxoHash
  <2> HIDE DEF stage
  <2>3. record \in ScanRecord
    BY <1>1, <1>2, <2>1 DEF ScanRecord
  <2> HIDE DEF record
  <2> QED  BY <1>1, <2>2, <2>3, AdvanceTypes DEF Advance, redemptionChainVars
<1>6. CASE DetermineWalletMainUtxo(w)
  <2> DEFINE balance == ValueOf(w, scan[w].utxo) - scan[w].pendingValue
             stage == IF balance >= redemption.amount THEN "candidate" ELSE "small"
             found == [scan[w] EXCEPT !.balance = balance, !.stage = stage]
             missing == [scan[w] EXCEPT !.stage = "noUtxo"]
  <2>1. Advance(w, IF ~MainUtxoIn(w, scan[w].utxo) THEN missing ELSE found)
    BY <1>6 DEF DetermineWalletMainUtxo
  <2>2. CASE MainUtxoIn(w, scan[w].utxo)
    <3>1. ValueOf(w, scan[w].utxo) \in Int
      BY <2>2, ValueOfInt DEF RedemptionTypes
    <3>2. balance \in Int
      BY <1>1, <3>1 DEF ScanRecord
    <3>3. stage \in {"todo", "live", "free", "hash"} \union Finished
      BY DEF Finished
    <3> HIDE DEF balance, stage
    <3>4. found \in ScanRecord
      BY <1>1, <3>2, <3>3 DEF ScanRecord
    <3> HIDE DEF found
    <3> QED  BY <1>1, <2>1, <2>2, <3>4, AdvanceTypes DEF Advance, redemptionChainVars
  <2>3. CASE ~MainUtxoIn(w, scan[w].utxo)
    <3>1. missing \in ScanRecord
      BY <1>1 DEF ScanRecord, Finished
    <3> HIDE DEF missing
    <3> QED  BY <1>1, <2>1, <2>3, <3>1, AdvanceTypes DEF Advance, redemptionChainVars
  <2> QED  BY <2>2, <2>3
<1> QED  BY <1>3, <1>4, <1>5, <1>6

LEMMA FetchWalletsTypes ==
    ASSUME CallTypes, FetchWallets PROVE CallTypes'
<1>1. redemption \in CallRecord
  BY DEF CallTypes, FetchWallets
<1>2. "script" \in CallError /\ "api" \in CallError /\ "script" \in CallResult
      /\ "failed" \in CallPc /\ "candidate" \in CallPc /\ 1 \in Nat
  BY DEF CallError, CallResult, CallPc
<1>3. CASE Escalate("script") \/ Escalate("api")
  BY <1>1, <1>2, <1>3, EscalateTypes DEF CallTypes
<1>4. CASE Fail("script") /\ UNCHANGED scan
  BY <1>1, <1>2, <1>4, CallUpdates DEF CallTypes, Fail
<1>5. CASE /\ redemption' = [redemption EXCEPT !.pc = "candidate", !.index = 1]
           /\ UNCHANGED scan
  BY <1>1, <1>2, <1>5, CallUpdates DEF CallTypes
<1> QED  BY <1>3, <1>4, <1>5 DEF FetchWallets

LEMMA ResolveScriptTypes ==
    ASSUME CallTypes, ResolveScript PROVE CallTypes'
<1>1. redemption \in CallRecord /\ UNCHANGED scan
  BY DEF CallTypes, ResolveScript
<1>2. CASE Fail("script")
  <2>1. "failed" \in CallPc /\ "script" \in CallResult
    BY DEF CallPc, CallResult, CallError
  <2> QED  BY <1>1, <1>2, <2>1, CallUpdates DEF CallTypes, Fail
<1>3. CASE ~Fail("script")
  <2> DEFINE pc == CASE redemption.op = "crossChain" -> "submitL2"
                     [] redemption.op = "query" -> "query"
                     [] OTHER -> "scan"
  <2>1. redemption' = [redemption EXCEPT !.index = 1, !.pc = pc]
    BY <1>3 DEF ResolveScript
  <2>2. pc \in CallPc /\ 1 \in Nat
    BY DEF CallPc
  <2> HIDE DEF pc
  <2> QED  BY <1>1, <2>1, <2>2, CallUpdates DEF CallTypes
<1> QED  BY <1>2, <1>3

LEMMA CandidateTypes ==
    ASSUME CallTypes, DetermineValidRedemptionWallet PROVE CallTypes'
<1>1. redemption \in CallRecord
  BY DEF CallTypes, DetermineValidRedemptionWallet
<1>2. "no candidate" \in CallError /\ "submit" \in CallPc
  BY DEF CallError, CallPc
<1>3. CASE Escalate("no candidate")
  BY <1>1, <1>2, <1>3, EscalateTypes DEF CallTypes
<1>4. CASE redemption' = [redemption EXCEPT !.index = @ + 1] /\ UNCHANGED scan
  BY <1>1, <1>4, CallUpdates DEF CallTypes
<1>5. CASE redemption' = [redemption EXCEPT !.pc = "submit"] /\ UNCHANGED scan
  BY <1>1, <1>2, <1>5, CallUpdates DEF CallTypes
<1> QED  BY <1>3, <1>4, <1>5 DEF DetermineValidRedemptionWallet

LEMMA FindWalletTypes ==
    ASSUME CallTypes, FindWalletForRedemption PROVE CallTypes'
<1>1. redemption \in CallRecord /\ UNCHANGED scan
  BY DEF CallTypes, FindWalletForRedemption
<1>2. "submit" \in CallPc /\ "failed" \in CallPc /\ ScanError \in CallResult
  BY DEF CallResult, CallError, CallPc, ScanError
<1>3. CASE redemption' = [redemption EXCEPT !.index = @ + 1]
  BY <1>1, <1>3, CallUpdates DEF CallTypes
<1>4. CASE Fail(ScanError)
  BY <1>1, <1>2, <1>4, CallUpdates DEF CallTypes, Fail
<1>5. CASE redemption' = [redemption EXCEPT !.pc = "submit"]
  BY <1>1, <1>2, <1>5, CallUpdates DEF CallTypes
<1> QED  BY <1>3, <1>4, <1>5 DEF FindWalletForRedemption

LEMMA OtherCallTypes ==
    ASSUME CallTypes, FailedRead \/ ReadRedemptionRequest
    PROVE  CallTypes'
<1>1. redemption \in CallRecord
  BY DEF CallTypes, FailedRead, ReadRedemptionRequest
<1>2. "done" \in CallPc /\ {"ok", "exists", "does not exist"} \subseteq CallResult
      /\ "read" \in CallError
  BY DEF CallResult, CallError, CallPc
<1>3. CASE FailedRead
  BY <1>1, <1>2, <1>3, EscalateTypes DEF CallTypes, FailedRead
<1>5. CASE ReadRedemptionRequest
  <2>1. PICK w \in RedemptionWallet :
            redemption' = [redemption EXCEPT !.pc = "done", !.result =
                              IF w \in pending THEN "exists" ELSE "does not exist"]
    BY <1>5 DEF ReadRedemptionRequest
  <2> QED  BY <1>1, <1>2, <1>5, <2>1, CallUpdates DEF CallTypes, ReadRedemptionRequest
<1> QED  BY <1>3, <1>5

LEMMA RedemptionTypesInit == SdkRedemptionsInit => RedemptionTypes
<1> SUFFICES ASSUME SdkRedemptionsInit PROVE RedemptionTypes
  OBVIOUS
<1>1. \A w \in RedemptionWallet : InitialValue[w] \in Nat
  BY AmountAssumption DEF RedemptionWallet
<1>2. wallets \in [RedemptionWallet -> WalletRecord]
  BY DEF SdkRedemptionsInit, WalletRecord
<1>3. \A w \in RedemptionWallet : history[w] = <<[id |-> 1, value |-> InitialValue[w], pays |-> FALSE]>>
  BY DEF SdkRedemptionsInit
<1>4. \A w \in RedemptionWallet : [id |-> 1, value |-> InitialValue[w], pays |-> FALSE] \in BitcoinTx
  BY <1>1 DEF BitcoinTx
<1>5. history \in [RedemptionWallet -> Seq(BitcoinTx)]
  BY <1>3, <1>4 DEF SdkRedemptionsInit
<1>6. ASSUME NEW w \in RedemptionWallet PROVE MainUtxoIn(w, wallets[w].mainUtxo)
  <2>1. 1 \in DOMAIN history[w] /\ history[w][1].id = 1 /\ wallets[w].mainUtxo = 1
    BY <1>3 DEF SdkRedemptionsInit
  <2> QED  BY <2>1 DEF MainUtxoIn
<1>7. NoCall \in CallRecord
  BY DEF NoCall, CallRecord, CallOp, CallPc, CallResult
<1>8. NotScanned \in ScanRecord
  BY DEF NotScanned, ScanRecord
<1>9. /\ redemption = NoCall /\ scan = [w \in RedemptionWallet |-> NotScanned]
      /\ able = {}
  BY DEF SdkRedemptionsInit
<1> QED  BY <1>2, <1>5, <1>6, <1>7, <1>8, <1>9 DEF RedemptionTypes

\* The steps of the call leave the chains alone.
LEMMA CallStepTypes ==
    ASSUME RedemptionTypes, RedemptionCallStep PROVE CallTypes' /\ ChainTypes'
<1>1. CallTypes /\ ChainTypes
  BY TypesAreBoth
<1>2. ASSUME UNCHANGED wallets, UNCHANGED history PROVE ChainTypes'
  <2>1. wallets' \in [RedemptionWallet -> WalletRecord]
        /\ \A v \in RedemptionWallet : wallets'[v].mainUtxo = wallets[v].mainUtxo
    BY <1>2 DEF RedemptionTypes
  <2> QED  BY <1>1, <1>2, <2>1, MainUtxosKept
<1>4. ASSUME NEW w \in RedemptionWallet,
             \/ ReadWallet(w) \/ ReadWalletWithoutKey(w) \/ ReadPendingRedemption(w)
             \/ ReadMainUtxoHash(w) \/ DetermineWalletMainUtxo(w)
      PROVE  CallTypes' /\ ChainTypes'
  <2>1. CallTypes' /\ UNCHANGED <<wallets, history>>
    BY <1>4, ScanTypes
  <2> QED  BY <2>1, <1>2
<1>5. CASE \/ FetchWallets \/ ResolveScript \/ DetermineValidRedemptionWallet
           \/ FindWalletForRedemption \/ FailedRead \/ ReadRedemptionRequest
           \/ SubmitRequest \/ SubmitL2Request \/ SendFailed
  <2>1. CallTypes'
    BY <1>1, <1>5, FetchWalletsTypes, ResolveScriptTypes, CandidateTypes, FindWalletTypes,
       OtherCallTypes, SubmitTypes
  <2>2. UNCHANGED wallets /\ UNCHANGED history
    BY <1>5 DEF FetchWallets, ResolveScript, DetermineValidRedemptionWallet,
                FindWalletForRedemption, FailedRead, ReadRedemptionRequest, SubmitRequest,
                SubmitL2Request, SendFailed, redemptionChainVars
  <2> QED  BY <2>1, <2>2, <1>2
<1> QED  BY <1>4, <1>5 DEF RedemptionCallStep

\* The calls a caller makes.
LEMMA NewCalls ==
    ASSUME NewRedemptionCall
    PROVE  \E op \in CallOp \ {"none"}, input \in RedeemerInput,
              amount \in TokenAmount \union {0} : NewCall(op, input, amount)
<1>1. {"request", "proxy", "crossChain", "relay", "query"} \subseteq CallOp \ {"none"}
  BY DEF CallOp
<1>2. PICK input \in RedeemerInput, amount \in TokenAmount :
          \/ RequestRedemption(input, amount)
          \/ RequestRedemptionWithProxy(input, amount)
          \/ RequestCrossChainRedemption(input, amount)
          \/ RelayRedemptionRequestToL1(input, amount)
          \/ GetRedemptionRequests(input)
  BY DEF NewRedemptionCall
<1>3. CASE GetRedemptionRequests(input)
  BY <1>1, <1>3 DEF GetRedemptionRequests
<1>4. CASE ~GetRedemptionRequests(input)
  BY <1>1, <1>2, <1>4 DEF RequestRedemption, RequestRedemptionWithProxy,
                          RequestCrossChainRedemption, RelayRedemptionRequestToL1
<1> QED  BY <1>3, <1>4

LEMMA RedemptionTypesNext ==
    RedemptionTypes /\ [SdkRedemptionsNext]_redemptionVars => RedemptionTypes'
<1> SUFFICES ASSUME RedemptionTypes, [SdkRedemptionsNext]_redemptionVars PROVE RedemptionTypes'
  OBVIOUS
<1>1. CASE NewRedemptionCall
  <2>1. PICK op \in CallOp \ {"none"}, input \in RedeemerInput, amount \in TokenAmount \union {0} :
            NewCall(op, input, amount)
    BY <1>1, NewCalls
  <2>2. CallTypes' /\ able' \subseteq RedemptionWallet
    BY <2>1, NewCallTypes
  <2>3. UNCHANGED wallets /\ UNCHANGED history
    BY <2>1 DEF NewCall, redemptionChainVars
  <2>4. ChainTypes /\ wallets' \in [RedemptionWallet -> WalletRecord]
        /\ \A v \in RedemptionWallet : wallets'[v].mainUtxo = wallets[v].mainUtxo
    BY <2>3, TypesAreBoth DEF RedemptionTypes
  <2>5. ChainTypes'
    BY <2>3, <2>4, MainUtxosKept
  <2> QED  BY <2>2, <2>5 DEF RedemptionTypes, CallTypes, ChainTypes
<1>2. CASE (RedemptionCallStep \/ RequestMined \/ L2RequestMined \/ RedemptionWorld) /\ StillAble
  <2>1. CallTypes' /\ ChainTypes'
    BY <1>2, CallStepTypes, WorldTypes, RequestMinedTypes
  <2>2. able' \subseteq RedemptionWallet
    BY <1>2 DEF StillAble, RedemptionTypes
  <2> QED  BY <2>1, <2>2 DEF RedemptionTypes, CallTypes, ChainTypes
<1>3. CASE UNCHANGED redemptionVars
  BY <1>3 DEF redemptionVars, redemptionChainVars, redemptionCallVars, RedemptionTypes, MainUtxoIn
<1> QED  BY <1>1, <1>2, <1>3 DEF SdkRedemptionsNext

-----------------------------------------------------------------------------
(***************************************************************************)
(* No able wallet whose key is read is overlooked.  What the search has    *)
(* read of a wallet that is able all along can only be out of date in the  *)
(* wallet's favour: its main UTXO is the one it was, and its pending value *)
(* has only grown.                                                         *)
(***************************************************************************)
ReadsFavour(w) ==
    /\ scan[w].stage \in {"todo", "live", "free", "hash", "candidate", "noKey"}
    /\ scan[w].stage # "todo" => scan[w].pendingValue <= wallets[w].pendingRedemptionsValue
    /\ scan[w].stage = "hash" => scan[w].utxo = wallets[w].mainUtxo

\* The chunks before the current one have been examined.
ChunksExamined ==
    /\ redemption.index >= 1
    /\ \A i \in DOMAIN Registered :
           i <= (redemption.index - 1) * ConcurrencyLimit => scan[Registered[i]].stage \in Finished

SearchInv ==
    /\ \A w \in able : CanServe(w)
    /\ At("resolve") => scan = [w \in RedemptionWallet |-> NotScanned]
    /\ At("scan") => ChunksExamined /\ \A w \in able : ReadsFavour(w)
    /\ AbleWalletFound

\* Whatever happens to the chains, what is left in able can still serve the request.
LEMMA AbleServe ==
    ASSUME StillAble
    PROVE  /\ able' \subseteq able
           /\ \A w \in able' : CanServe(w)' /\ wallets'[w].mainUtxo = wallets[w].mainUtxo
BY DEF StillAble

\* What others do to an able wallet that stays able is no loss to it.
LEMMA WorldFavours ==
    ASSUME RedemptionTypes, RedemptionWorld, StillAble, NEW w \in able', ReadsFavour(w)
    PROVE  ReadsFavour(w)'
<1>1. w \in RedemptionWallet /\ wallets \in [RedemptionWallet -> WalletRecord]
      /\ wallets'[w].mainUtxo = wallets[w].mainUtxo
  BY AbleServe DEF RedemptionTypes
<1>2. UNCHANGED scan
  BY WorldTypes
<1>3. wallets[w].pendingRedemptionsValue \in Int
  BY <1>1 DEF WalletRecord
<1> DEFINE grows == wallets'[w].pendingRedemptionsValue >= wallets[w].pendingRedemptionsValue
<1>4. grows
  <2>1. CASE ApiRefresh
    BY <2>1, <1>3 DEF ApiRefresh
  <2>2. ASSUME NEW v \in RedemptionWallet, OtherRequest(v) PROVE grows
    <3>1. wallets' = [wallets EXCEPT ![v] =
                          [wallets[v] EXCEPT !.pendingRedemptionsValue = @ + 1]]
      BY <2>2 DEF OtherRequest
    <3>2. CASE w = v
      <4>1. wallets[v] \in WalletRecord
        BY <1>1
      <4>2. wallets'[w].pendingRedemptionsValue = wallets[w].pendingRedemptionsValue + 1
        BY <1>1, <3>1, <3>2, <4>1 DEF WalletRecord
      <4> QED  BY <1>3, <4>2
    <3>3. CASE w # v
      BY <1>1, <1>3, <3>1, <3>3
    <3> QED  BY <3>2, <3>3
  <2>3. ASSUME NEW v \in RedemptionWallet, LeaveLive(v) PROVE grows
    <3>1. wallets' = [wallets EXCEPT ![v] = [wallets[v] EXCEPT !.state = "MovingFunds"]]
      BY <2>3 DEF LeaveLive
    <3>2. CASE w = v
      <4>1. wallets[v] \in WalletRecord
        BY <1>1
      <4>2. wallets'[w].pendingRedemptionsValue = wallets[w].pendingRedemptionsValue
        BY <1>1, <3>1, <3>2, <4>1 DEF WalletRecord
      <4> QED  BY <1>3, <4>2
    <3>3. CASE w # v
      BY <1>1, <1>3, <3>1, <3>3
    <3> QED  BY <3>2, <3>3
  <2>4. ASSUME NEW v \in RedemptionWallet, RedemptionMined(v) PROVE grows
    BY <1>3, <2>4 DEF RedemptionMined
  <2>5. ASSUME NEW v \in RedemptionWallet, RedemptionProved(v) PROVE grows
    <3>1. PICK new \in WalletRecord :
              new.mainUtxo = LatestTx(v).id /\ wallets' = [wallets EXCEPT ![v] = new]
      BY <2>5, ProvedRecord
    <3>2. LatestTx(v).id # wallets[v].mainUtxo
      BY <2>5 DEF RedemptionProved
    <3>3. w # v
      BY <1>1, <3>1, <3>2
    <3> QED  BY <1>1, <1>3, <3>1, <3>3
  <2> QED  BY <2>1, <2>2, <2>3, <2>4, <2>5 DEF RedemptionWorld
<1>5. w \in RedemptionWallet /\ scan \in [RedemptionWallet -> ScanRecord]
  BY <1>1 DEF RedemptionTypes
<1>6. scan[w].pendingValue \in Int /\ wallets'[w].pendingRedemptionsValue \in Int
  <2>1. ChainTypes'
    BY WorldTypes
  <2>2. wallets'[w] \in WalletRecord
    BY <1>1, <2>1 DEF ChainTypes
  <2>3. scan[w] \in ScanRecord
    BY <1>5
  <2> QED  BY <2>2, <2>3 DEF WalletRecord, ScanRecord
<1> QED  BY <1>1, <1>2, <1>3, <1>4, <1>6 DEF ReadsFavour

\* A record about wallet w that is out of date in its favour only.
Favours(record, w) ==
    /\ record.stage \in {"todo", "live", "free", "hash", "candidate", "noKey"}
    /\ record.stage # "todo" => record.pendingValue <= wallets[w].pendingRedemptionsValue
    /\ record.stage = "hash" => record.utxo = wallets[w].mainUtxo

LEMMA AdvanceSearches ==
    ASSUME RedemptionTypes, SearchInv, StillAble, NEW v \in RedemptionWallet, At("scan"),
           scan[v].stage \notin Finished, NEW record \in ScanRecord, Advance(v, record),
           v \in able => Favours(record, v)
    PROVE  SearchInv'
<1>1. /\ scan' = [scan EXCEPT ![v] = record]
      /\ UNCHANGED wallets /\ UNCHANGED redemption
  BY DEF Advance, redemptionChainVars
<1>2. /\ scan \in [RedemptionWallet -> ScanRecord]
      /\ able \subseteq RedemptionWallet
  BY DEF RedemptionTypes
<1>3. ChunksExamined /\ \A w \in able : ReadsFavour(w)
  BY DEF SearchInv
<1>4. \A w \in able' : CanServe(w)'
  BY AbleServe
<1>5. ~At("resolve")' /\ AbleWalletFound'
  BY <1>1 DEF At, AbleWalletFound
<1>6. ChunksExamined'
  <2>1. ASSUME NEW i \in DOMAIN Registered,
               i <= (redemption.index - 1) * ConcurrencyLimit
        PROVE  scan'[Registered[i]].stage \in Finished
    <3>1. Registered[i] \in RedemptionWallet /\ scan[Registered[i]].stage \in Finished
      BY <1>3, <2>1 DEF ChunksExamined, RedemptionWallet
    <3>2. Registered[i] # v
      BY <3>1
    <3> QED  BY <1>1, <1>2, <3>1, <3>2
  <2> QED  BY <1>1, <1>3, <2>1 DEF ChunksExamined
<1>7. ASSUME NEW w \in able' PROVE ReadsFavour(w)'
  <2>1. w \in able /\ w \in RedemptionWallet /\ ReadsFavour(w)
    BY <1>2, <1>3, AbleServe
  <2>2. CASE w = v
    BY <1>1, <1>2, <2>1, <2>2 DEF Favours, ReadsFavour
  <2>3. CASE w # v
    BY <1>1, <1>2, <2>1, <2>3 DEF ReadsFavour
  <2> QED  BY <2>2, <2>3
<1> QED  BY <1>4, <1>5, <1>6, <1>7 DEF SearchInv

\* The search reads an able wallet as able.
LEMMA ScanSearches ==
    ASSUME RedemptionTypes, SearchInv, StillAble, NEW w \in RedemptionWallet,
           \/ ReadWallet(w) \/ ReadWalletWithoutKey(w) \/ ReadPendingRedemption(w)
           \/ ReadMainUtxoHash(w) \/ DetermineWalletMainUtxo(w)
    PROVE  SearchInv'
<1>1. scan[w] \in ScanRecord /\ wallets[w] \in WalletRecord /\ redemption.amount \in Int
  BY DEF RedemptionTypes, CallRecord
<1>2. /\ wallets[w].pendingRedemptionsValue \in Int /\ wallets[w].mainUtxo \in Nat
      /\ scan[w].pendingValue \in Int
  BY <1>1 DEF WalletRecord, ScanRecord
<1>3. At("scan")
  BY DEF ReadWallet, ReadWalletWithoutKey, ReadPendingRedemption, ReadMainUtxoHash,
         DetermineWalletMainUtxo, Scanned
<1>4. scan[w].stage \notin Finished
  BY DEF ReadWallet, ReadWalletWithoutKey, ReadPendingRedemption, ReadMainUtxoHash,
         DetermineWalletMainUtxo, Scanned, Finished
<1>5. w \in able => CanServe(w) /\ ReadsFavour(w)
  BY <1>3 DEF SearchInv
<1> DEFINE Stages == {"todo", "live", "free", "hash"} \union Finished
<1>6. CASE ReadWallet(w) \/ ReadWalletWithoutKey(w)
  <2> DEFINE live == IF ReadWallet(w) THEN "live" ELSE "noKey"
             stage == IF wallets[w].state = "Live" THEN live ELSE "notLive"
             record == [scan[w] EXCEPT !.pendingValue = wallets[w].pendingRedemptionsValue,
                                       !.stage = stage]
  <2>1. stage \in Stages /\ (w \in able => stage \in {"live", "noKey"})
    BY <1>5 DEF Finished, CanServe, BridgeAccepts
  <2>2. Advance(w, record)
    <3>1. CASE ReadWallet(w)
      BY <3>1 DEF ReadWallet
    <3>2. CASE ~ReadWallet(w)
      BY <1>6, <3>2 DEF ReadWalletWithoutKey
    <3> QED  BY <3>1, <3>2
  <2> HIDE DEF stage
  <2>3. /\ record \in ScanRecord
        /\ record.stage = stage /\ record.pendingValue = wallets[w].pendingRedemptionsValue
    BY <1>1, <1>2, <2>1 DEF ScanRecord
  <2> HIDE DEF record
  <2>4. w \in able => Favours(record, w)
    BY <1>2, <2>1, <2>3 DEF Favours
  <2> QED  BY <1>3, <1>4, <2>2, <2>3, <2>4, AdvanceSearches
<1>7. CASE ReadPendingRedemption(w)
  <2> DEFINE stage == IF w \in pending THEN "taken" ELSE "free"
             record == [scan[w] EXCEPT !.stage = stage]
  <2>1. stage \in Stages /\ (w \in able => stage = "free") /\ scan[w].stage = "live"
    BY <1>5, <1>7 DEF Finished, CanServe, BridgeAccepts, ReadPendingRedemption, Scanned
  <2>2. Advance(w, record)
    BY <1>7 DEF ReadPendingRedemption
  <2> HIDE DEF stage
  <2>3. /\ record \in ScanRecord
        /\ record.stage = stage /\ record.pendingValue = scan[w].pendingValue
    BY <1>1, <2>1 DEF ScanRecord
  <2> HIDE DEF record
  <2>4. w \in able => Favours(record, w)
    BY <1>5, <2>1, <2>3 DEF Favours, ReadsFavour
  <2> QED  BY <1>3, <1>4, <2>2, <2>3, <2>4, AdvanceSearches
<1>8. CASE ReadMainUtxoHash(w)
  <2> DEFINE stage == IF wallets[w].mainUtxo = 0 THEN "noUtxo" ELSE "hash"
             record == [scan[w] EXCEPT !.utxo = wallets[w].mainUtxo, !.stage = stage]
  <2>1. stage \in Stages /\ (w \in able => stage = "hash") /\ scan[w].stage = "free"
    BY <1>5, <1>8 DEF Finished, CanServe, BridgeAccepts, ReadMainUtxoHash, Scanned
  <2>2. Advance(w, record)
    BY <1>8 DEF ReadMainUtxoHash
  <2> HIDE DEF stage
  <2>3. /\ record \in ScanRecord
        /\ record.stage = stage /\ record.pendingValue = scan[w].pendingValue
        /\ record.utxo = wallets[w].mainUtxo
    BY <1>1, <1>2, <2>1 DEF ScanRecord
  <2> HIDE DEF record
  <2>4. w \in able => Favours(record, w)
    BY <1>5, <2>1, <2>3 DEF Favours, ReadsFavour
  <2> QED  BY <1>3, <1>4, <2>2, <2>3, <2>4, AdvanceSearches
<1>9. CASE DetermineWalletMainUtxo(w)
  <2> DEFINE balance == ValueOf(w, scan[w].utxo) - scan[w].pendingValue
             stage == IF balance >= redemption.amount THEN "candidate" ELSE "small"
             found == [scan[w] EXCEPT !.balance = balance, !.stage = stage]
             missing == [scan[w] EXCEPT !.stage = "noUtxo"]
  <2>1. Advance(w, IF ~MainUtxoIn(w, scan[w].utxo) THEN missing ELSE found)
        /\ scan[w].stage = "hash"
    BY <1>9 DEF DetermineWalletMainUtxo, Scanned
  <2>2. w \in able => MainUtxoIn(w, scan[w].utxo)
    BY <1>5, <2>1 DEF ReadsFavour, RedemptionTypes
  <2>3. CASE MainUtxoIn(w, scan[w].utxo)
    <3>1. ValueOf(w, scan[w].utxo) \in Int
      BY <2>3, ValueOfInt DEF RedemptionTypes
    <3>2. balance \in Int /\ stage \in Stages
      BY <1>2, <3>1 DEF Finished
    <3>3. w \in able => stage = "candidate"
      <4> SUFFICES ASSUME w \in able PROVE balance >= redemption.amount
        OBVIOUS
      <4>1. /\ scan[w].utxo = wallets[w].mainUtxo
            /\ scan[w].pendingValue <= wallets[w].pendingRedemptionsValue
        BY <1>5, <2>1 DEF ReadsFavour
      <4>2. ValueOf(w, scan[w].utxo) >= wallets[w].pendingRedemptionsValue + redemption.amount
        BY <1>5, <4>1 DEF CanServe, BridgeAccepts, MainUtxoValue
      <4> HIDE DEF ValueOf
      <4> QED  BY <1>1, <1>2, <3>1, <4>1, <4>2
    <3> HIDE DEF balance, stage
    <3>4. /\ found \in ScanRecord
          /\ found.stage = stage /\ found.pendingValue = scan[w].pendingValue
      BY <1>1, <3>2 DEF ScanRecord
    <3>5. Advance(w, found)
      BY <2>1, <2>3
    <3> HIDE DEF found
    <3>6. w \in able => Favours(found, w)
      BY <1>5, <2>1, <3>3, <3>4 DEF Favours, ReadsFavour
    <3> QED  BY <1>3, <1>4, <3>4, <3>5, <3>6, AdvanceSearches
  <2>4. CASE ~MainUtxoIn(w, scan[w].utxo)
    <3>1. missing \in ScanRecord
      BY <1>1 DEF ScanRecord, Finished
    <3>2. Advance(w, missing)
      BY <2>1, <2>4
    <3> HIDE DEF missing
    <3> QED  BY <1>3, <1>4, <2>2, <2>4, <3>1, <3>2, AdvanceSearches
  <2> QED  BY <2>3, <2>4
<1> QED  BY <1>6, <1>7, <1>8, <1>9

\* The search ends without a wallet only when all wallets have been examined and none is
\* a candidate: then those able all along are without a key.
LEMMA FindSearches ==
    ASSUME RedemptionTypes, SearchInv, StillAble, FindWalletForRedemption
    PROVE  SearchInv'
<1>1. /\ At("scan") /\ ChunksExamined /\ \A w \in able : ReadsFavour(w)
      /\ UNCHANGED scan /\ UNCHANGED wallets
      /\ redemption \in CallRecord /\ able \subseteq RedemptionWallet
  BY DEF FindWalletForRedemption, SearchInv, RedemptionTypes, redemptionChainVars
<1>2. redemption.index \in Nat /\ redemption.pc = "scan" /\ ConcurrencyLimit \in Nat
  BY <1>1, ConcurrencyAssumption DEF CallRecord, At
<1>3. \A w \in able' : CanServe(w)'
  BY AbleServe
<1>4. ASSUME NEW i \in DOMAIN Registered, i <= redemption.index * ConcurrencyLimit
      PROVE  scan[Registered[i]].stage \in Finished
  <2>1. CASE i <= (redemption.index - 1) * ConcurrencyLimit
    BY <1>1, <2>1 DEF ChunksExamined
  <2>2. CASE ~(i <= (redemption.index - 1) * ConcurrencyLimit)
    <3>1. i \in Int /\ (redemption.index - 1) * ConcurrencyLimit \in Int
      BY <1>2, RegisteredAssumption
    <3>2. i \in ChunkArray(redemption.index)
      BY <1>4, <2>2, <3>1 DEF ChunkArray
    <3> QED  BY <3>2 DEF FindWalletForRedemption
  <2> QED  BY <2>1, <2>2
<1>5. CASE ~AllChunksDone
  <2>1. redemption' = [redemption EXCEPT !.index = @ + 1]
    BY <1>5 DEF FindWalletForRedemption
  <2>2. redemption'.index = redemption.index + 1 /\ redemption'.pc = "scan"
    BY <1>1, <1>2, <2>1 DEF CallRecord
  <2>3. redemption'.index - 1 = redemption.index /\ redemption'.index >= 1
    BY <1>2, <2>2
  <2>4. ChunksExamined'
    BY <1>1, <1>4, <2>3 DEF ChunksExamined
  <2>5. \A w \in able' : ReadsFavour(w)'
    BY <1>1, AbleServe DEF ReadsFavour
  <2> QED  BY <1>3, <2>2, <2>4, <2>5 DEF SearchInv, At, AbleWalletFound
<1>6. CASE AllChunksDone /\ Fail(ScanError)
  <2>1. redemption'.pc = "failed"
    BY <1>1, <1>6 DEF CallRecord, Fail
  <2>2. ASSUME NEW w \in able, scan[w].stage # "noKey"
        PROVE  \E i \in DOMAIN Registered : scan[Registered[i]].stage = "candidate"
    <3>1. PICK i \in DOMAIN Registered : w = Registered[i]
      BY <1>1 DEF RedemptionWallet
    <3>2. i <= redemption.index * ConcurrencyLimit
      <4>1. i \in Int /\ i <= Len(Registered) /\ Len(Registered) \in Int
        BY RegisteredAssumption
      <4>2. redemption.index * ConcurrencyLimit \in Int
        BY <1>2
      <4> QED  BY <1>6, <4>1, <4>2 DEF AllChunksDone
    <3>3. scan[w].stage \in Finished
      BY <1>4, <3>1, <3>2
    <3>4. scan[w].stage \in {"todo", "live", "free", "hash", "candidate", "noKey"}
      BY <1>1 DEF ReadsFavour
    <3> QED  BY <2>2, <3>1, <3>3, <3>4 DEF Finished
  <2> DEFINE found == {i \in DOMAIN Registered : scan[Registered[i]].stage = "candidate"}
  <2>3. found = {}
    <3>1. CASE found # {}
      <4>1. redemption' = [redemption EXCEPT !.pc = "submit"]
        BY <1>6, <3>1 DEF FindWalletForRedemption
      <4>2. redemption'.pc = "submit"
        BY <1>1, <4>1 DEF CallRecord
      <4> QED  BY <2>1, <4>2
    <3> QED  BY <3>1
  <2>4. \A w \in able' : scan'[w].stage = "noKey"
    BY <1>1, <2>2, <2>3, AbleServe
  <2> QED  BY <1>3, <2>1, <2>4 DEF SearchInv, At, AbleWalletFound
<1>7. CASE redemption' = [redemption EXCEPT !.pc = "submit"]
  <2>1. redemption'.pc = "submit"
    BY <1>1, <1>7 DEF CallRecord
  <2> QED  BY <1>3, <2>1 DEF SearchInv, At, AbleWalletFound
<1> QED  BY <1>5, <1>6, <1>7 DEF FindWalletForRedemption

\* A step after which the search does not go on, and has not ended without a wallet.
LEMMA NoSearch ==
    ASSUME StillAble, redemption'.pc # "scan",
           redemption'.pc = "resolve" => scan' = [w \in RedemptionWallet |-> NotScanned],
           redemption'.pc = "failed" =>
               redemption'.result \notin {"noLive", "allPending", "notEnough"}
    PROVE  SearchInv'
<1>1. \A w \in able' : CanServe(w)'
  BY AbleServe
<1> QED  BY <1>1 DEF SearchInv, At, AbleWalletFound

OtherError == CallError \ {"noLive", "allPending", "notEnough"}

LEMMA FailSearches ==
    ASSUME redemption \in CallRecord, StillAble, NEW error \in OtherError, Fail(error)
    PROVE  SearchInv'
<1>1. redemption'.pc = "failed" /\ redemption'.result = error
  BY DEF CallRecord, Fail
<1>2. error \notin {"noLive", "allPending", "notEnough"}
  BY DEF OtherError
<1> QED  BY <1>1, <1>2, NoSearch

LEMMA EscalateSearches ==
    ASSUME redemption \in CallRecord, StillAble, NEW error \in OtherError, Escalate(error)
    PROVE  SearchInv'
<1>1. CASE Fail(error)
  BY <1>1, FailSearches
<1>2. CASE /\ redemption' = [redemption EXCEPT !.pc = "resolve", !.manual = TRUE, !.attempts = 0]
           /\ scan' = [w \in RedemptionWallet |-> NotScanned]
  <2>1. redemption'.pc = "resolve"
    BY <1>2 DEF CallRecord
  <2> QED  BY <1>2, <2>1, NoSearch
<1> QED  BY <1>1, <1>2 DEF Escalate

LEMMA NotSentSearches ==
    ASSUME redemption \in CallRecord, At("submit"), StillAble, NEW error \in OtherError,
           NotSent(error)
    PROVE  SearchInv'
<1>1. CASE redemption' = [redemption EXCEPT !.attempts = @ + 1]
  <2>1. redemption'.pc = "submit"
    BY <1>1 DEF CallRecord, At
  <2> QED  BY <2>1, NoSearch
<1> QED  BY <1>1, FailSearches, EscalateSearches DEF NotSent

\* The other steps of the call.
LEMMA OtherStepSearches ==
    ASSUME RedemptionTypes, SearchInv, StillAble,
           \/ FetchWallets \/ DetermineValidRedemptionWallet \/ FailedRead
           \/ SubmitRequest \/ SubmitL2Request \/ SendFailed \/ ReadRedemptionRequest
    PROVE  SearchInv'
<1>1. redemption \in CallRecord
  BY DEF RedemptionTypes
<1>2. {"script", "api", "no candidate", "read", "reverted", "lost"} \subseteq OtherError
  BY DEF CallError, OtherError
<1>3. CASE FetchWallets
  <2>1. CASE redemption' = [redemption EXCEPT !.pc = "candidate", !.index = 1]
    <3>1. redemption'.pc = "candidate"
      BY <1>1, <2>1 DEF CallRecord
    <3> QED  BY <3>1, NoSearch
  <2> QED  BY <1>1, <1>2, <1>3, <2>1, FailSearches, EscalateSearches DEF FetchWallets
<1>4. CASE DetermineValidRedemptionWallet
  <2>1. CASE redemption' = [redemption EXCEPT !.index = @ + 1]
    <3>1. redemption'.pc = "candidate"
      BY <1>1, <1>4, <2>1 DEF CallRecord, At, DetermineValidRedemptionWallet
    <3> QED  BY <3>1, NoSearch
  <2>2. CASE redemption' = [redemption EXCEPT !.pc = "submit"]
    <3>1. redemption'.pc = "submit"
      BY <1>1, <2>2 DEF CallRecord
    <3> QED  BY <3>1, NoSearch
  <2> QED  BY <1>1, <1>2, <1>4, <2>1, <2>2, EscalateSearches DEF DetermineValidRedemptionWallet
<1>5. CASE FailedRead
  BY <1>1, <1>2, <1>5, EscalateSearches DEF FailedRead
<1>6. CASE SubmitRequest
  <2>1. CASE Answered
    <3>1. redemption'.pc = "done"
      BY <1>1, <2>1 DEF CallRecord, Answered
    <3> QED  BY <3>1, NoSearch
  <2> QED  BY <1>1, <1>2, <1>6, <2>1, NotSentSearches DEF SubmitRequest
<1>7. CASE SubmitL2Request
  <2>1. CASE Answered
    <3>1. redemption'.pc = "done"
      BY <1>1, <2>1 DEF CallRecord, Answered
    <3> QED  BY <3>1, NoSearch
  <2> QED  BY <1>1, <1>2, <1>7, <2>1, FailSearches DEF SubmitL2Request
<1>9. CASE SendFailed
  BY <1>1, <1>2, <1>9, FailSearches, NotSentSearches DEF SendFailed
<1>8. CASE ReadRedemptionRequest
  <2>1. redemption'.pc = "done"
    BY <1>1, <1>8 DEF CallRecord, ReadRedemptionRequest
  <2> QED  BY <2>1, NoSearch
<1> QED  BY <1>3, <1>4, <1>5, <1>6, <1>7, <1>8, <1>9

\* The search starts at the first chunk, with nothing read.
LEMMA ResolveSearches ==
    ASSUME RedemptionTypes, SearchInv, StillAble, ResolveScript
    PROVE  SearchInv'
<1>1. /\ redemption \in CallRecord /\ able \subseteq RedemptionWallet
      /\ scan = [w \in RedemptionWallet |-> NotScanned]
      /\ UNCHANGED scan /\ UNCHANGED wallets
  BY DEF RedemptionTypes, SearchInv, ResolveScript, redemptionChainVars
<1>2. "script" \in OtherError
  BY DEF CallError, OtherError
<1>3. CASE Fail("script")
  BY <1>1, <1>2, <1>3, FailSearches
<1>4. CASE ~Fail("script")
  <2> DEFINE pc == CASE redemption.op = "crossChain" -> "submitL2"
                     [] redemption.op = "query" -> "query"
                     [] OTHER -> "scan"
  <2>1. redemption' = [redemption EXCEPT !.index = 1, !.pc = pc]
    BY <1>4 DEF ResolveScript
  <2>2. pc \in {"submitL2", "query", "scan"}
    OBVIOUS
  <2> HIDE DEF pc
  <2>3. redemption'.index = 1 /\ redemption'.pc = pc
    BY <1>1, <2>1 DEF CallRecord
  <2>4. ChunksExamined'
    <3>1. ASSUME NEW i \in DOMAIN Registered PROVE ~(i <= (1 - 1) * ConcurrencyLimit)
      BY RegisteredAssumption, ConcurrencyAssumption
    <3> QED  BY <2>3, <3>1 DEF ChunksExamined
  <2>5. \A w \in able' : CanServe(w)'
    BY AbleServe
  <2>6. ASSUME NEW w \in able' PROVE ReadsFavour(w)'
    <3>1. w \in RedemptionWallet
      BY <1>1, AbleServe
    <3>2. scan'[w].stage = "todo"
      BY <1>1, <3>1 DEF NotScanned
    <3> QED  BY <3>2 DEF ReadsFavour
  <2> QED  BY <2>2, <2>3, <2>4, <2>5, <2>6 DEF SearchInv, At, AbleWalletFound
<1> QED  BY <1>3, <1>4

\* What others do.
LEMMA WorldSearches ==
    ASSUME RedemptionTypes, SearchInv, StillAble, RedemptionWorld
    PROVE  SearchInv'
<1>1. UNCHANGED redemption /\ UNCHANGED scan
  BY WorldTypes
<1>2. \A w \in able' : CanServe(w)'
  BY AbleServe
<1>3. ASSUME At("scan") PROVE ChunksExamined' /\ \A w \in able' : ReadsFavour(w)'
  <2>1. ChunksExamined'
    BY <1>1, <1>3 DEF SearchInv, ChunksExamined
  <2>2. ASSUME NEW w \in able' PROVE ReadsFavour(w)'
    <3>1. ReadsFavour(w)
      BY <1>3, AbleServe DEF SearchInv
    <3> QED  BY <3>1, WorldFavours
  <2> QED  BY <2>1, <2>2
<1>4. AbleWalletFound'
  BY <1>1, AbleServe DEF SearchInv, AbleWalletFound
<1> QED  BY <1>1, <1>2, <1>3, <1>4 DEF SearchInv, At

\* A request of the caller's own that is mined takes its wallet from the able ones.
LEMMA RequestMinedSearches ==
    ASSUME RedemptionTypes, SearchInv, StillAble, RequestMined \/ L2RequestMined
    PROVE  SearchInv'
<1>1. UNCHANGED redemption /\ UNCHANGED scan /\ able \subseteq RedemptionWallet
      /\ wallets \in [RedemptionWallet -> WalletRecord]
  BY RequestMinedTypes DEF RedemptionTypes
<1>2. \A w \in able' : CanServe(w)'
  BY AbleServe
<1>3. ASSUME At("scan") PROVE ChunksExamined' /\ \A w \in able' : ReadsFavour(w)'
  <2>1. ChunksExamined'
    BY <1>1, <1>3 DEF SearchInv, ChunksExamined
  <2>2. ASSUME NEW w \in able' PROVE ReadsFavour(w)'
    <3>1. ReadsFavour(w) /\ w \in RedemptionWallet
      BY <1>1, <1>3, AbleServe DEF SearchInv
    <3>2. wallets'[w] = wallets[w]
      <4>1. CASE UNCHANGED wallets
        BY <4>1
      <4>2. CASE ~UNCHANGED wallets
        <5> DEFINE v == Head(inFlight).wallet
        <5>1. /\ wallets' = [wallets EXCEPT ![v].pendingRedemptionsValue = @ + redemption.amount]
              /\ v \in pending'
          BY <4>2 DEF RequestMined, L2RequestMined
        <5> HIDE DEF v
        <5>2. w \notin pending'
          BY <1>2 DEF CanServe, BridgeAccepts
        <5>3. w # v
          BY <5>1, <5>2
        <5> QED  BY <1>1, <3>1, <5>1, <5>3
      <4> QED  BY <4>1, <4>2
    <3> QED  BY <1>1, <3>1, <3>2 DEF ReadsFavour
  <2> QED  BY <2>1, <2>2
<1>4. AbleWalletFound'
  BY <1>1, AbleServe DEF SearchInv, AbleWalletFound
<1> QED  BY <1>1, <1>2, <1>3, <1>4 DEF SearchInv, At

\* A call starts with the wallets that can serve it.
LEMMA NewCallSearches ==
    ASSUME NEW op \in CallOp, NEW input \in RedeemerInput, NEW amount \in TokenAmount \union {0},
           NewCall(op, input, amount)
    PROVE  SearchInv'
<1>1. /\ redemption' = [NoCall EXCEPT !.op = op, !.pc = "resolve", !.input = input,
                            !.amount = AmountToSatoshi(amount)]
      /\ scan' = [w \in RedemptionWallet |-> NotScanned]
      /\ able' = {w \in RedemptionWallet :
                     BridgeAccepts(w, wallets[w].mainUtxo, AmountToSatoshi(amount))}
      /\ UNCHANGED wallets /\ UNCHANGED pending /\ UNCHANGED history
  BY DEF NewCall, redemptionChainVars
<1>2. redemption'.pc = "resolve" /\ redemption'.amount = AmountToSatoshi(amount)
  BY <1>1 DEF NoCall
<1>3. ASSUME NEW w \in able' PROVE CanServe(w)'
  <2>1. BridgeAccepts(w, wallets[w].mainUtxo, redemption'.amount)
    BY <1>1, <1>2
  <2> QED  BY <1>1, <2>1 DEF CanServe, BridgeAccepts, MainUtxoValue, ValueOf
<1> QED  BY <1>1, <1>2, <1>3 DEF SearchInv, At, AbleWalletFound

LEMMA SearchInit == SdkRedemptionsInit => SearchInv
BY DEF SdkRedemptionsInit, SearchInv, NoCall, At, AbleWalletFound

LEMMA SearchNext ==
    RedemptionTypes /\ SearchInv /\ [SdkRedemptionsNext]_redemptionVars => SearchInv'
<1> SUFFICES ASSUME RedemptionTypes, SearchInv, [SdkRedemptionsNext]_redemptionVars
             PROVE  SearchInv'
  OBVIOUS
<1>1. CASE NewRedemptionCall
  <2>1. PICK op \in CallOp \ {"none"}, input \in RedeemerInput, amount \in TokenAmount \union {0} :
            NewCall(op, input, amount)
    BY <1>1, NewCalls
  <2> QED  BY <2>1, NewCallSearches
<1>2. CASE RedemptionCallStep /\ StillAble
  <2>1. ASSUME NEW w \in RedemptionWallet,
               \/ ReadWallet(w) \/ ReadWalletWithoutKey(w) \/ ReadPendingRedemption(w)
               \/ ReadMainUtxoHash(w) \/ DetermineWalletMainUtxo(w)
        PROVE  SearchInv'
    BY <1>2, <2>1, ScanSearches
  <2> QED  BY <1>2, <2>1, FindSearches, OtherStepSearches, ResolveSearches DEF RedemptionCallStep
<1>3. CASE (RequestMined \/ L2RequestMined \/ RedemptionWorld) /\ StillAble
  BY <1>3, WorldSearches, RequestMinedSearches
<1>4. CASE UNCHANGED redemptionVars
  BY <1>4 DEF redemptionVars, redemptionChainVars, redemptionCallVars, SearchInv, At,
              AbleWalletFound, CanServe, BridgeAccepts, MainUtxoValue, ValueOf, ChunksExamined,
              ReadsFavour
<1> QED  BY <1>1, <1>2, <1>3, <1>4 DEF SdkRedemptionsNext

\* The search of the chains ends without a wallet only if every wallet that could have
\* served the request all along is one whose key could not be read, for every number of
\* wallets, chunks of every size and every interleaving of its reads with what others do
\* (findWalletForRedemption).
THEOREM AbleWalletTheorem == SdkRedemptionsSpec => []AbleWalletFound
<1>1. SdkRedemptionsInit => RedemptionTypes /\ SearchInv
  BY RedemptionTypesInit, SearchInit
<1>2. RedemptionTypes /\ SearchInv /\ [SdkRedemptionsNext]_redemptionVars
          => RedemptionTypes' /\ SearchInv'
  BY RedemptionTypesNext, SearchNext
<1>3. SearchInv => AbleWalletFound
  BY DEF SearchInv
<1> QED  BY <1>1, <1>2, <1>3, PTL DEF SdkRedemptionsSpec

-----------------------------------------------------------------------------
(***************************************************************************)
(* Requests are accounted for.                                             *)
(***************************************************************************)
Succeeded == redemption.result = "ok"
Counters == sent \in Nat /\ made \in Nat /\ lost \in Nat /\ \E S : inFlight \in Seq(S)

AccountInv ==
    /\ RequestsAccountedFor
    /\ Succeeded => At("done")
    /\ Counters

\* A step that sends nothing and does not succeed.
LEMMA NoRequest ==
    ASSUME AccountInv, UNCHANGED requestVars, ~At("done"), redemption'.result # "ok"
    PROVE  AccountInv'
<1>1. UNCHANGED <<inFlight, sent, made, lost>>
  BY DEF requestVars
<1> QED  BY <1>1 DEF AccountInv, RequestsAccountedFor, Succeeded, Counters

\* An error is not a success.
LEMMA ErrorOutcome ==
    ASSUME redemption \in CallRecord, redemption.result # "ok",
           NEW error \in CallError, Escalate(error) \/ Fail(error) \/ NotSent(error)
    PROVE  redemption'.result # "ok"
<1>1. error # "ok"
  BY DEF CallError
<1>2. CASE redemption' = [redemption EXCEPT !.pc = "failed", !.result = error]
  BY <1>1, <1>2 DEF CallRecord
<1>3. CASE redemption' = [redemption EXCEPT !.pc = "resolve", !.manual = TRUE, !.attempts = 0]
  BY <1>3 DEF CallRecord
<1>4. CASE redemption' = [redemption EXCEPT !.attempts = @ + 1]
  BY <1>4 DEF CallRecord
<1> QED  BY <1>2, <1>3, <1>4 DEF Escalate, Fail, NotSent

\* A step of a call in progress.
LEMMA CallInProgress ==
    ASSUME AccountInv, ~At("done")
    PROVE  ~Succeeded /\ sent <= lost /\ made + Len(inFlight) <= sent
BY DEF AccountInv, RequestsAccountedFor, Succeeded, Counters

LEMMA QuietStepAccounts ==
    ASSUME RedemptionTypes, AccountInv,
           \/ FetchWallets \/ ResolveScript \/ DetermineValidRedemptionWallet
           \/ FindWalletForRedemption \/ FailedRead \/ ReadRedemptionRequest
    PROVE  AccountInv'
<1>1. redemption \in CallRecord /\ UNCHANGED requestVars
  BY DEF RedemptionTypes, FetchWallets, ResolveScript, DetermineValidRedemptionWallet,
         FindWalletForRedemption, FailedRead, ReadRedemptionRequest
<1>2. redemption.pc \in {"resolve", "candidate", "scan", "query"}
  BY DEF FetchWallets, ResolveScript, DetermineValidRedemptionWallet,
         FindWalletForRedemption, FailedRead, ReadRedemptionRequest, At
<1>3. ~At("done") /\ redemption.result # "ok"
  BY <1>2, CallInProgress DEF At, Succeeded
<1>4. {"script", "api", "no candidate", "read", ScanError} \subseteq CallError
  BY DEF CallError, ScanError
<1>5. ASSUME NEW error \in {"script", "api", "no candidate", "read", ScanError},
             Escalate(error) \/ Fail(error)
      PROVE  AccountInv'
  <2>1. redemption'.result # "ok"
    BY <1>1, <1>3, <1>4, <1>5, ErrorOutcome
  <2> QED  BY <1>1, <1>3, <2>1, NoRequest
<1>6. ASSUME redemption'.result = redemption.result PROVE AccountInv'
  BY <1>1, <1>3, <1>6, NoRequest
<1>7. CASE FetchWallets
  <2>1. CASE redemption' = [redemption EXCEPT !.pc = "candidate", !.index = 1]
    BY <1>1, <1>6, <2>1 DEF CallRecord
  <2> QED  BY <1>5, <1>7, <2>1 DEF FetchWallets
<1>8. CASE ResolveScript
  <2>1. CASE ~Fail("script")
    <3> DEFINE pc == CASE redemption.op = "crossChain" -> "submitL2"
                       [] redemption.op = "query" -> "query"
                       [] OTHER -> "scan"
    <3>1. redemption' = [redemption EXCEPT !.index = 1, !.pc = pc]
      BY <1>8, <2>1 DEF ResolveScript
    <3> HIDE DEF pc
    <3>2. redemption'.result = redemption.result
      BY <1>1, <3>1 DEF CallRecord
    <3> QED  BY <1>6, <3>2
  <2> QED  BY <1>5, <2>1
<1>9. CASE DetermineValidRedemptionWallet
  <2>1. CASE redemption' = [redemption EXCEPT !.index = @ + 1]
    BY <1>1, <1>2, <1>6, <2>1 DEF CallRecord
  <2>2. CASE redemption' = [redemption EXCEPT !.pc = "submit"]
    BY <1>1, <1>6, <2>2 DEF CallRecord
  <2> QED  BY <1>5, <1>9, <2>1, <2>2 DEF DetermineValidRedemptionWallet
<1>10. CASE FindWalletForRedemption
  <2>1. CASE redemption' = [redemption EXCEPT !.index = @ + 1]
    BY <1>1, <1>2, <1>6, <2>1 DEF CallRecord
  <2>2. CASE redemption' = [redemption EXCEPT !.pc = "submit"]
    BY <1>1, <1>6, <2>2 DEF CallRecord
  <2> QED  BY <1>5, <1>10, <2>1, <2>2 DEF FindWalletForRedemption
<1>11. CASE FailedRead
  BY <1>5, <1>11 DEF FailedRead
<1>12. CASE ReadRedemptionRequest
  <2>1. redemption'.result \in {"exists", "does not exist"}
    BY <1>1, <1>12 DEF ReadRedemptionRequest, CallRecord
  <2> QED  BY <1>1, <1>3, <2>1, NoRequest
<1> QED  BY <1>7, <1>8, <1>9, <1>10, <1>11, <1>12

\* A submission sends one transaction, and either answers or loses its reply.
LEMMA SubmitAccounts ==
    ASSUME RedemptionTypes, AccountInv, SubmitRequest \/ SubmitL2Request \/ SendFailed
    PROVE  AccountInv'
<1>1. redemption \in CallRecord /\ Counters
  BY DEF RedemptionTypes, AccountInv
<1>2. redemption.pc \in {"submit", "submitL2"} /\ ~At("done")
  BY DEF SubmitRequest, SubmitL2Request, SendFailed, At
<1>3. redemption.result # "ok" /\ sent <= lost /\ made + Len(inFlight) <= sent
  BY <1>2, CallInProgress DEF Succeeded
<1>4. {"lost", "reverted", "read"} \subseteq CallError
  BY DEF CallError
<1>5. ASSUME Sent PROVE sent' = sent + 1 /\ Len(inFlight') = Len(inFlight) + 1
                        /\ \E S : inFlight' \in Seq(S)
  <2>1. PICK S : inFlight \in Seq(S)
    BY <1>1 DEF Counters
  <2> DEFINE T == S \union {chosen}
  <2>2. inFlight \in Seq(T) /\ chosen \in T
    BY <2>1
  <2> HIDE DEF T
  <2>3. inFlight' = Append(inFlight, chosen)
    BY <1>5 DEF Sent
  <2>4. inFlight' \in Seq(T) /\ Len(inFlight') = Len(inFlight) + 1
    BY <2>2, <2>3
  <2> QED  BY <1>5, <2>4 DEF Sent
<1>6. Len(inFlight) \in Nat
  BY <1>1 DEF Counters
<1>7. CASE Sent /\ UNCHANGED made /\ Answered /\ UNCHANGED lost
  <2>1. redemption'.result = "ok" /\ redemption'.pc = "done"
    BY <1>1, <1>7 DEF Answered, CallRecord
  <2>2. sent' = sent + 1 /\ made' = made /\ lost' = lost /\ Len(inFlight') = Len(inFlight) + 1
    BY <1>5, <1>7
  <2>3. Counters'
    BY <1>1, <1>5, <1>7, <2>2 DEF Counters
  <2>4. RequestsAccountedFor'
    BY <1>1, <1>3, <1>6, <2>1, <2>2 DEF RequestsAccountedFor, Counters
  <2> QED  BY <2>1, <2>3, <2>4 DEF AccountInv, At
<1>8. CASE Sent /\ UNCHANGED made /\ lost' = lost + 1 /\ redemption'.result # "ok"
  <2>1. sent' = sent + 1 /\ made' = made /\ lost' = lost + 1
        /\ Len(inFlight') = Len(inFlight) + 1
    BY <1>5, <1>8
  <2>2. Counters'
    BY <1>1, <1>5, <1>8, <2>1 DEF Counters
  <2>3. RequestsAccountedFor'
    BY <1>1, <1>3, <1>6, <1>8, <2>1 DEF RequestsAccountedFor, Counters
  <2> QED  BY <1>8, <2>2, <2>3 DEF AccountInv, Succeeded
<1>9. ASSUME NEW error \in {"lost", "reverted", "read"}, NotSent(error) \/ Fail(error)
      PROVE  redemption'.result # "ok"
  BY <1>1, <1>3, <1>4, <1>9, ErrorOutcome
<1>10. CASE redemption'.result # "ok" /\ UNCHANGED <<inFlight, sent, made, lost>>
  BY <1>2, <1>10, NoRequest DEF requestVars
<1>11. CASE SubmitRequest
  BY <1>7, <1>8, <1>9, <1>10, <1>11 DEF SubmitRequest
<1>12. CASE SubmitL2Request
  BY <1>7, <1>8, <1>9, <1>12 DEF SubmitL2Request
<1>13. CASE SendFailed
  BY <1>9, <1>10, <1>13 DEF SendFailed, requestVars
<1> QED  BY <1>11, <1>12, <1>13

\* A transaction that is mined is no longer in flight, whether it is granted or reverts.
LEMMA MinedAccounts ==
    ASSUME AccountInv, RequestMined \/ L2RequestMined
    PROVE  AccountInv'
<1>1. PICK S : inFlight \in Seq(S)
  BY DEF AccountInv, Counters
<1>2. inFlight # <<>> /\ inFlight' = Tail(inFlight) /\ UNCHANGED <<redemption, sent, lost>>
  BY DEF RequestMined, L2RequestMined, redemptionCallVars
<1>3. inFlight' \in Seq(S) /\ Len(inFlight') = Len(inFlight) - 1 /\ Len(inFlight) \in Nat
  BY <1>1, <1>2
<1>4. made' \in {made, made + 1}
  BY DEF RequestMined, L2RequestMined
<1>5. Counters'
  BY <1>2, <1>3, <1>4 DEF AccountInv, Counters
<1> QED  BY <1>2, <1>3, <1>4, <1>5 DEF AccountInv, RequestsAccountedFor, Succeeded, At, Counters

\* A step that does not concern the call.
LEMMA ForeignStepAccounts ==
    ASSUME AccountInv, UNCHANGED redemption, UNCHANGED requestVars
    PROVE  AccountInv'
BY DEF AccountInv, RequestsAccountedFor, Succeeded, At, Counters, requestVars

LEMMA AccountNext ==
    RedemptionTypes /\ AccountInv /\ [SdkRedemptionsNext]_redemptionVars => AccountInv'
<1> SUFFICES ASSUME RedemptionTypes, AccountInv, [SdkRedemptionsNext]_redemptionVars
             PROVE  AccountInv'
  OBVIOUS
<1>1. CASE NewRedemptionCall
  <2>1. PICK op \in CallOp \ {"none"}, input \in RedeemerInput, amount \in TokenAmount \union {0} :
            NewCall(op, input, amount)
    BY <1>1, NewCalls
  <2>2. /\ redemption'.result = "none"
        /\ inFlight' = <<>> /\ sent' = 0 /\ made' = 0 /\ lost' = 0
    BY <2>1 DEF NewCall, NoCall
  <2>3. inFlight' \in Seq({}) /\ Len(inFlight') = 0
    BY <2>2
  <2> QED  BY <2>2, <2>3 DEF AccountInv, RequestsAccountedFor, Succeeded, Counters
<1>3. CASE RedemptionCallStep
  <2>1. ASSUME NEW w \in RedemptionWallet,
               \/ ReadWallet(w) \/ ReadWalletWithoutKey(w) \/ ReadPendingRedemption(w)
               \/ ReadMainUtxoHash(w) \/ DetermineWalletMainUtxo(w)
        PROVE  AccountInv'
    <3>1. UNCHANGED redemption /\ UNCHANGED requestVars
      BY <2>1 DEF ReadWallet, ReadWalletWithoutKey, ReadPendingRedemption, ReadMainUtxoHash,
                  DetermineWalletMainUtxo, Advance
    <3> QED  BY <3>1, ForeignStepAccounts
  <2> QED  BY <1>3, <2>1, QuietStepAccounts, SubmitAccounts DEF RedemptionCallStep
<1>4. CASE RedemptionWorld
  <2>1. UNCHANGED redemption /\ UNCHANGED requestVars
    BY <1>4, WorldTypes
  <2> QED  BY <2>1, ForeignStepAccounts
<1>5. CASE UNCHANGED redemptionVars
  <2>1. UNCHANGED redemption /\ UNCHANGED requestVars
    BY <1>5 DEF redemptionVars, redemptionCallVars
  <2> QED  BY <2>1, ForeignStepAccounts
<1>6. CASE RequestMined \/ L2RequestMined
  BY <1>6, MinedAccounts
<1> QED  BY <1>1, <1>3, <1>4, <1>5, <1>6 DEF SdkRedemptionsNext

\* A call that answers has sent a transaction; no call sends more than one and one more for
\* each whose sending was reported as a failure, through every retry and through the change
\* to the manual way, and no more than that is granted, for every bound on the faults.
THEOREM RequestsTheorem == SdkRedemptionsSpec => []RequestsAccountedFor
<1>1. SdkRedemptionsInit => RedemptionTypes /\ AccountInv
  <2>1. SdkRedemptionsInit => AccountInv
    <3>1. <<>> \in Seq({}) /\ Len(<<>>) = 0
      OBVIOUS
    <3> QED  BY <3>1 DEF SdkRedemptionsInit, NoCall, AccountInv, RequestsAccountedFor, Succeeded,
                         Counters
  <2> QED  BY <2>1, RedemptionTypesInit
<1>2. RedemptionTypes /\ AccountInv /\ [SdkRedemptionsNext]_redemptionVars
          => RedemptionTypes' /\ AccountInv'
  BY RedemptionTypesNext, AccountNext
<1>3. AccountInv => RequestsAccountedFor
  BY DEF AccountInv
<1> QED  BY <1>1, <1>2, <1>3, PTL DEF SdkRedemptionsSpec

-----------------------------------------------------------------------------
(***************************************************************************)
(* Deposits: types.                                                        *)
(***************************************************************************)
OwnerName == ChainOwner \union {"none", ZeroOwner}
Loaded == [chain : DestinationChain, owner : OwnerName]
SdkRecord == [network : {"none", "mainnet", "sepolia"}, loader : BOOLEAN,
              depositor : OwnerName, loaded : [DestinationChain -> Nat]]
Extra == [bytes : {0, 32}, owner : OwnerName]
RefundKey == {r.key : r \in RecoveryAddress}
DepositorName == OwnerName \union {L1Depositor(c) : c \in DestinationChain}
Receipt == [depositor : DepositorName, wallet : DepositWallet \union {"none"},
            refundKey : RefundKey, refundLocktime : [order : {"little"}, value : Int],
            extraData : Extra]
RevealMode == {"Direct", "L1Transaction", "L2Transaction"}
DepositObject == [receipt : Receipt, via : Nat, mode : RevealMode]
Output == [object : Nat, script : Receipt, type : {"P2SH", "P2WSH"},
           value : {DepositValue}, spent : BOOLEAN]
MintingPc == {"idle", "post", "done", "failed"} \union RevealMode
MintingError == {"none", "reverted", "no owner", "owner format", "known", "timeout",
                 "unavailable", "refused"}
Minting == [object : Nat, pc : MintingPc, output : Nat, extra : Extra, attempt : Nat,
            error : MintingError]

DepositTypes ==
    /\ sdk \in SdkRecord
    /\ interfaces \in Seq(Loaded)
    /\ depositWallets.active \in DepositWallet \union {"none"}
    /\ now \in Nat
    /\ objects \in Seq(DepositObject)
    /\ outputs \in Seq(Output)
    /\ minting \in Minting

(***************************************************************************)
(* What is funded is the script of the object it was made for, and nothing *)
(* that happens later changes either.                                      *)
(***************************************************************************)
LoadedInv ==
    \A c \in DestinationChain : sdk.loaded[c] # 0 =>
        sdk.loaded[c] \in DOMAIN interfaces /\ interfaces[sdk.loaded[c]].chain = c

\* A deposit for another chain names the L1 contract of the chain that it was loaded for,
\* and has 32 bytes of extra data.
CrossChain(object, loaded) ==
    object.mode = "L2Transaction" =>
        /\ object.via \in DOMAIN loaded
        /\ object.receipt.depositor = L1Depositor(loaded[object.via].chain)
        /\ object.receipt.extraData.bytes = 32
ObjectsInv == \A i \in DOMAIN objects : CrossChain(objects[i], interfaces)

Funds(o, list) == o.object \in DOMAIN list /\ o.script = list[o.object].receipt
OutputsInv == \A n \in DOMAIN outputs : Funds(outputs[n], objects)

\* What was handed over is of a deposit for another chain, and its extra data.
HandedOver(j, paid, list) ==
    /\ j.output \in DOMAIN paid
    /\ list[paid[j.output].object].mode = "L2Transaction"
    /\ j.extra = paid[j.output].script.extraData
JobsInv == \A j \in jobs : HandedOver(j, outputs, objects)

\* The call in progress is about an output of its object, and what it is about to hand over
\* is the extra data of the deposit.
Mints(m, paid, list) ==
    /\ m.pc \notin {"idle", "done", "failed"} =>
           m.output \in DOMAIN paid /\ paid[m.output].object = m.object
    /\ m.pc \in {"L2Transaction", "post"} => list[m.object].mode = "L2Transaction"
    /\ m.pc = "post" => m.extra = list[m.object].receipt.extraData
MintingInv == Mints(minting, outputs, objects)

DepositInv ==
    DepositTypes /\ LoadedInv /\ ObjectsInv /\ OutputsInv /\ JobsInv /\ MintingInv

-----------------------------------------------------------------------------
\* The interfaces of a chain may be given a new owner, and new ones may be loaded.
LEMMA InterfacesGrow ==
    ASSUME DepositInv, interfaces' \in Seq(Loaded), sdk' \in SdkRecord, LoadedInv',
           \A k \in DOMAIN interfaces :
               k \in DOMAIN interfaces' /\ interfaces'[k].chain = interfaces[k].chain,
           UNCHANGED <<depositWallets, now, objects, outputs, jobs, minting>>
    PROVE  DepositInv'
<1>1. DepositTypes'
  BY DEF DepositInv, DepositTypes
<1>2. ObjectsInv'
  BY DEF DepositInv, ObjectsInv, CrossChain
<1>3. OutputsInv' /\ JobsInv' /\ MintingInv'
  BY DEF DepositInv, OutputsInv, JobsInv, MintingInv
<1> QED  BY <1>1, <1>2, <1>3 DEF DepositInv

LEMMA InitializeEthereumKeeps ==
    ASSUME DepositInv, NEW network \in {"mainnet", "sepolia"}, NEW signer \in SdkSigner,
           NEW support \in BOOLEAN, InitializeEthereum(network, signer, support)
    PROVE  DepositInv'
<1>1. EthereumAddressFromSigner(signer) \in OwnerName
  BY DEF EthereumAddressFromSigner, OwnerName, SdkSigner
<1>2. sdk' = [NothingLoaded EXCEPT !.network = network, !.loader = support,
                  !.depositor = EthereumAddressFromSigner(signer)]
  BY DEF InitializeEthereum
<1>3. NothingLoaded \in SdkRecord
  <2>1. "none" \in OwnerName
    BY DEF OwnerName
  <2> QED  BY <2>1 DEF NothingLoaded, SdkRecord
<1>4. sdk' \in SdkRecord /\ sdk'.loaded = NothingLoaded.loaded
  <2> HIDE DEF NothingLoaded, EthereumAddressFromSigner
  <2> QED  BY <1>1, <1>2, <1>3 DEF SdkRecord
<1>5. \A c \in DestinationChain : sdk'.loaded[c] = 0
  BY <1>4 DEF NothingLoaded
<1>6. LoadedInv'
  BY <1>5 DEF LoadedInv
<1>7. UNCHANGED <<interfaces, depositWallets, now, objects, outputs, jobs, minting>>
  BY DEF InitializeEthereum
<1>8. interfaces' \in Seq(Loaded)
  BY <1>7 DEF DepositInv, DepositTypes
<1> QED  BY <1>4, <1>6, <1>7, <1>8, InterfacesGrow

LEMMA InitializeCrossChainKeeps ==
    ASSUME DepositInv, NEW chain \in DestinationChain, NEW signer \in SdkSigner,
           InitializeCrossChain(chain, signer)
    PROVE  DepositInv'
<1> DEFINE new == CASE chain = "Base" -> LoadBaseCrossChainInterfaces(signer)
                    [] chain = "Arbitrum" -> LoadArbitrumCrossChainInterfaces(signer)
                    [] chain = "StarkNet" -> LoadStarkNetCrossChainInterfaces(signer)
                    [] chain = "Sui" -> LoadSuiCrossChainInterfaces(signer)
                    [] chain = "Solana" -> LoadSolanaCrossChainInterfaces(signer)
                    [] chain = "Sei" -> ConstructSeiDepositor(signer)
<1>1. new.owner \in OwnerName
  <2>1. EthereumAddressFromSigner(signer) \in OwnerName /\ signer.owner \in OwnerName
        /\ ExtractStarkNetAddress(signer) \in OwnerName
    BY DEF EthereumAddressFromSigner, ExtractStarkNetAddress, OwnerName, SdkSigner
  <2> HIDE DEF EthereumAddressFromSigner, ExtractStarkNetAddress
  <2> QED  BY <2>1, ChainAssumption
           DEF LoadBaseCrossChainInterfaces, LoadArbitrumCrossChainInterfaces, LoadOnSignersChain,
               LoadStarkNetCrossChainInterfaces, LoadSuiCrossChainInterfaces,
               LoadSolanaCrossChainInterfaces, ConstructSeiDepositor
<1>2. interfaces' = Append(interfaces, [chain |-> chain, owner |-> new.owner])
  BY DEF InitializeCrossChain
<1> HIDE DEF new
<1>3. interfaces \in Seq(Loaded) /\ sdk \in SdkRecord
  BY DEF DepositInv, DepositTypes
<1> DEFINE k == Len(interfaces) + 1
<1>4. /\ [chain |-> chain, owner |-> new.owner] \in Loaded
      /\ k \in Nat
  BY <1>1, <1>3 DEF Loaded
<1>5. /\ interfaces' \in Seq(Loaded) /\ k \in DOMAIN interfaces' /\ interfaces'[k].chain = chain
      /\ Len(interfaces') = k
      /\ \A i \in DOMAIN interfaces : i \in DOMAIN interfaces' /\ interfaces'[i] = interfaces[i]
  BY <1>2, <1>3, <1>4
<1>6. sdk' = [sdk EXCEPT !.loaded = [@ EXCEPT ![chain] = k]]
  BY <1>5 DEF InitializeCrossChain
<1> HIDE DEF k
<1>7. sdk' \in SdkRecord /\ sdk'.loaded = [sdk.loaded EXCEPT ![chain] = k]
  BY <1>3, <1>4, <1>6 DEF SdkRecord
<1>8. LoadedInv'
  <2>1. ASSUME NEW c \in DestinationChain, sdk'.loaded[c] # 0
        PROVE  sdk'.loaded[c] \in DOMAIN interfaces' /\ interfaces'[sdk'.loaded[c]].chain = c
    <3>1. sdk.loaded \in [DestinationChain -> Nat]
      BY <1>3 DEF SdkRecord
    <3>2. CASE c = chain
      BY <1>5, <1>7, <3>1, <3>2
    <3>3. CASE c # chain
      <4>1. sdk'.loaded[c] = sdk.loaded[c]
        BY <1>7, <3>1, <3>3
      <4> QED  BY <1>5, <2>1, <4>1 DEF DepositInv, LoadedInv
    <3> QED  BY <3>2, <3>3
  <2> QED  BY <2>1 DEF LoadedInv
<1>9. UNCHANGED <<depositWallets, now, objects, outputs, jobs, minting>>
  BY DEF InitializeCrossChain
<1> QED  BY <1>5, <1>7, <1>8, <1>9, InterfacesGrow

LEMMA SetDepositOwnerKeeps ==
    ASSUME DepositInv, NEW k \in DOMAIN interfaces, NEW owner \in ChainOwner,
           SetDepositOwner(k, owner)
    PROVE  DepositInv'
<1>1. interfaces \in Seq(Loaded) /\ owner \in OwnerName
  BY DEF DepositInv, DepositTypes, OwnerName
<1>2. interfaces' = [interfaces EXCEPT ![k] = [interfaces[k] EXCEPT !.owner = owner]]
  BY DEF SetDepositOwner
<1>3. interfaces[k] \in Loaded
  BY <1>1
<1> DEFINE new == [interfaces[k] EXCEPT !.owner = owner]
<1>4. new \in Loaded /\ new.chain = interfaces[k].chain
  BY <1>1, <1>3 DEF Loaded
<1> HIDE DEF new
<1>5. interfaces' = [interfaces EXCEPT ![k] = new]
  BY <1>2 DEF new
<1>6. /\ interfaces' \in Seq(Loaded)
      /\ DOMAIN interfaces' = DOMAIN interfaces
      /\ \A i \in DOMAIN interfaces : interfaces'[i].chain = interfaces[i].chain
  BY <1>1, <1>4, <1>5
<1>7. UNCHANGED <<sdk, depositWallets, now, objects, outputs, jobs, minting>>
  BY DEF SetDepositOwner
<1>8. sdk' \in SdkRecord
  BY <1>7 DEF DepositInv, DepositTypes
<1>9. LoadedInv'
  BY <1>6, <1>7 DEF DepositInv, LoadedInv
<1> QED  BY <1>6, <1>7, <1>8, <1>9, InterfacesGrow

-----------------------------------------------------------------------------
\* A new object leaves the others as they are.
LEMMA ObjectsGrow ==
    ASSUME DepositInv, NEW object \in DepositObject, CrossChain(object, interfaces),
           objects' = Append(objects, object),
           UNCHANGED <<sdk, interfaces, depositWallets, now, outputs, jobs, minting>>
    PROVE  DepositInv'
<1>1. objects \in Seq(DepositObject) /\ outputs \in Seq(Output) /\ minting \in Minting
  BY DEF DepositInv, DepositTypes
<1>2. /\ objects' \in Seq(DepositObject)
      /\ \A i \in DOMAIN objects : i \in DOMAIN objects' /\ objects'[i] = objects[i]
      /\ \A i \in DOMAIN objects' : i \in DOMAIN objects \/ objects'[i] = object
  BY <1>1
<1>3. DepositTypes' /\ LoadedInv'
  BY <1>2 DEF DepositInv, DepositTypes, LoadedInv
<1>4. ObjectsInv'
  BY <1>2 DEF DepositInv, ObjectsInv, CrossChain
<1>5. OutputsInv'
  BY <1>2 DEF DepositInv, OutputsInv, Funds
<1>6. \A n \in DOMAIN outputs : outputs[n].object \in DOMAIN objects
  BY DEF DepositInv, OutputsInv, Funds
<1>7. JobsInv'
  BY <1>2, <1>6 DEF DepositInv, JobsInv, HandedOver
<1>8. MintingInv'
  BY <1>2, <1>6 DEF DepositInv, MintingInv, Mints
<1> QED  BY <1>3, <1>4, <1>5, <1>7, <1>8 DEF DepositInv

\* What a receipt is made of.
LEMMA ReceiptTyped ==
    ASSUME DepositTypes, NEW recovery \in RecoveryAddress, NEW depositor \in DepositorName,
           NEW extra \in Extra
    PROVE  /\ GenerateDepositReceipt(recovery, depositor, extra) \in Receipt
           /\ GenerateDepositReceipt(recovery, depositor, extra).depositor = depositor
           /\ GenerateDepositReceipt(recovery, depositor, extra).extraData = extra
<1>1. CalculateLocktime \in [order : {"little"}, value : Int]
  BY DurationAssumption DEF DepositTypes, CalculateLocktime, ByteReversed
<1>2. recovery.key \in RefundKey
  BY DEF RefundKey
<1> QED  BY <1>1, <1>2 DEF DepositTypes, GenerateDepositReceipt, Receipt

LEMMA InitiateDepositKeeps ==
    ASSUME DepositInv, NEW recovery \in RecoveryAddress, NEW extra \in ExtraDataGiven,
           InitiateDeposit(recovery, extra)
    PROVE  DepositInv'
<1> DEFINE receipt == GenerateDepositReceipt(recovery, sdk.depositor, extra)
           object == [receipt |-> receipt, via |-> 0, mode |-> "Direct"]
<1>1. sdk.depositor \in DepositorName
  BY DEF DepositInv, DepositTypes, SdkRecord, DepositorName
<1>2. extra \in Extra
  <2>1. ExtraDataAccepted(extra)
    BY DEF InitiateDeposit, ReceiptAccepted
  <2> QED  BY <2>1 DEF ExtraDataAccepted, ExtraDataGiven, NoExtra, Extra, OwnerName
<1>3. receipt \in Receipt
  BY <1>1, <1>2, ReceiptTyped DEF DepositInv
<1> HIDE DEF receipt
<1>4. object \in DepositObject /\ CrossChain(object, interfaces)
  BY <1>3 DEF DepositObject, RevealMode, CrossChain
<1>5. /\ objects' = Append(objects, object)
      /\ UNCHANGED <<sdk, interfaces, depositWallets, now, outputs, jobs, minting>>
  BY DEF InitiateDeposit, NewObject, receipt
<1> HIDE DEF object
<1> QED  BY <1>4, <1>5, ObjectsGrow

LEMMA InitiateCrossChainDepositKeeps ==
    ASSUME DepositInv, NEW recovery \in RecoveryAddress, NEW chain \in DestinationChain,
           NEW mode \in {"L1Transaction", "L2Transaction"},
           InitiateCrossChainDeposit(recovery, chain, mode)
    PROVE  DepositInv'
<1> DEFINE via == sdk.loaded[chain]
           owner == interfaces[via].owner
           extra == EncodeDepositOwner(owner)
           receipt == GenerateDepositReceipt(recovery, L1Depositor(chain), extra)
           object == [receipt |-> receipt, via |-> via, mode |-> mode]
<1>1. via \in DOMAIN interfaces /\ interfaces[via].chain = chain /\ via \in Nat
  BY DEF InitiateCrossChainDeposit, DepositInv, LoadedInv, DepositTypes, SdkRecord
<1>2. interfaces[via] \in Loaded
  BY <1>1 DEF DepositInv, DepositTypes
<1>3. owner \in OwnerName
  BY <1>2 DEF Loaded
<1>4. extra \in Extra /\ extra.bytes = 32
  BY <1>3 DEF Extra, EncodeDepositOwner
<1>5. L1Depositor(chain) \in DepositorName
  BY DEF DepositorName
<1>6. /\ objects' = Append(objects, object)
      /\ UNCHANGED <<sdk, interfaces, depositWallets, now, outputs, jobs, minting>>
  BY DEF InitiateCrossChainDeposit, InitiateDepositWithProxy, NewObject
<1> HIDE DEF via, extra, L1Depositor
<1>7. receipt \in Receipt /\ receipt.depositor = L1Depositor(chain) /\ receipt.extraData = extra
  BY <1>4, <1>5, ReceiptTyped DEF DepositInv
<1> HIDE DEF receipt
<1>8. object \in DepositObject /\ CrossChain(object, interfaces)
  BY <1>1, <1>4, <1>7 DEF DepositObject, RevealMode, CrossChain
<1> HIDE DEF object
<1> QED  BY <1>6, <1>8, ObjectsGrow

\* A new output, paid to the address of an object.
LEMMA FundOutputKeeps ==
    ASSUME DepositInv, NEW i \in DOMAIN objects, NEW type \in {"P2SH", "P2WSH"},
           FundOutput(i, type, DepositValue)
    PROVE  DepositInv'
<1> DEFINE o == [object |-> i, script |-> PlainText(objects[i].receipt),
                 type |-> type, value |-> DepositValue, spent |-> FALSE]
<1>1. objects \in Seq(DepositObject) /\ outputs \in Seq(Output)
  BY DEF DepositInv, DepositTypes
<1>2. objects[i] \in DepositObject /\ i \in Nat
  BY <1>1
<1>3. o \in Output /\ Funds(o, objects)
  BY <1>2 DEF DepositObject, Output, PlainText, Funds
<1>4. /\ outputs' = Append(outputs, o)
      /\ UNCHANGED <<sdk, interfaces, depositWallets, now, objects, jobs, minting>>
  BY DEF FundOutput
<1> HIDE DEF o
<1>5. /\ outputs' \in Seq(Output)
      /\ \A n \in DOMAIN outputs : n \in DOMAIN outputs' /\ outputs'[n] = outputs[n]
      /\ \A n \in DOMAIN outputs' : n \in DOMAIN outputs \/ outputs'[n] = o
  BY <1>1, <1>3, <1>4
<1>6. DepositTypes' /\ LoadedInv' /\ ObjectsInv'
  BY <1>4, <1>5 DEF DepositInv, DepositTypes, LoadedInv, ObjectsInv
<1>7. OutputsInv'
  BY <1>3, <1>4, <1>5 DEF DepositInv, OutputsInv
<1>8. JobsInv' /\ MintingInv'
  BY <1>4, <1>5 DEF DepositInv, JobsInv, HandedOver, MintingInv, Mints
<1> QED  BY <1>6, <1>7, <1>8 DEF DepositInv

\* The SDK's funding transaction pays the deposit by its first output.
LEMMA FundingKeeps ==
    ASSUME DepositInv, NEW i \in DOMAIN objects,
           \/ FundFromOutside(i)
           \/ \E list \in InputList, witness \in BOOLEAN : SubmitFunding(i, list, witness)
    PROVE  DepositInv'
<1>1. CASE FundFromOutside(i)
  BY <1>1, FundOutputKeeps DEF FundFromOutside
<1>2. ASSUME NEW list \in InputList, NEW witness \in BOOLEAN, SubmitFunding(i, list, witness)
      PROVE  DepositInv'
  <2>1. AssembleFunding(list).outputs[1] = DepositValue
    BY DEF AssembleFunding
  <2> DEFINE type == IF witness THEN "P2WSH" ELSE "P2SH"
  <2>2. FundOutput(i, type, DepositValue)
    BY <1>2, <2>1 DEF SubmitFunding
  <2>3. type \in {"P2SH", "P2WSH"}
    OBVIOUS
  <2> HIDE DEF type
  <2> QED  BY <2>2, <2>3, FundOutputKeeps
<1> QED  BY <1>1, <1>2

\* An output is spent: it stays what it was.
LEMMA SpendKeeps ==
    ASSUME DepositInv, NEW n \in DOMAIN outputs,
           (\E key \in RecoveryAddress : SubmitRefund(n, key)) \/ SweepRevealed(n)
    PROVE  DepositInv'
<1>1. outputs' = [outputs EXCEPT ![n] = [outputs[n] EXCEPT !.spent = TRUE]]
  BY DEF SubmitRefund, SweepRevealed
<1>2. UNCHANGED <<sdk, interfaces, depositWallets, now, objects, jobs, minting>>
  BY DEF SubmitRefund, SweepRevealed
<1>3. outputs \in Seq(Output)
  BY DEF DepositInv, DepositTypes
<1> DEFINE new == [outputs[n] EXCEPT !.spent = TRUE]
<1>4. /\ new \in Output /\ new.object = outputs[n].object /\ new.script = outputs[n].script
  <2>1. outputs[n] \in Output
    BY <1>3
  <2> QED  BY <2>1 DEF Output
<1>5. outputs' = [outputs EXCEPT ![n] = new]
  BY <1>1
<1> HIDE DEF new
<1>6. /\ outputs' \in Seq(Output) /\ DOMAIN outputs' = DOMAIN outputs
      /\ \A k \in DOMAIN outputs :
             outputs'[k].object = outputs[k].object /\ outputs'[k].script = outputs[k].script
  BY <1>3, <1>4, <1>5
<1>7. DepositTypes' /\ LoadedInv' /\ ObjectsInv'
  BY <1>2, <1>6 DEF DepositInv, DepositTypes, LoadedInv, ObjectsInv
<1>8. OutputsInv'
  BY <1>2, <1>6 DEF DepositInv, OutputsInv, Funds
<1>9. JobsInv'
  BY <1>2, <1>6 DEF DepositInv, JobsInv, HandedOver
<1>10. MintingInv'
  BY <1>2, <1>6 DEF DepositInv, MintingInv, Mints
<1> QED  BY <1>7, <1>8, <1>9, <1>10 DEF DepositInv

-----------------------------------------------------------------------------
\* A step of the call in progress, and of those it hands a deposit over to.
LEMMA MintingChanges ==
    ASSUME DepositInv, minting' \in Minting, MintingInv', JobsInv',
           UNCHANGED <<sdk, interfaces, depositWallets, now, objects, outputs>>
    PROVE  DepositInv'
BY DEF DepositInv, DepositTypes, LoadedInv, ObjectsInv, OutputsInv

\* The extra data of a deposit for another chain is its owner's address, in 32 bytes.
LEMMA MintedObject ==
    ASSUME DepositInv, minting.pc \in {"L2Transaction", "post"}
    PROVE  /\ minting.output \in DOMAIN outputs
           /\ outputs[minting.output].object = minting.object
           /\ minting.object \in DOMAIN objects
           /\ MintingObject.mode = "L2Transaction"
           /\ MintingObject.receipt.extraData \in Extra
           /\ MintingObject.receipt.extraData.bytes = 32
           /\ outputs[minting.output].script = MintingObject.receipt
<1>1. /\ minting.output \in DOMAIN outputs
      /\ outputs[minting.output].object = minting.object
      /\ objects[minting.object].mode = "L2Transaction"
  BY DEF DepositInv, MintingInv, Mints
<1>2. /\ minting.object \in DOMAIN objects
      /\ outputs[minting.output].script = objects[minting.object].receipt
  BY <1>1 DEF DepositInv, OutputsInv, Funds
<1>3. objects[minting.object] \in DepositObject
  BY <1>2 DEF DepositInv, DepositTypes
<1>4. objects[minting.object].receipt.extraData \in Extra
  BY <1>3 DEF DepositObject, Receipt
<1>5. objects[minting.object].receipt.extraData.bytes = 32
  BY <1>1, <1>2 DEF DepositInv, ObjectsInv, CrossChain
<1> QED  BY <1>1, <1>2, <1>4, <1>5 DEF MintingObject

LEMMA EndedTyped ==
    ASSUME minting \in Minting, NEW error \in MintingError
    PROVE  Ended(error) \in Minting /\ Ended(error).pc \in {"done", "failed"}
<1> DEFINE pc == IF error = "none" THEN "done" ELSE "failed"
<1>1. pc \in MintingPc /\ pc \in {"done", "failed"}
  BY DEF MintingPc
<1> HIDE DEF pc
<1>2. [minting EXCEPT !.pc = pc, !.error = error] \in Minting
      /\ [minting EXCEPT !.pc = pc, !.error = error].pc = pc
  BY <1>1 DEF Minting
<1> QED  BY <1>1, <1>2 DEF Ended, pc

\* A call that has ended is about nothing.
LEMMA EndedKeeps ==
    ASSUME DepositInv, NEW error \in MintingError, minting' = Ended(error), JobsInv',
           UNCHANGED <<sdk, interfaces, depositWallets, now, objects, outputs>>
    PROVE  DepositInv'
<1>1. minting' \in Minting /\ minting'.pc \in {"done", "failed"}
  BY EndedTyped DEF DepositInv, DepositTypes
<1>2. MintingInv'
  BY <1>1 DEF MintingInv, Mints
<1> QED  BY <1>1, <1>2, MintingChanges

LEMMA StartMintingKeeps ==
    ASSUME DepositInv, NEW i \in DOMAIN objects, NEW n \in DOMAIN outputs,
           outputs[n].object = i, StartMinting(i, n)
    PROVE  DepositInv'
<1>1. objects[i] \in DepositObject /\ i \in Nat /\ n \in Nat
  BY DEF DepositInv, DepositTypes
<1>2. objects[i].mode \in MintingPc \ {"post"}
  BY <1>1 DEF DepositObject, MintingPc, RevealMode
<1>3. NoMinting \in Minting
  BY DEF NoMinting, Minting, MintingPc, MintingError, NoExtra, Extra, OwnerName
<1>4. minting' = [NoMinting EXCEPT !.object = i, !.output = n, !.pc = objects[i].mode]
  BY DEF StartMinting
<1>5. /\ minting' \in Minting /\ minting'.object = i /\ minting'.output = n
      /\ minting'.pc = objects[i].mode
  <2> HIDE DEF NoMinting
  <2> QED  BY <1>1, <1>2, <1>3, <1>4 DEF Minting
<1>6. UNCHANGED <<sdk, interfaces, depositWallets, now, objects, outputs, jobs>>
  BY DEF StartMinting
<1>7. MintingInv'
  BY <1>2, <1>5, <1>6 DEF MintingInv, Mints
<1>8. JobsInv'
  BY <1>6 DEF DepositInv, JobsInv
<1> QED  BY <1>5, <1>6, <1>7, <1>8, MintingChanges

LEMMA MintingStarts ==
    ASSUME DepositInv,
           \/ \E i \in DOMAIN objects : InitiateMinting(i)
           \/ \E n \in DOMAIN outputs : InitiateMintingOf(n)
    PROVE  DepositInv'
<1>1. ASSUME NEW i \in DOMAIN objects, InitiateMinting(i) PROVE DepositInv'
  <2>1. PICK n \in DOMAIN outputs : MostRecent(n, DetectFunding(i)) /\ StartMinting(i, n)
    BY <1>1 DEF InitiateMinting
  <2>2. outputs[n].object = i
    BY <2>1 DEF MostRecent, DetectFunding
  <2> QED  BY <2>1, <2>2, StartMintingKeeps
<1>2. ASSUME NEW n \in DOMAIN outputs, InitiateMintingOf(n) PROVE DepositInv'
  <2>1. outputs[n].object \in DOMAIN objects
    BY DEF DepositInv, OutputsInv, Funds
  <2> QED  BY <1>2, <2>1, StartMintingKeeps DEF InitiateMintingOf
<1> QED  BY <1>1, <1>2

LEMMA RevealOnL1Keeps ==
    ASSUME DepositInv, RevealOnL1 PROVE DepositInv'
<1>1. minting' = Ended("none") \/ minting' = Ended("reverted")
  BY DEF RevealOnL1
<1>2. UNCHANGED <<sdk, interfaces, depositWallets, now, objects, outputs, jobs>>
  BY DEF RevealOnL1
<1>3. JobsInv'
  BY <1>2 DEF DepositInv, JobsInv
<1>4. "none" \in MintingError /\ "reverted" \in MintingError
  BY DEF MintingError
<1> QED  BY <1>1, <1>2, <1>3, <1>4, EndedKeeps

\* What is handed over is the deposit's own extra data.
LEMMA HandOverKeeps ==
    ASSUME DepositInv, minting.pc \in {"L2Transaction", "post"},
           HandOver(MintingObject.receipt.extraData), UNCHANGED <<objects, outputs>>
    PROVE  JobsInv'
<1> DEFINE job == [output |-> minting.output, extra |-> MintingObject.receipt.extraData]
<1>1. HandedOver(job, outputs, objects)
  BY MintedObject DEF HandedOver, MintingObject
<1>2. jobs' = jobs \union {job}
  BY DEF HandOver
<1> HIDE DEF job
<1> QED  BY <1>1, <1>2 DEF DepositInv, JobsInv

LEMMA InitializeOnL2Keeps ==
    ASSUME DepositInv, InitializeOnBase \/ InitializeOnArbitrum \/ InitializeOnSui
    PROVE  DepositInv'
<1> DEFINE extra == MintingObject.receipt.extraData
<1>1. minting.pc = "L2Transaction"
  BY DEF InitializeOnBase, InitializeOnArbitrum, InitializeOnSui, InitializeOnL2
<1>2. extra \in Extra /\ extra.bytes = 32
  BY <1>1, MintedObject
<1>3. EncodeDepositOwner(extra.owner) = extra
  <2> HIDE DEF extra
  <2> QED  BY <1>2 DEF EncodeDepositOwner, Extra
<1>4. HandOver(EncodeDepositOwner(extra.owner))
  BY DEF InitializeOnBase, InitializeOnArbitrum, InitializeOnSui, InitializeOnL2,
         DecodeEthereumOwner, DecodeArbitrumOwner, DecodeSuiOwner, DecodeAs
<1>5. /\ minting' = Ended("none")
      /\ UNCHANGED <<sdk, interfaces, depositWallets, now, objects, outputs>>
  BY DEF InitializeOnBase, InitializeOnArbitrum, InitializeOnSui, InitializeOnL2
<1>6. JobsInv'
  BY <1>1, <1>3, <1>4, <1>5, HandOverKeeps
<1>7. "none" \in MintingError
  BY DEF MintingError
<1> QED  BY <1>5, <1>6, <1>7, EndedKeeps
\* What a relayer is asked for is the extra data of the deposit: only an owner of another
\* length would be formatted, and that is refused.
LEMMA PrepareRelayerRequestKeeps ==
    ASSUME DepositInv, PrepareRelayerRequest
    PROVE  DepositInv'
<1>1. minting.pc = "L2Transaction" /\ MintingChain \in {"StarkNet", "Sei", "Solana"}
      /\ minting \in Minting
      /\ UNCHANGED <<sdk, interfaces, depositWallets, now, objects, outputs, jobs>>
  BY DEF PrepareRelayerRequest, DepositInv, DepositTypes
<1>2. JobsInv'
  BY <1>1 DEF DepositInv, JobsInv
<1> DEFINE extra == MintingObject.receipt.extraData
<1>3. /\ minting.output \in DOMAIN outputs
      /\ outputs[minting.output].object = minting.object
      /\ objects[minting.object].mode = "L2Transaction"
      /\ extra \in Extra /\ extra.bytes = 32
      /\ extra = objects[minting.object].receipt.extraData
  BY <1>1, MintedObject DEF MintingObject
<1>4. ASSUME FormattedOwner.bytes = 32
      PROVE  FormattedOwner = extra
  <2>1. FormattedOwner = extra \/ FormattedOwner = FormatSeiAddressAsBytes32(extra)
    BY <1>1, <1>3 DEF FormattedOwner, FormatStarkNetAddressAsBytes32, L2DepositOwner
  <2>2. FormatSeiAddressAsBytes32(extra).bytes = -1
    BY <1>3 DEF FormatSeiAddressAsBytes32, Extra
  <2> HIDE DEF extra
  <2> QED  BY <1>4, <2>1, <2>2
<1>5. CASE minting' \in {Ended("no owner"), Ended("owner format")}
  <2>1. "no owner" \in MintingError /\ "owner format" \in MintingError
    BY DEF MintingError
  <2> QED  BY <1>1, <1>2, <1>5, <2>1, EndedKeeps
<1>6. CASE FormattedOwner.bytes = 32
           /\ minting' = [minting EXCEPT !.pc = "post", !.extra = FormattedOwner]
  <2>1. minting' = [minting EXCEPT !.pc = "post", !.extra = extra]
    BY <1>4, <1>6
  <2> HIDE DEF extra
  <2>2. /\ minting' \in Minting /\ minting'.pc = "post" /\ minting'.extra = extra
        /\ minting'.output = minting.output /\ minting'.object = minting.object
    BY <1>1, <1>3, <2>1 DEF Minting, MintingPc
  <2>3. MintingInv'
    BY <1>1, <1>3, <2>2 DEF MintingInv, Mints
  <2> QED  BY <1>1, <1>2, <2>2, <2>3, MintingChanges
<1>7. minting' \in {Ended("no owner"), Ended("owner format")} \/
      (FormattedOwner.bytes = 32
           /\ minting' = [minting EXCEPT !.pc = "post", !.extra = FormattedOwner])
  BY DEF PrepareRelayerRequest
<1> QED  BY <1>5, <1>6, <1>7

\* A failure ends the call, or is followed by another attempt with the same request.
LEMMA PostFailedKeeps ==
    ASSUME DepositInv, minting.pc = "post", NEW error \in MintingError, PostFailed(error),
           JobsInv', UNCHANGED <<sdk, interfaces, depositWallets, now, objects, outputs>>
    PROVE  DepositInv'
<1>1. CASE minting' = Ended(error)
  BY <1>1, EndedKeeps
<1>2. CASE minting' = [minting EXCEPT !.attempt = @ + 1]
  <2>1. minting \in Minting
    BY DEF DepositInv, DepositTypes
  <2>2. /\ minting' \in Minting /\ minting'.pc = minting.pc /\ minting'.extra = minting.extra
        /\ minting'.output = minting.output /\ minting'.object = minting.object
    BY <1>2, <2>1 DEF Minting
  <2>3. MintingInv'
    BY <2>2 DEF DepositInv, MintingInv, Mints
  <2> QED  BY <2>2, <2>3, MintingChanges
<1> QED  BY <1>1, <1>2 DEF PostFailed

LEMMA RelayerStepKeeps ==
    ASSUME DepositInv, RelayerKnows \/ RelayerTakes \/ RelayerFails
    PROVE  DepositInv'
<1>1. /\ minting.pc = "post"
      /\ UNCHANGED <<sdk, interfaces, depositWallets, now, objects, outputs>>
  BY DEF RelayerKnows, RelayerTakes, RelayerFails
<1>2. /\ {"none", "known", "timeout", "unavailable", "refused"} \subseteq MintingError
  BY DEF MintingError
<1>3. CASE RelayerKnows
  <2>1. JobsInv'
    BY <1>1, <1>3 DEF RelayerKnows, DepositInv, JobsInv
  <2>2. minting' = Ended("none") \/ PostFailed("known")
    BY <1>3 DEF RelayerKnows
  <2>3. CASE minting' = Ended("none")
    BY <1>1, <1>2, <2>1, <2>3, EndedKeeps
  <2>4. CASE PostFailed("known")
    BY <1>1, <1>2, <2>1, <2>4, PostFailedKeeps
  <2> QED  BY <2>2, <2>3, <2>4
<1>4. CASE RelayerTakes
  <2>1. minting.extra = MintingObject.receipt.extraData
    BY <1>1 DEF DepositInv, MintingInv, Mints, MintingObject
  <2>2. HandOver(minting.extra)
    BY <1>4 DEF RelayerTakes
  <2>3. JobsInv'
    BY <1>1, <2>1, <2>2, HandOverKeeps
  <2>4. minting' = Ended("none")
        \/ \E error \in {"timeout", "unavailable", "refused"} : PostFailed(error)
    BY <1>4 DEF RelayerTakes
  <2>5. CASE minting' = Ended("none")
    BY <1>1, <1>2, <2>3, <2>5, EndedKeeps
  <2>6. ASSUME NEW error \in {"timeout", "unavailable", "refused"}, PostFailed(error)
        PROVE  DepositInv'
    BY <1>1, <1>2, <2>3, <2>6, PostFailedKeeps
  <2> QED  BY <2>4, <2>5, <2>6
<1>5. CASE RelayerFails
  <2>1. JobsInv'
    BY <1>1, <1>5 DEF RelayerFails, DepositInv, JobsInv
  <2>2. PICK error \in {"timeout", "unavailable", "refused"} : PostFailed(error)
    BY <1>5 DEF RelayerFails
  <2>3. error \in MintingError
    BY <1>2
  <2> QED  BY <1>1, <2>1, <2>2, <2>3, PostFailedKeeps
<1> QED  BY <1>3, <1>4, <1>5

-----------------------------------------------------------------------------
LEMMA DepositWorldKeeps ==
    ASSUME DepositInv, DepositWorld
    PROVE  DepositInv'
<1>1. UNCHANGED <<sdk, interfaces, objects, outputs, jobs, minting>>
  BY DEF DepositWorld, NewActiveWallet, WalletLeaves, TimePasses
<1>2. now' \in Nat
  BY DEF DepositWorld, NewActiveWallet, WalletLeaves, TimePasses, DepositInv, DepositTypes
<1>3. depositWallets'.active \in DepositWallet \union {"none"}
  BY DEF DepositWorld, NewActiveWallet, WalletLeaves, TimePasses, DepositInv, DepositTypes
<1> QED  BY <1>1, <1>2, <1>3
         DEF DepositInv, DepositTypes, LoadedInv, ObjectsInv, OutputsInv, JobsInv, MintingInv

LEMMA DepositInit == ASSUME SdkDepositsInit PROVE DepositInv
<1>1. NothingLoaded \in SdkRecord /\ \A c \in DestinationChain : NothingLoaded.loaded[c] = 0
  <2>1. "none" \in OwnerName
    BY DEF OwnerName
  <2> QED  BY <2>1 DEF NothingLoaded, SdkRecord
<1>2. NoMinting \in Minting /\ NoMinting.pc = "idle"
  BY DEF NoMinting, Minting, MintingPc, MintingError, NoExtra, Extra, OwnerName
<1>3. DepositTypes
  <2> HIDE DEF NothingLoaded, NoMinting
  <2> QED  BY <1>1, <1>2 DEF SdkDepositsInit, DepositTypes
<1>4. LoadedInv
  BY <1>1 DEF SdkDepositsInit, LoadedInv
<1>5. ObjectsInv /\ OutputsInv /\ JobsInv
  BY DEF SdkDepositsInit, ObjectsInv, OutputsInv, JobsInv
<1>6. MintingInv
  <2> HIDE DEF NoMinting
  <2> QED  BY <1>2 DEF SdkDepositsInit, MintingInv, Mints
<1> QED  BY <1>3, <1>4, <1>5, <1>6 DEF DepositInv

LEMMA DepositNext == ASSUME DepositInv, [SdkDepositsNext]_depositVars PROVE DepositInv'
<1>1. CASE SessionStep
  <2>1. ASSUME NEW network \in {"mainnet", "sepolia"}, NEW signer \in SdkSigner,
               NEW support \in BOOLEAN, InitializeEthereum(network, signer, support)
        PROVE  DepositInv'
    BY <2>1, InitializeEthereumKeeps
  <2>2. ASSUME NEW chain \in DestinationChain, NEW signer \in SdkSigner,
               InitializeCrossChain(chain, signer)
        PROVE  DepositInv'
    BY <2>2, InitializeCrossChainKeeps
  <2>3. ASSUME NEW k \in DOMAIN interfaces, NEW owner \in ChainOwner, SetDepositOwner(k, owner)
        PROVE  DepositInv'
    BY <2>3, SetDepositOwnerKeeps
  <2>4. ASSUME NEW recovery \in RecoveryAddress, NEW extra \in ExtraDataGiven,
               InitiateDeposit(recovery, extra)
        PROVE  DepositInv'
    BY <2>4, InitiateDepositKeeps
  <2>5. ASSUME NEW recovery \in RecoveryAddress, NEW chain \in DestinationChain,
               NEW mode \in {"L1Transaction", "L2Transaction"},
               InitiateCrossChainDeposit(recovery, chain, mode)
        PROVE  DepositInv'
    BY <2>5, InitiateCrossChainDepositKeeps
  <2> QED  BY <1>1, <2>1, <2>2, <2>3, <2>4, <2>5 DEF SessionStep
<1>2. CASE FundingStep
  <2>1. ASSUME NEW i \in DOMAIN objects,
               \/ FundFromOutside(i)
               \/ \E list \in InputList, witness \in BOOLEAN : SubmitFunding(i, list, witness)
        PROVE  DepositInv'
    BY <2>1, FundingKeeps
  <2>2. ASSUME NEW n \in DOMAIN outputs,
               (\E key \in RecoveryAddress : SubmitRefund(n, key)) \/ SweepRevealed(n)
        PROVE  DepositInv'
    BY <2>2, SpendKeeps
  <2> QED  BY <1>2, <2>1, <2>2 DEF FundingStep
<1>3. CASE MintingStep
  <2>1. CASE (\E i \in DOMAIN objects : InitiateMinting(i))
             \/ (\E n \in DOMAIN outputs : InitiateMintingOf(n))
    BY <2>1, MintingStarts
  <2>2. CASE RevealOnL1
    BY <2>2, RevealOnL1Keeps
  <2>3. CASE InitializeOnBase \/ InitializeOnArbitrum \/ InitializeOnSui
    BY <2>3, InitializeOnL2Keeps
  <2>4. CASE PrepareRelayerRequest
    BY <2>4, PrepareRelayerRequestKeeps
  <2>5. CASE RelayerKnows \/ RelayerTakes \/ RelayerFails
    BY <2>5, RelayerStepKeeps
  <2>6. CASE \E j \in jobs : RelayerReveals(j)
    <3>1. UNCHANGED <<sdk, interfaces, depositWallets, now, objects, outputs, jobs, minting>>
      BY <2>6 DEF RelayerReveals
    <3> QED  BY <3>1
             DEF DepositInv, DepositTypes, LoadedInv, ObjectsInv, OutputsInv, JobsInv, MintingInv
  <2> QED  BY <1>3, <2>1, <2>2, <2>3, <2>4, <2>5, <2>6 DEF MintingStep
<1>4. CASE DepositWorld
  BY <1>4, DepositWorldKeeps
<1>5. CASE UNCHANGED depositVars
  BY <1>5 DEF depositVars, DepositInv, DepositTypes, LoadedInv, ObjectsInv, OutputsInv,
              JobsInv, MintingInv
<1> QED  BY <1>1, <1>2, <1>3, <1>4, <1>5 DEF SdkDepositsNext

LEMMA DepositInvariant == SdkDepositsSpec => []DepositInv
<1>1. SdkDepositsInit => DepositInv
  BY DepositInit
<1>2. DepositInv /\ [SdkDepositsNext]_depositVars => DepositInv'
  BY DepositNext
<1> QED  BY <1>1, <1>2, PTL DEF SdkDepositsSpec

\* A deposit is never lost: see DepositsRecoverable. What is needed of the history is that
\* the output's script is the receipt of the object that the refund is made from, and that
\* the receipt's locktime has the byte order that the script is read in.
THEOREM RecoverableTheorem == SdkDepositsSpec => []DepositsRecoverable
<1>1. DepositInv => DepositsRecoverable
  <2> SUFFICES ASSUME DepositInv, NEW n \in DOMAIN outputs, NEW key \in RecoveryAddress,
                      NEW medianTime \in MedianTime,
                      ~outputs[n].spent, key.key = outputs[n].script.refundKey,
                      objects[outputs[n].object].receipt.refundLocktime.value + MedianTimeLag
                          < now
               PROVE  RefundAccepted(outputs[n], RefundTransaction(outputs[n], key), medianTime)
    BY DEF DepositsRecoverable
  <2> DEFINE o == outputs[n]
             receipt == objects[o.object].receipt
             locktime == receipt.refundLocktime
  <2>1. o \in Output /\ o.script = receipt
    BY DEF DepositInv, DepositTypes, OutputsInv, Funds
  <2>2. locktime \in [order : {"little"}, value : Int]
    BY <2>1 DEF Output, Receipt
  <2>3. ByteReversed(locktime).order = "big" /\ ByteReversed(locktime).value = locktime.value
    BY <2>2 DEF ByteReversed
  <2>4. LocktimeInScript(locktime) = locktime.value /\ locktime.value \in Int
        /\ LocktimeToUnixTimestamp(locktime) = locktime.value
    BY <2>2, <2>3 DEF LocktimeInScript, LocktimeToUnixTimestamp, ReadBytes
  <2>5. RefundTransaction(o, key).locktime = locktime.value
        /\ RefundTransaction(o, key).sequence = RefundSequence
        /\ RefundTransaction(o, key).script = receipt
        /\ RefundTransaction(o, key).key = key.key
        /\ RefundTransaction(o, key).unlocks = (IF o.type = "P2SH" THEN "scriptSig" ELSE "witness")
    BY <2>4 DEF RefundTransaction, PlainText
  <2>6. locktime.value < medianTime
    <3>1. now \in Int /\ MedianTimeLag \in Nat /\ medianTime \in Int
          /\ now - MedianTimeLag <= medianTime
      BY DurationAssumption DEF DepositInv, DepositTypes, MedianTime
    <3>2. locktime.value + MedianTimeLag < now
      OBVIOUS
    <3> HIDE DEF locktime
    <3> QED  BY <2>4, <3>1, <3>2
  <2> HIDE DEF receipt, locktime
  <2> QED  BY <2>1, <2>4, <2>5, <2>6 DEF RefundAccepted, RefundSequence, locktime
<1> QED  BY <1>1, DepositInvariant, PTL

\* Relayers are handed what the Bridge will accept: see HandedOverAsInitiated. The owner
\* comes from the extra data of the deposit's receipt at every step on the way, and the L1
\* contract is the one of the chain that the deposit was initiated for.
THEOREM HandedOverTheorem == SdkDepositsSpec => []HandedOverAsInitiated
<1>1. DepositInv => HandedOverAsInitiated
  <2> SUFFICES ASSUME DepositInv, NEW j \in jobs
               PROVE  ScriptMatches(j.output,
                          L1Depositor(interfaces[objects[outputs[j.output].object].via].chain),
                          j.extra)
    BY DEF HandedOverAsInitiated
  <2> HIDE DEF L1Depositor
  <2>1. /\ j.output \in DOMAIN outputs
        /\ objects[outputs[j.output].object].mode = "L2Transaction"
        /\ j.extra = outputs[j.output].script.extraData
    BY DEF DepositInv, JobsInv, HandedOver
  <2>2. /\ outputs[j.output].object \in DOMAIN objects
        /\ outputs[j.output].script = objects[outputs[j.output].object].receipt
    BY <2>1 DEF DepositInv, OutputsInv, Funds
  <2>3. objects[outputs[j.output].object].receipt.depositor
            = L1Depositor(interfaces[objects[outputs[j.output].object].via].chain)
    BY <2>1, <2>2 DEF DepositInv, ObjectsInv, CrossChain
  <2> QED  BY <2>1, <2>2, <2>3 DEF ScriptMatches
<1> QED  BY <1>1, DepositInvariant, PTL

-----------------------------------------------------------------------------
(***************************************************************************)
(* The handles of the contracts on Ethereum.                               *)
(***************************************************************************)
HandleFields == {"ask", "pc", "attempt", "start", "to", "batchStart", "batch", "pulled",
                 "wallet", "error", "answer"}

\* Only writes are sent; and a call that met a final refusal has failed with it.
RefusalInv ==
    /\ DOMAIN handle = HandleFields /\ handle = [x \in HandleFields |-> handle[x]]
    /\ handle.pc = "send" => handle.ask \in WriteAsks
    /\ refused # "none" => handle.pc = "failed" /\ handle.error = refused

\* A step that sends nothing, and meets no refusal.
LEMMA QuietStepKeepsRefusal ==
    ASSUME RefusalInv, UNCHANGED refused, handle.pc \notin {"idle", "done", "failed"},
           DOMAIN handle' = HandleFields, handle' = [x \in HandleFields |-> handle'[x]],
           handle'.ask = handle.ask, handle'.pc = "send" => handle.pc = "send"
    PROVE  RefusalInv'
BY DEF RefusalInv

LEMMA AttemptFailedKeeps ==
    ASSUME RefusalInv, NEW error, AttemptFailed(error), handle.pc \notin {"idle", "done", "failed"},
           UNCHANGED refused
    PROVE  RefusalInv'
<1>1. /\ DOMAIN handle' = HandleFields /\ handle' = [x \in HandleFields |-> handle'[x]]
      /\ handle'.ask = handle.ask /\ handle'.pc \in {handle.pc, "query", "failed"}
  BY DEF RefusalInv, AttemptFailed, HandleFields
<1> QED  BY <1>1, QuietStepKeepsRefusal

LEMMA AnswerKeeps ==
    ASSUME RefusalInv, NEW value, AnswerWith(value), handle.pc \notin {"idle", "done", "failed"},
           UNCHANGED refused
    PROVE  RefusalInv'
<1>1. /\ DOMAIN handle' = HandleFields /\ handle' = [x \in HandleFields |-> handle'[x]]
      /\ handle'.ask = handle.ask /\ handle'.pc = "done"
  BY DEF RefusalInv, AnswerWith, HandleFields
<1> QED  BY <1>1, QuietStepKeepsRefusal

\* A refusal that says that the work is done is the last attempt.
LEMMA SendKeepsRefusal ==
    ASSUME RefusalInv, SendTx
    PROVE  RefusalInv'
<1> DEFINE verdict == Verdict(TxOf(handle.ask))
<1> HIDE DEF verdict
<1>1. handle.pc = "send" /\ handle.ask \in WriteAsks /\ refused = "none"
  BY DEF RefusalInv, SendTx
<1>2. CASE verdict # "ok" /\ verdict \notin NonRetryable(handle.ask.op)
  <2>1. AttemptFailed(verdict) /\ UNCHANGED refused
    BY <1>1, <1>2 DEF SendTx, ResolveEthersError, verdict
  <2> QED  BY <1>1, <2>1, AttemptFailedKeeps
<1>3. CASE verdict # "ok" /\ verdict \in NonRetryable(handle.ask.op)
  <2>1. AttemptFailed(verdict) /\ refused' = verdict
    BY <1>1, <1>3 DEF SendTx, ResolveEthersError, verdict
  <2>2. handle' = [handle EXCEPT !.pc = "failed", !.error = verdict]
    BY <1>1, <1>3, <2>1 DEF AttemptFailed, RetryWhenNotMatched
  <2>3. /\ DOMAIN handle' = HandleFields /\ handle' = [x \in HandleFields |-> handle'[x]]
        /\ handle'.pc = "failed" /\ handle'.error = verdict
    BY <2>2 DEF RefusalInv, HandleFields
  <2> QED  BY <2>1, <2>3 DEF RefusalInv
<1>4. CASE verdict = "ok"
  <2>1. UNCHANGED refused /\ (AttemptFailed("network") \/ AnswerWith([kind |-> "hash"]))
    BY <1>4 DEF SendTx, verdict
  <2> QED  BY <1>1, <2>1, AttemptFailedKeeps, AnswerKeeps
<1> QED  BY <1>2, <1>3, <1>4

LEMMA HandleStepKeepsRefusal ==
    ASSUME RefusalInv, HandleStep
    PROVE  RefusalInv'
<1>1. CASE SendTx
  BY <1>1, SendKeepsRefusal
<1>2. CASE MessageLost
  <2>1. UNCHANGED refused /\ handle.pc \notin {"idle", "done", "failed"}
    BY <1>2 DEF MessageLost
  <2>2. CASE AttemptFailed("network")
    BY <2>1, <2>2, AttemptFailedKeeps
  <2>3. CASE handle.pc = "query"
    <3>1. /\ DOMAIN handle' = HandleFields /\ handle' = [x \in HandleFields |-> handle'[x]]
          /\ handle'.ask = handle.ask /\ handle'.pc \in {"latest", "batch"}
      BY <1>2, <2>3 DEF MessageLost, RefusalInv, HandleFields
    <3> QED  BY <2>1, <3>1, QuietStepKeepsRefusal
  <2> QED  BY <1>2, <2>2, <2>3 DEF MessageLost
<1>3. CASE ReadContract
  <2>1. UNCHANGED refused /\ handle.pc = "read" /\ \E value : AnswerWith(value)
    BY <1>3 DEF ReadContract
  <2> QED  BY <2>1, AnswerKeeps
<1>4. CASE ActiveWalletPublicKey \/ Wallets \/ WalletRegistryHandle
  <2>1. UNCHANGED refused /\ handle.pc \in {"active", "wallet", "references"}
    BY <1>4 DEF ActiveWalletPublicKey, Wallets, WalletRegistryHandle
  <2>2. /\ DOMAIN handle' = HandleFields /\ handle' = [x \in HandleFields |-> handle'[x]]
        /\ handle'.ask = handle.ask /\ handle'.pc # "send"
    BY <1>4 DEF ActiveWalletPublicKey, Wallets, WalletRegistryHandle, AnswerWith, Goto,
                RefusalInv, HandleFields
  <2> QED  BY <2>1, <2>2, QuietStepKeepsRefusal
<1>5. CASE GetWalletCompressedPublicKey
  <2>1. /\ UNCHANGED refused /\ handle.pc = "publicKey"
        /\ AttemptFailed("network") \/ \E value : AnswerWith(value)
    BY <1>5 DEF GetWalletCompressedPublicKey
  <2> QED  BY <2>1, AttemptFailedKeeps, AnswerKeeps
<1>6. CASE QueryAll \/ LatestBlock \/ PullBatch \/ BatchesDone
  <2>1. UNCHANGED refused /\ handle.pc \in {"query", "latest", "batch"}
    BY <1>6 DEF QueryAll, LatestBlock, PullBatch, BatchesDone
  <2>2. /\ DOMAIN handle' = HandleFields /\ handle' = [x \in HandleFields |-> handle'[x]]
        /\ handle'.ask = handle.ask /\ handle'.pc # "send"
    BY <1>6 DEF QueryAll, LatestBlock, PullBatch, BatchesDone, AnswerWith, RefusalInv,
                HandleFields
  <2> QED  BY <2>1, <2>2, QuietStepKeepsRefusal
<1> QED  BY <1>1, <1>2, <1>3, <1>4, <1>5, <1>6 DEF HandleStep

LEMMA StartKeepsRefusal ==
    ASSUME RefusalInv, NEW ask, StartHandleCall(ask)
    PROVE  RefusalInv'
<1>1. refused' = "none"
      /\ handle' = [NoHandleCall EXCEPT !.ask = ask, !.pc = FirstStage(ask), !.start = block,
                        !.wallet = IF ask.op = "wallets" THEN ask.wallet ELSE "none"]
  BY DEF StartHandleCall
<1>2. /\ DOMAIN handle' = HandleFields /\ handle' = [x \in HandleFields |-> handle'[x]]
      /\ handle'.ask = ask /\ handle'.pc = FirstStage(ask)
  BY <1>1 DEF NoHandleCall, HandleFields
<1>3. FirstStage(ask) = "send" => ask \in WriteAsks
  BY DEF FirstStage
<1> QED  BY <1>1, <1>2, <1>3 DEF RefusalInv

\* A write reports the refusal it met: see RefusalReported.
THEOREM RefusalTheorem == EthereumSpec => []RefusalReported
<1>1. EthereumInit => RefusalInv
  BY DEF EthereumInit, RefusalInv, NoHandleCall, HandleFields
<1>2. RefusalInv /\ [EthereumNext]_handleVars => RefusalInv'
  <2> SUFFICES ASSUME RefusalInv, [EthereumNext]_handleVars PROVE RefusalInv'
    OBVIOUS
  <2>1. ASSUME NEW ask, StartHandleCall(ask) PROVE RefusalInv'
    BY <2>1, StartKeepsRefusal
  <2>2. CASE HandleStep
    BY <2>2, HandleStepKeepsRefusal
  <2>3. CASE MineHandleTx \/ WalletChange \/ (\E ask \in WriteAsks : Foreign(TxOf(ask)))
             \/ UNCHANGED handleVars
    <3>1. UNCHANGED <<handle, refused>>
      BY <2>3 DEF MineHandleTx, WalletChange, Foreign, handleVars
    <3> QED  BY <3>1 DEF RefusalInv
  <2> QED  BY <2>1, <2>2, <2>3 DEF EthereumNext
<1>3. RefusalInv => RefusalReported
  BY DEF RefusalInv, RefusalReported
<1> QED  BY <1>1, <1>2, <1>3, PTL DEF EthereumSpec

-----------------------------------------------------------------------------
(***************************************************************************)
(* The handles of the contracts on Ethereum: the search for events.        *)
(***************************************************************************)
\* The log is in the order of the blocks, and no block after the latest is in it.
LogInv ==
    /\ block \in Nat
    /\ \E S : events \in Seq(S)
    /\ \A i \in DOMAIN events : events[i].block \in 1..block
    /\ \A i, j \in DOMAIN events : i < j => events[i].block < events[j].block

LEMMA LogInitially == EthereumInit => LogInv
BY DEF EthereumInit, LogInv

LEMMA LogNext ==
    ASSUME LogInv, [EthereumNext]_handleVars
    PROVE  /\ LogInv' /\ block <= block'
           /\ \/ events' = events
              \/ \E e : events' = Append(events, e) /\ e.block = block + 1
<1>1. CASE UNCHANGED <<events, block>>
  BY <1>1 DEF LogInv
<1>2. CASE events' = events /\ block' = block + 1
  BY <1>2 DEF LogInv
<1>3. ASSUME NEW tx, Apply(tx)
      PROVE  /\ LogInv' /\ block <= block'
             /\ \E e : events' = Append(events, e) /\ e.block = block + 1
  <2> DEFINE e == Emitted(tx)
  <2>1. events' = Append(events, e) /\ block' = block + 1 /\ e.block = block + 1 /\ block \in Nat
    BY <1>3 DEF Apply, Emitted, LogInv
  <2> HIDE DEF e
  <2>2. PICK S : events \in Seq(S)
    BY DEF LogInv
  <2> DEFINE T == S \union {e}
  <2>3. events \in Seq(T) /\ e \in T /\ Len(events) \in Nat /\ DOMAIN events = 1..Len(events)
    BY <2>2
  <2> HIDE DEF T
  <2>4. /\ events' \in Seq(T) /\ DOMAIN events' = 1..(Len(events) + 1)
        /\ \A i \in DOMAIN events : events'[i] = events[i]
        /\ events'[Len(events) + 1] = e
    BY <2>1, <2>3
  <2>5. \A i \in DOMAIN events' : i \in DOMAIN events \/ i = Len(events) + 1
    BY <2>3, <2>4
  <2>6. \A i \in DOMAIN events : i \in Nat /\ i < Len(events) + 1 /\ events[i].block \in 1..block
    BY <2>3 DEF LogInv
  <2>7. \A i \in DOMAIN events' : events'[i].block \in 1..(block + 1)
    BY <2>1, <2>4, <2>5, <2>6
  <2>8. \A i, j \in DOMAIN events' : i < j => events'[i].block < events'[j].block
    <3> SUFFICES ASSUME NEW i \in DOMAIN events', NEW j \in DOMAIN events', i < j
                 PROVE  events'[i].block < events'[j].block
      OBVIOUS
    <3>1. CASE j \in DOMAIN events
      <4>1. i \in DOMAIN events
        BY <2>3, <2>5, <2>6, <3>1
      <4> QED  BY <2>4, <3>1, <4>1 DEF LogInv
    <3>2. CASE j = Len(events) + 1
      <4>1. i \in DOMAIN events
        BY <2>3, <2>5, <3>2
      <4> QED  BY <2>1, <2>4, <2>6, <3>2, <4>1
    <3> QED  BY <2>5, <3>1, <3>2
  <2> QED  BY <2>1, <2>4, <2>7, <2>8 DEF LogInv
<1>4. CASE \E ask \in WriteAsks \union ReadAsks \union EventAsks : StartHandleCall(ask)
  BY <1>1, <1>4 DEF StartHandleCall, handleWorldVars
<1>5. CASE HandleStep
  BY <1>1, <1>5 DEF HandleStep, SendTx, MessageLost, ReadContract, ActiveWalletPublicKey, Wallets,
      WalletRegistryHandle, GetWalletCompressedPublicKey, QueryAll, LatestBlock, PullBatch,
      BatchesDone, handleWorldVars
<1>6. CASE MineHandleTx
  BY <1>2, <1>3, <1>6 DEF MineHandleTx
<1>7. CASE WalletChange \/ UNCHANGED handleVars
  BY <1>1, <1>7 DEF WalletChange, handleVars, handleWorldVars
<1>8. CASE \E ask \in WriteAsks : Foreign(TxOf(ask))
  BY <1>3, <1>8 DEF Foreign
<1> QED  BY <1>4, <1>5, <1>6, <1>7, <1>8 DEF EthereumNext

\* The events of adjacent intervals follow each other.
LEMMA EventsInSplit ==
    ASSUME LogInv, NEW name, NEW from \in Int, NEW middle \in Int, NEW to \in Int,
           from <= middle + 1, middle <= to
    PROVE  EventsIn(name, from, middle) \o EventsIn(name, middle + 1, to)
               = EventsIn(name, from, to)
<1> DEFINE A == Matching(name, from, middle)
           B == Matching(name, middle + 1, to)
<1>1. PICK T : events \in Seq(T)
  BY DEF LogInv
<1>2. /\ \A i \in DOMAIN events : events[i].block \in Int
      /\ \A i \in DOMAIN events : i \in Nat
  BY <1>1 DEF LogInv
<1>3. Matching(name, from, to) = A \union B
  BY <1>2 DEF Matching
<1>4. \A i \in A, j \in B : i < j
  <2> SUFFICES ASSUME NEW i \in A, NEW j \in B PROVE i < j
    OBVIOUS
  <2>1. /\ i \in DOMAIN events /\ j \in DOMAIN events
        /\ events[i].block <= middle /\ middle + 1 <= events[j].block
    BY DEF Matching
  <2>2. i \in Nat /\ j \in Nat /\ events[i].block < events[j].block
    BY <1>2, <2>1
  <2>3. ~(j < i) /\ i # j
    BY <1>2, <2>1, <2>2 DEF LogInv
  <2> QED  BY <2>2, <2>3
<1>5. A \in SUBSET DOMAIN events /\ B \in SUBSET DOMAIN events
  BY DEF Matching
<1> HIDE DEF A, B
<1>6. Selected(events, A) \o Selected(events, B) = Selected(events, A \union B)
  BY <1>1, <1>4, <1>5, SelectedSplit
<1> QED  BY <1>3, <1>6 DEF A, B, EventsIn

\* Blocks that are mined later leave the events of earlier ones alone.
LEMMA EventsInKept ==
    ASSUME LogInv, [EthereumNext]_handleVars, NEW name, NEW from, NEW to \in Int, to <= block
    PROVE  EventsIn(name, from, to)' = EventsIn(name, from, to)
<1>1. CASE events' = events
  BY <1>1 DEF EventsIn, Matching
<1>2. ASSUME NEW e, events' = Append(events, e), e.block = block + 1
      PROVE  EventsIn(name, from, to)' = EventsIn(name, from, to)
  <2>1. PICK T : events \in Seq(T)
    BY DEF LogInv
  <2>2. /\ DOMAIN events = 1..Len(events) /\ DOMAIN events' = 1..(Len(events) + 1)
        /\ Len(events) \in Nat
        /\ \A i \in DOMAIN events : events'[i] = events[i]
        /\ events'[Len(events) + 1] = e
    BY <1>2, <2>1
  <2>3. ~(e.block <= to)
    BY <1>2 DEF LogInv
  <2>4. Matching(name, from, to)' = Matching(name, from, to)
    BY <2>2, <2>3 DEF Matching
  <2> DEFINE P == Matching(name, from, to)
  <2>5. P \in SUBSET DOMAIN events
    BY DEF Matching
  <2> HIDE DEF P
  <2>6. Selected(events', P) = Selected(events, P)
    BY <2>1, <2>2, <2>5, SelectedKept
  <2> QED  BY <2>4, <2>6 DEF EventsIn, P
<1> QED  BY <1>1, <1>2, LogNext

-----------------------------------------------------------------------------
\* The block that an answer has to reach.
RequiredEnd == IF handle.ask.to = Latest THEN handle.start ELSE handle.ask.to

\* What has been pulled are the events of all blocks before the next batch, and no block
\* is looked at before it is mined.
EventsInv ==
    /\ LogInv
    /\ DOMAIN handle = HandleFields /\ handle = [x \in HandleFields |-> handle[x]]
    /\ handle.pc \in {"query", "latest", "batch"} => handle.ask.op = "getEvents"
    /\ handle.ask.op = "getEvents" =>
          /\ handle.pc \in {"query", "latest", "batch", "done", "failed"}
          /\ handle.ask \in EventAsks /\ handle.start \in Nat
          /\ handle.start <= block /\ handle.ask.to <= block
          /\ handle.pc \in {"query", "latest"} => handle.pulled = <<>>
          /\ handle.pc = "latest" =>
                handle.ask.to = Latest /\ handle.batchStart = handle.ask.from
          /\ handle.pc = "batch" =>
                /\ handle.to \in Nat /\ handle.to <= block /\ handle.to >= RequiredEnd
                /\ handle.batchStart \in Nat
                /\ handle.ask.from <= handle.batchStart /\ handle.batchStart <= handle.to + 1
                /\ handle.pulled
                      = EventsIn(handle.ask.name, handle.ask.from, handle.batchStart - 1)
          /\ handle.pc = "done" =>
                /\ handle.answer.to \in Nat /\ handle.answer.to <= block
                /\ handle.answer.to >= RequiredEnd
                /\ handle.answer.events
                      = ParsedEvents(EventsIn(handle.ask.name, handle.ask.from, handle.answer.to))

LEMMA EventAskFields ==
    ASSUME NEW ask \in EventAsks
    PROVE  /\ ask.op = "getEvents" /\ ask.from \in 0..1 /\ ask.to \in {Latest, 2}
           /\ ask \notin WriteAsks
BY DEF EventAsks, WriteAsks

LEMMA OtherAsks ==
    ASSUME NEW ask \in WriteAsks \union ReadAsks
    PROVE  ask.op # "getEvents"
BY DEF WriteAsks, ReadAsks

\* No event is in an interval that ends before it begins.
LEMMA NoEventsBefore ==
    ASSUME NEW name, NEW from \in Int, NEW to \in Int, to < from, LogInv
    PROVE  EventsIn(name, from, to) = <<>>
<1>1. Matching(name, from, to) = {}
  BY DEF Matching, LogInv
<1>2. Cardinality(Matching(name, from, to)) = 0
  BY <1>1, FS_EmptySet
<1> QED  BY <1>2 DEF EventsIn, Selected

LEMMA EventsInitially == EthereumInit => EventsInv
BY LogInitially DEF EthereumInit, EventsInv, NoHandleCall, HandleFields

\* The calls in progress are as they were, and blocks are mined.
LEMMA WorldKeepsEvents ==
    ASSUME EventsInv, [EthereumNext]_handleVars, UNCHANGED handle
    PROVE  EventsInv'
<1>1. LogInv' /\ block <= block' /\ block \in Nat /\ block' \in Nat
  BY LogNext DEF EventsInv, LogInv
<1>2. CASE handle.ask.op = "getEvents"
  <2> PICK name, from, to : name = handle.ask.name /\ from = handle.ask.from /\ to = handle.ask.to
    OBVIOUS
  <2> PICK next, end : next = handle.batchStart /\ end = handle.answer.to
    OBVIOUS
  <2>1. from \in Nat /\ to \in Int /\ Latest \in Int
    BY <1>2, EventAskFields DEF EventsInv, Latest
  <2>2. CASE handle.pc = "batch"
    <3>1. next \in Nat /\ next - 1 <= block /\ next - 1 \in Int
      BY <1>1, <1>2, <2>2 DEF EventsInv
    <3>2. EventsIn(name, from, next - 1)' = EventsIn(name, from, next - 1)
      BY <3>1, EventsInKept DEF EventsInv
    <3> QED  BY <1>1, <1>2, <2>1, <2>2, <3>1, <3>2 DEF EventsInv, RequiredEnd
  <2>3. CASE handle.pc = "done"
    <3>1. end \in Nat /\ end <= block
      BY <1>2, <2>3 DEF EventsInv
    <3>2. EventsIn(name, from, end)' = EventsIn(name, from, end)
      BY <3>1, EventsInKept DEF EventsInv
    <3> QED  BY <1>1, <1>2, <2>1, <2>3, <3>1, <3>2 DEF EventsInv, RequiredEnd, ParsedEvents
  <2>4. CASE handle.pc \notin {"batch", "done"}
    BY <1>1, <1>2, <2>1, <2>4 DEF EventsInv
  <2> QED  BY <2>2, <2>3, <2>4
<1>3. CASE handle.ask.op # "getEvents"
  BY <1>1, <1>3 DEF EventsInv
<1> QED  BY <1>2, <1>3

\* A step of a call that looks for no events.
LEMMA OtherCallKeepsEvents ==
    ASSUME EventsInv, UNCHANGED <<events, block>>,
           DOMAIN handle' = HandleFields, handle' = [x \in HandleFields |-> handle'[x]],
           handle'.ask.op # "getEvents", handle'.pc \notin {"query", "latest", "batch"}
    PROVE  EventsInv'
BY DEF EventsInv, LogInv

\* An attempt that fails begins anew, or is the last one.
LEMMA FailureKeepsEvents ==
    ASSUME EventsInv, UNCHANGED <<events, block>>, NEW error, AttemptFailed(error),
           handle.pc \notin {"idle", "done", "failed"}
    PROVE  EventsInv'
<1>1. /\ DOMAIN handle' = HandleFields /\ handle' = [x \in HandleFields |-> handle'[x]]
      /\ handle'.ask = handle.ask /\ handle'.start = handle.start
      /\ \/ handle'.pc = "failed"
         \/ /\ handle'.pulled = <<>>
            /\ handle'.pc = IF handle.pc \in {"latest", "batch"} THEN "query" ELSE handle.pc
  BY DEF EventsInv, AttemptFailed, HandleFields
<1>2. CASE handle.ask.op # "getEvents"
  <2>1. handle'.pc \notin {"query", "latest", "batch"} /\ handle'.ask.op # "getEvents"
    BY <1>1, <1>2 DEF EventsInv
  <2> QED  BY <1>1, <2>1, OtherCallKeepsEvents
<1>3. CASE handle.ask.op = "getEvents"
  <2>1. handle'.pc \in {"query", "failed"} /\ (handle'.pc = "query" => handle'.pulled = <<>>)
    BY <1>1, <1>3 DEF EventsInv
  <2> QED  BY <1>1, <1>3, <2>1 DEF EventsInv, LogInv
<1> QED  BY <1>2, <1>3

LEMMA AnswerKeepsEvents ==
    ASSUME EventsInv, UNCHANGED <<events, block>>, NEW value, AnswerWith(value),
           handle.ask.op # "getEvents"
    PROVE  EventsInv'
<1>1. /\ DOMAIN handle' = HandleFields /\ handle' = [x \in HandleFields |-> handle'[x]]
      /\ handle'.ask = handle.ask /\ handle'.pc = "done"
  BY DEF EventsInv, AnswerWith, HandleFields
<1> QED  BY <1>1, OtherCallKeepsEvents

\* The pull by batches begins: at the end that was asked for, or at the latest block.
LEMMA MessageLostKeepsEvents ==
    ASSUME EventsInv, MessageLost
    PROVE  EventsInv'
<1>1. UNCHANGED <<events, block>>
  BY DEF MessageLost, handleWorldVars
<1>2. CASE AttemptFailed("network")
  BY <1>1, <1>2, FailureKeepsEvents DEF MessageLost
<1>3. CASE handle.pc = "query"
  <2>1. handle.ask.op = "getEvents" /\ handle.ask \in EventAsks /\ handle.pulled = <<>>
    BY <1>3 DEF EventsInv
  <2>2. /\ DOMAIN handle' = HandleFields /\ handle' = [x \in HandleFields |-> handle'[x]]
        /\ handle'.ask = handle.ask /\ handle'.start = handle.start
        /\ handle'.pulled = handle.pulled /\ handle'.batchStart = handle.ask.from
        /\ handle'.pc = IF handle.ask.to = Latest THEN "latest" ELSE "batch"
        /\ handle'.to = IF handle.ask.to = Latest THEN 0 ELSE handle.ask.to
    BY <1>3 DEF MessageLost, EventsInv, HandleFields
  <2> PICK name, from : name = handle.ask.name /\ from = handle.ask.from
    OBVIOUS
  <2>3. from \in 0..1 /\ handle.ask.to \in {Latest, 2}
    BY <2>1, EventAskFields
  <2>4. EventsIn(name, from, from - 1) = <<>>
    BY <2>3, NoEventsBefore DEF EventsInv
  <2>5. EventsIn(name, from, from - 1)' = EventsIn(name, from, from - 1)
    BY <1>1 DEF EventsIn, Matching
  <2>6. CASE handle.ask.to = Latest
    BY <1>1, <2>1, <2>2, <2>6 DEF EventsInv, LogInv
  <2>7. CASE handle.ask.to # Latest
    <3>1. handle'.pc = "batch" /\ handle'.to = 2 /\ handle.ask.to = 2
      BY <2>2, <2>3, <2>7
    <3>2. 2 <= block /\ RequiredEnd' = 2
      BY <2>1, <2>2, <2>7, <3>1 DEF EventsInv, RequiredEnd
    <3>3. handle'.pulled = EventsIn(name, from, from - 1)'
      BY <2>1, <2>2, <2>4, <2>5
    <3> QED  BY <1>1, <2>1, <2>2, <2>3, <3>1, <3>2, <3>3 DEF EventsInv, LogInv
  <2> QED  BY <2>6, <2>7
<1> QED  BY <1>2, <1>3 DEF MessageLost

LEMMA QueryAllKeepsEvents ==
    ASSUME EventsInv, QueryAll
    PROVE  EventsInv'
<1> DEFINE to == IF handle.ask.to = Latest THEN block ELSE handle.ask.to
<1>1. UNCHANGED <<events, block>> /\ handle.pc = "query"
  BY DEF QueryAll, handleWorldVars
<1>2. handle.ask.op = "getEvents" /\ handle.ask \in EventAsks
  BY <1>1 DEF EventsInv
<1>3. to \in Nat /\ to <= block /\ to >= RequiredEnd
  <2>1. handle.ask.to \in {Latest, 2}
    BY <1>2, EventAskFields
  <2> QED  BY <1>2, <2>1 DEF EventsInv, LogInv, RequiredEnd
<1>4. AnswerWith([kind |-> "events", to |-> to,
                  events |-> ParsedEvents(EventsIn(handle.ask.name, handle.ask.from, to))])
  BY DEF QueryAll
<1> HIDE DEF to
<1> PICK name, from, end : name = handle.ask.name /\ from = handle.ask.from /\ end = to
  OBVIOUS
<1>5. /\ DOMAIN handle' = HandleFields /\ handle' = [x \in HandleFields |-> handle'[x]]
      /\ handle'.ask = handle.ask /\ handle'.start = handle.start /\ handle'.pc = "done"
      /\ handle'.answer.to = end
      /\ handle'.answer.events = ParsedEvents(EventsIn(name, from, end))
  BY <1>4 DEF EventsInv, AnswerWith, HandleFields
<1>6. EventsIn(name, from, end)' = EventsIn(name, from, end)
  BY <1>1 DEF EventsIn, Matching
<1>7. handle'.answer.events = ParsedEvents(EventsIn(name, from, end)')
  BY <1>5, <1>6
<1>8. LogInv' /\ RequiredEnd' = RequiredEnd
  BY <1>1, <1>5 DEF EventsInv, LogInv, RequiredEnd
<1>9. /\ handle'.ask \in EventAsks /\ handle'.start \in Nat
      /\ handle'.start <= block' /\ handle'.ask.to <= block'
  BY <1>1, <1>2, <1>5 DEF EventsInv
<1>10. /\ handle'.answer.to \in Nat /\ handle'.answer.to <= block'
       /\ handle'.answer.to >= RequiredEnd'
       /\ handle'.answer.events
             = ParsedEvents(EventsIn(handle.ask.name, handle.ask.from, handle.answer.to))'
  BY <1>1, <1>3, <1>5, <1>7, <1>8
<1> QED  BY <1>2, <1>5, <1>8, <1>9, <1>10 DEF EventsInv
LEMMA LatestBlockKeepsEvents ==
    ASSUME EventsInv, LatestBlock
    PROVE  EventsInv'
<1>1. UNCHANGED <<events, block>> /\ handle.pc = "latest"
  BY DEF LatestBlock, handleWorldVars
<1>2. /\ handle.ask.op = "getEvents" /\ handle.ask \in EventAsks /\ handle.pulled = <<>>
      /\ handle.ask.to = Latest /\ handle.batchStart = handle.ask.from
      /\ handle.start \in Nat /\ handle.start <= block /\ block \in Nat
  BY <1>1 DEF EventsInv, LogInv
<1>3. /\ DOMAIN handle' = HandleFields /\ handle' = [x \in HandleFields |-> handle'[x]]
      /\ handle'.ask = handle.ask /\ handle'.start = handle.start
      /\ handle'.pulled = handle.pulled /\ handle'.batchStart = handle.batchStart
      /\ handle'.pc = "batch" /\ handle'.to = block
  BY DEF LatestBlock, EventsInv, HandleFields
<1> PICK name, from : name = handle.ask.name /\ from = handle.ask.from
  OBVIOUS
<1>4. from \in 0..1
  BY <1>2, EventAskFields
<1>5. EventsIn(name, from, from - 1) = <<>>
  BY <1>4, NoEventsBefore DEF EventsInv
<1>6. EventsIn(name, from, from - 1)' = EventsIn(name, from, from - 1)
  BY <1>1 DEF EventsIn, Matching
<1>7. handle'.pulled = EventsIn(name, from, from - 1)'
  BY <1>2, <1>3, <1>5, <1>6
<1>8. RequiredEnd' = handle.start /\ LogInv'
  BY <1>1, <1>2, <1>3 DEF EventsInv, LogInv, RequiredEnd
<1> QED  BY <1>1, <1>2, <1>3, <1>4, <1>7, <1>8 DEF EventsInv

\* A batch begins where the one before it ended.
LEMMA PullBatchKeepsEvents ==
    ASSUME EventsInv, PullBatch
    PROVE  EventsInv'
<1> DEFINE end == BatchEnd(handle.batchStart)
<1>1. UNCHANGED <<events, block>> /\ handle.pc = "batch" /\ handle.batchStart <= handle.to
  BY DEF PullBatch, handleWorldVars
<1>2. /\ handle.ask.op = "getEvents" /\ handle.ask \in EventAsks
      /\ handle.to \in Nat /\ handle.to <= block /\ handle.to >= RequiredEnd
      /\ handle.batchStart \in Nat /\ handle.ask.from <= handle.batchStart
      /\ handle.pulled = EventsIn(handle.ask.name, handle.ask.from, handle.batchStart - 1)
  BY <1>1 DEF EventsInv
<1>3. end \in Nat /\ handle.batchStart <= end /\ end <= handle.to
  BY <1>1, <1>2, IntervalAssumption DEF BatchEnd
<1>4. /\ DOMAIN handle' = HandleFields /\ handle' = [x \in HandleFields |-> handle'[x]]
      /\ handle'.ask = handle.ask /\ handle'.start = handle.start /\ handle'.pc = "batch"
      /\ handle'.to = handle.to /\ handle'.batchStart = end + 1
      /\ handle'.pulled = handle.pulled \o EventsIn(handle.ask.name, handle.batchStart, end)
  BY <1>1 DEF PullBatch, NextBatchStart, EventsInv, HandleFields
<1> HIDE DEF end
<1> PICK name, from, next, last :
        name = handle.ask.name /\ from = handle.ask.from /\ next = handle.batchStart /\ last = end
  OBVIOUS
<1>5. from \in 0..1
  BY <1>2, EventAskFields
<1>6. EventsIn(name, from, next - 1) \o EventsIn(name, next, last) = EventsIn(name, from, last)
  <2>1. /\ from \in Int /\ next - 1 \in Int /\ last \in Int
        /\ from <= (next - 1) + 1 /\ next - 1 <= last /\ (next - 1) + 1 = next
    BY <1>2, <1>3, <1>5
  <2>2. EventsIn(name, from, next - 1) \o EventsIn(name, (next - 1) + 1, last)
            = EventsIn(name, from, last)
    <3>1. LogInv
      BY DEF EventsInv
    <3> QED  BY ONLY <2>1, <3>1, EventsInSplit
  <2> QED  BY <2>1, <2>2
<1>7. EventsIn(name, from, last)' = EventsIn(name, from, last)
  BY <1>1 DEF EventsIn, Matching
<1>8. handle'.pulled = EventsIn(name, from, last)'
  BY <1>2, <1>4, <1>6, <1>7
<1>9. (last + 1) - 1 = last /\ handle'.batchStart = last + 1 /\ last \in Nat
  BY <1>3, <1>4
<1>10. RequiredEnd' = RequiredEnd /\ LogInv'
  BY <1>1, <1>4 DEF EventsInv, LogInv, RequiredEnd
<1>11. /\ handle'.to \in Nat /\ handle'.to <= block' /\ handle'.to >= RequiredEnd'
       /\ handle'.batchStart \in Nat /\ from <= handle'.batchStart
       /\ handle'.batchStart <= handle'.to + 1
  BY <1>1, <1>2, <1>3, <1>4, <1>5, <1>10
<1> QED  BY <1>1, <1>2, <1>4, <1>8, <1>9, <1>10, <1>11 DEF EventsInv

LEMMA BatchesDoneKeepsEvents ==
    ASSUME EventsInv, BatchesDone
    PROVE  EventsInv'
<1>1. UNCHANGED <<events, block>> /\ handle.pc = "batch" /\ handle.batchStart > handle.to
  BY DEF BatchesDone, handleWorldVars
<1>2. /\ handle.ask.op = "getEvents" /\ handle.ask \in EventAsks
      /\ handle.to \in Nat /\ handle.to <= block /\ handle.to >= RequiredEnd
      /\ handle.batchStart \in Nat /\ handle.batchStart <= handle.to + 1
      /\ handle.pulled = EventsIn(handle.ask.name, handle.ask.from, handle.batchStart - 1)
  BY <1>1 DEF EventsInv
<1>3. handle.batchStart - 1 = handle.to
  BY <1>1, <1>2
<1>4. /\ DOMAIN handle' = HandleFields /\ handle' = [x \in HandleFields |-> handle'[x]]
      /\ handle'.ask = handle.ask /\ handle'.start = handle.start /\ handle'.pc = "done"
      /\ handle'.answer.to = handle.to /\ handle'.answer.events = ParsedEvents(handle.pulled)
  BY DEF BatchesDone, AnswerWith, EventsInv, HandleFields
<1> PICK name, from, end : name = handle.ask.name /\ from = handle.ask.from /\ end = handle.to
  OBVIOUS
<1>5. EventsIn(name, from, end)' = EventsIn(name, from, end)
  BY <1>1 DEF EventsIn, Matching
<1>6. handle'.answer.events = ParsedEvents(EventsIn(name, from, end)')
  BY <1>2, <1>3, <1>4, <1>5
<1>7. RequiredEnd' = RequiredEnd /\ LogInv'
  BY <1>1, <1>4 DEF EventsInv, LogInv, RequiredEnd
<1> QED  BY <1>1, <1>2, <1>4, <1>6, <1>7 DEF EventsInv, ParsedEvents

LEMMA HandleStepKeepsEvents ==
    ASSUME EventsInv, HandleStep
    PROVE  EventsInv'
<1>1. CASE SendTx
  <2>1. UNCHANGED <<events, block>> /\ handle.pc = "send"
    BY <1>1 DEF SendTx
  <2>2. handle.ask.op # "getEvents"
    BY <2>1 DEF EventsInv
  <2>3. (\E error : AttemptFailed(error)) \/ AnswerWith([kind |-> "hash"])
    BY <1>1 DEF SendTx
  <2> QED  BY <2>1, <2>2, <2>3, FailureKeepsEvents, AnswerKeepsEvents
<1>2. CASE ReadContract
  <2>1. UNCHANGED <<events, block>> /\ handle.pc = "read" /\ \E value : AnswerWith(value)
    BY <1>2 DEF ReadContract, handleWorldVars
  <2>2. handle.ask.op # "getEvents"
    BY <2>1 DEF EventsInv
  <2> QED  BY <2>1, <2>2, AnswerKeepsEvents
<1>3. CASE ActiveWalletPublicKey \/ Wallets \/ WalletRegistryHandle
  <2>1. /\ UNCHANGED <<events, block>>
        /\ handle.pc \in {"active", "wallet", "references"}
    BY <1>3 DEF ActiveWalletPublicKey, Wallets, WalletRegistryHandle, handleWorldVars
  <2>2. /\ DOMAIN handle' = HandleFields /\ handle' = [x \in HandleFields |-> handle'[x]]
        /\ handle'.ask = handle.ask /\ handle'.pc \in {"done", "wallet", "references", "publicKey"}
    BY <1>3 DEF ActiveWalletPublicKey, Wallets, WalletRegistryHandle, AnswerWith, Goto, EventsInv,
                HandleFields
  <2>3. handle'.ask.op # "getEvents"
    BY <2>1, <2>2 DEF EventsInv
  <2> QED  BY <2>1, <2>2, <2>3, OtherCallKeepsEvents
<1>4. CASE GetWalletCompressedPublicKey
  <2>1. /\ UNCHANGED <<events, block>> /\ handle.pc = "publicKey"
        /\ (\E error : AttemptFailed(error)) \/ \E value : AnswerWith(value)
    BY <1>4 DEF GetWalletCompressedPublicKey, handleWorldVars
  <2>2. handle.ask.op # "getEvents"
    BY <2>1 DEF EventsInv
  <2> QED  BY <2>1, <2>2, FailureKeepsEvents, AnswerKeepsEvents
<1> QED  BY <1>1, <1>2, <1>3, <1>4, MessageLostKeepsEvents, QueryAllKeepsEvents,
            LatestBlockKeepsEvents, PullBatchKeepsEvents, BatchesDoneKeepsEvents DEF HandleStep

LEMMA StartKeepsEvents ==
    ASSUME EventsInv, NEW ask \in WriteAsks \union ReadAsks \union EventAsks, StartHandleCall(ask)
    PROVE  EventsInv'
<1>1. /\ UNCHANGED <<events, block>> /\ (ask.op = "getEvents" => ask.to <= block)
      /\ handle' = [NoHandleCall EXCEPT !.ask = ask, !.pc = FirstStage(ask), !.start = block,
                        !.wallet = IF ask.op = "wallets" THEN ask.wallet ELSE "none"]
  BY DEF StartHandleCall, handleWorldVars
<1>2. /\ DOMAIN handle' = HandleFields /\ handle' = [x \in HandleFields |-> handle'[x]]
      /\ handle'.ask = ask /\ handle'.pc = FirstStage(ask) /\ handle'.start = block
      /\ handle'.pulled = <<>>
  BY <1>1 DEF NoHandleCall, HandleFields
<1>3. CASE ask \in EventAsks
  <2>1. ask.op = "getEvents" /\ FirstStage(ask) = "query"
    BY <1>3, EventAskFields DEF FirstStage
  <2> QED  BY <1>1, <1>2, <1>3, <2>1 DEF EventsInv, LogInv
<1>4. CASE ask \in WriteAsks \union ReadAsks
  <2>1. ask.op # "getEvents"
    BY <1>4, OtherAsks
  <2>2. FirstStage(ask) \in {"send", "active", "wallet", "read"}
    BY <2>1 DEF FirstStage
  <2> QED  BY <1>1, <1>2, <2>1, <2>2, OtherCallKeepsEvents
<1> QED  BY <1>3, <1>4

\* An event as the SDK hands it over has the block of the event.
LEMMA ParsedBlocks ==
    ASSUME NEW e
    PROVE  ParseEvent(e).block = e.block
BY DEF ParseEvent, DepositEvent, RedemptionEvent, MintingEvent

\* A search hands each event over once, in the order of the chain: see EventsExactlyOnce.
THEOREM EventsTheorem == EthereumSpec => []EventsExactlyOnce
<1>1. EventsInv /\ [EthereumNext]_handleVars => EventsInv'
  <2> SUFFICES ASSUME EventsInv, [EthereumNext]_handleVars PROVE EventsInv'
    OBVIOUS
  <2>1. ASSUME NEW ask \in WriteAsks \union ReadAsks \union EventAsks, StartHandleCall(ask)
        PROVE  EventsInv'
    BY <2>1, StartKeepsEvents
  <2>2. CASE HandleStep
    BY <2>2, HandleStepKeepsEvents
  <2>3. CASE MineHandleTx \/ WalletChange \/ (\E ask \in WriteAsks : Foreign(TxOf(ask)))
             \/ UNCHANGED handleVars
    <3>1. UNCHANGED handle
      BY <2>3 DEF MineHandleTx, WalletChange, Foreign, handleVars
    <3> QED  BY <3>1, WorldKeepsEvents
  <2> QED  BY <2>1, <2>2, <2>3 DEF EthereumNext
<1>2. EventsInv => EventsExactlyOnce
  <2> SUFFICES ASSUME EventsInv, handle.pc = "done", handle.ask.op = "getEvents"
               PROVE  EventsExactlyOnce
    BY DEF EventsExactlyOnce
  <2> DEFINE found == EventsIn(handle.ask.name, handle.ask.from, handle.answer.to)
  <2>1. handle.answer.to >= RequiredEnd /\ handle.answer.events = ParsedEvents(found)
    BY DEF EventsInv
  <2> HIDE DEF found
  <2>2. /\ DOMAIN handle.answer.events = DOMAIN found
        /\ \A i \in DOMAIN found : handle.answer.events[i].block = found[i].block
    BY <2>1, ParsedBlocks DEF ParsedEvents
  <2>3. [i \in DOMAIN handle.answer.events |-> handle.answer.events[i].block]
            = [i \in DOMAIN found |-> found[i].block]
    BY <2>2
  <2> QED  BY <2>1, <2>3 DEF EventsExactlyOnce, RequiredEnd, found
<1> QED  BY <1>1, <1>2, EventsInitially, PTL DEF EthereumSpec

-----------------------------------------------------------------------------
(***************************************************************************)
(* Wallet transactions: what the SDK assembles and what the Bridge expects.*)
(***************************************************************************)

RequestRecords == [amount : Nat, number : Nat]
ReadRequests == [script : RedeemerScript, request : RequestRecords \ {NoRedemptionRequest}]
RequestKeys == SigningWallet \X RedeemerScript

\* A main UTXO, or what a maintainer takes for one: an output to the key of a wallet.
Spendable(u) ==
    \/ u = NoUtxo
    \/ u.lock[1] \in {"P2PKH", "P2WPKH"} /\ u.value \in Nat

SweepAt(n) ==
    \E main : \E key \in SigningWallet, deposits \in Seq(FundedDeposit), fee \in SweepFee :
        /\ Spendable(main) /\ ~SweepRefused(key, main, deposits, fee)
        /\ txs[n] = AssembleSweepTransaction(key, main, deposits, fee)
        /\ reported[n] = [tx |-> <<"tx", n>>, index |-> 0,
                          value |-> SweepOutputValue(main, deposits, fee),
                          lock |-> WalletOutputLock(key)]

RedemptionAt(n) ==
    \E main : \E key \in SigningWallet, requests \in Seq(ReadRequests) :
        /\ Spendable(main) /\ ~RedemptionRefused(key, main, requests)
        /\ txs[n] = AssembleRedemptionTransaction(key, main, requests)
        /\ reported[n] = IF ChangeOutputValue(main, requests) > 0
                         THEN [tx |-> <<"tx", n>>, index |-> Len(requests),
                               value |-> ChangeOutputValue(main, requests),
                               lock |-> WalletOutputLock(key)]
                         ELSE NoUtxo

TxsInv ==
    /\ \E S : txs \in Seq(S)
    /\ \E S : reported \in Seq(S)
    /\ \E S : txStatus \in Seq(S)
    /\ Len(reported) = Len(txs) /\ Len(txStatus) = Len(txs)
    /\ \A n \in 1..Len(txs) : SweepAt(n) \/ RedemptionAt(n)

MainsInv ==
    /\ DOMAIN registeredMain = SigningWallet
    /\ \A w \in SigningWallet : Spendable(registeredMain[w])

RequestsInv ==
    /\ redemptionRequests \in [RequestKeys -> RequestRecords]
    /\ timedOutRequests \in [RequestKeys -> RequestRecords]
    /\ requestsMade \in Nat

RedeemingInv ==
    /\ DOMAIN redeeming = {"pc", "wallet", "main", "scripts", "requests"}
    /\ redeeming.pc = "reading" =>
          /\ redeeming.wallet \in SigningWallet /\ Spendable(redeeming.main)
          /\ redeeming.scripts \in Seq(RedeemerScript)
          /\ redeeming.requests \in Seq(ReadRequests)

WalletTxInv == TxsInv /\ MainsInv /\ RequestsInv /\ RedeemingInv

LEMMA NoneSpendable ==
    ASSUME NEW u, u = NoUtxo
    PROVE  Spendable(u)
BY Zenon DEF Spendable

\* The total of a list with one more entry.
LEMMA TotalAppend ==
    ASSUME NEW n \in Nat, NEW f \in [1..n -> Nat], NEW g \in [1..(n + 1) -> Nat],
           \A i \in 1..n : g[i] = f[i]
    PROVE  Total(g) = Total(f) + g[n + 1]
<1>1. IsFiniteSet(1..(n + 1)) /\ 1..n \in SUBSET (1..(n + 1)) /\ n + 1 \in Nat
  BY FS_Interval
<1>2. Total(g) = Total([i \in 1..n |-> g[i]]) + Total([i \in (1..(n + 1)) \ (1..n) |-> g[i]])
  <2> PICK D, S : D = 1..(n + 1) /\ S = 1..n
    OBVIOUS
  <2>1. IsFiniteSet(D) /\ S \in SUBSET D /\ g \in [D -> Nat]
    BY <1>1
  <2>2. Total(g) = Total([i \in S |-> g[i]]) + Total([i \in D \ S |-> g[i]])
    BY ONLY <2>1, TotalSplit
  <2> QED  BY <2>2
<1>3. [i \in 1..n |-> g[i]] = f
  OBVIOUS
<1>4. (1..(n + 1)) \ (1..n) = {n + 1}
  OBVIOUS
<1> DEFINE last == [i \in {n + 1} |-> g[i]]
<1>5. last \in [{n + 1} -> Nat] /\ last[n + 1] = g[n + 1]
  OBVIOUS
<1>6. Total(last) = g[n + 1]
  <2> HIDE DEF last
  <2> QED  BY <1>5, TotalSingleton
<1> QED  BY <1>2, <1>3, <1>4, <1>6

LEMMA TotalOfOneEntry ==
    ASSUME NEW n \in Nat, NEW f \in [{1} -> Nat]
    PROVE  Total(f) = f[1]
BY TotalSingleton

-----------------------------------------------------------------------------
(***************************************************************************)
(* What a sweep is made of.                                                *)
(***************************************************************************)

\* The main UTXO and the deposits that a sweep is asked to spend.
SpentBySweep(u, main, deposits) ==
    \/ main # NoUtxo /\ u = main
    \/ \E i \in DOMAIN deposits : u = DepositUtxo(deposits[i])
Listed(u, list) == \E i \in DOMAIN list : u = list[i]

LEMMA SweepMembers ==
    ASSUME NEW main, NEW deposits \in Seq(FundedDeposit), NEW u
    PROVE  /\ Listed(u, SweepInputs(main, deposits)) <=> SpentBySweep(u, main, deposits)
           /\ Len(SweepInputs(main, deposits)) \in Nat
           /\ DOMAIN SweepInputs(main, deposits) = 1..Len(SweepInputs(main, deposits))
<1> DEFINE S == {main} \union {DepositUtxo(d) : d \in FundedDeposit}
           list == [i \in DOMAIN deposits |-> DepositUtxo(deposits[i])]
           first == IF main = NoUtxo THEN <<>> ELSE <<main>>
           inputs == SweepInputs(main, deposits)
<1>1. list \in Seq(S) /\ Len(list) = Len(deposits) /\ first \in Seq(S)
  <2>1. main \in S /\ \A i \in DOMAIN deposits : DepositUtxo(deposits[i]) \in S
    OBVIOUS
  <2> HIDE DEF S
  <2>2. list \in Seq(S) /\ Len(list) = Len(deposits)
    BY <2>1
  <2>3. first \in Seq(S)
    BY <2>1
  <2> QED  BY <2>2, <2>3
<1>2. inputs = first \o list
  BY DEF SweepInputs
<1>3. \A i \in DOMAIN deposits : list[i] = DepositUtxo(deposits[i])
  OBVIOUS
<1>4. /\ main = NoUtxo => Len(first) = 0
      /\ main # NoUtxo => Len(first) = 1 /\ first[1] = main
  OBVIOUS
<1>5. DOMAIN deposits = 1..Len(deposits) /\ Len(deposits) \in Nat
  OBVIOUS
<1> HIDE DEF list, first, inputs, S
<1>6. /\ inputs \in Seq(S) /\ Len(inputs) = Len(first) + Len(deposits)
      /\ \A i \in 1..Len(inputs) : inputs[i] = IF i <= Len(first) THEN first[i]
                                               ELSE list[i - Len(first)]
  <2>1. inputs \in Seq(S) /\ Len(inputs) = Len(first) + Len(list)
    BY <1>1, <1>2, ConcatProperties
  <2>2. \A i \in 1..(Len(first) + Len(list)) :
           (first \o list)[i] = IF i <= Len(first) THEN first[i] ELSE list[i - Len(first)]
    BY <1>1
  <2> QED  BY <1>1, <1>2, <2>1, <2>2
<1>7. (\E i \in DOMAIN inputs : u = inputs[i])
             <=> \/ main # NoUtxo /\ u = main
                 \/ \E i \in DOMAIN deposits : u = DepositUtxo(deposits[i])
  <2>1. ASSUME NEW i \in DOMAIN inputs, u = inputs[i]
        PROVE  \/ main # NoUtxo /\ u = main
               \/ \E j \in DOMAIN deposits : u = DepositUtxo(deposits[j])
    <3>1. CASE i <= Len(first)
      BY <1>4, <1>6, <2>1, <3>1
    <3>2. CASE ~(i <= Len(first))
      <4>1. i - Len(first) \in DOMAIN deposits
        BY <1>4, <1>5, <1>6, <3>2
      <4> QED  BY <1>3, <1>6, <2>1, <3>2, <4>1
    <3> QED  BY <3>1, <3>2
  <2>2. ASSUME main # NoUtxo, u = main
        PROVE  \E i \in DOMAIN inputs : u = inputs[i]
    <3>0. 1 <= Len(first) /\ 1 \in 1..Len(inputs)
      BY <1>4, <1>5, <1>6, <2>2
    <3>1. 1 \in DOMAIN inputs /\ inputs[1] = main
      BY <1>4, <1>6, <2>2, <3>0
    <3> QED  BY <2>2, <3>1
  <2>3. ASSUME NEW j \in DOMAIN deposits, u = DepositUtxo(deposits[j])
        PROVE  \E i \in DOMAIN inputs : u = inputs[i]
    <3>1. /\ j + Len(first) \in DOMAIN inputs /\ ~(j + Len(first) <= Len(first))
          /\ (j + Len(first)) - Len(first) = j
      BY <1>4, <1>5, <1>6
    <3>2. inputs[j + Len(first)] = list[j]
      BY <1>6, <3>1
    <3> QED  BY <1>3, <2>3, <3>1, <3>2
  <2> QED  BY <2>1, <2>2, <2>3
<1> QED  BY <1>6, <1>7 DEF inputs, Listed, SpentBySweep

LEMMA SweepParts ==
    ASSUME NEW main, Spendable(main), NEW deposits \in Seq(FundedDeposit)
    PROVE  /\ Len(SweepInputs(main, deposits)) \in Nat
           /\ ValuesOf(SweepInputs(main, deposits))
                \in [1..Len(SweepInputs(main, deposits)) -> Nat]
<1> DEFINE inputs == SweepInputs(main, deposits)
<1>1. Len(inputs) \in Nat /\ DOMAIN inputs = 1..Len(inputs)
  BY SweepMembers
<1>2. ASSUME NEW i \in DOMAIN inputs  PROVE  inputs[i].value \in Nat
  <2>1. \A d \in FundedDeposit : DepositUtxo(d).value \in Nat
    BY WalletTxAssumption DEF DepositUtxo
  <2>2. main # NoUtxo => main.value \in Nat
    BY DEF Spendable
  <2>3. \/ main # NoUtxo /\ inputs[i] = main
        \/ \E j \in DOMAIN deposits : inputs[i] = DepositUtxo(deposits[j])
    <3>1. Listed(inputs[i], inputs)
      BY <1>2 DEF Listed
    <3>2. SpentBySweep(inputs[i], main, deposits)
      BY <3>1, SweepMembers
    <3> QED  BY <3>2 DEF SpentBySweep
  <2> QED  BY <2>1, <2>2, <2>3
<1> HIDE DEF inputs
<1>3. ValuesOf(inputs) \in [1..Len(inputs) -> Nat]
  BY <1>1, <1>2 DEF ValuesOf
<1> QED  BY <1>1, <1>3 DEF inputs

LEMMA SweepInputsSet ==
    ASSUME NEW main, Spendable(main), NEW deposits \in Seq(FundedDeposit), NEW tx,
           tx.inputs = SweepInputs(main, deposits), NEW u
    PROVE  u \in InputsSet(tx) <=> \/ main # NoUtxo /\ u = main
                                  \/ \E i \in DOMAIN deposits : u = DepositUtxo(deposits[i])
<1>1. Listed(u, tx.inputs) <=> SpentBySweep(u, main, deposits)
  BY SweepMembers
<1> QED  BY <1>1 DEF InputsSet, Listed, SpentBySweep

\* The value of its only output, which a sweep that is not refused can pay.
LEMMA SweepValue ==
    ASSUME NEW key, NEW main, Spendable(main), NEW deposits \in Seq(FundedDeposit),
           NEW fee \in SweepFee, ~SweepRefused(key, main, deposits, fee)
    PROVE  /\ SweepOutputValue(main, deposits, fee) \in Nat
           /\ Total(ValuesOf(SweepInputs(main, deposits)))
                = SweepOutputValue(main, deposits, fee) + fee
<1>1. fee \in Nat
  BY WalletTxAssumption
<1>2. Total(ValuesOf(SweepInputs(main, deposits))) \in Nat
  <2>1. Len(SweepInputs(main, deposits)) \in Nat
    BY SweepParts
  <2>2. IsFiniteSet(1..Len(SweepInputs(main, deposits)))
    BY <2>1, FS_Interval
  <2> QED  BY <2>2, SweepParts, TotalType
<1>3. ~(SweepOutputValue(main, deposits, fee) < 0)
  BY DEF SweepRefused
<1> QED  BY <1>1, <1>2, <1>3 DEF SweepOutputValue

LEMMA SweepAccepted ==
    ASSUME WalletTxInv, NEW n \in 1..Len(txs), SweepAt(n), InputsCurrent(txs[n])
    PROVE  BridgeAcceptsSweep(txs[n])
<1> DEFINE tx == txs[n]
<1>0. PICK main : \E key \in SigningWallet, deposits \in Seq(FundedDeposit), fee \in SweepFee :
          /\ Spendable(main) /\ ~SweepRefused(key, main, deposits, fee)
          /\ tx = AssembleSweepTransaction(key, main, deposits, fee)
  BY DEF SweepAt
<1>1. PICK key \in SigningWallet, deposits \in Seq(FundedDeposit), fee \in SweepFee :
          /\ Spendable(main) /\ ~SweepRefused(key, main, deposits, fee)
          /\ tx = AssembleSweepTransaction(key, main, deposits, fee)
  BY <1>0
<1> DEFINE value == SweepOutputValue(main, deposits, fee)
           registered == registeredMain[key]
<1>2. /\ tx.kind = "sweep" /\ tx.wallet = key /\ tx.inputs = SweepInputs(main, deposits)
      /\ tx.outputs = <<[value |-> value, lock |-> WalletOutputLock(key)]>>
  BY <1>1 DEF AssembleSweepTransaction
<1> HIDE DEF tx, value, registered
<1>3. \A u : u \in InputsSet(tx) <=> \/ main # NoUtxo /\ u = main
                                     \/ \E i \in DOMAIN deposits : u = DepositUtxo(deposits[i])
  BY <1>1, <1>2, SweepInputsSet
<1>4. \A d \in FundedDeposit : DepositUtxo(d).lock[1] \in {"P2SH", "P2WSH"}
  BY WalletTxAssumption DEF DepositUtxo
<1>5. /\ registered = NoUtxo \/ registered \in InputsSet(tx)
      /\ \A u \in InputsSet(tx) : u = registered \/ u.lock[1] \in {"P2SH", "P2WSH"}
      /\ TxDeposits(tx) \intersect sweptDeposits = {}
      /\ \A d, e \in TxDeposits(tx) : d.vault = e.vault
      /\ SweepFeeShare(fee, Cardinality(TxDeposits(tx))) <= SweepTxMaxFee
  BY <1>1, <1>2 DEF InputsCurrent, tx, registered
<1>6. registered = main
  <2>1. CASE main # NoUtxo
    <3>1. main \in InputsSet(tx) /\ main.lock[1] \in {"P2PKH", "P2WPKH"}
      BY <1>1, <1>3, <2>1 DEF Spendable
    <3> QED  BY <1>5, <3>1
  <2>2. CASE main = NoUtxo
    <3>1. registered \notin InputsSet(tx)
      <4>1. registered = NoUtxo \/ registered.lock[1] \in {"P2PKH", "P2WPKH"}
        BY <1>1 DEF registered, WalletTxInv, MainsInv, Spendable
      <4>2. NoUtxo.lock[1] = "none"
        BY DEF NoUtxo
      <4> QED  BY <1>3, <1>4, <2>2, <4>1, <4>2
    <3> QED  BY <1>5, <2>2, <3>1
  <2> QED  BY <2>1, <2>2
<1>7. InputsSet(tx) = {DepositUtxo(d) : d \in TxDeposits(tx)}
                      \union (IF registered = NoUtxo THEN {} ELSE {registered})
  <2>1. \A i \in DOMAIN deposits : deposits[i] \in TxDeposits(tx)
    <3> SUFFICES ASSUME NEW i \in DOMAIN deposits  PROVE  deposits[i] \in TxDeposits(tx)
      OBVIOUS
    <3>1. deposits[i] \in FundedDeposit
      OBVIOUS
    <3>2. DepositUtxo(deposits[i]) \in InputsSet(tx)
      BY <1>3
    <3> QED  BY <3>1, <3>2 DEF TxDeposits, InputsSet
  <2>2. \A d \in TxDeposits(tx) : DepositUtxo(d) \in InputsSet(tx)
    BY DEF TxDeposits, InputsSet
  <2> QED  BY <1>3, <1>6, <2>1, <2>2
<1>8. TxDeposits(tx) # {}
  <2>1. deposits # <<>>
    BY <1>1 DEF SweepRefused
  <2>2. 1 \in DOMAIN deposits
    BY <2>1
  <2>3. deposits[1] \in FundedDeposit /\ DepositUtxo(deposits[1]) \in InputsSet(tx)
    BY <1>3, <2>2
  <2> QED  BY <2>3 DEF TxDeposits, InputsSet
<1>9. TxFee(tx) = fee
  <2>1. value \in Nat /\ Total(ValuesOf(tx.inputs)) = value + fee /\ fee \in Nat
    BY <1>1, <1>2, SweepValue, WalletTxAssumption DEF value
  <2>2. ValuesOf(tx.outputs) \in [{1} -> Nat] /\ ValuesOf(tx.outputs)[1] = value
    BY <1>2, <2>1 DEF ValuesOf
  <2>3. Total(ValuesOf(tx.outputs)) = value
    BY <2>2, TotalSingleton
  <2> QED  BY <2>1, <2>3 DEF TxFee
<1>10. Len(tx.outputs) = 1 /\ tx.outputs[1].lock[2] = tx.wallet
  BY <1>2 DEF WalletOutputLock
<1> QED  BY <1>2, <1>5, <1>7, <1>8, <1>9, <1>10 DEF BridgeAcceptsSweep, tx, registered

-----------------------------------------------------------------------------
(***************************************************************************)
(* What a redemption is made of.                                           *)
(***************************************************************************)

\* Payments come first, one for each request and of its value; the change, if any, is
\* last, and no more is left as fee than the requests allow.
PaysRequests(tx, key, main, requests, change) ==
    /\ Len(requests) \in Nat /\ DOMAIN requests = 1..Len(requests)
    /\ DOMAIN tx.outputs = 1..(IF change > 0 THEN Len(requests) + 1 ELSE Len(requests))
    /\ \A i \in 1..Len(requests) :
          /\ tx.outputs[i].value = RedemptionOutputValue(requests[i].request)
          /\ tx.outputs[i].lock = <<"redeemer", requests[i].script>>
          /\ RedemptionOutputValue(requests[i].request) \in Nat
    /\ change > 0 => tx.outputs[Len(requests) + 1] =
                       [value |-> change, lock |-> WalletOutputLock(key)]
    /\ main.value \in Nat /\ main # NoUtxo /\ change \in Int
    /\ TxFee(tx) \in Int /\ TxFee(tx) <= Len(requests) * RequestTxMaxFee

LEMMA RedemptionParts ==
    ASSUME NEW key, NEW main, Spendable(main), NEW requests \in Seq(ReadRequests),
           ~RedemptionRefused(key, main, requests),
           NEW tx, tx = AssembleRedemptionTransaction(key, main, requests),
           NEW change, change = ChangeOutputValue(main, requests)
    PROVE  PaysRequests(tx, key, main, requests, change)
<1> DEFINE n == Len(requests)
           paid == RedemptionOutputs(requests)
           last == IF change > 0 THEN <<[value |-> change, lock |-> WalletOutputLock(key)]>>
                   ELSE <<>>
<1>1. n \in Nat /\ DOMAIN requests = 1..n
  OBVIOUS
<1>2. /\ main.lock[1] \in {"P2PKH", "P2WPKH"}
      /\ ~(Total(ValuesOf(paid)) > main.value)
      /\ \A i \in 1..n : ~(RedemptionOutputValue(requests[i].request) < 0)
  BY <1>1 DEF RedemptionRefused
<1>3. main # NoUtxo /\ main.value \in Nat
  BY <1>2 DEF Spendable, NoUtxo
<1>4. \A i \in 1..n : RedemptionOutputValue(requests[i].request) \in Nat
  <2> SUFFICES ASSUME NEW i \in 1..n
               PROVE  RedemptionOutputValue(requests[i].request) \in Nat
    OBVIOUS
  <2>0. requests[i] \in ReadRequests
    OBVIOUS
  <2>1. requests[i].request.amount \in Nat
    BY <2>0 DEF ReadRequests, RequestRecords
  <2> QED  BY <1>2, <2>1, WalletTxAssumption DEF RedemptionOutputValue
<1>5. /\ DOMAIN paid = 1..n
      /\ \A i \in 1..n : paid[i] = [value |-> RedemptionOutputValue(requests[i].request),
                                    lock |-> <<"redeemer", requests[i].script>>]
  BY <1>1 DEF RedemptionOutputs
<1>6. ValuesOf(paid) \in [1..n -> Nat]
  BY <1>4, <1>5 DEF ValuesOf
<1>7. Total(ValuesOf(paid)) \in Nat
  <2>1. IsFiniteSet(1..n)
    BY <1>1, FS_Interval
  <2> HIDE DEF n, paid
  <2> QED  BY <1>6, <2>1, TotalType
<1>8. change = main.value - Total(ValuesOf(paid)) - n * RequestTxMaxFee
  BY DEF ChangeOutputValue
<1>9. change \in Int /\ n * RequestTxMaxFee \in Nat
  <2>1. n * RequestTxMaxFee \in Nat
    BY <1>1, WalletTxAssumption
  <2> QED  BY <1>3, <1>7, <1>8, <2>1
<1>10. tx.outputs = paid \o last /\ tx.inputs = <<main>>
  BY DEF AssembleRedemptionTransaction
<1>11. /\ DOMAIN tx.outputs = 1..(IF change > 0 THEN n + 1 ELSE n)
       /\ \A i \in 1..n : tx.outputs[i] = paid[i]
       /\ change > 0 => tx.outputs[n + 1] = [value |-> change, lock |-> WalletOutputLock(key)]
  <2> DEFINE S == {paid[i] : i \in 1..n} \union {[value |-> change, lock |-> WalletOutputLock(key)]}
  <2>1. paid \in Seq(S) /\ Len(paid) = n
    <3>1. paid = [i \in 1..n |-> paid[i]]
      BY <1>5 DEF RedemptionOutputs
    <3> HIDE DEF paid, n
    <3>2. \A i \in 1..n : paid[i] \in S
      OBVIOUS
    <3> HIDE DEF S
    <3> QED  BY <1>1, <3>1, <3>2
  <2>2. /\ last \in Seq(S) /\ Len(last) = IF change > 0 THEN 1 ELSE 0
        /\ change > 0 => last[1] = [value |-> change, lock |-> WalletOutputLock(key)]
    <3> DEFINE output == [value |-> change, lock |-> WalletOutputLock(key)]
    <3>0. output \in S
      OBVIOUS
    <3> HIDE DEF S, output
    <3>1. CASE change > 0
      BY <3>0, <3>1 DEF output
    <3>2. CASE ~(change > 0)
      BY <3>2
    <3> QED  BY <3>1, <3>2
  <2> HIDE DEF paid, last, S, n
  <2>3. /\ tx.outputs \in Seq(S) /\ Len(tx.outputs) = Len(paid) + Len(last)
        /\ \A i \in 1..(Len(paid) + Len(last)) : tx.outputs[i] =
              IF i <= Len(paid) THEN paid[i] ELSE last[i - Len(paid)]
    <3>1. /\ paid \o last \in Seq(S) /\ Len(paid \o last) = Len(paid) + Len(last)
          /\ \A i \in 1..(Len(paid) + Len(last)) : (paid \o last)[i] =
                IF i <= Len(paid) THEN paid[i] ELSE last[i - Len(paid)]
      BY <2>1, <2>2, ConcatProperties
    <3> QED  BY <1>10, <3>1
  <2>4. CASE change > 0
    <3>1. DOMAIN tx.outputs = 1..(n + 1) /\ (n + 1) - n = 1 /\ ~(n + 1 <= n)
      BY <1>1, <2>1, <2>2, <2>3, <2>4
    <3>2. tx.outputs[n + 1] = last[1]
      BY <1>1, <2>1, <2>2, <2>3, <2>4, <3>1
    <3>3. \A i \in 1..n : tx.outputs[i] = paid[i]
      BY <1>1, <2>1, <2>2, <2>3, <2>4
    <3> QED  BY <2>2, <2>4, <3>1, <3>2, <3>3
  <2>5. CASE ~(change > 0)
    BY <1>1, <2>1, <2>2, <2>3, <2>5
  <2> QED  BY <2>4, <2>5
<1> HIDE DEF paid, last, n
<1>12. Total(ValuesOf(tx.inputs)) = main.value
  <2>1. ValuesOf(tx.inputs) \in [{1} -> Nat] /\ ValuesOf(tx.inputs)[1] = main.value
    BY <1>3, <1>10 DEF ValuesOf
  <2> QED  BY <2>1, TotalSingleton
<1>13. Total(ValuesOf(tx.outputs)) = IF change > 0 THEN Total(ValuesOf(paid)) + change
                                     ELSE Total(ValuesOf(paid))
  <2>1. CASE change > 0
    <3>1. /\ ValuesOf(tx.outputs) \in [1..(n + 1) -> Nat]
          /\ ValuesOf(tx.outputs)[n + 1] = change
          /\ \A i \in 1..n : ValuesOf(tx.outputs)[i] = ValuesOf(paid)[i]
      BY <1>1, <1>4, <1>5, <1>9, <1>11, <2>1 DEF ValuesOf
    <3> QED  BY <1>1, <1>6, <2>1, <3>1, TotalAppend
  <2>2. CASE ~(change > 0)
    <3>1. ValuesOf(tx.outputs) = ValuesOf(paid)
      BY <1>5, <1>11, <2>2 DEF ValuesOf
    <3> QED  BY <2>2, <3>1
  <2> QED  BY <2>1, <2>2
<1>14. TxFee(tx) \in Int /\ TxFee(tx) <= n * RequestTxMaxFee
  BY <1>3, <1>7, <1>8, <1>9, <1>12, <1>13 DEF TxFee
<1> QED  BY <1>1, <1>3, <1>4, <1>5, <1>9, <1>11, <1>14 DEF n, PaysRequests

LEMMA RedemptionAccepted ==
    ASSUME WalletTxInv, NEW n \in 1..Len(txs), RedemptionAt(n), InputsCurrent(txs[n])
    PROVE  BridgeAcceptsRedemption(txs[n])
<1> DEFINE tx == txs[n]
<1>1. PICK main : \E key \in SigningWallet, requests \in Seq(ReadRequests) :
          /\ Spendable(main) /\ ~RedemptionRefused(key, main, requests)
          /\ tx = AssembleRedemptionTransaction(key, main, requests)
  BY DEF RedemptionAt
<1>2. PICK key \in SigningWallet, requests \in Seq(ReadRequests) :
          /\ Spendable(main) /\ ~RedemptionRefused(key, main, requests)
          /\ tx = AssembleRedemptionTransaction(key, main, requests)
  BY <1>1
<1> DEFINE change == ChangeOutputValue(main, requests)
           count == Len(requests)
<1>3. /\ tx.kind = "redemption" /\ tx.wallet = key /\ tx.inputs = <<main>>
      /\ tx.requests = requests
  BY <1>2 DEF AssembleRedemptionTransaction
<1> HIDE DEF tx
<1>4. /\ count \in Nat /\ DOMAIN requests = 1..count
      /\ DOMAIN tx.outputs = 1..(IF change > 0 THEN count + 1 ELSE count)
      /\ \A i \in 1..count :
            /\ tx.outputs[i].value = RedemptionOutputValue(requests[i].request)
            /\ tx.outputs[i].lock = <<"redeemer", requests[i].script>>
            /\ RedemptionOutputValue(requests[i].request) \in Nat
      /\ change > 0 => tx.outputs[count + 1] =
                         [value |-> change, lock |-> WalletOutputLock(key)]
      /\ main # NoUtxo /\ TxFee(tx) \in Int /\ TxFee(tx) <= count * RequestTxMaxFee
  <2>1. /\ change = ChangeOutputValue(main, requests)
        /\ tx = AssembleRedemptionTransaction(key, main, requests)
        /\ Spendable(main) /\ ~RedemptionRefused(key, main, requests)
    BY <1>2
  <2> HIDE DEF change
  <2>2. PaysRequests(tx, key, main, requests, change)
    BY <2>1, RedemptionParts
  <2> QED  BY <2>2 DEF PaysRequests
<1> HIDE DEF change, count
<1>5. /\ registeredMain[key] = main
      /\ \A i \in 1..count :
            \/ redemptionRequests[<<key, requests[i].script>>] = requests[i].request
            \/ /\ redemptionRequests[<<key, requests[i].script>>] = NoRedemptionRequest
               /\ timedOutRequests[<<key, requests[i].script>>] = requests[i].request
      /\ \A i, j \in 1..count : i # j => requests[i].script # requests[j].script
      /\ count * RequestTxMaxFee <= TxMaxTotalFee
  <2>1. /\ registeredMain[key] \in InputsSet(tx)
        /\ \A i \in DOMAIN requests :
              \/ redemptionRequests[<<key, requests[i].script>>] = requests[i].request
              \/ /\ redemptionRequests[<<key, requests[i].script>>] = NoRedemptionRequest
                 /\ timedOutRequests[<<key, requests[i].script>>] = requests[i].request
        /\ \A i, j \in DOMAIN requests : i # j => requests[i].script # requests[j].script
        /\ Len(requests) * RequestTxMaxFee <= TxMaxTotalFee
    <3>1. InputsCurrent(tx) /\ tx.kind # "sweep"
      BY <1>3 DEF tx
    <3> QED  BY <1>3, <3>1 DEF InputsCurrent
  <2>2. InputsSet(tx) = {main}
    BY <1>3 DEF InputsSet
  <2> QED  BY <1>4, <2>1, <2>2 DEF count
<1>6. \A i \in 1..count : requests[i].request \in RequestRecords \ {NoRedemptionRequest}
  <2> SUFFICES ASSUME NEW i \in 1..count
               PROVE  requests[i].request \in RequestRecords \ {NoRedemptionRequest}
    OBVIOUS
  <2>1. requests[i] \in ReadRequests
    BY <1>4
  <2>2. requests[i].request \in RequestRecords \ {NoRedemptionRequest}
    BY ONLY <2>1 DEF ReadRequests
  <2> QED  BY <2>2
<1>7. WalletOutputLock(key)[1] \in {"P2PKH", "P2WPKH"}
  BY DEF WalletOutputLock
<1>8. ASSUME NEW i \in DOMAIN tx.outputs
      PROVE  ~IsChange(tx, i) <=> i \in 1..count
  <2>1. CASE i \in 1..count
    <3>1. tx.outputs[i].lock = <<"redeemer", requests[i].script>>
      BY <1>4, <2>1
    <3> QED  BY ONLY <2>1, <3>1 DEF IsChange
  <2>2. CASE i \notin 1..count
    <3>1. change > 0 /\ i = count + 1
      BY <1>4, <2>2
    <3>2. tx.outputs[i].lock = WalletOutputLock(key)
      BY <1>4, <3>1
    <3> QED  BY <1>7, <2>2, <3>2 DEF IsChange
  <2> QED  BY <2>1, <2>2
<1>9. ASSUME NEW i \in 1..count
      PROVE  /\ RequestPaid(tx, i) # NoRedemptionRequest
             /\ tx.outputs[i].value \in
                  (RequestPaid(tx, i).amount - RequestFee - RequestTxMaxFee)
                  ..(RequestPaid(tx, i).amount - RequestFee)
             /\ \A j \in DOMAIN tx.outputs : j # i => tx.outputs[j].lock # tx.outputs[i].lock
  <2>1. tx.outputs[i].lock = <<"redeemer", requests[i].script>>
    BY <1>4
  <2>2. RequestPaid(tx, i) = requests[i].request
    BY <1>3, <1>5, <1>6, <2>1 DEF RequestPaid
  <2>3. requests[i].request # NoRedemptionRequest /\ requests[i].request.amount \in Nat
    BY <1>6 DEF RequestRecords
  <2>4. tx.outputs[i].value = requests[i].request.amount - RequestTxMaxFee - RequestFee
    BY <1>4 DEF RedemptionOutputValue
  <2>5. tx.outputs[i].value \in
           (requests[i].request.amount - RequestFee - RequestTxMaxFee)
           ..(requests[i].request.amount - RequestFee)
    <3> PICK amount : amount = requests[i].request.amount
      OBVIOUS
    <3>1. amount \in Nat /\ RequestTxMaxFee \in Nat /\ RequestFee \in Nat
      BY <2>3, WalletTxAssumption
    <3>2. amount - RequestTxMaxFee - RequestFee
              \in (amount - RequestFee - RequestTxMaxFee)..(amount - RequestFee)
      BY ONLY <3>1
    <3> QED  BY <2>4, <3>2
  <2>6. ASSUME NEW j \in DOMAIN tx.outputs, j # i
        PROVE  tx.outputs[j].lock # tx.outputs[i].lock
    <3>1. CASE j \in 1..count
      <4>1. tx.outputs[j].lock = <<"redeemer", requests[j].script>>
        BY <1>4, <3>1
      <4>2. requests[j].script # requests[i].script
        BY <1>5, <2>6, <3>1
      <4> QED  BY ONLY <2>1, <4>1, <4>2
    <3>2. CASE j \notin 1..count
      <4>1. IsChange(tx, j)
        BY <1>8, <2>6, <3>2
      <4> QED  BY <2>1, <4>1 DEF IsChange
    <3> QED  BY <3>1, <3>2
  <2> QED  BY <2>2, <2>3, <2>5, <2>6
<1>10. TxFee(tx) <= TxMaxTotalFee
  <2>1. TxFee(tx) \in Int /\ count * RequestTxMaxFee \in Int
    BY <1>4, WalletTxAssumption
  <2> QED  BY <1>4, <1>5, <2>1, WalletTxAssumption
<1>11. registeredMain[key] # NoUtxo
  BY <1>4, <1>5
<1> QED  BY <1>3, <1>5, <1>8, <1>9, <1>10, <1>11 DEF BridgeAcceptsRedemption, tx

-----------------------------------------------------------------------------
(***************************************************************************)
(* The main UTXO the SDK reports is the one the Bridge finds in the proof. *)
(***************************************************************************)

LEMMA MinOfOne ==
    ASSUME NEW k \in Nat
    PROVE  Min({k}) = k
BY DEF Min

LEMMA ProvenIsReported ==
    ASSUME NEW n \in 1..Len(txs), SweepAt(n) \/ RedemptionAt(n)
    PROVE  ProvenMainUtxo(n) = reported[n] /\ Spendable(reported[n])
<1> DEFINE tx == txs[n]
           mine == {i \in DOMAIN tx.outputs : tx.outputs[i].lock = WalletOutputLock(tx.wallet)}
<1>1. ASSUME NEW k \in Nat, mine = {k}
      PROVE  ProvenMainUtxo(n) = [tx |-> <<"tx", n>>, index |-> k - 1,
                                  value |-> tx.outputs[k].value, lock |-> tx.outputs[k].lock]
  BY <1>1, MinOfOne DEF ProvenMainUtxo, OutputAt
<1>2. mine = {} => ProvenMainUtxo(n) = NoUtxo
  BY DEF ProvenMainUtxo
<1>3. \A key : WalletOutputLock(key)[1] \in {"P2PKH", "P2WPKH"}
  BY DEF WalletOutputLock
<1>4. CASE SweepAt(n)
  <2>1. PICK main : \E key \in SigningWallet, deposits \in Seq(FundedDeposit), fee \in SweepFee :
            /\ Spendable(main) /\ ~SweepRefused(key, main, deposits, fee)
            /\ tx = AssembleSweepTransaction(key, main, deposits, fee)
            /\ reported[n] = [tx |-> <<"tx", n>>, index |-> 0,
                              value |-> SweepOutputValue(main, deposits, fee),
                              lock |-> WalletOutputLock(key)]
    BY <1>4 DEF SweepAt
  <2>2. PICK key \in SigningWallet, deposits \in Seq(FundedDeposit), fee \in SweepFee :
            /\ Spendable(main) /\ ~SweepRefused(key, main, deposits, fee)
            /\ tx = AssembleSweepTransaction(key, main, deposits, fee)
            /\ reported[n] = [tx |-> <<"tx", n>>, index |-> 0,
                              value |-> SweepOutputValue(main, deposits, fee),
                              lock |-> WalletOutputLock(key)]
    BY <2>1
  <2> DEFINE value == SweepOutputValue(main, deposits, fee)
  <2>3. value \in Nat
    BY <2>2, SweepValue
  <2>4. /\ tx.wallet = key
        /\ tx.outputs = <<[value |-> value, lock |-> WalletOutputLock(key)]>>
    BY <2>2 DEF AssembleSweepTransaction
  <2> HIDE DEF tx, value
  <2>5. mine = {1} /\ 1 - 1 = 0
    BY <2>4
  <2>6. ProvenMainUtxo(n) = [tx |-> <<"tx", n>>, index |-> 0, value |-> value,
                             lock |-> WalletOutputLock(key)]
    BY <1>1, <2>4, <2>5
  <2>7. Spendable(reported[n])
    BY <1>3, <2>2, <2>3 DEF Spendable, value
  <2> QED  BY <2>2, <2>6, <2>7 DEF value
<1>5. CASE RedemptionAt(n)
  <2>1. PICK main : \E key \in SigningWallet, requests \in Seq(ReadRequests) :
            /\ Spendable(main) /\ ~RedemptionRefused(key, main, requests)
            /\ tx = AssembleRedemptionTransaction(key, main, requests)
            /\ reported[n] = IF ChangeOutputValue(main, requests) > 0
                             THEN [tx |-> <<"tx", n>>, index |-> Len(requests),
                                   value |-> ChangeOutputValue(main, requests),
                                   lock |-> WalletOutputLock(key)]
                             ELSE NoUtxo
    BY <1>5 DEF RedemptionAt
  <2>2. PICK key \in SigningWallet, requests \in Seq(ReadRequests) :
            /\ Spendable(main) /\ ~RedemptionRefused(key, main, requests)
            /\ tx = AssembleRedemptionTransaction(key, main, requests)
            /\ reported[n] = IF ChangeOutputValue(main, requests) > 0
                             THEN [tx |-> <<"tx", n>>, index |-> Len(requests),
                                   value |-> ChangeOutputValue(main, requests),
                                   lock |-> WalletOutputLock(key)]
                             ELSE NoUtxo
    BY <2>1
  <2> DEFINE change == ChangeOutputValue(main, requests)
             count == Len(requests)
  <2>3. tx.wallet = key
    BY <2>2 DEF AssembleRedemptionTransaction
  <2> HIDE DEF tx
  <2>4. /\ count \in Nat /\ change \in Int
        /\ DOMAIN tx.outputs = 1..(IF change > 0 THEN count + 1 ELSE count)
        /\ \A i \in 1..count : tx.outputs[i].lock = <<"redeemer", requests[i].script>>
        /\ change > 0 => tx.outputs[count + 1] =
                           [value |-> change, lock |-> WalletOutputLock(key)]
    <3>1. PaysRequests(tx, key, main, requests, change)
      BY <2>2, RedemptionParts
    <3> QED  BY <3>1 DEF PaysRequests
  <2>5. reported[n] = IF change > 0
                      THEN [tx |-> <<"tx", n>>, index |-> count, value |-> change,
                            lock |-> WalletOutputLock(key)]
                      ELSE NoUtxo
    BY <2>2
  <2> HIDE DEF change, count
  <2>6. \A i \in 1..count : tx.outputs[i].lock # WalletOutputLock(key)
    BY <1>3, <2>4
  <2>7. CASE change > 0
    <3>1. mine = {count + 1} /\ count + 1 \in Nat /\ (count + 1) - 1 = count
      <4>1. count + 1 \in mine
        BY <2>3, <2>4, <2>7
      <4>2. ASSUME NEW i \in mine  PROVE  i = count + 1
        BY <2>3, <2>4, <2>6, <2>7
      <4> HIDE DEF mine
      <4> QED  BY <2>4, <4>1, <4>2
    <3>2. ProvenMainUtxo(n) = [tx |-> <<"tx", n>>, index |-> count, value |-> change,
                               lock |-> WalletOutputLock(key)]
      <4> HIDE DEF mine
      <4> QED  BY <1>1, <2>4, <2>7, <3>1
    <3>3. change \in Nat
      BY <2>4, <2>7
    <3> QED  BY <1>3, <2>5, <2>7, <3>2, <3>3 DEF Spendable
  <2>8. CASE ~(change > 0)
    <3>1. mine = {}
      BY <2>3, <2>4, <2>6, <2>8
    <3>2. ProvenMainUtxo(n) = NoUtxo
      <4> HIDE DEF mine
      <4> QED  BY <1>2, <3>1
    <3>3. reported[n] = NoUtxo
      BY <2>5, <2>8
    <3> QED  BY <3>2, <3>3, NoneSpendable
  <2> QED  BY <2>7, <2>8
<1> QED  BY <1>4, <1>5

-----------------------------------------------------------------------------
(***************************************************************************)
(* The steps.                                                              *)
(***************************************************************************)

LEMMA WalletTxInitInv == WalletTxInit => WalletTxInv
<1> SUFFICES ASSUME WalletTxInit  PROVE  WalletTxInv
  OBVIOUS
<1>1. TxsInv
  <2>1. txs = <<>> /\ reported = <<>> /\ txStatus = <<>>
    BY DEF WalletTxInit
  <2>2. <<>> \in Seq({}) /\ Len(<<>>) = 0
    OBVIOUS
  <2> QED  BY <2>1, <2>2 DEF TxsInv
<1>2. MainsInv
  <2>1. CASE registeredMain \in [SigningWallet -> {NoUtxo}]
    <3>1. DOMAIN registeredMain = SigningWallet
      BY <2>1
    <3>2. \A w \in SigningWallet : registeredMain[w] = NoUtxo
      BY <2>1
    <3> QED  BY <3>1, <3>2, NoneSpendable DEF MainsInv
  <2>2. CASE registeredMain = [w \in SigningWallet |-> FirstMain(w)]
    BY <2>2, WalletTxAssumption DEF MainsInv, Spendable, FirstMain
  <2> QED  BY <2>1, <2>2 DEF WalletTxInit
<1>3. RequestsInv
  BY DEF WalletTxInit, RequestsInv, RequestKeys, RequestRecords, NoRedemptionRequest
<1>4. RedeemingInv
  BY DEF WalletTxInit, RedeemingInv, NotRedeeming
<1> QED  BY <1>1, <1>2, <1>3, <1>4 DEF WalletTxInv

\* What is said of a transaction stays true as long as it and its report do.
LEMMA TransactionKept ==
    ASSUME NEW n \in 1..Len(txs), SweepAt(n) \/ RedemptionAt(n),
           txs'[n] = txs[n], reported'[n] = reported[n]
    PROVE  SweepAt(n)' \/ RedemptionAt(n)'
BY DEF SweepAt, RedemptionAt

LEMMA TxsKept ==
    ASSUME TxsInv, UNCHANGED <<txs, reported>>,
           \/ txStatus' = txStatus
           \/ \E n \in 1..Len(txs), status \in {"confirmed", "proved"} :
                  txStatus' = [txStatus EXCEPT ![n] = status]
    PROVE  TxsInv'
<1>1. (\E S : txStatus' \in Seq(S)) /\ Len(txStatus') = Len(txStatus)
  <2>1. PICK S : txStatus \in Seq(S)
    BY DEF TxsInv
  <2>2. txStatus' \in Seq(S \union {"confirmed", "proved"}) /\ Len(txStatus') = Len(txStatus)
    <3>1. CASE txStatus' = txStatus
      BY <2>1, <3>1
    <3>2. CASE \E n \in 1..Len(txs), status \in {"confirmed", "proved"} :
                  txStatus' = [txStatus EXCEPT ![n] = status]
      BY <2>1, <3>2 DEF TxsInv
    <3> QED  BY <3>1, <3>2
  <2> QED  BY <2>2
<1>2. \A n \in 1..Len(txs) : SweepAt(n)' \/ RedemptionAt(n)'
  BY TransactionKept DEF TxsInv
<1> QED  BY <1>1, <1>2 DEF TxsInv

LEMMA TxsExtended ==
    ASSUME TxsInv, NEW tx, NEW newMain, Broadcast(tx, newMain),
           NEW n, n = Len(txs) + 1,
           txs'[n] = tx /\ reported'[n] = newMain => SweepAt(n)' \/ RedemptionAt(n)'
    PROVE  TxsInv'
<1>1. PICK S : txs \in Seq(S)
  BY DEF TxsInv
<1>2. PICK T : reported \in Seq(T)
  BY DEF TxsInv
<1>3. PICK U : txStatus \in Seq(U)
  BY DEF TxsInv
<1>4. Len(reported) = Len(txs) /\ Len(txStatus) = Len(txs) /\ Len(txs) \in Nat
  BY <1>1 DEF TxsInv
<1>5. /\ txs' \in Seq(S \union {tx}) /\ Len(txs') = Len(txs) + 1
      /\ txs'[Len(txs) + 1] = tx
      /\ \A m \in 1..Len(txs) : txs'[m] = txs[m]
  BY <1>1 DEF Broadcast
<1>6. /\ reported' \in Seq(T \union {newMain}) /\ Len(reported') = Len(txs) + 1
      /\ reported'[Len(txs) + 1] = newMain
      /\ \A m \in 1..Len(txs) : reported'[m] = reported[m]
  BY <1>2, <1>4 DEF Broadcast
<1>7. /\ txStatus' \in Seq(U \union {"mempool", "rejected"})
      /\ Len(txStatus') = Len(txs) + 1
  BY <1>3, <1>4 DEF Broadcast
<1>8. \A m \in 1..Len(txs) : SweepAt(m)' \/ RedemptionAt(m)'
  BY <1>5, <1>6, TransactionKept DEF TxsInv
<1>9. SweepAt(n)' \/ RedemptionAt(n)'
  BY <1>5, <1>6
<1>10. \A m \in 1..Len(txs') : m \in 1..Len(txs) \/ m = n
  BY <1>4, <1>5
<1>11. \A m \in 1..Len(txs') : SweepAt(m)' \/ RedemptionAt(m)'
  BY <1>8, <1>9, <1>10
<1> QED  BY <1>5, <1>6, <1>7, <1>11 DEF TxsInv

\* What a maintainer may hold for the main UTXO is one.
LEMMA KnownSpendable ==
    ASSUME WalletTxInv, NEW w \in SigningWallet, NEW main \in KnownMain(w)
    PROVE  Spendable(main)
<1>1. CASE main = NoUtxo
  BY <1>1, NoneSpendable
<1>2. CASE main = registeredMain[w]
  BY <1>2 DEF WalletTxInv, MainsInv
<1>3. ASSUME NEW n \in DOMAIN txs, main = reported[n]
      PROVE  Spendable(main)
  <2>1. n \in 1..Len(txs)
    BY DEF WalletTxInv, TxsInv
  <2> QED  BY <1>3, <2>1, ProvenIsReported DEF WalletTxInv, TxsInv
<1> QED  BY <1>1, <1>2, <1>3 DEF KnownMain

LEMMA ListsAreSequences == DepositLists \subseteq Seq(FundedDeposit)
                           /\ ScriptLists \subseteq Seq(RedeemerScript)
<1>1. ASSUME NEW S  PROVE  <<>> \in Seq(S)
  OBVIOUS
<1>2. ASSUME NEW S, NEW d \in S  PROVE  <<d>> \in Seq(S)
  OBVIOUS
<1>3. ASSUME NEW S, NEW d \in S, NEW e \in S  PROVE  <<d, e>> \in Seq(S)
  OBVIOUS
<1>4. DepositLists \subseteq Seq(FundedDeposit)
  <2> SUFFICES ASSUME NEW list \in DepositLists  PROVE  list \in Seq(FundedDeposit)
    OBVIOUS
  <2>1. \/ list = <<>> \/ \E d \in FundedDeposit : list = <<d>>
        \/ \E d, e \in FundedDeposit : list = <<d, e>>
    BY DEF DepositLists
  <2> QED  BY <1>1, <1>2, <1>3, <2>1
<1>5. ScriptLists \subseteq Seq(RedeemerScript)
  <2> SUFFICES ASSUME NEW list \in ScriptLists  PROVE  list \in Seq(RedeemerScript)
    OBVIOUS
  <2>1. \/ \E s \in RedeemerScript : list = <<s>>
        \/ \E s, t \in RedeemerScript : list = <<s, t>>
    BY DEF ScriptLists
  <2> QED  BY <1>2, <1>3, <2>1
<1> QED  BY <1>4, <1>5

LEMMA SubmitSweepStep ==
    ASSUME WalletTxInv, NEW key \in SigningWallet, NEW deposits \in DepositLists,
           NEW fee \in SweepFee, NEW main \in KnownMain(key),
           SubmitSweepTransaction(key, main, deposits, fee)
    PROVE  WalletTxInv'
<1> DEFINE tx == AssembleSweepTransaction(key, main, deposits, fee)
           newMain == [tx |-> <<"tx", Len(txs) + 1>>, index |-> 0,
                       value |-> tx.outputs[1].value, lock |-> tx.outputs[1].lock]
<1>1. Broadcast(tx, newMain) /\ ~SweepRefused(key, main, deposits, fee)
  BY DEF SubmitSweepTransaction
<1>2. deposits \in Seq(FundedDeposit) /\ Spendable(main)
  BY KnownSpendable, ListsAreSequences
<1>3. PICK n : n = Len(txs) + 1
  OBVIOUS
<1>4. newMain = [tx |-> <<"tx", n>>, index |-> 0,
                 value |-> SweepOutputValue(main, deposits, fee),
                 lock |-> WalletOutputLock(key)]
  BY <1>3 DEF AssembleSweepTransaction
<1>5. ASSUME txs'[n] = tx, reported'[n] = newMain
      PROVE  SweepAt(n)'
  BY <1>1, <1>2, <1>4, <1>5 DEF SweepAt
<1>6. TxsInv'
  <2> HIDE DEF tx, newMain
  <2> QED  BY <1>1, <1>3, <1>5, TxsExtended DEF WalletTxInv
<1>7. UNCHANGED <<registeredMain, redemptionRequests, timedOutRequests, requestsMade, redeeming>>
  BY DEF SubmitSweepTransaction
<1> QED  BY <1>6, <1>7 DEF WalletTxInv, MainsInv, RequestsInv, RedeemingInv

LEMMA SubmitRedemptionStep ==
    ASSUME WalletTxInv, NEW key \in SigningWallet, NEW scripts \in ScriptLists,
           NEW main \in KnownMain(key), SubmitRedemptionTransaction(key, main, scripts)
    PROVE  WalletTxInv'
<1>1. TxsInv'
  BY TxsKept DEF SubmitRedemptionTransaction, WalletTxInv
<1>2. RedeemingInv'
  <2>1. scripts \in Seq(RedeemerScript) /\ Spendable(main)
    BY KnownSpendable, ListsAreSequences
  <2>2. redeeming' = [pc |-> "reading", wallet |-> key, main |-> main, scripts |-> scripts,
                      requests |-> <<>>]
    BY DEF SubmitRedemptionTransaction
  <2>3. <<>> \in Seq(ReadRequests)
    OBVIOUS
  <2> QED  BY <2>1, <2>2, <2>3 DEF RedeemingInv
<1> QED  BY <1>1, <1>2 DEF SubmitRedemptionTransaction, WalletTxInv, MainsInv, RequestsInv

LEMMA ReadRequestStep ==
    ASSUME WalletTxInv, ReadRequest
    PROVE  WalletTxInv'
<1>1. TxsInv'
  BY TxsKept DEF ReadRequest, WalletTxInv
<1>2. RedeemingInv'
  <2> DEFINE script == Head(redeeming.scripts)
             request == redemptionRequests[<<redeeming.wallet, script>>]
  <2>1. /\ redeeming.pc = "reading" /\ redeeming.scripts # <<>>
        /\ redeeming' = IF request = NoRedemptionRequest THEN NotRedeeming
                        ELSE [redeeming EXCEPT !.scripts = Tail(@), !.requests =
                                 Append(@, [script |-> script, request |-> request])]
    BY DEF ReadRequest
  <2>2. /\ redeeming.wallet \in SigningWallet /\ Spendable(redeeming.main)
        /\ redeeming.scripts \in Seq(RedeemerScript)
        /\ redeeming.requests \in Seq(ReadRequests)
        /\ DOMAIN redeeming = {"pc", "wallet", "main", "scripts", "requests"}
    BY <2>1 DEF WalletTxInv, RedeemingInv
  <2>3. script \in RedeemerScript /\ Tail(redeeming.scripts) \in Seq(RedeemerScript)
    BY <2>1, <2>2
  <2>4. request \in RequestRecords
    <3>1. <<redeeming.wallet, script>> \in RequestKeys
      BY <2>2, <2>3 DEF RequestKeys
    <3> QED  BY <3>1 DEF WalletTxInv, RequestsInv
  <2>5. CASE request = NoRedemptionRequest
    BY <2>1, <2>5 DEF RedeemingInv, NotRedeeming
  <2>6. CASE request # NoRedemptionRequest
    <3> DEFINE read == [script |-> script, request |-> request]
    <3>1. read \in ReadRequests
      BY <2>3, <2>4, <2>6 DEF ReadRequests
    <3>2. redeeming' = [redeeming EXCEPT !.scripts = Tail(@), !.requests = Append(@, read)]
      BY <2>1, <2>6
    <3> HIDE DEF script, request, read
    <3>3. /\ redeeming'.wallet = redeeming.wallet /\ redeeming'.main = redeeming.main
          /\ redeeming'.scripts = Tail(redeeming.scripts)
          /\ redeeming'.requests = Append(redeeming.requests, read)
          /\ DOMAIN redeeming' = DOMAIN redeeming
      BY <2>2, <3>2
    <3>4. Append(redeeming.requests, read) \in Seq(ReadRequests)
      BY <2>2, <3>1
    <3> QED  BY <2>2, <2>3, <3>3, <3>4 DEF RedeemingInv
  <2> QED  BY <2>5, <2>6
<1> QED  BY <1>1, <1>2 DEF ReadRequest, WalletTxInv, MainsInv, RequestsInv

LEMMA AssembleStep ==
    ASSUME WalletTxInv, AssembleAndBroadcast
    PROVE  WalletTxInv'
<1> DEFINE key == redeeming.wallet
           main == redeeming.main
           requests == redeeming.requests
           tx == AssembleRedemptionTransaction(key, main, requests)
           newMain == NewMainUtxo(Len(txs) + 1, main, requests)
<1>1. /\ key \in SigningWallet /\ Spendable(main) /\ requests \in Seq(ReadRequests)
  BY DEF AssembleAndBroadcast, WalletTxInv, RedeemingInv
<1>2. TxsInv'
  <2>1. CASE RedemptionRefused(key, main, requests)
    <3>1. UNCHANGED <<txs, reported, txStatus>>
      BY <2>1 DEF AssembleAndBroadcast
    <3> QED  BY <3>1, TxsKept DEF WalletTxInv
  <2>2. CASE ~RedemptionRefused(key, main, requests)
    <3>1. Broadcast(tx, newMain)
      BY <2>2 DEF AssembleAndBroadcast
    <3>2. PICK n : n = Len(txs) + 1
      OBVIOUS
    <3>3. newMain = IF ChangeOutputValue(main, requests) > 0
                    THEN [tx |-> <<"tx", n>>, index |-> Len(requests),
                          value |-> ChangeOutputValue(main, requests),
                          lock |-> WalletOutputLock(key)]
                    ELSE NoUtxo
      BY <3>2 DEF NewMainUtxo
    <3>4. PICK k, m, r : k = key /\ m = main /\ r = requests
      OBVIOUS
    <3>5. ASSUME txs'[n] = tx, reported'[n] = newMain
          PROVE  RedemptionAt(n)'
      <4>1. /\ k \in SigningWallet /\ Spendable(m) /\ r \in Seq(ReadRequests)
            /\ ~RedemptionRefused(k, m, r) /\ txs'[n] = AssembleRedemptionTransaction(k, m, r)
            /\ reported'[n] = IF ChangeOutputValue(m, r) > 0
                              THEN [tx |-> <<"tx", n>>, index |-> Len(r),
                                    value |-> ChangeOutputValue(m, r),
                                    lock |-> WalletOutputLock(k)]
                              ELSE NoUtxo
        BY <1>1, <2>2, <3>3, <3>4, <3>5
      <4> QED  BY <4>1 DEF RedemptionAt
    <3> HIDE DEF tx, newMain
    <3> QED  BY <3>1, <3>2, <3>5, TxsExtended DEF WalletTxInv
  <2> QED  BY <2>1, <2>2
<1>3. redeeming' = NotRedeeming
  BY DEF AssembleAndBroadcast
<1>4. RedeemingInv'
  BY <1>3 DEF RedeemingInv, NotRedeeming
<1> QED  BY <1>2, <1>4 DEF AssembleAndBroadcast, WalletTxInv, MainsInv, RequestsInv

LEMMA RequestStep ==
    ASSUME WalletTxInv, NEW w \in SigningWallet, NEW s \in RedeemerScript,
           \/ \E amount \in RequestedAmount : RequestToBridge(w, s, amount)
           \/ TimeoutAtBridge(w, s)
    PROVE  WalletTxInv'
<1>1. TxsInv'
  BY TxsKept DEF RequestToBridge, TimeoutAtBridge, WalletTxInv
<1>2. <<w, s>> \in RequestKeys
  BY DEF RequestKeys
<1>3. RequestsInv'
  <2>1. ASSUME NEW amount \in RequestedAmount, RequestToBridge(w, s, amount)
        PROVE  RequestsInv'
    <3>1. requestsMade \in Nat /\ amount \in Nat
      BY WalletTxAssumption DEF WalletTxInv, RequestsInv
    <3>2. [amount |-> amount, number |-> requestsMade + 1] \in RequestRecords
      BY <3>1 DEF RequestRecords
    <3> QED  BY <1>2, <2>1, <3>1, <3>2 DEF RequestToBridge, WalletTxInv, RequestsInv
  <2>2. CASE TimeoutAtBridge(w, s)
    <3>1. NoRedemptionRequest \in RequestRecords
      BY DEF NoRedemptionRequest, RequestRecords
    <3>2. redemptionRequests[<<w, s>>] \in RequestRecords
      BY <1>2 DEF WalletTxInv, RequestsInv
    <3> QED  BY <1>2, <2>2, <3>1, <3>2 DEF TimeoutAtBridge, WalletTxInv, RequestsInv
  <2> QED  BY <2>1, <2>2
<1> QED  BY <1>1, <1>3 DEF RequestToBridge, TimeoutAtBridge, WalletTxInv, MainsInv, RedeemingInv

LEMMA ChainStep ==
    ASSUME WalletTxInv, NEW n \in DOMAIN txs,
           ConfirmTx(n) \/ SubmitSweepProof(n) \/ SubmitRedemptionTxProof(n)
    PROVE  WalletTxInv'
<1>1. n \in 1..Len(txs)
  BY DEF WalletTxInv, TxsInv
<1>2. TxsInv'
  <2>1. UNCHANGED <<txs, reported>>
    BY DEF ConfirmTx, SubmitSweepProof, SubmitRedemptionTxProof
  <2>2. \E m \in 1..Len(txs), status \in {"confirmed", "proved"} :
           txStatus' = [txStatus EXCEPT ![m] = status]
    BY <1>1 DEF ConfirmTx, SubmitSweepProof, SubmitRedemptionTxProof
  <2> QED  BY <2>1, <2>2, TxsKept DEF WalletTxInv
<1>3. MainsInv'
  <2>1. CASE registeredMain' = registeredMain
    BY <2>1 DEF WalletTxInv, MainsInv
  <2>2. CASE registeredMain' = [registeredMain EXCEPT ![txs[n].wallet] = ProvenMainUtxo(n)]
    <3>1. Spendable(ProvenMainUtxo(n))
      BY <1>1, ProvenIsReported DEF WalletTxInv, TxsInv
    <3> QED  BY <2>2, <3>1 DEF WalletTxInv, MainsInv
  <2> QED  BY <2>1, <2>2 DEF ConfirmTx, SubmitSweepProof, SubmitRedemptionTxProof
<1>4. RequestsInv'
  <2>1. CASE ConfirmTx(n) \/ SubmitSweepProof(n)
    BY <2>1 DEF ConfirmTx, SubmitSweepProof, WalletTxInv, RequestsInv
  <2>2. CASE SubmitRedemptionTxProof(n)
    <3>1. NoRedemptionRequest \in RequestRecords
      BY DEF NoRedemptionRequest, RequestRecords
    <3> DEFINE paid == {<<txs[n].wallet, txs[n].outputs[i].lock[2]>> :
                           i \in {j \in DOMAIN txs[n].outputs : ~IsChange(txs[n], j)}}
    <3>2. /\ redemptionRequests' = [k \in DOMAIN redemptionRequests |->
                 IF k \in paid THEN NoRedemptionRequest ELSE redemptionRequests[k]]
          /\ timedOutRequests' = [k \in DOMAIN timedOutRequests |->
                 IF k \in paid /\ redemptionRequests[k] = NoRedemptionRequest
                 THEN NoRedemptionRequest ELSE timedOutRequests[k]]
          /\ requestsMade' = requestsMade
      BY <2>2 DEF SubmitRedemptionTxProof
    <3> HIDE DEF paid
    <3> QED  BY <3>1, <3>2 DEF WalletTxInv, RequestsInv
  <2> QED  BY <2>1, <2>2
<1>5. RedeemingInv'
  <2>1. redeeming' = redeeming
    BY DEF ConfirmTx, SubmitSweepProof, SubmitRedemptionTxProof
  <2> QED  BY <2>1 DEF WalletTxInv, RedeemingInv
<1> QED  BY <1>2, <1>3, <1>4, <1>5 DEF WalletTxInv

LEMMA WalletTxStep ==
    ASSUME WalletTxInv, [WalletTxNext]_walletTxVars
    PROVE  WalletTxInv'
<1>1. CASE UNCHANGED walletTxVars
  <2>1. TxsInv'
    BY <1>1, TxsKept DEF walletTxVars, WalletTxInv
  <2> QED  BY <1>1, <2>1 DEF walletTxVars, WalletTxInv, MainsInv, RequestsInv, RedeemingInv
<1>2. ASSUME NEW key \in SigningWallet, NEW deposits \in DepositLists, NEW fee \in SweepFee,
             NEW main \in KnownMain(key), SubmitSweepTransaction(key, main, deposits, fee)
      PROVE  WalletTxInv'
  BY <1>2, SubmitSweepStep
<1>3. ASSUME NEW key \in SigningWallet, NEW scripts \in ScriptLists,
             NEW main \in KnownMain(key) \ {NoUtxo},
             SubmitRedemptionTransaction(key, main, scripts)
      PROVE  WalletTxInv'
  BY <1>3, SubmitRedemptionStep
<1>4. CASE ReadRequest
  BY <1>4, ReadRequestStep
<1>5. CASE AssembleAndBroadcast
  BY <1>5, AssembleStep
<1>6. ASSUME NEW w \in SigningWallet, NEW s \in RedeemerScript,
             \/ \E amount \in RequestedAmount : RequestToBridge(w, s, amount)
             \/ TimeoutAtBridge(w, s)
      PROVE  WalletTxInv'
  BY <1>6, RequestStep
<1>7. ASSUME NEW n \in DOMAIN txs,
             ConfirmTx(n) \/ SubmitSweepProof(n) \/ SubmitRedemptionTxProof(n)
      PROVE  WalletTxInv'
  BY <1>7, ChainStep
<1> QED  BY <1>1, <1>2, <1>3, <1>4, <1>5, <1>6, <1>7 DEF WalletTxNext

(* A sweep or a redemption that the SDK assembled is one the Bridge accepts   *)
(* the proof of, whatever fees, values, deposits and requests it was made     *)
(* for, as long as what it was made from has not changed in the Bridge.       *)
THEOREM AssembledTxTheorem == WalletTxSpec => []AssembledTxProvable
<1>1. WalletTxInv => AssembledTxProvable
  <2> SUFFICES ASSUME WalletTxInv, NEW n \in DOMAIN txs,
                      txStatus[n] = "confirmed", InputsCurrent(txs[n])
               PROVE  IF txs[n].kind = "sweep" THEN BridgeAcceptsSweep(txs[n])
                      ELSE BridgeAcceptsRedemption(txs[n])
    BY DEF AssembledTxProvable
  <2>1. n \in 1..Len(txs) /\ (SweepAt(n) \/ RedemptionAt(n))
    BY DEF WalletTxInv, TxsInv
  <2>2. SweepAt(n) => txs[n].kind = "sweep"
    BY DEF SweepAt, AssembleSweepTransaction
  <2>3. RedemptionAt(n) => txs[n].kind = "redemption"
    BY DEF RedemptionAt, AssembleRedemptionTransaction
  <2> QED  BY <2>1, <2>2, <2>3, SweepAccepted, RedemptionAccepted
<1> QED  BY <1>1, WalletTxInitInv, WalletTxStep, PTL DEF WalletTxSpec

(* The new main UTXO the SDK reports for a transaction is the one the Bridge  *)
(* registers when the transaction is proved, whatever happened meanwhile.     *)
THEOREM ReportedMainTheorem == WalletTxSpec => ReportedMainUtxoRegistered
<1> DEFINE AsReported == \A n \in DOMAIN txs :
               txStatus[n] = "confirmed" /\ txStatus'[n] = "proved" =>
                   registeredMain'[txs[n].wallet] = reported[n]
<1>1. ASSUME WalletTxInv, [WalletTxNext]_walletTxVars
      PROVE  [AsReported]_walletTxVars
  <2> SUFFICES ASSUME WalletTxNext, NEW n \in DOMAIN txs,
                      txStatus[n] = "confirmed", txStatus'[n] = "proved"
               PROVE  registeredMain'[txs[n].wallet] = reported[n]
    BY <1>1
  <2>1. n \in 1..Len(txs) /\ (SweepAt(n) \/ RedemptionAt(n)) /\ n \in 1..Len(txStatus)
    BY <1>1 DEF WalletTxInv, TxsInv
  <2>2. ProvenMainUtxo(n) = reported[n]
    BY <2>1, ProvenIsReported
  <2>3. txs[n].wallet \in SigningWallet
    <3>1. SweepAt(n) => txs[n].wallet \in SigningWallet
      BY DEF SweepAt, AssembleSweepTransaction
    <3>2. RedemptionAt(n) => txs[n].wallet \in SigningWallet
      BY DEF RedemptionAt, AssembleRedemptionTransaction
    <3> QED  BY <2>1, <3>1, <3>2
  <2>4. PICK S : txStatus \in Seq(S)
    BY <1>1 DEF WalletTxInv, TxsInv
  <2>5. ASSUME NEW tx, NEW newMain, Broadcast(tx, newMain)
        PROVE  txStatus'[n] = txStatus[n]
    BY <2>1, <2>4, <2>5 DEF Broadcast
  <2>6. txStatus'[n] # txStatus[n]
    OBVIOUS
  <2>7. \E m \in DOMAIN txs : ConfirmTx(m) \/ SubmitSweepProof(m) \/ SubmitRedemptionTxProof(m)
    <3>1. ASSUME NEW key, NEW main, NEW deposits, NEW fee,
                 SubmitSweepTransaction(key, main, deposits, fee)
          PROVE  FALSE
      BY <2>5, <2>6, <3>1 DEF SubmitSweepTransaction
    <3>2. ASSUME AssembleAndBroadcast  PROVE  FALSE
      BY <2>5, <2>6, <3>2 DEF AssembleAndBroadcast
    <3>3. ASSUME NEW key, NEW main, NEW scripts,
                 SubmitRedemptionTransaction(key, main, scripts)
          PROVE  FALSE
      BY <2>6, <3>3 DEF SubmitRedemptionTransaction
    <3>4. ~ReadRequest
      BY <2>6 DEF ReadRequest
    <3>5. ASSUME NEW w, NEW s, \/ \E amount \in RequestedAmount : RequestToBridge(w, s, amount)
                               \/ TimeoutAtBridge(w, s)
          PROVE  FALSE
      BY <2>6, <3>5 DEF RequestToBridge, TimeoutAtBridge
    <3> QED  BY <3>1, <3>2, <3>3, <3>4, <3>5 DEF WalletTxNext
  <2>8. PICK m \in DOMAIN txs : ConfirmTx(m) \/ SubmitSweepProof(m) \/ SubmitRedemptionTxProof(m)
    BY <2>7
  <2>9. m = n /\ ~ConfirmTx(m)
    <3>1. \E status : txStatus' = [txStatus EXCEPT ![m] = status]
      BY <2>8 DEF ConfirmTx, SubmitSweepProof, SubmitRedemptionTxProof
    <3>2. m = n
      BY <2>1, <2>4, <2>6, <3>1
    <3>3. ~ConfirmTx(n)
      BY DEF ConfirmTx
    <3> QED  BY <3>2, <3>3
  <2>10. registeredMain' = [registeredMain EXCEPT ![txs[n].wallet] = ProvenMainUtxo(n)]
    BY <2>8, <2>9 DEF SubmitSweepProof, SubmitRedemptionTxProof
  <2> QED  BY <1>1, <2>2, <2>3, <2>10 DEF WalletTxInv, MainsInv
<1> QED  BY <1>1, WalletTxInitInv, WalletTxStep, PTL DEF WalletTxSpec, ReportedMainUtxoRegistered

=============================================================================
