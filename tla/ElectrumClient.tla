---------------------------- MODULE ElectrumClient ----------------------------
(***************************************************************************)
(* The Bitcoin client of the SDK (lib/electrum): every call connects to    *)
(* the first server that lets it, sends its requests, each retried, and    *)
(* closes the connection; some calls make other calls, one or several at   *)
(* once, which have connections of their own.  Blocks are mined in         *)
(* between, and servers get to know of them one by one.                    *)
(***************************************************************************)
EXTENDS Integers, SequencesExt, Orderings

CONSTANTS
    BitcoinTransaction,   \* transactions
    OutputScripts,        \* of each: the scripts of its outputs, a sequence
    Credentials,          \* number of servers configured
    RetryAttempts,        \* totalRetryAttempts, 3 in the code
    PlaceInBlock,         \* of each transaction among those of its block
    HistoryLimit,         \* limits callers give for a history, 0 for none
    MaxHeight,            \* bound on the height of the chain
    MaxElectrumFaults     \* bound on failed connections, requests and lost replies

ASSUME ElectrumAssumption ==
    /\ Credentials \in Nat \ {0} /\ RetryAttempts \in Nat /\ MaxHeight \in Nat
    /\ IsFiniteSet(BitcoinTransaction) /\ HistoryLimit \subseteq Nat
    /\ \A t \in BitcoinTransaction : PlaceInBlock[t] \in Nat /\ OutputScripts[t] \in Seq(STRING)
    /\ \A s, t \in BitcoinTransaction : PlaceInBlock[s] = PlaceInBlock[t] => s = t

VARIABLES
    height,          \* of the latest block
    txHeight,        \* block of each transaction, 0 in the mempool, -1 unknown
    tip,             \* of each server: the latest block it knows
    frames,          \* the call of the user, if any, and those it has made in turn
    openConnections,
    answer,          \* of the last call made by the user: [op, arg, failed, value, faults]
    before,          \* txHeight and tip when it was made
    electrumFaults,  \* faults so far and, of the call in progress, before it
    faultsBefore

electrumVars == <<height, txHeight, tip, frames, openConnections, answer, before,
                  electrumFaults, faultsBefore>>

Server == 1..Credentials
AboutTransaction == {"getTransaction", "getRawTransaction", "getTransactionMerkle", "broadcast",
                     "getTransactionConfirmations"}
AboutChain == {"getNetwork", "latestBlockHeight", "getHeadersChain", "getCoinbaseTxHash",
               "getTxHashesForPublicKeyHash"}
NoAnswer == [op |-> "none", arg |-> "none", failed |-> FALSE, value |-> <<>>, faults |-> 0]
-----------------------------------------------------------------------------
(* What servers answer: each from the blocks it knows, and from a mempool  *)
(* that may hold any of the other transactions.                            *)

PaysTo(t, script) == \E i \in DOMAIN OutputScripts[t] : OutputScripts[t][i] = script

ConfirmedAt(s, t) == txHeight[t] \in 1..tip[s]
MayKnow(s) == {t \in BitcoinTransaction : txHeight[t] >= 0 /\ ~ConfirmedAt(s, t)}
KnownTo(s, mempool) == {t \in BitcoinTransaction : ConfirmedAt(s, t)} \union mempool

\* The order of the chain; the transactions of the mempool come last.
ServedOrder(s) ==
    LET Block(t) == IF ConfirmedAt(s, t) THEN txHeight[t] ELSE MaxHeight + 1
    IN {p \in BitcoinTransaction \X BitcoinTransaction :
            \/ Block(p[1]) < Block(p[2])
            \/ Block(p[1]) = Block(p[2]) /\ PlaceInBlock[p[1]] <= PlaceInBlock[p[2]]}

ServedHistory(s, script, mempool) ==
    LET items == Arranged({t \in KnownTo(s, mempool) : PaysTo(t, script)}, ServedOrder(s))
    IN [i \in DOMAIN items |-> [tx |-> items[i],
                                 height |-> IF ConfirmedAt(s, items[i]) THEN txHeight[items[i]] ELSE 0]]

\* The hash of a script is reversed in place at each attempt, so that every other attempt
\* asks for another script, one without any history.
AskedScript(f, script) ==
    IF f.op = "getTransactionConfirmations" /\ f.attempt % 2 = 1 THEN "reversed" ELSE script

Request(method, param) == [do |-> "request", method |-> method, param |-> param]
Calls(op, args) == [do |-> "calls", op |-> op, args |-> args]
Call(op, arg) == Calls(op, <<arg>>)
Return(value) == [do |-> "return", value |-> value]
Throw == [do |-> "throw"]

\* Servers refuse requests about transactions they do not know, for the branch of one that
\* they know in no block, and to broadcast one that they know in a block.
Refused(s, request, mempool) ==
    \/ request.method = "transaction_get" /\ request.param \notin KnownTo(s, mempool)
    \/ request.method = "getMerkle" /\ ~ConfirmedAt(s, request.param)
    \/ request.method = "broadcast" /\ ConfirmedAt(s, request.param)

Reply(f, request, mempool) ==
    CASE request.method = "getHistory" ->
            ServedHistory(f.server, AskedScript(f, request.param), mempool)
      [] request.method = "listunspent" -> ServedHistory(f.server, request.param, mempool)
      [] request.method = "headers_subscribe" -> tip[f.server]
      [] request.method = "transaction_get" -> request.param
      [] OTHER -> "ok"
-----------------------------------------------------------------------------
(* What a call does next, as a function of what it has got so far.          *)

Confirmed(items) == Selected(items, {i \in DOMAIN items : items[i].height > 0})
Hashes(items) == [i \in DOMAIN items |-> items[i].tx]
Limited(items, limit) ==
    IF limit > 0 /\ Len(items) > limit THEN SubSeq(items, Len(items) - limit + 1, Len(items))
    ELSE items

FindAllUnspent(f) ==
    CASE Len(f.got) = 0 -> Call("getNetwork", "none")
      [] Len(f.got) = 1 -> Request("listunspent", f.arg)
      [] Len(f.got) = 2 -> Return(Hashes(Reverse(f.got[2])))

\* Sorting is stable: items of one height stay in the order they are in.
HeightOrder(items) ==
    {p \in (DOMAIN items) \X (DOMAIN items) :
        \/ items[p[1]].height < items[p[2]].height
        \/ items[p[1]].height = items[p[2]].height /\ p[1] <= p[2]}
SortedByHeight(items) ==
    LET places == Arranged(DOMAIN items, HeightOrder(items))
    IN [k \in DOMAIN places |-> items[places[k]]]

\* The transactions of the history are fetched by calls of their own, all at once.
TransactionHistory(f) ==
    CASE Len(f.got) = 0 -> Call("getNetwork", "none")
      [] Len(f.got) = 1 -> Request("getHistory", f.arg[1])
      [] Len(f.got) = 2 ->
            LET items == Limited(SortedByHeight(Confirmed(f.got[2])), f.arg[2])
            IN IF items = <<>> THEN Return(<<>>) ELSE Calls("getTransaction", Hashes(items))
      [] Len(f.got) > 2 -> Return(SubSeq(f.got, 3, Len(f.got)))

\* Mutant: a transaction in the latest block counts as unconfirmed.
ConfirmationsWithoutOwnBlock(latest, found) == IF latest >= found THEN latest - found ELSE 0

ConfirmationsAt(latest, found) == IF latest >= found THEN latest - found + 1 ELSE 0

\* The histories of the outputs' scripts are asked for one by one until one has the
\* transaction; then the latest block is.
TransactionConfirmations(f) ==
    LET scripts == OutputScripts[f.arg]
        asked == {i \in DOMAIN scripts : i + 1 <= Len(f.got) - f.calls}
        hits == UNION {{item \in ToSet(f.got[i + 1]) : item.tx = f.arg} : i \in asked}
        found == (CHOOSE item \in hits : TRUE).height
    IN CASE f.got = <<>> -> Request("transaction_get", f.arg)
         [] f.got # <<>> /\ hits = {} ->
               IF Cardinality(asked) = Len(scripts) THEN Throw
               ELSE Request("getHistory", scripts[Len(f.got)])
         [] f.got # <<>> /\ hits # {} ->
               IF found <= 0 THEN Return(0)
               ELSE IF f.calls = 0 THEN Call("latestBlockHeight", "none")
               ELSE Return(ConfirmationsAt(f.got[Len(f.got)], found))

\* Each history is sorted first, which makes no difference to the result.
MergedByHeight(p2pkhItems, p2wpkhItems) == SortedByHeight(p2pkhItems \o p2wpkhItems)

TxHashesForPublicKeyHash(f) ==
    CASE Len(f.got) = 0 -> Call("getNetwork", "none")
      [] Len(f.got) = 1 -> Request("getHistory", "p2pkh")
      [] Len(f.got) = 2 -> Request("getHistory", "p2wpkh")
      [] Len(f.got) = 3 ->
            Return(Hashes(MergedByHeight(Confirmed(f.got[2]), Confirmed(f.got[3]))))

\* Calls of one request.
Once(f, method) == IF f.got = <<>> THEN Request(method, f.arg) ELSE Return(f.got[1])
GetNetwork(f) == Once(f, "server_features")
GetTransaction(f) == Once(f, "transaction_get")
GetRawTransaction(f) == Once(f, "transaction_get")
LatestBlockHeight(f) == Once(f, "headers_subscribe")
GetHeadersChain(f) == Once(f, "block_headers")
GetTransactionMerkle(f) == Once(f, "getMerkle")
GetCoinbaseTxHash(f) == Once(f, "id_from_pos")
BroadcastTx(f) == Once(f, "broadcast")

NextStep(f) ==
    CASE f.op = "findAllUnspentTransactionOutputs" -> FindAllUnspent(f)
      [] f.op = "getTransactionHistory" -> TransactionHistory(f)
      [] f.op = "getTransactionConfirmations" -> TransactionConfirmations(f)
      [] f.op = "getTxHashesForPublicKeyHash" -> TxHashesForPublicKeyHash(f)
      [] f.op = "getNetwork" -> GetNetwork(f)
      [] f.op = "getTransaction" -> GetTransaction(f)
      [] f.op = "getRawTransaction" -> GetRawTransaction(f)
      [] f.op = "latestBlockHeight" -> LatestBlockHeight(f)
      [] f.op = "getHeadersChain" -> GetHeadersChain(f)
      [] f.op = "getTransactionMerkle" -> GetTransactionMerkle(f)
      [] f.op = "getCoinbaseTxHash" -> GetCoinbaseTxHash(f)
      [] f.op = "broadcast" -> BroadcastTx(f)
-----------------------------------------------------------------------------
(* Running the calls.                                                       *)

NewFrame(op, arg) == [op |-> op, arg |-> arg, status |-> "connecting", server |-> 1,
                      socket |-> FALSE, attempt |-> 0, got |-> <<>>, calls |-> 0]

\* The user's call waits while others that it made are in progress.
Active(i) ==
    /\ i \in DOMAIN frames /\ (i = 1 => Len(frames) = 1)
    /\ frames[i].status \in {"connecting", "connected"}
ElectrumFault == electrumFaults < MaxElectrumFaults /\ electrumFaults' = electrumFaults + 1
WorldStays == UNCHANGED <<height, tip, before, faultsBefore>>

NewElectrumCall(op, arg) ==
    /\ frames = <<>>
    /\ frames' = <<NewFrame(op, arg)>>
    /\ answer' = NoAnswer
    /\ before' = [txHeight |-> txHeight, tip |-> tip]
    /\ faultsBefore' = electrumFaults
    /\ UNCHANGED <<height, txHeight, tip, openConnections, electrumFaults>>

\* An error ends a call, and the user's call with the first error of those it waits for; each
\* closes its own connection, and the others that were made go on.
Settled(list) ==
    IF \A i \in DOMAIN list : list[i].status \in {"returned", "over"} THEN <<>> ELSE list
FailCall(i, sockets) ==
    LET ended == {j \in {1, i} : frames[j].status # "over"}
    IN /\ frames' = Settled([j \in DOMAIN frames |->
                                 IF j \in ended THEN [frames[j] EXCEPT !.status = "over"]
                                 ELSE frames[j]])
       /\ openConnections' = sockets - Cardinality({j \in ended : frames[j].status = "connected"})
       /\ answer' = IF 1 \notin ended THEN answer
                     ELSE [op |-> frames[1].op, arg |-> frames[1].arg, failed |-> TRUE,
                           value |-> <<>>, faults |-> electrumFaults' - faultsBefore]

\* Mutant: there is no attempt after the last retry.
RetryWithoutLast(f) == f.attempt + 1 < RetryAttempts

\* What backoffRetrier does after a failure: as many retries as configured, the last one
\* unguarded.
MayRetry(f) == f.attempt < RetryAttempts

Connecting(i) == Active(i) /\ frames[i].status = "connecting"
Connected(i, do) ==
    Active(i) /\ frames[i].status = "connected" /\ NextStep(frames[i]).do = do

OpenSocket(i) ==
    /\ Connecting(i) /\ ~frames[i].socket
    /\ frames' = [frames EXCEPT ![i].socket = TRUE]
    /\ openConnections' = openConnections + 1
    /\ WorldStays /\ UNCHANGED <<txHeight, answer, electrumFaults>>

Ping(i) ==
    /\ Connecting(i) /\ frames[i].socket
    /\ frames' = [frames EXCEPT ![i].status = "connected", ![i].attempt = 0]
    /\ WorldStays /\ UNCHANGED <<txHeight, openConnections, answer, electrumFaults>>

\* Connecting or the ping failed or took too long, after which the socket may still open: one
\* server after the other, each with retries.  A server that is given up is not disconnected.
ConnectFailed(i) ==
    /\ Connecting(i) /\ ElectrumFault
    /\ \E opened \in {frames[i].socket, TRUE} :
          LET sockets == openConnections + (IF opened = frames[i].socket THEN 0 ELSE 1)
          IN \/ /\ MayRetry(frames[i])
                /\ frames' = [frames EXCEPT ![i].attempt = @ + 1, ![i].socket = opened]
                /\ openConnections' = sockets /\ UNCHANGED answer
             \/ /\ ~MayRetry(frames[i]) /\ frames[i].server < Credentials
                /\ frames' = [frames EXCEPT ![i].server = @ + 1, ![i].attempt = 0,
                                            ![i].socket = FALSE]
                /\ openConnections' = sockets /\ UNCHANGED answer
             \/ ~MayRetry(frames[i]) /\ frames[i].server = Credentials /\ FailCall(i, sockets)
    /\ WorldStays /\ UNCHANGED txHeight

Retry(i) ==
    \/ /\ MayRetry(frames[i])
       /\ frames' = [frames EXCEPT ![i].attempt = @ + 1]
       /\ UNCHANGED <<openConnections, answer>>
    \/ ~MayRetry(frames[i]) /\ FailCall(i, openConnections)

\* A transaction the network took is in the mempool, whether or not the reply arrives.
Accept(request) ==
    txHeight' = IF request.method = "broadcast" /\ txHeight[request.param] = -1
                THEN [txHeight EXCEPT ![request.param] = 0] ELSE txHeight

SendRequest(i, mempool) ==
    /\ Connected(i, "request")
    /\ mempool \subseteq MayKnow(frames[i].server)
    /\ LET f == frames[i]
           request == NextStep(f)
       IN \/ /\ ~Refused(f.server, request, mempool)
             /\ frames' = [frames EXCEPT ![i].got = Append(@, Reply(f, request, mempool)),
                                         ![i].attempt = 0]
             /\ Accept(request)
             /\ UNCHANGED <<openConnections, answer, electrumFaults>>
          \/ /\ Refused(f.server, request, mempool)
             /\ UNCHANGED <<txHeight, electrumFaults>> /\ Retry(i)
          \/ /\ ~Refused(f.server, request, mempool) /\ ElectrumFault /\ Retry(i)
             /\ Accept(request) \/ UNCHANGED txHeight
    /\ WorldStays

MakeCalls(i) ==
    /\ Connected(i, "calls")
    /\ LET step == NextStep(frames[i])
       IN frames' = frames \o [k \in DOMAIN step.args |-> NewFrame(step.op, step.args[k])]
    /\ WorldStays /\ UNCHANGED <<txHeight, openConnections, answer, electrumFaults>>

ThrowError(i) ==
    /\ Connected(i, "throw") /\ UNCHANGED electrumFaults
    /\ FailCall(i, openConnections)
    /\ WorldStays /\ UNCHANGED txHeight

\* When all have returned, the call that waits gets their values, in the order it made them in.
Resumed(list) ==
    LET others == DOMAIN list \ {1}
    IN IF list[1].status = "connected" /\ \A i \in others : list[i].status = "returned"
       THEN <<[list[1] EXCEPT !.got = @ \o [k \in 1..(Len(list) - 1) |-> list[k + 1].got[1]],
                              !.calls = @ + 1]>>
       ELSE Settled(list)

ReturnFromCall(i) ==
    /\ Connected(i, "return")
    /\ openConnections' = openConnections - 1
    /\ LET value == NextStep(frames[i]).value
       IN IF i = 1
          THEN /\ frames' = <<>>
               /\ answer' = [op |-> frames[1].op, arg |-> frames[1].arg, failed |-> FALSE,
                             value |-> value, faults |-> electrumFaults - faultsBefore]
          ELSE /\ frames' = Resumed([frames EXCEPT ![i].status = "returned", ![i].got = <<value>>])
               /\ UNCHANGED answer
    /\ WorldStays /\ UNCHANGED <<txHeight, electrumFaults>>

CallVars == <<frames, openConnections, answer, before, electrumFaults, faultsBefore>>

\* A block with some transactions of the mempool, which others fill as well.
BlockMined(included) ==
    /\ height < MaxHeight
    /\ height' = height + 1
    /\ txHeight' = [t \in BitcoinTransaction |-> IF t \in included THEN height + 1 ELSE txHeight[t]]
    /\ UNCHANGED tip /\ UNCHANGED CallVars

BlockReceived(s) ==
    /\ tip[s] < height
    /\ tip' = [tip EXCEPT ![s] = @ + 1]
    /\ UNCHANGED <<height, txHeight>> /\ UNCHANGED CallVars

CallStep(i) ==
    \/ OpenSocket(i) \/ Ping(i) \/ ConnectFailed(i)
    \/ \E mempool \in SUBSET MayKnow(frames[i].server) : SendRequest(i, mempool)
    \/ MakeCalls(i) \/ ThrowError(i) \/ ReturnFromCall(i)

ElectrumNext ==
    \/ \E op \in AboutTransaction, t \in BitcoinTransaction : NewElectrumCall(op, t)
    \/ \E op \in AboutChain : NewElectrumCall(op, "none")
    \/ \E limit \in HistoryLimit : NewElectrumCall("getTransactionHistory", <<"p2wpkh", limit>>)
    \/ NewElectrumCall("findAllUnspentTransactionOutputs", "p2wpkh")
    \/ \E i \in DOMAIN frames : CallStep(i)
    \/ \E included \in SUBSET {t \in BitcoinTransaction : txHeight[t] < 1} : BlockMined(included)
    \/ \E s \in Server : BlockReceived(s)

ElectrumInit ==
    /\ height \in 1..2 /\ height <= MaxHeight
    /\ txHeight \in [BitcoinTransaction -> -1..height]
    /\ tip \in [Server -> 1..height]
    /\ frames = <<>> /\ openConnections = 0 /\ answer = NoAnswer
    /\ before = [txHeight |-> txHeight, tip |-> tip]
    /\ electrumFaults = 0 /\ faultsBefore = 0

ElectrumSpec == ElectrumInit /\ [][ElectrumNext]_electrumVars
-----------------------------------------------------------------------------
(* Properties.                                                              *)

\* Every server knew the transaction in a block when the call was made.
ConfirmedThen(t) == \A s \in Server : before.txHeight[t] \in 1..before.tip[s]
Ordered(hashes) ==
    \A i, j \in DOMAIN hashes : i < j => txHeight[hashes[i]] <= txHeight[hashes[j]]
HistoryTrue(hashes, scripts, whole) ==
    /\ whole => \A t \in BitcoinTransaction :
                    ConfirmedThen(t) /\ (\E script \in scripts : PaysTo(t, script))
                        => t \in ToSet(hashes)
    /\ \A t \in ToSet(hashes) : txHeight[t] > 0
    /\ Ordered(hashes)

\* What a call answers was true for some server at some moment between its beginning and its
\* end, although it is put together from several requests, to servers that know more or fewer
\* blocks: a number of confirmations is not above that of the chain at the end, nor below that
\* of the slowest server at the beginning (none unless every server had the transaction in a
\* block); a history has every transaction that every server had in a block at the beginning,
\* none that is in no block at the end, in the order of their blocks.
AnswerTruthful ==
    frames = <<>> /\ ~answer.failed =>
        CASE answer.op = "getTransactionConfirmations" ->
                /\ ConfirmedThen(answer.arg) =>
                       \E s \in Server :
                           answer.value >= before.tip[s] - before.txHeight[answer.arg] + 1
                /\ answer.value > 0 => txHeight[answer.arg] > 0
                /\ answer.value > 0 => answer.value <= height - txHeight[answer.arg] + 1
                /\ answer.value >= 0
          [] answer.op = "latestBlockHeight" ->
                answer.value <= height /\ \E s \in Server : answer.value >= before.tip[s]
          [] answer.op = "getTxHashesForPublicKeyHash" ->
                HistoryTrue(answer.value, {"p2pkh", "p2wpkh"}, TRUE)
          [] answer.op = "getTransactionHistory" ->
                HistoryTrue(answer.value, {"p2wpkh"}, answer.arg[2] = 0)
          [] OTHER -> TRUE

\* A call ends in an error only after more faults than one request is retried, unless a server
\* may refuse what is asked: it does not know the transaction, or, for a broadcast, has it in a
\* block, perhaps since the first attempt.  (What getTransactionConfirmations does after a
\* fault is another matter.)  And when nothing is in progress, connections are open only to
\* servers that were given up, each after all its retries: requests leave none, nor do calls
\* whose caller has failed already.
RetriesHideFaults ==
    /\ answer.failed =>
           \/ answer.faults > RetryAttempts
           \/ answer.op = "getTransactionConfirmations"
           \/ answer.op \in {"getTransaction", "getRawTransaction", "getTransactionMerkle"}
                  /\ ~ConfirmedThen(answer.arg)
           \/ answer.op = "broadcast" /\ txHeight[answer.arg] > 0
    /\ frames = <<>> => openConnections * (RetryAttempts + 1) <= electrumFaults

=============================================================================
