------------------------------ MODULE BitcoinSpv ------------------------------
(***************************************************************************)
(* SPV proofs of the SDK (lib/bitcoin/spv.ts, header.ts and tx.ts): a      *)
(* proof is put together from answers that a server gives one at a time,   *)
(* while blocks are mined and reorganised, and validated the way the       *)
(* Bridge does.  Bytes are sequences of numbers: a transaction's vectors   *)
(* are one positive number, and each hashing puts HashMark before its      *)
(* preimage, so that no two preimages share a hash.                        *)
(***************************************************************************)
EXTENDS Integers, Sequences, SequencesExt

CONSTANTS
    BlockContent,    \* sequences of transactions (positive numbers) that blocks may hold
    EpochBlocks,     \* blocks of one difficulty, 2016 in Bitcoin
    EpochBits,       \* the "bits" of the epochs, a sequence
    Diff1Target,     \* the target of difficulty 1, 0xffff * 256^26 in the code
    ProofRequests,   \* records [tx, required, previous, current]
    ForgedBranches,  \* what faulty servers make up: records [merkle, position]
    MaxForgedHeaders,                     \* of one answer
    MaxBlocks, MaxReorgs, MaxSpvFaults    \* bounds

ASSUME EpochAssumption == EpochBlocks \in Nat \ {0} /\ Diff1Target \in Nat \ {0}
ASSUME BoundAssumption == MaxBlocks \in Nat /\ MaxReorgs \in Nat
ASSUME ForgedAssumption == ForgedBranches \subseteq [merkle : Seq(Seq(Int)), position : Nat]
ASSUME RequestAssumption ==
    \A r \in ProofRequests : r.tx \in Nat /\ r.required \in Int

\* Coinbase transactions have numbers above those of all others.
FirstCoinbase == 10
ASSUME ContentAssumption == \A txs \in BlockContent : txs \in Seq(1..FirstCoinbase)

VARIABLES
    chain,       \* the best chain, a sequence of blocks [txs, nonce, previous, bits]
    mined,       \* all blocks ever mined
    reorgs, spvFaults,
    proof        \* the call of validateBitcoinSpvProof in progress

spvVars == <<chain, mined, reorgs, spvFaults, proof>>

NoRequest == [tx |-> 0, required |-> 0, previous |-> 0, current |-> 0]
NoProof == [pc |-> "idle", of |-> NoRequest, confirmations |-> 0, height |-> 0,
            headers |-> <<>>, branch |-> <<>>, position |-> 0, coinbase |-> 0,
            preimage |-> <<>>, coinbaseBranch |-> <<>>, disturbed |-> FALSE]
-----------------------------------------------------------------------------
(* Hashes and Merkle trees.                                                 *)

HashMark == -1
ComputeSha256(bytes) == <<HashMark>> \o bytes
ComputeHash256(bytes) == ComputeSha256(ComputeSha256(bytes))

\* A raw transaction also has a witness, which its hash does not cover.
RawTransaction(tx) == [vectors |-> <<tx>>, witness |-> <<HashMark, tx>>]
ExtractBitcoinRawTxVectors(raw) == raw.vectors

\* The hash in Bitcoin's own byte order; explorers and servers show it reversed.
InternalHash(tx) == ComputeHash256(ExtractBitcoinRawTxVectors(RawTransaction(tx)))
ShownHash(tx) == Reverse(InternalHash(tx))

\* The levels of a tree over transactions, the last node of an odd level paired with itself.
Pairing(level) ==
    [i \in 1..((Len(level) + 1) \div 2) |->
        ComputeHash256(level[2 * i - 1] \o level[IF 2 * i > Len(level) THEN Len(level) ELSE 2 * i])]
Leaves(txs) == [i \in DOMAIN txs |-> InternalHash(txs[i])]
TreeLevel(txs, d) ==
    LET level[k \in 0..d] == IF k = 0 THEN Leaves(txs) ELSE Pairing(level[k - 1]) IN level[d]
TreeDepth(txs) ==
    CHOOSE d \in 0..Len(txs) :
        Len(TreeLevel(txs, d)) = 1 /\ \A e \in 0..(d - 1) : Len(TreeLevel(txs, e)) > 1
MerkleRoot(txs) == TreeLevel(txs, TreeDepth(txs))[1]

\* The 0-based index, k levels up, of the node above the one at an index.
IndexAbove(index, k) ==
    LET above[j \in 0..k] == IF j = 0 THEN index ELSE above[j - 1] \div 2 IN above[k]

\* A server's Merkle branch of the transaction at a 0-based position, in shown byte order.
MerkleBranch(txs, position) ==
    [k \in 1..TreeDepth(txs) |->
        LET level == TreeLevel(txs, k - 1)
            i == IndexAbove(position, k - 1)
            sibling == IF i % 2 = 1 THEN i ELSE i + 2
        IN Reverse(level[IF sibling > Len(level) THEN Len(level) ELSE sibling])]

CreateMerkleProof(branch) == [k \in DOMAIN branch |-> Reverse(branch[k])]

\* One level up: the proof's hash comes first when the index is odd.
JoinNodes(current, node, index) ==
    ComputeHash256(IF index % 2 = 1 THEN node \o current ELSE current \o node)
ValidateMerkleTreeHashes(shown, root, nodes, index) ==
    LET hash[k \in 0..Len(nodes)] ==
            IF k = 0 THEN Reverse(shown)
            ELSE JoinNodes(hash[k - 1], nodes[k], IndexAbove(index, k - 1))
    IN Len(nodes) # 0 /\ hash[Len(nodes)] = root

\* Mutant: the index is not looked at, nor is the tree climbed.
AnyMerkleTree(shown, root, nodes, index) == Len(root) >= Len(shown)

\* A block with a coinbase transaction only has no tree to climb.
ValidateMerkleTree(shown, root, nodes, index) ==
    \/ Reverse(shown) = root /\ index = 0 /\ nodes = <<>>
    \/ ValidateMerkleTreeHashes(shown, root, nodes, index)
-----------------------------------------------------------------------------
(* Headers.                                                                 *)

\* "bits" hold an exponent in their first byte and a mantissa in the other three.
BitsToTarget(bits) == (bits % 2^24) * 256^((bits \div 2^24) - 3)
TargetToDifficulty(target) == Diff1Target \div target

HeaderOf(block) == [previousBlockHeaderHash |-> block.previous, bits |-> block.bits,
                    merkleRootHash |-> MerkleRoot(block.txs), nonce |-> block.nonce]
HeaderLength == 4
SerializeHeader(h) == <<h.previousBlockHeaderHash, h.merkleRootHash, h.bits, h.nonce>>
SerializeHeaders(headers) ==
    [j \in 1..(HeaderLength * Len(headers)) |->
        SerializeHeader(headers[(j - 1) \div HeaderLength + 1])[((j - 1) % HeaderLength) + 1]]
DeserializeHeader(raw) ==
    [previousBlockHeaderHash |-> raw[1], merkleRootHash |-> raw[2], bits |-> raw[3],
     nonce |-> raw[4]]
DeserializeHeadersChain(raw) ==
    [i \in 1..(Len(raw) \div HeaderLength) |->
        DeserializeHeader(SubSeq(raw, HeaderLength * (i - 1) + 1, HeaderLength * i))]

\* Each miner's header has a nonce of its own, which stands for the header's hash, as a
\* number below the target; a header that is not a miner's has nonce 0 and a hash above it.
HeaderHash(h) == h.nonce
EnoughWork(h) == h.nonce # 0 /\ HeaderHash(h) <= BitsToTarget(h.bits)

FollowsPredecessor(headers, i) ==
    i = 1 \/ headers[i].previousBlockHeaderHash = HeaderHash(headers[i - 1])

\* At the previous difficulty, then at the current one, without a way back.
DifficultyFits(headers, i, previous, current) ==
    LET difficulty == TargetToDifficulty(BitsToTarget(headers[i].bits))
    IN \/ previous = 1 /\ current = 1
       \/ /\ difficulty \in {previous, current}
          /\ i > 1 /\ TargetToDifficulty(BitsToTarget(headers[i - 1].bits)) = current
             => difficulty = current

ValidateBitcoinHeadersChain(headers, previous, current) ==
    \A i \in DOMAIN headers :
        /\ FollowsPredecessor(headers, i) /\ EnoughWork(headers[i])
        /\ DifficultyFits(headers, i, previous, current)
-----------------------------------------------------------------------------
(* The server: the best chain as it is when the server is asked.            *)

HeightOf(tx) == {h \in DOMAIN chain : Contains(chain[h].txs, tx)}
TxConfirmations(tx) ==
    IF HeightOf(tx) = {} THEN 0 ELSE Len(chain) - (CHOOSE h \in HeightOf(tx) : TRUE) + 1

\* The chain does not get shorter: the blocks that were confirmations are there, or others.
HeadersFrom(height, more) ==
    IF height \notin DOMAIN chain THEN <<>>
    ELSE [i \in 1..(more + 1) |-> HeaderOf(chain[height + i - 1])]

PositionIn(txs, tx) == (CHOOSE i \in DOMAIN txs : txs[i] = tx) - 1

Refuse == proof' = [proof EXCEPT !.pc = "failed"]
Undisturbed == UNCHANGED <<chain, mined, reorgs, spvFaults>>
SpvFault == spvFaults < MaxSpvFaults /\ spvFaults' = spvFaults + 1

StartProof(request) ==
    /\ proof.pc = "idle"
    /\ proof' = [NoProof EXCEPT !.of = request,
                     !.pc = IF request.required < 1 THEN "failed" ELSE "confirmations"]
    /\ Undisturbed

\* The transaction and its confirmations are read before the chain's height is.
ReadConfirmations ==
    /\ proof.pc = "confirmations"
    /\ IF TxConfirmations(proof.of.tx) < proof.of.required THEN Refuse
       ELSE proof' = [proof EXCEPT !.confirmations = TxConfirmations(proof.of.tx),
                                   !.pc = "height"]
    /\ Undisturbed

\* Mutant: the transaction's block is the first of its confirmations, not counted twice.
HeightBeforeBlock(latest, confirmations) == latest - confirmations

TxBlockHeight(latest, confirmations) == latest - confirmations + 1

ReadHeight ==
    /\ proof.pc = "height"
    /\ proof' = [proof EXCEPT !.height = TxBlockHeight(Len(chain), proof.confirmations),
                              !.pc = "headers"]
    /\ Undisturbed

\* Headers of any blocks that were mined, or made by nobody, who did no work.
ForgedHeaders == LET served == {HeaderOf(b) : b \in mined}
                 IN served \union {[h EXCEPT !.nonce = 0] : h \in served}

\* A faulty server may answer with other headers in some places, or with too few.
ReadHeaders ==
    /\ proof.pc = "headers"
    /\ LET asked == HeadersFrom(proof.height, proof.of.required - 1)
           Answer(headers) ==
               proof' = [proof EXCEPT !.headers = SerializeHeaders(headers), !.pc = "merkle",
                                      !.disturbed = @ \/ headers # asked]
       IN \/ Answer(asked) /\ UNCHANGED spvFaults
          \/ /\ SpvFault
             /\ \/ \E places \in SUBSET DOMAIN asked :
                       /\ Cardinality(places) \in 1..MaxForgedHeaders
                       /\ \E forged \in [places -> ForgedHeaders] :
                             Answer([i \in DOMAIN asked |->
                                         IF i \in places THEN forged[i] ELSE asked[i]])
                \/ asked # <<>> /\ Answer(Front(asked))
    /\ UNCHANGED <<chain, mined, reorgs>>

\* Asked for a transaction in a block where it is not, servers refuse, or answer for the
\* block where it is.
BranchAnswers(tx, height) ==
    IF height \in HeightOf(tx) THEN {height} ELSE {0} \union HeightOf(tx)

TrueBranch(height, tx) ==
    LET position == PositionIn(chain[height].txs, tx)
    IN [merkle |-> MerkleBranch(chain[height].txs, position), position |-> position]

ReadMerkle ==
    /\ proof.pc = "merkle"
    /\ LET Answer(served, forged) ==
               proof' = [proof EXCEPT !.branch = CreateMerkleProof(served.merkle),
                                      !.position = served.position, !.pc = "coinbase",
                                      !.disturbed = @ \/ forged]
       IN \/ /\ \E h \in BranchAnswers(proof.of.tx, proof.height) :
                    IF h = 0 THEN Refuse ELSE Answer(TrueBranch(h, proof.of.tx), FALSE)
             /\ UNCHANGED spvFaults
          \/ SpvFault /\ \E served \in ForgedBranches : Answer(served, TRUE)
    /\ UNCHANGED <<chain, mined, reorgs>>

ReadCoinbase ==
    /\ proof.pc = "coinbase"
    /\ IF proof.height \notin DOMAIN chain THEN Refuse
       ELSE proof' = [proof EXCEPT !.coinbase = chain[proof.height].txs[1], !.pc = "coinbase raw"]
    /\ Undisturbed

CoinbasePreimage(tx) == ComputeSha256(ExtractBitcoinRawTxVectors(RawTransaction(tx)))

\* The coinbase transaction of a block that has been replaced may be unknown by then, and a
\* faulty server may send another transaction of that block, which nobody compares with the hash.
ReadCoinbaseTransaction ==
    /\ proof.pc = "coinbase raw"
    /\ LET Answer(tx, forged) ==
               proof' = [proof EXCEPT !.preimage = CoinbasePreimage(tx), !.pc = "coinbase merkle",
                                      !.disturbed = @ \/ forged]
       IN \/ Answer(proof.coinbase, FALSE) /\ UNCHANGED spvFaults
          \/ HeightOf(proof.coinbase) = {} /\ Refuse /\ UNCHANGED spvFaults
          \/ SpvFault /\ \E tx \in ToSet(chain[proof.height].txs) : Answer(tx, TRUE)
    /\ UNCHANGED <<chain, mined, reorgs>>

ReadCoinbaseMerkle ==
    /\ proof.pc = "coinbase merkle"
    /\ LET Answer(served, forged) ==
               proof' = [proof EXCEPT !.coinbaseBranch = CreateMerkleProof(served.merkle),
                                      !.pc = "assembled", !.disturbed = @ \/ forged]
       IN \/ /\ \E h \in BranchAnswers(proof.coinbase, proof.height) :
                    IF h = 0 THEN Refuse ELSE Answer(TrueBranch(h, proof.coinbase), FALSE)
             /\ UNCHANGED spvFaults
          \/ SpvFault /\ \E served \in ForgedBranches : Answer(served, TRUE)
    /\ UNCHANGED <<chain, mined, reorgs>>

\* The number of headers, the Merkle trees of both transactions, of one depth, and the chain.
ProofValid ==
    LET headers == DeserializeHeadersChain(proof.headers)
        root == headers[1].merkleRootHash
    IN /\ Len(proof.branch) = Len(proof.coinbaseBranch)
       /\ Len(proof.headers) % HeaderLength = 0 /\ Len(headers) = proof.of.required
       /\ ValidateMerkleTree(ShownHash(proof.of.tx), root, proof.branch, proof.position)
       /\ ValidateBitcoinHeadersChain(headers, proof.of.previous, proof.of.current)
       /\ ValidateMerkleTree(Reverse(ComputeSha256(proof.preimage)), root,
                             proof.coinbaseBranch, 0)

ValidateProof ==
    /\ proof.pc = "assembled"
    /\ IF ProofValid THEN proof' = [proof EXCEPT !.pc = "accepted"] ELSE Refuse
    /\ Undisturbed
-----------------------------------------------------------------------------
(* Bitcoin's miners.                                                        *)

NextNonce == Cardinality(mined) + 1
BitsAt(height) == EpochBits[(height - 1) \div EpochBlocks + 1]

\* The targets are above the number of any header that is mined.
ASSUME TargetAssumption ==
    \A height \in 1..MaxBlocks, nonce \in 1..(MaxBlocks + MaxReorgs) :
        nonce <= BitsToTarget(BitsAt(height))

\* A block on the given one; its coinbase transaction is its own, other transactions are
\* confirmed once.
BlockOn(below, txs) ==
    [txs |-> <<FirstCoinbase + NextNonce>> \o txs, nonce |-> NextNonce, bits |-> BitsAt(Len(below) + 1),
     previous |-> IF below = <<>> THEN 0 ELSE below[Len(below)].nonce]
NewBest(below, txs) ==
    /\ \A h \in DOMAIN below : ToSet(below[h].txs) \intersect ToSet(txs) = {}
    /\ chain' = Append(below, BlockOn(below, txs))
    /\ mined' = mined \union {BlockOn(below, txs)}
    /\ proof' = [proof EXCEPT !.disturbed = @ \/ proof.pc # "idle"]
    /\ UNCHANGED spvFaults

NextBlock(txs) == Len(chain) < MaxBlocks /\ NewBest(chain, txs) /\ UNCHANGED reorgs

\* The last block is replaced by another, which another follows.
Reorganised(txs) ==
    /\ chain # <<>> /\ reorgs < MaxReorgs /\ reorgs' = reorgs + 1
    /\ NewBest(Front(chain), txs)

SpvNext ==
    \/ \E request \in ProofRequests : StartProof(request)
    \/ ReadConfirmations \/ ReadHeight \/ ReadHeaders \/ ReadMerkle
    \/ ReadCoinbase \/ ReadCoinbaseTransaction \/ ReadCoinbaseMerkle \/ ValidateProof
    \/ \E txs \in BlockContent : NextBlock(txs) \/ Reorganised(txs)

SpvInit ==
    /\ chain = <<>> /\ mined = {} /\ reorgs = 0 /\ spvFaults = 0 /\ proof = NoProof

SpvSpec == SpvInit /\ [][SpvNext]_spvVars
-----------------------------------------------------------------------------
(* Properties.                                                              *)

\* A proof that was validated is true, whatever happened to the chain between the answers
\* and whichever headers and Merkle branches a server made up: the transaction is in a block
\* that was mined, and the required number of mined blocks, each on the one before, begins
\* with that block.
ValidatedProofTrue ==
    proof.pc = "accepted" =>
        LET headers == DeserializeHeadersChain(proof.headers)
            BlockAt(i) == CHOOSE b \in mined : b.nonce = headers[i].nonce
        IN /\ Len(headers) = proof.of.required
           /\ \A i \in DOMAIN headers : \E b \in mined : HeaderOf(b) = headers[i]
           /\ Contains(BlockAt(1).txs, proof.of.tx)
           /\ \A i \in 2..Len(headers) : BlockAt(i).previous = BlockAt(i - 1).nonce

\* A proof is refused for a reason: when nothing is mined and no server is faulty during the
\* call, a transaction with enough confirmations, at the difficulties that the caller knows,
\* is proven, wherever it is in its block and however many transactions that has.  (With
\* difficulties of 1, as on testnets, any difficulty will do.)
QuietProofAccepted ==
    proof.pc = "failed" /\ ~proof.disturbed =>
        \/ proof.of.required < 1
        \/ TxConfirmations(proof.of.tx) < proof.of.required
        \/ ~(proof.of.previous = 1 /\ proof.of.current = 1)
           /\ \E h \in HeightOf(proof.of.tx) :
               \E i \in h..(h + proof.of.required - 1) :
                   LET difficulty(k) == TargetToDifficulty(BitsToTarget(chain[k].bits))
                   IN \/ difficulty(i) \notin {proof.of.previous, proof.of.current}
                      \/ i > h /\ difficulty(i - 1) = proof.of.current
                         /\ difficulty(i) # proof.of.current
=============================================================================
