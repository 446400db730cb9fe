-------------------------- MODULE SdkBitcoinProofs --------------------------
(***************************************************************************)
(* What the SDK learns of Bitcoin: SPV proofs, for blocks of any length,   *)
(* any number of required confirmations and every bound on blocks,         *)
(* reorganisations and faults; and the answers of the Electrum client, for *)
(* any chain, any number of servers and of retries.                        *)
(***************************************************************************)
EXTENDS BitcoinSpv, ElectrumClient, SumsProofs, SequenceTheorems, FunctionTheorems,
        FiniteSetTheorems, WellFoundedInduction, TLAPS

(***************************************************************************)
(* Induction over a set of numbers, and functions defined step by step.    *)
(***************************************************************************)
LEMMA NumbersFromZero ==
    ASSUME NEW T \in SUBSET Nat, 0 \in T, \A n \in T : n + 1 \in T
    PROVE  T = Nat
<1> DEFINE R == {ss \in Nat \X Nat : ss[1] < ss[2]}
<1> DEFINE U == Nat \ T
<1>1. R = OpToRel(<, Nat)
  BY DEF OpToRel
<1>2. IsWellFoundedOn(R, Nat)
  BY <1>1, NatLessThanWellFounded
<1>3. \A x, y \in Nat : <<y, x>> \in R <=> y < x
  OBVIOUS
<1> HIDE DEF R
<1>4. SUFFICES ASSUME U # {} PROVE FALSE
  OBVIOUS
<1>5. PICK x \in U : \A y \in U : ~ (<<y, x>> \in R)
  BY <1>2, <1>4, WFMin
<1>6. x \in Nat /\ x # 0 /\ x - 1 \in Nat /\ x - 1 < x
  BY <1>5
<1>7. x - 1 \notin U
  BY <1>3, <1>5, <1>6
<1>8. (x - 1) + 1 \in T
  BY <1>6, <1>7
<1> QED BY <1>5, <1>6, <1>8

Follows(f, v0, step, n) == f[0] = v0 /\ \A k \in Nat : k < n => f[k + 1] = step[<<f[k], k>>]

LEMMA Iterates ==
    ASSUME NEW V, NEW v0 \in V, NEW step \in [V \X Nat -> V]
    PROVE  \E f \in [Nat -> V] : \A n \in Nat : Follows(f, v0, step, n)
<1> DEFINE T == {n \in Nat : \E g \in [Nat -> V] : Follows(g, v0, step, n)}
<1>1. 0 \in T
  <2> DEFINE g == [k \in Nat |-> v0]
  <2>1. g \in [Nat -> V] /\ Follows(g, v0, step, 0)
    BY DEF Follows
  <2> QED BY <2>1
<1>2. ASSUME NEW n \in T PROVE n + 1 \in T
  <2>1. PICK g \in [Nat -> V] : Follows(g, v0, step, n)
    OBVIOUS
  <2>2. n \in Nat
    OBVIOUS
  <2> DEFINE h == [k \in Nat |-> IF k <= n THEN g[k] ELSE step[<<g[n], n>>]]
  <2>3. g[n] \in V /\ step[<<g[n], n>>] \in V
    BY <2>1, <2>2
  <2>4. h \in [Nat -> V]
    BY <2>1, <2>3
  <2>5. h[0] = v0
    BY <2>1, <2>2 DEF Follows
  <2>6. ASSUME NEW k \in Nat, k < n + 1 PROVE h[k + 1] = step[<<h[k], k>>]
    <3>1. h[k] = g[k]
      BY <2>2, <2>6
    <3>2. CASE k < n
      BY <3>1, <3>2, <2>1, <2>2 DEF Follows
    <3>3. CASE k = n
      BY <3>1, <3>3, <2>2
    <3> QED BY <3>2, <3>3, <2>2, <2>6
  <2> HIDE DEF h
  <2>7. Follows(h, v0, step, n + 1)
    BY <2>5, <2>6 DEF Follows
  <2> QED BY <2>2, <2>4, <2>7
<1> HIDE DEF T
<1>3. T = Nat
  <2>1. T \in SUBSET Nat
    BY DEF T
  <2> QED BY <1>1, <1>2, <2>1, NumbersFromZero
<1> DEFINE G(n) == CHOOSE g \in [Nat -> V] : Follows(g, v0, step, n)
<1>4. ASSUME NEW n \in Nat PROVE G(n) \in [Nat -> V] /\ Follows(G(n), v0, step, n)
  BY <1>3 DEF T
<1> HIDE DEF G
<1>5. ASSUME NEW n \in Nat, NEW m \in Nat, n <= m PROVE G(n)[n] = G(m)[n]
  <2> DEFINE S == {k \in Nat : k <= n => G(n)[k] = G(m)[k]}
  <2>1. 0 \in S
    BY <1>4, <1>5 DEF Follows
  <2>2. ASSUME NEW k \in S PROVE k + 1 \in S
    <3>1. CASE k < n
      <4>1. G(n)[k + 1] = step[<<G(n)[k], k>>] /\ G(m)[k + 1] = step[<<G(m)[k], k>>]
        BY <1>4, <1>5, <3>1 DEF Follows
      <4>2. G(n)[k] = G(m)[k]
        BY <3>1
      <4> QED BY <4>1, <4>2
    <3>2. CASE ~(k < n)
      BY <3>2
    <3> QED BY <3>1, <3>2
  <2>3. S \in SUBSET Nat
    OBVIOUS
  <2>5. n \in S
    <3> HIDE DEF S
    <3> QED BY <2>1, <2>2, <2>3, NumbersFromZero
  <2> QED BY <2>5
<1> DEFINE f == [n \in Nat |-> G(n)[n]]
<1>6. f \in [Nat -> V]
  BY <1>4
<1>7. f[0] = v0
  BY <1>4 DEF Follows
<1>8. ASSUME NEW k \in Nat PROVE f[k + 1] = step[<<f[k], k>>]
  <2>1. G(k + 1)[k + 1] = step[<<G(k + 1)[k], k>>]
    BY <1>4 DEF Follows
  <2>2. G(k)[k] = G(k + 1)[k]
    BY <1>5
  <2> QED BY <2>1, <2>2
<1> HIDE DEF f
<1>9. ASSUME NEW n \in Nat PROVE Follows(f, v0, step, n)
  BY <1>7, <1>8 DEF Follows
<1> QED BY <1>6, <1>9

(***************************************************************************)
(* Bytes, hashes and what they hold.                                       *)
(***************************************************************************)
Bytes == Seq(Int)

\* What a value holds is kept by joining, reversing and hashing: nothing is lost or added.
LEMMA JoinFacts ==
    ASSUME NEW a \in Bytes, NEW b \in Bytes
    PROVE  /\ a \o b \in Bytes
           /\ \A x : Contains(a \o b, x) <=> (Contains(a, x) \/ Contains(b, x))
<1>1. a \o b \in Bytes /\ Len(a) \in Nat /\ Len(b) \in Nat /\ Len(a \o b) = Len(a) + Len(b)
  BY DEF Bytes
<1>2. \A i \in 1..Len(a \o b) : (a \o b)[i] = IF i <= Len(a) THEN a[i] ELSE b[i - Len(a)]
  BY DEF Bytes
<1>3. ASSUME NEW x, Contains(a \o b, x) PROVE Contains(a, x) \/ Contains(b, x)
  <2>1. PICK i \in 1..Len(a \o b) : (a \o b)[i] = x
    BY <1>3 DEF Contains
  <2>2. CASE i <= Len(a)
    BY <1>1, <1>2, <2>1, <2>2 DEF Contains
  <2>3. CASE ~(i <= Len(a))
    <3>1. i - Len(a) \in 1..Len(b) /\ b[i - Len(a)] = x
      BY <1>1, <1>2, <2>1, <2>3
    <3> QED BY <3>1 DEF Contains
  <2> QED BY <2>2, <2>3
<1>4. ASSUME NEW x, Contains(a, x) PROVE Contains(a \o b, x)
  <2>1. PICK i \in 1..Len(a) : a[i] = x
    BY <1>4 DEF Contains
  <2>2. i \in 1..Len(a \o b) /\ (a \o b)[i] = x
    BY <1>1, <1>2, <2>1
  <2> QED BY <2>2 DEF Contains
<1>5. ASSUME NEW x, Contains(b, x) PROVE Contains(a \o b, x)
  <2>1. PICK i \in 1..Len(b) : b[i] = x
    BY <1>5 DEF Contains
  <2>2. i + Len(a) \in 1..Len(a \o b) /\ ~(i + Len(a) <= Len(a)) /\ (i + Len(a)) - Len(a) = i
    BY <1>1, <2>1
  <2>3. (a \o b)[i + Len(a)] = x
    BY <1>2, <2>1, <2>2
  <2> QED BY <2>2, <2>3 DEF Contains
<1> QED BY <1>1, <1>3, <1>4, <1>5

LEMMA ReverseFacts ==
    ASSUME NEW b \in Bytes
    PROVE  Reverse(b) \in Bytes /\ Reverse(Reverse(b)) = b
<1>1. Len(b) \in Nat /\ \A i \in 1..Len(b) : b[i] \in Int /\ Len(b) - i + 1 \in 1..Len(b)
  BY DEF Bytes
<1>2. Reverse(b) = [i \in 1..Len(b) |-> b[Len(b) - i + 1]]
  BY DEF Reverse
<1>3. Reverse(b) \in [1..Len(b) -> Int]
  BY <1>1, <1>2
<1>4. Reverse(b) \in Bytes /\ Len(Reverse(b)) = Len(b)
  BY <1>1, <1>3 DEF Bytes
<1>5. Reverse(Reverse(b)) = [i \in 1..Len(b) |-> Reverse(b)[Len(b) - i + 1]]
  BY <1>4 DEF Reverse
<1>6. \A i \in 1..Len(b) : Reverse(b)[Len(b) - i + 1] = b[i]
  BY <1>1, <1>2
<1>7. b = [i \in 1..Len(b) |-> b[i]]
  BY DEF Bytes
<1> QED BY <1>4, <1>5, <1>6, <1>7

LEMMA HashFacts ==
    ASSUME NEW b \in Bytes
    PROVE  /\ ComputeHash256(b) \in Bytes
           /\ \A x : Contains(ComputeHash256(b), x) <=> (x = HashMark \/ Contains(b, x))
<1>1. <<HashMark>> \in Bytes /\ \A x : Contains(<<HashMark>>, x) <=> x = HashMark
  BY DEF Bytes, HashMark, Contains
<1>2. ComputeSha256(b) \in Bytes
      /\ \A x : Contains(ComputeSha256(b), x) <=> (x = HashMark \/ Contains(b, x))
  BY <1>1, JoinFacts DEF ComputeSha256
<1> DEFINE c == ComputeSha256(b)
<1>3. ComputeSha256(c) \in Bytes
      /\ \A x : Contains(ComputeSha256(c), x) <=> (x = HashMark \/ Contains(c, x))
  <2>1. c \in Bytes
    BY <1>2
  <2> HIDE DEF c
  <2> QED BY <1>1, <2>1, JoinFacts DEF ComputeSha256
<1> QED BY <1>2, <1>3 DEF ComputeHash256

LEMMA InternalHashFacts ==
    ASSUME NEW tx \in Nat
    PROVE  /\ InternalHash(tx) \in Bytes /\ Reverse(ShownHash(tx)) = InternalHash(tx)
           /\ \A x : Contains(InternalHash(tx), x) <=> (x = HashMark \/ x = tx)
<1>1. InternalHash(tx) = ComputeHash256(<<tx>>)
  BY DEF InternalHash, ExtractBitcoinRawTxVectors, RawTransaction
<1>2. <<tx>> \in Bytes /\ \A x : Contains(<<tx>>, x) <=> x = tx
  BY DEF Bytes, Contains
<1>3. InternalHash(tx) \in Bytes
      /\ \A x : Contains(InternalHash(tx), x) <=> (x = HashMark \/ x = tx)
  BY <1>1, <1>2, HashFacts
<1> QED BY <1>3, ReverseFacts DEF ShownHash

(***************************************************************************)
(* The levels of a Merkle tree.                                            *)
(***************************************************************************)
Level == Seq(Bytes) \ {<<>>}

LEMMA LevelFacts ==
    ASSUME NEW l \in Level
    PROVE  /\ Len(l) \in Nat \ {0}
           /\ \A i \in 1..Len(l) : l[i] \in Bytes
BY DEF Level

\* The two nodes below the i-th node of the next level.
LeftOf(i) == 2 * i - 1
RightOf(l, i) == IF 2 * i > Len(l) THEN Len(l) ELSE 2 * i

LEMMA PairingFacts ==
    ASSUME NEW l \in Level
    PROVE  /\ Pairing(l) \in Level
           /\ Len(Pairing(l)) = (Len(l) + 1) \div 2
           /\ \A i \in 1..Len(Pairing(l)) :
                  /\ LeftOf(i) \in 1..Len(l) /\ RightOf(l, i) \in 1..Len(l)
                  /\ Pairing(l)[i] = ComputeHash256(l[LeftOf(i)] \o l[RightOf(l, i)])
<1> DEFINE n == (Len(l) + 1) \div 2
<1>1. Len(l) \in Nat \ {0}
  BY LevelFacts
<1>2. n \in Nat /\ n >= 1
  BY <1>1
<1>3. \A i \in 1..n : LeftOf(i) \in 1..Len(l) /\ RightOf(l, i) \in 1..Len(l)
  BY <1>1 DEF LeftOf, RightOf
<1>4. Pairing(l) = [i \in 1..n |-> ComputeHash256(l[LeftOf(i)] \o l[RightOf(l, i)])]
  BY DEF Pairing, LeftOf, RightOf
<1>5. ASSUME NEW i \in 1..n PROVE ComputeHash256(l[LeftOf(i)] \o l[RightOf(l, i)]) \in Bytes
  BY <1>3, LevelFacts, JoinFacts, HashFacts
<1> HIDE DEF n
<1>6. Pairing(l) \in [1..n -> Bytes]
  BY <1>4, <1>5
<1>7. Pairing(l) \in Seq(Bytes) /\ Len(Pairing(l)) = n
  BY <1>2, <1>6
<1>8. Pairing(l) \in Level
  BY <1>2, <1>7 DEF Level
<1>9. \A i \in 1..n : Pairing(l)[i] = ComputeHash256(l[LeftOf(i)] \o l[RightOf(l, i)])
  BY <1>4
<1> QED BY <1>3, <1>7, <1>8, <1>9 DEF n

LEMMA LeavesFacts ==
    ASSUME NEW txs \in Seq(Nat), txs # <<>>
    PROVE  Leaves(txs) \in Level /\ Len(Leaves(txs)) = Len(txs)
<1>1. Len(txs) \in Nat /\ Len(txs) # 0 /\ DOMAIN txs = 1..Len(txs)
  OBVIOUS
<1>2. \A i \in 1..Len(txs) : InternalHash(txs[i]) \in Bytes
  BY InternalHashFacts
<1>3. Leaves(txs) \in [1..Len(txs) -> Bytes]
  BY <1>1, <1>2 DEF Leaves
<1>4. Leaves(txs) \in Seq(Bytes) /\ Len(Leaves(txs)) = Len(txs)
  BY <1>1, <1>3
<1> QED BY <1>1, <1>4 DEF Level

\* The recursion of TreeLevel is well defined: each level pairs the nodes of the one below.
TreeLevels(txs) ==
    /\ \A d \in Nat : TreeLevel(txs, d) \in Level
    /\ TreeLevel(txs, 0) = Leaves(txs)
    /\ \A d \in Nat : TreeLevel(txs, d + 1) = Pairing(TreeLevel(txs, d))

LEMMA TreeLevelsFacts ==
    ASSUME NEW txs \in Seq(Nat), txs # <<>> PROVE TreeLevels(txs)
<1> DEFINE step == [p \in Level \X Nat |-> Pairing(p[1])]
<1>1. step \in [Level \X Nat -> Level]
  BY PairingFacts
<1>2. Leaves(txs) \in Level
  BY LeavesFacts
<1>3. \A l \in Level, n \in Nat : step[<<l, n>>] = Pairing(l)
  OBVIOUS
<1> HIDE DEF step
<1>4. PICK f \in [Nat -> Level] : \A n \in Nat : Follows(f, Leaves(txs), step, n)
  BY <1>1, <1>2, Iterates
<1>5. f[0] = Leaves(txs) /\ \A n \in Nat : f[n] \in Level /\ f[n + 1] = Pairing(f[n])
  <2>1. f[0] = Leaves(txs)
    BY <1>4 DEF Follows
  <2>2. ASSUME NEW n \in Nat PROVE f[n] \in Level /\ f[n + 1] = Pairing(f[n])
    <3>1. Follows(f, Leaves(txs), step, n + 1) /\ n < n + 1
      BY <1>4
    <3>2. f[n + 1] = step[<<f[n], n>>]
      BY <3>1 DEF Follows
    <3> QED BY <1>3, <1>4, <3>2
  <2> QED BY <2>1, <2>2
<1>6. ASSUME NEW d \in Nat PROVE TreeLevel(txs, d) = f[d]
  <2> DEFINE level[k \in 0..d] == IF k = 0 THEN Leaves(txs) ELSE Pairing(level[k - 1])
  <2> DEFINE P(g) == g = [k \in 0..d |-> IF k = 0 THEN Leaves(txs) ELSE Pairing(g[k - 1])]
  <2>1. TreeLevel(txs, d) = level[d]
    BY DEF TreeLevel
  <2>2. level = CHOOSE g : P(g)
    BY DEF level
  <2> DEFINE h == [k \in 0..d |-> f[k]]
  <2>3. ASSUME NEW k \in 0..d
        PROVE  h[k] = IF k = 0 THEN Leaves(txs) ELSE Pairing(h[k - 1])
    <3>1. CASE k = 0
      BY <1>5, <3>1
    <3>2. CASE k # 0
      <4>1. k - 1 \in Nat /\ k - 1 \in 0..d /\ (k - 1) + 1 = k
        BY <3>2
      <4> QED BY <1>5, <3>2, <4>1
    <3> QED BY <3>1, <3>2
  <2>4. P(h)
    BY <2>3
  <2> HIDE DEF P, level, h
  <2>5. P(level)
    BY <2>2, <2>4
  <2>6. \A k \in 0..d : level[k] = IF k = 0 THEN Leaves(txs) ELSE Pairing(level[k - 1])
    BY <2>5 DEF P
  <2> DEFINE T == {k \in Nat : k <= d => level[k] = f[k]}
  <2>7. 0 \in T
    <3>1. 0 \in 0..d
      OBVIOUS
    <3> QED BY <1>5, <2>6, <3>1
  <2>8. ASSUME NEW k \in T PROVE k + 1 \in T
    <3>1. ASSUME k + 1 <= d PROVE level[k + 1] = f[k + 1]
      <4>1. k + 1 \in 0..d /\ k + 1 # 0 /\ (k + 1) - 1 = k /\ k <= d
        BY <3>1
      <4>2. level[k] = f[k]
        BY <4>1
      <4>3. level[k + 1] = Pairing(level[k])
        BY <2>6, <4>1
      <4> QED BY <1>5, <4>2, <4>3
    <3> QED BY <3>1
  <2>9. T \in SUBSET Nat
    OBVIOUS
  <2>10. d \in T
    <3> HIDE DEF T
    <3> QED BY <2>7, <2>8, <2>9, NumbersFromZero
  <2> QED BY <2>1, <2>10
<1>7. \A d \in Nat : d + 1 \in Nat /\ TreeLevel(txs, d) = f[d] /\ TreeLevel(txs, d + 1) = f[d + 1]
  BY <1>6
<1>8. TreeLevel(txs, 0) = Leaves(txs)
  BY <1>5, <1>6
<1> QED BY <1>5, <1>7, <1>8 DEF TreeLevels

\* A tree narrows down to one node.
Deepest(txs, d) ==
    Len(TreeLevel(txs, d)) = 1 /\ \A e \in 0..(d - 1) : Len(TreeLevel(txs, e)) > 1

LEMMA TreeDepthFacts ==
    ASSUME NEW txs \in Seq(Nat), txs # <<>>
    PROVE  TreeDepth(txs) \in 0..Len(txs) /\ Deepest(txs, TreeDepth(txs))
<1> DEFINE n == Len(txs)
<1>1. n \in Nat \ {0} /\ TreeLevels(txs)
  BY TreeLevelsFacts
<1>2. Len(TreeLevel(txs, 0)) = n
  BY <1>1, LeavesFacts DEF TreeLevels
<1>3. \A d \in Nat : Len(TreeLevel(txs, d)) \in Nat \ {0}
  BY <1>1, LevelFacts DEF TreeLevels
<1>4. ASSUME NEW d \in Nat
      PROVE  Len(TreeLevel(txs, d + 1)) = (Len(TreeLevel(txs, d)) + 1) \div 2
  BY <1>1, PairingFacts DEF TreeLevels
<1> DEFINE Wide(d) == \A e \in 0..d : Len(TreeLevel(txs, e)) > 1
<1> DEFINE T == {d \in Nat : Wide(d) => Len(TreeLevel(txs, d)) <= n - d}
<1>5. 0 \in T
  BY <1>1, <1>2
<1>6. ASSUME NEW d \in T PROVE d + 1 \in T
  <2>1. ASSUME Wide(d + 1) PROVE Len(TreeLevel(txs, d + 1)) <= n - (d + 1)
    <3>1. Wide(d) /\ d \in Nat
      BY <2>1
    <3>2. Len(TreeLevel(txs, d)) <= n - d /\ Len(TreeLevel(txs, d)) > 1
      BY <3>1
    <3> HIDE DEF T, Wide
    <3>3. Len(TreeLevel(txs, d + 1)) = (Len(TreeLevel(txs, d)) + 1) \div 2
      BY <1>4, <3>1
    <3>4. Len(TreeLevel(txs, d)) \in Nat
      BY <1>3, <3>1
    <3> QED BY <1>1, <3>1, <3>2, <3>3, <3>4
  <2> QED BY <2>1
<1>7. T = Nat
  <2>1. T \in SUBSET Nat
    OBVIOUS
  <2> HIDE DEF T
  <2> QED BY <1>5, <1>6, <2>1, NumbersFromZero
<1>8. ~Wide(n)
  <2>1. SUFFICES ASSUME Wide(n) PROVE FALSE
    OBVIOUS
  <2>2. Len(TreeLevel(txs, n)) <= 0 /\ n \in Nat
    BY <1>1, <1>7, <2>1
  <2> QED BY <1>3, <2>2
<1> DEFINE U == {d \in Nat : \A e \in 0..(d - 1) : Len(TreeLevel(txs, e)) > 1}
<1>9. n + 1 \notin U
  BY <1>1, <1>8
<1>10. 0 \in U
  OBVIOUS
<1>11. U \in SUBSET Nat
  OBVIOUS
<1>12. \E d \in U : d + 1 \notin U
  <2> HIDE DEF U
  <2> QED BY <1>1, <1>9, <1>10, <1>11, NumbersFromZero
<1>13. PICK d \in U : d + 1 \notin U
  BY <1>12
<1>14. Len(TreeLevel(txs, d)) = 1
  <2>1. PICK e \in 0..((d + 1) - 1) : ~(Len(TreeLevel(txs, e)) > 1)
    BY <1>13
  <2>2. e = d /\ d \in Nat
    BY <1>13, <2>1
  <2>3. Len(TreeLevel(txs, d)) \in Nat \ {0} /\ ~(Len(TreeLevel(txs, d)) > 1)
    BY <1>3, <2>1, <2>2
  <2>4. \A k \in Nat \ {0} : ~(k > 1) => k = 1
    OBVIOUS
  <2> QED BY <2>3, <2>4
<1>15. d <= n
  <2>1. SUFFICES ASSUME ~(d <= n) PROVE FALSE
    OBVIOUS
  <2>2. \A e \in 0..n : e \in 0..(d - 1)
    BY <1>1, <2>1
  <2> QED BY <1>8, <1>13, <2>2
<1>16. d \in 0..n /\ Deepest(txs, d)
  BY <1>1, <1>13, <1>14, <1>15 DEF Deepest
<1> HIDE DEF n, U, T, Wide
<1>17. TreeDepth(txs) = CHOOSE c \in 0..n : Deepest(txs, c)
  BY DEF TreeDepth, Deepest, n
<1> QED BY <1>16, <1>17 DEF n

\* A node holds nothing but transactions of the block, and marks of hashing.
HoldOnly(l, txs) ==
    \A i \in 1..Len(l) : \A x : Contains(l[i], x) => x = HashMark \/ Contains(txs, x)

LEMMA PairingHolds ==
    ASSUME NEW txs, NEW l \in Level, HoldOnly(l, txs) PROVE HoldOnly(Pairing(l), txs)
<1> SUFFICES ASSUME NEW i \in 1..Len(Pairing(l)), NEW x, Contains(Pairing(l)[i], x)
             PROVE  x = HashMark \/ Contains(txs, x)
  BY DEF HoldOnly
<1> DEFINE a == l[LeftOf(i)]
<1> DEFINE b == l[RightOf(l, i)]
<1>1. LeftOf(i) \in 1..Len(l) /\ RightOf(l, i) \in 1..Len(l)
      /\ Pairing(l)[i] = ComputeHash256(a \o b)
  BY PairingFacts
<1>2. a \in Bytes /\ b \in Bytes
  BY <1>1, LevelFacts
<1>3. (Contains(a, x) \/ Contains(b, x)) => x = HashMark \/ Contains(txs, x)
  BY <1>1 DEF HoldOnly
<1> HIDE DEF a, b
<1>4. a \o b \in Bytes /\ (Contains(a \o b, x) <=> (Contains(a, x) \/ Contains(b, x)))
  BY <1>2, JoinFacts
<1>5. Contains(ComputeHash256(a \o b), x) <=> (x = HashMark \/ Contains(a \o b, x))
  BY <1>4, HashFacts
<1> QED BY <1>1, <1>3, <1>4, <1>5

LEMMA RootFacts ==
    ASSUME NEW txs \in Seq(Nat), txs # <<>>
    PROVE  /\ MerkleRoot(txs) \in Bytes
           /\ \A x : Contains(MerkleRoot(txs), x) => x = HashMark \/ Contains(txs, x)
<1>1. TreeLevels(txs)
  BY TreeLevelsFacts
<1> DEFINE T == {d \in Nat : HoldOnly(TreeLevel(txs, d), txs)}
<1>2. 0 \in T
  <2>1. Len(Leaves(txs)) = Len(txs)
    BY LeavesFacts
  <2>2. ASSUME NEW i \in 1..Len(txs), NEW x, Contains(Leaves(txs)[i], x)
        PROVE  x = HashMark \/ Contains(txs, x)
    <3>1. Leaves(txs)[i] = InternalHash(txs[i]) /\ txs[i] \in Nat
      BY DEF Leaves
    <3>2. x = HashMark \/ x = txs[i]
      BY <2>2, <3>1, InternalHashFacts
    <3> QED BY <3>2 DEF Contains
  <2>3. HoldOnly(Leaves(txs), txs)
    BY <2>1, <2>2 DEF HoldOnly
  <2> QED BY <1>1, <2>3 DEF TreeLevels
<1>3. ASSUME NEW d \in T PROVE d + 1 \in T
  <2>1. TreeLevel(txs, d) \in Level /\ TreeLevel(txs, d + 1) = Pairing(TreeLevel(txs, d))
    BY <1>1 DEF TreeLevels
  <2>2. HoldOnly(TreeLevel(txs, d + 1), txs)
    BY <2>1, PairingHolds
  <2> QED BY <2>2
<1>4. T = Nat
  <2>1. T \in SUBSET Nat
    OBVIOUS
  <2> HIDE DEF T
  <2> QED BY <1>2, <1>3, <2>1, NumbersFromZero
<1> DEFINE D == TreeDepth(txs)
<1>5. D \in Nat /\ Len(TreeLevel(txs, D)) = 1
  BY TreeDepthFacts DEF Deepest
<1>6. HoldOnly(TreeLevel(txs, D), txs) /\ TreeLevel(txs, D) \in Level
  <2> HIDE DEF D
  <2> QED BY <1>1, <1>4, <1>5 DEF TreeLevels
<1>7. MerkleRoot(txs) = TreeLevel(txs, D)[1]
  BY DEF MerkleRoot
<1> HIDE DEF D, T
<1>8. 1 \in 1..Len(TreeLevel(txs, D))
  BY <1>5
<1> QED BY <1>6, <1>7, <1>8, LevelFacts DEF HoldOnly

(***************************************************************************)
(* The climb from a leaf to the root.                                      *)
(***************************************************************************)
Halves(index) ==
    /\ \A k \in Nat : IndexAbove(index, k) \in Nat
    /\ IndexAbove(index, 0) = index
    /\ \A k \in Nat : IndexAbove(index, k + 1) = IndexAbove(index, k) \div 2

LEMMA IndexAboveFacts == ASSUME NEW index \in Nat PROVE Halves(index)
<1> DEFINE step == [p \in Nat \X Nat |-> p[1] \div 2]
<1>1. step \in [Nat \X Nat -> Nat]
  OBVIOUS
<1>2. \A i \in Nat, n \in Nat : step[<<i, n>>] = i \div 2
  OBVIOUS
<1> HIDE DEF step
<1>3. PICK f \in [Nat -> Nat] : \A n \in Nat : Follows(f, index, step, n)
  BY <1>1, Iterates
<1>4. f[0] = index /\ \A n \in Nat : f[n] \in Nat /\ f[n + 1] = f[n] \div 2
  <2>1. f[0] = index
    BY <1>3 DEF Follows
  <2>2. ASSUME NEW n \in Nat PROVE f[n] \in Nat /\ f[n + 1] = f[n] \div 2
    <3>1. Follows(f, index, step, n + 1) /\ n < n + 1
      BY <1>3
    <3>2. f[n + 1] = step[<<f[n], n>>]
      BY <3>1 DEF Follows
    <3> QED BY <1>2, <1>3, <3>2
  <2> QED BY <2>1, <2>2
<1>5. ASSUME NEW d \in Nat PROVE IndexAbove(index, d) = f[d]
  <2> DEFINE above[k \in 0..d] == IF k = 0 THEN index ELSE above[k - 1] \div 2
  <2> DEFINE P(g) == g = [k \in 0..d |-> IF k = 0 THEN index ELSE g[k - 1] \div 2]
  <2>1. IndexAbove(index, d) = above[d]
    BY DEF IndexAbove
  <2>2. above = CHOOSE g : P(g)
    BY DEF above
  <2> DEFINE h == [k \in 0..d |-> f[k]]
  <2>3. ASSUME NEW k \in 0..d PROVE h[k] = IF k = 0 THEN index ELSE h[k - 1] \div 2
    <3>1. CASE k = 0
      BY <1>4, <3>1
    <3>2. CASE k # 0
      <4>1. k - 1 \in Nat /\ k - 1 \in 0..d /\ (k - 1) + 1 = k
        BY <3>2
      <4> QED BY <1>4, <3>2, <4>1
    <3> QED BY <3>1, <3>2
  <2>4. P(h)
    BY <2>3
  <2> HIDE DEF P, above, h
  <2>5. P(above)
    BY <2>2, <2>4
  <2>6. \A k \in 0..d : above[k] = IF k = 0 THEN index ELSE above[k - 1] \div 2
    BY <2>5 DEF P
  <2> DEFINE T == {k \in Nat : k <= d => above[k] = f[k]}
  <2>7. 0 \in T
    <3>1. 0 \in 0..d
      OBVIOUS
    <3> QED BY <1>4, <2>6, <3>1
  <2>8. ASSUME NEW k \in T PROVE k + 1 \in T
    <3>1. ASSUME k + 1 <= d PROVE above[k + 1] = f[k + 1]
      <4>1. k + 1 \in 0..d /\ k + 1 # 0 /\ (k + 1) - 1 = k /\ k <= d
        BY <3>1
      <4>2. above[k] = f[k]
        BY <4>1
      <4>3. above[k + 1] = above[k] \div 2
        BY <2>6, <4>1
      <4> QED BY <1>4, <4>2, <4>3
    <3> QED BY <3>1
  <2>9. T \in SUBSET Nat
    OBVIOUS
  <2>10. d \in T
    <3> HIDE DEF T
    <3> QED BY <2>7, <2>8, <2>9, NumbersFromZero
  <2> QED BY <2>1, <2>10
<1>6. \A d \in Nat : d + 1 \in Nat /\ IndexAbove(index, d) = f[d] /\ IndexAbove(index, d + 1) = f[d + 1]
  BY <1>5
<1>7. IndexAbove(index, 0) = index
  BY <1>4, <1>5
<1> QED BY <1>4, <1>6, <1>7 DEF Halves

\* The hashes that ValidateMerkleTreeHashes computes, f[k] after k nodes.
Climb(f, start, nodes, index) ==
    /\ f[0] = start
    /\ \A k \in Nat : f[k] \in Bytes
    /\ \A k \in 0..(Len(nodes) - 1) :
           f[k + 1] = JoinNodes(f[k], nodes[k + 1], IndexAbove(index, k))

LEMMA JoinNodesFacts ==
    ASSUME NEW current \in Bytes, NEW node \in Bytes, NEW index
    PROVE  /\ JoinNodes(current, node, index) \in Bytes
           /\ \A x : Contains(current, x) => Contains(JoinNodes(current, node, index), x)
<1>1. current \o node \in Bytes /\ node \o current \in Bytes
      /\ \A x : Contains(current, x) => Contains(current \o node, x) /\ Contains(node \o current, x)
  BY JoinFacts
<1> DEFINE c == IF index % 2 = 1 THEN node \o current ELSE current \o node
<1>2. c \in Bytes /\ \A x : Contains(current, x) => Contains(c, x)
  BY <1>1
<1> HIDE DEF c
<1>3. ComputeHash256(c) \in Bytes
      /\ \A x : Contains(ComputeHash256(c), x) <=> (x = HashMark \/ Contains(c, x))
  BY <1>2, HashFacts
<1>4. JoinNodes(current, node, index) = ComputeHash256(c)
  BY DEF JoinNodes, c
<1> QED BY <1>2, <1>3, <1>4

LEMMA ClimbFacts ==
    ASSUME NEW shown \in Bytes, NEW root, NEW nodes \in Seq(Bytes), NEW index \in Nat
    PROVE  \E f : /\ Climb(f, Reverse(shown), nodes, index)
                  /\ ValidateMerkleTreeHashes(shown, root, nodes, index)
                         <=> (Len(nodes) # 0 /\ f[Len(nodes)] = root)
<1> DEFINE n == Len(nodes)
<1> DEFINE start == Reverse(shown)
<1> DEFINE join(c, k) == JoinNodes(c, nodes[k + 1], IndexAbove(index, k))
<1> DEFINE step == [p \in Bytes \X Nat |-> IF p[2] < n THEN join(p[1], p[2]) ELSE p[1]]
<1>1. n \in Nat /\ \A k \in Nat : k < n => nodes[k + 1] \in Bytes
  OBVIOUS
<1>2. \A c \in Bytes, k \in Nat : k < n => join(c, k) \in Bytes
  BY <1>1, JoinNodesFacts
<1>3. start \in Bytes
  BY ReverseFacts
<1> HIDE DEF n, start, join
<1>4. step \in [Bytes \X Nat -> Bytes]
  BY <1>2
<1>5. \A c \in Bytes, k \in Nat : k < n => step[<<c, k>>] = join(c, k)
  OBVIOUS
<1> HIDE DEF step
<1>6. PICK f \in [Nat -> Bytes] : \A k \in Nat : Follows(f, start, step, k)
  BY <1>3, <1>4, Iterates
<1>7. f[0] = start
  BY <1>6 DEF Follows
<1>8. ASSUME NEW k \in Nat, k < n PROVE f[k + 1] = join(f[k], k)
  <2>1. Follows(f, start, step, k + 1) /\ k < k + 1 /\ f[k] \in Bytes
    BY <1>6
  <2>2. f[k + 1] = step[<<f[k], k>>]
    BY <2>1 DEF Follows
  <2> QED BY <1>5, <1>8, <2>1, <2>2
<1>9. Climb(f, start, nodes, index)
  <2>1. \A k \in 0..(n - 1) : k \in Nat /\ k < n
    BY <1>1
  <2>2. \A k \in 0..(n - 1) : f[k + 1] = join(f[k], k)
    BY <1>8, <2>1
  <2>3. \A k \in Nat : f[k] \in Bytes
    BY <1>6
  <2> QED BY <1>7, <2>2, <2>3 DEF Climb, join, n
<1> DEFINE hash[k \in 0..n] == IF k = 0 THEN start ELSE JoinNodes(hash[k - 1], nodes[k], IndexAbove(index, k - 1))
<1> DEFINE P(g) == g = [k \in 0..n |-> IF k = 0 THEN start ELSE JoinNodes(g[k - 1], nodes[k], IndexAbove(index, k - 1))]
<1>10. ValidateMerkleTreeHashes(shown, root, nodes, index) <=> (n # 0 /\ hash[n] = root)
  BY DEF ValidateMerkleTreeHashes, n, start
<1>11. hash = CHOOSE g : P(g)
  BY DEF hash
<1> DEFINE h == [k \in 0..n |-> f[k]]
<1>12. ASSUME NEW k \in 0..n
       PROVE  h[k] = IF k = 0 THEN start ELSE JoinNodes(h[k - 1], nodes[k], IndexAbove(index, k - 1))
  <2>1. CASE k = 0
    BY <1>7, <2>1
  <2>2. CASE k # 0
    <3>1. k - 1 \in Nat /\ k - 1 \in 0..n /\ (k - 1) + 1 = k /\ k - 1 < n
      BY <1>1, <2>2
    <3>2. f[k] = JoinNodes(f[k - 1], nodes[k], IndexAbove(index, k - 1))
      BY <1>8, <3>1 DEF join
    <3> QED BY <2>2, <3>1, <3>2
  <2> QED BY <2>1, <2>2
<1>13. P(h)
  BY <1>12
<1> HIDE DEF P, hash, h
<1>14. P(hash)
  BY <1>11, <1>13
<1>15. \A k \in 0..n : hash[k] = IF k = 0 THEN start ELSE JoinNodes(hash[k - 1], nodes[k], IndexAbove(index, k - 1))
  BY <1>14 DEF P
<1> DEFINE T == {k \in Nat : k <= n => hash[k] = f[k]}
<1>16. 0 \in T
  <2>1. 0 \in 0..n
    BY <1>1
  <2> QED BY <1>7, <1>15, <2>1
<1>17. ASSUME NEW k \in T PROVE k + 1 \in T
  <2>1. ASSUME k + 1 <= n PROVE hash[k + 1] = f[k + 1]
    <3>1. k + 1 \in 0..n /\ k + 1 # 0 /\ (k + 1) - 1 = k /\ k <= n /\ k < n /\ k \in Nat
      BY <1>1, <2>1
    <3>2. hash[k] = f[k]
      BY <3>1
    <3>3. hash[k + 1] = JoinNodes(hash[k], nodes[k + 1], IndexAbove(index, k))
      BY <1>15, <3>1
    <3>4. f[k + 1] = JoinNodes(f[k], nodes[k + 1], IndexAbove(index, k))
      BY <1>8, <3>1 DEF join
    <3> QED BY <3>2, <3>3, <3>4
  <2> QED BY <2>1
<1>18. T \in SUBSET Nat
  OBVIOUS
<1>19. n \in T
  <2> HIDE DEF T
  <2> QED BY <1>1, <1>16, <1>17, <1>18, NumbersFromZero
<1>20. hash[n] = f[n]
  BY <1>1, <1>19
<1> QED BY <1>9, <1>10, <1>20 DEF n, start

\* Soundness of the Merkle proof: whatever nodes a server sends, a transaction whose branch
\* leads to the root of a block is held by that root.
LEMMA AcceptedHeld ==
    ASSUME NEW shown \in Bytes, NEW root \in Bytes, NEW nodes \in Seq(Bytes), NEW index \in Nat,
           ValidateMerkleTree(shown, root, nodes, index),
           NEW x, Contains(Reverse(shown), x)
    PROVE  Contains(root, x)
<1>1. CASE Reverse(shown) = root
  BY <1>1
<1>2. CASE ValidateMerkleTreeHashes(shown, root, nodes, index)
  <2>1. PICK f : /\ Climb(f, Reverse(shown), nodes, index)
                 /\ ValidateMerkleTreeHashes(shown, root, nodes, index)
                         <=> (Len(nodes) # 0 /\ f[Len(nodes)] = root)
    BY ClimbFacts
  <2> DEFINE n == Len(nodes)
  <2> DEFINE T == {k \in Nat : k <= n => Contains(f[k], x)}
  <2>2. 0 \in T
    BY <2>1 DEF Climb
  <2>3. ASSUME NEW k \in T PROVE k + 1 \in T
    <3>1. ASSUME k + 1 <= n PROVE Contains(f[k + 1], x)
      <4>1. k \in Nat /\ k \in 0..(n - 1) /\ k + 1 \in 1..n /\ k <= n
        BY <3>1
      <4>2. Contains(f[k], x)
        BY <4>1
      <4>3. f[k] \in Bytes /\ nodes[k + 1] \in Bytes
        BY <2>1, <4>1 DEF Climb
      <4>4. f[k + 1] = JoinNodes(f[k], nodes[k + 1], IndexAbove(index, k))
        BY <2>1, <4>1 DEF Climb
      <4> QED BY <4>2, <4>3, <4>4, JoinNodesFacts
    <3> QED BY <3>1
  <2>4. T \in SUBSET Nat
    OBVIOUS
  <2>5. n \in Nat
    OBVIOUS
  <2>6. n \in T
    <3> HIDE DEF T, n
    <3> QED BY <2>2, <2>3, <2>4, <2>5, NumbersFromZero
  <2>7. f[n] = root
    BY <1>2, <2>1
  <2> QED BY <2>5, <2>6, <2>7
<1> QED BY <1>1, <1>2 DEF ValidateMerkleTree

\* The node that a branch gives for the 0-based index i of a level.
Beside(l, i) ==
    LET sibling == IF i % 2 = 1 THEN i ELSE i + 2
    IN IF sibling > Len(l) THEN Len(l) ELSE sibling

LEMMA BesideFacts ==
    ASSUME NEW l \in Level, NEW i \in 0..(Len(l) - 1)
    PROVE  /\ Beside(l, i) \in 1..Len(l) /\ i + 1 \in 1..Len(l)
           /\ i \div 2 + 1 \in 1..Len(Pairing(l))
           /\ JoinNodes(l[i + 1], l[Beside(l, i)], i) = Pairing(l)[i \div 2 + 1]
<1> DEFINE n == Len(l)
<1>1. n \in Nat \ {0}
  BY LevelFacts
<1>2. Len(Pairing(l)) = (n + 1) \div 2
  BY PairingFacts
<1> DEFINE up == i \div 2 + 1
<1>3. i + 1 \in 1..n /\ up \in 1..((n + 1) \div 2) /\ Beside(l, i) \in 1..n
  BY <1>1 DEF Beside
<1>4. Pairing(l)[up] = ComputeHash256(l[LeftOf(up)] \o l[RightOf(l, up)])
  <2> HIDE DEF n, up
  <2> QED BY <1>2, <1>3, PairingFacts
<1>5. CASE i % 2 = 1
  <2>1. LeftOf(up) = i /\ RightOf(l, up) = i + 1 /\ Beside(l, i) = i
    BY <1>1, <1>5 DEF LeftOf, RightOf, Beside
  <2>2. JoinNodes(l[i + 1], l[Beside(l, i)], i) = ComputeHash256(l[i] \o l[i + 1])
    BY <1>5, <2>1 DEF JoinNodes
  <2> HIDE DEF up, n
  <2> QED BY <1>2, <1>3, <1>4, <2>1, <2>2 DEF n, up
<1>6. CASE i % 2 # 1
  <2>1. LeftOf(up) = i + 1 /\ RightOf(l, up) = Beside(l, i)
    BY <1>1, <1>6 DEF LeftOf, RightOf, Beside
  <2>2. JoinNodes(l[i + 1], l[Beside(l, i)], i) = ComputeHash256(l[i + 1] \o l[Beside(l, i)])
    BY <1>6 DEF JoinNodes
  <2> HIDE DEF up, n
  <2> QED BY <1>2, <1>3, <1>4, <2>1, <2>2 DEF n, up
<1> QED BY <1>5, <1>6

\* The index k levels up is one of that level.
LEMMA IndexWithin ==
    ASSUME NEW txs \in Seq(Nat), txs # <<>>, NEW position \in 0..(Len(txs) - 1), NEW k \in Nat
    PROVE  IndexAbove(position, k) \in 0..(Len(TreeLevel(txs, k)) - 1)
<1> DEFINE T == {j \in Nat : IndexAbove(position, j) \in 0..(Len(TreeLevel(txs, j)) - 1)}
<1>1. TreeLevels(txs) /\ Halves(position)
  BY TreeLevelsFacts, IndexAboveFacts
<1>2. 0 \in T
  <2>1. TreeLevel(txs, 0) = Leaves(txs) /\ IndexAbove(position, 0) = position
    BY <1>1 DEF TreeLevels, Halves
  <2>2. Len(TreeLevel(txs, 0)) = Len(txs)
    BY <2>1, LeavesFacts
  <2> QED BY <2>1, <2>2
<1>3. ASSUME NEW j \in T PROVE j + 1 \in T
  <2> DEFINE l == TreeLevel(txs, j)
  <2> DEFINE i == IndexAbove(position, j)
  <2>1. l \in Level /\ TreeLevel(txs, j + 1) = Pairing(l)
    BY <1>1 DEF TreeLevels
  <2>2. i \in Nat /\ IndexAbove(position, j + 1) = i \div 2
    BY <1>1 DEF Halves
  <2>3. i \in 0..(Len(l) - 1)
    OBVIOUS
  <2> HIDE DEF l, i
  <2>4. i \div 2 + 1 \in 1..Len(Pairing(l))
    BY <2>1, <2>3, BesideFacts
  <2>5. Len(Pairing(l)) \in Nat
    BY <2>1, PairingFacts, LevelFacts
  <2>6. i \div 2 \in 0..(Len(Pairing(l)) - 1)
    BY <2>2, <2>4, <2>5
  <2> QED BY <2>1, <2>2, <2>6
<1>4. T \in SUBSET Nat
  OBVIOUS
<1>5. k \in T
  <2> HIDE DEF T
  <2> QED BY <1>2, <1>3, <1>4, NumbersFromZero
<1> QED BY <1>5

ProofNodes(txs, position) == CreateMerkleProof(MerkleBranch(txs, position))

LEMMA BranchFacts ==
    ASSUME NEW txs \in Seq(Nat), txs # <<>>, NEW position \in 0..(Len(txs) - 1)
    PROVE  /\ ProofNodes(txs, position) \in Seq(Bytes)
           /\ Len(ProofNodes(txs, position)) = TreeDepth(txs)
           /\ \A k \in 0..(TreeDepth(txs) - 1) :
                  ProofNodes(txs, position)[k + 1] =
                      TreeLevel(txs, k)[Beside(TreeLevel(txs, k), IndexAbove(position, k))]
<1> DEFINE D == TreeDepth(txs)
<1> DEFINE Node(k) == TreeLevel(txs, k)[Beside(TreeLevel(txs, k), IndexAbove(position, k))]
<1>1. D \in Nat
  BY TreeDepthFacts
<1>2. ASSUME NEW k \in Nat PROVE Node(k) \in Bytes
  <2>1. TreeLevel(txs, k) \in Level
    BY TreeLevelsFacts DEF TreeLevels
  <2>2. IndexAbove(position, k) \in 0..(Len(TreeLevel(txs, k)) - 1)
    BY IndexWithin
  <2>3. Beside(TreeLevel(txs, k), IndexAbove(position, k)) \in 1..Len(TreeLevel(txs, k))
    BY <2>1, <2>2, BesideFacts
  <2> QED BY <2>1, <2>3, LevelFacts
<1>3. MerkleBranch(txs, position) = [k \in 1..D |-> Reverse(Node(k - 1))]
  BY DEF MerkleBranch, Beside
<1> HIDE DEF D, Node
<1>4. ProofNodes(txs, position) = [k \in 1..D |-> Reverse(Reverse(Node(k - 1)))]
  BY <1>3 DEF ProofNodes, CreateMerkleProof
<1>5. \A k \in 1..D : k - 1 \in Nat /\ Reverse(Reverse(Node(k - 1))) = Node(k - 1)
  BY <1>1, <1>2, ReverseFacts
<1>6. ProofNodes(txs, position) = [k \in 1..D |-> Node(k - 1)]
  BY <1>4, <1>5
<1>7. ProofNodes(txs, position) \in [1..D -> Bytes]
  BY <1>2, <1>5, <1>6
<1>8. ProofNodes(txs, position) \in Seq(Bytes) /\ Len(ProofNodes(txs, position)) = D
  BY <1>1, <1>7
<1>9. \A k \in 0..(D - 1) : ProofNodes(txs, position)[k + 1] = Node(k)
  <2>1. \A k \in 0..(D - 1) : k + 1 \in 1..D /\ (k + 1) - 1 = k
    BY <1>1
  <2> QED BY <1>6, <2>1
<1> QED BY <1>8, <1>9 DEF D, Node

\* Completeness of the Merkle proof: wherever a transaction is in its block and however many
\* transactions the block has, its branch leads to the root.
LEMMA BranchAccepted ==
    ASSUME NEW txs \in Seq(Nat), txs # <<>>, NEW position \in 0..(Len(txs) - 1)
    PROVE  ValidateMerkleTree(ShownHash(txs[position + 1]), MerkleRoot(txs),
                              ProofNodes(txs, position), position)
<1> DEFINE shown == ShownHash(txs[position + 1])
<1> DEFINE D == TreeDepth(txs)
<1> DEFINE nodes == ProofNodes(txs, position)
<1> DEFINE root == MerkleRoot(txs)
<1>1. txs[position + 1] \in Nat /\ position + 1 \in 1..Len(txs) /\ position \in Nat
  OBVIOUS
<1>2. Reverse(shown) = Leaves(txs)[position + 1] /\ shown \in Bytes
  <2>1. InternalHash(txs[position + 1]) \in Bytes /\ Reverse(shown) = InternalHash(txs[position + 1])
    BY <1>1, InternalHashFacts
  <2>2. shown \in Bytes
    BY <2>1, ReverseFacts DEF ShownHash
  <2> QED BY <1>1, <2>1, <2>2 DEF Leaves
<1>3. D \in Nat /\ Len(TreeLevel(txs, D)) = 1 /\ root = TreeLevel(txs, D)[1]
  BY TreeDepthFacts DEF Deepest, MerkleRoot
<1>4. nodes \in Seq(Bytes) /\ Len(nodes) = D
  BY BranchFacts
<1>5. ASSUME NEW k \in 0..(D - 1)
      PROVE nodes[k + 1] = TreeLevel(txs, k)[Beside(TreeLevel(txs, k), IndexAbove(position, k))]
  BY BranchFacts
<1>6. TreeLevels(txs) /\ Halves(position)
  BY <1>1, TreeLevelsFacts, IndexAboveFacts
<1>7. TreeLevel(txs, 0) = Leaves(txs) /\ IndexAbove(position, 0) = position
  BY <1>6 DEF TreeLevels, Halves
<1>8. \A k \in Nat : IndexAbove(position, k) \in 0..(Len(TreeLevel(txs, k)) - 1)
  BY IndexWithin
<1>9. IndexAbove(position, D) = 0
  <2>1. IndexAbove(position, D) \in 0..(1 - 1)
    BY <1>3, <1>8
  <2> QED BY <2>1
<1> HIDE DEF shown, nodes, root, D
<1>10. CASE D = 0
  <2>1. position = 0 /\ nodes = <<>>
    BY <1>4, <1>7, <1>9, <1>10
  <2>2. Reverse(shown) = root
    BY <1>2, <1>3, <1>7, <1>10, <2>1
  <2> QED BY <2>1, <2>2 DEF ValidateMerkleTree, shown, nodes, root
<1>11. CASE D # 0
  <2>1. PICK f : /\ Climb(f, Reverse(shown), nodes, position)
                 /\ ValidateMerkleTreeHashes(shown, root, nodes, position)
                         <=> (Len(nodes) # 0 /\ f[Len(nodes)] = root)
    <3>1. shown \in Bytes /\ nodes \in Seq(Bytes) /\ position \in Nat
      BY <1>1, <1>2, <1>4
    <3> QED BY ONLY <3>1, ClimbFacts
  <2> DEFINE T == {k \in Nat : k <= D => f[k] = TreeLevel(txs, k)[IndexAbove(position, k) + 1]}
  <2>2. 0 \in T
    BY <1>2, <1>7, <2>1 DEF Climb
  <2>3. ASSUME NEW k \in T PROVE k + 1 \in T
    <3>1. ASSUME k + 1 <= D
          PROVE  f[k + 1] = TreeLevel(txs, k + 1)[IndexAbove(position, k + 1) + 1]
      <4>1. k \in Nat /\ k \in 0..(D - 1) /\ k <= D
        BY <1>3, <3>1
      <4> DEFINE l == TreeLevel(txs, k)
      <4> DEFINE i == IndexAbove(position, k)
      <4>2. f[k] = l[i + 1]
        BY <4>1
      <4>3. l \in Level /\ TreeLevel(txs, k + 1) = Pairing(l)
        BY <1>6, <4>1 DEF TreeLevels
      <4>4. i \in 0..(Len(l) - 1) /\ IndexAbove(position, k + 1) = i \div 2
        BY <1>6, <1>8, <4>1 DEF Halves
      <4>5. nodes[k + 1] = l[Beside(l, i)]
        BY <1>5, <4>1
      <4>6. f[k + 1] = JoinNodes(f[k], nodes[k + 1], i)
        BY <1>4, <2>1, <4>1 DEF Climb
      <4> HIDE DEF l, i
      <4>7. JoinNodes(l[i + 1], l[Beside(l, i)], i) = Pairing(l)[i \div 2 + 1]
        BY <4>3, <4>4, BesideFacts
      <4> QED BY <4>2, <4>3, <4>4, <4>5, <4>6, <4>7
    <3> QED BY <3>1
  <2>4. T \in SUBSET Nat
    OBVIOUS
  <2>5. D \in T
    <3> HIDE DEF T
    <3> QED BY <1>3, <2>2, <2>3, <2>4, NumbersFromZero
  <2>6. f[D] = root
    BY <1>3, <1>9, <2>5
  <2> QED BY <1>4, <1>11, <2>1, <2>6 DEF ValidateMerkleTree, shown, nodes, root
<1> QED BY <1>10, <1>11

(***************************************************************************)
(* Headers, their bytes and back.                                          *)
(***************************************************************************)
IsHeader(h) == h = [previousBlockHeaderHash |-> h.previousBlockHeaderHash, bits |-> h.bits,
                    merkleRootHash |-> h.merkleRootHash, nonce |-> h.nonce]

IsHeaders(list) == /\ \E S : list \in Seq(S)
                   /\ \A i \in 1..Len(list) : IsHeader(list[i])

LEMMA HeadersRoundTrip ==
    ASSUME NEW list, IsHeaders(list)
    PROVE  /\ DeserializeHeadersChain(SerializeHeaders(list)) = list
           /\ Len(SerializeHeaders(list)) % HeaderLength = 0
<1> DEFINE n == Len(list)
<1> DEFINE raw == SerializeHeaders(list)
<1> DEFINE Field(i, j) == SerializeHeader(list[i])[j]
<1>1. PICK S : list \in Seq(S)
  BY DEF IsHeaders
<1>2. n \in Nat /\ list = [i \in 1..n |-> list[i]]
  BY <1>1
<1> HIDE DEF n
<1>3. raw = [j \in 1..(4 * n) |-> Field((j - 1) \div 4 + 1, ((j - 1) % 4) + 1)]
  BY DEF SerializeHeaders, HeaderLength, n
<1>4. ASSUME NEW i \in 1..n, NEW j \in 1..4
      PROVE  /\ 4 * (i - 1) + j \in 1..(4 * n)
             /\ ((4 * (i - 1) + j) - 1) \div 4 + 1 = i
             /\ (((4 * (i - 1) + j) - 1) % 4) + 1 = j
  <2>1. \A k \in Nat, c \in 0..3 : (4 * k + c) \div 4 = k /\ (4 * k + c) % 4 = c
    <3> SUFFICES ASSUME NEW k \in Nat, NEW c \in 0..3
                 PROVE  (4 * k + c) \div 4 = k /\ (4 * k + c) % 4 = c
      OBVIOUS
    <3> QED OBVIOUS
  <2> DEFINE k == i - 1
  <2> DEFINE c == j - 1
  <2>2. k \in Nat /\ c \in 0..3 /\ k + 1 = i /\ c + 1 = j /\ k + 1 <= n
    BY <1>2
  <2>3. (4 * (i - 1) + j) - 1 = 4 * k + c /\ 4 * (i - 1) + j = 4 * k + c + 1
    BY <1>2
  <2> HIDE DEF k, c
  <2>4. 4 * k + c + 1 \in 1..(4 * n)
    BY <1>2, <2>2
  <2> QED BY <2>1, <2>2, <2>3, <2>4
<1> HIDE DEF raw, Field
<1>5. raw \in Seq({raw[j] : j \in 1..(4 * n)}) /\ Len(raw) = 4 * n
  BY <1>2, <1>3
<1>6. ASSUME NEW i \in 1..n, NEW j \in 1..4
      PROVE  raw[4 * (i - 1) + j] = Field(i, j)
  BY <1>3, <1>4
<1>7. ASSUME NEW i \in 1..n
      PROVE  DeserializeHeader(SubSeq(raw, 4 * (i - 1) + 1, 4 * i)) = list[i]
  <2> DEFINE a == 4 * (i - 1) + 1
  <2> DEFINE b == 4 * i
  <2> DEFINE part == SubSeq(raw, a, b)
  <2>0. i \in Nat /\ 1 <= i /\ i <= n
    BY <1>2
  <2>1. a \in 1..(4 * n) /\ b \in 1..(4 * n) /\ b = a + 3 /\ (b - a) + 1 = 4
    <3>1. n \in Nat
      BY <1>2
    <3>2. a \in Nat /\ b \in Nat /\ b = a + 3 /\ 1 <= a
      BY <2>0
    <3>3. b <= 4 * n /\ 4 * n \in Nat
      BY <2>0, <3>1
    <3> HIDE DEF a, b
    <3> QED BY <3>2, <3>3
  <2>2. \A j \in 1..4 : (a + j) - 1 = 4 * (i - 1) + j
    BY <1>2
  <2> HIDE DEF a, b
  <2>3. part = [j \in 1..4 |-> raw[(a + j) - 1]]
    BY <1>5, <2>1
  <2>4. \A j \in 1..4 : part[j] = Field(i, j)
    BY <1>6, <2>2, <2>3
  <2>5. Field(i, 1) = list[i].previousBlockHeaderHash /\ Field(i, 2) = list[i].merkleRootHash
        /\ Field(i, 3) = list[i].bits /\ Field(i, 4) = list[i].nonce
    BY DEF Field, SerializeHeader
  <2> HIDE DEF part
  <2>6. part[1] = list[i].previousBlockHeaderHash /\ part[2] = list[i].merkleRootHash
        /\ part[3] = list[i].bits /\ part[4] = list[i].nonce
    BY <2>4, <2>5
  <2>7. IsHeader(list[i])
    BY DEF IsHeaders, n
  <2>8. DeserializeHeader(part) = list[i]
    BY <2>6, <2>7 DEF DeserializeHeader, IsHeader
  <2> QED BY <2>8 DEF part, a, b
<1>8. Len(raw) \div HeaderLength = n /\ Len(raw) % HeaderLength = 0
  BY <1>2, <1>5 DEF HeaderLength
<1>9. DeserializeHeadersChain(raw) =
        [i \in 1..n |-> DeserializeHeader(SubSeq(raw, 4 * (i - 1) + 1, 4 * i))]
  BY <1>8 DEF DeserializeHeadersChain, HeaderLength
<1> QED BY <1>2, <1>7, <1>8, <1>9 DEF raw

(***************************************************************************)
(* The invariant.  Its parts are stated of a chain c, the blocks m ever    *)
(* mined, and a call p.                                                    *)
(***************************************************************************)
IsBlock(b) ==
    /\ b.txs \in Seq(Nat) /\ b.txs # <<>> /\ b.nonce \in Nat \ {0}
    /\ b.txs[1] = FirstCoinbase + b.nonce
    /\ \A i \in 2..Len(b.txs) : b.txs[i] <= FirstCoinbase

\* No two miners have a nonce in common, and none is above the number of blocks ever mined.
MinedInv(m, c, r) ==
    /\ IsFiniteSet(m) /\ Cardinality(m) = Len(c) + r /\ r \in 0..MaxReorgs
    /\ \A b \in m : IsBlock(b) /\ b.nonce <= Cardinality(m)
    /\ \A a, b \in m : a.nonce = b.nonce => a = b

ChainInv(m, c) ==
    /\ c \in Seq(m) /\ Len(c) <= MaxBlocks
    /\ \A h \in 1..Len(c) : c[h].bits = BitsAt(h)
    /\ \A h \in 2..Len(c) : c[h].previous = c[h - 1].nonce

\* Whatever a server is asked and whatever it answers, headers are of blocks that were
\* mined, or were made by nobody.
ServedHeaders(m, headers) ==
    \E list : /\ IsHeaders(list) /\ headers = SerializeHeaders(list)
              /\ \A i \in 1..Len(list) : \/ list[i].nonce = 0
                                         \/ \E b \in m : list[i] = HeaderOf(b)

ValidFor(p) ==
    LET headers == DeserializeHeadersChain(p.headers)
        root == headers[1].merkleRootHash
    IN /\ Len(p.branch) = Len(p.coinbaseBranch)
       /\ Len(p.headers) % HeaderLength = 0 /\ Len(headers) = p.of.required
       /\ ValidateMerkleTree(ShownHash(p.of.tx), root, p.branch, p.position)
       /\ ValidateBitcoinHeadersChain(headers, p.of.previous, p.of.current)
       /\ ValidateMerkleTree(Reverse(ComputeSha256(p.preimage)), root, p.coinbaseBranch, 0)

Assembled == {"assembled"}
CoinbaseRead == {"coinbase merkle"} \union Assembled
CoinbaseNamed == {"coinbase raw"} \union CoinbaseRead
MerkleRead == {"coinbase"} \union CoinbaseNamed
HeadersRead == {"merkle"} \union MerkleRead
HeightRead == {"headers"} \union HeadersRead

CallInv(m, c, p) ==
    /\ DOMAIN p = DOMAIN NoProof /\ p.disturbed \in BOOLEAN
    /\ p.pc \in {"idle", "confirmations", "height", "failed", "accepted"} \union HeightRead
    /\ p.pc # "idle" => p.of \in ProofRequests
    /\ p.pc \notin {"idle", "failed"} => p.of.required >= 1
    /\ p.pc = "height" => p.confirmations \in p.of.required..Len(c)
    /\ p.pc \in HeightRead => p.height \in 1..Len(c) /\ p.height + p.of.required - 1 <= Len(c)
    /\ p.pc \in HeadersRead \union {"accepted"} => ServedHeaders(m, p.headers)
    /\ p.pc \in MerkleRead \union {"accepted"} => p.branch \in Seq(Bytes) /\ p.position \in Nat
    /\ p.pc = "accepted" => ValidFor(p)

HeightsIn(c, tx) == {h \in DOMAIN c : Contains(c[h].txs, tx)}
ConfirmationsIn(c, tx) ==
    IF HeightsIn(c, tx) = {} THEN 0 ELSE Len(c) - (CHOOSE h \in HeightsIn(c, tx) : TRUE) + 1
AskedIn(c, h, required) == [i \in 1..required |-> HeaderOf(c[h + i - 1])]

\* What the caller may answer for: a request the chain does not meet.
Misses(c, of) ==
    \/ of.required < 1
    \/ ConfirmationsIn(c, of.tx) < of.required
    \/ ~(of.previous = 1 /\ of.current = 1)
       /\ \E h \in HeightsIn(c, of.tx) :
           \E i \in h..(h + of.required - 1) :
               LET difficulty(k) == TargetToDifficulty(BitsToTarget(c[k].bits))
               IN \/ difficulty(i) \notin {of.previous, of.current}
                  \/ i > h /\ difficulty(i - 1) = of.current /\ difficulty(i) # of.current

\* What a call has read is still so, when nothing happened since it began.
QuietInv(c, p) ==
    p.pc # "idle" /\ ~p.disturbed =>
        /\ p.pc = "height" => p.confirmations = ConfirmationsIn(c, p.of.tx)
        /\ p.pc \in HeightRead => p.height \in HeightsIn(c, p.of.tx)
        /\ p.pc \in HeadersRead => p.headers = SerializeHeaders(AskedIn(c, p.height, p.of.required))
        /\ p.pc \in MerkleRead => /\ p.position \in 0..(Len(c[p.height].txs) - 1)
                                  /\ c[p.height].txs[p.position + 1] = p.of.tx
                                  /\ p.branch = ProofNodes(c[p.height].txs, p.position)
        /\ p.pc \in CoinbaseNamed => p.coinbase = c[p.height].txs[1]
        /\ p.pc \in CoinbaseRead => p.preimage = CoinbasePreimage(p.coinbase)
        /\ p.pc \in Assembled => p.coinbaseBranch = ProofNodes(c[p.height].txs, 0)
        /\ p.pc = "failed" => Misses(c, p.of)

SpvInv ==
    /\ MinedInv(mined, chain, reorgs) /\ ChainInv(mined, chain)
    /\ CallInv(mined, chain, proof) /\ QuietInv(chain, proof)

(***************************************************************************)
(* The miners.                                                             *)
(***************************************************************************)
LEMMA MinedBlock ==
    ASSUME SpvInv, NEW below, NEW txs \in BlockContent
    PROVE  /\ IsBlock(BlockOn(below, txs)) /\ BlockOn(below, txs).nonce = Cardinality(mined) + 1
           /\ Cardinality(mined) \in Nat
<1> DEFINE b == BlockOn(below, txs)
<1>1. Cardinality(mined) \in Nat
  BY FS_CardinalityType DEF SpvInv, MinedInv
<1>2. b.nonce = Cardinality(mined) + 1 /\ b.txs = <<FirstCoinbase + b.nonce>> \o txs
  BY DEF BlockOn, NextNonce
<1>3. txs \in Seq(1..10)
  BY ContentAssumption DEF FirstCoinbase
<1> HIDE DEF b
<1> DEFINE n == 10 + b.nonce
<1>4. n \in Nat /\ b.nonce \in Nat \ {0} /\ b.txs = <<n>> \o txs
  BY <1>1, <1>2 DEF FirstCoinbase
<1> HIDE DEF n
<1>5. txs \in Seq(Nat) /\ <<n>> \in Seq(Nat) /\ Len(<<n>>) = 1 /\ <<n>>[1] = n
  BY <1>3, <1>4
<1>6. b.txs \in Seq(Nat) /\ b.txs # <<>> /\ Len(b.txs) = Len(txs) + 1 /\ b.txs[1] = n
  BY <1>4, <1>5
<1>7. ASSUME NEW i \in 2..Len(b.txs) PROVE b.txs[i] <= 10
  <2>1. i - 1 \in 1..Len(txs)
    BY <1>5, <1>6, <1>7
  <2>2. b.txs[i] = txs[i - 1]
    BY <1>4, <1>5, <1>6, <1>7, <2>1
  <2>3. txs[i - 1] \in 1..10
    BY <1>3, <2>1
  <2> QED BY <2>2, <2>3
<1> QED BY <1>1, <1>2, <1>4, <1>6, <1>7 DEF IsBlock, FirstCoinbase, b, n

LEMMA MinedKept ==
    ASSUME SpvInv, NEW below \in Seq(mined), NEW txs \in BlockContent, NewBest(below, txs),
           reorgs' \in 0..MaxReorgs, Cardinality(mined) = Len(below) + reorgs'
    PROVE  MinedInv(mined', chain', reorgs')
<1> DEFINE b == BlockOn(below, txs)
<1> DEFINE n == Cardinality(mined)
<1>1. IsBlock(b) /\ b.nonce = n + 1 /\ n \in Nat
  BY MinedBlock
<1>2. mined' = mined \union {b} /\ chain' = Append(below, b)
  BY DEF NewBest
<1>3. IsFiniteSet(mined) /\ \A a \in mined : IsBlock(a) /\ a.nonce <= n
  BY DEF SpvInv, MinedInv
<1>4. \A a, c \in mined : a.nonce = c.nonce => a = c
  BY DEF SpvInv, MinedInv
<1> HIDE DEF b
<1>5. \A a \in mined : a.nonce # b.nonce
  BY <1>1, <1>3 DEF IsBlock
<1>6. b \notin mined
  BY <1>5
<1>7. IsFiniteSet(mined') /\ Cardinality(mined') = n + 1
  BY <1>2, <1>3, <1>6, FS_AddElement
<1> HIDE DEF n
<1>8. Len(chain') = Len(below) + 1 /\ Len(below) \in Nat
  <2>1. below \in Seq(mined \union {b})
    OBVIOUS
  <2> QED BY <1>2, <2>1
<1>9. \A a \in mined' : IsBlock(a) /\ a.nonce <= n + 1
  <2>1. \A a \in mined : a.nonce <= n + 1
    BY <1>1, <1>3 DEF IsBlock
  <2> QED BY <1>1, <1>2, <1>3, <2>1
<1>10. \A a, c \in mined' : a.nonce = c.nonce => a = c
  BY <1>2, <1>4, <1>5
<1>11. Cardinality(mined') = Len(chain') + reorgs'
  BY <1>1, <1>7, <1>8 DEF n
<1> QED BY <1>7, <1>9, <1>10, <1>11 DEF MinedInv

\* The chain below a new block, which has the form of a chain.
LEMMA ChainKept ==
    ASSUME SpvInv, NEW below, NEW txs \in BlockContent, NewBest(below, txs),
           ChainInv(mined, below), Len(below) < MaxBlocks
    PROVE  ChainInv(mined', chain')
<1> DEFINE b == BlockOn(below, txs)
<1> DEFINE n == Len(below)
<1>1. mined' = mined \union {b} /\ chain' = Append(below, b)
  BY DEF NewBest
<1>2. below \in Seq(mined) /\ n \in Nat
  BY DEF ChainInv
<1>3. b.bits = BitsAt(n + 1) /\ (n # 0 => b.previous = below[n].nonce)
  <2>1. n # 0 => below # <<>>
    OBVIOUS
  <2> QED BY <2>1 DEF BlockOn
<1> HIDE DEF b
<1>4. below \in Seq(mined') /\ b \in mined'
  BY <1>1, <1>2
<1>5. chain' \in Seq(mined') /\ Len(chain') = n + 1
      /\ \A h \in 1..n : chain'[h] = below[h]
  BY <1>1, <1>4
<1>6. chain'[n + 1] = b
  BY <1>1, <1>4
<1>7. n + 1 <= MaxBlocks
  BY <1>2, BoundAssumption
<1> HIDE DEF n
<1>8. ASSUME NEW h \in 1..Len(chain') PROVE chain'[h].bits = BitsAt(h)
  <2>1. CASE h \in 1..n
    BY <1>5, <2>1 DEF ChainInv, n
  <2>2. CASE h = n + 1
    BY <1>3, <1>6, <2>2
  <2> QED BY <1>2, <1>5, <2>1, <2>2
<1>9. ASSUME NEW h \in 2..Len(chain') PROVE chain'[h].previous = chain'[h - 1].nonce
  <2>1. h - 1 \in 1..n
    BY <1>2, <1>5
  <2>2. CASE h \in 2..n
    <3>1. h \in 1..n
      BY <2>2
    <3> QED BY <1>5, <2>1, <2>2, <3>1 DEF ChainInv, n
  <2>3. CASE h = n + 1
    <3>1. n # 0 /\ h - 1 = n
      BY <1>2, <2>3
    <3> QED BY <1>3, <1>5, <1>6, <2>1, <2>3, <3>1
  <2> QED BY <1>2, <1>5, <2>2, <2>3
<1> QED BY <1>5, <1>7, <1>8, <1>9 DEF ChainInv

\* A block mined meanwhile takes nothing from what a call knows of mined blocks.
LEMMA CallKept ==
    ASSUME NEW m, NEW m2, m \subseteq m2,
           NEW c, NEW c2, Len(c) \in Nat, Len(c2) \in Nat, Len(c) <= Len(c2),
           NEW p, CallInv(m, c, p), NEW d \in BOOLEAN
    PROVE  CallInv(m2, c2, [p EXCEPT !.disturbed = d])
<1> DEFINE q == [p EXCEPT !.disturbed = d]
<1>1. DOMAIN p = DOMAIN NoProof
  BY DEF CallInv
<1>2. DOMAIN q = DOMAIN NoProof /\ q.disturbed = d
      /\ q.pc = p.pc /\ q.of = p.of /\ q.confirmations = p.confirmations
      /\ q.height = p.height /\ q.headers = p.headers /\ q.branch = p.branch
      /\ q.position = p.position /\ q.coinbaseBranch = p.coinbaseBranch /\ q.preimage = p.preimage
  BY <1>1 DEF NoProof
<1> HIDE DEF q
<1>3. ValidFor(p) => ValidFor(q)
  BY <1>2 DEF ValidFor
<1>4. ServedHeaders(m, p.headers) => ServedHeaders(m2, q.headers)
  <2>1. SUFFICES ASSUME ServedHeaders(m, p.headers) PROVE ServedHeaders(m2, q.headers)
    OBVIOUS
  <2>2. PICK list : /\ IsHeaders(list) /\ p.headers = SerializeHeaders(list)
                    /\ \A i \in 1..Len(list) : \/ list[i].nonce = 0
                                               \/ \E b \in m : list[i] = HeaderOf(b)
    BY <2>1 DEF ServedHeaders
  <2>3. \A i \in 1..Len(list) : \/ list[i].nonce = 0
                                \/ \E b \in m2 : list[i] = HeaderOf(b)
    BY <2>2
  <2> QED BY <1>2, <2>2, <2>3 DEF ServedHeaders
<1>5. p.pc # "idle" => p.of.required \in Int
  BY RequestAssumption DEF CallInv
<1>6. p.pc = "height" => p.confirmations \in p.of.required..Len(c2)
  <2>1. p.pc = "height" => p.confirmations \in p.of.required..Len(c)
    BY DEF CallInv
  <2> QED BY <1>5, <2>1
<1>7. p.pc \in HeightRead => p.height \in 1..Len(c2) /\ p.height + p.of.required - 1 <= Len(c2)
  <2>1. p.pc \in HeightRead => p.height \in 1..Len(c) /\ p.height + p.of.required - 1 <= Len(c)
    BY DEF CallInv
  <2>2. p.pc \in HeightRead => p.pc # "idle"
    BY DEF HeightRead, HeadersRead, MerkleRead, CoinbaseNamed, CoinbaseRead, Assembled
  <2> QED BY <1>5, <2>1, <2>2
<1>8. CallInv(m2, c2, q)
  BY <1>2, <1>3, <1>4, <1>6, <1>7 DEF CallInv
<1> QED BY <1>8 DEF q

LEMMA MinersKeep ==
    ASSUME SpvInv, NEW below, NEW txs \in BlockContent, NewBest(below, txs),
           ChainInv(mined, below), Len(below) < MaxBlocks, Len(chain) <= Len(below) + 1,
           reorgs' \in 0..MaxReorgs, Cardinality(mined) = Len(below) + reorgs'
    PROVE  SpvInv'
<1>1. below \in Seq(mined)
  BY DEF ChainInv
<1>2. MinedInv(mined', chain', reorgs')
  BY <1>1, MinedKept
<1>3. ChainInv(mined', chain')
  BY ChainKept
<1> DEFINE d == proof.disturbed \/ proof.pc # "idle"
<1>4. proof' = [proof EXCEPT !.disturbed = d] /\ mined \subseteq mined' /\ d \in BOOLEAN
  BY DEF NewBest
<1>5. CallInv(mined, chain, proof)
  BY DEF SpvInv
<1>6. CallInv(mined', chain', proof')
  <2>1. Len(chain) \in Nat /\ Len(chain') \in Nat
    BY <1>3 DEF SpvInv, ChainInv
  <2>2. Len(chain) <= Len(chain')
    <3>1. chain' = Append(below, BlockOn(below, txs))
      BY DEF NewBest
    <3>2. below \in Seq(mined \union {BlockOn(below, txs)})
      BY <1>1
    <3>3. Len(chain') = Len(below) + 1 /\ Len(below) \in Nat
      BY <3>1, <3>2
    <3> QED BY <2>1, <3>3
  <2> HIDE DEF d
  <2> QED BY <1>4, <1>5, <2>1, <2>2, CallKept
<1>7. QuietInv(chain', proof')
  <2>1. "disturbed" \in DOMAIN proof /\ "pc" \in DOMAIN proof
    BY <1>5 DEF CallInv, NoProof
  <2>2. proof'.disturbed = d /\ proof'.pc = proof.pc
    BY <1>4, <2>1
  <2> QED BY <2>2 DEF QuietInv
<1> QED BY <1>2, <1>3, <1>6, <1>7 DEF SpvInv

LEMMA NextBlockKeeps == ASSUME SpvInv, NEW txs \in BlockContent, NextBlock(txs) PROVE SpvInv'
<1>1. NewBest(chain, txs) /\ Len(chain) < MaxBlocks /\ reorgs' = reorgs
  BY DEF NextBlock
<1>2. ChainInv(mined, chain) /\ reorgs \in 0..MaxReorgs /\ Cardinality(mined) = Len(chain) + reorgs
  BY DEF SpvInv, MinedInv
<1>3. Len(chain) <= Len(chain) + 1
  BY <1>2 DEF ChainInv
<1> QED BY <1>1, <1>2, <1>3, MinersKeep

LEMMA ReorganisedKeeps == ASSUME SpvInv, NEW txs \in BlockContent, Reorganised(txs) PROVE SpvInv'
<1> DEFINE below == Front(chain)
<1>1. NewBest(below, txs) /\ chain # <<>> /\ reorgs < MaxReorgs /\ reorgs' = reorgs + 1
  BY DEF Reorganised
<1>2. ChainInv(mined, chain) /\ reorgs \in 0..MaxReorgs /\ Cardinality(mined) = Len(chain) + reorgs
  BY DEF SpvInv, MinedInv
<1>3. chain \in Seq(mined) /\ Len(chain) \in Nat \ {0} /\ Len(chain) <= MaxBlocks
  BY <1>1, <1>2 DEF ChainInv
<1>4. below \in Seq(mined) /\ Len(below) = Len(chain) - 1
      /\ \A h \in 1..Len(below) : below[h] = chain[h]
  <2> DEFINE n == Len(chain) - 1
  <2>1. n \in Nat /\ n <= Len(chain) /\ (n - 1) + 1 = n /\ below = SubSeq(chain, 1, n)
    BY <1>3 DEF Front
  <2> HIDE DEF n, below
  <2>2. below = [h \in 1..n |-> chain[h]]
    BY <1>3, <2>1
  <2>3. \A h \in 1..n : chain[h] \in mined
    BY <1>3, <2>1
  <2>4. below \in [1..n -> mined]
    BY <2>2, <2>3
  <2>5. below \in Seq(mined) /\ Len(below) = n
    <3>1. n \in Nat
      BY <2>1
    <3> QED BY ONLY <2>4, <3>1
  <2> QED BY <2>2, <2>5 DEF n
<1> HIDE DEF below
<1>5. \A h \in 1..Len(below) : h \in 1..Len(chain)
  BY <1>3, <1>4
<1>6. \A h \in 2..Len(below) : h \in 2..Len(chain) /\ h \in 1..Len(below) /\ h - 1 \in 1..Len(below)
  BY <1>3, <1>4
<1>7. \A h \in 1..Len(below) : below[h].bits = BitsAt(h)
  BY <1>2, <1>4, <1>5 DEF ChainInv
<1>8. \A h \in 2..Len(below) : below[h].previous = below[h - 1].nonce
  BY <1>2, <1>4, <1>6 DEF ChainInv
<1>9. Len(below) < MaxBlocks /\ Len(below) <= MaxBlocks
  BY <1>3, <1>4, BoundAssumption
<1>10. ChainInv(mined, below)
  BY <1>4, <1>7, <1>8, <1>9 DEF ChainInv
<1>11. reorgs' \in 0..MaxReorgs /\ Cardinality(mined) = Len(below) + reorgs'
  BY <1>1, <1>2, <1>3, <1>4, BoundAssumption
<1>12. Len(chain) <= Len(below) + 1
  BY <1>3, <1>4
<1> QED BY <1>1, <1>9, <1>10, <1>11, <1>12, MinersKeep

(***************************************************************************)
(* The caller's steps, between which the chain may change but not during   *)
(* them.                                                                   *)
(***************************************************************************)
LEMMA CallSuffices ==
    ASSUME SpvInv, mined' = mined, chain' = chain, reorgs' = reorgs,
           CallInv(mined, chain, proof'), QuietInv(chain, proof')
    PROVE  SpvInv'
BY DEF SpvInv

LEMMA CallTypes ==
    ASSUME SpvInv
    PROVE  /\ chain \in Seq(mined) /\ Len(chain) \in Nat /\ DOMAIN chain = 1..Len(chain)
           /\ \A h \in 1..Len(chain) : chain[h] \in mined /\ IsBlock(chain[h])
           /\ DOMAIN proof = DOMAIN NoProof /\ proof.disturbed \in BOOLEAN
           /\ proof.pc # "idle" => /\ proof.of \in ProofRequests
                                   /\ proof.of.required \in Int /\ proof.of.tx \in Nat
<1>1. chain \in Seq(mined)
  BY DEF SpvInv, ChainInv
<1>2. \A h \in 1..Len(chain) : chain[h] \in mined /\ IsBlock(chain[h])
  BY <1>1 DEF SpvInv, MinedInv
<1>3. CallInv(mined, chain, proof)
  BY DEF SpvInv
<1> QED BY <1>1, <1>2, <1>3, RequestAssumption DEF CallInv

LEMMA HeightOfIs ==
    ASSUME NEW tx
    PROVE  HeightOf(tx) = HeightsIn(chain, tx) /\ TxConfirmations(tx) = ConfirmationsIn(chain, tx)
<1>1. HeightOf(tx) = HeightsIn(chain, tx)
  BY DEF HeightOf, HeightsIn
<1> QED BY <1>1 DEF TxConfirmations, ConfirmationsIn

\* Confirmations are counted from a block with the transaction.
LEMMA ConfirmationsFacts ==
    ASSUME NEW c, Len(c) \in Nat, DOMAIN c = 1..Len(c), NEW tx
    PROVE  /\ ConfirmationsIn(c, tx) \in 0..Len(c)
           /\ ConfirmationsIn(c, tx) # 0 =>
                  Len(c) - ConfirmationsIn(c, tx) + 1 \in HeightsIn(c, tx)
<1>1. CASE HeightsIn(c, tx) = {}
  BY <1>1 DEF ConfirmationsIn
<1>2. CASE HeightsIn(c, tx) # {}
  <2> DEFINE h == CHOOSE h \in HeightsIn(c, tx) : TRUE
  <2>1. h \in HeightsIn(c, tx)
    BY <1>2
  <2>2. ConfirmationsIn(c, tx) = Len(c) - h + 1
    BY <1>2 DEF ConfirmationsIn
  <2> HIDE DEF h
  <2>3. h \in 1..Len(c)
    BY <2>1 DEF HeightsIn
  <2>4. Len(c) - (Len(c) - h + 1) + 1 = h /\ Len(c) - h + 1 \in 0..Len(c)
    BY <2>3
  <2> QED BY <2>1, <2>2, <2>4
<1> QED BY <1>1, <1>2

LEMMA StartKeeps ==
    ASSUME SpvInv, NEW request \in ProofRequests, StartProof(request) PROVE SpvInv'
<1> USE DEF StartProof, Undisturbed
<1> DEFINE pc == IF request.required < 1 THEN "failed" ELSE "confirmations"
<1>1. proof' = [NoProof EXCEPT !.of = request, !.pc = pc]
  OBVIOUS
<1>2. DOMAIN proof' = DOMAIN NoProof /\ proof'.of = request /\ proof'.pc = pc
      /\ proof'.disturbed = FALSE
  BY <1>1 DEF NoProof
<1>3. request.required \in Int
  BY RequestAssumption
<1>4. \/ pc = "failed" /\ request.required < 1
      \/ pc = "confirmations" /\ request.required >= 1
  BY <1>3
<1> HIDE DEF pc
<1>5. CallInv(mined, chain, proof')
  BY <1>2, <1>4 DEF CallInv, HeightRead, HeadersRead, MerkleRead, CoinbaseNamed, CoinbaseRead, Assembled
<1>6. QuietInv(chain, proof')
  BY <1>2, <1>4 DEF QuietInv, HeightRead, HeadersRead, MerkleRead, CoinbaseNamed, CoinbaseRead, Assembled, Misses
<1> QED BY <1>5, <1>6, CallSuffices

\* A call that is refused is over; the chain is to answer for it if nothing happened.
LEMMA RefuseKeeps ==
    ASSUME SpvInv, proof.pc # "idle", Refuse, mined' = mined, chain' = chain, reorgs' = reorgs,
           ~proof.disturbed => Misses(chain, proof.of)
    PROVE  SpvInv'
<1>1. proof' = [proof EXCEPT !.pc = "failed"]
  BY DEF Refuse
<1>2. DOMAIN proof = DOMAIN NoProof /\ proof.disturbed \in BOOLEAN /\ proof.of \in ProofRequests
  BY CallTypes
<1>3. DOMAIN proof' = DOMAIN NoProof /\ proof'.of = proof.of /\ proof'.pc = "failed"
      /\ proof'.disturbed = proof.disturbed
  BY <1>1, <1>2 DEF NoProof
<1>4. CallInv(mined, chain, proof')
  BY <1>2, <1>3 DEF CallInv, HeightRead, HeadersRead, MerkleRead, CoinbaseNamed, CoinbaseRead, Assembled
<1>5. QuietInv(chain, proof')
  BY <1>3 DEF QuietInv, HeightRead, HeadersRead, MerkleRead, CoinbaseNamed, CoinbaseRead, Assembled
<1> QED BY <1>4, <1>5, CallSuffices

LEMMA ReadConfirmationsKeeps == ASSUME SpvInv, ReadConfirmations PROVE SpvInv'
<1> DEFINE n == ConfirmationsIn(chain, proof.of.tx)
<1>1. proof.pc = "confirmations" /\ mined' = mined /\ chain' = chain /\ reorgs' = reorgs
  BY DEF ReadConfirmations, Undisturbed
<1>2. TxConfirmations(proof.of.tx) = n
  BY HeightOfIs
<1>3. n \in 0..Len(chain) /\ Len(chain) \in Nat
  BY CallTypes, ConfirmationsFacts
<1>4. CASE n < proof.of.required
  <2>1. Refuse
    BY <1>2, <1>4 DEF ReadConfirmations
  <2>2. Misses(chain, proof.of)
    BY <1>4 DEF Misses
  <2> QED BY <1>1, <2>1, <2>2, RefuseKeeps
<1>5. CASE ~(n < proof.of.required)
  <2>1. proof' = [proof EXCEPT !.confirmations = n, !.pc = "height"]
    BY <1>2, <1>5 DEF ReadConfirmations
  <2> HIDE DEF n
  <2>2. DOMAIN proof = DOMAIN NoProof /\ proof.disturbed \in BOOLEAN /\ proof.of \in ProofRequests
        /\ proof.of.required \in Int
    BY <1>1, CallTypes
  <2>3. DOMAIN proof' = DOMAIN NoProof /\ proof'.of = proof.of /\ proof'.pc = "height"
        /\ proof'.disturbed = proof.disturbed /\ proof'.confirmations = n
    BY <2>1, <2>2 DEF NoProof
  <2>4. proof.of.required >= 1
    BY <1>1 DEF SpvInv, CallInv
  <2>5. n \in proof.of.required..Len(chain)
    BY <1>3, <1>5, <2>2
  <2>6. CallInv(mined, chain, proof')
    BY <2>2, <2>3, <2>4, <2>5
       DEF CallInv, HeightRead, HeadersRead, MerkleRead, CoinbaseNamed, CoinbaseRead, Assembled
  <2>7. QuietInv(chain, proof')
    BY <2>3 DEF n, QuietInv, HeightRead, HeadersRead, MerkleRead, CoinbaseNamed, CoinbaseRead, Assembled
  <2> QED BY <1>1, <2>6, <2>7, CallSuffices
<1> QED BY <1>4, <1>5

LEMMA ReadHeightKeeps == ASSUME SpvInv, ReadHeight PROVE SpvInv'
<1> DEFINE h == Len(chain) - proof.confirmations + 1
<1>1. proof.pc = "height" /\ mined' = mined /\ chain' = chain /\ reorgs' = reorgs
  BY DEF ReadHeight, Undisturbed
<1>2. proof' = [proof EXCEPT !.height = h, !.pc = "headers"]
  BY DEF ReadHeight, TxBlockHeight
<1>3. DOMAIN proof = DOMAIN NoProof /\ proof.disturbed \in BOOLEAN /\ proof.of \in ProofRequests
      /\ proof.of.required \in Int /\ Len(chain) \in Nat /\ DOMAIN chain = 1..Len(chain)
  BY <1>1, CallTypes
<1>4. proof.of.required >= 1 /\ proof.confirmations \in proof.of.required..Len(chain)
  BY <1>1 DEF SpvInv, CallInv
<1>5. h \in 1..Len(chain) /\ h + proof.of.required - 1 <= Len(chain)
  BY <1>3, <1>4
<1> HIDE DEF h
<1>6. DOMAIN proof' = DOMAIN NoProof /\ proof'.of = proof.of /\ proof'.pc = "headers"
      /\ proof'.disturbed = proof.disturbed /\ proof'.height = h
  BY <1>2, <1>3 DEF NoProof
<1>7. CallInv(mined, chain, proof')
  BY <1>3, <1>4, <1>5, <1>6
     DEF CallInv, HeightRead, HeadersRead, MerkleRead, CoinbaseNamed, CoinbaseRead, Assembled
<1>8. ASSUME ~proof.disturbed PROVE h \in HeightsIn(chain, proof.of.tx)
  <2>1. proof.confirmations = ConfirmationsIn(chain, proof.of.tx)
    BY <1>1, <1>8 DEF SpvInv, QuietInv
  <2>2. proof.confirmations # 0
    BY <1>3, <1>4
  <2> QED BY <1>3, <2>1, <2>2, ConfirmationsFacts DEF h
<1>9. QuietInv(chain, proof')
  BY <1>6, <1>8 DEF QuietInv, HeightRead, HeadersRead, MerkleRead, CoinbaseNamed, CoinbaseRead, Assembled
<1> QED BY <1>1, <1>7, <1>9, CallSuffices

\* The headers asked for are there.
LEMMA AskedFacts ==
    ASSUME SpvInv, proof.pc = "headers"
    PROVE  LET n == proof.of.required
               asked == HeadersFrom(proof.height, n - 1)
           IN /\ n \in Nat \ {0} /\ asked = AskedIn(chain, proof.height, n)
              /\ IsHeaders(asked) /\ Len(asked) = n
              /\ \A i \in 1..n : \E b \in mined : asked[i] = HeaderOf(b)
<1> DEFINE n == proof.of.required
<1> DEFINE asked == HeadersFrom(proof.height, n - 1)
<1>1. n \in Nat \ {0} /\ proof.height \in 1..Len(chain) /\ proof.height + n - 1 <= Len(chain)
  <2>1. n \in Int
    BY CallTypes
  <2>2. n >= 1 /\ proof.height \in 1..Len(chain) /\ proof.height + n - 1 <= Len(chain)
    BY DEF SpvInv, CallInv, HeightRead
  <2> QED BY <2>1, <2>2
<1>2. Len(chain) \in Nat /\ \A h \in 1..Len(chain) : chain[h] \in mined
  BY CallTypes
<1>3. \A i \in 1..n : proof.height + i - 1 \in 1..Len(chain)
  BY <1>1, <1>2
<1>4. (n - 1) + 1 = n
  BY <1>1
<1> HIDE DEF n
<1>5. asked = [i \in 1..n |-> HeaderOf(chain[proof.height + i - 1])]
  <2>1. proof.height \in DOMAIN chain
    BY <1>1, CallTypes
  <2> QED BY <1>4, <2>1 DEF HeadersFrom
<1>6. asked = AskedIn(chain, proof.height, n)
  BY <1>5 DEF AskedIn
<1> HIDE DEF asked
<1>7. \A i \in 1..n : \E b \in mined : asked[i] = HeaderOf(b)
  BY <1>2, <1>3, <1>5
<1>8. asked \in Seq({asked[i] : i \in 1..n}) /\ Len(asked) = n
  <2>1. asked \in [1..n -> {asked[i] : i \in 1..n}] /\ n \in Nat
    BY <1>1, <1>5
  <2> QED BY ONLY <2>1
<1>9. \A i \in 1..n : IsHeader(asked[i])
  <2>1. \A b : IsHeader(HeaderOf(b))
    BY DEF IsHeader, HeaderOf
  <2> QED BY <1>7, <2>1
<1>10. IsHeaders(asked)
  BY <1>8, <1>9 DEF IsHeaders
<1> QED BY <1>1, <1>6, <1>7, <1>8, <1>10 DEF n, asked

\* An answer of headers that were mined, or made by nobody, whatever else they are.
Servable(list) ==
    /\ IsHeaders(list)
    /\ \A i \in 1..Len(list) : list[i].nonce = 0 \/ \E b \in mined : list[i] = HeaderOf(b)

Answered(list) ==
    proof' = [proof EXCEPT !.headers = SerializeHeaders(list), !.pc = "merkle",
                           !.disturbed = @ \/ list # HeadersFrom(proof.height, proof.of.required - 1)]

LEMMA AnswerKeeps ==
    ASSUME SpvInv, proof.pc = "headers", mined' = mined, chain' = chain, reorgs' = reorgs,
           NEW list, Servable(list), Answered(list)
    PROVE  SpvInv'
<1> DEFINE n == proof.of.required
<1> DEFINE asked == HeadersFrom(proof.height, n - 1)
<1> DEFINE d == proof.disturbed \/ list # asked
<1>1. DOMAIN proof = DOMAIN NoProof /\ proof.disturbed \in BOOLEAN /\ proof.of \in ProofRequests
  BY CallTypes
<1>2. asked = AskedIn(chain, proof.height, n)
  BY AskedFacts
<1> HIDE DEF asked, n
<1>3. d \in BOOLEAN /\ proof' = [proof EXCEPT !.headers = SerializeHeaders(list), !.pc = "merkle",
                                               !.disturbed = d]
  <2>1. proof' = [proof EXCEPT !.headers = SerializeHeaders(list), !.pc = "merkle",
                               !.disturbed = @ \/ list # asked]
    BY DEF Answered, asked, n
  <2>2. "disturbed" \in DOMAIN proof /\ "headers" \in DOMAIN proof /\ "pc" \in DOMAIN proof
    BY <1>1 DEF NoProof
  <2> QED BY <2>1, <2>2
<1> HIDE DEF d
<1>4. DOMAIN proof' = DOMAIN NoProof /\ proof'.of = proof.of /\ proof'.pc = "merkle"
      /\ proof'.height = proof.height /\ proof'.headers = SerializeHeaders(list)
      /\ proof'.disturbed = d
  BY <1>1, <1>3 DEF NoProof
<1>5. ServedHeaders(mined, SerializeHeaders(list))
  BY DEF ServedHeaders, Servable
<1>6. proof.of.required >= 1 /\ proof.height \in 1..Len(chain)
      /\ proof.height + proof.of.required - 1 <= Len(chain)
  BY DEF SpvInv, CallInv, HeightRead
<1>7. CallInv(mined, chain, proof')
  BY <1>1, <1>3, <1>4, <1>5, <1>6
     DEF CallInv, HeightRead, HeadersRead, MerkleRead, CoinbaseNamed, CoinbaseRead, Assembled
<1>8. QuietInv(chain, proof')
  <2>1. SUFFICES ASSUME ~d
                 PROVE  /\ proof.height \in HeightsIn(chain, proof.of.tx)
                        /\ proof'.headers = SerializeHeaders(AskedIn(chain, proof.height, n))
    BY <1>4 DEF QuietInv, HeightRead, HeadersRead, MerkleRead, CoinbaseNamed, CoinbaseRead, Assembled, n
  <2>2. ~proof.disturbed /\ list = asked
    BY <2>1 DEF d
  <2>3. proof.height \in HeightsIn(chain, proof.of.tx)
    BY <2>2 DEF SpvInv, QuietInv, HeightRead
  <2> QED BY <1>2, <1>4, <2>2, <2>3
<1> QED BY <1>7, <1>8, CallSuffices

LEMMA ReadHeadersKeeps == ASSUME SpvInv, ReadHeaders PROVE SpvInv'
<1> DEFINE n == proof.of.required
<1> DEFINE asked == HeadersFrom(proof.height, n - 1)
<1>1. proof.pc = "headers" /\ mined' = mined /\ chain' = chain /\ reorgs' = reorgs
  BY DEF ReadHeaders
<1>2. n \in Nat \ {0} /\ IsHeaders(asked) /\ Len(asked) = n
      /\ \A i \in 1..n : \E b \in mined : asked[i] = HeaderOf(b)
  BY <1>1, AskedFacts
<1>3. PICK S : asked \in Seq(S)
  BY <1>2 DEF IsHeaders
<1>4. DOMAIN asked = 1..n /\ \A i \in 1..n : IsHeader(asked[i])
  BY <1>2, <1>3 DEF IsHeaders
<1>5. ASSUME NEW places \in SUBSET (1..n), NEW forged \in [places -> ForgedHeaders]
      PROVE  Servable([i \in 1..n |-> IF i \in places THEN forged[i] ELSE asked[i]])
  <2> HIDE DEF n, asked
  <2> DEFINE list == [i \in 1..n |-> IF i \in places THEN forged[i] ELSE asked[i]]
  <2>1. ASSUME NEW g \in ForgedHeaders
        PROVE  IsHeader(g) /\ (g.nonce = 0 \/ \E b \in mined : g = HeaderOf(b))
    <3>1. PICK b \in mined : g = HeaderOf(b) \/ g = [HeaderOf(b) EXCEPT !.nonce = 0]
      BY <2>1 DEF ForgedHeaders
    <3>2. CASE g = HeaderOf(b)
      BY <3>2 DEF HeaderOf, IsHeader
    <3>3. CASE g = [HeaderOf(b) EXCEPT !.nonce = 0]
      BY <3>3 DEF HeaderOf, IsHeader
    <3> QED BY <3>1, <3>2, <3>3
  <2>2. \A i \in 1..n : /\ list[i] \in S \union ForgedHeaders
                        /\ IsHeader(list[i])
                        /\ list[i].nonce = 0 \/ \E b \in mined : list[i] = HeaderOf(b)
    <3> SUFFICES ASSUME NEW i \in 1..n
                 PROVE  /\ list[i] \in S \union ForgedHeaders
                        /\ IsHeader(list[i])
                        /\ list[i].nonce = 0 \/ \E b \in mined : list[i] = HeaderOf(b)
      OBVIOUS
    <3>1. CASE i \in places
      <4>1. list[i] = forged[i] /\ forged[i] \in ForgedHeaders
        BY <3>1
      <4> HIDE DEF list
      <4> QED BY <2>1, <4>1
    <3>2. CASE i \notin places
      <4>1. list[i] = asked[i]
        BY <3>2
      <4>2. asked[i] \in S
        BY <1>2, <1>3
      <4> HIDE DEF list
      <4> QED BY <1>2, <1>4, <4>1, <4>2
    <3> QED BY <3>1, <3>2
  <2>3. list \in [1..n -> S \union ForgedHeaders]
    BY <2>2
  <2> HIDE DEF list
  <2>4. list \in Seq(S \union ForgedHeaders) /\ Len(list) = n
    <3>1. n \in Nat
      BY <1>2
    <3> QED BY ONLY <2>3, <3>1
  <2>5. Servable(list)
    BY <2>2, <2>4 DEF Servable, IsHeaders
  <2> QED BY <2>5 DEF list
<1>6. Servable(asked)
  BY <1>2 DEF Servable
<1>7. Servable(Front(asked))
  <2> DEFINE m == n - 1
  <2>1. m \in Nat /\ m <= Len(asked) /\ m <= n /\ n \in Nat
    BY <1>2
  <2> HIDE DEF asked
  <2>2. Front(asked) = SubSeq(asked, 1, m)
    BY <1>2 DEF Front
  <2> HIDE DEF n, m
  <2>3. Front(asked) = [k \in 1..m |-> asked[k]]
    BY <1>3, <2>1, <2>2
  <2>4. \A k \in 1..m : k \in 1..n /\ asked[k] \in S
    <3>1. \A k \in 1..m : k \in 1..n
      BY <2>1
    <3> QED BY <1>2, <1>3, <3>1
  <2>5. Front(asked) \in [1..m -> S]
    BY <2>3, <2>4
  <2>6. Front(asked) \in Seq(S) /\ Len(Front(asked)) = m
    <3>1. m \in Nat
      BY <2>1
    <3> QED BY ONLY <2>5, <3>1
  <2> QED BY <1>2, <1>4, <2>3, <2>4, <2>6 DEF Servable, IsHeaders
<1>8. \/ Answered(asked)
      \/ \E places \in SUBSET DOMAIN asked : \E forged \in [places -> ForgedHeaders] :
            Answered([i \in DOMAIN asked |-> IF i \in places THEN forged[i] ELSE asked[i]])
      \/ Answered(Front(asked))
  BY DEF ReadHeaders, Answered
<1> HIDE DEF asked, n
<1>9. CASE Answered(asked)
  BY <1>1, <1>6, <1>9, AnswerKeeps
<1>10. ASSUME NEW places \in SUBSET DOMAIN asked, NEW forged \in [places -> ForgedHeaders],
              Answered([i \in DOMAIN asked |-> IF i \in places THEN forged[i] ELSE asked[i]])
       PROVE  SpvInv'
  <2> DEFINE list == [i \in DOMAIN asked |-> IF i \in places THEN forged[i] ELSE asked[i]]
  <2>1. Servable(list)
    BY <1>4, <1>5
  <2>2. Answered(list)
    BY <1>10
  <2> HIDE DEF list
  <2> QED BY <1>1, <2>1, <2>2, AnswerKeeps
<1>12. CASE Answered(Front(asked))
  BY <1>1, <1>7, <1>12, AnswerKeeps
<1> QED BY <1>8, <1>9, <1>10, <1>12

\* The position of a transaction in a block.
LEMMA PositionFacts ==
    ASSUME NEW txs \in Seq(Nat), NEW tx, Contains(txs, tx)
    PROVE  /\ txs # <<>> /\ PositionIn(txs, tx) \in 0..(Len(txs) - 1)
           /\ txs[PositionIn(txs, tx) + 1] = tx
<1> DEFINE k == CHOOSE i \in DOMAIN txs : txs[i] = tx
<1>1. \E i \in DOMAIN txs : txs[i] = tx
  BY DEF Contains
<1>2. k \in DOMAIN txs /\ txs[k] = tx
  BY <1>1
<1>3. PositionIn(txs, tx) = k - 1
  BY DEF PositionIn
<1> HIDE DEF k
<1>4. k \in 1..Len(txs) /\ (k - 1) + 1 = k /\ k - 1 \in 0..(Len(txs) - 1)
  BY <1>2
<1> QED BY <1>2, <1>3, <1>4

\* A coinbase transaction is the first of its block and nowhere else in it.
LEMMA CoinbaseFirst ==
    ASSUME NEW b, IsBlock(b)
    PROVE  Contains(b.txs, b.txs[1]) /\ PositionIn(b.txs, b.txs[1]) = 0
<1>1. b.txs \in Seq(Nat) /\ b.txs # <<>> /\ Len(b.txs) \in Nat \ {0} /\ b.txs[1] > FirstCoinbase
  BY DEF IsBlock, FirstCoinbase
<1>2. Contains(b.txs, b.txs[1])
  BY <1>1 DEF Contains
<1> DEFINE k == PositionIn(b.txs, b.txs[1])
<1>3. k \in 0..(Len(b.txs) - 1) /\ b.txs[k + 1] = b.txs[1]
  BY <1>1, <1>2, PositionFacts
<1> HIDE DEF k
<1>4. k + 1 \notin 2..Len(b.txs)
  <2>1. SUFFICES ASSUME k + 1 \in 2..Len(b.txs) PROVE FALSE
    OBVIOUS
  <2>2. b.txs[k + 1] <= FirstCoinbase
    BY <2>1 DEF IsBlock
  <2>3. b.txs[1] \in Nat /\ FirstCoinbase \in Nat
    BY <1>1 DEF FirstCoinbase
  <2> QED BY <1>1, <1>3, <2>2, <2>3
<1>5. k = 0
  BY <1>1, <1>3, <1>4
<1> QED BY <1>2, <1>5 DEF k

\* Whatever nodes and position a server sends: they are bytes and a number, and the true
\* ones as long as nothing has happened.
LEMMA BranchKeeps ==
    ASSUME SpvInv, proof.pc = "merkle", mined' = mined, chain' = chain, reorgs' = reorgs,
           NEW nodes \in Seq(Bytes), NEW position \in Nat, NEW d \in BOOLEAN,
           proof' = [proof EXCEPT !.branch = nodes, !.position = position, !.pc = "coinbase",
                                  !.disturbed = d],
           proof.disturbed => d,
           ~d => /\ position \in 0..(Len(chain[proof.height].txs) - 1)
                 /\ chain[proof.height].txs[position + 1] = proof.of.tx
                 /\ nodes = ProofNodes(chain[proof.height].txs, position)
    PROVE  SpvInv'
<1>1. DOMAIN proof = DOMAIN NoProof /\ proof.disturbed \in BOOLEAN /\ proof.of \in ProofRequests
  BY CallTypes
<1>2. DOMAIN proof' = DOMAIN NoProof /\ proof'.of = proof.of /\ proof'.pc = "coinbase"
      /\ proof'.height = proof.height /\ proof'.headers = proof.headers
      /\ proof'.disturbed = d
      /\ proof'.branch = nodes /\ proof'.position = position
  BY <1>1 DEF NoProof
<1>3. CallInv(mined, chain, proof) /\ QuietInv(chain, proof)
  BY DEF SpvInv
<1>4. CallInv(mined, chain, proof')
  BY <1>1, <1>2, <1>3
     DEF CallInv, HeightRead, HeadersRead, MerkleRead, CoinbaseNamed, CoinbaseRead, Assembled
<1>5. QuietInv(chain, proof')
  <2>1. CASE d
    BY <1>2, <2>1 DEF QuietInv
  <2>2. CASE ~d
    BY <1>2, <1>3, <2>2
       DEF QuietInv, HeightRead, HeadersRead, MerkleRead, CoinbaseNamed, CoinbaseRead, Assembled
  <2> QED BY <2>1, <2>2
<1> QED BY <1>4, <1>5, CallSuffices

\* What a server made up is bytes and a number.
LEMMA ForgedFacts ==
    ASSUME NEW served \in ForgedBranches
    PROVE  CreateMerkleProof(served.merkle) \in Seq(Bytes) /\ served.position \in Nat
<1> DEFINE branch == served.merkle
<1>1. branch \in Seq(Seq(Int)) /\ served.position \in Nat
  BY ForgedAssumption
<1> HIDE DEF branch
<1>2. \A k \in 1..Len(branch) : Reverse(branch[k]) \in Bytes
  BY <1>1, ReverseFacts DEF Bytes
<1>3. CreateMerkleProof(branch) = [k \in 1..Len(branch) |-> Reverse(branch[k])]
      /\ Len(branch) \in Nat
  BY <1>1 DEF CreateMerkleProof
<1>4. CreateMerkleProof(branch) \in [1..Len(branch) -> Bytes]
  BY <1>2, <1>3
<1>5. CreateMerkleProof(branch) \in Seq(Bytes)
  BY ONLY <1>3, <1>4
<1> QED BY <1>1, <1>5 DEF branch

\* The branch of a transaction in a block of the chain.
LEMMA TrueBranchFacts ==
    ASSUME SpvInv, NEW tx, NEW h \in HeightsIn(chain, tx)
    PROVE  LET served == TrueBranch(h, tx)
               nodes == CreateMerkleProof(served.merkle)
           IN /\ nodes \in Seq(Bytes) /\ served.position \in 0..(Len(chain[h].txs) - 1)
              /\ served.position \in Nat
              /\ served.position = PositionIn(chain[h].txs, tx)
              /\ chain[h].txs[served.position + 1] = tx
              /\ nodes = ProofNodes(chain[h].txs, served.position)
<1> DEFINE txs == chain[h].txs
<1> DEFINE position == PositionIn(txs, tx)
<1>1. h \in 1..Len(chain) /\ Contains(txs, tx) /\ txs \in Seq(Nat)
  <2>1. h \in 1..Len(chain) /\ Contains(txs, tx)
    BY CallTypes DEF HeightsIn
  <2> QED BY <2>1, CallTypes DEF IsBlock
<1>2. TrueBranch(h, tx) = [merkle |-> MerkleBranch(txs, position), position |-> position]
  BY DEF TrueBranch
<1> HIDE DEF txs
<1>3. txs # <<>> /\ position \in 0..(Len(txs) - 1) /\ txs[position + 1] = tx
  BY <1>1, PositionFacts
<1> HIDE DEF position
<1>4. ProofNodes(txs, position) \in Seq(Bytes) /\ position \in Nat
  BY <1>1, <1>3, BranchFacts
<1>5. TrueBranch(h, tx).position = position
      /\ CreateMerkleProof(TrueBranch(h, tx).merkle) = ProofNodes(txs, position)
  BY <1>2 DEF ProofNodes
<1> QED BY <1>3, <1>4, <1>5 DEF txs, position

LEMMA ReadMerkleKeeps == ASSUME SpvInv, ReadMerkle PROVE SpvInv'
<1> DEFINE tx == proof.of.tx
<1> DEFINE Answer(served, forged) ==
        proof' = [proof EXCEPT !.branch = CreateMerkleProof(served.merkle),
                               !.position = served.position, !.pc = "coinbase",
                               !.disturbed = @ \/ forged]
<1>1. proof.pc = "merkle" /\ mined' = mined /\ chain' = chain /\ reorgs' = reorgs
  BY DEF ReadMerkle
<1>2. DOMAIN proof = DOMAIN NoProof /\ proof.disturbed \in BOOLEAN
  BY CallTypes
<1>3. proof.height \in 1..Len(chain) /\ (~proof.disturbed => proof.height \in HeightsIn(chain, tx))
  BY <1>1 DEF SpvInv, CallInv, QuietInv, HeightRead, HeadersRead
<1>4. HeightOf(tx) = HeightsIn(chain, tx)
  BY HeightOfIs
<1>5. \/ \E h \in BranchAnswers(tx, proof.height) :
            IF h = 0 THEN Refuse ELSE Answer(TrueBranch(h, tx), FALSE)
      \/ \E served \in ForgedBranches : Answer(served, TRUE)
  BY DEF ReadMerkle
<1>6. ASSUME NEW h \in BranchAnswers(tx, proof.height),
             IF h = 0 THEN Refuse ELSE Answer(TrueBranch(h, tx), FALSE)
      PROVE  SpvInv'
  <2>1. h \in {0} \union HeightsIn(chain, tx) /\ (~proof.disturbed => h = proof.height)
    BY <1>3, <1>4 DEF BranchAnswers
  <2>2. CASE h = 0
    <3>1. Refuse /\ proof.disturbed
      BY <1>3, <1>6, <2>1, <2>2
    <3> QED BY <1>1, <3>1, RefuseKeeps
  <2>3. CASE h # 0
    <3> DEFINE served == TrueBranch(h, tx)
    <3> DEFINE nodes == CreateMerkleProof(served.merkle)
    <3>1. nodes \in Seq(Bytes) /\ served.position \in 0..(Len(chain[h].txs) - 1)
          /\ served.position \in Nat /\ chain[h].txs[served.position + 1] = tx
          /\ nodes = ProofNodes(chain[h].txs, served.position)
      BY <2>1, <2>3, TrueBranchFacts
    <3>2. Answer(served, FALSE)
      BY <1>6, <2>3
    <3> HIDE DEF served
    <3>3. proof' = [proof EXCEPT !.branch = nodes, !.position = served.position,
                                 !.pc = "coinbase", !.disturbed = proof.disturbed]
      BY <1>2, <3>2 DEF NoProof
    <3> HIDE DEF nodes
    <3> QED BY <1>1, <1>2, <2>1, <3>1, <3>3, BranchKeeps
  <2> QED BY <2>2, <2>3
<1>7. ASSUME NEW served \in ForgedBranches, Answer(served, TRUE) PROVE SpvInv'
  <2> DEFINE nodes == CreateMerkleProof(served.merkle)
  <2>1. nodes \in Seq(Bytes) /\ served.position \in Nat
    BY ForgedFacts
  <2>2. proof' = [proof EXCEPT !.branch = nodes, !.position = served.position,
                               !.pc = "coinbase", !.disturbed = TRUE]
    BY <1>2, <1>7 DEF NoProof
  <2> HIDE DEF nodes
  <2> QED BY <1>1, <2>1, <2>2, BranchKeeps
<1> QED BY <1>5, <1>6, <1>7

LEMMA ReadCoinbaseKeeps == ASSUME SpvInv, ReadCoinbase PROVE SpvInv'
<1> DEFINE H == proof.height
<1> DEFINE tx == chain[H].txs[1]
<1>1. proof.pc = "coinbase" /\ mined' = mined /\ chain' = chain /\ reorgs' = reorgs
      /\ proof' = [proof EXCEPT !.coinbase = tx, !.pc = "coinbase raw"]
  <2>1. proof.pc = "coinbase"
    BY DEF ReadCoinbase
  <2>2. H \in DOMAIN chain
    <3>1. H \in 1..Len(chain)
      BY <2>1 DEF SpvInv, CallInv, HeightRead, HeadersRead, MerkleRead
    <3> QED BY <3>1, CallTypes
  <2> QED BY <2>2 DEF ReadCoinbase, Undisturbed
<1>2. DOMAIN proof = DOMAIN NoProof /\ proof.disturbed \in BOOLEAN /\ proof.of \in ProofRequests
  BY <1>1, CallTypes
<1> HIDE DEF tx, H
<1>3. DOMAIN proof' = DOMAIN NoProof /\ proof'.of = proof.of /\ proof'.pc = "coinbase raw"
      /\ proof'.height = proof.height /\ proof'.headers = proof.headers
      /\ proof'.disturbed = proof.disturbed
      /\ proof'.branch = proof.branch /\ proof'.position = proof.position
      /\ proof'.coinbase = tx
  BY <1>1, <1>2 DEF NoProof
<1>4. CallInv(mined, chain, proof) /\ QuietInv(chain, proof)
  BY DEF SpvInv
<1>5. CallInv(mined, chain, proof')
  BY <1>1, <1>2, <1>3, <1>4
     DEF CallInv, HeightRead, HeadersRead, MerkleRead, CoinbaseNamed, CoinbaseRead, Assembled
<1>6. QuietInv(chain, proof')
  BY <1>1, <1>3, <1>4
     DEF QuietInv, HeightRead, HeadersRead, MerkleRead, CoinbaseNamed, CoinbaseRead, Assembled, tx, H
<1> QED BY <1>1, <1>5, <1>6, CallSuffices

\* Undisturbed, the coinbase transaction that was named is in its block, and first there.
LEMMA CoinbaseInBlock ==
    ASSUME SpvInv, proof.pc \in CoinbaseNamed, ~proof.disturbed
    PROVE  /\ proof.height \in HeightsIn(chain, proof.coinbase)
           /\ PositionIn(chain[proof.height].txs, proof.coinbase) = 0
<1> DEFINE H == proof.height
<1>1. H \in 1..Len(chain) /\ proof.coinbase = chain[H].txs[1]
  BY DEF SpvInv, CallInv, QuietInv, HeightRead, HeadersRead, MerkleRead, CoinbaseNamed,
         CoinbaseRead, Assembled
<1>2. IsBlock(chain[H]) /\ DOMAIN chain = 1..Len(chain)
  BY <1>1, CallTypes
<1>3. Contains(chain[H].txs, chain[H].txs[1]) /\ PositionIn(chain[H].txs, chain[H].txs[1]) = 0
  BY <1>2, CoinbaseFirst
<1> QED BY <1>1, <1>2, <1>3 DEF HeightsIn

LEMMA ReadCoinbaseTransactionKeeps == ASSUME SpvInv, ReadCoinbaseTransaction PROVE SpvInv'
<1> DEFINE Answer(tx, forged) ==
        proof' = [proof EXCEPT !.preimage = CoinbasePreimage(tx), !.pc = "coinbase merkle",
                               !.disturbed = @ \/ forged]
<1>1. proof.pc = "coinbase raw" /\ mined' = mined /\ chain' = chain /\ reorgs' = reorgs
  BY DEF ReadCoinbaseTransaction
<1>2. DOMAIN proof = DOMAIN NoProof /\ proof.disturbed \in BOOLEAN /\ proof.of \in ProofRequests
  BY <1>1, CallTypes
<1>3. CallInv(mined, chain, proof) /\ QuietInv(chain, proof)
  BY DEF SpvInv
<1>4. \/ Answer(proof.coinbase, FALSE)
      \/ HeightOf(proof.coinbase) = {} /\ Refuse
      \/ \E tx : Answer(tx, TRUE)
  BY DEF ReadCoinbaseTransaction
<1>5. ASSUME NEW tx, NEW d \in BOOLEAN, proof.disturbed => d,
             d \/ tx = proof.coinbase,
             proof' = [proof EXCEPT !.preimage = CoinbasePreimage(tx), !.pc = "coinbase merkle",
                                    !.disturbed = d]
      PROVE  SpvInv'
  <2>1. DOMAIN proof' = DOMAIN NoProof /\ proof'.of = proof.of /\ proof'.pc = "coinbase merkle"
        /\ proof'.height = proof.height /\ proof'.headers = proof.headers
        /\ proof'.disturbed = d
        /\ proof'.branch = proof.branch /\ proof'.position = proof.position
        /\ proof'.coinbase = proof.coinbase /\ proof'.preimage = CoinbasePreimage(tx)
    BY <1>2, <1>5 DEF NoProof
  <2>2. CallInv(mined, chain, proof')
    BY <1>1, <1>2, <1>3, <2>1
       DEF CallInv, HeightRead, HeadersRead, MerkleRead, CoinbaseNamed, CoinbaseRead, Assembled
  <2>3. QuietInv(chain, proof')
    <3>1. CASE d
      BY <2>1, <3>1 DEF QuietInv
    <3>2. CASE ~d
      BY <1>1, <1>3, <1>5, <2>1, <3>2
         DEF QuietInv, HeightRead, HeadersRead, MerkleRead, CoinbaseNamed, CoinbaseRead, Assembled
    <3> QED BY <3>1, <3>2
  <2> QED BY <1>1, <2>2, <2>3, CallSuffices
<1>6. CASE Answer(proof.coinbase, FALSE)
  <2>1. proof' = [proof EXCEPT !.preimage = CoinbasePreimage(proof.coinbase),
                               !.pc = "coinbase merkle", !.disturbed = proof.disturbed]
    BY <1>2, <1>6 DEF NoProof
  <2> QED BY <1>2, <1>5, <2>1
<1>7. CASE HeightOf(proof.coinbase) = {} /\ Refuse
  <2>1. ~proof.disturbed => proof.height \in HeightsIn(chain, proof.coinbase)
    BY <1>1, CoinbaseInBlock DEF CoinbaseNamed
  <2>2. proof.disturbed
    BY <1>2, <1>7, <2>1, HeightOfIs
  <2> QED BY <1>1, <1>7, <2>2, RefuseKeeps
<1>8. ASSUME NEW tx, Answer(tx, TRUE) PROVE SpvInv'
  <2>1. proof' = [proof EXCEPT !.preimage = CoinbasePreimage(tx), !.pc = "coinbase merkle",
                               !.disturbed = TRUE]
    BY <1>2, <1>8 DEF NoProof
  <2> QED BY <1>5, <2>1
<1> QED BY <1>4, <1>6, <1>7, <1>8

LEMMA ReadCoinbaseMerkleKeeps == ASSUME SpvInv, ReadCoinbaseMerkle PROVE SpvInv'
<1> DEFINE tx == proof.coinbase
<1> DEFINE H == proof.height
<1> DEFINE Answer(served, forged) ==
        proof' = [proof EXCEPT !.coinbaseBranch = CreateMerkleProof(served.merkle),
                               !.pc = "assembled", !.disturbed = @ \/ forged]
<1>1. proof.pc = "coinbase merkle" /\ mined' = mined /\ chain' = chain /\ reorgs' = reorgs
  BY DEF ReadCoinbaseMerkle
<1>2. DOMAIN proof = DOMAIN NoProof /\ proof.disturbed \in BOOLEAN /\ proof.of \in ProofRequests
  BY <1>1, CallTypes
<1>3. CallInv(mined, chain, proof) /\ QuietInv(chain, proof)
  BY DEF SpvInv
<1>4. \/ \E h \in BranchAnswers(tx, H) :
            IF h = 0 THEN Refuse ELSE Answer(TrueBranch(h, tx), FALSE)
      \/ \E served \in ForgedBranches : Answer(served, TRUE)
  BY DEF ReadCoinbaseMerkle
<1>5. ASSUME NEW nodes, NEW d \in BOOLEAN, proof.disturbed => d,
             ~d => nodes = ProofNodes(chain[H].txs, 0),
             proof' = [proof EXCEPT !.coinbaseBranch = nodes, !.pc = "assembled",
                                    !.disturbed = d]
      PROVE  SpvInv'
  <2> HIDE DEF H, tx
  <2>1. DOMAIN proof' = DOMAIN NoProof /\ proof'.of = proof.of /\ proof'.pc = "assembled"
        /\ proof'.height = proof.height /\ proof'.headers = proof.headers
        /\ proof'.disturbed = d
        /\ proof'.branch = proof.branch /\ proof'.position = proof.position
        /\ proof'.coinbase = proof.coinbase /\ proof'.preimage = proof.preimage
        /\ proof'.coinbaseBranch = nodes
    BY <1>2, <1>5 DEF NoProof
  <2>2. CallInv(mined, chain, proof')
    BY <1>1, <1>2, <1>3, <2>1
       DEF CallInv, HeightRead, HeadersRead, MerkleRead, CoinbaseNamed, CoinbaseRead, Assembled
  <2>3. QuietInv(chain, proof')
    <3>1. CASE d
      BY <2>1, <3>1 DEF QuietInv
    <3>2. CASE ~d
      BY <1>1, <1>3, <1>5, <2>1, <3>2
         DEF QuietInv, HeightRead, HeadersRead, MerkleRead, CoinbaseNamed, CoinbaseRead, Assembled, H
    <3> QED BY <3>1, <3>2
  <2> QED BY <1>1, <2>2, <2>3, CallSuffices
<1>6. ASSUME NEW h \in BranchAnswers(tx, H),
             IF h = 0 THEN Refuse ELSE Answer(TrueBranch(h, tx), FALSE)
      PROVE  SpvInv'
  <2>1. HeightOf(tx) = HeightsIn(chain, tx)
        /\ (~proof.disturbed => H \in HeightsIn(chain, tx) /\ PositionIn(chain[H].txs, tx) = 0)
    BY <1>1, CoinbaseInBlock, HeightOfIs DEF CoinbaseNamed, CoinbaseRead
  <2>2. h \in {0} \union HeightsIn(chain, tx) /\ (~proof.disturbed => h = H)
    BY <2>1 DEF BranchAnswers
  <2>3. CASE h = 0
    <3>1. H \in 1..Len(chain)
      BY <1>1, <1>3 DEF CallInv, HeightRead, HeadersRead, MerkleRead, CoinbaseNamed, CoinbaseRead
    <3>2. Refuse /\ proof.disturbed
      BY <1>6, <2>2, <2>3, <3>1
    <3> QED BY <1>1, <3>2, RefuseKeeps
  <2>4. CASE h # 0
    <3> DEFINE served == TrueBranch(h, tx)
    <3> DEFINE nodes == CreateMerkleProof(served.merkle)
    <3>1. served.position = PositionIn(chain[h].txs, tx)
          /\ nodes = ProofNodes(chain[h].txs, served.position)
      BY <2>2, <2>4, TrueBranchFacts
    <3>2. Answer(served, FALSE)
      BY <1>6, <2>4
    <3>3. ~proof.disturbed => nodes = ProofNodes(chain[H].txs, 0)
      BY <2>1, <2>2, <3>1
    <3> HIDE DEF served
    <3>4. proof' = [proof EXCEPT !.coinbaseBranch = nodes, !.pc = "assembled",
                                 !.disturbed = proof.disturbed]
      BY <1>2, <3>2 DEF NoProof
    <3> HIDE DEF nodes
    <3> QED BY <1>2, <1>5, <3>3, <3>4
  <2> QED BY <2>3, <2>4
<1>7. ASSUME NEW served \in ForgedBranches, Answer(served, TRUE) PROVE SpvInv'
  <2> DEFINE nodes == CreateMerkleProof(served.merkle)
  <2>1. proof' = [proof EXCEPT !.coinbaseBranch = nodes, !.pc = "assembled",
                               !.disturbed = TRUE]
    BY <1>2, <1>7 DEF NoProof
  <2> HIDE DEF nodes
  <2> QED BY <1>5, <2>1
<1> QED BY <1>4, <1>6, <1>7

(***************************************************************************)
(* The verdict.                                                            *)
(***************************************************************************)
\* Blocks of the chain, from any height on, make headers that pass all but the difficulties.
LEMMA ChainHeadersValid ==
    ASSUME SpvInv, NEW H \in 1..Len(chain), NEW n \in Nat \ {0}, H + n - 1 <= Len(chain),
           NEW i \in 1..n
    PROVE  /\ FollowsPredecessor(AskedIn(chain, H, n), i)
           /\ EnoughWork(AskedIn(chain, H, n)[i])
<1> DEFINE headers == AskedIn(chain, H, n)
<1> DEFINE k == H + i - 1
<1>1. Len(chain) \in Nat /\ \A h \in 1..Len(chain) : chain[h] \in mined /\ IsBlock(chain[h])
  BY CallTypes
<1>2. headers = [j \in 1..n |-> HeaderOf(chain[H + j - 1])]
  BY DEF AskedIn
<1>3. k \in 1..Len(chain) /\ k \in Nat
  BY <1>1
<1>4. headers[i] = HeaderOf(chain[k])
  BY <1>2
<1> HIDE DEF headers, k
<1>5. headers[i].previousBlockHeaderHash = chain[k].previous /\ headers[i].bits = chain[k].bits
      /\ headers[i].nonce = chain[k].nonce
  BY <1>4 DEF HeaderOf
<1>6. FollowsPredecessor(headers, i)
  <2>1. CASE i = 1
    BY <2>1 DEF FollowsPredecessor
  <2>2. CASE i # 1
    <3>1. i - 1 \in 1..n /\ H + (i - 1) - 1 = k - 1 /\ k \in 2..Len(chain)
      BY <1>1, <1>3, <2>2 DEF k
    <3>2. headers[i - 1] = HeaderOf(chain[k - 1])
      BY <1>2, <3>1
    <3>3. HeaderHash(headers[i - 1]) = chain[k - 1].nonce
      BY <3>2 DEF HeaderHash, HeaderOf
    <3>4. chain[k].previous = chain[k - 1].nonce
      BY <3>1 DEF SpvInv, ChainInv
    <3> QED BY <1>5, <3>3, <3>4 DEF FollowsPredecessor
  <2> QED BY <2>1, <2>2
<1>7. EnoughWork(headers[i])
  <2> DEFINE nonce == chain[k].nonce
  <2>1. nonce \in Nat \ {0} /\ nonce <= Cardinality(mined)
    BY <1>1, <1>3 DEF SpvInv, MinedInv, IsBlock
  <2>2. Cardinality(mined) = Len(chain) + reorgs /\ reorgs \in 0..MaxReorgs /\ Len(chain) <= MaxBlocks
    BY DEF SpvInv, MinedInv, ChainInv
  <2>3. nonce \in 1..(MaxBlocks + MaxReorgs) /\ k \in 1..MaxBlocks
    BY <1>1, <1>3, <2>1, <2>2, BoundAssumption
  <2>4. chain[k].bits = BitsAt(k)
    BY <1>3 DEF SpvInv, ChainInv
  <2>5. nonce <= BitsToTarget(chain[k].bits)
    BY <2>3, <2>4, TargetAssumption
  <2> QED BY <1>5, <2>1, <2>5 DEF EnoughWork, HeaderHash
<1> QED BY <1>6, <1>7 DEF headers

\* The difficulties are those the caller knows, unless the chain misses the request.
LEMMA DifficultiesFit ==
    ASSUME SpvInv, proof.pc = "assembled", ~proof.disturbed, ~Misses(chain, proof.of),
           NEW i \in 1..proof.of.required
    PROVE  DifficultyFits(AskedIn(chain, proof.height, proof.of.required), i,
                          proof.of.previous, proof.of.current)
<1> DEFINE H == proof.height
<1> DEFINE n == proof.of.required
<1> DEFINE headers == AskedIn(chain, H, n)
<1> DEFINE k == H + i - 1
<1> DEFINE difficulty(j) == TargetToDifficulty(BitsToTarget(chain[j].bits))
<1>1. n \in Int /\ Len(chain) \in Nat
  BY CallTypes
<1>2. H \in 1..Len(chain) /\ H \in HeightsIn(chain, proof.of.tx)
  BY DEF SpvInv, CallInv, QuietInv, HeightRead, HeadersRead, MerkleRead, CoinbaseNamed, CoinbaseRead, Assembled
<1>3. headers = [j \in 1..n |-> HeaderOf(chain[H + j - 1])]
  BY DEF AskedIn
<1>4. k \in H..(H + n - 1) /\ (i > 1 <=> k > H) /\ (i > 1 => i - 1 \in 1..n /\ H + (i - 1) - 1 = k - 1)
  BY <1>1, <1>2
<1>5. \A b : HeaderOf(b).bits = b.bits
  BY DEF HeaderOf
<1>9. CASE proof.of.previous = 1 /\ proof.of.current = 1
  BY <1>9 DEF DifficultyFits
<1> SUFFICES ASSUME ~(proof.of.previous = 1 /\ proof.of.current = 1)
             PROVE  DifficultyFits(headers, i, proof.of.previous, proof.of.current)
  BY <1>9
<1>6. ~ (\/ difficulty(k) \notin {proof.of.previous, proof.of.current}
         \/ k > H /\ difficulty(k - 1) = proof.of.current /\ difficulty(k) # proof.of.current)
  <2> HIDE DEF k
  <2> QED BY <1>2, <1>4 DEF Misses
<1>7. TargetToDifficulty(BitsToTarget(headers[i].bits)) = difficulty(k)
  BY <1>3, <1>5
<1>8. i > 1 => TargetToDifficulty(BitsToTarget(headers[i - 1].bits)) = difficulty(k - 1)
  BY <1>3, <1>4, <1>5
<1> HIDE DEF headers, k, difficulty
<1> QED BY <1>4, <1>6, <1>7, <1>8 DEF DifficultyFits, headers

LEMMA QuietValid ==
    ASSUME SpvInv, proof.pc = "assembled", ~proof.disturbed, ~Misses(chain, proof.of)
    PROVE  ValidFor(proof)
<1> DEFINE H == proof.height
<1> DEFINE n == proof.of.required
<1> DEFINE headers == AskedIn(chain, H, n)
<1> DEFINE txs == chain[H].txs
<1> DEFINE root == MerkleRoot(txs)
<1>1. n \in Nat \ {0} /\ H \in 1..Len(chain) /\ H + n - 1 <= Len(chain)
  <2>1. n \in Int
    BY CallTypes
  <2>2. n >= 1 /\ H \in 1..Len(chain) /\ H + n - 1 <= Len(chain)
    BY DEF SpvInv, CallInv, HeightRead, HeadersRead, MerkleRead, CoinbaseNamed, CoinbaseRead, Assembled
  <2> QED BY <2>1, <2>2
<1>2. Len(chain) \in Nat /\ \A h \in 1..Len(chain) : IsBlock(chain[h])
  BY CallTypes
<1>3. /\ proof.headers = SerializeHeaders(headers)
      /\ proof.position \in 0..(Len(txs) - 1) /\ txs[proof.position + 1] = proof.of.tx
      /\ proof.branch = ProofNodes(txs, proof.position)
      /\ proof.coinbase = txs[1] /\ proof.preimage = CoinbasePreimage(proof.coinbase)
      /\ proof.coinbaseBranch = ProofNodes(txs, 0)
  BY DEF SpvInv, QuietInv, HeightRead, HeadersRead, MerkleRead, CoinbaseNamed, CoinbaseRead, Assembled
<1>4. txs \in Seq(Nat) /\ txs # <<>> /\ 0 \in 0..(Len(txs) - 1)
  BY <1>1, <1>2 DEF IsBlock
<1>5. headers = [j \in 1..n |-> HeaderOf(chain[H + j - 1])]
  BY DEF AskedIn
<1>6. IsHeaders(headers) /\ Len(headers) = n
  <2> HIDE DEF headers, n
  <2>1. \A b : IsHeader(HeaderOf(b))
    BY DEF IsHeader, HeaderOf
  <2>2. headers \in [1..n -> {headers[j] : j \in 1..n}] /\ n \in Nat
    BY <1>1, <1>5
  <2>3. headers \in Seq({headers[j] : j \in 1..n}) /\ Len(headers) = n
    BY ONLY <2>2
  <2> QED BY <1>5, <2>1, <2>3 DEF IsHeaders
<1>7. headers[1].merkleRootHash = root
  <2>1. 1 \in 1..n /\ H + 1 - 1 = H
    BY <1>1
  <2>2. headers[1] = HeaderOf(chain[H])
    BY <1>5, <2>1
  <2> QED BY <2>2 DEF HeaderOf
<1>8. \A i \in 1..n : /\ FollowsPredecessor(headers, i) /\ EnoughWork(headers[i])
                      /\ DifficultyFits(headers, i, proof.of.previous, proof.of.current)
  BY <1>1, ChainHeadersValid, DifficultiesFit
<1>9. ValidateMerkleTree(ShownHash(txs[proof.position + 1]), root, proof.branch, proof.position)
  <2> HIDE DEF txs
  <2> QED BY <1>3, <1>4, BranchAccepted
<1>10. ValidateMerkleTree(ShownHash(txs[1]), root, proof.coinbaseBranch, 0)
  <2> HIDE DEF txs
  <2>1. ValidateMerkleTree(ShownHash(txs[0 + 1]), root, ProofNodes(txs, 0), 0)
    BY <1>4, BranchAccepted
  <2> QED BY <1>3, <2>1
<1>11. Reverse(ComputeSha256(proof.preimage)) = ShownHash(txs[1])
  BY <1>3 DEF CoinbasePreimage, ShownHash, InternalHash, ComputeHash256
<1>12. Len(proof.branch) = Len(proof.coinbaseBranch)
  <2> HIDE DEF txs
  <2>1. Len(ProofNodes(txs, proof.position)) = TreeDepth(txs) /\ Len(ProofNodes(txs, 0)) = TreeDepth(txs)
    BY <1>3, <1>4, BranchFacts
  <2> QED BY <1>3, <2>1
<1> HIDE DEF headers, txs, root, H
<1>13. DeserializeHeadersChain(proof.headers) = headers /\ Len(proof.headers) % HeaderLength = 0
  BY <1>3, <1>6, HeadersRoundTrip
<1>14. DOMAIN headers = 1..n
  BY <1>5
<1>15. ValidateBitcoinHeadersChain(headers, proof.of.previous, proof.of.current)
  BY <1>8, <1>14 DEF ValidateBitcoinHeadersChain
<1> QED BY <1>3, <1>6, <1>7, <1>9, <1>10, <1>11, <1>12, <1>13, <1>15 DEF ValidFor

LEMMA ValidateKeeps == ASSUME SpvInv, ValidateProof PROVE SpvInv'
<1>1. proof.pc = "assembled" /\ mined' = mined /\ chain' = chain /\ reorgs' = reorgs
  BY DEF ValidateProof, Undisturbed
<1>2. ProofValid <=> ValidFor(proof)
  BY DEF ProofValid, ValidFor
<1>3. CASE ValidFor(proof)
  <2>1. proof' = [proof EXCEPT !.pc = "accepted"]
    BY <1>2, <1>3 DEF ValidateProof
  <2>2. DOMAIN proof = DOMAIN NoProof /\ proof.disturbed \in BOOLEAN
    BY CallTypes
  <2>3. DOMAIN proof' = DOMAIN NoProof /\ proof'.of = proof.of /\ proof'.pc = "accepted"
        /\ proof'.headers = proof.headers /\ proof'.disturbed = proof.disturbed
        /\ proof'.branch = proof.branch /\ proof'.position = proof.position
        /\ proof'.preimage = proof.preimage /\ proof'.coinbaseBranch = proof.coinbaseBranch
    BY <2>1, <2>2 DEF NoProof
  <2>4. ValidFor(proof')
    BY <1>3, <2>3 DEF ValidFor
  <2>5. CallInv(mined, chain, proof)
    BY DEF SpvInv
  <2>6. CallInv(mined, chain, proof')
    BY <1>1, <2>2, <2>3, <2>4, <2>5
       DEF CallInv, HeightRead, HeadersRead, MerkleRead, CoinbaseNamed, CoinbaseRead, Assembled
  <2>7. QuietInv(chain, proof')
    BY <2>3 DEF QuietInv, HeightRead, HeadersRead, MerkleRead, CoinbaseNamed, CoinbaseRead, Assembled
  <2> QED BY <1>1, <2>6, <2>7, CallSuffices
<1>4. CASE ~ValidFor(proof)
  <2>1. Refuse
    BY <1>2, <1>4 DEF ValidateProof
  <2>2. ~proof.disturbed => Misses(chain, proof.of)
    BY <1>1, <1>4, QuietValid
  <2> QED BY <1>1, <2>1, <2>2, RefuseKeeps
<1> QED BY <1>3, <1>4

LEMMA SpvStarts == SpvInit => SpvInv
<1> SUFFICES ASSUME SpvInit PROVE SpvInv
  OBVIOUS
<1>1. chain = <<>> /\ mined = {} /\ reorgs = 0 /\ proof = NoProof
  BY DEF SpvInit
<1>2. IsFiniteSet(mined) /\ Cardinality(mined) = 0
  BY <1>1, FS_EmptySet
<1>3. MinedInv(mined, chain, reorgs)
  BY <1>1, <1>2, BoundAssumption DEF MinedInv
<1>4. ChainInv(mined, chain)
  BY <1>1, BoundAssumption DEF ChainInv
<1>5. CallInv(mined, chain, proof) /\ QuietInv(chain, proof)
  BY <1>1 DEF CallInv, QuietInv, NoProof, HeightRead, HeadersRead, MerkleRead, CoinbaseNamed, CoinbaseRead, Assembled
<1> QED BY <1>3, <1>4, <1>5 DEF SpvInv

LEMMA SpvSteps == SpvInv /\ [SpvNext]_spvVars => SpvInv'
<1> SUFFICES ASSUME SpvInv, [SpvNext]_spvVars PROVE SpvInv'
  OBVIOUS
<1>1. ASSUME NEW request \in ProofRequests, StartProof(request) PROVE SpvInv'
  BY <1>1, StartKeeps
<1>2. CASE ReadConfirmations
  BY <1>2, ReadConfirmationsKeeps
<1>3. CASE ReadHeight
  BY <1>3, ReadHeightKeeps
<1>4. CASE ReadHeaders
  BY <1>4, ReadHeadersKeeps
<1>5. CASE ReadMerkle
  BY <1>5, ReadMerkleKeeps
<1>6. CASE ReadCoinbase
  BY <1>6, ReadCoinbaseKeeps
<1>7. CASE ReadCoinbaseMerkle
  BY <1>7, ReadCoinbaseMerkleKeeps
<1>12. CASE ReadCoinbaseTransaction
  BY <1>12, ReadCoinbaseTransactionKeeps
<1>8. CASE ValidateProof
  BY <1>8, ValidateKeeps
<1>9. ASSUME NEW txs \in BlockContent, NextBlock(txs) PROVE SpvInv'
  BY <1>9, NextBlockKeeps
<1>10. ASSUME NEW txs \in BlockContent, Reorganised(txs) PROVE SpvInv'
  BY <1>10, ReorganisedKeeps
<1>11. CASE UNCHANGED spvVars
  BY <1>11 DEF spvVars, SpvInv
<1> QED BY <1>1, <1>2, <1>3, <1>4, <1>5, <1>6, <1>7, <1>8, <1>9, <1>10, <1>11, <1>12 DEF SpvNext

LEMMA AcceptedTrue == SpvInv => ValidatedProofTrue
<1> SUFFICES ASSUME SpvInv, proof.pc = "accepted" PROVE ValidatedProofTrue
  BY DEF ValidatedProofTrue
<1> DEFINE headers == DeserializeHeadersChain(proof.headers)
<1> DEFINE BlockAt(i) == CHOOSE b \in mined : b.nonce = headers[i].nonce
<1> DEFINE root == headers[1].merkleRootHash
<1>1. ValidFor(proof) /\ ServedHeaders(mined, proof.headers) /\ proof.branch \in Seq(Bytes)
      /\ proof.position \in Nat /\ proof.of.required >= 1
  BY DEF SpvInv, CallInv
<1>2. proof.of.tx \in Nat /\ proof.of.required \in Int
  BY CallTypes
<1>3. Len(headers) = proof.of.required
      /\ ValidateMerkleTree(ShownHash(proof.of.tx), root, proof.branch, proof.position)
      /\ ValidateBitcoinHeadersChain(headers, proof.of.previous, proof.of.current)
  BY <1>1 DEF ValidFor
<1>4. PICK list : /\ IsHeaders(list) /\ proof.headers = SerializeHeaders(list)
                  /\ \A i \in 1..Len(list) : \/ list[i].nonce = 0
                                             \/ \E b \in mined : list[i] = HeaderOf(b)
  BY <1>1 DEF ServedHeaders
<1>5. headers = list
  BY <1>4, HeadersRoundTrip
<1>6. \A i \in 1..Len(headers) : headers[i].nonce = 0 \/ \E b \in mined : headers[i] = HeaderOf(b)
  BY <1>4, <1>5
<1>7. DOMAIN headers = 1..Len(headers)
  BY <1>4, <1>5 DEF IsHeaders
<1> HIDE DEF headers
<1>8. ASSUME NEW i \in 1..Len(headers)
      PROVE  headers[i].nonce # 0 /\ FollowsPredecessor(headers, i)
  BY <1>3, <1>7 DEF ValidateBitcoinHeadersChain, EnoughWork
<1>9. ASSUME NEW i \in 1..Len(headers)
      PROVE  BlockAt(i) \in mined /\ headers[i] = HeaderOf(BlockAt(i))
  <2>1. PICK b \in mined : headers[i] = HeaderOf(b)
    BY <1>6, <1>8
  <2>2. b.nonce = headers[i].nonce
    BY <2>1 DEF HeaderOf
  <2>3. BlockAt(i) \in mined /\ BlockAt(i).nonce = headers[i].nonce
    BY <2>2
  <2>4. BlockAt(i) = b
    BY <2>2, <2>3 DEF SpvInv, MinedInv
  <2> QED BY <2>1, <2>4
<1> HIDE DEF BlockAt
<1>10. 1 \in 1..Len(headers)
  BY <1>1, <1>2, <1>3
<1>11. Contains(BlockAt(1).txs, proof.of.tx)
  <2> DEFINE txs == BlockAt(1).txs
  <2> DEFINE tx == proof.of.tx
  <2>1. BlockAt(1) \in mined /\ headers[1] = HeaderOf(BlockAt(1))
    BY <1>9, <1>10
  <2>2. root = MerkleRoot(txs)
    BY <2>1 DEF HeaderOf
  <2>3. txs \in Seq(Nat) /\ txs # <<>>
    BY <2>1 DEF SpvInv, MinedInv, IsBlock
  <2> HIDE DEF txs, tx, root
  <2>4. root \in Bytes /\ \A x : Contains(root, x) => x = HashMark \/ Contains(txs, x)
    BY <2>2, <2>3, RootFacts
  <2>5. tx \in Nat /\ InternalHash(tx) \in Bytes /\ Reverse(ShownHash(tx)) = InternalHash(tx)
        /\ Contains(InternalHash(tx), tx)
    BY <1>2, InternalHashFacts DEF tx
  <2>6. ShownHash(tx) \in Bytes
    BY <2>5, ReverseFacts DEF ShownHash
  <2>7. Contains(Reverse(ShownHash(tx)), tx)
    BY <2>5
  <2>8. Contains(root, tx)
    BY <1>1, <1>3, <2>4, <2>6, <2>7, AcceptedHeld DEF tx
  <2>9. tx # HashMark
    BY <2>5 DEF HashMark
  <2>10. Contains(txs, tx)
    BY <2>4, <2>8, <2>9
  <2> QED BY <2>10 DEF txs, tx
<1>12. ASSUME NEW i \in 2..Len(headers) PROVE BlockAt(i).previous = BlockAt(i - 1).nonce
  <2>1. i \in 1..Len(headers) /\ i - 1 \in 1..Len(headers) /\ i # 1
    BY <1>2, <1>3
  <2>2. headers[i].previousBlockHeaderHash = HeaderHash(headers[i - 1])
    BY <1>8, <2>1 DEF FollowsPredecessor
  <2>3. \A b : HeaderOf(b).previousBlockHeaderHash = b.previous /\ HeaderOf(b).nonce = b.nonce
    BY DEF HeaderOf
  <2>4. headers[i].previousBlockHeaderHash = BlockAt(i).previous
    BY <1>9, <2>1, <2>3
  <2>5. headers[i - 1].nonce = BlockAt(i - 1).nonce
    BY <1>9, <2>1, <2>3
  <2> QED BY <2>2, <2>4, <2>5 DEF HeaderHash
<1>13. \A i \in DOMAIN headers : \E b \in mined : HeaderOf(b) = headers[i]
  BY <1>7, <1>9
<1> QED BY <1>3, <1>11, <1>12, <1>13 DEF ValidatedProofTrue, headers, BlockAt

LEMMA RefusedForReason == SpvInv => QuietProofAccepted
<1> SUFFICES ASSUME SpvInv, proof.pc = "failed", ~proof.disturbed PROVE QuietProofAccepted
  BY DEF QuietProofAccepted
<1>1. Misses(chain, proof.of)
  BY DEF SpvInv, QuietInv
<1>2. HeightOf(proof.of.tx) = HeightsIn(chain, proof.of.tx)
      /\ TxConfirmations(proof.of.tx) = ConfirmationsIn(chain, proof.of.tx)
  BY HeightOfIs
<1> QED BY <1>1, <1>2 DEF Misses, QuietProofAccepted

\* A proof that was validated is true: for all requests, blocks, faults of servers and
\* changes of the chain between answers (validateBitcoinSpvProof).
THEOREM ValidatedProofTheorem == SpvSpec => []ValidatedProofTrue
<1>1. SpvInv => ValidatedProofTrue
  BY AcceptedTrue
<1> QED BY <1>1, SpvStarts, SpvSteps, PTL DEF SpvSpec

\* A proof is refused for a reason: for all requests and blocks of any length
\* (assembleBitcoinSpvProof and the checks of validateBitcoinSpvProof).
THEOREM QuietProofTheorem == SpvSpec => []QuietProofAccepted
<1>1. SpvInv => QuietProofAccepted
  BY RefusedForReason
<1> QED BY <1>1, SpvStarts, SpvSteps, PTL DEF SpvSpec
-----------------------------------------------------------------------------
(***************************************************************************)
(* Answers of the Electrum client.  A call hears replies of servers that   *)
(* know more or fewer blocks, at different heights of the chain, directly  *)
(* and through calls of its own, and is told nothing that a longer chain   *)
(* makes untrue.                                                           *)
(***************************************************************************)
Items == [tx : BitcoinTransaction, height : Nat]

\* A block once found stays, and so does a transaction the network knows.
Grown(old, new) ==
    \A t \in BitcoinTransaction :
        /\ old[t] > 0 => new[t] = old[t]
        /\ old[t] >= 0 => new[t] >= 0

\* The faults of the call in progress.
Faults == electrumFaults - faultsBefore

WorldInv ==
    /\ height \in Nat
    /\ tip \in [Server -> Nat] /\ before.tip \in [Server -> Nat]
    /\ txHeight \in [BitcoinTransaction -> Int] /\ before.txHeight \in [BitcoinTransaction -> Int]
    /\ \A s \in Server : before.tip[s] <= tip[s] /\ tip[s] <= height
    /\ \A t \in BitcoinTransaction : -1 <= txHeight[t] /\ txHeight[t] <= height
    /\ \A t \in BitcoinTransaction : -1 <= before.txHeight[t]
    /\ Grown(before.txHeight, txHeight)
    /\ electrumFaults \in Nat /\ faultsBefore \in Nat /\ faultsBefore <= electrumFaults

\* What a history said of a transaction is so now if it was confirmed, and was so before the
\* call if every server knew it; without many faults all was said by the first server.
TrueItem(item) ==
    /\ item.height > 0 => txHeight[item.tx] = item.height
    /\ ConfirmedThen(item.tx) => item.height > 0
    /\ Faults <= RetryAttempts => item.height <= tip[1]
TrueItems(list) == list \in Seq(Items) /\ \A item \in ToSet(list) : TrueItem(item)
HasAllOf(list, script) ==
    \A t \in BitcoinTransaction :
        ConfirmedThen(t) /\ PaysTo(t, script) => \E item \in ToSet(list) : item.tx = t
History(list, script) == TrueItems(list) /\ HasAllOf(list, script)

InOrder(list) == \A i, j \in DOMAIN list : i < j => list[i].height <= list[j].height
ConfirmedItems(list) ==
    /\ TrueItems(list) /\ InOrder(list)
    /\ \A item \in ToSet(list) : item.height > 0

\* What every server knew in a block when the call was made, every server does.
LEMMA ConfirmedStays ==
    ASSUME WorldInv, NEW t \in BitcoinTransaction, ConfirmedThen(t), NEW s \in Server
    PROVE  ConfirmedAt(s, t) /\ txHeight[t] = before.txHeight[t] /\ txHeight[t] > 0
           /\ txHeight[t] <= before.tip[s]
<1>1. before.txHeight[t] \in 1..before.tip[s]
  BY DEF ConfirmedThen
<1>2. /\ before.txHeight[t] \in Int /\ txHeight[t] \in Int
      /\ before.tip[s] \in Nat /\ tip[s] \in Nat /\ before.tip[s] <= tip[s]
      /\ before.txHeight[t] > 0 => txHeight[t] = before.txHeight[t]
  BY DEF WorldInv, Grown
<1> QED  BY <1>1, <1>2 DEF ConfirmedAt

LEMMA ServedOrderLinear ==
    ASSUME WorldInv, NEW S \in SUBSET BitcoinTransaction, NEW server
    PROVE  LinearOn(ServedOrder(server), S)
<1> DEFINE Block(t) == IF ConfirmedAt(server, t) THEN txHeight[t] ELSE MaxHeight + 1
<1> DEFINE R == ServedOrder(server)
<1>1. \A t \in S : Block(t) \in Int /\ PlaceInBlock[t] \in Nat /\ t \in BitcoinTransaction
  BY ElectrumAssumption DEF WorldInv
<1>2. \A s, t \in S : PlaceInBlock[s] = PlaceInBlock[t] => s = t
  BY ElectrumAssumption
<1>3. \A s, t \in S : <<s, t>> \in R
          <=> (Block(s) < Block(t) \/ (Block(s) = Block(t) /\ PlaceInBlock[s] <= PlaceInBlock[t]))
  BY <1>1 DEF ServedOrder
<1> HIDE DEF Block, R
<1>4. \A s \in S : <<s, s>> \in R
  BY <1>1, <1>3
<1>5. \A s, t \in S : <<s, t>> \in R \/ <<t, s>> \in R
  <2> SUFFICES ASSUME NEW s \in S, NEW t \in S
               PROVE  <<s, t>> \in R \/ <<t, s>> \in R
    OBVIOUS
  <2>1. /\ Block(s) \in Int /\ Block(t) \in Int
        /\ PlaceInBlock[s] \in Nat /\ PlaceInBlock[t] \in Nat
    BY <1>1
  <2>2. \/ Block(s) < Block(t) \/ Block(t) < Block(s)
        \/ Block(s) = Block(t) /\ (PlaceInBlock[s] <= PlaceInBlock[t] \/ PlaceInBlock[t] <= PlaceInBlock[s])
    BY <2>1
  <2> QED  BY <1>3, <2>2
<1>6. \A s, t \in S : <<s, t>> \in R /\ <<t, s>> \in R => s = t
  BY <1>1, <1>2, <1>3
<1>7. \A s, t, u \in S : <<s, t>> \in R /\ <<t, u>> \in R => <<s, u>> \in R
  <2> SUFFICES ASSUME NEW s \in S, NEW t \in S, NEW u \in S, <<s, t>> \in R, <<t, u>> \in R
               PROVE  <<s, u>> \in R
    OBVIOUS
  <2>1. /\ Block(s) < Block(t) \/ (Block(s) = Block(t) /\ PlaceInBlock[s] <= PlaceInBlock[t])
        /\ Block(t) < Block(u) \/ (Block(t) = Block(u) /\ PlaceInBlock[t] <= PlaceInBlock[u])
    BY <1>3
  <2>2. Block(s) < Block(u) \/ (Block(s) = Block(u) /\ PlaceInBlock[s] <= PlaceInBlock[u])
    BY <1>1, <2>1
  <2> QED  BY <1>3, <2>2
<1>8. LinearOn(R, S)
  BY <1>4, <1>5, <1>6, <1>7 DEF LinearOn
<1> QED  BY <1>8 DEF R

\* A history a server gives is true, and nothing that all have confirmed is missing.
LEMMA ServedFacts ==
    ASSUME WorldInv, NEW script, NEW s \in Server, NEW mempool \in SUBSET MayKnow(s),
           s > 1 => Faults > RetryAttempts
    PROVE  History(ServedHistory(s, script, mempool), script)
<1> DEFINE S == {t \in KnownTo(s, mempool) : PaysTo(t, script)}
           list == Arranged(S, ServedOrder(s))
           served == ServedHistory(s, script, mempool)
           said(t) == [tx |-> t, height |-> IF ConfirmedAt(s, t) THEN txHeight[t] ELSE 0]
<1>1. S \in SUBSET BitcoinTransaction /\ IsFiniteSet(S)
  <2>1. S \in SUBSET BitcoinTransaction
    BY DEF KnownTo, MayKnow
  <2> QED  BY <2>1, ElectrumAssumption, FS_Subset
<1>2. LinearOn(ServedOrder(s), S)
  BY <1>1, ServedOrderLinear
<1>3. /\ list \in Seq(S)
      /\ \A t \in S : \E k \in DOMAIN list : list[k] = t
  <2> HIDE DEF S
  <2> QED  BY <1>1, <1>2, ArrangedFacts
<1>4. served = [i \in DOMAIN list |-> said(list[i])]
  BY DEF ServedHistory
<1>5. \A t \in S : said(t) \in Items /\ t \in BitcoinTransaction
  BY <1>1 DEF WorldInv, Items, ConfirmedAt
<1>6. ASSUME NEW t \in S PROVE TrueItem(said(t))
  <2>1. said(t).tx = t /\ said(t).height = IF ConfirmedAt(s, t) THEN txHeight[t] ELSE 0
    OBVIOUS
  <2>2. t \in BitcoinTransaction
    BY <1>1
  <2>3. ConfirmedAt(s, t) => txHeight[t] \in Nat /\ txHeight[t] > 0 /\ txHeight[t] <= tip[s]
    BY <2>2 DEF ConfirmedAt, WorldInv
  <2>4. Faults <= RetryAttempts => s = 1
    BY ElectrumAssumption DEF Server, WorldInv, Faults
  <2>5. tip[1] \in Nat
    BY ElectrumAssumption DEF WorldInv, Server
  <2> HIDE DEF said
  <2>6. said(t).height > 0 => txHeight[t] = said(t).height
    BY <2>1
  <2>7. ConfirmedThen(t) => said(t).height > 0
    BY <2>1, <2>2, <2>3, ConfirmedStays
  <2>8. Faults <= RetryAttempts => said(t).height <= tip[1]
    BY <2>1, <2>3, <2>4, <2>5
  <2> QED  BY <2>1, <2>6, <2>7, <2>8 DEF TrueItem
<1>7. \A t \in BitcoinTransaction : ConfirmedThen(t) /\ PaysTo(t, script) => t \in S
  BY ConfirmedStays DEF KnownTo
<1> HIDE DEF S, list, served, said
<1>8. \A i \in DOMAIN list : list[i] \in S
  BY <1>3
<1>9. DOMAIN list = 1..Len(list) /\ Len(list) \in Nat
  BY <1>3
<1>10. DOMAIN served = DOMAIN list /\ served \in Seq(Items)
  BY <1>4, <1>5, <1>8, <1>9
<1>11. \A item \in ToSet(served) : TrueItem(item)
  BY <1>4, <1>6, <1>8 DEF ToSet
<1>12. ASSUME NEW t \in BitcoinTransaction, ConfirmedThen(t), PaysTo(t, script)
       PROVE  \E item \in ToSet(served) : item.tx = t
  <2>1. PICK k \in DOMAIN list : list[k] = t
    BY <1>3, <1>7, <1>12
  <2>2. served[k] \in ToSet(served) /\ served[k].tx = t
    BY <1>4, <1>10, <2>1 DEF ToSet, said
  <2> QED  BY <2>2
<1> QED  BY <1>10, <1>11, <1>12 DEF History, TrueItems, HasAllOf, served

\* The confirmed items of a list.
LEMMA ConfirmedFacts ==
    ASSUME NEW list \in Seq(Items)
    PROVE  /\ Confirmed(list) \in Seq(Items)
           /\ ToSet(Confirmed(list)) = {item \in ToSet(list) : item.height > 0}
<1> DEFINE P == {i \in DOMAIN list : list[i].height > 0}
           out == Selected(list, P)
<1>1. P \in SUBSET DOMAIN list
  OBVIOUS
<1>2. \A i \in P : list[i] \in Items /\ list[i] \in ToSet(list) /\ list[i].height > 0
  BY DEF ToSet
<1>3. \A item \in ToSet(list) : item.height > 0 => \E i \in P : item = list[i]
  BY DEF ToSet
<1>4. Confirmed(list) = out
  BY DEF Confirmed
<1> HIDE DEF P
<1>5. IsSelection(out, list, P)
  BY <1>1, SelectedFacts
<1>6. \A i \in P : \E k \in DOMAIN out : out[k] = list[i]
  BY <1>1, SelectionOrder
<1> HIDE DEF out
<1>7. /\ DOMAIN out = 1..Len(out) /\ Len(out) \in Nat /\ out \in Seq({list[i] : i \in P})
      /\ \A k \in DOMAIN out : \E i \in P : out[k] = list[i]
  BY <1>5 DEF IsSelection
<1>8. out \in Seq(Items)
  BY <1>2, <1>7
<1>9. ToSet(out) = {item \in ToSet(list) : item.height > 0}
  <2>1. ASSUME NEW item \in ToSet(out) PROVE item \in ToSet(list) /\ item.height > 0
    BY <1>2, <1>7 DEF ToSet
  <2>2. ASSUME NEW item \in ToSet(list), item.height > 0 PROVE item \in ToSet(out)
    BY <1>3, <1>6, <2>2 DEF ToSet
  <2> QED  BY <2>1, <2>2
<1> QED  BY <1>4, <1>8, <1>9

\* Sorting keeps the items and puts them in the order of their blocks.
LEMMA SortedFacts ==
    ASSUME NEW list \in Seq(Items)
    PROVE  /\ SortedByHeight(list) \in Seq(Items)
           /\ ToSet(SortedByHeight(list)) = ToSet(list)
           /\ InOrder(SortedByHeight(list))
<1> DEFINE D == DOMAIN list
           R == HeightOrder(list)
           places == Arranged(D, R)
           out == SortedByHeight(list)
<1>1. D = 1..Len(list) /\ Len(list) \in Nat /\ IsFiniteSet(D)
  BY FS_Interval
<1>2. \A i \in D : i \in Nat /\ list[i] \in Items /\ list[i].height \in Nat
  <2>1. \A item \in Items : item.height \in Nat
    BY DEF Items
  <2>2. \A i \in 1..Len(list) : i \in Nat /\ list[i] \in Items
    OBVIOUS
  <2> QED  BY <1>1, <2>1, <2>2
<1>3. \A i, j \in D : <<i, j>> \in R
          <=> (list[i].height < list[j].height \/ (list[i].height = list[j].height /\ i <= j))
  BY DEF HeightOrder
<1> HIDE DEF D, R
<1>4. LinearOn(R, D)
  <2>1. \A i \in D : <<i, i>> \in R
    BY <1>2, <1>3
  <2>2. \A i, j \in D : <<i, j>> \in R \/ <<j, i>> \in R
    <3> SUFFICES ASSUME NEW i \in D, NEW j \in D PROVE <<i, j>> \in R \/ <<j, i>> \in R
      OBVIOUS
    <3>1. i \in Nat /\ j \in Nat /\ list[i].height \in Nat /\ list[j].height \in Nat
      BY <1>2
    <3>2. \/ list[i].height < list[j].height \/ list[j].height < list[i].height
          \/ list[i].height = list[j].height /\ (i <= j \/ j <= i)
      BY <3>1
    <3> QED  BY <1>3, <3>2
  <2>3. \A i, j \in D : <<i, j>> \in R /\ <<j, i>> \in R => i = j
    BY <1>2, <1>3
  <2>4. \A i, j, k \in D : <<i, j>> \in R /\ <<j, k>> \in R => <<i, k>> \in R
    BY <1>2, <1>3
  <2> QED  BY <2>1, <2>2, <2>3, <2>4 DEF LinearOn
<1>5. /\ places \in Seq(D)
      /\ \A i \in D : \E k \in DOMAIN places : places[k] = i
      /\ \A k, l \in DOMAIN places : k < l => <<places[k], places[l]>> \in R
  <2>1. IsFiniteSet(D) /\ LinearOn(R, D)
    BY <1>1, <1>4
  <2> QED  BY <2>1, ArrangedFacts
<1>6. out = [k \in DOMAIN places |-> list[places[k]]]
  BY DEF SortedByHeight, D, R
<1> HIDE DEF places, out
<1>7. DOMAIN places = 1..Len(places) /\ Len(places) \in Nat /\ \A k \in DOMAIN places : places[k] \in D
  BY <1>5
<1>8. out \in Seq(Items) /\ DOMAIN out = DOMAIN places
  BY <1>2, <1>6, <1>7
<1>9. ToSet(out) = ToSet(list)
  <2>1. ASSUME NEW item \in ToSet(out) PROVE item \in ToSet(list)
    BY <1>6, <1>7, <1>8 DEF ToSet, D
  <2>2. ASSUME NEW item \in ToSet(list) PROVE item \in ToSet(out)
    BY <1>5, <1>6, <1>8 DEF ToSet, D
  <2> QED  BY <2>1, <2>2
<1>10. InOrder(out)
  <2> SUFFICES ASSUME NEW k \in DOMAIN out, NEW l \in DOMAIN out, k < l
               PROVE  out[k].height <= out[l].height
    BY DEF InOrder
  <2>1. <<places[k], places[l]>> \in R /\ places[k] \in D /\ places[l] \in D
    BY <1>5, <1>7, <1>8
  <2>2. list[places[k]].height <= list[places[l]].height
    <3>1. /\ list[places[k]].height \in Nat /\ list[places[l]].height \in Nat
          /\ \/ list[places[k]].height < list[places[l]].height
             \/ list[places[k]].height = list[places[l]].height
      BY <1>2, <1>3, <2>1
    <3> QED  BY <3>1
  <2> QED  BY <1>6, <1>8, <2>2
<1> QED  BY <1>8, <1>9, <1>10 DEF out

\* The last items of a list, if a limit was given.
LEMMA LimitedFacts ==
    ASSUME NEW list \in Seq(Items), NEW limit \in Nat
    PROVE  /\ Limited(list, limit) \in Seq(Items)
           /\ ToSet(Limited(list, limit)) \subseteq ToSet(list)
           /\ limit = 0 => Limited(list, limit) = list
           /\ InOrder(list) => InOrder(Limited(list, limit))
<1>1. CASE ~(limit > 0 /\ Len(list) > limit)
  BY <1>1 DEF Limited
<1>2. CASE limit > 0 /\ Len(list) > limit
  <2> DEFINE first == Len(list) - limit + 1
             out == SubSeq(list, first, Len(list))
  <2>1. Limited(list, limit) = out
    BY <1>2 DEF Limited
  <2>2. /\ first \in 1..Len(list) /\ Len(list) \in Nat /\ DOMAIN list = 1..Len(list)
        /\ first \in Nat
    BY <1>2
  <2> HIDE DEF first
  <2>3. /\ out \in Seq(Items) /\ Len(out) = Len(list) - first + 1
        /\ \A i \in 1..Len(out) : out[i] = list[first + i - 1]
    BY <2>2
  <2> HIDE DEF out
  <2>4. DOMAIN out = 1..Len(out) /\ \A i \in DOMAIN out : first + i - 1 \in DOMAIN list
    BY <2>2, <2>3
  <2>5. ToSet(out) \subseteq ToSet(list)
    BY <2>3, <2>4 DEF ToSet
  <2>6. InOrder(list) => InOrder(out)
    <3> SUFFICES ASSUME InOrder(list), NEW i \in DOMAIN out, NEW j \in DOMAIN out, i < j
                 PROVE  out[i].height <= out[j].height
      BY DEF InOrder
    <3>1. first + i - 1 < first + j - 1
      BY <2>2, <2>4
    <3> QED  BY <2>3, <2>4, <3>1 DEF InOrder
  <2> QED  BY <1>2, <2>1, <2>3, <2>5, <2>6
<1> QED  BY <1>1, <1>2

-----------------------------------------------------------------------------
Confirmations == "getTransactionConfirmations"
Knowing == {"getTransaction", "getRawTransaction", "getTransactionMerkle"}
Single == {"getNetwork", "getTransaction", "getRawTransaction", "latestBlockHeight",
           "getHeadersChain", "getTransactionMerkle", "getCoinbaseTxHash", "broadcast"}
Several == {"findAllUnspentTransactionOutputs", "getTransactionHistory",
            "getTxHashesForPublicKeyHash", Confirmations}
FrameFields == {"op", "arg", "status", "server", "socket", "attempt", "got", "calls"}

IsFrame(f) ==
    /\ DOMAIN f = FrameFields
    /\ f.server \in Server /\ f.socket \in BOOLEAN
    /\ f.attempt \in Nat /\ f.calls \in Nat
    /\ \E S : f.got \in Seq(S)

Fetched(f) == Limited(SortedByHeight(Confirmed(f.got[2])), f.arg[2])
Hits(f) ==
    UNION {{item \in ToSet(f.got[i + 1]) : item.tx = f.arg} :
               i \in {i \in DOMAIN OutputScripts[f.arg] : i + 1 <= Len(f.got) - f.calls}}

HashesHeard(f) ==
    /\ Len(f.got) <= 3
    /\ Len(f.got) >= 2 => History(f.got[2], "p2pkh")
    /\ Len(f.got) >= 3 => History(f.got[3], "p2wpkh")

HistoryHeard(f) ==
    /\ f.arg = <<"p2wpkh", f.arg[2]>> /\ f.arg[2] \in Nat
    /\ Len(f.got) >= 2 => History(f.got[2], "p2wpkh")
    /\ Len(f.got) > 2 =>
          /\ Len(f.got) = Len(Fetched(f)) + 2
          /\ \A n \in DOMAIN Fetched(f) : f.got[n + 2] = Fetched(f)[n].tx

\* A height of the chain, not below what the slowest server knew when the call was made.
TipTold(latest) ==
    latest \in Nat /\ latest <= height /\ \E s \in Server : latest >= before.tip[s]

ConfirmationsHeard(f) ==
    /\ f.calls \in {0, 1} /\ f.calls <= Len(f.got)
    /\ \A n \in 2..(Len(f.got) - f.calls) : TrueItems(f.got[n])
    /\ f.calls = 1 => Hits(f) # {} /\ TipTold(f.got[Len(f.got)])

\* What a call of one request has got.
SingleHeard(f) ==
    f.got # <<>> =>
        /\ f.op = "getTransaction" => f.got[1] = f.arg
        /\ f.op = "latestBlockHeight" => TipTold(f.got[1])

\* What the user's call has got so far.
Heard(f) ==
    /\ f.op \in Single \union Several
    /\ f.op \in AboutTransaction => f.arg \in BitcoinTransaction
    /\ f.op \in Single => SingleHeard(f)
    /\ f.op = "findAllUnspentTransactionOutputs" => Len(f.got) <= 2
    /\ f.op = "getTxHashesForPublicKeyHash" => HashesHeard(f)
    /\ f.op = "getTransactionHistory" => HistoryHeard(f)
    /\ f.op = Confirmations => ConfirmationsHeard(f)

-----------------------------------------------------------------------------
\* What each call does next.
LEMMA OnceStep ==
    ASSUME NEW f, f.op \in Single
    PROVE  \E method : /\ NextStep(f) = IF f.got = <<>> THEN Request(method, f.arg)
                                                        ELSE Return(f.got[1])
                       /\ method = "transaction_get" =>
                              f.op \in {"getTransaction", "getRawTransaction"}
                       /\ f.op = "getTransaction" => method = "transaction_get"
                       /\ method = "getMerkle" => f.op = "getTransactionMerkle"
                       /\ method = "broadcast" => f.op = "broadcast"
                       /\ f.op = "latestBlockHeight" => method = "headers_subscribe"
                       /\ method \notin {"getHistory", "listunspent"}
<1>1. CASE f.op = "getNetwork"
  BY <1>1 DEF NextStep, GetNetwork, Once
<1>2. CASE f.op = "getTransaction"
  BY <1>2 DEF NextStep, GetTransaction, Once
<1>3. CASE f.op = "getRawTransaction"
  BY <1>3 DEF NextStep, GetRawTransaction, Once
<1>4. CASE f.op = "latestBlockHeight"
  BY <1>4 DEF NextStep, LatestBlockHeight, Once
<1>5. CASE f.op = "getHeadersChain"
  BY <1>5 DEF NextStep, GetHeadersChain, Once
<1>6. CASE f.op = "getTransactionMerkle"
  BY <1>6 DEF NextStep, GetTransactionMerkle, Once
<1>7. CASE f.op = "getCoinbaseTxHash"
  BY <1>7 DEF NextStep, GetCoinbaseTxHash, Once
<1>8. CASE f.op = "broadcast"
  BY <1>8 DEF NextStep, BroadcastTx, Once
<1> QED  BY <1>1, <1>2, <1>3, <1>4, <1>5, <1>6, <1>7, <1>8 DEF Single

LEMMA SeveralSteps ==
    ASSUME NEW f
    PROVE  /\ f.op = "findAllUnspentTransactionOutputs" => NextStep(f) = FindAllUnspent(f)
           /\ f.op = "getTransactionHistory" => NextStep(f) = TransactionHistory(f)
           /\ f.op = Confirmations => NextStep(f) = TransactionConfirmations(f)
           /\ f.op = "getTxHashesForPublicKeyHash" => NextStep(f) = TxHashesForPublicKeyHash(f)
<1>1. f.op = "findAllUnspentTransactionOutputs" => NextStep(f) = FindAllUnspent(f)
  BY DEF NextStep
<1>2. f.op = "getTransactionHistory" => NextStep(f) = TransactionHistory(f)
  BY DEF NextStep
<1>3. f.op = Confirmations => NextStep(f) = TransactionConfirmations(f)
  BY DEF NextStep, Confirmations
<1>4. f.op = "getTxHashesForPublicKeyHash" => NextStep(f) = TxHashesForPublicKeyHash(f)
  BY DEF NextStep
<1> QED  BY <1>1, <1>2, <1>3, <1>4

\* Steps of different kinds differ.
LEMMA Kinds ==
    /\ \A method, param : Request(method, param).do = "request"
                          /\ Request(method, param).method = method
                          /\ Request(method, param).param = param
    /\ \A op, args : Calls(op, args).do = "calls" /\ Calls(op, args).op = op
                     /\ Calls(op, args).args = args
    /\ \A op, arg : Call(op, arg).do = "calls" /\ Call(op, arg).op = op
                    /\ Call(op, arg).args = <<arg>>
    /\ \A value : Return(value).do = "return" /\ Return(value).value = value
    /\ Throw.do = "throw"
BY DEF Request, Calls, Call, Return, Throw

\* The number of confirmations: one history after the other, then the latest block.
LEMMA ConfirmationsStep ==
    ASSUME NEW f, f.op = Confirmations, IsFrame(f)
    PROVE  LET found == (CHOOSE item \in Hits(f) : TRUE).height
           IN  /\ f.got = <<>> => NextStep(f) = Request("transaction_get", f.arg)
               /\ f.got # <<>> /\ Hits(f) = {} =>
                      NextStep(f) = Throw \/ \E s : NextStep(f) = Request("getHistory", s)
               /\ f.got # <<>> /\ Hits(f) # {} =>
                      NextStep(f) = IF found <= 0 THEN Return(0)
                                    ELSE IF f.calls = 0 THEN Call("latestBlockHeight", "none")
                                    ELSE Return(ConfirmationsAt(f.got[Len(f.got)], found))
<1>1. NextStep(f) = TransactionConfirmations(f)
  BY SeveralSteps
<1> DEFINE scripts == OutputScripts[f.arg]
           asked == {i \in DOMAIN scripts : i + 1 <= Len(f.got) - f.calls}
           found == (CHOOSE item \in Hits(f) : TRUE).height
           here == CASE f.got = <<>> -> Request("transaction_get", f.arg)
         [] f.got # <<>> /\ Hits(f) = {} ->
               IF Cardinality(asked) = Len(scripts) THEN Throw
               ELSE Request("getHistory", scripts[Len(f.got)])
         [] f.got # <<>> /\ Hits(f) # {} ->
               IF found <= 0 THEN Return(0)
               ELSE IF f.calls = 0 THEN Call("latestBlockHeight", "none")
               ELSE Return(ConfirmationsAt(f.got[Len(f.got)], found))
<1>2. TransactionConfirmations(f) = here
  BY DEF TransactionConfirmations, Hits
<1> HIDE DEF asked, scripts, found
<1>3. f.got = <<>> => here = Request("transaction_get", f.arg)
  OBVIOUS
<1>4. f.got # <<>> /\ Hits(f) = {} =>
          here = Throw \/ here = Request("getHistory", scripts[Len(f.got)])
  OBVIOUS
<1>5. f.got # <<>> /\ Hits(f) # {} =>
          here = IF found <= 0 THEN Return(0)
                 ELSE IF f.calls = 0 THEN Call("latestBlockHeight", "none")
                 ELSE Return(ConfirmationsAt(f.got[Len(f.got)], found))
  OBVIOUS
<1> HIDE DEF here
<1> QED  BY <1>1, <1>2, <1>3, <1>4, <1>5 DEF found

LEMMA HistoryStep ==
    ASSUME NEW f, f.op = "getTransactionHistory", IsFrame(f)
    PROVE  /\ Len(f.got) = 0 => NextStep(f) = Call("getNetwork", "none")
           /\ Len(f.got) = 1 => NextStep(f) = Request("getHistory", f.arg[1])
           /\ Len(f.got) = 2 =>
                 NextStep(f) = IF Fetched(f) = <<>> THEN Return(<<>>)
                               ELSE Calls("getTransaction", Hashes(Fetched(f)))
           /\ Len(f.got) > 2 => NextStep(f) = Return(SubSeq(f.got, 3, Len(f.got)))
<1>1. NextStep(f) = TransactionHistory(f)
  BY SeveralSteps
<1>2. PICK n : n = Len(f.got) /\ n \in Nat
  BY DEF IsFrame
<1> DEFINE items == Limited(SortedByHeight(Confirmed(f.got[2])), f.arg[2])
           rest == SubSeq(f.got, 3, n)
<1>3. TransactionHistory(f) =
          CASE n = 0 -> Call("getNetwork", "none")
            [] n = 1 -> Request("getHistory", f.arg[1])
            [] n = 2 -> IF items = <<>> THEN Return(<<>>) ELSE Calls("getTransaction", Hashes(items))
            [] n > 2 -> Return(rest)
  BY ONLY <1>2 DEF TransactionHistory
<1>4. items = Fetched(f)
  BY DEF Fetched
<1> HIDE DEF items, rest
<1>5. CASE n = 0
  BY <1>1, <1>2, <1>3, <1>5
<1>6. CASE n = 1
  BY <1>1, <1>2, <1>3, <1>6
<1>7. CASE n = 2
  BY <1>1, <1>2, <1>3, <1>4, <1>7
<1>8. CASE n > 2
  <2>0. n \in Nat
    BY <1>2
  <2>1. n # 0 /\ n # 1 /\ n # 2
    BY ONLY <1>8, <2>0
  <2>2. TransactionHistory(f) = Return(rest)
    BY ONLY <1>3, <1>8, <2>1
  <2> QED  BY <1>1, <1>2, <1>8, <2>1, <2>2 DEF rest
<1> QED  BY <1>2, <1>5, <1>6, <1>7, <1>8

LEMMA Few ==
    /\ \A n \in Nat : n <= 2 => n \in {0, 1, 2}
    /\ \A n \in Nat : n <= 3 => n \in {0, 1, 2, 3}
    /\ \A n \in Nat : n = 0 \/ n = 1 \/ n = 2 \/ n > 2
OBVIOUS

LEMMA FindAllStep ==
    ASSUME NEW f, f.op = "findAllUnspentTransactionOutputs", IsFrame(f), Len(f.got) <= 2
    PROVE  /\ Len(f.got) = 0 => NextStep(f) = Call("getNetwork", "none")
           /\ Len(f.got) = 1 => NextStep(f) = Request("listunspent", f.arg)
           /\ Len(f.got) = 2 => NextStep(f) = Return(Hashes(Reverse(f.got[2])))
           /\ Len(f.got) \in {0, 1, 2}
<1>1. NextStep(f) = FindAllUnspent(f)
  BY SeveralSteps
<1>2. Len(f.got) \in Nat
  BY DEF IsFrame
<1>3. Len(f.got) \in {0, 1, 2}
  BY <1>2, Few
<1>4. CASE Len(f.got) = 0
  BY <1>1, <1>3, <1>4 DEF FindAllUnspent
<1>5. CASE Len(f.got) = 1
  BY <1>1, <1>3, <1>5 DEF FindAllUnspent
<1>6. CASE Len(f.got) = 2
  BY <1>1, <1>3, <1>6 DEF FindAllUnspent
<1> QED  BY <1>3, <1>4, <1>5, <1>6

LEMMA TxHashesStep ==
    ASSUME NEW f, f.op = "getTxHashesForPublicKeyHash", IsFrame(f), Len(f.got) <= 3
    PROVE  /\ Len(f.got) = 0 => NextStep(f) = Call("getNetwork", "none")
           /\ Len(f.got) = 1 => NextStep(f) = Request("getHistory", "p2pkh")
           /\ Len(f.got) = 2 => NextStep(f) = Request("getHistory", "p2wpkh")
           /\ Len(f.got) = 3 => NextStep(f) = Return(Hashes(MergedByHeight(
                                         Confirmed(f.got[2]), Confirmed(f.got[3]))))
           /\ Len(f.got) \in {0, 1, 2, 3}
<1>1. NextStep(f) = TxHashesForPublicKeyHash(f)
  BY SeveralSteps
<1>2. Len(f.got) \in Nat
  BY DEF IsFrame
<1>3. Len(f.got) \in {0, 1, 2, 3}
  BY <1>2, Few
<1>4. CASE Len(f.got) = 3
  BY <1>1, <1>4 DEF TxHashesForPublicKeyHash
<1>5. CASE Len(f.got) = 0
  BY <1>1, <1>5 DEF TxHashesForPublicKeyHash
<1>6. CASE Len(f.got) = 1
  BY <1>1, <1>6 DEF TxHashesForPublicKeyHash
<1>7. CASE Len(f.got) = 2
  BY <1>1, <1>7 DEF TxHashesForPublicKeyHash
<1> QED  BY <1>3, <1>4, <1>5, <1>6, <1>7

\* Calls other calls are made from.
LEMMA CallsMade ==
    ASSUME NEW f, IsFrame(f), Heard(f), NextStep(f).do = "calls"
    PROVE  \/ /\ NextStep(f) = Call("getNetwork", "none")
              /\ f.op \in Several \ {Confirmations} /\ Len(f.got) = 0
           \/ /\ NextStep(f) = Calls("getTransaction", Hashes(Fetched(f)))
              /\ f.op = "getTransactionHistory" /\ Len(f.got) = 2 /\ Fetched(f) # <<>>
           \/ /\ NextStep(f) = Call("latestBlockHeight", "none")
              /\ f.op = Confirmations /\ f.got # <<>> /\ f.calls = 0 /\ Hits(f) # {}
<1>1. f.op \notin Single
  BY OnceStep, Kinds
<1>2. f.op \in Several
  BY <1>1 DEF Heard
<1>3. Len(f.got) \in Nat /\ (f.got = <<>> <=> Len(f.got) = 0)
  BY DEF IsFrame
<1>4. CASE f.op = "findAllUnspentTransactionOutputs"
  BY <1>2, <1>4, FindAllStep, Kinds DEF Heard, Confirmations
<1>5. CASE f.op = "getTransactionHistory"
  <2>1. CASE Len(f.got) = 0
    BY <1>2, <1>5, <2>1, HistoryStep, Kinds DEF Confirmations
  <2>2. CASE Len(f.got) = 1
    BY <1>5, <2>2, HistoryStep, Kinds
  <2>3. CASE Len(f.got) = 2
    BY <1>5, <2>3, HistoryStep, Kinds
  <2>4. CASE Len(f.got) > 2
    BY <1>5, <2>4, HistoryStep, Kinds
  <2> QED  BY <1>3, <2>1, <2>2, <2>3, <2>4, Few
<1>6. CASE f.op = Confirmations
  <2> DEFINE found == (CHOOSE item \in Hits(f) : TRUE).height
  <2>1. f.got # <<>> /\ Hits(f) # {}
    BY <1>6, ConfirmationsStep, Kinds
  <2>2. NextStep(f) = IF found <= 0 THEN Return(0)
                      ELSE IF f.calls = 0 THEN Call("latestBlockHeight", "none")
                      ELSE Return(ConfirmationsAt(f.got[Len(f.got)], found))
    BY <1>6, <2>1, ConfirmationsStep
  <2> HIDE DEF found
  <2>3. f.calls = 0 /\ NextStep(f) = Call("latestBlockHeight", "none")
    BY <2>2, Kinds
  <2> QED  BY <1>6, <2>1, <2>3
<1>7. CASE f.op = "getTxHashesForPublicKeyHash"
  BY <1>2, <1>7, TxHashesStep, Kinds DEF Heard, HashesHeard, Confirmations
<1> QED  BY <1>2, <1>4, <1>5, <1>6, <1>7 DEF Several, Confirmations

\* Only one call throws, the one for a number of confirmations.
LEMMA Throws ==
    ASSUME NEW f, IsFrame(f), Heard(f), NextStep(f).do = "throw"
    PROVE  f.op = Confirmations
<1>1. f.op \notin Single
  BY OnceStep, Kinds
<1>2. Len(f.got) \in Nat
  BY DEF IsFrame
<1>3. f.op # "findAllUnspentTransactionOutputs"
  BY FindAllStep, Kinds DEF Heard
<1>4. f.op # "getTransactionHistory"
  <2> SUFFICES ASSUME f.op = "getTransactionHistory" PROVE FALSE
    OBVIOUS
  <2>1. Len(f.got) # 0 /\ Len(f.got) # 1
    BY HistoryStep, Kinds
  <2>2. Len(f.got) # 2
    BY HistoryStep, Kinds
  <2>3. ~(Len(f.got) > 2)
    BY HistoryStep, Kinds
  <2> QED  BY <1>2, <2>1, <2>2, <2>3, Few
<1>5. f.op # "getTxHashesForPublicKeyHash"
  BY TxHashesStep, Kinds DEF Heard, HashesHeard
<1> QED  BY <1>1, <1>3, <1>4, <1>5 DEF Heard, Several

\* The requests of each call.
LEMMA RequestsMade ==
    ASSUME NEW f, IsFrame(f), Heard(f), NextStep(f).do = "request"
    PROVE  /\ NextStep(f).method = "transaction_get" =>
                  f.op = Confirmations \/ (f.op \in Knowing /\ NextStep(f).param = f.arg)
           /\ NextStep(f).method = "getMerkle" =>
                  f.op \in Knowing /\ NextStep(f).param = f.arg
           /\ NextStep(f).method = "broadcast" =>
                  f.op = "broadcast" /\ NextStep(f).param = f.arg
<1>1. CASE f.op \in Single
  <2>1. PICK method : /\ NextStep(f) = IF f.got = <<>> THEN Request(method, f.arg)
                                                       ELSE Return(f.got[1])
                      /\ method = "transaction_get" =>
                             f.op \in {"getTransaction", "getRawTransaction"}
                      /\ method = "getMerkle" => f.op = "getTransactionMerkle"
                      /\ method = "broadcast" => f.op = "broadcast"
    BY <1>1, OnceStep
  <2>2. NextStep(f) = Request(method, f.arg)
    BY <2>1, Kinds
  <2>3. NextStep(f).method = method /\ NextStep(f).param = f.arg
    BY <2>2, Kinds
  <2> QED  BY <2>1, <2>3 DEF Knowing
<1>2. Len(f.got) \in Nat
  BY DEF IsFrame
<1>3. CASE f.op = "findAllUnspentTransactionOutputs"
  <2>1. NextStep(f) = Request("listunspent", f.arg)
    BY <1>3, FindAllStep, Kinds DEF Heard
  <2> QED  BY <2>1, Kinds
<1>4. CASE f.op = "getTransactionHistory"
  <2>1. NextStep(f) = Request("getHistory", f.arg[1])
    <3>1. Len(f.got) # 0
      BY <1>4, HistoryStep, Kinds
    <3>2. Len(f.got) # 2
      BY <1>4, HistoryStep, Kinds
    <3>3. ~(Len(f.got) > 2)
      BY <1>4, HistoryStep, Kinds
    <3>4. Len(f.got) = 1
      BY <1>2, <3>1, <3>2, <3>3, Few
    <3> QED  BY <1>4, <3>4, HistoryStep
  <2> QED  BY <2>1, Kinds
<1>5. CASE f.op = "getTxHashesForPublicKeyHash"
  <2>1. \E s : NextStep(f) = Request("getHistory", s)
    BY <1>5, TxHashesStep, Kinds DEF Heard, HashesHeard
  <2> QED  BY <2>1, Kinds
<1>6. CASE f.op = Confirmations
  <2> DEFINE found == (CHOOSE item \in Hits(f) : TRUE).height
  <2>1. CASE f.got = <<>>
    BY <1>6, <2>1, ConfirmationsStep, Kinds
  <2>2. CASE f.got # <<>> /\ Hits(f) = {}
    <3>1. \E s : NextStep(f) = Request("getHistory", s)
      BY <1>6, <2>2, ConfirmationsStep, Kinds
    <3> QED  BY <3>1, Kinds
  <2>3. CASE f.got # <<>> /\ Hits(f) # {}
    <3>1. NextStep(f) = IF found <= 0 THEN Return(0)
                        ELSE IF f.calls = 0 THEN Call("latestBlockHeight", "none")
                        ELSE Return(ConfirmationsAt(f.got[Len(f.got)], found))
      BY <1>6, <2>3, ConfirmationsStep
    <3> HIDE DEF found
    <3> QED  BY <3>1, Kinds
  <2> QED  BY <2>1, <2>2, <2>3
<1> QED  BY <1>1, <1>3, <1>4, <1>5, <1>6 DEF Heard, Several

-----------------------------------------------------------------------------
\* While a call is in progress the chain, and what servers know of it, only grows.
Grows ==
    /\ WorldInv' /\ before' = before /\ faultsBefore' = faultsBefore
    /\ Grown(txHeight, txHeight')
    /\ height <= height' /\ \A s \in Server : tip[s] <= tip'[s]
    /\ electrumFaults <= electrumFaults'

\* A call's step: at most a broadcast.
LEMMA AcceptGrows ==
    ASSUME WorldInv, NEW request, Accept(request) \/ UNCHANGED txHeight, WorldStays,
           electrumFaults' \in {electrumFaults, electrumFaults + 1}
    PROVE  Grows
<1>1. UNCHANGED <<height, tip, before, faultsBefore>>
  BY DEF WorldStays
<1>2. CASE UNCHANGED txHeight
  BY <1>1, <1>2 DEF Grows, WorldInv, Grown
<1>3. CASE txHeight' = [txHeight EXCEPT ![request.param] = 0] /\ txHeight[request.param] = -1
  <2>0. PICK p : p = request.param
    OBVIOUS
  <2>1. txHeight' \in [BitcoinTransaction -> Int]
    <3>1. txHeight \in [BitcoinTransaction -> Int] /\ txHeight' = [txHeight EXCEPT ![p] = 0]
      BY <1>3, <2>0 DEF WorldInv
    <3>2. CASE p \in BitcoinTransaction
      BY <3>1, <3>2
    <3>3. CASE p \notin BitcoinTransaction
      <4>1. txHeight' = txHeight
        BY <3>1, <3>3
      <4> QED  BY <3>1, <4>1
    <3> QED  BY <3>2, <3>3
  <2>2. \A t \in BitcoinTransaction :
            txHeight'[t] = txHeight[t] \/ (txHeight[t] = -1 /\ txHeight'[t] = 0)
    BY <1>3 DEF WorldInv
  <2>3. Grown(txHeight, txHeight') /\ Grown(before.txHeight, txHeight')
    BY <2>2 DEF Grown, WorldInv
  <2>4. \A t \in BitcoinTransaction : -1 <= txHeight'[t] /\ txHeight'[t] <= height
    BY <2>2 DEF WorldInv
  <2> QED  BY <1>1, <2>1, <2>3, <2>4 DEF Grows, WorldInv
<1> QED  BY <1>2, <1>3 DEF Accept

\* A block, and a server that gets to know of one.
LEMMA BlockGrows ==
    ASSUME WorldInv, NEW included \in SUBSET {t \in BitcoinTransaction : txHeight[t] < 1},
           BlockMined(included)
    PROVE  Grows
<1>1. /\ height' = height + 1 /\ UNCHANGED <<tip, before, faultsBefore, electrumFaults>>
      /\ txHeight' = [t \in BitcoinTransaction |->
                         IF t \in included THEN height + 1 ELSE txHeight[t]]
  BY DEF BlockMined, CallVars
<1>2. \A t \in BitcoinTransaction :
          /\ t \in included => txHeight[t] < 1 /\ txHeight'[t] = height + 1
          /\ t \notin included => txHeight'[t] = txHeight[t]
  BY <1>1
<1>3. /\ height \in Nat /\ \A t \in BitcoinTransaction : txHeight[t] \in Int
      /\ \A s \in Server : tip[s] \in Nat
  BY DEF WorldInv
<1>4. txHeight' \in [BitcoinTransaction -> Int]
  BY <1>1, <1>3
<1>5. Grown(txHeight, txHeight')
  BY <1>2, <1>3 DEF Grown
<1>6. Grown(before.txHeight, txHeight')
  <2>1. \A t \in BitcoinTransaction : before.txHeight[t] \in Int
    BY DEF WorldInv
  <2>2. Grown(before.txHeight, txHeight)
    BY DEF WorldInv
  <2> QED  BY <1>2, <1>3, <2>1, <2>2 DEF Grown
<1>7. \A t \in BitcoinTransaction : -1 <= txHeight'[t] /\ txHeight'[t] <= height'
  BY <1>1, <1>2 DEF WorldInv
<1>8. \A s \in Server : before.tip[s] <= tip[s] /\ tip[s] <= height'
  BY <1>1, <1>3 DEF WorldInv
<1> QED  BY <1>1, <1>3, <1>4, <1>5, <1>6, <1>7, <1>8 DEF Grows, WorldInv

LEMMA BlockReceivedGrows ==
    ASSUME WorldInv, NEW server \in Server, BlockReceived(server)
    PROVE  Grows
<1>1. /\ tip[server] < height /\ tip' = [tip EXCEPT ![server] = @ + 1]
      /\ UNCHANGED <<height, txHeight, before, faultsBefore, electrumFaults>>
  BY DEF BlockReceived, CallVars
<1>2. \A s \in Server : tip[s] \in Nat /\ before.tip[s] \in Nat
  BY DEF WorldInv
<1>3. tip' \in [Server -> Nat]
  BY <1>1, <1>2 DEF WorldInv
<1>4. \A s \in Server : tip[s] <= tip'[s] /\ before.tip[s] <= tip'[s] /\ tip'[s] <= height
  BY <1>1, <1>2 DEF WorldInv
<1> QED  BY <1>1, <1>3, <1>4 DEF Grows, WorldInv, Grown

LEMMA NothingGrows ==
    ASSUME WorldInv, UNCHANGED <<height, txHeight, tip, before, faultsBefore, electrumFaults>>
    PROVE  Grows
BY DEF Grows, WorldInv, Grown

\* What was heard stays true.
LEMMA HistoryStays ==
    ASSUME WorldInv, Grows, NEW list
    PROVE  /\ TrueItems(list) => TrueItems(list)'
           /\ \A script : History(list, script) => History(list, script)'
<1>1. ASSUME list \in Seq(Items), NEW item \in ToSet(list)
      PROVE  item.tx \in BitcoinTransaction /\ item.height \in Nat
  <2>1. item \in Items
    BY <1>1 DEF ToSet
  <2> QED  BY <2>1 DEF Items
<1>2. ASSUME NEW item, item.tx \in BitcoinTransaction, item.height \in Nat, TrueItem(item)
      PROVE  TrueItem(item)'
  <2>1. item.height > 0 => txHeight'[item.tx] = item.height
    BY <1>2 DEF TrueItem, Grows, Grown, WorldInv
  <2>2. ConfirmedThen(item.tx)' <=> ConfirmedThen(item.tx)
    BY DEF ConfirmedThen, Grows
  <2>3. Faults' <= RetryAttempts => Faults <= RetryAttempts
    <3>1. /\ electrumFaults \in Nat /\ electrumFaults' \in Nat /\ faultsBefore \in Nat
          /\ electrumFaults <= electrumFaults' /\ faultsBefore' = faultsBefore
      BY DEF Grows, WorldInv
    <3>2. RetryAttempts \in Nat
      BY ElectrumAssumption
    <3>3. PICK n, m : n = electrumFaults /\ m = electrumFaults'
      OBVIOUS
    <3>4. n \in Nat /\ m \in Nat /\ n <= m
      BY <3>1, <3>3
    <3>5. Faults = n - faultsBefore /\ Faults' = m - faultsBefore
      BY <3>1, <3>3 DEF Faults
    <3> QED  BY <3>1, <3>2, <3>4, <3>5
  <2>4. tip[1] \in Nat /\ tip'[1] \in Nat /\ tip[1] <= tip'[1]
    BY ElectrumAssumption DEF Grows, WorldInv, Server
  <2>5. Faults' <= RetryAttempts => item.height <= tip'[1]
    BY <1>2, <2>3, <2>4 DEF TrueItem
  <2> QED  BY <1>2, <2>1, <2>2, <2>5 DEF TrueItem
<1>3. TrueItems(list) => TrueItems(list)'
  BY <1>1, <1>2 DEF TrueItems
<1> QED  BY <1>3 DEF History, HasAllOf, ConfirmedThen, Grows

LEMMA TipStays ==
    ASSUME WorldInv, Grows, NEW latest, TipTold(latest)
    PROVE  TipTold(latest)'
BY DEF TipTold, Grows, WorldInv

LEMMA SingleStays ==
    ASSUME WorldInv, Grows, NEW f, SingleHeard(f)
    PROVE  SingleHeard(f)'
BY TipStays DEF SingleHeard

LEMMA HeardStays ==
    ASSUME WorldInv, Grows, NEW f, Heard(f)
    PROVE  Heard(f)'
<1>1. f.op = "getTxHashesForPublicKeyHash" => HashesHeard(f)'
  BY HistoryStays DEF Heard, HashesHeard
<1>2. f.op = "getTransactionHistory" => HistoryHeard(f)'
  BY HistoryStays DEF Heard, HistoryHeard
<1>3. f.op = Confirmations => ConfirmationsHeard(f)'
  BY HistoryStays, TipStays DEF Heard, ConfirmationsHeard
<1>4. f.op \in Single => SingleHeard(f)'
  BY SingleStays DEF Heard
<1> QED  BY <1>1, <1>2, <1>3, <1>4 DEF Heard

-----------------------------------------------------------------------------
\* What a call hears.
GotNext(old, new, value) ==
    /\ \E S : new \in Seq(S)
    /\ Len(new) = Len(old) + 1 /\ new[Len(new)] = value /\ new # <<>>
    /\ \A i \in 1..Len(old) : new[i] = old[i]

LEMMA GotMore ==
    ASSUME NEW list, NEW value, \E S : list \in Seq(S)
    PROVE  GotNext(list, Append(list, value), value) /\ Len(list) \in Nat
<1>1. PICK S : list \in Seq(S)
  OBVIOUS
<1>2. list \in Seq(S \union {value}) /\ value \in S \union {value}
  BY <1>1
<1> DEFINE T == S \union {value}
<1> HIDE DEF T
<1>3. list \in Seq(T) /\ value \in T
  BY <1>2 DEF T
<1>4. Append(list, value) \in Seq(T) /\ Len(list) \in Nat
  BY <1>3
<1>5. /\ Len(Append(list, value)) = Len(list) + 1
      /\ Append(list, value)[Len(list) + 1] = value
      /\ \A i \in 1..Len(list) : Append(list, value)[i] = list[i]
      /\ Append(list, value) # <<>>
  BY <1>3
<1> QED  BY <1>4, <1>5 DEF GotNext

\* A call that has heard one thing more.
HeardMore(f, g, value) ==
    /\ IsFrame(g) /\ g.op = f.op /\ g.arg = f.arg /\ g.calls = f.calls
    /\ GotNext(f.got, g.got, value)

\* What the servers answer about histories: servers after the first one hear of a call only
\* after many faults.
LEMMA RepliesTrue ==
    ASSUME WorldInv, NEW f, IsFrame(f), f.server > 1 => Faults > RetryAttempts,
           NEW mempool \in SUBSET MayKnow(f.server), NEW script
    PROVE  LET reply == Reply(f, Request("getHistory", script), mempool)
           IN  TrueItems(reply) /\ (f.op # Confirmations => History(reply, script))
<1>1. Reply(f, Request("getHistory", script), mempool)
          = ServedHistory(f.server, AskedScript(f, script), mempool)
  BY DEF Reply, Request
<1>2. f.op # Confirmations => AskedScript(f, script) = script
  BY DEF AskedScript, Confirmations
<1>3. f.server \in Server
  BY DEF IsFrame
<1>4. PICK s : s = f.server
  OBVIOUS
<1>5. \A any : History(ServedHistory(s, any, mempool), any)
  BY <1>3, <1>4, ServedFacts
<1> QED  BY <1>1, <1>2, <1>4, <1>5 DEF History

\* The reply to a call of one request.
LEMMA SingleRequestHeard ==
    ASSUME WorldInv, NEW f, IsFrame(f), f.op \in Single, NextStep(f).do = "request",
           NEW mempool, NEW g, HeardMore(f, g, Reply(f, NextStep(f), mempool))
    PROVE  SingleHeard(g)
<1>1. PICK method : /\ NextStep(f) = IF f.got = <<>> THEN Request(method, f.arg)
                                                     ELSE Return(f.got[1])
                    /\ f.op = "getTransaction" => method = "transaction_get"
                    /\ f.op = "latestBlockHeight" => method = "headers_subscribe"
  BY OnceStep
<1>2. f.got = <<>> /\ NextStep(f) = Request(method, f.arg)
  BY <1>1, Kinds
<1>3. /\ g.op = f.op /\ g.arg = f.arg /\ g.got[1] = Reply(f, Request(method, f.arg), mempool)
  BY <1>2 DEF HeardMore, GotNext, IsFrame
<1>4. f.op = "getTransaction" => g.got[1] = g.arg
  BY <1>1, <1>3 DEF Reply, Request
<1>5. f.op = "latestBlockHeight" => TipTold(g.got[1])
  <2> SUFFICES ASSUME f.op = "latestBlockHeight" PROVE TipTold(tip[f.server])
    BY <1>1, <1>3 DEF Reply, Request
  <2>1. f.server \in Server
    BY DEF IsFrame
  <2>2. PICK s \in Server : s = f.server
    BY <2>1
  <2>3. TipTold(tip[s])
    BY DEF TipTold, WorldInv
  <2> QED  BY <2>2, <2>3
<1> QED  BY <1>3, <1>4, <1>5 DEF SingleHeard

\* Replies are true of the chain as it is.
LEMMA RequestHeard ==
    ASSUME WorldInv, NEW f, IsFrame(f), Heard(f), NextStep(f).do = "request",
           f.server > 1 => Faults > RetryAttempts, NEW mempool \in SUBSET MayKnow(f.server),
           NEW g, HeardMore(f, g, Reply(f, NextStep(f), mempool))
    PROVE  Heard(g)
<1> DEFINE value == Reply(f, NextStep(f), mempool)
           n == Len(f.got)
<1>1. /\ n \in Nat /\ Len(g.got) = n + 1 /\ g.got[n + 1] = value
      /\ \A i \in 1..n : g.got[i] = f.got[i]
      /\ (f.got = <<>> <=> n = 0) /\ g.op = f.op /\ g.arg = f.arg /\ g.calls = f.calls
      /\ f.calls \in Nat /\ IsFrame(g)
  BY DEF IsFrame, HeardMore, GotNext
<1> HIDE DEF value, n
<1>2. f.op = "findAllUnspentTransactionOutputs" => Len(g.got) <= 2
  <2> SUFFICES ASSUME f.op = "findAllUnspentTransactionOutputs" PROVE Len(g.got) <= 2
    OBVIOUS
  <2>1. n <= 2
    BY DEF Heard, n
  <2>2. n = 1
    BY <2>1, FindAllStep, Kinds DEF n
  <2> QED  BY <1>1, <2>2
<1>3. f.op = "getTxHashesForPublicKeyHash" => HashesHeard(g)
  <2> SUFFICES ASSUME f.op = "getTxHashesForPublicKeyHash" PROVE HashesHeard(g)
    OBVIOUS
  <2>0. HashesHeard(f) /\ f.op # Confirmations
    BY DEF Heard, Confirmations
  <2>1. n <= 3
    BY <2>0 DEF HashesHeard, n
  <2>2. n = 1 \/ n = 2
    BY <2>1, TxHashesStep, Kinds DEF n
  <2>3. CASE n = 1
    <3>1. NextStep(f) = Request("getHistory", "p2pkh")
      BY <2>1, <2>3, TxHashesStep DEF n
    <3>2. History(value, "p2pkh")
      BY <2>0, <3>1, RepliesTrue DEF value
    <3> QED  BY <1>1, <2>3, <3>2 DEF HashesHeard
  <2>4. CASE n = 2
    <3>1. NextStep(f) = Request("getHistory", "p2wpkh")
      BY <2>1, <2>4, TxHashesStep DEF n
    <3>2. History(value, "p2wpkh")
      BY <2>0, <3>1, RepliesTrue DEF value
    <3>3. History(f.got[2], "p2pkh") /\ g.got[2] = f.got[2]
      BY <1>1, <2>0, <2>4 DEF HashesHeard, n
    <3> QED  BY <1>1, <2>4, <3>2, <3>3 DEF HashesHeard
  <2> QED  BY <2>2, <2>3, <2>4
<1>4. f.op = "getTransactionHistory" => HistoryHeard(g)
  <2> SUFFICES ASSUME f.op = "getTransactionHistory" PROVE HistoryHeard(g)
    OBVIOUS
  <2>0. HistoryHeard(f) /\ f.op # Confirmations
    BY DEF Heard, Confirmations
  <2>1. n = 1
    <3>1. n # 0
      BY HistoryStep, Kinds DEF n
    <3>2. n # 2
      BY HistoryStep, Kinds DEF n
    <3>3. ~(n > 2)
      BY HistoryStep, Kinds DEF n
    <3> QED  BY <1>1, <3>1, <3>2, <3>3, Few
  <2>2. NextStep(f) = Request("getHistory", f.arg[1])
    BY <2>1, HistoryStep DEF n
  <2>3. f.arg[1] = "p2wpkh"
    BY <2>0 DEF HistoryHeard
  <2>4. History(value, "p2wpkh") /\ g.got[2] = value
    BY <1>1, <2>0, <2>1, <2>2, <2>3, RepliesTrue DEF value
  <2>5. Len(g.got) = 2
    BY <1>1, <2>1
  <2> QED  BY <1>1, <2>0, <2>4, <2>5 DEF HistoryHeard
<1>5. f.op = Confirmations => ConfirmationsHeard(g)
  <2> SUFFICES ASSUME f.op = Confirmations PROVE ConfirmationsHeard(g)
    OBVIOUS
  <2>0. ConfirmationsHeard(f)
    BY DEF Heard
  <2>1. CASE f.got = <<>>
    <3>1. n = 0 /\ f.calls = 0
      BY <1>1, <2>0, <2>1 DEF ConfirmationsHeard, n
    <3> QED  BY <1>1, <3>1 DEF ConfirmationsHeard
  <2>2. CASE f.got # <<>>
    <3>1. Hits(f) = {}
      <4> SUFFICES ASSUME Hits(f) # {} PROVE FALSE
        OBVIOUS
      <4> DEFINE found == (CHOOSE item \in Hits(f) : TRUE).height
      <4>1. NextStep(f) = IF found <= 0 THEN Return(0)
                          ELSE IF f.calls = 0 THEN Call("latestBlockHeight", "none")
                          ELSE Return(ConfirmationsAt(f.got[Len(f.got)], found))
        BY <2>2, ConfirmationsStep
      <4> HIDE DEF found
      <4> QED  BY <4>1, Kinds
    <3>2. f.calls = 0
      BY <2>0, <3>1 DEF ConfirmationsHeard
    <3>3. PICK s : NextStep(f) = Request("getHistory", s)
      <4>1. NextStep(f) = Throw \/ \E s : NextStep(f) = Request("getHistory", s)
        BY <2>2, <3>1, ConfirmationsStep
      <4> QED  BY <4>1, Kinds
    <3>4. TrueItems(value)
      BY <3>3, RepliesTrue DEF value
    <3>5. \A i \in 2..n : TrueItems(f.got[i])
      BY <1>1, <2>0, <3>2 DEF ConfirmationsHeard, n
    <3>6. \A i \in 2..(n + 1) : TrueItems(g.got[i])
      <4> SUFFICES ASSUME NEW i \in 2..(n + 1) PROVE TrueItems(g.got[i])
        OBVIOUS
      <4>1. CASE i = n + 1
        BY <1>1, <3>4, <4>1
      <4>2. CASE i # n + 1
        <5>1. i \in 2..n /\ i \in 1..n
          BY <1>1, <4>2
        <5> QED  BY <1>1, <3>5, <5>1
      <4> QED  BY <4>1, <4>2
    <3> QED  BY <1>1, <3>2, <3>6 DEF ConfirmationsHeard
  <2> QED  BY <2>1, <2>2
<1>6. f.op \in Single => SingleHeard(g)
  <2> SUFFICES ASSUME f.op \in Single PROVE SingleHeard(g)
    OBVIOUS
  <2> QED  BY SingleRequestHeard
<1> QED  BY <1>1, <1>2, <1>3, <1>4, <1>5, <1>6 DEF Heard

\* The values a call gets when all the calls it made have returned.
GotAll(old, new, values) ==
    /\ \E S : new \in Seq(S)
    /\ Len(new) = Len(old) + Len(values)
    /\ \A i \in 1..Len(old) : new[i] = old[i]
    /\ \A k \in 1..Len(values) : new[Len(old) + k] = values[k]

LEMMA GotAllFacts ==
    ASSUME NEW list, NEW values, \E S : list \in Seq(S), \E S : values \in Seq(S)
    PROVE  GotAll(list, list \o values, values)
<1>1. PICK S : list \in Seq(S)
  OBVIOUS
<1>2. PICK T : values \in Seq(T)
  OBVIOUS
<1> DEFINE U == S \union T
<1>3. list \in Seq(U) /\ values \in Seq(U) /\ Len(list) \in Nat /\ Len(values) \in Nat
  BY <1>1, <1>2
<1> HIDE DEF U
<1>4. /\ list \o values \in Seq(U)
      /\ Len(list \o values) = Len(list) + Len(values)
      /\ \A i \in 1..(Len(list) + Len(values)) :
            (list \o values)[i] = IF i <= Len(list) THEN list[i] ELSE values[i - Len(list)]
  BY <1>3
<1>5. \A i \in 1..Len(list) : (list \o values)[i] = list[i]
  BY <1>3, <1>4
<1>6. ASSUME NEW k \in 1..Len(values) PROVE (list \o values)[Len(list) + k] = values[k]
  <2>1. /\ Len(list) + k \in 1..(Len(list) + Len(values)) /\ ~(Len(list) + k <= Len(list))
        /\ Len(list) + k - Len(list) = k
    BY <1>3
  <2> QED  BY <1>4, <2>1
<1> QED  BY <1>4, <1>5, <1>6 DEF GotAll

\* What the calls a call has made return to it.
ReturnedTo(f, values) ==
    /\ values \in [1..Len(NextStep(f).args) -> {values[k] : k \in DOMAIN values}]
    /\ \A k \in 1..Len(NextStep(f).args) :
          /\ NextStep(f).op = "getTransaction" => values[k] = NextStep(f).args[k]
          /\ NextStep(f).op = "latestBlockHeight" => TipTold(values[k])

LEMMA SameHits ==
    ASSUME NEW f, NEW h, IsFrame(f), IsFrame(h), f.arg \in BitcoinTransaction, h.arg = f.arg,
           h.calls = f.calls + 1, Len(h.got) = Len(f.got) + 1,
           \A i \in 1..Len(f.got) : h.got[i] = f.got[i]
    PROVE  Hits(h) = Hits(f)
<1> DEFINE asked(g) == {i \in DOMAIN OutputScripts[g.arg] : i + 1 <= Len(g.got) - g.calls}
           hit(g, i) == {item \in ToSet(g.got[i + 1]) : item.tx = g.arg}
<1>1. Hits(f) = UNION {hit(f, i) : i \in asked(f)} /\ Hits(h) = UNION {hit(h, i) : i \in asked(h)}
  BY DEF Hits
<1>2. /\ Len(f.got) \in Nat /\ f.calls \in Nat
      /\ h.calls = f.calls + 1 /\ Len(h.got) = Len(f.got) + 1
  BY DEF IsFrame
<1>3. asked(h) = asked(f)
  <2>1. PICK n, c : n = Len(f.got) /\ c = f.calls
    OBVIOUS
  <2>2. n \in Nat /\ c \in Nat /\ (n + 1) - (c + 1) = n - c
    BY <1>2, <2>1
  <2>3. Len(h.got) - h.calls = Len(f.got) - f.calls
    BY <1>2, <2>1, <2>2
  <2> QED  BY <2>3
<1>4. ASSUME NEW i \in asked(f) PROVE hit(h, i) = hit(f, i)
  <2>1. OutputScripts[f.arg] \in Seq(STRING)
    BY ElectrumAssumption
  <2>2. i \in 1..Len(OutputScripts[f.arg]) /\ i + 1 <= Len(f.got) - f.calls
    BY <2>1
  <2>3. i + 1 \in 1..Len(f.got)
    BY <1>2, <2>2
  <2>4. h.got[i + 1] = f.got[i + 1]
    BY <2>3
  <2> QED  BY <2>4
<1> HIDE DEF asked, hit
<1> QED  BY <1>1, <1>3, <1>4

\* The confirmed part of a history, sorted.
LEMMA HistoryTold ==
    ASSUME NEW list, TrueItems(list)
    PROVE  /\ ConfirmedItems(SortedByHeight(Confirmed(list)))
           /\ SortedByHeight(Confirmed(list)) \in Seq(Items)
           /\ \A item \in ToSet(list) : ConfirmedThen(item.tx) =>
                  item \in ToSet(SortedByHeight(Confirmed(list)))
<1>1. list \in Seq(Items) /\ \A item \in ToSet(list) : TrueItem(item)
  BY DEF TrueItems
<1> DEFINE confirmed == Confirmed(list)
           sorted == SortedByHeight(confirmed)
<1>2. confirmed \in Seq(Items) /\ ToSet(confirmed) = {item \in ToSet(list) : item.height > 0}
  BY <1>1, ConfirmedFacts
<1> HIDE DEF confirmed
<1>3. sorted \in Seq(Items) /\ ToSet(sorted) = ToSet(confirmed) /\ InOrder(sorted)
  BY <1>2, SortedFacts
<1> HIDE DEF sorted
<1>4. ConfirmedItems(sorted)
  BY <1>1, <1>2, <1>3 DEF ConfirmedItems, TrueItems
<1>5. \A item \in ToSet(list) : ConfirmedThen(item.tx) => item \in ToSet(sorted)
  BY <1>1, <1>2, <1>3 DEF TrueItem
<1> QED  BY <1>3, <1>4, <1>5 DEF sorted, confirmed

LEMMA LimitedTold ==
    ASSUME NEW list, list \in Seq(Items), ConfirmedItems(list), NEW limit \in Nat
    PROVE  ConfirmedItems(Limited(list, limit)) /\ Limited(list, limit) \in Seq(Items)
<1>1. /\ Limited(list, limit) \in Seq(Items)
      /\ ToSet(Limited(list, limit)) \subseteq ToSet(list)
      /\ InOrder(list) => InOrder(Limited(list, limit))
  BY LimitedFacts
<1> QED  BY <1>1 DEF ConfirmedItems, TrueItems

\* The items whose transactions are fetched.
LEMMA FetchedFacts ==
    ASSUME NEW f, HistoryHeard(f), Len(f.got) \in Nat, Len(f.got) >= 2
    PROVE  /\ ConfirmedItems(Fetched(f)) /\ Fetched(f) \in Seq(Items)
           /\ Len(Fetched(f)) \in Nat /\ DOMAIN Fetched(f) = 1..Len(Fetched(f))
           /\ f.arg[2] = 0 => \A item \in ToSet(f.got[2]) : ConfirmedThen(item.tx) =>
                                  item \in ToSet(Fetched(f))
<1>1. TrueItems(f.got[2]) /\ f.arg[2] \in Nat
  BY DEF HistoryHeard, History
<1> DEFINE sorted == SortedByHeight(Confirmed(f.got[2]))
<1>2. /\ ConfirmedItems(sorted) /\ sorted \in Seq(Items)
      /\ \A item \in ToSet(f.got[2]) : ConfirmedThen(item.tx) => item \in ToSet(sorted)
  BY <1>1, HistoryTold
<1>3. Fetched(f) = Limited(sorted, f.arg[2])
  BY DEF Fetched
<1> HIDE DEF sorted
<1>4. ConfirmedItems(Fetched(f)) /\ Fetched(f) \in Seq(Items)
  BY <1>1, <1>2, <1>3, LimitedTold
<1>5. f.arg[2] = 0 => Fetched(f) = sorted
  BY <1>1, <1>2, <1>3, LimitedFacts
<1> QED  BY <1>2, <1>4, <1>5

LEMMA HashesFacts ==
    ASSUME NEW items \in Seq(Items)
    PROVE  /\ Len(Hashes(items)) = Len(items) /\ DOMAIN Hashes(items) = DOMAIN items
           /\ \A i \in DOMAIN items : Hashes(items)[i] = items[i].tx
<1>1. Len(items) \in Nat /\ DOMAIN items = 1..Len(items)
  OBVIOUS
<1>2. Hashes(items) = [i \in 1..Len(items) |-> items[i].tx]
  BY <1>1 DEF Hashes
<1> QED  BY <1>1, <1>2

\* What calls return is to their caller what a reply is to themselves.
LEMMA ReturnHeard ==
    ASSUME NEW f, IsFrame(f), Heard(f), NextStep(f).do = "calls", NEW values,
           ReturnedTo(f, values), Len(values) = Len(NextStep(f).args),
           NEW h, IsFrame(h), h.op = f.op, h.arg = f.arg, h.calls = f.calls + 1,
           GotAll(f.got, h.got, values)
    PROVE  Heard(h)
<1>1. Len(f.got) \in Nat /\ f.calls \in Nat /\ (f.got = <<>> <=> Len(f.got) = 0)
  BY DEF IsFrame
<1>2. /\ Len(h.got) = Len(f.got) + Len(values)
      /\ \A i \in 1..Len(f.got) : h.got[i] = f.got[i]
      /\ \A k \in 1..Len(values) : h.got[Len(f.got) + k] = values[k]
  BY DEF GotAll
<1>3. CASE NextStep(f) = Call("getNetwork", "none")
           /\ f.op \in Several \ {Confirmations} /\ Len(f.got) = 0
  <2>1. NextStep(f).args = <<"none">>
    BY <1>3, Kinds
  <2>2. Len(h.got) = 1
    <3>1. Len(values) = 1
      BY <2>1
    <3> QED  BY <1>2, <1>3, <3>1
  <2>3. f.op = "getTransactionHistory" => HistoryHeard(h)
    BY <2>2 DEF Heard, HistoryHeard
  <2> QED  BY <1>3, <2>2, <2>3
           DEF Heard, HashesHeard, Several, Single, AboutTransaction, Confirmations
<1>4. CASE NextStep(f) = Calls("getTransaction", Hashes(Fetched(f)))
           /\ f.op = "getTransactionHistory" /\ Len(f.got) = 2 /\ Fetched(f) # <<>>
  <2>1. HistoryHeard(f)
    BY <1>4 DEF Heard
  <2>2. Fetched(f) \in Seq(Items) /\ Len(Fetched(f)) \in Nat
        /\ DOMAIN Fetched(f) = 1..Len(Fetched(f))
    <3>1. Len(f.got) \in Nat /\ Len(f.got) >= 2
      BY <1>4
    <3> QED  BY <2>1, <3>1, FetchedFacts
  <2>3. NextStep(f).op = "getTransaction" /\ NextStep(f).args = Hashes(Fetched(f))
    BY <1>4, Kinds
  <2>4. /\ Len(values) = Len(Fetched(f))
        /\ \A k \in DOMAIN Fetched(f) : values[k] = Fetched(f)[k].tx
    BY <2>2, <2>3, HashesFacts DEF ReturnedTo
  <2>5. h.got[2] = f.got[2]
    BY <1>2, <1>4
  <2>6. Fetched(h) = Fetched(f)
    BY <2>5 DEF Fetched
  <2>7. /\ Len(h.got) = Len(Fetched(h)) + 2
        /\ \A n \in DOMAIN Fetched(h) : h.got[n + 2] = Fetched(h)[n].tx
    <3>1. Len(h.got) = Len(Fetched(f)) + 2
      BY <1>2, <1>4, <2>2, <2>4
    <3>2. ASSUME NEW n \in DOMAIN Fetched(f) PROVE h.got[n + 2] = Fetched(f)[n].tx
      <4>1. n \in 1..Len(values) /\ n + 2 = Len(f.got) + n
        BY <1>4, <2>2, <2>4
      <4> QED  BY <1>2, <2>4, <4>1
    <3> QED  BY <2>6, <3>1, <3>2
  <2>8. HistoryHeard(h)
    BY <1>4, <2>1, <2>5, <2>7 DEF HistoryHeard
  <2> QED  BY <1>4, <2>8 DEF Heard, Single, Several, AboutTransaction, Confirmations
<1>5. CASE NextStep(f) = Call("latestBlockHeight", "none")
           /\ f.op = Confirmations /\ f.got # <<>> /\ f.calls = 0 /\ Hits(f) # {}
  <2>1. ConfirmationsHeard(f) /\ f.arg \in BitcoinTransaction
    BY <1>5 DEF Heard, AboutTransaction, Confirmations
  <2>2. NextStep(f).op = "latestBlockHeight" /\ NextStep(f).args = <<"none">>
    BY <1>5, Kinds
  <2>3. Len(values) = 1 /\ TipTold(values[1])
    BY <2>2 DEF ReturnedTo
  <2>4. Len(h.got) = Len(f.got) + 1 /\ h.got[Len(h.got)] = values[1] /\ h.calls = 1
    <3>1. Len(h.got) = Len(f.got) + 1
      BY <1>2, <2>3
    <3>2. 1 \in 1..Len(values)
      BY <2>3
    <3>3. h.calls = 1
      BY <1>5
    <3> QED  BY <1>2, <3>1, <3>2, <3>3
  <2>5. Hits(h) = Hits(f)
    BY <1>2, <2>1, <2>4, SameHits
  <2>6. Len(h.got) - h.calls = Len(f.got) /\ Len(f.got) - f.calls = Len(f.got)
        /\ h.calls <= Len(h.got)
    BY <1>1, <1>5, <2>4
  <2>7. \A n \in 2..Len(f.got) : TrueItems(h.got[n])
    BY <1>1, <1>2, <2>1, <2>6 DEF ConfirmationsHeard
  <2>8. ConfirmationsHeard(h)
    BY <1>5, <2>3, <2>4, <2>5, <2>6, <2>7 DEF ConfirmationsHeard
  <2> QED  BY <1>5, <2>1, <2>8 DEF Heard, Single, Several, AboutTransaction, Confirmations
<1> QED  BY <1>3, <1>4, <1>5, CallsMade

\* A call of one request returns the one thing it has heard.
LEMMA OnceReturns ==
    ASSUME NEW g, g.op \in Single
    PROVE  /\ NextStep(g).do \in {"request", "return"}
           /\ NextStep(g).do = "return" => g.got # <<>> /\ NextStep(g).value = g.got[1]
<1>1. PICK method : NextStep(g) = IF g.got = <<>> THEN Request(method, g.arg)
                                                  ELSE Return(g.got[1])
  BY OnceStep
<1> QED  BY <1>1, Kinds

-----------------------------------------------------------------------------
\* What is answered, true since it was.
ConfirmationsTrue(t, value) ==
    /\ t \in BitcoinTransaction /\ value \in Int /\ value >= 0
    /\ ConfirmedThen(t) => \E s \in Server : value >= before.tip[s] - before.txHeight[t] + 1
    /\ value > 0 => txHeight[t] > 0 /\ value <= height - txHeight[t] + 1
Told(op, arg, value) ==
    /\ op = Confirmations => ConfirmationsTrue(arg, value)
    /\ op = "latestBlockHeight" => TipTold(value)
    /\ op = "getTxHashesForPublicKeyHash" =>
          HistoryTrue(value, {"p2pkh", "p2wpkh"}, TRUE) /\ ToSet(value) \subseteq BitcoinTransaction
    /\ op = "getTransactionHistory" =>
          HistoryTrue(value, {"p2wpkh"}, arg[2] = 0) /\ ToSet(value) \subseteq BitcoinTransaction

\* The transactions of confirmed items.
LEMMA TransactionsTold ==
    ASSUME NEW list, ConfirmedItems(list), NEW hashes, DOMAIN hashes = DOMAIN list,
           \A i \in DOMAIN list : hashes[i] = list[i].tx
    PROVE  /\ \A t \in ToSet(hashes) : t \in BitcoinTransaction /\ txHeight[t] > 0
           /\ Ordered(hashes)
           /\ \A item \in ToSet(list) : item.tx \in ToSet(hashes)
<1>1. ASSUME NEW i \in DOMAIN list
      PROVE  list[i].tx \in BitcoinTransaction /\ txHeight[list[i].tx] = list[i].height
             /\ list[i].height > 0
  <2>1. list[i] \in ToSet(list)
    BY DEF ToSet
  <2>2. list[i] \in Items
    BY DEF ConfirmedItems, TrueItems
  <2>3. TrueItem(list[i]) /\ list[i].height > 0
    BY <2>1 DEF ConfirmedItems, TrueItems
  <2> QED  BY <2>2, <2>3 DEF TrueItem, Items
<1>2. \A t \in ToSet(hashes) : t \in BitcoinTransaction /\ txHeight[t] > 0
  BY <1>1 DEF ToSet
<1>3. Ordered(hashes)
  BY <1>1 DEF Ordered, ConfirmedItems, InOrder
<1>4. \A item \in ToSet(list) : item.tx \in ToSet(hashes)
  BY DEF ToSet
<1> QED  BY <1>2, <1>3, <1>4

\* A history has what every server had in a block before the call, sorted.
LEMMA TransactionHistoryTold ==
    ASSUME NEW f, IsFrame(f), Heard(f), f.op = "getTransactionHistory",
           NextStep(f).do = "return"
    PROVE  Told(f.op, f.arg, NextStep(f).value)
<1>1. HistoryHeard(f)
  BY DEF Heard
<1> DEFINE n == Len(f.got)
           items == Fetched(f)
           value == NextStep(f).value
<1>2. n \in Nat /\ \E S : f.got \in Seq(S)
  BY DEF IsFrame
<1>3. n = 2 \/ n > 2
  <2>1. n # 0 /\ n # 1
    BY HistoryStep, Kinds
  <2> HIDE DEF n
  <2> QED  BY <1>2, <2>1, Few
<1>4. n >= 2
  <2> HIDE DEF n
  <2> QED  BY <1>2, <1>3
<1>5. /\ ConfirmedItems(items) /\ items \in Seq(Items)
      /\ Len(items) \in Nat /\ DOMAIN items = 1..Len(items)
      /\ f.arg[2] = 0 => \A item \in ToSet(f.got[2]) : ConfirmedThen(item.tx) =>
                             item \in ToSet(items)
  BY <1>1, <1>2, <1>4, FetchedFacts
<1>6. HasAllOf(f.got[2], "p2wpkh")
  BY <1>1, <1>4 DEF HistoryHeard, History
<1>7. DOMAIN value = DOMAIN items /\ \A i \in DOMAIN items : value[i] = items[i].tx
  <2>1. CASE n = 2
    <3>1. items = <<>> /\ NextStep(f) = Return(<<>>)
      BY <2>1, HistoryStep, Kinds
    <3>2. value = <<>>
      BY <3>1, Kinds
    <3> QED  BY <3>1, <3>2
  <2>2. CASE n > 2
    <3>1. n = Len(items) + 2 /\ \A i \in DOMAIN items : f.got[i + 2] = items[i].tx
      BY <1>1, <2>2 DEF HistoryHeard
    <3>2. value = SubSeq(f.got, 3, n)
      <4>1. NextStep(f) = Return(SubSeq(f.got, 3, n))
        BY <2>2, HistoryStep
      <4>2. \A v : Return(v).value = v
        BY ONLY Kinds
      <4> QED  BY ONLY <4>1, <4>2
    <3>3. PICK S : f.got \in Seq(S)
      BY <1>2
    <3>4. 3 \in 1..n /\ n \in 1..n
      BY <1>5, <3>1, <2>2
    <3>5. /\ Len(value) = n - 2 /\ DOMAIN value = 1..Len(value)
          /\ \A i \in 1..Len(value) : value[i] = f.got[2 + i]
      BY <3>2, <3>3, <3>4
    <3> HIDE DEF n, value, items
    <3>6. Len(value) = Len(items)
      BY <1>5, <3>1, <3>5
    <3>7. \A i \in DOMAIN items : value[i] = f.got[i + 2]
      BY <1>5, <3>5, <3>6
    <3> QED  BY <1>5, <3>1, <3>5, <3>6, <3>7
  <2> QED  BY <1>3, <2>1, <2>2
<1> HIDE DEF value, items, n
<1>8. /\ \A t \in ToSet(value) : t \in BitcoinTransaction /\ txHeight[t] > 0
      /\ Ordered(value)
      /\ \A item \in ToSet(items) : item.tx \in ToSet(value)
  BY <1>5, <1>7, TransactionsTold
<1>9. ASSUME f.arg[2] = 0, NEW t \in BitcoinTransaction, ConfirmedThen(t), PaysTo(t, "p2wpkh")
      PROVE  t \in ToSet(value)
  <2>1. PICK item \in ToSet(f.got[2]) : item.tx = t
    BY <1>6, <1>9 DEF HasAllOf
  <2>2. item \in ToSet(items)
    BY <1>5, <1>9, <2>1
  <2> QED  BY <1>8, <2>1, <2>2
<1>10. HistoryTrue(value, {"p2wpkh"}, f.arg[2] = 0) /\ ToSet(value) \subseteq BitcoinTransaction
  BY <1>8, <1>9 DEF HistoryTrue
<1> QED  BY <1>10 DEF Told, Confirmations, value

LEMMA TxHashesTold ==
    ASSUME NEW f, IsFrame(f), Heard(f), f.op = "getTxHashesForPublicKeyHash",
           NextStep(f).do = "return"
    PROVE  Told(f.op, f.arg, NextStep(f).value)
<1>1. HashesHeard(f)
  BY DEF Heard
<1>2. Len(f.got) <= 3
  BY <1>1 DEF HashesHeard
<1>3. Len(f.got) = 3
  BY <1>2, TxHashesStep, Kinds
<1> DEFINE a == Confirmed(f.got[2])
           b == Confirmed(f.got[3])
           items == SortedByHeight(a \o b)
           value == Hashes(items)
<1>4. NextStep(f).value = value
  <2>1. NextStep(f) = Return(value)
    BY <1>2, <1>3, TxHashesStep DEF MergedByHeight
  <2> QED  BY ONLY <2>1 DEF Return
<1>5. History(f.got[2], "p2pkh") /\ History(f.got[3], "p2wpkh")
  BY <1>1, <1>3 DEF HashesHeard
<1>6. /\ f.got[2] \in Seq(Items) /\ f.got[3] \in Seq(Items)
      /\ \A item \in ToSet(f.got[2]) \union ToSet(f.got[3]) : TrueItem(item)
  BY <1>5 DEF History, TrueItems
<1>7. /\ a \in Seq(Items) /\ b \in Seq(Items)
      /\ ToSet(a) = {item \in ToSet(f.got[2]) : item.height > 0}
      /\ ToSet(b) = {item \in ToSet(f.got[3]) : item.height > 0}
  BY <1>6, ConfirmedFacts
<1> HIDE DEF a, b
<1>8. a \o b \in Seq(Items) /\ ToSet(a \o b) = ToSet(a) \union ToSet(b)
  <2>1. /\ a \o b \in Seq(Items) /\ Len(a \o b) = Len(a) + Len(b)
        /\ Len(a) \in Nat /\ Len(b) \in Nat
        /\ \A i \in 1..(Len(a) + Len(b)) :
              (a \o b)[i] = IF i <= Len(a) THEN a[i] ELSE b[i - Len(a)]
    BY <1>7
  <2> DEFINE c == a \o b
  <2>2. /\ DOMAIN a = 1..Len(a) /\ DOMAIN b = 1..Len(b) /\ DOMAIN c = 1..(Len(a) + Len(b))
    BY <1>7, <2>1
  <2> HIDE DEF c
  <2>3. ASSUME NEW item \in ToSet(c) PROVE item \in ToSet(a) \union ToSet(b)
    <3>1. PICK i \in DOMAIN c : c[i] = item
      BY DEF ToSet
    <3>2. CASE i <= Len(a)
      BY <2>1, <2>2, <3>1, <3>2 DEF ToSet, c
    <3>3. CASE ~(i <= Len(a))
      <4>1. i - Len(a) \in DOMAIN b
        BY <2>1, <2>2, <3>3
      <4> QED  BY <2>1, <2>2, <3>1, <3>3, <4>1 DEF ToSet, c
    <3> QED  BY <3>2, <3>3
  <2>4. ASSUME NEW item \in ToSet(a) PROVE item \in ToSet(c)
    <3>1. PICK i \in DOMAIN a : a[i] = item
      BY DEF ToSet
    <3>2. i \in DOMAIN c /\ c[i] = item
      BY <2>1, <2>2, <3>1 DEF c
    <3> QED  BY <3>2 DEF ToSet
  <2>5. ASSUME NEW item \in ToSet(b) PROVE item \in ToSet(c)
    <3>1. PICK i \in DOMAIN b : b[i] = item
      BY DEF ToSet
    <3>2. Len(a) + i \in DOMAIN c /\ ~(Len(a) + i <= Len(a)) /\ Len(a) + i - Len(a) = i
      BY <2>1, <2>2
    <3>3. c[Len(a) + i] = item
      BY <2>1, <2>2, <3>1, <3>2 DEF c
    <3> QED  BY <3>2, <3>3 DEF ToSet
  <2> QED  BY <2>1, <2>3, <2>4, <2>5 DEF c
<1>9. items \in Seq(Items) /\ ToSet(items) = ToSet(a \o b) /\ InOrder(items)
  BY <1>8, SortedFacts
<1> HIDE DEF items
<1>10. ConfirmedItems(items)
  BY <1>6, <1>7, <1>8, <1>9 DEF ConfirmedItems, TrueItems
<1>11. DOMAIN value = DOMAIN items /\ \A i \in DOMAIN items : value[i] = items[i].tx
  BY DEF Hashes
<1> HIDE DEF value
<1>12. /\ \A t \in ToSet(value) : t \in BitcoinTransaction /\ txHeight[t] > 0
       /\ Ordered(value)
       /\ \A item \in ToSet(items) : item.tx \in ToSet(value)
  BY <1>10, <1>11, TransactionsTold
<1>13. ASSUME NEW t \in BitcoinTransaction, ConfirmedThen(t),
              PaysTo(t, "p2pkh") \/ PaysTo(t, "p2wpkh")
       PROVE  t \in ToSet(value)
  <2>1. PICK item \in ToSet(f.got[2]) \union ToSet(f.got[3]) : item.tx = t
    BY <1>5, <1>13 DEF History, HasAllOf
  <2>2. item.height > 0
    BY <1>6, <1>13, <2>1 DEF TrueItem
  <2>3. item \in ToSet(items)
    BY <1>7, <1>8, <1>9, <2>1, <2>2
  <2> QED  BY <1>12, <2>1, <2>3
<1>14. HistoryTrue(value, {"p2pkh", "p2wpkh"}, TRUE) /\ ToSet(value) \subseteq BitcoinTransaction
  BY <1>12, <1>13 DEF HistoryTrue
<1> QED  BY <1>4, <1>14 DEF Told, Confirmations

LEMMA ConfirmationsTold ==
    ASSUME WorldInv, NEW f, IsFrame(f), Heard(f), f.op = Confirmations,
           NextStep(f).do = "return"
    PROVE  Told(f.op, f.arg, NextStep(f).value)
<1> DEFINE found == (CHOOSE item \in Hits(f) : TRUE).height
           n == Len(f.got)
           t == f.arg
           latest == f.got[n]
           value == NextStep(f).value
<1>1. ConfirmationsHeard(f) /\ t \in BitcoinTransaction
  BY DEF Heard, AboutTransaction, Confirmations
<1>2. n \in Nat /\ f.calls \in Nat
  BY DEF IsFrame
<1>3. f.got # <<>> /\ Hits(f) # {}
  BY ConfirmationsStep, Kinds
<1>4. NextStep(f) = IF found <= 0 THEN Return(0)
                    ELSE IF f.calls = 0 THEN Call("latestBlockHeight", "none")
                    ELSE Return(ConfirmationsAt(latest, found))
  BY <1>3, ConfirmationsStep
<1>5. PICK item \in Hits(f) : found = item.height
  BY <1>3
<1>6. PICK i : /\ i + 1 \in 2..(n - f.calls) /\ item \in ToSet(f.got[i + 1]) /\ item.tx = t
  <2>1. PICK i \in DOMAIN OutputScripts[t] :
             /\ i + 1 <= n - f.calls /\ item \in ToSet(f.got[i + 1]) /\ item.tx = t
    BY <1>5 DEF Hits
  <2>2. OutputScripts[t] \in Seq(STRING)
    BY <1>1, ElectrumAssumption
  <2>3. i \in Nat /\ i >= 1
    BY <2>2
  <2> HIDE DEF n, t
  <2>4. i + 1 \in 2..(n - f.calls)
    BY <1>2, <2>1, <2>3
  <2> QED  BY <2>1, <2>4
<1>7. TrueItems(f.got[i + 1])
  BY <1>1, <1>6 DEF ConfirmationsHeard
<1>8. TrueItem(item) /\ item.height \in Nat
  <2>1. item \in Items
    BY <1>6, <1>7 DEF TrueItems, ToSet
  <2> QED  BY <1>6, <1>7, <2>1 DEF TrueItems, Items
<1>9. f.calls # 0 => TipTold(latest)
  BY <1>1 DEF ConfirmationsHeard
<1>10. /\ found \in Nat
       /\ found > 0 => txHeight[t] = found
       /\ ConfirmedThen(t) => found > 0
  BY <1>5, <1>6, <1>8 DEF TrueItem
<1> HIDE DEF found, n, latest, value
<1>11. CASE found <= 0
  <2>1. value = 0
    BY <1>4, <1>11, Kinds DEF value
  <2>2. ~ConfirmedThen(t)
    BY <1>10, <1>11
  <2>3. ConfirmationsTrue(t, value)
    BY <1>1, <2>1, <2>2 DEF ConfirmationsTrue
  <2> QED  BY <2>3 DEF Told, Confirmations, value
<1>12. CASE ~(found <= 0)
  <2>1. f.calls # 0
    BY <1>4, <1>12, Kinds
  <2>2. value = ConfirmationsAt(latest, found)
    BY <1>4, <1>12, <2>1, Kinds DEF value
  <2>3. latest \in Nat /\ latest <= height /\ \E s \in Server : latest >= before.tip[s]
    BY <1>9, <2>1 DEF TipTold
  <2>4. value = (IF latest >= found THEN latest - found + 1 ELSE 0) /\ found > 0
        /\ txHeight[t] = found
    BY <1>10, <1>12, <2>2 DEF ConfirmationsAt
  <2>5. height \in Nat
    BY DEF WorldInv
  <2>6. value \in Int /\ value >= 0 /\ (value > 0 => value <= height - found + 1)
    BY <1>10, <2>3, <2>4, <2>5
  <2>7. ASSUME ConfirmedThen(t)
        PROVE  \E s \in Server : value >= before.tip[s] - before.txHeight[t] + 1
    <3>1. PICK s \in Server : latest >= before.tip[s]
      BY <2>3
    <3>2. txHeight[t] = before.txHeight[t] /\ txHeight[t] <= before.tip[s]
      BY <1>1, <2>7, ConfirmedStays
    <3>3. before.tip[s] \in Nat
      BY DEF WorldInv
    <3>4. value >= before.tip[s] - found + 1
      BY <1>10, <2>3, <2>4, <3>1, <3>2, <3>3
    <3> QED  BY <2>4, <3>2, <3>4
  <2>8. ConfirmationsTrue(t, value)
    BY <1>1, <2>4, <2>6, <2>7 DEF ConfirmationsTrue
  <2> QED  BY <2>8 DEF Told, Confirmations, value
<1> QED  BY <1>11, <1>12

\* Whatever a call answers.
LEMMA AnswersTold ==
    ASSUME WorldInv, NEW f, IsFrame(f), Heard(f), NextStep(f).do = "return"
    PROVE  Told(f.op, f.arg, NextStep(f).value)
<1>1. CASE f.op = "getTransactionHistory"
  BY <1>1, TransactionHistoryTold
<1>2. CASE f.op = "getTxHashesForPublicKeyHash"
  BY <1>2, TxHashesTold
<1>3. CASE f.op = Confirmations
  BY <1>3, ConfirmationsTold
<1>4. CASE f.op = "latestBlockHeight"
  <2>1. f.op \in Single
    BY <1>4 DEF Single
  <2>2. f.got # <<>> /\ NextStep(f).value = f.got[1]
    BY <2>1, OnceReturns
  <2>3. TipTold(f.got[1])
    BY <1>4, <2>1, <2>2 DEF Heard, SingleHeard
  <2> QED  BY <1>4, <2>2, <2>3 DEF Told, Confirmations
<1> QED  BY <1>1, <1>2, <1>3, <1>4 DEF Told

LEMMA ToldStays ==
    ASSUME WorldInv, Grows, NEW op, NEW arg, NEW value, Told(op, arg, value)
    PROVE  Told(op, arg, value)'
<1>1. \A t : ConfirmedThen(t)' <=> ConfirmedThen(t)
  BY DEF ConfirmedThen, Grows
<1>2. ASSUME op = Confirmations PROVE ConfirmationsTrue(arg, value)'
  <2>1. ConfirmationsTrue(arg, value)
    BY <1>2 DEF Told
  <2>2. /\ height \in Nat /\ height' \in Nat /\ height <= height' /\ before' = before
        /\ txHeight[arg] \in Int
        /\ txHeight[arg] > 0 => txHeight'[arg] = txHeight[arg]
    BY <2>1 DEF Grows, WorldInv, Grown, ConfirmationsTrue
  <2>3. value > 0 => txHeight'[arg] > 0 /\ value <= height' - txHeight'[arg] + 1
    <3> SUFFICES ASSUME value > 0
                 PROVE  txHeight'[arg] > 0 /\ value <= height' - txHeight'[arg] + 1
      OBVIOUS
    <3>1. PICK n, m, h : n = height /\ m = height' /\ h = txHeight[arg]
      OBVIOUS
    <3>2. /\ n \in Nat /\ m \in Nat /\ n <= m /\ h \in Int /\ h > 0 /\ value <= n - h + 1
          /\ txHeight'[arg] = h /\ value \in Int
      BY <2>1, <2>2, <3>1 DEF ConfirmationsTrue
    <3>3. value <= m - h + 1
      BY <3>2
    <3> QED  BY <3>1, <3>2, <3>3
  <2> QED  BY <1>1, <2>1, <2>2, <2>3 DEF ConfirmationsTrue
<1>3. op = "latestBlockHeight" => TipTold(value)'
  BY TipStays DEF Told
<1>4. ASSUME NEW hashes, ToSet(hashes) \subseteq BitcoinTransaction, NEW scripts, NEW whole,
             HistoryTrue(hashes, scripts, whole)
      PROVE  HistoryTrue(hashes, scripts, whole)'
  <2>1. \A t \in ToSet(hashes) : txHeight[t] > 0 /\ txHeight'[t] = txHeight[t]
    BY <1>4 DEF HistoryTrue, Grows, Grown
  <2>2. \A i \in DOMAIN hashes : txHeight'[hashes[i]] = txHeight[hashes[i]]
    BY <2>1 DEF ToSet
  <2>3. Ordered(hashes)'
    BY <1>4, <2>2 DEF HistoryTrue, Ordered
  <2> QED  BY <1>1, <1>4, <2>1, <2>3 DEF HistoryTrue
<1> QED  BY <1>2, <1>3, <1>4 DEF Told

-----------------------------------------------------------------------------
\* The calls in progress.  Only while the user waits does it matter what they hear: when it
\* has got an error, those that go on must only close their connections.
Excused(f) ==
    \/ f.op = Confirmations
    \/ f.op \in Knowing /\ ~ConfirmedThen(f.arg)
    \/ f.op = "broadcast" /\ f.arg \in BitcoinTransaction /\ txHeight[f.arg] > 0

\* Failures are counted by faults, except of requests a server may refuse.
Counted(root, f) ==
    /\ f.attempt <= RetryAttempts
    /\ f.server > 1 => Faults > RetryAttempts
    /\ f.status = "connecting" => f.attempt <= Faults
    /\ f.status = "connected" => f.attempt <= Faults \/ Excused(root)
AllCounted(list) == \A i \in DOMAIN list : Counted(list[1], list[i])

KidOf(f, g, k) ==
    /\ g.op = NextStep(f).op /\ g.arg = NextStep(f).args[k] /\ SingleHeard(g)
    /\ g.status = "returned" => g.got # <<>>
FramesHeard(list) ==
    /\ Heard(list[1])
    /\ Len(list) > 1 =>
          /\ list[1].status = "connected" /\ NextStep(list[1]).do = "calls"
          /\ Len(NextStep(list[1]).args) = Len(list) - 1
          /\ \A i \in DOMAIN list \ {1} : KidOf(list[1], list[i], i - 1)

TypedFrames(list) ==
    /\ \E S : list \in Seq(S)
    /\ \A i \in DOMAIN list : IsFrame(list[i])
    /\ \A i \in DOMAIN list \ {1} : list[i].op \in Single
InProgress(list) == list # <<>> /\ list[1].status # "over"

AnswerInv ==
    /\ answer.failed => answer.faults > RetryAttempts \/ Excused(answer)
    /\ frames # <<>> /\ frames[1].status = "over" => answer.failed
    /\ frames = <<>> /\ ~answer.failed => Told(answer.op, answer.arg, answer.value)
CallsInv ==
    /\ TypedFrames(frames)
    /\ InProgress(frames) => FramesHeard(frames) /\ AllCounted(frames)
    /\ AnswerInv

\* The faults of the call as a number of the state.
LEMMA FaultsGrow ==
    ASSUME WorldInv, Grows
    PROVE  /\ Faults \in Nat /\ Faults' \in Nat /\ Faults <= Faults'
           /\ electrumFaults' = electrumFaults + 1 => Faults' = Faults + 1
           /\ Faults' = electrumFaults' - faultsBefore
<1>1. /\ electrumFaults \in Nat /\ electrumFaults' \in Nat /\ faultsBefore \in Nat
      /\ electrumFaults <= electrumFaults' /\ faultsBefore' = faultsBefore
      /\ faultsBefore <= electrumFaults
  BY DEF Grows, WorldInv
<1>2. PICK n, m : n = electrumFaults /\ m = electrumFaults'
  OBVIOUS
<1>3. n \in Nat /\ m \in Nat /\ n <= m /\ faultsBefore \in Nat /\ faultsBefore <= n
  BY <1>1, <1>2
<1>4. Faults = n - faultsBefore /\ Faults' = m - faultsBefore
  BY <1>1, <1>2 DEF Faults
<1>5. n - faultsBefore \in Nat /\ m - faultsBefore \in Nat /\ n - faultsBefore <= m - faultsBefore
      /\ (m = n + 1 => m - faultsBefore = (n - faultsBefore) + 1)
  BY ONLY <1>3
<1> QED  BY <1>1, <1>2, <1>4, <1>5

LEMMA ExcusedStays ==
    ASSUME WorldInv, Grows, NEW f, Excused(f)
    PROVE  Excused(f)'
<1>1. f.op \in Knowing /\ ~ConfirmedThen(f.arg) => ~ConfirmedThen(f.arg)'
  BY DEF ConfirmedThen, Grows
<1>2. f.arg \in BitcoinTransaction /\ txHeight[f.arg] > 0 => txHeight'[f.arg] > 0
  BY DEF Grows, Grown
<1> QED  BY <1>1, <1>2 DEF Excused

LEMMA CountedStays ==
    ASSUME WorldInv, Grows, NEW root, NEW f, IsFrame(f), Counted(root, f)
    PROVE  Counted(root, f)'
<1>1. Faults \in Nat /\ Faults' \in Nat /\ Faults <= Faults'
  BY FaultsGrow
<1>2. RetryAttempts \in Nat /\ f.attempt \in Nat
  BY ElectrumAssumption DEF IsFrame
<1>3. PICK n, m : n = Faults /\ m = Faults'
  OBVIOUS
<1>4. n \in Nat /\ m \in Nat /\ n <= m
  BY <1>1, <1>3
<1>5. n > RetryAttempts => m > RetryAttempts
  BY ONLY <1>2, <1>4
<1>6. f.attempt <= n => f.attempt <= m
  BY <1>2, <1>4
<1>7. Excused(root) => Excused(root)'
  BY ExcusedStays
<1> QED  BY <1>3, <1>5, <1>6, <1>7 DEF Counted

LEMMA FramesStay ==
    ASSUME WorldInv, Grows, NEW list, FramesHeard(list)
    PROVE  FramesHeard(list)'
<1>1. Heard(list[1])'
  BY HeardStays DEF FramesHeard
<1>2. \A k, g : KidOf(list[1], g, k) => KidOf(list[1], g, k)'
  BY SingleStays DEF KidOf
<1> QED  BY <1>1, <1>2 DEF FramesHeard

LEMMA AnswerStays ==
    ASSUME WorldInv, Grows, AnswerInv, UNCHANGED <<frames, answer>>
    PROVE  AnswerInv'
<1>1. Excused(answer) => Excused(answer)'
  <2>1. \A f : Excused(f) => Excused(f)'
    BY ExcusedStays
  <2>2. PICK a : a = answer
    OBVIOUS
  <2>3. Excused(a) => Excused(a)'
    BY <2>1
  <2>4. answer' = a /\ answer = a
    BY <2>2
  <2> QED  BY <2>3, <2>4 DEF Excused
<1>2. Told(answer.op, answer.arg, answer.value) => Told(answer.op, answer.arg, answer.value)'
  <2>1. \A op, arg, value : Told(op, arg, value) => Told(op, arg, value)'
    BY ToldStays
  <2>2. PICK op, arg, value : op = answer.op /\ arg = answer.arg /\ value = answer.value
    OBVIOUS
  <2>3. Told(op, arg, value) => Told(op, arg, value)'
    BY <2>1
  <2>4. op = answer'.op /\ arg = answer'.arg /\ value = answer'.value
    BY <2>2
  <2> QED  BY <2>2, <2>3, <2>4
<1> QED  BY <1>1, <1>2 DEF AnswerInv

\* Nothing but the world changes.
LEMMA CallStays ==
    ASSUME WorldInv, Grows, CallsInv, UNCHANGED <<frames, answer>>
    PROVE  CallsInv'
<1>1. AnswerInv'
  BY AnswerStays DEF CallsInv
<1>2. TypedFrames(frames)'
  BY DEF CallsInv, TypedFrames, IsFrame
<1>3. PICK list : list = frames
  OBVIOUS
<1>4. ASSUME InProgress(frames)' PROVE (FramesHeard(frames) /\ AllCounted(frames))'
  <2>1. FramesHeard(list) /\ AllCounted(list) /\ TypedFrames(list)
    BY <1>3, <1>4 DEF CallsInv, InProgress
  <2>2. FramesHeard(list)'
    BY <2>1, FramesStay
  <2>3. AllCounted(list)'
    BY <2>1, CountedStays DEF AllCounted, TypedFrames
  <2>4. frames' = list
    BY <1>3
  <2> QED  BY <2>2, <2>3, <2>4
<1> QED  BY <1>1, <1>2, <1>4 DEF CallsInv

-----------------------------------------------------------------------------
\* One call of those in progress changes.
SameCall(f, g) ==
    IsFrame(g) /\ g.op = f.op /\ g.arg = f.arg /\ g.got = f.got /\ g.calls = f.calls
OneChanges(list, i, new) ==
    /\ \E S : new \in Seq(S)
    /\ Len(new) = Len(list) /\ DOMAIN new = DOMAIN list
    /\ \A j \in DOMAIN list \ {i} : new[j] = list[j]

LEMMA OneChangesExcept ==
    ASSUME NEW list, \E S : list \in Seq(S), NEW i \in DOMAIN list, NEW g
    PROVE  OneChanges(list, i, [list EXCEPT ![i] = g]) /\ [list EXCEPT ![i] = g][i] = g
<1>1. PICK S : list \in Seq(S)
  OBVIOUS
<1> DEFINE T == S \union {g}
<1>2. list \in Seq(T) /\ g \in T
  BY <1>1
<1> HIDE DEF T
<1>3. [list EXCEPT ![i] = g] \in Seq(T) /\ Len([list EXCEPT ![i] = g]) = Len(list)
  BY <1>2
<1> QED  BY <1>3 DEF OneChanges

LEMMA SameHeard ==
    ASSUME NEW f, NEW g, IsFrame(f), SameCall(f, g), Heard(f)
    PROVE  Heard(g)
<1>1. IsFrame(g) /\ g.op = f.op /\ g.arg = f.arg /\ g.got = f.got /\ g.calls = f.calls
  BY DEF SameCall
<1>2. Fetched(g) = Fetched(f)
  BY <1>1 DEF Fetched
<1>3. Hits(g) = Hits(f)
  <2> DEFINE asked(h) == {i \in DOMAIN OutputScripts[h.arg] : i + 1 <= Len(h.got) - h.calls}
             hit(h, i) == {item \in ToSet(h.got[i + 1]) : item.tx = h.arg}
  <2>1. Hits(f) = UNION {hit(f, i) : i \in asked(f)} /\ Hits(g) = UNION {hit(g, i) : i \in asked(g)}
    BY DEF Hits
  <2>2. asked(g) = asked(f)
    BY <1>1
  <2>3. \A i : hit(g, i) = hit(f, i)
    BY <1>1
  <2> HIDE DEF asked, hit
  <2> QED  BY <2>1, <2>2, <2>3
<1>4. SingleHeard(f) => SingleHeard(g)
  BY <1>1 DEF SingleHeard
<1>5. HashesHeard(f) => HashesHeard(g)
  BY <1>1 DEF HashesHeard
<1>6. HistoryHeard(f) => HistoryHeard(g)
  BY <1>1, <1>2 DEF HistoryHeard
<1>7. ConfirmationsHeard(f) => ConfirmationsHeard(g)
  BY <1>1, <1>3 DEF ConfirmationsHeard
<1> QED  BY <1>1, <1>4, <1>5, <1>6, <1>7 DEF Heard

LEMMA FramesReplaced ==
    ASSUME NEW list, TypedFrames(list), FramesHeard(list), NEW i \in DOMAIN list,
           NEW new, OneChanges(list, i, new), IsFrame(new[i]),
           new[i].op = list[i].op, new[i].arg = list[i].arg,
           i = 1 => Len(list) = 1 /\ Heard(new[1]),
           i # 1 => SingleHeard(new[i]) /\ (new[i].status = "returned" => new[i].got # <<>>)
    PROVE  TypedFrames(new) /\ FramesHeard(new)
<1>1. /\ \E S : new \in Seq(S)
      /\ Len(new) = Len(list) /\ DOMAIN new = DOMAIN list
      /\ \A j \in DOMAIN list \ {i} : new[j] = list[j]
  BY DEF OneChanges
<1>2. TypedFrames(new)
  BY <1>1 DEF TypedFrames
<1>3. CASE i = 1
  BY <1>1, <1>2, <1>3 DEF FramesHeard
<1>4. CASE i # 1
  <2>1. 1 \in DOMAIN list /\ new[1] = list[1]
    BY <1>1, <1>4 DEF TypedFrames
  <2>2. Heard(new[1])
    BY <2>1 DEF FramesHeard
  <2>3. ASSUME Len(list) > 1, NEW j \in DOMAIN list \ {1} PROVE KidOf(new[1], new[j], j - 1)
    <3>1. KidOf(list[1], list[j], j - 1)
      BY <2>3 DEF FramesHeard
    <3>2. CASE j # i
      BY <1>1, <2>1, <3>1, <3>2
    <3>3. CASE j = i
      BY <1>4, <2>1, <3>1, <3>3 DEF KidOf
    <3> QED  BY <3>2, <3>3
  <2> QED  BY <1>1, <1>2, <2>1, <2>2, <2>3 DEF FramesHeard
<1> QED  BY <1>2, <1>3, <1>4

\* One call's state changes, and what is counted of it still holds.
LEMMA CallReplaced ==
    ASSUME WorldInv, Grows, CallsInv, UNCHANGED answer, NEW list, list = frames,
           NEW i \in DOMAIN list, i = 1 => Len(list) = 1, list[i].status # "over",
           NEW new, frames' = new, OneChanges(list, i, new), IsFrame(new[i]),
           new[i].op = list[i].op, new[i].arg = list[i].arg,
           i = 1 => new[1].status # "over",
           InProgress(list) /\ i = 1 => Heard(new[1]),
           InProgress(list) /\ i # 1 =>
               SingleHeard(new[i]) /\ (new[i].status = "returned" => new[i].got # <<>>),
           InProgress(list) => Counted(list[1], new[i])'
    PROVE  CallsInv'
<1>1. /\ \E S : new \in Seq(S)
      /\ Len(new) = Len(list) /\ DOMAIN new = DOMAIN list
      /\ \A j \in DOMAIN list \ {i} : new[j] = list[j]
  BY DEF OneChanges
<1>2. TypedFrames(list) /\ 1 \in DOMAIN list
  BY DEF CallsInv, TypedFrames
<1>3. TypedFrames(new)
  BY <1>1, <1>2 DEF TypedFrames
<1>4. list # <<>> /\ new # <<>>
  BY <1>1, <1>2
<1>5. InProgress(new) <=> InProgress(list)
  BY <1>1, <1>2, <1>4 DEF InProgress
<1>6. new[1].op = list[1].op /\ new[1].arg = list[1].arg
  BY <1>1, <1>2
<1>7. ASSUME InProgress(list) PROVE FramesHeard(new)' /\ AllCounted(new)'
  <2>1. FramesHeard(list) /\ AllCounted(list)
    BY <1>7 DEF CallsInv
  <2>2. FramesHeard(new)
    BY <1>2, <1>7, <2>1, FramesReplaced
  <2>3. FramesHeard(new)'
    BY <2>2, FramesStay
  <2>4. Excused(list[1])' <=> Excused(new[1])'
    BY <1>6 DEF Excused
  <2>5. \A f : Counted(list[1], f)' => Counted(new[1], f)'
    BY <2>4 DEF Counted
  <2>6. ASSUME NEW j \in DOMAIN list PROVE Counted(list[1], new[j])'
    <3>1. CASE j = i
      BY <1>7, <3>1
    <3>2. CASE j # i
      <4>1. Counted(list[1], list[j]) /\ IsFrame(list[j])
        BY <1>2, <2>1 DEF AllCounted, TypedFrames
      <4>2. Counted(list[1], list[j])'
        BY <4>1, CountedStays
      <4> QED  BY <1>1, <3>2, <4>2
    <3> QED  BY <3>1, <3>2
  <2> QED  BY <1>1, <2>3, <2>5, <2>6 DEF AllCounted
<1>8. AnswerInv'
  <2>1. Excused(answer) => Excused(answer)'
    <3>1. PICK a : a = answer
      OBVIOUS
    <3>2. Excused(a) => Excused(a)'
      BY ExcusedStays
    <3> QED  BY <3>1, <3>2 DEF Excused
  <2>2. frames'[1].status = "over" => frames[1].status = "over"
    BY <1>1, <1>2
  <2> QED  BY <1>4, <2>1, <2>2 DEF AnswerInv, CallsInv
<1> QED  BY <1>3, <1>5, <1>7, <1>8 DEF CallsInv, TypedFrames, IsFrame

-----------------------------------------------------------------------------
\* A request is refused only if what is asked may be, or after many faults: what a history
\* of the first server said of a transaction, that server knows.
LEMMA RefusalsExcused ==
    ASSUME WorldInv, NEW list, TypedFrames(list), FramesHeard(list), AllCounted(list),
           NEW i \in DOMAIN list, i = 1 => Len(list) = 1, NextStep(list[i]).do = "request",
           NEW mempool \in SUBSET MayKnow(list[i].server),
           Refused(list[i].server, NextStep(list[i]), mempool)
    PROVE  Excused(list[1]) \/ Faults > RetryAttempts
<1> DEFINE f == list[i]
<1>0. PICK s \in Server : s = f.server
  BY DEF TypedFrames, IsFrame
<1>1. IsFrame(f) /\ Refused(s, NextStep(f), mempool)
  BY <1>0 DEF TypedFrames
<1>2. CASE i = 1
  <2>1. Heard(f)
    BY <1>2 DEF FramesHeard
  <2>2. f.op \in AboutTransaction => f.arg \in BitcoinTransaction
    BY <2>1 DEF Heard
  <2>3. /\ NextStep(f).method = "transaction_get" =>
               f.op = Confirmations \/ (f.op \in Knowing /\ NextStep(f).param = f.arg)
        /\ NextStep(f).method = "getMerkle" => f.op \in Knowing /\ NextStep(f).param = f.arg
        /\ NextStep(f).method = "broadcast" => f.op = "broadcast" /\ NextStep(f).param = f.arg
    BY <1>1, <2>1, RequestsMade
  <2>4. f.op \in Knowing \union {"broadcast"} => f.arg \in BitcoinTransaction
    BY <2>2 DEF Knowing, AboutTransaction
  <2>5. \/ NextStep(f).method = "transaction_get" /\ NextStep(f).param \notin KnownTo(s, mempool)
        \/ NextStep(f).method = "getMerkle" /\ ~ConfirmedAt(s, NextStep(f).param)
        \/ NextStep(f).method = "broadcast" /\ ConfirmedAt(s, NextStep(f).param)
    BY <1>1 DEF Refused
  <2>6. \/ f.op = Confirmations
        \/ f.op \in Knowing /\ ~ConfirmedAt(s, f.arg)
        \/ f.op = "broadcast" /\ ConfirmedAt(s, f.arg)
    BY <2>3, <2>4, <2>5 DEF KnownTo
  <2>7. f.op \in Knowing /\ ~ConfirmedAt(s, f.arg) => ~ConfirmedThen(f.arg)
    BY <1>0, <2>4, ConfirmedStays
  <2>8. f.op = "broadcast" /\ ConfirmedAt(s, f.arg) => txHeight[f.arg] > 0
    <3>1. f.op = "broadcast" => txHeight[f.arg] \in Int /\ tip[s] \in Nat
      BY <1>0, <2>4 DEF WorldInv
    <3> QED  BY <3>1 DEF ConfirmedAt
  <2> QED  BY <1>2, <2>4, <2>6, <2>7, <2>8 DEF Excused
<1>3. CASE i # 1
  <2>0. /\ Len(list) > 1 /\ i - 1 \in 1..(Len(list) - 1) /\ 1 \in DOMAIN list
        /\ Len(list) \in Nat
    BY <1>3 DEF TypedFrames
  <2>1. /\ KidOf(list[1], f, i - 1) /\ f.op \in Single /\ NextStep(list[1]).do = "calls"
        /\ Heard(list[1]) /\ IsFrame(list[1]) /\ Len(NextStep(list[1]).args) = Len(list) - 1
    BY <1>3, <2>0 DEF FramesHeard, TypedFrames
  <2>2. PICK method : /\ NextStep(f) = IF f.got = <<>> THEN Request(method, f.arg)
                                                       ELSE Return(f.got[1])
                      /\ method = "transaction_get" =>
                             f.op \in {"getTransaction", "getRawTransaction"}
                      /\ method = "getMerkle" => f.op = "getTransactionMerkle"
                      /\ method = "broadcast" => f.op = "broadcast"
    BY <2>1, OnceStep
  <2>3. NextStep(f).method = method /\ NextStep(f).param = f.arg
    BY <2>2, Kinds
  <2>4. f.op \in {"getTransaction", "getRawTransaction", "getTransactionMerkle", "broadcast"}
    BY <1>1, <2>2, <2>3 DEF Refused
  <2>5. /\ NextStep(list[1]) = Calls("getTransaction", Hashes(Fetched(list[1])))
        /\ list[1].op = "getTransactionHistory" /\ Len(list[1].got) = 2
    BY <2>1, <2>4, CallsMade, Kinds DEF KidOf
  <2>6. HistoryHeard(list[1])
    BY <2>1, <2>5 DEF Heard
  <2>7. /\ ConfirmedItems(Fetched(list[1])) /\ Fetched(list[1]) \in Seq(Items)
        /\ DOMAIN Fetched(list[1]) = 1..Len(Fetched(list[1]))
    <3>1. Len(list[1].got) \in Nat /\ Len(list[1].got) >= 2
      BY <2>5
    <3> QED  BY <2>6, <3>1, FetchedFacts
  <2>8. i - 1 \in DOMAIN Fetched(list[1]) /\ f.arg = Fetched(list[1])[i - 1].tx
    BY <2>0, <2>1, <2>5, <2>7, HashesFacts, Kinds DEF KidOf
  <2>9. PICK item : item = Fetched(list[1])[i - 1]
    OBVIOUS
  <2>10. item \in ToSet(Fetched(list[1])) /\ item \in Items
    BY <2>7, <2>8, <2>9 DEF ToSet
  <2>11. TrueItem(item) /\ item.height > 0 /\ item.height \in Nat /\ item.tx \in BitcoinTransaction
    BY <2>7, <2>10 DEF ConfirmedItems, TrueItems, Items
  <2>12. ASSUME ~(Faults > RetryAttempts) PROVE FALSE
    <3>1. Counted(list[1], f)
      BY DEF AllCounted
    <3>2. s = 1
      <4>1. ~(f.server > 1) /\ s \in Nat /\ s >= 1
        BY <2>12, <3>1, <1>0, ElectrumAssumption DEF Counted, Server
      <4> QED  BY <1>0, <4>1
    <3>3. Faults <= RetryAttempts
      <4>1. electrumFaults \in Nat /\ faultsBefore \in Nat /\ RetryAttempts \in Nat
        BY ElectrumAssumption DEF WorldInv
      <4>2. Faults \in Int
        BY <4>1 DEF Faults
      <4> QED  BY <2>12, <4>1, <4>2
    <3>4. item.height <= tip[1] /\ txHeight[item.tx] = item.height
      BY <2>11, <3>3 DEF TrueItem
    <3>5. tip[1] \in Nat
      BY <1>0, <3>2 DEF WorldInv
    <3>6. ConfirmedAt(1, item.tx)
      BY <2>11, <3>4, <3>5 DEF ConfirmedAt
    <3>7. f.arg = item.tx /\ f.op = "getTransaction"
      BY <2>1, <2>5, <2>8, <2>9, Kinds DEF KidOf
    <3>8. method = "transaction_get" /\ f.arg \notin KnownTo(s, mempool)
      BY <1>1, <2>2, <2>3, <3>7 DEF Refused
    <3> QED  BY <2>11, <3>2, <3>6, <3>7, <3>8 DEF KnownTo
  <2> QED  BY <2>12
<1> QED  BY <1>2, <1>3

-----------------------------------------------------------------------------
\* Connections: those open, but for the ones that calls in progress hold, were each given up
\* after as many faults as there are attempts.
Pending(f) == IF f.status = "connecting" THEN f.attempt ELSE 0
Credit(f) ==
    IF f.status = "connected" \/ (f.status = "connecting" /\ f.socket) THEN RetryAttempts + 1 ELSE 0
Spent(list) == Total([i \in DOMAIN list |-> Pending(list[i])])
Held(list) == Total([i \in DOMAIN list |-> Credit(list[i])])
Paid(list, sockets, faults) ==
    /\ sockets \in Int /\ faults \in Nat
    /\ sockets * (RetryAttempts + 1) + Spent(list) <= faults + Held(list)

LEMMA FrameWeights ==
    ASSUME NEW list, \E S : list \in Seq(S), \A i \in DOMAIN list : IsFrame(list[i])
    PROVE  /\ [i \in DOMAIN list |-> Pending(list[i])] \in [DOMAIN list -> Nat]
           /\ [i \in DOMAIN list |-> Credit(list[i])] \in [DOMAIN list -> Nat]
           /\ IsFiniteSet(DOMAIN list) /\ Spent(list) \in Nat /\ Held(list) \in Nat
<1>1. \A i \in DOMAIN list : Pending(list[i]) \in Nat /\ Credit(list[i]) \in Nat
  BY ElectrumAssumption DEF Pending, Credit, IsFrame
<1>2. IsFiniteSet(DOMAIN list)
  <2>1. Len(list) \in Nat /\ DOMAIN list = 1..Len(list)
    OBVIOUS
  <2> QED  BY <2>1, UpToCardinality
<1> QED  BY <1>1, <1>2, TotalType DEF Spent, Held

\* One call changes, perhaps with a connection.
LEMMA PaidOne ==
    ASSUME NEW list, \E S : list \in Seq(S), \A j \in DOMAIN list : IsFrame(list[j]),
           NEW i \in DOMAIN list, NEW new, OneChanges(list, i, new), IsFrame(new[i]),
           NEW o, NEW e, Paid(list, o, e), NEW e2 \in Nat
    PROVE  LET K == RetryAttempts + 1
               within(d) == d + Pending(new[i]) + Credit(list[i]) + e
                                <= Pending(list[i]) + Credit(new[i]) + e2
           IN  /\ within(0) => Paid(new, o, e2)
               /\ within(K) => Paid(new, o + 1, e2)
               /\ within(-K) => Paid(new, o - 1, e2)
<1> DEFINE K == RetryAttempts + 1
<1>1. K \in Nat /\ o \in Int /\ e \in Nat
  BY ElectrumAssumption DEF Paid
<1>2. /\ \E S : new \in Seq(S)
      /\ Len(new) = Len(list) /\ DOMAIN new = DOMAIN list
      /\ \A j \in DOMAIN list \ {i} : new[j] = list[j]
      /\ \A j \in DOMAIN new : IsFrame(new[j])
  BY DEF OneChanges
<1>3. Spent(new) = Spent(list) - Pending(list[i]) + Pending(new[i])
  <2> DEFINE D == DOMAIN list
             f == [j \in DOMAIN list |-> Pending(list[j])]
             g == [j \in DOMAIN list |-> Pending(new[j])]
  <2>1. f \in [D -> Nat] /\ g \in [D -> Nat] /\ IsFiniteSet(D) /\ i \in D
    BY <1>2, FrameWeights
  <2>2. (\A j \in D \ {i} : g[j] = f[j]) /\ f[i] = Pending(list[i]) /\ g[i] = Pending(new[i])
    BY <1>2
  <2>3. Spent(list) = Total(f) /\ Spent(new) = Total(g)
    BY <1>2 DEF Spent
  <2> HIDE DEF f, g, D
  <2>4. Total(g) = Total(f) - f[i] + g[i]
    BY ONLY <2>1, <2>2, TotalUpdate
  <2> QED  BY <2>2, <2>3, <2>4
<1>4. Held(new) = Held(list) - Credit(list[i]) + Credit(new[i])
  <2> DEFINE D == DOMAIN list
             f == [j \in DOMAIN list |-> Credit(list[j])]
             g == [j \in DOMAIN list |-> Credit(new[j])]
  <2>1. f \in [D -> Nat] /\ g \in [D -> Nat] /\ IsFiniteSet(D) /\ i \in D
    BY <1>2, FrameWeights
  <2>2. (\A j \in D \ {i} : g[j] = f[j]) /\ f[i] = Credit(list[i]) /\ g[i] = Credit(new[i])
    BY <1>2
  <2>3. Held(list) = Total(f) /\ Held(new) = Total(g)
    BY <1>2 DEF Held
  <2> HIDE DEF f, g, D
  <2>4. Total(g) = Total(f) - f[i] + g[i]
    BY ONLY <2>1, <2>2, TotalUpdate
  <2> QED  BY <2>2, <2>3, <2>4
<1>5. /\ Spent(list) \in Nat /\ Held(list) \in Nat /\ Spent(new) \in Nat /\ Held(new) \in Nat
      /\ o * K + Spent(list) <= e + Held(list)
  BY <1>2, FrameWeights DEF Paid
<1>6. /\ Pending(list[i]) \in Nat /\ Credit(list[i]) \in Nat
      /\ Pending(new[i]) \in Nat /\ Credit(new[i]) \in Nat
  BY ElectrumAssumption DEF Pending, Credit, IsFrame
<1>7. PICK ok : ok = o * K /\ ok \in Int
  BY <1>1
<1>8. (o + 1) * K = ok + K /\ (o - 1) * K = ok - K
  BY <1>1, <1>7
<1>9. PICK p, q, c, d, s, t, h, u :
          /\ p = Pending(list[i]) /\ q = Pending(new[i]) /\ c = Credit(list[i]) /\ d = Credit(new[i])
          /\ s = Spent(list) /\ t = Spent(new) /\ h = Held(list) /\ u = Held(new)
  OBVIOUS
<1>10. /\ p \in Nat /\ q \in Nat /\ c \in Nat /\ d \in Nat
       /\ s \in Nat /\ t \in Nat /\ h \in Nat /\ u \in Nat
       /\ t = s - p + q /\ u = h - c + d /\ ok + s <= e + h
  BY <1>3, <1>4, <1>5, <1>6, <1>7, <1>9
<1>11. /\ 0 + q + c + e <= p + d + e2 => ok + t <= e2 + u
       /\ K + q + c + e <= p + d + e2 => ok + K + t <= e2 + u
       /\ -K + q + c + e <= p + d + e2 => ok - K + t <= e2 + u
  BY ONLY <1>1, <1>7, <1>10, e2 \in Nat
<1> HIDE DEF K
<1>12. o + 1 \in Int /\ o - 1 \in Int
  BY <1>1
<1> QED  BY <1>1, <1>7, <1>8, <1>9, <1>11, <1>12 DEF Paid, K

\* Calls that are over hold nothing.
LEMMA PaidSettled ==
    ASSUME NEW list, \E S : list \in Seq(S), \A j \in DOMAIN list : IsFrame(list[j]),
           NEW o, NEW e, Paid(list, o, e)
    PROVE  Paid(Settled(list), o, e)
<1>1. CASE \A i \in DOMAIN list : list[i].status \in {"returned", "over"}
  <2>1. \A i \in DOMAIN list : Pending(list[i]) = 0 /\ Credit(list[i]) = 0
    BY <1>1 DEF Pending, Credit
  <2>2. Spent(list) = 0 /\ Held(list) = 0
    BY <2>1, FrameWeights, TotalZero DEF Spent, Held
  <2>3. Settled(list) = <<>>
    BY <1>1 DEF Settled
  <2>4. Spent(<<>>) = 0 /\ Held(<<>>) = 0
    <3>1. DOMAIN <<>> = {}
      OBVIOUS
    <3>2. /\ [i \in DOMAIN <<>> |-> Pending(<<>>[i])] \in [DOMAIN <<>> -> Nat]
          /\ [i \in DOMAIN <<>> |-> Credit(<<>>[i])] \in [DOMAIN <<>> -> Nat]
      BY <3>1
    <3> QED  BY <3>1, <3>2, TotalZero DEF Spent, Held
  <2> QED  BY <2>2, <2>3, <2>4 DEF Paid
<1>2. CASE ~(\A i \in DOMAIN list : list[i].status \in {"returned", "over"})
  BY <1>2 DEF Settled
<1> QED  BY <1>1, <1>2

\* A list of calls in which only the first may hold something, or more which hold nothing.
LEMMA PaidSame ==
    ASSUME NEW list, \E S : list \in Seq(S), \A j \in DOMAIN list : IsFrame(list[j]),
           NEW new, \E S : new \in Seq(S), \A j \in DOMAIN new : IsFrame(new[j]),
           \A i \in DOMAIN list : Pending(list[i]) # 0 \/ Credit(list[i]) # 0 =>
               /\ i \in DOMAIN new
               /\ Pending(new[i]) = Pending(list[i]) /\ Credit(new[i]) = Credit(list[i]),
           \A i \in DOMAIN new : Pending(new[i]) # 0 \/ Credit(new[i]) # 0 =>
               /\ i \in DOMAIN list
               /\ Pending(new[i]) = Pending(list[i]) /\ Credit(new[i]) = Credit(list[i]),
           NEW o, NEW e, Paid(list, o, e)
    PROVE  Paid(new, o, e)
<1> DEFINE D == DOMAIN list
           E == DOMAIN new
           f == [j \in DOMAIN list |-> Pending(list[j])]
           g == [j \in DOMAIN new |-> Pending(new[j])]
           p == [j \in DOMAIN list |-> Credit(list[j])]
           q == [j \in DOMAIN new |-> Credit(new[j])]
<1>1. f \in [D -> Nat] /\ g \in [E -> Nat] /\ p \in [D -> Nat] /\ q \in [E -> Nat]
  BY FrameWeights
<1>2. /\ \A i \in D : f[i] # 0 => i \in E /\ g[i] = f[i]
      /\ \A i \in E : g[i] # 0 => i \in D /\ f[i] = g[i]
  OBVIOUS
<1>3. /\ \A i \in D : p[i] # 0 => i \in E /\ q[i] = p[i]
      /\ \A i \in E : q[i] # 0 => i \in D /\ p[i] = q[i]
  OBVIOUS
<1>4. Total(f) = Total(g)
  <2> HIDE DEF f, g, p, q, D, E
  <2> QED  BY ONLY <1>1, <1>2, TotalOfNonzero, Z3
<1>5. Total(p) = Total(q)
  <2> HIDE DEF f, g, p, q, D, E
  <2> QED  BY ONLY <1>1, <1>3, TotalOfNonzero, Z3
<1>6. Spent(new) = Spent(list) /\ Held(new) = Held(list)
  BY <1>4, <1>5 DEF Spent, Held
<1> QED  BY <1>6 DEF Paid

-----------------------------------------------------------------------------
ElectrumInv ==
    WorldInv /\ CallsInv /\ Paid(frames, openConnections, electrumFaults)

\* The frame of a call, changed in what is not asked or heard.
LEMMA FrameFacts ==
    ASSUME NEW f, IsFrame(f), NEW s \in Server, NEW n \in Nat, NEW b \in BOOLEAN, NEW status,
           NEW g, DOMAIN g = FrameFields, g.op = f.op, g.arg = f.arg, g.got = f.got,
           g.calls = f.calls, g.server = s, g.attempt = n, g.socket = b, g.status = status
    PROVE  IsFrame(g) /\ SameCall(f, g)
BY DEF IsFrame, SameCall

LEMMA ActiveFacts ==
    ASSUME ElectrumInv, NEW i, Active(i)
    PROVE  /\ i \in DOMAIN frames /\ (i = 1 => Len(frames) = 1 /\ InProgress(frames))
           /\ frames[i].status \in {"connecting", "connected"} /\ frames[i].status # "over"
           /\ IsFrame(frames[i]) /\ 1 \in DOMAIN frames /\ IsFrame(frames[1])
           /\ (\E S : frames \in Seq(S)) /\ (\A j \in DOMAIN frames : IsFrame(frames[j]))
           /\ TypedFrames(frames) /\ frames # <<>>
<1>1. i \in DOMAIN frames /\ (i = 1 => Len(frames) = 1)
      /\ frames[i].status \in {"connecting", "connected"}
  BY DEF Active
<1>2. TypedFrames(frames)
  BY DEF ElectrumInv, CallsInv
<1>3. 1 \in DOMAIN frames /\ frames # <<>>
  BY <1>1, <1>2 DEF TypedFrames
<1> QED  BY <1>1, <1>2, <1>3 DEF TypedFrames, InProgress

\* A call fails: it ends, the user's call ends with it, and those that go on are waited for
\* by nobody.
LEMMA CallFails ==
    ASSUME ElectrumInv, Grows, NEW i, Active(i), NEW sockets \in Int, FailCall(i, sockets),
           InProgress(frames) => Faults' > RetryAttempts \/ Excused(frames[1]),
           Paid([frames EXCEPT ![i] = [@ EXCEPT !.status = "over"]],
                IF frames[i].status = "connected" THEN sockets - 1 ELSE sockets, electrumFaults')
    PROVE  CallsInv' /\ Paid(frames, openConnections, electrumFaults)'
<1>0. PICK list : list = frames
  OBVIOUS
<1> DEFINE ended == {j \in {1, i} : list[j].status # "over"}
           mid == [list EXCEPT ![i] = [@ EXCEPT !.status = "over"]]
           final == [j \in DOMAIN list |-> IF j \in ended THEN [list[j] EXCEPT !.status = "over"]
                                           ELSE list[j]]
           o == IF list[i].status = "connected" THEN sockets - 1 ELSE sockets
           waits == i # 1 /\ list[1].status # "over"
           both == {j \in ended : list[j].status = "connected"}
<1>1. /\ i \in DOMAIN list /\ (i = 1 => Len(list) = 1 /\ InProgress(list))
      /\ list[i].status \in {"connecting", "connected"} /\ list[i].status # "over"
      /\ 1 \in DOMAIN list /\ (\E S : list \in Seq(S)) /\ \A j \in DOMAIN list : IsFrame(list[j])
      /\ TypedFrames(list) /\ list # <<>> /\ Len(list) \in Nat
  BY <1>0, ActiveFacts DEF TypedFrames
<1>2. /\ frames' = Settled(final) /\ openConnections' = sockets - Cardinality(both)
      /\ answer' = IF 1 \notin ended THEN answer
                   ELSE [op |-> list[1].op, arg |-> list[1].arg, failed |-> TRUE,
                         value |-> <<>>, faults |-> electrumFaults' - faultsBefore]
  BY <1>0 DEF FailCall
<1>3. Paid(mid, o, electrumFaults')
  BY <1>0
<1>4. i \in ended /\ (1 \in ended <=> list[1].status # "over")
  BY <1>1
<1>5. ASSUME NEW j \in DOMAIN list
      PROVE  LET g == [list[j] EXCEPT !.status = "over"]
             IN  g.status = "over" /\ g.op = list[j].op /\ IsFrame(g)
  <2>1. IsFrame(list[j])
    BY <1>1
  <2> QED  BY <2>1 DEF IsFrame, FrameFields
<1>6. /\ DOMAIN final = DOMAIN list /\ final[1].status = "over" /\ final[i].status = "over"
      /\ \A j \in DOMAIN list : IsFrame(final[j]) /\ final[j].op = list[j].op
      /\ \A j \in DOMAIN list \ {1, i} : final[j] = list[j]
      /\ list[1].status = "over" /\ i # 1 => final[1] = list[1]
      /\ final[i] = [list[i] EXCEPT !.status = "over"]
  BY <1>1, <1>4, <1>5
<1>7. (\E S : final \in Seq(S)) /\ Len(final) = Len(list)
  <2>1. final \in [1..Len(list) -> {final[j] : j \in DOMAIN list}]
    BY <1>1
  <2> HIDE DEF final
  <2>2. final \in Seq({final[j] : j \in DOMAIN list}) /\ Len(final) = Len(list)
    BY <1>1, <2>1
  <2> QED  BY <2>2
<1>8. TypedFrames(final)
  BY <1>1, <1>6, <1>7 DEF TypedFrames
<1>9. Settled(final) = <<>> \/ Settled(final) = final
  BY DEF Settled
<1>10. TypedFrames(Settled(final))
  <2>1. TypedFrames(<<>>)
    <3>1. <<>> \in Seq({}) /\ DOMAIN <<>> = {}
      OBVIOUS
    <3> QED  BY <3>1 DEF TypedFrames
  <2> QED  BY <1>8, <1>9, <2>1
<1>11. ~InProgress(Settled(final))
  BY <1>6, <1>9 DEF InProgress
<1>12. answer'.failed /\ (answer'.faults > RetryAttempts \/ Excused(answer)')
  <2>1. CASE 1 \notin ended
    <3>1. answer.failed /\ answer' = answer
      BY <1>0, <1>1, <1>2, <1>4, <2>1 DEF ElectrumInv, CallsInv, AnswerInv
    <3>2. answer.faults > RetryAttempts \/ Excused(answer)
      BY <3>1 DEF ElectrumInv, CallsInv, AnswerInv
    <3>3. PICK a : a = answer
      OBVIOUS
    <3>4. Excused(a) => Excused(a)'
      BY ExcusedStays DEF ElectrumInv
    <3> QED  BY <3>1, <3>2, <3>3, <3>4 DEF Excused
  <2>2. CASE 1 \in ended
    <3>1. InProgress(frames)
      BY <1>0, <1>1, <1>4, <2>2 DEF InProgress
    <3>2. /\ answer'.failed /\ answer'.op = list[1].op /\ answer'.arg = list[1].arg
          /\ answer'.faults = electrumFaults' - faultsBefore
      BY <1>2, <2>2
    <3>3. answer'.faults = Faults'
      BY <3>2, FaultsGrow DEF ElectrumInv
    <3>4. Faults' > RetryAttempts \/ Excused(list[1])
      BY <1>0, <3>1
    <3>5. Excused(list[1]) => Excused(list[1])'
      BY ExcusedStays DEF ElectrumInv
    <3>6. Excused(list[1])' => Excused(answer)'
      BY <3>2 DEF Excused
    <3> QED  BY <3>2, <3>3, <3>4, <3>5, <3>6
  <2> QED  BY <2>1, <2>2
<1>13. CallsInv'
  <2> HIDE DEF final, ended
  <2> QED  BY <1>2, <1>10, <1>11, <1>12
           DEF CallsInv, AnswerInv, TypedFrames, InProgress, IsFrame
<1>14. waits => list[1].status = "connected"
  <2> SUFFICES ASSUME waits PROVE list[1].status = "connected"
    OBVIOUS
  <2>1. Len(list) > 1 /\ InProgress(list)
    BY <1>1 DEF InProgress
  <2> QED  BY <1>0, <2>1 DEF ElectrumInv, CallsInv, FramesHeard
<1>15. openConnections' = IF waits THEN o - 1 ELSE o
  <2>1. Cardinality({1}) = 1 /\ Cardinality({}) = 0 /\ Cardinality({i}) = 1
    BY FS_Singleton, FS_EmptySet
  <2>2. i # 1 => Cardinality({1, i}) = 2
    <3> SUFFICES ASSUME i # 1 PROVE Cardinality({1, i}) = 2
      OBVIOUS
    <3>1. i \notin {1} /\ IsFiniteSet({1})
      BY FS_Singleton
    <3>2. Cardinality({1} \union {i}) = Cardinality({1}) + 1
      BY ONLY <3>1, FS_AddElement
    <3>3. {1} \union {i} = {1, i}
      OBVIOUS
    <3> QED  BY ONLY <2>1, <3>2, <3>3
  <2>3. CASE waits
    <3>1. list[i].status = "connected" => both = {1, i}
      BY <1>1, <1>4, <1>14, <2>3
    <3>2. list[i].status # "connected" => both = {1}
      BY <1>1, <1>4, <1>14, <2>3
    <3>3. sockets - Cardinality(both) = o - 1
      <4> HIDE DEF both
      <4>1. CASE list[i].status = "connected"
        <5>1. Cardinality(both) = 2
          BY <2>2, <2>3, <3>1, <4>1
        <5>2. o = sockets - 1
          BY <4>1
        <5>3. sockets - 2 = (sockets - 1) - 1
          OBVIOUS
        <5> QED  BY <5>1, <5>2, <5>3
      <4>2. CASE list[i].status # "connected"
        BY <1>1, <2>1, <2>2, <2>3, <3>2, <4>2
      <4> QED  BY <4>1, <4>2
    <3> QED  BY <1>2, <2>3, <3>3
  <2>4. CASE ~waits
    <3>1. list[i].status = "connected" => both = {i}
      BY <1>1, <1>4, <2>4
    <3>2. list[i].status # "connected" => both = {}
      BY <1>1, <1>4, <2>4
    <3>3. sockets - Cardinality(both) = o
      <4> HIDE DEF both
      <4>1. CASE list[i].status = "connected"
        BY <1>1, <2>1, <2>4, <3>1, <4>1
      <4>2. CASE list[i].status # "connected"
        <5>1. Cardinality(both) = 0
          BY <2>1, <3>2, <4>2
        <5>2. o = sockets
          BY <4>2
        <5>3. sockets - 0 = sockets
          OBVIOUS
        <5> QED  BY <5>1, <5>2, <5>3
      <4> QED  BY <4>1, <4>2
    <3> QED  BY <1>2, <2>4, <3>3
  <2> QED  BY <2>3, <2>4
<1>16. OneChanges(list, i, mid) /\ mid[i] = [list[i] EXCEPT !.status = "over"]
  <2>1. mid = [list EXCEPT ![i] = [list[i] EXCEPT !.status = "over"]]
    OBVIOUS
  <2> QED  BY <1>1, <2>1, OneChangesExcept
<1>17. Paid(final, IF waits THEN o - 1 ELSE o, electrumFaults')
  <2>0. electrumFaults' \in Nat /\ RetryAttempts \in Nat
    BY ElectrumAssumption DEF Grows, WorldInv
  <2>1. /\ \E S : mid \in Seq(S)
        /\ Len(mid) = Len(list) /\ DOMAIN mid = DOMAIN list
        /\ \A j \in DOMAIN list \ {i} : mid[j] = list[j]
    BY <1>16 DEF OneChanges
  <2>2. \A j \in DOMAIN mid : IsFrame(mid[j])
    BY <1>1, <1>5, <1>16, <2>1
  <2>3. CASE waits
    <3>1. mid[1] = list[1] /\ mid[1].status = "connected" /\ 1 \in DOMAIN mid
      BY <1>1, <1>14, <2>1, <2>3
    <3>2. OneChanges(mid, 1, final)
      <4>1. \A j \in DOMAIN mid \ {1} : final[j] = mid[j]
        BY <1>6, <1>16, <2>1
      <4> HIDE DEF mid, final
      <4> QED  BY <1>6, <1>7, <2>1, <4>1 DEF OneChanges
    <3>3. IsFrame(final[1])
      BY <1>1, <1>6
    <3>4. /\ Pending(mid[1]) = 0 /\ Credit(mid[1]) = RetryAttempts + 1
          /\ Pending(final[1]) = 0 /\ Credit(final[1]) = 0
      BY <1>6, <3>1 DEF Pending, Credit
    <3>5. PICK e : e = electrumFaults'
      OBVIOUS
    <3>6. -(RetryAttempts + 1) + 0 + (RetryAttempts + 1) + e <= 0 + 0 + e
      BY <2>0, <3>5
    <3> HIDE DEF mid, final, o
    <3>7. Paid(final, o - 1, e)
      BY <1>3, <2>0, <2>1, <2>2, <3>1, <3>2, <3>3, <3>4, <3>5, <3>6, PaidOne
    <3> QED  BY <2>3, <3>5, <3>7
  <2>4. CASE ~waits
    <3>1. final = mid
      <4>1. \A j \in DOMAIN list : final[j] = mid[j]
        BY <1>1, <1>6, <1>16, <2>1, <2>4
      <4>2. mid = [j \in DOMAIN list |-> mid[j]] /\ final = [j \in DOMAIN list |-> final[j]]
        OBVIOUS
      <4> HIDE DEF mid, final
      <4> QED  BY <4>1, <4>2
    <3> QED  BY <1>3, <2>4, <3>1
  <2> QED  BY <2>3, <2>4
<1>18. Paid(Settled(final), openConnections', electrumFaults')
  <2>1. \A j \in DOMAIN final : IsFrame(final[j])
    BY <1>6
  <2> HIDE DEF final, o
  <2> QED  BY <1>7, <1>15, <1>17, <2>1, PaidSettled
<1> HIDE DEF final
<1> QED  BY <1>2, <1>13, <1>18 DEF Paid, Spent, Held

\* A call goes on, perhaps with a connection more.
LEMMA CallGoesOn ==
    ASSUME ElectrumInv, Grows, UNCHANGED answer, NEW i, Active(i), NEW g, IsFrame(g),
           frames' = [frames EXCEPT ![i] = g], g.op = frames[i].op, g.arg = frames[i].arg,
           g.status \in {"connecting", "connected"},
           i = 1 => Heard(g),
           InProgress(frames) /\ i # 1 => SingleHeard(g),
           NEW root, root = frames[1], InProgress(frames) => Counted(root, g)',
           NEW d \in {0, RetryAttempts + 1},
           openConnections' = IF d = 0 THEN openConnections ELSE openConnections + 1,
           d + Pending(g) + Credit(frames[i]) + electrumFaults
               <= Pending(frames[i]) + Credit(g) + electrumFaults'
    PROVE  ElectrumInv'
<1>0. PICK list, o, e, e2 :
          list = frames /\ o = openConnections /\ e = electrumFaults /\ e2 = electrumFaults'
  OBVIOUS
<1> DEFINE new == [list EXCEPT ![i] = g]
<1>1. /\ i \in DOMAIN list /\ (i = 1 => Len(list) = 1 /\ InProgress(list))
      /\ list[i].status \in {"connecting", "connected"} /\ list[i].status # "over"
      /\ 1 \in DOMAIN list /\ (\E S : list \in Seq(S)) /\ \A j \in DOMAIN list : IsFrame(list[j])
      /\ TypedFrames(list) /\ list # <<>>
  BY <1>0, ActiveFacts
<1>2. OneChanges(list, i, new) /\ new[i] = g /\ frames' = new
  BY <1>0, <1>1, OneChangesExcept
<1> HIDE DEF new
<1>3. WorldInv /\ CallsInv /\ Paid(list, o, e)
  BY <1>0 DEF ElectrumInv
<1>4. CallsInv'
  <2>1. g.status # "over" /\ g.status # "returned"
    OBVIOUS
  <2>2. /\ i = 1 => new[1].status # "over"
        /\ InProgress(list) /\ i = 1 => Heard(new[1])
        /\ InProgress(list) /\ i # 1 =>
               SingleHeard(new[i]) /\ (new[i].status = "returned" => new[i].got # <<>>)
        /\ InProgress(list) => Counted(list[1], new[i])'
    <3>1. root = list[1] /\ new[i] = g /\ (i = 1 => new[1] = g)
      BY <1>0, <1>2
    <3> QED  BY <1>0, <2>1, <3>1
  <2> QED  BY <1>0, <1>1, <1>2, <1>3, <2>2, CallReplaced
<1>5. Paid(new, openConnections', e2)
  <2>0. e2 \in Nat /\ RetryAttempts + 1 # 0 /\ o \in Int
    BY <1>0, <1>3, ElectrumAssumption DEF Grows, WorldInv, Paid
  <2>1. d + Pending(new[i]) + Credit(list[i]) + e <= Pending(list[i]) + Credit(new[i]) + e2
    BY <1>0, <1>2
  <2>2. CASE d = 0
    <3>1. 0 + Pending(new[i]) + Credit(list[i]) + e <= Pending(list[i]) + Credit(new[i]) + e2
      BY <2>1, <2>2
    <3>2. Paid(new, o, e2)
      BY <1>1, <1>2, <1>3, <2>0, <3>1, PaidOne
    <3> QED  BY <1>0, <2>2, <3>2
  <2>3. CASE d = RetryAttempts + 1
    <3>1. (RetryAttempts + 1) + Pending(new[i]) + Credit(list[i]) + e
              <= Pending(list[i]) + Credit(new[i]) + e2
      BY <2>1, <2>3
    <3>2. Paid(new, o + 1, e2)
      BY <1>1, <1>2, <1>3, <2>0, <3>1, PaidOne
    <3> QED  BY <1>0, <2>0, <2>3, <3>2
  <2> QED  BY <2>2, <2>3
<1>6. Paid(frames, openConnections, electrumFaults)'
  <2>1. PICK n : n = openConnections'
    OBVIOUS
  <2>2. Paid(new, n, e2)
    BY <1>5, <2>1
  <2> QED  BY <1>0, <1>2, <2>1, <2>2 DEF Paid, Spent, Held
<1> QED  BY <1>4, <1>6 DEF ElectrumInv, Grows

\* What the acting call has heard, and what is counted of it.
LEMMA ActiveHeard ==
    ASSUME ElectrumInv, NEW i, Active(i)
    PROVE  /\ i = 1 => Heard(frames[i])
           /\ i # 1 => frames[i].op \in Single
           /\ InProgress(frames) /\ i # 1 => SingleHeard(frames[i])
           /\ InProgress(frames) => /\ FramesHeard(frames) /\ AllCounted(frames)
                                    /\ Counted(frames[1], frames[i])
<1>1. /\ i \in DOMAIN frames /\ (i = 1 => InProgress(frames)) /\ TypedFrames(frames)
      /\ 1 \in DOMAIN frames
  BY ActiveFacts
<1>2. InProgress(frames) => FramesHeard(frames) /\ AllCounted(frames)
  BY DEF ElectrumInv, CallsInv
<1>3. i # 1 => Len(frames) > 1
  BY <1>1 DEF TypedFrames
<1>4. InProgress(frames) /\ i # 1 => SingleHeard(frames[i])
  BY <1>1, <1>2, <1>3 DEF FramesHeard, KidOf
<1> QED  BY <1>1, <1>2, <1>4 DEF FramesHeard, AllCounted, TypedFrames

LEMMA OpenSocketKeeps ==
    ASSUME ElectrumInv, NEW i, OpenSocket(i)
    PROVE  ElectrumInv'
<1>0. PICK root, f, g : root = frames[1] /\ f = frames[i] /\ g = [f EXCEPT !.socket = TRUE]
  OBVIOUS
<1>1. /\ Active(i) /\ f.status = "connecting" /\ ~f.socket
      /\ frames' = [frames EXCEPT ![i] = g] /\ openConnections' = openConnections + 1
      /\ UNCHANGED <<height, txHeight, tip, before, faultsBefore, electrumFaults, answer>>
  BY <1>0 DEF OpenSocket, Connecting, WorldStays
<1>2. Grows /\ WorldInv
  BY <1>1, NothingGrows DEF ElectrumInv
<1>3. IsFrame(f)
  BY <1>0, <1>1, ActiveFacts
<1>4. /\ DOMAIN g = FrameFields /\ g.op = f.op /\ g.arg = f.arg /\ g.got = f.got
      /\ g.calls = f.calls /\ g.server = f.server /\ g.attempt = f.attempt
      /\ g.socket = TRUE /\ g.status = f.status
  BY <1>0, <1>3 DEF IsFrame, FrameFields
<1>5. IsFrame(g) /\ SameCall(f, g)
  BY <1>3, <1>4, FrameFacts DEF IsFrame
<1>6. i = 1 => Heard(g)
  BY <1>0, <1>1, <1>3, <1>5, ActiveHeard, SameHeard
<1>7. InProgress(frames) /\ i # 1 => SingleHeard(g)
  BY <1>0, <1>1, <1>4, ActiveHeard DEF SingleHeard
<1>8. InProgress(frames) => Counted(root, g)'
  <2> SUFFICES ASSUME InProgress(frames) PROVE Counted(root, g)'
    OBVIOUS
  <2>1. Counted(root, f)
    BY <1>0, <1>1, ActiveHeard
  <2>2. Counted(root, g)
    BY <1>4, <2>1 DEF Counted
  <2>3. Counted(root, g)'
    BY <1>2, <1>5, <2>2, CountedStays
  <2> QED  BY <2>3
<1>9. /\ Pending(g) = f.attempt /\ Pending(f) = f.attempt
      /\ Credit(g) = RetryAttempts + 1 /\ Credit(f) = 0
  BY <1>1, <1>4 DEF Pending, Credit
<1>10. f.attempt \in Nat /\ electrumFaults \in Nat /\ RetryAttempts \in Nat
  BY <1>2, <1>3, ElectrumAssumption DEF WorldInv, IsFrame
<1>11. PICK d : d = RetryAttempts + 1
  OBVIOUS
<1>12. /\ d \in {0, RetryAttempts + 1} /\ d # 0
       /\ d + Pending(g) + Credit(f) + electrumFaults <= Pending(f) + Credit(g) + electrumFaults'
  BY <1>1, <1>9, <1>10, <1>11
<1> QED  BY <1>0, <1>1, <1>2, <1>4, <1>5, <1>6, <1>7, <1>8, <1>12, CallGoesOn

LEMMA PingKeeps ==
    ASSUME ElectrumInv, NEW i, Ping(i)
    PROVE  ElectrumInv'
<1>0. PICK root, f, g : root = frames[1] /\ f = frames[i] /\ g = [f EXCEPT !.status = "connected", !.attempt = 0]
  OBVIOUS
<1>1. /\ Active(i) /\ f.status = "connecting" /\ f.socket
      /\ frames' = [frames EXCEPT ![i] = g] /\ openConnections' = openConnections
      /\ UNCHANGED <<height, txHeight, tip, before, faultsBefore, electrumFaults, answer>>
  <2>1. frames' = [frames EXCEPT ![i].status = "connected", ![i].attempt = 0]
        /\ Active(i) /\ f.status = "connecting"
    BY <1>0 DEF Ping, Connecting
  <2>2. (\E S : frames \in Seq(S)) /\ i \in DOMAIN frames
    BY <2>1, ActiveFacts
  <2>3. frames' = [frames EXCEPT ![i] = g]
    BY <1>0, <2>1, <2>2
  <2> QED  BY <1>0, <2>3 DEF Ping, Connecting, WorldStays
<1>2. Grows /\ WorldInv
  BY <1>1, NothingGrows DEF ElectrumInv
<1>3. IsFrame(f)
  BY <1>0, <1>1, ActiveFacts
<1>4. /\ DOMAIN g = FrameFields /\ g.op = f.op /\ g.arg = f.arg /\ g.got = f.got
      /\ g.calls = f.calls /\ g.server = f.server /\ g.attempt = 0
      /\ g.socket = f.socket /\ g.status = "connected"
  BY <1>0, <1>3 DEF IsFrame, FrameFields
<1>5. IsFrame(g) /\ SameCall(f, g)
  <2>1. PICK n, s, b, status :
            n = g.attempt /\ s = g.server /\ b = g.socket /\ status = g.status
    OBVIOUS
  <2>2. n \in Nat /\ s \in Server /\ b \in BOOLEAN
    BY <1>3, <1>4, <2>1 DEF IsFrame
  <2> QED  BY <1>3, <1>4, <2>1, <2>2, FrameFacts
<1>6. i = 1 => Heard(g)
  BY <1>0, <1>1, <1>3, <1>5, ActiveHeard, SameHeard
<1>7. InProgress(frames) /\ i # 1 => SingleHeard(g)
  BY <1>0, <1>1, <1>4, ActiveHeard DEF SingleHeard
<1>8. InProgress(frames) => Counted(root, g)'
  <2> SUFFICES ASSUME InProgress(frames) PROVE Counted(root, g)'
    OBVIOUS
  <2>1. Counted(root, f)
    BY <1>0, <1>1, ActiveHeard
  <2>2. 0 <= RetryAttempts /\ 0 <= Faults
    BY <1>2, FaultsGrow, ElectrumAssumption
  <2>3. Counted(root, g)
    BY <1>4, <2>1, <2>2 DEF Counted
  <2>4. Counted(root, g)'
    BY <1>2, <1>5, <2>3, CountedStays
  <2> QED  BY <2>4
<1>9. /\ Pending(g) = 0 /\ Pending(f) = f.attempt
      /\ Credit(g) = RetryAttempts + 1 /\ Credit(f) = RetryAttempts + 1
  BY <1>1, <1>4 DEF Pending, Credit
<1>10. f.attempt \in Nat /\ electrumFaults \in Nat /\ RetryAttempts \in Nat
  BY <1>2, <1>3, ElectrumAssumption DEF WorldInv, IsFrame
<1>11. PICK d : d = 0
  OBVIOUS
<1>12. /\ d \in {0, RetryAttempts + 1}
       /\ d + Pending(g) + Credit(f) + electrumFaults <= Pending(f) + Credit(g) + electrumFaults'
  BY <1>1, <1>9, <1>10, <1>11
<1> QED  BY <1>0, <1>1, <1>2, <1>4, <1>5, <1>6, <1>7, <1>8, <1>11, <1>12, CallGoesOn

\* What a call asks and has heard does not change.
LEMMA SameCallGoesOn ==
    ASSUME ElectrumInv, Grows, UNCHANGED answer, NEW i, Active(i), NEW f, f = frames[i],
           NEW root, root = frames[1], NEW g, SameCall(f, g), frames' = [frames EXCEPT ![i] = g],
           g.status \in {"connecting", "connected"}, InProgress(frames) => Counted(root, g)',
           NEW d \in {0, RetryAttempts + 1},
           openConnections' = IF d = 0 THEN openConnections ELSE openConnections + 1,
           d + Pending(g) + Credit(f) + electrumFaults <= Pending(f) + Credit(g) + electrumFaults'
    PROVE  ElectrumInv'
<1>1. IsFrame(f) /\ IsFrame(g)
  BY ActiveFacts DEF SameCall
<1>2. i = 1 => Heard(g)
  BY <1>1, ActiveHeard, SameHeard
<1>3. InProgress(frames) /\ i # 1 => SingleHeard(g)
  BY ActiveHeard DEF SingleHeard, SameCall
<1> QED  BY <1>1, <1>2, <1>3, CallGoesOn DEF SameCall

LEMMA ConnectFailedKeeps ==
    ASSUME ElectrumInv, NEW i, ConnectFailed(i)
    PROVE  ElectrumInv'
<1>0. PICK root, f, list : root = frames[1] /\ f = frames[i] /\ list = frames
  OBVIOUS
<1>1. PICK opened \in {f.socket, TRUE} :
          LET sockets == openConnections + (IF opened = f.socket THEN 0 ELSE 1)
          IN \/ /\ f.attempt < RetryAttempts
                /\ frames' = [frames EXCEPT ![i].attempt = @ + 1, ![i].socket = opened]
                /\ openConnections' = sockets /\ UNCHANGED answer
             \/ /\ ~(f.attempt < RetryAttempts) /\ f.server < Credentials
                /\ frames' = [frames EXCEPT ![i].server = @ + 1, ![i].attempt = 0,
                                            ![i].socket = FALSE]
                /\ openConnections' = sockets /\ UNCHANGED answer
             \/ ~(f.attempt < RetryAttempts) /\ FailCall(i, sockets)
  BY <1>0 DEF ConnectFailed, MayRetry
<1>2. /\ Active(i) /\ f.status = "connecting" /\ electrumFaults' = electrumFaults + 1
      /\ UNCHANGED <<height, txHeight, tip, before, faultsBefore>>
  BY <1>0 DEF ConnectFailed, Connecting, ElectrumFault, WorldStays
<1>3. WorldInv /\ Grows
  <2>1. WorldInv
    BY DEF ElectrumInv
  <2>2. Accept([method |-> "none"])
    BY <1>2 DEF Accept
  <2>3. WorldStays /\ electrumFaults' \in {electrumFaults, electrumFaults + 1}
    BY <1>2 DEF WorldStays
  <2> QED  BY <2>1, <2>2, <2>3, AcceptGrows
<1>4. /\ IsFrame(f) /\ (\E S : list \in Seq(S)) /\ i \in DOMAIN list
      /\ \A j \in DOMAIN list : IsFrame(list[j])
  BY <1>0, <1>2, ActiveFacts
<1>5. /\ f.attempt \in Nat /\ electrumFaults \in Nat /\ RetryAttempts \in Nat
      /\ f.server \in Server /\ f.socket \in BOOLEAN /\ opened \in BOOLEAN
      /\ openConnections \in Int /\ electrumFaults' \in Nat
  BY <1>1, <1>3, <1>4, ElectrumAssumption DEF ElectrumInv, Paid, Grows, WorldInv, IsFrame
<1>6. Faults \in Nat /\ Faults' = Faults + 1
  BY <1>2, <1>3, FaultsGrow
<1>7. InProgress(frames) => Counted(root, f) /\ f.attempt <= Faults
  BY <1>0, <1>2, ActiveHeard DEF Counted
<1> DEFINE K == RetryAttempts + 1
<1>8. PICK d : d = IF opened = f.socket THEN 0 ELSE K
  OBVIOUS
<1>9. /\ d \in {0, K} /\ K # 0 /\ K \in Nat /\ (d = 0 <=> opened = f.socket)
      /\ openConnections + (IF opened = f.socket THEN 0 ELSE 1)
             = IF d = 0 THEN openConnections ELSE openConnections + 1
  BY <1>5, <1>8
<1>10. /\ Pending(f) = f.attempt /\ Credit(f) = IF f.socket THEN K ELSE 0
       /\ d + Credit(f) = IF opened THEN K ELSE 0
  <2>1. Pending(f) = f.attempt /\ Credit(f) = IF f.socket THEN K ELSE 0
    BY <1>2 DEF Pending, Credit
  <2>2. K \in Nat /\ K + 0 = K /\ 0 + K = K /\ 0 + 0 = 0
    BY <1>9
  <2>3. CASE f.socket = TRUE
    <3>1. opened = TRUE /\ d = 0 /\ Credit(f) = K
      BY <1>1, <1>8, <2>1, <2>3
    <3> QED  BY <2>1, <2>2, <3>1
  <2>4. CASE f.socket = FALSE
    <3>1. Credit(f) = 0
      BY <2>1, <2>4
    <3>2. CASE opened = TRUE
      <4>1. d = K
        BY <1>8, <2>4, <3>2
      <4> QED  BY <2>1, <2>2, <3>1, <3>2, <4>1
    <3>3. CASE opened = FALSE
      <4>1. d = 0
        BY <1>8, <2>4, <3>3
      <4> QED  BY <2>1, <2>2, <3>1, <3>3, <4>1
    <3> QED  BY <1>5, <3>2, <3>3
  <2> QED  BY <1>5, <2>3, <2>4
<1>11. PICK e : e = electrumFaults /\ e \in Nat /\ electrumFaults' = e + 1
  BY <1>2, <1>5
<1>12. CASE /\ f.attempt < RetryAttempts
            /\ frames' = [frames EXCEPT ![i].attempt = @ + 1, ![i].socket = opened]
            /\ openConnections' = openConnections + (IF opened = f.socket THEN 0 ELSE 1)
            /\ UNCHANGED answer
  <2>0. PICK g : g = [f EXCEPT !.attempt = @ + 1, !.socket = opened]
    OBVIOUS
  <2>1. frames' = [frames EXCEPT ![i] = g]
    BY <1>0, <1>4, <1>12, <2>0
  <2>2. /\ DOMAIN g = FrameFields /\ g.op = f.op /\ g.arg = f.arg /\ g.got = f.got
        /\ g.calls = f.calls /\ g.server = f.server /\ g.attempt = f.attempt + 1
        /\ g.socket = opened /\ g.status = "connecting"
    BY <1>2, <1>4, <2>0 DEF IsFrame, FrameFields
  <2>3. SameCall(f, g)
    <3>1. PICK n, status : n = g.attempt /\ status = g.status
      OBVIOUS
    <3>2. n \in Nat
      BY <1>5, <2>2, <3>1
    <3> QED  BY <1>4, <1>5, <2>2, <3>1, <3>2, FrameFacts
  <2>4. InProgress(frames) => Counted(root, g)'
    <3> SUFFICES ASSUME InProgress(frames) PROVE Counted(root, g)'
      OBVIOUS
    <3>1. f.attempt + 1 <= RetryAttempts
      BY <1>5, <1>12
    <3>2. f.attempt + 1 <= Faults + 1
      BY <1>5, <1>6, <1>7
    <3>3. f.server > 1 => Faults + 1 > RetryAttempts
      <4>1. f.server > 1 => Faults > RetryAttempts
        BY <1>7 DEF Counted
      <4> QED  BY <1>5, <1>6, <4>1
    <3> QED  BY <1>6, <2>2, <3>1, <3>2, <3>3 DEF Counted
  <2>5. Pending(g) = f.attempt + 1 /\ Credit(g) = IF opened THEN K ELSE 0
    BY <2>2 DEF Pending, Credit
  <2>6. d + Pending(g) + Credit(f) + electrumFaults <= Pending(f) + Credit(g) + electrumFaults'
    <3>1. PICK c : c = Credit(f) /\ c \in Nat /\ d \in Nat
      BY <1>9, <1>10
    <3>2. d + (f.attempt + 1) + c + e <= f.attempt + (d + c) + (e + 1)
      BY <1>5, <1>11, <3>1
    <3> QED  BY <1>10, <1>11, <2>5, <3>1, <3>2
  <2>7. openConnections' = IF d = 0 THEN openConnections ELSE openConnections + 1
    BY <1>9, <1>12
  <2> HIDE DEF K
  <2>8. d \in {0, RetryAttempts + 1} /\ g.status \in {"connecting", "connected"}
    BY <1>9, <2>2 DEF K
  <2> QED  BY <1>0, <1>2, <1>3, <1>12, <2>1, <2>3, <2>4, <2>6, <2>7, <2>8, SameCallGoesOn
<1>13. CASE /\ ~(f.attempt < RetryAttempts) /\ f.server < Credentials
            /\ frames' = [frames EXCEPT ![i].server = @ + 1, ![i].attempt = 0,
                                        ![i].socket = FALSE]
            /\ openConnections' = openConnections + (IF opened = f.socket THEN 0 ELSE 1)
            /\ UNCHANGED answer
  <2>0. PICK g : g = [f EXCEPT !.server = @ + 1, !.attempt = 0, !.socket = FALSE]
    OBVIOUS
  <2>1. frames' = [frames EXCEPT ![i] = g]
    BY <1>0, <1>4, <1>13, <2>0
  <2>2. /\ DOMAIN g = FrameFields /\ g.op = f.op /\ g.arg = f.arg /\ g.got = f.got
        /\ g.calls = f.calls /\ g.server = f.server + 1 /\ g.attempt = 0
        /\ g.socket = FALSE /\ g.status = "connecting"
    BY <1>2, <1>4, <2>0 DEF IsFrame, FrameFields
  <2>3. SameCall(f, g)
    <3>1. PICK s, n, b, status : s = g.server /\ n = g.attempt /\ b = g.socket /\ status = g.status
      OBVIOUS
    <3>2. s \in Server /\ n \in Nat /\ b \in BOOLEAN
      <4>1. f.server \in Nat /\ f.server >= 1 /\ Credentials \in Nat
        BY <1>5, ElectrumAssumption DEF Server
      <4>2. f.server + 1 \in 1..Credentials
        BY <1>13, <4>1
      <4>3. s \in Server
        BY <2>2, <3>1, <4>2 DEF Server
      <4>4. n \in Nat
        BY <2>2, <3>1
      <4>5. b \in BOOLEAN
        <5>1. b = FALSE
          BY ONLY <2>2, <3>1
        <5> QED  BY ONLY <5>1
      <4> QED  BY <4>3, <4>4, <4>5
    <3> QED  BY <1>4, <2>2, <3>1, <3>2, FrameFacts
  <2>4. InProgress(frames) => Counted(root, g)'
    <3> SUFFICES ASSUME InProgress(frames) PROVE Counted(root, g)'
      OBVIOUS
    <3>1. 0 <= RetryAttempts /\ 0 <= Faults + 1 /\ Faults + 1 > RetryAttempts
      BY <1>5, <1>6, <1>7, <1>13
    <3> QED  BY <1>6, <2>2, <3>1 DEF Counted
  <2>5. Pending(g) = 0 /\ Credit(g) = 0
    BY <2>2 DEF Pending, Credit
  <2>6. d + Pending(g) + Credit(f) + electrumFaults <= Pending(f) + Credit(g) + electrumFaults'
    <3>1. PICK c : c = Credit(f) /\ c \in Nat /\ d \in Nat
      BY <1>9, <1>10
    <3>2. d + c <= K /\ K <= f.attempt + 1
      BY <1>5, <1>9, <1>10, <1>13, <3>1
    <3>3. d + 0 + c + e <= f.attempt + 0 + (e + 1)
      BY <1>5, <1>9, <1>11, <3>1, <3>2
    <3> QED  BY <1>10, <1>11, <2>5, <3>1, <3>3
  <2>7. openConnections' = IF d = 0 THEN openConnections ELSE openConnections + 1
    BY <1>9, <1>13
  <2> HIDE DEF K
  <2>8. d \in {0, RetryAttempts + 1} /\ g.status \in {"connecting", "connected"}
    BY <1>9, <2>2 DEF K
  <2> QED  BY <1>0, <1>2, <1>3, <1>13, <2>1, <2>3, <2>4, <2>6, <2>7, <2>8, SameCallGoesOn
<1>14. CASE /\ ~(f.attempt < RetryAttempts)
            /\ FailCall(i, openConnections + (IF opened = f.socket THEN 0 ELSE 1))
  <2> DEFINE g == [f EXCEPT !.status = "over"]
             mid == [list EXCEPT ![i] = g]
  <2>1. PICK sockets : sockets = openConnections + (IF opened = f.socket THEN 0 ELSE 1)
    OBVIOUS
  <2>2. sockets \in Int /\ sockets = IF d = 0 THEN openConnections ELSE openConnections + 1
    BY <1>5, <1>9, <2>1
  <2>3. OneChanges(list, i, mid) /\ mid[i] = g
    BY <1>4, OneChangesExcept
  <2>4. IsFrame(g) /\ Pending(g) = 0 /\ Credit(g) = 0
    BY <1>4 DEF IsFrame, FrameFields, Pending, Credit
  <2>5. d + Pending(g) + Credit(f) + e <= Pending(f) + Credit(g) + (e + 1)
    <3>1. PICK c : c = Credit(f) /\ c \in Nat /\ d \in Nat
      BY <1>9, <1>10
    <3>2. d + c <= K /\ K <= f.attempt + 1
      BY <1>5, <1>9, <1>10, <1>14, <3>1
    <3>3. d + 0 + c + e <= f.attempt + 0 + (e + 1)
      BY <1>5, <1>9, <1>11, <3>1, <3>2
    <3> HIDE DEF g
    <3> QED  BY <1>10, <2>4, <3>1, <3>3
  <2>6. PICK o : o = openConnections
    OBVIOUS
  <2>7. Paid(list, o, e)
    BY <1>0, <1>11, <2>6 DEF ElectrumInv
  <2>8. Paid(mid, sockets, e + 1)
    <3> HIDE DEF mid, g
    <3>0. f = list[i] /\ e + 1 \in Nat
      BY <1>0, <1>11
    <3>1. CASE d = 0
      <4>1. 0 + Pending(mid[i]) + Credit(list[i]) + e <= Pending(list[i]) + Credit(mid[i]) + (e + 1)
        BY <2>3, <2>5, <3>0, <3>1
      <4>2. Paid(mid, o, e + 1)
        BY <1>4, <2>3, <2>4, <2>7, <3>0, <4>1, PaidOne
      <4> QED  BY <2>2, <2>6, <3>1, <4>2
    <3>2. CASE d = K
      <4>1. (RetryAttempts + 1) + Pending(mid[i]) + Credit(list[i]) + e
                <= Pending(list[i]) + Credit(mid[i]) + (e + 1)
        BY <2>3, <2>5, <3>0, <3>2
      <4>2. Paid(mid, o + 1, e + 1)
        BY <1>4, <2>3, <2>4, <2>7, <3>0, <4>1, PaidOne
      <4> QED  BY <1>9, <2>2, <2>6, <3>2, <4>2
    <3> QED  BY <1>9, <3>1, <3>2
  <2>9. InProgress(frames) => Faults' > RetryAttempts
    BY <1>5, <1>6, <1>7, <1>14
  <2>10. Paid([frames EXCEPT ![i] = [@ EXCEPT !.status = "over"]],
              IF frames[i].status = "connected" THEN sockets - 1 ELSE sockets, electrumFaults')
    BY <1>0, <1>2, <1>11, <2>8
  <2>11. CallsInv' /\ Paid(frames, openConnections, electrumFaults)'
    BY <1>2, <1>3, <1>14, <2>1, <2>2, <2>9, <2>10, CallFails
  <2> QED  BY <1>3, <2>11 DEF ElectrumInv, Grows
<1> QED  BY <1>1, <1>12, <1>13, <1>14

\* A call that is connected ends, with its connection.
LEMMA ConnectedEnds ==
    ASSUME ElectrumInv, Grows, NEW i, Active(i), NEW f, f = frames[i], f.status = "connected",
           NEW g, IsFrame(g), g.status \in {"over", "returned"},
           NEW list, list = frames, NEW new, OneChanges(list, i, new), new[i] = g
    PROVE  Paid(new, openConnections - 1, electrumFaults')
<1>1. /\ IsFrame(f) /\ (\E S : list \in Seq(S)) /\ i \in DOMAIN list /\ f = list[i]
      /\ \A j \in DOMAIN list : IsFrame(list[j])
  BY ActiveFacts
<1>2. PICK o, e, e2 : o = openConnections /\ e = electrumFaults /\ e2 = electrumFaults'
  OBVIOUS
<1>3. Paid(list, o, e) /\ e \in Nat /\ e2 \in Nat /\ e <= e2 /\ RetryAttempts \in Nat
  BY <1>2, ElectrumAssumption DEF ElectrumInv, Grows, WorldInv
<1>4. Pending(f) = 0 /\ Pending(g) = 0 /\ Credit(f) = RetryAttempts + 1 /\ Credit(g) = 0
  BY DEF Pending, Credit
<1>5. -(RetryAttempts + 1) + 0 + (RetryAttempts + 1) + e <= 0 + 0 + e2
  BY <1>3
<1>6. -(RetryAttempts + 1) + Pending(new[i]) + Credit(list[i]) + e
          <= Pending(list[i]) + Credit(new[i]) + e2
  BY <1>1, <1>4, <1>5
<1>7. Paid(new, o - 1, e2)
  BY <1>1, <1>3, <1>6, PaidOne
<1> QED  BY <1>2, <1>7

LEMMA ConnectedFails ==
    ASSUME ElectrumInv, Grows, NEW i, Active(i), frames[i].status = "connected",
           FailCall(i, openConnections),
           InProgress(frames) => Faults' > RetryAttempts \/ Excused(frames[1])
    PROVE  ElectrumInv'
<1>0. PICK list, f, g : list = frames /\ f = frames[i] /\ g = [f EXCEPT !.status = "over"]
  OBVIOUS
<1>1. IsFrame(f) /\ (\E S : list \in Seq(S)) /\ i \in DOMAIN list
  BY <1>0, ActiveFacts
<1>2. IsFrame(g) /\ g.status = "over"
  BY <1>0, <1>1 DEF IsFrame, FrameFields
<1>3. OneChanges(list, i, [list EXCEPT ![i] = g]) /\ [list EXCEPT ![i] = g][i] = g
  BY <1>1, OneChangesExcept
<1>4. PICK new : new = [list EXCEPT ![i] = g]
  OBVIOUS
<1>5. Paid(new, openConnections - 1, electrumFaults')
  BY <1>0, <1>2, <1>3, <1>4, ConnectedEnds
<1>6. new = [frames EXCEPT ![i] = [@ EXCEPT !.status = "over"]]
  BY <1>0, <1>4
<1>7. openConnections \in Int
  BY DEF ElectrumInv, Paid
<1>8. CallsInv' /\ Paid(frames, openConnections, electrumFaults)'
  BY <1>5, <1>6, <1>7, CallFails
<1> QED  BY <1>8 DEF ElectrumInv, Grows

\* A request is tried again, or was tried often enough.
LEMMA RetryKeeps ==
    ASSUME ElectrumInv, Grows, NEW i, Active(i), frames[i].status = "connected", Retry(i),
           InProgress(frames) =>
               Faults' = Faults + 1 \/ Excused(frames[1]) \/ Faults > RetryAttempts
    PROVE  ElectrumInv'
<1>0. PICK root, f, list : root = frames[1] /\ f = frames[i] /\ list = frames
  OBVIOUS
<1>1. IsFrame(f) /\ (\E S : list \in Seq(S)) /\ i \in DOMAIN list
  BY <1>0, ActiveFacts
<1>2. PICK m, n : m = Faults /\ n = Faults'
  OBVIOUS
<1>3. /\ m \in Nat /\ n \in Nat /\ m <= n /\ f.attempt \in Nat /\ RetryAttempts \in Nat
      /\ electrumFaults \in Nat /\ WorldInv
  BY <1>1, <1>2, FaultsGrow, ElectrumAssumption DEF ElectrumInv, WorldInv, IsFrame
<1>4. InProgress(frames) =>
          /\ f.server > 1 => m > RetryAttempts
          /\ f.attempt <= m \/ Excused(root)
          /\ n = m + 1 \/ Excused(root) \/ m > RetryAttempts
  BY <1>0, <1>2, ActiveHeard DEF Counted
<1>5. CASE ~MayRetry(f) /\ FailCall(i, openConnections)
  <2>1. InProgress(frames) => Faults' > RetryAttempts \/ Excused(frames[1])
    BY <1>0, <1>2, <1>3, <1>4, <1>5 DEF MayRetry
  <2> QED  BY <1>5, <2>1, ConnectedFails
<1>6. CASE /\ MayRetry(f) /\ frames' = [frames EXCEPT ![i].attempt = @ + 1]
           /\ UNCHANGED <<openConnections, answer>>
  <2>0. PICK g : g = [f EXCEPT !.attempt = @ + 1]
    OBVIOUS
  <2>1. frames' = [frames EXCEPT ![i] = g]
    BY <1>0, <1>1, <1>6, <2>0
  <2>2. /\ DOMAIN g = FrameFields /\ g.op = f.op /\ g.arg = f.arg /\ g.got = f.got
        /\ g.calls = f.calls /\ g.server = f.server /\ g.attempt = f.attempt + 1
        /\ g.socket = f.socket /\ g.status = "connected"
    BY <1>0, <1>1, <2>0 DEF IsFrame, FrameFields
  <2>3. SameCall(f, g)
    <3>1. PICK s, k, b, status : s = g.server /\ k = g.attempt /\ b = g.socket /\ status = g.status
      OBVIOUS
    <3>2. k \in Nat
      BY <1>3, <2>2, <3>1
    <3>3. s \in Server /\ b \in BOOLEAN
      BY <1>1, <2>2, <3>1 DEF IsFrame
    <3> QED  BY <1>1, <2>2, <3>1, <3>2, <3>3, FrameFacts
  <2>4. InProgress(frames) => Counted(root, g)'
    <3> SUFFICES ASSUME InProgress(frames) PROVE Counted(root, g)'
      OBVIOUS
    <3>1. f.attempt + 1 <= RetryAttempts
      BY <1>3, <1>6 DEF MayRetry
    <3>2. f.attempt + 1 <= n \/ Excused(root)
      BY <1>3, <1>4, <3>1
    <3>3. f.server > 1 => n > RetryAttempts
      BY <1>3, <1>4
    <3>4. Excused(root) => Excused(root)'
      BY <1>3, ExcusedStays
    <3> QED  BY <1>2, <2>2, <3>1, <3>2, <3>3, <3>4 DEF Counted
  <2>5. /\ Pending(g) = 0 /\ Pending(f) = 0
        /\ Credit(g) = RetryAttempts + 1 /\ Credit(f) = RetryAttempts + 1
    BY <1>0, <2>2 DEF Pending, Credit
  <2>6. PICK d : d = 0
    OBVIOUS
  <2>7. PICK e, e2 : e = electrumFaults /\ e2 = electrumFaults'
    OBVIOUS
  <2>8. e \in Nat /\ e2 \in Nat /\ e <= e2
    BY <2>7 DEF Grows, WorldInv, ElectrumInv
  <2>9. d + Pending(g) + Credit(f) + electrumFaults <= Pending(f) + Credit(g) + electrumFaults'
    <3>1. 0 + 0 + (RetryAttempts + 1) + e <= 0 + (RetryAttempts + 1) + e2
      BY <1>3, <2>8
    <3> QED  BY <2>5, <2>6, <2>7, <3>1
  <2> QED  BY <1>0, <1>6, <2>1, <2>2, <2>3, <2>4, <2>6, <2>9, SameCallGoesOn
<1> QED  BY <1>0, <1>5, <1>6 DEF Retry

LEMMA SendRequestKeeps ==
    ASSUME ElectrumInv, NEW i, NEW mempool, SendRequest(i, mempool)
    PROVE  ElectrumInv'
<1>0. PICK root, f, list, request, value :
          /\ root = frames[1] /\ f = frames[i] /\ list = frames
          /\ request = NextStep(f) /\ value = Reply(f, request, mempool)
  OBVIOUS
<1>1. /\ Active(i) /\ f.status = "connected" /\ request.do = "request"
      /\ mempool \in SUBSET MayKnow(f.server) /\ WorldStays
  BY <1>0 DEF SendRequest, Connected
<1>2. \/ /\ frames' = [frames EXCEPT ![i].got = Append(@, value), ![i].attempt = 0]
         /\ Accept(request) /\ UNCHANGED <<openConnections, answer, electrumFaults>>
      \/ /\ Refused(f.server, request, mempool)
         /\ UNCHANGED <<txHeight, electrumFaults>> /\ Retry(i)
      \/ /\ electrumFaults' = electrumFaults + 1 /\ Retry(i)
         /\ Accept(request) \/ UNCHANGED txHeight
  BY <1>0 DEF SendRequest, ElectrumFault
<1>3. WorldInv /\ CallsInv
  BY DEF ElectrumInv
<1>4. Grows
  <2>1. Accept(request) \/ UNCHANGED txHeight
    BY <1>2
  <2>2. electrumFaults' \in {electrumFaults, electrumFaults + 1}
    BY <1>2
  <2> QED  BY <1>1, <1>3, <2>1, <2>2, AcceptGrows
<1>5. /\ IsFrame(f) /\ (\E S : list \in Seq(S)) /\ i \in DOMAIN list /\ TypedFrames(list)
      /\ (i = 1 => Len(list) = 1 /\ InProgress(frames))
  BY <1>0, <1>1, ActiveFacts
<1>6. /\ i = 1 => Heard(f)
      /\ i # 1 => f.op \in Single
      /\ InProgress(frames) => FramesHeard(list) /\ AllCounted(list) /\ Counted(root, f)
  BY <1>0, <1>1, ActiveHeard
<1>7. CASE /\ frames' = [frames EXCEPT ![i].got = Append(@, value), ![i].attempt = 0]
           /\ Accept(request) /\ UNCHANGED <<openConnections, answer, electrumFaults>>
  <2>0. PICK g : g = [f EXCEPT !.got = Append(@, value), !.attempt = 0]
    OBVIOUS
  <2>1. frames' = [frames EXCEPT ![i] = g]
    BY <1>0, <1>5, <1>7, <2>0
  <2>2. /\ DOMAIN g = FrameFields /\ g.op = f.op /\ g.arg = f.arg
        /\ g.got = Append(f.got, value) /\ g.calls = f.calls /\ g.server = f.server
        /\ g.attempt = 0 /\ g.socket = f.socket /\ g.status = "connected"
    BY <1>1, <1>5, <2>0 DEF IsFrame, FrameFields
  <2>3. GotNext(f.got, g.got, value)
    BY <1>5, <2>2, GotMore DEF IsFrame
  <2>4. IsFrame(g)
    BY <1>5, <2>2, <2>3 DEF IsFrame, GotNext
  <2>5. HeardMore(f, g, Reply(f, NextStep(f), mempool)) /\ NextStep(f).do = "request"
    BY <1>0, <1>1, <2>2, <2>3, <2>4 DEF HeardMore
  <2>6. i = 1 => Heard(g)
    <3>1. i = 1 => (f.server > 1 => Faults > RetryAttempts)
      BY <1>5, <1>6 DEF Counted
    <3> QED  BY <1>1, <1>3, <1>5, <1>6, <2>5, <3>1, RequestHeard
  <2>7. InProgress(frames) /\ i # 1 => SingleHeard(g)
    BY <1>3, <1>5, <1>6, <2>5, SingleRequestHeard
  <2>8. InProgress(frames) => Counted(root, g)'
    <3> SUFFICES ASSUME InProgress(frames) PROVE Counted(root, g)'
      OBVIOUS
    <3>1. 0 <= RetryAttempts /\ 0 <= Faults
      BY <1>3, <1>4, FaultsGrow, ElectrumAssumption
    <3>2. Counted(root, g)
      BY <1>6, <2>2, <3>1 DEF Counted
    <3> QED  BY <1>3, <1>4, <2>4, <3>2, CountedStays
  <2>9. /\ Pending(g) = 0 /\ Pending(f) = 0
        /\ Credit(g) = RetryAttempts + 1 /\ Credit(f) = RetryAttempts + 1
    BY <1>1, <2>2 DEF Pending, Credit
  <2>10. PICK d : d = 0
    OBVIOUS
  <2>11. d + Pending(g) + Credit(f) + electrumFaults <= Pending(f) + Credit(g) + electrumFaults'
    <3>1. electrumFaults \in Nat /\ RetryAttempts \in Nat
      BY <1>3, ElectrumAssumption DEF WorldInv
    <3> QED  BY <1>7, <2>9, <2>10, <3>1
  <2> QED  BY <1>0, <1>1, <1>4, <1>7, <2>1, <2>2, <2>4, <2>6, <2>7, <2>8, <2>10, <2>11, CallGoesOn
<1>8. CASE Refused(f.server, request, mempool) /\ Retry(i)
  <2>1. InProgress(frames) => Excused(root) \/ Faults > RetryAttempts
    BY <1>0, <1>1, <1>3, <1>5, <1>6, <1>8, RefusalsExcused
  <2> QED  BY <1>0, <1>1, <1>4, <1>8, <2>1, RetryKeeps
<1>9. CASE electrumFaults' = electrumFaults + 1 /\ Retry(i)
  <2>1. Faults' = Faults + 1
    BY <1>3, <1>4, <1>9, FaultsGrow
  <2> QED  BY <1>0, <1>1, <1>4, <1>9, <2>1, RetryKeeps
<1> QED  BY <1>2, <1>7, <1>8, <1>9

LEMMA ThrowErrorKeeps ==
    ASSUME ElectrumInv, NEW i, ThrowError(i)
    PROVE  ElectrumInv'
<1>1. /\ Active(i) /\ frames[i].status = "connected" /\ NextStep(frames[i]).do = "throw"
      /\ FailCall(i, openConnections)
      /\ UNCHANGED <<height, txHeight, tip, before, faultsBefore, electrumFaults>>
  BY DEF ThrowError, Connected, WorldStays
<1>2. Grows
  BY <1>1, NothingGrows DEF ElectrumInv
<1>3. IsFrame(frames[i]) /\ (i = 1 => Heard(frames[i])) /\ (i # 1 => frames[i].op \in Single)
  BY <1>1, ActiveFacts, ActiveHeard
<1>4. i = 1
  BY <1>1, <1>3, OnceReturns
<1>5. frames[1].op = Confirmations
  BY <1>1, <1>3, <1>4, Throws
<1>6. Excused(frames[1])
  BY <1>5 DEF Excused
<1> QED  BY <1>1, <1>2, <1>6, ConnectedFails

\* The calls a call makes.
LEMMA NewFrameFacts ==
    ASSUME NEW op, NEW arg
    PROVE  LET g == NewFrame(op, arg)
           IN  /\ IsFrame(g) /\ g.op = op /\ g.arg = arg /\ g.status = "connecting"
               /\ g.attempt = 0 /\ g.server = 1 /\ g.got = <<>>
               /\ Pending(g) = 0 /\ Credit(g) = 0 /\ SingleHeard(g)
<1> DEFINE g == NewFrame(op, arg)
<1>1. /\ DOMAIN g = FrameFields /\ g.op = op /\ g.arg = arg /\ g.status = "connecting"
      /\ g.attempt = 0 /\ g.server = 1 /\ g.got = <<>> /\ g.calls = 0 /\ g.socket = FALSE
  BY DEF NewFrame, FrameFields
<1> HIDE DEF g
<1>2. 1 \in Server
  BY ElectrumAssumption DEF Server
<1>3. <<>> \in Seq({})
  OBVIOUS
<1>4. g.socket \in BOOLEAN
  <2>1. g.socket = FALSE
    BY <1>1
  <2> QED  BY ONLY <2>1
<1>5. g.attempt \in Nat /\ g.calls \in Nat
  BY <1>1
<1>6. IsFrame(g)
  BY <1>1, <1>2, <1>3, <1>4, <1>5 DEF IsFrame
<1>7. Pending(g) = 0 /\ Credit(g) = 0
  <2>1. ~g.socket /\ g.status # "connected"
    BY <1>1
  <2> QED  BY <1>1, <2>1 DEF Pending, Credit
<1> QED  BY <1>1, <1>6, <1>7 DEF g, SingleHeard

LEMMA MakeCallsKeeps ==
    ASSUME ElectrumInv, NEW i, MakeCalls(i)
    PROVE  ElectrumInv'
<1>0. PICK list, f, step, args :
          list = frames /\ f = frames[i] /\ step = NextStep(f) /\ args = step.args
  OBVIOUS
<1> DEFINE made == [k \in DOMAIN args |-> NewFrame(step.op, args[k])]
           new == list \o made
<1>1. /\ Active(i) /\ f.status = "connected" /\ step.do = "calls" /\ frames' = new
      /\ UNCHANGED <<height, txHeight, tip, before, faultsBefore, electrumFaults, answer,
                      openConnections>>
  BY <1>0 DEF MakeCalls, Connected, WorldStays
<1>2. Grows /\ WorldInv
  BY <1>1, NothingGrows DEF ElectrumInv
<1>3. /\ IsFrame(f) /\ (i = 1 => Heard(f)) /\ (i # 1 => f.op \in Single)
      /\ (\E S : list \in Seq(S)) /\ TypedFrames(list)
      /\ (i = 1 => Len(list) = 1 /\ InProgress(list))
      /\ \A j \in DOMAIN list : IsFrame(list[j])
  BY <1>0, <1>1, ActiveFacts, ActiveHeard
<1>4. i = 1 /\ Heard(f) /\ Len(list) = 1 /\ list[1] = f /\ InProgress(list)
  BY <1>0, <1>1, <1>3, OnceReturns
<1>5. /\ step.op \in Single
      /\ \E S : args \in Seq(S)
      /\ Len(args) \in Nat /\ Len(args) > 0 /\ DOMAIN args = 1..Len(args)
  <2>1. CASE step = Call("getNetwork", "none") \/ step = Call("latestBlockHeight", "none")
    <3>1. args = <<"none">> /\ step.op \in Single
      BY <1>0, <2>1, Kinds DEF Single
    <3>2. args \in Seq({"none"}) /\ Len(args) = 1
      BY <3>1
    <3>3. \E S : args \in Seq(S)
      BY ONLY <3>2, Zenon
    <3>4. DOMAIN args = 1..Len(args) /\ Len(args) \in Nat /\ Len(args) > 0
      BY ONLY <3>2
    <3> QED  BY <3>1, <3>3, <3>4
  <2>2. CASE step = Calls("getTransaction", Hashes(Fetched(f)))
             /\ f.op = "getTransactionHistory" /\ Len(f.got) = 2 /\ Fetched(f) # <<>>
    <3>1. HistoryHeard(f) /\ Len(f.got) \in Nat /\ Len(f.got) >= 2
      BY <1>4, <2>2 DEF Heard
    <3>2. Fetched(f) \in Seq(Items) /\ Len(Fetched(f)) \in Nat
      BY <3>1, FetchedFacts
    <3>3. args = Hashes(Fetched(f)) /\ step.op \in Single
      BY <1>0, <2>2, Kinds DEF Single
    <3>4. /\ Len(args) = Len(Fetched(f)) /\ DOMAIN args = DOMAIN Fetched(f)
          /\ \A k \in DOMAIN Fetched(f) : args[k] = Fetched(f)[k].tx
      BY <3>2, <3>3, HashesFacts
    <3>5. DOMAIN args = 1..Len(args) /\ Len(args) > 0
      BY <2>2, <3>2, <3>4
    <3>6. args \in Seq({args[k] : k \in DOMAIN args})
      <4>1. args = [k \in DOMAIN Fetched(f) |-> args[k]]
        <5>1. args = [k \in DOMAIN Fetched(f) |-> Fetched(f)[k].tx]
          BY <3>3 DEF Hashes
        <5> QED  BY <5>1
      <4>2. args = [k \in 1..Len(args) |-> args[k]]
        BY <3>4, <3>5, <4>1
      <4> QED  BY <3>2, <3>4, <3>5, <4>2
    <3>7. Len(args) \in Nat
      BY <3>2, <3>4
    <3>8. \E S : args \in Seq(S)
      BY ONLY <3>6, Zenon
    <3> QED  BY ONLY <3>3, <3>5, <3>7, <3>8
  <2> QED  BY <1>0, <1>1, <1>3, <1>4, <2>1, <2>2, CallsMade
<1>6. PICK n \in Nat : n = Len(args) /\ n > 0
  BY <1>5
<1>7. /\ DOMAIN made = 1..n /\ \A k \in 1..n : made[k] = NewFrame(step.op, args[k])
      /\ made \in Seq({made[k] : k \in 1..n}) /\ Len(made) = n
  <2>1. made = [k \in 1..n |-> NewFrame(step.op, args[k])]
    BY <1>5, <1>6
  <2> HIDE DEF made
  <2>2. made \in [1..n -> {made[k] : k \in 1..n}]
    BY <2>1
  <2> QED  BY <2>1, <2>2
<1> HIDE DEF made
<1>8. /\ \E S : new \in Seq(S)
      /\ Len(new) = n + 1 /\ DOMAIN new = 1..(n + 1) /\ new[1] = f
      /\ \A j \in 2..(n + 1) : new[j] = NewFrame(step.op, args[j - 1])
  <2>1. GotAll(list, new, made)
    <3>1. \E S : made \in Seq(S)
      BY <1>7
    <3> QED  BY <1>3, <3>1, GotAllFacts
  <2>2. Len(list) = 1 /\ Len(made) = n
    BY <1>4, <1>7
  <2> HIDE DEF new
  <2>3. /\ \E S : new \in Seq(S)
        /\ Len(new) = 1 + n /\ new[1] = list[1]
        /\ \A k \in 1..n : new[1 + k] = made[k]
    BY <2>1, <2>2 DEF GotAll
  <2>4. DOMAIN new = 1..(n + 1) /\ Len(new) = n + 1
    BY <2>3
  <2>5. ASSUME NEW j \in 2..(n + 1) PROVE new[j] = NewFrame(step.op, args[j - 1])
    <3>1. j - 1 \in 1..n /\ j = 1 + (j - 1)
      OBVIOUS
    <3>2. new[1 + (j - 1)] = made[j - 1]
      BY <2>3, <3>1
    <3> QED  BY <1>7, <3>1, <3>2
  <2> QED  BY <1>4, <2>3, <2>4, <2>5
<1> HIDE DEF new
<1>9. \A j \in DOMAIN new : j = 1 \/ j \in 2..(n + 1)
  BY <1>8
<1>10. \A j \in DOMAIN new : IsFrame(new[j])
  BY <1>3, <1>8, <1>9, NewFrameFacts
<1>11. TypedFrames(new)
  BY <1>5, <1>8, <1>9, <1>10, NewFrameFacts DEF TypedFrames
<1>12. FramesHeard(new)
  <2>1. new[1].status = "connected" /\ NextStep(new[1]).do = "calls"
    BY <1>0, <1>1, <1>8
  <2>2. Len(NextStep(new[1]).args) = Len(new) - 1
    BY <1>0, <1>6, <1>8
  <2>3. ASSUME NEW j \in DOMAIN new \ {1} PROVE KidOf(new[1], new[j], j - 1)
    <3>1. new[j] = NewFrame(step.op, args[j - 1])
      BY <1>8, <1>9
    <3>2. /\ new[j].op = step.op /\ new[j].arg = args[j - 1] /\ SingleHeard(new[j])
          /\ new[j].status = "connecting"
      BY <3>1, NewFrameFacts
    <3> QED  BY <1>0, <1>8, <3>2 DEF KidOf
  <2> QED  BY <1>4, <1>8, <2>1, <2>2, <2>3 DEF FramesHeard
<1>13. AllCounted(new)
  <2>1. Counted(f, f)
    BY <1>0, <1>1, <1>4, ActiveHeard
  <2>2. 0 <= RetryAttempts /\ 0 <= Faults
    BY <1>2, FaultsGrow, ElectrumAssumption
  <2>3. ASSUME NEW j \in 2..(n + 1) PROVE Counted(f, new[j])
    <3>1. new[j].attempt = 0 /\ new[j].server = 1 /\ new[j].status = "connecting"
      BY <1>8, NewFrameFacts
    <3> QED  BY <2>2, <3>1 DEF Counted
  <2> QED  BY <1>8, <1>9, <2>1, <2>3 DEF AllCounted
<1>14. CallsInv'
  <2>1. FramesHeard(new)'
    BY <1>2, <1>12, FramesStay
  <2>2. AllCounted(new)'
    BY <1>2, <1>10, <1>13, CountedStays DEF AllCounted
  <2>3. AnswerInv'
    <3>1. Excused(answer) => Excused(answer)'
      BY <1>1 DEF Excused, ConfirmedThen
    <3>2. new # <<>> /\ new[1].status # "over"
      BY <1>1, <1>8
    <3>3. AnswerInv
      BY DEF ElectrumInv, CallsInv
    <3> QED  BY <1>1, <3>1, <3>2, <3>3 DEF AnswerInv
  <2> QED  BY <1>1, <1>11, <2>1, <2>2, <2>3 DEF CallsInv, TypedFrames, IsFrame
<1>15. Paid(frames, openConnections, electrumFaults)'
  <2>1. PICK o, e : o = openConnections /\ e = electrumFaults
    OBVIOUS
  <2>2. Paid(list, o, e)
    BY <1>0, <2>1 DEF ElectrumInv
  <2>3. DOMAIN list = {1}
    BY <1>3, <1>4
  <2>4. 1 \in DOMAIN new
    BY <1>8
  <2>5. \A j \in DOMAIN new : j # 1 => Pending(new[j]) = 0 /\ Credit(new[j]) = 0
    BY <1>8, <1>9, NewFrameFacts
  <2>6. \A j \in DOMAIN list : Pending(list[j]) # 0 \/ Credit(list[j]) # 0 =>
            /\ j \in DOMAIN new
            /\ Pending(new[j]) = Pending(list[j]) /\ Credit(new[j]) = Credit(list[j])
    BY <1>4, <1>8, <2>3, <2>4
  <2>7. \A j \in DOMAIN new : Pending(new[j]) # 0 \/ Credit(new[j]) # 0 =>
            /\ j \in DOMAIN list
            /\ Pending(new[j]) = Pending(list[j]) /\ Credit(new[j]) = Credit(list[j])
    BY <1>4, <1>8, <2>3, <2>5
  <2>8. Paid(new, o, e)
    BY <1>3, <1>8, <1>10, <2>2, <2>6, <2>7, PaidSame
  <2> QED  BY <1>1, <2>1, <2>8 DEF Paid, Spent, Held
<1> QED  BY <1>2, <1>14, <1>15 DEF ElectrumInv, Grows

\* A call returns: the user's gives its answer, another's what it heard to its caller.
LEMMA UserReturns ==
    ASSUME ElectrumInv, NEW i, i = 1, ReturnFromCall(i)
    PROVE  ElectrumInv'
<1>0. PICK list, f, op, arg, value :
          list = frames /\ f = frames[1] /\ op = f.op /\ arg = f.arg /\ value = NextStep(f).value
  OBVIOUS
<1>1. /\ Active(i) /\ f.status = "connected" /\ NextStep(f).do = "return"
      /\ frames' = <<>> /\ openConnections' = openConnections - 1
      /\ answer' = [op |-> op, arg |-> arg, failed |-> FALSE, value |-> value,
                    faults |-> electrumFaults - faultsBefore]
      /\ UNCHANGED <<height, txHeight, tip, before, faultsBefore, electrumFaults>>
  BY <1>0 DEF ReturnFromCall, Connected, WorldStays
<1>2. Grows /\ WorldInv
  BY <1>1, NothingGrows DEF ElectrumInv
<1>3. /\ IsFrame(f) /\ Heard(f) /\ Len(list) = 1 /\ (\E S : list \in Seq(S)) /\ 1 \in DOMAIN list
      /\ f = list[1]
  BY <1>0, <1>1, ActiveFacts, ActiveHeard
<1>4. Told(op, arg, value)
  BY <1>0, <1>1, <1>2, <1>3, AnswersTold
<1>5. Told(op, arg, value)'
  BY <1>2, <1>4, ToldStays
<1>6. AnswerInv'
  <2>1. /\ answer'.op = op /\ answer'.arg = arg /\ answer'.value = value
        /\ answer'.failed = FALSE
    BY <1>1
  <2> QED  BY <1>1, <1>5, <2>1 DEF AnswerInv
<1>7. CallsInv'
  <2>1. <<>> \in Seq({}) /\ DOMAIN <<>> = {}
    OBVIOUS
  <2> QED  BY <1>1, <1>6, <2>1 DEF CallsInv, TypedFrames, InProgress
<1>8. Paid(frames, openConnections, electrumFaults)'
  <2>0. PICK g, new : g = [f EXCEPT !.status = "returned"] /\ new = [list EXCEPT ![1] = g]
    OBVIOUS
  <2>1. IsFrame(g) /\ g.status = "returned"
    BY <1>3, <2>0 DEF IsFrame, FrameFields
  <2>2. OneChanges(list, 1, new) /\ new[1] = g
    BY <1>3, <2>0, OneChangesExcept
  <2>3. PICK o, e : o = openConnections - 1 /\ e = electrumFaults'
    OBVIOUS
  <2>4. Paid(new, o, e)
    BY <1>0, <1>1, <1>2, <2>1, <2>2, <2>3, ConnectedEnds
  <2>5. /\ \E S : new \in Seq(S)
        /\ DOMAIN new = {1}
    BY <1>3, <2>2 DEF OneChanges
  <2>6. \A j \in DOMAIN new : IsFrame(new[j]) /\ new[j].status = "returned"
    BY <2>1, <2>2, <2>5
  <2>7. Settled(new) = <<>>
    BY <2>6 DEF Settled
  <2>8. Paid(<<>>, o, e)
    BY <2>4, <2>5, <2>6, <2>7, PaidSettled
  <2> QED  BY <1>1, <2>3, <2>8 DEF Paid, Spent, Held
<1> QED  BY <1>2, <1>7, <1>8 DEF ElectrumInv, Grows

LEMMA OtherReturns ==
    ASSUME ElectrumInv, NEW i, i # 1, ReturnFromCall(i)
    PROVE  ElectrumInv'
<1>0. PICK list, f, root, value, g, new :
          /\ list = frames /\ f = frames[i] /\ root = frames[1] /\ value = NextStep(f).value
          /\ g = [f EXCEPT !.status = "returned", !.got = <<value>>]
          /\ new = [list EXCEPT ![i] = g]
  OBVIOUS
<1>1. /\ Active(i) /\ f.status = "connected" /\ NextStep(f).do = "return"
      /\ openConnections' = openConnections - 1
      /\ frames' = Resumed([frames EXCEPT ![i].status = "returned", ![i].got = <<value>>])
      /\ UNCHANGED <<height, txHeight, tip, before, faultsBefore, electrumFaults, answer>>
  BY <1>0 DEF ReturnFromCall, Connected, WorldStays
<1>2. Grows /\ WorldInv /\ CallsInv
  BY <1>1, NothingGrows DEF ElectrumInv
<1>3. /\ IsFrame(f) /\ (\E S : list \in Seq(S)) /\ i \in DOMAIN list /\ 1 \in DOMAIN list
      /\ f = list[i] /\ root = list[1] /\ f.status # "over" /\ TypedFrames(list) /\ list # <<>>
      /\ \A j \in DOMAIN list : IsFrame(list[j])
  BY <1>0, <1>1, ActiveFacts
<1>4. /\ f.op \in Single
      /\ InProgress(list) => /\ SingleHeard(f) /\ FramesHeard(list) /\ AllCounted(list)
                             /\ Counted(root, f)
  BY <1>0, <1>1, ActiveHeard
<1>5. frames' = Resumed(new)
  <2>1. [list EXCEPT ![i].status = "returned", ![i].got = <<value>>] = new
    BY <1>0, <1>3
  <2> QED  BY <1>0, <1>1, <2>1
<1>6. OneChanges(list, i, new) /\ new[i] = g
  BY <1>0, <1>3, OneChangesExcept
<1>7. /\ DOMAIN g = FrameFields /\ g.op = f.op /\ g.arg = f.arg /\ g.got = <<value>>
      /\ g.calls = f.calls /\ g.server = f.server /\ g.attempt = f.attempt
      /\ g.socket = f.socket /\ g.status = "returned"
  BY <1>0, <1>3 DEF IsFrame, FrameFields
<1>8. <<value>> # <<>> /\ <<value>>[1] = value /\ <<value>> \in Seq({value})
  OBVIOUS
<1>9. IsFrame(g)
  <2>1. \E S : g.got \in Seq(S)
    BY ONLY <1>7, <1>8, Zenon
  <2> QED  BY <1>3, <1>7, <2>1 DEF IsFrame
<1>10. value = f.got[1] /\ f.got # <<>>
  BY <1>0, <1>1, <1>4, OnceReturns
<1>11. InProgress(list) => SingleHeard(g)
  BY <1>4, <1>7, <1>8, <1>10 DEF SingleHeard
<1>12. /\ \E S : new \in Seq(S)
       /\ Len(new) = Len(list) /\ DOMAIN new = DOMAIN list
       /\ \A j \in DOMAIN list \ {i} : new[j] = list[j]
       /\ new[1] = root /\ \A j \in DOMAIN new : IsFrame(new[j])
  BY <1>3, <1>6, <1>9 DEF OneChanges
<1>13. PICK o, e : o = openConnections - 1 /\ e = electrumFaults'
  OBVIOUS
<1>14. Paid(new, o, e)
  <2>1. g.status \in {"over", "returned"}
    BY <1>7
  <2>2. Paid(new, openConnections - 1, electrumFaults')
    BY <1>0, <1>1, <1>2, <1>6, <1>9, <2>1, ConnectedEnds
  <2> QED  BY <1>13, <2>2
<1>15. Len(list) > 1 /\ Len(list) \in Nat /\ DOMAIN list = 1..Len(list)
  BY <1>3
<1>16. CASE Resumed(new) = new
  <2>1. g.got # <<>>
    BY <1>7, <1>8
  <2>2. InProgress(list) => Counted(root, g)'
    <3> SUFFICES ASSUME InProgress(list) PROVE Counted(root, g)'
      OBVIOUS
    <3>1. Counted(root, g)
      BY <1>4, <1>7 DEF Counted
    <3> QED  BY <1>2, <1>9, <3>1, CountedStays
  <2>3. CallsInv'
    <3>1. /\ frames' = new /\ new[i].op = list[i].op /\ new[i].arg = list[i].arg
          /\ list = frames /\ UNCHANGED answer /\ IsFrame(new[i]) /\ list[i].status # "over"
      BY <1>0, <1>1, <1>3, <1>5, <1>6, <1>7, <1>9, <1>16
    <3>2. InProgress(list) =>
              SingleHeard(new[i]) /\ (new[i].status = "returned" => new[i].got # <<>>)
      BY <1>6, <1>11, <2>1
    <3>3. InProgress(list) => Counted(list[1], new[i])'
      <4>1. root = list[1] /\ g = new[i]
        BY <1>3, <1>6
      <4> QED  BY <2>2, <4>1
    <3> QED  BY <1>2, <1>3, <1>6, <3>1, <3>2, <3>3, CallReplaced
  <2>4. Paid(frames, openConnections, electrumFaults)'
    BY <1>1, <1>5, <1>13, <1>14, <1>16 DEF Paid, Spent, Held
  <2> QED  BY <1>2, <2>3, <2>4 DEF ElectrumInv, Grows
<1>17. CASE Resumed(new) # new /\ ~(new[1].status = "connected"
                                   /\ \A j \in DOMAIN new \ {1} : new[j].status = "returned")
  <2>1. Resumed(new) = <<>> /\ Settled(new) = <<>> /\ root.status \in {"returned", "over"}
    BY <1>3, <1>12, <1>17 DEF Resumed, Settled
  <2>2. root.status = "over"
    <3>1. InProgress(list) => root.status = "connected"
      BY <1>3, <1>4, <1>15 DEF FramesHeard
    <3> QED  BY <1>3, <2>1, <3>1 DEF InProgress
  <2>3. AnswerInv'
    <3>1. answer.failed
      BY <1>0, <1>2, <1>3, <2>2 DEF CallsInv, AnswerInv
    <3>2. Excused(answer) => Excused(answer)'
      BY <1>1 DEF Excused, ConfirmedThen
    <3> QED  BY <1>1, <1>2, <1>5, <2>1, <3>1, <3>2 DEF CallsInv, AnswerInv
  <2>4. CallsInv'
    <3>1. <<>> \in Seq({}) /\ DOMAIN <<>> = {}
      OBVIOUS
    <3> QED  BY <1>5, <2>1, <2>3, <3>1 DEF CallsInv, TypedFrames, InProgress
  <2>5. Paid(<<>>, o, e)
    BY <1>12, <1>14, <2>1, PaidSettled
  <2>6. Paid(frames, openConnections, electrumFaults)'
    BY <1>1, <1>5, <1>13, <2>1, <2>5 DEF Paid, Spent, Held
  <2> QED  BY <1>2, <2>4, <2>6 DEF ElectrumInv, Grows
<1>18. CASE new[1].status = "connected" /\ \A j \in DOMAIN new \ {1} : new[j].status = "returned"
  <2> DEFINE values == [k \in 1..(Len(new) - 1) |-> new[k + 1].got[1]]
             h == [root EXCEPT !.got = @ \o values, !.calls = @ + 1]
  <2>1. Resumed(new) = <<h>>
    BY <1>12, <1>18 DEF Resumed
  <2>2. InProgress(list) /\ root.status = "connected"
    BY <1>3, <1>12, <1>18 DEF InProgress
  <2>3. FramesHeard(new) /\ TypedFrames(new)
    BY <1>2, <1>3, <1>4, <1>6, <1>7, <1>8, <1>9, <1>11, <2>2, FramesReplaced
  <2>4. /\ Heard(root) /\ IsFrame(root) /\ NextStep(root).do = "calls"
        /\ Len(NextStep(root).args) = Len(new) - 1
        /\ \A j \in DOMAIN new \ {1} : KidOf(root, new[j], j - 1)
    BY <1>3, <1>12, <1>15, <2>3 DEF FramesHeard
  <2>5. PICK n \in Nat : n = Len(new) - 1 /\ Len(new) = n + 1 /\ DOMAIN new = 1..(n + 1)
    <3>1. PICK m : m = Len(new) /\ m \in Nat /\ m > 1 /\ DOMAIN new = 1..m
      BY <1>12, <1>15
    <3>2. m - 1 \in Nat /\ (m - 1) + 1 = m
      BY ONLY <3>1
    <3> QED  BY <3>1, <3>2
  <2>6. /\ DOMAIN values = 1..n /\ (\E S : values \in Seq(S)) /\ Len(values) = n
        /\ values \in [1..n -> {values[k] : k \in DOMAIN values}]
    <3>1. values = [k \in 1..n |-> new[k + 1].got[1]]
      BY <2>5
    <3> HIDE DEF values
    <3>2. values \in [1..n -> {values[k] : k \in 1..n}] /\ DOMAIN values = 1..n
      BY <3>1
    <3>3. values \in Seq({values[k] : k \in 1..n}) /\ Len(values) = n
      BY <3>2
    <3>4. \E S : values \in Seq(S)
      BY ONLY <3>3, Zenon
    <3> QED  BY <3>2, <3>3, <3>4
  <2>7. ReturnedTo(root, values)
    <3>1. ASSUME NEW k \in 1..n
          PROVE  /\ NextStep(root).op = "getTransaction" => values[k] = NextStep(root).args[k]
                 /\ NextStep(root).op = "latestBlockHeight" => TipTold(values[k])
      <4>1. k + 1 \in DOMAIN new \ {1} /\ (k + 1) - 1 = k
        BY <2>5
      <4>2. KidOf(root, new[k + 1], k) /\ new[k + 1].status = "returned"
        <5>1. KidOf(root, new[k + 1], (k + 1) - 1)
          BY <2>4, <4>1
        <5> QED  BY <1>18, <4>1, <5>1
      <4>3. values[k] = new[k + 1].got[1]
        BY <2>5
      <4> QED  BY <4>2, <4>3 DEF KidOf, SingleHeard
    <3>2. n = Len(NextStep(root).args)
      BY <2>4, <2>5
    <3> QED  BY <2>6, <3>1, <3>2 DEF ReturnedTo
  <2>8. GotAll(root.got, root.got \o values, values)
    BY <2>4, <2>6, GotAllFacts DEF IsFrame
  <2>9. /\ DOMAIN h = FrameFields /\ h.op = root.op /\ h.arg = root.arg
        /\ h.got = root.got \o values /\ h.calls = root.calls + 1 /\ h.server = root.server
        /\ h.attempt = root.attempt /\ h.socket = root.socket /\ h.status = "connected"
    <3> HIDE DEF values
    <3> QED  BY <2>2, <2>4 DEF IsFrame, FrameFields
  <2> HIDE DEF h, values
  <2>10. IsFrame(h)
    <3>1. \E S : h.got \in Seq(S)
      BY <2>8, <2>9 DEF GotAll
    <3>2. h.calls \in Nat
      BY <2>4, <2>9 DEF IsFrame
    <3> QED  BY <2>4, <2>9, <3>1, <3>2 DEF IsFrame
  <2>11. Heard(h)
    BY <2>4, <2>5, <2>6, <2>7, <2>8, <2>9, <2>10, ReturnHeard
  <2>12. PICK k : k = h
    OBVIOUS
  <2>13. Heard(k)'
    BY <1>2, <2>11, <2>12, HeardStays
  <2>14. Counted(k, k)'
    <3>1. Counted(root, root)
      BY <1>3, <1>4, <2>2 DEF AllCounted
    <3>2. Excused(root) => Excused(k)
      BY <2>9, <2>12 DEF Excused
    <3>3. Counted(k, k)
      BY <2>2, <2>9, <2>12, <3>1, <3>2 DEF Counted
    <3> QED  BY <1>2, <2>10, <2>12, <3>3, CountedStays
  <2>15. DOMAIN <<k>> = {1} /\ <<k>>[1] = k /\ <<k>> \in Seq({k}) /\ Len(<<k>>) = 1 /\ <<k>> # <<>>
    OBVIOUS
  <2>16. (\E S : <<k>> \in Seq(S)) /\ \A j \in DOMAIN <<k>> : IsFrame(<<k>>[j])
    <3>1. \E S : <<k>> \in Seq(S)
      BY ONLY <2>15, Zenon
    <3> QED  BY <2>10, <2>12, <2>15, <3>1
  <2>17. PICK one : one = <<k>> /\ one[1] = k /\ DOMAIN one = {1} /\ Len(one) = 1 /\ one # <<>>
    BY <2>15
  <2>18. frames' = one
    BY <1>5, <2>1, <2>12, <2>17
  <2>19. TypedFrames(one)
    BY <2>16, <2>17 DEF TypedFrames
  <2>20. FramesHeard(one)' /\ AllCounted(one)'
    BY <2>13, <2>14, <2>17 DEF FramesHeard, AllCounted
  <2>21. AnswerInv'
    <3>1. Excused(answer) => Excused(answer)'
      BY <1>1 DEF Excused, ConfirmedThen
    <3>2. k.status # "over"
      BY <2>9, <2>12
    <3> QED  BY <1>1, <1>2, <2>17, <2>18, <3>1, <3>2 DEF CallsInv, AnswerInv
  <2>22. CallsInv'
    BY <2>18, <2>19, <2>20, <2>21 DEF CallsInv, TypedFrames, IsFrame
  <2>23. Paid(one, o, e)
    <3>1. Pending(k) = Pending(root) /\ Credit(k) = Credit(root)
      BY <2>2, <2>9, <2>12 DEF Pending, Credit
    <3>2. \A j \in DOMAIN new \ {1} : Pending(new[j]) = 0 /\ Credit(new[j]) = 0
      BY <1>18 DEF Pending, Credit
    <3>3. \A j \in DOMAIN new : Pending(new[j]) # 0 \/ Credit(new[j]) # 0 =>
              /\ j \in DOMAIN one
              /\ Pending(one[j]) = Pending(new[j]) /\ Credit(one[j]) = Credit(new[j])
      BY <1>12, <2>17, <3>1, <3>2
    <3>4. \A j \in DOMAIN one : Pending(one[j]) # 0 \/ Credit(one[j]) # 0 =>
              /\ j \in DOMAIN new
              /\ Pending(one[j]) = Pending(new[j]) /\ Credit(one[j]) = Credit(new[j])
      BY <1>3, <1>12, <2>17, <3>1
    <3> QED  BY <1>12, <1>14, <2>16, <2>17, <3>3, <3>4, PaidSame
  <2>24. Paid(frames, openConnections, electrumFaults)'
    BY <1>1, <1>13, <2>18, <2>23 DEF Paid, Spent, Held
  <2> QED  BY <1>2, <2>22, <2>24 DEF ElectrumInv, Grows
<1> QED  BY <1>16, <1>17, <1>18

-----------------------------------------------------------------------------
\* The invariant holds at first, of a new call, and when the world goes on.
LEMMA OneFrame ==
    ASSUME NEW op, NEW arg, NEW list, list = <<NewFrame(op, arg)>>
    PROVE  /\ TypedFrames(list) /\ list[1] = NewFrame(op, arg) /\ Len(list) = 1
           /\ DOMAIN list = {1} /\ list # <<>> /\ Spent(list) = 0 /\ Held(list) = 0
<1> DEFINE g == NewFrame(op, arg)
<1>1. /\ IsFrame(g) /\ Pending(g) = 0 /\ Credit(g) = 0
  BY NewFrameFacts
<1> HIDE DEF g
<1>2. list = <<g>>
  BY DEF g
<1>3. DOMAIN list = {1} /\ list[1] = g /\ Len(list) = 1 /\ list # <<>> /\ list \in Seq({g})
  BY <1>2
<1>4. \E S : list \in Seq(S)
  BY ONLY <1>3, Zenon
<1>5. TypedFrames(list)
  BY <1>1, <1>3, <1>4 DEF TypedFrames
<1>6. \A j \in DOMAIN list : IsFrame(list[j]) /\ Pending(list[j]) = 0 /\ Credit(list[j]) = 0
  BY <1>1, <1>3
<1>7. /\ [j \in DOMAIN list |-> Pending(list[j])] \in [DOMAIN list -> Nat]
      /\ [j \in DOMAIN list |-> Credit(list[j])] \in [DOMAIN list -> Nat]
  BY <1>4, <1>6, FrameWeights
<1>8. Spent(list) = 0 /\ Held(list) = 0
  BY <1>6, <1>7, TotalZero DEF Spent, Held
<1> QED  BY <1>3, <1>5, <1>8 DEF g

LEMMA NoFrames == Spent(<<>>) = 0 /\ Held(<<>>) = 0
<1>1. DOMAIN <<>> = {}
  OBVIOUS
<1>2. /\ [i \in DOMAIN <<>> |-> Pending(<<>>[i])] \in [DOMAIN <<>> -> Nat]
      /\ [i \in DOMAIN <<>> |-> Credit(<<>>[i])] \in [DOMAIN <<>> -> Nat]
  BY <1>1
<1> QED  BY <1>1, <1>2, TotalZero DEF Spent, Held

LEMMA NewCallKeeps ==
    ASSUME ElectrumInv, NEW op, NEW arg, NewElectrumCall(op, arg),
           op \in Single \union Several,
           op \in AboutTransaction => arg \in BitcoinTransaction,
           op = "getTransactionHistory" => arg = <<"p2wpkh", arg[2]>> /\ arg[2] \in Nat
    PROVE  ElectrumInv'
<1>0. PICK list, f : f = NewFrame(op, arg) /\ list = <<f>>
  OBVIOUS
<1>1. /\ frames = <<>> /\ frames' = list /\ answer' = NoAnswer
      /\ before' = [txHeight |-> txHeight, tip |-> tip] /\ faultsBefore' = electrumFaults
      /\ UNCHANGED <<height, txHeight, tip, openConnections, electrumFaults>>
  BY <1>0 DEF NewElectrumCall
<1>2. WorldInv
  BY DEF ElectrumInv
<1>3. WorldInv'
  <2>1. before'.txHeight = txHeight /\ before'.tip = tip
    BY <1>1
  <2>2. \A t \in BitcoinTransaction : txHeight[t] \in Int
    BY <1>2 DEF WorldInv
  <2>3. Grown(txHeight, txHeight)
    BY <2>2 DEF Grown
  <2>4. \A s \in Server : tip[s] \in Nat /\ tip[s] <= tip[s]
    BY <1>2 DEF WorldInv
  <2>5. electrumFaults \in Nat /\ electrumFaults <= electrumFaults
    BY <1>2 DEF WorldInv
  <2> QED  BY <1>1, <1>2, <2>1, <2>2, <2>3, <2>4, <2>5 DEF WorldInv
<1>4. /\ IsFrame(f) /\ f.op = op /\ f.arg = arg /\ f.status = "connecting"
      /\ f.attempt = 0 /\ f.server = 1 /\ f.got = <<>> /\ f.calls = 0
  BY <1>0, NewFrameFacts DEF NewFrame
<1>5. Heard(f)'
  <2>1. Len(f.got) = 0
    BY <1>4
  <2>2. SingleHeard(f)'
    BY <1>4 DEF SingleHeard
  <2>3. HashesHeard(f)'
    BY <2>1 DEF HashesHeard
  <2>4. op = "getTransactionHistory" => HistoryHeard(f)'
    BY <1>4, <2>1 DEF HistoryHeard
  <2>5. ConfirmationsHeard(f)'
    <3>1. 2..(0 - 0) = {} /\ 0 \in {0, 1} /\ 0 <= 0 /\ 0 # 1
      OBVIOUS
    <3> QED  BY <1>4, <2>1, <3>1 DEF ConfirmationsHeard
  <2> QED  BY <1>4, <2>1, <2>2, <2>3, <2>4, <2>5 DEF Heard
<1>6. /\ TypedFrames(list) /\ list[1] = f /\ Len(list) = 1 /\ DOMAIN list = {1}
      /\ list # <<>> /\ Spent(list) = 0 /\ Held(list) = 0
  BY <1>0, OneFrame
<1>7. FramesHeard(list)'
  BY <1>5, <1>6 DEF FramesHeard
<1>8. AllCounted(list)'
  <2>1. PICK n : n = Faults'
    OBVIOUS
  <2>2. n = electrumFaults - electrumFaults /\ electrumFaults \in Nat /\ RetryAttempts \in Nat
    BY <1>1, <1>2, <2>1, ElectrumAssumption DEF Faults, WorldInv
  <2>3. 0 <= n /\ 0 <= RetryAttempts
    BY <2>2
  <2>4. Counted(f, f)'
    BY <1>4, <2>1, <2>3 DEF Counted
  <2> QED  BY <1>6, <2>4 DEF AllCounted
<1>9. AnswerInv'
  <2>1. ~answer'.failed
    BY <1>1 DEF NoAnswer
  <2> QED  BY <1>1, <1>4, <1>6, <2>1 DEF AnswerInv
<1>10. CallsInv'
  BY <1>1, <1>6, <1>7, <1>8, <1>9 DEF CallsInv, TypedFrames, IsFrame
<1>11. Paid(frames, openConnections, electrumFaults)'
  <2>1. Paid(<<>>, openConnections, electrumFaults)
    BY <1>1 DEF ElectrumInv
  <2>2. Paid(list, openConnections, electrumFaults)
    BY <1>6, <2>1, NoFrames DEF Paid
  <2> QED  BY <1>1, <2>2 DEF Paid, Spent, Held
<1> QED  BY <1>3, <1>10, <1>11 DEF ElectrumInv

LEMMA WorldGoesOn ==
    ASSUME ElectrumInv, Grows, UNCHANGED <<frames, openConnections, answer, electrumFaults>>
    PROVE  ElectrumInv'
<1>1. CallsInv'
  BY CallStays DEF ElectrumInv
<1> QED  BY <1>1 DEF ElectrumInv, Grows, Paid, Spent, Held

LEMMA CallStepKeeps ==
    ASSUME ElectrumInv, NEW i, CallStep(i)
    PROVE  ElectrumInv'
BY OpenSocketKeeps, PingKeeps, ConnectFailedKeeps, SendRequestKeeps, MakeCallsKeeps,
   ThrowErrorKeeps, UserReturns, OtherReturns DEF CallStep

LEMMA ElectrumInit0 ==
    ASSUME ElectrumInit
    PROVE  ElectrumInv
<1>1. /\ height \in 1..2 /\ txHeight \in [BitcoinTransaction -> -1..height]
      /\ tip \in [Server -> 1..height] /\ frames = <<>> /\ openConnections = 0
      /\ answer = NoAnswer /\ before = [txHeight |-> txHeight, tip |-> tip]
      /\ electrumFaults = 0 /\ faultsBefore = 0
  BY DEF ElectrumInit
<1>2. /\ height \in Nat /\ \A s \in Server : tip[s] \in Nat /\ tip[s] <= height
      /\ \A t \in BitcoinTransaction : /\ txHeight[t] \in Int
                                       /\ -1 <= txHeight[t] /\ txHeight[t] <= height
  BY <1>1
<1>3. before.txHeight = txHeight /\ before.tip = tip
  BY <1>1
<1>4. tip \in [Server -> Nat] /\ txHeight \in [BitcoinTransaction -> Int]
  BY <1>1, <1>2
<1>5. Grown(txHeight, txHeight)
  BY <1>2 DEF Grown
<1>6. WorldInv
  BY <1>1, <1>2, <1>3, <1>4, <1>5 DEF WorldInv
<1>7. CallsInv
  <2>1. <<>> \in Seq({}) /\ DOMAIN <<>> = {}
    OBVIOUS
  <2>2. TypedFrames(frames) /\ ~InProgress(frames)
    BY <1>1, <2>1 DEF TypedFrames, InProgress
  <2>3. Told("none", "none", <<>>)
    BY DEF Told, Confirmations
  <2>4. AnswerInv
    BY <1>1, <2>3 DEF AnswerInv, NoAnswer
  <2> QED  BY <2>2, <2>4 DEF CallsInv
<1>8. Paid(frames, openConnections, electrumFaults)
  <2>1. RetryAttempts \in Nat
    BY ElectrumAssumption
  <2>2. 0 * (RetryAttempts + 1) + 0 <= 0 + 0 /\ 0 \in Nat /\ 0 \in Int
    BY <2>1
  <2> QED  BY <1>1, <2>2, NoFrames DEF Paid
<1> QED  BY <1>6, <1>7, <1>8 DEF ElectrumInv

LEMMA ElectrumStep ==
    ASSUME ElectrumInv, [ElectrumNext]_electrumVars
    PROVE  ElectrumInv'
<1>0. WorldInv
  BY DEF ElectrumInv
<1>1. ASSUME NEW op \in AboutTransaction, NEW t \in BitcoinTransaction, NewElectrumCall(op, t)
      PROVE  ElectrumInv'
  <2>1. op \in Single \union Several /\ op # "getTransactionHistory"
    BY DEF AboutTransaction, Single, Several, Confirmations
  <2> QED  BY <1>1, <2>1, NewCallKeeps
<1>2. ASSUME NEW op \in AboutChain, NewElectrumCall(op, "none")
      PROVE  ElectrumInv'
  <2>1. op \in Single \union Several /\ op # "getTransactionHistory" /\ op \notin AboutTransaction
    BY DEF AboutChain, AboutTransaction, Single, Several, Confirmations
  <2> QED  BY <1>2, <2>1, NewCallKeeps
<1>3. ASSUME NEW limit \in HistoryLimit,
             NewElectrumCall("getTransactionHistory", <<"p2wpkh", limit>>)
      PROVE  ElectrumInv'
  <2>1. PICK arg : arg = <<"p2wpkh", limit>>
    OBVIOUS
  <2>2. arg[2] = limit /\ limit \in Nat
    BY <2>1, ElectrumAssumption
  <2>3. "getTransactionHistory" \in Several /\ "getTransactionHistory" \notin AboutTransaction
    BY DEF Several, AboutTransaction
  <2> QED  BY <1>3, <2>1, <2>2, <2>3, NewCallKeeps
<1>4. ASSUME NewElectrumCall("findAllUnspentTransactionOutputs", "p2wpkh")
      PROVE  ElectrumInv'
  <2>1. /\ "findAllUnspentTransactionOutputs" \in Several
        /\ "findAllUnspentTransactionOutputs" \notin AboutTransaction
    BY DEF Several, AboutTransaction
  <2> QED  BY <1>4, <2>1, NewCallKeeps
<1>5. ASSUME NEW i \in DOMAIN frames, CallStep(i)
      PROVE  ElectrumInv'
  BY <1>5, CallStepKeeps
<1>6. ASSUME NEW included \in SUBSET {t \in BitcoinTransaction : txHeight[t] < 1},
             BlockMined(included)
      PROVE  ElectrumInv'
  <2>1. Grows
    BY <1>0, <1>6, BlockGrows
  <2> QED  BY <1>6, <2>1, WorldGoesOn DEF BlockMined, CallVars
<1>7. ASSUME NEW s \in Server, BlockReceived(s)
      PROVE  ElectrumInv'
  <2>1. Grows
    BY <1>0, <1>7, BlockReceivedGrows
  <2> QED  BY <1>7, <2>1, WorldGoesOn DEF BlockReceived, CallVars
<1>8. ASSUME UNCHANGED electrumVars
      PROVE  ElectrumInv'
  <2>1. Grows
    BY <1>0, <1>8, NothingGrows DEF electrumVars
  <2> QED  BY <1>8, <2>1, WorldGoesOn DEF electrumVars
<1> QED  BY <1>1, <1>2, <1>3, <1>4, <1>5, <1>6, <1>7, <1>8 DEF ElectrumNext

LEMMA ElectrumAlways == ElectrumSpec => []ElectrumInv
BY ElectrumInit0, ElectrumStep, PTL DEF ElectrumSpec

\* What a call answers was true for some server at some moment between its beginning and its
\* end, for any number of servers, each of which knows more or fewer blocks than the others
\* and has other transactions in its mempool.
THEOREM TruthfulTheorem == ElectrumSpec => []AnswerTruthful
<1>1. ElectrumInv => AnswerTruthful
  <2> SUFFICES ASSUME ElectrumInv, frames = <<>> /\ ~answer.failed PROVE AnswerTruthful
    BY DEF AnswerTruthful
  <2>1. Told(answer.op, answer.arg, answer.value)
    BY DEF ElectrumInv, CallsInv, AnswerInv
  <2>2. PICK op, arg, value : op = answer.op /\ arg = answer.arg /\ value = answer.value
    OBVIOUS
  <2>3. Told(op, arg, value)
    BY <2>1, <2>2
  <2>4. CASE op = "getTransactionConfirmations"
    BY <2>2, <2>3, <2>4 DEF Told, ConfirmationsTrue, Confirmations, AnswerTruthful
  <2>5. CASE op = "latestBlockHeight"
    BY <2>2, <2>3, <2>5 DEF Told, TipTold, AnswerTruthful
  <2>6. CASE op = "getTxHashesForPublicKeyHash"
    BY <2>2, <2>3, <2>6 DEF Told, AnswerTruthful
  <2>7. CASE op = "getTransactionHistory"
    BY <2>2, <2>3, <2>7 DEF Told, AnswerTruthful
  <2>8. CASE op \notin {"getTransactionConfirmations", "latestBlockHeight",
                        "getTxHashesForPublicKeyHash", "getTransactionHistory"}
    BY <2>2, <2>8 DEF AnswerTruthful
  <2> QED  BY <2>4, <2>5, <2>6, <2>7, <2>8
<1> QED  BY <1>1, ElectrumAlways, PTL

\* A call ends in an error only after more faults than a request is retried, unless a server
\* may refuse what is asked; and when nothing is in progress, connections are open only to
\* servers that were given up, each after all its retries, for any number of servers and of
\* retries, and however the calls that a call makes at once end.
THEOREM RetriesTheorem == ElectrumSpec => []RetriesHideFaults
<1>1. ElectrumInv => RetriesHideFaults
  <2> SUFFICES ASSUME ElectrumInv PROVE RetriesHideFaults
    OBVIOUS
  <2>1. answer.failed => answer.faults > RetryAttempts \/ Excused(answer)
    BY DEF ElectrumInv, CallsInv, AnswerInv
  <2>2. frames = <<>> => openConnections * (RetryAttempts + 1) <= electrumFaults
    <3> SUFFICES ASSUME frames = <<>>
                 PROVE  openConnections * (RetryAttempts + 1) <= electrumFaults
      OBVIOUS
    <3>1. Paid(<<>>, openConnections, electrumFaults)
      BY DEF ElectrumInv
    <3>2. openConnections \in Int /\ electrumFaults \in Nat /\ RetryAttempts + 1 \in Nat
      BY <3>1, ElectrumAssumption DEF Paid
    <3>3. PICK n \in Int : n = openConnections * (RetryAttempts + 1)
      BY <3>2
    <3>4. n + 0 <= electrumFaults + 0
      BY <3>1, <3>3, NoFrames DEF Paid
    <3> QED  BY <3>2, <3>3, <3>4
  <2> QED  BY <2>1, <2>2 DEF RetriesHideFaults, Excused, Confirmations, Knowing
<1> QED  BY <1>1, ElectrumAlways, PTL
=============================================================================
