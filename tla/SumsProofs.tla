----------------------------- MODULE SumsProofs -----------------------------
(***************************************************************************)
(* Facts about the totals of module Sums: how a total changes with its     *)
(* entries, how it splits, and that it is a sum; and about the lists of    *)
(* module Orderings: their members, and how a selection splits.            *)
(***************************************************************************)
EXTENDS Sums, Orderings, SequenceTheorems, FunctionTheorems, FiniteSetTheorems, TLAPS

LEMMA UnitsMember ==
    ASSUME NEW f, NEW u
    PROVE  u \in Units(f) <=> \E x \in DOMAIN f : \E i \in 1..f[x] : u = <<x, i>>
BY DEF Units, UnitsAt

LEMMA UpToCardinality ==
    ASSUME NEW n \in Nat
    PROVE  IsFiniteSet(1..n) /\ Cardinality(1..n) = n
<1>1. n \in Int /\ 1 \in Int
  OBVIOUS
<1>2. IsFiniteSet(1..n) /\ Cardinality(1..n) = IF 1 > n THEN 0 ELSE n - 1 + 1
  BY ONLY <1>1, FS_Interval
<1>3. (IF 1 > n THEN 0 ELSE n - 1 + 1) = n
  OBVIOUS
<1> QED
  BY ONLY <1>2, <1>3

\* An entry x contributes f[x] satoshis.
LEMMA UnitsAtCardinality ==
    ASSUME NEW f, NEW x, f[x] \in Nat
    PROVE  IsFiniteSet(UnitsAt(f, x)) /\ Cardinality(UnitsAt(f, x)) = f[x]
<1>1. IsFiniteSet(1..f[x]) /\ Cardinality(1..f[x]) = f[x]
  BY UpToCardinality
<1>2. IsFiniteSet({x}) /\ Cardinality({x}) = 1
  BY FS_Singleton
<1>3. /\ IsFiniteSet({x} \X (1..f[x]))
      /\ Cardinality({x} \X (1..f[x])) = Cardinality({x}) * Cardinality(1..f[x])
  BY <1>1, <1>2, FS_Product
<1>4. 1 * f[x] = f[x]
  OBVIOUS
<1> QED
  BY <1>1, <1>2, <1>3, <1>4 DEF UnitsAt

\* The total of a finite function into Nat is a natural number.
LEMMA TotalType ==
    ASSUME NEW D, IsFiniteSet(D), NEW f \in [D -> Nat]
    PROVE  IsFiniteSet(Units(f)) /\ Total(f) \in Nat
<1> DEFINE parts == {UnitsAt(f, x) : x \in D}
           partOf == [x \in D |-> UnitsAt(f, x)]
<1>1. partOf \in Surjection(D, parts)
  BY DEF Surjection
<1>2. IsFiniteSet(parts)
  BY <1>1, FS_Surjection
<1>3. \A part \in parts : IsFiniteSet(part)
  BY UnitsAtCardinality
<1>4. IsFiniteSet(UNION parts)
  BY <1>2, <1>3, FS_UNION
<1> QED
  BY <1>4, FS_CardinalityType DEF Units, Total

\* A total depends only on the entries that are not zero.
LEMMA TotalOfNonzero ==
    ASSUME NEW D, NEW E, NEW f \in [D -> Nat], NEW g \in [E -> Nat],
           \A x \in D : f[x] # 0 => x \in E /\ g[x] = f[x],
           \A x \in E : g[x] # 0 => x \in D /\ f[x] = g[x]
    PROVE  Total(f) = Total(g)
<1>1. \A u : u \in Units(f) <=> u \in Units(g)
  BY UnitsMember
<1>2. Units(f) = Units(g)
  BY <1>1
<1> QED
  BY <1>2 DEF Total

LEMMA TotalZero ==
    ASSUME NEW D, NEW f \in [D -> Nat], \A x \in D : f[x] = 0
    PROVE  Total(f) = 0
<1>1. Units(f) = {}
  BY UnitsMember
<1> QED
  BY <1>1, FS_EmptySet DEF Total

\* A total of zero has no entry that is not zero.
LEMMA TotalZeroEntries ==
    ASSUME NEW D, IsFiniteSet(D), NEW f \in [D -> Nat], Total(f) = 0, NEW x \in D
    PROVE  f[x] = 0
<1>1. Units(f) = {}
  BY TotalType, FS_EmptySet DEF Total
<1>2. f[x] # 0 => <<x, 1>> \in Units(f)
  BY UnitsMember
<1> QED
  BY <1>1, <1>2

\* A total splits along any subset of the domain.
LEMMA TotalSplit ==
    ASSUME NEW D, IsFiniteSet(D), NEW S \in SUBSET D, NEW f \in [D -> Nat]
    PROVE  Total(f) = Total([x \in S |-> f[x]]) + Total([x \in D \ S |-> f[x]])
<1> DEFINE in == [x \in S |-> f[x]]
           out == [x \in D \ S |-> f[x]]
<1>1. IsFiniteSet(S) /\ IsFiniteSet(D \ S)
  BY FS_Subset
<1>2. in \in [S -> Nat] /\ out \in [D \ S -> Nat]
  OBVIOUS
<1>3. /\ IsFiniteSet(Units(in)) /\ Total(in) \in Nat
      /\ IsFiniteSet(Units(out)) /\ Total(out) \in Nat
  BY <1>1, <1>2, TotalType
<1>4. \A u : u \in Units(f) <=> u \in Units(in) \/ u \in Units(out)
  BY UnitsMember
<1>5. Units(f) = Units(in) \union Units(out)
  BY <1>4
<1>6. Units(in) \intersect Units(out) = {}
  BY UnitsMember
<1> HIDE DEF in, out
<1>7. Cardinality(Units(f)) = Cardinality(Units(in)) + Cardinality(Units(out)) - 0
  BY <1>3, <1>5, <1>6, FS_Union, FS_EmptySet
<1> QED
  BY <1>3, <1>7 DEF Total, in, out

LEMMA TotalSingleton ==
    ASSUME NEW x, NEW f \in [{x} -> Nat]
    PROVE  Total(f) = f[x]
<1>1. Units(f) = UnitsAt(f, x)
  BY DEF Units
<1> QED
  BY <1>1, UnitsAtCardinality DEF Total

\* Changing one entry changes the total by as much.
LEMMA TotalUpdate ==
    ASSUME NEW D, IsFiniteSet(D), NEW f \in [D -> Nat], NEW g \in [D -> Nat],
           NEW x \in D, \A y \in D \ {x} : g[y] = f[y]
    PROVE  Total(g) = Total(f) - f[x] + g[x]
<1> DEFINE fx == [y \in {x} |-> f[y]]
           gx == [y \in {x} |-> g[y]]
           fRest == [y \in D \ {x} |-> f[y]]
           gRest == [y \in D \ {x} |-> g[y]]
<1>0. {x} \in SUBSET D
  OBVIOUS
<1>1. Total(f) = Total(fx) + Total(fRest)
  BY <1>0, TotalSplit, Zenon
<1>2. Total(g) = Total(gx) + Total(gRest)
  BY <1>0, TotalSplit, Zenon
<1>3. fRest = gRest
  OBVIOUS
<1>4. Total(fx) = f[x] /\ Total(gx) = g[x]
  BY TotalSingleton
<1>5. IsFiniteSet(D \ {x}) /\ gRest \in [D \ {x} -> Nat]
  BY FS_Subset
<1>6. Total(gRest) \in Nat
  BY <1>5, TotalType
<1> HIDE DEF fx, gx, fRest, gRest
<1> QED
  BY <1>1, <1>2, <1>3, <1>4, <1>6

\* Renaming the entries does not change the total.
LEMMA TotalReindex ==
    ASSUME NEW A, NEW B, IsFiniteSet(A), NEW e \in Bijection(A, B),
           NEW f \in [A -> Nat], NEW g \in [B -> Nat], \A a \in A : g[e[a]] = f[a]
    PROVE  Total(g) = Total(f)
<1> DEFINE move == [u \in Units(f) |-> <<e[u[1]], u[2]>>]
<1>1. e \in [A -> B] /\ (\A a, b \in A : e[a] = e[b] => a = b)
                     /\ (\A b \in B : \E a \in A : e[a] = b)
  BY Fun_BijectionProperties
<1>2. \A a \in A : \A i \in 1..f[a] : <<e[a], i>> \in Units(g)
  BY <1>1, UnitsMember
<1>3. \A u \in Units(f) : move[u] \in Units(g)
  BY <1>2, UnitsMember
<1>4. \A u, v \in Units(f) : move[u] = move[v] => u = v
  BY <1>1, UnitsMember
<1>5. \A v \in Units(g) : \E u \in Units(f) : move[u] = v
  <2> SUFFICES ASSUME NEW v \in Units(g) PROVE \E u \in Units(f) : move[u] = v
    OBVIOUS
  <2>1a. PICK b \in B : \E i \in 1..g[b] : v = <<b, i>>
    BY UnitsMember
  <2>1. PICK i \in 1..g[b] : v = <<b, i>>
    BY <2>1a
  <2>2. PICK a \in A : e[a] = b
    BY <1>1
  <2>3. <<a, i>> \in Units(f)
    BY <2>1, <2>2, UnitsMember
  <2> QED
    BY <2>1, <2>2, <2>3
<1>6. move \in Bijection(Units(f), Units(g))
  <2>1. move \in [Units(f) -> Units(g)]
    BY <1>3
  <2> QED
    BY <2>1, <1>4, <1>5, Fun_IsBij
<1>7. IsFiniteSet(Units(f))
  BY TotalType
<1> HIDE DEF move
<1> QED
  BY <1>6, <1>7, FS_Bijection DEF Total, ExistsBijection

\* A total is a sum: it is additive in its entries.
LEMMA TotalSum ==
    ASSUME NEW D, IsFiniteSet(D), NEW f \in [D -> Nat], NEW g \in [D -> Nat],
           NEW h \in [D -> Nat], \A x \in D : h[x] = f[x] + g[x]
    PROVE  Total(h) = Total(f) + Total(g)
<1> DEFINE rest == Units(h) \ Units(f)
           shift == [u \in Units(g) |-> <<u[1], f[u[1]] + u[2]>>]
<1>1. /\ IsFiniteSet(Units(f)) /\ IsFiniteSet(Units(g)) /\ IsFiniteSet(Units(h))
      /\ Total(f) \in Nat /\ Total(g) \in Nat /\ Total(h) \in Nat
  BY TotalType
<1>2. \A u \in Units(f) : u \in Units(h)
  <2> SUFFICES ASSUME NEW u \in Units(f) PROVE u \in Units(h)
    OBVIOUS
  <2>1a. PICK x \in D : \E i \in 1..f[x] : u = <<x, i>>
    BY UnitsMember
  <2>1. PICK i \in 1..f[x] : u = <<x, i>>
    BY <2>1a
  <2>2. i \in 1..h[x]
    OBVIOUS
  <2> QED
    BY <2>1, <2>2, UnitsMember
<1>3. Cardinality(rest) = Cardinality(Units(h)) - Cardinality(Units(f))
  <2>1. Units(h) \intersect Units(f) = Units(f)
    BY <1>2
  <2>2. Cardinality(Units(h) \ Units(f))
          = Cardinality(Units(h)) - Cardinality(Units(h) \intersect Units(f))
    BY <1>1, FS_Difference
  <2> QED
    BY <2>1, <2>2
<1>4. \A u \in Units(g) : shift[u] \in rest
  <2> SUFFICES ASSUME NEW u \in Units(g) PROVE shift[u] \in rest
    OBVIOUS
  <2>1a. PICK x \in D : \E i \in 1..g[x] : u = <<x, i>>
    BY UnitsMember
  <2>1. PICK i \in 1..g[x] : u = <<x, i>>
    BY <2>1a
  <2>2. f[x] + i \in 1..h[x] /\ f[x] + i \notin 1..f[x]
    OBVIOUS
  <2>3. <<x, f[x] + i>> \in Units(h) /\ <<x, f[x] + i>> \notin Units(f)
    BY <2>2, UnitsMember
  <2> QED
    BY <2>1, <2>3
<1>5. \A u, v \in Units(g) : shift[u] = shift[v] => u = v
  <2> SUFFICES ASSUME NEW u \in Units(g), NEW v \in Units(g), shift[u] = shift[v]
               PROVE  u = v
    OBVIOUS
  <2>1a. PICK x \in D : \E i \in 1..g[x] : u = <<x, i>>
    BY UnitsMember
  <2>1. PICK i \in 1..g[x] : u = <<x, i>>
    BY <2>1a
  <2>2a. PICK y \in D : \E j \in 1..g[y] : v = <<y, j>>
    BY UnitsMember
  <2>2. PICK j \in 1..g[y] : v = <<y, j>>
    BY <2>2a
  <2>3. x = y /\ f[x] + i = f[y] + j
    BY <2>1, <2>2
  <2>4. i = j
    BY <2>3
  <2> QED
    BY <2>1, <2>2, <2>3, <2>4
<1>6. \A v \in rest : \E u \in Units(g) : shift[u] = v
  <2> SUFFICES ASSUME NEW v \in rest PROVE \E u \in Units(g) : shift[u] = v
    OBVIOUS
  <2>1a. PICK x \in D : \E i \in 1..h[x] : v = <<x, i>>
    BY UnitsMember
  <2>1. PICK i \in 1..h[x] : v = <<x, i>>
    BY <2>1a
  <2>2. i \notin 1..f[x]
    BY <2>1, UnitsMember
  <2>3. i - f[x] \in 1..g[x] /\ f[x] + (i - f[x]) = i
    BY <2>2
  <2>4. <<x, i - f[x]>> \in Units(g)
    BY <2>3, UnitsMember
  <2> QED
    BY <2>1, <2>3, <2>4
<1>7. shift \in Bijection(Units(g), rest)
  <2>1. shift \in [Units(g) -> rest]
    BY <1>4
  <2> QED
    BY <2>1, <1>5, <1>6, Fun_IsBij
<1> HIDE DEF rest, shift
<1>8. Cardinality(rest) = Cardinality(Units(g))
  BY <1>1, <1>7, FS_Bijection DEF ExistsBijection
<1> QED
  BY <1>1, <1>3, <1>8 DEF Total

\* Clearing the entries of a subset of the domain takes their total away.
LEMMA TotalClear ==
    ASSUME NEW D, IsFiniteSet(D), NEW S \in SUBSET D, NEW f \in [D -> Nat],
           NEW g \in [D -> Nat], \A x \in S : g[x] = 0, \A x \in D \ S : g[x] = f[x]
    PROVE  Total(g) = Total(f) - Total([x \in S |-> f[x]])
<1> DEFINE fIn == [x \in S |-> f[x]]
           gIn == [x \in S |-> g[x]]
           fRest == [x \in D \ S |-> f[x]]
           gRest == [x \in D \ S |-> g[x]]
<1>1. Total(f) = Total(fIn) + Total(fRest) /\ Total(g) = Total(gIn) + Total(gRest)
  BY TotalSplit
<1>2. fRest = gRest
  OBVIOUS
<1>3. Total(gIn) = 0
  <2>1. gIn \in [S -> Nat] /\ \A x \in S : gIn[x] = 0
    OBVIOUS
  <2> HIDE DEF gIn
  <2> QED
    BY <2>1, TotalZero
<1>4. Total(fIn) \in Nat /\ Total(gRest) \in Nat
  <2>1. IsFiniteSet(S) /\ IsFiniteSet(D \ S)
    BY FS_Subset
  <2>2. fIn \in [S -> Nat] /\ gRest \in [D \ S -> Nat]
    OBVIOUS
  <2> HIDE DEF fIn, gRest
  <2> QED
    BY <2>1, <2>2, TotalType
<1> HIDE DEF fIn, gIn, fRest, gRest
<1>5. Total(g) = Total(f) - Total(fIn)
  BY <1>1, <1>2, <1>3, <1>4
<1> QED
  BY <1>5 DEF fIn

\* The total of the cardinalities of disjoint sets is the cardinality of their
\* union.
LEMMA TotalOfFamily ==
    ASSUME NEW D, IsFiniteSet(D), NEW f \in [D -> Nat], NEW A,
           \A x \in D : IsFiniteSet(A[x]) /\ Cardinality(A[x]) = f[x],
           \A x, y \in D : x # y => A[x] \intersect A[y] = {}
    PROVE  Total(f) = Cardinality(UNION {A[x] : x \in D})
<1> DEFINE all == UNION {A[x] : x \in D}
           count == [x \in D |-> CHOOSE e : e \in Bijection(1..f[x], A[x])]
           place == [u \in Units(f) |-> count[u[1]][u[2]]]
<1>1. ASSUME NEW x \in D
      PROVE  /\ count[x] \in [1..f[x] -> A[x]]
             /\ \A i, j \in 1..f[x] : count[x][i] = count[x][j] => i = j
             /\ \A a \in A[x] : \E i \in 1..f[x] : count[x][i] = a
  <2>1. \E e : e \in Bijection(1..f[x], A[x])
    BY FS_CardinalityType DEF ExistsBijection
  <2>2. count[x] \in Bijection(1..f[x], A[x])
    BY <2>1
  <2> HIDE DEF count
  <2>3. count[x] \in [1..f[x] -> A[x]]
    BY <2>2 DEF Bijection, Injection
  <2>4. \A i, j \in 1..f[x] : count[x][i] = count[x][j] => i = j
    BY <2>2 DEF Bijection, Injection, IsInjective
  <2>5. \A a \in A[x] : \E i \in 1..f[x] : count[x][i] = a
    BY <2>2 DEF Bijection, Surjection
  <2> QED
    BY <2>3, <2>4, <2>5
<1> HIDE DEF count
<1>2. \A u \in Units(f) : \E x \in D : \E i \in 1..f[x] : u = <<x, i>>
  BY UnitsMember
<1>3. ASSUME NEW x \in D, NEW i \in 1..f[x]
      PROVE  /\ <<x, i>> \in Units(f)
             /\ place[<<x, i>>] = count[x][i]
             /\ count[x][i] \in A[x]
  <2>1. <<x, i>> \in Units(f)
    BY UnitsMember
  <2> QED
    BY <1>1, <2>1
<1> HIDE DEF place
<1>4. \A u \in Units(f) : place[u] \in all
  BY <1>2, <1>3
<1>5. ASSUME NEW u \in Units(f), NEW v \in Units(f), place[u] = place[v]
      PROVE  u = v
  <2>1a. PICK x \in D : \E i \in 1..f[x] : u = <<x, i>>
    BY <1>2
  <2>1. PICK i \in 1..f[x] : u = <<x, i>>
    BY <2>1a
  <2>2a. PICK y \in D : \E j \in 1..f[y] : v = <<y, j>>
    BY <1>2
  <2>2. PICK j \in 1..f[y] : v = <<y, j>>
    BY <2>2a
  <2>3. /\ place[u] = count[x][i] /\ count[x][i] \in A[x]
        /\ place[v] = count[y][j] /\ count[y][j] \in A[y]
    BY <1>3, <2>1, <2>2
  <2>4. x = y
    BY <1>5, <2>3
  <2> QED
    BY <1>1, <1>5, <2>1, <2>2, <2>3, <2>4
<1>6. ASSUME NEW a \in all PROVE \E u \in Units(f) : place[u] = a
  <2>1. PICK x \in D : a \in A[x]
    OBVIOUS
  <2>2. PICK i \in 1..f[x] : count[x][i] = a
    BY <1>1, <2>1
  <2>3. <<x, i>> \in Units(f) /\ place[<<x, i>>] = a
    BY <1>3, <2>2
  <2> QED
    BY <2>3
<1>7. place \in Bijection(Units(f), all)
  <2>1. place = [u \in Units(f) |-> place[u]]
    BY DEF place
  <2>2. place \in [Units(f) -> all]
    BY <1>4, <2>1
  <2> HIDE DEF all
  <2> QED
    BY <2>2, <1>5, <1>6, Fun_IsBij
<1>8. IsFiniteSet(Units(f))
  BY TotalType
<1> HIDE DEF all
<1>9. Cardinality(all) = Cardinality(Units(f))
  BY <1>7, <1>8, FS_Bijection DEF ExistsBijection
<1> QED
  BY <1>9 DEF Total, all

\* A total can be taken class by class.
LEMMA TotalPartition ==
    ASSUME NEW D, IsFiniteSet(D), NEW E, IsFiniteSet(E), NEW f \in [D -> Nat],
           NEW class \in [D -> E], NEW g \in [E -> Nat],
           \A e \in E : g[e] = Total([x \in {y \in D : class[y] = e} |-> f[x]])
    PROVE  Total(g) = Total(f)
<1> DEFINE part(e) == [x \in {y \in D : class[y] = e} |-> f[x]]
           A == [e \in E |-> Units(part(e))]
<1>1. ASSUME NEW e \in E
      PROVE  /\ IsFiniteSet(A[e])
             /\ Cardinality(A[e]) = g[e]
  <2>1. part(e) \in [{y \in D : class[y] = e} -> Nat]
    OBVIOUS
  <2>2. IsFiniteSet({y \in D : class[y] = e})
    BY FS_Subset
  <2>3. IsFiniteSet(Units(part(e)))
    <3> HIDE DEF part
    <3> QED
      BY <2>1, <2>2, TotalType
  <2> QED
    BY <2>3 DEF Total
<1>2. ASSUME NEW e \in E, NEW u
      PROVE  u \in A[e] <=> \E x \in D : class[x] = e /\ \E i \in 1..f[x] : u = <<x, i>>
  <2>1. DOMAIN part(e) = {y \in D : class[y] = e}
        /\ \A x \in DOMAIN part(e) : part(e)[x] = f[x]
    OBVIOUS
  <2> HIDE DEF part
  <2> QED
    BY <2>1, UnitsMember
<1> HIDE DEF A
<1>3. \A e, h \in E : e # h => A[e] \intersect A[h] = {}
  <2> SUFFICES ASSUME NEW e \in E, NEW h \in E, NEW u \in A[e], u \in A[h]
               PROVE  e = h
    OBVIOUS
  <2>1. PICK x \in D : class[x] = e /\ \E i \in 1..f[x] : u = <<x, i>>
    BY <1>2
  <2>2. PICK y \in D : class[y] = h /\ \E i \in 1..f[y] : u = <<y, i>>
    BY <1>2
  <2>3. x = y
    BY <2>1, <2>2
  <2> QED
    BY <2>1, <2>2, <2>3
<1>4. UNION {A[e] : e \in E} = Units(f)
  <2>1. ASSUME NEW u \in Units(f) PROVE \E e \in E : u \in A[e]
    <3>1. PICK x \in D : \E i \in 1..f[x] : u = <<x, i>>
      BY UnitsMember
    <3> QED
      BY <1>2, <3>1
  <2>2. ASSUME NEW e \in E, NEW u \in A[e] PROVE u \in Units(f)
    BY <1>2, UnitsMember
  <2> QED
    BY <2>1, <2>2
<1>5. Total(g) = Cardinality(UNION {A[e] : e \in E})
  BY <1>1, <1>3, TotalOfFamily
<1> QED
  BY <1>4, <1>5 DEF Total

\* A common factor can be taken out.
LEMMA TotalScale ==
    ASSUME NEW D, IsFiniteSet(D), NEW f \in [D -> Nat], NEW k \in Nat,
           NEW g \in [D -> Nat], \A x \in D : g[x] = k * f[x]
    PROVE  Total(g) = k * Total(f)
<1> DEFINE A == [x \in D |-> (1..k) \X UnitsAt(f, x)]
<1>0. IsFiniteSet(1..k) /\ Cardinality(1..k) = k
  BY UpToCardinality
<1>1. ASSUME NEW x \in D
      PROVE  IsFiniteSet(A[x]) /\ Cardinality(A[x]) = g[x]
  <2>1. IsFiniteSet(UnitsAt(f, x)) /\ Cardinality(UnitsAt(f, x)) = f[x]
    BY UnitsAtCardinality
  <2>2. /\ IsFiniteSet((1..k) \X UnitsAt(f, x))
        /\ Cardinality((1..k) \X UnitsAt(f, x))
               = Cardinality(1..k) * Cardinality(UnitsAt(f, x))
    BY <1>0, <2>1, FS_Product
  <2> QED
    BY <1>0, <2>1, <2>2
<1>2. \A x, y \in D : x # y => A[x] \intersect A[y] = {}
  BY DEF UnitsAt
<1>3. UNION {A[x] : x \in D} = (1..k) \X Units(f)
  BY DEF Units
<1> HIDE DEF A
<1>4. Total(g) = Cardinality((1..k) \X Units(f))
  BY <1>1, <1>2, <1>3, TotalOfFamily
<1>5. IsFiniteSet(Units(f))
  BY TotalType
<1>6. Cardinality((1..k) \X Units(f)) = Cardinality(1..k) * Cardinality(Units(f))
  BY <1>0, <1>5, FS_Product
<1> QED
  BY <1>0, <1>4, <1>6, Zenon DEF Total

\* Larger entries make a larger total.
LEMMA TotalMonotone ==
    ASSUME NEW D, IsFiniteSet(D), NEW f \in [D -> Nat], NEW g \in [D -> Nat],
           \A x \in D : f[x] <= g[x]
    PROVE  Total(f) <= Total(g)
<1> DEFINE rest == [x \in D |-> g[x] - f[x]]
<1>1. rest \in [D -> Nat] /\ \A x \in D : g[x] = f[x] + rest[x]
  OBVIOUS
<1> HIDE DEF rest
<1>2. Total(g) = Total(f) + Total(rest)
  BY <1>1, TotalSum
<1> QED
  BY <1>1, <1>2, TotalType

\* A function g on pairs has the entries of f at the pairs <<w, x>>, and no others.
SpreadOverPairs(g, K, w, f, S) ==
    /\ \A x \in S : <<w, x>> \in K /\ g[<<w, x>>] = f[x]
    /\ \A k \in K : g[k] # 0 => \E x \in S : k = <<w, x>>

\* A function on pairs <<w, x>> adds up to the function of x it stands for.
LEMMA TotalOfPairs ==
    ASSUME NEW w, NEW S, IsFiniteSet(S), NEW f \in [S -> Nat],
           NEW K, NEW g \in [K -> Nat], SpreadOverPairs(g, K, w, f, S)
    PROVE  Total(g) = Total(f)
<1> USE DEF SpreadOverPairs
<1> DEFINE pairs == {<<w, x>> : x \in S}
           pairOf == [x \in S |-> <<w, x>>]
           onPairs == [k \in pairs |-> g[k]]
<1>1. pairOf \in Bijection(S, pairs)
  <2>1. pairOf \in [S -> pairs]
    OBVIOUS
  <2>2. \A a, b \in S : pairOf[a] = pairOf[b] => a = b
    OBVIOUS
  <2>3. \A k \in pairs : \E x \in S : pairOf[x] = k
    OBVIOUS
  <2> QED
    BY <2>1, <2>2, <2>3, Fun_IsBij
<1>2. onPairs \in [pairs -> Nat] /\ \A x \in S : onPairs[pairOf[x]] = f[x]
  OBVIOUS
<1>3. /\ \A k \in K : g[k] # 0 => k \in pairs /\ onPairs[k] = g[k]
      /\ \A k \in pairs : onPairs[k] # 0 => k \in K /\ g[k] = onPairs[k]
  OBVIOUS
<1> HIDE DEF pairs, pairOf, onPairs
<1>4. Total(onPairs) = Total(f)
  BY <1>1, <1>2, TotalReindex
<1>5. Total(g) = Total(onPairs)
  BY <1>2, <1>3, TotalOfNonzero, Z3
<1> QED
  BY <1>4, <1>5

\* A function that is zero but at x.
LEMMA TotalOfOne ==
    ASSUME NEW D, IsFiniteSet(D), NEW x \in D, NEW f \in [D -> Nat],
           \A y \in D \ {x} : f[y] = 0
    PROVE  Total(f) = f[x]
<1> DEFINE zero == [y \in D |-> 0]
<1>1. zero \in [D -> Nat] /\ \A y \in D : zero[y] = 0
  OBVIOUS
<1> HIDE DEF zero
<1>2. Total(zero) = 0
  BY <1>1, TotalZero
<1>3. Total(f) = Total(zero) - zero[x] + f[x]
  BY <1>1, TotalUpdate
<1> QED
  BY <1>1, <1>2, <1>3

\* A function that is the same everywhere.
LEMMA TotalOfConstant ==
    ASSUME NEW D, IsFiniteSet(D), NEW q \in Nat, NEW f \in [D -> Nat],
           \A x \in D : f[x] = q
    PROVE  Total(f) = q * Cardinality(D)
<1> DEFINE one == [x \in D |-> 1]
           itself == [x \in D |-> {x}]
<1>1. one \in [D -> Nat]
  OBVIOUS
<1>2. \A x \in D : IsFiniteSet(itself[x]) /\ Cardinality(itself[x]) = one[x]
  BY FS_Singleton
<1>3. \A x, y \in D : x # y => itself[x] \intersect itself[y] = {}
  OBVIOUS
<1>4. Total(one) = Cardinality(D)
  <2>1. UNION {itself[x] : x \in D} = D
    OBVIOUS
  <2> HIDE DEF one, itself
  <2>2. Total(one) = Cardinality(UNION {itself[x] : x \in D})
    BY <1>1, <1>2, <1>3, TotalOfFamily, Z3
  <2> QED
    BY <2>1, <2>2
<1>5. \A x \in D : f[x] = q * one[x]
  OBVIOUS
<1> HIDE DEF one
<1>6. Total(f) = q * Total(one)
  BY <1>1, <1>5, TotalScale
<1> QED
  BY <1>4, <1>6

-----------------------------------------------------------------------------
(***************************************************************************)
(* Lists in a given order.                                                 *)
(***************************************************************************)
\* Places are numbers from 1 to the size of the set, and later for later members.
LEMMA RankFacts ==
    ASSUME NEW S, IsFiniteSet(S), NEW R, LinearOn(R, S), NEW i \in S
    PROVE  /\ RankIn(S, R, i) \in 1..Cardinality(S)
           /\ \A j \in S : <<i, j>> \in R /\ i # j => RankIn(S, R, i) < RankIn(S, R, j)
<1> DEFINE upTo(n) == {j \in S : <<j, n>> \in R}
<1>1. ASSUME NEW n \in S
      PROVE  /\ IsFiniteSet(upTo(n)) /\ Cardinality(upTo(n)) \in Nat
             /\ Cardinality(upTo(n)) <= Cardinality(S)
  BY FS_Subset, FS_CardinalityType
<1>2. Cardinality(upTo(i)) # 0
  <2>1. i \in upTo(i)
    BY DEF LinearOn
  <2> QED  BY <1>1, <2>1, FS_EmptySet
<1>3. Cardinality(S) \in Nat
  BY FS_CardinalityType
<1>4. ASSUME NEW j \in S, <<i, j>> \in R, i # j
      PROVE  Cardinality(upTo(i)) < Cardinality(upTo(j))
  <2>1. upTo(i) \subseteq upTo(j)
    BY <1>4 DEF LinearOn
  <2>2. j \in upTo(j) /\ j \notin upTo(i)
    BY <1>4 DEF LinearOn
  <2> HIDE DEF upTo
  <2>3. Cardinality(upTo(i)) <= Cardinality(upTo(j)) /\ Cardinality(upTo(i)) # Cardinality(upTo(j))
    BY <1>1, <2>1, <2>2, FS_Subset
  <2> QED  BY <1>1, <2>3
<1> HIDE DEF upTo
<1>5. \A n \in S : RankIn(S, R, n) = Cardinality(upTo(n))
  BY DEF RankIn, upTo
<1> QED  BY <1>1, <1>2, <1>3, <1>4, <1>5

LEMMA RanksDiffer ==
    ASSUME NEW S, IsFiniteSet(S), NEW R, LinearOn(R, S), NEW i \in S, NEW j \in S,
           RankIn(S, R, i) = RankIn(S, R, j)
    PROVE  i = j
<1> SUFFICES ASSUME i # j PROVE FALSE
  OBVIOUS
<1>1. <<i, j>> \in R \/ <<j, i>> \in R
  BY DEF LinearOn
<1>2. RankIn(S, R, i) \in 1..Cardinality(S)
  BY RankFacts
<1>3. RankIn(S, R, i) < RankIn(S, R, j) \/ RankIn(S, R, j) < RankIn(S, R, i)
  BY <1>1, RankFacts
<1> QED  BY <1>2, <1>3

\* Every number from 1 to the size of the set is the place of one member.
LEMMA NthFacts ==
    ASSUME NEW S, IsFiniteSet(S), NEW R, LinearOn(R, S), NEW k \in 1..Cardinality(S)
    PROVE  /\ Nth(S, R, k) \in S /\ RankIn(S, R, Nth(S, R, k)) = k
           /\ \A i \in S : RankIn(S, R, i) = k => i = Nth(S, R, k)
<1> DEFINE rank == [i \in S |-> RankIn(S, R, i)]
           ranks == 1..Cardinality(S)
<1>1. Cardinality(S) \in Nat
  BY FS_CardinalityType
<1>2. IsFiniteSet(ranks) /\ Cardinality(ranks) = Cardinality(S)
  BY <1>1, FS_Interval
<1>3. \A i \in S : RankIn(S, R, i) \in ranks
  BY RankFacts
<1>4. \A i, j \in S : RankIn(S, R, i) = RankIn(S, R, j) => i = j
  BY RanksDiffer
<1> HIDE DEF ranks
<1>5. rank \in Injection(S, ranks)
  BY <1>3, <1>4 DEF Injection, IsInjective
<1>6. rank \in Surjection(S, ranks)
  <2> HIDE DEF rank
  <2> QED  BY <1>2, <1>5, FS_Injection
<1>7. \E i \in S : RankIn(S, R, i) = k
  BY <1>6 DEF Surjection, ranks
<1> QED  BY <1>4, <1>7 DEF Nth

\* Arranging a set puts each of its members in one place, and all of them in order.
LEMMA ArrangedFacts ==
    ASSUME NEW S, IsFiniteSet(S), NEW R, LinearOn(R, S)
    PROVE  /\ Cardinality(S) \in Nat
           /\ Arranged(S, R) \in Seq(S) /\ Len(Arranged(S, R)) = Cardinality(S)
           /\ \A i \in S : \E k \in DOMAIN Arranged(S, R) : Arranged(S, R)[k] = i
           /\ \A k, l \in DOMAIN Arranged(S, R) :
                  k < l => <<Arranged(S, R)[k], Arranged(S, R)[l]>> \in R
<1> DEFINE list == Arranged(S, R)
<1>1. Cardinality(S) \in Nat
  BY FS_CardinalityType
<1>2. \A k \in 1..Cardinality(S) : Nth(S, R, k) \in S /\ RankIn(S, R, Nth(S, R, k)) = k
  BY NthFacts
<1>3. /\ list \in Seq(S) /\ Len(list) = Cardinality(S) /\ DOMAIN list = 1..Cardinality(S)
      /\ \A k \in 1..Cardinality(S) : list[k] = Nth(S, R, k)
  BY <1>1, <1>2 DEF Arranged
<1> HIDE DEF list
<1>4. ASSUME NEW i \in S PROVE \E k \in DOMAIN list : list[k] = i
  <2>1. RankIn(S, R, i) \in 1..Cardinality(S)
    BY RankFacts
  <2>2. i = Nth(S, R, RankIn(S, R, i))
    BY <2>1, NthFacts
  <2> QED  BY <1>3, <2>1, <2>2
<1>5. ASSUME NEW k \in DOMAIN list, NEW l \in DOMAIN list, k < l
      PROVE  <<list[k], list[l]>> \in R
  <2>1. /\ list[k] \in S /\ list[l] \in S /\ k \in Nat /\ l \in Nat
        /\ RankIn(S, R, list[k]) = k /\ RankIn(S, R, list[l]) = l
    BY <1>1, <1>2, <1>3
  <2>2. CASE <<list[l], list[k]>> \in R
    <3>1. list[l] # list[k]
      BY <1>5, <2>1
    <3>2. RankIn(S, R, list[l]) < RankIn(S, R, list[k])
      BY <2>1, <2>2, <3>1, RankFacts
    <3> QED  BY <1>5, <2>1, <3>2
  <2> QED  BY <2>1, <2>2 DEF LinearOn
<1> QED  BY <1>1, <1>3, <1>4, <1>5 DEF list

LEMMA AscendingLinear ==
    ASSUME NEW S \in SUBSET Nat
    PROVE  LinearOn(Ascending, S)
BY DEF LinearOn, Ascending

\* The members of two sets, one before the other, are those of the first, then the others.
IsArrangedAs(S, A, B, R) ==
    /\ Cardinality(S) = Cardinality(A) + Cardinality(B)
    /\ \A k \in 1..Cardinality(A) : Nth(S, R, k) = Nth(A, R, k)
    /\ \A k \in 1..Cardinality(B) : Nth(S, R, Cardinality(A) + k) = Nth(B, R, k)

LEMMA NthOfUnion ==
    ASSUME NEW A, NEW B, IsFiniteSet(A), IsFiniteSet(B), NEW R, LinearOn(R, A \union B),
           \A a \in A, b \in B : <<a, b>> \in R /\ a # b
    PROVE  IsArrangedAs(A \union B, A, B, R)
<1> DEFINE S == A \union B
<1>1. IsFiniteSet(S) /\ LinearOn(R, S) /\ LinearOn(R, A) /\ LinearOn(R, B)
  <2>1. IsFiniteSet(S)
    BY FS_Union
  <2>2. LinearOn(R, A) /\ LinearOn(R, B)
    BY DEF LinearOn
  <2> QED  BY <2>1, <2>2
<1>2. Cardinality(A) \in Nat /\ Cardinality(B) \in Nat /\ Cardinality(S) \in Nat
  BY <1>1, FS_CardinalityType
<1>3. \A T \in SUBSET B : IsFiniteSet(T) /\ Cardinality(A \union T) = Cardinality(A) + Cardinality(T)
  <2> SUFFICES ASSUME NEW T \in SUBSET B
               PROVE  IsFiniteSet(T) /\ Cardinality(A \union T) = Cardinality(A) + Cardinality(T)
    OBVIOUS
  <2>1. A \intersect T = {}
    OBVIOUS
  <2>2. IsFiniteSet(T) /\ Cardinality(T) \in Nat
    BY FS_Subset, FS_CardinalityType
  <2>3. Cardinality(A \intersect T) = 0
    BY <2>1, FS_EmptySet
  <2>4. Cardinality(A \union T) = Cardinality(A) + Cardinality(T) - Cardinality(A \intersect T)
    BY <2>2, FS_Union
  <2> QED  BY <1>2, <2>2, <2>3, <2>4
<1>4. ASSUME NEW a \in A PROVE RankIn(S, R, a) = RankIn(A, R, a)
  <2>1. \A b \in B : ~(<<b, a>> \in R)
    BY <1>1, <1>4 DEF LinearOn
  <2>2. {j \in S : <<j, a>> \in R} = {j \in A : <<j, a>> \in R}
    BY <2>1
  <2> QED  BY <2>2 DEF RankIn
<1>5. ASSUME NEW b \in B PROVE RankIn(S, R, b) = Cardinality(A) + RankIn(B, R, b)
  <2>1. {j \in S : <<j, b>> \in R} = A \union {j \in B : <<j, b>> \in R}
    BY <1>5
  <2> QED  BY <1>3, <2>1 DEF RankIn
<1>6. Cardinality(S) = Cardinality(A) + Cardinality(B)
  BY <1>3
<1> HIDE DEF S
<1>7. ASSUME NEW k \in 1..Cardinality(A) PROVE Nth(S, R, k) = Nth(A, R, k)
  <2>1. Nth(A, R, k) \in A /\ RankIn(A, R, Nth(A, R, k)) = k
    BY <1>1, NthFacts
  <2>2. Nth(A, R, k) \in S /\ RankIn(S, R, Nth(A, R, k)) = k
    BY <1>4, <2>1 DEF S
  <2>3. k \in 1..Cardinality(S)
    BY <1>2, <1>6
  <2>4. \A i \in S : RankIn(S, R, i) = k => i = Nth(S, R, k)
    BY <1>1, <2>3, NthFacts
  <2> QED  BY <2>2, <2>4
<1>8. ASSUME NEW k \in 1..Cardinality(B) PROVE Nth(S, R, Cardinality(A) + k) = Nth(B, R, k)
  <2>1. Nth(B, R, k) \in B /\ RankIn(B, R, Nth(B, R, k)) = k
    BY <1>1, NthFacts
  <2>2. Nth(B, R, k) \in S /\ RankIn(S, R, Nth(B, R, k)) = Cardinality(A) + k
    BY <1>5, <2>1 DEF S
  <2>3. Cardinality(A) + k \in 1..Cardinality(S)
    BY <1>2, <1>6
  <2>4. \A i \in S : RankIn(S, R, i) = Cardinality(A) + k => i = Nth(S, R, Cardinality(A) + k)
    BY <1>1, <2>3, NthFacts
  <2> QED  BY <2>2, <2>4
<1> QED  BY <1>6, <1>7, <1>8 DEF S, IsArrangedAs


\* The entries of a list at some positions: one for each position, in order.
IsSelection(out, list, P) ==
    /\ IsFiniteSet(P) /\ LinearOn(Ascending, P) /\ Cardinality(P) \in Nat
    /\ out \in Seq({list[i] : i \in P}) /\ Len(out) = Cardinality(P)
    /\ \A k \in 1..Cardinality(P) :
          Nth(P, Ascending, k) \in P /\ out[k] = list[Nth(P, Ascending, k)]

LEMMA SelectedFacts ==
    ASSUME NEW T, NEW list \in Seq(T), NEW P \in SUBSET DOMAIN list
    PROVE  IsSelection(Selected(list, P), list, P)
<1>1. DOMAIN list = 1..Len(list) /\ Len(list) \in Nat
  OBVIOUS
<1>2. P \in SUBSET (1..Len(list)) /\ P \in SUBSET Nat
  BY <1>1
<1>3. IsFiniteSet(P)
  <2>1. IsFiniteSet(1..Len(list))
    BY <1>1, FS_Interval
  <2> QED  BY <1>2, <2>1, FS_Subset
<1>4. Cardinality(P) \in Nat /\ LinearOn(Ascending, P)
  BY <1>2, <1>3, FS_CardinalityType, AscendingLinear
<1>5. \A k \in 1..Cardinality(P) : Nth(P, Ascending, k) \in P
  BY <1>3, <1>4, NthFacts
<1>6. Selected(list, P) = [k \in 1..Cardinality(P) |-> list[Nth(P, Ascending, k)]]
  BY DEF Selected
<1>7. \A k \in 1..Cardinality(P) : list[Nth(P, Ascending, k)] \in {list[j] : j \in P}
  BY <1>5
<1>8. Selected(list, P) \in Seq({list[j] : j \in P}) /\ Len(Selected(list, P)) = Cardinality(P)
  <2> DEFINE U == {list[j] : j \in P}
  <2>1. \A k \in 1..Cardinality(P) : list[Nth(P, Ascending, k)] \in U
    BY <1>7
  <2> HIDE DEF U
  <2>2. Selected(list, P) \in Seq(U) /\ Len(Selected(list, P)) = Cardinality(P)
    BY <1>4, <1>6, <2>1
  <2> QED  BY <2>2 DEF U
<1>9. \A k \in 1..Cardinality(P) : Selected(list, P)[k] = list[Nth(P, Ascending, k)]
  BY <1>6
<1> QED  BY <1>3, <1>4, <1>5, <1>8, <1>9 DEF IsSelection

\* Every entry that was selected is in the selection, and its entries are in order.
LEMMA SelectionOrder ==
    ASSUME NEW T, NEW list \in Seq(T), NEW P \in SUBSET DOMAIN list
    PROVE  /\ \A i \in P : \E k \in DOMAIN Selected(list, P) : Selected(list, P)[k] = list[i]
           /\ \A k, l \in DOMAIN Selected(list, P) : k < l =>
                 \E i, j \in P : /\ i < j /\ Selected(list, P)[k] = list[i]
                                 /\ Selected(list, P)[l] = list[j]
<1> DEFINE out == Selected(list, P)
<1>1. IsSelection(out, list, P)
  BY SelectedFacts
<1> HIDE DEF out
<1>2. /\ IsFiniteSet(P) /\ LinearOn(Ascending, P) /\ Cardinality(P) \in Nat
      /\ DOMAIN out = 1..Cardinality(P)
      /\ \A k \in 1..Cardinality(P) :
            Nth(P, Ascending, k) \in P /\ out[k] = list[Nth(P, Ascending, k)]
  BY <1>1 DEF IsSelection
<1>3. ASSUME NEW i \in P PROVE \E k \in DOMAIN out : out[k] = list[i]
  <2>1. RankIn(P, Ascending, i) \in 1..Cardinality(P)
    BY <1>2, RankFacts
  <2>2. i = Nth(P, Ascending, RankIn(P, Ascending, i))
    BY <1>2, <2>1, NthFacts
  <2> QED  BY <1>2, <2>1, <2>2
<1>4. ASSUME NEW k \in DOMAIN out, NEW l \in DOMAIN out, k < l
      PROVE  \E i, j \in P : i < j /\ out[k] = list[i] /\ out[l] = list[j]
  <2>1. DOMAIN Arranged(P, Ascending) = 1..Cardinality(P)
        /\ \A n \in 1..Cardinality(P) : Arranged(P, Ascending)[n] = Nth(P, Ascending, n)
    BY DEF Arranged
  <2>2. <<Nth(P, Ascending, k), Nth(P, Ascending, l)>> \in Ascending
    <3>1. \A a, b \in DOMAIN Arranged(P, Ascending) : a < b =>
             <<Arranged(P, Ascending)[a], Arranged(P, Ascending)[b]>> \in Ascending
      BY <1>2, ArrangedFacts
    <3> QED  BY <1>2, <1>4, <2>1, <3>1
  <2>3. Nth(P, Ascending, k) # Nth(P, Ascending, l)
    <3>1. RankIn(P, Ascending, Nth(P, Ascending, k)) = k
          /\ RankIn(P, Ascending, Nth(P, Ascending, l)) = l
      BY <1>2, NthFacts
    <3>2. k # l
      BY <1>2, <1>4
    <3> QED  BY <3>1, <3>2
  <2>4. Nth(P, Ascending, k) < Nth(P, Ascending, l)
    BY <2>2, <2>3 DEF Ascending
  <2> QED  BY <1>2, <2>4
<1> QED  BY <1>3, <1>4 DEF out

\* Selecting from the first part of a list, then from the rest, selects from the whole.
LEMMA SelectedSplit ==
    ASSUME NEW T, NEW list \in Seq(T), NEW A \in SUBSET DOMAIN list, NEW B \in SUBSET DOMAIN list,
           \A i \in A, j \in B : i < j
    PROVE  Selected(list, A) \o Selected(list, B) = Selected(list, A \union B)
<1> DEFINE C == A \union B
           a == Selected(list, A)
           b == Selected(list, B)
           c == Selected(list, C)
<1>1. IsSelection(a, list, A) /\ IsSelection(b, list, B) /\ IsSelection(c, list, C)
  <2>1. A \union B \in SUBSET DOMAIN list
    OBVIOUS
  <2> QED  BY <2>1, SelectedFacts
<1>2. \A S \in SUBSET DOMAIN list : \A i \in S : i \in Nat /\ list[i] \in T
  OBVIOUS
<1>0. C \in SUBSET DOMAIN list
  OBVIOUS
<1> HIDE DEF a, b, c, C
<1>3. /\ IsFiniteSet(A) /\ Cardinality(A) \in Nat /\ a \in Seq(T) /\ Len(a) = Cardinality(A)
      /\ \A k \in 1..Cardinality(A) : a[k] = list[Nth(A, Ascending, k)]
  <2>1. {list[i] : i \in A} \subseteq T
    BY <1>2
  <2> QED  BY <1>1, <2>1 DEF IsSelection
<1>4. /\ IsFiniteSet(B) /\ Cardinality(B) \in Nat /\ b \in Seq(T) /\ Len(b) = Cardinality(B)
      /\ \A k \in 1..Cardinality(B) : b[k] = list[Nth(B, Ascending, k)]
  <2>1. {list[i] : i \in B} \subseteq T
    BY <1>2
  <2> QED  BY <1>1, <2>1 DEF IsSelection
<1>5. /\ LinearOn(Ascending, C) /\ c \in Seq(T) /\ Len(c) = Cardinality(C)
      /\ \A k \in 1..Cardinality(C) : c[k] = list[Nth(C, Ascending, k)]
  <2>1. {list[i] : i \in C} \subseteq T
    BY <1>0, <1>2
  <2> QED  BY <1>1, <2>1 DEF IsSelection
<1>6. \A i \in A, j \in B : <<i, j>> \in Ascending /\ i # j
  BY <1>2 DEF Ascending
<1>7. /\ Cardinality(C) = Cardinality(A) + Cardinality(B)
      /\ \A k \in 1..Cardinality(A) : Nth(C, Ascending, k) = Nth(A, Ascending, k)
      /\ \A k \in 1..Cardinality(B) :
            Nth(C, Ascending, Cardinality(A) + k) = Nth(B, Ascending, k)
  <2>1. IsArrangedAs(C, A, B, Ascending)
    BY <1>3, <1>4, <1>5, <1>6, NthOfUnion DEF C
  <2> QED  BY <2>1 DEF IsArrangedAs
<1>8. /\ a \o b \in Seq(T) /\ Len(a \o b) = Len(a) + Len(b)
      /\ \A i \in 1..(Len(a) + Len(b)) : (a \o b)[i] = IF i <= Len(a) THEN a[i] ELSE b[i - Len(a)]
  BY <1>3, <1>4, ConcatProperties
<1>9. Len(c) = Len(a \o b)
  BY <1>3, <1>4, <1>5, <1>7, <1>8
<1>10. ASSUME NEW i \in 1..Len(c) PROVE (a \o b)[i] = c[i]
  <2>1. CASE i <= Len(a)
    <3>1. /\ i \in 1..Cardinality(A) /\ i \in 1..Cardinality(C)
          /\ i \in 1..(Len(a) + Len(b))
      BY <1>3, <1>4, <1>5, <1>7, <2>1
    <3>2. (a \o b)[i] = a[i]
      BY <1>8, <2>1, <3>1
    <3>3. a[i] = list[Nth(A, Ascending, i)] /\ c[i] = list[Nth(C, Ascending, i)]
      BY <1>3, <1>5, <3>1
    <3> QED  BY <1>7, <3>1, <3>2, <3>3
  <2>2. CASE ~(i <= Len(a))
    <3> DEFINE k == i - Len(a)
    <3>1. /\ k \in 1..Cardinality(B) /\ i = Cardinality(A) + k
          /\ i \in 1..Cardinality(C)
      BY <1>3, <1>4, <1>5, <1>7, <2>2
    <3>2. (a \o b)[i] = b[k]
      BY <1>3, <1>4, <1>5, <1>7, <1>8, <2>2
    <3> HIDE DEF k
    <3>3. b[k] = list[Nth(B, Ascending, k)] /\ c[i] = list[Nth(C, Ascending, i)]
      BY <1>4, <1>5, <3>1
    <3> QED  BY <1>7, <3>1, <3>2, <3>3
  <2> QED  BY <2>1, <2>2
<1>11. a \o b = c
  BY <1>3, <1>5, <1>8, <1>9, <1>10, SeqEqual
<1> QED  BY <1>11 DEF a, b, c, C

\* Selecting from a list that has grown is selecting from the list it was.
LEMMA SelectedKept ==
    ASSUME NEW T, NEW list \in Seq(T), NEW longer, NEW P \in SUBSET DOMAIN list,
           \A i \in DOMAIN list : longer[i] = list[i]
    PROVE  Selected(longer, P) = Selected(list, P)
<1>1. IsSelection(Selected(list, P), list, P)
  BY SelectedFacts
<1>2. \A k \in 1..Cardinality(P) : Nth(P, Ascending, k) \in DOMAIN list
  BY <1>1 DEF IsSelection
<1> QED  BY <1>2 DEF Selected

=============================================================================
