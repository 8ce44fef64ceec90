---------------------------- MODULE NumberTheorems ---------------------------
(***************************************************************************)
(* Facts about numbers: sums and powers of two, each from facts about      *)
(* cardinalities; least and greatest elements, which is how induction is   *)
(* used (the least counterexample is none); products and roots.            *)
(***************************************************************************)
EXTENDS Sums, FiniteSetTheorems, WellFoundedInduction, TLAPS

Pile(x, n) == {x} \X (1 .. n)

(* A coin names its value and its number.                                  *)
LEMMA CoinsOf ==
  ASSUME NEW f
  PROVE  \A c : c \in Coins(f) <=>
           \E x \in DOMAIN f : \E i \in 1 .. f[x] : c = <<x, i>>
BY DEF Coins

(* One value has as many coins as its size.                                *)
LEMMA PileSize ==
  ASSUME NEW x, NEW n \in Nat
  PROVE  IsFiniteSet(Pile(x, n)) /\ Cardinality(Pile(x, n)) = n
<1>1. IsFiniteSet(1 .. n) /\ Cardinality(1 .. n) = n
  BY FS_Interval
<1>2. IsFiniteSet({x}) /\ Cardinality({x}) = 1
  BY FS_Singleton
<1>3. /\ IsFiniteSet({x} \X (1 .. n))
      /\ Cardinality({x} \X (1 .. n)) = Cardinality({x}) * Cardinality(1 .. n)
  BY <1>1, <1>2, FS_Product
<1> QED BY <1>1, <1>2, <1>3 DEF Pile

(* Finitely many natural values have finitely many coins.                  *)
LEMMA CoinsFinite ==
  ASSUME NEW f, IsFiniteSet(DOMAIN f), \A x \in DOMAIN f : f[x] \in Nat
  PROVE  IsFiniteSet(Coins(f))
<1> DEFINE piles == {Pile(x, f[x]) : x \in DOMAIN f}
           g == [x \in DOMAIN f |-> Pile(x, f[x])]
<1>1. g \in Surjection(DOMAIN f, piles)
  BY DEF Surjection
<1>2. IsFiniteSet(piles)
  <2> HIDE DEF g, piles
  <2> QED BY <1>1, FS_Surjection
<1>3. \A P \in piles : IsFiniteSet(P)
  BY PileSize
<1>4. IsFiniteSet(UNION piles)
  <2> HIDE DEF piles
  <2> QED BY <1>2, <1>3, FS_UNION
<1> QED BY <1>4 DEF Coins, Pile

(* The sum of natural values is a natural number.                          *)
LEMMA SumType ==
  ASSUME NEW f, IsFiniteSet(DOMAIN f), \A x \in DOMAIN f : f[x] \in Nat
  PROVE  SumOver(f) \in Nat
BY CoinsFinite, FS_CardinalityType DEF SumOver

(* A sum of zeros is zero.                                                 *)
LEMMA SumZero ==
  ASSUME NEW f, \A x \in DOMAIN f : f[x] = 0
  PROVE  SumOver(f) = 0
<1>1. Coins(f) = {}
  BY DEF Coins
<1> QED BY <1>1, FS_EmptySet DEF SumOver

(* Replacing one value moves the sum by the difference.                    *)
LEMMA SumUpdate ==
  ASSUME NEW D, IsFiniteSet(D), NEW f \in [D -> Nat], NEW g \in [D -> Nat],
         NEW x \in D, \A y \in D : y # x => g[y] = f[y]
  PROVE  SumOver(g) = SumOver(f) - f[x] + g[x]
<1> DEFINE A == Pile(x, f[x])
           B == Pile(x, g[x])
           R == Coins(f) \ A
<1>1. IsFiniteSet(Coins(f))
  BY CoinsFinite
<1>2. /\ IsFiniteSet(A) /\ Cardinality(A) = f[x]
      /\ IsFiniteSet(B) /\ Cardinality(B) = g[x]
  BY PileSize
<1>3. A \subseteq Coins(f)
  BY DEF Coins, Pile
<1>4. Coins(g) = R \cup B
  <2>1. ASSUME NEW c \in Coins(g) PROVE c \in R \cup B
    <3>1. PICK y \in D : c \in {y} \X (1 .. g[y])
      BY DEF Coins
    <3>2. CASE y = x
      BY <3>1, <3>2 DEF Pile
    <3>3. CASE y # x
      BY <3>1, <3>3 DEF Coins, Pile
    <3> QED BY <3>2, <3>3
  <2>2. ASSUME NEW c \in R \cup B PROVE c \in Coins(g)
    <3>1. CASE c \in B
      BY <3>1 DEF Coins, Pile
    <3>2. CASE c \in R
      <4>1. PICK y \in D : c \in {y} \X (1 .. f[y])
        BY <3>2 DEF Coins
      <4>2. y # x
        BY <3>2, <4>1 DEF Pile
      <4> QED BY <4>1, <4>2 DEF Coins
    <3> QED BY <2>2, <3>1, <3>2
  <2> QED BY <2>1, <2>2
<1>5. R \cap B = {}
  BY DEF Pile, Coins
<1>6. Coins(f) \cap A = A
  BY <1>3
<1> HIDE DEF A, B
<1>7. IsFiniteSet(R) /\ Cardinality(R) = Cardinality(Coins(f)) - Cardinality(A)
  BY <1>1, <1>6, FS_Difference
<1> HIDE DEF R
<1>8. Cardinality(R \cup B) = Cardinality(R) + Cardinality(B)
  <2>1. Cardinality(R \cup B) =
          Cardinality(R) + Cardinality(B) - Cardinality(R \cap B)
    BY <1>2, <1>7, FS_Union
  <2>2. Cardinality(R \cap B) = 0
    BY <1>5, FS_EmptySet
  <2>3. Cardinality(R) \in Nat /\ Cardinality(B) \in Nat
    BY <1>2, <1>7, FS_CardinalityType
  <2> HIDE DEF R
  <2> QED BY <2>1, <2>2, <2>3
<1>9. /\ SumOver(g) = Cardinality(R \cup B) /\ SumOver(f) = Cardinality(Coins(f))
      /\ Cardinality(Coins(f)) \in Nat
  BY <1>1, <1>4, FS_CardinalityType DEF SumOver
<1> QED BY <1>2, <1>7, <1>8, <1>9

(* A term is no larger than the sum.                                       *)
LEMMA SumTerm ==
  ASSUME NEW D, IsFiniteSet(D), NEW f \in [D -> Nat], NEW x \in D
  PROVE  f[x] <= SumOver(f)
<1>1. IsFiniteSet(Coins(f))
  BY CoinsFinite
<1>2. Pile(x, f[x]) \in SUBSET Coins(f)
  BY DEF Coins, Pile
<1>3. Cardinality(Pile(x, f[x])) <= Cardinality(Coins(f))
  BY <1>1, <1>2, FS_Subset
<1> QED BY <1>3, PileSize DEF SumOver

(* Larger values have a larger sum.                                        *)
LEMMA SumMonotone ==
  ASSUME NEW D, IsFiniteSet(D), NEW f \in [D -> Nat], NEW g \in [D -> Nat],
         \A x \in D : f[x] <= g[x]
  PROVE  SumOver(f) <= SumOver(g)
<1>1. IsFiniteSet(Coins(g))
  BY CoinsFinite
<1>2. Coins(f) \in SUBSET Coins(g)
  BY DEF Coins
<1> QED BY <1>1, <1>2, FS_Subset DEF SumOver

(* More terms have a larger sum.                                           *)
LEMMA SumSubset ==
  ASSUME NEW D, IsFiniteSet(D), NEW f \in [D -> Nat], NEW P \in SUBSET D
  PROVE  SumOver([x \in P |-> f[x]]) <= SumOver(f)
<1>1. IsFiniteSet(Coins(f))
  BY CoinsFinite
<1>2. Coins([x \in P |-> f[x]]) \in SUBSET Coins(f)
  BY DEF Coins
<1> QED BY <1>1, <1>2, FS_Subset DEF SumOver

(* The terms of two disjoint parts of the domain sum to no more than all.  *)
LEMMA SumSplit ==
  ASSUME NEW D, IsFiniteSet(D), NEW f \in [D -> Nat],
         NEW P \in SUBSET D, NEW Q \in SUBSET D, P \cap Q = {}
  PROVE  SumOver([x \in P |-> f[x]]) + SumOver([x \in Q |-> f[x]]) <= SumOver(f)
<1> DEFINE A == Coins([x \in P |-> f[x]])
           B == Coins([x \in Q |-> f[x]])
<1>1. IsFiniteSet(Coins(f)) /\ Cardinality(Coins(f)) \in Nat
  BY CoinsFinite, FS_CardinalityType
<1>2. A \in SUBSET Coins(f) /\ B \in SUBSET Coins(f) /\ A \cap B = {}
  BY DEF Coins
<1> HIDE DEF A, B
<1>3. IsFiniteSet(A) /\ IsFiniteSet(B)
  BY <1>1, <1>2, FS_Subset
<1>4. Cardinality(A \cup B) <= Cardinality(Coins(f))
  <2>1. A \cup B \in SUBSET Coins(f)
    BY <1>2
  <2> QED BY <1>1, <2>1, FS_Subset
<1>5. Cardinality(A \cup B) = Cardinality(A) + Cardinality(B) - Cardinality(A \cap B)
  BY <1>3, FS_Union
<1>6. Cardinality(A \cap B) = 0
  BY <1>2, FS_EmptySet
<1>7. Cardinality(A) \in Nat /\ Cardinality(B) \in Nat
  BY <1>3, FS_CardinalityType
<1>8. Cardinality(A) + Cardinality(B) <= Cardinality(Coins(f))
  BY <1>1, <1>4, <1>5, <1>6, <1>7
<1> QED BY <1>8 DEF A, B, SumOver

(* The sum of sums is the sum: the coins of g, moved up by f.              *)
LEMMA SumAdd ==
  ASSUME NEW D, IsFiniteSet(D), NEW f \in [D -> Nat], NEW g \in [D -> Nat]
  PROVE  SumOver([x \in D |-> f[x] + g[x]]) = SumOver(f) + SumOver(g)
<1> DEFINE both == [x \in D |-> f[x] + g[x]]
           upper == Coins(both) \ Coins(f)
           move == [c \in Coins(g) |-> <<c[1], f[c[1]] + c[2]>>]
<1>1. both \in [D -> Nat]
  OBVIOUS
<1>2. /\ IsFiniteSet(Coins(f)) /\ IsFiniteSet(Coins(g))
      /\ IsFiniteSet(Coins(both))
  <2> HIDE DEF both
  <2> QED BY <1>1, CoinsFinite
<1>3. \A c : c \in Coins(g) <=>
        \E x \in D : \E i \in 1 .. g[x] : c = <<x, i>>
  BY DEF Coins
<1>4. \A c : c \in upper <=>
        \E x \in D : \E i \in f[x] + 1 .. f[x] + g[x] : c = <<x, i>>
  <2>1. \A c : c \in Coins(both) <=>
          \E x \in D : \E i \in 1 .. f[x] + g[x] : c = <<x, i>>
    BY DEF Coins
  <2>2. \A c : c \in Coins(f) <=>
          \E x \in D : \E i \in 1 .. f[x] : c = <<x, i>>
    BY DEF Coins
  <2> QED BY <2>1, <2>2
<1>5. move \in Bijection(Coins(g), upper)
  <2> HIDE DEF upper
  <2>1. ASSUME NEW c \in Coins(g) PROVE move[c] \in upper
    <3>1. PICK x \in D : \E i \in 1 .. g[x] : c = <<x, i>>
      BY <1>3
    <3>2. PICK i \in 1 .. g[x] : c = <<x, i>>
      BY <3>1
    <3>3. move[c] = <<x, f[x] + i>>
      BY <3>2
    <3>4. f[x] + i \in f[x] + 1 .. f[x] + g[x]
      OBVIOUS
    <3> HIDE DEF move
    <3> QED BY <1>4, <3>3, <3>4
  <2>2. ASSUME NEW c \in Coins(g), NEW d \in Coins(g), move[c] = move[d]
        PROVE  c = d
    <3>1. PICK x \in D : \E i \in 1 .. g[x] : c = <<x, i>>
      BY <1>3
    <3>2. PICK i \in 1 .. g[x] : c = <<x, i>>
      BY <3>1
    <3>3. PICK y \in D : \E j \in 1 .. g[y] : d = <<y, j>>
      BY <1>3
    <3>4. PICK j \in 1 .. g[y] : d = <<y, j>>
      BY <3>3
    <3>5. <<x, f[x] + i>> = <<y, f[y] + j>>
      BY <2>2, <3>2, <3>4
    <3>6. x = y /\ f[x] + i = f[x] + j
      BY <3>5
    <3> QED BY <3>2, <3>4, <3>6
  <2>3. ASSUME NEW d \in upper PROVE \E c \in Coins(g) : move[c] = d
    <3>1. PICK x \in D : \E i \in f[x] + 1 .. f[x] + g[x] : d = <<x, i>>
      BY <1>4
    <3>2. PICK i \in f[x] + 1 .. f[x] + g[x] : d = <<x, i>>
      BY <3>1
    <3>3. i - f[x] \in 1 .. g[x] /\ f[x] + (i - f[x]) = i
      OBVIOUS
    <3>4. <<x, i - f[x]>> \in Coins(g)
      BY <1>3, <3>3
    <3>5. move[<<x, i - f[x]>>] = d
      BY <3>2, <3>3, <3>4
    <3> QED BY <3>4, <3>5
  <2> HIDE DEF move
  <2>4. move \in [Coins(g) -> upper]
    BY <2>1 DEF move
  <2> QED BY <2>2, <2>3, <2>4 DEF Bijection, Injection, Surjection, IsInjective
<1>6. Cardinality(upper) = Cardinality(Coins(g))
  <2> HIDE DEF move, upper
  <2> QED BY <1>2, <1>5, FS_Bijection DEF ExistsBijection
<1>7. Coins(both) \cap Coins(f) = Coins(f)
  BY <1>1 DEF Coins
<1>8. Cardinality(upper) = Cardinality(Coins(both)) - Cardinality(Coins(f))
  <2> HIDE DEF both
  <2> QED BY <1>2, <1>7, FS_Difference
<1>9. /\ Cardinality(Coins(f)) \in Nat /\ Cardinality(Coins(g)) \in Nat
      /\ Cardinality(Coins(both)) \in Nat
  <2> HIDE DEF both
  <2> QED BY <1>2, FS_CardinalityType
<1> HIDE DEF upper
<1>10. Cardinality(Coins(both)) = Cardinality(Coins(f)) + Cardinality(Coins(g))
  BY <1>6, <1>8, <1>9
<1> QED BY <1>10 DEF SumOver

(* The elements of a finite set, counted class by class.                   *)
LEMMA SumFibers ==
  ASSUME NEW C, IsFiniteSet(C), NEW D, IsFiniteSet(D), NEW p \in [C -> D],
         NEW size \in [D -> Nat],
         \A x \in D : size[x] = Cardinality({c \in C : p[c] = x})
  PROVE  SumOver(size) = Cardinality(C)
<1> DEFINE fiber(x) == {c \in C : p[c] = x}
           count == [x \in D |-> CHOOSE b : b \in Bijection(1 .. size[x], fiber(x))]
           pick == [c \in Coins(size) |-> count[c[1]][c[2]]]
<1>1. ASSUME NEW x \in D
      PROVE  count[x] \in Bijection(1 .. size[x], fiber(x))
  <2>1. fiber(x) \in SUBSET C
    OBVIOUS
  <2>2. size[x] = Cardinality(fiber(x))
    OBVIOUS
  <2> HIDE DEF fiber
  <2>3. IsFiniteSet(fiber(x))
    BY <2>1, FS_Subset
  <2>4. ExistsBijection(1 .. size[x], fiber(x))
    BY <2>2, <2>3, FS_CardinalityType
  <2> QED BY <2>4 DEF ExistsBijection
<1> HIDE DEF count
<1>2. ASSUME NEW x \in D
      PROVE  /\ \A i \in 1 .. size[x] : count[x][i] \in C /\ p[count[x][i]] = x
             /\ \A i, j \in 1 .. size[x] : count[x][i] = count[x][j] => i = j
             /\ \A c \in C : p[c] = x => \E i \in 1 .. size[x] : count[x][i] = c
  BY <1>1 DEF Bijection, Injection, Surjection, IsInjective
<1>3. \A c : c \in Coins(size) <=>
        \E x \in D : \E i \in 1 .. size[x] : c = <<x, i>>
  BY DEF Coins
<1>4. \A x \in D : \A i \in 1 .. size[x] :
        <<x, i>> \in Coins(size) /\ pick[<<x, i>>] = count[x][i]
  BY <1>3
<1> HIDE DEF pick
<1>5. pick \in [Coins(size) -> C]
  <2>1. ASSUME NEW c \in Coins(size) PROVE pick[c] \in C
    <3>1. PICK x \in D : \E i \in 1 .. size[x] : c = <<x, i>>
      BY <1>3
    <3> QED BY <1>2, <1>4, <3>1
  <2> QED BY <2>1 DEF pick
<1>6. ASSUME NEW c \in Coins(size), NEW d \in Coins(size), pick[c] = pick[d]
      PROVE  c = d
  <2>1. PICK x \in D : \E i \in 1 .. size[x] : c = <<x, i>>
    BY <1>3
  <2>2. PICK i \in 1 .. size[x] : c = <<x, i>>
    BY <2>1
  <2>3. PICK y \in D : \E j \in 1 .. size[y] : d = <<y, j>>
    BY <1>3
  <2>4. PICK j \in 1 .. size[y] : d = <<y, j>>
    BY <2>3
  <2>5. count[x][i] = count[y][j]
    BY <1>4, <1>6, <2>2, <2>4
  <2>6. x = y
    BY <1>2, <2>5
  <2> QED BY <1>2, <2>2, <2>4, <2>5, <2>6
<1>7. ASSUME NEW c \in C PROVE \E d \in Coins(size) : pick[d] = c
  <2>1. p[c] \in D
    OBVIOUS
  <2>2. PICK i \in 1 .. size[p[c]] : count[p[c]][i] = c
    BY <1>2, <2>1
  <2>3. <<p[c], i>> \in Coins(size) /\ pick[<<p[c], i>>] = c
    BY <1>4, <2>1, <2>2
  <2> QED BY <2>3
<1>8. pick \in Bijection(Coins(size), C)
  BY <1>5, <1>6, <1>7 DEF Bijection, Injection, Surjection, IsInjective
<1>9. IsFiniteSet(Coins(size))
  BY CoinsFinite
<1> QED BY <1>8, <1>9, FS_Bijection DEF ExistsBijection, SumOver

(* The sums of the rows of a table, and of its columns.                    *)
RowSums(D, E, w) == [x \in D |-> SumOver([y \in E |-> w[<<x, y>>]])]

ColumnSums(D, E, w) == [y \in E |-> SumOver([x \in D |-> w[<<x, y>>]])]

(* The rows sum to the whole table.                                        *)
LEMMA SumRows ==
  ASSUME NEW D, IsFiniteSet(D), NEW E, IsFiniteSet(E), NEW w \in [D \X E -> Nat]
  PROVE  SumOver(RowSums(D, E, w)) = SumOver(w)
<1> DEFINE C == Coins(w)
           p == [c \in C |-> c[1][1]]
           row(x) == [y \in E |-> w[<<x, y>>]]
           size == [x \in D |-> SumOver(row(x))]
           fiber(x) == {c \in C : p[c] = x}
<1>1. IsFiniteSet(C)
  <2>1. IsFiniteSet(D \X E)
    BY FS_Product
  <2> QED BY <2>1, CoinsFinite
<1>2. \A c : c \in C <=>
        \E x \in D, y \in E : \E i \in 1 .. w[<<x, y>>] : c = <<<<x, y>>, i>>
  <2>1. \A c : c \in C <=>
          \E z \in D \X E : \E i \in 1 .. w[z] : c = <<z, i>>
    <3>1. DOMAIN w = D \X E
      OBVIOUS
    <3> QED BY <3>1, CoinsOf
  <2> HIDE DEF C
  <2>2. ASSUME NEW c \in C
        PROVE  \E x \in D, y \in E : \E i \in 1 .. w[<<x, y>>] : c = <<<<x, y>>, i>>
    <3>1. PICK z \in D \X E : \E i \in 1 .. w[z] : c = <<z, i>>
      BY <2>1
    <3>2. PICK x \in D, y \in E : z = <<x, y>>
      OBVIOUS
    <3> QED BY <3>1, <3>2
  <2>3. ASSUME NEW x \in D, NEW y \in E, NEW i \in 1 .. w[<<x, y>>]
        PROVE  <<<<x, y>>, i>> \in C
    <3>1. <<x, y>> \in D \X E
      OBVIOUS
    <3> QED BY <2>1, <3>1
  <2>4. ASSUME NEW c, \E x \in D, y \in E : \E i \in 1 .. w[<<x, y>>] : c = <<<<x, y>>, i>>
        PROVE  c \in C
    <3>1. PICK x \in D, y \in E : \E i \in 1 .. w[<<x, y>>] : c = <<<<x, y>>, i>>
      BY <2>4
    <3> QED BY <2>3, <3>1
  <2> QED BY <2>2, <2>4
<1>3. \A x \in D : IsFiniteSet(Coins(row(x))) /\ SumOver(row(x)) \in Nat
  BY CoinsFinite, SumType
<1>4. \A x \in D : \A c : c \in Coins(row(x)) <=>
        \E y \in E : \E i \in 1 .. w[<<x, y>>] : c = <<y, i>>
  <2> SUFFICES ASSUME NEW x \in D
               PROVE  \A c : c \in Coins(row(x)) <=>
                 \E y \in E : \E i \in 1 .. w[<<x, y>>] : c = <<y, i>>
    OBVIOUS
  <2>1. DOMAIN row(x) = E /\ \A y \in E : row(x)[y] = w[<<x, y>>]
    OBVIOUS
  <2> HIDE DEF row
  <2>2. \A c : c \in Coins(row(x)) <=>
          \E y \in DOMAIN row(x) : \E i \in 1 .. row(x)[y] : c = <<y, i>>
    BY CoinsOf
  <2>3. ASSUME NEW c \in Coins(row(x))
        PROVE  \E y \in E : \E i \in 1 .. w[<<x, y>>] : c = <<y, i>>
    <3>1. PICK y \in DOMAIN row(x) : \E i \in 1 .. row(x)[y] : c = <<y, i>>
      BY <2>2
    <3>2. y \in E /\ row(x)[y] = w[<<x, y>>]
      BY <2>1
    <3> QED BY <3>1, <3>2
  <2>4. ASSUME NEW y \in E, NEW i \in 1 .. w[<<x, y>>]
        PROVE  <<y, i>> \in Coins(row(x))
    BY <2>1, <2>2
  <2> QED BY <2>3, <2>4
<1> HIDE DEF C
<1>5. /\ p \in [C -> D]
      /\ \A x \in D : \A c : c \in fiber(x) <=>
           \E y \in E : \E i \in 1 .. w[<<x, y>>] : c = <<<<x, y>>, i>>
  <2>1. \A x \in D, y \in E : \A i \in 1 .. w[<<x, y>>] :
          <<<<x, y>>, i>> \in C /\ p[<<<<x, y>>, i>>] = x
    <3> SUFFICES ASSUME NEW x \in D, NEW y \in E, NEW i \in 1 .. w[<<x, y>>]
                 PROVE  <<<<x, y>>, i>> \in C /\ p[<<<<x, y>>, i>>] = x
      OBVIOUS
    <3>1. <<<<x, y>>, i>> \in C
      BY <1>2
    <3> QED BY <3>1
  <2>2. ASSUME NEW c \in C PROVE p[c] \in D
    <3>1. PICK x \in D, y \in E : \E i \in 1 .. w[<<x, y>>] : c = <<<<x, y>>, i>>
      BY <1>2
    <3> QED BY <2>1, <3>1
  <2>3. p \in [C -> D]
    BY <2>2
  <2> HIDE DEF p
  <2>4. ASSUME NEW x \in D, NEW c \in fiber(x)
        PROVE  \E y \in E : \E i \in 1 .. w[<<x, y>>] : c = <<<<x, y>>, i>>
    <3>1. PICK z \in D, y \in E : \E i \in 1 .. w[<<z, y>>] : c = <<<<z, y>>, i>>
      BY <1>2
    <3>2. z = x
      BY <2>1, <3>1
    <3> QED BY <3>1, <3>2
  <2>5. ASSUME NEW x \in D, NEW y \in E, NEW i \in 1 .. w[<<x, y>>]
        PROVE  <<<<x, y>>, i>> \in fiber(x)
    BY <2>1
  <2> HIDE DEF fiber
  <2> QED BY <2>3, <2>4, <2>5
<1>6. ASSUME NEW x \in D PROVE size[x] = Cardinality(fiber(x))
  <2> DEFINE move == [c \in Coins(row(x)) |-> <<<<x, c[1]>>, c[2]>>]
  <2>1. \A c : c \in fiber(x) <=>
          \E y \in E : \E i \in 1 .. w[<<x, y>>] : c = <<<<x, y>>, i>>
    BY <1>5
  <2>2. size[x] = Cardinality(Coins(row(x)))
    BY DEF SumOver
  <2>0. \A c : c \in Coins(row(x)) <=>
          \E y \in E : \E i \in 1 .. w[<<x, y>>] : c = <<y, i>>
    BY <1>4
  <2> HIDE DEF p, row, size, fiber
  <2>3. ASSUME NEW c \in Coins(row(x)) PROVE move[c] \in fiber(x)
    <3>1. PICK y \in E : \E i \in 1 .. w[<<x, y>>] : c = <<y, i>>
      BY <2>0
    <3>2. PICK i \in 1 .. w[<<x, y>>] : c = <<y, i>>
      BY <3>1
    <3>3. move[c] = <<<<x, y>>, i>>
      BY <3>2
    <3> QED BY <2>1, <3>3
  <2>4. ASSUME NEW c \in Coins(row(x)), NEW d \in Coins(row(x)), move[c] = move[d]
        PROVE  c = d
    <3>1. PICK y \in E : \E i \in 1 .. w[<<x, y>>] : c = <<y, i>>
      BY <2>0
    <3>2. PICK z \in E : \E i \in 1 .. w[<<x, z>>] : d = <<z, i>>
      BY <2>0
    <3> QED BY <2>4, <3>1, <3>2
  <2>5. ASSUME NEW d \in fiber(x) PROVE \E c \in Coins(row(x)) : move[c] = d
    <3>1. PICK y \in E : \E i \in 1 .. w[<<x, y>>] : d = <<<<x, y>>, i>>
      BY <2>1
    <3>2. PICK i \in 1 .. w[<<x, y>>] : d = <<<<x, y>>, i>>
      BY <3>1
    <3>3. <<y, i>> \in Coins(row(x)) /\ move[<<y, i>>] = d
      BY <2>0, <3>2
    <3> QED BY <3>3
  <2>6. move \in [Coins(row(x)) -> fiber(x)]
    BY <2>3
  <2> HIDE DEF move
  <2>7. move \in Bijection(Coins(row(x)), fiber(x))
    BY <2>4, <2>5, <2>6 DEF Bijection, Injection, Surjection, IsInjective
  <2> QED BY <1>3, <2>2, <2>7, FS_Bijection DEF ExistsBijection
<1>7. size \in [D -> Nat]
  BY <1>3
<1>8. SumOver(size) = Cardinality(C)
  <2>1. \A x \in D : size[x] = Cardinality({c \in C : p[c] = x})
    BY <1>6
  <2>2. p \in [C -> D]
    BY <1>5
  <2> HIDE DEF p, size
  <2> QED BY <1>1, <1>7, <2>1, <2>2, SumFibers
<1> QED BY <1>8 DEF SumOver, C, RowSums

(* Every term k times as large.                                            *)
LEMMA SumScale ==
  ASSUME NEW D, IsFiniteSet(D), NEW f \in [D -> Nat], NEW k \in Nat
  PROVE  SumOver([x \in D |-> f[x] * k]) = SumOver(f) * k
<1> DEFINE C == Coins(f) \X (1 .. k)
           p == [c \in C |-> c[1][1]]
           size == [x \in D |-> f[x] * k]
<1>1. IsFiniteSet(1 .. k) /\ Cardinality(1 .. k) = k
  BY FS_Interval
<1>2. IsFiniteSet(Coins(f))
  BY CoinsFinite
<1>3. IsFiniteSet(C) /\ Cardinality(C) = SumOver(f) * k
  BY <1>1, <1>2, FS_Product DEF SumOver
<1>4. p \in [C -> D]
  BY DEF Coins
<1>5. ASSUME NEW x \in D PROVE size[x] = Cardinality({c \in C : p[c] = x})
  <2>1. {c \in C : p[c] = x} = Pile(x, f[x]) \X (1 .. k)
    BY DEF Coins, Pile
  <2>2. Cardinality(Pile(x, f[x]) \X (1 .. k)) = f[x] * k
    <3>1. f[x] \in Nat
      OBVIOUS
    <3>2. IsFiniteSet(Pile(x, f[x])) /\ Cardinality(Pile(x, f[x])) = f[x]
      BY <3>1, PileSize
    <3> DEFINE S == Pile(x, f[x])
    <3> HIDE DEF S
    <3>3. Cardinality(S \X (1 .. k)) = Cardinality(S) * Cardinality(1 .. k)
      BY <1>1, <3>2, FS_Product DEF S
    <3> QED BY <1>1, <3>2, <3>3 DEF S
  <2> QED BY <2>1, <2>2
<1>6. size \in [D -> Nat]
  <2>1. \A x \in D : f[x] * k \in Nat
    OBVIOUS
  <2> QED BY <2>1
<1> HIDE DEF C, p, size
<1>7. SumOver(size) = Cardinality(C)
  BY <1>3, <1>4, <1>5, <1>6, SumFibers
<1> QED BY <1>3, <1>7 DEF size

(* The terms in another order, or under other names.                       *)
LEMMA SumReindex ==
  ASSUME NEW D, IsFiniteSet(D), NEW f \in [D -> Nat],
         NEW E, IsFiniteSet(E), NEW b \in Bijection(E, D)
  PROVE  SumOver([x \in E |-> f[b[x]]]) = SumOver(f)
<1> DEFINE g == [x \in E |-> f[b[x]]]
           move == [c \in Coins(g) |-> <<b[c[1]], c[2]>>]
<1>1. /\ b \in [E -> D]
      /\ \A x, y \in E : b[x] = b[y] => x = y
      /\ \A z \in D : \E x \in E : b[x] = z
  BY DEF Bijection, Injection, Surjection, IsInjective
<1>2. g \in [E -> Nat]
  BY <1>1
<1>3. IsFiniteSet(Coins(g))
  <2> HIDE DEF g
  <2> QED BY <1>2, CoinsFinite
<1>4. \A c : c \in Coins(g) <=> \E x \in E : \E i \in 1 .. f[b[x]] : c = <<x, i>>
  BY DEF Coins
<1>5. \A c : c \in Coins(f) <=> \E z \in D : \E i \in 1 .. f[z] : c = <<z, i>>
  BY DEF Coins
<1> HIDE DEF g
<1>6. ASSUME NEW c \in Coins(g) PROVE move[c] \in Coins(f)
  <2>1. PICK x \in E : \E i \in 1 .. f[b[x]] : c = <<x, i>>
    BY <1>4
  <2>2. PICK i \in 1 .. f[b[x]] : c = <<x, i>>
    BY <2>1
  <2>3. move[c] = <<b[x], i>> /\ b[x] \in D
    BY <1>1, <2>2
  <2> QED BY <1>5, <2>3
<1>7. ASSUME NEW c \in Coins(g), NEW d \in Coins(g), move[c] = move[d]
      PROVE  c = d
  <2>1. PICK x \in E : \E i \in 1 .. f[b[x]] : c = <<x, i>>
    BY <1>4
  <2>2. PICK y \in E : \E i \in 1 .. f[b[y]] : d = <<y, i>>
    BY <1>4
  <2> QED BY <1>1, <1>7, <2>1, <2>2
<1>8. ASSUME NEW d \in Coins(f) PROVE \E c \in Coins(g) : move[c] = d
  <2>1. PICK z \in D : \E i \in 1 .. f[z] : d = <<z, i>>
    BY <1>5
  <2>2. PICK i \in 1 .. f[z] : d = <<z, i>>
    BY <2>1
  <2>3. PICK x \in E : b[x] = z
    BY <1>1
  <2>4. <<x, i>> \in Coins(g) /\ move[<<x, i>>] = d
    BY <1>4, <2>2, <2>3
  <2> QED BY <2>4
<1>9. move \in [Coins(g) -> Coins(f)]
  BY <1>6
<1> HIDE DEF move
<1>10. move \in Bijection(Coins(g), Coins(f))
  BY <1>7, <1>8, <1>9 DEF Bijection, Injection, Surjection, IsInjective
<1>11. Cardinality(Coins(f)) = Cardinality(Coins(g))
  BY <1>3, <1>10, FS_Bijection DEF ExistsBijection
<1> QED BY <1>11 DEF SumOver, g

(* A table has the same sum by rows and by columns.                        *)
LEMMA SumTable ==
  ASSUME NEW D, IsFiniteSet(D), NEW E, IsFiniteSet(E), NEW w \in [D \X E -> Nat]
  PROVE  SumOver(RowSums(D, E, w)) = SumOver(ColumnSums(D, E, w))
<1> DEFINE swap == [z \in E \X D |-> <<z[2], z[1]>>]
           v == [z \in E \X D |-> w[swap[z]]]
<1>1. swap \in Bijection(E \X D, D \X E)
  <2>1. swap \in [E \X D -> D \X E]
    OBVIOUS
  <2>2. \A z, y \in E \X D : swap[z] = swap[y] => z = y
    OBVIOUS
  <2>3. ASSUME NEW z \in D \X E PROVE \E y \in E \X D : swap[y] = z
    <3>1. <<z[2], z[1]>> \in E \X D /\ swap[<<z[2], z[1]>>] = z
      OBVIOUS
    <3> QED BY <3>1
  <2> HIDE DEF swap
  <2> QED BY <2>1, <2>2, <2>3 DEF Bijection, Injection, Surjection, IsInjective
<1>2. IsFiniteSet(D \X E) /\ IsFiniteSet(E \X D)
  BY FS_Product
<1>3. SumOver(v) = SumOver(w)
  <2> HIDE DEF swap
  <2> QED BY <1>1, <1>2, SumReindex
<1>4. /\ v \in [E \X D -> Nat]
      /\ \A y \in E, x \in D : v[<<y, x>>] = w[<<x, y>>]
  OBVIOUS
<1> HIDE DEF v
<1>5. SumOver(RowSums(E, D, v)) = SumOver(v)
  BY <1>4, SumRows
<1>6. RowSums(E, D, v) = ColumnSums(D, E, w)
  <2>1. \A y \in E : [x \in D |-> v[<<y, x>>]] = [x \in D |-> w[<<x, y>>]]
    BY <1>4
  <2> QED BY <2>1 DEF RowSums, ColumnSums
<1>7. SumOver(RowSums(D, E, w)) = SumOver(w)
  BY SumRows
<1> QED BY <1>3, <1>5, <1>6, <1>7

-----------------------------------------------------------------------------

\* A nonempty set of natural numbers has a least element: what induction
\* is made of.
LEMMA LeastNumber ==
  ASSUME NEW S \in SUBSET Nat, S # {}
  PROVE  \E x \in S : \A y \in S : x <= y
<1> DEFINE Less == OpToRel(<, Nat)
<1>1. \A x, y \in Nat : <<x, y>> \in Less <=> x < y BY DEF OpToRel
<1>2. IsWellFoundedOn(Less, Nat) BY NatLessThanWellFounded
<1> HIDE DEF Less
<1>3. PICK x \in S : \A y \in S : ~(<<y, x>> \in Less) BY <1>2, WFMin
<1>4. \A y \in S : ~(y < x) BY <1>1, <1>3
<1>5. \A y \in S : x <= y BY <1>4
<1> QED BY <1>5

\* A bounded set of positions has a greatest element.
LEMMA GreatestPosition ==
  ASSUME NEW m \in Nat, NEW S \in SUBSET (0 .. m), S # {}
  PROVE  \E i \in S : \A j \in S : j <= i
<1> DEFINE T == {m - i : i \in S}
<1>1. T \subseteq Nat /\ T # {}
  <2>1. \A i \in S : i \in 0 .. m /\ m - i \in Nat OBVIOUS
  <2>2. PICK i \in S : TRUE OBVIOUS
  <2>3. m - i \in T OBVIOUS
  <2> QED BY <2>1, <2>3
<1> HIDE DEF T
<1>2. PICK x \in T : \A y \in T : x <= y BY <1>1, LeastNumber
<1>3. PICK i \in S : x = m - i BY <1>2 DEF T
<1>4. ASSUME NEW j \in S PROVE j <= i
  <2>1. m - j \in T BY DEF T
  <2>2. m - i <= m - j BY <2>1, <1>2, <1>3
  <2> QED BY <2>2
<1> QED BY <1>4

-----------------------------------------------------------------------------

\* A power of two counts the subsets of a set.
LEMMA PowerCounts ==
  ASSUME NEW n \in Nat
  PROVE  /\ IsFiniteSet(1 .. n) /\ Cardinality(1 .. n) = n
         /\ IsFiniteSet(SUBSET (1 .. n)) /\ Cardinality(SUBSET (1 .. n)) = 2^n
<1>1. IsFiniteSet(1 .. n) /\ Cardinality(1 .. n) = n BY FS_Interval
<1> QED BY <1>1, FS_SUBSET

\* It is a natural number.
LEMMA PowerNat == \A n \in Nat : 2^n \in Nat
BY PowerCounts, FS_CardinalityType

\* From n to n + 1 elements the subsets double.
LEMMA PowerStep ==
  ASSUME NEW n \in Nat
  PROVE  2^(n + 1) = 2 * 2^n
<1> DEFINE S == 1 .. n
           new == n + 1
           without == SUBSET S
           with == {A \cup {new} : A \in without}
           join == [A \in without |-> A \cup {new}]
<1>1. IsFiniteSet(S) /\ Cardinality(S) = n /\ new \notin S
  BY FS_Interval
<1>2. IsFiniteSet(S \cup {new}) /\ Cardinality(S \cup {new}) = n + 1
  BY <1>1, FS_AddElement, Zenon
<1> HIDE DEF S, new
<1>3. /\ IsFiniteSet(without) /\ Cardinality(without) = 2^n
      /\ Cardinality(SUBSET (S \cup {new})) = 2^(n + 1)
  BY <1>1, <1>2, FS_SUBSET
<1>4. join \in Bijection(without, with)
  <2>1. join \in [without -> with]
    OBVIOUS
  <2>2. \A A, B \in without : join[A] = join[B] => A = B
    <3> SUFFICES ASSUME NEW A \in without, NEW B \in without, join[A] = join[B]
                 PROVE  A = B
      OBVIOUS
    <3>1. A \cup {new} = B \cup {new}
      OBVIOUS
    <3>2. new \notin A /\ new \notin B
      BY <1>1
    <3> QED BY <3>1, <3>2
  <2>3. \A C \in with : \E A \in without : join[A] = C
    OBVIOUS
  <2> HIDE DEF join, with, without
  <2> QED BY <2>1, <2>2, <2>3 DEF Bijection, Injection, Surjection, IsInjective
<1>5. IsFiniteSet(with) /\ Cardinality(with) = Cardinality(without)
  <2>1. ExistsBijection(without, with)
    BY <1>4 DEF ExistsBijection
  <2> QED BY <1>3, <2>1, FS_Bijection
<1>6. without \cap with = {}
  BY <1>1
<1>7. SUBSET (S \cup {new}) = without \cup with
  <2>1. ASSUME NEW C \in SUBSET (S \cup {new}), new \in C PROVE C \in with
    <3>1. C \ {new} \in without /\ C = (C \ {new}) \cup {new}
      BY <2>1
    <3> QED BY <3>1
  <2>2. ASSUME NEW C \in SUBSET (S \cup {new}), new \notin C PROVE C \in without
    BY <2>2
  <2> QED BY <2>1, <2>2
<1>8. Cardinality(without \cup with) =
        Cardinality(without) + Cardinality(with) - Cardinality(without \cap with)
  <2> HIDE DEF without, with
  <2> QED BY <1>3, <1>5, FS_Union
<1>9. 2^(n + 1) = 2^n + 2^n - 0
  BY <1>3, <1>5, <1>6, <1>7, <1>8, FS_EmptySet
<1> DEFINE p == 2^n
<1>10. p \in Nat
  BY PowerNat
<1> HIDE DEF p
<1>11. 2^(n + 1) = p + p - 0
  BY <1>9 DEF p
<1>12. p + p - 0 = 2 * p
  BY <1>10
<1> QED BY <1>11, <1>12 DEF p

\* The empty set has one subset.
LEMMA PowerZero == 2^0 = 1
OBVIOUS

\* Powers of two grow with the exponent.
LEMMA PowerGrows ==
  ASSUME NEW m \in Nat, NEW n \in Nat, m <= n
  PROVE  2^m <= 2^n
<1> DEFINE p(k) == 2^(m + k)
           Bad == {k \in Nat : ~(p(0) <= p(k))}
<1>1. \A k \in Nat : p(k) \in Nat /\ p(k + 1) = 2 * p(k)
  <2> SUFFICES ASSUME NEW k \in Nat PROVE p(k) \in Nat /\ p(k + 1) = 2 * p(k)
    OBVIOUS
  <2>1. m + k \in Nat /\ m + (k + 1) = (m + k) + 1 OBVIOUS
  <2> QED BY <2>1, PowerNat, PowerStep
<1>2. m + 0 = m /\ m + (n - m) = n /\ n - m \in Nat OBVIOUS
<1> SUFFICES ASSUME Bad # {} PROVE FALSE
  <2>1. p(0) <= p(n - m) BY <1>2
  <2> QED BY <2>1, <1>2
<1>3. PICK k \in Bad : \A j \in Bad : k <= j BY LeastNumber
<1> HIDE DEF p
<1>4. k # 0 /\ k - 1 \in Nat /\ (k - 1) + 1 = k BY <1>1, <1>3
<1>5. k - 1 \notin Bad BY <1>3, <1>4
<1> QED BY <1>1, <1>3, <1>4, <1>5

\* No power of two is zero.
LEMMA PowerPositive == \A n \in Nat : 2^n \in Nat \ {0}
<1> SUFFICES ASSUME NEW n \in Nat PROVE 2^n \in Nat \ {0} OBVIOUS
<1>1. 0 \in Nat /\ 0 <= n OBVIOUS
<1>2. 2^0 <= 2^n BY <1>1, PowerGrows
<1> QED BY <1>2, PowerZero, PowerNat

\* The product of two powers adds the exponents.
LEMMA PowerSum ==
  ASSUME NEW m \in Nat, NEW n \in Nat
  PROVE  2^(m + n) = 2^m * 2^n
<1> DEFINE p(k) == 2^(m + k)
           q(k) == 2^k
           c == 2^m
           Bad == {k \in Nat : p(k) # c * q(k)}
<1>1. \A k \in Nat : /\ p(k) \in Nat /\ p(k + 1) = 2 * p(k)
                     /\ q(k) \in Nat /\ q(k + 1) = 2 * q(k)
  <2> SUFFICES ASSUME NEW k \in Nat
               PROVE  /\ p(k) \in Nat /\ p(k + 1) = 2 * p(k)
                      /\ q(k) \in Nat /\ q(k + 1) = 2 * q(k)
    OBVIOUS
  <2>1. m + k \in Nat /\ m + (k + 1) = (m + k) + 1 OBVIOUS
  <2> QED BY <2>1, PowerNat, PowerStep
<1>2. c \in Nat /\ p(0) = c /\ q(0) = 1
  <2>1. m + 0 = m OBVIOUS
  <2> QED BY <2>1, PowerNat, PowerZero
<1> SUFFICES ASSUME Bad # {} PROVE FALSE OBVIOUS
<1>3. PICK k \in Bad : \A j \in Bad : k <= j BY LeastNumber
<1> HIDE DEF p, q, c
<1>4. c * 1 = c BY <1>2
<1>5. k # 0 /\ k - 1 \in Nat /\ (k - 1) + 1 = k BY <1>2, <1>3, <1>4
<1>6. p(k - 1) = c * q(k - 1) BY <1>3, <1>5
<1>7. 2 * (c * q(k - 1)) = c * (2 * q(k - 1)) BY <1>1, <1>2, <1>5
<1> QED BY <1>1, <1>3, <1>5, <1>6, <1>7

-----------------------------------------------------------------------------

\* The remainder of a number that fits the modulus, or is one modulus below.
LEMMA SmallRemainder ==
  ASSUME NEW m \in Nat \ {0}, NEW v \in Int
  PROVE  /\ v % m \in 0 .. m - 1
         /\ v \in 0 .. m - 1 => v % m = v
         /\ v \in -m .. -1 => v % m = v + m
OBVIOUS

\* The quotient of a division.
LEMMA Quotient ==
  ASSUME NEW a \in Nat, NEW e \in Nat \ {0}
  PROVE  /\ a \div e \in Nat /\ e * (a \div e) <= a
         /\ a < e * (a \div e) + e
OBVIOUS

\* Multiplying keeps an order, and cancelling a positive factor does.
LEMMA TimesMonotone ==
  ASSUME NEW x \in Int, NEW y \in Int, NEW z \in Nat, x <= y
  PROVE  x * z <= y * z
OBVIOUS

LEMMA TimesCancel ==
  ASSUME NEW x \in Int, NEW y \in Int, NEW z \in Nat \ {0}, x * z <= y * z
  PROVE  x <= y
<1> SUFFICES ASSUME y + 1 <= x PROVE FALSE OBVIOUS
<1>1. (y + 1) * z <= x * z BY TimesMonotone
<1>2. (y + 1) * z = y * z + z OBVIOUS
<1> DEFINE a == x * z
           b == y * z
<1>3. a \in Int /\ b \in Int OBVIOUS
<1>4. b + z <= a /\ a <= b BY <1>1, <1>2
<1> HIDE DEF a, b
<1> QED BY <1>3, <1>4

\* So does squaring.
LEMMA SquareMonotone ==
  ASSUME NEW x \in Nat, NEW y \in Nat, x <= y
  PROVE  x * x <= y * y
<1>1. x * x <= y * x /\ x * y <= y * y BY TimesMonotone
<1>2. x * y = y * x OBVIOUS
<1> DEFINE a == x * x
           b == x * y
           c == y * y
<1>3. a \in Int /\ b \in Int /\ c \in Int OBVIOUS
<1>4. a <= b /\ b <= c BY <1>1, <1>2
<1> HIDE DEF a, b, c
<1>5. a <= c BY <1>3, <1>4
<1> QED BY <1>5 DEF a, c

LEMMA SquareCancel ==
  ASSUME NEW x \in Nat, NEW y \in Nat, x * x < y * y
  PROVE  x < y
<1> SUFFICES ASSUME y <= x PROVE FALSE OBVIOUS
<1>1. y * y <= x * x BY SquareMonotone
<1> DEFINE a == x * x
           c == y * y
<1>2. a \in Int /\ c \in Int /\ a < c /\ c <= a BY <1>1
<1> HIDE DEF a, c
<1> QED BY <1>2

\* The square root rounded down.
IsRoot(r, a) == r * r <= a /\ a < (r + 1) * (r + 1)

\* Every number has one.
LEMMA RootExists ==
  ASSUME NEW a \in Nat
  PROVE  \E r \in Nat : IsRoot(r, a)
<1> DEFINE S == {r \in 0 .. a : r * r <= a}
<1>1. 0 \in S BY 0 * 0 = 0
<1>2. PICK r \in S : \A j \in S : j <= r
  <2>1. S \in SUBSET (0 .. a) OBVIOUS
  <2> HIDE DEF S
  <2> QED BY <1>1, <2>1, GreatestPosition
<1>3. r \in Nat /\ r \in 0 .. a /\ r * r <= a BY <1>2
<1>4. a < (r + 1) * (r + 1)
  <2> SUFFICES ASSUME (r + 1) * (r + 1) <= a PROVE FALSE BY <1>3
  <2>1. r + 1 <= (r + 1) * (r + 1) BY <1>3
  <2> DEFINE q == (r + 1) * (r + 1)
  <2>2. q \in Int /\ q <= a /\ r + 1 <= q BY <1>3, <2>1
  <2> HIDE DEF q
  <2>3. r + 1 \in 0 .. a BY <1>3, <2>2
  <2> HIDE DEF S
  <2>4. r + 1 \in S BY <2>2, <2>3 DEF S, q
  <2> QED BY <1>2, <1>3, <2>4
<1> QED BY <1>3, <1>4 DEF IsRoot
=============================================================================
