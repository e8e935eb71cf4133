---------------------------- MODULE FeePoolProofs ----------------------------
(***************************************************************************)
(* Proofs about FeePool, for every number of holders and validators, every *)
(* fee, every amount and every length of epochs and windows.               *)
(*                                                                         *)
(* First what sums and the ledger's divisions satisfy, then one lemma per  *)
(* operation.  Sums are counted by their units, so that facts about them   *)
(* are facts about cardinalities of finite sets.                           *)
(***************************************************************************)
EXTENDS FeePool, FunctionTheorems, FiniteSetTheorems, TLAPS

(***************************************************************************)
(* Products and quotients.                                                 *)
(***************************************************************************)
LEMMA Products ==
  ASSUME NEW a \in Nat, NEW b \in Nat, NEW c \in Nat
  PROVE  /\ a * b \in Nat /\ a * b = b * a /\ (a * b) * c = a * (b * c)
         /\ a * (b + c) = a * b + a * c
         /\ a <= b => a * c <= b * c
         /\ c # 0 /\ a * c <= b * c => a <= b
  OBVIOUS

\* The quotient is the largest number that fits.
LEMMA Quotients ==
  ASSUME NEW n \in Nat, NEW d \in Nat \ {0}
  PROVE  /\ n \div d \in Nat
         /\ (n \div d) * d <= n /\ n < ((n \div d) + 1) * d
         /\ \A q \in Nat : q * d <= n => q <= n \div d
  OBVIOUS

\* Numbering the cells of n rows of k cells: each number is the number of a cell,
LEMMA CellOfNumber ==
  ASSUME NEW k \in Nat, NEW n \in Nat, NEW m \in 1 .. (k * n)
  PROVE  \E i \in 1 .. n, j \in 1 .. k : m = (i - 1) * k + j
<1>1. k # 0 /\ m - 1 \in Nat
  OBVIOUS
<1> DEFINE q == (m - 1) \div k
<1>2. q \in Nat /\ q * k <= m - 1 /\ m - 1 < (q + 1) * k
  BY <1>1, Quotients
<1> HIDE DEF q
<1>3. q * k < n * k
  BY <1>1, <1>2
<1>4. q < n
  BY <1>1, <1>2, <1>3
<1>5. (q + 1) * k = q * k + k
  BY <1>2
<1>6. m - q * k \in 1 .. k
  BY <1>1, <1>2, <1>5
<1>7. q + 1 \in 1 .. n /\ m = ((q + 1) - 1) * k + (m - q * k)
  BY <1>2, <1>4
<1> QED BY <1>6, <1>7

\* each cell has a number,
LEMMA NumberOfCell ==
  ASSUME NEW k \in Nat, NEW n \in Nat, NEW i \in 1 .. n, NEW j \in 1 .. k
  PROVE  (i - 1) * k + j \in 1 .. (k * n)
<1>1. (i - 1) * k <= (n - 1) * k /\ (n - 1) * k + k = k * n /\ (i - 1) * k \in Nat
  OBVIOUS
<1> QED BY <1>1

\* and no two have the same.
LEMMA CellsAreNumberedOnce ==
  ASSUME NEW k \in Nat, NEW n \in Nat,
         NEW i1 \in 1 .. n, NEW i2 \in 1 .. n, NEW j1 \in 1 .. k, NEW j2 \in 1 .. k,
         (i1 - 1) * k + j1 = (i2 - 1) * k + j2
  PROVE  i1 = i2 /\ j1 = j2
<1>1. ASSUME NEW a \in 1 .. n, NEW b \in 1 .. n, a < b PROVE (a - 1) * k + k <= (b - 1) * k
  <2>1. a * k <= (b - 1) * k
    BY <1>1
  <2>2. a * k = (a - 1) * k + k
    OBVIOUS
  <2> QED BY <2>1, <2>2
<1>2. i1 = i2
  BY <1>1
<1> QED BY <1>2

(***************************************************************************)
(* Sums.                                                                   *)
(***************************************************************************)
LEMMA UnitsOf ==
  ASSUME NEW S, NEW f \in [S -> Nat], NEW u
  PROVE  u \in Units(f) <=> \E x \in S : \E n \in 1 .. f[x] : u = <<x, n>>
  BY DEF Units

LEMMA SumType ==
  ASSUME NEW S, IsFiniteSet(S), NEW f \in [S -> Nat]
  PROVE  IsFiniteSet(Units(f)) /\ Sum(f) \in Nat
<1> DEFINE T == {{x} \X (1 .. f[x]) : x \in S}
           g == [x \in S |-> {x} \X (1 .. f[x])]
<1>1. g \in Surjection(S, T)
  BY DEF Surjection
<1>2. IsFiniteSet(T)
  BY <1>1, FS_Surjection
<1>3. ASSUME NEW U \in T PROVE IsFiniteSet(U)
  <2>1. PICK x \in S : U = {x} \X (1 .. f[x])
    OBVIOUS
  <2>2. IsFiniteSet(1 .. f[x])
    BY FS_Interval
  <2> QED BY <2>1, <2>2, FS_Singleton, FS_Product
<1>4. IsFiniteSet(UNION T)
  BY <1>2, <1>3, FS_UNION
<1> QED BY <1>4, FS_CardinalityType DEF Units, Sum

\* A larger function has the larger sum.
LEMMA SumMonotone ==
  ASSUME NEW S, IsFiniteSet(S), NEW f \in [S -> Nat], NEW g \in [S -> Nat],
         \A x \in S : f[x] <= g[x]
  PROVE  Sum(f) <= Sum(g)
<1>1. Units(f) \subseteq Units(g)
  BY UnitsOf
<1> QED BY <1>1, SumType, FS_Subset DEF Sum

\* The values are the same on T, and nothing elsewhere.
LEMMA SumConstant ==
  ASSUME NEW S, IsFiniteSet(S), NEW T \in SUBSET S, NEW k \in Nat,
         NEW f \in [S -> Nat], \A x \in S : f[x] = IF x \in T THEN k ELSE 0
  PROVE  Sum(f) = k * Cardinality(T)
<1>1. Units(f) = T \X (1 .. k)
  <2>2. \A u : u \in T \X (1 .. k) <=> \E x \in T, n \in 1 .. k : u = <<x, n>>
    OBVIOUS
  <2>3. \A u : (\E x \in S : \E n \in 1 .. f[x] : u = <<x, n>>) <=> (\E x \in T, n \in 1 .. k : u = <<x, n>>)
    OBVIOUS
  <2> QED BY <2>2, <2>3, UnitsOf
<1>2. IsFiniteSet(T) /\ Cardinality(T) \in Nat
  BY FS_Subset, FS_CardinalityType
<1>3. IsFiniteSet(1 .. k) /\ Cardinality(1 .. k) = k
  BY FS_Interval
<1>4. Cardinality(T \X (1 .. k)) = Cardinality(T) * k
  BY <1>2, <1>3, FS_Product
<1> QED BY <1>1, <1>2, <1>4 DEF Sum

\* Sums add up.
LEMMA SumOfSums ==
  ASSUME NEW S, IsFiniteSet(S), NEW f \in [S -> Nat], NEW g \in [S -> Nat],
         NEW s \in [S -> Nat], \A x \in S : s[x] = f[x] + g[x]
  PROVE  Sum(s) = Sum(f) + Sum(g)
<1> DEFINE V == {u \in Units(s) : u[2] > f[u[1]]}
           F == [u \in Units(g) |-> <<u[1], f[u[1]] + u[2]>>]
<1>0. s \in [S -> Nat] /\ \A x \in S : s[x] = f[x] + g[x]
  OBVIOUS
<1>1. Units(s) = Units(f) \cup V
  <2>1. Units(f) \subseteq Units(s)
    BY <1>0, UnitsOf
  <2>2. ASSUME NEW u \in Units(s), u \notin V PROVE u \in Units(f)
    <3>1. PICK x \in S, n \in Nat : n \in 1 .. s[x] /\ u = <<x, n>>
      BY <1>0, UnitsOf
    <3>2. n \in 1 .. f[x]
      BY <2>2, <3>1
    <3> QED BY <3>1, <3>2, UnitsOf
  <2> QED BY <2>1, <2>2
<1>2. Units(f) \cap V = {}
  BY UnitsOf
<1>3. \A u : u \in V <=> \E x \in S : \E n \in (f[x] + 1) .. s[x] : u = <<x, n>>
  BY <1>0, UnitsOf
<1>4. F \in Bijection(Units(g), V)
  <2>0. \A x \in S : \A n \in 1 .. g[x] : <<x, n>> \in Units(g) /\ F[<<x, n>>] = <<x, f[x] + n>>
    BY UnitsOf
  <2> HIDE DEF V
  <2>1. F \in [Units(g) -> V]
    <3> SUFFICES ASSUME NEW u \in Units(g) PROVE F[u] \in V
      OBVIOUS
    <3>1. PICK x \in S, n \in Nat : n \in 1 .. g[x] /\ u = <<x, n>>
      BY UnitsOf
    <3>2. F[u] = <<x, f[x] + n>> /\ f[x] + n \in (f[x] + 1) .. s[x]
      BY <1>0, <2>0, <3>1
    <3> QED BY <1>3, <3>2
  <2>2. ASSUME NEW u \in Units(g), NEW w \in Units(g), F[u] = F[w] PROVE u = w
    <3>1. PICK x \in S, n \in Nat : n \in 1 .. g[x] /\ u = <<x, n>>
      BY UnitsOf
    <3>2. PICK y \in S, m \in Nat : m \in 1 .. g[y] /\ w = <<y, m>>
      BY UnitsOf
    <3>3. <<x, f[x] + n>> = <<y, f[y] + m>>
      BY <2>0, <2>2, <3>1, <3>2
    <3>4. x = y /\ n = m
      BY <3>3
    <3> QED BY <3>1, <3>2, <3>4
  <2>3. ASSUME NEW w \in V PROVE \E u \in Units(g) : F[u] = w
    <3>1. PICK x \in S, n \in Nat : n \in (f[x] + 1) .. s[x] /\ w = <<x, n>>
      BY <1>3
    <3>2. n - f[x] \in 1 .. g[x] /\ f[x] + (n - f[x]) = n
      BY <1>0, <3>1
    <3> QED BY <2>0, <3>1, <3>2
  <2> HIDE DEF F
  <2> QED BY <2>1, <2>2, <2>3, Fun_IsBij
<1>5. /\ IsFiniteSet(Units(f)) /\ IsFiniteSet(Units(g)) /\ IsFiniteSet(V)
      /\ Cardinality(V) = Cardinality(Units(g))
  <2>1. ExistsBijection(Units(g), V)
    BY <1>4 DEF ExistsBijection
  <2> QED BY <2>1, SumType, FS_Bijection
<1>6. Cardinality(Units(f) \cap V) = 0
  BY <1>2, FS_EmptySet
<1> HIDE DEF V
<1>7. /\ Cardinality(Units(f)) \in Nat /\ Cardinality(V) \in Nat
      /\ Cardinality(Units(f) \cup V)
           = Cardinality(Units(f)) + Cardinality(V) - Cardinality(Units(f) \cap V)
  BY <1>5, FS_Union, FS_CardinalityType
<1>8. Cardinality(Units(s)) = Cardinality(Units(f) \cup V)
  BY <1>1
<1> QED BY <1>5, <1>6, <1>7, <1>8 DEF Sum

\* One value changes.
LEMMA SumUpdated ==
  ASSUME NEW S, IsFiniteSet(S), NEW f \in [S -> Nat], NEW x \in S,
         NEW g \in [S -> Nat], \A y \in S \ {x} : g[y] = f[y]
  PROVE  Sum(g) = Sum(f) - f[x] + g[x]
<1> DEFINE rest == [y \in S |-> IF y = x THEN 0 ELSE f[y]]
<1>1. rest \in [S -> Nat] /\ rest[x] = 0 /\ \A y \in S \ {x} : rest[y] = f[y]
  OBVIOUS
<1> HIDE DEF rest
<1>2. ASSUME NEW h \in [S -> Nat], \A y \in S \ {x} : h[y] = f[y] PROVE Sum(h) = Sum(rest) + h[x]
  <2> DEFINE at == [y \in S |-> IF y = x THEN h[x] ELSE 0]
  <2>1. at \in [S -> Nat] /\ h[x] \in Nat /\ \A y \in S : at[y] = IF y \in {x} THEN h[x] ELSE 0
    OBVIOUS
  <2> HIDE DEF at
  <2>2. Sum(at) = h[x] * Cardinality({x})
    BY <2>1, SumConstant
  <2>s. Cardinality({x}) = 1
    BY FS_Singleton
  <2>3. Sum(at) = h[x]
    BY <2>1, <2>2, <2>s
  <2>4. \A y \in S : h[y] = rest[y] + at[y]
    BY <1>1, <1>2, <2>1
  <2> QED BY <1>1, <2>1, <2>3, <2>4, SumOfSums
<1>3. Sum(f) = Sum(rest) + f[x] /\ Sum(g) = Sum(rest) + g[x]
  BY <1>2
<1>4. Sum(rest) \in Nat /\ f[x] \in Nat /\ g[x] \in Nat
  BY <1>1, SumType
<1> QED BY <1>3, <1>4

\* A smaller value makes the sum smaller.
LEMMA SumStrict ==
  ASSUME NEW S, IsFiniteSet(S), NEW f \in [S -> Nat], NEW g \in [S -> Nat],
         \A y \in S : f[y] <= g[y], NEW x \in S, f[x] < g[x]
  PROVE  Sum(f) < Sum(g)
<1> DEFINE h == [g EXCEPT ![x] = f[x]]
<1>1. h \in [S -> Nat] /\ h[x] = f[x] /\ \A y \in S \ {x} : h[y] = g[y]
  OBVIOUS
<1> HIDE DEF h
<1>2. Sum(f) <= Sum(h)
  <2>1. \A y \in S : f[y] <= h[y]
    BY <1>1
  <2> QED BY <1>1, <2>1, SumMonotone
<1>3. Sum(h) = Sum(g) - g[x] + h[x]
  BY <1>1, SumUpdated
<1>4. Sum(f) \in Nat /\ Sum(g) \in Nat /\ Sum(h) \in Nat /\ f[x] \in Nat /\ g[x] \in Nat
  BY <1>1, SumType
<1> QED BY <1>1, <1>2, <1>3, <1>4

\* Two values are part of the sum.
LEMMA SumOfTwo ==
  ASSUME NEW S, IsFiniteSet(S), NEW f \in [S -> Nat], NEW x \in S
  PROVE  /\ f[x] <= Sum(f)
         /\ \A y \in S \ {x} : f[x] + f[y] <= Sum(f)
<1>1. ASSUME NEW g \in [S -> Nat], NEW y \in S PROVE \E h \in [S -> Nat] :
        h[y] = 0 /\ (\A z \in S \ {y} : h[z] = g[z]) /\ Sum(g) = Sum(h) + g[y] /\ Sum(h) \in Nat
  <2> DEFINE h == [z \in S |-> IF z = y THEN 0 ELSE g[z]]
  <2>1. h \in [S -> Nat] /\ h[y] = 0 /\ \A z \in S \ {y} : h[z] = g[z]
    OBVIOUS
  <2> HIDE DEF h
  <2>2. Sum(h) = Sum(g) - g[y] + h[y]
    BY <2>1, SumUpdated
  <2>3. Sum(h) \in Nat /\ Sum(g) \in Nat /\ g[y] \in Nat
    BY <2>1, SumType
  <2> QED BY <2>1, <2>2, <2>3
<1>2. PICK h \in [S -> Nat] : /\ \A z \in S \ {x} : h[z] = f[z]
                              /\ Sum(f) = Sum(h) + f[x] /\ Sum(h) \in Nat
  BY <1>1
<1>3. ASSUME NEW y \in S \ {x} PROVE f[x] + f[y] <= Sum(f)
  <2>1. PICK k \in [S -> Nat] : Sum(h) = Sum(k) + h[y] /\ Sum(k) \in Nat
    BY <1>1
  <2>2. h[y] = f[y] /\ f[x] \in Nat /\ f[y] \in Nat
    BY <1>2
  <2> QED BY <1>2, <2>1, <2>2
<1>4. f[x] \in Nat
  OBVIOUS
<1> QED BY <1>2, <1>3, <1>4

\* Every value is multiplied.
LEMMA SumScaled ==
  ASSUME NEW S, IsFiniteSet(S), NEW f \in [S -> Nat], NEW k \in Nat,
         NEW s \in [S -> Nat], \A x \in S : s[x] = k * f[x]
  PROVE  Sum(s) = k * Sum(f)
<1> DEFINE F == [u \in Units(f) \X (1 .. k) |-> <<u[1][1], (u[1][2] - 1) * k + u[2]>>]
<1>0. s \in [S -> Nat] /\ \A x \in S : s[x] = k * f[x] /\ f[x] \in Nat
  OBVIOUS
<1>1. \A x \in S : \A n \in 1 .. f[x], j \in 1 .. k :
        <<<<x, n>>, j>> \in Units(f) \X (1 .. k) /\ F[<<<<x, n>>, j>>] = <<x, (n - 1) * k + j>>
  BY UnitsOf
<1>2. ASSUME NEW u \in Units(f) \X (1 .. k)
      PROVE  \E x \in S : \E n \in 1 .. f[x], j \in 1 .. k : u = <<<<x, n>>, j>>
  <2>1. u[1] \in Units(f) /\ u[2] \in 1 .. k /\ u = <<u[1], u[2]>>
    OBVIOUS
  <2>2. PICK x \in S, n \in Nat : n \in 1 .. f[x] /\ u[1] = <<x, n>>
    BY <2>1, UnitsOf
  <2> QED BY <2>1, <2>2
<1>3. F \in [Units(f) \X (1 .. k) -> Units(s)]
  <2> SUFFICES ASSUME NEW u \in Units(f) \X (1 .. k) PROVE F[u] \in Units(s)
    OBVIOUS
  <2>1. PICK x \in S, n \in Nat, j \in 1 .. k : n \in 1 .. f[x] /\ u = <<<<x, n>>, j>>
    BY <1>2
  <2>2. (n - 1) * k + j \in 1 .. s[x]
    BY <1>0, <2>1, NumberOfCell
  <2>3. F[u] = <<x, (n - 1) * k + j>>
    BY <1>1, <2>1
  <2> QED BY <1>0, <2>2, <2>3, UnitsOf
<1>4. ASSUME NEW u \in Units(f) \X (1 .. k), NEW w \in Units(f) \X (1 .. k), F[u] = F[w]
      PROVE  u = w
  <2>1. PICK x \in S, n \in Nat, j \in 1 .. k : n \in 1 .. f[x] /\ u = <<<<x, n>>, j>>
    BY <1>2
  <2>2. PICK y \in S, m \in Nat, i \in 1 .. k : m \in 1 .. f[y] /\ w = <<<<y, m>>, i>>
    BY <1>2
  <2>3. <<x, (n - 1) * k + j>> = <<y, (m - 1) * k + i>>
    BY <1>1, <1>4, <2>1, <2>2
  <2>4. x = y /\ (n - 1) * k + j = (m - 1) * k + i
    BY <2>3
  <2>5. n = m /\ j = i
    BY <1>0, <2>1, <2>2, <2>4, CellsAreNumberedOnce
  <2> QED BY <2>1, <2>2, <2>4, <2>5
<1>5. ASSUME NEW w \in Units(s) PROVE \E u \in Units(f) \X (1 .. k) : F[u] = w
  <2>1. PICK x \in S, m \in Nat : m \in 1 .. s[x] /\ w = <<x, m>>
    BY <1>0, UnitsOf
  <2>2. m \in 1 .. (k * f[x]) /\ f[x] \in Nat
    BY <1>0, <2>1
  <2>3. \E n \in 1 .. f[x], j \in 1 .. k : m = (n - 1) * k + j
    BY <2>2, CellOfNumber
  <2>4. PICK n \in 1 .. f[x], j \in 1 .. k : m = (n - 1) * k + j
    BY <2>3, Zenon
  <2>5. F[<<<<x, n>>, j>>] = w /\ <<<<x, n>>, j>> \in Units(f) \X (1 .. k)
    BY <1>1, <2>1, <2>4
  <2> QED BY <2>5
<1> HIDE DEF F
<1>6. F \in Bijection(Units(f) \X (1 .. k), Units(s))
  BY <1>3, <1>4, <1>5, Fun_IsBij
<1>7. /\ IsFiniteSet(Units(f)) /\ Cardinality(Units(f)) \in Nat
      /\ IsFiniteSet(1 .. k) /\ Cardinality(1 .. k) = k
  <2>1. IsFiniteSet(1 .. k) /\ Cardinality(1 .. k) = k
    BY FS_Interval
  <2> QED BY <2>1, SumType, FS_CardinalityType
<1>8. /\ IsFiniteSet(Units(f) \X (1 .. k))
      /\ Cardinality(Units(f) \X (1 .. k)) = Cardinality(Units(f)) * Cardinality(1 .. k)
  BY <1>7, FS_Product
<1>9. Cardinality(Units(s)) = Cardinality(Units(f) \X (1 .. k))
  BY <1>6, <1>8, FS_Bijection DEF ExistsBijection
<1> QED BY <1>7, <1>8, <1>9 DEF Sum

\* Pro rata parts of b, rounded down, are together at most b.
LEMMA SumOfParts ==
  ASSUME NEW S, IsFiniteSet(S), NEW s \in [S -> Nat], NEW b \in Nat, NEW t \in Nat \ {0},
         Sum(s) = t, NEW q, q = [x \in S |-> (s[x] * b) \div t]
  PROVE  q \in [S -> Nat] /\ Sum(q) \in Nat /\ Sum(q) <= b
<1> DEFINE tq == [x \in S |-> t * q[x]]
           bs == [x \in S |-> b * s[x]]
<1>1. ASSUME NEW x \in S PROVE q[x] \in Nat /\ t * q[x] <= b * s[x]
  <2>1. s[x] \in Nat /\ s[x] * b \in Nat /\ q[x] = (s[x] * b) \div t
    OBVIOUS
  <2>2. q[x] \in Nat /\ q[x] * t <= s[x] * b
    BY <2>1, Quotients
  <2> QED BY <2>1, <2>2
<1>2. q \in [S -> Nat] /\ Sum(q) \in Nat
  BY <1>1, SumType
<1>3. /\ tq \in [S -> Nat] /\ bs \in [S -> Nat]
      /\ \A x \in S : tq[x] = t * q[x] /\ bs[x] = b * s[x] /\ tq[x] <= bs[x]
  BY <1>1
<1> HIDE DEF tq, bs
<1>4. Sum(tq) <= Sum(bs)
  BY <1>3, SumMonotone
<1>5. Sum(tq) = t * Sum(q) /\ Sum(bs) = b * t
  <2>1. Sum(tq) = t * Sum(q)
    BY <1>2, <1>3, SumScaled
  <2>2. Sum(bs) = b * Sum(s)
    BY <1>3, SumScaled
  <2> QED BY <2>1, <2>2
<1>6. Sum(q) * t <= b * t
  BY <1>2, <1>4, <1>5
<1> QED BY <1>2, <1>6

(***************************************************************************)
(* The ledger.                                                             *)
(***************************************************************************)
IInv == FPInv /\ TokensAreConserved /\ EscrowIsFunded

LEMMA HoldersAreFinite ==
  IsFiniteSet(Holders) /\ Cardinality(Holders) \in Nat /\ Community \in Holders
  BY FeePoolAssumption, FS_AddElement, FS_CardinalityType DEF Holders

LEMMA ValidatorsAreFinite ==
  IsFiniteSet(Validators) /\ Cardinality(Validators) \in Nat \ {0}
  BY FeePoolAssumption, FS_EmptySet, FS_CardinalityType

\* What a draw burns and pays: at most the shares and the limit, and as many tokens
\* as the burnt shares are worth, rounded down.
LEMMA DrawIsBounded ==
  ASSUME NEW s \in Nat, NEW t \in Nat, NEW b \in Nat, NEW limit \in Nat,
         NEW d, d = feePoolDraw(s, t, b, limit), d.burn > 0
  PROVE  /\ t # 0 /\ b # 0
         /\ d.burn \in Nat /\ d.burn <= s
         /\ d.tokens \in Nat /\ d.tokens <= limit
         /\ d.tokens * t <= d.burn * b /\ d.burn * b < (d.tokens + 1) * t
<1> DEFINE claim == (s * b) \div t
           burn == (limit * t) \div b
           worth == (burn * b) \div t
<1>1. s # 0 /\ t # 0 /\ b # 0 /\ limit # 0
  BY DEF feePoolDraw
<1>2. s * b \in Nat /\ limit * t \in Nat
  OBVIOUS
<1>3. claim \in Nat /\ claim * t <= s * b /\ s * b < (claim + 1) * t
  BY <1>1, <1>2, Quotients
<1>4. burn \in Nat /\ burn * b <= limit * t
  BY <1>1, <1>2, Quotients
<1>5. burn * b \in Nat
  BY <1>4
<1>6. worth \in Nat /\ worth * t <= burn * b /\ burn * b < (worth + 1) * t
  BY <1>1, <1>5, Quotients
<1>7. d = IF claim <= limit THEN [burn |-> s, tokens |-> claim] ELSE [burn |-> burn, tokens |-> worth]
  BY <1>1 DEF feePoolDraw
<1> HIDE DEF claim, burn, worth
<1>8. CASE claim <= limit
  BY <1>1, <1>3, <1>7, <1>8
<1>9. CASE claim > limit
  <2>1. (limit + 1) * t <= claim * t /\ (limit + 1) * t = limit * t + t
    BY <1>3, <1>9
  <2>2. burn * b < s * b
    BY <1>1, <1>2, <1>3, <1>4, <1>5, <2>1
  <2>3. burn <= s
    BY <1>1, <1>4, <2>2
  <2>4. worth * t <= limit * t
    BY <1>2, <1>4, <1>5, <1>6
  <2>5. worth <= limit
    BY <1>1, <1>6, <2>4
  <2> QED BY <1>1, <1>3, <1>4, <1>6, <1>7, <1>9, <2>3, <2>5
<1> QED BY <1>3, <1>8, <1>9

\* The balance that b shares out of t stand for does not shrink when the price of a
\* share does not.
LEMMA ClaimsGrowWithThePrice ==
  ASSUME NEW s \in Nat, NEW b \in Nat, NEW t \in Nat \ {0}, NEW b2 \in Nat, NEW t2 \in Nat \ {0},
         b * t2 <= b2 * t
  PROVE  (s * b) \div t <= (s * b2) \div t2
<1> DEFINE q == (s * b) \div t
<1>1. s * b \in Nat /\ s * b2 \in Nat
  OBVIOUS
<1>2. q \in Nat /\ q * t <= s * b
  BY <1>1, Quotients
<1> HIDE DEF q
<1> DEFINE A == (q * t2) * t
           B == (s * b) * t2
           C == (s * b2) * t
<1>3. q * t \in Nat /\ q * t2 \in Nat /\ b * t2 \in Nat /\ b2 * t \in Nat
  BY <1>2
<1>4. A <= B
  <2>1. (q * t) * t2 <= B
    BY <1>1, <1>2, <1>3, Products
  <2>2. (q * t) * t2 = A
    BY <1>2, Products
  <2> QED BY <2>1, <2>2
<1>5. B <= C
  <2>1. B = s * (b * t2) /\ C = s * (b2 * t)
    BY Products
  <2>2. s * (b * t2) <= s * (b2 * t)
    BY <1>3, Products
  <2> QED BY <2>1, <2>2
<1>6. A \in Nat /\ B \in Nat /\ C \in Nat
  BY <1>1, <1>3
<1>7. A <= C
  <2> HIDE DEF A, B, C
  <2> QED BY <1>4, <1>5, <1>6
<1>8. q * t2 <= s * b2
  BY <1>1, <1>3, <1>7, Products
<1> QED BY <1>1, <1>2, <1>8, Quotients DEF q

\* If every token has its share, it still has after a draw.
LEMMA DrawLeavesSharesForTokens ==
  ASSUME NEW b \in Nat, NEW t \in Nat, NEW burn \in Nat, NEW tokens \in Nat,
         b <= t, burn <= t, burn * b < (tokens + 1) * t
  PROVE  b - tokens <= t - burn
<1> SUFFICES ASSUME b >= t - burn + tokens + 1 PROVE FALSE
  OBVIOUS
<1>1. (t - burn + tokens + 1) * t <= b * t
  OBVIOUS
<1>2. (t - burn + tokens + 1) * t = (t - burn) * t + (tokens + 1) * t
  OBVIOUS
<1>3. (t - burn) * b <= (t - burn) * t
  OBVIOUS
<1>4. b * t = burn * b + (t - burn) * b
  OBVIOUS
<1> QED BY <1>1, <1>2, <1>3, <1>4

\* An empty ledger, and one where everything is the community's.
LEMMA AbsorbedLedger ==
  ASSUME NEW b \in Nat
  PROVE  /\ NoShares \in [Holders -> Nat] /\ Sum(NoShares) = 0
         /\ absorbUnaccountedBalance(b).shares \in [Holders -> Nat]
         /\ absorbUnaccountedBalance(b).total = b
         /\ Sum(absorbUnaccountedBalance(b).shares) = b
<1> DEFINE s == [NoShares EXCEPT ![Community] = b]
<1>1. NoShares \in [Holders -> Nat] /\ \A h \in Holders : NoShares[h] = IF h \in {} THEN 0 ELSE 0
  BY DEF NoShares
<1>2. Sum(NoShares) = 0 * Cardinality({})
  BY <1>1, HoldersAreFinite, SumConstant
<1>3. Sum(NoShares) = 0
  BY <1>2, FS_EmptySet
<1>4. s \in [Holders -> Nat] /\ s[Community] = b /\ \A h \in Holders \ {Community} : s[h] = NoShares[h]
  BY HoldersAreFinite DEF NoShares
<1>5. absorbUnaccountedBalance(b).shares = s /\ absorbUnaccountedBalance(b).total = b
  BY DEF absorbUnaccountedBalance
<1> HIDE DEF s
<1>6. Sum(s) = Sum(NoShares) - NoShares[Community] + s[Community]
  BY <1>1, <1>4, HoldersAreFinite, SumUpdated
<1>7. NoShares[Community] = 0
  BY <1>1, HoldersAreFinite
<1> QED BY <1>1, <1>3, <1>4, <1>5, <1>6, <1>7

LEMMA ReconciledLedger ==
  ASSUME FPTypeOK, SharesSumToTotal, SharesCoverBalance
  PROVE  /\ Reconciled.shares \in [Holders -> Nat] /\ Reconciled.total \in Nat
         /\ Sum(Reconciled.shares) = Reconciled.total
         /\ Reconciled.total = 0 <=> pool = 0
         /\ givers = {} => pool <= Reconciled.total
<1> USE DEF FPTypeOK
<1>1. CASE pool > 0 /\ total > 0
  BY <1>1 DEF Reconciled, SharesSumToTotal, SharesCoverBalance
<1>2. CASE ~(pool > 0 /\ total > 0)
  <2>1. Reconciled = absorbUnaccountedBalance(pool)
    BY <1>2 DEF Reconciled
  <2> QED BY <2>1, AbsorbedLedger
<1> QED BY <1>1, <1>2

(***************************************************************************)
(* One lemma per operation.                                                *)
(***************************************************************************)
\* What is in escrow is a number, and none without records.
LEMMA EscrowType ==
  ASSUME FPTypeOK
  PROVE  /\ Owed \in [Validators -> Nat] /\ outstandingWithheldFees \in Nat
         /\ withheld = NoRecords => outstandingWithheldFees = 0
<1>1. Owed \in [Validators -> Nat]
  BY DEF FPTypeOK, Owed
<1>2. outstandingWithheldFees \in Nat
  BY <1>1, ValidatorsAreFinite, SumType DEF outstandingWithheldFees
<1>3. ASSUME withheld = NoRecords PROVE outstandingWithheldFees = 0
  <2>1. {} \in SUBSET Validators /\ \A v \in Validators : Owed[v] = IF v \in {} THEN 0 ELSE 0
    BY <1>3 DEF Owed, NoRecords, NoRecord
  <2>2. Sum(Owed) = 0 * Cardinality({})
    BY <1>1, <2>1, ValidatorsAreFinite, SumConstant
  <2> QED BY <2>2, FS_EmptySet DEF outstandingWithheldFees
<1> QED BY <1>1, <1>2, <1>3

LEMMA SumsAreNumbers ==
  ASSUME FPTypeOK
  PROVE  Sum(shares) \in Nat /\ Sum(wallet) \in Nat /\ Sum(earned) \in Nat
  BY HoldersAreFinite, ValidatorsAreFinite, SumType DEF FPTypeOK

\* A deposit buys at least one share a token while every token has its share.
LEMMA DepositMints ==
  ASSUME IInv, NEW n \in Nat \ {0}
  PROVE  /\ MintShares(n) \in Nat
         /\ pool # 0 => MintShares(n) * pool <= n * Reconciled.total
         /\ givers = {} => n <= MintShares(n)
<1> USE DEF IInv, FPInv
<1>1. /\ Reconciled.total \in Nat /\ pool \in Nat /\ (Reconciled.total = 0 <=> pool = 0)
      /\ givers = {} => pool <= Reconciled.total
  BY ReconciledLedger DEF FPTypeOK
<1>2. CASE pool = 0
  BY <1>1, <1>2 DEF MintShares
<1>3. CASE pool # 0
  <2> DEFINE T == Reconciled.total
             m == (n * T) \div pool
  <2>1. n * T \in Nat /\ MintShares(n) = m
    BY <1>1, <1>3 DEF MintShares
  <2>2. m \in Nat /\ m * pool <= n * T /\ \A q \in Nat : q * pool <= n * T => q <= m
    BY <1>1, <1>3, <2>1, Quotients
  <2>3. ASSUME givers = {} PROVE n * pool <= n * T
    BY <1>1, <2>3
  <2> HIDE DEF T, m
  <2> QED BY <2>1, <2>2, <2>3 DEF T
<1> QED BY <1>2, <1>3

LEMMA FundKeepsIInv ==
  ASSUME IInv, NEW h \in Holders, NEW n \in Nat \ {0}, FundConsumerFeePool(h, n)
  PROVE  IInv'
<1> USE DEF IInv, FPInv
<1> DEFINE m == MintShares(n)
           R == Reconciled
<1>1. /\ R.shares \in [Holders -> Nat] /\ R.total \in Nat /\ Sum(R.shares) = R.total
      /\ givers = {} => pool <= R.total
  BY ReconciledLedger
<1>2. m \in Nat /\ (givers = {} => n <= m)
  BY DepositMints
<1>3. /\ shares' = [R.shares EXCEPT ![h] = @ + m] /\ total' = R.total + m /\ pool' = pool + n
      /\ wallet' = [wallet EXCEPT ![h] = @ - n] /\ wallet[h] >= n
      /\ UNCHANGED <<now, phase, withheld, debt, default, override, records, earned, givers,
                     history, infraction, reach>>
  BY DEF FundConsumerFeePool
<1> HIDE DEF m, R
<1>t. pool \in Nat /\ wallet \in [Holders -> Nat]
  BY DEF FPTypeOK
<1>4. /\ shares' \in [Holders -> Nat] /\ shares'[h] = R.shares[h] + m
      /\ \A g \in Holders \ {h} : shares'[g] = R.shares[g]
  BY <1>1, <1>2, <1>3
<1>5. /\ wallet' \in [Holders -> Nat] /\ wallet'[h] = wallet[h] - n
      /\ \A g \in Holders \ {h} : wallet'[g] = wallet[g]
  BY <1>3, <1>t
<1>6. FPTypeOK'
  BY <1>1, <1>2, <1>3, <1>4, <1>5 DEF FPTypeOK
<1>7. SharesSumToTotal'
  <2>1. Sum(shares') = Sum(R.shares) - R.shares[h] + shares'[h]
    BY <1>1, <1>4, HoldersAreFinite, SumUpdated
  <2>2. R.shares[h] \in Nat
    BY <1>1
  <2> QED BY <1>1, <1>2, <1>3, <1>4, <2>1, <2>2 DEF SharesSumToTotal
<1>8. SharesCoverBalance'
  BY <1>1, <1>2, <1>3, <1>t DEF SharesCoverBalance
<1>9. TokensAreConserved'
  <2>1. Sum(wallet') = Sum(wallet) - wallet[h] + wallet'[h]
    BY <1>5, <1>t, HoldersAreFinite, SumUpdated
  <2>2. wallet[h] \in Nat /\ Sum(wallet) \in Nat /\ Sum(earned) \in Nat
    BY <1>t, SumsAreNumbers
  <2>3. pool' + Sum(wallet') + Sum(earned') = pool + Sum(wallet) + Sum(earned)
    BY <1>3, <1>5, <1>t, <2>1, <2>2
  <2> QED BY <2>3 DEF TokensAreConserved
<1>10. EscrowIsFunded'
  BY <1>3, <1>t, EscrowType DEF EscrowIsFunded, outstandingWithheldFees, Owed
<1>11. OverrideAboveDefault' /\ EscrowEndsWithPause' /\ RecordsReachBack'
  BY <1>3 DEF OverrideAboveDefault, EscrowEndsWithPause, RecordsReachBack
<1> QED BY <1>6, <1>7, <1>8, <1>9, <1>10, <1>11

\* What a withdrawal draws.
LEMMA WithdrawalIsBounded ==
  ASSUME IInv, NEW h \in Holders, NEW n \in Nat \ {0}, WithdrawConsumerFeePool(h, n),
         NEW d, d = Drawn(h, n)
  PROVE  /\ total # 0 /\ pool # 0
         /\ d.burn \in Nat \ {0} /\ d.burn <= shares[h] /\ shares[h] <= total
         /\ d.tokens \in Nat /\ d.tokens <= pool - outstandingWithheldFees /\ d.tokens <= pool
         /\ d.tokens * total <= d.burn * pool /\ d.burn * pool < (d.tokens + 1) * total
<1> USE DEF IInv, FPInv
<1> DEFINE limit == IF n > Spendable THEN Spendable ELSE n
<1>1. shares[h] \in Nat /\ total \in Nat /\ pool \in Nat /\ outstandingWithheldFees \in Nat
  BY EscrowType DEF FPTypeOK
<1>2. Spendable > 0 /\ d.burn > 0 /\ d = feePoolDraw(shares[h], total, pool, limit)
  BY DEF WithdrawConsumerFeePool, Drawn
<1>3. limit \in Nat /\ limit <= pool - outstandingWithheldFees
  BY <1>1, <1>2 DEF Spendable
<1> HIDE DEF limit
<1>4. /\ total # 0 /\ pool # 0
      /\ d.burn \in Nat /\ d.burn <= shares[h]
      /\ d.tokens \in Nat /\ d.tokens <= limit
      /\ d.tokens * total <= d.burn * pool /\ d.burn * pool < (d.tokens + 1) * total
  BY <1>1, <1>2, <1>3, DrawIsBounded
<1>5. shares[h] <= total
  BY HoldersAreFinite, SumOfTwo DEF SharesSumToTotal, FPTypeOK
<1>6. d.tokens <= pool - outstandingWithheldFees /\ d.tokens <= pool
  BY <1>1, <1>3, <1>4
<1> QED BY <1>2, <1>4, <1>5, <1>6

LEMMA WithdrawKeepsIInv ==
  ASSUME IInv, NEW h \in Holders, NEW n \in Nat \ {0}, WithdrawConsumerFeePool(h, n)
  PROVE  IInv'
<1> USE DEF IInv, FPInv
<1> DEFINE d == Drawn(h, n)
<1>1. /\ d.burn \in Nat \ {0} /\ d.burn <= shares[h] /\ shares[h] <= total
      /\ d.tokens \in Nat /\ d.tokens <= pool - outstandingWithheldFees /\ d.tokens <= pool
      /\ d.burn * pool < (d.tokens + 1) * total
  BY WithdrawalIsBounded
<1>2. /\ shares' = [shares EXCEPT ![h] = @ - d.burn] /\ total' = total - d.burn
      /\ pool' = pool - d.tokens /\ wallet' = [wallet EXCEPT ![h] = @ + d.tokens]
      /\ UNCHANGED <<now, phase, withheld, debt, default, override, records, earned, givers,
                     history, infraction, reach>>
  BY DEF WithdrawConsumerFeePool
<1> HIDE DEF d
<1>t. /\ pool \in Nat /\ total \in Nat /\ outstandingWithheldFees \in Nat
      /\ wallet \in [Holders -> Nat] /\ shares \in [Holders -> Nat]
  BY EscrowType DEF FPTypeOK
<1>3. /\ shares' \in [Holders -> Nat] /\ shares'[h] = shares[h] - d.burn
      /\ \A g \in Holders \ {h} : shares'[g] = shares[g]
  BY <1>1, <1>2, <1>t
<1>4. /\ wallet' \in [Holders -> Nat] /\ wallet'[h] = wallet[h] + d.tokens
      /\ \A g \in Holders \ {h} : wallet'[g] = wallet[g]
  BY <1>1, <1>2, <1>t
<1>5. pool' \in Nat /\ total' \in Nat
  BY <1>1, <1>2, <1>t
<1>6. FPTypeOK'
  BY <1>2, <1>3, <1>4, <1>5 DEF FPTypeOK
<1>7. SharesSumToTotal'
  <2>1. Sum(shares') = Sum(shares) - shares[h] + shares'[h]
    BY <1>3, <1>t, HoldersAreFinite, SumUpdated
  <2>2. shares[h] \in Nat
    BY <1>t
  <2> QED BY <1>1, <1>2, <1>3, <1>t, <2>1, <2>2 DEF SharesSumToTotal
<1>8. SharesCoverBalance'
  <2> SUFFICES ASSUME pool <= total PROVE pool - d.tokens <= total - d.burn
    BY <1>2 DEF SharesCoverBalance
  <2>1. d.burn <= total
    BY <1>1, <1>t
  <2> QED BY <1>1, <1>t, <2>1, DrawLeavesSharesForTokens
<1>9. TokensAreConserved'
  <2>1. Sum(wallet') = Sum(wallet) - wallet[h] + wallet'[h]
    BY <1>4, <1>t, HoldersAreFinite, SumUpdated
  <2>2. wallet[h] \in Nat /\ Sum(wallet) \in Nat /\ Sum(earned) \in Nat
    BY <1>t, SumsAreNumbers
  <2>3. pool' + Sum(wallet') + Sum(earned') = pool + Sum(wallet) + Sum(earned)
    BY <1>1, <1>2, <1>4, <1>t, <2>1, <2>2
  <2> QED BY <2>3 DEF TokensAreConserved
<1>10. EscrowIsFunded'
  <2>1. outstandingWithheldFees' = outstandingWithheldFees
    BY <1>2 DEF outstandingWithheldFees, Owed
  <2> QED BY <1>1, <1>2, <1>t, <2>1 DEF EscrowIsFunded
<1>11. OverrideAboveDefault' /\ EscrowEndsWithPause' /\ RecordsReachBack'
  BY <1>2 DEF OverrideAboveDefault, EscrowEndsWithPause, RecordsReachBack
<1> QED BY <1>6, <1>7, <1>8, <1>9, <1>10, <1>11

LEMMA SendKeepsIInv ==
  ASSUME IInv, NEW h \in Holders, NEW n \in Nat \ {0}, SendToPool(h, n)
  PROVE  IInv'
<1> USE DEF IInv, FPInv
<1>1. /\ wallet[h] >= n /\ pool' = pool + n /\ wallet' = [wallet EXCEPT ![h] = @ - n]
      /\ givers' = givers \cup {h}
      /\ UNCHANGED <<now, phase, shares, total, withheld, debt, default, override, records,
                     earned, history, infraction, reach>>
  BY DEF SendToPool
<1>t. pool \in Nat /\ wallet \in [Holders -> Nat] /\ outstandingWithheldFees \in Nat
  BY EscrowType DEF FPTypeOK
<1>2. /\ wallet' \in [Holders -> Nat] /\ wallet'[h] = wallet[h] - n
      /\ \A g \in Holders \ {h} : wallet'[g] = wallet[g]
  BY <1>1, <1>t
<1>3. FPTypeOK'
  BY <1>1, <1>2 DEF FPTypeOK
<1>4. SharesSumToTotal' /\ SharesCoverBalance'
  BY <1>1 DEF SharesSumToTotal, SharesCoverBalance
<1>5. TokensAreConserved'
  <2>1. Sum(wallet') = Sum(wallet) - wallet[h] + wallet'[h]
    BY <1>2, <1>t, HoldersAreFinite, SumUpdated
  <2>2. wallet[h] \in Nat /\ Sum(wallet) \in Nat /\ Sum(earned) \in Nat
    BY <1>t, SumsAreNumbers
  <2>3. pool' + Sum(wallet') + Sum(earned') = pool + Sum(wallet) + Sum(earned)
    BY <1>1, <1>2, <1>t, <2>1, <2>2
  <2> QED BY <2>3 DEF TokensAreConserved
<1>6. EscrowIsFunded'
  <2>1. outstandingWithheldFees' = outstandingWithheldFees
    BY <1>1 DEF outstandingWithheldFees, Owed
  <2> QED BY <1>1, <1>t, <2>1 DEF EscrowIsFunded
<1>7. OverrideAboveDefault' /\ EscrowEndsWithPause' /\ RecordsReachBack'
  BY <1>1 DEF OverrideAboveDefault, EscrowEndsWithPause, RecordsReachBack
<1> QED BY <1>3, <1>4, <1>5, <1>6, <1>7

\* A sweep pays out the whole pool, once: the slices, rounded down, and the rest.
LEMMA SweptPaysThePool ==
  ASSUME FPTypeOK, SharesSumToTotal, Swept
  PROVE  /\ wallet' \in [Holders -> Nat] /\ Sum(wallet') = Sum(wallet) + pool
         /\ shares' \in [Holders -> Nat] /\ Sum(shares') = 0 /\ total' = 0 /\ pool' = 0
<1> DEFINE ledger == IF total = 0 THEN absorbUnaccountedBalance(pool)
                     ELSE [shares |-> shares, total |-> total]
           slice == [h \in Holders |->
                       IF pool = 0 THEN 0 ELSE (ledger.shares[h] * pool) \div ledger.total]
           paid == [h \in Holders |-> SweptTo(h, slice)]
<1>1. /\ wallet' = [h \in Holders |-> wallet[h] + SweptTo(h, slice)]
      /\ shares' = NoShares /\ total' = 0 /\ pool' = 0
  BY DEF Swept
<1>2. pool \in Nat /\ total \in Nat /\ wallet \in [Holders -> Nat] /\ shares \in [Holders -> Nat]
  BY DEF FPTypeOK
<1>3. /\ ledger.shares \in [Holders -> Nat] /\ ledger.total \in Nat
      /\ Sum(ledger.shares) = ledger.total /\ (pool # 0 => ledger.total # 0)
  BY <1>2, AbsorbedLedger DEF SharesSumToTotal
<1> HIDE DEF ledger
<1>4. slice \in [Holders -> Nat] /\ Sum(slice) \in Nat /\ Sum(slice) <= pool
  <2>1. CASE pool = 0
    <3>1. slice = NoShares
      BY <2>1 DEF NoShares
    <3> QED BY <1>2, <2>1, <3>1, AbsorbedLedger
  <2>2. CASE pool # 0
    <3>1. slice = [h \in Holders |-> (ledger.shares[h] * pool) \div ledger.total]
      BY <2>2
    <3> HIDE DEF slice
    <3> QED BY <1>2, <1>3, <2>2, <3>1, HoldersAreFinite, SumOfParts
  <2> QED BY <2>1, <2>2
<1> HIDE DEF slice
<1>5. /\ paid \in [Holders -> Nat] /\ paid[Community] = slice[Community] + (pool - Sum(slice))
      /\ \A h \in Holders \ {Community} : paid[h] = slice[h]
  BY <1>2, <1>4, HoldersAreFinite DEF SweptTo
<1>6. wallet' = [h \in Holders |-> wallet[h] + paid[h]]
  BY <1>1
<1> HIDE DEF paid
<1>7. Sum(paid) = pool
  <2>1. Sum(paid) = Sum(slice) - slice[Community] + paid[Community]
    BY <1>4, <1>5, HoldersAreFinite, SumUpdated
  <2>2. slice[Community] \in Nat
    BY <1>4, HoldersAreFinite
  <2> QED BY <1>2, <1>4, <1>5, <2>1, <2>2
<1>8. wallet' \in [Holders -> Nat] /\ \A h \in Holders : wallet'[h] = wallet[h] + paid[h]
  BY <1>2, <1>5, <1>6
<1>9. Sum(wallet') = Sum(wallet) + Sum(paid)
  BY <1>2, <1>5, <1>8, HoldersAreFinite, SumOfSums
<1> QED BY <1>1, <1>7, <1>8, <1>9, AbsorbedLedger

\* Everything moves from the pool to the holders.
LEMMA SweepConserves ==
  ASSUME IInv, Swept, UNCHANGED earned
  PROVE  TokensAreConserved'
<1> USE DEF IInv, FPInv
<1>1. Sum(wallet') = Sum(wallet) + pool /\ pool' = 0
  BY SweptPaysThePool
<1>2. pool \in Nat /\ Sum(wallet) \in Nat /\ Sum(earned) \in Nat
  BY SumsAreNumbers DEF FPTypeOK
<1>3. pool' + Sum(wallet') + Sum(earned') = pool + Sum(wallet) + Sum(earned)
  BY <1>1, <1>2
<1> QED BY <1>3 DEF TokensAreConserved

LEMMA SweepKeepsIInv ==
  ASSUME IInv, SweepConsumerFeePool
  PROVE  IInv'
<1> USE DEF IInv, FPInv
<1>1. /\ wallet' \in [Holders -> Nat] /\ shares' \in [Holders -> Nat]
      /\ Sum(shares') = 0 /\ total' = 0 /\ pool' = 0
  BY SweptPaysThePool DEF SweepConsumerFeePool
<1>2. /\ phase \notin {"LAUNCHED", "PAUSED"}
      /\ UNCHANGED <<now, phase, withheld, debt, default, override, records, earned, givers,
                     history, infraction, reach>>
  BY DEF SweepConsumerFeePool
<1>3. FPTypeOK'
  BY <1>1, <1>2 DEF FPTypeOK
<1>4. SharesSumToTotal' /\ SharesCoverBalance'
  BY <1>1 DEF SharesSumToTotal, SharesCoverBalance
<1>5. TokensAreConserved'
  BY SweepConserves DEF SweepConsumerFeePool
<1>6. EscrowIsFunded' /\ OverrideAboveDefault' /\ EscrowEndsWithPause' /\ RecordsReachBack'
  BY <1>2 DEF EscrowIsFunded, OverrideAboveDefault, EscrowEndsWithPause, RecordsReachBack
<1> QED BY <1>3, <1>4, <1>5, <1>6

LEMMA NoRecordsType == NoRecords \in [Validators -> [amount : Nat, expires : Nat]]
  BY DEF NoRecords, NoRecord

LEMMA DeleteKeepsIInv ==
  ASSUME IInv, DeleteConsumerChain
  PROVE  IInv'
<1> USE DEF IInv, FPInv
<1>1. /\ wallet' \in [Holders -> Nat] /\ shares' \in [Holders -> Nat]
      /\ Sum(shares') = 0 /\ total' = 0 /\ pool' = 0
  BY SweptPaysThePool DEF DeleteConsumerChain
<1>2. /\ phase' = "DELETED" /\ withheld' = NoRecords /\ override' = 0
      /\ UNCHANGED <<now, default, records, earned, givers,
                     history, infraction, reach>>
  BY DEF DeleteConsumerChain
<1>b. debt' \in BOOLEAN
  BY DEF DeleteConsumerChain
<1>3. FPTypeOK'
  <2>1. withheld' \in [Validators -> [amount : Nat, expires : Nat]]
    BY <1>2, NoRecordsType
  <2> QED BY <1>1, <1>2, <1>b, <2>1 DEF FPTypeOK
<1>4. SharesSumToTotal' /\ SharesCoverBalance'
  BY <1>1 DEF SharesSumToTotal, SharesCoverBalance
<1>5. TokensAreConserved'
  BY SweepConserves DEF DeleteConsumerChain
<1>6. EscrowIsFunded' /\ OverrideAboveDefault' /\ EscrowEndsWithPause' /\ RecordsReachBack'
  BY <1>2 DEF EscrowIsFunded, OverrideAboveDefault, EscrowEndsWithPause, RecordsReachBack
<1> QED BY <1>3, <1>4, <1>5, <1>6
\* Steps that leave the money alone.
LEMMA PhaseKeepsIInv ==
  ASSUME IInv, CreateConsumer \/ StartConsumer \/ StopAndPrepareForConsumerRemoval
  PROVE  IInv'
<1> USE DEF IInv, FPInv
<1>1. UNCHANGED <<now, pool, shares, total, withheld, debt, default, override, records,
                  wallet, earned, givers,
                     history, infraction, reach>>
  BY DEF CreateConsumer, StartConsumer, StopAndPrepareForConsumerRemoval
<1>2. \/ phase = "NONE" /\ phase' = "REGISTERED"
      \/ phase \in {"REGISTERED", "PAUSED"} /\ phase' = "LAUNCHED"
      \/ phase \in {"LAUNCHED", "PAUSED"} /\ phase' = "STOPPED"
  BY DEF CreateConsumer, StartConsumer, StopAndPrepareForConsumerRemoval
<1>3. FPTypeOK'
  BY <1>1, <1>2 DEF FPTypeOK
<1>4. SharesSumToTotal' /\ SharesCoverBalance' /\ TokensAreConserved' /\ OverrideAboveDefault'
      /\ RecordsReachBack'
  BY <1>1 DEF SharesSumToTotal, SharesCoverBalance, TokensAreConserved, OverrideAboveDefault,
              RecordsReachBack
<1>5. EscrowEndsWithPause'
  BY <1>1, <1>2 DEF EscrowEndsWithPause
<1>6. EscrowIsFunded'
  <2>1. outstandingWithheldFees' = outstandingWithheldFees
    BY <1>1 DEF outstandingWithheldFees, Owed
  <2>2. ASSUME phase' = "LAUNCHED" PROVE withheld = NoRecords
    BY <1>2, <2>2 DEF EscrowEndsWithPause
  <2>3. pool \in Nat
    BY DEF FPTypeOK
  <2> QED BY <1>1, <2>1, <2>2, <2>3, EscrowType DEF EscrowIsFunded
<1> QED BY <1>3, <1>4, <1>5, <1>6

LEMMA FeesKeepIInv ==
  ASSUME IInv,
         \/ \E n \in Overrides \cup {0} : SetConsumerFeesPerBlock(n)
         \/ \E n \in FeeChoices : UpdateParams(n)
  PROVE  IInv'
<1> USE DEF IInv, FPInv
<1>1. UNCHANGED <<now, phase, pool, shares, total, withheld, debt, records, wallet, earned,
                  givers, history, infraction, reach>>
  BY DEF SetConsumerFeesPerBlock, UpdateParams
<1>2. default' \in Nat /\ override' \in Nat /\ OverrideAboveDefault'
  <2>1. CASE \E n \in Overrides \cup {0} : SetConsumerFeesPerBlock(n)
    BY <2>1, FeePoolAssumption DEF SetConsumerFeesPerBlock, OverrideAboveDefault, FPTypeOK
  <2>2. CASE \E n \in FeeChoices : UpdateParams(n)
    BY <2>2, FeePoolAssumption
       DEF UpdateParams, reconcileFeesPerBlockOverrides, OverrideAboveDefault, FPTypeOK
  <2> QED BY <2>1, <2>2
<1>3. FPTypeOK'
  BY <1>1, <1>2 DEF FPTypeOK
<1>4. SharesSumToTotal' /\ SharesCoverBalance' /\ TokensAreConserved' /\ EscrowEndsWithPause'
      /\ RecordsReachBack'
  BY <1>1 DEF SharesSumToTotal, SharesCoverBalance, TokensAreConserved, EscrowEndsWithPause,
              RecordsReachBack
<1>5. EscrowIsFunded'
  BY <1>1 DEF EscrowIsFunded, outstandingWithheldFees, Owed
<1> QED BY <1>2, <1>3, <1>4, <1>5

LEMMA InfractionParamsKeepIInv ==
  ASSUME IInv, NEW q \in InfractionChoices, UpdateInfractionParams(q)
  PROVE  IInv'
<1> USE DEF IInv, FPInv
<1>1. UNCHANGED <<now, phase, pool, shares, total, withheld, debt, default, override, records,
                  wallet, earned, givers, history, reach>>
  BY DEF UpdateInfractionParams
<1>2. infraction' \in [challenge : Nat, maxAge : Nat]
  BY FeePoolAssumption DEF UpdateInfractionParams
<1>3. FPTypeOK'
  BY <1>1, <1>2 DEF FPTypeOK
<1>4. SharesSumToTotal' /\ SharesCoverBalance' /\ TokensAreConserved' /\ OverrideAboveDefault'
      /\ EscrowEndsWithPause' /\ RecordsReachBack'
  BY <1>1 DEF SharesSumToTotal, SharesCoverBalance, TokensAreConserved, OverrideAboveDefault,
              EscrowEndsWithPause, RecordsReachBack
<1>5. EscrowIsFunded'
  BY <1>1 DEF EscrowIsFunded, outstandingWithheldFees, Owed
<1> QED BY <1>3, <1>4, <1>5

\* An import computes the total that was exported.
LEMMA RestartKeepsIInv ==
  ASSUME IInv, RestartProvider
  PROVE  IInv'
<1> USE DEF IInv, FPInv
<1>1. UNCHANGED <<now, phase, pool, withheld, debt, default, override, records, wallet, earned,
                  givers, history, infraction, reach>>
  BY DEF RestartProvider
<1>2. /\ shares' \in [Holders -> Nat] /\ total' \in Nat /\ Sum(shares') = total'
      /\ givers = {} => pool <= total'
  <2>t. pool \in Nat /\ shares \in [Holders -> Nat] /\ total \in Nat
    BY DEF FPTypeOK
  <2>1. CASE Exists /\ Sum(shares) = 0
    <3>1. shares' = absorbUnaccountedBalance(pool).shares /\ total' = absorbUnaccountedBalance(pool).total
      BY <2>1 DEF RestartProvider
    <3> QED BY <2>t, <3>1, AbsorbedLedger
  <2>2. CASE ~(Exists /\ Sum(shares) = 0)
    <3>1. shares' = shares /\ total' = Sum(shares)
      BY <2>2 DEF RestartProvider
    <3> QED BY <2>t, <3>1 DEF SharesSumToTotal, SharesCoverBalance
  <2> QED BY <2>1, <2>2
<1>3. FPTypeOK'
  BY <1>1, <1>2 DEF FPTypeOK
<1>4. SharesSumToTotal' /\ SharesCoverBalance'
  BY <1>1, <1>2 DEF SharesSumToTotal, SharesCoverBalance
<1>5. TokensAreConserved' /\ OverrideAboveDefault' /\ EscrowEndsWithPause' /\ RecordsReachBack'
  BY <1>1 DEF TokensAreConserved, OverrideAboveDefault, EscrowEndsWithPause, RecordsReachBack
<1>6. EscrowIsFunded'
  BY <1>1 DEF EscrowIsFunded, outstandingWithheldFees, Owed
<1> QED BY <1>3, <1>4, <1>5, <1>6

\* What a pause pays comes out of the pool, and reaches everyone who can be paid:
\* the pool covers the escrow, so it cannot run out on the way.
LEMMA PausePays ==
  ASSUME IInv, NEW payable \in SUBSET Validators, PauseConsumerChain(payable)
  PROVE  /\ earned' \in [Validators -> Nat] /\ pool' \in Nat /\ pool' <= pool
         /\ pool' + Sum(earned') = pool + Sum(earned)
         /\ \A v \in payable : earned'[v] = earned[v] + Owed[v]
<1> USE DEF IInv, FPInv
<1> DEFINE owed == [v \in Validators |-> IF v \in payable THEN Owed[v] ELSE 0]
<1>1. PICK f \in [Validators -> 0 .. pool] :
        /\ \A v \in Validators : f[v] <= owed[v]
        /\ Sum(f) <= pool
        /\ {v \in Validators : f[v] < owed[v]} # {} => Sum(f) = pool
        /\ earned' = [v \in Validators |-> earned[v] + f[v]]
        /\ pool' = pool - Sum(f)
  BY DEF PauseConsumerChain, PayWithheldFees
<1>t. pool \in Nat /\ earned \in [Validators -> Nat] /\ Owed \in [Validators -> Nat]
  BY EscrowType DEF FPTypeOK
<1>2. f \in [Validators -> Nat] /\ owed \in [Validators -> Nat] /\ Sum(f) \in Nat /\ Sum(earned) \in Nat
  <2>1. f \in [Validators -> Nat] /\ owed \in [Validators -> Nat]
    BY <1>t
  <2> QED BY <1>t, <2>1, ValidatorsAreFinite, SumType
<1>3. \A v \in Validators : owed[v] <= Owed[v] /\ (v \in payable => owed[v] = Owed[v])
  BY <1>t
<1> HIDE DEF owed
<1>4. earned' \in [Validators -> Nat] /\ \A v \in Validators : earned'[v] = earned[v] + f[v]
  BY <1>1, <1>2, <1>t
<1>5. Sum(earned') = Sum(earned) + Sum(f)
  BY <1>2, <1>4, <1>t, ValidatorsAreFinite, SumOfSums
<1>6. ASSUME NEW v \in Validators, f[v] < owed[v] PROVE FALSE
  <2>1. Sum(f) = pool
    BY <1>1, <1>6
  <2>2. Sum(f) < Sum(owed)
    BY <1>1, <1>2, <1>6, ValidatorsAreFinite, SumStrict
  <2>3. Sum(owed) <= Sum(Owed)
    BY <1>2, <1>3, <1>t, ValidatorsAreFinite, SumMonotone
  <2>4. Sum(Owed) <= pool
    BY DEF PauseConsumerChain, EscrowIsFunded, outstandingWithheldFees
  <2>5. Sum(owed) \in Nat /\ Sum(Owed) \in Nat
    BY <1>2, <1>t, ValidatorsAreFinite, SumType
  <2> QED BY <1>2, <1>t, <2>1, <2>2, <2>3, <2>4, <2>5
<1>7. \A v \in Validators : f[v] = owed[v]
  <2>1. \A v \in Validators : f[v] \in Nat /\ owed[v] \in Nat
    BY <1>2
  <2> QED BY <1>1, <1>6, <2>1
<1>8. pool' \in Nat /\ pool' <= pool /\ pool' + Sum(earned') = pool + Sum(earned)
  BY <1>1, <1>2, <1>5, <1>t
<1> QED BY <1>3, <1>4, <1>7, <1>8

LEMMA PauseKeepsIInv ==
  ASSUME IInv, NEW payable \in SUBSET Validators, PauseConsumerChain(payable)
  PROVE  IInv'
<1> USE DEF IInv, FPInv
<1>1. /\ phase' = "PAUSED" /\ withheld' = NoRecords
      /\ UNCHANGED <<now, shares, total, debt, default, override, records, wallet, givers,
                     history, infraction, reach>>
  BY DEF PauseConsumerChain, PayWithheldFees
<1>2. /\ earned' \in [Validators -> Nat] /\ pool' \in Nat /\ pool' <= pool
      /\ pool' + Sum(earned') = pool + Sum(earned)
  BY PausePays
<1>3. FPTypeOK'
  <2>1. withheld' \in [Validators -> [amount : Nat, expires : Nat]]
    BY <1>1, NoRecordsType
  <2> QED BY <1>1, <1>2, <2>1 DEF FPTypeOK
<1>t. /\ pool \in Nat /\ total \in Nat
      /\ Sum(wallet) \in Nat /\ Sum(earned) \in Nat
  BY SumsAreNumbers DEF FPTypeOK
<1>4. SharesSumToTotal' /\ SharesCoverBalance'
  BY <1>1, <1>2, <1>t DEF SharesSumToTotal, SharesCoverBalance
<1>5. TokensAreConserved'
  <2>1. Sum(earned') \in Nat
    BY <1>2, ValidatorsAreFinite, SumType
  <2>2. pool' + Sum(wallet') + Sum(earned') = pool + Sum(wallet) + Sum(earned)
    BY <1>1, <1>2, <1>t, <2>1
  <2> QED BY <2>2 DEF TokensAreConserved
<1>6. EscrowIsFunded' /\ OverrideAboveDefault' /\ EscrowEndsWithPause' /\ RecordsReachBack'
  BY <1>1 DEF EscrowIsFunded, OverrideAboveDefault, EscrowEndsWithPause, RecordsReachBack
<1> QED BY <1>3, <1>4, <1>5, <1>6
\* What is left of the records in the next block is part of the escrow before it.
LEMMA KeptIsOwed ==
  ASSUME FPTypeOK, now' = now + 1, NEW forfeits \in SUBSET Validators,
         NEW kept, kept = Kept(forfeits)
  PROVE  /\ kept \in [Validators -> [amount : Nat, expires : Nat]]
         /\ \A v \in Validators : kept[v].amount <= Owed[v]
         /\ withheld = NoRecords => kept = NoRecords
<1>1. now \in Nat /\ withheld \in [Validators -> [amount : Nat, expires : Nat]]
  BY DEF FPTypeOK
<1>2. kept = [v \in Validators |->
               IF v \in forfeits \/ withheld[v].expires <= now + 1 THEN NoRecord ELSE withheld[v]]
  BY DEF Kept
<1>3. NoRecord \in [amount : Nat, expires : Nat] /\ NoRecord.amount = 0
  BY DEF NoRecord
<1>4. kept \in [Validators -> [amount : Nat, expires : Nat]]
  BY <1>1, <1>2, <1>3
<1>5. ASSUME NEW v \in Validators PROVE kept[v].amount <= Owed[v]
  <2>1. Owed[v] = IF withheld[v].expires > now THEN withheld[v].amount ELSE 0
    BY DEF Owed
  <2>2. withheld[v].amount \in Nat /\ withheld[v].expires \in Nat
    BY <1>1
  <2>3. kept[v] = IF v \in forfeits \/ withheld[v].expires <= now + 1 THEN NoRecord ELSE withheld[v]
    BY <1>2
  <2> QED BY <1>1, <1>3, <2>1, <2>2, <2>3
<1>6. ASSUME withheld = NoRecords PROVE kept = NoRecords
  BY <1>2, <1>6 DEF NoRecords
<1> QED BY <1>4, <1>5, <1>6

\* Pruning and recording leave every record that evidence may still ask for.
LEMMA RecordingKeepsRecords ==
  ASSUME FPTypeOK, RecordsReachBack, now' = now + 1,
         reach' = IF cutoff > reach THEN cutoff ELSE reach,
         \/ records' = PruneEpochShareRecords /\ history' = history
         \/ \E share \in Nat : Recorded(share)
  PROVE  /\ history' \subseteq [at : Nat, share : Nat] /\ records' \subseteq history'
         /\ reach' \in Nat /\ RecordsReachBack'
<1>1. PICK new \in SUBSET [at : Nat, share : Nat] :
        records' = PruneEpochShareRecords \cup new /\ history' = history \cup new
  <2>1. CASE records' = PruneEpochShareRecords /\ history' = history
    <3>1. {} \in SUBSET [at : Nat, share : Nat]
      OBVIOUS
    <3> QED BY <2>1, <3>1
  <2>2. CASE \E share \in Nat : Recorded(share)
    <3>1. PICK share \in Nat : Recorded(share)
      BY <2>2
    <3>2. {[at |-> now', share |-> share]} \in SUBSET [at : Nat, share : Nat]
      BY DEF FPTypeOK
    <3> QED BY <3>1, <3>2 DEF Recorded
  <2> QED BY <2>1, <2>2
<1>2. history \subseteq [at : Nat, share : Nat] /\ records \subseteq history /\ now \in Nat
  BY DEF FPTypeOK
<1>3. history' \subseteq [at : Nat, share : Nat] /\ records' \subseteq history'
  BY <1>1, <1>2 DEF PruneEpochShareRecords
<1>4. ASSUME NEW r \in history', r.at >= reach' PROVE r \in records'
  <2>1. CASE r \in new
    BY <1>1, <2>1
  <2>2. CASE r \in history
    <3>1. r.at \in Int /\ reach \in Int /\ cutoff \in Int
      BY <1>2, <2>2 DEF cutoff, FPTypeOK
    <3>2. r.at >= reach /\ r.at >= cutoff
      BY <1>4, <3>1
    <3>3. r \in records
      BY <2>2, <3>2 DEF RecordsReachBack
    <3> QED BY <1>1, <3>2, <3>3 DEF PruneEpochShareRecords
  <2> QED BY <1>1, <2>1, <2>2
<1>5. reach' \in Nat
  BY <1>2 DEF cutoff, FPTypeOK
<1> QED BY <1>3, <1>4, <1>5 DEF RecordsReachBack

\* A fee is divided among the validators, and never more than the fee.
LEMMA SharesFitTheFee ==
  ASSUME FPTypeOK
  PROVE  /\ FeePerEpoch \in Nat /\ epochShare \in Nat
         /\ epochShare * Cardinality(Validators) <= FeePerEpoch
<1>1. effectiveFeesPerBlock \in Nat /\ BlocksPerEpoch \in Nat
  BY FeePoolAssumption DEF FPTypeOK, effectiveFeesPerBlock
<1>2. FeePerEpoch \in Nat
  BY <1>1, Products DEF FeePerEpoch
<1> QED BY <1>2, ValidatorsAreFinite, Quotients DEF epochShare

\* A distribution pays validators and escrow out of what nobody else is owed.
LEMMA PaySharesLedger ==
  ASSUME IInv, now' = now + 1, NEW marked \in SUBSET Validators, NEW forfeits \in SUBSET Validators,
         NEW kept, kept = Kept(forfeits), PayShares(kept, marked)
  PROVE  /\ earned' \in [Validators -> Nat] /\ pool' \in Nat /\ pool' <= pool
         /\ pool' + Sum(earned') = pool + Sum(earned)
         /\ withheld' \in [Validators -> [amount : Nat, expires : Nat]]
         /\ outstandingWithheldFees' <= pool'
<1> USE DEF IInv, FPInv
<1> DEFINE share == epochShare
           fee == FeePerEpoch
           unmarked == Validators \ marked
<1>1. /\ pool - Sum([v \in Validators |-> kept[v].amount]) >= fee
      /\ pool' = pool - share * Cardinality(unmarked)
      /\ earned' = [v \in Validators |-> IF v \in marked THEN earned[v] ELSE earned[v] + share]
      /\ withheld' = [v \in Validators |->
           IF v \in marked THEN recordWithheldFee(kept[v], share) ELSE kept[v]]
  BY DEF PayShares, Unreserved
<1>t. now \in Nat /\ pool \in Nat /\ earned \in [Validators -> Nat] /\ infraction.challenge \in Nat
  BY FeePoolAssumption DEF FPTypeOK
<1>2. kept \in [Validators -> [amount : Nat, expires : Nat]]
  BY KeptIsOwed
<1>3. share \in Nat /\ fee \in Nat /\ share * Cardinality(Validators) <= fee
  BY SharesFitTheFee
<1> HIDE DEF share, fee
\* The two groups are all validators.
<1>4. /\ marked \subseteq Validators /\ unmarked \subseteq Validators
      /\ Cardinality(marked) \in Nat /\ Cardinality(unmarked) \in Nat
      /\ Cardinality(marked) + Cardinality(unmarked) = Cardinality(Validators)
  <2>1. IsFiniteSet(marked) /\ IsFiniteSet(unmarked)
    BY ValidatorsAreFinite, FS_Subset
  <2>2. Cardinality(unmarked) = Cardinality(Validators) - Cardinality(Validators \cap marked)
    BY ValidatorsAreFinite, FS_Difference
  <2>3. Cardinality(Validators \cap marked) = Cardinality(marked)
    <3>1. Validators \cap marked = marked
      OBVIOUS
    <3> QED BY <3>1, Zenon
  <2>4. Cardinality(marked) \in Nat /\ Cardinality(unmarked) \in Nat /\ Cardinality(Validators) \in Nat
    BY <2>1, ValidatorsAreFinite, FS_CardinalityType
  <2>5. marked \subseteq Validators /\ unmarked \subseteq Validators
    OBVIOUS
  <2> HIDE DEF unmarked
  <2> QED BY <2>2, <2>3, <2>4, <2>5
<1> HIDE DEF unmarked
<1> DEFINE paid == share * Cardinality(unmarked)
           held == share * Cardinality(marked)
<1>5. paid \in Nat /\ held \in Nat /\ paid + held <= fee
  <2>1. share * (Cardinality(unmarked) + Cardinality(marked)) = paid + held
    BY <1>3, <1>4, Products
  <2>2. Cardinality(unmarked) + Cardinality(marked) = Cardinality(Validators)
    BY <1>4
  <2>3. paid \in Nat /\ held \in Nat
    BY <1>3, <1>4, Products
  <2> QED BY <1>3, <2>1, <2>2, <2>3
\* What is paid.
<1> DEFINE e == [v \in Validators |-> IF v \in unmarked THEN share ELSE 0]
<1>6. e \in [Validators -> Nat] /\ \A v \in Validators : e[v] = IF v \in unmarked THEN share ELSE 0
  BY <1>3
<1> HIDE DEF e
<1>7. Sum(e) = paid
  BY <1>3, <1>4, <1>6, ValidatorsAreFinite, SumConstant
<1>8. earned' \in [Validators -> Nat] /\ \A v \in Validators : earned'[v] = earned[v] + e[v]
  BY <1>1, <1>3, <1>6, <1>t DEF unmarked
<1>9. Sum(earned') = Sum(earned) + paid /\ Sum(earned) \in Nat
  <2>1. Sum(earned') = Sum(earned) + Sum(e)
    BY <1>6, <1>8, <1>t, ValidatorsAreFinite, SumOfSums
  <2> QED BY <1>7, <2>1, SumsAreNumbers
\* What is withheld.
<1> DEFINE k == [v \in Validators |-> kept[v].amount]
           w == [v \in Validators |-> IF v \in marked THEN share ELSE 0]
           s == [v \in Validators |-> k[v] + w[v]]
<1>10. k \in [Validators -> Nat] /\ w \in [Validators -> Nat] /\ s \in [Validators -> Nat]
  BY <1>2, <1>3
<1>11. /\ \A v \in Validators : w[v] = IF v \in marked THEN share ELSE 0
       /\ \A v \in Validators : k[v] = kept[v].amount /\ s[v] = k[v] + w[v]
  OBVIOUS
<1>12. pool - Sum(k) >= fee
  BY <1>1
<1> HIDE DEF k, w, s
<1>13. Sum(w) = held
  <2>1. w \in [Validators -> Nat] /\ \A v \in Validators : w[v] = IF v \in marked THEN share ELSE 0
    BY <1>10, <1>11
  <2>2. marked \in SUBSET Validators
    OBVIOUS
  <2> QED BY <1>3, <2>1, <2>2, ValidatorsAreFinite, SumConstant
<1>14. Sum(s) = Sum(k) + held /\ Sum(k) \in Nat
  <2>1. Sum(s) = Sum(k) + Sum(w)
    BY <1>10, <1>11, ValidatorsAreFinite, SumOfSums
  <2>2. Sum(k) \in Nat
    BY <1>10, ValidatorsAreFinite, SumType
  <2> QED BY <1>13, <2>1, <2>2
<1>15. ASSUME NEW v \in Validators
       PROVE  withheld'[v] \in [amount : Nat, expires : Nat] /\ withheld'[v].amount = s[v]
  <2>1. kept[v].amount \in Nat /\ kept[v] \in [amount : Nat, expires : Nat]
    BY <1>2
  <2>2. CASE v \in marked
    <3>1. withheld'[v] = [amount |-> kept[v].amount + share, expires |-> now + 1 + infraction.challenge]
      BY <1>1, <2>2 DEF recordWithheldFee
    <3>2. s[v] = kept[v].amount + share
      BY <1>11, <2>1, <2>2
    <3>3. kept[v].amount + share \in Nat /\ now + 1 + infraction.challenge \in Nat
      BY <1>3, <1>t, <2>1
    <3> QED BY <3>1, <3>2, <3>3
  <2>3. CASE v \notin marked
    <3>1. withheld'[v] = kept[v]
      BY <1>1, <2>3
    <3>2. s[v] = kept[v].amount
      BY <1>11, <2>1, <2>3
    <3> QED BY <2>1, <3>1, <3>2
  <2> QED BY <2>2, <2>3
<1>16. withheld' \in [Validators -> [amount : Nat, expires : Nat]]
  <2>1. DOMAIN withheld' = Validators /\ withheld' = [v \in Validators |-> withheld'[v]]
    BY <1>1
  <2> QED BY <1>15, <2>1
<1>17. outstandingWithheldFees' <= Sum(s) /\ outstandingWithheldFees' \in Nat
  <2> DEFINE o == [v \in Validators |->
                     IF withheld'[v].expires > now' THEN withheld'[v].amount ELSE 0]
  <2>1. o \in [Validators -> Nat]
    BY <1>15
  <2>2. \A v \in Validators : o[v] <= s[v]
    BY <1>10, <1>15
  <2>3. outstandingWithheldFees' = Sum(o)
    BY DEF outstandingWithheldFees, Owed
  <2> HIDE DEF o
  <2> QED BY <1>10, <2>1, <2>2, <2>3, ValidatorsAreFinite, SumMonotone, SumType
<1>18. pool' = pool - paid
  BY <1>1
<1> HIDE DEF paid, held
<1>19. pool' \in Nat /\ pool' <= pool /\ pool' + Sum(earned') = pool + Sum(earned)
  BY <1>3, <1>5, <1>9, <1>12, <1>14, <1>18, <1>t
<1>20. outstandingWithheldFees' <= pool'
  BY <1>3, <1>5, <1>12, <1>14, <1>17, <1>18, <1>t
<1> QED BY <1>8, <1>16, <1>19, <1>20
LEMMA BlockKeepsIInv ==
  ASSUME IInv, NEW marked \in SUBSET Validators, NEW forfeits \in SUBSET Validators,
         NextBlock(marked, forfeits)
  PROVE  IInv'
<1> USE DEF IInv, FPInv
<1>1. PICK kept : kept = Kept(forfeits)
  OBVIOUS
<1>2. /\ now' = now + 1 /\ (marked \cup forfeits # {} => phase = "LAUNCHED")
      /\ UNCHANGED <<phase, shares, total, default, override, wallet, infraction, givers>>
      /\ reach' = IF cutoff > reach THEN cutoff ELSE reach
  BY DEF NextBlock
<1>3. \/ phase = "LAUNCHED" /\ DistributeConsumerFees(kept, marked)
      \/ withheld' = kept /\ records' = PruneEpochShareRecords /\ UNCHANGED <<pool, earned, debt, history>>
  BY <1>1 DEF NextBlock
<1> DEFINE Quiet == withheld' = kept /\ UNCHANGED <<pool, earned>>
<1>4. Quiet \/ (phase = "LAUNCHED" /\ PayShares(kept, marked))
  <2>1. CASE phase = "LAUNCHED" /\ DistributeConsumerFees(kept, marked)
    <3>1. SkipZeroShare(kept) \/ SkipUnderfunded(kept) \/ SkipFailed(kept, marked) => Quiet
      BY DEF SkipZeroShare, SkipUnderfunded, SkipFailed
    <3> HIDE DEF Quiet
    <3> QED BY <2>1, <3>1 DEF DistributeConsumerFees
  <2>2. CASE withheld' = kept /\ UNCHANGED <<pool, earned>>
    BY <2>2
  <2> QED BY <1>3, <2>1, <2>2
<1>5. /\ kept \in [Validators -> [amount : Nat, expires : Nat]]
      /\ \A v \in Validators : kept[v].amount <= Owed[v]
      /\ withheld = NoRecords => kept = NoRecords
  BY <1>1, <1>2, KeptIsOwed
<1>6. /\ history' \subseteq [at : Nat, share : Nat] /\ records' \subseteq history'
      /\ reach' \in Nat /\ RecordsReachBack'
  <2>1. \/ records' = PruneEpochShareRecords /\ history' = history
        \/ Recorded(0) \/ Recorded(epochShare)
    BY <1>3 DEF DistributeConsumerFees, SkipZeroShare, SkipUnderfunded, SkipFailed, PayShares
  <2>2. epochShare \in Nat
    BY SharesFitTheFee
  <2> QED BY <1>2, <2>1, <2>2, RecordingKeepsRecords
<1>7. debt' \in BOOLEAN
  <2>1. debt' = TRUE \/ debt' = FALSE \/ debt' = debt \/ debt' = (debt \/ FeePerEpoch > 0)
    <3>1. SkipZeroShare(kept) => debt' = (debt \/ FeePerEpoch > 0)
      BY DEF SkipZeroShare
    <3>2. /\ SkipUnderfunded(kept) => debt' = TRUE
          /\ SkipFailed(kept, marked) => debt' = debt
          /\ PayShares(kept, marked) => debt' = FALSE
      BY DEF SkipUnderfunded, SkipFailed, PayShares
    <3> QED BY <1>3, <3>1, <3>2, Zenon DEF DistributeConsumerFees
  <2>2. debt \in BOOLEAN
    BY DEF FPTypeOK
  <2> QED BY <2>1, <2>2, Zenon
<1>t. /\ now \in Nat /\ pool \in Nat /\ total \in Nat /\ Owed \in [Validators -> Nat]
      /\ earned \in [Validators -> Nat] /\ Sum(wallet) \in Nat /\ Sum(earned) \in Nat
  BY EscrowType, SumsAreNumbers DEF FPTypeOK
<1>8. /\ earned' \in [Validators -> Nat] /\ pool' \in Nat /\ pool' <= pool
      /\ pool' + Sum(earned') = pool + Sum(earned)
      /\ withheld' \in [Validators -> [amount : Nat, expires : Nat]]
      /\ phase = "LAUNCHED" => outstandingWithheldFees' <= pool'
  <2>1. CASE Quiet
    <3>1. ASSUME phase = "LAUNCHED" PROVE outstandingWithheldFees' <= pool'
      <4> DEFINE o == [v \in Validators |-> IF kept[v].expires > now' THEN kept[v].amount ELSE 0]
      <4>1. o \in [Validators -> Nat]
        BY <1>5
      <4>2. \A v \in Validators : o[v] <= Owed[v]
        BY <1>5, <1>t
      <4>3. outstandingWithheldFees' = Sum(o)
        BY <2>1 DEF outstandingWithheldFees, Owed
      <4> HIDE DEF o
      <4>4. Sum(o) <= Sum(Owed) /\ Sum(o) \in Nat /\ Sum(Owed) \in Nat
        BY <1>t, <4>1, <4>2, ValidatorsAreFinite, SumMonotone, SumType
      <4>5. Sum(Owed) <= pool
        BY <3>1 DEF EscrowIsFunded, outstandingWithheldFees
      <4>6. pool' = pool
        BY <2>1
      <4> QED BY <1>t, <4>3, <4>4, <4>5, <4>6
    <3> QED BY <1>5, <1>t, <2>1, <3>1
  <2>2. CASE PayShares(kept, marked)
    BY <1>1, <1>2, <2>2, PaySharesLedger
  <2> QED BY <1>4, <2>1, <2>2
<1>9. FPTypeOK'
  BY <1>2, <1>6, <1>7, <1>8, <1>t DEF FPTypeOK
<1>10. SharesSumToTotal' /\ SharesCoverBalance' /\ OverrideAboveDefault'
  BY <1>2, <1>8, <1>t DEF SharesSumToTotal, SharesCoverBalance, OverrideAboveDefault
<1>11. TokensAreConserved'
  <2>1. Sum(earned') \in Nat
    BY <1>8, ValidatorsAreFinite, SumType
  <2>2. pool' + Sum(wallet') + Sum(earned') = pool + Sum(wallet) + Sum(earned)
    <3>1. wallet' = wallet
      BY <1>2
    <3>2. pool' \in Nat /\ pool' + Sum(earned') = pool + Sum(earned)
      BY <1>8
    <3>3. pool \in Nat /\ Sum(wallet) \in Nat /\ Sum(earned) \in Nat
      BY <1>t
    <3> QED BY <2>1, <3>1, <3>2, <3>3
  <2> QED BY <2>2 DEF TokensAreConserved
<1>12. EscrowEndsWithPause'
  BY <1>2, <1>4, <1>5 DEF EscrowEndsWithPause
<1>13. EscrowIsFunded'
  BY <1>2, <1>8 DEF EscrowIsFunded
<1> QED BY <1>6, <1>9, <1>10, <1>11, <1>12, <1>13

LEMMA InitIsSound == FPInit => IInv
<1> SUFFICES ASSUME FPInit PROVE IInv
  OBVIOUS
<1> USE DEF FPInit
<1>b. debt \in BOOLEAN
  OBVIOUS
<1>1. FPTypeOK
  <2>1. NoShares \in [Holders -> Nat] /\ withheld \in [Validators -> [amount : Nat, expires : Nat]]
    BY AbsorbedLedger, NoRecordsType
  <2>2. wallet \in [Holders -> Nat] /\ earned \in [Validators -> Nat]
    BY FeePoolAssumption DEF Holders
  <2> QED BY <1>b, <2>1, <2>2, FeePoolAssumption DEF FPTypeOK
<1>2. SharesSumToTotal /\ SharesCoverBalance
  BY AbsorbedLedger DEF SharesSumToTotal, SharesCoverBalance
<1>3. OverrideAboveDefault /\ EscrowEndsWithPause /\ RecordsReachBack /\ EscrowIsFunded
  BY DEF OverrideAboveDefault, EscrowEndsWithPause, RecordsReachBack, EscrowIsFunded
<1>4. TokensAreConserved
  <2>1. Sum(wallet) = InitialFunds * Cardinality(Holders)
    <3>1. wallet \in [Holders -> Nat] /\ \A h \in Holders : wallet[h] = IF h \in Holders THEN InitialFunds ELSE 0
      BY FeePoolAssumption
    <3>2. InitialFunds \in Nat /\ Holders \in SUBSET Holders
      BY FeePoolAssumption
    <3> QED BY <3>1, <3>2, HoldersAreFinite, SumConstant
  <2>2. Sum(earned) = 0 * Cardinality({})
    <3>1. {} \in SUBSET Validators /\ \A v \in Validators : earned[v] = IF v \in {} THEN 0 ELSE 0
      OBVIOUS
    <3> QED BY <1>1, <3>1, ValidatorsAreFinite, SumConstant DEF FPTypeOK
  <2>3. Sum(earned) = 0
    BY <2>2, FS_EmptySet
  <2>4. InitialFunds \in Nat /\ Cardinality(Holders) \in Nat
    BY FeePoolAssumption, HoldersAreFinite
  <2> QED BY <2>1, <2>3, <2>4, Products DEF TokensAreConserved
<1> QED BY <1>1, <1>2, <1>3, <1>4 DEF IInv, FPInv

LEMMA NextKeepsIInv == IInv /\ [FPNext]_fpVars => IInv'
<1> SUFFICES ASSUME IInv, [FPNext]_fpVars PROVE IInv'
  OBVIOUS
<1>0. Amounts \subseteq Nat \ {0} /\ Gifts \subseteq Nat \ {0}
  BY FeePoolAssumption
<1>1. CASE \E h \in Holders, n \in Amounts : FundConsumerFeePool(h, n) \/ WithdrawConsumerFeePool(h, n)
  BY <1>0, <1>1, FundKeepsIInv, WithdrawKeepsIInv
<1>2. CASE \E h \in Holders, n \in Gifts : SendToPool(h, n)
  BY <1>0, <1>2, SendKeepsIInv
<1>3. CASE \E marked, forfeits \in SUBSET Validators : NextBlock(marked, forfeits)
  BY <1>3, BlockKeepsIInv
<1>4. CASE \E payable \in SUBSET Validators : PauseConsumerChain(payable)
  BY <1>4, PauseKeepsIInv
<1>5. CASE \/ \E n \in Overrides \cup {0} : SetConsumerFeesPerBlock(n)
           \/ \E n \in FeeChoices : UpdateParams(n)
  BY <1>5, FeesKeepIInv
<1>6. CASE SweepConsumerFeePool
  BY <1>6, SweepKeepsIInv
<1>7. CASE CreateConsumer \/ StartConsumer \/ StopAndPrepareForConsumerRemoval
  BY <1>7, PhaseKeepsIInv
<1>8. CASE DeleteConsumerChain
  BY <1>8, DeleteKeepsIInv
<1>9. CASE RestartProvider
  BY <1>9, RestartKeepsIInv
<1>10. CASE UNCHANGED fpVars
  BY <1>10 DEF IInv, FPInv, fpVars, FPTypeOK, SharesSumToTotal, SharesCoverBalance, OverrideAboveDefault,
               EscrowEndsWithPause, RecordsReachBack, TokensAreConserved, EscrowIsFunded,
               outstandingWithheldFees, Owed
<1>11. CASE \E q \in InfractionChoices : UpdateInfractionParams(q)
  BY <1>11, InfractionParamsKeepIInv
<1> QED BY <1>1, <1>2, <1>3, <1>4, <1>5, <1>6, <1>7, <1>8, <1>9, <1>10, <1>11 DEF FPNext
LEMMA ClaimType == FPTypeOK => \A g \in Holders : Claim(g) \in Nat
<1> SUFFICES ASSUME FPTypeOK, NEW g \in Holders PROVE Claim(g) \in Nat
  OBVIOUS
<1>1. shares[g] * pool \in Nat /\ total \in Nat
  BY Products DEF FPTypeOK
<1>2. total # 0 => (shares[g] * pool) \div total \in Nat
  BY <1>1, Quotients
<1> QED BY <1>2 DEF Claim

LEMMA ClaimTypeNext == FPTypeOK' => (\A g \in Holders : Claim(g) \in Nat)'
  BY ClaimType, PTL

\* A holder who does nothing loses nothing: a deposit pays at least the price of its
\* shares, and a withdrawal takes at most the price of what it burns.
LEMMA FundDilutesNobody ==
  ASSUME IInv, NEW h \in Holders, NEW n \in Nat \ {0}, FundConsumerFeePool(h, n),
         NEW g \in Holders \ {h}
  PROVE  Claim(g)' >= Claim(g)
<1> USE DEF IInv, FPInv
<1>1. IInv'
  BY FundKeepsIInv
<1>2. Claim(g) \in Nat /\ Claim(g)' \in Nat
  BY <1>1, ClaimType, ClaimTypeNext
<1>3. CASE pool = 0 \/ total = 0
  <2>1. shares[g] \in Nat /\ total \in Nat
    BY DEF FPTypeOK
  <2>2. ASSUME pool = 0, total # 0 PROVE (shares[g] * pool) \div total = 0
    BY <2>1, <2>2
  <2>3. Claim(g) = 0
    BY <1>3, <2>2 DEF Claim
  <2> QED BY <1>2, <2>3
<1>4. CASE pool # 0 /\ total # 0
  <2> DEFINE m == MintShares(n)
  <2>t. pool \in Nat /\ total \in Nat /\ shares \in [Holders -> Nat] /\ shares[g] \in Nat
    BY DEF FPTypeOK
  <2>1. Reconciled.shares = shares /\ Reconciled.total = total
    BY <1>4, <2>t DEF Reconciled
  <2>2. m \in Nat /\ m * pool <= n * total
    BY <1>4, <2>1, DepositMints
  <2>3. shares'[g] = shares[g] /\ total' = total + m /\ pool' = pool + n
    BY <2>1, <2>t DEF FundConsumerFeePool
  <2> HIDE DEF m
  <2>4. pool * (total + m) = pool * total + pool * m /\ (pool + n) * total = pool * total + n * total
    BY <2>2, <2>t
  <2>5. pool * (total + m) <= (pool + n) * total
    <3>1. pool * m = m * pool /\ pool * m \in Nat /\ n * total \in Nat /\ pool * total \in Nat
      BY <2>2, <2>t
    <3> QED BY <2>2, <2>4, <3>1
  <2>6. total + m \in Nat \ {0} /\ pool + n \in Nat /\ total \in Nat \ {0}
    BY <1>4, <2>2, <2>t
  <2>7. (shares[g] * pool) \div total <= (shares[g] * (pool + n)) \div (total + m)
    BY <2>5, <2>6, <2>t, ClaimsGrowWithThePrice
  <2>8. Claim(g) = (shares[g] * pool) \div total
    BY <1>4 DEF Claim
  <2>9. Claim(g)' = (shares[g] * (pool + n)) \div (total + m)
    BY <2>3, <2>6 DEF Claim
  <2> QED BY <1>2, <2>7, <2>8, <2>9
<1> QED BY <1>3, <1>4

LEMMA WithdrawalDilutesNobody ==
  ASSUME IInv, NEW h \in Holders, NEW n \in Nat \ {0}, WithdrawConsumerFeePool(h, n),
         NEW g \in Holders \ {h}
  PROVE  Claim(g)' >= Claim(g)
<1> USE DEF IInv, FPInv
<1> DEFINE d == Drawn(h, n)
<1>1. IInv'
  BY WithdrawKeepsIInv
<1>2. Claim(g) \in Nat /\ Claim(g)' \in Nat
  BY <1>1, ClaimType, ClaimTypeNext
<1>3. /\ total # 0 /\ d.burn \in Nat /\ d.burn <= shares[h] /\ shares[h] <= total
      /\ d.tokens \in Nat /\ d.tokens <= pool /\ d.tokens * total <= d.burn * pool
  BY WithdrawalIsBounded
<1>t. pool \in Nat /\ total \in Nat /\ shares \in [Holders -> Nat] /\ shares[g] \in Nat /\ shares[h] \in Nat
  BY DEF FPTypeOK
<1>4. shares'[g] = shares[g] /\ total' = total - d.burn /\ pool' = pool - d.tokens
  BY <1>t DEF WithdrawConsumerFeePool
<1> HIDE DEF d
<1>5. Claim(g) = (shares[g] * pool) \div total
  BY <1>3 DEF Claim
<1>6. CASE total' = 0
  <2>1. shares[h] + shares[g] <= Sum(shares)
    BY <1>t, HoldersAreFinite, SumOfTwo
  <2>2. shares[g] = 0
    <3>1. d.burn \in Nat /\ d.burn <= shares[h] /\ shares[h] <= total /\ total - d.burn = 0
      BY <1>3, <1>4, <1>6
    <3>2. Sum(shares) = total
      BY DEF SharesSumToTotal
    <3> QED BY <1>t, <2>1, <3>1, <3>2
  <2>3. Claim(g) = 0
    BY <1>3, <1>5, <1>t, <2>2
  <2> QED BY <1>2, <2>3
<1>7. CASE total' # 0
  <2> DEFINE b == pool - d.tokens
             t == total - d.burn
  <2>1. b \in Nat /\ t \in Nat \ {0} /\ total \in Nat \ {0}
    BY <1>3, <1>4, <1>7, <1>t
  <2>2. pool * t = pool * total - d.burn * pool /\ b * total = pool * total - d.tokens * total
    BY <1>3, <1>t
  <2>3. pool * t <= b * total
    <3>1. pool * total \in Nat /\ d.burn * pool \in Nat /\ d.tokens * total \in Nat
      BY <1>3, <1>t, Products
    <3> QED BY <1>3, <2>2, <3>1
  <2> HIDE DEF b, t
  <2>4. (shares[g] * pool) \div total <= (shares[g] * b) \div t
    BY <1>t, <2>1, <2>3, ClaimsGrowWithThePrice
  <2>5. Claim(g)' = (shares[g] * b) \div t
    BY <1>4, <1>7 DEF Claim, b, t
  <2> QED BY <1>2, <1>5, <2>4, <2>5
<1> QED BY <1>6, <1>7

(***************************************************************************)
(* The theorems.                                                           *)
(***************************************************************************)
LEMMA Invariance == FPSpec => []IInv
  BY InitIsSound, NextKeepsIInv, PTL DEF FPSpec

\* The ledger of fee_pool_shares.go adds up after every operation, and as long as
\* nobody sends to the pool directly, every token of it has its share.
THEOREM LedgerAddsUp == FPSpec => []FPInv
<1>1. IInv => FPInv
  BY DEF IInv
<1> QED BY <1>1, Invariance, PTL

\* Deposits, withdrawals, distributions, pauses, sweeps, deletions and imports move
\* tokens between pool, holders and validators, and neither mint nor lose any.
THEOREM NoTokenIsLost == FPSpec => []TokensAreConserved
<1>1. IInv => TokensAreConserved
  BY DEF IInv
<1> QED BY <1>1, Invariance, PTL

\* The pool of a launched consumer holds what distributions withheld from accused
\* validators, whatever the community withdraws meanwhile.
THEOREM EscrowStaysFunded == FPSpec => []EscrowIsFunded
<1>1. IInv => EscrowIsFunded
  BY DEF IInv
<1> QED BY <1>1, Invariance, PTL

\* ResolveEpochShare finds the record of the distribution that ended the epoch of any
\* window that may still be accused, however MsgUpdateInfractionParams moves the horizon
\* of the pruning, unless the cutoff of an earlier block was past the window's end.
THEOREM EvidenceFindsItsEpoch == FPSpec => []EvidenceIsPricedByItsEpoch
<1>1. IInv => EvidenceIsPricedByItsEpoch
  <2> SUFFICES ASSUME IInv, NEW t \in 1 .. now, t >= reach
               PROVE  ResolveEpochShare(records, t) = ResolveEpochShare(history, t)
    BY DEF EvidenceIsPricedByItsEpoch
  <2>1. /\ now \in Nat /\ reach \in Nat /\ RecordsReachBack
        /\ history \subseteq [at : Nat, share : Nat] /\ records \subseteq history
    BY DEF IInv, FPInv, FPTypeOK
  <2>2. ASSUME NEW r \in history, r.at >= t PROVE r \in records
    <3>1. r.at \in Nat /\ reach \in Nat
      BY <2>1
    <3>2. r.at >= reach
      BY <2>2, <3>1
    <3> QED BY <2>1, <3>2 DEF RecordsReachBack
  <2> QED BY <2>1, <2>2 DEF ResolveEpochShare
<1> QED BY <1>1, Invariance, PTL

\* What one holder deposits or withdraws never lowers ComputeClaim for the others.
THEOREM NobodyDilutesAnother == FPSpec => OthersAreNotDiluted
<1>1. IInv => [\A h \in Holders, n \in Amounts :
                FundConsumerFeePool(h, n) \/ WithdrawConsumerFeePool(h, n)
                  => \A g \in Holders \ {h} : Claim(g)' >= Claim(g)]_fpVars
  BY FeePoolAssumption, FundDilutesNobody, WithdrawalDilutesNobody
<1> QED BY <1>1, Invariance, PTL DEF OthersAreNotDiluted

\* PayWithheldFees of a pause never runs out of balance half way: every validator that
\* can be paid gets all that was withheld from it.
THEOREM PausesPayInFull == FPSpec => NobodyIsPaidShort
<1>1. IInv => [\A payable \in SUBSET Validators : PauseConsumerChain(payable) =>
                 \A v \in payable : earned'[v] = earned[v] + Owed[v]]_fpVars
  BY PausePays
<1> QED BY <1>1, Invariance, PTL DEF NobodyIsPaidShort
=============================================================================
