---- MODULE ProofLemmas ----
(***************************************************************************)
(* Lemmas that know nothing of the program: quotients and remainders, for  *)
(* the rings; induction and recursion over 0 .. m; and that a finite set   *)
(* can be sorted in one way, for the lanes, which are filled in the order  *)
(* of the arena, and the timers, which fire in the order of their          *)
(* deadlines.                                                              *)
(***************************************************************************)
EXTENDS Integers, SequencesExt, FiniteSetTheorems, SequenceTheorems, WellFoundedInduction, TLAPS

----------------------------------------------------------------------------
(* Quotients and remainders *)

\* Quotient and remainder.
LEMMA ModOf ==
  ASSUME NEW a \in Nat, NEW c \in Nat \ {0}
  PROVE  \E q \in Nat : a = c * q + (a % c) /\ a % c \in 0 .. c - 1
<1>1. a \div c \in Nat
  OBVIOUS
<1>2. a % c \in 0 .. c - 1
  OBVIOUS
<1>3. a = c * (a \div c) + (a % c)
  OBVIOUS
<1> QED
  BY <1>1, <1>2, <1>3

\* They are unique.
LEMMA ModIs ==
  ASSUME NEW a \in Nat, NEW c \in Nat \ {0}, NEW q \in Nat, NEW r \in 0 .. c - 1,
         a = c * q + r
  PROVE  a % c = r
<1>1. PICK p \in Nat : a = c * p + (a % c) /\ a % c \in 0 .. c - 1
  BY ModOf
<1>2. CASE p = q
  BY <1>1, <1>2
<1>3. CASE p < q
  <2>1. c * (q - p) >= c
    BY <1>3
  <2>2. c * (q - p) = c * q - c * p
    OBVIOUS
  <2> QED
  BY <1>1, <2>1, <2>2
<1>4. CASE p > q
  <2>1. c * (p - q) >= c
    BY <1>4
  <2>2. c * (p - q) = c * p - c * q
    OBVIOUS
  <2> QED
  BY <1>1, <2>1, <2>2
<1> QED
  BY <1>2, <1>3, <1>4

LEMMA AddLap ==
  ASSUME NEW a \in Nat, NEW c \in Nat \ {0}
  PROVE  (a + c) % c = a % c
<1>1. PICK q \in Nat : a = c * q + (a % c) /\ a % c \in 0 .. c - 1
  BY ModOf
<1>2. PICK r \in 0 .. c - 1 : r = a % c
  BY <1>1
<1>3. PICK b \in Nat : b = a + c
  OBVIOUS
<1>4. PICK p \in Nat : p = q + 1
  OBVIOUS
<1>5. b = c * p + r
  BY <1>1, <1>2, <1>3, <1>4
<1>6. b % c = r
  BY <1>5, ModIs
<1> QED
  BY <1>2, <1>3, <1>6

LEMMA ModSmall ==
  ASSUME NEW m \in Nat \ {0}, NEW a \in Nat, a < 2 * m
  PROVE  a % m = IF a < m THEN a ELSE a - m
<1>1. CASE a < m
  <2>1. a = m * 0 + a /\ a \in 0 .. m - 1
    BY <1>1
  <2> QED
    BY <1>1, <2>1, ModIs
<1>2. CASE a >= m
  <2>1. a = m * 1 + (a - m) /\ a - m \in 0 .. m - 1
    BY <1>2
  <2> QED
    BY <1>2, <2>1, ModIs
<1> QED
  BY <1>1, <1>2

\* The wrap of the positions does not move a cell.
LEMMA WrapKeepsCell ==
  ASSUME NEW m \in Nat \ {0}, NEW c \in Nat \ {0}, m % c = 0, NEW a \in Nat, a < 2 * m
  PROVE  (a % m) % c = a % c
<1>1. CASE a < m
  BY <1>1, ModSmall
<1>2. CASE a >= m
  <2>1. PICK b \in Nat : b = a - m
    BY <1>2
  <2>2. a % m = b
    <3>1. a = m * 1 + b /\ b \in 0 .. m - 1
      BY <1>2, <2>1
    <3> QED
      BY <3>1, ModIs
  <2>3. PICK q \in Nat : m = c * q + (m % c)
    BY ModOf
  <2>4. m = c * q
    BY <2>3
  <2>5. PICK p \in Nat : b = c * p + (b % c) /\ b % c \in 0 .. c - 1
    BY ModOf
  <2>6. PICK r \in 0 .. c - 1 : r = b % c
    BY <2>5
  <2>7. PICK k \in Nat : k = p + q
    OBVIOUS
  <2>8. a = c * k + r
    <3>1. c * k = c * p + c * q
      BY <2>7
    <3> QED
      BY <2>1, <2>4, <2>5, <2>6, <3>1
  <2>9. a % c = r
    BY <2>8, ModIs
  <2> QED
    BY <2>2, <2>6, <2>9
<1> QED
  BY <1>1, <1>2

\* Positions less than a lap apart have different cells.
LEMMA LapApart ==
  ASSUME NEW c \in Nat \ {0}, NEW a \in Nat, NEW b \in Nat, a < b, b < a + c
  PROVE  a % c # b % c
<1> SUFFICES ASSUME a % c = b % c
             PROVE  FALSE
  OBVIOUS
<1>1. PICK p \in Nat : a = c * p + (a % c) /\ a % c \in 0 .. c - 1
  BY ModOf
<1>2. PICK q \in Nat : b = c * q + (b % c) /\ b % c \in 0 .. c - 1
  BY ModOf
<1>3. b - a = c * (q - p)
  BY <1>1, <1>2
<1>4. CASE q <= p
  BY <1>3, <1>4
<1>5. CASE q > p
  <2>1. c * (q - p) >= c
    BY <1>5
  <2> QED
    BY <1>3, <2>1
<1> QED
  BY <1>4, <1>5

LEMMA WrapAdds ==
  ASSUME NEW m \in Nat \ {0}, NEW a \in Nat, NEW k \in Nat, a + k < 2 * m, a < 2 * m, k < m
  PROVE  ((a % m) + k) % m = (a + k) % m
<1>1. a % m = IF a < m THEN a ELSE a - m
  BY ModSmall
<1>2. CASE a < m
  BY <1>1, <1>2
<1>3. CASE a >= m
  <2>1. PICK b \in Nat : b = a + k
    OBVIOUS
  <2>2. PICK d \in Nat : d = b - m
    BY <1>3, <2>1
  <2>3. d < m /\ d < 2 * m /\ b < 2 * m /\ b >= m
    BY <1>3, <2>1, <2>2
  <2>4. d % m = d /\ b % m = d
    <3>1. d = m * 0 + d /\ b = m * 1 + d /\ d \in 0 .. m - 1
      BY <2>2, <2>3
    <3> QED
      BY <3>1, ModIs
  <2>5. (a % m) + k = d
    BY <1>1, <1>3, <2>1, <2>2
  <2> QED
    BY <2>1, <2>4, <2>5
<1> QED
  BY <1>2, <1>3

----------------------------------------------------------------------------
(* Induction and recursion over 0 .. m *)

\* A set of naturals has a least member, and a bounded one a largest.
LEMMA MinExists ==
  ASSUME NEW S, S \subseteq Nat, S # {}
  PROVE  \E k \in S : \A j \in S : k <= j
<1>1. PICK k \in S : \A j \in S : ~ (<<j, k>> \in OpToRel(<, Nat))
  BY NatLessThanWellFounded, WFMin
<1>2. \A j \in S : k <= j
  <2> SUFFICES ASSUME NEW j \in S, j < k
               PROVE  FALSE
    OBVIOUS
  <2>1. j \in Nat /\ k \in Nat
    OBVIOUS
  <2>2. <<j, k>> \in OpToRel(<, Nat)
    BY <2>1 DEF OpToRel
  <2> QED
    BY <1>1, <2>2
<1> QED
  BY <1>2

LEMMA MaxExists ==
  ASSUME NEW n \in Nat, NEW S, S \subseteq 0 .. n, S # {}
  PROVE  \E k \in S : \A j \in S : j <= k
<1> DEFINE T == {n - x : x \in S}
<1>1. T \subseteq Nat /\ T # {}
  <2>1. \A x \in S : n - x \in Nat
    OBVIOUS
  <2>2. PICK x \in S : TRUE
    OBVIOUS
  <2>3. n - x \in T
    OBVIOUS
  <2> QED
    BY <2>1, <2>3
<1>2. PICK y \in T : \A z \in T : y <= z
  <2> HIDE DEF T
  <2> QED
    BY <1>1, MinExists
<1>3. PICK k \in S : y = n - k
  BY <1>2
<1>4. \A j \in S : n - k <= n - j
  BY <1>2, <1>3
<1>5. \A j \in S : j <= k
  BY <1>4
<1> QED
  BY <1>5

\* Induction over 0 .. m, the property given as the set of the numbers that have it.
LEMMA InductionUpTo ==
  ASSUME NEW m \in Nat, NEW Good, 0 \in Good, \A n \in 1 .. m : n - 1 \in Good => n \in Good
  PROVE  0 .. m \subseteq Good
<1> DEFINE Bad == {k \in 0 .. m : k \notin Good}
<1> SUFFICES ASSUME Bad # {}
             PROVE  FALSE
  OBVIOUS
<1>1. Bad \subseteq Nat
  OBVIOUS
<1> HIDE DEF Bad
<1>2. PICK k \in Bad : \A j \in Bad : ~(<<j, k>> \in OpToRel(<, Nat))
  BY <1>1, NatLessThanWellFounded, WFMin
<1>3. \A j \in Nat : j < k => j \notin Bad
  <2> SUFFICES ASSUME NEW j \in Bad, j < k
               PROVE  FALSE
    OBVIOUS
  <2>1. j \in Nat /\ k \in Nat
    BY <1>1
  <2>2. <<j, k>> \in OpToRel(<, Nat)
    BY <2>1 DEF OpToRel
  <2> QED
    BY <1>2, <2>2
<1>4. k \in 0 .. m /\ k \notin Good /\ k # 0
  BY DEF Bad
<1>5. k - 1 \in Good
  BY <1>3, <1>4 DEF Bad
<1> QED
  BY <1>4, <1>5

Stepping(m, S) == [(1 .. m) \X S -> S]
Recurs(f, m, S, a, step) ==
  f \in [0 .. m -> S] /\ f[0] = a /\ \A n \in 1 .. m : f[n] = step[<<n, f[n - 1]>>]

\* A function defined by recursion over 0 .. m exists.
LEMMA RecursionExists ==
  ASSUME NEW m \in Nat, NEW S, NEW a \in S, NEW step \in Stepping(m, S)
  PROVE  \E f : Recurs(f, m, S, a, step)
<1> DEFINE Begun(f, k) == f[0] = a /\ \A n \in 1 .. k : f[n] = step[<<n, f[n - 1]>>]
           Good == {k \in 0 .. m : \E f \in [0 .. m -> S] : Begun(f, k)}
<1>1. 0 \in Good
  <2> DEFINE f == [n \in 0 .. m |-> a]
  <2>1. f \in [0 .. m -> S] /\ Begun(f, 0) /\ 0 \in 0 .. m
    OBVIOUS
  <2> HIDE DEF f, Begun
  <2> QED
    BY <2>1
<1>2. ASSUME NEW k \in 1 .. m, k - 1 \in Good
      PROVE  k \in Good
  <2>1. PICK f \in [0 .. m -> S] : Begun(f, k - 1)
    BY <1>2
  <2> DEFINE g == [f EXCEPT ![k] = step[<<k, f[k - 1]>>]]
  <2>2. f[k - 1] \in S /\ k \in 0 .. m
    OBVIOUS
  <2>3. step[<<k, f[k - 1]>>] \in S
    BY <2>2 DEF Stepping
  <2>4. g \in [0 .. m -> S]
    BY <2>3
  <2>5. \A n \in 0 .. k - 1 : g[n] = f[n]
    OBVIOUS
  <2>6. g[k] = step[<<k, f[k - 1]>>]
    BY <2>2
  <2> HIDE DEF g
  <2>7. g[0] = a
    BY <2>1, <2>5
  <2>8. ASSUME NEW n \in 1 .. k
        PROVE  g[n] = step[<<n, g[n - 1]>>]
    <3>1. n - 1 \in 0 .. k - 1
      OBVIOUS
    <3>2. CASE n = k
      BY <3>1, <3>2, <2>5, <2>6
    <3>3. CASE n # k
      <4>1. n \in 0 .. k - 1 /\ n \in 1 .. k - 1
        BY <3>3
      <4>2. g[n] = f[n] /\ g[n - 1] = f[n - 1]
        BY <3>1, <4>1, <2>5
      <4>3. f[n] = step[<<n, f[n - 1]>>]
        BY <4>1, <2>1
      <4> QED
        BY <4>2, <4>3
    <3> QED
      BY <3>2, <3>3
  <2>9. Begun(g, k)
    BY <2>7, <2>8
  <2> QED
    BY <2>2, <2>4, <2>9
<1>3. 0 .. m \subseteq Good
  <2> HIDE DEF Good
  <2> QED
    BY <1>1, <1>2, InductionUpTo
<1>4. m \in Good
  <2>1. m \in 0 .. m
    OBVIOUS
  <2> HIDE DEF Good
  <2> QED
    BY <1>3, <2>1
<1> QED
  BY <1>4 DEF Recurs

----------------------------------------------------------------------------
(* Sorting.  An order is given as the set R of its pairs. *)

\* R orders the members of S one after the other.
StrictOrder(R, S) ==
  /\ \A x \in S : <<x, x>> \notin R
  /\ \A x, y \in S : x # y => <<x, y>> \in R \/ <<y, x>> \in R
  /\ \A x, y, z \in S : <<x, y>> \in R /\ <<y, z>> \in R => <<x, z>> \in R

\* The members of S up to x.
UpTo(R, S, x) == {y \in S : y = x \/ <<y, x>> \in R}

\* All of S, each member once, in order.
SortOf(q, S, R) ==
  q \in SetToSeqs(S) /\ \A i, j \in DOMAIN q : i < j => <<q[i], q[j]>> \in R

\* A member has a rank, and a later one has a higher rank.
LEMMA RankRises ==
  ASSUME NEW S, IsFiniteSet(S), NEW R, StrictOrder(R, S)
  PROVE  /\ \A x \in S : Cardinality(UpTo(R, S, x)) \in 1 .. Cardinality(S)
         /\ \A x, y \in S : <<x, y>> \in R =>
              Cardinality(UpTo(R, S, x)) < Cardinality(UpTo(R, S, y))
<1>0. Cardinality(S) \in Nat
  BY FS_CardinalityType
<1>1. ASSUME NEW x \in S
      PROVE  /\ IsFiniteSet(UpTo(R, S, x)) /\ Cardinality(UpTo(R, S, x)) \in Nat
             /\ Cardinality(UpTo(R, S, x)) \in 1 .. Cardinality(S)
  <2>1. UpTo(R, S, x) \in SUBSET S /\ x \in UpTo(R, S, x)
    BY DEF UpTo
  <2>2. IsFiniteSet(UpTo(R, S, x)) /\ Cardinality(UpTo(R, S, x)) <= Cardinality(S)
    BY <2>1, FS_Subset
  <2>3. Cardinality(UpTo(R, S, x)) \in Nat /\ Cardinality(UpTo(R, S, x)) # 0
    BY <2>1, <2>2, FS_CardinalityType, FS_EmptySet
  <2> QED BY <1>0, <2>2, <2>3
<1>2. ASSUME NEW x \in S, NEW y \in S, <<x, y>> \in R
      PROVE  Cardinality(UpTo(R, S, x)) < Cardinality(UpTo(R, S, y))
  <2>1. <<y, x>> \notin R /\ x # y
    BY <1>2 DEF StrictOrder
  <2>2. UpTo(R, S, x) \in SUBSET UpTo(R, S, y)
    BY <1>2 DEF StrictOrder, UpTo
  <2>3. y \in UpTo(R, S, y) /\ y \notin UpTo(R, S, x)
    BY <2>1 DEF UpTo
  <2>4. /\ Cardinality(UpTo(R, S, x)) <= Cardinality(UpTo(R, S, y))
        /\ Cardinality(UpTo(R, S, x)) # Cardinality(UpTo(R, S, y))
    BY <1>1, <2>2, <2>3, FS_Subset
  <2> QED BY <1>1, <2>4
<1> QED BY <1>1, <1>2

\* So the ranks of the members are the numbers up to the cardinality of the set.
LEMMA RankBijection ==
  ASSUME NEW S, IsFiniteSet(S), NEW R, StrictOrder(R, S)
  PROVE  LET rank == [x \in S |-> Cardinality(UpTo(R, S, x))]
         IN  /\ rank \in [S -> 1 .. Cardinality(S)]
             /\ \A x, y \in S : rank[x] = rank[y] => x = y
             /\ \A n \in 1 .. Cardinality(S) : \E x \in S : rank[x] = n
             /\ \A x, y \in S : rank[x] < rank[y] => <<x, y>> \in R
<1> DEFINE rank == [x \in S |-> Cardinality(UpTo(R, S, x))]
<1>1. /\ rank \in [S -> 1 .. Cardinality(S)]
      /\ \A x, y \in S : <<x, y>> \in R => rank[x] < rank[y]
  BY RankRises
<1>2. Cardinality(S) \in Nat
  BY FS_CardinalityType
<1> HIDE DEF rank
<1>3. ASSUME NEW x \in S, NEW y \in S
      PROVE  /\ rank[x] = rank[y] => x = y
             /\ rank[x] < rank[y] => <<x, y>> \in R
  <2>1. rank[x] \in Nat /\ rank[y] \in Nat
    BY <1>1, <1>2
  <2>2. x = y \/ <<x, y>> \in R \/ <<y, x>> \in R
    BY DEF StrictOrder
  <2>3. /\ <<x, y>> \in R => rank[x] < rank[y]
        /\ <<y, x>> \in R => rank[y] < rank[x]
    BY <1>1
  <2> QED BY <2>1, <2>2, <2>3
<1>4. rank \in Injection(S, 1 .. Cardinality(S))
  BY <1>1, <1>3 DEF Injection, IsInjective
<1>5. IsFiniteSet(1 .. Cardinality(S)) /\ Cardinality(1 .. Cardinality(S)) = Cardinality(S)
  BY <1>2, FS_Interval
<1>6. rank \in Surjection(S, 1 .. Cardinality(S))
  BY <1>4, <1>5, FS_Injection
<1>7. \A n \in 1 .. Cardinality(S) : \E x \in S : rank[x] = n
  BY <1>6 DEF Surjection
<1> QED BY <1>1, <1>3, <1>7 DEF rank

\* What a sequence of SetToSeqs is.
LEMMA SeqOfSet ==
  ASSUME NEW S, IsFiniteSet(S), NEW q \in SetToSeqs(S)
  PROVE  /\ Cardinality(S) \in Nat /\ DOMAIN q = 1 .. Cardinality(S)
         /\ q \in [1 .. Cardinality(S) -> S] /\ q \in Seq(S) /\ Len(q) = Cardinality(S)
         /\ \A i, j \in DOMAIN q : q[i] = q[j] => i = j
         /\ \A x \in S : \E k \in DOMAIN q : q[k] = x
<1> DEFINE n == Cardinality(S)
<1>1. n \in Nat
  BY FS_CardinalityType
<1>2. q \in [1 .. n -> S] /\ \A i, j \in 1 .. n : q[i] = q[j] => i = j
  BY DEF SetToSeqs
<1>3. q \in Injection(1 .. n, S)
  BY <1>2, Zenon DEF Injection, IsInjective
<1>4. q \in Surjection(1 .. n, S)
  <2>1. Cardinality(1 .. n) = n
    BY <1>1, FS_Interval
  <2> QED BY <1>3, <2>1, FS_Injection
<1>5. q \in Seq(S) /\ Len(q) = n
  BY <1>1, <1>2
<1> QED BY <1>1, <1>2, <1>4, <1>5 DEF Surjection

\* A finite set can be sorted.
LEMMA SortExists ==
  ASSUME NEW S, IsFiniteSet(S), NEW R, StrictOrder(R, S)
  PROVE  \E q \in SetToSeqs(S) : SortOf(q, S, R)
<1> DEFINE n == Cardinality(S)
           rank == [x \in S |-> Cardinality(UpTo(R, S, x))]
           q == [k \in 1 .. n |-> CHOOSE x \in S : rank[x] = k]
<1>1. /\ rank \in [S -> 1 .. n]
      /\ \A k \in 1 .. n : \E x \in S : rank[x] = k
      /\ \A x, y \in S : rank[x] < rank[y] => <<x, y>> \in R
  BY RankBijection
<1>2. n \in Nat
  BY FS_CardinalityType
<1> HIDE DEF rank
<1>3. \A k \in 1 .. n : q[k] \in S /\ rank[q[k]] = k
  BY <1>1
<1>4. q \in [1 .. n -> S] /\ DOMAIN q = 1 .. n
  BY <1>3
<1> HIDE DEF q
<1>5. \A i, j \in 1 .. n : i # j => q[i] # q[j]
  BY <1>3
<1>6. \A i, j \in 1 .. n : i < j => <<q[i], q[j]>> \in R
  BY <1>1, <1>3
<1>7. q \in SetToSeqs(S)
  BY <1>4, <1>5 DEF SetToSeqs
<1> QED BY <1>4, <1>6, <1>7 DEF SortOf

\* And in one way only: each member stands at its rank.
LEMMA SortRanks ==
  ASSUME NEW S, IsFiniteSet(S), NEW R, StrictOrder(R, S), NEW q, SortOf(q, S, R),
         NEW k \in DOMAIN q
  PROVE  Cardinality(UpTo(R, S, q[k])) = k
<1> DEFINE n == Cardinality(S)
           U == UpTo(R, S, q[k])
           f == [i \in 1 .. k |-> q[i]]
<1>1. /\ n \in Nat /\ DOMAIN q = 1 .. n /\ q \in [1 .. n -> S]
      /\ \A i, j \in DOMAIN q : q[i] = q[j] => i = j
      /\ \A x \in S : \E i \in DOMAIN q : q[i] = x
  BY SeqOfSet DEF SortOf
<1>2. k \in Nat /\ \A i \in 1 .. k : i \in DOMAIN q
  BY <1>1
<1>3. \A i \in 1 .. k : f[i] \in U
  <2> TAKE i \in 1 .. k
  <2>1. i = k \/ i < k
    BY <1>2
  <2>2. q[i] \in S /\ (q[i] = q[k] \/ <<q[i], q[k]>> \in R)
    BY <1>1, <1>2, <2>1 DEF SortOf
  <2> QED BY <2>2 DEF UpTo
<1>4. \A x \in U : \E i \in 1 .. k : f[i] = x
  <2> TAKE x \in U
  <2>1. x \in S /\ (x = q[k] \/ <<x, q[k]>> \in R)
    BY DEF UpTo
  <2>2. PICK i \in DOMAIN q : q[i] = x
    BY <1>1, <2>1
  <2>3. ~(k < i)
    <3> SUFFICES ASSUME k < i PROVE FALSE
      OBVIOUS
    <3>1. <<q[k], x>> \in R /\ x # q[k] /\ q[k] \in S
      BY <1>1, <1>2, <2>2 DEF SortOf
    <3>2. <<x, x>> \in R
      BY <2>1, <3>1 DEF StrictOrder
    <3> QED BY <2>1, <3>2 DEF StrictOrder
  <2>4. i \in 1 .. k
    BY <1>1, <1>2, <2>2, <2>3
  <2> QED BY <2>2, <2>4
<1>5. f \in Injection(1 .. k, U) /\ f \in Surjection(1 .. k, U)
  <2>1. f \in [1 .. k -> U]
    BY <1>3
  <2>2. \A i, j \in 1 .. k : f[i] = f[j] => i = j
    BY <1>1, <1>2
  <2> HIDE DEF f
  <2> QED BY <1>4, <2>1, <2>2 DEF Injection, Surjection, IsInjective
<1>6. ExistsBijection(1 .. k, U)
  BY <1>5 DEF ExistsBijection, Bijection
<1> QED BY <1>2, <1>6, FS_CountingElements

LEMMA SortUnique ==
  ASSUME NEW S, IsFiniteSet(S), NEW R, StrictOrder(R, S),
         NEW q, SortOf(q, S, R), NEW r, SortOf(r, S, R)
  PROVE  q = r
<1> DEFINE n == Cardinality(S)
           rank == [x \in S |-> Cardinality(UpTo(R, S, x))]
<1>1. \A x, y \in S : rank[x] = rank[y] => x = y
  BY RankBijection
<1>2. q \in [1 .. n -> S] /\ r \in [1 .. n -> S] /\ DOMAIN q = 1 .. n /\ DOMAIN r = 1 .. n
  BY SeqOfSet DEF SortOf
<1>3. ASSUME NEW k \in 1 .. n
      PROVE  Cardinality(UpTo(R, S, q[k])) = k /\ Cardinality(UpTo(R, S, r[k])) = k
  <2>1. k \in DOMAIN q /\ k \in DOMAIN r
    BY <1>2
  <2>2. Cardinality(UpTo(R, S, q[k])) = k
    BY <2>1, SortRanks
  <2>3. Cardinality(UpTo(R, S, r[k])) = k
    BY <2>1, SortRanks
  <2> QED BY <2>2, <2>3
<1>4. ASSUME NEW k \in 1 .. n
      PROVE  q[k] = r[k]
  <2>1. q[k] \in S /\ r[k] \in S /\ rank[q[k]] = rank[r[k]]
    BY <1>2, <1>3
  <2> HIDE DEF rank
  <2> QED BY <1>1, <2>1
<1>5. q = [k \in 1 .. n |-> q[k]] /\ r = [k \in 1 .. n |-> r[k]]
  BY <1>2
<1>6. [k \in 1 .. n |-> q[k]] = [k \in 1 .. n |-> r[k]]
  BY <1>4
<1> QED BY <1>5, <1>6

\* What the choice of a sorted sequence gives.
Ordering(S, R) == CHOOSE q \in SetToSeqs(S) : \A i, j \in DOMAIN q : i < j => <<q[i], q[j]>> \in R

LEMMA OrderingSorts ==
  ASSUME NEW S, IsFiniteSet(S), NEW R, StrictOrder(R, S)
  PROVE  SortOf(Ordering(S, R), S, R)
<1>1. \E q \in SetToSeqs(S) : \A i, j \in DOMAIN q : i < j => <<q[i], q[j]>> \in R
  <2>1. PICK q \in SetToSeqs(S) : SortOf(q, S, R)
    BY SortExists
  <2> QED
    BY <2>1 DEF SortOf
<1> QED
  BY <1>1 DEF Ordering, SortOf

LEMMA OrderingIs ==
  ASSUME NEW S, IsFiniteSet(S), NEW R, StrictOrder(R, S), NEW q, SortOf(q, S, R)
  PROVE  Ordering(S, R) = q
BY OrderingSorts, SortUnique

\* Sorted positions carry over to what stands there.
LEMMA SortCarries ==
  ASSUME NEW I, IsFiniteSet(I), NEW Q, NEW k, SortOf(k, I, Q), NEW f, NEW R,
         \A i, j \in I : f[i] = f[j] => i = j,
         \A i, j \in I : <<i, j>> \in Q => <<f[i], f[j]>> \in R
  PROVE  /\ IsFiniteSet({f[i] : i \in I})
         /\ SortOf([n \in DOMAIN k |-> f[k[n]]], {f[i] : i \in I}, R)
<1> DEFINE S == {f[i] : i \in I}
           g == [i \in I |-> f[i]]
           q == [n \in DOMAIN k |-> f[k[n]]]
<1>1. g \in Bijection(I, S)
  <2>1. g \in [I -> S] /\ \A y \in S : \E i \in I : g[i] = y
    OBVIOUS
  <2>2. \A i, j \in I : g[i] = g[j] => i = j
    OBVIOUS
  <2> QED
    BY <2>1, <2>2 DEF Bijection, Injection, Surjection, IsInjective
<1>2. IsFiniteSet(S) /\ Cardinality(S) = Cardinality(I)
  <2>1. ExistsBijection(I, S)
    BY <1>1 DEF ExistsBijection
  <2> HIDE DEF g, S
  <2> QED
    BY <2>1, FS_Bijection
<1>3. /\ Cardinality(I) \in Nat /\ DOMAIN k = 1 .. Cardinality(I)
      /\ k \in [1 .. Cardinality(I) -> I] /\ \A i, j \in DOMAIN k : k[i] = k[j] => i = j
  BY SeqOfSet DEF SortOf
<1>4. q \in SetToSeqs(S)
  <2>1. q \in [1 .. Cardinality(S) -> S]
    BY <1>2, <1>3
  <2>2. ASSUME NEW i \in 1 .. Cardinality(S), NEW j \in 1 .. Cardinality(S), i # j
        PROVE  q[i] # q[j]
    <3>1. k[i] \in I /\ k[j] \in I /\ k[i] # k[j]
      BY <1>2, <1>3, <2>2
    <3> QED
      BY <1>2, <1>3, <3>1
  <2> HIDE DEF q
  <2> QED
    BY <2>1, <2>2 DEF SetToSeqs
<1>5. ASSUME NEW i \in DOMAIN q, NEW j \in DOMAIN q, i < j
      PROVE  <<q[i], q[j]>> \in R
  <2>1. k[i] \in I /\ k[j] \in I /\ <<k[i], k[j]>> \in Q
    BY <1>3, <1>5 DEF SortOf
  <2> QED
    BY <2>1
<1> QED
  BY <1>2, <1>4, <1>5 DEF SortOf

\* A sorted sequence goes on with what comes after all of it.
LEMMA SortAppends ==
  ASSUME NEW S, IsFiniteSet(S), NEW R, NEW q, SortOf(q, S, R), NEW x, x \notin S,
         NEW P, \A y \in S : <<y, x>> \in P, \A y, z \in S : <<y, z>> \in R => <<y, z>> \in P
  PROVE  SortOf(Append(q, x), S \cup {x}, P)
<1> DEFINE n == Cardinality(S)
           T == S \cup {x}
<1>1. /\ n \in Nat /\ DOMAIN q = 1 .. n /\ q \in [1 .. n -> S] /\ q \in Seq(S) /\ Len(q) = n
      /\ \A i, j \in DOMAIN q : q[i] = q[j] => i = j
  BY SeqOfSet DEF SortOf
<1>2. IsFiniteSet(T) /\ Cardinality(T) = n + 1
  BY FS_AddElement
<1>3. PICK p : p = Append(q, x)
  OBVIOUS
<1>4. /\ DOMAIN p = 1 .. n + 1 /\ p \in Seq(T) /\ p[n + 1] = x /\ \A i \in 1 .. n : p[i] = q[i]
  <2>1. q \in Seq(T) /\ x \in T
    BY <1>1
  <2> HIDE DEF T
  <2>2. /\ p \in Seq(T) /\ Len(p) = Len(q) + 1 /\ p[Len(q) + 1] = x
        /\ \A i \in 1 .. Len(q) : p[i] = q[i]
    BY <1>3, <2>1, AppendProperties
  <2> QED
    BY <1>1, <2>2
<1>5. \A i \in 1 .. n : p[i] \in S /\ p[i] # x
  BY <1>1, <1>4
<1>6. p \in [1 .. n + 1 -> T]
  BY <1>1, <1>4
<1>7. ASSUME NEW i \in 1 .. n + 1, NEW j \in 1 .. n + 1, i < j
      PROVE  p[i] # p[j] /\ <<p[i], p[j]>> \in P
  <2>1. i \in 1 .. n
    BY <1>1, <1>7
  <2>2. CASE j = n + 1
    BY <1>4, <1>5, <2>1, <2>2
  <2>3. CASE j # n + 1
    <3>1. j \in 1 .. n /\ q[i] \in S /\ q[j] \in S /\ q[i] # q[j] /\ <<q[i], q[j]>> \in R
      BY <1>1, <1>7, <2>1, <2>3 DEF SortOf
    <3> QED
      BY <1>4, <2>1, <3>1
  <2> QED
    BY <2>2, <2>3
<1>8. \A i, j \in 1 .. n + 1 : i # j => p[i] # p[j]
  <2> SUFFICES ASSUME NEW i \in 1 .. n + 1, NEW j \in 1 .. n + 1, i # j
               PROVE  p[i] # p[j]
    OBVIOUS
  <2>1. i < j \/ j < i
    BY <1>1
  <2> QED
    BY <1>7, <2>1
<1>9. p \in SetToSeqs(T)
  <2> HIDE DEF T
  <2> QED
    BY <1>2, <1>6, <1>8 DEF SetToSeqs
<1> QED
  BY <1>3, <1>4, <1>7, <1>9 DEF SortOf

OneToOne(f, D) == \A i, j \in D : f[i] = f[j] => i = j

\* The first n of a sequence q without repetitions, and of what f has there.
Heads(n, first, out, f, D) ==
  /\ DOMAIN first = 1 .. n /\ DOMAIN out = 1 .. n
  /\ \A k \in 1 .. n : first[k] \in D /\ out[k] = f[first[k]]
  /\ ToSet(first) \subseteq D /\ ToSet(out) = {f[i] : i \in ToSet(first)}
  /\ Cardinality(ToSet(out)) = n

LEMMA FirstOnes ==
  ASSUME NEW m \in Nat, NEW D, NEW q, q \in [1 .. m -> D], OneToOne(q, 1 .. m),
         NEW f, OneToOne(f, D), NEW n \in 0 .. m
  PROVE  Heads(n, SubSeq(q, 1, n), SubSeq([k \in 1 .. m |-> f[q[k]]], 1, n), f, D)
<1>0. PICK r : r = [k \in 1 .. m |-> f[q[k]]]
  OBVIOUS
<1>1. q \in Seq(D) /\ Len(q) = m
  OBVIOUS
<1>2. r \in Seq({f[i] : i \in D}) /\ Len(r) = m
  BY <1>0
<1>3. PICK first : first = SubSeq(q, 1, n)
  OBVIOUS
<1>4. PICK out : out = SubSeq(r, 1, n)
  OBVIOUS
<1>5. DOMAIN first = 1 .. n /\ \A k \in 1 .. n : first[k] = q[k]
  BY <1>1, <1>3
<1>6. DOMAIN out = 1 .. n /\ \A k \in 1 .. n : out[k] = r[k]
  BY <1>2, <1>4
<1>7. \A k \in 1 .. n : k \in 1 .. m
  OBVIOUS
<1>8. \A k \in 1 .. n : first[k] \in D /\ out[k] = f[first[k]]
  BY <1>0, <1>5, <1>6, <1>7
<1>9. ToSet(first) = {first[k] : k \in 1 .. n} /\ ToSet(out) = {out[k] : k \in 1 .. n}
  BY <1>5, <1>6 DEF ToSet
<1>10. ToSet(first) \subseteq D /\ ToSet(out) = {f[i] : i \in ToSet(first)}
  BY <1>8, <1>9
<1>11. \A i, j \in 1 .. n : out[i] = out[j] => i = j
  BY <1>5, <1>7, <1>8 DEF OneToOne
<1>12. Cardinality(ToSet(out)) = n
  <2> DEFINE g == [k \in 1 .. n |-> out[k]]
  <2>1. g \in [1 .. n -> ToSet(out)] /\ \A y \in ToSet(out) : \E k \in 1 .. n : g[k] = y
    BY <1>9
  <2>2. \A i, j \in 1 .. n : g[i] = g[j] => i = j
    BY <1>11
  <2> HIDE DEF g
  <2>3. g \in Bijection(1 .. n, ToSet(out))
    BY <2>1, <2>2, Zenon DEF Bijection, Injection, Surjection, IsInjective
  <2>4. IsFiniteSet(1 .. n) /\ Cardinality(1 .. n) = n
    BY FS_Interval
  <2>5. ExistsBijection(1 .. n, ToSet(out))
    BY <2>3 DEF ExistsBijection
  <2> QED
    BY <2>4, <2>5, FS_Bijection
<1> QED
  BY <1>0, <1>3, <1>4, <1>5, <1>6, <1>8, <1>10, <1>12 DEF Heads

LEMMA FewerLeft ==
  ASSUME NEW S, IsFiniteSet(S), NEW T \in SUBSET S
  PROVE  /\ Cardinality(S) \in Nat /\ Cardinality(T) \in Nat /\ Cardinality(S \ T) \in Nat
         /\ Cardinality(S \ T) = Cardinality(S) - Cardinality(T)
<1>1. IsFiniteSet(T) /\ IsFiniteSet(S \ T)
  BY FS_Subset
<1>2. Cardinality(S) \in Nat /\ Cardinality(T) \in Nat /\ Cardinality(S \ T) \in Nat
  BY <1>1, FS_CardinalityType
<1>3. Cardinality((S \ T) \cup T) = Cardinality(S \ T) + Cardinality(T) - Cardinality((S \ T) \cap T)
  BY <1>1, FS_Union
<1>4. (S \ T) \cup T = S /\ (S \ T) \cap T = {} /\ Cardinality({}) = 0
  BY FS_EmptySet
<1>5. Cardinality(S) = Cardinality(S \ T) + Cardinality(T) - 0
  BY <1>3, <1>4
<1> QED
  BY <1>2, <1>5

----------------------------------------------------------------------------
(* Rings.  A ring of R cells, written next at w, keeps the latest entries. *)

\* The sequence of the latest R entries, with one more.
Pushed(R, s, e) == IF Len(s) = R THEN Append(Tail(s), e) ELSE Append(s, e)

AddsLatest(R, S, s, e, p) ==
  /\ p \in Seq(S \cup {e})
  /\ Len(s) < R => Len(p) = Len(s) + 1 /\ p[Len(s) + 1] = e /\ \A i \in 1 .. Len(s) : p[i] = s[i]
  /\ Len(s) = R => Len(p) = R /\ p[R] = e /\ \A i \in 1 .. R - 1 : p[i] = s[i + 1]

LEMMA PushedFacts ==
  ASSUME NEW R \in Nat \ {0}, NEW S, NEW s \in Seq(S), NEW e, Len(s) <= R
  PROVE  AddsLatest(R, S, s, e, Pushed(R, s, e))
<1> DEFINE T == S \cup {e}
<1>1. s \in Seq(T) /\ e \in T
  OBVIOUS
<1> HIDE DEF T
<1>2. CASE Len(s) < R
  <2>1. Pushed(R, s, e) = Append(s, e)
    BY <1>2 DEF Pushed
  <2>2. /\ Append(s, e) \in Seq(T) /\ Len(Append(s, e)) = Len(s) + 1 /\ Append(s, e)[Len(s) + 1] = e
        /\ \A i \in 1 .. Len(s) : Append(s, e)[i] = s[i]
    BY <1>1, AppendProperties
  <2> QED
    BY <1>2, <2>1, <2>2 DEF T, AddsLatest
<1>3. CASE Len(s) = R
  <2>1. Pushed(R, s, e) = Append(Tail(s), e) /\ s # <<>>
    BY <1>3 DEF Pushed
  <2>2. /\ Tail(s) \in Seq(T) /\ Len(Tail(s)) = Len(s) - 1
        /\ \A i \in 1 .. Len(Tail(s)) : Tail(s)[i] = s[i + 1]
    BY <1>1, <2>1, HeadTailProperties
  <2>3. PICK u : u = Tail(s)
    OBVIOUS
  <2>4. u \in Seq(T) /\ Len(u) = R - 1 /\ \A i \in 1 .. R - 1 : u[i] = s[i + 1]
    BY <1>3, <2>2, <2>3
  <2>5. /\ Append(u, e) \in Seq(T) /\ Len(Append(u, e)) = Len(u) + 1 /\ Append(u, e)[Len(u) + 1] = e
        /\ \A i \in 1 .. Len(u) : Append(u, e)[i] = u[i]
    BY <1>1, <2>4, AppendProperties
  <2>6. Len(u) + 1 = R
    BY <2>4
  <2> QED
    BY <1>3, <2>1, <2>3, <2>4, <2>5, <2>6 DEF T, AddsLatest
<1> QED
  BY <1>2, <1>3

\* The cell of the i-th entry from the oldest, of n.
Cell(R, w, n, i) == IF n < R THEN i ELSE IF w + i < R THEN w + i ELSE w + i - R

\* The cells hold the sequence s, oldest first.
InCells(R, r, w, s) ==
  /\ \E S : s \in Seq(S)
  /\ DOMAIN r = 0 .. R - 1 /\ w \in 0 .. R - 1
  /\ Len(s) <= R /\ (Len(s) < R => w = Len(s))
  /\ \A i \in 0 .. Len(s) - 1 : r[Cell(R, w, Len(s), i)] = s[i + 1]

\* No entry yet.
LEMMA CellsEmpty ==
  ASSUME NEW R \in Nat \ {0}, NEW r, DOMAIN r = 0 .. R - 1
  PROVE  InCells(R, r, 0, <<>>)
<1>1. <<>> \in Seq({}) /\ Len(<<>>) = 0
  OBVIOUS
<1> QED
  BY <1>1 DEF InCells

\* Writing one entry and going on by one cell.
Grown(R, s, p) == Len(p) = IF Len(s) < R THEN Len(s) + 1 ELSE R

LEMMA CellsPush ==
  ASSUME NEW R \in Nat \ {0}, NEW r, NEW w, NEW s, InCells(R, r, w, s), NEW e
  PROVE  /\ InCells(R, [r EXCEPT ![w] = e], (w + 1) % R, Pushed(R, s, e))
         /\ Grown(R, s, Pushed(R, s, e))
<1>1. PICK S : s \in Seq(S)
  BY DEF InCells
<1>2. PICK n \in 0 .. R : n = Len(s)
  BY <1>1 DEF InCells
<1>3. w \in 0 .. R - 1 /\ DOMAIN r = 0 .. R - 1 /\ (n < R => w = n)
  BY <1>2 DEF InCells
<1>4. PICK v \in 0 .. R - 1 : v = (w + 1) % R /\ v = IF w = R - 1 THEN 0 ELSE w + 1
  <2>1. PICK a \in Nat : a = w + 1 /\ a < 2 * R
    BY <1>3
  <2>2. a % R = IF a < R THEN a ELSE a - R
    BY <2>1, ModSmall
  <2>3. a % R \in 0 .. R - 1 /\ a % R = IF w = R - 1 THEN 0 ELSE w + 1
    BY <1>3, <2>1, <2>2
  <2> QED
    BY <2>1, <2>3
<1>5. PICK p : p = Pushed(R, s, e)
  OBVIOUS
<1>6. /\ p \in Seq(S \cup {e})
      /\ n < R => Len(p) = n + 1 /\ p[n + 1] = e /\ \A i \in 1 .. n : p[i] = s[i]
      /\ n = R => Len(p) = R /\ p[R] = e /\ \A i \in 1 .. R - 1 : p[i] = s[i + 1]
  <2>1. Len(s) <= R
    BY <1>2
  <2>2. AddsLatest(R, S, s, e, p)
    BY <1>1, <1>5, <2>1, PushedFacts
  <2> QED
    BY <1>2, <2>2 DEF AddsLatest
<1>7. PICK q : q = [r EXCEPT ![w] = e]
  OBVIOUS
<1>8. DOMAIN q = 0 .. R - 1 /\ q[w] = e /\ \A k \in 0 .. R - 1 : k # w => q[k] = r[k]
  BY <1>3, <1>7
<1>9. \A i \in 0 .. n - 1 : r[Cell(R, w, n, i)] = s[i + 1]
  BY <1>2 DEF InCells
<1>10. ASSUME NEW i \in 0 .. Len(p) - 1
       PROVE  q[Cell(R, v, Len(p), i)] = p[i + 1]
  <2>1. CASE n < R
    <3>1. Len(p) = n + 1 /\ w = n
      BY <1>3, <1>6, <2>1
    <3>2. Cell(R, v, Len(p), i) = i
      BY <1>4, <2>1, <3>1 DEF Cell
    <3>3. CASE i = n
      BY <1>6, <1>8, <2>1, <3>1, <3>2, <3>3
    <3>4. CASE i # n
      <4>1. i \in 0 .. n - 1 /\ i \in 0 .. R - 1 /\ i # w /\ i + 1 \in 1 .. n
        BY <2>1, <3>1, <3>4
      <4>2. Cell(R, w, n, i) = i
        BY <2>1 DEF Cell
      <4> QED
        BY <1>6, <1>8, <1>9, <2>1, <3>2, <4>1, <4>2
    <3> QED
      BY <3>3, <3>4
  <2>2. CASE n = R
    <3>1. Len(p) = R /\ i \in 0 .. R - 1
      BY <1>6, <2>2
    <3>2. CASE i = R - 1
      <4>1. Cell(R, v, R, i) = w
        BY <1>3, <1>4, <3>2 DEF Cell
      <4> QED
        BY <1>6, <1>8, <2>2, <3>1, <3>2, <4>1
    <3>3. CASE i # R - 1
      <4>1. i + 1 \in 0 .. R - 1 /\ i + 1 \in 1 .. R - 1
        BY <3>1, <3>3
      <4>2. /\ Cell(R, v, R, i) = Cell(R, w, R, i + 1) /\ Cell(R, w, R, i + 1) \in 0 .. R - 1
            /\ Cell(R, w, R, i + 1) # w
        BY <1>3, <1>4, <3>1, <4>1 DEF Cell
      <4>3. r[Cell(R, w, R, i + 1)] = s[i + 1 + 1]
        BY <1>9, <2>2, <4>1
      <4>4. p[i + 1] = s[i + 1 + 1]
        BY <1>6, <2>2, <4>1
      <4> QED
        BY <1>8, <3>1, <4>2, <4>3, <4>4
    <3> QED
      BY <3>2, <3>3
  <2> QED
    BY <1>2, <2>1, <2>2
<1>11. Len(p) = IF n < R THEN n + 1 ELSE R
  BY <1>2, <1>6
<1>12. Len(p) <= R /\ (Len(p) < R => v = Len(p))
  BY <1>3, <1>4, <1>11
<1>13. InCells(R, q, v, p)
  BY <1>6, <1>8, <1>4, <1>10, <1>12 DEF InCells
<1> QED
  BY <1>2, <1>4, <1>5, <1>7, <1>11, <1>13 DEF Grown

\* Reading from the oldest entry on.
ReadsCell(R, r, w, s, i) ==
  /\ i % R = i /\ (Len(s) < R => r[i] = s[i + 1])
  /\ Len(s) = R => r[(w + i) % R] = s[i + 1]

LEMMA CellIs ==
  ASSUME NEW R \in Nat \ {0}, NEW r, NEW w, NEW s, InCells(R, r, w, s), NEW i \in 0 .. Len(s) - 1
  PROVE  ReadsCell(R, r, w, s, i)
<1>1. PICK n \in 0 .. R : n = Len(s) /\ i \in 0 .. n - 1
  BY DEF InCells
<1>2. r[Cell(R, w, n, i)] = s[i + 1] /\ w \in 0 .. R - 1
  BY <1>1 DEF InCells
<1>3. PICK a \in Nat : a = w + i /\ a < 2 * R
  BY <1>1, <1>2
<1>4. PICK m : m = a % R /\ m = IF a < R THEN a ELSE a - R
  BY <1>3, ModSmall
<1>5. i \in Nat /\ i < R /\ i < 2 * R
  BY <1>1
<1>6. i % R = i
  BY <1>5, ModSmall
<1>7. n < R => Cell(R, w, n, i) = i
  BY DEF Cell
<1>8. n = R => Cell(R, w, n, i) = m
  BY <1>1, <1>2, <1>3, <1>4 DEF Cell
<1> QED
  BY <1>1, <1>2, <1>3, <1>4, <1>6, <1>7, <1>8 DEF ReadsCell
====
