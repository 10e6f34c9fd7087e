----------------------------- MODULE SumsProofs ------------------------------
(***************************************************************************)
(* What SumOf computes: the running sum, for sequences of any length.      *)
(*                                                                         *)
(* The library's induction rules take an operator as their parameter and   *)
(* cannot be instantiated.  LeastNatural states the same in first-order    *)
(* form: of the numbers for which a formula fails there is a least one.    *)
(***************************************************************************)
EXTENDS Sums, TLAPS, SequenceTheorems, WellFoundedInduction

LEMMA LeastNatural ==
  ASSUME NEW S \in SUBSET Nat, S # {}
  PROVE  \E n \in S : \A m \in S : n <= m
<1> DEFINE R == {ss \in Nat \X Nat : ss[1] < ss[2]}
<1>1. IsWellFoundedOn(R, Nat)
  BY NatLessThanWellFounded DEF OpToRel
<1>2. \A m, n \in Nat : m < n => <<m, n>> \in R
  OBVIOUS
<1> HIDE DEF R
<1>3. PICK n \in S : \A m \in S : ~ (<<m, n>> \in R)
  BY <1>1, WFMin
<1>4. \A m \in S : ~ (m < n)
  BY <1>2, <1>3
<1> QED BY <1>4

\* Induction up to a bound: if a set of numbers has 0 and never stops below n,
\* it has all of them.
LEMMA UpTo ==
  ASSUME NEW n \in Nat, NEW S, 0 \in S, \A k \in 0..(n - 1) : k \in S => k + 1 \in S
  PROVE  \A k \in 0..n : k \in S
<1> SUFFICES ASSUME NEW j \in 0..n, j \notin S PROVE FALSE
  OBVIOUS
<1> DEFINE Out == {k \in 0..n : k \notin S}
<1>1. Out \in SUBSET Nat /\ Out # {}
  OBVIOUS
<1>2. PICK k \in Out : \A m \in Out : k <= m
  BY <1>1, LeastNatural
<1>3. k \in 0..n /\ k \notin S /\ k # 0
  OBVIOUS
<1>4. k - 1 \in 0..(n - 1) /\ k - 1 \in 0..n /\ ~ (k <= k - 1)
  BY <1>3
<1>5. k - 1 \in S
  BY <1>2, <1>4
<1> QED BY <1>3, <1>4, <1>5

-----------------------------------------------------------------------------

LEMMA MaxOf ==
  ASSUME NEW n \in Nat, NEW S \in SUBSET (1..n), S # {}
  PROVE  Max(S) \in S /\ \A y \in S : Max(S) >= y
<1> DEFINE D == {n - x : x \in S}
<1>1. D \in SUBSET Nat /\ D # {}
  OBVIOUS
<1>2. PICK d \in D : \A e \in D : d <= e
  BY <1>1, LeastNatural
<1>3. PICK x \in S : d = n - x
  OBVIOUS
<1>4. \A y \in S : n - y \in D /\ y \in 1..n
  OBVIOUS
<1>5. ASSUME NEW y \in S PROVE x >= y
  <2>1. n - x <= n - y /\ x \in 1..n /\ y \in 1..n
    BY <1>2, <1>3, <1>4
  <2> QED BY <2>1
<1>6. \E m \in S : \A y \in S : m >= y
  BY <1>5
<1> QED BY <1>6 DEF Max

LEMMA MaxIs ==
  ASSUME NEW n \in Nat, NEW S \in SUBSET (1..n), NEW x \in S, \A y \in S : y <= x
  PROVE  Max(S) = x
<1>1. S # {}
  OBVIOUS
<1>2. Max(S) \in S /\ \A y \in S : Max(S) >= y
  BY <1>1, MaxOf
<1>3. Max(S) \in 1..n /\ x \in 1..n /\ Max(S) >= x /\ Max(S) <= x
  BY <1>2
<1> QED BY <1>3

\* The function by which the fold is defined, on the subsets of 1..k.
IsFold(base, a, k, it) ==
  it = [s \in SUBSET (1..k) |->
          IF s = {} THEN base ELSE it[s \ {Max(s)}] + a[Max(s)]]

LEMMA SumsExist ==
  ASSUME NEW base, NEW a, NEW n \in Nat
  PROVE  \E it : IsFold(base, a, n, it)
<1> DEFINE S == {k \in 0..n : \E it : IsFold(base, a, k, it)}
<1>1. 0 \in S
  <2> DEFINE it == [s \in SUBSET (1..0) |-> base]
  <2>1. \A s \in SUBSET (1..0) : s = {}
    OBVIOUS
  <2>2. IsFold(base, a, 0, it)
    BY <2>1 DEF IsFold
  <2> QED BY <2>2
<1>2. ASSUME NEW k \in 0..(n - 1), k \in S PROVE k + 1 \in S
  <2>1. PICK f : IsFold(base, a, k, f)
    BY <1>2
  <2> DEFINE g == [s \in SUBSET (1..(k + 1)) |->
                     IF k + 1 \in s THEN f[s \ {k + 1}] + a[k + 1] ELSE f[s]]
  <2>2. ASSUME NEW s \in SUBSET (1..(k + 1)), s # {}
        PROVE  g[s] = g[s \ {Max(s)}] + a[Max(s)]
    <3>1. CASE k + 1 \in s
      <4>1. Max(s) = k + 1
        BY <3>1, MaxIs
      <4>2. s \ {k + 1} \in SUBSET (1..k) /\ s \ {k + 1} \in SUBSET (1..(k + 1))
        OBVIOUS
      <4>3. g[s \ {k + 1}] = f[s \ {k + 1}]
        BY <4>2
      <4> QED BY <3>1, <4>1, <4>3
    <3>2. CASE k + 1 \notin s
      <4>1. s \in SUBSET (1..k)
        BY <3>2
      <4>2. Max(s) \in s
        BY <2>2, <4>1, MaxOf
      <4>3. s \ {Max(s)} \in SUBSET (1..k) /\ s \ {Max(s)} \in SUBSET (1..(k + 1))
            /\ k + 1 \notin s \ {Max(s)}
        BY <3>2, <4>1
      <4>4. g[s \ {Max(s)}] = f[s \ {Max(s)}] /\ g[s] = f[s]
        BY <3>2, <4>3
      <4>5. f[s] = f[s \ {Max(s)}] + a[Max(s)]
        BY <2>1, <2>2, <4>1 DEF IsFold
      <4> QED BY <4>4, <4>5
    <3> QED BY <3>1, <3>2
  <2>3. g[{}] = base
    <3>1. f[{}] = base
      BY <2>1 DEF IsFold
    <3> QED BY <3>1
  <2>4. IsFold(base, a, k + 1, g)
    <3>1. g = [s \in SUBSET (1..(k + 1)) |-> g[s]]
      OBVIOUS
    <3>2. \A s \in SUBSET (1..(k + 1)) :
            g[s] = IF s = {} THEN base ELSE g[s \ {Max(s)}] + a[Max(s)]
      BY <2>2, <2>3
    <3> HIDE DEF g
    <3> QED BY <3>1, <3>2 DEF IsFold
  <2> QED BY <2>4
<1> HIDE DEF S
<1>3. n \in S
  BY <1>1, <1>2, UpTo
<1> QED BY <1>3 DEF S

IsPrefixSum(base, a, n, p) ==
  /\ DOMAIN p = 0..n
  /\ p[0] = base
  /\ \A k \in 1..n : p[k] = p[k - 1] + a[k]

\* The fold adds the items up from the first to the last.
LEMMA SumIsPrefix ==
  ASSUME NEW base, NEW n \in Nat, NEW a, DOMAIN a = 1..n
  PROVE  \E p : IsPrefixSum(base, a, n, p) /\ SumOf(base, a) = p[n]
<1> DEFINE it == CHOOSE it : IsFold(base, a, n, it)
           p == [k \in 0..n |-> it[1..k]]
<1>1. IsFold(base, a, n, it)
  BY SumsExist
<1>2. SumOf(base, a) = it[1..n]
  BY DEF SumOf, FoldLeft, MapThenFoldSet, IsFold
<1> HIDE DEF it
<1>3. p[0] = base
  <2>1. 1..0 = {} /\ {} \in SUBSET (1..n)
    OBVIOUS
  <2>2. it[{}] = base
    BY <1>1, <2>1 DEF IsFold
  <2> QED BY <2>1, <2>2
<1>4. ASSUME NEW k \in 1..n PROVE p[k] = p[k - 1] + a[k]
  <2>1. 1..k \in SUBSET (1..n) /\ k \in 1..k /\ \A y \in 1..k : y <= k
    OBVIOUS
  <2>2. Max(1..k) = k
    BY <2>1, MaxIs
  <2>3. (1..k) \ {k} = 1..(k - 1)
    OBVIOUS
  <2>4. \A s \in SUBSET (1..n) : s # {} => it[s] = it[s \ {Max(s)}] + a[Max(s)]
    BY <1>1 DEF IsFold
  <2>5. it[1..k] = it[(1..k) \ {Max(1..k)}] + a[Max(1..k)]
    BY <2>1, <2>4
  <2>6. it[1..k] = it[1..(k - 1)] + a[k]
    BY <2>2, <2>3, <2>5
  <2> QED BY <2>6
<1>5. IsPrefixSum(base, a, n, p)
  BY <1>3, <1>4 DEF IsPrefixSum
<1>6. SumOf(base, a) = p[n]
  BY <1>2
<1> QED BY <1>5, <1>6

LEMMA PrefixUnique ==
  ASSUME NEW base, NEW n \in Nat, NEW a, NEW p, NEW q,
         IsPrefixSum(base, a, n, p), IsPrefixSum(base, a, n, q)
  PROVE  p[n] = q[n]
<1> DEFINE S == {k \in 0..n : p[k] = q[k]}
<1>1. 0 \in S
  BY DEF IsPrefixSum
<1>2. ASSUME NEW k \in 0..(n - 1), k \in S PROVE k + 1 \in S
  <2>1. k + 1 \in 1..n /\ (k + 1) - 1 = k
    OBVIOUS
  <2>2. p[k + 1] = p[k] + a[k + 1] /\ q[k + 1] = q[k] + a[k + 1]
    BY <2>1 DEF IsPrefixSum
  <2> QED BY <1>2, <2>2
<1>3. n \in 0..n
  OBVIOUS
<1> HIDE DEF S
<1>4. n \in S
  BY <1>1, <1>2, <1>3, UpTo
<1> QED BY <1>4 DEF S

\* SumOf is the last of any sequence of running sums.
LEMMA SumByPrefix ==
  ASSUME NEW base, NEW n \in Nat, NEW a, DOMAIN a = 1..n, NEW p, IsPrefixSum(base, a, n, p)
  PROVE  SumOf(base, a) = p[n]
BY SumIsPrefix, PrefixUnique

LEMMA PrefixTyped ==
  ASSUME NEW base \in Int, NEW n \in Nat, NEW a \in [1..n -> Int],
         NEW p, IsPrefixSum(base, a, n, p)
  PROVE  \A k \in 0..n : p[k] \in Int
<1> DEFINE S == {k \in 0..n : p[k] \in Int}
<1>1. 0 \in S
  BY DEF IsPrefixSum
<1>2. ASSUME NEW k \in 0..(n - 1), k \in S PROVE k + 1 \in S
  <2>1. k + 1 \in 1..n /\ (k + 1) - 1 = k
    OBVIOUS
  <2>2. p[k + 1] = p[k] + a[k + 1] /\ a[k + 1] \in Int
    BY <2>1 DEF IsPrefixSum
  <2> QED BY <1>2, <2>2
<1> HIDE DEF S
<1>3. \A k \in 0..n : k \in S
  BY <1>1, <1>2, UpTo
<1> QED BY <1>3 DEF S

-----------------------------------------------------------------------------

(***************************************************************************)
(* The facts to cite.                                                      *)
(***************************************************************************)
LEMMA SumType ==
  ASSUME NEW base \in Int, NEW a \in Seq(Int)
  PROVE  SumOf(base, a) \in Int
<1> DEFINE n == Len(a)
<1>1. n \in Nat /\ DOMAIN a = 1..n /\ a \in [1..n -> Int] /\ n \in 0..n
  OBVIOUS
<1>2. PICK p : IsPrefixSum(base, a, n, p) /\ SumOf(base, a) = p[n]
  BY <1>1, SumIsPrefix
<1> QED BY <1>1, <1>2, PrefixTyped

LEMMA SumOfEmpty ==
  ASSUME NEW base
  PROVE  SumOf(base, <<>>) = base
<1>1. DOMAIN <<>> = 1..0 /\ 0 \in Nat
  OBVIOUS
<1>2. PICK p : IsPrefixSum(base, <<>>, 0, p) /\ SumOf(base, <<>>) = p[0]
  BY <1>1, SumIsPrefix
<1> QED BY <1>2 DEF IsPrefixSum

LEMMA SumOfAppend ==
  ASSUME NEW base, NEW a \in Seq(Int), NEW x \in Int
  PROVE  SumOf(base, Append(a, x)) = SumOf(base, a) + x
<1> DEFINE n == Len(a)
           b == Append(a, x)
<1>1. n \in Nat /\ DOMAIN a = 1..n /\ DOMAIN b = 1..(n + 1) /\ n + 1 \in Nat
  OBVIOUS
<1>2. PICK p : IsPrefixSum(base, a, n, p) /\ SumOf(base, a) = p[n]
  BY <1>1, SumIsPrefix
<1> DEFINE q == [k \in 0..(n + 1) |-> IF k = n + 1 THEN p[n] + x ELSE p[k]]
<1>3. q[0] = base
  BY <1>1, <1>2 DEF IsPrefixSum
<1>4. ASSUME NEW k \in 1..(n + 1) PROVE q[k] = q[k - 1] + b[k]
  <2>1. CASE k = n + 1
    <3>1. b[k] = x
      BY <2>1
    <3> HIDE DEF b, n
    <3>2. k - 1 = n /\ n \in 0..(n + 1) /\ k \in 0..(n + 1) /\ n # n + 1
      BY <1>1, <2>1
    <3>3. q[k] = p[n] + x /\ q[k - 1] = p[n]
      BY <2>1, <3>2
    <3> QED BY <3>1, <3>3
  <2>2. CASE k # n + 1
    <3>1. k \in 1..n /\ b[k] = a[k] /\ q[k] = p[k] /\ q[k - 1] = p[k - 1]
      BY <1>1, <2>2
    <3> QED BY <1>2, <3>1 DEF IsPrefixSum
  <2> QED BY <2>1, <2>2
<1>5. IsPrefixSum(base, b, n + 1, q)
  BY <1>3, <1>4 DEF IsPrefixSum
<1>6. SumOf(base, b) = q[n + 1]
  <2> HIDE DEF b, q, n
  <2> QED BY <1>1, <1>5, SumByPrefix
<1>7. q[n + 1] = p[n] + x
  BY <1>1
<1> QED BY <1>2, <1>6, <1>7

\* One item grows by d: what comes before it is not touched by the change, and
\* the sums from it on grow by d.
LEMMA SumOfChange ==
  ASSUME NEW base \in Int, NEW a \in Seq(Int), NEW i \in DOMAIN a, NEW d \in Int,
         NEW b \in Seq(Int), DOMAIN b = DOMAIN a, b[i] = a[i] + d,
         \A k \in DOMAIN a \ {i} : b[k] = a[k]
  PROVE  SumOf(base, b) = SumOf(base, a) + d
<1> DEFINE n == Len(a)
<1>1. n \in Nat /\ DOMAIN a = 1..n /\ DOMAIN b = 1..n /\ i \in 1..n /\ a \in [1..n -> Int] /\ n \in 0..n
  OBVIOUS
<1>2. PICK p : IsPrefixSum(base, a, n, p) /\ SumOf(base, a) = p[n]
  <2>1. n \in Nat /\ DOMAIN a = 1..n
    BY <1>1
  <2> HIDE DEF n
  <2> QED BY ONLY <2>1, SumIsPrefix
<1>3. \A k \in 0..n : p[k] \in Int
  BY <1>1, <1>2, PrefixTyped
<1> DEFINE q == [k \in 0..n |-> IF k < i THEN p[k] ELSE p[k] + d]
<1>4. q[0] = base
  BY <1>1, <1>2 DEF IsPrefixSum
<1>5. ASSUME NEW k \in 1..n PROVE q[k] = q[k - 1] + b[k]
  <2>1. p[k] = p[k - 1] + a[k] /\ k \in 0..n /\ k - 1 \in 0..n
    BY <1>2 DEF IsPrefixSum
  <2>2. a[k] \in Int /\ p[k] \in Int /\ p[k - 1] \in Int
    BY <1>1, <1>3, <2>1
  <2> HIDE DEF n
  <2>3. CASE k < i
    <3>1. b[k] = a[k] /\ q[k] = p[k] /\ q[k - 1] = p[k - 1]
      BY <1>1, <2>1, <2>3
    <3> QED BY <2>1, <3>1
  <2>4. CASE k = i
    <3>1. b[k] = a[k] + d /\ q[k] = p[k] + d /\ q[k - 1] = p[k - 1]
      BY <1>1, <2>1, <2>4
    <3>2. (p[k - 1] + a[k]) + d = p[k - 1] + (a[k] + d)
      BY <2>2
    <3> HIDE DEF q
    <3> QED BY <2>1, <3>1, <3>2
  <2>5. CASE k > i
    <3>1. b[k] = a[k] /\ q[k] = p[k] + d /\ q[k - 1] = p[k - 1] + d
      BY <1>1, <2>1, <2>5
    <3>2. (p[k - 1] + a[k]) + d = (p[k - 1] + d) + a[k]
      BY <2>2
    <3> HIDE DEF q
    <3> QED BY <2>1, <3>1, <3>2
  <2>6. k < i \/ k = i \/ k > i
    BY <1>1
  <2> QED BY <2>3, <2>4, <2>5, <2>6
<1>6. IsPrefixSum(base, b, n, q)
  BY <1>4, <1>5 DEF IsPrefixSum
<1>7. SumOf(base, b) = q[n]
  <2> HIDE DEF q, n
  <2> QED BY <1>1, <1>6, SumByPrefix
<1>8. q[n] = p[n] + d
  BY <1>1
<1> QED BY <1>2, <1>7, <1>8
=============================================================================
