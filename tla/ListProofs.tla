------------------------------ MODULE ListProofs ------------------------------
(***************************************************************************)
(* Lemmas about lists and numbers that the other proofs share: induction   *)
(* up to a bound and functions defined by recursion up to one, least and   *)
(* greatest numbers of a set, and what Kept, the filter of Lists, returns. *)
(***************************************************************************)
EXTENDS Lists, SequencesExt, SequenceTheorems, FiniteSetTheorems, WellFoundedInduction, TLAPS

-----------------------------------------------------------------------------
(* Induction over the natural numbers, as a set that has a least element.  *)
Less == {pair \in Nat \X Nat : pair[1] < pair[2]}

LEMMA Smallest ==
  ASSUME NEW T, T \subseteq Nat, T # {}
  PROVE  \E m \in T : \A k \in T : m <= k
<1>1. IsWellFoundedOn(Less, Nat)
  BY NatLessThanWellFounded, Zenon DEF OpToRel, Less
<1>2. \A R, S : IsWellFoundedOn(R, S)
        => \A U : U \subseteq S /\ U # {} => \E x \in U : \A y \in U : ~ (<<y, x>> \in R)
  BY WFMin, Zenon
<1>3. PICK x \in T : \A y \in T : ~ (<<y, x>> \in Less)
  <2> HIDE DEF Less
  <2> QED BY <1>1, <1>2
<1>4. \A y \in T : <<y, x>> \in Less <=> y < x
  BY DEF Less
<1>5. \A y \in T : y \in Nat /\ x \in Nat /\ (~(y < x) => x <= y)
  OBVIOUS
<1> QED
  BY <1>3, <1>4, <1>5


LEMMA MinIn == ASSUME NEW I, I \subseteq Nat, I # {} PROVE Min(I) \in I /\ \A i \in I : Min(I) <= i
<1>1. \E x \in I : \A y \in I : x <= y
  BY Smallest
<1> QED
  BY <1>1 DEF Min

\* A set of numbers with a bound has a greatest element.
LEMMA MaxIn ==
  ASSUME NEW I, I \subseteq Nat, I # {}, NEW b \in Nat, \A i \in I : i <= b
  PROVE  Max(I) \in I /\ \A i \in I : i <= Max(I)
<1> DEFINE Bounds == {n \in Nat : \A i \in I : i <= n}
<1>1. PICK m \in Bounds : \A n \in Bounds : m <= n
  <2>1. Bounds \subseteq Nat /\ b \in Bounds
    OBVIOUS
  <2> HIDE DEF Bounds
  <2> QED
    BY <2>1, Smallest
<1>2. m \in I
  <2>1. SUFFICES ASSUME m \notin I PROVE FALSE
    OBVIOUS
  <2>2. PICK i \in I : TRUE
    OBVIOUS
  <2>3. \A j \in I : j \in Nat /\ j <= m /\ j # m
    BY <1>1, <2>1
  <2>4. m - 1 \in Nat /\ \A j \in I : j <= m - 1
    BY <1>1, <2>2, <2>3
  <2>5. m <= m - 1
    BY <1>1, <2>4
  <2> QED
    BY <1>1, <2>5
<1>3. m \in I /\ \A y \in I : m >= y
  BY <1>1, <1>2
<1>4. Max(I) \in I /\ \A y \in I : Max(I) >= y
  BY <1>3 DEF Max
<1> QED
  BY <1>4

(* What holds at first and is kept by each step holds up to any bound.     *)
LEMMA UpTo ==
  ASSUME NEW N \in Nat, NEW P, 0 \in P, \A n \in 1..N : n - 1 \in P => n \in P
  PROVE  \A n \in 0..N : n \in P
<1> DEFINE Bad == {n \in 0..N : n \notin P}
<1>1. SUFFICES ASSUME Bad # {} PROVE FALSE
  OBVIOUS
<1>2. PICK n \in Bad : \A k \in Bad : n <= k
  <2>1. Bad \subseteq Nat
    OBVIOUS
  <2> HIDE DEF Bad
  <2> QED
    BY <1>1, <2>1, Smallest
<1>3. n # 0 /\ n \in 1..N /\ n - 1 \in 0..N /\ ~ (n <= n - 1)
  BY <1>2
<1>4. n - 1 \in P
  BY <1>2, <1>3
<1> QED
  BY <1>2, <1>3, <1>4

(* A function that is defined by recursion up to a bound exists.           *)
Recurs(f, N, V, base, step) ==
  f \in [0..N -> V] /\ f[0] = base /\ \A k \in 1..N : f[k] = step[<<k, f[k - 1]>>]

LEMMA Recursion ==
  ASSUME NEW N \in Nat, NEW V, NEW base \in V, NEW step \in [(1..N) \X V -> V]
  PROVE  \E f : Recurs(f, N, V, base, step)
<1> DEFINE Right(f, n) ==
             f \in [0..n -> V] /\ f[0] = base /\ \A k \in 1..n : f[k] = step[<<k, f[k - 1]>>]
           P == {n \in 0..N : \E f : Right(f, n)}
<1>1. 0 \in P
  <2>1. Right([k \in 0..0 |-> base], 0)
    OBVIOUS
  <2> HIDE DEF Right
  <2> QED
    BY <2>1
<1>2. ASSUME NEW n \in 1..N, n - 1 \in P PROVE n \in P
  <2>1. PICK g : Right(g, n - 1)
    BY <1>2
  <2> DEFINE h == [k \in 0..n |-> IF k = n THEN step[<<n, g[n - 1]>>] ELSE g[k]]
  <2>2. n - 1 \in 0..(n - 1) /\ g[n - 1] \in V /\ step[<<n, g[n - 1]>>] \in V
    BY <2>1
  <2>3. \A k \in 0..n : k = n \/ k \in 0..(n - 1)
    OBVIOUS
  <2>4. \A k \in 0..(n - 1) : k # n /\ k \in 0..n /\ h[k] = g[k] /\ g[k] \in V
    BY <2>1
  <2>5. h[n] = step[<<n, g[n - 1]>>]
    OBVIOUS
  <2>6. h \in [0..n -> V]
    BY <2>1, <2>2, <2>3
  <2> HIDE DEF h
  <2>7. \A k \in 1..n : h[k] = step[<<k, h[k - 1]>>]
    <3> TAKE k \in 1..n
    <3>1. k - 1 \in 0..(n - 1) /\ h[k - 1] = g[k - 1]
      BY <2>4
    <3>2. CASE k = n
      BY <3>1, <3>2, <2>5
    <3>3. CASE k # n
      <4>1. k \in 1..(n - 1) /\ k \in 0..(n - 1)
        BY <3>3
      <4>2. g[k] = step[<<k, g[k - 1]>>] /\ h[k] = g[k]
        BY <4>1, <2>1, <2>4
      <4> QED
        BY <3>1, <4>2
    <3> QED
      BY <3>2, <3>3
  <2>8. h[0] = base
    <3>1. 0 \in 0..(n - 1)
      OBVIOUS
    <3> QED
      BY <2>1, <2>4, <3>1
  <2> QED
    BY <2>6, <2>7, <2>8
<1>3. N \in 0..N /\ \A n \in 0..N : n \in P
  <2> HIDE DEF P
  <2> QED
    BY <1>1, <1>2, UpTo
<1> QED
  BY <1>3 DEF Recurs

-----------------------------------------------------------------------------
(* The function Kept is defined by, and the positions its result stands for. *)
Collects(f, s, I, n) ==
  f = [k \in 0..n |-> IF k = 0 THEN <<>>
                      ELSE IF k \in I THEN Append(f[k - 1], s[k]) ELSE f[k - 1]]

LEMMA CollectsExists ==
  ASSUME NEW s, NEW I, NEW N \in Nat
  PROVE  \E f : Collects(f, s, I, N)
<1> DEFINE Bad == {n \in 0..N : ~ \E f : Collects(f, s, I, n)}
<1>1. SUFFICES ASSUME Bad # {} PROVE FALSE
  OBVIOUS
<1>2. PICK n \in Bad : \A k \in Bad : n <= k
  <2>1. Bad \subseteq Nat
    OBVIOUS
  <2> QED
    BY <1>1, <2>1, Smallest
<1>3. n # 0
  <2>1. Collects([k \in 0..0 |-> <<>>], s, I, 0)
    BY DEF Collects
  <2> QED
    BY <2>1
<1>4. PICK g : Collects(g, s, I, n - 1)
  <2>1. n - 1 \in 0..N /\ ~ (n <= n - 1)
    BY <1>3
  <2> QED
    BY <1>2, <2>1
<1> DEFINE last == IF n \in I THEN Append(g[n - 1], s[n]) ELSE g[n - 1]
           h == [k \in 0..n |-> IF k = n THEN last ELSE g[k]]
<1>5. Collects(h, s, I, n)
  <2>1. \A k \in 0..(n - 1) : h[k] = g[k]
    OBVIOUS
  <2>2. ASSUME NEW k \in 0..n
        PROVE h[k] = IF k = 0 THEN <<>>
                     ELSE IF k \in I THEN Append(h[k - 1], s[k]) ELSE h[k - 1]
    <3>1. CASE k = n
      <4>1. h[k - 1] = g[k - 1]
        BY <2>1, <3>1, <1>3
      <4> QED
        BY <3>1, <4>1, <1>3
    <3>2. CASE k # n
      <4>1. k \in 0..(n - 1) /\ h[k] = g[k]
        BY <3>2
      <4>2. g[k] = IF k = 0 THEN <<>>
                   ELSE IF k \in I THEN Append(g[k - 1], s[k]) ELSE g[k - 1]
        BY <1>4, <4>1 DEF Collects
      <4>3. k # 0 => h[k - 1] = g[k - 1]
        BY <2>1, <4>1
      <4> QED
        BY <4>1, <4>2, <4>3
    <3> QED
      BY <3>1, <3>2
  <2> QED
    BY <2>2 DEF Collects
<1> QED
  BY <1>5

\* k has the elements of s at the positions I up to n, in their order; at says where.
KeptAt(k, at, s, I, n) ==
  /\ at \in [1..Len(k) -> I \cap 1..n]
  /\ \A i \in 1..Len(k) : k[i] = s[at[i]]
  /\ \A i, j \in 1..Len(k) : i < j => at[i] < at[j]
  /\ \A p \in I \cap 1..n : \E i \in 1..Len(k) : at[i] = p

LEMMA KeptAtNext ==
  ASSUME NEW S, NEW s \in Seq(S), NEW I, NEW n \in 1..Len(s), NEW k \in Seq(S), NEW at,
         KeptAt(k, at, s, I, n - 1), Len(k) <= n - 1
  PROVE  LET new == IF n \in I THEN Append(k, s[n]) ELSE k
         IN /\ new \in Seq(S) /\ Len(new) <= n
            /\ \E h : KeptAt(new, h, s, I, n)
<1>1. CASE n \notin I
  <2>1. I \cap 1..n = I \cap 1..(n - 1)
    BY <1>1
  <2>2. KeptAt(k, at, s, I, n)
    BY <2>1 DEF KeptAt
  <2> QED
    BY <1>1, <2>2
<1>2. CASE n \in I
  <2> DEFINE new == Append(k, s[n])
             h == [i \in 1..Len(new) |-> IF i = Len(new) THEN n ELSE at[i]]
  <2>1. /\ new \in Seq(S) /\ Len(new) = Len(k) + 1 /\ new[Len(new)] = s[n]
        /\ \A i \in 1..Len(k) : new[i] = k[i]
    OBVIOUS
  <2>2. \A i \in 1..Len(k) : h[i] = at[i] /\ at[i] \in I \cap 1..(n - 1) /\ i # Len(new)
    <3>1. \A i \in 1..Len(k) : i \in 1..Len(new) /\ i # Len(new)
      BY <2>1
    <3>2. \A i \in 1..Len(k) : h[i] = at[i]
      <4> HIDE DEF new
      <4> QED BY <3>1
    <3>3. \A i \in 1..Len(k) : at[i] \in I \cap 1..(n - 1)
      BY DEF KeptAt
    <3> QED
      BY <3>1, <3>2, <3>3
  <2>3. h[Len(new)] = n /\ Len(new) \in 1..Len(new) /\ Len(k) \in Nat
    BY <2>1
  <2>4. \A i \in 1..Len(new) : i = Len(new) \/ i \in 1..Len(k)
    BY <2>1
  <2> HIDE DEF new, h
  <2>5. h \in [1..Len(new) -> I \cap 1..n]
    <3>1. \A i \in 1..Len(new) : h[i] \in I \cap 1..n
      BY <2>2, <2>3, <2>4, <1>2
    <3> QED
      BY <3>1 DEF h
  <2>6. \A i \in 1..Len(new) : new[i] = s[h[i]]
    BY <2>1, <2>2, <2>3, <2>4 DEF KeptAt
  <2>7. ASSUME NEW i \in 1..Len(new), NEW j \in 1..Len(new), i < j PROVE h[i] < h[j]
    <3>1. i \in 1..Len(k)
      BY <2>1, <2>7
    <3>2. CASE j = Len(new)
      BY <2>2, <2>3, <3>1, <3>2
    <3>3. CASE j \in 1..Len(k)
      BY <2>2, <2>7, <3>1, <3>3 DEF KeptAt
    <3> QED
      BY <2>4, <3>2, <3>3
  <2>8. ASSUME NEW p \in I \cap 1..n PROVE \E i \in 1..Len(new) : h[i] = p
    <3>1. CASE p = n
      BY <2>3, <3>1
    <3>2. CASE p # n
      <4>0. p \in I \cap 1..(n - 1)
        BY <2>8, <3>2
      <4>1. PICK i \in 1..Len(k) : at[i] = p
        BY <4>0 DEF KeptAt
      <4> QED
        BY <4>1, <2>1, <2>2
    <3> QED
      BY <3>1, <3>2
  <2>9. KeptAt(new, h, s, I, n)
    BY <2>5, <2>6, <2>7, <2>8 DEF KeptAt
  <2> QED
    BY <1>2, <2>1, <2>9 DEF new
<1> QED
  BY <1>1, <1>2

(* What filtering returns: some of the elements, those at the positions it *)
(* was asked for, in their order (Array.prototype.filter).                 *)
LEMMA KeptFacts ==
  ASSUME NEW S, NEW s \in Seq(S), NEW I
  PROVE  /\ Kept(s, I) \in Seq(S) /\ Len(Kept(s, I)) <= Len(s)
         /\ \E at : KeptAt(Kept(s, I), at, s, I, Len(s))
<1> DEFINE f == CHOOSE g : Collects(g, s, I, Len(s))
           Right(n) == /\ f[n] \in Seq(S) /\ Len(f[n]) <= n
                       /\ \E at : KeptAt(f[n], at, s, I, n)
           Bad == {n \in 0..Len(s) : ~ Right(n)}
<1>1. Collects(f, s, I, Len(s))
  BY CollectsExists
<1>2. Kept(s, I) = f[Len(s)]
  BY DEF Kept, Collects
<1>3. \A n \in 0..Len(s) :
        f[n] = IF n = 0 THEN <<>> ELSE IF n \in I THEN Append(f[n - 1], s[n]) ELSE f[n - 1]
  <2> HIDE DEF f
  <2> QED
    BY <1>1 DEF Collects
<1> HIDE DEF f
<1>4. Bad = {}
  <2>1. SUFFICES ASSUME Bad # {} PROVE FALSE
    OBVIOUS
  <2>2. PICK n \in Bad : \A k \in Bad : n <= k
    <3>1. Bad \subseteq Nat
      OBVIOUS
    <3> QED
      BY <2>1, <3>1, Smallest
  <2>3. Right(0)
    <3>1. f[0] = <<>>
      BY <1>3
    <3>2. KeptAt(<<>>, <<>>, s, I, 0)
      BY DEF KeptAt
    <3> QED
      BY <3>1, <3>2
  <2>4. n # 0 /\ n \in 1..Len(s) /\ n - 1 \in 0..Len(s) /\ ~ (n <= n - 1)
    BY <2>2, <2>3
  <2>5. Right(n - 1)
    BY <2>2, <2>4
  <2>6. Right(n)
    <3>1. PICK at : KeptAt(f[n - 1], at, s, I, n - 1)
      BY <2>5
    <3>2. LET new == IF n \in I THEN Append(f[n - 1], s[n]) ELSE f[n - 1]
          IN /\ new \in Seq(S) /\ Len(new) <= n
             /\ \E h : KeptAt(new, h, s, I, n)
      BY <3>1, <2>4, <2>5, KeptAtNext
    <3>3. f[n] = IF n \in I THEN Append(f[n - 1], s[n]) ELSE f[n - 1]
      BY <2>4, <1>3
    <3> QED
      BY <3>2, <3>3
  <2> QED
    BY <2>2, <2>6
<1> QED
  BY <1>2, <1>4

\* Filtering stands for the value of such a function at the last position.
LEMMA KeptIs ==
  ASSUME NEW S, NEW s \in Seq(S), NEW I
  PROVE  \E f : Collects(f, s, I, Len(s)) /\ Kept(s, I) = f[Len(s)]
<1> DEFINE f == CHOOSE g : Collects(g, s, I, Len(s))
<1>1. Collects(f, s, I, Len(s))
  BY CollectsExists
<1>2. Kept(s, I) = f[Len(s)]
  BY DEF Kept, Collects
<1> HIDE DEF f
<1> QED
  BY <1>1, <1>2

Agree(I, J, n) == I \cap 1..n = J \cap 1..n

\* What is collected up to a position depends on the positions up to it.
LEMMA CollectsSame ==
  ASSUME NEW s, NEW I, NEW J, NEW N \in Nat, NEW n \in 0..N, Agree(I, J, n),
         NEW f, Collects(f, s, I, N), NEW g, Collects(g, s, J, N)
  PROVE  f[n] = g[n]
<1> DEFINE P == {k \in 0..n : f[k] = g[k]}
<1>1. 0 \in P
  BY DEF Collects
<1>2. ASSUME NEW k \in 1..n, k - 1 \in P PROVE k \in P
  <2>1. k \in 0..N /\ k # 0 /\ (k \in I <=> k \in J)
    BY DEF Agree
  <2>2. f[k] = IF k \in I THEN Append(f[k - 1], s[k]) ELSE f[k - 1]
    BY <2>1 DEF Collects
  <2>3. g[k] = IF k \in J THEN Append(g[k - 1], s[k]) ELSE g[k - 1]
    BY <2>1 DEF Collects
  <2> QED
    BY <1>2, <2>1, <2>2, <2>3
<1>3. n \in P
  <2> HIDE DEF P
  <2>1. \A k \in 0..n : k \in P
    BY <1>1, <1>2, UpTo
  <2> QED
    BY <2>1
<1> QED
  BY <1>3

\* Positions that are not asked for add nothing.
LEMMA CollectsNoMore ==
  ASSUME NEW s, NEW I, NEW N \in Nat, NEW n \in 0..N, Agree(I, I \cap 1..n, N),
         NEW f, Collects(f, s, I, N)
  PROVE  f[N] = f[n]
<1> DEFINE P == {k \in 0..N : k >= n => f[k] = f[n]}
<1>1. 0 \in P
  <2>1. 0 >= n => n = 0
    OBVIOUS
  <2> QED
    BY <2>1
<1>2. ASSUME NEW k \in 1..N, k - 1 \in P PROVE k \in P
  <2>1. CASE k <= n
    <3>1. k >= n => k = n
      BY <2>1
    <3> QED
      BY <3>1
  <2>2. CASE ~(k <= n)
    <3>1. k \in (n + 1)..N /\ k - 1 >= n /\ k # 0 /\ k \in 0..N
      BY <2>2
    <3>2. k \notin I
      BY <3>1 DEF Agree
    <3>3. f[k] = f[k - 1]
      BY <3>1, <3>2 DEF Collects
    <3> QED
      BY <1>2, <3>1, <3>3
  <2> QED
    BY <2>1, <2>2
<1>3. N \in P
  <2> HIDE DEF P
  <2>1. \A k \in 0..N : k \in P
    BY <1>1, <1>2, UpTo
  <2> QED
    BY <2>1
<1> QED
  BY <1>3

(* The same positions give the same elements, none give none, and one more *)
(* position that comes after all others adds its element at the end.       *)
LEMMA KeptSame ==
  ASSUME NEW S, NEW s \in Seq(S), NEW I, NEW J, I \cap 1..Len(s) = J \cap 1..Len(s)
  PROVE  Kept(s, I) = Kept(s, J)
<1>1. PICK f : Collects(f, s, I, Len(s)) /\ Kept(s, I) = f[Len(s)]
  BY KeptIs, Zenon
<1>2. PICK g : Collects(g, s, J, Len(s)) /\ Kept(s, J) = g[Len(s)]
  BY KeptIs, Zenon
<1>3. Len(s) \in Nat /\ Len(s) \in 0..Len(s) /\ Agree(I, J, Len(s))
  BY DEF Agree
<1>4. f[Len(s)] = g[Len(s)]
  BY <1>1, <1>2, <1>3, CollectsSame
<1> QED
  BY <1>1, <1>2, <1>4

LEMMA KeptNone ==
  ASSUME NEW S, NEW s \in Seq(S), NEW I, I \cap 1..Len(s) = {}
  PROVE  Kept(s, I) = <<>>
<1>1. PICK f : Collects(f, s, I, Len(s)) /\ Kept(s, I) = f[Len(s)]
  BY KeptIs, Zenon
<1>2. Len(s) \in Nat /\ 0 \in 0..Len(s) /\ Agree(I, I \cap 1..0, Len(s))
  BY DEF Agree
<1>3. f[Len(s)] = f[0]
  BY <1>1, <1>2, CollectsNoMore
<1> QED
  BY <1>1, <1>2, <1>3 DEF Collects

LEMMA KeptNext ==
  ASSUME NEW S, NEW s \in Seq(S), NEW n \in 1..Len(s), NEW I, I \cap n..Len(s) = {}
  PROVE  Kept(s, I \cup {n}) = Append(Kept(s, I), s[n])
<1> DEFINE N == Len(s)
           J == I \cup {n}
<1>1. PICK f : Collects(f, s, I, N) /\ Kept(s, I) = f[N]
  BY KeptIs, Zenon
<1>2. PICK g : Collects(g, s, J, N) /\ Kept(s, J) = g[N]
  BY KeptIs, Zenon
<1>3. /\ N \in Nat /\ n \in 0..N /\ n - 1 \in 0..N /\ n # 0
      /\ Agree(J, J \cap 1..n, N) /\ Agree(I, I \cap 1..(n - 1), N) /\ Agree(I, J, n - 1)
      /\ n \in J
  BY DEF Agree
<1> HIDE DEF N, J
<1>4. g[N] = g[n]
  BY <1>2, <1>3, CollectsNoMore
<1>5. f[N] = f[n - 1]
  BY <1>1, <1>3, CollectsNoMore
<1>6. g[n] = Append(g[n - 1], s[n])
  <2>1. g[n] = IF n = 0 THEN <<>> ELSE IF n \in J THEN Append(g[n - 1], s[n]) ELSE g[n - 1]
    BY <1>2, <1>3 DEF Collects
  <2> QED
    BY <2>1, <1>3
<1>7. f[n - 1] = g[n - 1]
  BY <1>1, <1>2, <1>3, CollectsSame
<1> QED
  BY <1>1, <1>2, <1>4, <1>5, <1>6, <1>7 DEF J

\* The positions up to n, where n is or is not asked for.
LEMMA KeptStep ==
  ASSUME NEW S, NEW s \in Seq(S), NEW n \in 1..Len(s), NEW I
  PROVE  /\ n \in I => Kept(s, I \cap 1..n) = Append(Kept(s, I \cap 1..(n - 1)), s[n])
         /\ n \notin I => Kept(s, I \cap 1..n) = Kept(s, I \cap 1..(n - 1))
<1>1. CASE n \in I
  <2>1. I \cap 1..n = (I \cap 1..(n - 1)) \cup {n} /\ (I \cap 1..(n - 1)) \cap n..Len(s) = {}
    BY <1>1
  <2>2. Kept(s, (I \cap 1..(n - 1)) \cup {n}) = Append(Kept(s, I \cap 1..(n - 1)), s[n])
    BY <2>1, KeptNext, Zenon
  <2> QED
    BY <1>1, <2>1, <2>2
<1>2. CASE n \notin I
  <2>1. I \cap 1..n = I \cap 1..(n - 1)
    BY <1>2
  <2> QED
    BY <1>2, <2>1
<1> QED
  BY <1>1, <1>2

Stepwise(s, I) ==
  \A n \in 1..Len(s) :
    /\ n \in I => Kept(s, I \cap 1..n) = Append(Kept(s, I \cap 1..(n - 1)), s[n])
    /\ n \notin I => Kept(s, I \cap 1..n) = Kept(s, I \cap 1..(n - 1))

LEMMA KeptSteps == ASSUME NEW S, NEW s \in Seq(S), NEW I PROVE Stepwise(s, I)
<1> SUFFICES ASSUME NEW n \in 1..Len(s)
             PROVE  /\ n \in I => Kept(s, I \cap 1..n) = Append(Kept(s, I \cap 1..(n - 1)), s[n])
                    /\ n \notin I => Kept(s, I \cap 1..n) = Kept(s, I \cap 1..(n - 1))
  BY Zenon DEF Stepwise
<1> QED
  BY KeptStep, ZenonT(60)

LEMMA KeptIn ==
  ASSUME NEW S, NEW s \in Seq(S), NEW I
  PROVE  Kept(s, I) \in Seq(S)
BY KeptFacts

(* Elements at positions that come before others come before theirs.       *)
LEMMA KeptConcat ==
  ASSUME NEW S, NEW s \in Seq(S), NEW I, NEW J,
         \A i \in I \cap 1..Len(s), j \in J \cap 1..Len(s) : i < j
  PROVE  Kept(s, I \cup J) = Kept(s, I) \o Kept(s, J)
<1> DEFINE U == I \cup J
           P == {n \in 0..Len(s) :
                  Kept(s, U \cap 1..n) = Kept(s, I \cap 1..n) \o Kept(s, J \cap 1..n)}
<1>0. \A A : Kept(s, A) \in Seq(S)
  BY KeptIn, Zenon
<1>1. 0 \in P
  <2>1. \A A : Kept(s, A \cap 1..0) = <<>>
    <3>1. \A A : (A \cap 1..0) \cap 1..Len(s) = {}
      OBVIOUS
    <3> QED
      BY <3>1, KeptNone, Zenon
  <2>2. <<>> \o <<>> = <<>>
    OBVIOUS
  <2>3. 0 \in 0..Len(s)
    OBVIOUS
  <2> QED
    BY <2>1, <2>2, <2>3, Zenon
<1>2. ASSUME NEW n \in 1..Len(s), n - 1 \in P PROVE n \in P
  <2> DEFINE a == Kept(s, I \cap 1..(n - 1))
             b == Kept(s, J \cap 1..(n - 1))
  <2>1. Kept(s, U \cap 1..(n - 1)) = a \o b /\ a \in Seq(S) /\ b \in Seq(S) /\ s[n] \in S
    <3>1. Kept(s, U \cap 1..(n - 1)) = a \o b
      BY <1>2
    <3>2. a \in Seq(S) /\ b \in Seq(S)
      BY <1>0, Zenon
    <3>3. s[n] \in S
      OBVIOUS
    <3> QED
      BY <3>1, <3>2, <3>3, Zenon
  <2>2. n \in 0..Len(s)
    OBVIOUS
  <2>3. CASE n \in J
    <3>1. n \notin I /\ n \in U
      BY <2>3
    <3>2. /\ Kept(s, U \cap 1..n) = Append(Kept(s, U \cap 1..(n - 1)), s[n])
          /\ Kept(s, I \cap 1..n) = a
          /\ Kept(s, J \cap 1..n) = Append(b, s[n])
      BY <2>3, <3>1, KeptStep, ZenonT(60)
    <3>3. Append(a \o b, s[n]) = a \o Append(b, s[n])
      <4>1. \A x, y \in Seq(S), e \in S : Append(x \o y, e) = x \o Append(y, e)
        <5> TAKE x, y \in Seq(S), e \in S
        <5>1. Append(x \o y, e) = (x \o y) \o <<e>> /\ Append(y, e) = y \o <<e>> /\ <<e>> \in Seq(S)
          BY AppendIsConcat, ConcatProperties
        <5>2. (x \o y) \o <<e>> = x \o (y \o <<e>>)
          BY <5>1, ConcatAssociative, SMTT(40)
        <5> QED
          BY <5>1, <5>2
      <4> QED
        BY <2>1, <4>1, Zenon
    <3> QED
      BY <2>1, <2>2, <3>2, <3>3, Zenon
  <2>4. CASE n \in I /\ n \notin J
    <3>1. (J \cap 1..n) \cap 1..Len(s) = {} /\ (J \cap 1..(n - 1)) \cap 1..Len(s) = {}
      <4>1. \A j \in J \cap 1..Len(s) : j \in Nat /\ n \in Nat /\ n < j
        BY <2>4
      <4> QED
        BY <4>1
    <3>2. Kept(s, J \cap 1..n) = <<>> /\ b = <<>>
      BY <3>1, KeptNone, Zenon
    <3>3. n \in U
      BY <2>4
    <3>4. /\ Kept(s, U \cap 1..n) = Append(Kept(s, U \cap 1..(n - 1)), s[n])
          /\ Kept(s, I \cap 1..n) = Append(a, s[n])
      BY <2>4, <3>3, KeptStep, ZenonT(60)
    <3>5. a \o <<>> = a /\ Append(a, s[n]) \o <<>> = Append(a, s[n])
      <4> HIDE DEF a
      <4> QED
        BY <2>1
    <3> QED
      BY <2>1, <2>2, <3>2, <3>4, <3>5, Zenon
  <2>5. CASE n \notin I /\ n \notin J
    <3>1. n \notin U
      BY <2>5
    <3>2. Kept(s, U \cap 1..n) = Kept(s, U \cap 1..(n - 1))
      BY <3>1, KeptStep, ZenonT(60)
    <3>3. Kept(s, I \cap 1..n) = a
      BY <2>5, KeptStep, ZenonT(60)
    <3>4. Kept(s, J \cap 1..n) = b
      BY <2>5, KeptStep, ZenonT(60)
    <3> QED
      BY <2>1, <2>2, <3>2, <3>3, <3>4, Zenon
  <2> QED
    BY <2>3, <2>4, <2>5
<1>3. Len(s) \in P
  <2>1. Len(s) \in Nat /\ Len(s) \in 0..Len(s)
    OBVIOUS
  <2> HIDE DEF P
  <2>2. \A n \in 0..Len(s) : n \in P
    BY <1>1, <1>2, <2>1, UpTo
  <2> QED
    BY <2>1, <2>2
<1>4. \A A : Kept(s, A \cap 1..Len(s)) = Kept(s, A)
  <2>1. \A A : (A \cap 1..Len(s)) \cap 1..Len(s) = A \cap 1..Len(s)
    OBVIOUS
  <2> QED
    BY <2>1, KeptSame, Zenon
<1> QED
  BY <1>3, <1>4

\* Elements that are next to each other are a part of the list.
LEMMA KeptRange ==
  ASSUME NEW S, NEW s \in Seq(S), NEW a \in 0..Len(s), NEW b \in a..Len(s)
  PROVE  Kept(s, (a + 1)..b) = SubSeq(s, a + 1, b)
<1> DEFINE P == {n \in 0..Len(s) : n >= a => Kept(s, (a + 1)..n) = SubSeq(s, a + 1, n)}
<1>1. \A n \in 0..Len(s) : n <= a => Kept(s, (a + 1)..n) = <<>> /\ SubSeq(s, a + 1, n) = <<>>
  <2> TAKE n \in 0..Len(s)
  <2> HAVE n <= a
  <2>1. ((a + 1)..n) \cap 1..Len(s) = {} /\ n < a + 1 /\ a + 1 \in Int /\ n \in Int
    OBVIOUS
  <2>2. Kept(s, (a + 1)..n) = <<>>
    BY <2>1, KeptNone, Zenon
  <2>3. SubSeq(s, a + 1, n) = <<>>
    BY <2>1, SubSeqEmpty, Zenon
  <2> QED
    BY <2>2, <2>3, Zenon
<1>2. 0 \in P
  <2>1. 0 \in 0..Len(s) /\ (0 >= a => 0 <= a)
    OBVIOUS
  <2> QED
    BY <1>1, <2>1, Zenon
<1>3. ASSUME NEW n \in 1..Len(s), n - 1 \in P PROVE n \in P
  <2>1. CASE n <= a
    <3>1. n \in 0..Len(s)
      OBVIOUS
    <3> QED
      BY <1>1, <2>1, <3>1, Zenon
  <2>2. CASE n > a
    <3>1. /\ (a + 1)..n = ((a + 1)..(n - 1)) \cup {n} /\ ((a + 1)..(n - 1)) \cap n..Len(s) = {}
          /\ n - 1 >= a /\ a + 1 \in 1..Len(s) /\ n \in (a + 1)..Len(s)
      BY <2>2
    <3>2. Kept(s, ((a + 1)..(n - 1)) \cup {n}) = Append(Kept(s, (a + 1)..(n - 1)), s[n])
      BY <3>1, KeptNext, Zenon
    <3>3. Kept(s, (a + 1)..(n - 1)) = SubSeq(s, a + 1, n - 1)
      BY <1>3, <3>1
    <3>4. SubSeq(s, a + 1, n) = SubSeq(s, a + 1, n - 1) \o <<s[n]>>
      BY <3>1, SubSeqRecursiveSecond, Zenon
    <3>5. SubSeq(s, a + 1, n - 1) \in Seq(S) /\ s[n] \in S
      <4>1. a + 1 \in Int /\ n - 1 \in Int /\ \A i \in (a + 1)..(n - 1) : s[i] \in S
        BY <3>1
      <4> QED
        BY <4>1, SubSeqProperties
    <3>6. Append(SubSeq(s, a + 1, n - 1), s[n]) = SubSeq(s, a + 1, n - 1) \o <<s[n]>>
      BY <3>5, AppendIsConcat, Zenon
    <3>7. n \in 0..Len(s)
      OBVIOUS
    <3> QED
      BY <3>1, <3>2, <3>3, <3>4, <3>6, <3>7, Zenon
  <2> QED
    BY <2>1, <2>2
<1>4. b \in P
  <2>1. Len(s) \in Nat /\ b \in 0..Len(s)
    OBVIOUS
  <2> HIDE DEF P
  <2>2. \A n \in 0..Len(s) : n \in P
    BY <1>2, <1>3, <2>1, UpTo
  <2> QED
    BY <2>1, <2>2
<1> QED
  BY <1>4

\* Filtering, then mapping, is filtering what is mapped.
LEMMA KeptMap ==
  ASSUME NEW S, NEW s \in Seq(S), NEW T, NEW t \in Seq(T), Len(t) = Len(s),
         NEW g, \A i \in 1..Len(s) : t[i] = g[s[i]], NEW I
  PROVE  Kept(t, I) = [j \in 1..Len(Kept(s, I)) |-> g[Kept(s, I)[j]]]
<1>1. Stepwise(s, I) /\ Stepwise(t, I)
  BY KeptSteps
<1> DEFINE P == {n \in 0..Len(s) :
                  /\ Len(Kept(t, I \cap 1..n)) = Len(Kept(s, I \cap 1..n))
                  /\ \A j \in 1..Len(Kept(s, I \cap 1..n)) :
                       Kept(t, I \cap 1..n)[j] = g[Kept(s, I \cap 1..n)[j]]}
<1>2. \A A : Kept(s, A) \in Seq(S) /\ Kept(t, A) \in Seq(T)
  BY KeptIn, Zenon
<1>3. 0 \in P
  <2>1. (I \cap 1..0) \cap 1..Len(s) = {}
    OBVIOUS
  <2>2. Kept(s, I \cap 1..0) = <<>> /\ Kept(t, I \cap 1..0) = <<>>
    BY <2>1, KeptNone, Zenon
  <2> QED
    BY <2>2
<1>4. ASSUME NEW n \in 1..Len(s), n - 1 \in P PROVE n \in P
  <2> DEFINE a == Kept(s, I \cap 1..(n - 1))
             b == Kept(t, I \cap 1..(n - 1))
  <2>1. /\ a \in Seq(S) /\ b \in Seq(T) /\ s[n] \in S /\ t[n] \in T /\ t[n] = g[s[n]]
        /\ Len(b) = Len(a) /\ \A j \in 1..Len(a) : b[j] = g[a[j]]
        /\ n \in 0..Len(s) /\ n \in 1..Len(t)
    <3>1. a \in Seq(S) /\ b \in Seq(T)
      BY <1>2, Zenon
    <3>2. Len(b) = Len(a) /\ \A j \in 1..Len(a) : b[j] = g[a[j]]
      BY <1>4
    <3> HIDE DEF a, b
    <3> QED
      BY <3>1, <3>2
  <2>2. CASE n \in I
    <3>0. Kept(s, I \cap 1..n) = Append(a, s[n])
      BY <1>1, <2>2, Zenon DEF Stepwise
    <3>1. Kept(t, I \cap 1..n) = Append(b, t[n])
      BY <1>1, <2>1, <2>2, Zenon DEF Stepwise
    <3> HIDE DEF a, b
    <3>2. /\ Len(Append(a, s[n])) = Len(a) + 1 /\ Len(Append(b, t[n])) = Len(b) + 1
          /\ Append(a, s[n])[Len(a) + 1] = s[n] /\ Append(b, t[n])[Len(b) + 1] = t[n]
          /\ \A j \in 1..Len(a) : Append(a, s[n])[j] = a[j]
          /\ \A j \in 1..Len(b) : Append(b, t[n])[j] = b[j]
      BY <2>1
    <3>3. \A j \in 1..(Len(a) + 1) : j \in 1..Len(a) \/ j = Len(a) + 1
      BY <2>1
    <3>4. Len(Append(b, t[n])) = Len(Append(a, s[n])) /\ \A j \in 1..Len(Append(a, s[n])) :
             Append(b, t[n])[j] = g[Append(a, s[n])[j]]
      BY <2>1, <3>2, <3>3
    <3> QED
      BY <2>1, <3>0, <3>1, <3>4, Zenon
  <2>3. CASE n \notin I
    <3>0. Kept(s, I \cap 1..n) = a
      BY <1>1, <2>3, Zenon DEF Stepwise
    <3>1. Kept(t, I \cap 1..n) = b
      BY <1>1, <2>1, <2>3, Zenon DEF Stepwise
    <3> QED
      BY <2>1, <3>0, <3>1, Zenon
  <2> QED
    BY <2>2, <2>3
<1>5. Len(s) \in P
  <2>1. Len(s) \in Nat /\ Len(s) \in 0..Len(s)
    OBVIOUS
  <2> HIDE DEF P
  <2>2. \A n \in 0..Len(s) : n \in P
    BY <1>3, <1>4, <2>1, UpTo
  <2> QED
    BY <2>1, <2>2
<1>6. Kept(s, I \cap 1..Len(s)) = Kept(s, I) /\ Kept(t, I \cap 1..Len(s)) = Kept(t, I)
  <2>1. (I \cap 1..Len(s)) \cap 1..Len(s) = I \cap 1..Len(s)
    OBVIOUS
  <2> QED
    BY <2>1, KeptSame, Zenon
<1>7. /\ Len(Kept(t, I)) = Len(Kept(s, I))
      /\ \A j \in 1..Len(Kept(s, I)) : Kept(t, I)[j] = g[Kept(s, I)[j]]
  BY <1>5, <1>6
<1>8. Kept(t, I) = [j \in 1..Len(Kept(t, I)) |-> Kept(t, I)[j]]
  BY <1>2
<1> QED
  BY <1>7, <1>8

-----------------------------------------------------------------------------
(* A list without its last element.                                        *)
LEMMA FrontFacts ==
  ASSUME NEW S, NEW s \in Seq(S), s # <<>>
  PROVE  /\ Front(s) \in Seq(S) /\ Len(Front(s)) = Len(s) - 1
         /\ \A i \in 1..Len(Front(s)) : i \in 1..Len(s) /\ Front(s)[i] = s[i]
<1>1. Len(s) \in Nat /\ Len(s) >= 1 /\ \A i \in 1..Len(s) : s[i] \in S
  OBVIOUS
<1>2. 1 \in Int /\ Len(s) - 1 \in Int /\ \A i \in 1..(Len(s) - 1) : s[i] \in S
  BY <1>1
<1> DEFINE q == SubSeq(s, 1, Len(s) - 1)
<1>3. /\ q \in Seq(S)
      /\ Len(q) = IF 1 <= Len(s) - 1 THEN Len(s) - 1 - 1 + 1 ELSE 0
      /\ \A i \in 1..(Len(s) - 1 - 1 + 1) : q[i] = s[1 + i - 1]
  BY <1>2, SubSeqProperties
<1> HIDE DEF q
<1>4. Len(q) = Len(s) - 1
  <2>1. CASE 1 <= Len(s) - 1
    <3>1. Len(q) = Len(s) - 1 - 1 + 1
      BY <1>3, <2>1
    <3> QED
      BY <1>1, <3>1
  <2>2. CASE ~(1 <= Len(s) - 1)
    <3>1. Len(q) = 0
      BY <1>3, <2>2
    <3>2. Len(s) = 1
      <4>1. \A n \in Nat : n >= 1 /\ ~(1 <= n - 1) => n = 1
        OBVIOUS
      <4> QED
        BY <1>1, <2>2, <4>1, Zenon
    <3> QED
      BY <3>1, <3>2
  <2> QED
    BY <2>1, <2>2
<1>5. \A i \in 1..(Len(s) - 1) : i \in 1..Len(s) /\ q[i] = s[i]
  <2> TAKE i \in 1..(Len(s) - 1)
  <2>1. i \in 1..(Len(s) - 1 - 1 + 1) /\ 1 + i - 1 = i /\ i \in 1..Len(s)
    BY <1>1
  <2> QED
    BY <1>3, <2>1
<1> QED
  BY <1>3, <1>4, <1>5 DEF Front, q

LEMMA LastOf ==
  ASSUME NEW S, NEW s \in Seq(S), s # <<>>
  PROVE  /\ Front(s) \in Seq(S) /\ Last(s) \in S /\ Len(Front(s)) = Len(s) - 1
         /\ \A i \in 1..(Len(s) - 1) : Front(s)[i] = s[i]
         /\ Last(s) = s[Len(s)] /\ Len(s) \in Nat \ {0}
         /\ s = Append(Front(s), Last(s))
<1>1. Len(s) \in Nat \ {0} /\ \A i \in 1..Len(s) : s[i] \in S
  OBVIOUS
<1>2. /\ Front(s) \in Seq(S) /\ Len(Front(s)) = Len(s) - 1
      /\ \A i \in 1..Len(Front(s)) : Front(s)[i] = s[i]
  BY FrontFacts
<1>3. Len(Front(s)) = Len(s) - 1 /\ \A i \in 1..(Len(s) - 1) : Front(s)[i] = s[i]
  BY <1>2
<1>4. Last(s) = s[Len(s)] /\ Last(s) \in S
  BY <1>1 DEF Last
<1> DEFINE f == Front(s)
           e == Last(s)
<1>5. s = Append(f, e)
  <2>1. f \in Seq(S) /\ e \in S /\ Len(f) = Len(s) - 1 /\ e = s[Len(s)]
        /\ \A i \in 1..(Len(s) - 1) : f[i] = s[i]
    BY <1>2, <1>3, <1>4
  <2> HIDE DEF f, e
  <2>2. /\ Append(f, e) \in Seq(S) /\ Len(Append(f, e)) = Len(f) + 1
        /\ \A i \in 1..Len(f) : Append(f, e)[i] = f[i]
        /\ Append(f, e)[Len(f) + 1] = e
    BY <2>1, AppendProperties
  <2>3. \A i \in 1..Len(s) : i \in 1..(Len(s) - 1) \/ i = Len(s)
    BY <1>1
  <2>4. Len(Append(f, e)) = Len(s) /\ \A i \in 1..Len(s) : s[i] = Append(f, e)[i]
    BY <1>1, <2>1, <2>2, <2>3
  <2> QED
    BY <2>2, <2>4, SeqEqual
<1> QED
  BY <1>1, <1>2, <1>3, <1>4, <1>5

\* As many elements are kept as there are positions.
CountsKept(s, I) ==
  \A n \in 0..Len(s) : /\ Len(Kept(s, I \cap 1..n)) = Cardinality(I \cap 1..n)
                       /\ IsFiniteSet(I \cap 1..n)

LEMMA KeptLen == ASSUME NEW S, NEW s \in Seq(S), NEW I PROVE CountsKept(s, I)
<1> DEFINE P == {n \in 0..Len(s) : /\ Len(Kept(s, I \cap 1..n)) = Cardinality(I \cap 1..n)
                                   /\ IsFiniteSet(I \cap 1..n)}
<1>0. Stepwise(s, I) /\ \A A : Kept(s, A) \in Seq(S)
  BY KeptSteps, KeptIn, Zenon
<1>1. 0 \in P
  <2>1. I \cap 1..0 = {} /\ (I \cap 1..0) \cap 1..Len(s) = {}
    OBVIOUS
  <2>2. Kept(s, I \cap 1..0) = <<>>
    BY <2>1, KeptNone, Zenon
  <2>3. Len(<<>>) = 0
    OBVIOUS
  <2> QED
    BY <2>1, <2>2, <2>3, FS_EmptySet
<1>2. ASSUME NEW n \in 1..Len(s), n - 1 \in P PROVE n \in P
  <2> DEFINE old == I \cap 1..(n - 1)
             k == Kept(s, old)
  <2>0. n \in 0..Len(s) /\ s[n] \in S /\ k \in Seq(S) /\ Len(k) = Cardinality(old) /\ IsFiniteSet(old)
    BY <1>0, <1>2
  <2>1. CASE n \in I
    <3>1. I \cap 1..n = old \cup {n} /\ n \notin old
      BY <2>1
    <3>2. Kept(s, I \cap 1..n) = Append(k, s[n])
      BY <1>0, <2>1 DEF Stepwise
    <3> HIDE DEF old, k
    <3>3. IsFiniteSet(old \cup {n}) /\ Cardinality(old \cup {n}) = Cardinality(old) + 1
      BY <2>0, <3>1, FS_AddElement
    <3>4. Len(Append(k, s[n])) = Len(k) + 1
      BY <2>0
    <3> QED
      BY <2>0, <3>1, <3>2, <3>3, <3>4
  <2>2. CASE n \notin I
    <3>1. I \cap 1..n = old
      BY <2>2
    <3> QED
      BY <2>0, <3>1
  <2> QED
    BY <2>1, <2>2
<1>3. \A n \in 0..Len(s) : n \in P
  <2>1. Len(s) \in Nat
    OBVIOUS
  <2> HIDE DEF P
  <2> QED
    BY <1>1, <1>2, <2>1, UpTo
<1> QED
  BY <1>3 DEF CountsKept

\* Filtering a part of a list that stands on its own.
PartOf(u, I, s, J, a) ==
  /\ a + Len(u) <= Len(s)
  /\ \A i \in 1..Len(u) : u[i] = s[a + i] /\ (i \in I <=> a + i \in J)

Shifts(u, I, s, J, a) == Kept(u, I) = Kept(s, J \cap (a + 1)..(a + Len(u)))

LEMMA KeptShift ==
  ASSUME NEW S, NEW s \in Seq(S), NEW u \in Seq(S), NEW a \in Nat, NEW I, NEW J,
         PartOf(u, I, s, J, a)
  PROVE  Shifts(u, I, s, J, a)
<1> DEFINE n == Len(u)
           Z == J \cap (a + 1)..(a + n)
           P == {m \in 0..n : Kept(u, I \cap 1..m) = Kept(s, Z \cap 1..(a + m))}
<1>1. /\ Stepwise(s, Z) /\ Stepwise(u, I) /\ n \in Nat /\ Len(s) \in Nat
  BY KeptSteps
<1>2. /\ a + n <= Len(s)
      /\ \A i \in 1..n : u[i] = s[a + i] /\ (i \in I <=> a + i \in J)
  BY DEF PartOf
<1>3. 0 \in P
  <2>1. (I \cap 1..0) \cap 1..Len(u) = {} /\ (Z \cap 1..(a + 0)) \cap 1..Len(s) = {}
    OBVIOUS
  <2>2. Kept(u, I \cap 1..0) = <<>> /\ Kept(s, Z \cap 1..(a + 0)) = <<>>
    BY <2>1, KeptNone, Zenon
  <2> QED
    BY <1>1, <2>2
<1>4. ASSUME NEW m \in 1..n, m - 1 \in P PROVE m \in P
  <2>1. /\ a + m \in 1..Len(s) /\ (a + m) - 1 = a + (m - 1) /\ m \in 0..n
        /\ (a + m \in Z <=> m \in I) /\ u[m] = s[a + m]
    BY <1>1, <1>2
  <2>2. Kept(u, I \cap 1..(m - 1)) = Kept(s, Z \cap 1..(a + (m - 1)))
    BY <1>4
  <2> HIDE DEF Z
  <2>3. CASE m \in I
    <3>1. Kept(u, I \cap 1..m) = Append(Kept(u, I \cap 1..(m - 1)), u[m])
      BY <1>1, <2>3 DEF Stepwise
    <3>2. Kept(s, Z \cap 1..(a + m)) = Append(Kept(s, Z \cap 1..((a + m) - 1)), s[a + m])
      BY <1>1, <2>1, <2>3, Zenon DEF Stepwise
    <3> QED
      BY <2>1, <2>2, <3>1, <3>2
  <2>4. CASE m \notin I
    <3>1. Kept(u, I \cap 1..m) = Kept(u, I \cap 1..(m - 1))
      BY <1>1, <2>4 DEF Stepwise
    <3>2. Kept(s, Z \cap 1..(a + m)) = Kept(s, Z \cap 1..((a + m) - 1))
      BY <1>1, <2>1, <2>4, Zenon DEF Stepwise
    <3> QED
      BY <2>1, <2>2, <3>1, <3>2
  <2> QED
    BY <2>3, <2>4
<1>5. n \in P
  <2>1. n \in 0..n
    BY <1>1
  <2> HIDE DEF P
  <2>2. \A m \in 0..n : m \in P
    BY <1>1, <1>3, <1>4, UpTo
  <2> QED
    BY <2>1, <2>2
<1>6. (I \cap 1..n) \cap 1..Len(u) = I \cap 1..Len(u) /\ Z \cap 1..(a + n) = Z
  BY <1>1
<1>7. Kept(u, I \cap 1..n) = Kept(u, I)
  BY <1>6, KeptSame, Zenon
<1> QED
  BY <1>5, <1>6, <1>7 DEF Shifts

\* Filtering in two parts.
Cuts(s, I, a, b, c) ==
  Kept(s, I \cap (a + 1)..c) = Kept(s, I \cap (a + 1)..b) \o Kept(s, I \cap (b + 1)..c)

LEMMA KeptCut ==
  ASSUME NEW S, NEW s \in Seq(S), NEW I, NEW a \in Nat, NEW b \in Nat, NEW c \in Nat, a <= b, b <= c
  PROVE  Cuts(s, I, a, b, c)
<1> DEFINE A == I \cap (a + 1)..b
           B == I \cap (b + 1)..c
<1>1. \A i \in A \cap 1..Len(s), j \in B \cap 1..Len(s) : i < j
  OBVIOUS
<1>2. A \cup B = I \cap (a + 1)..c
  OBVIOUS
<1> HIDE DEF A, B
<1>3. Kept(s, A \cup B) = Kept(s, A) \o Kept(s, B)
  BY <1>1, KeptConcat
<1> QED
  BY <1>2, <1>3 DEF Cuts, A, B

\* The middle one of three lists.
LEMMA MiddleOf ==
  ASSUME NEW S, NEW x \in Seq(S), NEW y \in Seq(S), NEW z \in Seq(S)
  PROVE  /\ SubSeq((x \o y) \o z, Len(x) + 1, Len(x) + Len(y)) = y
         /\ Len((x \o y) \o z) = Len(x) + Len(y) + Len(z)
<1> DEFINE w == (x \o y) \o z
           q == SubSeq(w, Len(x) + 1, Len(x) + Len(y))
<1>1. /\ x \o y \in Seq(S) /\ Len(x \o y) = Len(x) + Len(y) /\ Len(x) \in Nat /\ Len(y) \in Nat
      /\ \A i \in 1..(Len(x) + Len(y)) : (x \o y)[i] = IF i <= Len(x) THEN x[i] ELSE y[i - Len(x)]
  BY ConcatProperties
<1> DEFINE v == x \o y
<1> HIDE DEF v
<1>2. /\ w = v \o z /\ v \in Seq(S) /\ Len(v) = Len(x) + Len(y)
  BY <1>1 DEF v
<1>3. /\ w \in Seq(S) /\ Len(w) = Len(v) + Len(z) /\ Len(z) \in Nat
      /\ \A i \in 1..(Len(v) + Len(z)) : w[i] = IF i <= Len(v) THEN v[i] ELSE z[i - Len(v)]
  BY <1>2, ConcatProperties
<1> HIDE DEF w
<1> DEFINE m == Len(x) + 1
           n == Len(x) + Len(y)
<1>4. m \in Int /\ n \in Int /\ \A i \in m..n : i \in 1..Len(w) /\ w[i] \in S
  BY <1>1, <1>2, <1>3
<1>5. /\ q \in Seq(S) /\ Len(q) = IF m <= n THEN n - m + 1 ELSE 0
      /\ \A i \in 1..(n - m + 1) : q[i] = w[m + i - 1]
  BY <1>4, SubSeqProperties
<1>6. Len(q) = Len(y)
  BY <1>1, <1>5
<1>7. ASSUME NEW i \in 1..Len(y) PROVE q[i] = y[i]
  <2>1. /\ i \in 1..(n - m + 1) /\ m + i - 1 = Len(x) + i
        /\ Len(x) + i \in 1..(Len(v) + Len(z)) /\ Len(x) + i <= Len(v)
        /\ Len(x) + i \in 1..(Len(x) + Len(y)) /\ ~(Len(x) + i <= Len(x)) /\ (Len(x) + i) - Len(x) = i
    BY <1>1, <1>2, <1>3
  <2>2. q[i] = w[Len(x) + i] /\ w[Len(x) + i] = v[Len(x) + i]
    BY <1>3, <1>5, <2>1
  <2>3. v[Len(x) + i] = y[i]
    BY <1>1, <2>1 DEF v
  <2> QED
    BY <2>2, <2>3
<1>8. q = y
  <2> HIDE DEF q
  <2> QED
    BY <1>5, <1>6, <1>7, SeqEqual
<1>9. Len(w) = Len(x) + Len(y) + Len(z)
  BY <1>2, <1>3
<1> QED
  BY <1>8, <1>9 DEF w

(* A part of what is kept: between two positions are the elements of the   *)
(* list between them.                                                      *)
Places(s, I, a, b) ==
  /\ Len(Kept(s, I \cap 1..a)) \in Nat
  /\ Len(Kept(s, I \cap 1..b)) = Len(Kept(s, I \cap 1..a)) + Len(Kept(s, I \cap (a + 1)..b))
  /\ Len(Kept(s, I \cap 1..b)) <= Len(Kept(s, I))
  /\ SubSeq(Kept(s, I), Len(Kept(s, I \cap 1..a)) + 1, Len(Kept(s, I \cap 1..b)))
       = Kept(s, I \cap (a + 1)..b)

LEMMA KeptPart ==
  ASSUME NEW S, NEW s \in Seq(S), NEW I, NEW a \in 0..Len(s), NEW b \in a..Len(s)
  PROVE  Places(s, I, a, b)
<1> DEFINE x == Kept(s, I \cap 1..a)
           y == Kept(s, I \cap (a + 1)..b)
           z == Kept(s, I \cap (b + 1)..Len(s))
<1>1. x \in Seq(S) /\ y \in Seq(S) /\ z \in Seq(S) /\ Len(s) \in Nat
  BY KeptIn
<1>2. 0 \in Nat /\ a \in Nat /\ b \in Nat /\ 0 <= a /\ a <= b /\ 0 <= b /\ b <= Len(s) /\ 0 + 1 = 1
  BY <1>1
<1>3. Cuts(s, I, 0, a, b)
  BY <1>2, KeptCut
<1>4. Cuts(s, I, 0, b, Len(s))
  BY <1>1, <1>2, KeptCut
<1>5. Kept(s, I \cap 1..Len(s)) = Kept(s, I)
  <2>1. (I \cap 1..Len(s)) \cap 1..Len(s) = I \cap 1..Len(s)
    OBVIOUS
  <2> QED
    BY <2>1, KeptSame, Zenon
<1>6. Kept(s, I \cap 1..b) = x \o y /\ Kept(s, I) = (x \o y) \o z
  BY <1>2, <1>3, <1>4, <1>5 DEF Cuts
<1> HIDE DEF x, y, z
<1>9. /\ SubSeq((x \o y) \o z, Len(x) + 1, Len(x) + Len(y)) = y
      /\ Len((x \o y) \o z) = Len(x) + Len(y) + Len(z)
  BY <1>1, MiddleOf
<1>10. Len(x \o y) = Len(x) + Len(y) /\ Len(x) \in Nat /\ Len(z) \in Nat
  BY <1>1
<1>11. Len(x \o y) <= Len((x \o y) \o z)
  BY <1>1, <1>9, <1>10
<1>12. SubSeq(Kept(s, I), Len(x) + 1, Len(Kept(s, I \cap 1..b))) = y
  BY <1>6, <1>9, <1>10
<1> QED
  BY <1>6, <1>10, <1>11, <1>12 DEF Places, x, y
=============================================================================
