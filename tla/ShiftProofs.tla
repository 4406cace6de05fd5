---------------------------- MODULE ShiftProofs ----------------------------
(***************************************************************************)
(* What the proofs need to know of 1 << n and log2, of products and        *)
(* quotients, and of recursive functions.  The library's induction         *)
(* theorems quantify over an operator; SetInduction states induction over  *)
(* a set instead, which the provers can instantiate.                       *)
(***************************************************************************)
EXTENDS Shift, TLAPS, WellFoundedInduction

\* Induction: a set that holds 0 and is closed under successor holds Nat.
LEMMA SetInduction ==
  ASSUME NEW S, 0 \in S, \A n \in Nat : n \in S => n + 1 \in S
  PROVE  Nat \subseteq S
<1> DEFINE R == OpToRel(<, Nat)
           T == Nat \ S
<1>1. SUFFICES ASSUME T # {} PROVE FALSE
  OBVIOUS
<1>2. IsWellFoundedOn(R, Nat)
  BY NatLessThanWellFounded
<1>3. PICK x \in T : \A y \in T : ~ (<<y, x>> \in R)
  <2> HIDE DEF R, T
  <2>1. T \subseteq Nat
    BY DEF T
  <2> QED
    BY <1>1, <1>2, <2>1, WFMin
<1>4. x # 0 /\ x \in Nat
  OBVIOUS
<1>5. x - 1 \in Nat /\ x - 1 < x
  BY <1>4
<1>6. <<x - 1, x>> \in R
  BY <1>4, <1>5 DEF OpToRel
<1>7. x - 1 \notin T
  BY <1>3, <1>6
<1>8. (x - 1) + 1 \in S
  BY <1>5, <1>7
<1> QED
  BY <1>4, <1>8

-----------------------------------------------------------------------------
\* A product of naturals is a natural, and multiplication is monotone.
LEMMA MulNat == \A s, p \in Nat : s * p \in Nat
OBVIOUS

\* One more of a factor: s * p + s is at most s * q when p is below q.
LEMMA MulMono == \A s, p, q \in Nat : p < q => s * p + s <= s * q
<1> SUFFICES ASSUME NEW s \in Nat, NEW p \in Nat, NEW q \in Nat, p < q
             PROVE  s * p + s <= s * q
  OBVIOUS
<1>1. q - p - 1 \in Nat
  OBVIOUS
<1> DEFINE r == q - p - 1
<1>2. s * r \in Nat
  BY <1>1, MulNat
<1>3. s * q = s * p + s + s * r
  <2>1. q = p + 1 + r
    OBVIOUS
  <2>2. r \in Nat
    BY <1>1
  <2> HIDE DEF r
  <2> QED
    BY <2>1, <2>2
<1> QED
  BY <1>2, <1>3, MulNat

\* Division of a multiple.
LEMMA DivExact == \A s, p \in Nat : p > 0 => (s * p) \div p = s /\ (s * p) % p = 0
OBVIOUS

\* Division with remainder, for a divisor that is not a numeral.
LEMMA DivBounds ==
  ASSUME NEW s \in Nat, s > 0
  PROVE  \A x \in Nat : \E q \in Nat : s * q <= x /\ x < s * q + s
<1> DEFINE S == {x \in Nat : \E q \in Nat : s * q <= x /\ x < s * q + s}
<1>1. 0 \in S
  <2>1. s * 0 = 0
    OBVIOUS
  <2> QED
    BY <2>1
<1>2. ASSUME NEW x \in Nat, x \in S PROVE x + 1 \in S
  <2>1. PICK q \in Nat : s * q <= x /\ x < s * q + s
    BY <1>2
  <2>2. CASE x + 1 < s * q + s
    BY <2>1, <2>2, MulNat
  <2>3. CASE x + 1 = s * q + s
    <3>1. s * (q + 1) = s * q + s
      OBVIOUS
    <3>2. q + 1 \in Nat /\ s * (q + 1) <= x + 1 /\ x + 1 < s * (q + 1) + s
      BY <2>3, <3>1, MulNat
    <3>3. \E p \in Nat : s * p <= x + 1 /\ x + 1 < s * p + s
      <4> WITNESS q + 1 \in Nat
      <4> QED
        BY <3>2
    <3> QED
      BY <3>3
  <2> QED
    BY <2>1, <2>2, <2>3, MulNat
<1>3. Nat \subseteq S
  <2> HIDE DEF S
  <2> QED
    BY <1>1, <1>2, SetInduction
<1> QED
  BY <1>3

\* Division, for a divisor that is not a numeral.
LEMMA DivIs ==
  ASSUME NEW s \in Nat, s > 0, NEW q \in Nat, NEW x \in Nat, s * q <= x, x < s * q + s
  PROVE  x \div s = q
<1> DEFINE d == x \div s
<1>1. d \in Nat /\ s * d <= x /\ x < s * d + s
  OBVIOUS
<1> HIDE DEF d
<1>2. ~(d < q)
  BY <1>1, MulMono
<1>3. ~(q < d)
  BY <1>1, MulMono
<1> QED
  BY <1>1, <1>2, <1>3 DEF d

-----------------------------------------------------------------------------
(***************************************************************************)
(* A recursive function on Nat exists, so the equations of its definition  *)
(* hold.  Approx(f, n, S, a, F): f is a solution up to n.                  *)
(***************************************************************************)
Approx(f, n, S, a, F) ==
  /\ f \in [0..n -> S]
  /\ f[0] = a
  /\ \A i \in 0..n : i # 0 => f[i] = F[<<i, f[i - 1]>>]

\* Solutions of every length exist.
LEMMA ApproxExists ==
  ASSUME NEW S, NEW a \in S, NEW F \in [Nat \X S -> S]
  PROVE  \A n \in Nat : \E f : Approx(f, n, S, a, F)
<1> DEFINE T == {n \in Nat : \E f : Approx(f, n, S, a, F)}
<1>1. 0 \in T
  <2>1. Approx([i \in 0..0 |-> a], 0, S, a, F)
    BY DEF Approx
  <2> QED
    BY <2>1
<1>2. ASSUME NEW n \in Nat, n \in T PROVE n + 1 \in T
  <2>1. PICK f : Approx(f, n, S, a, F)
    BY <1>2
  <2> DEFINE g == [i \in 0..(n + 1) |-> IF i = n + 1 THEN F[<<n + 1, f[n]>>] ELSE f[i]]
  <2>2. g \in [0..(n + 1) -> S]
    <3>1. f[n] \in S /\ \A i \in 0..n : f[i] \in S
      BY <2>1 DEF Approx
    <3>2. F[<<n + 1, f[n]>>] \in S
      BY <3>1
    <3> QED
      BY <3>1, <3>2
  <2>3. g[0] = a
    BY <2>1 DEF Approx
  <2>4. ASSUME NEW i \in 0..(n + 1), i # 0 PROVE g[i] = F[<<i, g[i - 1]>>]
    <3>1. CASE i = n + 1
      <4>1. i - 1 = n /\ n \in 0..n + 1 /\ n # n + 1
        BY <3>1
      <4>2. g[i] = F[<<n + 1, f[n]>>] /\ g[n] = f[n]
        BY <3>1, <4>1
      <4> HIDE DEF g
      <4> QED
        BY <3>1, <4>1, <4>2
    <3>2. CASE i # n + 1
      <4>1. i \in 0..n /\ i - 1 \in 0..n /\ i - 1 \in 0..(n + 1)
        BY <2>4, <3>2
      <4>2. g[i] = f[i] /\ g[i - 1] = f[i - 1]
        BY <4>1
      <4> HIDE DEF g
      <4> QED
        BY <4>1, <4>2, <2>1, <2>4 DEF Approx
    <3> QED
      BY <3>1, <3>2
  <2>5. Approx(g, n + 1, S, a, F)
    <3> HIDE DEF g
    <3> QED
      BY <2>2, <2>3, <2>4 DEF Approx
  <2> QED
    BY <2>5
<1>3. Nat \subseteq T
  <2> HIDE DEF T
  <2> QED
    BY <1>1, <1>2, SetInduction
<1> QED
  BY <1>3

\* Two solutions agree where both are defined.
LEMMA ApproxAgree ==
  ASSUME NEW S, NEW a, NEW F, NEW n \in Nat, NEW m \in Nat, NEW f, NEW g,
         Approx(f, n, S, a, F), Approx(g, m, S, a, F)
  PROVE  \A i \in Nat : i <= n /\ i <= m => f[i] = g[i]
<1> DEFINE T == {i \in Nat : i <= n /\ i <= m => f[i] = g[i]}
<1>1. 0 \in T
  BY DEF Approx
<1>2. ASSUME NEW i \in Nat, i \in T PROVE i + 1 \in T
  <2>1. SUFFICES ASSUME i + 1 <= n, i + 1 <= m PROVE f[i + 1] = g[i + 1]
    OBVIOUS
  <2>2. f[i] = g[i]
    BY <1>2, <2>1
  <2>3. f[i + 1] = F[<<i + 1, f[(i + 1) - 1]>>] /\ g[i + 1] = F[<<i + 1, g[(i + 1) - 1]>>]
    BY <2>1 DEF Approx
  <2>4. (i + 1) - 1 = i
    OBVIOUS
  <2> QED
    BY <2>2, <2>3, <2>4
<1>3. Nat \subseteq T
  <2> HIDE DEF T
  <2> QED
    BY <1>1, <1>2, SetInduction
<1> QED
  BY <1>3

\* f begins with a and goes on with F, which may use the argument and the value before.
Iterates(f, a, F) == f[0] = a /\ \A n \in Nat : f[n + 1] = F[<<n + 1, f[n]>>]

\* There is such a function on Nat.
LEMMA Iteration ==
  ASSUME NEW S, NEW a \in S, NEW F \in [Nat \X S -> S]
  PROVE  \E f \in [Nat -> S] : Iterates(f, a, F)
<1> DEFINE A(n) == CHOOSE f : Approx(f, n, S, a, F)
           G == [n \in Nat |-> A(n)[n]]
<1>1. \A n \in Nat : Approx(A(n), n, S, a, F)
  BY ApproxExists
<1>2. ASSUME NEW n \in Nat
      PROVE  G[n] \in S /\ G[n] = IF n = 0 THEN a ELSE F[<<n, G[n - 1]>>]
  <2> G[n] = A(n)[n]
    OBVIOUS
  <2> n \in 0..n
    OBVIOUS
  <2>0. G[n] \in S
    <3> HIDE DEF A, G
    <3> QED
      BY <1>1 DEF Approx
  <2>1. CASE n = 0
    BY <2>0, <2>1, <1>1 DEF Approx
  <2>2. CASE n # 0
    <3>1. n - 1 \in Nat
      BY <2>2
    <3>2. Approx(A(n), n, S, a, F) /\ Approx(A(n - 1), n - 1, S, a, F)
      BY <1>1, <3>1
    <3>3. A(n)[n] = F[<<n, A(n)[n - 1]>>]
      <4> HIDE DEF A
      <4> QED
        BY <3>1, <3>2, <2>2 DEF Approx
    <3>4. A(n)[n - 1] = A(n - 1)[n - 1]
      <4> HIDE DEF A
      <4>1. n - 1 <= n /\ n - 1 <= n - 1
        BY <3>1
      <4> QED
        BY <3>1, <3>2, <4>1, ApproxAgree
    <3>5. G[n] = A(n)[n] /\ G[n - 1] = A(n - 1)[n - 1]
      <4> HIDE DEF A
      <4> QED
        BY <3>1
    <3> QED
      <4> HIDE DEF A, G
      <4> QED
        BY <2>0, <2>2, <3>3, <3>4, <3>5
  <2> QED
    BY <2>1, <2>2
<1>3. G \in [Nat -> S] /\ G[0] = a /\ \A n \in Nat : G[n + 1] = F[<<n + 1, G[n]>>]
  <2>1. G = [n \in Nat |-> G[n]]
    OBVIOUS
  <2> HIDE DEF G
  <2>2. \A n \in Nat : n + 1 \in Nat /\ n + 1 # 0 /\ (n + 1) - 1 = n
    OBVIOUS
  <2> QED
    BY <1>2, <2>1, <2>2
<1> QED
  <2> HIDE DEF G
  <2> QED
    BY <1>3 DEF Iterates

\* The recursive definition has a solution on the whole of Nat.
LEMMA ShlDefined == shl = [n \in Nat |-> IF n = 0 THEN 1 ELSE 2 * shl[n - 1]]
<1> DEFINE F == [p \in Nat \X Nat |-> 2 * p[2]]
<1>1. F \in [Nat \X Nat -> Nat]
  OBVIOUS
<1>2. \A n, m \in Nat : F[<<n, m>>] = 2 * m
  OBVIOUS
<1> HIDE DEF F
<1>3. PICK f \in [Nat -> Nat] : Iterates(f, 1, F)
  BY <1>1, Iteration
<1>4. ASSUME NEW n \in Nat, n # 0 PROVE f[n] = 2 * f[n - 1]
  <2>1. n - 1 \in Nat /\ (n - 1) + 1 = n
    BY <1>4
  <2> QED
    BY <1>2, <1>3, <2>1 DEF Iterates
<1>5. f = [n \in Nat |-> IF n = 0 THEN 1 ELSE 2 * f[n - 1]]
  BY <1>3, <1>4 DEF Iterates
<1> QED
  BY <1>5 DEF shl

-----------------------------------------------------------------------------
\* 1 << 0 is one.
LEMMA ShlZero == shl[0] = 1
BY ShlDefined

\* Shifting once more doubles.
LEMMA ShlSucc == \A n \in Nat : shl[n + 1] = 2 * shl[n]
<1> TAKE n \in Nat
<1>1. shl[n + 1] = 2 * shl[(n + 1) - 1]
  BY ShlDefined
<1>2. (n + 1) - 1 = n
  OBVIOUS
<1> QED
  BY <1>1, <1>2

\* A power of two is a positive natural.
LEMMA ShlType == \A n \in Nat : shl[n] \in Nat /\ shl[n] >= 1
<1> DEFINE S == {n \in Nat : shl[n] \in Nat /\ shl[n] >= 1}
<1>1. 0 \in S
  BY ShlZero
<1>2. ASSUME NEW n \in Nat, n \in S PROVE n + 1 \in S
  BY <1>2, ShlSucc
<1>3. Nat \subseteq S
  <2> HIDE DEF S
  <2> QED
    BY <1>1, <1>2, SetInduction
<1> QED
  BY <1>3

\* A longer shift gives at least twice as much.
LEMMA ShlMono == \A j, k \in Nat : j < k => 2 * shl[j] <= shl[k]
<1>1. SUFFICES ASSUME NEW j \in Nat
               PROVE  \A k \in Nat : j < k => 2 * shl[j] <= shl[k]
  OBVIOUS
<1> DEFINE S == {k \in Nat : j < k => 2 * shl[j] <= shl[k]}
<1>2. 0 \in S
  OBVIOUS
<1>3. ASSUME NEW k \in Nat, k \in S PROVE k + 1 \in S
  <2>1. CASE j < k
    BY <2>1, <1>3, ShlSucc, ShlType
  <2>2. CASE j = k
    BY <2>2, ShlSucc, ShlType
  <2>3. CASE j > k
    BY <2>3
  <2> QED
    BY <2>1, <2>2, <2>3
<1>4. Nat \subseteq S
  <2> HIDE DEF S
  <2> QED
    BY <1>2, <1>3, SetInduction
<1> QED
  BY <1>4

\* Shifts compose by multiplication.
LEMMA ShlAdd == \A j, k \in Nat : shl[j + k] = shl[j] * shl[k]
<1>1. SUFFICES ASSUME NEW j \in Nat
               PROVE  \A k \in Nat : shl[j + k] = shl[j] * shl[k]
  OBVIOUS
<1> DEFINE S == {k \in Nat : shl[j + k] = shl[j] * shl[k]}
<1>2. 0 \in S
  BY ShlZero, ShlType
<1>3. ASSUME NEW k \in Nat, k \in S PROVE k + 1 \in S
  <2>1. shl[(j + k) + 1] = 2 * shl[j + k] /\ shl[k + 1] = 2 * shl[k]
    BY ShlSucc
  <2>2. j + (k + 1) = (j + k) + 1
    OBVIOUS
  <2>3. shl[j] \in Nat /\ shl[k] \in Nat
    BY ShlType
  <2>4. shl[j + (k + 1)] = 2 * (shl[j] * shl[k])
    BY <1>3, <2>1, <2>2
  <2>5. 2 * (shl[j] * shl[k]) = shl[j] * (2 * shl[k])
    BY <2>3
  <2> QED
    BY <2>1, <2>4, <2>5
<1>4. Nat \subseteq S
  <2> HIDE DEF S
  <2> QED
    BY <1>2, <1>3, SetInduction
<1> QED
  BY <1>4

\* Every positive number lies between two successive powers of two.
LEMMA LevelExists == \A x \in Nat \ {0} : \E k \in Nat : shl[k] <= x /\ x < shl[k + 1]
<1> DEFINE S == {n \in Nat : \A x \in 1..n : \E k \in Nat : shl[k] <= x /\ x < shl[k + 1]}
<1>1. 0 \in S
  OBVIOUS
<1>2. ASSUME NEW n \in Nat, n \in S PROVE n + 1 \in S
  <2>1. SUFFICES \E k \in Nat : shl[k] <= n + 1 /\ n + 1 < shl[k + 1]
    BY <1>2
  <2>2. CASE n = 0
    BY <2>2, ShlZero, ShlSucc
  <2>3. CASE n # 0
    <3>1. PICK k \in Nat : shl[k] <= n /\ n < shl[k + 1]
      BY <1>2, <2>3
    <3>2. CASE n + 1 < shl[k + 1]
      BY <3>1, <3>2, ShlType
    <3>3. CASE ~(n + 1 < shl[k + 1])
      <4>1. n + 1 = shl[k + 1]
        BY <3>1, <3>3, ShlType
      <4>2. n + 1 < shl[(k + 1) + 1]
        BY <4>1, ShlSucc, ShlType
      <4> QED
        BY <4>1, <4>2
    <3> QED
      BY <3>2, <3>3
  <2> QED
    BY <2>2, <2>3
<1>3. Nat \subseteq S
  <2> HIDE DEF S
  <2> QED
    BY <1>1, <1>2, SetInduction
<1>4. ASSUME NEW x \in Nat \ {0}
      PROVE  \E k \in Nat : shl[k] <= x /\ x < shl[k + 1]
  BY <1>3
<1> QED
  BY <1>4

\* The truncated logarithm inverts the shift.
LEMMA Log2Shl == \A k \in 0..MaxShift : Log2(shl[k]) = k
<1> TAKE k \in 0..MaxShift
<1> DEFINE P(i) == shl[i] <= shl[k] /\ shl[k] \div 2 < shl[i]
<1>1. k \in Nat /\ k \in 0..MaxShift
  BY DEF MaxShift
<1>2. P(k)
  BY <1>1, ShlType
<1>3. ASSUME NEW i \in 0..MaxShift, P(i) PROVE i = k
  <2>1. i \in Nat /\ shl[i] \in Nat /\ shl[k] \in Nat /\ shl[i] >= 1 /\ shl[k] >= 1
    BY <1>1, ShlType DEF MaxShift
  <2>2. ~(k < i)
    BY <1>3, <1>1, <2>1, ShlMono
  <2>3. ~(i < k)
    BY <1>3, <1>1, <2>1, ShlMono
  <2> QED
    BY <1>1, <2>1, <2>2, <2>3
<1> QED
  BY <1>1, <1>2, <1>3 DEF Log2
=============================================================================
