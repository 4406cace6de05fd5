----------------------------- MODULE Sha3Proofs -----------------------------
(***************************************************************************)
(* However a message is cut into buffers, sha3.c computes the sponge       *)
(* function with the padding of SHA-3, for messages of any length and      *)
(* whatever the permutation is.                                            *)
(***************************************************************************)
EXTENDS Sha3, ShiftProofs

\* The states of the sponge.
IsState(state) == state = [w \in DOMAIN Zero |-> state[w]]

\* All that is assumed of keccakf: it makes a state of a state.
Permutes == \A state : IsState(state) => IsState(keccakf(state))

\* The sponge after b blocks of m: the recursive function in Absorbed.
Blocks(m) ==
  CHOOSE f : f = [b \in Nat |-> IF b = 0 THEN Zero ELSE AddBlock(f[b - 1], m, b - 1)]

-----------------------------------------------------------------------------
\* That function exists; UpTo(f, m, n): f is the function up to n.
UpTo(f, m, n) ==
  /\ f[0] = Zero
  /\ \A i \in 1..n : f[i] = AddBlock(f[i - 1], m, i - 1)

LEMMA UpToExists == ASSUME NEW m PROVE \A n \in Nat : \E f : UpTo(f, m, n)
<1> DEFINE S == {n \in Nat : \E f : UpTo(f, m, n)}
<1>1. 0 \in S
  <2>1. UpTo([i \in 0..0 |-> Zero], m, 0)
    BY DEF UpTo
  <2> QED
    BY <2>1
<1>2. ASSUME NEW n \in Nat, n \in S PROVE n + 1 \in S
  <2>1. PICK f : UpTo(f, m, n)
    BY <1>2
  <2> DEFINE g == [i \in Nat |-> IF i = n + 1 THEN AddBlock(f[n], m, n) ELSE f[i]]
  <2>2. g[0] = Zero
    BY <2>1 DEF UpTo
  <2>3. ASSUME NEW i \in 1..n + 1 PROVE g[i] = AddBlock(g[i - 1], m, i - 1)
    <3>1. CASE i = n + 1
      <4>1. i - 1 = n /\ n # n + 1
        BY <3>1
      <4>2. g[n + 1] = AddBlock(f[n], m, n) /\ g[n] = f[n]
        BY <4>1
      <4> HIDE DEF g
      <4> QED
        BY <3>1, <4>1, <4>2
    <3>2. CASE i # n + 1
      <4>1. i \in 1..n /\ i - 1 \in Nat /\ i - 1 # n + 1
        BY <3>2
      <4>2. g[i] = f[i] /\ g[i - 1] = f[i - 1]
        BY <4>1
      <4> HIDE DEF g
      <4> QED
        BY <2>1, <4>1, <4>2 DEF UpTo
    <3> QED
      BY <3>1, <3>2
  <2>4. UpTo(g, m, n + 1)
    <3> HIDE DEF g
    <3> QED
      BY <2>2, <2>3 DEF UpTo
  <2> QED
    BY <2>4
<1>3. Nat \subseteq S
  <2> HIDE DEF S
  <2> QED
    BY <1>1, <1>2, SetInduction
<1> QED
  BY <1>3

LEMMA UpToAgree ==
  ASSUME NEW m, NEW f, NEW g, NEW k \in Nat, NEW n \in Nat, UpTo(f, m, k), UpTo(g, m, n)
  PROVE  \A i \in Nat : i <= k /\ i <= n => f[i] = g[i]
<1> DEFINE S == {i \in Nat : i <= k /\ i <= n => f[i] = g[i]}
<1>1. 0 \in S
  BY DEF UpTo
<1>2. ASSUME NEW i \in Nat, i \in S PROVE i + 1 \in S
  <2>1. SUFFICES ASSUME i + 1 <= k, i + 1 <= n PROVE f[i + 1] = g[i + 1]
    OBVIOUS
  <2>2. f[i] = g[i]
    BY <1>2, <2>1
  <2>3. i + 1 \in 1..k /\ i + 1 \in 1..n /\ (i + 1) - 1 = i
    BY <2>1
  <2>4. f[i + 1] = AddBlock(f[i], m, i) /\ g[i + 1] = AddBlock(g[i], m, i)
    BY <2>3 DEF UpTo
  <2> QED
    BY <2>2, <2>4
<1>3. Nat \subseteq S
  <2> HIDE DEF S
  <2> QED
    BY <1>1, <1>2, SetInduction
<1> QED
  BY <1>3

\* So its equations hold.
LEMMA BlocksAre ==
  ASSUME NEW m
  PROVE  /\ Blocks(m)[0] = Zero
         /\ \A b \in Nat : Blocks(m)[b + 1] = AddBlock(Blocks(m)[b], m, b)
<1> DEFINE A(n) == CHOOSE f : UpTo(f, m, n)
           G == [n \in Nat |-> A(n)[n]]
<1>1. \A n \in Nat : UpTo(A(n), m, n)
  BY UpToExists
<1>2. ASSUME NEW n \in Nat
      PROVE  G[n] = IF n = 0 THEN Zero ELSE AddBlock(G[n - 1], m, n - 1)
  <2> G[n] = A(n)[n]
    OBVIOUS
  <2>1. CASE n = 0
    <3> HIDE DEF A, G
    <3> QED
      BY <2>1, <1>1 DEF UpTo
  <2>2. CASE n # 0
    <3>1. n - 1 \in Nat /\ n \in 1..n
      BY <2>2
    <3>2. UpTo(A(n), m, n) /\ UpTo(A(n - 1), m, n - 1)
      BY <1>1, <3>1
    <3>3. A(n)[n] = AddBlock(A(n)[n - 1], m, n - 1)
      <4> HIDE DEF A
      <4> QED
        BY <3>1, <3>2 DEF UpTo
    <3>4. A(n)[n - 1] = A(n - 1)[n - 1]
      <4> HIDE DEF A
      <4>1. n - 1 <= n /\ n - 1 <= n - 1
        BY <3>1
      <4> QED
        BY <3>1, <3>2, <4>1, UpToAgree
    <3>5. G[n - 1] = A(n - 1)[n - 1]
      <4> HIDE DEF A
      <4> QED
        BY <3>1
    <3> HIDE DEF A, G
    <3> QED
      BY <2>2, <3>3, <3>4, <3>5
  <2> QED
    BY <2>1, <2>2
<1>3. G = [n \in Nat |-> IF n = 0 THEN Zero ELSE AddBlock(G[n - 1], m, n - 1)]
  <2>1. G = [n \in Nat |-> G[n]]
    OBVIOUS
  <2> HIDE DEF G
  <2> QED
    BY <1>2, <2>1
<1>4. Blocks(m) = [b \in Nat |-> IF b = 0 THEN Zero ELSE AddBlock(Blocks(m)[b - 1], m, b - 1)]
  <2> HIDE DEF G
  <2> QED
    BY <1>3 DEF Blocks
<1>5. Blocks(m)[0] = Zero
  BY <1>4
<1>6. ASSUME NEW b \in Nat PROVE Blocks(m)[b + 1] = AddBlock(Blocks(m)[b], m, b)
  <2>1. b + 1 \in Nat /\ b + 1 # 0 /\ (b + 1) - 1 = b
    OBVIOUS
  <2>2. Blocks(m)[b + 1] = AddBlock(Blocks(m)[(b + 1) - 1], m, (b + 1) - 1)
    BY <1>4, <2>1
  <2> QED
    BY <2>1, <2>2
<1> QED
  BY <1>5, <1>6

\* What is absorbed after n words.
LEMMA AbsorbedIs ==
  ASSUME NEW m, NEW n
  PROVE  Absorbed(m, n) =
           [w \in DOMAIN Zero |->
              IF w < (n % RATE)
              THEN Xor(Blocks(m)[n \div RATE][w], Bits(m, ((n \div RATE) * RATE + w) * WORD, WORD, 0))
              ELSE Blocks(m)[n \div RATE][w]]
BY DEF Absorbed, Blocks

-----------------------------------------------------------------------------
\* Division with remainder.
LEMMA DivMod ==
  ASSUME NEW r \in Nat, r > 0, NEW n \in Nat
  PROVE  n \div r \in Nat /\ n % r \in 0..r - 1 /\ n = r * (n \div r) + (n % r)
OBVIOUS

LEMMA DivModIs ==
  ASSUME NEW r \in Nat, r > 0, NEW q \in Nat, NEW t \in 0..r - 1, NEW n, n = r * q + t
  PROVE  n \in Nat /\ n \div r = q /\ n % r = t
<1>1. r * q \in Nat /\ n \in Nat /\ r * q <= n /\ n < r * q + r
  BY MulNat
<1>2. n \div r = q
  BY <1>1, DivIs
<1>3. n % r \in 0..r - 1 /\ n = r * q + (n % r)
  BY <1>1, <1>2, DivMod
<1> QED
  BY <1>1, <1>2, <1>3

\* The next word is in the same block, or the first one of the next block.
LEMMA NextWord ==
  ASSUME NEW r \in Nat, r > 0, NEW n \in Nat
  PROVE  IF (n % r) + 1 = r
         THEN (n + 1) \div r = (n \div r) + 1 /\ (n + 1) % r = 0
         ELSE (n + 1) \div r = n \div r /\ (n + 1) % r = (n % r) + 1
<1> DEFINE q == n \div r
           t == n % r
<1>1. q \in Nat /\ t \in 0..r - 1 /\ n = r * q + t
  BY DivMod
<1> HIDE DEF q, t
<1>2. CASE t + 1 = r
  <2>1. n + 1 = r * (q + 1) + 0
    BY <1>1, <1>2, MulNat
  <2>2. q + 1 \in Nat /\ 0 \in 0..r - 1
    BY <1>1
  <2> QED
    BY <1>2, <2>1, <2>2, DivModIs DEF q, t
<1>3. CASE t + 1 # r
  <2>1. n + 1 = r * q + (t + 1) /\ t + 1 \in 0..r - 1
    BY <1>1, <1>3, MulNat
  <2> QED
    BY <1>1, <1>3, <2>1, DivModIs DEF q, t
<1> QED
  BY <1>2, <1>3 DEF t

\* The sizes of the sponge.
LEMMA SpongeSizes ==
  /\ RATE \in Nat /\ RATE > 0 /\ WORD \in Nat /\ WORD > 0
  /\ DOMAIN Zero = 0..SPONGE_WORDS - 1 /\ 0..RATE - 1 \subseteq DOMAIN Zero
  /\ IsState(Zero)
BY SpongeAssumption DEF RATE, Zero, IsState

LEMMA BlocksState ==
  ASSUME Permutes, NEW m
  PROVE  \A b \in Nat : IsState(Blocks(m)[b])
<1> TAKE b \in Nat
<1>1. CASE b = 0
  BY <1>1, BlocksAre, SpongeSizes
<1>2. CASE b # 0
  <2>1. b - 1 \in Nat /\ (b - 1) + 1 = b
    BY <1>2
  <2>2. Blocks(m)[b] = AddBlock(Blocks(m)[b - 1], m, b - 1)
    BY <2>1, BlocksAre
  <2> DEFINE st == [w \in DOMAIN Zero |->
               IF w < RATE THEN Xor(Blocks(m)[b - 1][w], Bits(m, ((b - 1) * RATE + w) * WORD, WORD, 0))
                           ELSE Blocks(m)[b - 1][w]]
  <2>3. AddBlock(Blocks(m)[b - 1], m, b - 1) = keccakf(st)
    BY DEF AddBlock
  <2>4. IsState(st)
    BY DEF IsState
  <2> HIDE DEF st
  <2> QED
    BY <2>2, <2>3, <2>4 DEF Permutes
<1> QED
  BY <1>1, <1>2

\* A complete word of the message goes into the sponge as the definition says.
LEMMA AddWordAbsorbs ==
  ASSUME Permutes, NEW m, NEW n \in Nat, s = Absorbed(m, n), wordIndex = n % RATE,
         NEW t, t = Bits(m, n * WORD, WORD, 0), AddWord(t)
  PROVE  s' = Absorbed(m, n + 1) /\ wordIndex' = (n + 1) % RATE
<1> DEFINE q == n \div RATE
           wi == n % RATE
           st == Blocks(m)[q]
           D == DOMAIN Zero
           B(w) == Bits(m, (q * RATE + w) * WORD, WORD, 0)
           sum == [s EXCEPT ![wordIndex] = Xor(@, t)]
<1>1. q \in Nat /\ wi \in 0..RATE - 1 /\ n = RATE * q + wi /\ RATE \in Nat /\ RATE > 0
      /\ wi \in D /\ \A w \in D : w \in Nat
  BY DivMod, SpongeSizes
<1>2. t = B(wi)
  <2>1. n = q * RATE + wi
    BY <1>1
  <2> QED
    BY <2>1
<1>3. s = [w \in D |-> IF w < wi THEN Xor(st[w], B(w)) ELSE st[w]]
  BY AbsorbedIs
<1> HIDE DEF q, wi, st, D, B
<1>4. sum = [w \in D |-> IF w < wi + 1 THEN Xor(st[w], B(w)) ELSE st[w]]
  <2> DEFINE new == [w \in D |-> IF w < wi + 1 THEN Xor(st[w], B(w)) ELSE st[w]]
  <2>1. wordIndex = wi
    BY DEF wi
  <2>2. DOMAIN sum = D /\ sum = [w \in D |-> sum[w]]
    BY <1>3
  <2>3. ASSUME NEW w \in D PROVE sum[w] = new[w]
    <3>1. CASE w = wi
      BY <1>1, <1>2, <1>3, <2>1, <3>1
    <3>2. CASE w # wi
      <4>1. w < wi <=> w < wi + 1
        BY <1>1, <3>2
      <4> QED
        BY <1>3, <2>1, <3>2, <4>1
    <3> QED
      BY <3>1, <3>2
  <2> HIDE DEF sum
  <2> QED
    BY <2>2, <2>3
<1>5. IF wi + 1 = RATE
      THEN s' = keccakf(sum) /\ wordIndex' = 0
      ELSE s' = sum /\ wordIndex' = wi + 1
  BY DEF AddWord, wi
<1> HIDE DEF sum
<1>6. CASE wi + 1 = RATE
  <2>1. (n + 1) \div RATE = q + 1 /\ (n + 1) % RATE = 0
    BY <1>1, <1>6, NextWord DEF q, wi
  <2>2. Blocks(m)[q + 1] = AddBlock(st, m, q)
    BY <1>1, BlocksAre DEF st
  <2>3. AddBlock(st, m, q) = keccakf(sum)
    <3>1. AddBlock(st, m, q) = keccakf([w \in D |-> IF w < RATE THEN Xor(st[w], B(w)) ELSE st[w]])
      BY DEF AddBlock, D, B
    <3> QED
      BY <1>4, <1>6, <3>1
  <2>4. IsState(Blocks(m)[q + 1])
    <3>1. q + 1 \in Nat
      BY <1>1
    <3> QED
      BY <3>1, BlocksState
  <2>5. Absorbed(m, n + 1) = [w \in D |-> IF w < 0 THEN Xor(Blocks(m)[q + 1][w], Bits(m, ((q + 1) * RATE + w) * WORD, WORD, 0))
                                          ELSE Blocks(m)[q + 1][w]]
    BY <2>1, AbsorbedIs DEF D
  <2>6. \A w \in D : ~(w < 0)
    BY <1>1
  <2>7. Absorbed(m, n + 1) = [w \in D |-> Blocks(m)[q + 1][w]]
    BY <2>5, <2>6
  <2> QED
    BY <1>5, <1>6, <2>1, <2>2, <2>3, <2>4, <2>7 DEF IsState, D
<1>7. CASE wi + 1 # RATE
  <2>1. (n + 1) \div RATE = q /\ (n + 1) % RATE = wi + 1
    BY <1>1, <1>7, NextWord DEF q, wi
  <2>2. Absorbed(m, n + 1) = [w \in D |-> IF w < wi + 1 THEN Xor(st[w], B(w)) ELSE st[w]]
    BY <2>1, AbsorbedIs DEF D, st, B
  <2> QED
    BY <1>4, <1>5, <1>7, <2>1, <2>2
<1> QED
  BY <1>6, <1>7

-----------------------------------------------------------------------------
\* The bits of n bytes, one by one: e is a bit of byte x.
BitOf(m, k, i, x, e) == \E b \in m[k + x + 1] : e = <<8 * (i + x) + b>>

LEMMA BitsIs ==
  \A m, k, n, i, e : e \in Bits(m, k, n, i) <=> \E x \in 0..n - 1 : BitOf(m, k, i, x, e)
BY DEF Bits, BitOf

\* Bytes that follow one another.
Joined(m, k, n, l) == Bits(m, k, n, 0) \cup Bits(m, k + n, l, n) = Bits(m, k, n + l, 0)

LEMMA BitsJoin ==
  ASSUME NEW m, NEW k \in Nat, NEW n \in Nat, NEW l \in Nat
  PROVE  Joined(m, k, n, l)
<1>1. ASSUME NEW x \in Nat, NEW e
      PROVE  BitOf(m, k + n, n, x, e) <=> BitOf(m, k, 0, n + x, e)
  <2>1. k + n + x + 1 = k + (n + x) + 1 /\ 0 + (n + x) = n + x
    OBVIOUS
  <2> QED
    BY <2>1 DEF BitOf
<1>2. ASSUME NEW e
      PROVE  e \in Bits(m, k, n, 0) \cup Bits(m, k + n, l, n) <=> e \in Bits(m, k, n + l, 0)
  <2>1. e \in Bits(m, k, n, 0) <=> \E x \in 0..n - 1 : BitOf(m, k, 0, x, e)
    BY BitsIs
  <2>2. e \in Bits(m, k + n, l, n) <=> \E x \in 0..l - 1 : BitOf(m, k, 0, n + x, e)
    <3>1. e \in Bits(m, k + n, l, n) <=> \E x \in 0..l - 1 : BitOf(m, k + n, n, x, e)
      BY BitsIs
    <3> QED
      BY <1>1, <3>1
  <2>3. e \in Bits(m, k, n + l, 0) <=> \E x \in 0..(n + l) - 1 : BitOf(m, k, 0, x, e)
    BY BitsIs
  <2>4. ASSUME NEW x \in 0..(n + l) - 1, BitOf(m, k, 0, x, e)
        PROVE  \/ \E y \in 0..n - 1 : BitOf(m, k, 0, y, e)
               \/ \E y \in 0..l - 1 : BitOf(m, k, 0, n + y, e)
    <3>1. CASE x < n
      BY <2>4, <3>1
    <3>2. CASE x >= n
      <4>1. x - n \in 0..l - 1 /\ x = n + (x - n)
        BY <3>2
      <4>2. BitOf(m, k, 0, n + (x - n), e)
        BY <2>4, <4>1
      <4> QED
        BY <4>1, <4>2
    <3> QED
      BY <3>1, <3>2
  <2>5. ASSUME NEW x \in 0..n - 1, BitOf(m, k, 0, x, e)
        PROVE  \E y \in 0..(n + l) - 1 : BitOf(m, k, 0, y, e)
    <3>1. x \in 0..(n + l) - 1
      OBVIOUS
    <3> QED
      BY <2>5, <3>1
  <2>6. ASSUME NEW x \in 0..l - 1, BitOf(m, k, 0, n + x, e)
        PROVE  \E y \in 0..(n + l) - 1 : BitOf(m, k, 0, y, e)
    <3>1. n + x \in 0..(n + l) - 1
      OBVIOUS
    <3> QED
      BY <2>6, <3>1
  <2> QED
    BY <2>1, <2>2, <2>3, <2>4, <2>5, <2>6
<1> QED
  BY <1>2 DEF Joined

LEMMA BitsNone == \A m, k, i : Bits(m, k, 0, i) = {}
BY BitsIs

-----------------------------------------------------------------------------
(***************************************************************************)
(* The invariant: the context only depends on the bytes that have been     *)
(* passed, between the calls and in the loop of Update.                    *)
(***************************************************************************)
PosInv ==
  /\ message \in Messages /\ pos \in Nat /\ end \in Nat
  /\ pos <= end /\ end <= Len(message)
  /\ pc \in {"idle", "words", "final"}
  /\ pc # "words" => pos = end

CtxInv ==
  /\ byteIndex = pos % WORD /\ wordIndex = (pos \div WORD) % RATE
  /\ saved = Bits(message, (pos \div WORD) * WORD, byteIndex, 0)
  /\ pc = "words" => byteIndex = 0

SpongeInv ==
  /\ pc # "final" => s = Absorbed(message, pos \div WORD)
  /\ pc = "final" => s = Sponge(message)

IInv == PosInv /\ CtxInv /\ SpongeInv

\* The positions of the message.
LEMMA MessageLen == PosInv => Len(message) \in Nat
BY SpongeAssumption DEF PosInv

LEMMA Fresh == ASSUME NEW m PROVE Absorbed(m, 0) = Zero
<1>1. 0 \div RATE = 0 /\ 0 % RATE = 0
  <2>1. RATE \in Nat /\ RATE > 0 /\ 0 = RATE * 0 + 0 /\ 0 \in 0..RATE - 1
    BY SpongeSizes
  <2> QED
    BY <2>1, DivModIs
<1>2. \A w \in DOMAIN Zero : ~(w < 0)
  BY SpongeSizes
<1>3. Absorbed(m, 0) = [w \in DOMAIN Zero |-> Blocks(m)[0][w]]
  BY <1>1, <1>2, AbsorbedIs
<1> QED
  BY <1>3, BlocksAre, SpongeSizes DEF IsState

\* Init and Init256.
LEMMA InitInv ==
  ASSUME NEW m \in Messages
  PROVE  /\ 0 % WORD = 0 /\ (0 \div WORD) % RATE = 0 /\ 0 <= Len(m)
         /\ Bits(m, (0 \div WORD) * WORD, 0, 0) = {}
         /\ Absorbed(m, 0 \div WORD) = Zero
<1>1. 0 \div WORD = 0 /\ 0 % WORD = 0
  <2>1. WORD \in Nat /\ WORD > 0 /\ 0 = WORD * 0 + 0 /\ 0 \in 0..WORD - 1
    BY SpongeSizes
  <2> QED
    BY <2>1, DivModIs
<1>2. 0 % RATE = 0
  <2>1. RATE \in Nat /\ RATE > 0 /\ 0 = RATE * 0 + 0 /\ 0 \in 0..RATE - 1
    BY SpongeSizes
  <2> QED
    BY <2>1, DivModIs
<1>3. 0 <= Len(m)
  BY SpongeAssumption
<1> QED
  BY <1>1, <1>2, <1>3, Fresh, BitsNone

\* The position by words and bytes, and the rest of a word that has been begun.
LEMMA Position ==
  ASSUME PosInv, CtxInv
  PROVE  /\ pos \div WORD \in Nat /\ byteIndex \in 0..WORD - 1 /\ WORD \in Nat /\ WORD > 0
         /\ pos = WORD * (pos \div WORD) + byteIndex
         /\ (pos \div WORD) * WORD = WORD * (pos \div WORD)
         /\ (pos \div WORD) * WORD \in Nat
         /\ old_tail = IF byteIndex = 0 THEN 0 ELSE WORD - byteIndex
<1>1. /\ pos \div WORD \in Nat /\ byteIndex \in 0..WORD - 1 /\ WORD \in Nat /\ WORD > 0
      /\ pos = WORD * (pos \div WORD) + byteIndex
  BY SpongeSizes, DivMod DEF PosInv, CtxInv
<1>2. old_tail = IF byteIndex = 0 THEN 0 ELSE WORD - byteIndex
  <2>1. CASE byteIndex = 0
    <3>1. WORD - byteIndex = WORD * 1 + 0 /\ 0 \in 0..WORD - 1
      BY <1>1, <2>1
    <3> QED
      BY <1>1, <2>1, <3>1, DivModIs DEF old_tail
  <2>2. CASE byteIndex # 0
    <3> DEFINE d == WORD - byteIndex
    <3>1. d = WORD * 0 + d /\ d \in 0..WORD - 1
      BY <1>1, <2>2
    <3>2. old_tail = d % WORD
      BY DEF old_tail
    <3> HIDE DEF d
    <3>3. d % WORD = d
      BY <1>1, <3>1
    <3> QED
      BY <2>2, <3>2, <3>3 DEF d
  <2> QED
    BY <2>1, <2>2
<1> DEFINE q == pos \div WORD
<1>3. q * WORD = WORD * q /\ q * WORD \in Nat
  <2> HIDE DEF q
  <2> QED
    BY <1>1, MulNat DEF q
<1> QED
  BY <1>1, <1>2, <1>3

-----------------------------------------------------------------------------
\* Bytes of the buffer that stay in the word: UpdateShort and UpdateTail.
LEMMA Waits ==
  ASSUME PosInv, CtxInv, NEW len \in Nat, byteIndex + len < WORD
  PROVE  /\ (pos + len) \div WORD = pos \div WORD
         /\ byteIndex + len = (pos + len) % WORD
         /\ saved \cup Bits(message, pos, len, byteIndex)
              = Bits(message, (pos \div WORD) * WORD, byteIndex + len, 0)
<1> DEFINE q == pos \div WORD
<1>1. /\ q \in Nat /\ byteIndex \in 0..WORD - 1 /\ WORD \in Nat /\ WORD > 0
      /\ pos = WORD * q + byteIndex /\ q * WORD = WORD * q /\ q * WORD \in Nat
  BY Position
<1>2. saved = Bits(message, q * WORD, byteIndex, 0)
  BY DEF CtxInv
<1> HIDE DEF q
<1>3. (pos + len) \div WORD = q /\ byteIndex + len = (pos + len) % WORD
  <2>1. pos + len = WORD * q + (byteIndex + len) /\ byteIndex + len \in 0..WORD - 1
    BY <1>1, MulNat
  <2> DEFINE p == pos + len
             t == byteIndex + len
  <2>2. p = WORD * q + t /\ t \in 0..WORD - 1
    BY <2>1
  <2> HIDE DEF p, t
  <2>3. p \div WORD = q /\ p % WORD = t
    BY <1>1, <2>2, DivModIs
  <2> QED
    BY <2>3 DEF p, t
<1>4. saved \cup Bits(message, pos, len, byteIndex) = Bits(message, q * WORD, byteIndex + len, 0)
  <2>1. pos = q * WORD + byteIndex /\ byteIndex \in Nat
    BY <1>1
  <2> DEFINE k == q * WORD
  <2>2. k \in Nat /\ pos = k + byteIndex
    BY <1>1, <2>1
  <2>3. Bits(message, q * WORD, byteIndex, 0) \cup Bits(message, pos, len, byteIndex)
        = Bits(message, q * WORD, byteIndex + len, 0)
    <3> HIDE DEF k
    <3>1. Joined(message, k, byteIndex, len)
      BY <2>1, <2>2, BitsJoin
    <3>2. Bits(message, k, byteIndex, 0) \cup Bits(message, pos, len, byteIndex)
            = Bits(message, k, byteIndex + len, 0)
      BY <2>2, <3>1 DEF Joined
    <3> QED
      BY <3>2 DEF k
  <2> QED
    BY <1>1, <1>2, <2>3
<1> QED
  BY <1>3, <1>4 DEF q

\* Bytes of the buffer that complete the word: Update and UpdateWord.
LEMMA Completes ==
  ASSUME Permutes, PosInv, CtxInv, s = Absorbed(message, pos \div WORD),
         NEW len \in Nat, byteIndex + len = WORD, pos + len <= Len(message),
         AddWord(saved \cup Bits(message, pos, len, byteIndex))
  PROVE  /\ (pos + len) % WORD = 0
         /\ s' = Absorbed(message, (pos + len) \div WORD)
         /\ wordIndex' = ((pos + len) \div WORD) % RATE
<1> DEFINE q == pos \div WORD
           t == saved \cup Bits(message, pos, len, byteIndex)
<1>1. /\ q \in Nat /\ byteIndex \in 0..WORD - 1 /\ WORD \in Nat /\ WORD > 0
      /\ pos = WORD * q + byteIndex /\ q * WORD = WORD * q /\ q * WORD \in Nat
  BY Position
<1>2. saved = Bits(message, q * WORD, byteIndex, 0) /\ wordIndex = q % RATE
  BY DEF CtxInv
<1>3. s = Absorbed(message, q)
  OBVIOUS
<1> HIDE DEF q
<1>4. t = Bits(message, q * WORD, WORD, 0)
  <2>1. pos = q * WORD + byteIndex /\ byteIndex \in Nat
    BY <1>1
  <2> DEFINE k == q * WORD
  <2>2. k \in Nat /\ pos = k + byteIndex
    BY <1>1, <2>1
  <2>3. Bits(message, q * WORD, byteIndex, 0) \cup Bits(message, pos, len, byteIndex)
        = Bits(message, q * WORD, byteIndex + len, 0)
    <3> HIDE DEF k
    <3>1. Joined(message, k, byteIndex, len)
      BY <2>1, <2>2, BitsJoin
    <3>2. Bits(message, k, byteIndex, 0) \cup Bits(message, pos, len, byteIndex)
            = Bits(message, k, byteIndex + len, 0)
      BY <2>2, <3>1 DEF Joined
    <3> QED
      BY <3>2 DEF k
  <2> QED
    BY <1>1, <1>2, <2>3
<1> HIDE DEF t
<1>5. s' = Absorbed(message, q + 1) /\ wordIndex' = (q + 1) % RATE
  BY <1>1, <1>2, <1>3, <1>4, AddWordAbsorbs DEF t
<1>6. (pos + len) \div WORD = q + 1 /\ (pos + len) % WORD = 0
  <2> DEFINE p == pos + len
             r == q + 1
  <2>1. p = r * WORD /\ r \in Nat
    BY <1>1, MulNat
  <2> HIDE DEF p, r
  <2>2. p \div WORD = r /\ p % WORD = 0
    BY <1>1, <2>1, DivExact
  <2> QED
    BY <2>2 DEF p, r
<1> QED
  BY <1>5, <1>6

\* Every step but Finalize keeps the invariant.
LEMMA UpdateInv ==
  ASSUME Permutes, IInv,
         \/ Init256
         \/ \E len \in 0..Len(message) : UpdateShort(len) \/ Update(len)
         \/ UpdateWord \/ UpdateTail
  PROVE  IInv'
<1>0. Len(message) \in Nat
  BY MessageLen DEF IInv
<1>1. CASE Init256
  <2>1. message' \in Messages
    BY <1>1 DEF Init256
  <2>2. /\ 0 % WORD = 0 /\ (0 \div WORD) % RATE = 0 /\ 0 <= Len(message')
        /\ Bits(message', (0 \div WORD) * WORD, 0, 0) = {}
        /\ Absorbed(message', 0 \div WORD) = Zero
    BY <2>1, InitInv
  <2> QED
    BY <1>1, <2>1, <2>2 DEF Init256, IInv, PosInv, CtxInv, SpongeInv
<1>2. ASSUME NEW len \in 0..Len(message), UpdateShort(len) PROVE IInv'
  <2>1. byteIndex + len < WORD /\ len \in Nat
    <3>1. /\ byteIndex \in 0..WORD - 1 /\ WORD \in Nat
          /\ old_tail = IF byteIndex = 0 THEN 0 ELSE WORD - byteIndex
      BY Position DEF IInv
    <3>2. len \in Nat /\ len < old_tail
      BY <1>0, <1>2 DEF UpdateShort
    <3> QED
      BY <3>1, <3>2
  <2>2. /\ (pos + len) \div WORD = pos \div WORD
        /\ byteIndex + len = (pos + len) % WORD
        /\ saved \cup Bits(message, pos, len, byteIndex)
             = Bits(message, (pos \div WORD) * WORD, byteIndex + len, 0)
    BY <2>1, Waits DEF IInv
  <2>3. PosInv'
    BY <1>0, <1>2, <2>1 DEF UpdateShort, IInv, PosInv
  <2> QED
    BY <1>2, <2>2, <2>3 DEF UpdateShort, IInv, CtxInv, SpongeInv
<1>3. ASSUME NEW len \in 0..Len(message), Update(len) PROVE IInv'
  <2>1. /\ byteIndex \in 0..WORD - 1 /\ WORD \in Nat /\ pos \in Nat
        /\ old_tail = IF byteIndex = 0 THEN 0 ELSE WORD - byteIndex
    BY Position DEF IInv, PosInv
  <2>2. PosInv'
    BY <1>0, <1>3, <2>1 DEF Update, IInv, PosInv
  <2>3. CASE byteIndex = 0
    <3>1. old_tail = 0 /\ pos' = pos
      BY <1>3, <2>1, <2>3 DEF Update
    <3> QED
      BY <1>3, <2>2, <2>3, <3>1 DEF Update, IInv, CtxInv, SpongeInv, ctx
  <2>4. CASE byteIndex # 0
    <3>1. /\ old_tail \in Nat /\ old_tail > 0 /\ byteIndex + old_tail = WORD
          /\ pos + old_tail <= Len(message)
      BY <1>0, <1>3, <2>1, <2>4 DEF Update
    <3>2. /\ AddWord(saved \cup Bits(message, pos, old_tail, byteIndex))
          /\ saved' = {} /\ byteIndex' = 0 /\ pos' = pos + old_tail /\ pc' = "words"
          /\ message' = message
      BY <1>3, <3>1 DEF Update
    <3>3. s = Absorbed(message, pos \div WORD)
      BY <1>3 DEF Update, IInv, SpongeInv
    <3>4. /\ (pos + old_tail) % WORD = 0
          /\ s' = Absorbed(message, (pos + old_tail) \div WORD)
          /\ wordIndex' = ((pos + old_tail) \div WORD) % RATE
      BY <3>1, <3>2, <3>3, Completes DEF IInv
    <3> QED
      BY <2>2, <3>2, <3>4, BitsNone DEF IInv, CtxInv, SpongeInv
  <2> QED
    BY <2>3, <2>4
<1>4. CASE UpdateWord
  <2>1. pc = "words" /\ byteIndex = 0 /\ saved = {} /\ WORD \in Nat /\ pos \in Nat /\ end \in Nat
    BY <1>4, BitsNone, SpongeSizes DEF UpdateWord, IInv, CtxInv, PosInv
  <2>2. pos + WORD <= Len(message) /\ byteIndex + WORD = WORD /\ pos + WORD <= end
    BY <1>0, <1>4, <2>1 DEF UpdateWord, IInv, PosInv
  <2>3. AddWord(saved \cup Bits(message, pos, WORD, byteIndex))
    <3>1. {} \cup Bits(message, pos, WORD, 0) = Bits(message, pos, WORD, 0)
      OBVIOUS
    <3> QED
      BY <1>4, <2>1, <3>1 DEF UpdateWord
  <2>4. s = Absorbed(message, pos \div WORD)
    BY <2>1 DEF IInv, SpongeInv
  <2>5. /\ (pos + WORD) % WORD = 0
        /\ s' = Absorbed(message, (pos + WORD) \div WORD)
        /\ wordIndex' = ((pos + WORD) \div WORD) % RATE
    BY <2>1, <2>2, <2>3, <2>4, Completes DEF IInv
  <2>6. PosInv'
    BY <1>4, <2>1, <2>2 DEF UpdateWord, IInv, PosInv
  <2> QED
    BY <1>4, <2>1, <2>5, <2>6, BitsNone DEF UpdateWord, IInv, CtxInv, SpongeInv
<1>5. CASE UpdateTail
  <2> DEFINE len == end - pos
  <2>1. pc = "words" /\ byteIndex = 0 /\ WORD \in Nat /\ pos \in Nat /\ end \in Nat
        /\ len \in Nat /\ byteIndex + len < WORD /\ pos + len = end
    BY <1>5, SpongeSizes DEF UpdateTail, IInv, CtxInv, PosInv
  <2>2. /\ saved' = saved \cup Bits(message, pos, len, byteIndex)
        /\ byteIndex' = byteIndex + len /\ pos' = pos + len /\ pc' = "idle"
        /\ UNCHANGED <<s, wordIndex, message, end>>
    BY <1>5, <2>1 DEF UpdateTail
  <2> HIDE DEF len
  <2>3. /\ (pos + len) \div WORD = pos \div WORD
        /\ byteIndex + len = (pos + len) % WORD
        /\ saved \cup Bits(message, pos, len, byteIndex)
             = Bits(message, (pos \div WORD) * WORD, byteIndex + len, 0)
    BY <2>1, Waits DEF IInv
  <2>4. PosInv'
    BY <2>1, <2>2 DEF IInv, PosInv
  <2> QED
    BY <2>1, <2>2, <2>3, <2>4 DEF IInv, CtxInv, SpongeInv
<1> QED
  BY <1>1, <1>2, <1>3, <1>4, <1>5

-----------------------------------------------------------------------------
(***************************************************************************)
(* Finalize.  A message m has B complete blocks, wi complete words behind  *)
(* them, and bi bytes behind those; its padding fills one more block.      *)
(***************************************************************************)
LEMMA PaddedSizes ==
  ASSUME NEW m \in Messages, NEW q, q = Len(m) \div WORD, NEW bi, bi = Len(m) % WORD,
         NEW B, B = q \div RATE, NEW wi, wi = q % RATE
  PROVE  /\ B \in Nat /\ wi \in 0..RATE - 1 /\ bi \in 0..WORD - 1 /\ q = RATE * B + wi
         /\ Len(m) \in Nat /\ Len(m) = (B * RATE) * WORD + wi * WORD + bi
         /\ (B * RATE) * WORD \in Nat
         /\ Padded(m) = [x \in 1 .. (B * RATE) * WORD + RATE * WORD |->
              IF x <= Len(m) THEN m[x]
              ELSE (IF x = Len(m) + 1 THEN {1, 2} ELSE {})
                     \cup (IF x = (B * RATE) * WORD + RATE * WORD THEN {7} ELSE {})]
         /\ Len(Padded(m)) \div WORD = (B + 1) * RATE
<1>1. RATE \in Nat /\ RATE > 0 /\ WORD \in Nat /\ WORD > 0 /\ Len(m) \in Nat
  BY SpongeSizes, SpongeAssumption
<1>2. q \in Nat /\ bi \in 0..WORD - 1 /\ Len(m) = WORD * q + bi
  BY <1>1, DivMod
<1>3. B \in Nat /\ wi \in 0..RATE - 1 /\ q = RATE * B + wi
  BY <1>1, <1>2, DivMod
<1> DEFINE c == (B * RATE) * WORD
           N == Len(m)
           block == RATE * WORD
<1>4. c \in Nat /\ c = block * B /\ block \in Nat /\ B * RATE \in Nat
  BY <1>1, <1>3, MulNat
<1>5. N = c + wi * WORD + bi /\ wi * WORD \in Nat
  <2>1. WORD * (RATE * B + wi) = (B * RATE) * WORD + wi * WORD
    BY <1>1, <1>3
  <2>2. wi \in Nat
    BY <1>1, <1>3
  <2>3. wi * WORD \in Nat
    BY <1>1, <2>2, MulNat
  <2>4. WORD * q = c + wi * WORD
    BY <1>3, <2>1
  <2>5. N = WORD * q + bi
    BY <1>2
  <2> HIDE DEF c, N
  <2> QED
    BY <2>3, <2>4, <2>5
<1>6. wi * WORD + bi < block
  <2>1. WORD * wi + WORD <= WORD * RATE
    BY <1>1, <1>3, MulMono
  <2>2. WORD * wi = wi * WORD /\ WORD * RATE = block
    BY <1>1, <1>3
  <2> QED
    BY <1>1, <1>2, <1>4, <1>5, <2>1, <2>2
<1>7. N \div block = B
  <2>0. N \in Nat /\ WORD <= block
    <3>1. WORD * 1 <= WORD * RATE
      BY <1>1, MulMono
    <3> QED
      BY <1>1, <3>1
  <2> DEFINE v == wi * WORD
             d == block * B
  <2>a. N = c + v + bi /\ v \in Nat /\ v + bi < block /\ c = d
        /\ c \in Nat /\ block \in Nat /\ bi \in Nat /\ WORD \in Nat /\ WORD > 0
    BY <1>1, <1>2, <1>4, <1>5, <1>6
  <2> HIDE DEF c, N, block, v, d
  <2>1. block > 0 /\ d <= N /\ N < d + block
    BY <2>0, <2>a
  <2>2. block > 0 /\ block * B <= N /\ N < block * B + block /\ N \in Nat
    BY <2>0, <2>1 DEF d
  <2> QED
    BY <1>3, <1>4, <2>2, DivIs
<1>8. block * (N \div block + 1) = c + block
  <2>1. block * (B + 1) = block * B + block
    BY <1>3, <1>4
  <2> QED
    BY <1>4, <1>7, <2>1
<1>9. Padded(m) = [x \in 1 .. c + block |->
                     IF x <= N THEN m[x]
                     ELSE (IF x = N + 1 THEN {1, 2} ELSE {}) \cup (IF x = c + block THEN {7} ELSE {})]
  BY <1>8 DEF Padded
<1>10. Len(Padded(m)) \div WORD = (B + 1) * RATE
  <2>1. Len(Padded(m)) = c + block
    <3>1. DOMAIN Padded(m) = 1..c + block /\ c + block \in Nat
      BY <1>4, <1>9
    <3>2. Padded(m) \in Seq(SUBSET (0..7))
      <4>1. m \in Seq(SUBSET (0..7))
        BY SpongeAssumption
      <4>2. ASSUME NEW x \in 1..c + block PROVE Padded(m)[x] \in SUBSET (0..7)
        <5>1. Padded(m)[x] = IF x <= N THEN m[x]
                     ELSE (IF x = N + 1 THEN {1, 2} ELSE {}) \cup (IF x = c + block THEN {7} ELSE {})
          BY <1>9
        <5>2. x <= N => m[x] \in SUBSET (0..7)
          BY <1>1, <1>4, <4>1
        <5>3. 1 \in 0..7 /\ 2 \in 0..7 /\ 7 \in 0..7
          OBVIOUS
        <5> HIDE DEF c, block, N
        <5> QED
          BY <5>1, <5>2, <5>3
      <4>3. Padded(m) = [x \in 1..c + block |-> Padded(m)[x]]
        BY <1>9
      <4> DEFINE pm == Padded(m)
      <4> HIDE DEF c, block, N, pm
      <4>4. pm \in [1..c + block -> SUBSET (0..7)]
        BY <4>2, <4>3 DEF pm
      <4> QED
        BY <3>1, <4>4 DEF pm
    <3> HIDE DEF c, block
    <3> QED
      BY <3>1, <3>2
  <2>2. c + block = ((B + 1) * RATE) * WORD
    BY <1>1, <1>3
  <2>3. (B + 1) * RATE \in Nat
    BY <1>1, <1>3
  <2> DEFINE n == (B + 1) * RATE
             p == Padded(m)
  <2>4. Len(p) = n * WORD /\ n \in Nat
    BY <2>1, <2>2, <2>3
  <2> HIDE DEF n, p
  <2>5. Len(p) \div WORD = n
    BY <1>1, <2>4, DivExact
  <2> QED
    BY <2>5 DEF n, p
<1> QED
  BY <1>1, <1>2, <1>3, <1>4, <1>5, <1>9, <1>10

\* Where a byte of the padded last block is.
LEMMA PlaceInBlock ==
  ASSUME NEW c \in Nat, NEW wi \in 0..RATE - 1, NEW bi \in 0..WORD - 1,
         NEW w \in 0..RATE - 1, NEW x \in 0..WORD - 1,
         NEW N, N = c + wi * WORD + bi, NEW y, y = c + w * WORD + x + 1
  PROVE  /\ y \in 1 .. c + RATE * WORD
         /\ y <= N <=> w < wi \/ (w = wi /\ x < bi)
         /\ y = N + 1 <=> w = wi /\ x = bi
         /\ y = c + RATE * WORD <=> w = RATE - 1 /\ x = WORD - 1
<1> DEFINE v == w * WORD
           vi == wi * WORD
           l == (RATE - 1) * WORD
<1>1. RATE \in Nat /\ RATE > 0 /\ WORD \in Nat /\ WORD > 0
  BY SpongeSizes
<1>2. w \in Nat /\ wi \in Nat /\ RATE - 1 \in Nat
  BY <1>1
<1>3. v \in Nat /\ vi \in Nat /\ l \in Nat
  BY <1>1, <1>2, MulNat
<1>4. v = WORD * w /\ vi = WORD * wi /\ l = WORD * (RATE - 1)
  BY <1>1, <1>2
<1>5. RATE * WORD = l + WORD
  BY <1>1
<1>6. /\ w < wi => v + WORD <= vi
      /\ wi < w => vi + WORD <= v
      /\ w < RATE - 1 => v + WORD <= l
      /\ w = wi => v = vi
      /\ w = RATE - 1 => v = l
  BY <1>1, <1>2, <1>4, MulMono
<1>7. N = c + vi + bi /\ y = c + v + x + 1 /\ x \in Nat /\ bi \in Nat
      /\ x < WORD /\ bi < WORD /\ w <= RATE - 1
  BY <1>1
<1> DEFINE r == RATE - 1
           z == RATE * WORD
<1>8. r \in Nat /\ z = l + WORD /\ w <= r
  BY <1>2, <1>5, <1>7
<1>9. /\ w < r => v + WORD <= l
      /\ w = r => v = l
  BY <1>6
<1> HIDE DEF v, vi, l, r, z
<1>10. y \in 1 .. c + z
  BY <1>1, <1>2, <1>3, <1>7, <1>8, <1>9
<1>11. y <= N <=> w < wi \/ (w = wi /\ x < bi)
  BY <1>1, <1>2, <1>3, <1>6, <1>7
<1>12. y = N + 1 <=> w = wi /\ x = bi
  BY <1>1, <1>2, <1>3, <1>6, <1>7
<1>13. y = c + z <=> w = r /\ x = WORD - 1
  BY <1>1, <1>2, <1>3, <1>7, <1>8, <1>9
<1> QED
  BY <1>10, <1>11, <1>12, <1>13 DEF r, z

\* The byte itself; c is where the last block begins.
LastByte(m, p, c, wi, bi, w, x) ==
  p[c + w * WORD + x + 1] =
    IF w < wi \/ (w = wi /\ x < bi) THEN m[c + w * WORD + x + 1]
    ELSE (IF w = wi /\ x = bi THEN {1, 2} ELSE {}) \cup (IF w = RATE - 1 /\ x = WORD - 1 THEN {7} ELSE {})

LEMMA LastBytes ==
  ASSUME NEW m, NEW c \in Nat, NEW wi \in 0..RATE - 1, NEW bi \in 0..WORD - 1,
         Len(m) = c + wi * WORD + bi,
         NEW p, p = [x \in 1 .. c + RATE * WORD |->
              IF x <= Len(m) THEN m[x]
              ELSE (IF x = Len(m) + 1 THEN {1, 2} ELSE {})
                     \cup (IF x = c + RATE * WORD THEN {7} ELSE {})]
  PROVE  \A w \in 0..RATE - 1, x \in 0..WORD - 1 : LastByte(m, p, c, wi, bi, w, x)
<1> TAKE w \in 0..RATE - 1, x \in 0..WORD - 1
<1> DEFINE y == c + w * WORD + x + 1
           N == Len(m)
           z == c + RATE * WORD
<1>1. /\ y \in 1 .. z
      /\ y <= N <=> w < wi \/ (w = wi /\ x < bi)
      /\ y = N + 1 <=> w = wi /\ x = bi
      /\ y = z <=> w = RATE - 1 /\ x = WORD - 1
  BY PlaceInBlock
<1>2. y \in 1 .. z => p[y] = IF y <= N THEN m[y] ELSE (IF y = N + 1 THEN {1, 2} ELSE {}) \cup (IF y = z THEN {7} ELSE {})
  OBVIOUS
<1>3. LastByte(m, p, c, wi, bi, w, x) <=>
        (p[y] = IF w < wi \/ (w = wi /\ x < bi) THEN m[y]
                ELSE (IF w = wi /\ x = bi THEN {1, 2} ELSE {})
                       \cup (IF w = RATE - 1 /\ x = WORD - 1 THEN {7} ELSE {}))
  BY DEF LastByte
<1> HIDE DEF y, N, z
<1> QED
  BY <1>1, <1>2, <1>3

\* Equal bytes have equal bits, so the padding leaves the complete blocks alone.
SameBits(m, p, k, n) == Bits(p, k, n, 0) = Bits(m, k, n, 0)

LEMMA BitsSame ==
  ASSUME NEW m, NEW p, NEW k \in Nat, NEW n \in Nat, \A x \in 0..n - 1 : p[k + x + 1] = m[k + x + 1]
  PROVE  SameBits(m, p, k, n)
<1>1. \A x \in 0..n - 1 : \A e : BitOf(p, k, 0, x, e) <=> BitOf(m, k, 0, x, e)
  BY DEF BitOf
<1>2. ASSUME NEW e PROVE e \in Bits(p, k, n, 0) <=> e \in Bits(m, k, n, 0)
  <2>1. e \in Bits(p, k, n, 0) <=> \E x \in 0..n - 1 : BitOf(p, k, 0, x, e)
    BY BitsIs
  <2>2. e \in Bits(m, k, n, 0) <=> \E x \in 0..n - 1 : BitOf(m, k, 0, x, e)
    BY BitsIs
  <2> QED
    BY <1>1, <2>1, <2>2
<1> QED
  BY <1>2 DEF SameBits

\* Where word w of block b of a message is.
LEMMA WordInBlocks ==
  ASSUME NEW B \in Nat, NEW b \in Nat, b < B, NEW w \in 0..RATE - 1, NEW x \in 0..WORD - 1
  PROVE  /\ (b * RATE + w) * WORD \in Nat
         /\ (b * RATE + w) * WORD + x + 1 \in 1 .. (B * RATE) * WORD
<1>1. RATE \in Nat /\ RATE > 0 /\ WORD \in Nat /\ WORD > 0 /\ w \in Nat /\ x \in Nat /\ x < WORD
  BY SpongeSizes
<1> DEFINE n == b * RATE + w
           l == B * RATE
<1>2. n \in Nat /\ l \in Nat /\ n < l
  <2>1. RATE * b + RATE <= RATE * B
    BY <1>1, MulMono
  <2>2. RATE * b \in Nat /\ RATE * B \in Nat
    BY <1>1, MulNat
  <2> DEFINE u == RATE * b
             v == RATE * B
  <2>3. n = u + w /\ l = v
    BY <1>1
  <2> HIDE DEF n, l, u, v
  <2>4. u + RATE <= v /\ u \in Nat /\ v \in Nat
    BY <2>1, <2>2 DEF u, v
  <2> QED
    BY <1>1, <2>3, <2>4
<1> HIDE DEF n, l
<1>3. WORD * n + WORD <= WORD * l
  BY <1>1, <1>2, MulMono
<1> DEFINE u == n * WORD
           v == l * WORD
<1>4. u \in Nat /\ v \in Nat /\ u + WORD <= v
  BY <1>1, <1>2, <1>3, MulNat
<1> HIDE DEF u, v
<1>5. u \in Nat /\ u + x + 1 \in 1..v
  BY <1>1, <1>4
<1> QED
  BY <1>5 DEF u, v, n, l

LEMMA BlocksSame ==
  ASSUME NEW m, NEW p, NEW B \in Nat, \A i \in 1 .. (B * RATE) * WORD : p[i] = m[i]
  PROVE  Blocks(p)[B] = Blocks(m)[B]
<1> DEFINE S == {b \in Nat : b <= B => Blocks(p)[b] = Blocks(m)[b]}
<1>1. 0 \in S
  BY BlocksAre
<1>2. ASSUME NEW b \in Nat, b \in S PROVE b + 1 \in S
  <2>1. SUFFICES ASSUME b + 1 <= B PROVE Blocks(p)[b + 1] = Blocks(m)[b + 1]
    OBVIOUS
  <2>2. b < B
    BY <2>1
  <2>3. Blocks(p)[b] = Blocks(m)[b]
    BY <1>2, <2>2
  <2>4. ASSUME NEW w \in 0..RATE - 1
        PROVE  Bits(p, (b * RATE + w) * WORD, WORD, 0) = Bits(m, (b * RATE + w) * WORD, WORD, 0)
    <3> DEFINE k == (b * RATE + w) * WORD
    <3>1. \A x \in 0..WORD - 1 : k \in Nat /\ p[k + x + 1] = m[k + x + 1]
      BY <2>2, WordInBlocks
    <3>2. 0 \in 0..WORD - 1 /\ WORD \in Nat
      BY SpongeSizes
    <3> HIDE DEF k
    <3>3. k \in Nat
      BY <3>1, <3>2
    <3>4. SameBits(m, p, k, WORD)
      BY <3>1, <3>2, <3>3, BitsSame
    <3> QED
      BY <3>4 DEF SameBits, k
  <2>5. \A w \in DOMAIN Zero : w < RATE => w \in 0..RATE - 1
    BY SpongeSizes
  <2>6. AddBlock(Blocks(p)[b], p, b) = AddBlock(Blocks(m)[b], m, b)
    BY <2>3, <2>4, <2>5 DEF AddBlock
  <2> QED
    BY <2>6, BlocksAre
<1>3. Nat \subseteq S
  <2> HIDE DEF S
  <2> QED
    BY <1>1, <1>2, SetInduction
<1> QED
  BY <1>3

\* The words of the padded last block: those of the message, the one with the suffix, and
\* the last bit of the padding, which may be in the same one.
Suffix(bi) == {<<8 * bi + 1>>, <<8 * bi + 2>>}
Top(w)     == IF w = RATE - 1 THEN {<<8 * WORD - 1>>} ELSE {}

LastWord(m, p, c, wi, bi, w) ==
  Bits(p, c + w * WORD, WORD, 0) =
    IF w < wi THEN Bits(m, c + w * WORD, WORD, 0)
    ELSE (IF w = wi THEN Bits(m, c + w * WORD, bi, 0) \cup Suffix(bi) ELSE {}) \cup Top(w)

LEMMA LastWords ==
  ASSUME NEW m, NEW p, NEW c \in Nat, NEW wi \in 0..RATE - 1, NEW bi \in 0..WORD - 1,
         \A w \in 0..RATE - 1, x \in 0..WORD - 1 : LastByte(m, p, c, wi, bi, w, x)
  PROVE  \A w \in 0..RATE - 1 : LastWord(m, p, c, wi, bi, w)
<1> TAKE w \in 0..RATE - 1
<1> DEFINE k == c + w * WORD
<1>1. /\ RATE \in Nat /\ WORD \in Nat /\ WORD > 0 /\ k \in Nat /\ w \in Nat /\ wi \in Nat
      /\ bi \in Nat /\ bi < WORD
  <2>1. RATE \in Nat /\ WORD \in Nat /\ WORD > 0 /\ w \in Nat
    BY SpongeSizes
  <2>2. w * WORD \in Nat
    BY <2>1, MulNat
  <2> QED
    BY <2>1, <2>2
<1>2. ASSUME NEW x \in 0..WORD - 1
      PROVE  p[k + x + 1] =
               IF w < wi \/ (w = wi /\ x < bi) THEN m[k + x + 1]
               ELSE (IF w = wi /\ x = bi THEN {1, 2} ELSE {})
                      \cup (IF w = RATE - 1 /\ x = WORD - 1 THEN {7} ELSE {})
  <2>1. LastByte(m, p, c, wi, bi, w, x)
    OBVIOUS
  <2> QED
    BY <2>1 DEF LastByte
<1>3. LastWord(m, p, c, wi, bi, w) <=>
        Bits(p, k, WORD, 0) =
          IF w < wi THEN Bits(m, k, WORD, 0)
          ELSE (IF w = wi THEN Bits(m, k, bi, 0) \cup Suffix(bi) ELSE {}) \cup Top(w)
  BY DEF LastWord
<1> HIDE DEF k
<1>4. CASE w < wi
  <2>1. \A x \in 0..WORD - 1 : p[k + x + 1] = m[k + x + 1]
    BY <1>2, <1>4
  <2>2. SameBits(m, p, k, WORD)
    BY <1>1, <2>1, BitsSame
  <2> QED
    BY <1>3, <1>4, <2>2 DEF SameBits
<1>5. CASE ~(w < wi)
  <2>1. ASSUME NEW x \in 0..WORD - 1, NEW e
        PROVE  BitOf(p, k, 0, x, e) <=>
                 \/ w = wi /\ x < bi /\ BitOf(m, k, 0, x, e)
                 \/ w = wi /\ x = bi /\ e \in Suffix(bi)
                 \/ x = WORD - 1 /\ e \in Top(w)
    <3>1. CASE w = wi /\ x < bi
      <4>1. p[k + x + 1] = m[k + x + 1]
        BY <1>2, <3>1
      <4>2. x # WORD - 1 /\ x # bi
        BY <1>1, <3>1
      <4> QED
        BY <3>1, <4>1, <4>2 DEF BitOf
    <3>2. CASE ~(w = wi /\ x < bi)
      <4>1. p[k + x + 1] = (IF w = wi /\ x = bi THEN {1, 2} ELSE {})
                      \cup (IF w = RATE - 1 /\ x = WORD - 1 THEN {7} ELSE {})
        BY <1>2, <1>5, <3>2
      <4>2. 8 * (0 + x) = 8 * x /\ (x = WORD - 1 => 8 * x + 7 = 8 * WORD - 1)
        BY <1>1
      <4>3. BitOf(p, k, 0, x, e) <=> \E b \in p[k + x + 1] : e = <<8 * x + b>>
        BY <4>2 DEF BitOf
      <4>4. BitOf(p, k, 0, x, e) <=>
              \/ w = wi /\ x = bi /\ (e = <<8 * x + 1>> \/ e = <<8 * x + 2>>)
              \/ w = RATE - 1 /\ x = WORD - 1 /\ e = <<8 * x + 7>>
        BY <4>1, <4>3
      <4> QED
        BY <3>2, <4>2, <4>4 DEF Suffix, Top
    <3> QED
      BY <3>1, <3>2
  <2>2. ASSUME NEW e
        PROVE  e \in Bits(p, k, WORD, 0) <=>
                 \/ w = wi /\ e \in Bits(m, k, bi, 0)
                 \/ w = wi /\ e \in Suffix(bi)
                 \/ e \in Top(w)
    <3>1. e \in Bits(p, k, WORD, 0) <=> \E x \in 0..WORD - 1 : BitOf(p, k, 0, x, e)
      BY BitsIs
    <3>2. e \in Bits(m, k, bi, 0) <=> \E x \in 0..bi - 1 : BitOf(m, k, 0, x, e)
      BY BitsIs
    <3>3. bi \in 0..WORD - 1 /\ WORD - 1 \in 0..WORD - 1
          /\ \A x : x \in 0..bi - 1 <=> x \in 0..WORD - 1 /\ x < bi
      BY <1>1
    <3> QED
      BY <2>1, <3>1, <3>2, <3>3
  <2> QED
    BY <1>3, <1>5, <2>2
<1> QED
  BY <1>4, <1>5

\* ^= of bits that are not set is a union.
LEMMA XorNone == \A v : Xor(v, {}) = v
BY DEF Xor

LEMMA XorApart == \A v, w : v \cap w = {} => Xor(v, w) = v \cup w
BY DEF Xor

LEMMA XorTwice == \A v, w, t : w \cap t = {} => Xor(Xor(v, w), t) = Xor(v, w \cup t)
BY DEF Xor

\* What Finalize adds to the word that has been begun is not set in it.
Apart(m, k, bi, w) ==
  /\ Bits(m, k, bi, 0) \cap Suffix(bi) = {}
  /\ (Bits(m, k, bi, 0) \cup Suffix(bi)) \cap Top(w) = {}

LEMMA PaddingApart ==
  ASSUME NEW m \in Messages, NEW k \in Nat, NEW bi \in 0..WORD - 1, k + bi <= Len(m), NEW w
  PROVE  Apart(m, k, bi, w)
<1>1. WORD \in Nat /\ WORD > 0 /\ bi \in Nat /\ bi < WORD /\ m \in Seq(SUBSET (0..7))
  BY SpongeSizes, SpongeAssumption
<1>2. ASSUME NEW e \in Bits(m, k, bi, 0)
      PROVE  \E n \in Nat : n < 8 * bi /\ e = <<n>>
  <2>1. PICK x \in 0..bi - 1 : BitOf(m, k, 0, x, e)
    BY <1>2, BitsIs
  <2>2. PICK b \in m[k + x + 1] : e = <<8 * (0 + x) + b>>
    BY <2>1 DEF BitOf
  <2>3. k + x + 1 \in 1..Len(m)
    BY <1>1
  <2>4. m[k + x + 1] \in SUBSET (0..7)
    BY <1>1, <2>3
  <2>5. b \in 0..7
    BY <2>4
  <2>6. x \in Nat /\ x < bi
    BY <1>1
  <2>7. 8 * (0 + x) + b \in Nat /\ 8 * (0 + x) + b < 8 * bi
    BY <1>1, <2>5, <2>6
  <2> QED
    BY <2>2, <2>7
<1>3. ASSUME NEW n \in Nat, NEW i \in Nat, <<n>> = <<i>> PROVE n = i
  BY <1>3
<1>4. ASSUME NEW e, e \in Bits(m, k, bi, 0), e \in Suffix(bi) PROVE FALSE
  <2>1. PICK n \in Nat : n < 8 * bi /\ e = <<n>>
    BY <1>2, <1>4
  <2>2. e = <<8 * bi + 1>> \/ e = <<8 * bi + 2>>
    BY <1>4 DEF Suffix
  <2>3. n = 8 * bi + 1 \/ n = 8 * bi + 2
    BY <1>1, <1>3, <2>1, <2>2
  <2> QED
    BY <1>1, <2>1, <2>3
<1>5. ASSUME NEW e, e \in Bits(m, k, bi, 0) \cup Suffix(bi), e \in Top(w) PROVE FALSE
  <2>1. e = <<8 * WORD - 1>> /\ 8 * WORD - 1 \in Nat
    BY <1>1, <1>5 DEF Top
  <2>2. PICK n \in Nat : n < 8 * bi + 3 /\ e = <<n>>
    <3>1. CASE e \in Bits(m, k, bi, 0)
      <4>1. PICK n \in Nat : n < 8 * bi /\ e = <<n>>
        BY <1>2, <3>1
      <4>2. n < 8 * bi + 3
        BY <1>1, <4>1
      <4> QED
        BY <4>1, <4>2
    <3>2. CASE e \in Suffix(bi)
      <4>1. e = <<8 * bi + 1>> \/ e = <<8 * bi + 2>>
        BY <3>2 DEF Suffix
      <4>2. /\ 8 * bi + 1 \in Nat /\ 8 * bi + 1 < 8 * bi + 3
            /\ 8 * bi + 2 \in Nat /\ 8 * bi + 2 < 8 * bi + 3
        BY <1>1
      <4> QED
        BY <4>1, <4>2
    <3> QED
      BY <1>5, <3>1, <3>2
  <2>3. n = 8 * WORD - 1
    BY <1>3, <2>1, <2>2
  <2> QED
    BY <1>1, <2>2, <2>3
<1> QED
  BY <1>4, <1>5 DEF Apart

\* A sponge that ends with a block is the sponge after that block.
LEMMA SpongeOfBlocks ==
  ASSUME Permutes, NEW p, NEW B \in Nat, Len(p) \div WORD = (B + 1) * RATE
  PROVE  Absorbed(p, Len(p) \div WORD) = AddBlock(Blocks(p)[B], p, B)
<1> DEFINE n == Len(p) \div WORD
<1>1. RATE \in Nat /\ RATE > 0 /\ B + 1 \in Nat
  BY SpongeSizes
<1>2. n \div RATE = B + 1 /\ n % RATE = 0
  <2> DEFINE q == B + 1
  <2>1. n = q * RATE /\ q \in Nat
    BY <1>1
  <2> HIDE DEF n, q
  <2>2. n \div RATE = q /\ n % RATE = 0
    BY <1>1, <2>1, DivExact
  <2> QED
    BY <2>2 DEF q
<1>3. \A w \in DOMAIN Zero : ~(w < 0)
  BY SpongeSizes
<1> HIDE DEF n
<1>4. Absorbed(p, n) = [w \in DOMAIN Zero |-> Blocks(p)[B + 1][w]]
  BY <1>2, <1>3, AbsorbedIs
<1>5. IsState(Blocks(p)[B + 1])
  BY <1>1, BlocksState
<1>6. Blocks(p)[B + 1] = AddBlock(Blocks(p)[B], p, B)
  BY BlocksAre
<1> QED
  BY <1>4, <1>5, <1>6 DEF IsState, n

LEMMA FinalizeSponge ==
  ASSUME Permutes, IInv, Finalize
  PROVE  s' = Sponge(message)
<1> DEFINE m  == message
           q  == pos \div WORD
           B  == q \div RATE
           bi == byteIndex
           wi == wordIndex
           c  == (B * RATE) * WORD
           P  == Padded(m)
           D  == DOMAIN Zero
           st == Blocks(m)[B]
           M(w) == Bits(m, c + w * WORD, WORD, 0)
           PB(w) == Bits(P, c + w * WORD, WORD, 0)
<1>1. pos = Len(m) /\ m \in Messages /\ pc = "idle" /\ pos \in Nat
  BY DEF Finalize, IInv, PosInv
<1>2. /\ q = Len(m) \div WORD /\ bi = Len(m) % WORD /\ wi = q % RATE
      /\ saved = Bits(m, q * WORD, bi, 0) /\ s = Absorbed(m, q)
  BY <1>1 DEF IInv, CtxInv, SpongeInv
<1>3. RATE \in Nat /\ RATE > 0 /\ WORD \in Nat /\ WORD > 0 /\ 0..RATE - 1 \subseteq D
      /\ \A w \in D : w \in Nat
  BY SpongeSizes
<1>4. /\ B \in Nat /\ wi \in 0..RATE - 1 /\ bi \in 0..WORD - 1 /\ q = RATE * B + wi
      /\ Len(m) \in Nat /\ Len(m) = c + wi * WORD + bi /\ c \in Nat
      /\ P = [x \in 1 .. c + RATE * WORD |->
              IF x <= Len(m) THEN m[x]
              ELSE (IF x = Len(m) + 1 THEN {1, 2} ELSE {})
                     \cup (IF x = c + RATE * WORD THEN {7} ELSE {})]
      /\ Len(P) \div WORD = (B + 1) * RATE
  <2> HIDE DEF q
  <2> QED
    BY <1>1, <1>2, PaddedSizes
<1>5. \A w \in Nat : (B * RATE + w) * WORD = c + w * WORD
  <2> HIDE DEF q, B
  <2> QED
    BY <1>3, <1>4
<1>6. q * WORD = c + wi * WORD /\ wi * WORD \in Nat
  <2> HIDE DEF q, B, wi
  <2>1. wi \in Nat /\ q = B * RATE + wi
    BY <1>3, <1>4
  <2> QED
    BY <1>3, <1>5, <2>1, MulNat
<1>7. s = [w \in D |-> IF w < wi THEN Xor(st[w], M(w)) ELSE st[w]]
  <2>1. s = [w \in D |-> IF w < wi THEN Xor(st[w], Bits(m, (B * RATE + w) * WORD, WORD, 0)) ELSE st[w]]
    BY <1>2, AbsorbedIs
  <2> HIDE DEF q, B, wi, st, D
  <2> QED
    BY <1>3, <1>5, <2>1
<1>8. saved = Bits(m, c + wi * WORD, bi, 0)
  BY <1>2, <1>6
<1>9. \A w \in 0..RATE - 1 : LastWord(m, P, c, wi, bi, w)
  <2> HIDE DEF m, c, wi, bi, P
  <2>1. \A w \in 0..RATE - 1, x \in 0..WORD - 1 : LastByte(m, P, c, wi, bi, w, x)
    BY <1>4, LastBytes
  <2> QED
    BY <1>4, <2>1, LastWords
<1>10. Blocks(P)[B] = st
  <2>1. \A i \in 1..c : P[i] = m[i]
    <3> DEFINE v == wi * WORD
               z == c + RATE * WORD
    <3>1. Len(m) = c + v + bi /\ v \in Nat /\ bi \in Nat /\ c \in Nat /\ z >= c
      <4>1. RATE * WORD \in Nat
        BY <1>3, MulNat
      <4> HIDE DEF c, wi, bi
      <4> QED
        BY <1>3, <1>4, <1>6, <4>1
    <3>2. \A i \in 1..c : i \in 1..z /\ i <= Len(m)
      <4>1. z \in Nat
        <5>1. RATE * WORD \in Nat
          BY <1>3, MulNat
        <5> HIDE DEF c
        <5> QED
          BY <1>4, <5>1
      <4> HIDE DEF c, v, z, bi
      <4> QED
        BY <3>1, <4>1
    <3> HIDE DEF c, P, v, m
    <3> QED
      BY <1>4, <3>2
  <2>2. B \in Nat
    BY <1>4
  <2> HIDE DEF P, m, B
  <2>3. \A i \in 1 .. (B * RATE) * WORD : P[i] = m[i]
    BY <2>1
  <2>4. Blocks(P)[B] = Blocks(m)[B]
    BY ONLY <2>2, <2>3, BlocksSame
  <2> QED
    BY <2>4
<1>11. \A w \in 0..RATE - 1 : Apart(m, c + wi * WORD, bi, w)
  <2> DEFINE k == c + wi * WORD
  <2>1. k \in Nat /\ k + bi <= Len(m)
    <3> DEFINE v == wi * WORD
    <3>1. v \in Nat /\ Len(m) = c + v + bi /\ bi \in Nat
      BY <1>3, <1>4, <1>6
    <3> HIDE DEF c, v, bi, m
    <3> QED
      BY <1>4, <3>1 DEF v
  <2> HIDE DEF k, m, bi, c
  <2>2. \A w \in 0..RATE - 1 : Apart(m, k, bi, w)
    BY <1>1, <1>4, <2>1, PaddingApart
  <2> QED
    BY <2>2 DEF k
<1>12. Sponge(m) = keccakf([w \in D |-> IF w < RATE THEN Xor(st[w], PB(w)) ELSE st[w]])
  <2>1. Sponge(m) = AddBlock(Blocks(P)[B], P, B)
    <3>1. Sponge(m) = Absorbed(P, Len(P) \div WORD)
      BY DEF Sponge
    <3> HIDE DEF P, B
    <3> QED
      BY <1>4, <3>1, SpongeOfBlocks
  <2>2. AddBlock(st, P, B) = keccakf([w \in D |-> IF w < RATE THEN Xor(st[w], Bits(P, (B * RATE + w) * WORD, WORD, 0)) ELSE st[w]])
    BY DEF AddBlock
  <2> HIDE DEF P, B, D, st, c
  <2> QED
    BY <1>3, <1>5, <1>10, <2>1, <2>2
<1> DEFINE pad    == Xor(saved, Suffix(bi))
           padded == [s EXCEPT ![wi] = Xor(@, pad)]
           fin    == [padded EXCEPT ![RATE - 1] = Xor(@, {<<8 * WORD - 1>>})]
<1>13. s' = keccakf(fin)
  BY DEF Finalize, Suffix
<1>14. fin = [w \in D |-> IF w < RATE THEN Xor(st[w], PB(w)) ELSE st[w]]
  <2> HIDE DEF m, q, B, c, P, D, st, wi, bi
  <2>1. /\ DOMAIN s = D /\ RATE - 1 \in D /\ wi \in D /\ \A w \in D : w < RATE => w \in 0..RATE - 1
    BY <1>3, <1>4, <1>7
  <2>2. padded = [w \in D |-> IF w = wi THEN Xor(s[w], pad) ELSE s[w]]
    BY <2>1
  <2>3. fin = [w \in D |-> IF w = RATE - 1 THEN Xor(padded[w], {<<8 * WORD - 1>>}) ELSE padded[w]]
    <3> HIDE DEF padded
    <3>1. DOMAIN padded = D
      BY <2>2
    <3>2. padded = [w \in D |-> padded[w]]
      BY <2>2
    <3> QED
      BY <2>1, <3>1, <3>2
  <2>4. \A w \in D : fin[w] = Xor(padded[w], Top(w))
    <3> HIDE DEF padded, fin
    <3> QED
      BY <2>3, XorNone DEF Top
  <2>5. wi < RATE /\ wi \in Nat
    BY <1>3, <1>4
  <2>6. pad = saved \cup Suffix(bi)
    <3>1. Apart(m, c + wi * WORD, bi, wi)
      BY <1>4, <1>11
    <3> QED
      BY <1>8, <3>1, XorApart DEF Apart
  <2>7. ASSUME NEW w \in D PROVE fin[w] = IF w < RATE THEN Xor(st[w], PB(w)) ELSE st[w]
    <3> HIDE DEF fin, pad
    <3>1. fin[w] = Xor(padded[w], Top(w))
      BY <2>4
    <3>2. padded[w] = IF w = wi THEN Xor(s[w], pad) ELSE s[w]
      BY <2>2
    <3>3. s[w] = IF w < wi THEN Xor(st[w], M(w)) ELSE st[w]
      BY <1>7
    <3>4. w \in Nat
      BY <1>3
    <3> HIDE DEF padded
    <3>5. CASE w < wi
      <4>1. w < RATE /\ w # wi /\ w # RATE - 1
        BY <1>3, <2>5, <3>4, <3>5
      <4>2. LastWord(m, P, c, wi, bi, w)
        BY <1>9, <2>1, <4>1
      <4>3. PB(w) = M(w)
        BY <3>5, <4>2 DEF LastWord
      <4>4. Top(w) = {}
        BY <4>1 DEF Top
      <4> HIDE DEF PB, M
      <4> QED
        BY <3>1, <3>2, <3>3, <3>5, <4>1, <4>3, <4>4, XorNone
    <3>6. CASE w = wi
      <4>1. w < RATE /\ ~(w < wi)
        BY <2>5, <3>4, <3>6
      <4>2. LastWord(m, P, c, wi, bi, w)
        BY <1>9, <2>1, <4>1
      <4>3. PB(w) = pad \cup Top(w)
        BY <1>8, <2>6, <3>6, <4>1, <4>2 DEF LastWord
      <4>4. pad \cap Top(w) = {}
        <5>1. Apart(m, c + wi * WORD, bi, w)
          BY <1>11, <2>1, <4>1
        <5> QED
          BY <1>8, <2>6, <5>1 DEF Apart
      <4> HIDE DEF PB
      <4> QED
        BY <3>1, <3>2, <3>3, <3>6, <4>1, <4>3, <4>4, XorTwice
    <3>7. CASE ~(w < wi) /\ w # wi
      <4>1. padded[w] = st[w]
        BY <3>2, <3>3, <3>7
      <4>2. CASE w < RATE
        <5>1. LastWord(m, P, c, wi, bi, w)
          BY <1>9, <2>1, <4>2
        <5>2. PB(w) = Top(w)
          BY <3>7, <5>1 DEF LastWord
        <5> HIDE DEF PB
        <5> QED
          BY <3>1, <4>1, <4>2, <5>2
      <4>3. CASE ~(w < RATE)
        <5>1. Top(w) = {}
          BY <1>3, <3>4, <4>3 DEF Top
        <5> QED
          BY <3>1, <4>1, <4>3, <5>1, XorNone
      <4> QED
        BY <4>2, <4>3
    <3> QED
      BY <3>5, <3>6, <3>7
  <2>8. fin = [w \in D |-> fin[w]]
    BY <2>3
  <2> HIDE DEF fin
  <2> QED
    BY <2>7, <2>8
<1> QED
  BY <1>12, <1>13, <1>14

-----------------------------------------------------------------------------
LEMMA NextInv == ASSUME Permutes, IInv, [Next]_vars PROVE IInv'
<1>1. CASE Finalize
  <2>1. s' = Sponge(message)
    BY <1>1, FinalizeSponge
  <2> QED
    BY <1>1, <2>1 DEF Finalize, IInv, PosInv, CtxInv, SpongeInv
<1>2. CASE UNCHANGED vars
  BY <1>2 DEF vars, IInv, PosInv, CtxInv, SpongeInv
<1> QED
  BY <1>1, <1>2, UpdateInv DEF Next

LEMMA Starts == Init => IInv
<1> SUFFICES ASSUME Init PROVE IInv
  OBVIOUS
<1>1. message \in Messages
  BY DEF Init
<1>2. /\ 0 % WORD = 0 /\ (0 \div WORD) % RATE = 0 /\ 0 <= Len(message)
      /\ Bits(message, (0 \div WORD) * WORD, 0, 0) = {}
      /\ Absorbed(message, 0 \div WORD) = Zero
  BY <1>1, InitInv
<1> QED
  BY <1>1, <1>2 DEF Init, IInv, PosInv, CtxInv, SpongeInv

LEMMA Invariance == ASSUME Permutes PROVE Spec => []IInv
<1>1. IInv /\ [Next]_vars => IInv'
  BY NextInv
<1> QED
  BY <1>1, Starts, PTL DEF Spec

\* What sha3_Update asserts of its indices: no shift leaves the word, no word goes behind
\* the part of the state that the message is added to, and nothing is read behind the
\* buffer - for messages of any length, cut in any way.
THEOREM Indices == ASSUME Permutes PROVE Spec => []IndicesInRange
<1>1. IInv => IndicesInRange
  <2> SUFFICES ASSUME IInv PROVE IndicesInRange
    OBVIOUS
  <2>1. byteIndex \in 0..WORD - 1 /\ pos \div WORD \in Nat
    BY Position DEF IInv
  <2>2. wordIndex \in 0..RATE - 1
    <3>1. RATE \in Nat /\ RATE > 0
      BY SpongeSizes
    <3> QED
      BY <2>1, <3>1, DivMod DEF IInv, CtxInv
  <2>3. pc = "words" => saved = {}
    BY BitsNone DEF IInv, CtxInv
  <2> QED
    BY <2>1, <2>2, <2>3 DEF IndicesInRange, IInv, PosInv, CtxInv
<1> QED
  BY <1>1, Invariance, PTL

\* sha3_Update, called with the message in any pieces: between the calls the context only
\* depends on the bytes that have been passed.
THEOREM AnyCalls == ASSUME Permutes PROVE Spec => []CallsDoNotMatter
<1>1. IInv => CallsDoNotMatter
  BY DEF IInv, PosInv, CtxInv, SpongeInv, CallsDoNotMatter
<1> QED
  BY <1>1, Invariance, PTL

\* sha3_Finalize returns the sponge function of the padded message.
THEOREM Digest == ASSUME Permutes PROVE Spec => []DigestIsSponge
<1>1. IInv => DigestIsSponge
  BY DEF IInv, SpongeInv, DigestIsSponge
<1> QED
  BY <1>1, Invariance, PTL
=============================================================================
