---------------------------- MODULE ParseProofs ----------------------------
(***************************************************************************)
(* What the proofs need to know of strings, pages and tree sizes.          *)
(***************************************************************************)
EXTENDS Parse, ShiftProofs, SequenceTheorems

\* strlen stays inside its string.
LEMMA StrlenType == \A s \in Seq(Bytes) : Strlen(s) \in 0..Len(s)
<1> TAKE s \in Seq(Bytes)
<1> DEFINE P(k, l) == /\ \A p \in 1..k : s[p] # NUL
                      /\ k < l => s[k + 1] = NUL
           S == {l \in Nat : \E k \in 0..l : P(k, l)}
<1>1. 0 \in S
  <2>1. 0 \in 0..0 /\ P(0, 0)
    OBVIOUS
  <2> QED
    BY <2>1
<1>2. ASSUME NEW l \in Nat, l \in S PROVE l + 1 \in S
  <2>1. PICK k \in 0..l : P(k, l)
    BY <1>2
  <2>2. k < l \/ (k = l /\ s[l + 1] = NUL) => k \in 0..l + 1 /\ P(k, l + 1)
    BY <2>1
  <2>3. k = l /\ s[l + 1] # NUL => l + 1 \in 0..l + 1 /\ P(l + 1, l + 1)
    BY <2>1
  <2>4. k < l \/ k = l
    BY <2>1
  <2>5. \E j \in 0..l + 1 : P(j, l + 1)
    <3> HIDE DEF P
    <3> QED
      BY <2>2, <2>3, <2>4
  <2>6. l + 1 \in Nat
    BY <1>2
  <2> QED
    <3> HIDE DEF P
    <3> QED
      BY <2>5, <2>6
<1>3. Nat \subseteq S
  <2> HIDE DEF S
  <2> QED
    BY <1>1, <1>2, SetInduction
<1>4. Len(s) \in Nat
  OBVIOUS
<1>5. \E k \in 0..Len(s) : P(k, Len(s))
  BY <1>3, <1>4
<1> QED
  BY <1>5 DEF Strlen

\* A page that begins inside the file is a string of bytes.
LEMMA PageType ==
  \A f \in Seq(Bytes) : \A k \in 0..Len(f) \div PAGE_LENGTH : PageBytes(f, k) \in Seq(Bytes)
<1> TAKE f \in Seq(Bytes)
<1> TAKE k \in 0..Len(f) \div PAGE_LENGTH
<1>1. Len(f) \in Nat /\ PAGE_LENGTH \in Nat /\ PAGE_LENGTH > 0
  BY PageAssumption
<1> DEFINE D == Len(f) \div PAGE_LENGTH
<1>2. D \in Nat /\ PAGE_LENGTH * D <= Len(f)
  BY <1>1
<1>3. k \in Nat /\ (k < D \/ k = D)
  BY <1>2
<1> HIDE DEF D
<1>4. k * PAGE_LENGTH \in Nat /\ k * PAGE_LENGTH <= Len(f)
  <2>1. k < D => PAGE_LENGTH * k + PAGE_LENGTH <= PAGE_LENGTH * D
    BY <1>1, <1>2, <1>3, MulMono
  <2>2. k * PAGE_LENGTH = PAGE_LENGTH * k /\ PAGE_LENGTH * k \in Nat
    BY <1>1, <1>3, MulNat
  <2> QED
    BY <1>1, <1>2, <1>3, <2>1, <2>2, MulNat
<1>5. (k + 1) * PAGE_LENGTH = k * PAGE_LENGTH + PAGE_LENGTH
  BY <1>1, <1>3
<1> DEFINE lo == k * PAGE_LENGTH + 1
           hi == IF (k + 1) * PAGE_LENGTH <= Len(f) THEN (k + 1) * PAGE_LENGTH ELSE Len(f)
<1>6. lo \in 1..Len(f) + 1 /\ hi \in lo - 1..Len(f)
  BY <1>1, <1>4, <1>5
<1> HIDE DEF lo, hi
<1>7. SubSeq(f, lo, hi) \in Seq(Bytes)
  BY <1>6, SubSeqProperties
<1> QED
  BY <1>7 DEF PageBytes, lo, hi

\* strlen is where the first NUL is, or the end.
LEMMA StrlenIs ==
  ASSUME NEW s, Len(s) \in Nat, NEW n \in 0..Len(s),
         \A k \in 1..n : s[k] # NUL, n < Len(s) => s[n + 1] = NUL
  PROVE  Strlen(s) = n
<1> DEFINE P(m) == /\ \A k \in 1..m : s[k] # NUL
                   /\ m < Len(s) => s[m + 1] = NUL
<1>1. P(n)
  OBVIOUS
<1>2. ASSUME NEW m \in 0..Len(s), P(m) PROVE m = n
  <2>1. m < n => m + 1 \in 1..n /\ m < Len(s)
    OBVIOUS
  <2>2. n < m => n + 1 \in 1..m /\ n < Len(s)
    OBVIOUS
  <2> QED
    BY <1>2, <2>1, <2>2
<1> HIDE DEF P
<1>3. (CHOOSE m \in 0..Len(s) : P(m)) = n
  BY <1>1, <1>2
<1> QED
  BY <1>3 DEF Strlen, P

\* A string without NUL is all that strlen sees of it, when nothing or a NUL follows it.
LEMMA CStrText ==
  ASSUME NEW s \in Seq(Bytes), NEW t \in Seq(Bytes),
         \A k \in 1..Len(s) : s[k] # NUL, t # << >> => t[1] = NUL
  PROVE  CStr(s \o t) = s
<1> DEFINE u == s \o t
<1>1. /\ u \in Seq(Bytes) /\ Len(u) = Len(s) + Len(t) /\ Len(s) \in Nat /\ Len(t) \in Nat
      /\ \A k \in 1..Len(u) : u[k] = IF k <= Len(s) THEN s[k] ELSE t[k - Len(s)]
  BY ConcatProperties
<1>2. Len(s) < Len(u) => t # << >> /\ u[Len(s) + 1] = t[1]
  <2>1. Len(s) < Len(u) => Len(s) + 1 \in 1..Len(u) /\ (Len(s) + 1) - Len(s) = 1 /\ ~(Len(s) + 1 <= Len(s))
    BY <1>1
  <2>2. Len(s) < Len(u) => t # << >>
    BY <1>1
  <2> HIDE DEF u
  <2> QED
    BY <1>1, <2>1, <2>2
<1> HIDE DEF u
<1>3. \A k \in 1..Len(s) : u[k] # NUL
  BY <1>1
<1>4. Len(s) \in 0..Len(u) /\ Len(u) \in Nat
  BY <1>1
<1>5. Strlen(u) = Len(s)
  BY <1>2, <1>3, <1>4, StrlenIs
<1>6. SubSeq(u, 1, Len(s)) \in Seq(Bytes) /\ Len(SubSeq(u, 1, Len(s))) = Len(s)
      /\ \A k \in 1..Len(s) : SubSeq(u, 1, Len(s))[k] = u[k]
  <2>1. 1 \in 1..Len(u) + 1 /\ Len(s) \in 1 - 1..Len(u)
    BY <1>1, <1>4
  <2>2. /\ SubSeq(u, 1, Len(s)) \in Seq(Bytes)
        /\ Len(SubSeq(u, 1, Len(s))) = Len(s) - 1 + 1
        /\ \A k \in 1..Len(s) - 1 + 1 : SubSeq(u, 1, Len(s))[k] = u[1 + k - 1]
    BY <1>1, <2>1, SubSeqProperties
  <2>3. Len(s) - 1 + 1 = Len(s) /\ \A k \in 1..Len(s) : 1 + k - 1 = k
    BY <1>1
  <2> QED
    BY <2>2, <2>3
<1>7. SubSeq(u, 1, Len(s)) = s
  <2>1. \A k \in 1..Len(s) : SubSeq(u, 1, Len(s))[k] = s[k]
    BY <1>1, <1>6
  <2> QED
    BY <1>6, <2>1, SeqEqual
<1> QED
  BY <1>5, <1>7 DEF CStr, u

\* Full pages, and what is left.
LEMMA PageArith ==
  \A n \in Nat : /\ n \div PAGE_LENGTH \in Nat
                 /\ n = PAGE_LENGTH * (n \div PAGE_LENGTH) + (n % PAGE_LENGTH)
                 /\ n % PAGE_LENGTH \in 0..PAGE_LENGTH - 1
                 /\ PagesOf(n) \in Nat /\ n <= PAGE_LENGTH * PagesOf(n)
                 /\ PagesOf(n) > 0 => PAGE_LENGTH * (PagesOf(n) - 1) < n
<1> TAKE n \in Nat
<1>1. PAGE_LENGTH \in Nat /\ PAGE_LENGTH > 0
  BY PageAssumption
<1> DEFINE D == n \div PAGE_LENGTH
           R == n % PAGE_LENGTH
<1>2. D \in Nat /\ R \in 0..PAGE_LENGTH - 1 /\ n = PAGE_LENGTH * D + R
  BY <1>1
<1>3. PagesOf(n) = IF R = 0 THEN D ELSE D + 1
  BY <1>2 DEF PagesOf, is_full
<1> HIDE DEF D, R
<1>4. PAGE_LENGTH * (D + 1) = PAGE_LENGTH * D + PAGE_LENGTH /\ PAGE_LENGTH * D \in Nat
      /\ (D > 0 => PAGE_LENGTH * (D - 1) = PAGE_LENGTH * D - PAGE_LENGTH)
  BY <1>1, <1>2, MulNat
<1>5. (D + 1) - 1 = D
  BY <1>2
<1>6. CASE R = 0
  BY <1>1, <1>2, <1>3, <1>4, <1>6
<1>7. CASE R # 0
  BY <1>1, <1>2, <1>3, <1>4, <1>5, <1>7
<1>8. PagesOf(n) \in Nat /\ n <= PAGE_LENGTH * PagesOf(n)
      /\ (PagesOf(n) > 0 => PAGE_LENGTH * (PagesOf(n) - 1) < n)
  BY <1>6, <1>7
<1> QED
  BY <1>2, <1>8 DEF D, R

\* The tree has the least power of two of leaves that is not below the number of pages.
LEMMA TreeSizeIs ==
  ASSUME NEW n \in Nat, n >= 1, n <= shl[MaxShift]
  PROVE  \E k \in 0..MaxShift : compute_tree_size(n) = shl[k] /\ n <= shl[k] /\ shl[k] < 2 * n
<1>1. \E k \in 0..MaxShift : n <= shl[k] /\ shl[k] < 2 * n
  <2>1. MaxShift \in Nat
    BY DEF MaxShift
  <2>2. CASE n = 1
    <3>1. 0 \in 0..MaxShift /\ n <= shl[0] /\ shl[0] < 2 * n
      BY <2>1, <2>2, ShlZero
    <3> QED
      BY <3>1
  <2>3. CASE n > 1
    <3>1. PICK k \in Nat : shl[k] <= n - 1 /\ n - 1 < shl[k + 1]
      <4>1. n - 1 \in Nat \ {0}
        BY <2>3
      <4> QED
        BY <4>1, LevelExists
    <3>2. shl[k] \in Nat /\ shl[k + 1] = 2 * shl[k]
      BY <3>1, ShlType, ShlSucc
    <3>3. k < MaxShift
      <4>1. SUFFICES ASSUME k >= MaxShift PROVE FALSE
        BY <2>1, <3>1
      <4>2. MaxShift < k => 2 * shl[MaxShift] <= shl[k]
        BY <2>1, <3>1, ShlMono
      <4>3. shl[MaxShift] \in Nat
        BY <2>1, ShlType
      <4>4. shl[MaxShift] <= shl[k]
        <5>1. CASE MaxShift < k
          BY <3>2, <4>2, <4>3, <5>1
        <5>2. CASE k = MaxShift
          BY <4>3, <5>2
        <5> QED
          BY <2>1, <3>1, <4>1, <5>1, <5>2
      <4> QED
        BY <3>1, <3>2, <4>3, <4>4
    <3>4. k + 1 \in 0..MaxShift /\ n <= shl[k + 1] /\ shl[k + 1] < 2 * n
      BY <2>1, <3>1, <3>2, <3>3
    <3> QED
      BY <3>4
  <2> QED
    BY <2>2, <2>3
<1>2. \E p \in {shl[k] : k \in 0..MaxShift} : n <= p /\ p < 2 * n
  BY <1>1
<1>3. n # 0
  OBVIOUS
<1> DEFINE p == compute_tree_size(n)
<1>4. p \in {shl[k] : k \in 0..MaxShift} /\ n <= p /\ p < 2 * n
  BY <1>2, <1>3 DEF compute_tree_size
<1> HIDE DEF p
<1> QED
  BY <1>4 DEF p

-----------------------------------------------------------------------------
(***************************************************************************)
(* Text files: no byte of the file is NUL, and where the buffer of the     *)
(* last page is not terminated the memory behind it begins with NUL.       *)
(***************************************************************************)
IsTextFile(f) == f \in Seq(Bytes) /\ \A x \in 1..Len(f) : f[x] # NUL
Terminates(t) == t \in Seq(Bytes) /\ (t # << >> => t[1] = NUL)

\* Where set_tree_datas and build_tree look for the string of leaf n: pages lie a page apart, the blank
\* pages a byte apart, right behind the end of the file.
Offset(f, n) ==
  IF n < PagesOf(Len(f)) THEN n * PAGE_LENGTH ELSE Len(f) + (n - PagesOf(Len(f)))

\* A file that is not empty has a page, and its tree a leaf for every page.
LEMMA LeavesOf ==
  ASSUME NEW f \in Seq(Bytes), f # << >>, PagesOf(Len(f)) <= shl[MaxShift]
  PROVE  /\ Len(f) \in Nat /\ Len(f) >= 1
         /\ PagesOf(Len(f)) \in Nat /\ PagesOf(Len(f)) >= 1
         /\ TreeSize(Len(f)) \in Nat /\ PagesOf(Len(f)) <= TreeSize(Len(f))
         /\ TreeSize(Len(f)) < 2 * PagesOf(Len(f))
         /\ HeightOf(Len(f)) \in 1..MaxShift + 1 /\ shl[HeightOf(Len(f)) - 1] = TreeSize(Len(f))
<1> DEFINE L == Len(f)
           P == PagesOf(L)
<1>1. L \in Nat /\ L >= 1
  BY EmptySeq
<1>2. P \in Nat /\ L <= PAGE_LENGTH * P /\ PAGE_LENGTH \in Nat
  BY <1>1, PageArith, PageAssumption
<1> HIDE DEF P
<1>3. P >= 1
  <2>1. P = 0 => PAGE_LENGTH * P = 0
    BY <1>2
  <2> QED
    BY <1>1, <1>2, <2>1
<1>4. P <= shl[MaxShift]
  BY DEF P
<1>5. PICK k \in 0..MaxShift : compute_tree_size(P) = shl[k] /\ P <= shl[k] /\ shl[k] < 2 * P
  BY <1>2, <1>3, <1>4, TreeSizeIs
<1>6. TreeSize(L) = shl[k]
  BY <1>5 DEF TreeSize, P
<1>7. Log2(shl[k]) = k /\ k \in Nat /\ k + 1 \in 1..MaxShift + 1 /\ (k + 1) - 1 = k
  <2>1. MaxShift \in Nat
    BY DEF MaxShift
  <2> QED
    BY <2>1, Log2Shl
<1>8. HeightOf(L) = k + 1
  BY <1>6, <1>7 DEF HeightOf
<1>9. shl[k] \in Nat
  BY <1>7, ShlType
<1> QED
  BY <1>1, <1>2, <1>3, <1>5, <1>6, <1>7, <1>8, <1>9 DEF P

\* The bytes of a page: all of it, or what the file has left.
LEMMA PageLen ==
  ASSUME NEW f \in Seq(Bytes), NEW n \in Nat, n < PagesOf(Len(f))
  PROVE  /\ PageBytes(f, n) \in Seq(Bytes)
         /\ n * PAGE_LENGTH \in Nat /\ n * PAGE_LENGTH < Len(f)
         /\ (n + 1) * PAGE_LENGTH = n * PAGE_LENGTH + PAGE_LENGTH
         /\ Len(PageBytes(f, n)) = IF (n + 1) * PAGE_LENGTH <= Len(f) THEN PAGE_LENGTH
                                   ELSE Len(f) - n * PAGE_LENGTH
         /\ \A x \in 1..Len(PageBytes(f, n)) :
              n * PAGE_LENGTH + x \in 1..Len(f) /\ PageBytes(f, n)[x] = f[n * PAGE_LENGTH + x]
<1> DEFINE L == Len(f)
           P == PagesOf(L)
           a == n * PAGE_LENGTH
           b == IF a + PAGE_LENGTH <= L THEN a + PAGE_LENGTH ELSE L
<1>1. f \in Seq(Bytes) /\ L \in Nat /\ P \in Nat /\ P >= 1
  <2>1. L \in Nat /\ P \in Nat
    BY PageArith
  <2> HIDE DEF P
  <2> QED
    BY <2>1 DEF P
<1>2. PAGE_LENGTH \in Nat /\ PAGE_LENGTH >= 1
  BY PageAssumption
<1>3. PAGE_LENGTH * (P - 1) < L
  BY <1>1, PageArith
<1>4. a \in Nat /\ a = PAGE_LENGTH * n /\ (n + 1) * PAGE_LENGTH = a + PAGE_LENGTH
  BY <1>2, MulNat
<1>5. a < L
  <2>1. n < P - 1 => PAGE_LENGTH * n + PAGE_LENGTH <= PAGE_LENGTH * (P - 1)
    <3>1. P - 1 \in Nat
      BY <1>1
    <3> QED
      BY <1>2, <3>1, MulMono
  <2>2. n < P - 1 \/ n = P - 1
    BY <1>1
  <2>3. PAGE_LENGTH * (P - 1) \in Nat
    <3>1. P - 1 \in Nat
      BY <1>1
    <3> QED
      BY <1>2, <3>1, MulNat
  <2> HIDE DEF a, P
  <2> QED
    BY <1>1, <1>2, <1>3, <1>4, <2>1, <2>2, <2>3
<1>6. PageBytes(f, n) = SubSeq(f, a + 1, b)
  BY <1>4 DEF PageBytes
<1>7. a + 1 \in 1..L + 1 /\ b \in (a + 1) - 1..L
  <2> HIDE DEF a
  <2> QED
    BY <1>1, <1>2, <1>4, <1>5
<1> HIDE DEF a, b
<1>8. /\ SubSeq(f, a + 1, b) \in Seq(Bytes)
      /\ Len(SubSeq(f, a + 1, b)) = b - (a + 1) + 1
      /\ \A x \in 1..b - (a + 1) + 1 : SubSeq(f, a + 1, b)[x] = f[(a + 1) + x - 1]
  BY <1>1, <1>7, SubSeqProperties
<1>9. b - (a + 1) + 1 = b - a /\ b \in Nat /\ b <= L
  BY <1>1, <1>4, <1>7
<1>10. \A x \in 1..b - a : (a + 1) + x - 1 = a + x /\ a + x \in 1..L
  BY <1>1, <1>4, <1>9
<1>11. Len(PageBytes(f, n)) = b - a
  BY <1>6, <1>8, <1>9
<1>12. \A x \in 1..Len(PageBytes(f, n)) : a + x \in 1..L /\ PageBytes(f, n)[x] = f[a + x]
  BY <1>6, <1>8, <1>9, <1>10, <1>11
<1>13. b - a = IF a + PAGE_LENGTH <= L THEN PAGE_LENGTH ELSE L - a
  <2>1. CASE a + PAGE_LENGTH <= L
    BY <1>2, <1>4, <2>1 DEF b
  <2>2. CASE ~(a + PAGE_LENGTH <= L)
    BY <2>2 DEF b
  <2> QED
    BY <2>1, <2>2
<1> QED
  BY <1>4, <1>5, <1>6, <1>8, <1>11, <1>12, <1>13 DEF a

\* strlen sees the whole of a page of a text file, and no more.
LEMMA PageText ==
  ASSUME NEW f, IsTextFile(f), NEW t, Terminates(t), NEW n \in Nat, n < PagesOf(Len(f))
  PROVE  CStr(PageBytes(f, n)) = PageBytes(f, n) /\ CStr(PageBytes(f, n) \o t) = PageBytes(f, n)
<1> DEFINE s == PageBytes(f, n)
<1>1. s \in Seq(Bytes) /\ \A x \in 1..Len(s) : s[x] # NUL
  <2>1. s \in Seq(Bytes)
    BY PageLen DEF IsTextFile
  <2>2. ASSUME NEW x \in 1..Len(s) PROVE s[x] # NUL
    <3>1. n * PAGE_LENGTH + x \in 1..Len(f) /\ s[x] = f[n * PAGE_LENGTH + x]
      BY PageLen DEF IsTextFile
    <3> QED
      BY <3>1 DEF IsTextFile
  <2> QED
    BY <2>1, <2>2
<1>2. t \in Seq(Bytes) /\ (t # << >> => t[1] = NUL)
  BY DEF Terminates
<1>3. << >> \in Seq(Bytes) /\ s \o << >> = s
  BY <1>1
<1> HIDE DEF s
<1>4. CStr(s \o << >>) = s /\ CStr(s \o t) = s
  BY <1>1, <1>2, <1>3, CStrText
<1> QED
  BY <1>3, <1>4 DEF s

\* The walk over the parsed file of a text file meets its pages, and then blank pages.
LEMMA SlotText ==
  ASSUME NEW f, IsTextFile(f), f # << >>, PagesOf(Len(f)) <= shl[MaxShift],
         NEW t, Terminates(t), NEW n \in Nat, n < TreeSize(Len(f))
  PROVE  /\ Slot(f, t, Offset(f, n)) = Page(f, n)
         /\ Page(f, n) \in Seq(Bytes)
         /\ Offset(f, n + 1) = Offset(f, n) + Len(Page(f, n))
<1> DEFINE L == Len(f)
           P == PagesOf(L)
           D == L \div PAGE_LENGTH
           R == L % PAGE_LENGTH
           rest == CStr(PageBytes(f, D) \o t)
           blank == D * PAGE_LENGTH + (IF is_full(L) THEN 0 ELSE Len(rest))
           o == Offset(f, n)
           N == TreeSize(L)
<1>0. f \in Seq(Bytes)
  BY DEF IsTextFile
<1>1. /\ f \in Seq(Bytes) /\ L \in Nat /\ P \in Nat /\ P >= 1 /\ P <= N /\ N \in Nat /\ n < N
  BY <1>0, LeavesOf
<1>2. PAGE_LENGTH \in Nat /\ PAGE_LENGTH >= 1 /\ SPACE \in Bytes
  BY PageAssumption
<1>3. /\ D \in Nat /\ L = PAGE_LENGTH * D + R /\ R \in 0..PAGE_LENGTH - 1
      /\ PAGE_LENGTH * D \in Nat /\ PAGE_LENGTH * D = D * PAGE_LENGTH
      /\ P = IF R = 0 THEN D ELSE D + 1
  <2>1. D \in Nat /\ L = PAGE_LENGTH * D + R /\ R \in 0..PAGE_LENGTH - 1
    BY <1>1, PageArith
  <2>2. P = IF R = 0 THEN D ELSE D + 1
    BY <1>1, <1>2, <2>1 DEF PagesOf, is_full
  <2> HIDE DEF D
  <2> QED
    BY <1>2, <2>1, <2>2, MulNat
<1> HIDE DEF D, R, P
<1>4. R # 0 => rest = PageBytes(f, D) /\ Len(rest) = R
  <2>1. SUFFICES ASSUME R # 0 PROVE rest = PageBytes(f, D) /\ Len(rest) = R
    OBVIOUS
  <2>2. D < P
    BY <1>3, <2>1
  <2>3. rest = PageBytes(f, D)
    BY <1>3, <2>2, PageText DEF P
  <2>4. /\ (D + 1) * PAGE_LENGTH = D * PAGE_LENGTH + PAGE_LENGTH
        /\ Len(PageBytes(f, D)) = IF (D + 1) * PAGE_LENGTH <= L THEN PAGE_LENGTH
                                   ELSE L - D * PAGE_LENGTH
    BY <1>3, <2>2, <1>0, PageLen DEF P
  <2>5. ~((D + 1) * PAGE_LENGTH <= L) /\ L - D * PAGE_LENGTH = R
    BY <1>2, <1>3, <2>4
  <2> QED
    BY <2>3, <2>4, <2>5
<1>5. blank = L
  <2>1. is_full(L) <=> R = 0
    BY DEF is_full, R
  <2> HIDE DEF rest
  <2> QED
    BY <1>2, <1>3, <1>4, <2>1
<1>6. Slot(f, t, o) =
        IF o - blank \in 0 .. N - P - 1
        THEN <<SPACE>>
        ELSE IF ~is_full(o) \/ o \div PAGE_LENGTH >= N THEN Null
        ELSE IF o \div PAGE_LENGTH < D THEN CStr(PageBytes(f, o \div PAGE_LENGTH))
        ELSE IF o \div PAGE_LENGTH < P THEN rest
        ELSE <<>>
  BY <1>1 DEF Slot, D, P
<1> HIDE DEF rest, blank, N
<1>7. CASE n < P
  <2>1. o = n * PAGE_LENGTH /\ o = PAGE_LENGTH * n /\ o \in Nat /\ o < L
    <3>1. n * PAGE_LENGTH \in Nat /\ n * PAGE_LENGTH < Len(f)
      BY <1>7, <1>0, PageLen DEF P
    <3>2. o = n * PAGE_LENGTH
      BY <1>7 DEF Offset, P
    <3>3. n * PAGE_LENGTH = PAGE_LENGTH * n
      BY <1>2
    <3> QED
      BY <3>1, <3>2, <3>3
  <2>2. o \div PAGE_LENGTH = n /\ is_full(o)
    <3>1. n * PAGE_LENGTH = PAGE_LENGTH * n
      BY <1>2
    <3>2. (n * PAGE_LENGTH) \div PAGE_LENGTH = n /\ (n * PAGE_LENGTH) % PAGE_LENGTH = 0
      BY <1>2, DivExact
    <3> QED
      BY <2>1, <3>2 DEF is_full
  <2> HIDE DEF o
  <2>3. ~(o - blank \in 0 .. N - P - 1)
    BY <1>1, <1>5, <2>1
  <2>4. Slot(f, t, o) = PageBytes(f, n)
    <3>1. CASE n < D
      <4>1. Slot(f, t, o) = CStr(PageBytes(f, n))
        BY <1>1, <1>6, <2>2, <2>3, <3>1
      <4> QED
        BY <1>7, <4>1, PageText DEF P
    <3>2. CASE ~(n < D)
      <4>1. n = D /\ R # 0
        BY <1>3, <1>7, <3>2
      <4>2. Slot(f, t, o) = rest
        BY <1>1, <1>3, <1>6, <1>7, <2>2, <2>3, <4>1
      <4> QED
        BY <1>4, <4>1, <4>2
    <3> QED
      BY <3>1, <3>2
  <2>5. Page(f, n) = PageBytes(f, n)
    BY <1>7 DEF Page, P
  <2>6. /\ PageBytes(f, n) \in Seq(Bytes)
        /\ (n + 1) * PAGE_LENGTH = n * PAGE_LENGTH + PAGE_LENGTH
        /\ Len(PageBytes(f, n)) = IF (n + 1) * PAGE_LENGTH <= L THEN PAGE_LENGTH
                                   ELSE L - n * PAGE_LENGTH
    BY <1>7, <1>0, PageLen DEF P
  <2>7. Offset(f, n + 1) = o + Len(PageBytes(f, n))
    <3>1. CASE n + 1 < P
      <4>1. Offset(f, n + 1) = (n + 1) * PAGE_LENGTH
        BY <3>1 DEF Offset, P
      <4>2. (n + 1) * PAGE_LENGTH < L
        <5>1. n + 1 \in Nat
          OBVIOUS
        <5> QED
          BY <3>1, <5>1, <1>0, PageLen DEF P
      <4>3. (n + 1) * PAGE_LENGTH <= L
        BY <1>1, <1>2, <2>1, <2>6, <4>2
      <4> QED
        BY <2>1, <2>6, <4>1, <4>3
    <3>2. CASE ~(n + 1 < P)
      <4>1. n + 1 = P
        BY <1>1, <1>7, <3>2
      <4>2. Offset(f, n + 1) = L
        BY <1>1, <4>1 DEF Offset, P
      <4>3. L <= (n + 1) * PAGE_LENGTH
        <5>1. L <= PAGE_LENGTH * P
          BY <1>1, PageArith DEF P
        <5>2. PAGE_LENGTH * (n + 1) = (n + 1) * PAGE_LENGTH
          BY <1>2
        <5> QED
          BY <4>1, <5>1, <5>2
      <4>4. Len(PageBytes(f, n)) = L - o
        <5>1. CASE (n + 1) * PAGE_LENGTH <= L
          BY <1>1, <1>2, <2>1, <2>6, <4>3, <5>1
        <5>2. CASE ~((n + 1) * PAGE_LENGTH <= L)
          BY <2>1, <2>6, <5>2
        <5> QED
          BY <5>1, <5>2
      <4> QED
        BY <1>1, <2>1, <4>2, <4>4
    <3> QED
      BY <3>1, <3>2
  <2> QED
    BY <2>4, <2>5, <2>6, <2>7 DEF o
<1>8. CASE ~(n < P)
  <2>1. o = L + (n - P) /\ Offset(f, n + 1) = L + ((n + 1) - P)
    BY <1>1, <1>8 DEF Offset, P
  <2>2. o - blank \in 0 .. N - P - 1
    <3> HIDE DEF o
    <3> QED
      BY <1>1, <1>5, <1>8, <2>1
  <2>3. Slot(f, t, o) = <<SPACE>>
    BY <1>6, <2>2
  <2>4. Page(f, n) = <<SPACE>>
    BY <1>8 DEF Page, P
  <2>5. <<SPACE>> \in Seq(Bytes) /\ Len(<<SPACE>>) = 1
    BY <1>2
  <2> QED
    BY <1>1, <1>8, <2>1, <2>3, <2>4, <2>5
<1> QED
  BY <1>7, <1>8

-----------------------------------------------------------------------------
\* Powers of two are ordered as their exponents.
LEMMA ShlOrder == \A j, k \in Nat : shl[j] <= shl[k] <=> j <= k
<1> TAKE j, k \in Nat
<1>1. shl[j] \in Nat /\ shl[j] >= 1 /\ shl[k] \in Nat /\ shl[k] >= 1
  BY ShlType
<1>2. (j < k => 2 * shl[j] <= shl[k]) /\ (k < j => 2 * shl[k] <= shl[j])
  BY ShlMono
<1> QED
  BY <1>1, <1>2

\* The length of the array of strings, tree_size*PAGE_LENGTH, is computed as an int
\* (compute_merkle and m_compute_merkle take it off a pointer).  It is below 1 << 31 exactly
\* for files of at most 1 << 30 bytes: half of the lengths that the int file_size can hold.
THEOREM ArrayLengthFitsInt ==
  ASSUME NEW p \in 0..MaxShift, PAGE_LENGTH = shl[p],
         NEW size \in Nat, size >= 1, PagesOf(size) <= shl[MaxShift]
  PROVE  TreeSize(size) * PAGE_LENGTH < 2 * shl[MaxShift] <=> size <= shl[MaxShift]
<1> DEFINE M == MaxShift
           pages == PagesOf(size)
<1>0. M \in Nat /\ p \in Nat /\ M - p \in Nat /\ (M - p) + p = M
  BY DEF MaxShift
<1>1. PAGE_LENGTH \in Nat /\ PAGE_LENGTH >= 1
  BY PageAssumption
<1>2. /\ pages \in Nat /\ size <= PAGE_LENGTH * pages
      /\ pages > 0 => PAGE_LENGTH * (pages - 1) < size
  BY PageArith
<1>3. pages >= 1
  <2>1. pages = 0 => PAGE_LENGTH * pages = 0
    BY <1>1
  <2> HIDE DEF pages
  <2> QED
    BY <1>2, <2>1
<1>4. PICK k \in 0..M : TreeSize(size) = shl[k] /\ pages <= shl[k] /\ shl[k] < 2 * pages
  BY <1>2, <1>3, TreeSizeIs DEF TreeSize
<1>5. k \in Nat /\ k + p \in Nat
  BY <1>0
<1>6. TreeSize(size) * PAGE_LENGTH = shl[k + p]
  BY <1>0, <1>4, <1>5, ShlAdd
<1>7. 2 * shl[M] = shl[M + 1] /\ shl[M] \in Nat /\ shl[M] = shl[M - p] * PAGE_LENGTH
  <2>1. shl[(M - p) + p] = shl[M - p] * shl[p]
    BY <1>0, ShlAdd
  <2> QED
    BY <1>0, <2>1, ShlSucc, ShlType
<1>8. shl[k + p] < 2 * shl[M] <=> k + p <= M
  <2>1. shl[M + 1] <= shl[k + p] <=> M + 1 <= k + p
    BY <1>0, <1>5, ShlOrder
  <2>2. shl[k + p] \in Nat /\ shl[M + 1] \in Nat
    BY <1>0, <1>5, ShlType
  <2> QED
    BY <1>0, <1>5, <1>7, <2>1, <2>2
<1> HIDE DEF M, pages
<1>9. ASSUME size <= shl[M] PROVE k + p <= M
  <2>1. shl[M - p] \in Nat
    BY <1>0, ShlType
  <2>2. pages - 1 < shl[M - p]
    <3> SUFFICES ASSUME pages - 1 >= shl[M - p] PROVE FALSE
      BY <1>2, <1>3, <2>1
    <3>1. pages - 1 \in Nat
      BY <1>2, <1>3
    <3>2. PAGE_LENGTH * (pages - 1) >= PAGE_LENGTH * shl[M - p]
      <4>1. CASE pages - 1 = shl[M - p]
        <5>1. PAGE_LENGTH * shl[M - p] \in Nat
          BY <1>1, <2>1, MulNat
        <5> QED
          BY <4>1, <5>1
      <4>2. CASE pages - 1 # shl[M - p]
        <5>1. shl[M - p] < pages - 1
          BY <2>1, <3>1, <4>2
        <5>2. PAGE_LENGTH * shl[M - p] + PAGE_LENGTH <= PAGE_LENGTH * (pages - 1)
          BY <1>1, <2>1, <3>1, <5>1, MulMono
        <5>3. PAGE_LENGTH * shl[M - p] \in Nat /\ PAGE_LENGTH * (pages - 1) \in Nat
          BY <1>1, <2>1, <3>1, MulNat
        <5> QED
          BY <1>1, <5>2, <5>3
      <4> QED
        BY <4>1, <4>2
    <3>3. PAGE_LENGTH * shl[M - p] = shl[M]
      BY <1>1, <1>7, <2>1
    <3>4. PAGE_LENGTH * (pages - 1) \in Nat
      BY <1>1, <3>1, MulNat
    <3> QED
      BY <1>2, <1>3, <1>7, <1>9, <3>2, <3>3, <3>4
  <2>3. shl[k] < 2 * shl[M - p]
    <3>1. shl[k] \in Nat
      BY <1>5, ShlType
    <3> QED
      BY <1>2, <1>4, <2>1, <2>2, <3>1
  <2>4. 2 * shl[M - p] = shl[(M - p) + 1] /\ (M - p) + 1 \in Nat
    BY <1>0, ShlSucc
  <2>5. ~((M - p) + 1 <= k)
    <3>1. shl[k] \in Nat /\ shl[(M - p) + 1] \in Nat
      BY <1>5, <2>4, ShlType
    <3>2. ~(shl[(M - p) + 1] <= shl[k])
      BY <2>3, <2>4, <3>1
    <3> QED
      BY <1>5, <2>4, <3>2, ShlOrder
  <2> QED
    BY <1>0, <1>5, <2>5
<1>10. ASSUME k + p <= M PROVE size <= shl[M]
  <2>1. shl[k] \in Nat /\ shl[k + p] \in Nat /\ shl[k + p] = shl[k] * PAGE_LENGTH
    BY <1>0, <1>5, ShlType, ShlAdd
  <2>2. PAGE_LENGTH * pages <= PAGE_LENGTH * shl[k]
    <3>1. CASE pages = shl[k]
      <4>1. PAGE_LENGTH * pages \in Nat
        BY <1>1, <1>2, MulNat
      <4> QED
        BY <3>1, <4>1
    <3>2. CASE pages # shl[k]
      <4>1. pages < shl[k]
        BY <1>2, <1>4, <2>1, <3>2
      <4>2. PAGE_LENGTH * pages + PAGE_LENGTH <= PAGE_LENGTH * shl[k]
        BY <1>1, <1>2, <2>1, <4>1, MulMono
      <4>3. PAGE_LENGTH * pages \in Nat /\ PAGE_LENGTH * shl[k] \in Nat
        BY <1>1, <1>2, <2>1, MulNat
      <4> QED
        BY <1>1, <4>2, <4>3
    <3> QED
      BY <3>1, <3>2
  <2>3. PAGE_LENGTH * shl[k] = shl[k + p]
    BY <1>1, <2>1
  <2>4. shl[k + p] <= shl[M]
    BY <1>0, <1>5, <1>10, ShlOrder
  <2>5. PAGE_LENGTH * pages \in Nat
    BY <1>1, <1>2, MulNat
  <2> QED
    BY <1>2, <1>7, <2>1, <2>2, <2>3, <2>4, <2>5
<1> QED
  BY <1>6, <1>8, <1>9, <1>10 DEF M
=============================================================================
