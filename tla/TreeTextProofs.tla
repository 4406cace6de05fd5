--------------------------- MODULE TreeTextProofs ---------------------------
(***************************************************************************)
(* Proofs about TreeText, for any threads, trees and number of calls.  In  *)
(* a text no two delimiters follow one another and none is at its end;     *)
(* then strtok finds as many tokens as str_split counts, and the k-th one  *)
(* is the one with k - 1 delimiters before it.                             *)
(***************************************************************************)
EXTENDS TreeText, FiniteSetTheorems, SequenceTheorems, WellFoundedInduction, TLAPS

Separators == {COMMA, COLON}
Symbols    == Hashes \cup Int \cup Separators
Texts      == Seq(Symbols)

\* What every piece of a printed text is: a delimiter is followed by something else, and
\* a comma by a number and a colon.
Tidy(s) ==
  \A x \in 1..Len(s) :
    /\ s[x] \in Separators => x < Len(s) /\ s[x + 1] \notin Separators
    /\ s[x] = COMMA => x + 2 <= Len(s) /\ s[x + 2] = COLON

\* A text begins with a number and a colon.
Whole(s) == Tidy(s) /\ Len(s) >= 3 /\ s[1] \notin Separators /\ s[2] = COLON

\* A text that str_split splits without surprise.
Clean(s, delim) ==
  /\ Len(s) >= 1 /\ s[1] # delim
  /\ \A x \in 1..Len(s) : s[x] = delim => x < Len(s) /\ s[x + 1] # delim

\* The number of delimiters among the first n symbols.
Before(s, delim, n) == Cardinality({x \in 1..n : s[x] = delim})

\* s[a] to s[b] is a token: it reaches from a delimiter to the next one.
Between(s, delim, a, b) ==
  /\ a = 1 \/ s[a - 1] = delim
  /\ b = Len(s) \/ s[b + 1] = delim
  /\ \A x \in a..b : s[x] # delim

\* w is the k-th token of s.
IsToken(w, s, delim, k) ==
  \E a, b \in 1..Len(s) :
    /\ a <= b /\ Between(s, delim, a, b)
    /\ w = SubSeq(s, a, b)
    /\ Before(s, delim, a - 1) = k - 1

AreTokens(ws, s, delim) == \A k \in 1..Len(ws) : IsToken(ws[k], s, delim, k)

\* str_split in its loop: the tokens before `token` are stored, and strtok is behind it.
Splitting(s, delim, cnt, tok, res, rest) ==
  /\ cnt = Delimiters(s, delim) + 2
  /\ AreTokens(res, s, delim)
  /\ \/ /\ tok = Null /\ rest = <<>>
        /\ Len(res) = Delimiters(s, delim) + 1
     \/ \E a, b \in 1..Len(s) :
          /\ a <= b /\ Between(s, delim, a, b)
          /\ tok = SubSeq(s, a, b) /\ rest = SubSeq(s, b + 2, Len(s))
          /\ Len(res) = Before(s, delim, a - 1)

-----------------------------------------------------------------------------
(***************************************************************************)
(* The inductive invariant.                                                *)
(***************************************************************************)

Text(t) == tree_to_string(tree[t]) \o behind[t]
Parsing == {"text", "tokens", "token", "thing", "unlock"}
Known   == {"token", "thing", "unlock", "parsed"}

TypeInv ==
  /\ lock \in Threads \cup {Null} /\ saved \in Texts /\ calls \in Nat
  /\ pc \in [Threads -> Parsing \cup {"idle", "lock", "parsed"}]
  /\ tree \in [Threads -> Seq(Hashes)] /\ behind \in [Threads -> Texts]
  /\ tokens \in [Threads -> Seq(Texts)] /\ nodes \in [Threads -> Seq(Texts)]
  /\ count \in [Threads -> Nat]
  /\ token \in [Threads -> Texts \cup {Null}] /\ result \in [Threads -> Seq(Texts)]

\* Only the thread that holds the mutex parses.
Mutex == \A t \in Threads : pc[t] \in Parsing <=> lock = t

\* The attribute and the buffer that a thread reads.
Reads(t) == pc[t] # "idle" => tree[t] \in Trees /\ behind[t] \in Leftovers

\* The position of strtok is that of the thread in its loop.
SplitsText(t) ==
  pc[t] = "tokens" =>
    /\ nodes[t] = <<>>
    /\ Splitting(Text(t), COMMA, count[t], token[t], result[t], saved)

SplitsToken(t) ==
  pc[t] = "thing" =>
    Splitting(tokens[t][Len(nodes[t]) + 1], COLON, count[t], token[t], result[t], saved)

\* All tokens of the text are known, and a node for some of them.
Knows(t) ==
  pc[t] \in Known =>
    /\ AreTokens(tokens[t], Text(t), COMMA)
    /\ Len(tokens[t]) = Delimiters(Text(t), COMMA) + 1
    /\ IF pc[t] \in {"token", "thing"}
       THEN Len(nodes[t]) < Len(tokens[t]) ELSE Len(nodes[t]) = Len(tokens[t])
    /\ \A k \in 1..Len(nodes[t]) : IsToken(nodes[t][k], tokens[t][k], COLON, 2)

IInv ==
  /\ TypeInv /\ Mutex
  /\ \A t \in Threads : Reads(t) /\ SplitsText(t) /\ SplitsToken(t) /\ Knows(t)

-----------------------------------------------------------------------------
(***************************************************************************)
(* First positions and numbers of delimiters.                              *)
(***************************************************************************)

\* A set of naturals with an element has a least one, and Min is it.
LEMMA MinIs ==
  ASSUME NEW S \in SUBSET Nat, S # {}
  PROVE  Min(S) \in S /\ \A y \in S : Min(S) <= y
<1> DEFINE R == OpToRel(<, Nat)
<1>1. IsWellFoundedOn(R, Nat)
  BY NatLessThanWellFounded
<1>2. PICK x \in S : \A y \in S : ~ (<<y, x>> \in R)
  <2> HIDE DEF R
  <2> QED
    BY <1>1, WFMin
<1>3. ASSUME NEW y \in S PROVE x <= y
  <2>1. x \in Nat /\ y \in Nat
    OBVIOUS
  <2>2. ~ (y < x)
    BY <1>2, <2>1 DEF OpToRel
  <2> QED
    BY <2>1, <2>2
<1> QED
  BY <1>3 DEF Min

LEMMA BeforeType ==
  ASSUME NEW s, NEW d, NEW n \in Nat
  PROVE  /\ Before(s, d, n) \in Nat
         /\ IsFiniteSet({x \in 1..n : s[x] = d})
<1>1. IsFiniteSet(1..n)
  BY FS_Interval
<1>2. {x \in 1..n : s[x] = d} \in SUBSET (1..n)
  OBVIOUS
<1>3. IsFiniteSet({x \in 1..n : s[x] = d})
  BY <1>1, <1>2, FS_Subset
<1> QED
  BY <1>3, FS_CardinalityType DEF Before

LEMMA BeforeZero == \A s, d : Before(s, d, 0) = 0
<1> TAKE s, d
<1>1. {x \in 1..0 : s[x] = d} = {}
  OBVIOUS
<1> QED
  BY <1>1, FS_EmptySet DEF Before

\* One more symbol, which is a delimiter.
LEMMA BeforeSucc ==
  ASSUME NEW s, NEW d, NEW n \in Nat, s[n + 1] = d
  PROVE  Before(s, d, n + 1) = Before(s, d, n) + 1
<1> DEFINE T == {x \in 1..n : s[x] = d}
<1>1. {x \in 1 .. n + 1 : s[x] = d} = T \cup {n + 1}
  OBVIOUS
<1>2. n + 1 \notin T
  OBVIOUS
<1>3. IsFiniteSet(T) /\ Cardinality(T) \in Nat
  BY BeforeType DEF Before
<1>4. Cardinality(T \cup {n + 1}) = Cardinality(T) + 1
  <2> HIDE DEF T
  <2> QED
    BY <1>2, <1>3, FS_AddElement
<1> QED
  BY <1>1, <1>4 DEF Before

\* More symbols, none of which is a delimiter.
LEMMA BeforeSame ==
  ASSUME NEW s, NEW d, NEW m \in Nat, NEW n \in Nat, m <= n,
         \A x \in m + 1 .. n : s[x] # d
  PROVE  Before(s, d, n) = Before(s, d, m)
<1>1. {x \in 1..n : s[x] = d} = {x \in 1..m : s[x] = d}
  OBVIOUS
<1> QED
  BY <1>1 DEF Before

LEMMA BeforeMono ==
  ASSUME NEW s, NEW d, NEW m \in Nat, NEW n \in Nat, m <= n
  PROVE  Before(s, d, m) <= Before(s, d, n)
<1>1. {x \in 1..m : s[x] = d} \in SUBSET {x \in 1..n : s[x] = d}
  OBVIOUS
<1>2. IsFiniteSet({x \in 1..n : s[x] = d})
  BY BeforeType
<1> QED
  BY <1>1, <1>2, FS_Subset DEF Before

\* Up to a delimiter there is one more than before it.
LEMMA BeforeLess ==
  ASSUME NEW s, NEW d, NEW m \in Nat, NEW n \in Nat, m < n, s[n] = d
  PROVE  Before(s, d, m) < Before(s, d, n)
<1>1. n - 1 \in Nat /\ m <= n - 1 /\ (n - 1) + 1 = n
  OBVIOUS
<1>2. Before(s, d, n) = Before(s, d, n - 1) + 1
  BY ONLY <1>1, s[n] = d, BeforeSucc
<1>3. Before(s, d, m) <= Before(s, d, n - 1)
  BY <1>1, BeforeMono
<1>4. Before(s, d, m) \in Nat /\ Before(s, d, n - 1) \in Nat
  BY <1>1, BeforeType
<1> QED
  BY <1>2, <1>3, <1>4

-----------------------------------------------------------------------------
(***************************************************************************)
(* strtok.                                                                 *)
(***************************************************************************)

LEMMA PieceOf ==
  ASSUME NEW s \in Texts, NEW a \in 1 .. Len(s) + 2, NEW b \in 0..Len(s)
  PROVE  /\ SubSeq(s, a, b) \in Texts
         /\ Len(SubSeq(s, a, b)) = IF a <= b THEN b - a + 1 ELSE 0
         /\ \A x \in 1 .. b - a + 1 : SubSeq(s, a, b)[x] = s[a + x - 1]
<1>1. a \in Int /\ b \in Int
  OBVIOUS
<1>2. \A x \in a..b : s[x] \in Symbols
  BY DEF Texts
<1> QED
  BY <1>1, <1>2, SubSeqProperties DEF Texts

LEMMA EmptyText == <<>> \in Texts /\ Len(<<>>) = 0 /\ \A s \in Texts : Len(s) = 0 => s = <<>>
BY DEF Texts

\* The first delimiter of a text, or the end of the text.
LEMMA FirstDelimiter ==
  ASSUME NEW s \in Texts, NEW d \in Symbols
  PROVE  LET e == End(s, d)
         IN  /\ e \in 1 .. Len(s) + 1
             /\ e = Len(s) + 1 \/ s[e] = d
             /\ \A x \in 1 .. e - 1 : s[x] # d
<1> DEFINE sd == s \o <<d>>
           J == {x \in 1..Len(sd) : sd[x] = d}
<1>0. Len(s) \in Nat
  BY DEF Texts
<1>1. /\ Len(sd) = Len(s) + 1 /\ sd[Len(s) + 1] = d
      /\ \A x \in 1..Len(s) : sd[x] = s[x]
  BY <1>0 DEF Texts
<1>2. J \in SUBSET Nat /\ Len(s) + 1 \in J
  BY <1>0, <1>1
<1>3. Min(J) \in J /\ \A y \in J : Min(J) <= y
  <2> HIDE DEF J
  <2> QED
    BY <1>2, MinIs
<1>4. \A x \in 1..Len(s) : s[x] = d => x \in J
  BY <1>1
<1>5. End(s, d) = Min(J)
  BY <1>2 DEF SelectInSeq, End
<1>6. Min(J) \in 1 .. Len(s) + 1 /\ sd[Min(J)] = d
  BY <1>1, <1>3
<1> DEFINE e == Min(J)
<1>7. /\ e \in 1 .. Len(s) + 1
      /\ e = Len(s) + 1 \/ s[e] = d
      /\ \A x \in 1 .. e - 1 : s[x] # d
  <2> HIDE DEF J, sd
  <2>1. e \in 1 .. Len(s) + 1
    BY <1>6
  <2>2. \A x \in 1..Len(s) : s[x] = d => e <= x
    BY <1>3, <1>4
  <2>3. \A x \in 1 .. e - 1 : x \in 1..Len(s) /\ ~(e <= x)
    BY <2>1, <1>0
  <2>4. e \in 1..Len(s) => sd[e] = s[e]
    BY <1>1
  <2> QED
    BY <2>1, <2>2, <2>3, <2>4, <1>6, <1>0
<1> QED
  BY <1>5, <1>7

LEMMA StrtokEmpty ==
  \A d : Strtok(<<>>, d) = [token |-> Null, rest |-> <<>>]
<1> TAKE d
<1>1. {x \in 1..Len(<<>>) : <<>>[x] # d} = {}
  OBVIOUS
<1>2. Start(<<>>, d) = 0
  BY <1>1 DEF SelectInSeq, Start
<1> QED
  BY <1>2 DEF Strtok

\* The first token of a text that does not begin with a delimiter.
LEMMA StrtokFirst ==
  ASSUME NEW s \in Texts, NEW d \in Symbols, Len(s) >= 1, s[1] # d
  PROVE  \E b \in 1..Len(s) :
           /\ Strtok(s, d) = [token |-> SubSeq(s, 1, b), rest |-> SubSeq(s, b + 2, Len(s))]
           /\ b = Len(s) \/ s[b + 1] = d
           /\ \A x \in 1..b : s[x] # d
<1> DEFINE I == {x \in 1..Len(s) : s[x] # d}
<1>0. Len(s) \in Nat
  BY DEF Texts
<1>1. Min(I) = 1
  <2>1. 1 \in I /\ I \in SUBSET Nat /\ \A y \in I : 1 <= y
    BY <1>0
  <2> HIDE DEF I
  <2>2. Min(I) \in I /\ Min(I) <= 1
    BY <2>1, MinIs
  <2>3. Min(I) \in Nat /\ 1 <= Min(I)
    BY <2>1, <2>2
  <2> QED
    BY <2>2, <2>3
<1>2. Start(s, d) = 1
  <2>1. I # {}
    BY <1>0
  <2> QED
    BY <1>1, <2>1 DEF SelectInSeq, Start
<1>3. SubSeq(s, 1, Len(s)) = s
  BY <1>0 DEF Texts
<1>4. PICK e \in 2 .. Len(s) + 1 :
        /\ End(s, d) = e
        /\ e = Len(s) + 1 \/ s[e] = d
        /\ \A x \in 1 .. e - 1 : s[x] # d
  <2> DEFINE e == End(s, d)
  <2>1. /\ e \in 1 .. Len(s) + 1
        /\ e = Len(s) + 1 \/ s[e] = d
        /\ \A x \in 1 .. e - 1 : s[x] # d
    BY FirstDelimiter
  <2> HIDE DEF e
  <2>2. e # 1
    BY <2>1, <1>0
  <2>3. e \in 2 .. Len(s) + 1
    BY <2>1, <2>2, <1>0
  <2> QED
    BY <2>1, <2>3 DEF e
<1>7. Strtok(s, d) = [token |-> SubSeq(s, 1, e - 1), rest |-> SubSeq(s, e + 1, Len(s))]
  <2>1. SubSeq(s, Start(s, d), Len(s)) = s
    BY <1>2, <1>3
  <2>2. End(SubSeq(s, Start(s, d), Len(s)), d) = e
    BY <1>4, <2>1
  <2>3. Start(s, d) # 0
    BY <1>2
  <2> QED
    BY <2>1, <2>2, <2>3, Zenon DEF Strtok
<1>10. e - 1 \in 1..Len(s) /\ (e - 1) + 2 = e + 1 /\ (e - 1) + 1 = e
  BY <1>0
<1>11. e - 1 = Len(s) \/ s[(e - 1) + 1] = d
  BY <1>4, <1>10, <1>0
<1> QED
  BY <1>4, <1>7, <1>10, <1>11

-----------------------------------------------------------------------------
(***************************************************************************)
(* str_split, for a clean text: it begins, goes on and ends as Splitting   *)
(* says.                                                                   *)
(***************************************************************************)

LEMMA PieceOfPiece ==
  ASSUME NEW s \in Texts, NEW a \in 1..Len(s), NEW m \in 1 .. Len(s) + 2,
         NEW n \in 0..Len(s), a + n - 1 <= Len(s)
  PROVE  SubSeq(SubSeq(s, a, Len(s)), m, n) = SubSeq(s, a + m - 1, a + n - 1)
<1> DEFINE r == SubSeq(s, a, Len(s))
           u == SubSeq(r, m, n)
           v == SubSeq(s, a + m - 1, a + n - 1)
<1>0. Len(s) \in Nat /\ Len(s) \in 0..Len(s)
  BY DEF Texts
<1>1. /\ r \in Texts /\ Len(r) = Len(s) - a + 1
      /\ \A x \in 1 .. Len(s) - a + 1 : r[x] = s[a + x - 1]
  BY <1>0, PieceOf
<1>2. \A x \in m..n : r[x] \in Symbols
  BY <1>0, <1>1 DEF Texts
<1>3. /\ u \in Texts /\ Len(u) = IF m <= n THEN n - m + 1 ELSE 0
      /\ \A x \in 1 .. n - m + 1 : u[x] = r[m + x - 1]
  <2> HIDE DEF r
  <2> QED
    BY <1>2, <1>0, SubSeqProperties DEF Texts
<1>4. \A x \in a + m - 1 .. a + n - 1 : s[x] \in Symbols
  BY <1>0 DEF Texts
<1>5. /\ v \in Texts /\ Len(v) = IF m <= n THEN n - m + 1 ELSE 0
      /\ \A x \in 1 .. n - m + 1 : v[x] = s[a + m + x - 2]
  <2>1. a + m - 1 \in Int /\ a + n - 1 \in Int
    BY <1>0
  <2>2. /\ v \in Seq(Symbols)
        /\ Len(v) = IF a + m - 1 <= a + n - 1 THEN a + n - 1 - (a + m - 1) + 1 ELSE 0
        /\ \A x \in 1 .. a + n - 1 - (a + m - 1) + 1 : v[x] = s[a + m - 1 + x - 1]
    BY ONLY <2>1, <1>4, SubSeqProperties
  <2> HIDE DEF v
  <2> QED
    BY <2>2, <1>0 DEF Texts
<1> HIDE DEF r, u, v
<1>6. \A x \in 1..Len(u) : u[x] = v[x]
  <2> TAKE x \in 1..Len(u)
  <2>1. x \in 1 .. n - m + 1 /\ m + x - 1 \in 1 .. Len(s) - a + 1 /\ x \in Int
    BY <1>3, <1>0
  <2>2. u[x] = r[m + x - 1] /\ r[m + x - 1] = s[a + (m + x - 1) - 1]
    BY <1>1, <1>3, <2>1
  <2>3. a + (m + x - 1) - 1 = a + m + x - 2
    BY <2>1
  <2> QED
    BY <1>5, <2>1, <2>2, <2>3
<1>7. u = v
  BY <1>3, <1>5, <1>6, SeqEqual DEF Texts
<1> QED
  BY <1>7 DEF u, v, r

\* strtok, called on what is left of s behind a delimiter.
LEMMA NextPiece ==
  ASSUME NEW s \in Texts, NEW d \in Symbols, NEW a \in 1..Len(s), s[a] # d,
         a = 1 \/ s[a - 1] = d
  PROVE  \E b \in 1..Len(s) :
           /\ a <= b /\ Between(s, d, a, b)
           /\ Strtok(SubSeq(s, a, Len(s)), d)
                = [token |-> SubSeq(s, a, b), rest |-> SubSeq(s, b + 2, Len(s))]
<1> DEFINE r == SubSeq(s, a, Len(s))
<1>0. Len(s) \in Nat /\ Len(s) \in 0..Len(s)
  BY DEF Texts
<1>1. /\ r \in Texts /\ Len(r) = Len(s) - a + 1
      /\ \A x \in 1 .. Len(s) - a + 1 : r[x] = s[a + x - 1]
  BY <1>0, PieceOf
<1>2. Len(r) >= 1 /\ r[1] # d
  <2> HIDE DEF r
  <2> QED
    BY <1>0, <1>1
<1>3. PICK c \in 1..Len(r) :
           /\ Strtok(r, d) = [token |-> SubSeq(r, 1, c), rest |-> SubSeq(r, c + 2, Len(r))]
           /\ c = Len(r) \/ r[c + 1] = d
           /\ \A x \in 1..c : r[x] # d
  <2> HIDE DEF r
  <2> QED
    BY <1>1, <1>2, StrtokFirst
<1>4. SubSeq(r, 1, c) = SubSeq(s, a, a + c - 1)
  <2>1. 1 \in 1 .. Len(s) + 2 /\ c \in 0..Len(s) /\ a + c - 1 <= Len(s) /\ a + 1 - 1 = a
    BY <1>0, <1>1
  <2> QED
    BY <2>1, PieceOfPiece
<1>5. SubSeq(r, c + 2, Len(r)) = SubSeq(s, (a + c - 1) + 2, Len(s))
  <2>1. /\ c + 2 \in 1 .. Len(s) + 2 /\ Len(s) - a + 1 \in 0..Len(s)
        /\ a + (Len(s) - a + 1) - 1 = Len(s) /\ a + (c + 2) - 1 = (a + c - 1) + 2
    BY <1>0, <1>1
  <2>2. SubSeq(r, c + 2, Len(s) - a + 1)
          = SubSeq(s, a + (c + 2) - 1, a + (Len(s) - a + 1) - 1)
    BY <2>1, PieceOfPiece
  <2> QED
    BY <1>1, <2>1, <2>2
<1> HIDE DEF r
<1> DEFINE b == a + c - 1
<1>6. b \in 1..Len(s) /\ a <= b
  BY <1>0, <1>1
<1>7. b = Len(s) \/ s[b + 1] = d
  <2>1. CASE c = Len(r)
    BY <2>1, <1>0, <1>1
  <2>2. CASE c # Len(r)
    <3>1. c + 1 \in 1 .. Len(s) - a + 1 /\ a + (c + 1) - 1 = b + 1
      <4>1. Len(s) - a + 1 \in Nat /\ c \in 1 .. Len(s) - a + 1 /\ c # Len(s) - a + 1
        BY <2>2, <1>0, <1>1
      <4> QED
        BY <4>1
    <3> QED
      BY <3>1, <2>2, <1>1, <1>3
  <2> QED
    BY <2>1, <2>2
<1>8. \A x \in a..b : s[x] # d
  <2> TAKE x \in a..b
  <2>1. x - a + 1 \in 1..c /\ x - a + 1 \in 1 .. Len(s) - a + 1 /\ a + (x - a + 1) - 1 = x
    BY <1>0, <1>1
  <2> QED
    BY <2>1, <1>1, <1>3
<1>9. Between(s, d, a, b)
  BY <1>7, <1>8 DEF Between
<1> QED
  BY <1>3, <1>4, <1>5, <1>6, <1>9 DEF r

\* No delimiter is inside of a token.
LEMMA BeforeToken ==
  ASSUME NEW s \in Texts, NEW d, NEW a \in 1..Len(s), NEW b \in 1..Len(s), a <= b,
         Between(s, d, a, b)
  PROVE  Before(s, d, b) = Before(s, d, a - 1)
<1>1. a - 1 \in Nat /\ b \in Nat /\ a - 1 <= b /\ (a - 1) + 1 = a
  BY DEF Texts
<1>2. \A x \in (a - 1) + 1 .. b : s[x] # d
  BY <1>1 DEF Between
<1> QED
  BY <1>1, <1>2, BeforeSame

LEMMA DelimitersAre == \A s, d : Delimiters(s, d) = Before(s, d, Len(s))
BY DEF Delimiters, Before

LEMMA SplitStarts ==
  ASSUME NEW s \in Texts, NEW d \in Symbols, Clean(s, d)
  PROVE  LET first == Strtok(s, d)
         IN  /\ Splitting(s, d, Count(s, d), first.token, <<>>, first.rest)
             /\ first.token \in Texts /\ first.rest \in Texts /\ Count(s, d) \in Nat
<1>0. Len(s) \in Nat /\ 1 \in 1..Len(s) /\ Len(s) \in 0..Len(s)
  BY DEF Texts, Clean
<1>1. s[1] # d
  BY DEF Clean
<1>2. PICK b \in 1..Len(s) :
        /\ 1 <= b /\ Between(s, d, 1, b)
        /\ Strtok(SubSeq(s, 1, Len(s)), d)
             = [token |-> SubSeq(s, 1, b), rest |-> SubSeq(s, b + 2, Len(s))]
  BY <1>0, <1>1, NextPiece
<1>3. SubSeq(s, 1, Len(s)) = s
  BY <1>0 DEF Texts
<1>4. /\ Strtok(s, d).token = SubSeq(s, 1, b)
      /\ Strtok(s, d).rest = SubSeq(s, b + 2, Len(s))
  <2>1. Strtok(s, d) = [token |-> SubSeq(s, 1, b), rest |-> SubSeq(s, b + 2, Len(s))]
    BY <1>2, <1>3, Zenon
  <2> QED
    BY <2>1
<1>5. Before(s, d, 1 - 1) = 0
  BY BeforeZero
<1>6. Delimiters(s, d) \in Nat
  BY <1>0, BeforeType, DelimitersAre
<1>7. Count(s, d) = Delimiters(s, d) + 2
  <2>1. Last(s) # d
    BY <1>0 DEF Clean, Last
  <2> QED
    BY <1>6, <2>1 DEF Count
<1>8. SubSeq(s, 1, b) \in Texts /\ SubSeq(s, b + 2, Len(s)) \in Texts
  <2>1. b \in 0..Len(s) /\ b + 2 \in 1 .. Len(s) + 2 /\ 1 \in 1 .. Len(s) + 2
    BY <1>0
  <2> QED
    BY <1>0, <2>1, PieceOf
<1>9. AreTokens(<<>>, s, d)
  BY DEF AreTokens
<1>10. Splitting(s, d, Count(s, d), SubSeq(s, 1, b), <<>>, SubSeq(s, b + 2, Len(s)))
  BY <1>0, <1>2, <1>5, <1>7, <1>9 DEF Splitting
<1> QED
  BY <1>4, <1>6, <1>7, <1>8, <1>10

LEMMA SplitSteps ==
  ASSUME NEW s \in Texts, NEW d \in Symbols, Clean(s, d),
         NEW cnt \in Nat, NEW tok, tok # Null, NEW res \in Seq(Texts), NEW rest,
         Splitting(s, d, cnt, tok, res, rest)
  PROVE  LET next == Strtok(rest, d)
         IN  /\ Len(res) < cnt
             /\ tok \in Texts /\ Append(res, tok) \in Seq(Texts)
             /\ Splitting(s, d, cnt, next.token, Append(res, tok), next.rest)
             /\ next.token \in Texts \cup {Null} /\ next.rest \in Texts
<1>0. Len(s) \in Nat /\ Len(s) \in 0..Len(s)
  BY DEF Texts
<1>1. PICK a \in 1..Len(s), b \in 1..Len(s) :
        /\ a <= b /\ Between(s, d, a, b)
        /\ tok = SubSeq(s, a, b) /\ rest = SubSeq(s, b + 2, Len(s))
        /\ Len(res) = Before(s, d, a - 1)
  BY DEF Splitting
<1>2. Before(s, d, b) = Len(res) /\ Len(res) \in Nat
  BY <1>1, BeforeToken
<1>3. Before(s, d, b) <= Delimiters(s, d) /\ Delimiters(s, d) \in Nat
  <2>1. b \in Nat /\ b <= Len(s)
    BY <1>0
  <2> QED
    BY <1>0, <2>1, BeforeMono, BeforeType, DelimitersAre
<1>4. Len(res) < cnt
  BY <1>2, <1>3 DEF Splitting
<1>5. /\ tok \in Texts /\ Append(res, tok) \in Seq(Texts)
      /\ Len(Append(res, tok)) = Len(res) + 1
      /\ \A x \in 1..Len(res) : Append(res, tok)[x] = res[x]
      /\ Append(res, tok)[Len(res) + 1] = tok
  <2>1. a \in 1 .. Len(s) + 2 /\ b \in 0..Len(s)
    BY <1>0
  <2>2. tok \in Texts
    BY <1>1, <2>1, PieceOf
  <2> QED
    BY <2>2, AppendProperties
<1>6. AreTokens(Append(res, tok), s, d)
  <2>1. IsToken(tok, s, d, Len(res) + 1)
    BY <1>1, <1>2 DEF IsToken
  <2>2. \A k \in 1..Len(res) : IsToken(res[k], s, d, k)
    BY DEF Splitting, AreTokens
  <2>3. SUFFICES ASSUME NEW k \in 1 .. Len(res) + 1
                 PROVE  IsToken(Append(res, tok)[k], s, d, k)
    BY <1>5 DEF AreTokens
  <2>4. CASE k = Len(res) + 1
    BY <2>1, <2>4, <1>5
  <2>5. CASE k \in 1..Len(res)
    BY <2>2, <2>5, <1>5
  <2> QED
    BY <1>2, <2>4, <2>5
<1>7. CASE b = Len(s)
  <2>1. rest = <<>>
    <3>1. b + 2 \in Int /\ Len(s) \in Int /\ Len(s) < b + 2
      BY <1>0, <1>7
    <3> QED
      BY <1>1, <3>1, SubSeqEmpty
  <2>2. Strtok(rest, d).token = Null /\ Strtok(rest, d).rest = <<>>
    BY <2>1, StrtokEmpty
  <2>3. Len(Append(res, tok)) = Delimiters(s, d) + 1
    BY <1>2, <1>5, <1>7, DelimitersAre
  <2>4. Splitting(s, d, cnt, Null, Append(res, tok), <<>>)
    BY <1>6, <2>3 DEF Splitting
  <2> QED
    BY <1>4, <1>5, <2>2, <2>4, EmptyText
<1>8. CASE b # Len(s)
  <2>1. s[b + 1] = d /\ b + 1 \in 1..Len(s)
    BY <1>0, <1>1, <1>8 DEF Between
  <2>2. b + 2 \in 1..Len(s) /\ s[b + 2] # d /\ (b + 2) - 1 = b + 1
    <3>1. b + 1 < Len(s) /\ s[(b + 1) + 1] # d
      BY <2>1 DEF Clean
    <3> QED
      BY <1>0, <3>1
  <2>3. PICK c \in 1..Len(s) :
          /\ b + 2 <= c /\ Between(s, d, b + 2, c)
          /\ Strtok(rest, d) = [token |-> SubSeq(s, b + 2, c), rest |-> SubSeq(s, c + 2, Len(s))]
    <3>1. b + 2 = 1 \/ s[(b + 2) - 1] = d
      BY <2>1, <2>2
    <3> QED
      BY <1>1, <2>2, <3>1, NextPiece
  <2>4. Before(s, d, (b + 2) - 1) = Len(Append(res, tok))
    <3>1. b \in Nat
      OBVIOUS
    <3>2. Before(s, d, b + 1) = Before(s, d, b) + 1
      BY <2>1, <3>1, BeforeSucc
    <3> QED
      BY <1>2, <1>5, <2>2, <3>2
  <2>5. Splitting(s, d, cnt, SubSeq(s, b + 2, c), Append(res, tok), SubSeq(s, c + 2, Len(s)))
    BY <1>6, <2>2, <2>3, <2>4 DEF Splitting
  <2>6. SubSeq(s, b + 2, c) \in Texts /\ SubSeq(s, c + 2, Len(s)) \in Texts
    <3>1. c \in 0..Len(s) /\ c + 2 \in 1 .. Len(s) + 2 /\ b + 2 \in 1 .. Len(s) + 2
      BY <1>0
    <3> QED
      BY <1>0, <3>1, PieceOf
  <2> QED
    BY <1>4, <1>5, <2>3, <2>5, <2>6
<1> QED
  BY <1>7, <1>8

-----------------------------------------------------------------------------
(***************************************************************************)
(* Printed texts, and what may follow them.                                *)
(***************************************************************************)

LEMMA SymbolsAre ==
  /\ COMMA \in Symbols /\ COLON \in Symbols /\ COMMA # COLON
  /\ \A h \in Hashes \cup Int : h \in Symbols /\ h \notin Separators
BY TextAssumption DEF Symbols, Separators

\* Every position of a printed text belongs to a node.
LEMMA NodeOf ==
  ASSUME NEW n \in Nat, NEW x \in 1 .. 4 * n - 1
  PROVE  \E k \in 1..n : x \in {4 * k - 3, 4 * k - 2, 4 * k - 1} \/ (x = 4 * k /\ k < n)
<1> DEFINE k == (x + 3) \div 4
<1>1. k \in 1..n /\ (x = 4 * k - 3 \/ x = 4 * k - 2 \/ x = 4 * k - 1 \/ (x = 4 * k /\ k < n))
  OBVIOUS
<1> QED
  BY <1>1

LEMMA Printed ==
  ASSUME NEW t \in Seq(Hashes), t # <<>>
  PROVE  LET p == tree_to_string(t)
         IN  /\ p \in Texts /\ Len(p) = 4 * Len(t) - 1 /\ Len(t) \in Nat /\ Len(t) >= 1
             /\ \A k \in 1..Len(t) :
                  /\ p[4 * k - 3] = k /\ p[4 * k - 2] = COLON /\ p[4 * k - 1] = t[k]
                  /\ t[k] \in Hashes
             /\ \A k \in 1..Len(t) : k < Len(t) => p[4 * k] = COMMA
<1> DEFINE p == tree_to_string(t)
           n == Len(t)
<1>1. n \in Nat /\ n >= 1
  OBVIOUS
<1>2. p = [x \in 1 .. 4 * n - 1 |->
             <<(x + 3) \div 4, COLON, t[(x + 3) \div 4], COMMA>>[1 + ((x - 1) % 4)]]
  BY DEF tree_to_string
<1>3. ASSUME NEW k \in 1..n
      PROVE  /\ p[4 * k - 3] = k /\ p[4 * k - 2] = COLON /\ p[4 * k - 1] = t[k]
             /\ k < n => p[4 * k] = COMMA
             /\ t[k] \in Hashes
  <2>1. /\ 4 * k - 3 \in 1 .. 4 * n - 1 /\ 4 * k - 2 \in 1 .. 4 * n - 1
        /\ 4 * k - 1 \in 1 .. 4 * n - 1 /\ (k < n => 4 * k \in 1 .. 4 * n - 1)
    BY <1>1
  <2>2. /\ ((4 * k - 3) + 3) \div 4 = k /\ ((4 * k - 2) + 3) \div 4 = k
        /\ ((4 * k - 1) + 3) \div 4 = k /\ (4 * k + 3) \div 4 = k
    BY <1>1
  <2>3. /\ 1 + (((4 * k - 3) - 1) % 4) = 1 /\ 1 + (((4 * k - 2) - 1) % 4) = 2
        /\ 1 + (((4 * k - 1) - 1) % 4) = 3 /\ 1 + ((4 * k - 1) % 4) = 4
    BY <1>1
  <2> DEFINE q == <<k, COLON, t[k], COMMA>>
  <2>4. q[1] = k /\ q[2] = COLON /\ q[3] = t[k] /\ q[4] = COMMA
    OBVIOUS
  <2> HIDE DEF p
  <2>5. p[4 * k - 3] = q[1] /\ p[4 * k - 2] = q[2] /\ p[4 * k - 1] = q[3]
    BY <1>2, <2>1, <2>2, <2>3
  <2>6. k < n => p[4 * k] = q[4]
    BY <1>2, <2>1, <2>2, <2>3
  <2> QED
    BY <2>4, <2>5, <2>6
<1>4. \A x \in 1 .. 4 * n - 1 : p[x] \in Symbols
  <2> HIDE DEF p, n
  <2> TAKE x \in 1 .. 4 * n - 1
  <2>1. PICK k \in 1..n : x \in {4 * k - 3, 4 * k - 2, 4 * k - 1} \/ (x = 4 * k /\ k < n)
    BY <1>1, NodeOf
  <2>2. k \in Hashes \cup Int
    OBVIOUS
  <2>3. /\ p[4 * k - 3] = k /\ p[4 * k - 2] = COLON /\ p[4 * k - 1] = t[k]
        /\ k < n => p[4 * k] = COMMA
        /\ t[k] \in Hashes
    BY <1>3
  <2>4. k \in Symbols /\ t[k] \in Symbols /\ COMMA \in Symbols /\ COLON \in Symbols
    BY <2>2, <2>3, SymbolsAre
  <2> QED
    BY <2>1, <2>3, <2>4
<1>5. p \in Texts /\ Len(p) = 4 * n - 1
  <2>1. 4 * n - 1 \in Nat
    BY <1>1
  <2> HIDE DEF n
  <2>2. p \in [1 .. 4 * n - 1 -> Symbols]
    <3>1. DOMAIN p = 1 .. 4 * n - 1
      BY <1>2
    <3>2. p = [x \in 1 .. 4 * n - 1 |-> p[x]]
      BY <1>2
    <3> HIDE DEF p
    <3> QED
      BY <1>4, <3>2
  <2> HIDE DEF p
  <2> QED
    BY <2>1, <2>2 DEF Texts
<1> QED
  BY <1>1, <1>3, <1>5

LEMMA PrintedTidy ==
  ASSUME NEW t \in Seq(Hashes), t # <<>>
  PROVE  Whole(tree_to_string(t))
<1> DEFINE p == tree_to_string(t)
           n == Len(t)
<1>1. /\ p \in Texts /\ Len(p) = 4 * n - 1 /\ n \in Nat /\ n >= 1
      /\ \A k \in 1..n :
           /\ p[4 * k - 3] = k /\ p[4 * k - 2] = COLON /\ p[4 * k - 1] = t[k]
           /\ t[k] \in Hashes
      /\ \A k \in 1..n : k < n => p[4 * k] = COMMA
  BY Printed
<1> HIDE DEF p, n
<1>2. \A k \in 1..n :
        /\ p[4 * k - 3] \notin Separators /\ p[4 * k - 1] \notin Separators
        /\ p[4 * k - 2] = COLON /\ (k < n => p[4 * k] = COMMA)
  <2> TAKE k \in 1..n
  <2>1. k \in Hashes \cup Int
    OBVIOUS
  <2>2. k \notin Separators /\ t[k] \notin Separators
    BY <1>1, <2>1, SymbolsAre
  <2> QED
    BY <1>1, <2>2
<1>3. ASSUME NEW x \in 1..Len(p)
      PROVE  /\ p[x] \in Separators => x < Len(p) /\ p[x + 1] \notin Separators
             /\ p[x] = COMMA => x + 2 <= Len(p) /\ p[x + 2] = COLON
  <2>1. PICK k \in 1..n : x \in {4 * k - 3, 4 * k - 2, 4 * k - 1} \/ (x = 4 * k /\ k < n)
    BY <1>1, NodeOf
  <2>2. CASE x = 4 * k - 3 \/ x = 4 * k - 1
    <3>1. p[x] \notin Separators
      BY <1>2, <2>2
    <3> QED
      BY <3>1 DEF Separators
  <2>3. CASE x = 4 * k - 2
    <3>1. x + 1 = 4 * k - 1 /\ x < Len(p)
      BY <1>1, <2>3
    <3>2. p[x] = COLON /\ p[x + 1] \notin Separators
      BY <1>2, <2>3, <3>1
    <3> QED
      BY <3>1, <3>2, SymbolsAre
  <2>4. CASE x = 4 * k /\ k < n
    <3>1. k + 1 \in 1..n /\ x + 1 = 4 * (k + 1) - 3 /\ x + 2 = 4 * (k + 1) - 2 /\ x + 2 <= Len(p)
      BY <1>1, <2>4
    <3>2. p[x + 1] \notin Separators /\ p[x + 2] = COLON
      BY <1>2, <3>1
    <3>3. x < Len(p)
      BY <1>1, <3>1
    <3> QED
      BY <3>1, <3>2, <3>3
  <2> QED
    BY <2>1, <2>2, <2>3, <2>4
<1>4. Len(p) >= 3 /\ p[1] \notin Separators /\ p[2] = COLON
  <2>1. 1 \in 1..n /\ 4 * 1 - 3 = 1 /\ 4 * 1 - 2 = 2
    BY <1>1
  <2> QED
    BY <1>1, <1>2, <2>1
<1> QED
  BY <1>3, <1>4 DEF Whole, Tidy, p

LEMMA RestTidy ==
  ASSUME NEW s \in Texts, Tidy(s), NEW a \in 1 .. Len(s) + 1
  PROVE  SubSeq(s, a, Len(s)) \in Texts /\ Tidy(SubSeq(s, a, Len(s)))
<1> DEFINE r == SubSeq(s, a, Len(s))
<1>0. Len(s) \in Nat
  BY DEF Texts
<1>1. /\ r \in Texts /\ Len(r) = Len(s) - a + 1
      /\ \A x \in 1 .. Len(s) - a + 1 : r[x] = s[a + x - 1]
  <2>1. a \in 1 .. Len(s) + 2 /\ Len(s) \in 0..Len(s)
    BY <1>0
  <2> QED
    BY <1>0, <2>1, PieceOf
<1> HIDE DEF r
<1>2. ASSUME NEW x \in 1..Len(r)
      PROVE  /\ r[x] \in Separators => x < Len(r) /\ r[x + 1] \notin Separators
             /\ r[x] = COMMA => x + 2 <= Len(r) /\ r[x + 2] = COLON
  <2> DEFINE y == a + x - 1
  <2>1. /\ y \in 1..Len(s) /\ a + (x + 1) - 1 = y + 1 /\ a + (x + 2) - 1 = y + 2
        /\ x < Len(r) <=> y < Len(s)
        /\ x + 2 <= Len(r) <=> y + 2 <= Len(s)
        /\ x < Len(r) => x + 1 \in 1 .. Len(s) - a + 1
        /\ x + 2 <= Len(r) => x + 2 \in 1 .. Len(s) - a + 1
    BY <1>0, <1>1
  <2>2. /\ r[x] = s[y]
        /\ x < Len(r) => r[x + 1] = s[y + 1]
        /\ x + 2 <= Len(r) => r[x + 2] = s[y + 2]
    BY <1>1, <2>1
  <2> HIDE DEF y
  <2>3. /\ s[y] \in Separators => y < Len(s) /\ s[y + 1] \notin Separators
        /\ s[y] = COMMA => y + 2 <= Len(s) /\ s[y + 2] = COLON
    BY <2>1 DEF Tidy
  <2> QED
    BY <2>1, <2>2, <2>3
<1>3. Tidy(r)
  BY <1>2 DEF Tidy
<1> QED
  BY <1>1, <1>3 DEF r

\* A text that ends at its first comma.
LEMMA CutTidy ==
  ASSUME NEW s \in Texts, Tidy(s)
  PROVE  LET c == SubSeq(s, 1, End(s, COMMA) - 1) IN c \in Texts /\ Tidy(c)
<1> DEFINE e == End(s, COMMA) - 1
           c == SubSeq(s, 1, e)
<1>0. Len(s) \in Nat
  BY DEF Texts
<1>1. /\ e \in 0..Len(s)
      /\ e = Len(s) \/ s[e + 1] = COMMA
      /\ \A x \in 1..e : s[x] # COMMA
  <2> DEFINE f == End(s, COMMA)
  <2>1. /\ f \in 1 .. Len(s) + 1
        /\ f = Len(s) + 1 \/ s[f] = COMMA
        /\ \A x \in 1 .. f - 1 : s[x] # COMMA
    BY FirstDelimiter, SymbolsAre
  <2> HIDE DEF f
  <2>2. e = f - 1
    BY DEF f
  <2> HIDE DEF e
  <2>3. e + 1 = f /\ e \in 0..Len(s)
    BY <1>0, <2>1, <2>2
  <2> QED
    BY <1>0, <2>1, <2>2, <2>3
<1> HIDE DEF e
<1>2. /\ c \in Texts /\ Len(c) = e
      /\ \A x \in 1..e : c[x] = s[x]
  <2>1. 1 \in 1 .. Len(s) + 2 /\ e - 1 + 1 = e
    BY <1>0, <1>1
  <2>2. /\ c \in Texts /\ Len(c) = IF 1 <= e THEN e - 1 + 1 ELSE 0
        /\ \A x \in 1 .. e - 1 + 1 : c[x] = s[1 + x - 1]
    BY <1>1, <2>1, PieceOf
  <2>3. \A x \in 1..e : 1 + x - 1 = x
    OBVIOUS
  <2> HIDE DEF c
  <2> QED
    BY <1>1, <2>1, <2>2, <2>3
<1> HIDE DEF c
<1>3. ASSUME NEW x \in 1..e
      PROVE  /\ c[x] \in Separators => x < Len(c) /\ c[x + 1] \notin Separators
             /\ c[x] = COMMA => x + 2 <= Len(c) /\ c[x + 2] = COLON
  <2>1. c[x] # COMMA /\ c[x] = s[x] /\ x \in 1..Len(s)
    BY <1>0, <1>1, <1>2
  <2>2. ASSUME s[x] \in Separators PROVE x < e /\ c[x + 1] \notin Separators
    <3>1. x < Len(s) /\ s[x + 1] \notin Separators
      BY <2>1, <2>2 DEF Tidy
    <3>2. x # e
      BY <1>1, <3>1 DEF Separators
    <3>3. x < e /\ x + 1 \in 1..e
      BY <1>1, <3>2
    <3> QED
      BY <1>2, <3>1, <3>3
  <2> QED
    BY <1>2, <2>1, <2>2
<1>4. Tidy(c)
  BY <1>2, <1>3 DEF Tidy
<1> QED
  BY <1>2, <1>4 DEF c, e

LEMMA ConcatTidy ==
  ASSUME NEW p \in Texts, Whole(p), NEW r \in Texts, Tidy(r)
  PROVE  p \o r \in Texts /\ Whole(p \o r)
<1> DEFINE s == p \o r
<1>0. Len(p) \in Nat /\ Len(r) \in Nat
  BY DEF Texts
<1>1. s \in Texts /\ Len(s) = Len(p) + Len(r)
  BY ConcatProperties DEF Texts
<1>2. \A x \in 1..Len(p) : s[x] = p[x]
  <2>1. \A x \in 1..Len(p) : x \in 1 .. Len(p) + Len(r) /\ x <= Len(p)
    BY <1>0
  <2> QED
    BY <2>1, ConcatProperties DEF Texts
<1>3. \A x \in 1..Len(r) : s[Len(p) + x] = r[x]
  <2>1. \A x \in 1..Len(r) :
          /\ Len(p) + x \in 1 .. Len(p) + Len(r) /\ ~(Len(p) + x <= Len(p))
          /\ Len(p) + x - Len(p) = x
    BY <1>0
  <2> QED
    BY <2>1, ConcatProperties DEF Texts
<1> HIDE DEF s
<1>4. ASSUME NEW x \in 1..Len(s)
      PROVE  /\ s[x] \in Separators => x < Len(s) /\ s[x + 1] \notin Separators
             /\ s[x] = COMMA => x + 2 <= Len(s) /\ s[x + 2] = COLON
  <2>1. CASE x \in 1..Len(p)
    <3>1. /\ p[x] \in Separators => x < Len(p) /\ p[x + 1] \notin Separators
          /\ p[x] = COMMA => x + 2 <= Len(p) /\ p[x + 2] = COLON
      BY <2>1 DEF Whole, Tidy
    <3>2. /\ x < Len(p) => x + 1 \in 1..Len(p) /\ x < Len(s)
          /\ x + 2 <= Len(p) => x + 2 \in 1..Len(p) /\ x + 2 <= Len(s)
      BY <1>0, <1>1
    <3>3. /\ s[x] = p[x]
          /\ x < Len(p) => s[x + 1] = p[x + 1]
          /\ x + 2 <= Len(p) => s[x + 2] = p[x + 2]
      BY <1>2, <2>1, <3>2
    <3> QED
      BY <3>1, <3>2, <3>3
  <2>2. CASE x \notin 1..Len(p)
    <3> DEFINE y == x - Len(p)
    <3>0. /\ y \in 1..Len(r) /\ Len(p) + y = x
          /\ Len(p) + (y + 1) = x + 1 /\ Len(p) + (y + 2) = x + 2
      BY <1>0, <1>1, <2>2
    <3>1. /\ r[y] \in Separators => y < Len(r) /\ r[y + 1] \notin Separators
          /\ r[y] = COMMA => y + 2 <= Len(r) /\ r[y + 2] = COLON
      BY <3>0 DEF Tidy
    <3>2. /\ y < Len(r) => y + 1 \in 1..Len(r) /\ x < Len(s)
          /\ y + 2 <= Len(r) => y + 2 \in 1..Len(r) /\ x + 2 <= Len(s)
      BY <1>0, <1>1, <3>0
    <3> HIDE DEF y
    <3>3. /\ s[x] = r[y]
          /\ y < Len(r) => s[x + 1] = r[y + 1]
          /\ y + 2 <= Len(r) => s[x + 2] = r[y + 2]
      BY <1>3, <3>0, <3>2
    <3> QED
      BY <3>1, <3>2, <3>3
  <2> QED
    BY <2>1, <2>2
<1>5. Len(s) >= 3 /\ s[1] \notin Separators /\ s[2] = COLON
  <2>1. Len(p) >= 3 /\ p[1] \notin Separators /\ p[2] = COLON
    BY DEF Whole
  <2>2. 1 \in 1..Len(p) /\ 2 \in 1..Len(p)
    BY <1>0, <2>1
  <2> QED
    BY <1>0, <1>1, <1>2, <2>1, <2>2
<1>6. Whole(s)
  BY <1>4, <1>5 DEF Whole, Tidy
<1> QED
  BY <1>1, <1>6 DEF s

LEMMA LeftoversTidy == \A r \in Leftovers : r \in Texts /\ Tidy(r)
<1> TAKE r \in Leftovers
<1> DEFINE Rests(s) == {SubSeq(s, x, Len(s)) : x \in 1 .. Len(s) + 1}
           rests == UNION {Rests(tree_to_string(t)) : t \in Trees}
<1>1. \A s \in rests : s \in Texts /\ Tidy(s)
  <2> TAKE s \in rests
  <2>1. PICK t \in Trees : s \in Rests(tree_to_string(t))
    OBVIOUS
  <2>2. tree_to_string(t) \in Texts /\ Tidy(tree_to_string(t))
    BY TextAssumption, Printed, PrintedTidy DEF Whole
  <2>3. PICK x \in 1 .. Len(tree_to_string(t)) + 1 :
          s = SubSeq(tree_to_string(t), x, Len(tree_to_string(t)))
    BY <2>1
  <2> QED
    BY <2>2, <2>3, RestTidy
<1>2. \/ r = <<>> \/ r \in rests
      \/ \E s \in rests : r = SubSeq(s, 1, End(s, COMMA) - 1)
  BY DEF Leftovers
<1> HIDE DEF rests
<1>3. CASE r = <<>>
  BY <1>3, EmptyText DEF Tidy
<1>4. CASE r \in rests
  BY <1>1, <1>4
<1>5. ASSUME NEW s \in rests, r = SubSeq(s, 1, End(s, COMMA) - 1)
      PROVE  r \in Texts /\ Tidy(r)
  <2>1. s \in Texts /\ Tidy(s)
    BY <1>1
  <2> QED
    BY <1>5, <2>1, CutTidy
<1> QED
  BY <1>2, <1>3, <1>4, <1>5

\* What str_split gets from string_to_tree: the text, and each of its tokens.
LEMMA WholeText ==
  ASSUME NEW v \in Trees, NEW r \in Leftovers
  PROVE  tree_to_string(v) \o r \in Texts /\ Whole(tree_to_string(v) \o r)
<1>1. v \in Seq(Hashes) /\ v # <<>>
  BY TextAssumption
<1>2. tree_to_string(v) \in Texts /\ Whole(tree_to_string(v))
  BY <1>1, Printed, PrintedTidy
<1>3. r \in Texts /\ Tidy(r)
  BY LeftoversTidy
<1> QED
  BY <1>2, <1>3, ConcatTidy

LEMMA WholeIsClean ==
  ASSUME NEW s \in Texts, Whole(s)
  PROVE  Clean(s, COMMA)
BY DEF Whole, Tidy, Clean, Separators

\* A token of a text has a number, a colon and something else, and can be split.
LEMMA TokenIsClean ==
  ASSUME NEW s \in Texts, Whole(s), NEW k, NEW w, IsToken(w, s, COMMA, k)
  PROVE  w \in Texts /\ Clean(w, COLON) /\ Delimiters(w, COLON) >= 1
<1>0. Len(s) \in Nat
  BY DEF Texts
<1>1. PICK a \in 1..Len(s), b \in 1..Len(s) :
        a <= b /\ Between(s, COMMA, a, b) /\ w = SubSeq(s, a, b)
  BY DEF IsToken
<1>2. /\ w \in Texts /\ Len(w) = b - a + 1
      /\ \A x \in 1 .. b - a + 1 : w[x] = s[a + x - 1]
  <2>1. a \in 1 .. Len(s) + 2 /\ b \in 0..Len(s)
    BY <1>0
  <2> QED
    BY <1>1, <2>1, PieceOf
<1>3. \A x \in 1..Len(s) :
        /\ s[x] \in Separators => x < Len(s) /\ s[x + 1] \notin Separators
        /\ s[x] = COMMA => x + 2 <= Len(s) /\ s[x + 2] = COLON
  BY DEF Whole, Tidy
<1>4. a + 1 <= Len(s) /\ s[a] \notin Separators /\ s[a + 1] = COLON
  <2>1. CASE a = 1
    BY <2>1, <1>0 DEF Whole
  <2>2. CASE a # 1
    <3>1. a - 1 \in 1..Len(s) /\ (a - 1) + 1 = a /\ (a - 1) + 2 = a + 1
      BY <2>2, <1>0
    <3>2. s[a - 1] = COMMA /\ s[a - 1] \in Separators
      BY <1>1, <2>2 DEF Between, Separators
    <3> QED
      BY <1>3, <3>1, <3>2
  <2> QED
    BY <2>1, <2>2
<1>5. a + 2 <= Len(s) /\ s[a + 2] \notin Separators
  <2>1. a + 1 \in 1..Len(s) /\ s[a + 1] \in Separators /\ (a + 1) + 1 = a + 2
    BY <1>0, <1>4 DEF Separators
  <2> QED
    BY <1>0, <1>3, <2>1
<1>6. b >= a + 2
  <2>1. CASE b = Len(s)
    BY <1>0, <1>5, <2>1
  <2>2. CASE b # Len(s)
    <3>1. s[b + 1] = COMMA
      BY <1>1, <2>2 DEF Between
    <3>2. b # a
      BY <1>4, <3>1, SymbolsAre
    <3>3. b # a + 1
      BY <1>5, <3>1 DEF Separators
    <3> QED
      BY <1>0, <1>1, <3>2, <3>3
  <2> QED
    BY <2>1, <2>2
<1>7. w[1] = s[a] /\ w[2] = s[a + 1] /\ 2 \in 1..Len(w) /\ Len(w) \in Nat
  <2>1. 1 \in 1 .. b - a + 1 /\ 2 \in 1 .. b - a + 1 /\ a + 1 - 1 = a /\ a + 2 - 1 = a + 1
    BY <1>6, <1>0
  <2> QED
    BY <1>2, <2>1
<1>8. ASSUME NEW x \in 1..Len(w), w[x] = COLON PROVE x < Len(w) /\ w[x + 1] # COLON
  <2> DEFINE y == a + x - 1
  <2>1. y \in 1..Len(s) /\ y <= b /\ w[x] = s[y]
    BY <1>0, <1>2
  <2>2. y < Len(s) /\ s[y + 1] \notin Separators
    BY <1>3, <1>8, <2>1 DEF Separators
  <2>3. y # b
    BY <1>1, <2>2 DEF Between, Separators
  <2>4. x < Len(w) /\ x + 1 \in 1 .. b - a + 1 /\ a + (x + 1) - 1 = y + 1
    BY <1>0, <1>2, <2>1, <2>3
  <2> QED
    BY <1>2, <2>2, <2>4 DEF Separators
<1>9. Clean(w, COLON)
  BY <1>4, <1>7, <1>8 DEF Clean, Separators
<1>10. Delimiters(w, COLON) >= 1
  <2>1. Before(w, COLON, 0) < Before(w, COLON, 2)
    BY <1>4, <1>7, BeforeLess
  <2>2. Before(w, COLON, 2) <= Before(w, COLON, Len(w)) /\ Before(w, COLON, 2) \in Nat
    <3>1. 2 \in Nat /\ 2 <= Len(w)
      BY <1>7
    <3> QED
      BY <1>7, <3>1, BeforeMono, BeforeType
  <2>3. Before(w, COLON, Len(w)) \in Nat
    BY <1>7, BeforeType
  <2> QED
    BY <2>1, <2>2, <2>3, BeforeZero, DelimitersAre
<1> QED
  BY <1>2, <1>9, <1>10

\* A token begins where the number of delimiters before it says.
LEMMA TokenBegins ==
  ASSUME NEW s \in Texts, NEW d, NEW a \in 1..Len(s), NEW c \in 1..Len(s),
         a = 1 \/ s[a - 1] = d, c = 1 \/ s[c - 1] = d,
         Before(s, d, a - 1) = Before(s, d, c - 1)
  PROVE  a = c
<1>0. Len(s) \in Nat
  BY DEF Texts
<1>1. a - 1 \in Nat /\ c - 1 \in Nat
  BY <1>0
<1>2. ~(a < c)
  <2> SUFFICES ASSUME a < c PROVE FALSE
    OBVIOUS
  <2>1. s[c - 1] = d /\ a - 1 < c - 1
    BY <1>0
  <2>2. Before(s, d, a - 1) < Before(s, d, c - 1)
    BY <1>1, <2>1, BeforeLess
  <2>3. Before(s, d, c - 1) \in Nat
    BY <1>1, BeforeType
  <2> QED
    BY <2>2, <2>3
<1>3. ~(c < a)
  <2> SUFFICES ASSUME c < a PROVE FALSE
    OBVIOUS
  <2>1. s[a - 1] = d /\ c - 1 < a - 1
    BY <1>0
  <2>2. Before(s, d, c - 1) < Before(s, d, a - 1)
    BY <1>1, <2>1, BeforeLess
  <2>3. Before(s, d, c - 1) \in Nat
    BY <1>1, BeforeType
  <2> QED
    BY <2>2, <2>3
<1> QED
  BY <1>0, <1>2, <1>3

\* The commas of a printed text are the multiples of four.
LEMMA CommasBefore ==
  ASSUME NEW s \in Texts, NEW j \in Nat, 4 * j <= Len(s),
         \A x \in 1 .. 4 * j : s[x] = COMMA <=> \E i \in 1..j : x = 4 * i
  PROVE  Before(s, COMMA, 4 * j) = j
<1> DEFINE S == {x \in 1 .. 4 * j : s[x] = COMMA}
           f == [i \in 1..j |-> 4 * i]
<1>1. \A x \in S : \E i \in 1..j : x = 4 * i
  OBVIOUS
<1>2. \A i \in 1..j : 4 * i \in S
  <2> TAKE i \in 1..j
  <2>1. 4 * i \in 1 .. 4 * j
    OBVIOUS
  <2> QED
    BY <2>1
<1>3. f \in Bijection(1..j, S)
  <2> HIDE DEF S
  <2>1. f \in [1..j -> S]
    BY <1>2
  <2>2. \A u, v \in 1..j : f[u] = f[v] => u = v
    OBVIOUS
  <2>3. \A x \in S : \E i \in 1..j : f[i] = x
    BY <1>1
  <2> HIDE DEF f
  <2> QED
    BY <2>1, <2>2, <2>3 DEF Bijection, Injection, Surjection, IsInjective
<1>4. ExistsBijection(1..j, S)
  <2> HIDE DEF f, S
  <2> QED
    BY <1>3 DEF ExistsBijection
<1>5. IsFiniteSet(1..j) /\ Cardinality(1..j) = j
  <2>1. IsFiniteSet(1..j) /\ Cardinality(1..j) = IF 1 > j THEN 0 ELSE j - 1 + 1
    BY FS_Interval
  <2> QED
    BY <2>1
<1>6. Cardinality(S) = j
  <2> HIDE DEF S
  <2> QED
    BY <1>4, <1>5, FS_Bijection
<1> QED
  BY <1>6 DEF Before

\* The part of a text that was printed, symbol by symbol.
LEMMA PrintedPart ==
  ASSUME NEW v \in Trees, NEW r \in Leftovers
  PROVE  LET s == tree_to_string(v) \o r
             n == Len(v)
         IN  /\ s \in Texts /\ n \in Nat /\ n >= 1 /\ Len(s) = 4 * n - 1 + Len(r)
             /\ Len(r) \in Nat
             /\ \A k \in 1..n :
                  /\ s[4 * k - 3] = k /\ s[4 * k - 2] = COLON /\ s[4 * k - 1] = v[k]
                  /\ v[k] # COMMA /\ v[k] # COLON /\ k # COMMA /\ k # COLON
                  /\ k < n => s[4 * k] = COMMA
<1> DEFINE p == tree_to_string(v)
           s == p \o r
           n == Len(v)
<1>1. v \in Seq(Hashes) /\ v # <<>>
  BY TextAssumption
<1>2. /\ p \in Texts /\ Len(p) = 4 * n - 1 /\ n \in Nat /\ n >= 1
      /\ \A k \in 1..n :
           /\ p[4 * k - 3] = k /\ p[4 * k - 2] = COLON /\ p[4 * k - 1] = v[k]
           /\ v[k] \in Hashes
      /\ \A k \in 1..n : k < n => p[4 * k] = COMMA
  BY <1>1, Printed
<1>3. r \in Texts /\ Len(r) \in Nat
  BY LeftoversTidy DEF Texts
<1> HIDE DEF p, n
<1>4. /\ s \in Texts /\ Len(s) = Len(p) + Len(r)
      /\ \A x \in 1 .. 4 * n - 1 : s[x] = p[x]
  <2>1. \A x \in 1 .. 4 * n - 1 : x \in 1 .. Len(p) + Len(r) /\ x <= Len(p)
    BY <1>2, <1>3
  <2> QED
    BY <1>2, <1>3, <2>1, ConcatProperties DEF Texts
<1> HIDE DEF s
<1>5. ASSUME NEW k \in 1..n
      PROVE  /\ s[4 * k - 3] = k /\ s[4 * k - 2] = COLON /\ s[4 * k - 1] = v[k]
             /\ v[k] # COMMA /\ v[k] # COLON /\ k # COMMA /\ k # COLON
             /\ k < n => s[4 * k] = COMMA
  <2>1. /\ 4 * k - 3 \in 1 .. 4 * n - 1 /\ 4 * k - 2 \in 1 .. 4 * n - 1
        /\ 4 * k - 1 \in 1 .. 4 * n - 1 /\ (k < n => 4 * k \in 1 .. 4 * n - 1)
    BY <1>2
  <2>2. k \in Hashes \cup Int /\ v[k] \in Hashes \cup Int
    BY <1>2
  <2>3. v[k] # COMMA /\ v[k] # COLON /\ k # COMMA /\ k # COLON
    BY <2>2, SymbolsAre DEF Separators
  <2> QED
    BY <1>2, <1>4, <2>1, <2>3
<1> QED
  BY <1>2, <1>3, <1>4, <1>5 DEF s, p, n

\* Before the node j + 1 there are j commas.
LEMMA PrintedCommas ==
  ASSUME NEW v \in Trees, NEW r \in Leftovers, NEW j \in Nat, j < Len(v)
  PROVE  Before(tree_to_string(v) \o r, COMMA, 4 * j) = j
<1> DEFINE s == tree_to_string(v) \o r
           n == Len(v)
<1>1. /\ s \in Texts /\ n \in Nat /\ n >= 1 /\ Len(s) = 4 * n - 1 + Len(r)
      /\ Len(r) \in Nat
      /\ \A k \in 1..n :
           /\ s[4 * k - 3] = k /\ s[4 * k - 2] = COLON /\ s[4 * k - 1] = v[k]
           /\ v[k] # COMMA /\ v[k] # COLON /\ k # COMMA /\ k # COLON
           /\ k < n => s[4 * k] = COMMA
  BY PrintedPart
<1>2. j < n
  OBVIOUS
<1> HIDE DEF s, n
<1>3. 4 * j <= Len(s)
  BY <1>1, <1>2
<1>4. ASSUME NEW x \in 1 .. 4 * j PROVE s[x] = COMMA <=> \E i \in 1..j : x = 4 * i
  <2>1. x \in 1 .. 4 * n - 1
    BY <1>1, <1>2
  <2>2. PICK k \in 1..n : x \in {4 * k - 3, 4 * k - 2, 4 * k - 1} \/ (x = 4 * k /\ k < n)
    BY <1>1, <2>1, NodeOf
  <2>3. CASE x = 4 * k /\ k < n
    <3>1. k \in 1..j
      BY <1>1, <2>3
    <3> QED
      BY <1>1, <2>3, <3>1
  <2>4. CASE x \in {4 * k - 3, 4 * k - 2, 4 * k - 1}
    <3>0. /\ s[4 * k - 3] # COMMA /\ s[4 * k - 2] # COMMA /\ s[4 * k - 1] # COMMA
          /\ k \in Int
      <4>1. /\ s[4 * k - 3] = k /\ s[4 * k - 2] = COLON /\ s[4 * k - 1] = v[k]
            /\ v[k] # COMMA /\ k # COMMA
        BY <1>1
      <4>2. COLON # COMMA
        BY SymbolsAre
      <4> QED
        BY <4>1, <4>2
    <3>1. s[x] # COMMA
      BY <2>4, <3>0
    <3>2. ASSUME NEW i \in 1..j PROVE x # 4 * i
      <4>1. i \in Int
        OBVIOUS
      <4>2. x = 4 * k - 3 \/ x = 4 * k - 2 \/ x = 4 * k - 1
        BY <2>4
      <4> QED
        BY ONLY <3>0, <4>1, <4>2
    <3> QED
      BY <3>1, <3>2
  <2> QED
    BY <2>2, <2>3, <2>4
<1> QED
  BY <1>1, <1>3, <1>4, CommasBefore DEF s

\* There is a token for every node that was printed, and no other when nothing follows.
LEMMA NumberOfTokens ==
  ASSUME NEW v \in Trees, NEW r \in Leftovers
  PROVE  LET c == Delimiters(tree_to_string(v) \o r, COMMA) + 1
         IN  c \in Nat /\ c >= Len(v) /\ (r = <<>> => c = Len(v))
<1> DEFINE s == tree_to_string(v) \o r
           n == Len(v)
<1>1. /\ s \in Texts /\ n \in Nat /\ n >= 1 /\ Len(s) = 4 * n - 1 + Len(r)
      /\ Len(r) \in Nat
      /\ \A k \in 1..n :
           /\ s[4 * k - 3] = k /\ s[4 * k - 2] = COLON /\ s[4 * k - 1] = v[k]
           /\ v[k] # COMMA /\ v[k] # COLON /\ k # COMMA /\ k # COLON
           /\ k < n => s[4 * k] = COMMA
  BY PrintedPart
<1>2. Before(s, COMMA, 4 * (n - 1)) = n - 1
  <2>1. n - 1 \in Nat /\ n - 1 < Len(v)
    BY <1>1
  <2> QED
    BY <2>1, PrintedCommas
<1> HIDE DEF s, n
<1>3. 4 * (n - 1) \in Nat /\ Len(s) \in Nat /\ 4 * (n - 1) <= Len(s)
  BY <1>1
<1>4. Before(s, COMMA, Len(s)) >= n - 1 /\ Before(s, COMMA, Len(s)) \in Nat
  <2>1. Before(s, COMMA, 4 * (n - 1)) <= Before(s, COMMA, Len(s))
    BY <1>3, BeforeMono
  <2>2. Before(s, COMMA, Len(s)) \in Nat
    BY <1>3, BeforeType
  <2> QED
    BY <1>1, <1>2, <2>1, <2>2
<1>5. ASSUME r = <<>> PROVE Before(s, COMMA, Len(s)) = n - 1
  <2>1. Len(s) = 4 * n - 1
    BY <1>1, <1>5
  <2>2. n \in 1..n
    BY <1>1
  <2>3. s[4 * n - 3] # COMMA /\ s[4 * n - 2] # COMMA /\ s[4 * n - 1] # COMMA
    BY <1>1, <2>2, SymbolsAre
  <2>4. \A x \in 4 * (n - 1) + 1 .. Len(s) : s[x] # COMMA
    <3> TAKE x \in 4 * (n - 1) + 1 .. Len(s)
    <3>1. x = 4 * n - 3 \/ x = 4 * n - 2 \/ x = 4 * n - 1
      BY <1>1, <2>1
    <3> QED
      BY <2>3, <3>1
  <2>5. Before(s, COMMA, Len(s)) = Before(s, COMMA, 4 * (n - 1))
    BY <1>3, <2>4, BeforeSame
  <2> QED
    BY <1>2, <2>5
<1>6. Delimiters(s, COMMA) = Before(s, COMMA, Len(s))
  BY DelimitersAre
<1>7. LET c == Delimiters(s, COMMA) + 1 IN c \in Nat /\ c >= n /\ (r = <<>> => c = n)
  BY <1>1, <1>4, <1>5, <1>6
<1> QED
  BY <1>7 DEF s, n

\* The token of a node, if no older text follows in the same token.
LEMMA PrintedToken ==
  ASSUME NEW v \in Trees, NEW r \in Leftovers, NEW k \in 1..Len(v), k < Len(v) \/ r = <<>>,
         NEW w, IsToken(w, tree_to_string(v) \o r, COMMA, k)
  PROVE  /\ w \in Texts /\ Len(w) = 3
         /\ w[1] # COLON /\ w[2] = COLON /\ w[3] = v[k] /\ w[3] # COLON
<1> DEFINE s == tree_to_string(v) \o r
           n == Len(v)
<1>1. /\ s \in Texts /\ n \in Nat /\ n >= 1 /\ Len(s) = 4 * n - 1 + Len(r)
      /\ Len(r) \in Nat
      /\ \A x \in 1..n :
           /\ s[4 * x - 3] = x /\ s[4 * x - 2] = COLON /\ s[4 * x - 1] = v[x]
           /\ v[x] # COMMA /\ v[x] # COLON /\ x # COMMA /\ x # COLON
           /\ x < n => s[4 * x] = COMMA
  BY PrintedPart
<1>2. PICK a \in 1..Len(s), b \in 1..Len(s) :
        /\ a <= b /\ Between(s, COMMA, a, b) /\ w = SubSeq(s, a, b)
        /\ Before(s, COMMA, a - 1) = k - 1
  BY DEF IsToken
<1>3. k \in 1..n /\ (k < n \/ r = <<>>)
  OBVIOUS
<1>4. Before(s, COMMA, 4 * (k - 1)) = k - 1
  <2>1. k - 1 \in Nat /\ k - 1 < Len(v)
    BY <1>1
  <2> QED
    BY <2>1, PrintedCommas
<1> HIDE DEF s, n
<1> DEFINE c == 4 * k - 3
<1>5. c \in 1..Len(s) /\ c - 1 = 4 * (k - 1)
  BY <1>1, <1>3
<1>6. c = 1 \/ s[c - 1] = COMMA
  <2>1. CASE k = 1
    BY <2>1
  <2>2. CASE k # 1
    <3>1. k - 1 \in 1..n /\ k - 1 < n
      BY <1>1, <1>3, <2>2
    <3> QED
      BY <1>1, <1>5, <3>1
  <2> QED
    BY <2>1, <2>2
<1>7. a = c
  <2> HIDE DEF c
  <2>1. Before(s, COMMA, a - 1) = Before(s, COMMA, c - 1)
    BY <1>2, <1>4, <1>5
  <2>2. a = 1 \/ s[a - 1] = COMMA
    BY <1>2 DEF Between
  <2> QED
    BY <1>1, <1>5, <1>6, <2>1, <2>2, TokenBegins
<1>8. /\ s[4 * k - 3] = k /\ s[4 * k - 2] = COLON /\ s[4 * k - 1] = v[k]
      /\ v[k] # COMMA /\ v[k] # COLON /\ k # COMMA /\ k # COLON
      /\ k < n => s[4 * k] = COMMA
  BY <1>1, <1>3
<1>9. b <= 4 * k - 1 /\ 4 * k - 1 <= Len(s)
  <2>1. CASE k < n
    <3>1. s[4 * k] = COMMA /\ 4 * k - 1 <= Len(s)
      BY <1>1, <1>3, <1>8, <2>1
    <3>2. 4 * k \notin a..b
      BY <1>2, <3>1 DEF Between
    <3> QED
      BY <1>1, <1>3, <1>7, <3>1, <3>2
  <2>2. CASE ~(k < n)
    <3>1. r = <<>> /\ k = n /\ Len(r) = 0
      BY <1>1, <1>3, <2>2
    <3> QED
      BY <1>1, <3>1
  <2> QED
    BY <2>1, <2>2
<1>10. b = 4 * k - 1
  <2>1. b # 4 * k - 3
    <3> SUFFICES ASSUME b = 4 * k - 3 PROVE FALSE
      OBVIOUS
    <3>1. b # Len(s) /\ b + 1 = 4 * k - 2
      BY <1>1, <1>3, <1>9
    <3>2. s[b + 1] = COMMA
      BY <1>2, <3>1 DEF Between
    <3> QED
      BY <1>8, <3>1, <3>2, SymbolsAre
  <2>2. b # 4 * k - 2
    <3> SUFFICES ASSUME b = 4 * k - 2 PROVE FALSE
      OBVIOUS
    <3>1. b # Len(s) /\ b + 1 = 4 * k - 1
      BY <1>1, <1>3, <1>9
    <3>2. s[b + 1] = COMMA
      BY <1>2, <3>1 DEF Between
    <3> QED
      BY <1>8, <3>1, <3>2
  <2>3. b >= 4 * k - 3
    BY <1>2, <1>7
  <2> QED
    BY <1>1, <1>3, <1>9, <2>1, <2>2, <2>3
<1>11. /\ w \in Texts /\ Len(w) = b - a + 1
       /\ \A x \in 1 .. b - a + 1 : w[x] = s[a + x - 1]
  <2>1. a \in 1 .. Len(s) + 2 /\ b \in 0..Len(s)
    BY <1>1
  <2> QED
    BY <1>1, <1>2, <2>1, PieceOf
<1>12. b - a + 1 = 3 /\ a + 1 - 1 = 4 * k - 3 /\ a + 2 - 1 = 4 * k - 2 /\ a + 3 - 1 = 4 * k - 1
  BY <1>3, <1>7, <1>10
<1> QED
  BY <1>8, <1>11, <1>12

\* The second token of such a token is its hash.
LEMMA SecondToken ==
  ASSUME NEW w \in Texts, Len(w) = 3, w[1] # COLON, w[2] = COLON, w[3] # COLON,
         NEW u, IsToken(u, w, COLON, 2)
  PROVE  u = <<w[3]>>
<1>1. PICK a \in 1..3, b \in 1..3 :
        /\ a <= b /\ Between(w, COLON, a, b) /\ u = SubSeq(w, a, b)
        /\ Before(w, COLON, a - 1) = 2 - 1
  BY DEF IsToken
<1>2. a # 1
  BY <1>1, BeforeZero
<1>3. a # 2
  <2> SUFFICES ASSUME a = 2 PROVE FALSE
    OBVIOUS
  <2>1. w[2] # COLON
    BY <1>1 DEF Between
  <2> QED
    BY <2>1
<1>4. a = 3 /\ b = 3
  BY <1>1, <1>2, <1>3
<1>5. u = SubSeq(w, 3, 3)
  BY <1>1, <1>4
<1>6. /\ u \in Texts /\ Len(u) = 1 /\ u[1] = w[3]
  <2>1. 3 \in 1 .. Len(w) + 2 /\ 3 \in 0..Len(w) /\ 1 \in 1 .. 3 - 3 + 1 /\ 3 + 1 - 1 = 3
    OBVIOUS
  <2>2. u \in Texts /\ Len(u) = (IF 3 <= 3 THEN 3 - 3 + 1 ELSE 0) /\ u[1] = w[3 + 1 - 1]
    BY <1>5, <2>1, PieceOf
  <2> QED
    BY <2>2
<1> QED
  BY <1>6 DEF Texts

\* The end of str_split.
LEMMA SplitEnds ==
  ASSUME NEW s \in Texts, NEW d, NEW cnt, NEW res \in Seq(Texts), NEW rest,
         Splitting(s, d, cnt, Null, res, rest)
  PROVE  /\ Len(res) = cnt - 1 /\ Len(res) = Delimiters(s, d) + 1
         /\ Delimiters(s, d) \in Nat /\ AreTokens(res, s, d)
<1>0. Len(s) \in Nat /\ Delimiters(s, d) \in Nat
  <2>1. Len(s) \in Nat
    BY DEF Texts
  <2> QED
    BY <2>1, BeforeType, DelimitersAre
<1>1. ASSUME NEW a \in 1..Len(s), NEW b \in 1..Len(s) PROVE Null # SubSeq(s, a, b)
  <2>1. a \in 1 .. Len(s) + 2 /\ b \in 0..Len(s)
    BY <1>0
  <2>2. SubSeq(s, a, b) \in Texts
    BY <2>1, PieceOf
  <2> QED
    BY <2>2, TextAssumption DEF Texts, Symbols, Separators
<1> QED
  BY <1>0, <1>1 DEF Splitting

-----------------------------------------------------------------------------
(***************************************************************************)
(* The invariant is inductive: an action of t leaves what it says of the   *)
(* other threads, which do not parse while t does.                         *)
(***************************************************************************)

Sound(t) == Reads(t) /\ SplitsText(t) /\ SplitsToken(t) /\ Knows(t)

Untouched(t) ==
  /\ pc'[t] = pc[t] /\ tree'[t] = tree[t] /\ behind'[t] = behind[t]
  /\ tokens'[t] = tokens[t] /\ nodes'[t] = nodes[t]
  /\ count'[t] = count[t] /\ token'[t] = token[t] /\ result'[t] = result[t]

LEMMA OthersStaySound ==
  ASSUME NEW u \in Threads, Sound(u), Untouched(u),
         saved' = saved \/ pc[u] \notin {"tokens", "thing"}
  PROVE  Sound(u)'
<1>1. Text(u)' = Text(u)
  BY DEF Text, Untouched
<1>2. Reads(u)'
  BY DEF Sound, Reads, Untouched
<1>3. SplitsText(u)'
  <2> SUFFICES ASSUME pc'[u] = "tokens"
               PROVE  /\ nodes'[u] = <<>>
                      /\ Splitting(Text(u)', COMMA, count'[u], token'[u], result'[u], saved')
    BY DEF SplitsText
  <2>1. pc[u] = "tokens" /\ saved' = saved
    BY DEF Untouched
  <2>2. nodes[u] = <<>> /\ Splitting(Text(u), COMMA, count[u], token[u], result[u], saved)
    BY <2>1 DEF Sound, SplitsText
  <2> QED
    BY <1>1, <2>1, <2>2, Zenon DEF Untouched
<1>4. SplitsToken(u)'
  <2> SUFFICES ASSUME pc'[u] = "thing"
               PROVE  Splitting(tokens'[u][Len(nodes'[u]) + 1], COLON, count'[u], token'[u],
                                result'[u], saved')
    BY DEF SplitsToken
  <2>1. pc[u] = "thing" /\ saved' = saved
    BY DEF Untouched
  <2>2. Splitting(tokens[u][Len(nodes[u]) + 1], COLON, count[u], token[u], result[u], saved)
    BY <2>1 DEF Sound, SplitsToken
  <2> QED
    BY <2>1, <2>2, Zenon DEF Untouched
<1>5. Knows(u)'
  <2>1. Knows(u)
    BY DEF Sound
  <2> QED
    BY <1>1, <2>1 DEF Untouched, Knows
<1> QED
  BY <1>2, <1>3, <1>4, <1>5 DEF Sound

LEMMA StepKeeps ==
  ASSUME IInv, NEW t \in Threads, TypeInv', Mutex', Sound(t)',
         \A u \in Threads \ {t} : Untouched(u),
         saved' = saved \/ lock = t
  PROVE  IInv'
<1>1. ASSUME NEW u \in Threads PROVE Sound(u)'
  <2>1. CASE u = t
    BY <2>1
  <2>2. CASE u # t
    <3>1. Sound(u) /\ Untouched(u)
      BY <2>2 DEF IInv, Sound
    <3>2. saved' = saved \/ pc[u] \notin {"tokens", "thing"}
      BY <2>2 DEF IInv, Mutex, Parsing
    <3> QED
      BY <3>1, <3>2, OthersStaySound
  <2> QED
    BY <2>1, <2>2
<1> QED
  BY <1>1 DEF IInv, Sound

LEMMA NullIsNone == Null \notin Threads /\ Null \notin Texts
BY TextAssumption DEF Texts, Symbols, Separators

LEMMA InitInv == Init => IInv
<1> SUFFICES ASSUME Init PROVE IInv
  OBVIOUS
<1>1. TypeInv
  BY EmptyText DEF Init, TypeInv
<1>2. Mutex
  BY NullIsNone DEF Init, Mutex, Parsing
<1>3. ASSUME NEW t \in Threads PROVE pc[t] = "idle"
  BY DEF Init
<1> QED
  BY <1>1, <1>2, <1>3 DEF IInv, Reads, SplitsText, SplitsToken, Knows, Known

LEMMA GetxattrInv == ASSUME IInv, NEW t \in Threads, Getxattr(t) PROVE IInv'
<1>1. PICK value \in Trees, rest \in Leftovers :
        tree' = [tree EXCEPT ![t] = value] /\ behind' = [behind EXCEPT ![t] = rest]
  BY DEF Getxattr
<1>2. value \in Seq(Hashes) /\ rest \in Texts
  BY TextAssumption, LeftoversTidy
<1>3. TypeInv'
  BY <1>1, <1>2 DEF IInv, TypeInv, Getxattr, Goto, splits
<1>4. Mutex'
  BY DEF IInv, TypeInv, Mutex, Getxattr, Goto, Parsing
<1>5. \A u \in Threads \ {t} : Untouched(u)
  BY <1>1 DEF IInv, TypeInv, Getxattr, Goto, Untouched, splits
<1>6. Sound(t)'
  <2>1. pc'[t] = "lock" /\ tree'[t] = value /\ behind'[t] = rest
    BY <1>1 DEF IInv, TypeInv, Getxattr, Goto
  <2> QED
    BY <2>1 DEF Sound, Reads, SplitsText, SplitsToken, Knows, Known
<1>7. saved' = saved
  BY DEF Getxattr
<1> QED
  BY <1>3, <1>4, <1>5, <1>6, <1>7, StepKeeps

LEMMA LockInv == ASSUME IInv, NEW t \in Threads, Lock(t) PROVE IInv'
<1>1. TypeInv'
  BY DEF IInv, TypeInv, Lock, Goto, splits, Parsing
<1>2. Mutex'
  <2>1. \A u \in Threads : pc[u] \notin Parsing
    BY NullIsNone DEF IInv, Mutex, Lock
  <2>2. lock' = t /\ pc'[t] = "text" /\ \A u \in Threads \ {t} : pc'[u] = pc[u]
    BY DEF IInv, TypeInv, Lock, Goto
  <2> QED
    BY <2>1, <2>2 DEF Mutex, Parsing
<1>3. \A u \in Threads \ {t} : Untouched(u)
  BY DEF IInv, TypeInv, Lock, Goto, Untouched, splits
<1>4. Sound(t)'
  <2>1. pc'[t] = "text" /\ tree'[t] = tree[t] /\ behind'[t] = behind[t] /\ pc[t] = "lock"
    BY DEF IInv, TypeInv, Lock, Goto
  <2> QED
    BY <2>1 DEF IInv, Sound, Reads, SplitsText, SplitsToken, Knows, Known
<1>5. saved' = saved
  BY DEF Lock
<1> QED
  BY <1>1, <1>2, <1>3, <1>4, <1>5, StepKeeps

LEMMA UnlockInv == ASSUME IInv, NEW t \in Threads, Unlock(t) PROVE IInv'
<1>1. TypeInv'
  BY DEF IInv, TypeInv, Unlock, Goto, splits, Parsing
<1>2. Mutex'
  <2>1. lock = t
    BY DEF IInv, Mutex, Unlock, Parsing
  <2>2. lock' = Null /\ pc'[t] = "parsed" /\ \A u \in Threads \ {t} : pc'[u] = pc[u]
    BY DEF IInv, TypeInv, Unlock, Goto
  <2> QED
    BY <2>1, <2>2, NullIsNone DEF IInv, Mutex, Parsing
<1>3. \A u \in Threads \ {t} : Untouched(u)
  BY DEF IInv, TypeInv, Unlock, Goto, Untouched, splits
<1>4. Sound(t)'
  <2>1. /\ pc'[t] = "parsed" /\ pc[t] = "unlock"
        /\ tree' = tree /\ behind' = behind /\ tokens' = tokens /\ nodes' = nodes
    BY DEF IInv, TypeInv, Unlock, Goto
  <2>2. Text(t)' = Text(t)
    BY <2>1 DEF Text
  <2>3. Reads(t) /\ Knows(t)
    BY DEF IInv
  <2> QED
    BY <2>1, <2>2, <2>3 DEF Sound, Reads, SplitsText, SplitsToken, Knows, Known
<1>5. saved' = saved
  BY DEF Unlock
<1> QED
  BY <1>1, <1>2, <1>3, <1>4, <1>5, StepKeeps

LEMMA ReturnInv == ASSUME IInv, NEW t \in Threads, Return(t) PROVE IInv'
<1>1. TypeInv'
  BY EmptyText DEF IInv, TypeInv, Return, Goto, Parsing
<1>2. Mutex'
  BY DEF IInv, TypeInv, Mutex, Return, Goto, Parsing
<1>3. \A u \in Threads \ {t} : Untouched(u)
  BY DEF IInv, TypeInv, Return, Goto, Untouched
<1>4. Sound(t)'
  <2>1. pc'[t] = "idle"
    BY DEF IInv, TypeInv, Return, Goto
  <2> QED
    BY <2>1 DEF Sound, Reads, SplitsText, SplitsToken, Knows, Known
<1>5. saved' = saved
  BY DEF Return
<1> QED
  BY <1>1, <1>2, <1>3, <1>4, <1>5, StepKeeps

\* The text that a thread splits, and its tokens.
LEMMA TextIsWhole ==
  ASSUME IInv, NEW t \in Threads, pc[t] # "idle"
  PROVE  Text(t) \in Texts /\ Whole(Text(t)) /\ Clean(Text(t), COMMA)
<1>1. Text(t) \in Texts /\ Whole(Text(t))
  BY WholeText DEF IInv, Reads, Text
<1> QED
  BY <1>1, WholeIsClean

LEMMA TokenToSplit ==
  ASSUME IInv, NEW t \in Threads, pc[t] \in {"token", "thing"}
  PROVE  LET w == tokens[t][Len(nodes[t]) + 1]
         IN  w \in Texts /\ Clean(w, COLON) /\ Delimiters(w, COLON) >= 1
<1>1. Len(nodes[t]) \in Nat /\ Len(tokens[t]) \in Nat
  BY DEF IInv, TypeInv
<1>2. AreTokens(tokens[t], Text(t), COMMA) /\ Len(nodes[t]) < Len(tokens[t])
  BY DEF IInv, Knows, Known
<1>3. Len(nodes[t]) + 1 \in 1..Len(tokens[t])
  BY <1>1, <1>2
<1>4. IsToken(tokens[t][Len(nodes[t]) + 1], Text(t), COMMA, Len(nodes[t]) + 1)
  BY <1>2, <1>3 DEF AreTokens
<1>5. Text(t) \in Texts /\ Whole(Text(t))
  BY TextIsWhole
<1> QED
  BY <1>4, <1>5, TokenIsClean

LEMMA SplitTextInv == ASSUME IInv, NEW t \in Threads, SplitText(t) PROVE IInv'
<1> DEFINE s == Text(t)
           first == Strtok(s, COMMA)
<1>0. pc[t] = "text" /\ pc' = [pc EXCEPT ![t] = "tokens"]
  BY DEF SplitText, Goto
<1>1. s \in Texts /\ Clean(s, COMMA) /\ COMMA \in Symbols
  BY <1>0, TextIsWhole, SymbolsAre
<1>2. /\ Splitting(s, COMMA, Count(s, COMMA), first.token, <<>>, first.rest)
      /\ first.token \in Texts /\ first.rest \in Texts /\ Count(s, COMMA) \in Nat
  <2> HIDE DEF s
  <2> QED
    BY <1>1, SplitStarts
<1>3. /\ count' = [count EXCEPT ![t] = Count(s, COMMA)]
      /\ token' = [token EXCEPT ![t] = first.token]
      /\ saved' = first.rest
      /\ result' = [result EXCEPT ![t] = <<>>]
      /\ nodes' = [nodes EXCEPT ![t] = <<>>]
      /\ UNCHANGED <<lock, tree, behind, tokens, calls>>
  BY DEF SplitText, Split, Text
<1>4. Text(t)' = s
  BY <1>3 DEF Text
<1> HIDE DEF first, s
<1>5. TypeInv'
  BY <1>0, <1>2, <1>3 DEF IInv, TypeInv, Parsing
<1>6. Mutex'
  BY <1>0, <1>3 DEF IInv, TypeInv, Mutex, Parsing
<1>7. \A u \in Threads \ {t} : Untouched(u)
  BY <1>0, <1>3 DEF IInv, TypeInv, Untouched
<1>8. Sound(t)'
  <2>1. /\ pc'[t] = "tokens" /\ nodes'[t] = <<>> /\ count'[t] = Count(s, COMMA)
        /\ token'[t] = first.token /\ result'[t] = <<>>
        /\ tree'[t] = tree[t] /\ behind'[t] = behind[t]
    BY <1>0, <1>3 DEF IInv, TypeInv
  <2>2. SplitsText(t)'
    BY <1>2, <1>3, <1>4, <2>1, Zenon DEF SplitsText
  <2>3. Reads(t)'
    BY <1>0, <2>1 DEF IInv, Reads
  <2>4. SplitsToken(t)' /\ Knows(t)'
    BY <2>1 DEF SplitsToken, Knows, Known
  <2> QED
    BY <2>2, <2>3, <2>4 DEF Sound
<1>9. lock = t
  BY <1>0 DEF IInv, Mutex, Parsing
<1> QED
  BY <1>5, <1>6, <1>7, <1>8, <1>9, StepKeeps

LEMMA SplitTokenInv == ASSUME IInv, NEW t \in Threads, SplitToken(t) PROVE IInv'
<1> DEFINE w == tokens[t][Len(nodes[t]) + 1]
           first == Strtok(w, COLON)
<1>0. pc[t] = "token" /\ pc' = [pc EXCEPT ![t] = "thing"]
  BY DEF SplitToken, Goto
<1>1. w \in Texts /\ Clean(w, COLON) /\ COLON \in Symbols
  BY <1>0, TokenToSplit, SymbolsAre
<1>2. /\ Splitting(w, COLON, Count(w, COLON), first.token, <<>>, first.rest)
      /\ first.token \in Texts /\ first.rest \in Texts /\ Count(w, COLON) \in Nat
  <2> HIDE DEF w
  <2> QED
    BY <1>1, SplitStarts
<1>3. /\ count' = [count EXCEPT ![t] = Count(w, COLON)]
      /\ token' = [token EXCEPT ![t] = first.token]
      /\ saved' = first.rest
      /\ result' = [result EXCEPT ![t] = <<>>]
      /\ UNCHANGED <<lock, tree, behind, tokens, nodes, calls>>
  BY DEF SplitToken, Split
<1>4. tokens'[t][Len(nodes'[t]) + 1] = w /\ Text(t)' = Text(t)
  BY <1>3 DEF Text
<1> HIDE DEF first, w
<1>5. TypeInv'
  BY <1>0, <1>2, <1>3 DEF IInv, TypeInv, Parsing
<1>6. Mutex'
  BY <1>0, <1>3 DEF IInv, TypeInv, Mutex, Parsing
<1>7. \A u \in Threads \ {t} : Untouched(u)
  BY <1>0, <1>3 DEF IInv, TypeInv, Untouched
<1>8. Sound(t)'
  <2>1. /\ pc'[t] = "thing" /\ count'[t] = Count(w, COLON)
        /\ token'[t] = first.token /\ result'[t] = <<>>
        /\ tree'[t] = tree[t] /\ behind'[t] = behind[t]
        /\ tokens'[t] = tokens[t] /\ nodes'[t] = nodes[t]
    BY <1>0, <1>3 DEF IInv, TypeInv
  <2>2. SplitsToken(t)'
    BY <1>2, <1>3, <1>4, <2>1, Zenon DEF SplitsToken
  <2>3. Reads(t)'
    BY <1>0, <2>1 DEF IInv, Reads
  <2>4. SplitsText(t)'
    BY <2>1 DEF SplitsText
  <2>5. Knows(t)
    BY DEF IInv
  <2>6. Knows(t)'
    BY <1>0, <1>4, <2>1, <2>5 DEF Knows, Known
  <2> QED
    BY <2>2, <2>3, <2>4, <2>6 DEF Sound
<1>9. lock = t
  BY <1>0 DEF IInv, Mutex, Parsing
<1> QED
  BY <1>5, <1>6, <1>7, <1>8, <1>9, StepKeeps

\* What a thread splits, in the loop of str_split.
LEMMA InLoop ==
  ASSUME IInv, NEW t \in Threads, pc[t] \in {"tokens", "thing"}
  PROVE  LET s == IF pc[t] = "tokens" THEN Text(t) ELSE tokens[t][Len(nodes[t]) + 1]
             d == IF pc[t] = "tokens" THEN COMMA ELSE COLON
         IN  /\ s \in Texts /\ d \in Symbols /\ Clean(s, d)
             /\ Splitting(s, d, count[t], token[t], result[t], saved)
<1>1. CASE pc[t] = "tokens"
  <2>1. Text(t) \in Texts /\ Clean(Text(t), COMMA)
    BY <1>1, TextIsWhole
  <2>2. Splitting(Text(t), COMMA, count[t], token[t], result[t], saved)
    BY <1>1 DEF IInv, SplitsText
  <2> QED
    BY <1>1, <2>1, <2>2, SymbolsAre
<1>2. CASE pc[t] = "thing"
  <2> DEFINE w == tokens[t][Len(nodes[t]) + 1]
  <2>1. w \in Texts /\ Clean(w, COLON)
    BY <1>2, TokenToSplit
  <2>2. Splitting(w, COLON, count[t], token[t], result[t], saved)
    BY <1>2 DEF IInv, SplitsToken
  <2>3. pc[t] # "tokens"
    BY <1>2
  <2> HIDE DEF w
  <2>4. LET s == IF pc[t] = "tokens" THEN Text(t) ELSE w
            d == IF pc[t] = "tokens" THEN COMMA ELSE COLON
        IN  /\ s \in Texts /\ d \in Symbols /\ Clean(s, d)
            /\ Splitting(s, d, count[t], token[t], result[t], saved)
    BY <2>1, <2>2, <2>3, SymbolsAre
  <2> QED
    BY <2>4 DEF w
<1> QED
  BY <1>1, <1>2

LEMMA NextTokenInv == ASSUME IInv, NEW t \in Threads, NextToken(t) PROVE IInv'
<1> DEFINE s == IF pc[t] = "tokens" THEN Text(t) ELSE tokens[t][Len(nodes[t]) + 1]
           d == IF pc[t] = "tokens" THEN COMMA ELSE COLON
           next == Strtok(saved, d)
<1>0. pc[t] \in {"tokens", "thing"} /\ token[t] # Null
  BY DEF NextToken
<1>1. /\ s \in Texts /\ d \in Symbols /\ Clean(s, d)
      /\ Splitting(s, d, count[t], token[t], result[t], saved)
  BY <1>0, InLoop
<1>2. count[t] \in Nat /\ result[t] \in Seq(Texts)
  BY DEF IInv, TypeInv
<1>3. /\ Len(result[t]) < count[t]
      /\ token[t] \in Texts /\ Append(result[t], token[t]) \in Seq(Texts)
      /\ Splitting(s, d, count[t], next.token, Append(result[t], token[t]), next.rest)
      /\ next.token \in Texts \cup {Null} /\ next.rest \in Texts
  <2> HIDE DEF s, d
  <2> QED
    BY <1>0, <1>1, <1>2, SplitSteps
<1>4. /\ result' = [result EXCEPT ![t] = Append(result[t], token[t])]
      /\ token' = [token EXCEPT ![t] = next.token]
      /\ saved' = next.rest
      /\ UNCHANGED <<pc, lock, tree, behind, tokens, count, nodes, calls>>
  BY <1>3 DEF NextToken
<1>5. /\ Text(t)' = Text(t)
      /\ pc[t] = "tokens" => s = Text(t) /\ d = COMMA
      /\ pc[t] = "thing" => s = tokens[t][Len(nodes[t]) + 1] /\ d = COLON
  BY <1>4 DEF Text
<1> HIDE DEF s, d, next
<1>6. TypeInv'
  BY <1>3, <1>4 DEF IInv, TypeInv
<1>7. Mutex'
  BY <1>4 DEF IInv, Mutex
<1>8. \A u \in Threads \ {t} : Untouched(u)
  BY <1>4 DEF IInv, TypeInv, Untouched
<1>9. Sound(t)'
  <2>1. token'[t] = next.token /\ result'[t] = Append(result[t], token[t])
    BY <1>4 DEF IInv, TypeInv
  <2>2. Splitting(s, d, count'[t], token'[t], result'[t], saved')
    BY <1>3, <1>4, <2>1
  <2>3. Reads(t)'
    BY <1>4 DEF IInv, Reads
  <2>4. SplitsText(t)'
    <3> SUFFICES ASSUME pc'[t] = "tokens"
                 PROVE  nodes'[t] = <<>>
                        /\ Splitting(Text(t)', COMMA, count'[t], token'[t], result'[t], saved')
      BY DEF SplitsText
    <3>1. pc[t] = "tokens"
      BY <1>4
    <3> QED
      BY <1>4, <1>5, <2>2, <3>1 DEF IInv, SplitsText
  <2>5. SplitsToken(t)'
    <3> SUFFICES ASSUME pc'[t] = "thing"
                 PROVE  Splitting(tokens'[t][Len(nodes'[t]) + 1], COLON, count'[t], token'[t],
                                  result'[t], saved')
      BY DEF SplitsToken
    <3>1. pc[t] = "thing"
      BY <1>4
    <3> QED
      BY <1>4, <1>5, <2>2, <3>1
  <2>6. Knows(t)
    BY DEF IInv
  <2>7. Knows(t)'
    BY <1>4, <1>5, <2>6 DEF Knows
  <2> QED
    BY <2>3, <2>4, <2>5, <2>7 DEF Sound
<1>10. lock = t
  BY <1>0 DEF IInv, Mutex, Parsing
<1> QED
  BY <1>6, <1>7, <1>8, <1>9, <1>10, StepKeeps

LEMMA TextSplitInv == ASSUME IInv, NEW t \in Threads, TextSplit(t) PROVE IInv'
<1>0. pc[t] = "tokens" /\ token[t] = Null
  BY DEF TextSplit
<1>1. Text(t) \in Texts
  BY <1>0, TextIsWhole
<1>2. /\ nodes[t] = <<>>
      /\ Splitting(Text(t), COMMA, count[t], Null, result[t], saved)
      /\ result[t] \in Seq(Texts)
  BY <1>0 DEF IInv, TypeInv, SplitsText
<1>3. /\ Len(result[t]) = count[t] - 1 /\ Len(result[t]) = Delimiters(Text(t), COMMA) + 1
      /\ Delimiters(Text(t), COMMA) \in Nat /\ AreTokens(result[t], Text(t), COMMA)
  BY <1>1, <1>2, SplitEnds
<1>4. /\ tokens' = [tokens EXCEPT ![t] = result[t]]
      /\ pc' = [pc EXCEPT ![t] = "token"]
      /\ UNCHANGED <<lock, saved, tree, behind, count, token, result, nodes, calls>>
  BY <1>3 DEF TextSplit, Goto, splits
<1>5. Text(t)' = Text(t)
  BY <1>4 DEF Text
<1>6. TypeInv'
  BY <1>2, <1>4 DEF IInv, TypeInv, Parsing
<1>7. Mutex'
  BY <1>0, <1>4 DEF IInv, TypeInv, Mutex, Parsing
<1>8. \A u \in Threads \ {t} : Untouched(u)
  BY <1>4 DEF IInv, TypeInv, Untouched
<1>9. Sound(t)'
  <2>1. /\ pc'[t] = "token" /\ tokens'[t] = result[t] /\ nodes'[t] = <<>>
        /\ tree'[t] = tree[t] /\ behind'[t] = behind[t]
    BY <1>2, <1>4 DEF IInv, TypeInv
  <2>2. Knows(t)'
    <3>1. Len(<<>>) < Len(result[t]) /\ \A k \in 1..Len(<<>>) : FALSE
      BY <1>3
    <3> QED
      BY <1>3, <1>5, <2>1, <3>1 DEF Knows
  <2>3. Reads(t)'
    BY <1>0, <2>1 DEF IInv, Reads
  <2> QED
    BY <2>1, <2>2, <2>3 DEF Sound, SplitsText, SplitsToken
<1> QED
  BY <1>4, <1>6, <1>7, <1>8, <1>9, StepKeeps

LEMMA TokenSplitInv == ASSUME IInv, NEW t \in Threads, TokenSplit(t) PROVE IInv'
<1> DEFINE w == tokens[t][Len(nodes[t]) + 1]
           more == Append(nodes[t], result[t][2])
           label == IF Len(more) < Len(tokens[t]) THEN "token" ELSE "unlock"
<1>0. pc[t] = "thing" /\ token[t] = Null
  BY DEF TokenSplit
<1>1. w \in Texts /\ Delimiters(w, COLON) >= 1
  BY <1>0, TokenToSplit
<1>2. /\ Splitting(w, COLON, count[t], Null, result[t], saved)
      /\ result[t] \in Seq(Texts) /\ nodes[t] \in Seq(Texts) /\ tokens[t] \in Seq(Texts)
  BY <1>0 DEF IInv, TypeInv, SplitsToken
<1>3. /\ Len(result[t]) = count[t] - 1 /\ Len(result[t]) >= 2
      /\ AreTokens(result[t], w, COLON)
  <2> HIDE DEF w
  <2>1. /\ Len(result[t]) = count[t] - 1 /\ Len(result[t]) = Delimiters(w, COLON) + 1
        /\ Delimiters(w, COLON) \in Nat /\ AreTokens(result[t], w, COLON)
    BY <1>1, <1>2, SplitEnds
  <2> QED
    BY <1>1, <2>1
<1>4. IsToken(result[t][2], w, COLON, 2) /\ result[t][2] \in Texts
  <2>1. 2 \in 1..Len(result[t])
    BY <1>2, <1>3
  <2> QED
    BY <1>2, <1>3, <2>1 DEF AreTokens
<1>5. /\ more \in Seq(Texts) /\ Len(more) = Len(nodes[t]) + 1
      /\ \A k \in 1..Len(nodes[t]) : more[k] = nodes[t][k]
      /\ more[Len(nodes[t]) + 1] = result[t][2]
      /\ Len(nodes[t]) \in Nat /\ Len(tokens[t]) \in Nat
  BY <1>2, <1>4, AppendProperties
<1>6. nodes' = [nodes EXCEPT ![t] = more] /\ nodes'[t] = more
  BY <1>3 DEF TokenSplit, IInv, TypeInv
<1>7. /\ pc' = [pc EXCEPT ![t] = label]
      /\ UNCHANGED <<lock, saved, tree, behind, tokens, count, token, result, calls>>
  BY <1>3, <1>6 DEF TokenSplit, Goto, splits
<1>8. Text(t)' = Text(t)
  BY <1>7 DEF Text
<1>9. label \in {"token", "unlock"}
  OBVIOUS
<1>10. /\ label = "token" => Len(more) < Len(tokens[t])
       /\ label = "unlock" => ~(Len(more) < Len(tokens[t]))
  OBVIOUS
<1> HIDE DEF label, more
<1>11. TypeInv'
  BY <1>5, <1>6, <1>7, <1>9 DEF IInv, TypeInv, Parsing
<1>12. Mutex'
  BY <1>0, <1>7, <1>9 DEF IInv, TypeInv, Mutex, Parsing
<1>13. \A u \in Threads \ {t} : Untouched(u)
  BY <1>6, <1>7 DEF IInv, TypeInv, Untouched
<1>14. Sound(t)'
  <2>1. /\ pc'[t] = label /\ tokens'[t] = tokens[t]
        /\ tree'[t] = tree[t] /\ behind'[t] = behind[t]
    BY <1>7 DEF IInv, TypeInv
  <2>2. /\ AreTokens(tokens[t], Text(t), COMMA)
        /\ Len(tokens[t]) = Delimiters(Text(t), COMMA) + 1
        /\ Len(nodes[t]) < Len(tokens[t])
        /\ \A k \in 1..Len(nodes[t]) : IsToken(nodes[t][k], tokens[t][k], COLON, 2)
    BY <1>0 DEF IInv, Knows, Known
  <2>3. \A k \in 1..Len(more) : IsToken(more[k], tokens[t][k], COLON, 2)
    <3> TAKE k \in 1..Len(more)
    <3>1. CASE k = Len(nodes[t]) + 1
      BY <1>4, <1>5, <3>1
    <3>2. CASE k # Len(nodes[t]) + 1
      <4>1. k \in 1..Len(nodes[t])
        BY <1>5, <3>2
      <4> QED
        BY <1>5, <2>2, <4>1
    <3> QED
      BY <3>1, <3>2
  <2>4. IF label \in {"token", "thing"}
        THEN Len(more) < Len(tokens[t]) ELSE Len(more) = Len(tokens[t])
    BY <1>5, <1>9, <1>10, <2>2
  <2>5. Knows(t)'
    BY <1>6, <1>8, <2>1, <2>2, <2>3, <2>4 DEF Knows
  <2>6. Reads(t)'
    BY <1>0, <2>1 DEF IInv, Reads
  <2> QED
    BY <1>9, <2>1, <2>5, <2>6 DEF Sound, SplitsText, SplitsToken
<1> QED
  BY <1>7, <1>11, <1>12, <1>13, <1>14, StepKeeps

LEMMA StutterInv == ASSUME IInv, UNCHANGED vars PROVE IInv'
<1>1. /\ saved' = saved /\ lock' = lock /\ pc' = pc
      /\ \A u \in Threads : Untouched(u)
  BY DEF vars, splits, Untouched
<1>2. TypeInv' /\ Mutex'
  BY DEF IInv, TypeInv, Mutex, vars, splits
<1>3. \A u \in Threads : Sound(u)'
  BY <1>1, OthersStaySound DEF IInv, Sound
<1> QED
  BY <1>2, <1>3 DEF IInv, Sound

-----------------------------------------------------------------------------
(***************************************************************************)
(* The theorems.                                                           *)
(***************************************************************************)

\* Threads that parse under the mutex of bb_write, with the one position of strtok, are
\* where the inductive invariant says, for any trees, leftovers and number of calls.
THEOREM Invariance == Spec => []IInv
<1>1. Init => IInv
  BY InitInv
<1>2. IInv /\ [Next]_vars => IInv'
  <2> SUFFICES ASSUME IInv, [Next]_vars PROVE IInv'
    OBVIOUS
  <2>1. CASE UNCHANGED vars
    BY <2>1, StutterInv
  <2>2. ASSUME NEW t \in Threads, Step(t) PROVE IInv'
    BY <2>2, GetxattrInv, LockInv, SplitTextInv, SplitTokenInv, NextTokenInv, TextSplitInv,
       TokenSplitInv, UnlockInv, ReturnInv DEF Step
  <2> QED
    BY <2>1, <2>2 DEF Next, Quiet
<1> QED
  BY <1>1, <1>2, PTL DEF Spec

\* str_split counts as many tokens as strtok then finds, in the text and in each of its
\* tokens, and every token has a hash: no assertion of str_split and no strcpy of
\* string_to_tree ends the process, whatever older text follows the value.
THEOREM NoAssertionFails == Spec => []AssertionsHold
<1>1. IInv => AssertionsHold
  <2> SUFFICES ASSUME IInv, NEW t \in Threads PROVE pc[t] # "aborted"
    BY DEF AssertionsHold
  <2>1. pc[t] \in Parsing \cup {"idle", "lock", "parsed"}
    BY DEF IInv, TypeInv
  <2> QED
    BY <2>1 DEF Parsing
<1> QED
  BY <1>1, Invariance, PTL

\* Each thread gets from string_to_tree the hashes that tree_to_string printed into the
\* attribute it read: all of them when nothing follows the value, and all but the last one
\* when older text does.
THEOREM ParsesTheAttribute == Spec => []ParsesWhatWasPrinted
<1>1. IInv => ParsesWhatWasPrinted
  <2> SUFFICES ASSUME IInv, NEW t \in Threads, pc[t] = "parsed"
               PROVE  LET n    == Len(tree[t])
                          sure == IF behind[t] = <<>> THEN n ELSE n - 1
                      IN  /\ behind[t] = <<>> => Len(nodes[t]) = n
                          /\ Len(nodes[t]) >= n
                          /\ \A x \in 1..sure : nodes[t][x] = <<tree[t][x]>>
    BY DEF ParsesWhatWasPrinted
  <2> DEFINE v == tree[t]
             r == behind[t]
             n == Len(v)
  <2>1. v \in Trees /\ r \in Leftovers /\ Text(t) = tree_to_string(v) \o r
    BY DEF IInv, Reads, Text
  <2>2. /\ AreTokens(tokens[t], Text(t), COMMA)
        /\ Len(tokens[t]) = Delimiters(Text(t), COMMA) + 1
        /\ Len(nodes[t]) = Len(tokens[t])
        /\ \A k \in 1..Len(nodes[t]) : IsToken(nodes[t][k], tokens[t][k], COLON, 2)
    BY DEF IInv, Knows, Known
  <2>3. /\ Len(nodes[t]) \in Nat /\ Len(nodes[t]) >= n /\ n \in Nat
        /\ r = <<>> => Len(nodes[t]) = n
    <3> HIDE DEF v, r
    <3>1. n \in Nat
      BY <2>1, PrintedPart
    <3> QED
      BY <2>1, <2>2, <3>1, NumberOfTokens
  <2>4. ASSUME NEW x \in 1..n, x < n \/ r = <<>> PROVE nodes[t][x] = <<v[x]>>
    <3>1. x \in 1..Len(nodes[t])
      BY <2>3
    <3>2. IsToken(tokens[t][x], Text(t), COMMA, x) /\ IsToken(nodes[t][x], tokens[t][x], COLON, 2)
      BY <2>2, <3>1 DEF AreTokens
    <3> DEFINE w == tokens[t][x]
    <3>3. /\ w \in Texts /\ Len(w) = 3
          /\ w[1] # COLON /\ w[2] = COLON /\ w[3] = v[x] /\ w[3] # COLON
      <4> HIDE DEF v, r, w
      <4>1. IsToken(w, tree_to_string(v) \o r, COMMA, x)
        BY <2>1, <3>2 DEF w
      <4> QED
        BY <2>1, <2>4, <4>1, PrintedToken DEF n
    <3> HIDE DEF w, v
    <3>4. IsToken(nodes[t][x], w, COLON, 2)
      BY <3>2 DEF w
    <3>5. nodes[t][x] = <<w[3]>>
      BY <3>3, <3>4, SecondToken
    <3> QED
      BY <3>3, <3>5
  <2> HIDE DEF v, r, n
  <2>5. \A x \in 1 .. (IF r = <<>> THEN n ELSE n - 1) : nodes[t][x] = <<v[x]>>
    BY <2>3, <2>4
  <2> QED
    BY <2>3, <2>5 DEF v, r, n
<1> QED
  BY <1>1, Invariance, PTL

-----------------------------------------------------------------------------
(***************************************************************************)
(* The parsing as one step.                                                *)
(***************************************************************************)

LEMMA MaxIs ==
  ASSUME NEW a \in Nat, NEW b \in Nat, a <= b
  PROVE  Min(a..b) = a /\ Max(a..b) = b
<1>1. Min(a..b) = a
  <2>1. a..b \in SUBSET Nat /\ a \in a..b
    OBVIOUS
  <2>2. Min(a..b) \in a..b /\ Min(a..b) <= a
    BY <2>1, MinIs
  <2> QED
    BY <2>2
<1>2. Max(a..b) = b
  <2>1. b \in a..b /\ \A y \in a..b : b >= y
    OBVIOUS
  <2>2. \A x \in a..b : (\A y \in a..b : x >= y) => x = b
    OBVIOUS
  <2> QED
    BY <2>1, <2>2 DEF Max
<1> QED
  BY <1>1, <1>2

\* The operators of TreeParser are those of TreeText.
LEMMA SameDelims == \A s, d, n : Parser!Delims(s, d, n) = Before(s, d, n)
<1>1. \A S : Parser!Cardinality(S) = Cardinality(S)
  BY DEF Parser!Cardinality, Cardinality
<1> QED
  BY <1>1 DEF Parser!Delims, Before

LEMMA SameMinMax == \A S : Parser!Min(S) = Min(S) /\ Parser!Max(S) = Max(S)
BY DEF Parser!Min, Min, Parser!Max, Max

\* The k-th token is the k-th field.
LEMMA FieldIs ==
  ASSUME NEW s \in Texts, NEW d, NEW k \in Nat, NEW w, IsToken(w, s, d, k)
  PROVE  Parser!Field(s, d, k) = w
<1> DEFINE P == {x \in 1..Len(s) : s[x] # d /\ Before(s, d, x) = k - 1}
<1>0. Len(s) \in Nat
  BY DEF Texts
<1>1. PICK a \in 1..Len(s), b \in 1..Len(s) :
        /\ a <= b /\ Between(s, d, a, b) /\ w = SubSeq(s, a, b)
        /\ Before(s, d, a - 1) = k - 1
  BY DEF IsToken
<1>2. ASSUME NEW x \in a..b PROVE x \in P
  <2>1. x \in Nat /\ a - 1 \in Nat /\ a - 1 <= x /\ x \in 1..Len(s)
    BY <1>0
  <2>2. \A y \in (a - 1) + 1 .. x : s[y] # d
    BY <1>0, <1>1 DEF Between
  <2>3. Before(s, d, x) = Before(s, d, a - 1)
    BY <2>1, <2>2, BeforeSame
  <2>4. s[x] # d
    BY <1>1 DEF Between
  <2> QED
    BY <1>1, <2>1, <2>3, <2>4
<1>3. ASSUME NEW x \in P PROVE x \in a..b
  <2>1. x \in 1..Len(s) /\ s[x] # d /\ Before(s, d, x) = k - 1 /\ x \in Nat
    BY <1>0
  <2>2. ~(x < a)
    <3> SUFFICES ASSUME x < a PROVE FALSE
      OBVIOUS
    <3>1. s[a - 1] = d /\ a - 1 \in Nat
      BY <1>0, <1>1, <2>1 DEF Between
    <3>2. x < a - 1
      BY <1>0, <2>1, <3>1
    <3>3. Before(s, d, x) < Before(s, d, a - 1)
      BY <2>1, <3>1, <3>2, BeforeLess
    <3> QED
      BY <1>1, <2>1, <3>3
  <2>3. ~(b < x)
    <3> SUFFICES ASSUME b < x PROVE FALSE
      OBVIOUS
    <3>1. s[b + 1] = d /\ b + 1 \in Nat /\ b + 1 <= x /\ b \in Nat
      BY <1>0, <1>1, <2>1 DEF Between
    <3>2. Before(s, d, b + 1) = Before(s, d, b) + 1
      BY <3>1, BeforeSucc
    <3>3. Before(s, d, b + 1) <= Before(s, d, x)
      BY <2>1, <3>1, BeforeMono
    <3>4. Before(s, d, b) = k - 1
      BY <1>1, BeforeToken
    <3> QED
      BY <2>1, <3>2, <3>3, <3>4
  <2> QED
    BY <1>0, <2>1, <2>2, <2>3
<1>4. P = a..b
  <2> HIDE DEF P
  <2>1. P \subseteq a..b /\ a..b \subseteq P
    BY <1>2, <1>3
  <2> QED
    BY <2>1
<1>5. Min(a..b) = a /\ Max(a..b) = b
  BY <1>0, <1>1, MaxIs
<1>6. Parser!Field(s, d, k) = SubSeq(s, Min(P), Max(P))
  <2> DEFINE Q == {x \in 1..Len(s) : s[x] # d /\ Parser!Delims(s, d, x) = k - 1}
  <2>1. Q = P
    BY SameDelims
  <2>2. Parser!Field(s, d, k) = SubSeq(s, Parser!Min(Q), Parser!Max(Q))
    BY DEF Parser!Field
  <2> HIDE DEF P, Q
  <2> QED
    BY <2>1, <2>2, SameMinMax
<1> HIDE DEF P
<1> QED
  BY <1>1, <1>4, <1>5, <1>6

\* What the parsing has found is what the text says.
LEMMA NodesAre ==
  ASSUME IInv, NEW t \in Threads, pc[t] = "unlock"
  PROVE  Parser!NodesOf(Text(t)) = nodes[t]
<1> DEFINE s == Text(t)
           n == Len(tokens[t])
           ws == Parser!NodesOf(s)
<1>1. s \in Texts /\ Whole(s)
  BY TextIsWhole
<1>2. /\ AreTokens(tokens[t], s, COMMA)
      /\ n = Delimiters(s, COMMA) + 1
      /\ Len(nodes[t]) = n
      /\ \A k \in 1..Len(nodes[t]) : IsToken(nodes[t][k], tokens[t][k], COLON, 2)
  BY DEF IInv, Knows, Known
<1>3. nodes[t] \in Seq(Texts) /\ n \in Nat
  BY DEF IInv, TypeInv
<1> HIDE DEF s
<1>4. ws = [k \in 1..n |-> Parser!Field(Parser!Field(s, COMMA, k), COLON, 2)]
  <2>1. Parser!Delims(s, COMMA, Len(s)) + 1 = n
    BY <1>2, SameDelims, DelimitersAre
  <2> HIDE DEF n
  <2> QED
    BY <2>1 DEF Parser!NodesOf
<1>5. ASSUME NEW k \in 1..n PROVE Parser!Field(Parser!Field(s, COMMA, k), COLON, 2) = nodes[t][k]
  <2> DEFINE w == tokens[t][k]
  <2>1. IsToken(w, s, COMMA, k) /\ IsToken(nodes[t][k], w, COLON, 2) /\ k \in Nat
    BY <1>2, <1>3 DEF AreTokens
  <2> HIDE DEF w
  <2>2. Parser!Field(s, COMMA, k) = w
    BY <1>1, <2>1, FieldIs
  <2>3. w \in Texts
    BY <1>1, <2>1, TokenIsClean
  <2>4. Parser!Field(w, COLON, 2) = nodes[t][k]
    BY <2>1, <2>3, FieldIs
  <2> QED
    BY <2>2, <2>4
<1>6. nodes[t] = [k \in 1..n |-> nodes[t][k]]
  BY <1>2, <1>3
<1>7. ws = [k \in 1..n |-> nodes[t][k]]
  <2> HIDE DEF ws, n
  <2> QED
    BY <1>4, <1>5
<1> QED
  BY <1>6, <1>7 DEF s

\* What one thread shows of its parsing.
PhaseOf(t)  == IF pc[t] \in {"idle", "parsed"} THEN pc[t] ELSE "reading"
ReadOf(t)   == IF pc[t] = "idle" THEN <<>> ELSE Text(t)
AnswerOf(t) == IF pc[t] = "parsed" THEN nodes[t] ELSE <<>>

LEMMA ShownIs ==
  /\ Phases = [t \in Threads |-> PhaseOf(t)]
  /\ TextRead = [t \in Threads |-> ReadOf(t)]
  /\ Answers = [t \in Threads |-> AnswerOf(t)]
BY DEF Phases, TextRead, Answers, PhaseOf, ReadOf, AnswerOf, Text

\* What a step of t changes of it.
LEMMA OneShown ==
  ASSUME NEW t \in Threads, \A u \in Threads \ {t} : Untouched(u)
  PROVE  /\ Phases' = [Phases EXCEPT ![t] = PhaseOf(t)']
         /\ TextRead' = [TextRead EXCEPT ![t] = ReadOf(t)']
         /\ Answers' = [Answers EXCEPT ![t] = AnswerOf(t)']
<1>1. ASSUME NEW u \in Threads \ {t}
      PROVE  PhaseOf(u)' = PhaseOf(u) /\ ReadOf(u)' = ReadOf(u) /\ AnswerOf(u)' = AnswerOf(u)
  BY DEF Untouched, PhaseOf, ReadOf, AnswerOf, Text
<1>2. /\ Phases' = [u \in Threads |-> PhaseOf(u)']
      /\ TextRead' = [u \in Threads |-> ReadOf(u)']
      /\ Answers' = [u \in Threads |-> AnswerOf(u)']
  BY DEF Phases, TextRead, Answers, PhaseOf, ReadOf, AnswerOf, Text
<1>3. [u \in Threads |-> PhaseOf(u)'] = [[u \in Threads |-> PhaseOf(u)] EXCEPT ![t] = PhaseOf(t)']
  BY <1>1
<1>4. [u \in Threads |-> ReadOf(u)'] = [[u \in Threads |-> ReadOf(u)] EXCEPT ![t] = ReadOf(t)']
  BY <1>1
<1>5. [u \in Threads |-> AnswerOf(u)'] = [[u \in Threads |-> AnswerOf(u)] EXCEPT ![t] = AnswerOf(t)']
  BY <1>1
<1> QED
  BY <1>2, <1>3, <1>4, <1>5, ShownIs

\* The steps of a thread inside of its call are not seen by the others, nor by itself.
LEMMA InsideIsStutter ==
  ASSUME NEW t \in Threads, \A u \in Threads \ {t} : Untouched(u),
         {pc[t], pc'[t]} \cap {"idle", "parsed"} = {},
         tree'[t] = tree[t], behind'[t] = behind[t]
  PROVE  UNCHANGED <<Phases, TextRead, Answers>>
<1>1. ASSUME NEW u \in Threads
      PROVE  PhaseOf(u)' = PhaseOf(u) /\ ReadOf(u)' = ReadOf(u) /\ AnswerOf(u)' = AnswerOf(u)
  <2>1. CASE u = t
    BY <2>1 DEF PhaseOf, ReadOf, AnswerOf, Text
  <2>2. CASE u # t
    BY <2>2 DEF Untouched, PhaseOf, ReadOf, AnswerOf, Text
  <2> QED
    BY <2>1, <2>2
<1>2. /\ Phases' = [u \in Threads |-> PhaseOf(u)']
      /\ TextRead' = [u \in Threads |-> ReadOf(u)']
      /\ Answers' = [u \in Threads |-> AnswerOf(u)']
  BY DEF Phases, TextRead, Answers, PhaseOf, ReadOf, AnswerOf, Text
<1> QED
  BY <1>1, <1>2, ShownIs

\* Getxattr reads, Unlock shows the parsed tree, Return ends the call.
LEMMA GetxattrReads == ASSUME IInv, NEW t \in Threads, Getxattr(t) PROVE Parser!Read(t)
<1>1. PICK value \in Trees, rest \in Leftovers :
        tree' = [tree EXCEPT ![t] = value] /\ behind' = [behind EXCEPT ![t] = rest]
  BY DEF Getxattr
<1>2. /\ pc[t] = "idle" /\ pc'[t] = "lock" /\ tree'[t] = value /\ behind'[t] = rest
  BY <1>1 DEF Getxattr, Goto, IInv, TypeInv
<1>3. \A u \in Threads \ {t} : Untouched(u)
  BY <1>1 DEF IInv, TypeInv, Getxattr, Goto, Untouched, splits
<1>4. /\ PhaseOf(t) = "idle" /\ PhaseOf(t)' = "reading"
      /\ ReadOf(t)' = tree_to_string(value) \o rest
      /\ AnswerOf(t) = <<>> /\ AnswerOf(t)' = <<>>
  BY <1>2 DEF PhaseOf, ReadOf, AnswerOf, Text
<1>5. tree_to_string(value) \o rest \in AllTexts
  BY DEF AllTexts
<1>6. /\ Phases' = [Phases EXCEPT ![t] = "reading"]
      /\ TextRead' = [TextRead EXCEPT ![t] = tree_to_string(value) \o rest]
      /\ Answers' = [Answers EXCEPT ![t] = <<>>]
  BY <1>3, <1>4, OneShown
<1>7. Answers' = Answers /\ Phases[t] = "idle"
  BY <1>4, <1>6, ShownIs
<1> QED
  BY <1>5, <1>6, <1>7 DEF Parser!Read

LEMMA UnlockParses == ASSUME IInv, NEW t \in Threads, Unlock(t) PROVE Parser!Parse(t)
<1>1. /\ pc[t] = "unlock" /\ pc'[t] = "parsed"
      /\ tree' = tree /\ behind' = behind /\ nodes' = nodes
  BY DEF Unlock, Goto, IInv, TypeInv
<1>2. \A u \in Threads \ {t} : Untouched(u)
  BY DEF IInv, TypeInv, Unlock, Goto, Untouched, splits
<1>3. Parser!NodesOf(Text(t)) = nodes[t]
  BY <1>1, NodesAre
<1>4. /\ PhaseOf(t) = "reading" /\ PhaseOf(t)' = "parsed"
      /\ ReadOf(t) = Text(t) /\ ReadOf(t)' = Text(t)
      /\ AnswerOf(t)' = nodes[t]
  BY <1>1 DEF PhaseOf, ReadOf, AnswerOf, Text
<1>5. /\ Phases' = [Phases EXCEPT ![t] = "parsed"]
      /\ TextRead' = [TextRead EXCEPT ![t] = Text(t)]
      /\ Answers' = [Answers EXCEPT ![t] = nodes[t]]
  BY <1>2, <1>4, OneShown
<1>6. TextRead' = TextRead /\ Phases[t] = "reading" /\ TextRead[t] = Text(t)
  BY <1>4, <1>5, ShownIs
<1>7. Answers' = [Answers EXCEPT ![t] = Parser!NodesOf(TextRead[t])]
  BY <1>3, <1>5, <1>6, Zenon
<1> QED
  BY <1>5, <1>6, <1>7 DEF Parser!Parse

LEMMA ReturnReturns == ASSUME IInv, NEW t \in Threads, Return(t) PROVE Parser!Return(t)
<1>1. pc[t] = "parsed" /\ pc'[t] = "idle"
  BY DEF Return, Goto, IInv, TypeInv
<1>2. \A u \in Threads \ {t} : Untouched(u)
  BY DEF IInv, TypeInv, Return, Goto, Untouched
<1>3. /\ PhaseOf(t) = "parsed" /\ PhaseOf(t)' = "idle"
      /\ ReadOf(t)' = <<>> /\ AnswerOf(t)' = <<>>
  BY <1>1 DEF PhaseOf, ReadOf, AnswerOf
<1>4. /\ Phases' = [Phases EXCEPT ![t] = "idle"]
      /\ TextRead' = [TextRead EXCEPT ![t] = <<>>]
      /\ Answers' = [Answers EXCEPT ![t] = <<>>]
  BY <1>2, <1>3, OneShown
<1>5. Phases[t] = "parsed"
  BY <1>3, ShownIs
<1> QED
  BY <1>4, <1>5 DEF Parser!Return

\* To the threads of bb_write string_to_tree is one step, taken when the mutex is released:
\* it gives the nodes of the text that the thread has read, whatever the others do.
THEOREM ImplementsParser == Spec => ImplementsTreeParser
<1>1. Init => Parser!Init
  <2> SUFFICES ASSUME Init PROVE Parser!Init
    OBVIOUS
  <2>1. \A t \in Threads : PhaseOf(t) = "idle" /\ ReadOf(t) = <<>> /\ AnswerOf(t) = <<>>
    BY DEF Init, PhaseOf, ReadOf, AnswerOf
  <2>2. /\ Phases = [t \in Threads |-> "idle"]
        /\ TextRead = [t \in Threads |-> <<>>] /\ Answers = [t \in Threads |-> <<>>]
    BY <2>1, ShownIs
  <2> QED
    BY <2>2 DEF Parser!Init
<1>2. IInv /\ [Next]_vars => [Parser!Next]_<<Phases, TextRead, Answers>>
  <2> SUFFICES ASSUME IInv, [Next]_vars
               PROVE  Parser!Next \/ UNCHANGED <<Phases, TextRead, Answers>>
    OBVIOUS
  <2>1. CASE UNCHANGED vars
    BY <2>1 DEF vars, splits, Phases, TextRead, Answers
  <2>2. ASSUME NEW t \in Threads, Getxattr(t) \/ Unlock(t) \/ Return(t) PROVE Parser!Next
    BY <2>2, GetxattrReads, UnlockParses, ReturnReturns DEF Parser!Next
  <2>3. ASSUME NEW t \in Threads,
               \/ Lock(t) \/ SplitText(t) \/ SplitToken(t) \/ NextToken(t) \/ TextSplit(t)
               \/ TokenSplit(t)
        PROVE  UNCHANGED <<Phases, TextRead, Answers>>
    <3>1. pc \in [Threads -> Parsing \cup {"idle", "lock", "parsed"}]
      BY DEF IInv, TypeInv
    <3>2. /\ pc[t] \notin {"idle", "parsed"} /\ pc'[t] \notin {"idle", "parsed"}
          /\ \A u \in Threads \ {t} : pc'[u] = pc[u]
          /\ tree' = tree /\ behind' = behind
      BY <2>3, <3>1 DEF Lock, SplitText, SplitToken, NextToken, TextSplit, TokenSplit, Goto
    <3>3. \A u \in Threads \ {t} : Untouched(u)
      BY <2>3, <3>2 DEF IInv, TypeInv, Lock, SplitText, SplitToken, NextToken, TextSplit,
                        TokenSplit, Split, splits, Untouched
    <3> QED
      BY <3>2, <3>3, InsideIsStutter
  <2> QED
    BY <2>1, <2>2, <2>3 DEF Next, Step, Quiet
<1>3. Parser!Spec <=> Parser!Init /\ [][Parser!Next]_<<Phases, TextRead, Answers>>
  BY DEF Parser!Spec
<1> QED
  BY <1>1, <1>2, <1>3, Invariance, PTL DEF Spec, ImplementsTreeParser
=============================================================================
