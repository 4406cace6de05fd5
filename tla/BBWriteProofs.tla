--------------------------- MODULE BBWriteProofs ---------------------------
(***************************************************************************)
(* For every number of writers, whatever they write and whatever fails:    *)
(* what bb_write stores is a Merkle tree, compare_trees finds what differs *)
(* in two trees of a file, and the variables keep their types (IInv).      *)
(*                                                                         *)
(* For careful use: only pages of calls that were lost have wrong leaves   *)
(* (DataInv); and when nothing fails, the attribute is the tree of its     *)
(* file, and bb_write implements FileIntegrity (IntegrityInv).             *)
(***************************************************************************)
EXTENDS BBWrite, TreeOpsProofs

IsSomeTree(hash) == \E h \in 1..MaxShift : IsTree(hash, h)

Labels == {"idle", "pwrite", "getxattr", "lock", "unlock", "quick_change", "pages_in_need",
           "m_compute", "compute_merkle", "setxattr", "free"}

\* The files and their attributes.
DiskInv ==
  /\ content \in [Paths -> Seq(Bytes)]
  /\ \A f \in Paths : Fits(Len(content[f]))
  /\ attr = [f \in Paths |-> attr[f]]
  /\ \A f \in Paths : HasTree(f) => IsSomeTree(attr[f])

\* The variables of the calls.
CallInv ==
  /\ pc \in [Writers -> Labels]
  /\ fpath \in [Writers -> Paths]
  /\ request \in [Writers -> Requests]
  /\ mt = [w \in Writers |-> mt[w]]
  /\ result = [w \in Writers |-> result[w]]
  /\ calls \in 0..MaxCalls

\* What result may point to: nothing, no tree, or a tree.
IsResult(r) == r = Null \/ r = <<>> \/ IsSomeTree(r)

\* A call works on a tree, once it has parsed it, and stores one.
TreeInv ==
  \A w \in Writers :
    /\ IsResult(result[w])
    /\ pc[w] \in {"lock", "unlock"} => mt[w] = NoTree \/ IsSomeTree(mt[w])
    /\ pc[w] \in {"quick_change", "pages_in_need"} => IsSomeTree(mt[w])
    /\ pc[w] = "setxattr" => IsSomeTree(result[w])

\* The mutex is held while string_to_tree runs, by one call.
LockInv ==
  /\ lock \in Writers \cup {Null}
  /\ \A w \in Writers : (lock = w) <=> (pc[w] = "unlock")

IInv == DiskInv /\ CallInv /\ TreeInv /\ LockInv

-----------------------------------------------------------------------------
\* A longer file has no fewer pages.
LEMMA PagesMono == \A m, n \in Nat : m <= n => PagesOf(m) <= PagesOf(n)
<1> SUFFICES ASSUME NEW m \in Nat, NEW n \in Nat, m <= n PROVE PagesOf(m) <= PagesOf(n)
  OBVIOUS
<1> DEFINE p == PagesOf(m)
           q == PagesOf(n)
<1>1. /\ PAGE_LENGTH \in Nat /\ PAGE_LENGTH > 0 /\ p \in Nat /\ q \in Nat
      /\ p > 0 => PAGE_LENGTH * (p - 1) < m
      /\ n <= PAGE_LENGTH * q
  BY PageArith, PageAssumption
<1> HIDE DEF p, q
<1>2. SUFFICES ASSUME q < p PROVE FALSE
  BY <1>1 DEF p, q
<1>3. p - 1 \in Nat /\ PAGE_LENGTH * (p - 1) < PAGE_LENGTH * q
  BY <1>1, <1>2, MulNat
<1>4. q < p - 1 => PAGE_LENGTH * q + PAGE_LENGTH <= PAGE_LENGTH * (p - 1)
  BY <1>1, <1>3, MulMono
<1>5. q # p - 1
  BY <1>1, <1>3, MulNat
<1> QED
  BY <1>1, <1>2, <1>3, <1>4, <1>5, MulNat

\* The number of pages of a file that fits is not larger than that of a longer one that does.
LEMMA FitsMono == \A m, n \in Nat : m <= n /\ Fits(n) => Fits(m)
<1> TAKE m, n \in Nat
<1>1. PagesOf(m) \in Nat /\ PagesOf(n) \in Nat /\ shl[MaxShift - 1] \in Nat
  BY PageArith, ShlType DEF MaxShift
<1> QED
  BY <1>1, PagesMono DEF Fits

\* The page of a request is one that a tree can have.
LEMMA RequestFits ==
  ASSUME NEW r \in Requests
  PROVE  /\ r.offset \in Nat /\ r.buf \in Seq(Bytes) /\ Len(r.buf) \in Nat /\ Len(r.buf) >= 1
         /\ Fits(r.offset + Len(r.buf))
         /\ r.offset \div PAGE_LENGTH < shl[MaxShift - 1]
<1>1. r.offset \in Nat /\ r.buf \in Seq(Bytes) /\ r.buf # <<>> /\ Fits(r.offset + Len(r.buf))
  BY WriteAssumption, FitsAssumption
<1>2. Len(r.buf) \in Nat /\ Len(r.buf) >= 1
  BY <1>1, EmptySeq
<1> DEFINE o == r.offset
           n == r.offset + Len(r.buf)
           q == o \div PAGE_LENGTH
           t == o % PAGE_LENGTH
           p == PagesOf(n)
           top == shl[MaxShift - 1]
<1>3. o \in Nat /\ n \in Nat /\ o < n /\ PAGE_LENGTH \in Nat /\ PAGE_LENGTH > 0
  BY <1>1, <1>2, PageAssumption
<1> HIDE DEF o, n
<1>4. p \in Nat /\ n <= PAGE_LENGTH * p
  BY <1>3, PageArith
<1>5. q \in Nat /\ o = PAGE_LENGTH * q + t /\ t \in 0..PAGE_LENGTH - 1
  BY <1>3, PageArith
<1>6. p <= top /\ top \in Nat
  BY <1>1, ShlType DEF Fits, MaxShift, n
<1> HIDE DEF p, q, t, top
<1>7. q < p
  <2>1. SUFFICES ASSUME p <= q PROVE FALSE
    BY <1>4, <1>5
  <2>2. p < q => PAGE_LENGTH * p + PAGE_LENGTH <= PAGE_LENGTH * q
    BY <1>3, <1>4, <1>5, MulMono
  <2>3. PAGE_LENGTH * p \in Nat /\ PAGE_LENGTH * q \in Nat
    BY <1>3, <1>4, <1>5, MulNat
  <2>4. PAGE_LENGTH * p <= PAGE_LENGTH * q
    BY <1>3, <1>4, <1>5, <2>1, <2>2, <2>3
  <2> QED
    BY <1>3, <1>4, <1>5, <2>3, <2>4
<1>8. q < top
  BY <1>4, <1>5, <1>6, <1>7
<1> QED
  BY <1>1, <1>2, <1>8 DEF q, o, top

\* pwrite leaves a file of bytes that fits.
LEMMA PatchType ==
  ASSUME NEW f \in Seq(Bytes), Fits(Len(f)), NEW r \in Requests, NEW n \in 0..Len(r.buf)
  PROVE  /\ Patch(f, r.offset, r.buf, n) \in Seq(Bytes) /\ Fits(Len(Patch(f, r.offset, r.buf, n)))
         /\ Len(Patch(f, r.offset, r.buf, n))
              = IF n > 0 /\ r.offset + n > Len(f) THEN r.offset + n ELSE Len(f)
         /\ \A x \in 1..Len(Patch(f, r.offset, r.buf, n)) :
              Patch(f, r.offset, r.buf, n)[x] = IF x - r.offset \in 1..n THEN r.buf[x - r.offset]
                                                ELSE IF x <= Len(f) THEN f[x] ELSE NUL
<1> DEFINE o == r.offset
           buf == r.buf
           len == IF n > 0 /\ o + n > Len(f) THEN o + n ELSE Len(f)
           g == [x \in 1..len |-> IF x - o \in 1..n THEN buf[x - o]
                                   ELSE IF x <= Len(f) THEN f[x] ELSE NUL]
<1>1. o \in Nat /\ buf \in Seq(Bytes) /\ Len(buf) \in Nat /\ Fits(o + Len(buf))
  BY RequestFits
<1>2. Patch(f, r.offset, r.buf, n) = g
  BY DEF Patch
<1> HIDE DEF o, buf
<1>3. len \in Nat /\ Fits(len)
  <2>1. CASE len = Len(f)
    BY <2>1
  <2>2. CASE len = o + n
    <3>1. o + n <= o + Len(buf) /\ o + n \in Nat /\ o + Len(buf) \in Nat
      BY <1>1 DEF buf
    <3> QED
      BY <1>1, <2>2, <3>1, FitsMono
  <2> QED
    BY <2>1, <2>2
<1> HIDE DEF len
<1>4. ASSUME NEW x \in 1..len PROVE g[x] \in Bytes
  <2>1. x - o \in 1..n => buf[x - o] \in Bytes
    BY <1>1 DEF buf
  <2>2. x <= Len(f) => f[x] \in Bytes
    BY <1>3
  <2> QED
    BY <2>1, <2>2, WriteAssumption
<1>5. g \in Seq(Bytes) /\ Len(g) = len
  <2>1. g = [x \in 1..len |-> g[x]]
    OBVIOUS
  <2> HIDE DEF g
  <2>2. g \in [1..len -> Bytes]
    BY <1>4, <2>1
  <2> QED
    BY <1>3, <2>2
<1>6. \A x \in 1..len : g[x] = IF x - o \in 1..n THEN buf[x - o]
                              ELSE IF x <= Len(f) THEN f[x] ELSE NUL
  OBVIOUS
<1> HIDE DEF g
<1> QED
  BY <1>2, <1>3, <1>5, <1>6 DEF len, o, buf

\* The tree of a file that fits.
LEMMA MerkleOf ==
  ASSUME NEW f \in Seq(Bytes), Fits(Len(f)), compute_merkle(f) # Null
  PROVE  IsSomeTree(compute_merkle(f))
BY MerkleTree DEF IsSomeTree, Fits

\* A tree has a node.
LEMMA TreeIsNotEmpty ==
  ASSUME NEW hash, IsSomeTree(hash)
  PROVE  hash # NoTree
<1>1. PICK h \in 1..MaxShift : IsTree(hash, h)
  BY DEF IsSomeTree
<1>2. 1 \in DOMAIN hash
  <2>1. h \in Nat /\ h >= 1
    OBVIOUS
  <2> QED
    BY <1>1, <2>1, NodesOf DEF IsTree
<1>3. DOMAIN <<>> = {}
  OBVIOUS
<1> QED
  BY <1>2, <1>3 DEF NoTree

-----------------------------------------------------------------------------
\* The invariant holds when the file system is mounted.
LEMMA InitInv == Init => IInv
<1> SUFFICES ASSUME Init PROVE IInv
  OBVIOUS
<1>1. content \in [Paths -> Seq(Bytes)] /\ \A f \in Paths : Fits(Len(content[f]))
  BY WriteAssumption, FitsAssumption DEF Init
<1>2. attr = [f \in Paths |-> attr[f]]
      /\ \A f \in Paths : attr[f] # Null => attr[f] = compute_merkle(content[f])
  BY DEF Init
<1>3. DiskInv
  <2>1. ASSUME NEW f \in Paths, attr[f] # Null PROVE IsSomeTree(attr[f])
    <3>1. content[f] \in Seq(Bytes) /\ Fits(Len(content[f]))
      BY <1>1
    <3>2. attr[f] = compute_merkle(content[f])
      BY <1>2, <2>1
    <3> QED
      BY <2>1, <3>1, <3>2, MerkleOf
  <2> QED
    BY <1>1, <1>2, <2>1 DEF DiskInv, HasTree
<1>4. AnyPath \in Paths /\ AnyRequest \in Requests
  BY WriteAssumption DEF AnyPath, AnyRequest
<1>5. CallInv
  BY <1>4, WriteAssumption DEF CallInv, Init, Labels
<1>6. TreeInv /\ LockInv
  BY WriteAssumption DEF TreeInv, LockInv, Init, IsResult
<1> QED
  BY <1>3, <1>5, <1>6 DEF IInv

\* The process ends in a state like the first one, but for the disk.
LEMMA DieInv ==
  ASSUME IInv, Die
  PROVE  IInv'
<1>1. AnyPath \in Paths /\ AnyRequest \in Requests
  BY WriteAssumption DEF AnyPath, AnyRequest
<1>2. DiskInv'
  BY DEF IInv, DiskInv, Die, disk, IsSomeTree, HasTree
<1>3. CallInv'
  BY <1>1 DEF IInv, CallInv, Die, Labels
<1>4. TreeInv' /\ LockInv'
  BY WriteAssumption DEF TreeInv, LockInv, Die, IsResult
<1> QED
  BY <1>2, <1>3, <1>4 DEF IInv

\* A step of one call that leaves the disk and the lock alone and goes on with the trees
\* that its next step needs.
LEMMA CallStep ==
  ASSUME IInv, NEW w \in Writers, NEW label \in Labels, Goto(w, label),
         UNCHANGED <<disk, lock>>, CallInv',
         \A v \in Writers \ {w} : mt'[v] = mt[v] /\ result'[v] = result[v],
         label = "lock" => mt'[w] = NoTree \/ IsSomeTree(mt'[w]),
         label \in {"quick_change", "pages_in_need"} => IsSomeTree(mt'[w]),
         label = "setxattr" => IsSomeTree(result'[w]), IsResult(result'[w]),
         label # "unlock", pc[w] # "unlock"
  PROVE  IInv'
<1>1. DiskInv'
  BY DEF IInv, DiskInv, disk, IsSomeTree, HasTree
<1>2. pc'[w] = label /\ \A v \in Writers \ {w} : pc'[v] = pc[v]
  BY DEF Goto, IInv, CallInv
<1>3. TreeInv'
  <2>1. ASSUME NEW v \in Writers
        PROVE  /\ IsResult(result'[v])
               /\ pc'[v] \in {"lock", "unlock"} => mt'[v] = NoTree \/ IsSomeTree(mt'[v])
               /\ pc'[v] \in {"quick_change", "pages_in_need"} => IsSomeTree(mt'[v])
               /\ pc'[v] = "setxattr" => IsSomeTree(result'[v])
    <3>1. CASE v = w
      BY <1>2, <3>1
    <3>2. CASE v # w
      <4>1. pc'[v] = pc[v] /\ mt'[v] = mt[v] /\ result'[v] = result[v]
        BY <1>2, <3>2
      <4> QED
        BY <4>1 DEF IInv, TreeInv
    <3> QED
      BY <3>1, <3>2
  <2> QED
    BY <2>1 DEF TreeInv, IsSomeTree, IsResult
<1>4. LockInv'
  BY <1>2 DEF IInv, LockInv
<1> QED
  BY <1>1, <1>3, <1>4 DEF IInv

\* A step on the disk that leaves the calls alone.
LEMMA DiskStep ==
  ASSUME IInv, UNCHANGED <<lock, pc, fpath, request, mt, result, calls>>, DiskInv'
  PROVE  IInv'
BY DEF IInv, CallInv, TreeInv, LockInv, IsSomeTree

\* Every step keeps the invariant.
LEMMA NextInv == IInv /\ [Next]_vars => IInv'
<1> SUFFICES ASSUME IInv, [Next]_vars PROVE IInv'
  OBVIOUS
<1>1. CASE \E w \in Writers : Start(w) \/ Step(w)
  <2>1. PICK w \in Writers : Start(w) \/ Step(w)
    BY <1>1
  <2>0. IsResult(result[w])
    BY DEF IInv, TreeInv
  <2>2. fpath[w] \in Paths /\ request[w] \in Requests
    BY DEF IInv, CallInv
  <2>3. content[fpath[w]] \in Seq(Bytes) /\ Fits(Len(content[fpath[w]]))
    BY <2>2 DEF IInv, DiskInv
  <2>4. CASE Start(w)
    <3>1. CallInv'
      BY <2>4, WriteAssumption DEF Start, Goto, IInv, CallInv, Labels
    <3> QED
      BY <2>4, <3>1, <2>0, CallStep DEF IsResult, Start, Labels
  <2>5. CASE Pwrite(w)
    <3>1. DiskInv'
      <4> DEFINE len == Len(request[w].buf)
      <4>0. PICK n \in IF "pwrite" \in Faults THEN 0..len ELSE {len} :
              content' = [content EXCEPT ![fpath[w]] =
                            Patch(content[fpath[w]], request[w].offset, request[w].buf, n)]
        BY <2>5 DEF Pwrite
      <4>1. n \in 0..len
        <5>1. len \in Nat
          BY <2>2, RequestFits
        <5> HIDE DEF len
        <5> QED
          BY <5>1
      <4> DEFINE new == Patch(content[fpath[w]], request[w].offset, request[w].buf, n)
      <4>2. new \in Seq(Bytes) /\ Fits(Len(new))
        BY <2>2, <2>3, <4>1, PatchType
      <4> HIDE DEF new
      <4>3. content' = [content EXCEPT ![fpath[w]] = new]
        BY <4>0 DEF new
      <4>4. attr' = attr
        BY <2>5 DEF Pwrite
      <4>5. content' \in [Paths -> Seq(Bytes)] /\ \A f \in Paths : Fits(Len(content'[f]))
        BY <2>2, <4>2, <4>3 DEF IInv, DiskInv
      <4> QED
        BY <4>4, <4>5 DEF IInv, DiskInv, IsSomeTree, HasTree
    <3>2. CallInv'
      BY <2>5 DEF Pwrite, Goto, IInv, CallInv, Labels
    <3>3. pc' = [pc EXCEPT ![w] = "getxattr"] /\ pc[w] = "pwrite" /\ UNCHANGED <<lock, mt, result>>
      BY <2>5 DEF Pwrite, Goto
    <3>4. TreeInv' /\ LockInv'
      BY <3>3 DEF IInv, TreeInv, LockInv, CallInv, IsSomeTree
    <3> QED
      BY <3>1, <3>2, <3>4 DEF IInv
  <2>6. CASE Getxattr(w)
    <3>1. PICK tree \in {attr[fpath[w]]} \cup {Null} :
            mt' = [mt EXCEPT ![w] = tree] /\ Goto(w, IF tree = Null THEN "m_compute" ELSE "lock")
      BY <2>6 DEF Getxattr
    <3>2. tree # Null => tree = NoTree \/ IsSomeTree(tree)
      BY <2>2, <3>1 DEF IInv, DiskInv, HasTree
    <3>3. mt'[w] = tree /\ \A v \in Writers \ {w} : mt'[v] = mt[v]
      BY <3>1 DEF IInv, CallInv
    <3>4. CallInv'
      BY <2>6, <3>1 DEF Getxattr, Goto, IInv, CallInv, Labels
    <3>5. CASE tree = Null
      BY <2>6, <3>1, <3>3, <3>4, <3>5, <2>0, CallStep DEF IsResult, Getxattr, Labels
    <3>6. CASE tree # Null
      BY <2>6, <3>1, <3>2, <3>3, <3>4, <3>6, <2>0, CallStep DEF IsResult, Getxattr, Labels
    <3> QED
      BY <3>5, <3>6
  <2>7. CASE Lock(w)
    <3>1. CallInv'
      BY <2>7 DEF Lock, Goto, IInv, CallInv, Labels
    <3>2. DiskInv' /\ TreeInv' /\ LockInv'
      BY <2>7, WriteAssumption
      DEF Lock, Goto, IInv, DiskInv, CallInv, TreeInv, LockInv, disk, IsSomeTree, HasTree
    <3> QED
      BY <3>1, <3>2 DEF IInv
  <2>8. CASE Unlock(w)
    <3>1. CASE Die
      BY <3>1, DieInv
    <3>2. CASE ~Die
      <4>1. /\ pc[w] = "unlock" /\ mt[w] # NoTree /\ lock' = Null
            /\ pc' = [pc EXCEPT ![w] = "quick_change"]
            /\ UNCHANGED <<disk, fpath, request, mt, result, calls>>
        BY <2>8, <3>2 DEF Unlock, Goto
      <4>2. IsSomeTree(mt[w])
        BY <4>1 DEF IInv, TreeInv
      <4>3. DiskInv' /\ CallInv'
        BY <4>1 DEF IInv, DiskInv, CallInv, Labels, disk, IsSomeTree, HasTree
      <4>4. TreeInv' /\ LockInv'
        BY <4>1, <4>2, WriteAssumption DEF IInv, TreeInv, LockInv, CallInv, IsSomeTree
      <4> QED
        BY <4>3, <4>4 DEF IInv
    <3> QED
      BY <3>1, <3>2
  <2>9. CASE QuickChange(w)
    <3>1. PICK tail \in BufTails :
            LET tree == quick_change(mt[w], request[w].offset, request[w].buf \o tail)
            IN  IF tree = Null
                THEN Goto(w, "pages_in_need") /\ UNCHANGED result
                ELSE Answer(w, tree) /\ Goto(w, "setxattr")
      BY <2>9 DEF QuickChange
    <3> DEFINE tree == quick_change(mt[w], request[w].offset, request[w].buf \o tail)
    <3>2. pc[w] = "quick_change" /\ UNCHANGED <<disk, lock, fpath, request, mt, calls>>
      BY <2>9 DEF QuickChange
    <3>3. PICK h \in 1..MaxShift : IsTree(mt[w], h)
      BY <3>2 DEF IInv, TreeInv, IsSomeTree
    <3>4. tree # Null => IsSomeTree(tree)
      BY <2>2, <3>3, RequestFits, QuickChangeTree DEF IsSomeTree
    <3> HIDE DEF tree
    <3>5. IF tree = Null
          THEN Goto(w, "pages_in_need") /\ UNCHANGED result
          ELSE Answer(w, tree) /\ Goto(w, "setxattr")
      BY <3>1 DEF tree
    <3>6. CASE tree = Null
      <4>1. CallInv'
        BY <3>2, <3>5, <3>6 DEF Goto, IInv, CallInv, Labels
      <4>2. IsSomeTree(mt'[w])
        BY <3>2, <3>3 DEF IsSomeTree
      <4> QED
        BY <3>2, <3>5, <3>6, <4>1, <4>2, <2>0, CallStep DEF IsResult, Labels
    <3>7. CASE tree # Null
      <4>1. CallInv'
        BY <3>2, <3>5, <3>7 DEF Goto, Answer, IInv, CallInv, Labels
      <4>2. result'[w] = tree /\ \A v \in Writers \ {w} : result'[v] = result[v]
        BY <3>5, <3>7 DEF Answer, IInv, CallInv
      <4> QED
        BY <3>2, <3>4, <3>5, <3>7, <4>1, <4>2, <2>0, CallStep DEF IsResult, Labels
    <3> QED
      BY <3>6, <3>7
  <2>10. CASE FopenFails(w)
    BY <2>10, DieInv DEF FopenFails
  <2>11. CASE PagesInNeed(w)
    <3> DEFINE f       == content[fpath[w]]
               r       == request[w]
               strings == ChangedPages(f, r.offset, Len(r.buf))
               tree    == UpdatePages(mt[w], r.offset, strings)
    <3>1. /\ pc[w] = "pages_in_need"
          /\ \/ /\ Goto(w, "compute_merkle")
                /\ UNCHANGED <<disk, lock, fpath, request, mt, result, calls>>
             \/ Die
             \/ /\ strings # Null
                /\ IF tree = Null
                   THEN Goto(w, "free") /\ UNCHANGED result
                   ELSE Answer(w, tree) /\ Goto(w, "setxattr")
                /\ UNCHANGED <<disk, lock, fpath, request, mt, calls>>
      BY <2>11 DEF PagesInNeed
    <3>2. PICK h \in 1..MaxShift : IsTree(mt[w], h)
      BY <3>1 DEF IInv, TreeInv, IsSomeTree
    <3>3. strings # Null /\ tree # Null => IsSomeTree(tree)
      <4>1. r.offset \in Nat /\ Len(r.buf) \in Nat /\ Len(r.buf) >= 1
        BY <2>2, RequestFits
      <4>2. strings # Null => Len(strings) \in Nat /\ Len(strings) >= 1
        BY <2>3, <4>1, ChangedPagesType
      <4> HIDE DEF strings
      <4> QED
        BY <3>2, <4>1, <4>2, UpdatePagesTree DEF IsSomeTree
    <3> HIDE DEF tree, strings
    <3>4. CASE /\ Goto(w, "compute_merkle")
               /\ UNCHANGED <<disk, lock, fpath, request, mt, result, calls>>
      <4>1. CallInv'
        BY <3>4 DEF Goto, IInv, CallInv, Labels
      <4> QED
        BY <3>1, <3>4, <4>1, <2>0, CallStep DEF IsResult, Labels
    <3>5. CASE /\ strings # Null /\ tree = Null
               /\ Goto(w, "free") /\ UNCHANGED result
               /\ UNCHANGED <<disk, lock, fpath, request, mt, calls>>
      <4>1. CallInv'
        BY <3>5 DEF Goto, IInv, CallInv, Labels
      <4> QED
        BY <3>1, <3>5, <4>1, <2>0, CallStep DEF IsResult, Labels
    <3>6. CASE /\ strings # Null /\ tree # Null
               /\ Answer(w, tree) /\ Goto(w, "setxattr")
               /\ UNCHANGED <<disk, lock, fpath, request, mt, calls>>
      <4>1. CallInv'
        BY <3>6 DEF Goto, Answer, IInv, CallInv, Labels
      <4>2. result'[w] = tree /\ \A v \in Writers \ {w} : result'[v] = result[v]
        BY <3>6 DEF Answer, IInv, CallInv
      <4> QED
        BY <3>1, <3>3, <3>6, <4>1, <4>2, <2>0, CallStep DEF IsResult, Labels
    <3> QED
      BY <3>1, <3>4, <3>5, <3>6, DieInv
  <2> DEFINE made == compute_merkle(content[fpath[w]])
  <2>12. made # Null => IsSomeTree(made)
    BY <2>3, MerkleOf
  <2> HIDE DEF made
  <2>13. CASE MComputeMerkle(w)
    <3>1. /\ pc[w] = "m_compute"
          /\ \/ /\ Goto(w, "compute_merkle")
                /\ UNCHANGED <<disk, lock, fpath, request, mt, result, calls>>
             \/ Die
             \/ /\ made # Null
                /\ Answer(w, made) /\ Goto(w, "setxattr")
                /\ UNCHANGED <<disk, lock, fpath, request, mt, calls>>
      BY <2>13 DEF MComputeMerkle, made
    <3>2. CASE /\ Goto(w, "compute_merkle")
               /\ UNCHANGED <<disk, lock, fpath, request, mt, result, calls>>
      <4>1. CallInv'
        BY <3>2 DEF Goto, IInv, CallInv, Labels
      <4> QED
        BY <3>1, <3>2, <4>1, <2>0, CallStep DEF IsResult, Labels
    <3>3. CASE /\ made # Null /\ Answer(w, made) /\ Goto(w, "setxattr")
               /\ UNCHANGED <<disk, lock, fpath, request, mt, calls>>
      <4>1. CallInv'
        BY <3>3 DEF Goto, Answer, IInv, CallInv, Labels
      <4>2. result'[w] = made /\ \A v \in Writers \ {w} : result'[v] = result[v]
        BY <3>3 DEF Answer, IInv, CallInv
      <4> QED
        BY <2>12, <3>1, <3>3, <4>1, <4>2, <2>0, CallStep DEF IsResult, Labels
    <3> QED
      BY <3>1, <3>2, <3>3, DieInv
  <2>14. CASE ComputeMerkle(w)
    <3>1. /\ pc[w] = "compute_merkle"
          /\ UNCHANGED <<disk, lock, fpath, request, mt, calls>>
          /\ \/ made = Null /\ Answer(w, <<>>) /\ Goto(w, "free")
             \/ made # Null /\ Answer(w, made) /\ Goto(w, "setxattr")
      BY <2>14 DEF ComputeMerkle, made
    <3>2. CASE made = Null /\ Answer(w, <<>>) /\ Goto(w, "free")
      <4>1. CallInv'
        BY <3>1, <3>2 DEF Goto, Answer, IInv, CallInv, Labels
      <4>2. result'[w] = <<>> /\ \A v \in Writers \ {w} : result'[v] = result[v]
        BY <3>2 DEF Answer, IInv, CallInv
      <4> QED
        BY <3>1, <3>2, <4>1, <4>2, <2>0, CallStep DEF IsResult, Labels
    <3>3. CASE made # Null /\ Answer(w, made) /\ Goto(w, "setxattr")
      <4>1. CallInv'
        BY <3>1, <3>3 DEF Goto, Answer, IInv, CallInv, Labels
      <4>2. result'[w] = made /\ \A v \in Writers \ {w} : result'[v] = result[v]
        BY <3>3 DEF Answer, IInv, CallInv
      <4> QED
        BY <2>12, <3>1, <3>3, <4>1, <4>2, <2>0, CallStep DEF IsResult, Labels
    <3> QED
      BY <3>1, <3>2, <3>3
  <2>15. CASE Setxattr(w)
    <3>1. /\ pc[w] = "setxattr" /\ pc' = [pc EXCEPT ![w] = "free"]
          /\ UNCHANGED <<content, lock, fpath, request, mt, result, calls>>
          /\ attr' = [attr EXCEPT ![fpath[w]] = result[w]] \/ UNCHANGED attr
      BY <2>15 DEF Setxattr, Goto
    <3>2. DiskInv'
      <4>1. IsSomeTree(result[w])
        BY <3>1 DEF IInv, TreeInv
      <4>2. \A f \in Paths : attr'[f] \notin {Null, NoTree} => IsSomeTree(attr'[f])
        BY <3>1, <4>1 DEF IInv, DiskInv, HasTree
      <4>3. attr' = [f \in Paths |-> attr'[f]]
        BY <3>1 DEF IInv, DiskInv
      <4> QED
        BY <3>1, <4>2, <4>3 DEF IInv, DiskInv, IsSomeTree, HasTree
    <3>3. CallInv'
      BY <3>1 DEF IInv, CallInv, Labels
    <3>4. TreeInv' /\ LockInv'
      BY <3>1 DEF IInv, TreeInv, LockInv, CallInv, IsSomeTree
    <3> QED
      BY <3>2, <3>3, <3>4 DEF IInv
  <2>16. CASE Free(w)
    <3>1. CASE Die
      BY <3>1, DieInv
    <3>2. CASE ~Die
      <4>1. /\ pc[w] = "free" /\ Goto(w, "idle")
            /\ fpath' = [fpath EXCEPT ![w] = AnyPath]
            /\ request' = [request EXCEPT ![w] = AnyRequest]
            /\ mt' = [mt EXCEPT ![w] = Null]
            /\ result' = [result EXCEPT ![w] = Null]
            /\ UNCHANGED <<disk, lock, calls>>
        BY <2>16, <3>2 DEF Free
      <4>2. AnyPath \in Paths /\ AnyRequest \in Requests
        BY WriteAssumption DEF AnyPath, AnyRequest
      <4>3. CallInv'
        BY <4>1, <4>2 DEF Goto, IInv, CallInv, Labels
      <4>4. \A v \in Writers \ {w} : mt'[v] = mt[v] /\ result'[v] = result[v]
        BY <4>1 DEF IInv, CallInv
      <4> QED
        BY <4>1, <4>3, <4>4, <2>0, CallStep DEF IsResult, Labels
    <3> QED
      BY <3>1, <3>2
  <2> QED
    BY <2>1, <2>4, <2>5, <2>6, <2>7, <2>8, <2>9, <2>10, <2>11, <2>13, <2>14, <2>15, <2>16
    DEF Step
<1>2. CASE Crash
  BY <1>2, DieInv DEF Crash
<1>3. CASE \E f \in Paths : Truncate(f) \/ Ftruncate(f)
  <2>1. PICK f \in Paths : Truncate(f)
    BY <1>3 DEF Ftruncate
  <2>2. PICK newsize \in NewSizes :
          content' = [content EXCEPT ![f] =
                        [x \in 1..newsize |-> IF x <= Len(@) THEN @[x] ELSE NUL]]
    BY <2>1 DEF Truncate
  <2> DEFINE old == content[f]
             new == [x \in 1..newsize |-> IF x <= Len(old) THEN old[x] ELSE NUL]
  <2>3. newsize \in Nat /\ Fits(newsize) /\ old \in Seq(Bytes) /\ NUL \in Bytes
    BY WriteAssumption, FitsAssumption DEF IInv, DiskInv
  <2>4. content' = [content EXCEPT ![f] = new]
    BY <2>2
  <2>5. new \in Seq(Bytes) /\ Len(new) = newsize
    <3> HIDE DEF old
    <3>1. \A x \in 1..newsize : x <= Len(old) => old[x] \in Bytes
      BY <2>3
    <3>2. new \in [1..newsize -> Bytes]
      BY <2>3, <3>1
    <3> HIDE DEF new
    <3> QED
      BY <2>3, <3>2
  <2> HIDE DEF new
  <2>6. DiskInv'
    <3>1. content' \in [Paths -> Seq(Bytes)] /\ \A g \in Paths : Fits(Len(content'[g]))
      BY <2>3, <2>4, <2>5 DEF IInv, DiskInv
    <3> QED
      BY <2>1, <3>1 DEF Truncate, IInv, DiskInv, IsSomeTree, HasTree
  <2> QED
    BY <2>1, <2>6, DiskStep DEF Truncate
<1>4. CASE \E f \in Paths : Removexattr(f)
  <2>1. PICK f \in Paths : Removexattr(f)
    BY <1>4
  <2>2. DiskInv'
    BY <2>1 DEF Removexattr, IInv, DiskInv, IsSomeTree, HasTree
  <2> QED
    BY <2>1, <2>2, DiskStep DEF Removexattr
<1>5. CASE \E f \in Paths : SetxattrByUser(f)
  <2>1. PICK f \in Paths : SetxattrByUser(f)
    BY <1>5
  <2>2. PICK tree \in {compute_merkle(g) : g \in Copied} \cup {NoTree} :
          attr' = [attr EXCEPT ![f] = tree] /\ content' = content
    BY <2>1 DEF SetxattrByUser
  <2>3. tree \notin {Null, NoTree} => IsSomeTree(tree)
    <3>1. \A g \in Copied : compute_merkle(g) # Null => IsSomeTree(compute_merkle(g))
      BY WriteAssumption, FitsAssumption, MerkleOf
    <3> QED
      BY <3>1
  <2>4. DiskInv'
    BY <2>2, <2>3 DEF IInv, DiskInv, IsSomeTree, HasTree
  <2> QED
    BY <2>1, <2>4, DiskStep DEF SetxattrByUser
<1>6. CASE Quiet \/ UNCHANGED vars
  <2>1. DiskInv' /\ UNCHANGED <<lock, pc, fpath, request, mt, result, calls>>
    BY <1>6 DEF Quiet, vars, IInv, DiskInv, IsSomeTree, HasTree
  <2> QED
    BY <2>1, DiskStep
<1> QED
  BY <1>1, <1>2, <1>3, <1>4, <1>5, <1>6 DEF Next

-----------------------------------------------------------------------------
(***************************************************************************)
(* compare_trees.  A node that differs hides behind equal ancestors only   *)
(* when hashes collide.                                                    *)
(***************************************************************************)

\* A digest has HASH_CHARS characters or more: "%x" makes one or two of each byte.
IsText(s)   == \E C : s \in Seq(C) /\ Len(s) >= HASH_CHARS
DigestTexts == HASH_CHARS \in Nat /\ \A s : IsText(Digest(s))

\* What a parent sees of the text of a node, and the strings its hash may be made of.
Half(n) == SubSeq(n.text, 1, HASH_CHARS)
ParentStrings(hash, x) == {Half(hash[2*x]) \o Half(hash[2*x + 1]) \o t : t \in Tails}

\* Two trees with the same nodes: texts that start alike are the same, and no two strings
\* that parents hash have the same digest.
NoCollision(a, b) ==
  /\ \A x \in DOMAIN a : Half(a[x]) = Half(b[x]) => a[x].text = b[x].text
  /\ \A x \in DOMAIN a : \A s \in ParentStrings(a, x), t \in ParentStrings(b, x) :
       Digest(s) = Digest(t) => s = t

\* Every node of a tree is the text of a digest.
LEMMA NodeTexts ==
  ASSUME NEW h \in Nat, h >= 1, NEW hash, IsTree(hash, h), NEW x \in Nodes(h)
  PROVE  \E s : hash[x] = Text(Digest(s))
<1> DEFINE N == shl[h] - 1
           S == {m \in Nat : \A y \in Nodes(h) : y > N - m => \E s : hash[y] = Text(Digest(s))}
<1>1. N \in Nat /\ Nodes(h) = 1..N
  BY NodesOf DEF Nodes
<1>2. 0 \in S
  BY <1>1
<1>3. ASSUME NEW m \in Nat, m \in S PROVE m + 1 \in S
  <2>1. SUFFICES ASSUME NEW y \in Nodes(h), y > N - (m + 1)
                 PROVE  \E s : hash[y] = Text(Digest(s))
    OBVIOUS
  <2>2. CASE y \in Leaves(h)
    BY <2>2 DEF IsTree, IsLeafHash, LeafHash
  <2>3. CASE y \in Interior(h)
    <3>1. 2*y \in Nodes(h) /\ 2*y + 1 \in Nodes(h) /\ y \in Nat \ {0}
      BY <2>3, NodesOf
    <3>2. 2*y > N - m /\ 2*y + 1 > N - m
      BY <1>1, <2>1, <3>1
    <3>3. (\E s : hash[2*y] = Text(Digest(s))) /\ (\E s : hash[2*y + 1] = Text(Digest(s)))
      BY <1>3, <3>1, <3>2
    <3>4. HasText(hash[2*y]) /\ HasText(hash[2*y + 1])
      BY <3>3 DEF HasText, Text
    <3>5. hash[y] \in NodeHashes(hash[2*y], hash[2*y + 1])
      BY <2>3 DEF IsTree
    <3> QED
      BY <3>4, <3>5 DEF NodeHashes
  <2> QED
    BY <2>2, <2>3, NodesOf
<1>4. N \in S
  <2> HIDE DEF S
  <2> QED
    BY <1>1, <1>2, <1>3, SetInduction
<1> QED
  BY <1>1, <1>4

\* The halves at the beginning of a string can be told from it.
LEMMA Parts ==
  ASSUME NEW C, NEW l \in Seq(C), NEW r \in Seq(C), NEW t \in Seq(C),
         NEW m \in Seq(C), NEW n \in Seq(C), NEW u \in Seq(C),
         Len(l) = Len(m), Len(r) = Len(n), l \o r \o t = m \o n \o u
  PROVE  l = m /\ r = n
<1> DEFINE lr == l \o r
           mn == m \o n
<1>1. /\ lr \in Seq(C) /\ Len(lr) = Len(l) + Len(r)
      /\ \A i \in 1..Len(lr) : lr[i] = IF i <= Len(l) THEN l[i] ELSE r[i - Len(l)]
  <2>1. lr \in Seq(C) /\ Len(lr) = Len(l) + Len(r)
    BY ConcatProperties
  <2> QED
    BY <2>1, ConcatProperties
<1>2. /\ mn \in Seq(C) /\ Len(mn) = Len(m) + Len(n)
      /\ \A i \in 1..Len(mn) : mn[i] = IF i <= Len(m) THEN m[i] ELSE n[i - Len(m)]
  BY ConcatProperties
<1>3. lr \o t = mn \o u
  OBVIOUS
<1> HIDE DEF lr, mn
<1>4. /\ \A i \in 1..Len(lr) : (lr \o t)[i] = lr[i]
      /\ \A i \in 1..Len(mn) : (mn \o u)[i] = mn[i]
  BY <1>1, <1>2, ConcatProperties
<1>5. Len(l) \in Nat /\ Len(r) \in Nat /\ Len(lr) = Len(mn)
  BY <1>1, <1>2
<1>6. \A i \in 1..Len(lr) : lr[i] = mn[i]
  BY <1>3, <1>4, <1>5
<1>7. ASSUME NEW i \in 1..Len(l) PROVE l[i] = m[i]
  BY <1>1, <1>2, <1>5, <1>6
<1>8. ASSUME NEW i \in 1..Len(r) PROVE r[i] = n[i]
  <2>1. i + Len(l) \in 1..Len(lr) /\ ~(i + Len(l) <= Len(l)) /\ (i + Len(l)) - Len(l) = i
    BY <1>1, <1>5
  <2> QED
    BY <1>1, <1>2, <1>5, <1>6, <2>1
<1> QED
  BY <1>7, <1>8, SeqEqual

\* The half of a text is a string of HASH_CHARS characters.
LEMMA HalfType ==
  ASSUME DigestTexts, NEW n, \E s : n = Text(Digest(s))
  PROVE  \E C : Half(n) \in Seq(C) /\ Len(Half(n)) = HASH_CHARS
<1>1. PICK s : n = Text(Digest(s))
  OBVIOUS
<1>2. n.text = Digest(s)
  BY <1>1 DEF Text
<1>3. PICK C : n.text \in Seq(C) /\ Len(n.text) >= HASH_CHARS
  BY <1>2 DEF DigestTexts, IsText
<1>4. HASH_CHARS \in Nat
  BY DEF DigestTexts
<1> DEFINE text == n.text
<1> HIDE DEF text
<1>5. text \in Seq(C) /\ Len(text) >= HASH_CHARS
  BY <1>3 DEF text
<1>6. \A i \in 1..HASH_CHARS : text[i] \in C
  BY <1>4, <1>5
<1>7. SubSeq(text, 1, HASH_CHARS) \in Seq(C) /\ Len(SubSeq(text, 1, HASH_CHARS)) = HASH_CHARS
  BY <1>4, <1>6, SubSeqProperties
<1> QED
  BY <1>7 DEF Half, text

\* A node that differs has a parent that differs.
LEMMA ParentDiffers ==
  ASSUME DigestTexts, NEW h \in Nat, h >= 1, NEW a, IsTree(a, h), NEW b, IsTree(b, h),
         NoCollision(a, b), NEW x \in Nodes(h) \ {1}, a[x] # b[x]
  PROVE  x \div 2 \in Interior(h) /\ a[x \div 2] # b[x \div 2]
<1> DEFINE y == x \div 2
<1>1. y \in Interior(h) /\ y \in Nat /\ (x = 2*y \/ x = 2*y + 1)
  <2>1. x \in 2 .. shl[h] - 1 /\ shl[h] = 2 * shl[h - 1] /\ shl[h - 1] \in Nat
    BY NodesOf DEF Nodes
  <2> QED
    BY <2>1 DEF Interior
<1>2. SUFFICES ASSUME a[y] = b[y] PROVE FALSE
  BY <1>1
<1> HIDE DEF y
<1>3. y \in Nodes(h) /\ 2*y \in Nodes(h) /\ 2*y + 1 \in Nodes(h)
  BY <1>1, NodesOf
<1>4. \A z \in Nodes(h) : (\E s : a[z] = Text(Digest(s))) /\ (\E s : b[z] = Text(Digest(s)))
  BY NodeTexts
<1>5. ASSUME NEW z \in Nodes(h) PROVE HasText(a[z]) /\ HasText(b[z])
  <2>1. PICK s : a[z] = Text(Digest(s))
    BY <1>4
  <2>2. PICK s2 : b[z] = Text(Digest(s2))
    BY <1>4
  <2> QED
    BY <2>1, <2>2 DEF HasText, Text
<1>6. PICK t \in Tails : a[y] = Text(Digest(Half(a[2*y]) \o Half(a[2*y + 1]) \o t))
  <2>1. a[y] \in NodeHashes(a[2*y], a[2*y + 1])
    BY <1>1 DEF IsTree
  <2> QED
    BY <1>3, <1>5, <2>1 DEF NodeHashes, Half
<1>7. PICK u \in Tails : b[y] = Text(Digest(Half(b[2*y]) \o Half(b[2*y + 1]) \o u))
  <2>1. b[y] \in NodeHashes(b[2*y], b[2*y + 1])
    BY <1>1 DEF IsTree
  <2> QED
    BY <1>3, <1>5, <2>1 DEF NodeHashes, Half
<1> DEFINE l == Half(a[2*y])
           r == Half(a[2*y + 1])
           m == Half(b[2*y])
           n == Half(b[2*y + 1])
<1>8. l \o r \o t = m \o n \o u
  <2>1. Digest(l \o r \o t) = Digest(m \o n \o u)
    <3>1. Text(Digest(l \o r \o t)) = Text(Digest(m \o n \o u))
      BY <1>2, <1>6, <1>7
    <3> QED
      BY <3>1 DEF Text
  <2>2. l \o r \o t \in ParentStrings(a, y) /\ m \o n \o u \in ParentStrings(b, y)
    BY DEF ParentStrings
  <2>3. y \in DOMAIN a
    BY <1>3 DEF IsTree
  <2> QED
    BY <2>1, <2>2, <2>3 DEF NoCollision
<1>9. PICK C1 : l \in Seq(C1) /\ Len(l) = HASH_CHARS
  BY <1>3, <1>4, HalfType
<1>10. PICK C2 : r \in Seq(C2) /\ Len(r) = HASH_CHARS
  BY <1>3, <1>4, HalfType
<1>11. PICK C3 : m \in Seq(C3) /\ Len(m) = HASH_CHARS
  BY <1>3, <1>4, HalfType
<1>12. PICK C4 : n \in Seq(C4) /\ Len(n) = HASH_CHARS
  BY <1>3, <1>4, HalfType
<1>13. t \in Seq(Bytes) /\ u \in Seq(Bytes)
  BY TailsAssumption
<1> HIDE DEF l, r, m, n
<1> DEFINE C == Bytes \cup C1 \cup C2 \cup C3 \cup C4
<1>14. l \in Seq(C) /\ r \in Seq(C) /\ m \in Seq(C) /\ n \in Seq(C) /\ t \in Seq(C) /\ u \in Seq(C)
  BY <1>9, <1>10, <1>11, <1>12, <1>13
<1> HIDE DEF C
<1>15. l = m /\ r = n
  <2>1. Len(l) = Len(m) /\ Len(r) = Len(n)
    BY <1>9, <1>10, <1>11, <1>12
  <2> QED
    BY ONLY <1>8, <1>14, <2>1, Parts
<1>16. Half(a[x]) = Half(b[x])
  BY <1>1, <1>15 DEF l, r, m, n
<1>17. a[x].text = b[x].text
  <2>1. x \in DOMAIN a
    BY DEF IsTree
  <2> QED
    BY <1>16, <2>1 DEF NoCollision
<1> QED
  <2>1. PICK s : a[x] = Text(Digest(s))
    BY <1>4
  <2>2. PICK s2 : b[x] = Text(Digest(s2))
    BY <1>4
  <2> QED
    BY <1>17, <2>1, <2>2 DEF Text

\* compare_trees gets to every node that differs.
LEMMA ComparesAll ==
  ASSUME DigestTexts, NEW h \in Nat, h >= 1, NEW a, IsTree(a, h), NEW b, IsTree(b, h),
         NoCollision(a, b)
  PROVE  \A x : x \in compare_trees(a, b, h) <=> x \in Nodes(h) /\ a[x] # b[x]
<1> DEFINE Goes(f, x) == x = 1 \/ (f[x \div 2] /\ a[x \div 2] # b[x \div 2] /\ x \div 2 < shl[h - 1])
           reached  == [x \in Nodes(h) |-> x = 1 \/ a[x \div 2] # b[x \div 2]]
           compared == CHOOSE f : f = [x \in Nodes(h) |-> Goes(f, x)]
<1>1. ASSUME NEW x \in Nodes(h) \ {1}, a[x] # b[x]
      PROVE  /\ a[x \div 2] # b[x \div 2] /\ x \div 2 < shl[h - 1]
             /\ x \div 2 \in Nat /\ x \div 2 < x /\ x \div 2 \in Nodes(h)
  <2>1. x \div 2 \in Interior(h) /\ a[x \div 2] # b[x \div 2]
    BY <1>1, ParentDiffers
  <2>2. x \in Nat \ {0} /\ x \div 2 \in Nodes(h) /\ shl[h - 1] \in Nat
    BY <2>1, NodesOf
  <2> QED
    BY <2>1, <2>2 DEF Interior
<1>2. reached = [x \in Nodes(h) |-> Goes(reached, x)]
  <2>1. ASSUME NEW x \in Nodes(h) PROVE reached[x] = Goes(reached, x)
    <3>1. CASE x = 1
      BY <3>1
    <3>2. CASE x # 1
      <4> DEFINE y == x \div 2
      <4>1. y \in Nodes(h) /\ y < shl[h - 1]
        <5>1. x \in 2 .. shl[h] - 1 /\ shl[h] = 2 * shl[h - 1] /\ shl[h - 1] \in Nat
          BY <3>2, NodesOf DEF Nodes
        <5> QED
          BY <5>1 DEF Nodes
      <4>2. a[y] # b[y] => y = 1 \/ a[y \div 2] # b[y \div 2]
        BY <1>1, <4>1
      <4>3. reached[x] <=> a[y] # b[y]
        BY <3>2
      <4>4. reached[y] <=> (y = 1 \/ a[y \div 2] # b[y \div 2])
        BY <4>1
      <4> QED
        BY <3>2, <4>1, <4>2, <4>3, <4>4
    <3> QED
      BY <3>1, <3>2
  <2> HIDE DEF Goes
  <2>2. reached = [x \in Nodes(h) |-> reached[x]]
    OBVIOUS
  <2> HIDE DEF reached
  <2> QED
    BY <2>1, <2>2
<1>3. compared = [x \in Nodes(h) |-> Goes(compared, x)]
  <2> HIDE DEF reached, Goes
  <2> QED
    BY <1>2
<1>4. compare_trees(a, b, h) = {x \in Nodes(h) : compared[x] /\ a[x] # b[x]}
  BY DEF compare_trees
<1> HIDE DEF compared
<1>5. \A x \in Nodes(h) : compared[x] = Goes(compared, x)
  <2> HIDE DEF Goes
  <2> QED
    BY <1>3
<1> DEFINE S == {m \in Nat : \A x \in Nodes(h) : x <= m /\ a[x] # b[x] => compared[x]}
<1>6. Nat \subseteq S
  <2>1. 0 \in S
    BY NodesOf
  <2>2. ASSUME NEW m \in Nat, m \in S PROVE m + 1 \in S
    <3>1. SUFFICES ASSUME NEW x \in Nodes(h), x <= m + 1, a[x] # b[x] PROVE compared[x]
      OBVIOUS
    <3>2. CASE x = 1
      BY <1>5, <3>2
    <3>3. CASE x # 1
      <4>1. /\ a[x \div 2] # b[x \div 2] /\ x \div 2 < shl[h - 1]
            /\ x \div 2 \in Nat /\ x \div 2 < x /\ x \div 2 \in Nodes(h) /\ x \in Nat
        BY <1>1, <3>1, <3>3, NodesOf
      <4>2. x \div 2 <= m
        BY <3>1, <4>1
      <4>3. compared[x \div 2]
        BY <2>2, <4>1, <4>2
      <4> QED
        BY <1>5, <4>1, <4>3
    <3> QED
      BY <3>2, <3>3
  <2> HIDE DEF S
  <2> QED
    BY <2>1, <2>2, SetInduction
<1>7. \A x \in Nodes(h) : a[x] # b[x] => compared[x]
  <2>1. \A x \in Nodes(h) : x \in Nat /\ x <= x
    BY NodesOf
  <2> QED
    BY <1>6, <2>1
<1> QED
  BY <1>4, <1>7

-----------------------------------------------------------------------------
\* In every reachable state.
LEMMA Invariance == Spec => []IInv
<1>1. Init => IInv
  BY InitInv
<1>2. IInv /\ [Next]_vars => IInv'
  BY NextInv
<1> QED
  BY <1>1, <1>2, PTL DEF Spec

\* The variables keep their types, and the tree in an attribute is complete: its height
\* can be told from the number of its nodes, as string_to_tree does.
THEOREM Types == Spec => []TypeOK
<1>1. IInv => TypeOK
  <2> SUFFICES ASSUME IInv PROVE TypeOK
    OBVIOUS
  <2>1. ASSUME NEW f \in Paths
        PROVE  /\ \A x \in 1..Len(content[f]) : content[f][x] \in Bytes
               /\ HasTree(f) => DOMAIN attr[f] = Nodes(HeightOfTree(attr[f]))
    <3>1. content[f] \in Seq(Bytes)
      BY DEF IInv, DiskInv
    <3>2. ASSUME HasTree(f) PROVE DOMAIN attr[f] = Nodes(HeightOfTree(attr[f]))
      <4>1. PICK h \in 1..MaxShift : IsTree(attr[f], h)
        BY <3>2 DEF IInv, DiskInv, IsSomeTree
      <4> QED
        BY <4>1, HeightIs
    <3> QED
      BY <3>1, <3>2
  <2> QED
    BY <2>1 DEF TypeOK, IInv, CallInv, LockInv
<1> QED
  BY <1>1, Invariance, PTL

\* However many threads write to however many files, whatever they write, and whatever
\* fails in between: the attribute "merkle" of a file holds a Merkle tree.
THEOREM StoredTrees == Spec => []AttributeIsMerkleTree
<1>1. IInv => AttributeIsMerkleTree
  <2> SUFFICES ASSUME IInv, NEW f \in Paths, HasTree(f) PROVE Consistent(attr[f])
    BY DEF AttributeIsMerkleTree
  <2>1. PICK h \in 1..MaxShift : IsTree(attr[f], h)
    BY DEF IInv, DiskInv, IsSomeTree
  <2> QED
    BY <2>1, HeightIs DEF Consistent, IsTree
<1> QED
  BY <1>1, Invariance, PTL

\* What compare_trees relies on: in the trees of a file, the stored one and those that calls
\* have made, no hashes collide.
NoCollisions ==
  \A f \in Paths, w \in Writers :
    HasTree(f) /\ result[w] # Null /\ DOMAIN attr[f] = DOMAIN result[w] =>
      NoCollision(attr[f], result[w])

\* compare_trees(a, b, 1) prints every node in which the stored tree and one that a call has
\* made differ, unless hashes collide: bb_write never leaves a node above a changed leaf
\* as it was.
THEOREM ComparisonFindsChanges ==
  ASSUME DigestTexts
  PROVE  Spec => [](NoCollisions => CompareFindsChanges)
<1>1. IInv => (NoCollisions => CompareFindsChanges)
  <2> SUFFICES ASSUME IInv, NoCollisions, NEW f \in Paths, NEW w \in Writers,
                      HasTree(f), result[w] # Null, DOMAIN attr[f] = DOMAIN result[w]
               PROVE  compare_trees(attr[f], result[w], HeightOfTree(attr[f]))
                        = {x \in DOMAIN attr[f] : attr[f][x] # result[w][x]}
    BY DEF CompareFindsChanges
  <2> DEFINE a == attr[f]
             b == result[w]
  <2>1. PICK h \in 1..MaxShift : IsTree(a, h)
    BY DEF IInv, DiskInv, IsSomeTree
  <2>2. HeightOfTree(a) = h /\ DOMAIN a = Nodes(h) /\ h \in Nat /\ h >= 1
    BY <2>1, HeightIs DEF MaxShift
  <2>3. b # <<>>
    <3>1. DOMAIN <<>> = {}
      OBVIOUS
    <3>2. 1 \in DOMAIN a
      BY <2>2, NodesOf
    <3> QED
      BY <3>1, <3>2
  <2>4. PICK g \in 1..MaxShift : IsTree(b, g)
    BY <2>3 DEF IInv, TreeInv, IsResult, IsSomeTree
  <2>5. NoCollision(a, b)
    BY DEF NoCollisions
  <2>6. HeightOfTree(a) = HeightOfTree(b)
    BY DEF HeightOfTree
  <2>7. IsTree(b, h)
    BY <2>2, <2>4, <2>6, HeightIs
  <2> HIDE DEF a, b
  <2>8. \A x : x \in compare_trees(a, b, h) <=> x \in Nodes(h) /\ a[x] # b[x]
    BY <2>1, <2>2, <2>5, <2>7, ComparesAll
  <2>9. compare_trees(a, b, h) = {x \in DOMAIN a : a[x] # b[x]}
    BY <2>2, <2>8
  <2> QED
    BY <2>2, <2>9 DEF a, b
<1> QED
  BY <1>1, Invariance, PTL

-----------------------------------------------------------------------------
(***************************************************************************)
(* What a write that bb_write can handle does to the pages of a text file. *)
(***************************************************************************)

\* A file has the pages that begin before its end.
LEMMA HasPage == \A n, k \in Nat : k < PagesOf(n) <=> PAGE_LENGTH * k < n
<1> SUFFICES ASSUME NEW n \in Nat, NEW k \in Nat PROVE k < PagesOf(n) <=> PAGE_LENGTH * k < n
  OBVIOUS
<1> DEFINE p == PagesOf(n)
<1>1. /\ PAGE_LENGTH \in Nat /\ PAGE_LENGTH > 0 /\ p \in Nat /\ n <= PAGE_LENGTH * p
      /\ p > 0 => PAGE_LENGTH * (p - 1) < n
  BY PageArith, PageAssumption
<1> HIDE DEF p
<1>2. PAGE_LENGTH * k \in Nat /\ PAGE_LENGTH * p \in Nat
  BY <1>1, MulNat
<1>3. k < p => PAGE_LENGTH * k < n
  <2>1. SUFFICES ASSUME k < p PROVE PAGE_LENGTH * k < n
    OBVIOUS
  <2>2. p - 1 \in Nat /\ p > 0 /\ (k < p - 1 \/ k = p - 1)
    BY <1>1, <2>1
  <2>3. k < p - 1 => PAGE_LENGTH * k + PAGE_LENGTH <= PAGE_LENGTH * (p - 1)
    BY <1>1, <2>2, MulMono
  <2>4. PAGE_LENGTH * (p - 1) \in Nat
    BY <1>1, <2>2, MulNat
  <2> QED
    BY <1>1, <1>2, <2>2, <2>3, <2>4
<1>4. p <= k => n <= PAGE_LENGTH * k
  <2>1. p < k => PAGE_LENGTH * p + PAGE_LENGTH <= PAGE_LENGTH * k
    BY <1>1, MulMono
  <2> QED
    BY <1>1, <1>2, <2>1
<1> QED
  BY <1>1, <1>2, <1>3, <1>4 DEF p

\* Where a request within one page lies.
LEMMA OnePage ==
  ASSUME NEW o \in Nat, NEW n \in Nat, n >= 1, FirstPage(o) = LastPage(o, n)
  PROVE  /\ FirstPage(o) \in Nat /\ PAGE_LENGTH * FirstPage(o) \in Nat
         /\ PAGE_LENGTH * FirstPage(o) <= o /\ o + n <= PAGE_LENGTH * FirstPage(o) + PAGE_LENGTH
         /\ is_full(o) <=> o = PAGE_LENGTH * FirstPage(o)
<1> DEFINE end == o + n
           p == o \div PAGE_LENGTH
           q == o % PAGE_LENGTH
           d == end \div PAGE_LENGTH
           r == end % PAGE_LENGTH
<1>1. PAGE_LENGTH \in Nat /\ PAGE_LENGTH > 0 /\ end \in Nat
  BY PageAssumption
<1>2. p \in Nat /\ o = PAGE_LENGTH * p + q /\ q \in 0..PAGE_LENGTH - 1
  BY PageArith
<1> HIDE DEF end
<1>3. d \in Nat /\ end = PAGE_LENGTH * d + r /\ r \in 0..PAGE_LENGTH - 1
  BY <1>1, PageArith
<1>4. FirstPage(o) = p /\ p = d - (IF r = 0 THEN 1 ELSE 0) /\ (is_full(o) <=> q = 0)
  BY DEF FirstPage, LastPage, is_full, end
<1> HIDE DEF p, q, d, r
<1>5. PAGE_LENGTH * p \in Nat
  BY <1>1, <1>2, MulNat
<1>6. end <= PAGE_LENGTH * p + PAGE_LENGTH
  <2>1. CASE r = 0
    <3>1. d = p + 1
      BY <1>2, <1>3, <1>4, <2>1
    <3>2. PAGE_LENGTH * (p + 1) = PAGE_LENGTH * p + PAGE_LENGTH
      BY <1>1, <1>2
    <3>3. PAGE_LENGTH * d = PAGE_LENGTH * p + PAGE_LENGTH
      BY <3>1, <3>2
    <3> QED
      BY <1>1, <1>3, <1>5, <2>1, <3>3
  <2>2. CASE r # 0
    <3>1. d = p
      BY <1>2, <1>3, <1>4, <2>2
    <3> QED
      BY <1>1, <1>3, <1>5, <3>1
  <2> QED
    BY <2>1, <2>2
<1> QED
  BY <1>1, <1>2, <1>4, <1>5, <1>6 DEF end

\* A page is the same in two files that agree on it and both reach its end, or end together.
LEMMA SamePage ==
  ASSUME NEW f \in Seq(Bytes), NEW g \in Seq(Bytes), NEW k \in Nat,
         k < PagesOf(Len(f)), k < PagesOf(Len(g)),
         \/ Len(f) = Len(g)
         \/ PAGE_LENGTH * k + PAGE_LENGTH <= Len(f) /\ PAGE_LENGTH * k + PAGE_LENGTH <= Len(g),
         \A x \in 1..Len(f) : PAGE_LENGTH * k < x /\ x <= PAGE_LENGTH * k + PAGE_LENGTH => g[x] = f[x]
  PROVE  PageBytes(g, k) = PageBytes(f, k)
<1> DEFINE s == PageBytes(f, k)
           t == PageBytes(g, k)
           a == k * PAGE_LENGTH
<1>1. a = PAGE_LENGTH * k /\ PAGE_LENGTH \in Nat /\ Len(f) \in Nat /\ Len(g) \in Nat
  BY PageAssumption
<1>2. /\ s \in Seq(Bytes) /\ a \in Nat /\ (k + 1) * PAGE_LENGTH = a + PAGE_LENGTH
      /\ Len(s) = IF a + PAGE_LENGTH <= Len(f) THEN PAGE_LENGTH ELSE Len(f) - a
      /\ \A x \in 1..Len(s) : a + x \in 1..Len(f) /\ s[x] = f[a + x]
  <2>1. /\ s \in Seq(Bytes) /\ a \in Nat /\ (k + 1) * PAGE_LENGTH = a + PAGE_LENGTH
        /\ Len(s) = IF (k + 1) * PAGE_LENGTH <= Len(f) THEN PAGE_LENGTH ELSE Len(f) - a
        /\ \A x \in 1..Len(s) : a + x \in 1..Len(f) /\ s[x] = f[a + x]
    BY PageLen
  <2> HIDE DEF s, a
  <2> QED
    BY <2>1
<1>3. /\ t \in Seq(Bytes)
      /\ Len(t) = IF a + PAGE_LENGTH <= Len(g) THEN PAGE_LENGTH ELSE Len(g) - a
      /\ \A x \in 1..Len(t) : a + x \in 1..Len(g) /\ t[x] = g[a + x]
  <2>1. /\ t \in Seq(Bytes)
        /\ Len(t) = IF (k + 1) * PAGE_LENGTH <= Len(g) THEN PAGE_LENGTH ELSE Len(g) - a
        /\ \A x \in 1..Len(t) : a + x \in 1..Len(g) /\ t[x] = g[a + x]
    BY PageLen
  <2> HIDE DEF t, a, s
  <2> QED
    BY <1>2, <2>1
<1>4. \A x \in 1..Len(f) : a < x /\ x <= a + PAGE_LENGTH => g[x] = f[x]
  BY <1>1
<1>5. Len(s) = Len(t) /\ Len(s) \in Nat /\ Len(s) <= PAGE_LENGTH
  <2> HIDE DEF s, t, a
  <2>1. \/ Len(f) = Len(g)
        \/ a + PAGE_LENGTH <= Len(f) /\ a + PAGE_LENGTH <= Len(g)
    BY <1>1
  <2> QED
    BY <1>1, <1>2, <1>3, <2>1
<1> HIDE DEF s, t, a
<1>6. \A x \in 1..Len(s) : t[x] = s[x]
  <2> TAKE x \in 1..Len(s)
  <2>1. a + x \in 1..Len(f) /\ s[x] = f[a + x] /\ t[x] = g[a + x]
    BY <1>2, <1>3, <1>5
  <2>2. a < a + x /\ a + x <= a + PAGE_LENGTH
    BY <1>1, <1>2, <1>5
  <2> QED
    BY <1>4, <2>1, <2>2
<1>7. s = t
  BY <1>2, <1>3, <1>5, <1>6, SeqEqual
<1> QED
  BY <1>7 DEF s, t

\* What is true of a file in which a request that bb_write can handle has been written.
Written(g, r) ==
  LET p == FirstPage(r.offset)
  IN  /\ g # <<>> /\ LastPage(r.offset, Len(r.buf)) = p /\ p < PagesOf(Len(g))
      /\ IF is_full(r.offset) THEN PageBytes(g, p) = r.buf
         ELSE ~is_full(Len(g)) /\ Len(g) \div PAGE_LENGTH = p

\* pwrite changes one page of a text file, which may be a new one.
LEMMA PatchPages ==
  ASSUME NEW f, IsTextFile(f), Fits(Len(f)), NEW r \in Requests, IsTextFile(r.buf),
         SafeRequest(f, r), NEW g, g = Patch(f, r.offset, r.buf, Len(r.buf))
  PROVE  /\ IsTextFile(g) /\ Written(g, r) /\ PagesOf(Len(f)) <= PagesOf(Len(g))
         /\ FirstPage(r.offset) <= PagesOf(Len(f))
         /\ ~is_full(r.offset) => FirstPage(r.offset) < PagesOf(Len(f))
         /\ \A k \in Nat : k # FirstPage(r.offset) /\ k < PagesOf(Len(g)) =>
              k < PagesOf(Len(f)) /\ PageBytes(g, k) = PageBytes(f, k)
<1> DEFINE o == r.offset
           buf == r.buf
           n == Len(buf)
           p == FirstPage(o)
           a == PAGE_LENGTH * p
           F == Len(f)
           G == Len(g)
<1>1. /\ f \in Seq(Bytes) /\ F \in Nat /\ o \in Nat /\ n \in Nat /\ n >= 1 /\ buf \in Seq(Bytes)
      /\ PAGE_LENGTH \in Nat /\ PAGE_LENGTH > 0
  BY RequestFits, PageAssumption DEF IsTextFile
<1>2. /\ g \in Seq(Bytes) /\ G \in Nat
      /\ G = IF o + n > F THEN o + n ELSE F
      /\ \A x \in 1..G : g[x] = IF x - o \in 1..n THEN buf[x - o]
                                ELSE IF x <= F THEN f[x] ELSE NUL
  <2>1. n \in 0..Len(r.buf) /\ n > 0
    BY <1>1
  <2>2. g = Patch(f, r.offset, r.buf, n)
    OBVIOUS
  <2> HIDE DEF n
  <2>3. /\ g \in Seq(Bytes)
        /\ G = IF n > 0 /\ o + n > F THEN o + n ELSE F
        /\ \A x \in 1..G : g[x] = IF x - o \in 1..n THEN buf[x - o]
                                  ELSE IF x <= F THEN f[x] ELSE NUL
    BY <1>1, <2>1, <2>2, PatchType
  <2> QED
    BY <1>1, <2>1, <2>3
<1>3. /\ o <= F /\ p = LastPage(o, n)
      /\ is_full(o) => n = PAGE_LENGTH \/ o + n >= F
      /\ ~is_full(o) => ~is_full(G) /\ G \div PAGE_LENGTH = p
  BY <1>2 DEF SafeRequest
<1>4. p \in Nat /\ a \in Nat /\ a <= o /\ o + n <= a + PAGE_LENGTH /\ (is_full(o) <=> o = a)
  BY <1>1, <1>3, OnePage
<1> HIDE DEF o, buf, n, p, a, F, G
<1>5. a < G /\ p < PagesOf(G)
  <2>1. a < G
    BY <1>1, <1>2, <1>3, <1>4
  <2> QED
    BY <1>2, <1>4, <2>1, HasPage DEF a
<1>6. IsTextFile(g)
  <2>1. ASSUME NEW x \in 1..G PROVE g[x] # NUL
    <3>1. CASE x - o \in 1..n
      BY <1>2, <3>1 DEF IsTextFile, buf, n
    <3>2. CASE ~(x - o \in 1..n)
      <4>1. x <= F /\ x \in 1..F
        BY <1>1, <1>2, <1>3, <3>2
      <4> QED
        BY <1>2, <3>2, <4>1 DEF IsTextFile, F
    <3> QED
      BY <3>1, <3>2
  <2> QED
    BY <1>2, <2>1 DEF IsTextFile, G
<1>7. PagesOf(F) <= PagesOf(G)
  BY <1>1, <1>2, PagesMono
<1>8. p <= PagesOf(F)
  <2>1. p # 0 => p - 1 \in Nat /\ PAGE_LENGTH * (p - 1) = a - PAGE_LENGTH
    BY <1>1, <1>4 DEF a
  <2>2. p # 0 => PAGE_LENGTH * (p - 1) < F
    BY <1>1, <1>3, <1>4, <2>1
  <2>3. p # 0 => p - 1 < PagesOf(F)
    BY <1>1, <2>1, <2>2, HasPage
  <2>4. PagesOf(F) \in Nat
    BY <1>1, PageArith
  <2> QED
    BY <1>4, <2>1, <2>3, <2>4
<1>9. ~is_full(o) => p < PagesOf(F)
  <2>1. ~is_full(o) => a < F
    BY <1>1, <1>3, <1>4
  <2> QED
    BY <1>1, <1>4, <2>1, HasPage DEF a
<1>10. ASSUME NEW k \in Nat, k # p, k < PagesOf(G)
       PROVE  k < PagesOf(F) /\ PageBytes(g, k) = PageBytes(f, k)
  <2> DEFINE b == PAGE_LENGTH * k
  <2>1. b \in Nat /\ b < G
    BY <1>1, <1>2, <1>10, MulNat, HasPage
  <2>2. (k < p => b + PAGE_LENGTH <= a) /\ (p < k => a + PAGE_LENGTH <= b)
    BY <1>1, <1>4, MulMono DEF a
  <2>3. k < p \/ p < k
    BY <1>4, <1>10
  <2> HIDE DEF b
  <2>4. b < F /\ (F = G \/ (b + PAGE_LENGTH <= F /\ b + PAGE_LENGTH <= G))
    <3>1. CASE k < p
      BY <1>1, <1>2, <1>3, <1>4, <2>1, <2>2, <3>1
    <3>2. CASE p < k
      <4>1. o + n < G
        BY <1>1, <1>2, <1>4, <2>1, <2>2, <3>2
      <4>2. G = F
        <5>1. o + n \in Nat /\ G \in Nat /\ (G = o + n \/ G = F)
          BY <1>1, <1>2
        <5> QED
          BY <4>1, <5>1
      <4> QED
        BY <2>1, <4>2
    <3> QED
      BY <2>3, <3>1, <3>2
  <2>5. k < PagesOf(F)
    BY <1>1, <2>4, HasPage DEF b
  <2>6. ASSUME NEW x \in 1..F, b < x, x <= b + PAGE_LENGTH PROVE g[x] = f[x]
    <3>1. x \in 1..G /\ ~(x - o \in 1..n) /\ x <= F
      BY <1>1, <1>2, <1>3, <1>4, <2>1, <2>2, <2>3, <2>6
    <3> QED
      BY <1>2, <3>1
  <2> QED
    BY <1>1, <1>2, <1>10, <2>4, <2>5, <2>6, SamePage DEF b, F, G
<1>11. is_full(o) => PageBytes(g, p) = buf
  <2>1. SUFFICES ASSUME is_full(o) PROVE PageBytes(g, p) = buf
    OBVIOUS
  <2> DEFINE t == PageBytes(g, p)
             c == p * PAGE_LENGTH
  <2>2. c = a
    BY <1>1, <1>4 DEF a
  <2>3. /\ t \in Seq(Bytes) /\ (p + 1) * PAGE_LENGTH = c + PAGE_LENGTH
        /\ Len(t) = IF (p + 1) * PAGE_LENGTH <= G THEN PAGE_LENGTH ELSE G - c
        /\ \A x \in 1..Len(t) : c + x \in 1..G /\ t[x] = g[c + x]
    BY <1>2, <1>4, <1>5, PageLen DEF G
  <2> HIDE DEF t, c
  <2>4. o = a /\ Len(t) = IF a + PAGE_LENGTH <= G THEN PAGE_LENGTH ELSE G - a
    BY <1>4, <2>1, <2>2, <2>3
  <2>5. Len(t) = n
    BY <1>1, <1>2, <1>3, <1>4, <1>5, <2>1, <2>4
  <2>6. ASSUME NEW x \in 1..n PROVE t[x] = buf[x]
    <3>1. a + x \in 1..G /\ t[x] = g[a + x]
      BY <2>2, <2>3, <2>5
    <3>2. (a + x) - o = x
      BY <1>1, <1>4, <2>4
    <3> QED
      BY <1>2, <3>1, <3>2
  <2>7. t = buf
    BY <1>1, <2>3, <2>5, <2>6, SeqEqual DEF n
  <2> QED
    BY <2>7 DEF t
<1>12. g # <<>>
  <2>1. Len(<<>>) = 0
    OBVIOUS
  <2> QED
    BY <1>2, <1>4, <1>5, <2>1 DEF G
<1>13. Written(g, r)
  BY <1>3, <1>5, <1>11, <1>12 DEF Written, o, buf, n, p, G
<1> QED
  BY <1>6, <1>7, <1>8, <1>9, <1>10, <1>13 DEF o, p, F, G

-----------------------------------------------------------------------------
\* A new leaf for page p of g.
LEMMA StaleAfter ==
  ASSUME NEW new, NEW old, LeafCount(new) \in Nat, LeafCount(old) \in Nat, NEW g, NEW p \in Nat,
         ChangesLeaf(new, old, p, PageBytes(g, p)), NEW S, Stale(old, g) \subseteq S
  PROVE  Stale(new, g) \subseteq S \ {p}
<1> SUFFICES ASSUME NEW k \in Stale(new, g) PROVE k \in S \ {p}
  OBVIOUS
<1>1. /\ k \in 0..PagesOf(Len(g)) - 1
      /\ k >= LeafCount(new) \/ Leaf(new, k) # LeafHash(PageBytes(g, k))
  BY DEF Stale, Leaf
<1>2. k \in Nat
  BY <1>1
<1>3. k # p
  BY <1>1 DEF ChangesLeaf
<1>4. k >= LeafCount(old) \/ Leaf(old, k) # LeafHash(PageBytes(g, k))
  BY <1>1, <1>2, <1>3 DEF ChangesLeaf
<1>5. k \in Stale(old, g)
  BY <1>1, <1>4 DEF Stale, Leaf
<1> QED
  BY <1>3, <1>5

\* A tree for a file of which page p has changed.
LEMMA StalePatch ==
  ASSUME NEW hash, NEW f, NEW g, NEW p \in Nat, NEW S, Stale(hash, f) \subseteq S,
         \A k \in Nat : k # p /\ k < PagesOf(Len(g)) =>
           k < PagesOf(Len(f)) /\ PageBytes(g, k) = PageBytes(f, k),
         PagesOf(Len(f)) \in Nat, PagesOf(Len(g)) \in Nat
  PROVE  Stale(hash, g) \subseteq S \cup {p}
<1> SUFFICES ASSUME NEW k \in Stale(hash, g), k # p PROVE k \in Stale(hash, f)
  OBVIOUS
<1>1. /\ k \in 0..PagesOf(Len(g)) - 1
      /\ k >= LeafCount(hash) \/ Leaf(hash, k) # LeafHash(PageBytes(g, k))
  BY DEF Stale, Leaf
<1>2. k \in Nat /\ k < PagesOf(Len(f)) /\ PageBytes(g, k) = PageBytes(f, k)
  BY <1>1
<1> QED
  BY <1>1, <1>2 DEF Stale, Leaf

\* A tree, and its leaves behind the pages of f are blank.
BlankBehind(hash, f) ==
  hash # NoTree /\ \A k \in PagesOf(Len(f))..LeafCount(hash) - 1 : Leaf(hash, k) = LeafHash(<<SPACE>>)

\* compute_merkle of a text file.
LEMMA MerkleData ==
  ASSUME NEW f, IsTextFile(f), f # <<>>, Fits(Len(f))
  PROVE  /\ IsSomeTree(compute_merkle(f)) /\ Stale(compute_merkle(f), f) = {}
         /\ BlankBehind(compute_merkle(f), f)
<1> DEFINE T == compute_merkle(f)
           P == PagesOf(Len(f))
<1>1. PICK h \in 1..MaxShift :
        /\ IsTree(T, h) /\ P \in Nat /\ P <= shl[h - 1]
        /\ \A k \in 0..shl[h - 1] - 1 : T[shl[h - 1] + k] = LeafHash(Page(f, k))
  BY MerkleText DEF Fits
<1>2. LeafCount(T) = shl[h - 1]
  BY <1>1, HeightIs
<1>3. shl[h - 1] \in Nat
  <2>1. h - 1 \in Nat
    OBVIOUS
  <2> QED
    BY <2>1, ShlType
<1> HIDE DEF T, P
<1>4. \A k \in 0..P - 1 : k < LeafCount(T) /\ Leaf(T, k) = LeafHash(PageBytes(f, k))
  BY <1>1, <1>2, <1>3 DEF Leaf, Page, P
<1>5. \A k \in P..LeafCount(T) - 1 : Leaf(T, k) = LeafHash(<<SPACE>>)
  BY <1>1, <1>2, <1>3 DEF Leaf, Page, P
<1>6. Stale(T, f) = {}
  <2>1. SUFFICES ASSUME NEW k \in Stale(T, f) PROVE FALSE
    OBVIOUS
  <2>2. /\ k \in 0..P - 1
        /\ k >= LeafCount(T) \/ Leaf(T, k) # LeafHash(PageBytes(f, k))
    BY <2>1 DEF Stale, Leaf, P
  <2> QED
    BY <1>2, <1>3, <1>4, <2>2
<1> QED
  <2>1. IsSomeTree(T)
    BY <1>1 DEF IsSomeTree
  <2> QED
    BY <1>5, <1>6, <2>1, TreeIsNotEmpty DEF BlankBehind, T, P

\* The number of leaves of a tree.
LEMMA LeafCountType ==
  ASSUME NEW hash, IsSomeTree(hash)
  PROVE  LeafCount(hash) \in Nat /\ LeafCount(hash) >= 1
<1>1. PICK h \in 1..MaxShift : IsTree(hash, h)
  BY DEF IsSomeTree
<1>2. h - 1 \in Nat
  OBVIOUS
<1> QED
  BY <1>1, <1>2, HeightIs, ShlType

-----------------------------------------------------------------------------
(***************************************************************************)
(* The invariant of careful use: one call per file at a time, text, and    *)
(* only requests that bb_write can handle.                                 *)
(***************************************************************************)

\* Where the file has the data of a call, and where the call has the tree it read.
HasWritten == {"getxattr", "lock", "unlock", "quick_change", "pages_in_need", "m_compute",
               "compute_merkle", "setxattr", "free"}
HasRead    == {"lock", "unlock", "quick_change", "pages_in_need"}

\* What call w knows of its file f, of which pages S are suspect.
CallData(w, f, S) ==
  LET r == request[w]
  IN  /\ pc[w] = "pwrite" => SafeRequest(f, r)
      /\ pc[w] \in HasWritten => Written(f, r)
      /\ pc[w] \in HasRead => Stale(mt[w], f) \subseteq S
      /\ pc[w] = "pages_in_need" /\ is_full(r.offset) => LeafCount(mt[w]) <= FirstPage(r.offset)
      /\ pc[w] = "setxattr" => Stale(result[w], f) \subseteq S \ Touched(r)

Alone ==
  \A v, w \in Writers : v # w /\ pc[v] # "idle" /\ pc[w] # "idle" => fpath[v] # fpath[w]

DataInv ==
  /\ \A f \in Paths : IsTextFile(content[f])
  /\ suspect = [f \in Paths |-> suspect[f]]
  /\ \A f \in Paths : attr[f] # Null => Stale(attr[f], content[f]) \subseteq suspect[f]
  /\ Alone
  /\ \A w \in Writers : CallData(w, content[fpath[w]], suspect[fpath[w]])

\* A step of one call changes nothing that the other calls know.
LEMMA DataStep ==
  ASSUME IInv, DataInv, NEW w \in Writers, NEW label, pc[w] # "idle", label # "idle",
         pc' = [pc EXCEPT ![w] = label], UNCHANGED <<fpath, request>>,
         \A v \in Writers \ {w} : mt'[v] = mt[v] /\ result'[v] = result[v],
         \A f \in Paths \ {fpath[w]} :
           content'[f] = content[f] /\ attr'[f] = attr[f] /\ suspect'[f] = suspect[f],
         suspect' = [f \in Paths |-> suspect'[f]],
         IsTextFile(content'[fpath[w]]),
         attr'[fpath[w]] # Null =>
           Stale(attr'[fpath[w]], content'[fpath[w]]) \subseteq suspect'[fpath[w]],
         CallData(w, content[fpath[w]], suspect[fpath[w]])'
  PROVE  DataInv'
<1>1. fpath \in [Writers -> Paths] /\ pc'[w] = label /\ \A v \in Writers \ {w} : pc'[v] = pc[v]
  BY DEF IInv, CallInv
<1>2. Alone'
  BY <1>1 DEF DataInv, Alone
<1>3. ASSUME NEW f \in Paths
      PROVE  IsTextFile(content'[f])
             /\ (attr'[f] # Null => Stale(attr'[f], content'[f]) \subseteq suspect'[f])
  <2>1. CASE f = fpath[w]
    BY <2>1
  <2>2. CASE f # fpath[w]
    BY <2>2 DEF DataInv
  <2> QED
    BY <2>1, <2>2
<1>4. ASSUME NEW v \in Writers PROVE CallData(v, content[fpath[v]], suspect[fpath[v]])'
  <2>1. CASE v = w
    BY <2>1
  <2>2. CASE v # w /\ pc[v] = "idle"
    BY <1>1, <2>2 DEF CallData, HasWritten, HasRead
  <2>3. CASE v # w /\ pc[v] # "idle"
    <3>1. fpath[v] # fpath[w] /\ fpath[v] \in Paths
      BY <1>1, <2>3 DEF DataInv, Alone
    <3>2. content'[fpath[v]] = content[fpath[v]] /\ suspect'[fpath[v]] = suspect[fpath[v]]
          /\ mt'[v] = mt[v] /\ result'[v] = result[v] /\ pc'[v] = pc[v]
          /\ fpath' = fpath /\ request' = request
      BY <1>1, <2>3, <3>1
    <3>3. CallData(v, content[fpath[v]], suspect[fpath[v]])
      BY DEF DataInv
    <3> QED
      BY <3>2, <3>3 DEF CallData
  <2> QED
    BY <2>1, <2>2, <2>3
<1> QED
  BY <1>2, <1>3, <1>4 DEF DataInv

-----------------------------------------------------------------------------
\* The use that bb_write is fit for: the kernel lets one call per file through at a time,
\* files and requests are text, the buffer is terminated, no write is cut short, files
\* are not truncated, and each request is one that bb_write can handle.
CarefulUse ==
  /\ PerFile /\ NewSizes = {} /\ "pwrite" \notin Faults
  /\ \A f \in OldFiles : IsTextFile(f)
  /\ \A r \in Requests : IsTextFile(r.buf)
  /\ \A t \in BufTails : Terminates(t)
  /\ \A f \in Seq(Bytes), r \in Requests : Supported(f, r) => SafeRequest(f, r)

\* NULL is not a tree.
NullIsNoTree == \A h, T : Null # [x \in Nodes(h) |-> T[x]]

LEMMA TreeIsNotNull ==
  ASSUME NullIsNoTree, NEW hash, IsSomeTree(hash)
  PROVE  hash # Null
BY DEF NullIsNoTree, IsSomeTree, IsTree

LEMMA DataInit ==
  ASSUME CarefulUse, Init
  PROVE  DataInv
<1>1. content \in [Paths -> OldFiles] /\ \A f \in Paths : IsTextFile(content[f])
  BY DEF CarefulUse, Init
<1>2. suspect = [f \in Paths |-> {}] /\ pc = [w \in Writers |-> "idle"]
  BY DEF Init
<1>3. ASSUME NEW f \in Paths, attr[f] # Null
      PROVE  Stale(attr[f], content[f]) \subseteq suspect[f]
  <2>1. attr[f] = compute_merkle(content[f]) /\ Fits(Len(content[f]))
    BY <1>1, <1>3, FitsAssumption DEF Init
  <2>2. content[f] # <<>>
    BY <1>3, <2>1 DEF compute_merkle
  <2>3. Stale(attr[f], content[f]) = {}
    BY <1>1, <2>1, <2>2, MerkleData
  <2> QED
    BY <2>3
<1>4. \A w \in Writers : CallData(w, content[fpath[w]], suspect[fpath[w]])
  BY <1>2 DEF CallData, HasWritten, HasRead
<1> QED
  BY <1>1, <1>2, <1>3, <1>4 DEF DataInv, Alone

LEMMA DataDie ==
  ASSUME IInv, DataInv, Die
  PROVE  DataInv'
<1>1. UNCHANGED <<content, attr, suspect>> /\ \A w \in Writers : pc'[w] = "idle"
  BY DEF Die, disk
<1>2. \A w \in Writers : CallData(w, content[fpath[w]], suspect[fpath[w]])'
  BY <1>1 DEF CallData, HasWritten, HasRead
<1> QED
  BY <1>1, <1>2 DEF DataInv, Alone

\* A step of a call that leaves the disk as it is.
LEMMA DataStepCall ==
  ASSUME IInv, DataInv, NEW w \in Writers, NEW label, pc[w] # "idle", label # "idle",
         Goto(w, label), UNCHANGED <<disk, suspect, fpath, request>>,
         \A v \in Writers \ {w} : mt'[v] = mt[v] /\ result'[v] = result[v],
         CallData(w, content[fpath[w]], suspect[fpath[w]])'
  PROVE  DataInv'
<1>1. fpath[w] \in Paths
  BY DEF IInv, CallInv
<1>2. IsTextFile(content'[fpath[w]])
      /\ (attr'[fpath[w]] # Null =>
            Stale(attr'[fpath[w]], content'[fpath[w]]) \subseteq suspect'[fpath[w]])
  BY <1>1 DEF DataInv, disk
<1>3. suspect' = [f \in Paths |-> suspect'[f]]
  BY DEF DataInv
<1> QED
  BY <1>2, <1>3, DataStep DEF Goto, disk

\* A buffer and what follows it.
LEMMA BufferText ==
  ASSUME CarefulUse, NEW r \in Requests, NEW tail \in BufTails
  PROVE  CStr(r.buf \o tail) = r.buf /\ r.buf \in Seq(Bytes) /\ r.buf # Null
<1>1. IsTextFile(r.buf) /\ Terminates(tail)
  BY DEF CarefulUse
<1>2. r.buf \in Seq(Bytes) /\ \A k \in 1..Len(r.buf) : r.buf[k] # NUL
  BY <1>1 DEF IsTextFile
<1>3. tail \in Seq(Bytes) /\ (tail # <<>> => tail[1] = NUL)
  BY <1>1 DEF Terminates
<1>4. CStr(r.buf \o tail) = r.buf
  BY <1>2, <1>3, CStrText
<1> QED
  BY <1>2, <1>4, NullAssumption

\* What quick_change answers a call.
LEMMA QuickChangeData ==
  ASSUME CarefulUse, NEW r \in Requests, NEW tail \in BufTails, NEW hash, IsSomeTree(hash),
         NEW f, Written(f, r), NEW tree, tree = quick_change(hash, r.offset, r.buf \o tail)
  PROVE  IF is_full(r.offset) /\ FirstPage(r.offset) < 2 * LeafCount(hash)
         THEN IsSomeTree(tree)
              /\ ChangesLeaf(tree, hash, FirstPage(r.offset), PageBytes(f, FirstPage(r.offset)))
         ELSE tree = Null
<1>1. PICK h \in 1..MaxShift : IsTree(hash, h)
  BY DEF IsSomeTree
<1>2. r.offset \in Nat /\ r.offset \div PAGE_LENGTH < shl[MaxShift - 1]
  BY RequestFits
<1> DEFINE s == r.buf \o tail
<1>3. CStr(s) = r.buf /\ CStr(s) # Null
  BY BufferText
<1>4. is_full(r.offset) => PageBytes(f, FirstPage(r.offset)) = r.buf
  BY DEF Written
<1> HIDE DEF s
<1>5. IF is_full(r.offset) /\ FirstPage(r.offset) < 2 * LeafCount(hash)
      THEN /\ \E g \in 1..MaxShift : IsTree(quick_change(hash, r.offset, s), g)
           /\ ChangesLeaf(quick_change(hash, r.offset, s), hash, FirstPage(r.offset), CStr(s))
      ELSE quick_change(hash, r.offset, s) = Null
  BY <1>1, <1>2, <1>3, QuickChangeLeaf
<1> QED
  BY <1>3, <1>4, <1>5 DEF IsSomeTree, s

\* What pages_in_need makes for a call in the middle of a page.
LEMMA PagesInNeedData ==
  ASSUME NEW r \in Requests, NEW hash, IsSomeTree(hash), NEW f, IsTextFile(f), Written(f, r),
         ~is_full(r.offset),
         NEW strings, strings = ChangedPages(f, r.offset, Len(r.buf)),
         NEW tree, tree = UpdatePages(hash, r.offset, strings)
  PROVE  /\ strings # Null
         /\ IF FirstPage(r.offset) < LeafCount(hash)
            THEN IsSomeTree(tree)
                 /\ ChangesLeaf(tree, hash, FirstPage(r.offset), PageBytes(f, FirstPage(r.offset)))
            ELSE tree = Null
<1>1. PICK h \in 1..MaxShift : IsTree(hash, h)
  BY DEF IsSomeTree
<1>2. r.offset \in Nat /\ Len(r.buf) \in Nat
  BY RequestFits
<1> DEFINE page == PageBytes(f, FirstPage(r.offset))
<1>3. strings = <<page>> /\ page \in Seq(Bytes)
  BY <1>2, ReadsLastPage DEF Written
<1>4. page # Null /\ strings \in Seq(Seq(Bytes))
  BY <1>3, NullAssumption
<1>5. strings # Null
  BY <1>4, NullAssumption
<1> HIDE DEF page
<1>6. tree = UpdatePages(hash, r.offset, <<page>>)
  BY <1>3
<1>7. IF FirstPage(r.offset) < LeafCount(hash)
      THEN IsTree(tree, h) /\ ChangesLeaf(tree, hash, FirstPage(r.offset), page)
      ELSE tree = Null
  BY <1>1, <1>2, <1>4, <1>6, UpdateOnePage
<1> QED
  BY <1>5, <1>7 DEF IsSomeTree, page

\* When the page of a call is full, pages_in_need is only reached for a page that the tree
\* does not have, and it does not make one.
LEMMA NoPageToUpdate ==
  ASSUME NEW r \in Requests, NEW hash, IsSomeTree(hash), LeafCount(hash) <= FirstPage(r.offset),
         NEW strings, strings \in Seq(Seq(Bytes)), Len(strings) >= 1
  PROVE  UpdatePages(hash, r.offset, strings) = Null
<1>1. PICK h \in 1..MaxShift : IsTree(hash, h)
  BY DEF IsSomeTree
<1>2. r.offset \in Nat /\ FirstPage(r.offset) \in Nat
  BY RequestFits, PageArith DEF FirstPage
<1>3. HeightOfTree(hash) = h /\ LeafCount(hash) = shl[h - 1] /\ h \in Nat /\ h >= 1
  <2>1. h \in Nat /\ h >= 1
    OBVIOUS
  <2> QED
    BY <1>1, <2>1, HeightIs
<1>4. shl[h - 1] \in Nat /\ shl[h] = 2 * shl[h - 1]
  BY <1>3, NodesOf
<1> DEFINE index == shl[h - 1] + FirstPage(r.offset)
           Run(l) == LET first == index \div shl[l]
                     IN  first .. first + RunLength(Len(strings), l) - 1
           nodes == {1} \cup UNION {Run(l) : l \in 0..h - 1}
           leaf  == WithData(h, index, strings)
<1>5. UpdatePages(hash, r.offset, strings) = Rehash(hash, leaf, h, nodes)
  BY <1>3 DEF UpdatePages, ChangeLeaves
<1>6. index \in Nat /\ index \notin Nodes(h)
  BY <1>2, <1>3, <1>4 DEF Nodes
<1>7. index \in nodes
  <2>1. Len(strings) \in Nat
    OBVIOUS
  <2>2. RunLength(Len(strings), 0) = Len(strings)
    BY <2>1, RunLengths
  <2>3. Run(0) = index .. index + Len(strings) - 1
    <3> HIDE DEF index
    <3>1. index \div shl[0] = index
      BY <1>6, ShlZero
    <3> QED
      BY <2>2, <3>1
  <2>4. index \in Run(0) /\ 0 \in 0..h - 1
    <3> HIDE DEF index, Run
    <3> QED
      BY <1>3, <1>6, <2>1, <2>3
  <2> HIDE DEF Run
  <2> QED
    BY <2>4
<1> HIDE DEF nodes, leaf, index
<1>8. Rehash(hash, leaf, h, nodes) = Null
  BY <1>6, <1>7 DEF Rehash
<1> QED
  BY <1>5, <1>8

\* The pages of a request that has been written.
LEMMA TouchedPage ==
  ASSUME NEW r \in Requests, NEW f, Written(f, r)
  PROVE  FirstPage(r.offset) \in Nat /\ Touched(r) = {FirstPage(r.offset)}
<1>1. FirstPage(r.offset) \in Nat
  BY RequestFits, PageArith DEF FirstPage
<1> QED
  BY <1>1 DEF Written, Touched

\* A step on the disk, on a file on which no call is running.
LEMMA DataDisk ==
  ASSUME IInv, DataInv, NEW f \in Paths, Active(f) = {},
         UNCHANGED <<content, pc, fpath, request, mt, result>>,
         \A g \in Paths \ {f} : attr'[g] = attr[g] /\ suspect'[g] = suspect[g],
         suspect' = [g \in Paths |-> suspect'[g]],
         attr'[f] # Null => Stale(attr'[f], content[f]) \subseteq suspect'[f]
  PROVE  DataInv'
<1>1. ASSUME NEW w \in Writers PROVE CallData(w, content[fpath[w]], suspect[fpath[w]])'
  <2>1. CASE pc[w] = "idle"
    BY <2>1 DEF CallData, HasWritten, HasRead
  <2>2. CASE pc[w] # "idle"
    <3>1. fpath[w] # f /\ fpath[w] \in Paths
      BY <2>2 DEF Active, IInv, CallInv
    <3>2. CallData(w, content[fpath[w]], suspect[fpath[w]])
      BY DEF DataInv
    <3> QED
      BY <3>1, <3>2 DEF CallData
  <2> QED
    BY <2>1, <2>2
<1>2. \A g \in Paths : attr'[g] # Null => Stale(attr'[g], content'[g]) \subseteq suspect'[g]
  BY DEF DataInv
<1> QED
  BY <1>1, <1>2 DEF DataInv, Alone

\* A call begins, or ends.
LEMMA DataStart ==
  ASSUME CarefulUse, IInv, DataInv, NEW w \in Writers, Start(w)
  PROVE  DataInv'
<1>1. PICK f \in Paths, r \in Requests :
        /\ Active(f) = {} /\ Supported(content[f], r)
        /\ fpath' = [fpath EXCEPT ![w] = f] /\ request' = [request EXCEPT ![w] = r]
  BY DEF Start, CarefulUse
<1>2. /\ pc' = [pc EXCEPT ![w] = "pwrite"]
      /\ UNCHANGED <<content, attr, mt, result, suspect>>
  BY DEF Start, Goto, disk
<1>3. /\ pc'[w] = "pwrite" /\ fpath'[w] = f /\ request'[w] = r
      /\ \A v \in Writers \ {w} : pc'[v] = pc[v] /\ fpath'[v] = fpath[v] /\ request'[v] = request[v]
  BY <1>1, <1>2 DEF IInv, CallInv
<1>4. SafeRequest(content[f], r)
  BY <1>1 DEF CarefulUse, IInv, DiskInv
<1>5. ASSUME NEW v \in Writers PROVE CallData(v, content[fpath[v]], suspect[fpath[v]])'
  <2>1. CASE v = w
    BY <1>2, <1>3, <1>4, <2>1 DEF CallData, HasWritten, HasRead
  <2>2. CASE v # w
    BY <1>2, <1>3, <2>2 DEF DataInv, CallData
  <2> QED
    BY <2>1, <2>2
<1>6. Alone'
  <2>1. \A v \in Writers : pc[v] # "idle" => fpath[v] # f
    BY <1>1 DEF Active
  <2> QED
    BY <1>3, <2>1 DEF DataInv, Alone
<1> QED
  BY <1>2, <1>5, <1>6 DEF DataInv

LEMMA DataFree ==
  ASSUME CarefulUse, IInv, DataInv, NEW w \in Writers, Free(w)
  PROVE  DataInv'
<1>1. CASE Die
  BY <1>1, DataDie
<1>2. CASE ~Die
  <2>1. /\ pc' = [pc EXCEPT ![w] = "idle"] /\ UNCHANGED <<content, attr, suspect>>
        /\ fpath' = [fpath EXCEPT ![w] = AnyPath] /\ request' = [request EXCEPT ![w] = AnyRequest]
        /\ mt' = [mt EXCEPT ![w] = Null] /\ result' = [result EXCEPT ![w] = Null]
    BY <1>2 DEF Free, Goto, disk
  <2>2. /\ pc'[w] = "idle"
        /\ \A v \in Writers \ {w} : /\ pc'[v] = pc[v] /\ fpath'[v] = fpath[v]
                                    /\ request'[v] = request[v] /\ mt'[v] = mt[v]
                                    /\ result'[v] = result[v]
    BY <2>1 DEF IInv, CallInv
  <2>3. ASSUME NEW v \in Writers PROVE CallData(v, content[fpath[v]], suspect[fpath[v]])'
    <3>1. CASE v = w
      BY <2>2, <3>1 DEF CallData, HasWritten, HasRead
    <3>2. CASE v # w
      BY <2>1, <2>2, <3>2 DEF DataInv, CallData
    <3> QED
      BY <3>1, <3>2
  <2>4. Alone'
    BY <2>2 DEF DataInv, Alone
  <2> QED
    BY <2>1, <2>3, <2>4 DEF DataInv
<1> QED
  BY <1>1, <1>2

\* What a call knows when it has made its tree, or has none to store.
LEMMA DataAnswer ==
  ASSUME IInv, DataInv, NEW w \in Writers, pc[w] \in HasWritten,
         NEW tree, NEW label, UNCHANGED <<disk, suspect, fpath, request, mt>>, Goto(w, label),
         \/ label \in {"compute_merkle", "m_compute", "free"}
            /\ (UNCHANGED result \/ Answer(w, tree))
         \/ /\ label = "setxattr" /\ Answer(w, tree)
            /\ Stale(tree, content[fpath[w]]) \subseteq suspect[fpath[w]] \ Touched(request[w])
  PROVE  DataInv'
<1>1. pc[w] # "idle" /\ label # "idle"
  BY DEF HasWritten
<1>2. pc'[w] = label /\ \A v \in Writers \ {w} : mt'[v] = mt[v] /\ result'[v] = result[v]
  BY DEF Goto, Answer, IInv, CallInv
<1>3. CallData(w, content[fpath[w]], suspect[fpath[w]])
  BY DEF DataInv
<1>4. Written(content[fpath[w]], request[w])
  BY <1>3 DEF CallData
<1>5. label = "setxattr" => result'[w] = tree
  BY DEF Answer, IInv, CallInv
<1>6. CallData(w, content[fpath[w]], suspect[fpath[w]])'
  BY <1>2, <1>4, <1>5 DEF CallData, HasWritten, HasRead, disk
<1> QED
  BY <1>1, <1>2, <1>6, DataStepCall

\* Every other step of a call.
LEMMA DataCall ==
  ASSUME CarefulUse, NullIsNoTree, IInv, DataInv, NEW w \in Writers, Step(w)
  PROVE  DataInv'
<1> DEFINE f == fpath[w]
           g == content[f]
           r == request[w]
           S == suspect[f]
           p == FirstPage(r.offset)
<1>1. f \in Paths /\ r \in Requests /\ g \in Seq(Bytes) /\ Fits(Len(g)) /\ IsTextFile(g)
  BY DEF IInv, CallInv, DiskInv, DataInv
<1>2. CallData(w, g, S)
  BY DEF DataInv
<1>3. pc[w] \in HasWritten => Written(g, r) /\ p \in Nat /\ Touched(r) = {p} /\ g # <<>>
  <2>1. pc[w] \in HasWritten => Written(g, r)
    BY <1>2 DEF CallData
  <2>2. Written(g, r) => g # <<>>
    BY DEF Written
  <2> HIDE DEF g, r
  <2> QED
    BY <1>1, <2>1, <2>2, TouchedPage
<1>4. /\ pc[w] \in HasRead => Stale(mt[w], g) \subseteq S
      /\ pc[w] \in {"quick_change", "pages_in_need"} => IsSomeTree(mt[w])
  BY <1>2 DEF CallData, HasRead, IInv, TreeInv
<1>5. CASE Pwrite(w)
  <2> DEFINE new == Patch(g, r.offset, r.buf, Len(r.buf))
  <2>1. /\ pc[w] = "pwrite" /\ pc' = [pc EXCEPT ![w] = "getxattr"]
        /\ content' = [content EXCEPT ![f] = new]
        /\ suspect' = [suspect EXCEPT ![f] = @ \cup Touched(r)]
        /\ UNCHANGED <<attr, fpath, request, mt, result>>
    BY <1>5 DEF Pwrite, Goto, CarefulUse
  <2>2. SafeRequest(g, r) /\ IsTextFile(r.buf)
    BY <1>1, <1>2, <2>1 DEF CallData, CarefulUse
  <2>3. /\ IsTextFile(new) /\ Written(new, r)
        /\ \A k \in Nat : k # p /\ k < PagesOf(Len(new)) =>
             k < PagesOf(Len(g)) /\ PageBytes(new, k) = PageBytes(g, k)
    BY <1>1, <2>2, PatchPages
  <2> HIDE DEF new
  <2>4. p \in Nat /\ Touched(r) = {p}
    BY <1>1, <2>3, TouchedPage
  <2>5. content'[f] = new /\ suspect'[f] = S \cup {p} /\ attr'[f] = attr[f]
    BY <1>1, <2>1, <2>4 DEF IInv, DiskInv, DataInv
  <2>6. attr[f] # Null => Stale(attr[f], new) \subseteq S \cup {p}
    <3>1. PagesOf(Len(g)) \in Nat /\ PagesOf(Len(new)) \in Nat
      <4>1. Len(g) \in Nat /\ Len(new) \in Nat
        BY <1>1, <2>3 DEF IsTextFile
      <4> QED
        BY <4>1, PageArith
    <3>2. attr[f] # Null => Stale(attr[f], g) \subseteq S
      BY <1>1 DEF DataInv
    <3> HIDE DEF g, S, p
    <3> QED
      BY <2>3, <2>4, <3>1, <3>2, StalePatch
  <2>7. pc'[w] = "getxattr"
    BY <2>1 DEF IInv, CallInv
  <2>8. CallData(w, content[fpath[w]], suspect[fpath[w]])'
    BY <2>1, <2>3, <2>5, <2>7 DEF CallData, HasWritten, HasRead
  <2>9. \A e \in Paths \ {f} : content'[e] = content[e] /\ attr'[e] = attr[e] /\ suspect'[e] = suspect[e]
    BY <2>1 DEF IInv, DiskInv, DataInv
  <2>10. suspect' = [e \in Paths |-> suspect'[e]]
    BY <2>1 DEF DataInv
  <2> QED
    BY <2>1, <2>3, <2>5, <2>6, <2>8, <2>9, <2>10, DataStep
<1>6. CASE Getxattr(w)
  <2>1. PICK tree \in {attr[f]} \cup {Null} :
          mt' = [mt EXCEPT ![w] = tree] /\ Goto(w, IF tree = Null THEN "m_compute" ELSE "lock")
    BY <1>6 DEF Getxattr
  <2>2. pc[w] = "getxattr" /\ UNCHANGED <<disk, suspect, fpath, request, result>>
    BY <1>6 DEF Getxattr
  <2>3. /\ mt'[w] = tree /\ \A v \in Writers \ {w} : mt'[v] = mt[v]
        /\ pc'[w] = IF tree = Null THEN "m_compute" ELSE "lock"
    BY <2>1 DEF Goto, IInv, CallInv
  <2>4. tree # Null => Stale(tree, g) \subseteq S
    BY <1>1, <2>1 DEF DataInv
  <2>5. CallData(w, content[fpath[w]], suspect[fpath[w]])'
    BY <1>3, <2>2, <2>3, <2>4 DEF CallData, HasWritten, HasRead, disk
  <2> HIDE DEF f
  <2> QED
    BY <2>1, <2>2, <2>3, <2>5, DataStepCall
<1>7. CASE (Lock(w) \/ Unlock(w)) /\ ~Die
  <2>1. PICK label \in {"unlock", "quick_change"} :
          Goto(w, label) /\ pc[w] \in HasRead
          /\ UNCHANGED <<disk, suspect, fpath, request, mt, result>>
    BY <1>7 DEF Lock, Unlock, HasRead
  <2>2. pc'[w] = label
    BY <2>1 DEF Goto, IInv, CallInv
  <2>3. CallData(w, content[fpath[w]], suspect[fpath[w]])'
    BY <1>2, <1>3, <1>4, <2>1, <2>2 DEF CallData, HasWritten, HasRead, disk
  <2>4. pc[w] # "idle" /\ label # "idle"
    BY <2>1 DEF HasRead
  <2> QED
    BY <2>1, <2>3, <2>4, DataStepCall
<1>8. CASE QuickChange(w)
  <2>1. PICK tail \in BufTails :
          LET tree == quick_change(mt[w], request[w].offset, request[w].buf \o tail)
          IN  IF tree = Null
              THEN Goto(w, "pages_in_need") /\ UNCHANGED result
              ELSE Answer(w, tree) /\ Goto(w, "setxattr")
    BY <1>8 DEF QuickChange
  <2> DEFINE tree == quick_change(mt[w], r.offset, r.buf \o tail)
  <2>2. pc[w] = "quick_change" /\ UNCHANGED <<disk, suspect, fpath, request, mt>>
    BY <1>8 DEF QuickChange
  <2>3. IsSomeTree(mt[w]) /\ Stale(mt[w], g) \subseteq S /\ Written(g, r) /\ p \in Nat
        /\ Touched(r) = {p}
    BY <1>3, <1>4, <2>2 DEF HasRead, HasWritten
  <2>4. IF is_full(r.offset) /\ p < 2 * LeafCount(mt[w])
        THEN IsSomeTree(tree) /\ ChangesLeaf(tree, mt[w], p, PageBytes(g, p))
        ELSE tree = Null
    BY <1>1, <2>3, QuickChangeData
  <2> HIDE DEF tree
  <2>5. IF tree = Null THEN Goto(w, "pages_in_need") /\ UNCHANGED result
        ELSE Answer(w, tree) /\ Goto(w, "setxattr")
    BY <2>1 DEF tree
  <2>6. CASE tree = Null
    <3>1. is_full(r.offset) => LeafCount(mt[w]) <= p
      <4>1. IsSomeTree(tree) => tree # Null
        BY TreeIsNotNull
      <4>2. LeafCount(mt[w]) \in Nat
        BY <2>3, LeafCountType
      <4> HIDE DEF p, r
      <4> QED
        BY <2>3, <2>4, <2>6, <4>1, <4>2
    <3>2. pc'[w] = "pages_in_need" /\ UNCHANGED result
      BY <2>5, <2>6 DEF Goto, IInv, CallInv
    <3>3. CallData(w, content[fpath[w]], suspect[fpath[w]])'
      BY <2>2, <2>3, <3>1, <3>2 DEF CallData, HasWritten, HasRead, disk
    <3> QED
      BY <2>2, <2>5, <2>6, <3>2, <3>3, DataStepCall
  <2>7. CASE tree # Null
    <3>1. Stale(tree, g) \subseteq S \ Touched(r)
      <4>1. IsSomeTree(tree) /\ ChangesLeaf(tree, mt[w], p, PageBytes(g, p))
        BY <2>4, <2>7
      <4>2. LeafCount(tree) \in Nat /\ LeafCount(mt[w]) \in Nat
        BY <2>3, <4>1, LeafCountType
      <4> HIDE DEF p, g, S
      <4> QED
        BY <2>3, <4>1, <4>2, StaleAfter
    <3>2. pc[w] \in HasWritten
      BY <2>2 DEF HasWritten
    <3> QED
      BY <2>2, <2>5, <2>7, <3>1, <3>2, DataAnswer
  <2> QED
    BY <2>6, <2>7
<1>9. CASE FopenFails(w)
  BY <1>9, DataDie DEF FopenFails
<1>10. CASE PagesInNeed(w)
  <2> DEFINE strings == ChangedPages(g, r.offset, Len(r.buf))
             tree    == UpdatePages(mt[w], r.offset, strings)
  <2>1. /\ pc[w] = "pages_in_need"
        /\ \/ /\ Goto(w, "compute_merkle")
              /\ UNCHANGED <<disk, lock, fpath, request, mt, result, calls, suspect>>
           \/ Die
           \/ /\ strings # Null
              /\ IF tree = Null
                 THEN Goto(w, "free") /\ UNCHANGED result
                 ELSE Answer(w, tree) /\ Goto(w, "setxattr")
              /\ UNCHANGED <<disk, lock, fpath, request, mt, calls, suspect>>
    BY <1>10 DEF PagesInNeed
  <2>2. IsSomeTree(mt[w]) /\ Stale(mt[w], g) \subseteq S /\ Written(g, r) /\ p \in Nat
        /\ Touched(r) = {p} /\ pc[w] \in HasWritten
    BY <1>3, <1>4, <2>1 DEF HasRead, HasWritten
  <2>3. strings # Null /\ tree # Null => Stale(tree, g) \subseteq S \ Touched(r)
    <3>1. SUFFICES ASSUME strings # Null, tree # Null PROVE Stale(tree, g) \subseteq S \ Touched(r)
      OBVIOUS
    <3>2. CASE is_full(r.offset)
      <4>1. LeafCount(mt[w]) <= p
        BY <1>2, <2>1, <3>2 DEF CallData
      <4>2. r.offset \in Nat /\ Len(r.buf) \in Nat /\ Len(r.buf) >= 1
        BY <1>1, RequestFits
      <4>3. strings \in Seq(Seq(Bytes)) /\ Len(strings) >= 1
        BY <1>1, <3>1, <4>2, ChangedPagesType
      <4> HIDE DEF strings
      <4>4. tree = Null
        BY <1>1, <2>2, <4>1, <4>3, NoPageToUpdate
      <4> QED
        BY <3>1, <4>4
    <3>3. CASE ~is_full(r.offset)
      <4>1. IsSomeTree(tree) /\ ChangesLeaf(tree, mt[w], p, PageBytes(g, p))
        BY <1>1, <2>2, <3>1, <3>3, PagesInNeedData
      <4>2. LeafCount(tree) \in Nat /\ LeafCount(mt[w]) \in Nat
        BY <2>2, <4>1, LeafCountType
      <4> HIDE DEF tree, p, g, S
      <4> QED
        BY <2>2, <4>1, <4>2, StaleAfter
    <3> QED
      BY <3>2, <3>3
  <2> HIDE DEF tree, strings
  <2> QED
    BY <2>1, <2>2, <2>3, DataAnswer, DataDie
<1> DEFINE made == compute_merkle(g)
<1>11. pc[w] \in HasWritten => Stale(made, g) \subseteq S \ Touched(r)
  BY <1>1, <1>3, MerkleData
<1> HIDE DEF made
<1>12. CASE MComputeMerkle(w)
  <2>1. /\ pc[w] = "m_compute"
        /\ \/ /\ Goto(w, "compute_merkle")
              /\ UNCHANGED <<disk, lock, fpath, request, mt, result, calls, suspect>>
           \/ Die
           \/ /\ made # Null
              /\ Answer(w, made) /\ Goto(w, "setxattr")
              /\ UNCHANGED <<disk, lock, fpath, request, mt, calls, suspect>>
    BY <1>12 DEF MComputeMerkle, made
  <2>2. pc[w] \in HasWritten
    BY <2>1 DEF HasWritten
  <2> QED
    BY <1>11, <2>1, <2>2, DataAnswer, DataDie
<1>13. CASE ComputeMerkle(w)
  <2>1. /\ pc[w] = "compute_merkle" /\ UNCHANGED <<disk, lock, fpath, request, mt, calls, suspect>>
        /\ \/ Answer(w, <<>>) /\ Goto(w, "free")
           \/ Answer(w, made) /\ Goto(w, "setxattr")
    BY <1>13 DEF ComputeMerkle, made
  <2>2. pc[w] \in HasWritten
    BY <2>1 DEF HasWritten
  <2> QED
    BY <1>11, <2>1, <2>2, DataAnswer
<1>14. CASE Setxattr(w)
  <2>1. /\ pc[w] = "setxattr" /\ pc' = [pc EXCEPT ![w] = "free"]
        /\ UNCHANGED <<content, fpath, request, mt, result>>
        /\ \/ /\ attr' = [attr EXCEPT ![f] = result[w]]
              /\ suspect' = [suspect EXCEPT ![f] = @ \ Touched(r)]
           \/ UNCHANGED <<attr, suspect>>
    BY <1>14 DEF Setxattr, Goto
  <2>2. Stale(result[w], g) \subseteq S \ Touched(r) /\ Written(g, r)
    BY <1>2, <1>3, <2>1 DEF CallData, HasWritten
  <2>3. attr'[f] # Null => Stale(attr'[f], content'[f]) \subseteq suspect'[f]
    BY <1>1, <2>1, <2>2 DEF IInv, DiskInv, DataInv
  <2>4. pc'[w] = "free"
    BY <2>1 DEF IInv, CallInv
  <2>5. CallData(w, content[fpath[w]], suspect[fpath[w]])'
    BY <2>1, <2>2, <2>4 DEF CallData, HasWritten, HasRead
  <2>6. \A e \in Paths \ {f} : content'[e] = content[e] /\ attr'[e] = attr[e] /\ suspect'[e] = suspect[e]
    BY <2>1 DEF IInv, DiskInv, DataInv
  <2>7. suspect' = [e \in Paths |-> suspect'[e]]
    BY <2>1 DEF DataInv
  <2> QED
    BY <1>1, <2>1, <2>3, <2>5, <2>6, <2>7, DataStep
<1>15. CASE Free(w)
  BY <1>15, DataFree
<1> QED
  BY <1>5, <1>6, <1>7, <1>8, <1>9, <1>10, <1>12, <1>13, <1>14, <1>15, DataDie DEF Step

LEMMA DataNext ==
  ASSUME CarefulUse, NullIsNoTree
  PROVE  IInv /\ DataInv /\ [Next]_vars => DataInv'
<1> SUFFICES ASSUME IInv, DataInv, [Next]_vars PROVE DataInv'
  OBVIOUS
<1>1. CASE \E w \in Writers : Start(w) \/ Step(w)
  BY <1>1, DataStart, DataCall
<1>2. CASE Crash
  BY <1>2, DataDie DEF Crash
<1>3. CASE \E f \in Paths : Truncate(f) \/ Ftruncate(f)
  BY <1>3 DEF Truncate, Ftruncate, CarefulUse
<1>4. CASE \E f \in Paths : Removexattr(f)
  <2>1. PICK f \in Paths : Removexattr(f)
    BY <1>4
  <2>2. /\ Active(f) = {} /\ UNCHANGED <<content, pc, fpath, request, mt, result>>
        /\ attr' = [attr EXCEPT ![f] = Null] /\ suspect' = [suspect EXCEPT ![f] = {}]
    BY <2>1 DEF Removexattr, CarefulUse
  <2>3. /\ attr'[f] = Null
        /\ \A g \in Paths \ {f} : attr'[g] = attr[g] /\ suspect'[g] = suspect[g]
        /\ suspect' = [g \in Paths |-> suspect'[g]]
    BY <2>2 DEF IInv, DiskInv, DataInv
  <2> QED
    BY <2>2, <2>3, DataDisk
<1>5. CASE \E f \in Paths : SetxattrByUser(f)
  <2>1. PICK f \in Paths : SetxattrByUser(f)
    BY <1>5
  <2>2. PICK tree :
          /\ Active(f) = {} /\ UNCHANGED <<content, pc, fpath, request, mt, result>>
          /\ attr' = [attr EXCEPT ![f] = tree]
          /\ suspect' = [suspect EXCEPT ![f] = 0..PagesOf(Len(content[f])) - 1]
    BY <2>1 DEF SetxattrByUser, CarefulUse
  <2>3. /\ suspect'[f] = 0..PagesOf(Len(content[f])) - 1
        /\ \A g \in Paths \ {f} : attr'[g] = attr[g] /\ suspect'[g] = suspect[g]
        /\ suspect' = [g \in Paths |-> suspect'[g]]
    BY <2>2 DEF IInv, DiskInv, DataInv
  <2>4. Stale(attr'[f], content[f]) \subseteq suspect'[f]
    BY <2>3 DEF Stale
  <2> QED
    BY <2>2, <2>3, <2>4, DataDisk
<1>6. CASE Quiet \/ UNCHANGED vars
  <2>1. UNCHANGED <<content, attr, pc, fpath, request, mt, result, suspect>>
    BY <1>6 DEF Quiet, vars, disk
  <2>2. \A w \in Writers : CallData(w, content[fpath[w]], suspect[fpath[w]])'
    BY <2>1 DEF DataInv, CallData
  <2> QED
    BY <2>1, <2>2 DEF DataInv, Alone
<1> QED
  BY <1>1, <1>2, <1>3, <1>4, <1>5, <1>6 DEF Next

\* With one call per file at a time and requests that bb_write can handle: whenever a call
\* is lost with the process, or its tree cannot be stored, or a user gives the file another
\* tree, the leaves of the attribute are wrong for the pages of that call, or of that file,
\* at most. Every other call, whichever way it makes its tree, keeps the other leaves and
\* puts its own right.
THEOREM DamageStaysConfined ==
  ASSUME CarefulUse, NullIsNoTree
  PROVE  Spec => []DamageConfined
<1>1. Init => DataInv
  BY DataInit
<1>2. IInv /\ DataInv /\ [Next]_vars => DataInv'
  BY DataNext
<1>3. IInv /\ DataInv => DamageConfined
  BY DEF DataInv, DamageConfined, HasTree
<1> QED
  BY <1>1, <1>2, <1>3, Invariance, PTL DEF Spec

-----------------------------------------------------------------------------
(***************************************************************************)
(* The invariant of careful use when nothing fails but the reading of an   *)
(* attribute.                                                              *)
(***************************************************************************)
NothingFails == Faults \subseteq {"getxattr"} /\ Copied = {} /\ ~AnyValue

\* No file makes m_build_tree hash nothing and end the process (see MComputeMerkle).
Buildable ==
  \A f \in Paths :
    Len(content[f]) \div PAGE_LENGTH < NbThreads \/ TreeSize(Len(content[f])) # NbThreads

\* The page of a request is one of the tree, or the one behind them when it is a new page.
Reaches(hash, r) ==
  /\ FirstPage(r.offset) <= LeafCount(hash)
  /\ ~is_full(r.offset) => FirstPage(r.offset) < LeafCount(hash)

\* Where the tree of a call has not been stored yet.
Pending == HasWritten \ {"free"}

\* What call w knows besides of its file f with tree tree, when nothing fails.
CallTree(w, f, tree, S) ==
  LET r == request[w]
  IN  /\ pc[w] \in Pending => S \subseteq Touched(r)
      /\ pc[w] = "getxattr" /\ tree # Null => Reaches(tree, r)
      /\ pc[w] \in HasRead => BlankBehind(mt[w], f) /\ Reaches(mt[w], r)
      /\ pc[w] = "pages_in_need" => ~is_full(r.offset)
      /\ pc[w] = "setxattr" => BlankBehind(result[w], f)
      /\ pc[w] \in {"setxattr", "free"} => result[w] # Null
      /\ pc[w] = "free" => tree # Null

PendingOn(f) == {w \in Writers : pc[w] \in Pending /\ fpath[w] = f}

IntegrityInv ==
  /\ \A f \in Paths : attr[f] # Null => BlankBehind(attr[f], content[f])
  /\ \A f \in Paths : PendingOn(f) = {} => suspect[f] = {}
  /\ \A w \in Writers : CallTree(w, content[fpath[w]], attr[fpath[w]], suspect[fpath[w]])

-----------------------------------------------------------------------------
\* A new leaf for one of the pages of g.
LEMMA BlankAfter ==
  ASSUME NEW new, NEW old, LeafCount(new) \in Nat, LeafCount(old) \in Nat,
         NEW g, PagesOf(Len(g)) \in Nat, NEW p \in Nat, p < PagesOf(Len(g)),
         NEW s, ChangesLeaf(new, old, p, s), BlankBehind(old, g), new # NoTree
  PROVE  BlankBehind(new, g)
<1> SUFFICES ASSUME NEW k \in PagesOf(Len(g))..LeafCount(new) - 1
             PROVE  Leaf(new, k) = LeafHash(<<SPACE>>)
  BY DEF BlankBehind
<1>1. k # p /\ k \in Nat
  OBVIOUS
<1>2. CASE k < LeafCount(old)
  BY <1>1, <1>2 DEF BlankBehind, ChangesLeaf
<1>3. CASE k >= LeafCount(old)
  BY <1>1, <1>3 DEF ChangesLeaf
<1> QED
  BY <1>1, <1>2, <1>3

\* A tree that is nowhere stale has a leaf for every page.
LEMMA CoversPages ==
  ASSUME NEW hash, LeafCount(hash) \in Nat, NEW f, PagesOf(Len(f)) \in Nat, Stale(hash, f) = {}
  PROVE  PagesOf(Len(f)) <= LeafCount(hash)
<1> SUFFICES ASSUME LeafCount(hash) < PagesOf(Len(f)) PROVE FALSE
  OBVIOUS
<1>1. LeafCount(hash) \in Stale(hash, f)
  BY DEF Stale
<1> QED
  BY <1>1

\* It is the Merkle tree of the file when the leaves behind the pages are blank.
LEMMA DescribesFile ==
  ASSUME NEW hash, IsSomeTree(hash), NEW f \in Seq(Bytes), Stale(hash, f) = {},
         BlankBehind(hash, f)
  PROVE  Describes(hash, f)
<1>1. PICK h \in 1..MaxShift : IsTree(hash, h)
  BY DEF IsSomeTree
<1>2. h \in Nat /\ h >= 1
  OBVIOUS
<1> DEFINE N == shl[h - 1]
           P == PagesOf(Len(f))
           data == [x \in Leaves(h) |-> Page(f, x - N)]
<1>3. HeightOfTree(hash) = h /\ LeafCount(hash) = N /\ N \in Nat /\ shl[h] = 2 * N
  BY <1>1, <1>2, HeightIs, NodesOf
<1>4. Len(f) \in Nat /\ P \in Nat
  <2>1. Len(f) \in Nat
    OBVIOUS
  <2> QED
    BY <2>1, PageArith
<1>5. P <= LeafCount(hash)
  BY <1>3, <1>4, CoversPages
<1> HIDE DEF N, P
<1>6. ASSUME NEW k \in 0..N - 1
      PROVE  hash[N + k] = LeafHash(Page(f, k)) /\ Page(f, k) # Null
  <2>1. CASE k < P
    <3>1. k \notin Stale(hash, f) /\ k \in 0..P - 1
      BY <1>4, <2>1
    <3>2. hash[N + k] = LeafHash(PageBytes(f, k))
      BY <1>3, <3>1 DEF Stale, P
    <3>3. PageBytes(f, k) \in Seq(Bytes)
      BY <1>4, <2>1, PageLen DEF P
    <3> QED
      BY <2>1, <3>2, <3>3, NullAssumption DEF Page, P
  <2>2. CASE ~(k < P)
    <3>1. k \in P..N - 1
      BY <1>3, <1>4, <2>2
    <3>2. hash[N + k] = LeafHash(<<SPACE>>)
      BY <1>3, <3>1 DEF BlankBehind, Leaf, P
    <3>3. <<SPACE>> \in Seq(Bytes)
      BY PageAssumption
    <3> QED
      BY <2>2, <3>2, <3>3, NullAssumption DEF Page, P
  <2> QED
    BY <2>1, <2>2
<1>7. ASSUME NEW x \in Leaves(h) PROVE data[x] # Null /\ hash[x] = LeafHash(data[x])
  <2>1. x - N \in 0..N - 1 /\ N + (x - N) = x
    BY <1>3 DEF Leaves, N
  <2>2. data[x] = Page(f, x - N)
    OBVIOUS
  <2> HIDE DEF data
  <2> QED
    BY <1>6, <2>1, <2>2
<1>8. IsMerkleTree(hash, data, h)
  <2> HIDE DEF data
  <2>1. ASSUME NEW x \in Nodes(h) PROVE HasText(hash[x])
    <3>1. PICK s : hash[x] = Text(Digest(s))
      BY <1>1, <1>2, NodeTexts
    <3> QED
      BY <3>1 DEF HasText, Text
  <2> QED
    BY <1>1, <1>7, <2>1 DEF IsMerkleTree, Good, IsTree
<1> QED
  BY <1>3, <1>4, <1>5, <1>8 DEF Describes, N, P

\* A step of one call.
LEMMA IntegrityStep ==
  ASSUME IInv, DataInv, IntegrityInv, NEW w \in Writers, NEW label, pc[w] # "idle",
         label # "idle",
         pc' = [pc EXCEPT ![w] = label], UNCHANGED <<fpath, request>>,
         \A v \in Writers \ {w} : mt'[v] = mt[v] /\ result'[v] = result[v],
         \A f \in Paths \ {fpath[w]} :
           content'[f] = content[f] /\ attr'[f] = attr[f] /\ suspect'[f] = suspect[f],
         attr'[fpath[w]] # Null => BlankBehind(attr'[fpath[w]], content'[fpath[w]]),
         label \notin Pending => suspect'[fpath[w]] = {},
         CallTree(w, content[fpath[w]], attr[fpath[w]], suspect[fpath[w]])'
  PROVE  IntegrityInv'
<1>1. fpath \in [Writers -> Paths] /\ pc'[w] = label /\ \A v \in Writers \ {w} : pc'[v] = pc[v]
  BY DEF IInv, CallInv
<1>2. ASSUME NEW f \in Paths PROVE attr'[f] # Null => BlankBehind(attr'[f], content'[f])
  BY DEF IntegrityInv
<1>3. ASSUME NEW f \in Paths, PendingOn(f)' = {} PROVE suspect'[f] = {}
  <2>1. CASE f = fpath[w]
    BY <1>1, <1>3, <2>1 DEF PendingOn
  <2>2. CASE f # fpath[w]
    <3>1. PendingOn(f) = {}
      BY <1>1, <1>3, <2>2 DEF PendingOn
    <3> QED
      BY <2>2, <3>1 DEF IntegrityInv
  <2> QED
    BY <2>1, <2>2
<1>4. ASSUME NEW v \in Writers
      PROVE  CallTree(v, content[fpath[v]], attr[fpath[v]], suspect[fpath[v]])'
  <2>1. CASE v = w
    BY <2>1
  <2>2. CASE v # w /\ pc[v] = "idle"
    BY <1>1, <2>2 DEF CallTree, Pending, HasWritten, HasRead
  <2>3. CASE v # w /\ pc[v] # "idle"
    <3>1. fpath[v] # fpath[w] /\ fpath[v] \in Paths
      BY <1>1, <2>3 DEF DataInv, Alone
    <3>2. content'[fpath[v]] = content[fpath[v]] /\ suspect'[fpath[v]] = suspect[fpath[v]]
          /\ attr'[fpath[v]] = attr[fpath[v]]
          /\ mt'[v] = mt[v] /\ result'[v] = result[v] /\ pc'[v] = pc[v]
          /\ fpath' = fpath /\ request' = request
      BY <1>1, <2>3, <3>1
    <3>3. CallTree(v, content[fpath[v]], attr[fpath[v]], suspect[fpath[v]])
      BY DEF IntegrityInv
    <3> QED
      BY <3>2, <3>3 DEF CallTree
  <2> QED
    BY <2>1, <2>2, <2>3
<1> QED
  BY <1>2, <1>3, <1>4 DEF IntegrityInv

\* A call goes on without touching the disk.
Works(w) == UNCHANGED <<disk, fpath>> /\ \E label \in Pending : Goto(w, label)

\* A step of a call that leaves the disk as it is.
LEMMA IntegrityStepCall ==
  ASSUME IInv, DataInv, IntegrityInv, NEW w \in Writers, NEW label \in Pending, pc[w] # "idle",
         Goto(w, label), UNCHANGED <<disk, suspect, fpath, request>>,
         \A v \in Writers \ {w} : mt'[v] = mt[v] /\ result'[v] = result[v],
         CallTree(w, content[fpath[w]], attr[fpath[w]], suspect[fpath[w]])'
  PROVE  IntegrityInv' /\ Works(w)
<1>1. fpath[w] \in Paths /\ label # "idle"
  BY DEF IInv, CallInv, Pending, HasWritten
<1>2. attr'[fpath[w]] # Null => BlankBehind(attr'[fpath[w]], content'[fpath[w]])
  BY <1>1 DEF IntegrityInv, disk
<1> QED
  BY <1>1, <1>2, IntegrityStep DEF Goto, disk, Works

\* A call that has its tree.
LEMMA IntegrityAnswer ==
  ASSUME IInv, DataInv, IntegrityInv, NEW w \in Writers, pc[w] \in Pending,
         NEW tree, tree # Null, BlankBehind(tree, content[fpath[w]]),
         Answer(w, tree), Goto(w, "setxattr"), UNCHANGED <<disk, suspect, fpath, request, mt>>
  PROVE  IntegrityInv' /\ Works(w)
<1>1. pc[w] # "idle" /\ "setxattr" \in Pending
  BY DEF Pending, HasWritten
<1>2. /\ pc'[w] = "setxattr" /\ result'[w] = tree
      /\ \A v \in Writers \ {w} : mt'[v] = mt[v] /\ result'[v] = result[v]
  BY DEF Goto, Answer, IInv, CallInv
<1>3. suspect[fpath[w]] \subseteq Touched(request[w])
  BY DEF IntegrityInv, CallTree
<1>4. CallTree(w, content[fpath[w]], attr[fpath[w]], suspect[fpath[w]])'
  BY <1>2, <1>3 DEF CallTree, Pending, HasWritten, HasRead, disk
<1> QED
  BY <1>1, <1>2, <1>4, IntegrityStepCall

\* A call that has to compute the tree of the whole file.
LEMMA IntegrityGoOn ==
  ASSUME IInv, DataInv, IntegrityInv, NEW w \in Writers, pc[w] \in Pending,
         NEW label \in {"m_compute", "compute_merkle"}, Goto(w, label),
         \A v \in Writers \ {w} : mt'[v] = mt[v] /\ result'[v] = result[v],
         UNCHANGED <<disk, suspect, fpath, request>>
  PROVE  IntegrityInv' /\ Works(w)
<1>1. pc[w] # "idle" /\ label \in Pending
  BY DEF Pending, HasWritten
<1>2. pc'[w] = label
  BY DEF Goto, IInv, CallInv
<1>3. suspect[fpath[w]] \subseteq Touched(request[w])
  BY DEF IntegrityInv, CallTree
<1>4. CallTree(w, content[fpath[w]], attr[fpath[w]], suspect[fpath[w]])'
  BY <1>2, <1>3 DEF CallTree, Pending, HasWritten, HasRead, disk
<1> QED
  BY <1>1, <1>4, IntegrityStepCall

LEMMA IntegrityInit ==
  ASSUME CarefulUse, Init
  PROVE  IntegrityInv
<1>1. content \in [Paths -> OldFiles] /\ \A f \in Paths : IsTextFile(content[f])
  BY DEF CarefulUse, Init
<1>2. suspect = [f \in Paths |-> {}] /\ pc = [w \in Writers |-> "idle"]
  BY DEF Init
<1>3. ASSUME NEW f \in Paths, attr[f] # Null PROVE BlankBehind(attr[f], content[f])
  <2>1. attr[f] = compute_merkle(content[f]) /\ Fits(Len(content[f]))
    BY <1>1, <1>3, FitsAssumption DEF Init
  <2>2. content[f] # <<>>
    BY <1>3, <2>1 DEF compute_merkle
  <2> QED
    BY <1>1, <2>1, <2>2, MerkleData
<1>4. \A w \in Writers : CallTree(w, content[fpath[w]], attr[fpath[w]], suspect[fpath[w]])
  BY <1>2 DEF CallTree, Pending, HasWritten, HasRead
<1> QED
  BY <1>2, <1>3, <1>4 DEF IntegrityInv

\* A call begins, or ends.
LEMMA IntegrityStart ==
  ASSUME CarefulUse, IInv, DataInv, IntegrityInv, NEW w \in Writers, Start(w)
  PROVE  IntegrityInv'
<1>1. PICK f \in Paths, r \in Requests :
        fpath' = [fpath EXCEPT ![w] = f] /\ request' = [request EXCEPT ![w] = r]
  BY DEF Start
<1>2. /\ pc[w] = "idle" /\ pc' = [pc EXCEPT ![w] = "pwrite"]
      /\ UNCHANGED <<content, attr, mt, result, suspect>>
  BY DEF Start, Goto, disk
<1>3. /\ pc'[w] = "pwrite"
      /\ \A v \in Writers \ {w} : pc'[v] = pc[v] /\ fpath'[v] = fpath[v] /\ request'[v] = request[v]
  BY <1>1, <1>2 DEF IInv, CallInv
<1>4. ASSUME NEW v \in Writers
      PROVE  CallTree(v, content[fpath[v]], attr[fpath[v]], suspect[fpath[v]])'
  <2>1. CASE v = w
    BY <1>3, <2>1 DEF CallTree, Pending, HasWritten, HasRead
  <2>2. CASE v # w
    BY <1>2, <1>3, <2>2 DEF IntegrityInv, CallTree
  <2> QED
    BY <2>1, <2>2
<1>5. \A g \in Paths : PendingOn(g)' = {} => PendingOn(g) = {}
  BY <1>2, <1>3 DEF PendingOn, Pending, HasWritten
<1> QED
  BY <1>2, <1>4, <1>5 DEF IntegrityInv

LEMMA IntegrityFree ==
  ASSUME IInv, DataInv, IntegrityInv, NEW w \in Writers, Free(w)
  PROVE  IntegrityInv' /\ UNCHANGED <<content, attr>>
<1>1. result[w] # Null
  BY DEF Free, IntegrityInv, CallTree
<1>2. /\ pc[w] = "free" /\ pc' = [pc EXCEPT ![w] = "idle"] /\ UNCHANGED <<content, attr, suspect>>
      /\ fpath' = [fpath EXCEPT ![w] = AnyPath] /\ request' = [request EXCEPT ![w] = AnyRequest]
      /\ mt' = [mt EXCEPT ![w] = Null] /\ result' = [result EXCEPT ![w] = Null]
  BY <1>1 DEF Free, Goto, disk
<1>3. /\ pc'[w] = "idle"
      /\ \A v \in Writers \ {w} : /\ pc'[v] = pc[v] /\ fpath'[v] = fpath[v]
                                  /\ request'[v] = request[v] /\ mt'[v] = mt[v]
                                  /\ result'[v] = result[v]
  BY <1>2 DEF IInv, CallInv
<1>4. ASSUME NEW v \in Writers
      PROVE  CallTree(v, content[fpath[v]], attr[fpath[v]], suspect[fpath[v]])'
  <2>1. CASE v = w
    BY <1>3, <2>1 DEF CallTree, Pending, HasWritten, HasRead
  <2>2. CASE v # w
    BY <1>2, <1>3, <2>2 DEF IntegrityInv, CallTree
  <2> QED
    BY <2>1, <2>2
<1>5. \A f \in Paths : PendingOn(f)' = {} => PendingOn(f) = {}
  BY <1>2, <1>3 DEF PendingOn, Pending, HasWritten
<1> QED
  BY <1>2, <1>4, <1>5 DEF IntegrityInv

\* While a call is on its way to pwrite or has returned, no page of its file is suspect.
LEMMA NotPending ==
  ASSUME IInv, DataInv, IntegrityInv, NEW w \in Writers, pc[w] # "idle", pc[w] \notin Pending
  PROVE  suspect[fpath[w]] = {}
<1>1. fpath[w] \in Paths
  BY DEF IInv, CallInv
<1>2. PendingOn(fpath[w]) = {}
  BY DEF PendingOn, DataInv, Alone, Pending, HasWritten
<1> QED
  BY <1>1, <1>2 DEF IntegrityInv

\* The tree that a call is about to store.
LEMMA StoresDescription ==
  ASSUME IInv, DataInv, IntegrityInv, NEW w \in Writers, pc[w] = "setxattr"
  PROVE  /\ result[w] # Null /\ Describes(result[w], content[fpath[w]])
         /\ suspect[fpath[w]] \subseteq Touched(request[w])
<1>1. fpath[w] \in Paths /\ content[fpath[w]] \in Seq(Bytes)
  BY DEF IInv, CallInv, DiskInv
<1>2. CallData(w, content[fpath[w]], suspect[fpath[w]])
      /\ CallTree(w, content[fpath[w]], attr[fpath[w]], suspect[fpath[w]])
  BY DEF DataInv, IntegrityInv
<1>3. /\ Stale(result[w], content[fpath[w]]) \subseteq suspect[fpath[w]] \ Touched(request[w])
      /\ suspect[fpath[w]] \subseteq Touched(request[w])
      /\ BlankBehind(result[w], content[fpath[w]]) /\ result[w] # Null
  BY <1>2 DEF CallData, CallTree, Pending, HasWritten
<1>4. Stale(result[w], content[fpath[w]]) = {}
  BY <1>3
<1>5. IsSomeTree(result[w])
  BY DEF IInv, TreeInv
<1> QED
  BY <1>1, <1>3, <1>4, <1>5, DescribesFile

\* Where no call is on its way, an attribute describes its file.
LEMMA Settled ==
  ASSUME IInv, DataInv, IntegrityInv, NEW f \in Paths, PendingOn(f) = {}, attr[f] # Null
  PROVE  Describes(attr[f], content[f])
<1>1. suspect[f] = {} /\ BlankBehind(attr[f], content[f])
  BY DEF IntegrityInv
<1>2. Stale(attr[f], content[f]) = {}
  BY <1>1 DEF DataInv
<1>3. IsSomeTree(attr[f]) /\ content[f] \in Seq(Bytes)
  BY <1>1 DEF IInv, DiskInv, HasTree, BlankBehind
<1> QED
  BY <1>1, <1>2, <1>3, DescribesFile

LEMMA IntegrityPwrite ==
  ASSUME CarefulUse, IInv, DataInv, IntegrityInv, NEW w \in Writers, Pwrite(w)
  PROVE  IntegrityInv'
<1> DEFINE f == fpath[w]
           g == content[f]
           r == request[w]
           p == FirstPage(r.offset)
           new == Patch(g, r.offset, r.buf, Len(r.buf))
<1>1. f \in Paths /\ r \in Requests /\ g \in Seq(Bytes) /\ Fits(Len(g)) /\ IsTextFile(g)
  BY DEF IInv, CallInv, DiskInv, DataInv
<1>2. /\ pc[w] = "pwrite" /\ pc' = [pc EXCEPT ![w] = "getxattr"]
      /\ content' = [content EXCEPT ![f] = new]
      /\ suspect' = [suspect EXCEPT ![f] = @ \cup Touched(r)]
      /\ UNCHANGED <<attr, fpath, request, mt, result>>
  BY DEF Pwrite, Goto, CarefulUse
<1>3. CallData(w, g, suspect[f])
  BY DEF DataInv
<1>4. SafeRequest(g, r) /\ IsTextFile(r.buf)
  BY <1>1, <1>2, <1>3 DEF CallData, CarefulUse
<1>5. /\ IsTextFile(new) /\ Written(new, r) /\ PagesOf(Len(g)) <= PagesOf(Len(new))
      /\ p <= PagesOf(Len(g)) /\ (~is_full(r.offset) => p < PagesOf(Len(g)))
  BY <1>1, <1>4, PatchPages
<1> HIDE DEF new
<1>6. p \in Nat /\ Touched(r) = {p}
  BY <1>1, <1>5, TouchedPage
<1>7. suspect[f] = {}
  BY <1>2, NotPending DEF Pending, HasWritten
<1>8. content'[f] = new /\ suspect'[f] = Touched(r) /\ attr'[f] = attr[f]
  BY <1>1, <1>2, <1>7 DEF IInv, DiskInv, DataInv
<1>9. PagesOf(Len(g)) \in Nat /\ PagesOf(Len(new)) \in Nat
  <2>1. Len(g) \in Nat /\ Len(new) \in Nat
    BY <1>1, <1>5 DEF IsTextFile
  <2> QED
    BY <2>1, PageArith
<1>10. attr[f] # Null => BlankBehind(attr[f], new) /\ Reaches(attr[f], r)
  <2>1. SUFFICES ASSUME attr[f] # Null PROVE BlankBehind(attr[f], new) /\ Reaches(attr[f], r)
    OBVIOUS
  <2>2. Stale(attr[f], g) = {} /\ BlankBehind(attr[f], g)
    BY <1>1, <1>7, <2>1 DEF DataInv, IntegrityInv
  <2>3. LeafCount(attr[f]) \in Nat
    BY <1>1, <2>1, <2>2, LeafCountType DEF IInv, DiskInv, HasTree, BlankBehind
  <2> HIDE DEF f, g, r, p
  <2>4. PagesOf(Len(g)) <= LeafCount(attr[f])
    BY <1>9, <2>2, <2>3, CoversPages
  <2>5. Reaches(attr[f], r)
    BY <1>5, <1>6, <1>9, <2>3, <2>4 DEF Reaches, p
  <2>6. BlankBehind(attr[f], new)
    BY <1>5, <1>9, <2>2, <2>3 DEF BlankBehind
  <2> QED
    BY <2>5, <2>6
<1>11. pc'[w] = "getxattr"
  BY <1>2 DEF IInv, CallInv
<1>12. CallTree(w, content[fpath[w]], attr[fpath[w]], suspect[fpath[w]])'
  BY <1>2, <1>8, <1>10, <1>11 DEF CallTree, Pending, HasWritten, HasRead
<1>13. \A e \in Paths \ {f} : content'[e] = content[e] /\ attr'[e] = attr[e] /\ suspect'[e] = suspect[e]
  BY <1>2 DEF IInv, DiskInv, DataInv
<1>14. "getxattr" \in Pending /\ "getxattr" # "idle"
  BY DEF Pending, HasWritten
<1> QED
  BY <1>2, <1>8, <1>10, <1>12, <1>13, <1>14, IntegrityStep

LEMMA IntegritySetxattr ==
  ASSUME NothingFails, IInv, DataInv, IntegrityInv, NEW w \in Writers, Setxattr(w)
  PROVE  IntegrityInv' /\ attr' = [attr EXCEPT ![fpath[w]] = result[w]]
<1> DEFINE f == fpath[w]
<1>1. /\ pc[w] = "setxattr" /\ pc' = [pc EXCEPT ![w] = "free"]
      /\ UNCHANGED <<content, fpath, request, mt, result>>
      /\ attr' = [attr EXCEPT ![f] = result[w]]
      /\ suspect' = [suspect EXCEPT ![f] = @ \ Touched(request[w])]
  BY DEF Setxattr, Goto, NothingFails
<1>2. f \in Paths
  BY DEF IInv, CallInv
<1>3. suspect[f] \subseteq Touched(request[w]) /\ result[w] # Null
  BY <1>1, StoresDescription
<1>4. suspect'[f] = {} /\ attr'[f] = result[w]
  BY <1>1, <1>2, <1>3 DEF IInv, DiskInv, DataInv
<1>5. BlankBehind(result[w], content[f])
  <2>1. CallTree(w, content[f], attr[f], suspect[f])
    BY DEF IntegrityInv
  <2> QED
    BY <1>1, <2>1 DEF CallTree
<1>6. pc'[w] = "free"
  BY <1>1 DEF IInv, CallInv
<1>7. CallTree(w, content[fpath[w]], attr[fpath[w]], suspect[fpath[w]])'
  BY <1>1, <1>3, <1>4, <1>6 DEF CallTree, Pending, HasWritten, HasRead
<1>8. \A e \in Paths \ {f} : content'[e] = content[e] /\ attr'[e] = attr[e] /\ suspect'[e] = suspect[e]
  BY <1>1 DEF IInv, DiskInv, DataInv
<1> QED
  BY <1>1, <1>4, <1>5, <1>7, <1>8, IntegrityStep

\* Every other step of a call.
LEMMA IntegrityCall ==
  ASSUME CarefulUse, NullIsNoTree, NothingFails, Buildable, IInv, DataInv, IntegrityInv,
         NEW w \in Writers, Step(w)
  PROVE  IntegrityInv' /\ (Works(w) \/ Pwrite(w) \/ Setxattr(w) \/ Free(w))
<1> DEFINE f == fpath[w]
           g == content[f]
           r == request[w]
           p == FirstPage(r.offset)
           made == compute_merkle(g)
<1>1. f \in Paths /\ r \in Requests /\ g \in Seq(Bytes) /\ Fits(Len(g)) /\ IsTextFile(g)
  BY DEF IInv, CallInv, DiskInv, DataInv
<1>2. CallTree(w, g, attr[f], suspect[f])
  BY DEF IntegrityInv
<1>3. pc[w] \in HasWritten => /\ Written(g, r) /\ p \in Nat /\ g # <<>> /\ p < PagesOf(Len(g))
                              /\ PagesOf(Len(g)) \in Nat
  <2>1. SUFFICES ASSUME pc[w] \in HasWritten
                 PROVE  /\ Written(g, r) /\ p \in Nat /\ g # <<>> /\ p < PagesOf(Len(g))
                        /\ PagesOf(Len(g)) \in Nat
    OBVIOUS
  <2>2. Written(g, r)
    BY <2>1 DEF DataInv, CallData
  <2>3. Len(g) \in Nat
    BY <1>1
  <2>4. PagesOf(Len(g)) \in Nat
    BY <2>3, PageArith
  <2> QED
    BY <1>1, <2>2, <2>4, TouchedPage DEF Written
<1>4. pc[w] \in HasRead =>
        /\ IsSomeTree(mt[w]) /\ LeafCount(mt[w]) \in Nat /\ LeafCount(mt[w]) >= 1
        /\ BlankBehind(mt[w], g) /\ Reaches(mt[w], r) /\ pc[w] \in Pending /\ pc[w] \in HasWritten
  <2>1. pc[w] \in HasRead => BlankBehind(mt[w], g) /\ Reaches(mt[w], r)
    BY <1>2 DEF CallTree
  <2>2. pc[w] \in HasRead => pc[w] \in Pending /\ pc[w] \in HasWritten /\ IsSomeTree(mt[w])
    BY <2>1 DEF HasRead, Pending, HasWritten, IInv, TreeInv, BlankBehind
  <2> QED
    BY <2>1, <2>2, LeafCountType
<1>5. pc[w] \in HasWritten => made # Null /\ BlankBehind(made, g)
  <2>1. pc[w] \in HasWritten => IsSomeTree(made) /\ BlankBehind(made, g)
    BY <1>1, <1>3, MerkleData
  <2> HIDE DEF made
  <2> QED
    BY <2>1, TreeIsNotNull
<1> HIDE DEF made
<1>6. pc[w] \in Pending => suspect[f] \subseteq Touched(r)
  BY <1>2 DEF CallTree
<1>7. CASE Getxattr(w)
  <2>1. PICK tree \in {attr[f]} \cup {Null} :
          mt' = [mt EXCEPT ![w] = tree] /\ Goto(w, IF tree = Null THEN "m_compute" ELSE "lock")
    BY <1>7 DEF Getxattr
  <2>2. pc[w] = "getxattr" /\ UNCHANGED <<disk, suspect, fpath, request, result>>
    BY <1>7 DEF Getxattr
  <2>3. /\ mt'[w] = tree /\ \A v \in Writers \ {w} : mt'[v] = mt[v] /\ result'[v] = result[v]
        /\ pc'[w] = IF tree = Null THEN "m_compute" ELSE "lock"
    BY <2>1, <2>2 DEF Goto, IInv, CallInv
  <2>4. pc[w] \in Pending /\ pc[w] # "idle"
    BY <2>2 DEF Pending, HasWritten
  <2>5. CASE tree = Null
    BY <2>1, <2>2, <2>3, <2>4, <2>5, IntegrityGoOn
  <2>6. CASE tree # Null
    <3>1. BlankBehind(tree, g) /\ Reaches(tree, r)
      BY <1>1, <1>2, <2>1, <2>2, <2>6 DEF IntegrityInv, CallTree
    <3>2. pc'[w] = "lock" /\ "lock" \in Pending
      BY <2>3, <2>6 DEF Pending, HasWritten
    <3>3. CallTree(w, content[fpath[w]], attr[fpath[w]], suspect[fpath[w]])'
      BY <1>6, <2>2, <2>3, <2>4, <3>1, <3>2 DEF CallTree, HasRead, disk
    <3> QED
      BY <2>1, <2>2, <2>3, <2>4, <2>6, <3>2, <3>3, IntegrityStepCall
  <2> QED
    BY <2>5, <2>6
<1>8. CASE Lock(w) \/ Unlock(w)
  <2>1. PICK label \in {"unlock", "quick_change"} :
          Goto(w, label) /\ pc[w] \in HasRead
          /\ UNCHANGED <<disk, suspect, fpath, request, mt, result>>
    BY <1>4, <1>8 DEF Lock, Unlock, HasRead, BlankBehind
  <2>2. pc'[w] = label /\ label \in Pending /\ label \in HasRead /\ pc[w] # "idle"
    BY <2>1 DEF Goto, IInv, CallInv, Pending, HasWritten, HasRead
  <2>3. CallTree(w, content[fpath[w]], attr[fpath[w]], suspect[fpath[w]])'
    BY <1>4, <1>6, <2>1, <2>2 DEF CallTree, disk
  <2> QED
    BY <2>1, <2>2, <2>3, IntegrityStepCall
<1>9. CASE QuickChange(w)
  <2>1. PICK tail \in BufTails :
          LET tree == quick_change(mt[w], request[w].offset, request[w].buf \o tail)
          IN  IF tree = Null
              THEN Goto(w, "pages_in_need") /\ UNCHANGED result
              ELSE Answer(w, tree) /\ Goto(w, "setxattr")
    BY <1>9 DEF QuickChange
  <2> DEFINE tree == quick_change(mt[w], r.offset, r.buf \o tail)
  <2>2. pc[w] = "quick_change" /\ UNCHANGED <<disk, suspect, fpath, request, mt>>
    BY <1>9 DEF QuickChange
  <2>3. /\ IsSomeTree(mt[w]) /\ LeafCount(mt[w]) \in Nat /\ LeafCount(mt[w]) >= 1
        /\ BlankBehind(mt[w], g) /\ Reaches(mt[w], r) /\ pc[w] \in Pending
        /\ Written(g, r) /\ p \in Nat /\ p < PagesOf(Len(g)) /\ PagesOf(Len(g)) \in Nat
    BY <1>3, <1>4, <2>2 DEF HasRead
  <2>4. IF is_full(r.offset) /\ p < 2 * LeafCount(mt[w])
        THEN IsSomeTree(tree) /\ ChangesLeaf(tree, mt[w], p, PageBytes(g, p))
        ELSE tree = Null
    BY <1>1, <2>3, QuickChangeData
  <2> HIDE DEF tree
  <2>5. IF tree = Null THEN Goto(w, "pages_in_need") /\ UNCHANGED result
        ELSE Answer(w, tree) /\ Goto(w, "setxattr")
    BY <2>1 DEF tree
  <2>6. CASE tree = Null
    <3>1. ~is_full(r.offset)
      <4>1. p <= LeafCount(mt[w])
        BY <2>3 DEF Reaches
      <4>2. IsSomeTree(tree) => tree # Null
        BY TreeIsNotNull
      <4> HIDE DEF p, r
      <4> QED
        BY <2>3, <2>4, <2>6, <4>1, <4>2
    <3>2. pc'[w] = "pages_in_need" /\ UNCHANGED result
      BY <2>5, <2>6 DEF Goto, IInv, CallInv
    <3>3. CallTree(w, content[fpath[w]], attr[fpath[w]], suspect[fpath[w]])'
      BY <1>6, <2>2, <2>3, <3>1, <3>2 DEF CallTree, HasRead, disk
    <3>4. "pages_in_need" \in Pending
      BY DEF Pending, HasWritten
    <3> QED
      BY <2>2, <2>5, <2>6, <3>2, <3>3, <3>4, IntegrityStepCall
  <2>7. CASE tree # Null
    <3>1. BlankBehind(tree, g)
      <4>1. IsSomeTree(tree) /\ ChangesLeaf(tree, mt[w], p, PageBytes(g, p))
        BY <2>4, <2>7
      <4>2. LeafCount(tree) \in Nat
        BY <4>1, LeafCountType
      <4> HIDE DEF p, g
      <4> QED
        BY <2>3, <4>1, <4>2, BlankAfter, TreeIsNotEmpty
    <3> QED
      BY <2>2, <2>3, <2>5, <2>7, <3>1, IntegrityAnswer
  <2> QED
    BY <2>6, <2>7
<1>10. CASE PagesInNeed(w)
  <2> DEFINE strings == ChangedPages(g, r.offset, Len(r.buf))
             tree    == UpdatePages(mt[w], r.offset, strings)
  <2>1. pc[w] = "pages_in_need" /\ ~is_full(r.offset)
    BY <1>2, <1>10 DEF PagesInNeed, CallTree
  <2>2. \/ /\ Goto(w, "compute_merkle")
           /\ UNCHANGED <<disk, lock, fpath, request, mt, result, calls, suspect>>
        \/ strings = Null
        \/ /\ IF tree = Null
              THEN Goto(w, "free") /\ UNCHANGED result
              ELSE Answer(w, tree) /\ Goto(w, "setxattr")
           /\ UNCHANGED <<disk, lock, fpath, request, mt, calls, suspect>>
    BY <1>10 DEF PagesInNeed
  <2>3. /\ IsSomeTree(mt[w]) /\ LeafCount(mt[w]) \in Nat
        /\ BlankBehind(mt[w], g) /\ Reaches(mt[w], r) /\ pc[w] \in Pending
        /\ Written(g, r) /\ p \in Nat /\ p < PagesOf(Len(g)) /\ PagesOf(Len(g)) \in Nat
    BY <1>3, <1>4, <2>1 DEF HasRead
  <2>4. strings # Null /\ IsSomeTree(tree) /\ ChangesLeaf(tree, mt[w], p, PageBytes(g, p))
    <3>1. p < LeafCount(mt[w])
      BY <2>1, <2>3 DEF Reaches
    <3> QED
      BY <1>1, <2>1, <2>3, <3>1, PagesInNeedData
  <2> HIDE DEF tree, strings
  <2>5. tree # Null /\ BlankBehind(tree, g)
    <3>1. LeafCount(tree) \in Nat /\ tree # Null
      BY <2>4, LeafCountType, TreeIsNotNull
    <3> HIDE DEF p, g
    <3> QED
      BY <2>3, <2>4, <3>1, BlankAfter, TreeIsNotEmpty
  <2> QED
    BY <2>2, <2>3, <2>4, <2>5, IntegrityAnswer, IntegrityGoOn
<1>11. CASE MComputeMerkle(w)
  <2>1. pc[w] = "m_compute"
    BY <1>11 DEF MComputeMerkle
  <2>2. pc[w] \in HasWritten /\ pc[w] \in Pending
    BY <2>1 DEF HasWritten, Pending
  <2>3. \/ /\ Goto(w, "compute_merkle")
           /\ UNCHANGED <<disk, lock, fpath, request, mt, result, calls, suspect>>
        \/ /\ Answer(w, made) /\ Goto(w, "setxattr")
           /\ UNCHANGED <<disk, lock, fpath, request, mt, calls, suspect>>
        \/ /\ ~(Len(g) \div PAGE_LENGTH < NbThreads)
           /\ made = Null \/ TreeSize(Len(g)) = NbThreads
    <3>1. \/ /\ Goto(w, "compute_merkle")
             /\ UNCHANGED <<disk, lock, fpath, request, mt, result, calls, suspect>>
          \/ /\ Len(g) \div PAGE_LENGTH >= NbThreads
             /\ made = Null \/ TreeSize(Len(g)) = NbThreads
          \/ /\ Answer(w, made) /\ Goto(w, "setxattr")
             /\ UNCHANGED <<disk, lock, fpath, request, mt, calls, suspect>>
      BY <1>11 DEF MComputeMerkle, made
    <3>2. Len(g) \div PAGE_LENGTH >= NbThreads => ~(Len(g) \div PAGE_LENGTH < NbThreads)
      <4>1. Len(g) \in Nat
        BY <1>1
      <4>2. Len(g) \div PAGE_LENGTH \in Nat /\ NbThreads \in Nat
        BY <4>1, PageArith, WriteAssumption
      <4> HIDE DEF g
      <4> QED
        BY <4>2
    <3> QED
      BY <3>1, <3>2
  <2>4. Len(g) \div PAGE_LENGTH < NbThreads \/ TreeSize(Len(g)) # NbThreads
    BY <1>1 DEF Buildable
  <2> QED
    BY <1>5, <2>2, <2>3, <2>4, IntegrityAnswer, IntegrityGoOn
<1>12. CASE ComputeMerkle(w)
  <2>1. pc[w] = "compute_merkle"
    BY <1>12 DEF ComputeMerkle
  <2>2. pc[w] \in HasWritten /\ pc[w] \in Pending
    BY <2>1 DEF HasWritten, Pending
  <2>3. Answer(w, made) /\ Goto(w, "setxattr")
        /\ UNCHANGED <<disk, lock, fpath, request, mt, calls, suspect>>
    BY <1>5, <1>12, <2>2 DEF ComputeMerkle, made
  <2> QED
    BY <1>5, <2>2, <2>3, IntegrityAnswer
<1>13. ~FopenFails(w)
  BY DEF FopenFails, NothingFails
<1> QED
  BY <1>7, <1>8, <1>9, <1>10, <1>11, <1>12, <1>13, IntegrityPwrite, IntegritySetxattr,
     IntegrityFree DEF Step

LEMMA IntegrityNext ==
  ASSUME CarefulUse, NullIsNoTree, NothingFails
  PROVE  Buildable /\ IInv /\ DataInv /\ IntegrityInv /\ [Next]_vars => IntegrityInv'
<1> SUFFICES ASSUME Buildable, IInv, DataInv, IntegrityInv, [Next]_vars PROVE IntegrityInv'
  OBVIOUS
<1>1. CASE \E w \in Writers : Start(w) \/ Step(w)
  BY <1>1, IntegrityStart, IntegrityCall
<1>2. CASE Crash \/ \E f \in Paths : Truncate(f) \/ Ftruncate(f) \/ SetxattrByUser(f)
  BY <1>2 DEF Crash, Truncate, Ftruncate, SetxattrByUser, CarefulUse, NothingFails
<1>3. CASE \E f \in Paths : Removexattr(f)
  <2>1. PICK f \in Paths : Removexattr(f)
    BY <1>3
  <2>2. /\ Active(f) = {} /\ UNCHANGED <<content, pc, fpath, request, mt, result>>
        /\ attr' = [attr EXCEPT ![f] = Null] /\ suspect' = [suspect EXCEPT ![f] = {}]
    BY <2>1 DEF Removexattr, CarefulUse
  <2>3. /\ attr'[f] = Null /\ suspect'[f] = {}
        /\ \A g \in Paths \ {f} : attr'[g] = attr[g] /\ suspect'[g] = suspect[g]
    BY <2>2 DEF IInv, DiskInv, DataInv
  <2>4. ASSUME NEW w \in Writers
        PROVE  CallTree(w, content[fpath[w]], attr[fpath[w]], suspect[fpath[w]])'
    <3>1. CASE pc[w] = "idle"
      BY <2>2, <3>1 DEF CallTree, Pending, HasWritten, HasRead
    <3>2. CASE pc[w] # "idle"
      <4>1. fpath[w] # f /\ fpath[w] \in Paths
        BY <2>2, <3>2 DEF Active, IInv, CallInv
      <4>2. CallTree(w, content[fpath[w]], attr[fpath[w]], suspect[fpath[w]])
        BY DEF IntegrityInv
      <4> QED
        BY <2>2, <2>3, <4>1, <4>2 DEF CallTree
    <3> QED
      BY <3>1, <3>2
  <2>5. ASSUME NEW g \in Paths
        PROVE  /\ attr'[g] # Null => BlankBehind(attr'[g], content'[g])
               /\ PendingOn(g)' = {} => suspect'[g] = {}
    <3>1. PendingOn(g)' = PendingOn(g)
      BY <2>2 DEF PendingOn
    <3> QED
      BY <2>2, <2>3, <3>1 DEF IntegrityInv
  <2> QED
    BY <2>4, <2>5 DEF IntegrityInv
<1>4. CASE Quiet \/ UNCHANGED vars
  <2>1. UNCHANGED <<content, attr, pc, fpath, request, mt, result, suspect>>
    BY <1>4 DEF Quiet, vars, disk
  <2>2. \A w \in Writers : CallTree(w, content[fpath[w]], attr[fpath[w]], suspect[fpath[w]])'
    BY <2>1 DEF IntegrityInv, CallTree
  <2>3. \A g \in Paths : PendingOn(g)' = PendingOn(g)
    BY <2>1 DEF PendingOn
  <2> QED
    BY <2>1, <2>2, <2>3 DEF IntegrityInv
<1> QED
  BY <1>1, <1>2, <1>3, <1>4 DEF Next

\* "A filesystem that guarantees file integrity with Merkle Trees" (README), where it does:
\* with one call per file at a time, requests that bb_write can handle and no failure but of
\* getxattr, the attribute of a file on which no call is running is the Merkle tree of what
\* the file holds. Buildable says of each state that no file has come to the one size whose
\* tree m_build_tree does not build.
THEOREM AttributesDescribe ==
  ASSUME CarefulUse, NullIsNoTree, NothingFails
  PROVE  Spec /\ []Buildable => []AttributeDescribesFile
<1>1. Init => DataInv /\ IntegrityInv
  BY DataInit, IntegrityInit
<1>2. IInv /\ DataInv /\ [Next]_vars => DataInv'
  BY DataNext
<1>3. Buildable /\ IInv /\ DataInv /\ IntegrityInv /\ [Next]_vars => IntegrityInv'
  BY IntegrityNext
<1>4. IInv /\ DataInv /\ IntegrityInv => AttributeDescribesFile
  <2>1. SUFFICES ASSUME IInv, DataInv, IntegrityInv, NEW f \in Paths, Active(f) = {}, attr[f] # Null
                 PROVE  Describes(attr[f], content[f])
    BY DEF AttributeDescribesFile
  <2>2. PendingOn(f) = {}
    BY <2>1 DEF Active, PendingOn, Pending, HasWritten
  <2> QED
    BY <2>1, <2>2, Settled
<1> QED
  BY <1>1, <1>2, <1>3, <1>4, Invariance, PTL DEF Spec

-----------------------------------------------------------------------------
(***************************************************************************)
(* bb_write implements FileIntegrity.  The definitions of FileIntegrity    *)
(* are instances of those of TreeOps; they say the same.                   *)
(***************************************************************************)

\* Both modules describe a file alike.
LEMMA SameShl == Integrity!shl = shl
  BY DEF Integrity!shl, shl

LEMMA SameHeight == \A hash : Integrity!HeightOfTree(hash) = HeightOfTree(hash)
<1>1. \A S : Integrity!Cardinality(S) = Cardinality(S)
  BY DEF Integrity!Cardinality, Cardinality
<1>2. \A n : Integrity!Log2(n) = Log2(n)
  BY SameShl DEF Integrity!Log2, Log2, Integrity!MaxShift, MaxShift
<1> QED
  BY <1>1, <1>2 DEF Integrity!HeightOfTree, HeightOfTree

LEMMA SameDescription ==
  ASSUME NEW hash, NEW f, Describes(hash, f)
  PROVE  Integrity!Describes(hash, f)
<1>1. Integrity!LeafCount(hash) = LeafCount(hash)
  BY SameShl, SameHeight DEF Integrity!LeafCount, LeafCount
<1>2. \A n : Integrity!PagesOf(n) = PagesOf(n)
  BY DEF Integrity!PagesOf, PagesOf, Integrity!is_full, is_full
<1>3. \A k : Integrity!Page(f, k) = Page(f, k)
  BY <1>2 DEF Integrity!Page, Page, Integrity!PageBytes, PageBytes
<1>4. \A h : Integrity!Leaves(h) = Leaves(h) /\ Integrity!Nodes(h) = Nodes(h)
             /\ Integrity!Interior(h) = Interior(h)
  BY SameShl DEF Integrity!Leaves, Leaves, Integrity!Nodes, Nodes, Integrity!Interior, Interior
<1>5. \A D, h : IsMerkleTree(hash, D, h) => Integrity!IsMerkleTree(hash, D, h)
  BY <1>4 DEF IsMerkleTree, Good, HasText, LeafHash, NodeHashes, Text, Garbage,
    Integrity!IsMerkleTree, Integrity!Good, Integrity!HasText, Integrity!LeafHash,
    Integrity!NodeHashes, Integrity!Text, Integrity!Garbage
<1>6. [x \in Integrity!Leaves(HeightOfTree(hash)) |-> Integrity!Page(f, x - shl[HeightOfTree(hash) - 1])]
        = [x \in Leaves(HeightOfTree(hash)) |-> Page(f, x - shl[HeightOfTree(hash) - 1])]
  BY <1>3, <1>4
<1> QED
  BY SameShl, SameHeight, <1>1, <1>2, <1>5, <1>6 DEF Integrity!Describes, Describes

\* The files on which a call is running.
Busy == {f \in Paths : Active(f) # {}}

\* A call that goes on keeps its file busy.
LEMMA StaysBusy ==
  ASSUME IInv, NEW w \in Writers, NEW label, pc[w] # "idle", label # "idle",
         pc' = [pc EXCEPT ![w] = label], UNCHANGED fpath
  PROVE  Busy' = Busy
<1>1. pc'[w] = label /\ \A v \in Writers \ {w} : pc'[v] = pc[v]
  BY DEF IInv, CallInv
<1>2. \A v \in Writers : pc'[v] # "idle" <=> pc[v] # "idle"
  BY <1>1
<1> QED
  BY <1>2 DEF Busy, Active

\* Every step of bb_write is one of FileIntegrity, or changes none of its variables.
LEMMA IntegritySimulates ==
  ASSUME CarefulUse, NullIsNoTree, NothingFails, Buildable, IInv, DataInv, IntegrityInv,
         [Next]_vars
  PROVE  [Integrity!Next]_<<content, attr, Busy>>
<1>1. ASSUME NEW w \in Writers, Start(w)
      PROVE  Integrity!Next
  <2>1. PICK f \in Paths : Active(f) = {} /\ fpath' = [fpath EXCEPT ![w] = f]
    BY <1>1 DEF Start, CarefulUse
  <2>2. pc[w] = "idle" /\ pc' = [pc EXCEPT ![w] = "pwrite"] /\ UNCHANGED <<content, attr>>
    BY <1>1 DEF Start, Goto, disk
  <2>3. /\ pc'[w] = "pwrite" /\ fpath'[w] = f
        /\ \A v \in Writers \ {w} : pc'[v] = pc[v] /\ fpath'[v] = fpath[v]
    BY <2>1, <2>2 DEF IInv, CallInv
  <2>4. Active(f)' # {}
    BY <2>3 DEF Active
  <2>5. \A g \in Paths \ {f} : Active(g)' = Active(g)
    BY <2>2, <2>3 DEF Active
  <2>6. f \notin Busy /\ Busy' = Busy \cup {f}
    BY <2>1, <2>4, <2>5 DEF Busy
  <2>7. Integrity!Call(f)
    BY <2>2, <2>6 DEF Integrity!Call, Busy
  <2> QED
    BY <2>7 DEF Integrity!Next
<1>2. ASSUME NEW w \in Writers, Step(w)
      PROVE  Integrity!Next \/ UNCHANGED <<content, attr, Busy>>
  <2> DEFINE f == fpath[w]
  <2>1. f \in Paths
    BY DEF IInv, CallInv
  <2>2. Works(w) \/ Pwrite(w) \/ Setxattr(w) \/ Free(w)
    BY <1>2, IntegrityCall
  <2>3. pc[w] # "idle"
    BY <1>2 DEF Step, Pwrite, Getxattr, Lock, Unlock, QuickChange, FopenFails, PagesInNeed,
                MComputeMerkle, ComputeMerkle, Setxattr, Free
  <2>4. f \in Busy
    BY <2>1, <2>3 DEF Busy, Active
  <2>5. CASE Works(w)
    <3>1. PICK label \in Pending : pc' = [pc EXCEPT ![w] = label] /\ UNCHANGED <<content, attr, fpath>>
      BY <2>5 DEF Works, Goto, disk
    <3>2. label # "idle"
      BY <3>1 DEF Pending, HasWritten
    <3> QED
      BY <2>3, <3>1, <3>2, StaysBusy
  <2>6. CASE Pwrite(w)
    <3>1. PICK new : content' = [content EXCEPT ![f] = new]
      BY <2>6 DEF Pwrite
    <3>2. pc' = [pc EXCEPT ![w] = "getxattr"] /\ UNCHANGED <<attr, fpath>>
      BY <2>6 DEF Pwrite, Goto
    <3>3. Busy' = Busy
      BY <2>3, <3>2, StaysBusy
    <3>4. content' = [content EXCEPT ![f] = content'[f]]
      BY <2>1, <3>1 DEF IInv, DiskInv
    <3>5. Integrity!Store(f)
      BY <2>4, <3>2, <3>3, <3>4 DEF Integrity!Store, Busy
    <3> QED
      BY <2>1, <3>5 DEF Integrity!Next
  <2>7. CASE Setxattr(w)
    <3>1. pc[w] = "setxattr" /\ pc' = [pc EXCEPT ![w] = "free"] /\ UNCHANGED <<content, fpath>>
      BY <2>7 DEF Setxattr, Goto
    <3>2. Busy' = Busy
      BY <2>3, <3>1, StaysBusy
    <3>3. attr' = [attr EXCEPT ![f] = result[w]]
      BY <2>7, IntegritySetxattr
    <3>4. attr'[f] = result[w] /\ attr' = [attr EXCEPT ![f] = attr'[f]]
      BY <2>1, <3>3 DEF IInv, DiskInv
    <3>5. result[w] # Null /\ Integrity!Describes(result[w], content[f])
      BY <3>1, StoresDescription, SameDescription
    <3>6. Integrity!Publish(f)
      BY <2>4, <3>1, <3>2, <3>4, <3>5 DEF Integrity!Publish, Busy
    <3> QED
      BY <2>1, <3>6 DEF Integrity!Next
  <2>8. CASE Free(w)
    <3>1. UNCHANGED <<content, attr>>
      BY <2>8, IntegrityFree
    <3>2. pc[w] = "free" /\ result[w] # Null /\ attr[f] # Null
      BY <2>8 DEF Free, IntegrityInv, CallTree
    <3>3. pc' = [pc EXCEPT ![w] = "idle"] /\ fpath' = [fpath EXCEPT ![w] = AnyPath]
      BY <2>8, <3>2 DEF Free, Goto
    <3>4. /\ pc'[w] = "idle"
          /\ \A v \in Writers \ {w} : pc'[v] = pc[v] /\ fpath'[v] = fpath[v]
      BY <3>3 DEF IInv, CallInv
    <3>5. \A v \in Writers : pc'[v] # "idle" => fpath'[v] # f
      BY <2>3, <3>4 DEF DataInv, Alone
    <3>6. \A g \in Paths \ {f} : Active(g)' = Active(g)
      BY <3>4 DEF Active
    <3>7. \A g \in Paths : g = f => Active(g)' = {}
      BY <3>5 DEF Active
    <3>8. Busy' = Busy \ {f}
      BY <3>6, <3>7 DEF Busy
    <3>9. PendingOn(f) = {}
      BY <3>2 DEF PendingOn, DataInv, Alone, Pending, HasWritten
    <3>10. Integrity!Describes(attr[f], content[f])
      BY <2>1, <3>2, <3>9, Settled, SameDescription
    <3>11. Integrity!Return(f)
      BY <2>4, <3>1, <3>2, <3>8, <3>10 DEF Integrity!Return, Busy
    <3> QED
      BY <2>1, <3>11 DEF Integrity!Next
  <2> QED
    BY <2>2, <2>5, <2>6, <2>7, <2>8
<1>3. ASSUME NEW f \in Paths, Removexattr(f)
      PROVE  Integrity!Next
  <2>1. /\ Active(f) = {} /\ UNCHANGED <<content, pc, fpath>>
        /\ attr' = [attr EXCEPT ![f] = Null]
    BY <1>3 DEF Removexattr, CarefulUse
  <2>2. Busy' = Busy /\ f \notin Busy
    BY <2>1 DEF Busy, Active
  <2>3. Integrity!Remove(f)
    BY <2>1, <2>2 DEF Integrity!Remove, Busy
  <2> QED
    BY <2>3 DEF Integrity!Next
<1>4. ~Crash /\ \A f \in Paths : ~Truncate(f) /\ ~Ftruncate(f) /\ ~SetxattrByUser(f)
  BY DEF Crash, Truncate, Ftruncate, SetxattrByUser, CarefulUse, NothingFails
<1>5. CASE Quiet \/ UNCHANGED vars
  BY <1>5 DEF Quiet, vars, disk, Busy, Active
<1> QED
  BY <1>1, <1>2, <1>3, <1>4, <1>5 DEF Next

\* The same promise for every step: with such use and without such failures, a tree is only
\* stored for what the file holds at that moment, and a call of bb_write does not return
\* before one is.
THEOREM ImplementsIntegrity ==
  ASSUME CarefulUse, NullIsNoTree, NothingFails
  PROVE  Spec /\ []Buildable => ImplementsFileIntegrity
<1>1. Init => DataInv /\ IntegrityInv
  BY DataInit, IntegrityInit
<1>2. IInv /\ DataInv /\ [Next]_vars => DataInv'
  BY DataNext
<1>3. Buildable /\ IInv /\ DataInv /\ IntegrityInv /\ [Next]_vars => IntegrityInv'
  BY IntegrityNext
<1>4. ASSUME Init, IInv, DataInv, IntegrityInv
      PROVE  Integrity!Init
  <2>1. content \in [Paths -> OldFiles] /\ attr = [f \in Paths |-> attr[f]]
    BY <1>4 DEF Init, IInv, DiskInv
  <2>2. \A f \in Paths : Active(f) = {} /\ PendingOn(f) = {}
    BY <1>4 DEF Init, Active, PendingOn, Pending, HasWritten
  <2>3. \A f \in Paths : attr[f] # Null => Integrity!Describes(attr[f], content[f])
    BY <1>4, <2>2, Settled, SameDescription
  <2> QED
    BY <2>1, <2>2, <2>3 DEF Integrity!Init
<1>5. Buildable /\ IInv /\ DataInv /\ IntegrityInv /\ [Next]_vars
        => [Integrity!Next]_<<content, attr, Busy>>
  BY IntegritySimulates
<1>6. Integrity!Spec <=> Integrity!Init /\ [][Integrity!Next]_<<content, attr, Busy>>
  BY DEF Integrity!Spec, Integrity!vars, Busy
<1> QED
  BY <1>1, <1>2, <1>3, <1>4, <1>5, <1>6, Invariance, PTL DEF Spec, ImplementsFileIntegrity
=============================================================================
