--------------------------- MODULE TreeOpsProofs ---------------------------
(***************************************************************************)
(* Every operation of TreeOps answers Null or a tree in which each node    *)
(* above the leaves is the hash of its children: build_tree hashes all     *)
(* nodes, the others a set of nodes that holds the parent of each of its   *)
(* nodes.                                                                  *)
(***************************************************************************)
EXTENDS TreeOps, ParseProofs, FiniteSetTheorems

\* A printed tree of height h whose leaves are the hashes of strings, and whose other nodes
\* are those of their children.
IsLeafHash(n) == \E s : n = LeafHash(s)

IsTree(hash, h) ==
  /\ hash = [x \in Nodes(h) |-> hash[x]]
  /\ \A x \in Leaves(h) : IsLeafHash(hash[x])
  /\ \A x \in Interior(h) : hash[x] \in NodeHashes(hash[2*x], hash[2*x + 1])

\* The nodes of a tree of height h by number.
LEMMA NodesOf ==
  ASSUME NEW h \in Nat, h >= 1
  PROVE  /\ shl[h] \in Nat /\ shl[h - 1] \in Nat /\ shl[h - 1] >= 1 /\ shl[h] = 2 * shl[h - 1]
         /\ Nodes(h) \subseteq Nat \ {0} /\ 1 \in Nodes(h)
         /\ \A x \in Nodes(h) : x \in Leaves(h) \/ x \in Interior(h)
         /\ \A x \in Leaves(h) : x \in Nodes(h) /\ x \notin Interior(h)
         /\ \A x \in Interior(h) : x \in Nodes(h) /\ 2*x \in Nodes(h) /\ 2*x + 1 \in Nodes(h)
<1>1. h - 1 \in Nat /\ (h - 1) + 1 = h
  OBVIOUS
<1>2. shl[h - 1] \in Nat /\ shl[h - 1] >= 1 /\ shl[h] = 2 * shl[h - 1]
  BY <1>1, ShlType, ShlSucc
<1> QED
  BY <1>2 DEF Nodes, Leaves, Interior

\* Interior nodes always have a hash.
LEMMA ParentHashType == \A l, r : ParentHash(l, r) \in NodeHashes(l, r)
<1> TAKE l, r
<1>1. \E s : s \in NodeHashes(l, r)
  BY TailsAssumption DEF NodeHashes
<1> QED
  BY <1>1 DEF ParentHash

-----------------------------------------------------------------------------
\* What Rehash stores in node x, when f is the new tree.
Hashed(f, hash, data, h, nodes, x) ==
  IF x \notin nodes THEN hash[x]
  ELSE IF x \in Leaves(h) THEN LeafHash(data[x])
  ELSE ParentHash(f[2*x], f[2*x + 1])

\* The new tree can be computed from the last node down to the first: the equations of
\* Rehash have a solution.
LEMMA HashedExists ==
  ASSUME NEW h \in Nat, h >= 1, NEW hash, NEW data, NEW nodes
  PROVE  \E f : f = [x \in Nodes(h) |-> Hashed(f, hash, data, h, nodes, x)]
<1> DEFINE N == shl[h] - 1
           H(f, x) == Hashed(f, hash, data, h, nodes, x)
           From(m) == N - m + 1 .. N
           Sol(f, m) == DOMAIN f = From(m) /\ \A x \in From(m) : f[x] = H(f, x)
           S == {m \in Nat : m <= N => \E f : Sol(f, m)}
<1>1. N \in Nat /\ N >= 1 /\ Nodes(h) = 1..N
  BY NodesOf DEF Nodes
<1> HIDE DEF N
<1>2. 0 \in S
  <2>1. Sol([x \in From(0) |-> 0], 0)
    <3>1. From(0) = {}
      BY <1>1
    <3> QED
      BY <3>1
  <2> QED
    BY <2>1
<1>3. ASSUME NEW m \in Nat, m \in S PROVE m + 1 \in S
  <2>1. SUFFICES ASSUME m + 1 <= N PROVE \E g : Sol(g, m + 1)
    OBVIOUS
  <2>2. PICK f : Sol(f, m)
    BY <1>1, <1>3, <2>1
  <2> DEFINE y == N - m
             g == [x \in y..N |-> IF x = y THEN H(f, y) ELSE f[x]]
  <2>3. y \in Nat /\ y >= 1 /\ y <= N /\ From(m + 1) = y..N /\ From(m) = y + 1..N
    BY <1>1, <2>1
  <2>4. \A x \in y + 1..N : x # y /\ x \in y..N
    BY <1>1, <2>3
  <2> HIDE DEF y
  <2>5. DOMAIN g = y..N /\ g[y] = H(f, y) /\ \A x \in y + 1..N : g[x] = f[x]
    BY <1>1, <2>3, <2>4
  <2> HIDE DEF g
  <2>6. ASSUME NEW x \in y..N PROVE H(g, x) = H(f, x)
    <3>1. CASE x \in Leaves(h) \/ x \notin nodes
      BY <3>1 DEF Hashed
    <3>2. CASE x \notin Leaves(h)
      <4>1. x \in Nodes(h) /\ x \in Nat /\ x >= y
        BY <1>1, <2>3
      <4>2. x \in Interior(h)
        BY <3>2, <4>1, NodesOf
      <4>3. 2*x \in 1..N /\ 2*x + 1 \in 1..N
        BY <1>1, <4>2, NodesOf
      <4>4. 2*x \in y + 1..N /\ 2*x + 1 \in y + 1..N
        BY <1>1, <2>3, <4>1, <4>3
      <4>5. g[2*x] = f[2*x] /\ g[2*x + 1] = f[2*x + 1]
        BY <2>5, <4>4
      <4> QED
        BY <4>5 DEF Hashed
    <3> QED
      BY <3>1, <3>2
  <2>7. ASSUME NEW x \in y..N PROVE g[x] = H(g, x)
    <3>1. CASE x = y
      BY <2>5, <2>6, <3>1
    <3>2. CASE x # y
      <4>1. x \in y + 1..N
        BY <1>1, <2>3, <3>2
      <4>2. f[x] = H(f, x)
        BY <2>2, <2>3, <4>1
      <4> HIDE DEF H
      <4> QED
        BY <2>5, <2>6, <4>1, <4>2
    <3> QED
      BY <3>1, <3>2
  <2>8. Sol(g, m + 1)
    BY <2>3, <2>5, <2>7
  <2> QED
    BY <2>8
<1>4. N \in S
  <2>1. Nat \subseteq S
    <3> HIDE DEF S
    <3> QED
      BY <1>2, <1>3, SetInduction
  <2> QED
    BY <1>1, <2>1
<1>5. PICK f : Sol(f, N)
  BY <1>1, <1>4
<1>6. From(N) = Nodes(h)
  BY <1>1
<1> DEFINE g == [x \in Nodes(h) |-> f[x]]
<1>7. ASSUME NEW x \in Nodes(h) PROVE g[x] = H(g, x)
  <2>1. g[x] = f[x] /\ f[x] = H(f, x)
    BY <1>5, <1>6
  <2>2. H(f, x) = H(g, x)
    <3>1. CASE x \in Interior(h)
      <4>1. 2*x \in Nodes(h) /\ 2*x + 1 \in Nodes(h)
        BY <3>1, NodesOf
      <4>2. g[2*x] = f[2*x] /\ g[2*x + 1] = f[2*x + 1]
        BY <4>1
      <4> HIDE DEF g
      <4> QED
        BY <4>2 DEF Hashed
    <3>2. CASE x \in Leaves(h)
      BY <3>2 DEF Hashed
    <3> QED
      BY <3>1, <3>2, NodesOf
  <2> HIDE DEF g, H
  <2> QED
    BY <2>1, <2>2
<1>8. g = [x \in Nodes(h) |-> H(g, x)]
  <2>1. g = [x \in Nodes(h) |-> g[x]]
    OBVIOUS
  <2> HIDE DEF g, H
  <2> QED
    BY <1>7, <2>1
<1> QED
  <2> HIDE DEF g
  <2> QED
    BY <1>8

\* hash_node answers -1 for none of the given nodes.
Hashable(data, h, nodes) ==
  nodes \subseteq Nodes(h) /\ \A x \in nodes \cap Leaves(h) : data[x] # Null

\* Rehash answers Null or the new tree.
LEMMA RehashIs ==
  ASSUME NEW h \in Nat, h >= 1, NEW hash, NEW data, NEW nodes,
         Hashable(data, h, nodes) \/ Rehash(hash, data, h, nodes) # Null
  PROVE  /\ nodes \subseteq Nodes(h)
         /\ \E f : /\ f = [x \in Nodes(h) |-> Hashed(f, hash, data, h, nodes, x)]
                   /\ Rehash(hash, data, h, nodes) = f
<1> DEFINE new == CHOOSE f : f = [x \in Nodes(h) |-> Hashed(f, hash, data, h, nodes, x)]
<1>1. new = [x \in Nodes(h) |-> Hashed(new, hash, data, h, nodes, x)]
  BY HashedExists
<1>2. new = [x \in Nodes(h) |-> new[x]]
  <2> HIDE DEF new
  <2>1. \A x \in Nodes(h) : new[x] = Hashed(new, hash, data, h, nodes, x)
    BY <1>1
  <2> QED
    BY <1>1, <2>1
<1>3. /\ nodes \subseteq Nodes(h)
      /\ Rehash(hash, data, h, nodes) = [x \in Nodes(h) |-> new[x]]
  BY DEF Rehash, Hashed, Hashable
<1> HIDE DEF new
<1> QED
  BY <1>1, <1>2, <1>3

\* When the hashed nodes include the parent of each of them, and the other nodes were
\* right before, the new tree is right.
LEMMA RehashTree ==
  ASSUME NEW h \in Nat, h >= 1, NEW hash, NEW data, NEW nodes,
         \A y \in nodes \ {1} : y \div 2 \in nodes,
         \A x \in Leaves(h) \ nodes : IsLeafHash(hash[x]),
         \A x \in Interior(h) \ nodes : hash[x] \in NodeHashes(hash[2*x], hash[2*x + 1]),
         Hashable(data, h, nodes) \/ Rehash(hash, data, h, nodes) # Null
  PROVE  /\ IsTree(Rehash(hash, data, h, nodes), h)
         /\ nodes \subseteq Nodes(h)
         /\ \A x \in Leaves(h) : Rehash(hash, data, h, nodes)[x]
                                   = IF x \in nodes THEN LeafHash(data[x]) ELSE hash[x]
<1> DEFINE T == Rehash(hash, data, h, nodes)
<1>1. nodes \subseteq Nodes(h) /\ T = [x \in Nodes(h) |-> Hashed(T, hash, data, h, nodes, x)]
  BY RehashIs
<1> HIDE DEF T
<1>2. \A x \in Nodes(h) : T[x] = Hashed(T, hash, data, h, nodes, x)
  BY <1>1
<1>3. T = [x \in Nodes(h) |-> T[x]]
  BY <1>1, <1>2
<1>4. ASSUME NEW x \in Interior(h)
      PROVE  T[x] \in NodeHashes(T[2*x], T[2*x + 1])
  <2>1. /\ x \in Nodes(h) /\ x \notin Leaves(h) /\ 2*x \in Nodes(h) /\ 2*x + 1 \in Nodes(h)
        /\ x \in Nat \ {0}
    BY NodesOf
  <2>2. CASE x \in nodes
    <3>1. T[x] = ParentHash(T[2*x], T[2*x + 1])
      BY <1>2, <2>1, <2>2 DEF Hashed
    <3> QED
      BY <3>1, ParentHashType
  <2>3. CASE x \notin nodes
    <3>1. (2*x) \div 2 = x /\ (2*x + 1) \div 2 = x /\ 2*x # 1 /\ 2*x + 1 # 1
      BY <2>1
    <3>2. 2*x \notin nodes /\ 2*x + 1 \notin nodes
      BY <2>3, <3>1
    <3>3. T[x] = hash[x] /\ T[2*x] = hash[2*x] /\ T[2*x + 1] = hash[2*x + 1]
      BY <1>2, <2>1, <2>3, <3>2 DEF Hashed
    <3> QED
      BY <2>3, <3>3
  <2> QED
    BY <2>2, <2>3
<1>5. \A x \in Leaves(h) : T[x] = IF x \in nodes THEN LeafHash(data[x]) ELSE hash[x]
  BY <1>2, NodesOf DEF Hashed
<1>6. \A x \in Leaves(h) : IsLeafHash(T[x])
  BY <1>5 DEF IsLeafHash
<1> QED
  BY <1>1, <1>3, <1>4, <1>5, <1>6 DEF IsTree, T

-----------------------------------------------------------------------------
\* The height of a tree can be told from the number of its nodes.
LEMMA HeightIs ==
  ASSUME NEW h \in 1..MaxShift, NEW hash, IsTree(hash, h)
  PROVE  HeightOfTree(hash) = h /\ LeafCount(hash) = shl[h - 1] /\ DOMAIN hash = Nodes(h)
<1>1. h \in Nat /\ h >= 1 /\ h \in 0..MaxShift
  BY DEF MaxShift
<1>2. shl[h] \in Nat /\ shl[h] >= 1
  BY <1>1, ShlType
<1>3. DOMAIN hash = 1 .. shl[h] - 1
  BY DEF IsTree, Nodes
<1>4. Cardinality(1 .. shl[h] - 1) = shl[h] - 1
  <2>1. shl[h] - 1 \in Int
    BY <1>2
  <2> QED
    BY <1>2, <2>1, FS_Interval
<1>5. Cardinality(DOMAIN hash) + 1 = shl[h]
  BY <1>2, <1>3, <1>4
<1>6. HeightOfTree(hash) = h
  BY <1>1, <1>5, Log2Shl DEF HeightOfTree
<1> QED
  BY <1>3, <1>6 DEF LeafCount, Nodes

\* build_tree hashes every node.
LEMMA BuildTree ==
  ASSUME NEW h \in Nat, h >= 1, NEW strings,
         \/ build_tree(strings, h) # Null
         \/ \A x \in Leaves(h) : strings[x - shl[h - 1] + 1] # Null
  PROVE  /\ IsTree(build_tree(strings, h), h)
         /\ \A x \in Leaves(h) :
              build_tree(strings, h)[x] = LeafHash(strings[x - shl[h - 1] + 1])
<1> DEFINE none == [x \in Nodes(h) |-> Unset]
           leaf == [x \in Leaves(h) |-> strings[x - shl[h - 1] + 1]]
<1>1. build_tree(strings, h) = Rehash(none, leaf, h, Nodes(h))
  BY DEF build_tree
<1>2. \A y \in Nodes(h) \ {1} : y \div 2 \in Nodes(h)
  BY NodesOf DEF Nodes
<1>3. \A x \in Interior(h) : x \in Nodes(h)
  BY NodesOf
<1>4. \A x \in Leaves(h) : x \in Nodes(h) /\ leaf[x] = strings[x - shl[h - 1] + 1]
  BY NodesOf
<1>5. Hashable(leaf, h, Nodes(h)) \/ build_tree(strings, h) # Null
  BY <1>4 DEF Hashable
<1> HIDE DEF none, leaf
<1>6. /\ IsTree(build_tree(strings, h), h)
      /\ \A x \in Leaves(h) : build_tree(strings, h)[x]
                                = IF x \in Nodes(h) THEN LeafHash(leaf[x]) ELSE none[x]
  BY <1>1, <1>2, <1>3, <1>4, <1>5, RehashTree
<1> QED
  BY <1>4, <1>6

\* The tree of a file is not higher than an int allows.
LEMMA HeightOfFile ==
  ASSUME NEW f \in Seq(Bytes), f # <<>>, PagesOf(Len(f)) <= shl[MaxShift - 1]
  PROVE  /\ HeightOf(Len(f)) \in 1..MaxShift /\ PagesOf(Len(f)) <= shl[MaxShift]
         /\ shl[HeightOf(Len(f)) - 1] = TreeSize(Len(f))
         /\ PagesOf(Len(f)) \in Nat /\ PagesOf(Len(f)) <= TreeSize(Len(f))
<1> DEFINE p == PagesOf(Len(f))
           h == HeightOf(Len(f))
<1>1. MaxShift - 1 \in Nat /\ MaxShift \in Nat /\ (MaxShift - 1) + 1 = MaxShift
  BY DEF MaxShift
<1>2. shl[MaxShift - 1] \in Nat /\ shl[MaxShift] = 2 * shl[MaxShift - 1]
  BY <1>1, ShlType, ShlSucc
<1>3. p \in Nat
  <2>1. Len(f) \in Nat
    OBVIOUS
  <2> QED
    BY <2>1, PageArith
<1>4. p <= shl[MaxShift]
  BY <1>2, <1>3
<1>5. h \in 1..MaxShift + 1 /\ shl[h - 1] = TreeSize(Len(f))
      /\ TreeSize(Len(f)) \in Nat /\ p <= TreeSize(Len(f)) /\ TreeSize(Len(f)) < 2 * p
  BY <1>4, LeavesOf
<1>6. h # MaxShift + 1
  BY <1>1, <1>2, <1>3, <1>5
<1> HIDE DEF h
<1>7. h \in 1..MaxShift
  BY <1>1, <1>5, <1>6
<1> QED
  BY <1>3, <1>4, <1>5, <1>7 DEF h

\* compute_merkle.
LEMMA MerkleTree ==
  ASSUME NEW f \in Seq(Bytes), PagesOf(Len(f)) <= shl[MaxShift - 1],
         compute_merkle(f) # Null
  PROVE  \E h \in 1..MaxShift : IsTree(compute_merkle(f), h)
<1> DEFINE h == HeightOf(Len(f))
           strings == Walk([o \in Nat |-> Slot(f, <<>>, o)], TreeSize(Len(f)))
<1>1. compute_merkle(f) = build_tree(strings, h) /\ f # <<>>
  BY DEF compute_merkle
<1>2. h \in 1..MaxShift
  BY <1>1, HeightOfFile
<1> HIDE DEF h, strings
<1>3. h \in Nat /\ h >= 1
  BY <1>2
<1> QED
  BY <1>1, <1>2, <1>3, BuildTree

-----------------------------------------------------------------------------
\* The ancestors of a node, level by level.
LEMMA Ancestors ==
  \A x, l \in Nat : /\ x \div shl[l] \in Nat
                    /\ (x \div shl[l]) \div 2 = x \div shl[l + 1]
<1> TAKE x, l \in Nat
<1> DEFINE b == shl[l]
           q == x \div b
           r == q \div 2
<1>1. b \in Nat /\ b > 0 /\ shl[l + 1] = 2 * b
  BY ShlType, ShlSucc
<1> HIDE DEF b
<1>2. q \in Nat /\ b * q <= x /\ x < b * q + b
  BY <1>1, DivBounds, DivIs
<1> HIDE DEF q
<1>3. r \in Nat /\ (q = 2*r \/ q = 2*r + 1)
  BY <1>2
<1> HIDE DEF r
<1>4. b * (2*r) = (2*b) * r /\ b * (2*r + 1) = (2*b) * r + b /\ (2*b) * r \in Nat
  BY <1>1, <1>3
<1>5. (2*b) * r <= x /\ x < (2*b) * r + 2*b
  BY <1>1, <1>2, <1>3, <1>4
<1>6. x \div (2*b) = r
  <2>1. 2*b \in Nat /\ 2*b > 0
    BY <1>1
  <2> QED
    BY <1>3, <1>5, <2>1, DivIs
<1> QED
  BY <1>1, <1>2, <1>6 DEF b, q, r

\* The last ancestor of a leaf is the root.
LEMMA RootOf ==
  ASSUME NEW h \in Nat, h >= 1, NEW x \in Leaves(h)
  PROVE  x \div shl[h - 1] = 1
<1>1. shl[h - 1] \in Nat /\ shl[h - 1] > 0 /\ shl[h] = 2 * shl[h - 1] /\ x \in Nat
      /\ shl[h - 1] <= x /\ x < shl[h]
  BY NodesOf DEF Leaves
<1>2. shl[h - 1] * 1 = shl[h - 1]
  BY <1>1
<1> QED
  BY <1>1, <1>2, DivIs

-----------------------------------------------------------------------------
\* change_and_rebuild of one leaf hashes all its ancestors.
LEMMA ChangeLeafTree ==
  ASSUME NEW h \in Nat, h >= 1, NEW hash, IsTree(hash, h), NEW index \in Nat,
         index >= shl[h - 1], NEW s, ChangeLeaf(hash, h, index, s) # Null
  PROVE  IsTree(ChangeLeaf(hash, h, index, s), h)
<1> DEFINE nodes == {index \div shl[l] : l \in 0..h - 1}
           leaf  == WithData(h, index, <<s>>)
<1>1. ChangeLeaf(hash, h, index, s) = Rehash(hash, leaf, h, nodes)
  BY DEF ChangeLeaf
<1> HIDE DEF leaf
<1>2. nodes \subseteq Nodes(h)
  <2> HIDE DEF nodes
  <2> QED
    BY <1>1, RehashIs
<1>3. index \in Leaves(h)
  <2>1. index \div shl[0] \in nodes /\ index \div shl[0] = index
    BY ShlZero
  <2> QED
    BY <1>2, <2>1, NodesOf DEF Nodes, Leaves
<1>4. ASSUME NEW y \in nodes \ {1} PROVE y \div 2 \in nodes
  <2>1. PICK l \in 0..h - 1 : y = index \div shl[l]
    OBVIOUS
  <2>2. l # h - 1
    BY <1>3, <1>4, <2>1, RootOf
  <2>3. l \in Nat /\ l + 1 \in 0..h - 1
    BY <2>2
  <2>4. y \div 2 = index \div shl[l + 1]
    BY <2>1, <2>3, Ancestors
  <2> QED
    BY <2>3, <2>4
<1> HIDE DEF nodes
<1>5. /\ \A x \in Leaves(h) \ nodes : IsLeafHash(hash[x])
      /\ \A x \in Interior(h) \ nodes : hash[x] \in NodeHashes(hash[2*x], hash[2*x + 1])
  BY DEF IsTree
<1> QED
  BY <1>1, <1>4, <1>5, RehashTree

\* The lengths of the runs that change_and_rebuild hashes in FILE_MODE.
LEMMA RunLengths ==
  ASSUME NEW n \in Nat
  PROVE  /\ RunLength(n, 0) = n
         /\ \A l \in Nat : /\ RunLength(n, l) \in Nat
                           /\ RunLength(n, l + 1) = RunLength(n, l) \div 2 + 1
<1> DEFINE F == [p \in Nat \X Nat |-> p[2] \div 2 + 1]
<1>1. F \in [Nat \X Nat -> Nat]
  OBVIOUS
<1>2. \A i, m \in Nat : F[<<i, m>>] = m \div 2 + 1
  OBVIOUS
<1> HIDE DEF F
<1>3. PICK f \in [Nat -> Nat] : Iterates(f, n, F)
  BY <1>1, Iteration
<1>4. ASSUME NEW m \in Nat, m # 0 PROVE f[m] = f[m - 1] \div 2 + 1
  <2>1. m - 1 \in Nat /\ (m - 1) + 1 = m
    BY <1>4
  <2> QED
    BY <1>2, <1>3, <2>1 DEF Iterates
<1>5. f = [m \in Nat |-> IF m = 0 THEN n ELSE f[m - 1] \div 2 + 1]
  BY <1>3, <1>4 DEF Iterates
<1> DEFINE k == CHOOSE g : g = [m \in Nat |-> IF m = 0 THEN n ELSE g[m - 1] \div 2 + 1]
<1>6. k = [m \in Nat |-> IF m = 0 THEN n ELSE k[m - 1] \div 2 + 1]
  BY <1>5
<1>7. \A l : RunLength(n, l) = k[l]
  BY DEF RunLength
<1> HIDE DEF k
<1>8. \A l \in Nat : k[l + 1] = k[l] \div 2 + 1
  <2> TAKE l \in Nat
  <2>1. l + 1 \in Nat /\ l + 1 # 0 /\ (l + 1) - 1 = l
    OBVIOUS
  <2>2. k[l + 1] = k[(l + 1) - 1] \div 2 + 1
    BY <1>6, <2>1
  <2> QED
    BY <2>1, <2>2
<1>9. k[0] = n
  BY <1>6
<1> DEFINE S == {l \in Nat : k[l] \in Nat}
<1>10. Nat \subseteq S
  <2>1. 0 \in S
    BY <1>9
  <2>2. ASSUME NEW l \in Nat, l \in S PROVE l + 1 \in S
    BY <1>8, <2>2
  <2> HIDE DEF S
  <2> QED
    BY <2>1, <2>2, SetInduction
<1> QED
  BY <1>7, <1>8, <1>9, <1>10

\* change_and_rebuild of several leaves hashes the parent of every node it hashes,
\* though at every level it only counts half of the level below, and one more.
LEMMA ChangeLeavesTree ==
  ASSUME NEW h \in Nat, h >= 1, NEW hash, IsTree(hash, h), NEW index \in Nat,
         index >= shl[h - 1], NEW strings, Len(strings) \in Nat, Len(strings) >= 1,
         ChangeLeaves(hash, h, index, strings) # Null
  PROVE  IsTree(ChangeLeaves(hash, h, index, strings), h)
<1> DEFINE n        == Len(strings)
           First(l) == index \div shl[l]
           Run(l)   == First(l) .. First(l) + RunLength(n, l) - 1
           nodes    == {1} \cup UNION {Run(l) : l \in 0..h - 1}
           leaf     == WithData(h, index, strings)
<1>1. ChangeLeaves(hash, h, index, strings) = Rehash(hash, leaf, h, nodes)
  BY DEF ChangeLeaves
<1>2. \A y : y \in nodes <=> y = 1 \/ \E l \in 0..h - 1 : y \in Run(l)
  OBVIOUS
<1> HIDE DEF leaf, nodes
<1>3. nodes \subseteq Nodes(h)
  BY <1>1, RehashIs
<1>4. \A l \in Nat : First(l) \in Nat /\ RunLength(n, l) \in Nat
  BY Ancestors, RunLengths
<1>5. First(0) = index /\ RunLength(n, 0) = n
  BY ShlZero, RunLengths
<1>6. index \in Leaves(h)
  <2>1. index \in Run(0) /\ 0 \in 0..h - 1
    BY <1>5
  <2>2. index \in nodes
    BY <1>2, <2>1
  <2> QED
    BY <1>3, <2>2, NodesOf DEF Nodes, Leaves
<1>7. First(h - 1) = 1
  BY <1>6, RootOf
<1>8. ASSUME NEW y \in nodes \ {1} PROVE y \div 2 \in nodes
  <2>1. PICK l \in 0..h - 1 : y \in Run(l)
    BY <1>2, <1>8
  <2> DEFINE a == First(l)
             k == RunLength(n, l)
  <2>2. l \in Nat /\ a \in Nat /\ k \in Nat /\ y \in Nat /\ a <= y /\ y <= a + k - 1
    BY <1>4, <2>1
  <2>3. CASE l = h - 1
    <3>1. a = 1
      BY <1>7, <2>3
    <3> HIDE DEF a, k
    <3>2. y \div 2 \in 1 .. 1 + k - 1
      BY <1>8, <2>2, <3>1
    <3>3. y \div 2 \in Run(l)
      BY <3>1, <3>2 DEF a, k
    <3> QED
      BY <1>2, <3>3
  <2>4. CASE l # h - 1
    <3>1. First(l + 1) = a \div 2 /\ RunLength(n, l + 1) = k \div 2 + 1
      BY <2>2, Ancestors, RunLengths
    <3> HIDE DEF a, k
    <3>2. y \div 2 \in a \div 2 .. a \div 2 + (k \div 2 + 1) - 1
      BY <2>2
    <3>3. y \div 2 \in Run(l + 1)
      BY <3>1, <3>2
    <3>4. l + 1 \in 0..h - 1
      BY <2>4
    <3> QED
      BY <1>2, <3>3, <3>4
  <2> QED
    BY <2>3, <2>4
<1>9. /\ \A x \in Leaves(h) \ nodes : IsLeafHash(hash[x])
      /\ \A x \in Interior(h) \ nodes : hash[x] \in NodeHashes(hash[2*x], hash[2*x + 1])
  BY DEF IsTree
<1> QED
  BY <1>1, <1>8, <1>9, RehashTree

-----------------------------------------------------------------------------
\* get_bigger_tree keeps the leaves and hashes everything else.
LEMMA BiggerTree ==
  ASSUME NEW h \in 1..MaxShift, NEW hash, IsTree(hash, h)
  PROVE  /\ IsTree(get_bigger_tree(hash), h + 1)
         /\ \A k \in 0..shl[h] - 1 :
              get_bigger_tree(hash)[shl[h] + k] = IF k < shl[h - 1] THEN hash[shl[h - 1] + k]
                                                  ELSE LeafHash(<<SPACE>>)
<1> DEFINE old  == shl[h] .. shl[h] + shl[h - 1] - 1
           kept == [x \in Nodes(h + 1) |-> IF x \in old THEN hash[x - shl[h] + shl[h - 1]] ELSE Unset]
           leaf == [x \in Leaves(h + 1) |-> <<SPACE>>]
           nodes == Nodes(h + 1) \ old
<1>1. get_bigger_tree(hash) = Rehash(kept, leaf, h + 1, nodes)
  BY HeightIs DEF get_bigger_tree
<1>2. h \in Nat /\ h + 1 \in Nat /\ h + 1 >= 1 /\ (h + 1) - 1 = h
  BY DEF MaxShift
<1>3. shl[h] \in Nat /\ shl[h] >= 1 /\ shl[h + 1] = 2 * shl[h] /\ shl[h - 1] \in Nat
  BY <1>2, NodesOf
<1>4. ASSUME NEW y \in nodes \ {1} PROVE y \div 2 \in nodes
  <2>1. y \in 2 .. shl[h + 1] - 1
    BY <1>4 DEF Nodes
  <2>2. y \div 2 \in 1 .. shl[h] - 1
    BY <1>3, <2>1
  <2> QED
    BY <1>3, <2>2 DEF Nodes
<1>5. \A x \in Interior(h + 1) : x \in nodes
  BY <1>2, <1>3 DEF Interior, Nodes
<1>6. ASSUME NEW x \in Leaves(h + 1) \ nodes PROVE IsLeafHash(kept[x])
  <2>1. x \in Nodes(h + 1) /\ x \in old
    BY <1>2, NodesOf
  <2>2. x - shl[h] + shl[h - 1] \in Leaves(h)
    BY <1>2, <1>3, <2>1, NodesOf DEF Leaves
  <2> QED
    BY <2>1, <2>2 DEF IsTree
<1> DEFINE T == Rehash(kept, leaf, h + 1, nodes)
<1>7. /\ IsTree(T, h + 1)
      /\ \A x \in Leaves(h + 1) : T[x] = IF x \in nodes THEN LeafHash(leaf[x]) ELSE kept[x]
  <2>1. Hashable(leaf, h + 1, nodes)
    <3>1. <<SPACE>> \in Seq(Bytes)
      BY PageAssumption
    <3> QED
      BY <3>1, NullAssumption DEF Hashable
  <2> HIDE DEF kept, leaf, nodes
  <2> QED
    BY <1>2, <1>4, <1>5, <1>6, <2>1, RehashTree
<1>8. ASSUME NEW k \in 0..shl[h] - 1
      PROVE  T[shl[h] + k] = IF k < shl[h - 1] THEN hash[shl[h - 1] + k]
                             ELSE LeafHash(<<SPACE>>)
  <2> DEFINE x == shl[h] + k
  <2>1. x \in Leaves(h + 1) /\ x \in Nodes(h + 1) /\ (x \in old <=> k < shl[h - 1])
        /\ x - shl[h] + shl[h - 1] = shl[h - 1] + k
    <3>1. x \in Leaves(h + 1)
      BY <1>2, <1>3 DEF Leaves
    <3> QED
      BY <1>2, <1>3, <3>1, NodesOf
  <2> HIDE DEF x, T, old
  <2>2. leaf[x] = <<SPACE>>
    BY <2>1
  <2>3. x \in old => kept[x] = hash[shl[h - 1] + k]
    BY <2>1
  <2> HIDE DEF leaf, kept
  <2> QED
    BY <1>7, <2>1, <2>2, <2>3 DEF x
<1>9. get_bigger_tree(hash) = T
  BY <1>1
<1> HIDE DEF T, kept, leaf, nodes, old
<1> QED
  BY <1>7, <1>8, <1>9

\* quick_change: a tree or Null; a tree that cannot be bigger is not made bigger.
LEMMA QuickChangeTree ==
  ASSUME NEW h \in 1..MaxShift, NEW hash, IsTree(hash, h), NEW offset \in Nat,
         offset \div PAGE_LENGTH < shl[MaxShift - 1], NEW buf,
         quick_change(hash, offset, buf) # Null
  PROVE  \E g \in 1..MaxShift : IsTree(quick_change(hash, offset, buf), g)
<1> DEFINE page   == offset \div PAGE_LENGTH
           target == IF page + 1 > LeafCount(hash) THEN get_bigger_tree(hash) ELSE hash
<1>1. /\ ~(page >= LeafCount(target))
      /\ quick_change(hash, offset, buf)
           = ChangeLeaf(target, HeightOfTree(target), LeafCount(target) + page, CStr(buf))
  BY DEF quick_change
<1>2. page \in Nat /\ MaxShift - 1 \in Nat
  BY PageArith DEF MaxShift
<1>3. LeafCount(hash) = shl[h - 1]
  BY HeightIs
<1>4. \E g \in 1..MaxShift : IsTree(target, g)
  <2>1. CASE page + 1 > LeafCount(hash)
    <3>1. target = get_bigger_tree(hash)
      BY <2>1
    <3>2. IsTree(target, h + 1)
      BY <3>1, BiggerTree
    <3>3. h \in Nat /\ h - 1 \in Nat /\ shl[h - 1] \in Nat /\ shl[MaxShift - 1] \in Nat
          /\ MaxShift \in Nat
      BY <1>2, ShlType DEF MaxShift
    <3>4. shl[h - 1] < shl[MaxShift - 1]
      BY <1>2, <1>3, <2>1, <3>3
    <3>5. h + 1 \in 1..MaxShift
      <4>1. SUFFICES ASSUME h = MaxShift PROVE FALSE
        BY <3>3
      <4> QED
        BY <3>3, <3>4, <4>1
    <3> HIDE DEF target
    <3> QED
      BY <3>2, <3>5
  <2>2. CASE ~(page + 1 > LeafCount(hash))
    BY <2>2
  <2> QED
    BY <2>1, <2>2
<1> HIDE DEF target, page
<1>5. PICK g \in 1..MaxShift : IsTree(target, g)
  BY <1>4
<1>6. HeightOfTree(target) = g /\ LeafCount(target) = shl[g - 1]
  BY <1>5, HeightIs
<1>7. g \in Nat /\ g >= 1 /\ shl[g - 1] \in Nat
  BY ShlType DEF MaxShift
<1>8. shl[g - 1] + page \in Nat /\ shl[g - 1] + page >= shl[g - 1]
  BY <1>2, <1>7
<1> QED
  BY <1>1, <1>5, <1>6, <1>7, <1>8, ChangeLeafTree

-----------------------------------------------------------------------------
\* What Walk has found after c strings.
Strings == [offset : Nat, strings : Seq(Seq(Bytes)) \cup {Null}]

LEMMA NextStringType ==
  ASSUME NEW array, \A o \in Nat : array[o] = Null \/ array[o] \in Seq(Bytes),
         NEW found \in Strings
  PROVE  /\ NextString(array, found) \in Strings
         /\ NextString(array, found).strings # Null =>
              /\ found.strings # Null
              /\ Len(NextString(array, found).strings) = Len(found.strings) + 1
<1> DEFINE s == array[found.offset]
<1>1. /\ found.offset \in Nat /\ found.strings \in Seq(Seq(Bytes)) \cup {Null}
      /\ s = Null \/ s \in Seq(Bytes)
  BY DEF Strings
<1> HIDE DEF s
<1>2. CASE found.strings = Null \/ s = Null
  BY <1>2 DEF NextString, Strings, s
<1>3. CASE ~(found.strings = Null \/ s = Null)
  <2>1. NextString(array, found) = [offset  |-> found.offset + Len(s),
                                    strings |-> Append(found.strings, s)]
    BY <1>3 DEF NextString, s
  <2>2. Len(s) \in Nat /\ found.strings \in Seq(Seq(Bytes)) /\ s \in Seq(Bytes)
    BY <1>1, <1>3
  <2>3. Append(found.strings, s) \in Seq(Seq(Bytes))
        /\ Len(Append(found.strings, s)) = Len(found.strings) + 1
    BY <2>2, AppendProperties
  <2> QED
    BY <1>1, <1>3, <2>1, <2>2, <2>3 DEF Strings
<1> QED
  BY <1>2, <1>3

\* Walk is what it has found after the last of its steps.
LEMMA WalkSteps ==
  ASSUME NEW array, \A o \in Nat : array[o] = Null \/ array[o] \in Seq(Bytes)
  PROVE  \E w : /\ w[0] = [offset |-> 0, strings |-> <<>>]
                /\ \A c \in Nat : w[c + 1] = NextString(array, w[c])
                /\ \A c \in Nat : w[c] \in Strings
                /\ \A c \in Nat : w[c].strings # Null => Len(w[c].strings) = c
                /\ \A c \in Nat : Walk(array, c) = w[c].strings
<1> DEFINE F == [p \in Nat \X Strings |-> NextString(array, p[2])]
           a == [offset |-> 0, strings |-> <<>>]
<1>1. F \in [Nat \X Strings -> Strings]
  BY NextStringType
<1>2. \A n \in Nat, x \in Strings : F[<<n, x>>] = NextString(array, x)
  OBVIOUS
<1>3. a \in Strings /\ a.strings = <<>>
  BY DEF Strings
<1> HIDE DEF F, a
<1>4. PICK f \in [Nat -> Strings] : Iterates(f, a, F)
  BY <1>1, <1>3, Iteration
<1>5. ASSUME NEW m \in Nat, m # 0 PROVE f[m] = NextString(array, f[m - 1])
  <2>1. m - 1 \in Nat /\ (m - 1) + 1 = m
    BY <1>5
  <2> QED
    BY <1>2, <1>4, <2>1 DEF Iterates
<1>6. f = [c \in Nat |-> IF c = 0 THEN a ELSE NextString(array, f[c - 1])]
  BY <1>4, <1>5 DEF Iterates
<1> DEFINE w == CHOOSE g : g = [c \in Nat |-> IF c = 0 THEN a ELSE NextString(array, g[c - 1])]
<1>7. w = [c \in Nat |-> IF c = 0 THEN a ELSE NextString(array, w[c - 1])]
  BY <1>6
<1>8. \A c \in Nat : Walk(array, c) = w[c].strings
  BY DEF Walk, a
<1> HIDE DEF w
<1>9. \A c \in Nat : w[c + 1] = NextString(array, w[c])
  <2> TAKE c \in Nat
  <2>1. c + 1 \in Nat /\ c + 1 # 0 /\ (c + 1) - 1 = c
    OBVIOUS
  <2>2. w[c + 1] = NextString(array, w[(c + 1) - 1])
    BY <1>7, <2>1
  <2> QED
    BY <2>1, <2>2
<1> DEFINE S == {c \in Nat : w[c] \in Strings /\ (w[c].strings # Null => Len(w[c].strings) = c)}
<1>10. Nat \subseteq S
  <2>1. 0 \in S
    BY <1>3, <1>7, EmptySeq
  <2>2. ASSUME NEW c \in Nat, c \in S PROVE c + 1 \in S
    <3>1. w[c] \in Strings /\ (w[c].strings # Null => Len(w[c].strings) = c)
      BY <2>2
    <3>2. w[c + 1] = NextString(array, w[c])
      BY <1>9
    <3> DEFINE found == w[c]
               next  == w[c + 1]
    <3> HIDE DEF found, next
    <3>3. next = NextString(array, found) /\ found \in Strings
      BY <3>1, <3>2 DEF found, next
    <3>4. next \in Strings
          /\ (next.strings # Null => found.strings # Null /\ Len(next.strings) = Len(found.strings) + 1)
      BY <3>3, NextStringType
    <3>5. next \in Strings /\ (next.strings # Null => Len(next.strings) = c + 1)
      BY <3>1, <3>4 DEF found
    <3> QED
      BY <3>5 DEF next
  <2> HIDE DEF S
  <2> QED
    BY <2>1, <2>2, SetInduction
<1>11. w[0] = a
  BY <1>7
<1>12. (\A c \in Nat : w[c] \in Strings)
       /\ (\A c \in Nat : w[c].strings # Null => Len(w[c].strings) = c)
  BY <1>10
<1> QED
  BY <1>8, <1>9, <1>11, <1>12 DEF a

\* Walk answers Null or as many strings as it was asked for.
LEMMA WalkType ==
  ASSUME NEW array, \A o \in Nat : array[o] = Null \/ array[o] \in Seq(Bytes),
         NEW count \in Nat, Walk(array, count) # Null
  PROVE  Walk(array, count) \in Seq(Seq(Bytes)) /\ Len(Walk(array, count)) = count
<1>1. PICK w : /\ w[count] \in Strings /\ Walk(array, count) = w[count].strings
               /\ w[count].strings # Null => Len(w[count].strings) = count
  BY WalkSteps
<1> QED
  BY <1>1 DEF Strings

\* What strlen sees of a string is a string.
LEMMA CStrType == \A s \in Seq(Bytes) : CStr(s) \in Seq(Bytes)
<1> TAKE s \in Seq(Bytes)
<1>1. Strlen(s) \in 0..Len(s) /\ Len(s) \in Nat
  BY StrlenType
<1>2. \A i \in 1..Strlen(s) : s[i] \in Bytes
  BY <1>1
<1>3. 1 \in Int /\ Strlen(s) \in Int
  BY <1>1
<1> QED
  BY <1>2, <1>3, SubSeqProperties DEF CStr

\* What strlen sees of a part of a file is a string of bytes.
LEMMA PartType ==
  ASSUME NEW f \in Seq(Bytes), NEW m \in Nat \ {0}, NEW n \in Nat, n <= Len(f)
  PROVE  CStr(SubSeq(f, m, n)) \in Seq(Bytes) /\ Len(CStr(SubSeq(f, m, n))) \in Nat
<1>1. \A i \in m..n : f[i] \in Bytes
  OBVIOUS
<1>2. SubSeq(f, m, n) \in Seq(Bytes)
  BY <1>1, SubSeqProperties
<1>3. CStr(SubSeq(f, m, n)) \in Seq(Bytes)
  BY <1>2, CStrType
<1> QED
  BY <1>3

\* pages_in_need reads at least one page.
LEMMA ChangedPagesType ==
  ASSUME NEW f \in Seq(Bytes), NEW offset \in Nat, NEW size \in Nat, size >= 1,
         ChangedPages(f, offset, size) # Null
  PROVE  /\ ChangedPages(f, offset, size) \in Seq(Seq(Bytes))
         /\ Len(ChangedPages(f, offset, size)) >= 1
<1> DEFINE first == FirstPage(offset)
           last  == LastPage(offset, size)
           rest  == CStr(SubSeq(f, last * PAGE_LENGTH + 1, Len(f)))
           String(o) ==
             LET page == first + o \div PAGE_LENGTH
             IN  IF ~is_full(o) \/ page > last THEN Null
                 ELSE IF page < last THEN CStr(PageBytes(f, page))
                 ELSE IF Len(rest) < PAGE_LENGTH THEN rest
                 ELSE SubSeq(rest, 1, PAGE_LENGTH - 1)
           array == [o \in Nat |-> String(o)]
<1>1. ChangedPages(f, offset, size) = Walk(array, last - first + 1)
  BY DEF ChangedPages
<1>2. PAGE_LENGTH \in Nat /\ PAGE_LENGTH > 0 /\ Len(f) \in Nat
  BY PageAssumption
<1>3. first \in Nat /\ last \in Nat /\ first <= last
  <2> DEFINE n == offset + size
             d == n \div PAGE_LENGTH
             r == n % PAGE_LENGTH
  <2>1. /\ first \in Nat /\ PAGE_LENGTH * first <= offset /\ n \in Nat
        /\ d \in Nat /\ n = PAGE_LENGTH * d + r /\ r \in 0..PAGE_LENGTH - 1
    <3>1. n \in Nat
      OBVIOUS
    <3>2. /\ offset \div PAGE_LENGTH \in Nat
          /\ offset = PAGE_LENGTH * (offset \div PAGE_LENGTH) + (offset % PAGE_LENGTH)
          /\ offset % PAGE_LENGTH \in 0..PAGE_LENGTH - 1
      BY PageArith
    <3> DEFINE q == offset \div PAGE_LENGTH
               t == offset % PAGE_LENGTH
    <3> HIDE DEF q, t
    <3>3. q \in Nat /\ offset = PAGE_LENGTH * q + t /\ t \in 0..PAGE_LENGTH - 1
      BY <3>2 DEF q, t
    <3>4. PAGE_LENGTH * q <= offset
      BY <1>2, <3>3, MulNat
    <3>5. first = q
      BY DEF FirstPage, q
    <3> HIDE DEF n, first
    <3>6. d \in Nat /\ n = PAGE_LENGTH * d + r /\ r \in 0..PAGE_LENGTH - 1
      BY <3>1, PageArith
    <3> QED
      BY <3>1, <3>3, <3>4, <3>5, <3>6
  <2>2. last = d - (IF r = 0 THEN 1 ELSE 0)
    BY DEF LastPage, is_full
  <2> HIDE DEF first, last, d, r
  <2>3. PAGE_LENGTH * first < n
    BY <1>2, <2>1, MulNat
  <2>4. ~(d < first)
    BY <1>2, <2>1, <2>3, MulMono, MulNat
  <2>5. r = 0 => d # first
    BY <1>2, <2>1, <2>3, MulNat
  <2> QED
    BY <2>1, <2>2, <2>4, <2>5
<1> HIDE DEF first, last
<1>4. rest \in Seq(Bytes) /\ Len(rest) \in Nat
  <2>1. last * PAGE_LENGTH \in Nat
    BY <1>2, <1>3, MulNat
  <2>2. last * PAGE_LENGTH + 1 \in Nat \ {0}
    BY <2>1
  <2> QED
    BY <1>2, <2>2, PartType
<1> HIDE DEF rest
<1>5. ASSUME NEW o \in Nat PROVE array[o] = Null \/ array[o] \in Seq(Bytes)
  <2> DEFINE page == first + o \div PAGE_LENGTH
  <2>1. page \in Nat
    <3>1. o \div PAGE_LENGTH \in Nat
      BY PageArith
    <3> QED
      BY <1>3, <3>1
  <2>2. CStr(PageBytes(f, page)) \in Seq(Bytes)
    <3> HIDE DEF page
    <3>1. page * PAGE_LENGTH \in Nat /\ (page + 1) * PAGE_LENGTH \in Nat
      BY <1>2, <2>1, MulNat
    <3> DEFINE m == page * PAGE_LENGTH + 1
               n == IF (page + 1) * PAGE_LENGTH <= Len(f) THEN (page + 1) * PAGE_LENGTH ELSE Len(f)
    <3>2. m \in Nat \ {0} /\ n \in Nat /\ n <= Len(f)
      BY <1>2, <3>1
    <3>3. PageBytes(f, page) = SubSeq(f, m, n)
      BY DEF PageBytes
    <3> HIDE DEF m, n
    <3> QED
      BY <3>2, <3>3, PartType
  <2>3. ~(Len(rest) < PAGE_LENGTH) => SubSeq(rest, 1, PAGE_LENGTH - 1) \in Seq(Bytes)
    <3>1. SUFFICES ASSUME ~(Len(rest) < PAGE_LENGTH)
                   PROVE  SubSeq(rest, 1, PAGE_LENGTH - 1) \in Seq(Bytes)
      OBVIOUS
    <3>2. \A i \in 1..PAGE_LENGTH - 1 : rest[i] \in Bytes
      BY <1>2, <1>4, <3>1
    <3>3. 1 \in Int /\ PAGE_LENGTH - 1 \in Int
      BY <1>2
    <3> QED
      BY <3>2, <3>3, SubSeqProperties
  <2>4. array[o] = String(o)
    OBVIOUS
  <2> HIDE DEF array
  <2> QED
    BY <1>4, <2>2, <2>3, <2>4
<1>6. last - first + 1 \in Nat /\ last - first + 1 >= 1
  BY <1>3
<1> HIDE DEF array
<1> QED
  BY <1>1, <1>5, <1>6, WalkType

\* pages_in_need: a tree or Null.
LEMMA UpdatePagesTree ==
  ASSUME NEW h \in 1..MaxShift, NEW hash, IsTree(hash, h), NEW offset \in Nat,
         NEW strings, Len(strings) \in Nat, Len(strings) >= 1,
         UpdatePages(hash, offset, strings) # Null
  PROVE  IsTree(UpdatePages(hash, offset, strings), h)
<1>1. h \in Nat /\ h >= 1 /\ shl[h - 1] \in Nat
  BY ShlType DEF MaxShift
<1>2. FirstPage(offset) \in Nat
  BY PageArith DEF FirstPage
<1> DEFINE index == shl[h - 1] + FirstPage(offset)
<1>3. index \in Nat /\ index >= shl[h - 1]
  BY <1>1, <1>2
<1>4. UpdatePages(hash, offset, strings) = ChangeLeaves(hash, h, index, strings)
  BY HeightIs DEF UpdatePages
<1> HIDE DEF index
<1> QED
  BY <1>1, <1>3, <1>4, ChangeLeavesTree

-----------------------------------------------------------------------------
(***************************************************************************)
(* What the operations hash in the leaves.                                 *)
(***************************************************************************)

\* The array of strings of a file is filled with strings, where it is.
LEMMA SlotType ==
  ASSUME NEW f \in Seq(Bytes), NEW o \in Nat
  PROVE  Slot(f, <<>>, o) = Null \/ Slot(f, <<>>, o) \in Seq(Bytes)
<1> DEFINE D == Len(f) \div PAGE_LENGTH
           k == o \div PAGE_LENGTH
<1>1. D \in Nat /\ k \in Nat
  <2>1. Len(f) \in Nat
    OBVIOUS
  <2> QED
    BY <2>1, PageArith
<1>2. \A n \in 0..D : PageBytes(f, n) \in Seq(Bytes)
  BY PageType
<1> HIDE DEF D, k
<1>3. k < D => CStr(PageBytes(f, k)) \in Seq(Bytes)
  BY <1>1, <1>2, CStrType
<1>4. CStr(PageBytes(f, D) \o <<>>) \in Seq(Bytes)
  <2>1. PageBytes(f, D) \o <<>> \in Seq(Bytes)
    <3>1. PageBytes(f, D) \in Seq(Bytes) /\ <<>> \in Seq(Bytes)
      BY <1>1, <1>2
    <3> QED
      BY <3>1, ConcatProperties
  <2> QED
    BY <2>1, CStrType
<1>5. <<SPACE>> \in Seq(Bytes) /\ <<>> \in Seq(Bytes)
  BY PageAssumption
<1> QED
  BY <1>3, <1>4, <1>5 DEF Slot, D, k

\* compute_merkle finds the pages of a text file, and blank pages behind them.
LEMMA WalkText ==
  ASSUME NEW f, IsTextFile(f), f # <<>>, PagesOf(Len(f)) <= shl[MaxShift],
         NEW array, array = [o \in Nat |-> Slot(f, <<>>, o)], NEW N, N = TreeSize(Len(f))
  PROVE  /\ Walk(array, N) \in Seq(Seq(Bytes)) /\ Len(Walk(array, N)) = N
         /\ Walk(array, N) # Null
         /\ \A k \in 0..N - 1 : Walk(array, N)[k + 1] = Page(f, k) /\ Page(f, k) \in Seq(Bytes)
<1>1. f \in Seq(Bytes)
  BY DEF IsTextFile
<1>2. PagesOf(Len(f)) \in Nat /\ PagesOf(Len(f)) >= 1 /\ N \in Nat
  BY <1>1, LeavesOf
<1>3. \A o \in Nat : array[o] = Null \/ array[o] \in Seq(Bytes)
  BY <1>1, SlotType
<1>4. ASSUME NEW n \in Nat, n < N
      PROVE  /\ Slot(f, <<>>, Offset(f, n)) = Page(f, n) /\ Page(f, n) \in Seq(Bytes)
             /\ Offset(f, n + 1) = Offset(f, n) + Len(Page(f, n))
  <2>1. Terminates(<<>>)
    BY DEF Terminates
  <2> QED
    BY <1>4, <2>1, SlotText
<1>5. PICK w : /\ w[0] = [offset |-> 0, strings |-> <<>>]
               /\ \A c \in Nat : w[c + 1] = NextString(array, w[c])
               /\ \A c \in Nat : w[c] \in Strings
               /\ \A c \in Nat : w[c].strings # Null => Len(w[c].strings) = c
               /\ \A c \in Nat : Walk(array, c) = w[c].strings
  BY <1>3, WalkSteps
<1> DEFINE Met(c) == /\ w[c].offset = Offset(f, c) /\ w[c].strings # Null
                     /\ \A k \in 0..c - 1 : w[c].strings[k + 1] = Page(f, k)
           S == {c \in Nat : c <= N => Met(c)}
<1>6. 0 \in S
  <2>1. Offset(f, 0) = 0
    <3>1. 0 * PAGE_LENGTH = 0
      BY PageAssumption
    <3> QED
      BY <1>2, <3>1 DEF Offset
  <2>2. <<>> # Null
    <3>1. <<>> \in Seq(Bytes)
      OBVIOUS
    <3> QED
      BY <3>1, NullAssumption
  <2> QED
    BY <1>5, <2>1, <2>2
<1>7. ASSUME NEW c \in Nat, c \in S PROVE c + 1 \in S
  <2>1. SUFFICES ASSUME c + 1 <= N PROVE Met(c + 1)
    OBVIOUS
  <2>2. c < N /\ Met(c)
    BY <1>2, <1>7, <2>1
  <2> DEFINE found == w[c]
             page  == Page(f, c)
             next  == w[c + 1]
  <2>3. found.offset \in Nat /\ found.strings \in Seq(Seq(Bytes)) /\ Len(found.strings) = c
    BY <1>5, <2>2 DEF Strings
  <2>4. array[found.offset] = page /\ page \in Seq(Bytes) /\ page # Null
        /\ Offset(f, c + 1) = found.offset + Len(page)
    BY <1>4, <2>2, <2>3, NullAssumption
  <2>5. next = NextString(array, found) /\ found.strings # Null
    BY <1>5, <2>2
  <2> HIDE DEF found, page, next
  <2>6. next = [offset  |-> found.offset + Len(page), strings |-> Append(found.strings, page)]
    BY <2>4, <2>5 DEF NextString
  <2> DEFINE more == Append(found.strings, page)
  <2>7. /\ more \in Seq(Seq(Bytes))
        /\ \A k \in 1..c : more[k] = found.strings[k]
        /\ more[c + 1] = page
    BY <2>3, <2>4, AppendProperties
  <2>10. next.strings = more /\ next.offset = found.offset + Len(page)
    BY <2>6
  <2> HIDE DEF more
  <2>8. ASSUME NEW k \in 0..(c + 1) - 1 PROVE next.strings[k + 1] = Page(f, k)
    <3>1. CASE k = c
      BY <2>7, <2>10, <3>1 DEF page
    <3>2. CASE k # c
      <4>1. k \in 0..c - 1 /\ k + 1 \in 1..c
        BY <3>2
      <4>2. found.strings[k + 1] = Page(f, k)
        BY <2>2, <4>1 DEF found
      <4> QED
        BY <2>7, <2>10, <4>1, <4>2
    <3> QED
      BY <3>1, <3>2
  <2>9. next.offset = Offset(f, c + 1) /\ next.strings # Null
    BY <2>4, <2>7, <2>10, NullAssumption
  <2> QED
    BY <2>8, <2>9 DEF next
<1>8. N \in S
  <2> HIDE DEF S
  <2> QED
    BY <1>2, <1>6, <1>7, SetInduction
<1>9. Met(N)
  BY <1>2, <1>8
<1>10. Walk(array, N) = w[N].strings /\ w[N] \in Strings /\ Len(w[N].strings) = N
  BY <1>2, <1>5, <1>9
<1>11. w[N].strings \in Seq(Seq(Bytes)) /\ w[N].strings # Null
  BY <1>9, <1>10 DEF Strings
<1>12. ASSUME NEW k \in 0..N - 1
       PROVE  w[N].strings[k + 1] = Page(f, k) /\ Page(f, k) \in Seq(Bytes)
  BY <1>2, <1>4, <1>9
<1> QED
  BY <1>10, <1>11, <1>12

\* compute_merkle of a text file: the tree of its pages and of blank pages.
LEMMA MerkleText ==
  ASSUME NEW f, IsTextFile(f), f # <<>>, PagesOf(Len(f)) <= shl[MaxShift - 1]
  PROVE  \E h \in 1..MaxShift :
           /\ IsTree(compute_merkle(f), h)
           /\ PagesOf(Len(f)) \in Nat /\ PagesOf(Len(f)) <= shl[h - 1]
           /\ \A k \in 0..shl[h - 1] - 1 :
                compute_merkle(f)[shl[h - 1] + k] = LeafHash(Page(f, k))
<1> DEFINE h == HeightOf(Len(f))
           N == TreeSize(Len(f))
           array == [o \in Nat |-> Slot(f, <<>>, o)]
           strings == Walk(array, N)
<1>1. f \in Seq(Bytes)
  BY DEF IsTextFile
<1>2. h \in 1..MaxShift /\ PagesOf(Len(f)) <= shl[MaxShift] /\ shl[h - 1] = N
      /\ PagesOf(Len(f)) \in Nat /\ PagesOf(Len(f)) <= N
  BY <1>1, HeightOfFile
<1>3. h \in Nat /\ h >= 1 /\ h - 1 \in Nat /\ N \in Nat
  <2> HIDE DEF h, N
  <2>1. h \in Nat /\ h - 1 \in Nat /\ h >= 1
    BY <1>2
  <2> QED
    BY <1>2, <2>1, ShlType
<1>4. /\ strings # Null
      /\ \A k \in 0..N - 1 : strings[k + 1] = Page(f, k) /\ Page(f, k) \in Seq(Bytes)
  BY <1>2, WalkText
<1>5. compute_merkle(f) = build_tree(strings, h)
  BY <1>4 DEF compute_merkle
<1> HIDE DEF h, N, strings
<1>6. \A k \in 0..N - 1 : N + k \in Leaves(h) /\ (N + k) - shl[h - 1] + 1 = k + 1
  <2>1. shl[h] = 2 * shl[h - 1]
    BY <1>3, NodesOf
  <2> QED
    BY <1>2, <1>3, <2>1 DEF Leaves
<1>7. \A x \in Leaves(h) : strings[x - shl[h - 1] + 1] # Null
  <2> TAKE x \in Leaves(h)
  <2>1. shl[h] = 2 * shl[h - 1]
    BY <1>3, NodesOf
  <2>2. x - N \in 0..N - 1
    BY <1>2, <1>3, <2>1 DEF Leaves
  <2> QED
    BY <1>2, <1>4, <2>2, NullAssumption
<1>8. /\ IsTree(build_tree(strings, h), h)
      /\ \A x \in Leaves(h) :
           build_tree(strings, h)[x] = LeafHash(strings[x - shl[h - 1] + 1])
  BY <1>3, <1>7, BuildTree
<1>9. ASSUME NEW k \in 0..N - 1 PROVE compute_merkle(f)[N + k] = LeafHash(Page(f, k))
  BY <1>4, <1>5, <1>6, <1>8
<1> QED
  BY <1>2, <1>5, <1>8, <1>9

-----------------------------------------------------------------------------
\* The text in leaf number k.
Leaf(hash, k) == hash[LeafCount(hash) + k]

\* new is old with the hash of s in leaf p, and perhaps with blank leaves behind the
\* leaves of old.
ChangesLeaf(new, old, p, s) ==
  /\ LeafCount(old) <= LeafCount(new) /\ p < LeafCount(new)
  /\ Leaf(new, p) = LeafHash(s)
  /\ \A k \in 0..LeafCount(old) - 1 : k # p => Leaf(new, k) = Leaf(old, k)
  /\ \A k \in LeafCount(old)..LeafCount(new) - 1 : k # p => Leaf(new, k) = LeafHash(<<SPACE>>)

\* change_and_rebuild of one leaf changes that leaf.
LEMMA ChangeLeafLeaves ==
  ASSUME NEW h \in 1..MaxShift, NEW hash, IsTree(hash, h), NEW p \in Nat, p < shl[h - 1],
         NEW s, s # Null
  PROVE  /\ IsTree(ChangeLeaf(hash, h, shl[h - 1] + p, s), h)
         /\ ChangesLeaf(ChangeLeaf(hash, h, shl[h - 1] + p, s), hash, p, s)
<1> DEFINE N == shl[h - 1]
           index == N + p
           nodes == {index \div shl[l] : l \in 0..h - 1}
           leaf  == WithData(h, index, <<s>>)
           T == ChangeLeaf(hash, h, index, s)
<1>1. h \in Nat /\ h >= 1 /\ N \in Nat /\ shl[h] = 2 * N /\ N >= 1
  <2>1. h \in Nat /\ h >= 1
    BY DEF MaxShift
  <2> QED
    BY <2>1, NodesOf
<1>2. index \in Leaves(h) /\ index \in Nat
  BY <1>1 DEF Leaves
<1>3. T = Rehash(hash, leaf, h, nodes)
  BY DEF ChangeLeaf
<1>4. index \in nodes
  <2>1. index \div shl[0] \in nodes /\ index \div shl[0] = index
    BY <1>1, <1>2, ShlZero
  <2> QED
    BY <2>1
<1> HIDE DEF N
<1>5. ASSUME NEW y \in nodes
      PROVE  /\ y \in Nodes(h) /\ (y # 1 => y \div 2 \in nodes)
             /\ (y \in Leaves(h) => y = index)
  <2>1. PICK l \in 0..h - 1 : y = index \div shl[l]
    OBVIOUS
  <2>2. l \in Nat /\ y \in Nat
    BY <1>1, <1>2, <2>1, Ancestors
  <2>3. CASE l = 0
    <3>1. y = index
      BY <1>2, <2>1, <2>3, ShlZero
    <3>2. y # 1 => l # h - 1
      BY <1>2, <2>1, RootOf
    <3>3. y # 1 => l + 1 \in 0..h - 1
      BY <1>1, <2>2, <3>2
    <3>4. y \div 2 = index \div shl[l + 1]
      BY <1>2, <2>1, <2>2, Ancestors
    <3> QED
      BY <1>1, <1>2, <3>1, <3>3, <3>4, NodesOf
  <2>4. CASE l # 0
    <3>1. y # 1 => l # h - 1
      BY <1>2, <2>1, RootOf
    <3>2. y # 1 => l + 1 \in 0..h - 1
      BY <1>1, <2>2, <3>1
    <3>3. y \div 2 = index \div shl[l + 1]
      BY <1>2, <2>1, <2>2, Ancestors
    <3>4. 1 <= y /\ y < N
      <4>1. shl[l] \in Nat /\ 2 <= shl[l]
        <5>1. 0 < l
          BY <2>2, <2>4
        <5> QED
          BY <2>2, <5>1, ShlMono, ShlZero, ShlType
      <4>2. PICK q \in Nat : index \div shl[l] = q /\ shl[l] * q <= index /\ index < shl[l] * q + shl[l]
        <5> DEFINE b == shl[l]
        <5>1. b \in Nat /\ b > 0 /\ index \in Nat
          BY <1>2, <4>1
        <5> HIDE DEF index, b
        <5>2. PICK q \in Nat : b * q <= index /\ index < b * q + b
          BY <5>1, DivBounds
        <5>3. index \div b = q
          BY <5>1, <5>2, DivIs
        <5> QED
          BY <5>2, <5>3 DEF b
      <4>3. y = q
        BY <2>1, <4>2
      <4>4. shl[l] <= shl[h - 1]
        <5>1. l < h - 1 => 2 * shl[l] <= shl[h - 1]
          BY <1>1, <2>2, ShlMono
        <5>2. l = h - 1 \/ l < h - 1
          BY <1>1, <2>2
        <5> QED
          BY <1>1, <4>1, <5>1, <5>2 DEF N
      <4>5. q # 0
        <5>1. SUFFICES ASSUME q = 0 PROVE FALSE
          OBVIOUS
        <5>2. shl[l] * q = 0
          BY <4>1, <5>1
        <5>3. index < shl[l]
          BY <1>2, <4>1, <4>2, <5>2
        <5> QED
          BY <1>1, <1>2, <4>1, <4>4, <5>3 DEF N
      <4>6. 2 * q <= shl[l] * q
        <5>1. PICK d \in Nat : shl[l] = 2 + d
          <6>1. shl[l] - 2 \in Nat /\ shl[l] = 2 + (shl[l] - 2)
            BY <4>1
          <6> QED
            BY <6>1
        <5>2. (2 + d) * q = 2 * q + d * q /\ d * q \in Nat
          BY MulNat
        <5> QED
          BY <5>1, <5>2
      <4>7. index < 2 * N
        BY <1>1 DEF N
      <4>8. shl[l] * q \in Nat
        BY <4>1, MulNat
      <4> QED
        BY <1>1, <1>2, <4>2, <4>3, <4>5, <4>6, <4>7, <4>8
    <3>5. y \in Interior(h)
      BY <1>1, <2>2, <3>4 DEF Interior, N
    <3>6. y \in Nodes(h) /\ y \notin Leaves(h)
      BY <1>1, <3>5, NodesOf
    <3> QED
      BY <3>2, <3>3, <3>6
  <2> QED
    BY <2>3, <2>4
<1>6. leaf[index] = s
  BY <1>2 DEF WithData
<1>7. Hashable(leaf, h, nodes)
  <2> HIDE DEF nodes, leaf, index
  <2> QED
    BY <1>5, <1>6 DEF Hashable
<1> HIDE DEF nodes, leaf
<1>8. /\ IsTree(T, h)
      /\ \A x \in Leaves(h) : T[x] = IF x \in nodes THEN LeafHash(leaf[x]) ELSE hash[x]
  <2>1. \A y \in nodes \ {1} : y \div 2 \in nodes
    BY <1>5
  <2>2. /\ \A x \in Leaves(h) \ nodes : IsLeafHash(hash[x])
        /\ \A x \in Interior(h) \ nodes : hash[x] \in NodeHashes(hash[2*x], hash[2*x + 1])
    BY DEF IsTree
  <2> HIDE DEF T
  <2> QED
    BY <1>1, <1>3, <1>7, <2>1, <2>2, RehashTree
<1>9. LeafCount(T) = N /\ LeafCount(hash) = N
  BY <1>8, HeightIs DEF N
<1> HIDE DEF T
<1>10. Leaf(T, p) = LeafHash(s)
  BY <1>2, <1>4, <1>6, <1>8, <1>9 DEF Leaf
<1>11. ASSUME NEW k \in 0..N - 1, k # p PROVE Leaf(T, k) = Leaf(hash, k)
  <2>1. N + k \in Leaves(h) /\ N + k # index
    BY <1>1, <1>11 DEF Leaves, N
  <2>2. N + k \notin nodes
    BY <1>5, <2>1
  <2> QED
    BY <1>8, <1>9, <2>1, <2>2 DEF Leaf
<1>12. ChangesLeaf(T, hash, p, s)
  <2>1. N <= N /\ N..N - 1 = {} /\ p < N
    BY <1>1 DEF N
  <2> QED
    BY <1>9, <1>10, <1>11, <2>1 DEF ChangesLeaf
<1> QED
  BY <1>8, <1>12 DEF T, N

\* A bigger tree has the old leaves and as many blank ones.
LEMMA BiggerLeaves ==
  ASSUME NEW h \in 1..MaxShift, h < MaxShift, NEW hash, IsTree(hash, h)
  PROVE  /\ h + 1 \in 1..MaxShift /\ IsTree(get_bigger_tree(hash), h + 1)
         /\ LeafCount(get_bigger_tree(hash)) = 2 * LeafCount(hash)
         /\ LeafCount(hash) \in Nat
         /\ \A k \in 0..2 * LeafCount(hash) - 1 :
              Leaf(get_bigger_tree(hash), k) = IF k < LeafCount(hash) THEN Leaf(hash, k)
                                               ELSE LeafHash(<<SPACE>>)
<1>1. MaxShift \in Nat
  BY DEF MaxShift
<1>2. h \in Nat /\ h >= 1 /\ h + 1 \in 1..MaxShift /\ (h + 1) - 1 = h
  BY <1>1
<1>3. LeafCount(hash) = shl[h - 1] /\ shl[h] = 2 * shl[h - 1] /\ shl[h - 1] \in Nat
  BY <1>2, HeightIs, NodesOf
<1>4. IsTree(get_bigger_tree(hash), h + 1)
  BY BiggerTree
<1>5. LeafCount(get_bigger_tree(hash)) = shl[h]
  <2>1. LeafCount(get_bigger_tree(hash)) = shl[(h + 1) - 1]
    BY <1>2, <1>4, HeightIs
  <2> QED
    BY <1>2, <2>1
<1>6. \A k \in 0..shl[h] - 1 :
        get_bigger_tree(hash)[shl[h] + k] = IF k < shl[h - 1] THEN hash[shl[h - 1] + k]
                                            ELSE LeafHash(<<SPACE>>)
  BY BiggerTree
<1> QED
  BY <1>2, <1>3, <1>4, <1>5, <1>6 DEF Leaf

\* quick_change changes the leaf of a whole page that the tree has, or that it has when it
\* has become bigger; for any other page it answers -2 or -1.
LEMMA QuickChangeLeaf ==
  ASSUME NEW h \in 1..MaxShift, NEW hash, IsTree(hash, h), NEW offset \in Nat,
         offset \div PAGE_LENGTH < shl[MaxShift - 1], NEW buf, CStr(buf) # Null
  PROVE  IF is_full(offset) /\ FirstPage(offset) < 2 * LeafCount(hash)
         THEN /\ \E g \in 1..MaxShift : IsTree(quick_change(hash, offset, buf), g)
              /\ ChangesLeaf(quick_change(hash, offset, buf), hash, FirstPage(offset), CStr(buf))
         ELSE quick_change(hash, offset, buf) = Null
<1> DEFINE page   == FirstPage(offset)
           bigger == get_bigger_tree(hash)
           target == IF page + 1 > LeafCount(hash) THEN bigger ELSE hash
           answer == ChangeLeaf(target, HeightOfTree(target), LeafCount(target) + page, CStr(buf))
<1>1. quick_change(hash, offset, buf)
        = IF ~is_full(offset) \/ page >= LeafCount(target) THEN Null ELSE answer
  BY DEF quick_change, FirstPage
<1>2. page \in Nat /\ page < shl[MaxShift - 1] /\ MaxShift \in Nat
  BY PageArith DEF MaxShift, FirstPage
<1>3. LeafCount(hash) = shl[h - 1] /\ LeafCount(hash) \in Nat /\ LeafCount(hash) >= 1
      /\ h \in Nat /\ h >= 1
  <2>1. h \in Nat /\ h >= 1
    BY <1>2
  <2> QED
    BY <2>1, HeightIs, NodesOf
<1>4. page + 1 > LeafCount(hash) => h < MaxShift
  <2>1. SUFFICES ASSUME page + 1 > LeafCount(hash), h = MaxShift PROVE FALSE
    BY <1>2
  <2> QED
    BY <1>2, <1>3, <2>1
<1> HIDE DEF page, bigger
\* The tree with enough leaves.
<1>5. /\ \E g \in 1..MaxShift : IsTree(target, g)
      /\ LeafCount(target) \in Nat /\ LeafCount(hash) <= LeafCount(target)
      /\ page < LeafCount(target) <=> page < 2 * LeafCount(hash)
      /\ \A k \in 0..LeafCount(hash) - 1 : Leaf(target, k) = Leaf(hash, k)
      /\ \A k \in LeafCount(hash)..LeafCount(target) - 1 : Leaf(target, k) = LeafHash(<<SPACE>>)
  <2>1. CASE page + 1 > LeafCount(hash)
    <3>1. /\ h + 1 \in 1..MaxShift /\ IsTree(bigger, h + 1)
          /\ LeafCount(bigger) = 2 * LeafCount(hash)
          /\ \A k \in 0..2 * LeafCount(hash) - 1 :
               Leaf(bigger, k) = IF k < LeafCount(hash) THEN Leaf(hash, k) ELSE LeafHash(<<SPACE>>)
      BY <1>4, <2>1, BiggerLeaves DEF bigger
    <3>2. target = bigger
      BY <2>1
    <3> HIDE DEF target
    <3> QED
      BY <1>2, <1>3, <3>1, <3>2
  <2>2. CASE ~(page + 1 > LeafCount(hash))
    BY <1>2, <1>3, <2>2
  <2> QED
    BY <2>1, <2>2
<1> HIDE DEF target
<1>6. CASE is_full(offset) /\ page < 2 * LeafCount(hash)
  <2>1. PICK g \in 1..MaxShift : IsTree(target, g)
    BY <1>5
  <2>2. HeightOfTree(target) = g /\ LeafCount(target) = shl[g - 1]
    BY <2>1, HeightIs
  <2>3. page < shl[g - 1]
    BY <1>5, <1>6, <2>2
  <2>4. IsTree(answer, g) /\ ChangesLeaf(answer, target, page, CStr(buf))
    BY <1>2, <2>1, <2>2, <2>3, ChangeLeafLeaves
  <2>5. quick_change(hash, offset, buf) = answer
    BY <1>1, <1>2, <1>5, <1>6
  <2> HIDE DEF answer
  <2>6. LeafCount(answer) = LeafCount(target)
    BY <2>1, <2>2, <2>4, HeightIs
  <2>7. ChangesLeaf(answer, hash, page, CStr(buf))
    BY <1>2, <1>3, <1>5, <2>4, <2>6 DEF ChangesLeaf
  <2> QED
    BY <1>6, <2>4, <2>5, <2>7 DEF page
<1>7. CASE ~(is_full(offset) /\ page < 2 * LeafCount(hash))
  BY <1>1, <1>2, <1>5, <1>7 DEF page
<1> QED
  BY <1>6, <1>7

\* The run of one node is one node at every level.
LEMMA RunOfOne == \A l \in Nat : RunLength(1, l) = 1
<1> DEFINE S == {l \in Nat : RunLength(1, l) = 1}
<1>1. 0 \in S
  BY RunLengths
<1>2. ASSUME NEW l \in Nat, l \in S PROVE l + 1 \in S
  <2>1. RunLength(1, l + 1) = RunLength(1, l) \div 2 + 1
    BY RunLengths
  <2>2. RunLength(1, l) = 1
    BY <1>2
  <2>3. RunLength(1, l + 1) = 1
    BY <2>1, <2>2
  <2> QED
    BY <1>2, <2>3
<1> QED
  <2> HIDE DEF S
  <2>1. Nat \subseteq S
    BY <1>1, <1>2, SetInduction
  <2> QED
    BY <2>1 DEF S

\* pages_in_need with one page changes the leaf of that page, when the tree has it.
LEMMA UpdateOnePage ==
  ASSUME NEW h \in 1..MaxShift, NEW hash, IsTree(hash, h), NEW offset \in Nat,
         NEW s, s # Null
  PROVE  IF FirstPage(offset) < LeafCount(hash)
         THEN /\ IsTree(UpdatePages(hash, offset, <<s>>), h)
              /\ ChangesLeaf(UpdatePages(hash, offset, <<s>>), hash, FirstPage(offset), s)
         ELSE UpdatePages(hash, offset, <<s>>) = Null
<1> DEFINE p == FirstPage(offset)
           N == shl[h - 1]
           index == N + p
           First(l) == index \div shl[l]
           Run(l)   == First(l) .. First(l) + RunLength(Len(<<s>>), l) - 1
           nodes    == {1} \cup UNION {Run(l) : l \in 0..h - 1}
           leaf     == WithData(h, index, <<s>>)
           T        == UpdatePages(hash, offset, <<s>>)
<1>1. h \in Nat /\ h >= 1 /\ N \in Nat /\ shl[h] = 2 * N /\ N >= 1
  <2>1. h \in Nat /\ h >= 1
    BY DEF MaxShift
  <2> QED
    BY <2>1, NodesOf
<1>2. p \in Nat /\ index \in Nat /\ index >= N
  <2>1. p \in Nat
    BY PageArith DEF FirstPage
  <2> QED
    BY <1>1, <2>1
<1>3. HeightOfTree(hash) = h /\ LeafCount(hash) = N
  BY HeightIs
<1>4. T = Rehash(hash, leaf, h, nodes)
  BY <1>3 DEF UpdatePages, ChangeLeaves
<1> HIDE DEF N, p
<1>5. \A l \in 0..h - 1 : Run(l) = {First(l)}
  <2> TAKE l \in 0..h - 1
  <2>1. Len(<<s>>) = 1 /\ l \in Nat
    BY <1>1
  <2>2. First(l) \in Nat /\ RunLength(1, l) = 1
    BY <1>2, <2>1, Ancestors, RunOfOne
  <2>3. RunLength(Len(<<s>>), l) = 1
    BY <2>1, <2>2
  <2> HIDE DEF First
  <2> QED
    BY <2>2, <2>3
<1>6. \A y : y \in nodes <=> y = 1 \/ \E l \in 0..h - 1 : y = First(l)
  <2> HIDE DEF Run, First
  <2> QED
    BY <1>5
<1>7. index \in nodes
  <2>1. First(0) = index /\ 0 \in 0..h - 1
    BY <1>1, <1>2, ShlZero
  <2> HIDE DEF First, nodes
  <2> QED
    BY <1>6, <2>1
<1>8. CASE p < LeafCount(hash)
  <2>1. index \in Leaves(h)
    BY <1>1, <1>2, <1>3, <1>8 DEF Leaves, N
  <2>2. First(h - 1) = 1 /\ h - 1 \in 0..h - 1
    BY <1>1, <2>1, RootOf
  <2>3. nodes = {First(l) : l \in 0..h - 1}
    <3>1. \A y : y \in nodes <=> y \in {First(l) : l \in 0..h - 1}
      <4> HIDE DEF First, nodes
      <4> QED
        BY <1>6, <2>2
    <3> HIDE DEF First, nodes
    <3> QED
      BY <3>1
  <2>4. T = ChangeLeaf(hash, h, shl[h - 1] + p, s)
    BY <1>4, <2>3 DEF ChangeLeaf, N
  <2>5. p < shl[h - 1]
    BY <1>3, <1>8 DEF N
  <2> QED
    BY <1>2, <1>8, <2>4, <2>5, ChangeLeafLeaves DEF p
<1>9. CASE ~(p < LeafCount(hash))
  <2>1. index \notin Nodes(h)
    BY <1>1, <1>2, <1>3, <1>9 DEF Nodes
  <2>2. ~(nodes \subseteq Nodes(h))
    <3> HIDE DEF nodes, index
    <3> QED
      BY <1>7, <2>1
  <2> HIDE DEF nodes, leaf
  <2>3. Rehash(hash, leaf, h, nodes) = Null
    BY <2>2 DEF Rehash
  <2> QED
    BY <1>4, <1>9, <2>3 DEF p
<1> QED
  BY <1>8, <1>9 DEF p

\* pages_in_need reads the last page of a text file, when the page is partial.
LEMMA ReadsLastPage ==
  ASSUME NEW f, IsTextFile(f), NEW offset \in Nat, NEW size \in Nat,
         FirstPage(offset) = Len(f) \div PAGE_LENGTH, ~is_full(Len(f)),
         LastPage(offset, size) = FirstPage(offset)
  PROVE  /\ ChangedPages(f, offset, size) = <<PageBytes(f, FirstPage(offset))>>
         /\ PageBytes(f, FirstPage(offset)) \in Seq(Bytes)
         /\ FirstPage(offset) < PagesOf(Len(f))
<1> DEFINE p     == FirstPage(offset)
           L     == Len(f)
           page  == PageBytes(f, p)
           rest  == CStr(SubSeq(f, p * PAGE_LENGTH + 1, Len(f)))
           String(o) ==
             LET q == p + o \div PAGE_LENGTH
             IN  IF ~is_full(o) \/ q > p THEN Null
                 ELSE IF q < p THEN CStr(PageBytes(f, q))
                 ELSE IF Len(rest) < PAGE_LENGTH THEN rest
                 ELSE SubSeq(rest, 1, PAGE_LENGTH - 1)
           array == [o \in Nat |-> String(o)]
<1>1. f \in Seq(Bytes) /\ L \in Nat /\ PAGE_LENGTH \in Nat /\ PAGE_LENGTH > 0
  BY PageAssumption DEF IsTextFile
<1>2. p \in Nat /\ p < PagesOf(L) /\ L < PAGE_LENGTH * p + PAGE_LENGTH
  <2> HIDE DEF L
  <2> DEFINE d == L \div PAGE_LENGTH
             r == L % PAGE_LENGTH
  <2>1. d \in Nat /\ L = PAGE_LENGTH * d + r /\ r \in 0..PAGE_LENGTH - 1
    BY <1>1, PageArith
  <2>2. p = d /\ PagesOf(L) = d + 1
    BY DEF L, PagesOf
  <2> HIDE DEF d, r
  <2>3. PAGE_LENGTH * d \in Nat
    BY <1>1, <2>1, MulNat
  <2> QED
    BY <1>1, <2>1, <2>2, <2>3
<1> HIDE DEF p
<1>3. /\ page \in Seq(Bytes) /\ Len(page) = L - p * PAGE_LENGTH
      /\ p * PAGE_LENGTH \in Nat /\ (p + 1) * PAGE_LENGTH = p * PAGE_LENGTH + PAGE_LENGTH
      /\ ~((p + 1) * PAGE_LENGTH <= Len(f))
  <2>1. p * PAGE_LENGTH = PAGE_LENGTH * p
    BY <1>1, <1>2
  <2>2. /\ page \in Seq(Bytes)
        /\ p * PAGE_LENGTH \in Nat /\ (p + 1) * PAGE_LENGTH = p * PAGE_LENGTH + PAGE_LENGTH
        /\ Len(page) = IF (p + 1) * PAGE_LENGTH <= L THEN PAGE_LENGTH ELSE L - p * PAGE_LENGTH
    BY <1>1, <1>2, PageLen
  <2> DEFINE m == p * PAGE_LENGTH
  <2> HIDE DEF L, m
  <2>3. L < m + PAGE_LENGTH
    BY <1>2, <2>1 DEF m
  <2>4. m \in Nat /\ (p + 1) * PAGE_LENGTH = m + PAGE_LENGTH
    BY <2>2 DEF m
  <2>5. ~((p + 1) * PAGE_LENGTH <= L)
    BY <1>1, <2>3, <2>4
  <2> QED
    BY <2>2, <2>5 DEF L
<1>4. rest = page
  <2>1. SubSeq(f, p * PAGE_LENGTH + 1, Len(f)) = page
    BY <1>3 DEF PageBytes
  <2>2. Terminates(<<>>)
    BY DEF Terminates
  <2>3. CStr(page) = page
    BY <1>2, <2>2, PageText
  <2> QED
    BY <2>1, <2>3
<1>5. Len(page) < PAGE_LENGTH
  <2>1. p * PAGE_LENGTH = PAGE_LENGTH * p
    BY <1>1, <1>2
  <2> HIDE DEF page
  <2> QED
    BY <1>1, <1>2, <1>3, <2>1
<1> HIDE DEF rest, page
<1>6. array[0] = page
  <2>1. is_full(0) /\ 0 \div PAGE_LENGTH = 0
    BY <1>1 DEF is_full
  <2>2. String(0) = page
    BY <1>2, <1>4, <1>5, <2>1
  <2> HIDE DEF String
  <2> QED
    BY <2>2
<1>7. ChangedPages(f, offset, size) = Walk(array, 1)
  <2>1. p - p + 1 = 1
    BY <1>2
  <2> QED
    BY <2>1 DEF ChangedPages, p, rest
<1> QED
  <2>0. \A o \in Nat : array[o] = Null \/ array[o] \in Seq(Bytes)
    <3> TAKE o \in Nat
    <3>1. o \div PAGE_LENGTH \in Nat
      BY PageArith
    <3> DEFINE q == p + o \div PAGE_LENGTH
    <3>2. ~(q < p)
      BY <1>2, <3>1
    <3>3. String(o) = Null \/ String(o) = page
      BY <1>4, <1>5, <3>2
    <3> HIDE DEF String
    <3> QED
      BY <1>3, <3>3 DEF page
  <2> HIDE DEF array
  <2>1. PICK w : /\ w[0] = [offset |-> 0, strings |-> <<>>]
                 /\ \A c \in Nat : w[c + 1] = NextString(array, w[c])
                 /\ \A c \in Nat : Walk(array, c) = w[c].strings
    BY ONLY <2>0, WalkSteps
  <2>2. w[0 + 1] = NextString(array, w[0]) /\ Walk(array, 1) = w[1].strings
    BY <2>1
  <2>3. page # Null /\ <<>> # Null
    <3>1. <<>> \in Seq(Bytes)
      OBVIOUS
    <3> QED
      BY <1>3, <3>1, NullAssumption DEF page
  <2>4. w[1] = NextString(array, [offset |-> 0, strings |-> <<>>])
    BY <2>1, <2>2
  <2>5. w[1].strings = Append(<<>>, page)
    BY <1>6, <2>3, <2>4 DEF NextString
  <2>6. Append(<<>>, page) = <<page>>
    OBVIOUS
  <2> QED
    BY <1>2, <1>3, <1>7, <2>2, <2>5, <2>6 DEF page, p
=============================================================================
