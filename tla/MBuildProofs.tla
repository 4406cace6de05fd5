---------------------------- MODULE MBuildProofs ----------------------------
(***************************************************************************)
(* Proofs about MBuild.  The number of threads is a power of two and every *)
(* thread has at least two leaves; then worker t hashes at its level a the *)
(* range of nodes InRange(_, t, a), and these ranges partition the levels  *)
(* of the tree below the nodes that the main thread hashes.  At the end:   *)
(* no node is hashed twice, and, for text files, the tree that is printed  *)
(* is that of the pages of the file.                                       *)
(***************************************************************************)
EXTENDS MBuild, ParseProofs

\* The conditions under which the tree is built without a race.
Balanced ==
  /\ IsPowerOfTwo(nb_of_threads)
  /\ 2 * nb_of_threads <= leaf_start_index
  /\ ~CreateMayFail

NT == nb_of_threads
TopLevels    == Log2(nb_of_threads)
WorkerLevels == Log2(nb_leaves_per_thread)

\* The nodes of level a of worker t.
Span(a) == shl[WorkerLevels - a]
Base(t, a) == Span(a) * (NT + t)
InRange(x, t, a) == Base(t, a) <= x /\ x < Base(t, a) + Span(a)

-----------------------------------------------------------------------------

\* The sizes that m_build_tree computes, as powers of two.
LEMMA Sizes ==
  ASSUME Balanced
  PROVE  /\ TopLevels \in Nat /\ WorkerLevels \in Nat /\ WorkerLevels >= 1
         /\ tree_height = TopLevels + WorkerLevels + 1
         /\ NT = shl[TopLevels]
         /\ nb_leaves_per_thread = shl[WorkerLevels]
         /\ leaf_start_index = shl[WorkerLevels] * NT
         /\ leaf_start_index % NT = 0
         /\ new_start_index = 2 * NT
<1>1. PICK k \in 0..MaxShift : NT = shl[k]
  BY DEF Balanced, IsPowerOfTwo, NT
<1>2. k \in Nat /\ tree_height \in Nat /\ tree_height - 1 \in Nat
      /\ tree_height - 1 < MaxShift /\ MaxShift \in Nat
  BY SizeAssumption DEF MaxShift
<1>3. TopLevels = k
  BY <1>1, Log2Shl DEF TopLevels, NT
<1>4. k < tree_height - 1
  <2>1. NT \in Nat /\ NT >= 1 /\ 2 * NT <= shl[tree_height - 1]
    BY <1>1, <1>2, ShlType DEF Balanced, leaf_start_index, NT
  <2>2. CASE tree_height - 1 < k
    <3>1. 2 * shl[tree_height - 1] <= shl[k]
      BY <1>2, <2>2, ShlMono
    <3>2. shl[tree_height - 1] \in Nat
      BY <1>2, ShlType
    <3> QED
      BY <1>1, <2>1, <3>1, <3>2
  <2>3. CASE tree_height - 1 = k
    BY <1>1, <2>1, <2>3
  <2> QED
    BY <1>2, <2>2, <2>3
<1> DEFINE w == tree_height - 1 - k
<1>5. w \in Nat /\ w >= 1 /\ w \in 0..MaxShift /\ tree_height - 1 = w + k /\ w - 1 \in Nat
  BY <1>2, <1>4
<1>6. leaf_start_index = shl[w] * NT
  BY <1>1, <1>2, <1>5, ShlAdd DEF leaf_start_index
<1>7. shl[w] \in Nat /\ NT \in Nat /\ NT > 0 /\ shl[w - 1] \in Nat /\ shl[w - 1] >= 1
  BY <1>1, <1>2, <1>5, ShlType
<1> HIDE DEF w
<1>8. nb_leaves_per_thread = shl[w] /\ leaf_start_index % NT = 0
  BY <1>6, <1>7, DivExact DEF nb_leaves_per_thread, NT
<1>9. WorkerLevels = w
  BY <1>5, <1>8, Log2Shl DEF WorkerLevels
<1>10. shl[w] = 2 * shl[w - 1]
  <2>1. w = (w - 1) + 1
    BY <1>5
  <2> QED
    BY <1>5, <2>1, ShlSucc
<1>11. new_start_index = 2 * NT
  <2>1. nb_leaves_per_thread # 1
    BY <1>7, <1>8, <1>10
  <2>2. leaf_start_index = (2 * NT) * shl[w - 1]
    BY <1>6, <1>7, <1>10
  <2>3. leaf_start_index \div shl[w - 1] = 2 * NT
    BY <1>7, <2>2, DivExact
  <2> QED
    BY <2>1, <2>3, <1>9 DEF new_start_index, WorkerLevels
<1> QED
  BY <1>1, <1>2, <1>3, <1>5, <1>6, <1>8, <1>9, <1>11

\* The arguments that the workers get.
LEMMA Args ==
  ASSUME Balanced
  PROVE  \A t \in Threads : /\ ArgLeaves(t) = Span(0)
                            /\ Log2(ArgLeaves(t)) = WorkerLevels
                            /\ ArgStart(t) = Base(t, 0)
<1> TAKE t \in Threads
<1>1. NT \in Nat /\ t \in Nat /\ shl[WorkerLevels] \in Nat /\ Span(0) = shl[WorkerLevels]
  BY Sizes, ShlType, SizeAssumption DEF NT, Threads, Span
<1>2. ArgLeaves(t) = shl[WorkerLevels]
  BY <1>1, Sizes DEF ArgLeaves, NT
<1>3. Log2(ArgLeaves(t)) = WorkerLevels
  BY <1>2, Sizes DEF WorkerLevels
<1>4. ArgStart(t) = Base(t, 0)
  BY <1>1, Sizes DEF ArgStart, Base
<1> QED
  BY <1>1, <1>2, <1>3, <1>4

-----------------------------------------------------------------------------

\* Ranges halve from one level to the next.
LEMMA Spans ==
  ASSUME Balanced
  PROVE  /\ Span(WorkerLevels) = 1
         /\ \A a \in 0..WorkerLevels :
              /\ Span(a) \in Nat /\ Span(a) >= 1
              /\ Span(a) * NT = shl[TopLevels + WorkerLevels - a]
         /\ \A a \in 0..WorkerLevels - 1 : Span(a) = 2 * Span(a + 1)
<1>1. WorkerLevels \in Nat /\ TopLevels \in Nat
  BY Sizes
<1>2. Span(WorkerLevels) = 1
  <2>1. WorkerLevels - WorkerLevels = 0
    BY <1>1
  <2> QED
    BY <2>1, ShlZero DEF Span
<1>3. ASSUME NEW a \in 0..WorkerLevels
      PROVE  /\ Span(a) \in Nat /\ Span(a) >= 1
             /\ Span(a) * NT = shl[TopLevels + WorkerLevels - a]
  <2>1. WorkerLevels - a \in Nat
    BY <1>1
  <2>2. shl[(WorkerLevels - a) + TopLevels] = shl[WorkerLevels - a] * shl[TopLevels]
    BY <1>1, <2>1, ShlAdd
  <2>3. (WorkerLevels - a) + TopLevels = TopLevels + WorkerLevels - a
    BY <1>1
  <2> QED
    BY <2>1, <2>2, <2>3, Sizes, ShlType DEF Span
<1>4. ASSUME NEW a \in 0..WorkerLevels - 1
      PROVE  Span(a) = 2 * Span(a + 1)
  <2>1. WorkerLevels - (a + 1) \in Nat /\ WorkerLevels - a = (WorkerLevels - (a + 1)) + 1
    BY <1>1
  <2> QED
    BY <2>1, ShlSucc DEF Span
<1> QED
  BY <1>2, <1>3, <1>4

\* Where the range of a worker is at level a, and that halving it gives the range of the
\* next level (the start / 2 and nb_leaves / 2 of m_hash_nodes).
LEMMA Bases ==
  ASSUME Balanced
  PROVE  \A t \in Threads :
           /\ t \in Nat /\ t < NT /\ NT \in Nat
           /\ \A a \in 0..WorkerLevels : Base(t, a) \in Nat
           /\ \A a \in 0..WorkerLevels - 1 : Base(t, a) = 2 * Base(t, a + 1)
<1> TAKE t \in Threads
<1>1. t \in Nat /\ t < NT /\ NT \in Nat /\ WorkerLevels \in Nat
  BY Sizes, SizeAssumption, ShlType DEF NT, Threads
<1>2. ASSUME NEW a \in 0..WorkerLevels PROVE Base(t, a) \in Nat
  BY <1>1, Spans, MulNat DEF Base
<1>3. ASSUME NEW a \in 0..WorkerLevels - 1
      PROVE  Base(t, a) = 2 * Base(t, a + 1)
  <2>1. Span(a) = 2 * Span(a + 1) /\ Span(a + 1) \in Nat
    <3>1. a + 1 \in 0..WorkerLevels
      BY <1>1
    <3> QED
      BY <3>1, Spans
  <2>2. (2 * Span(a + 1)) * (NT + t) = 2 * (Span(a + 1) * (NT + t))
    BY <1>1, <2>1
  <2> QED
    BY <2>1, <2>2 DEF Base
<1> QED
  BY <1>1, <1>2, <1>3

\* Level a of the workers is level TopLevels + WorkerLevels - a of the tree.
LEMMA RangeBounds ==
  ASSUME Balanced, NEW t \in Threads, NEW a \in 0..WorkerLevels,
         NEW x \in Nat, InRange(x, t, a)
  PROVE  /\ shl[TopLevels + WorkerLevels - a] <= x
         /\ x < 2 * shl[TopLevels + WorkerLevels - a]
<1> DEFINE s == Span(a)
<1>1. s \in Nat /\ s * NT = shl[TopLevels + WorkerLevels - a]
  BY Spans
<1>2. t \in Nat /\ t < NT /\ NT \in Nat
  BY Bases
<1>3. s * (NT + t) <= x /\ x < s * (NT + t) + s
  BY DEF InRange, Base
<1> HIDE DEF s
<1>4. s * (NT + t) = s * NT + s * t /\ s * NT \in Nat /\ s * t \in Nat
  BY <1>1, <1>2, MulNat
<1>5. s * t + s <= s * NT
  BY <1>1, <1>2, MulMono
<1> QED
  BY <1>1, <1>3, <1>4, <1>5

\* Two ranges of different levels, or of different workers, do not meet.
LEMMA Disjoint ==
  ASSUME Balanced, NEW t \in Threads, NEW u \in Threads,
         NEW a \in 0..WorkerLevels, NEW b \in 0..WorkerLevels,
         NEW x \in Nat, InRange(x, t, a), InRange(x, u, b)
  PROVE  t = u /\ a = b
<1>1. TopLevels \in Nat /\ WorkerLevels \in Nat /\ WorkerLevels - a \in Nat /\ WorkerLevels - b \in Nat
  BY Sizes
<1>2. a = b
  <2> DEFINE A == TopLevels + WorkerLevels - a
             B == TopLevels + WorkerLevels - b
  <2>1. A \in Nat /\ B \in Nat
    BY <1>1
  <2>2. shl[A] <= x /\ x < 2 * shl[A] /\ shl[B] <= x /\ x < 2 * shl[B]
    BY RangeBounds
  <2>3. (A < B => 2 * shl[A] <= shl[B]) /\ (B < A => 2 * shl[B] <= shl[A])
    BY <2>1, ShlMono
  <2>4. shl[A] \in Nat /\ shl[B] \in Nat
    BY <2>1, ShlType
  <2>5. A = B
    <3> HIDE DEF A, B
    <3> QED
      BY <2>1, <2>2, <2>3, <2>4
  <2> QED
    BY <1>1, <2>5
<1>3. t = u
  <2> DEFINE s == Span(a)
  <2>1. s \in Nat /\ t \in Nat /\ u \in Nat /\ NT \in Nat
    BY Spans, Bases
  <2>2. /\ s * (NT + t) <= x /\ x < s * (NT + t) + s
        /\ s * (NT + u) <= x /\ x < s * (NT + u) + s
    BY <1>2 DEF InRange, Base
  <2> HIDE DEF s
  <2>3. s * (NT + t) \in Nat /\ s * (NT + u) \in Nat /\ NT + t \in Nat /\ NT + u \in Nat
    BY <2>1, MulNat
  <2>4. NT + t < NT + u => s * (NT + t) + s <= s * (NT + u)
    BY <2>1, <2>3, MulMono
  <2>5. NT + u < NT + t => s * (NT + u) + s <= s * (NT + t)
    BY <2>1, <2>3, MulMono
  <2> QED
    BY <2>1, <2>2, <2>3, <2>4, <2>5
<1> QED
  BY <1>2, <1>3

\* The first level of a worker is made of leaves, the others of inner nodes.
LEMMA RangeKinds ==
  ASSUME Balanced, NEW t \in Threads, NEW a \in 0..WorkerLevels,
         NEW x \in Nat, InRange(x, t, a)
  PROVE  /\ a = 0 => x \in Leaves(tree_height)
         /\ a # 0 => x \in Interior(tree_height)
<1> DEFINE A == TopLevels + WorkerLevels - a
<1>1. /\ TopLevels \in Nat /\ WorkerLevels \in Nat /\ A \in Nat
      /\ tree_height - 1 = TopLevels + WorkerLevels /\ tree_height - 1 \in Nat
      /\ tree_height = (tree_height - 1) + 1
  BY Sizes
<1>2. shl[A] <= x /\ x < 2 * shl[A] /\ shl[A] \in Nat /\ shl[A] >= 1
  BY <1>1, RangeBounds, ShlType
<1>3. shl[tree_height] = 2 * shl[tree_height - 1] /\ shl[tree_height - 1] \in Nat
  BY <1>1, ShlSucc, ShlType
<1>4. a = 0 => A = tree_height - 1
  BY <1>1
<1>5. a # 0 => A < tree_height - 1
  BY <1>1
<1>6. a # 0 => 2 * shl[A] <= shl[tree_height - 1]
  BY <1>1, <1>5, ShlMono
<1> HIDE DEF A
<1>7. a = 0 => x \in Leaves(tree_height)
  BY <1>2, <1>3, <1>4 DEF Leaves
<1>8. a # 0 => x \in Interior(tree_height)
  BY <1>2, <1>3, <1>6 DEF Interior
<1> QED
  BY <1>7, <1>8

\* The children of a node of a worker's level are on its level below.
LEMMA ChildrenInRange ==
  ASSUME Balanced, NEW t \in Threads, NEW a \in 0..WorkerLevels, a # 0,
         NEW x \in Nat, InRange(x, t, a)
  PROVE  a - 1 \in 0..WorkerLevels /\ InRange(2 * x, t, a - 1) /\ InRange(2 * x + 1, t, a - 1)
<1>1. a - 1 \in 0..WorkerLevels - 1 /\ (a - 1) + 1 = a /\ WorkerLevels \in Nat
  BY Sizes
<1>2. Span(a - 1) = 2 * Span(a) /\ Base(t, a - 1) = 2 * Base(t, a)
  BY <1>1, Spans, Bases
<1>3. Span(a) \in Nat /\ Base(t, a) \in Nat
  BY Spans, Bases
<1> QED
  BY <1>1, <1>2, <1>3 DEF InRange

\* Every node below the top of the tree is in the range of a worker.
LEMMA Cover ==
  ASSUME Balanced, NEW x \in Nat, 2 * NT <= x, x < nb_nodes
  PROVE  \E t \in Threads, a \in 0..WorkerLevels - 1 : InRange(x, t, a)
<1>1. /\ TopLevels \in Nat /\ WorkerLevels \in Nat /\ WorkerLevels >= 1
      /\ tree_height = TopLevels + WorkerLevels + 1 /\ tree_height \in Nat
      /\ TopLevels + 1 \in Nat
  BY Sizes
<1>2. shl[TopLevels + 1] = 2 * NT /\ nb_nodes = shl[tree_height] /\ NT \in Nat /\ NT >= 1
  BY <1>1, Sizes, ShlSucc, ShlType DEF nb_nodes
<1>3. PICK k \in Nat : shl[k] <= x /\ x < shl[k + 1]
  <2>1. x \in Nat \ {0}
    BY <1>2
  <2> QED
    BY <2>1, LevelExists
<1>4. k >= TopLevels + 1
  <2>1. SUFFICES ASSUME k < TopLevels + 1 PROVE FALSE
    BY <1>1
  <2>2. shl[k + 1] <= shl[TopLevels + 1]
    <3>1. 2 * shl[k] <= shl[TopLevels + 1]
      BY <1>1, <2>1, ShlMono
    <3> QED
      BY <3>1, ShlSucc
  <2> QED
    BY <1>2, <1>3, <2>2, ShlType
<1>5. k < tree_height
  <2>1. SUFFICES ASSUME k >= tree_height PROVE FALSE
    BY <1>1
  <2>2. k # tree_height => 2 * shl[tree_height] <= shl[k]
    BY <1>1, <2>1, ShlMono
  <2>3. shl[tree_height] \in Nat /\ shl[k] \in Nat
    BY <1>1, ShlType
  <2> QED
    BY <1>2, <1>3, <2>2, <2>3
<1> DEFINE a == TopLevels + WorkerLevels - k
<1>6. a \in 0..WorkerLevels - 1 /\ a \in 0..WorkerLevels /\ TopLevels + WorkerLevels - a = k
  BY <1>1, <1>4, <1>5
<1> HIDE DEF a
<1> DEFINE s == Span(a)
<1>7. s \in Nat /\ s > 0 /\ s * NT = shl[k]
  BY <1>6, Spans
<1> HIDE DEF s
<1>8. PICK q \in Nat : s * q <= x /\ x < s * q + s
  BY <1>7, DivBounds
<1>9. s * NT <= x /\ x < s * (2 * NT)
  <2>1. shl[k + 1] = 2 * (s * NT)
    BY <1>7, ShlSucc
  <2>2. s * (2 * NT) = 2 * (s * NT)
    BY <1>2, <1>7
  <2> QED
    BY <1>3, <1>7, <2>1, <2>2
<1>10. NT <= q
  <2>1. SUFFICES ASSUME q < NT PROVE FALSE
    BY <1>2
  <2>2. s * q + s <= s * NT
    BY <1>2, <1>7, <2>1, MulMono
  <2> QED
    BY <1>2, <1>7, <1>8, <1>9, <2>2, MulNat
<1>11. q < 2 * NT
  <2>1. SUFFICES ASSUME 2 * NT <= q PROVE FALSE
    BY <1>2
  <2>2. 2 * NT < q => s * (2 * NT) + s <= s * q
    BY <1>2, <1>7, MulMono
  <2>3. s * (2 * NT) <= s * q
    BY <1>2, <1>7, <2>1, <2>2, MulNat
  <2> QED
    BY <1>2, <1>7, <1>8, <1>9, <2>3, MulNat
<1> DEFINE t == q - NT
<1>12. t \in Threads /\ NT + t = q
  BY <1>2, <1>10, <1>11 DEF Threads, NT
<1>13. InRange(x, t, a)
  BY <1>8, <1>12 DEF InRange, Base, s
<1> QED
  BY <1>6, <1>12, <1>13

-----------------------------------------------------------------------------

Hashed(x)  == Good(hash, data, tree_height, x)
Fits(s, x) == HasText(s) /\ s \in hash_node(hash, data, tree_height, x)

\* The nodes that worker t has finished.
Completed(t, x) ==
  \/ \E a \in 0..level[t] - 1 : InRange(x, t, a)
  \/ start[t] <= x /\ x < j[t]

\* Before it has read its arguments a worker has no range.
NoRange(t) == level[t] = 0 /\ start[t] = 0 /\ j[t] = 0

\* Afterwards its locals describe a level and a position on it.
OnLevel(t) ==
  /\ t_arg[t] = OwnArgs(t)
  /\ level[t] \in 0..WorkerLevels
  /\ nb_leaves[t] = Span(level[t])
  /\ start[t] = Base(t, level[t])
  /\ start[t] <= j[t] /\ j[t] < start[t] + nb_leaves[t]
  /\ wpc[t] = "done" <=> level[t] = WorkerLevels

\* Between the two halves of hash_node the node has no text yet, and the text for
\* it fits the children.
Storing(t) == wpc[t] = "store" => hash[j[t]] = Garbage /\ Fits(text[t], j[t])

WorkerInv(t) ==
  /\ wpc[t] \in {"none", "args"} => NoRange(t)
  /\ wpc[t] \notin {"none", "args"} => OnLevel(t)
  /\ Storing(t)
  /\ pc \in {"set", "create", "join"} =>
       \A x \in Nodes(tree_height) : Completed(t, x) => Hashed(x)

TypeInv ==
  /\ data = [x \in Leaves(tree_height) |-> data[x]]
  /\ hash = [x \in Nodes(tree_height) |-> hash[x]]
  /\ text = [t \in Threads \cup {Main} |-> text[t]]
  /\ pc \in {"set", "create", "join", "root", "store", "print", "returned", "crashed"}
  /\ ret \in {"none", "built", "failed"}
  /\ t_arg \in [Threads -> [start_index : Nat, nb_leaves : Nat]]
  /\ wpc \in [Threads -> {"none", "args", "hash", "store", "done"}]
  /\ level \in [Threads -> Nat] /\ start \in [Threads -> Nat]
  /\ nb_leaves \in [Threads -> Nat] /\ j \in [Threads -> Nat]

AllDone == \A t \in Threads : wpc[t] = "done"

SetInv ==
  pc = "set" => /\ i \in leaf_start_index..nb_nodes
                /\ \A t \in Threads : wpc[t] = "none"
                /\ \A x \in Leaves(tree_height) : x < i => data[x] # Null
                /\ \A x \in Nodes(tree_height) : hash[x] = Unset
CreateInv ==
  pc = "create" => /\ i \in 0..NT
                   /\ \A t \in Threads : wpc[t] = "none" <=> i <= t
JoinInv ==
  pc = "join" => /\ i \in 0..NT - 1
                 /\ \A t \in Threads : wpc[t] # "none" /\ (t < i => wpc[t] = "done")
RootInv ==
  pc \in {"root", "store"} => /\ i \in 0..2 * NT
                              /\ AllDone
                              /\ \A x \in Nodes(tree_height) : i < x => Hashed(x)
StoreInv ==
  pc = "store" => i >= 1 /\ hash[i] = Garbage /\ Fits(text[Main], i)
EndInv ==
  pc \in {"print", "returned", "crashed"} =>
    /\ ret \in {"built", "failed"}
    /\ ret = "built"  => AllDone /\ \A x \in Nodes(tree_height) : Hashed(x)
    /\ ret = "failed" => /\ \A t \in Threads : wpc[t] = "none"
                         /\ hash[1] = Unset
    /\ i \in 0..nb_nodes
DataInv ==
  pc \in {"create", "join", "root", "store"} =>
    ret = "none" /\ \A x \in Leaves(tree_height) : data[x] # Null
ResultInv ==
  /\ pc = "set" => ret = "none"
  /\ result # Null => pc = "returned" /\ ret = "built" /\ result = hash

PhaseInv == SetInv /\ CreateInv /\ JoinInv /\ RootInv /\ StoreInv /\ EndInv /\ DataInv /\ ResultInv

IInv == TypeInv /\ PhaseInv /\ \A t \in Threads : WorkerInv(t)

-----------------------------------------------------------------------------

\* Node numbers: the two kinds of nodes, and the children of an inner node.
LEMMA NodeKinds ==
  /\ leaf_start_index \in Nat /\ leaf_start_index >= 1
  /\ nb_nodes = 2 * leaf_start_index
  /\ Nodes(tree_height) = 1..nb_nodes - 1
  /\ Leaves(tree_height) = leaf_start_index..nb_nodes - 1
  /\ Interior(tree_height) = 1..leaf_start_index - 1
  /\ \A x \in Nodes(tree_height) : x \in Nat /\ x >= 1 /\ 2 * x # x /\ 2 * x + 1 # x
  /\ \A x \in Nodes(tree_height) : x \in Leaves(tree_height) \/ x \in Interior(tree_height)
  /\ \A x \in Leaves(tree_height) : x \in Nodes(tree_height) /\ x \notin Interior(tree_height)
  /\ \A x \in Interior(tree_height) :
       /\ x \in Nodes(tree_height) /\ x \notin Leaves(tree_height)
       /\ 2 * x \in Nodes(tree_height) /\ 2 * x + 1 \in Nodes(tree_height)
<1>1. tree_height - 1 \in Nat /\ tree_height = (tree_height - 1) + 1
  BY SizeAssumption DEF MaxShift
<1>2. leaf_start_index \in Nat /\ leaf_start_index >= 1 /\ nb_nodes = 2 * leaf_start_index
  BY <1>1, ShlType, ShlSucc DEF leaf_start_index, nb_nodes
<1>3. /\ Nodes(tree_height) = 1..nb_nodes - 1
      /\ Leaves(tree_height) = leaf_start_index..nb_nodes - 1
      /\ Interior(tree_height) = 1..leaf_start_index - 1
  BY DEF Nodes, Leaves, Interior, nb_nodes, leaf_start_index
<1> QED
  BY <1>2, <1>3

\* A write to another node that is not a child leaves a good node good.
LEMMA GoodKept ==
  ASSUME NEW H, NEW D, NEW x \in Nodes(tree_height), NEW y, NEW v,
         H = [z \in Nodes(tree_height) |-> H[z]],
         x # y, 2 * x # y, 2 * x + 1 # y,
         Good(H, D, tree_height, x)
  PROVE  Good([H EXCEPT ![y] = v], D, tree_height, x)
<1> DEFINE H2 == [H EXCEPT ![y] = v]
<1>1. \A z \in Nodes(tree_height) : z # y => H2[z] = H[z]
  OBVIOUS
<1>2. H2[x] = H[x]
  BY <1>1
<1>3. x \in Interior(tree_height) => H2[2 * x] = H[2 * x] /\ H2[2 * x + 1] = H[2 * x + 1]
  BY <1>1, NodeKinds
<1> HIDE DEF H2
<1>4. Good(H2, D, tree_height, x)
  BY <1>2, <1>3 DEF Good
<1> QED
  BY <1>4 DEF H2

\* The same for a text that is about to be stored.
LEMMA FitsKept ==
  ASSUME NEW H, NEW D, NEW x \in Nodes(tree_height), NEW y, NEW v,
         H = [z \in Nodes(tree_height) |-> H[z]],
         2 * x # y, 2 * x + 1 # y
  PROVE  hash_node([H EXCEPT ![y] = v], D, tree_height, x) = hash_node(H, D, tree_height, x)
<1> DEFINE H2 == [H EXCEPT ![y] = v]
<1>1. \A z \in Nodes(tree_height) : z # y => H2[z] = H[z]
  OBVIOUS
<1>2. x \in Interior(tree_height) => H2[2 * x] = H[2 * x] /\ H2[2 * x + 1] = H[2 * x + 1]
  BY <1>1, NodeKinds
<1> HIDE DEF H2
<1>3. hash_node(H2, D, tree_height, x) = hash_node(H, D, tree_height, x)
  BY <1>2 DEF hash_node
<1> QED
  BY <1>3 DEF H2

\* The hashes are an array over the nodes.
LEMMA HashIsArray ==
  ASSUME TypeInv
  PROVE  hash = [x \in Nodes(tree_height) |-> hash[x]]
BY DEF TypeInv

\* Storing the text that hash_node computed makes the node good.
LEMMA GoodMade ==
  ASSUME NEW H, NEW D, NEW x \in Nodes(tree_height), NEW s,
         H = [z \in Nodes(tree_height) |-> H[z]],
         HasText(s), s \in hash_node(H, D, tree_height, x)
  PROVE  Good([H EXCEPT ![x] = s], D, tree_height, x)
<1> DEFINE H2 == [H EXCEPT ![x] = s]
<1>1. H2[x] = s /\ \A z \in Nodes(tree_height) : z # x => H2[z] = H[z]
  OBVIOUS
<1>2. x \in Interior(tree_height) => H2[2 * x] = H[2 * x] /\ H2[2 * x + 1] = H[2 * x + 1]
  BY <1>1, NodeKinds
<1> HIDE DEF H2
<1>3. CASE x \in Leaves(tree_height)
  <2>1. s \in {LeafHash(d) : d \in {D[x]} \ {Null}}
    BY <1>3 DEF hash_node
  <2>2. D[x] # Null /\ s = LeafHash(D[x])
    BY <2>1
  <2> QED
    BY <1>1, <1>3, <2>2, NodeKinds DEF Good
<1>4. CASE x \in Interior(tree_height)
  <2>1. x \notin Leaves(tree_height)
    BY <1>4, NodeKinds
  <2>2. s \in NodeHashes(H[2 * x], H[2 * x + 1])
    BY <1>4, <2>1 DEF hash_node
  <2> QED
    BY <1>1, <1>2, <1>4, <2>1, <2>2 DEF Good
<1> QED
  BY <1>3, <1>4, NodeKinds DEF H2

\* hash_node succeeds on a leaf with data and on a node with two hashed children.
LEMMA Ready ==
  ASSUME NEW H, NEW D, NEW x \in Nodes(tree_height),
         x \in Leaves(tree_height) => D[x] # Null,
         x \in Interior(tree_height) => HasText(H[2 * x]) /\ HasText(H[2 * x + 1])
  PROVE  /\ hash_node(H, D, tree_height, x) # {}
         /\ \A s \in hash_node(H, D, tree_height, x) : HasText(s)
<1>1. CASE x \in Leaves(tree_height)
  <2>1. hash_node(H, D, tree_height, x) = {LeafHash(D[x])}
    BY <1>1 DEF hash_node
  <2> QED
    BY <2>1 DEF LeafHash, HasText, Text
<1>2. CASE x \in Interior(tree_height)
  <2>1. x \notin Leaves(tree_height)
    BY <1>2, NodeKinds
  <2>2. Unset \notin {H[2 * x], H[2 * x + 1]}
    BY <1>2 DEF HasText, Unset
  <2>3. hash_node(H, D, tree_height, x) = NodeHashes(H[2 * x], H[2 * x + 1])
    BY <1>2, <2>1, <2>2 DEF hash_node
  <2>4. \A s \in NodeHashes(H[2 * x], H[2 * x + 1]) : HasText(s)
    BY <1>2 DEF NodeHashes, HasText, Text
  <2>5. NodeHashes(H[2 * x], H[2 * x + 1]) # {}
    BY <1>2, TailsAssumption DEF NodeHashes
  <2> QED
    BY <2>3, <2>4, <2>5
<1> QED
  BY <1>1, <1>2, NodeKinds

-----------------------------------------------------------------------------

\* A worker that is inside hash_node is on a node of its current range.
LEMMA Position ==
  ASSUME Balanced, TypeInv, NEW t \in Threads, WorkerInv(t), InHash(t)
  PROVE  /\ level[t] \in 0..WorkerLevels - 1 /\ level[t] \in 0..WorkerLevels
         /\ j[t] \in Nat
         /\ InRange(j[t], t, level[t])
         /\ j[t] \in Nodes(tree_height)
<1>1. OnLevel(t) /\ wpc[t] # "done" /\ j[t] \in Nat /\ WorkerLevels \in Nat
  BY Sizes DEF WorkerInv, InHash, TypeInv
<1>2. level[t] \in 0..WorkerLevels - 1 /\ level[t] \in 0..WorkerLevels
  BY <1>1 DEF OnLevel
<1>3. InRange(j[t], t, level[t])
  BY <1>1 DEF OnLevel, InRange
<1>4. j[t] \in Nodes(tree_height)
  BY <1>1, <1>2, <1>3, RangeKinds, NodeKinds
<1> QED
  BY <1>1, <1>2, <1>3, <1>4

\* The children of a node of a range are in a range of the same worker, or below
\* the tree.
LEMMA Below ==
  ASSUME Balanced, NEW t \in Threads, NEW a \in 0..WorkerLevels, NEW x \in Nat,
         InRange(x, t, a), NEW y \in Nodes(tree_height), y = 2 * x \/ y = 2 * x + 1
  PROVE  a # 0 /\ a - 1 \in 0..WorkerLevels /\ InRange(y, t, a - 1)
<1>1. a # 0
  <2>1. a = 0 => x \in Leaves(tree_height)
    BY RangeKinds
  <2> QED
    BY <2>1, NodeKinds
<1> QED
  BY <1>1, ChildrenInRange

\* A finished node is in a range that its worker has left, or before it.
LEMMA Finished ==
  ASSUME Balanced, TypeInv, NEW u \in Threads, WorkerInv(u),
         NEW x \in Nodes(tree_height), Completed(u, x)
  PROVE  /\ wpc[u] \notin {"none", "args"}
         /\ \E b \in 0..WorkerLevels :
              InRange(x, u, b) /\ b <= level[u] /\ (b = level[u] => x < j[u])
<1>1. x \in Nat /\ x >= 1 /\ level[u] \in Nat /\ start[u] \in Nat /\ j[u] \in Nat
      /\ WorkerLevels \in Nat
  BY NodeKinds, Sizes DEF TypeInv
<1>2. wpc[u] \notin {"none", "args"}
  BY <1>1 DEF WorkerInv, NoRange, Completed
<1>3. OnLevel(u)
  BY <1>2 DEF WorkerInv
<1>4. CASE \E a \in 0..level[u] - 1 : InRange(x, u, a)
  <2>1. PICK a \in 0..level[u] - 1 : InRange(x, u, a)
    BY <1>4
  <2>2. a \in 0..WorkerLevels /\ a <= level[u] /\ a # level[u]
    BY <1>1, <1>3, <2>1 DEF OnLevel
  <2> QED
    BY <1>2, <2>1, <2>2
<1>5. CASE start[u] <= x /\ x < j[u]
  <2>1. Span(level[u]) \in Nat /\ level[u] \in 0..WorkerLevels /\ level[u] <= level[u]
    BY <1>1, <1>3, Spans DEF OnLevel
  <2>2. InRange(x, u, level[u])
    BY <1>1, <1>3, <1>5, <2>1 DEF OnLevel, InRange
  <2> QED
    BY <1>2, <1>5, <2>1, <2>2
<1> QED
  BY <1>4, <1>5 DEF Completed

\* The node that a worker writes is neither finished nor the child of a finished node.
LEMMA Apart ==
  ASSUME Balanced, TypeInv, NEW t \in Threads, NEW u \in Threads,
         WorkerInv(t), WorkerInv(u), InHash(t),
         NEW x \in Nodes(tree_height), Completed(u, x)
  PROVE  x # j[t] /\ 2 * x # j[t] /\ 2 * x + 1 # j[t]
<1>1. /\ level[t] \in 0..WorkerLevels /\ j[t] \in Nat
      /\ InRange(j[t], t, level[t]) /\ j[t] \in Nodes(tree_height)
  BY Position
<1>2. PICK b \in 0..WorkerLevels :
        InRange(x, u, b) /\ b <= level[u] /\ (b = level[u] => x < j[u])
  BY Finished
<1>3. x \in Nat
  BY NodeKinds
<1>4. x # j[t]
  <2>1. SUFFICES ASSUME x = j[t] PROVE FALSE
    OBVIOUS
  <2>2. u = t /\ b = level[t]
    BY <1>1, <1>2, <1>3, <2>1, Disjoint
  <2> QED
    BY <1>2, <1>3, <2>1, <2>2
<1>5. ASSUME j[t] = 2 * x \/ j[t] = 2 * x + 1 PROVE FALSE
  <2>1. b # 0 /\ b - 1 \in 0..WorkerLevels /\ InRange(j[t], u, b - 1)
    BY <1>1, <1>2, <1>3, <1>5, Below
  <2>2. u = t /\ b - 1 = level[t]
    BY <1>1, <2>1, Disjoint
  <2> QED
    BY <1>1, <1>2, <2>1, <2>2
<1> QED
  BY <1>4, <1>5

\* Two workers inside hash_node do not touch each other's nodes.
LEMMA WorkersApart ==
  ASSUME Balanced, TypeInv, NEW t \in Threads, NEW u \in Threads, t # u,
         WorkerInv(t), WorkerInv(u), InHash(t), InHash(u)
  PROVE  j[t] # j[u] /\ 2 * j[u] # j[t] /\ 2 * j[u] + 1 # j[t]
<1>1. /\ level[t] \in 0..WorkerLevels /\ j[t] \in Nat
      /\ InRange(j[t], t, level[t]) /\ j[t] \in Nodes(tree_height)
  BY Position
<1>2. level[u] \in 0..WorkerLevels /\ j[u] \in Nat /\ InRange(j[u], u, level[u])
  BY Position
<1>3. j[t] # j[u]
  BY <1>1, <1>2, Disjoint
<1>4. ASSUME j[t] = 2 * j[u] \/ j[t] = 2 * j[u] + 1 PROVE FALSE
  <2>1. level[u] - 1 \in 0..WorkerLevels /\ InRange(j[t], u, level[u] - 1)
    BY <1>1, <1>2, <1>4, Below
  <2> QED
    BY <1>1, <2>1, Disjoint
<1> QED
  BY <1>3, <1>4

\* A worker that reaches a node finds it ready: hash_node does not fail.
LEMMA WorkerReady ==
  ASSUME Balanced, TypeInv, PhaseInv, NEW t \in Threads, WorkerInv(t), wpc[t] = "hash"
  PROVE  /\ pc \in {"create", "join"}
         /\ hash_node(hash, data, tree_height, j[t]) # {}
         /\ \A s \in hash_node(hash, data, tree_height, j[t]) : HasText(s)
<1>1. InHash(t)
  BY DEF InHash
<1>2. /\ level[t] \in 0..WorkerLevels /\ j[t] \in Nat /\ WorkerLevels \in Nat
      /\ InRange(j[t], t, level[t]) /\ j[t] \in Nodes(tree_height)
  BY <1>1, Position, Sizes
<1>3. pc \in {"create", "join"}
  BY DEF PhaseInv, SetInv, RootInv, EndInv, AllDone, TypeInv
<1>4. j[t] \in Leaves(tree_height) => data[j[t]] # Null
  BY <1>3 DEF PhaseInv, DataInv
<1>5. ASSUME j[t] \in Interior(tree_height)
      PROVE  HasText(hash[2 * j[t]]) /\ HasText(hash[2 * j[t] + 1])
  <2>1. level[t] # 0
    BY <1>2, <1>5, RangeKinds, NodeKinds
  <2>2. InRange(2 * j[t], t, level[t] - 1) /\ InRange(2 * j[t] + 1, t, level[t] - 1)
    BY <1>2, <2>1, ChildrenInRange
  <2>3. level[t] - 1 \in 0..level[t] - 1
    BY <1>2, <2>1
  <2>4. Completed(t, 2 * j[t]) /\ Completed(t, 2 * j[t] + 1)
    BY <2>2, <2>3 DEF Completed
  <2>5. Hashed(2 * j[t]) /\ Hashed(2 * j[t] + 1)
    BY <1>3, <1>5, <2>4, NodeKinds DEF WorkerInv
  <2> QED
    BY <2>5 DEF Hashed, Good
<1> QED
  BY <1>2, <1>3, <1>4, <1>5, Ready

-----------------------------------------------------------------------------

\* The invariant holds when m_build_tree starts to set the data.
LEMMA InitInv ==
  ASSUME Balanced, Init
  PROVE  IInv
<1>1. TypeInv
  BY DEF Init, TypeInv
<1>2. PhaseInv
  <2>1. pc = "set" /\ i = leaf_start_index /\ ret = "none" /\ result = Null
    BY DEF Init
  <2>2. SetInv
    BY <2>1, NodeKinds DEF Init, SetInv
  <2> QED
    BY <2>1, <2>2
       DEF PhaseInv, CreateInv, JoinInv, RootInv, StoreInv, EndInv, DataInv, ResultInv
<1>3. ASSUME NEW t \in Threads PROVE WorkerInv(t)
  <2>1. wpc[t] = "none" /\ level[t] = 0 /\ start[t] = 0 /\ j[t] = 0
    BY DEF Init
  <2>2. \A x \in Nodes(tree_height) : ~Completed(t, x)
    BY <2>1, NodeKinds DEF Completed
  <2> QED
    BY <2>1, <2>2 DEF WorkerInv, NoRange, Storing
<1> QED
  BY <1>1, <1>2, <1>3 DEF IInv

\* The steps that leave the tree and the workers alone keep what holds of a worker.
LEMMA WorkersUnchanged ==
  ASSUME NEW t \in Threads, WorkerInv(t), UNCHANGED <<tree, workers, text>>,
         pc' \in {"set", "create", "join"} => pc \in {"set", "create", "join"}
  PROVE  WorkerInv(t)'
BY DEF WorkerInv, NoRange, OnLevel, Storing, Completed, Hashed, Fits, tree, workers

\* One iteration of set_tree_datas.
LEMMA SetDataStep ==
  ASSUME Balanced, IInv, SetData
  PROVE  IInv'
<1> USE DEF IInv
<1>1. pc = "set" /\ i < nb_nodes /\ UNCHANGED <<result, t_arg, wpc, level, start, nb_leaves, j, text>>
      /\ ret = "none" /\ SetInv /\ ResultInv
  BY DEF SetData, workers, PhaseInv, ResultInv
<1>2. i \in Nodes(tree_height) /\ i \in Leaves(tree_height) /\ i \in Nat
  BY <1>1, NodeKinds DEF SetInv
<1>3. result = Null
  BY <1>1 DEF ResultInv
<1>4. \A t \in Threads : wpc[t] = "none" /\ level[t] = 0 /\ start[t] = 0 /\ j[t] = 0
  BY <1>1 DEF SetInv, WorkerInv, NoRange
<1>5. \A t \in Threads : WorkerInv(t)'
  <2> TAKE t \in Threads
  <2>1. wpc'[t] = "none" /\ level'[t] = 0 /\ start'[t] = 0 /\ j'[t] = 0
    BY <1>1, <1>4
  <2>2. \A x \in Nodes(tree_height) : ~Completed(t, x)'
    BY <2>1, NodeKinds DEF Completed
  <2> QED
    BY <2>1, <2>2 DEF WorkerInv, NoRange, Storing
<1> DEFINE s == Slot(file, heap, total_size)
<1>6. CASE s = Null
  <2>1. pc' = "print" /\ ret' = "failed" /\ UNCHANGED <<data, hash, i>>
    BY <1>6 DEF SetData, Return
  <2>2. TypeInv'
    BY <1>1, <2>1 DEF TypeInv
  <2>3. EndInv'
    BY <1>1, <1>2, <2>1, NodeKinds DEF EndInv, SetInv
  <2>4. PhaseInv'
    BY <1>1, <1>3, <2>1, <2>3
       DEF PhaseInv, SetInv, CreateInv, JoinInv, RootInv, StoreInv, DataInv, ResultInv
  <2> QED
    BY <1>5, <2>2, <2>4
<1>7. CASE s # Null
  <2>1. /\ data' = [data EXCEPT ![i] = s] /\ hash' = [hash EXCEPT ![i] = Unset]
        /\ i' = i + 1 /\ pc' = "set" /\ ret' = "none"
    BY <1>1, <1>7 DEF SetData
  <2> HIDE DEF s
  <2>2. TypeInv'
    BY <1>1, <2>1 DEF TypeInv
  <2>3. SetInv'
    <3>1. i' \in leaf_start_index..nb_nodes
      BY <1>1, <1>2, <2>1, NodeKinds DEF SetInv
    <3>2. ASSUME NEW x \in Leaves(tree_height), x < i' PROVE data'[x] # Null
      <4>1. x \in Nat
        BY NodeKinds
      <4>2. x = i \/ (x # i /\ x < i)
        BY <1>2, <2>1, <3>2, <4>1
      <4> QED
        BY <1>1, <1>7, <2>1, <4>2 DEF SetInv, TypeInv
    <3>3. ASSUME NEW x \in Nodes(tree_height) PROVE hash'[x] = Unset
      BY <1>1, <2>1 DEF SetInv, TypeInv
    <3> QED
      BY <1>1, <1>4, <3>1, <3>2, <3>3 DEF SetInv
  <2>4. PhaseInv'
    BY <1>1, <1>3, <2>1, <2>3
       DEF PhaseInv, CreateInv, JoinInv, RootInv, StoreInv, EndInv, DataInv, ResultInv
  <2> QED
    BY <1>5, <2>2, <2>4
<1> QED
  BY <1>6, <1>7

\* The invariant is kept by the end of set_tree_datas.
LEMMA SetDoneStep ==
  ASSUME Balanced, IInv, SetDone
  PROVE  IInv'
<1> USE DEF IInv
<1>1. /\ pc = "set" /\ i = nb_nodes /\ pc' = "create" /\ i' = 0
      /\ UNCHANGED <<ret, result, data, hash, t_arg, wpc, level, start, nb_leaves, j, text>>
      /\ SetInv /\ ResultInv
  BY DEF SetDone, main, tree, workers, PhaseInv
<1>2. TypeInv'
  BY <1>1 DEF TypeInv
<1>3. \A t \in Threads : WorkerInv(t)'
  BY <1>1, WorkersUnchanged DEF tree, workers
<1>4. NT \in Nat /\ \A t \in Threads : t \in Nat
  BY SizeAssumption, NodeKinds DEF NT, Threads
<1>5. CreateInv'
  BY <1>1, <1>4 DEF CreateInv, SetInv
<1>6. DataInv'
  BY <1>1, NodeKinds DEF DataInv, SetInv, ResultInv
<1>7. PhaseInv'
  BY <1>1, <1>5, <1>6
     DEF PhaseInv, SetInv, JoinInv, RootInv, StoreInv, EndInv, ResultInv
<1> QED
  BY <1>2, <1>3, <1>7

\* pthread_create: the new worker has not read its arguments yet.
LEMMA CreateThreadStep ==
  ASSUME Balanced, IInv, CreateThread
  PROVE  IInv'
<1> USE DEF IInv
<1>1. /\ pc = "create" /\ i < nb_of_threads /\ i' = i + 1
      /\ wpc' = [wpc EXCEPT ![i] = "args"]
      /\ UNCHANGED <<ret, result, data, hash, pc, t_arg, level, start, nb_leaves, j, text>>
      /\ CreateInv /\ DataInv /\ ResultInv
  BY DEF CreateThread, main, tree, PhaseInv
<1>2. NT \in Nat /\ (\A t \in Threads : t \in Nat) /\ i \in Nat /\ i \in Threads
  BY <1>1, SizeAssumption, NodeKinds DEF NT, Threads, CreateInv
<1>3. TypeInv'
  BY <1>1 DEF TypeInv
<1>4. ASSUME NEW t \in Threads PROVE WorkerInv(t)'
  <2>1. CASE t = i
    <3>1. wpc[t] = "none" /\ wpc'[t] = "args"
      BY <1>1, <1>2, <2>1 DEF TypeInv, CreateInv
    <3> QED
      BY <1>1, <3>1 DEF WorkerInv, NoRange, Storing, Completed, Hashed
  <2>2. CASE t # i
    <3>1. wpc'[t] = wpc[t]
      BY <1>1, <2>2 DEF TypeInv
    <3> QED
      BY <1>1, <3>1 DEF WorkerInv, NoRange, OnLevel, Storing, Completed, Hashed, Fits
  <2> QED
    BY <2>1, <2>2
<1>5. CreateInv'
  <2>1. i' \in 0..NT
    BY <1>1, <1>2 DEF NT
  <2>2. ASSUME NEW t \in Threads PROVE wpc'[t] = "none" <=> i' <= t
    <3>1. CASE t = i
      BY <1>1, <1>2, <3>1 DEF TypeInv
    <3>2. CASE t # i
      <4>1. wpc'[t] = wpc[t]
        BY <1>1, <3>2 DEF TypeInv
      <4>2. i <= t <=> i' <= t
        BY <1>1, <1>2, <3>2
      <4> QED
        BY <1>1, <4>1, <4>2 DEF CreateInv
    <3> QED
      BY <3>1, <3>2
  <2> QED
    BY <2>1, <2>2 DEF CreateInv
<1>6. PhaseInv'
  BY <1>1, <1>5
     DEF PhaseInv, SetInv, JoinInv, RootInv, StoreInv, EndInv, DataInv, ResultInv
<1> QED
  BY <1>3, <1>4, <1>6

\* The invariant is kept by the end of the loop over pthread_create.
LEMMA CreateDoneStep ==
  ASSUME Balanced, IInv, CreateDone
  PROVE  IInv'
<1> USE DEF IInv
<1>1. /\ pc = "create" /\ i = nb_of_threads /\ pc' = "join" /\ i' = 0
      /\ UNCHANGED <<ret, result, data, hash, t_arg, wpc, level, start, nb_leaves, j, text>>
      /\ CreateInv /\ DataInv /\ ResultInv
  BY DEF CreateDone, main, tree, workers, PhaseInv
<1>2. TypeInv'
  BY <1>1 DEF TypeInv
<1>3. \A t \in Threads : WorkerInv(t)'
  BY <1>1, WorkersUnchanged DEF tree, workers
<1>4. NT \in Nat /\ NT >= 1 /\ (\A t \in Threads : t \in Nat /\ t < NT)
  BY SizeAssumption, NodeKinds DEF NT, Threads
<1>5. JoinInv'
  BY <1>1, <1>4 DEF JoinInv, CreateInv, NT
<1>6. PhaseInv'
  BY <1>1, <1>5
     DEF PhaseInv, SetInv, CreateInv, RootInv, StoreInv, EndInv, DataInv, ResultInv
<1> QED
  BY <1>2, <1>3, <1>6

\* pthread_join: after the last one the workers' ranges cover the tree but its top.
LEMMA JoinStep ==
  ASSUME Balanced, IInv, Join
  PROVE  IInv'
<1> USE DEF IInv
<1>1. /\ pc = "join" /\ i < nb_of_threads /\ wpc[i] = "done"
      /\ UNCHANGED <<ret, result, data, hash, t_arg, wpc, level, start, nb_leaves, j, text>>
      /\ JoinInv /\ DataInv /\ ResultInv
      /\ pc' \in {"join", "root"}
  BY DEF Join, main, tree, workers, PhaseInv
<1>2. TypeInv'
  BY <1>1 DEF TypeInv
<1>3. \A t \in Threads : WorkerInv(t)'
  BY <1>1, WorkersUnchanged DEF tree, workers
<1>4. NT \in Nat /\ NT >= 1 /\ i \in Nat /\ (\A t \in Threads : t \in Nat /\ t < NT)
  BY <1>1, SizeAssumption, NodeKinds DEF NT, Threads, JoinInv
<1>5. CASE i + 1 < nb_of_threads
  <2>1. pc' = "join" /\ i' = i + 1
    BY <1>1, <1>5 DEF Join
  <2>2. JoinInv'
    <3>1. i' \in 0..NT - 1
      BY <1>4, <1>5, <2>1 DEF NT
    <3>2. \A t \in Threads : t < i' => t = i \/ t < i
      BY <1>4, <2>1
    <3> QED
      BY <1>1, <3>1, <3>2 DEF JoinInv
  <2>3. PhaseInv'
    BY <1>1, <2>1, <2>2
       DEF PhaseInv, SetInv, CreateInv, RootInv, StoreInv, EndInv, DataInv, ResultInv
  <2> QED
    BY <1>2, <1>3, <2>3
<1>6. CASE ~(i + 1 < nb_of_threads)
  <2>1. pc' = "root" /\ i' = 2 * NT
    BY <1>1, <1>6, Sizes DEF Join
  <2>2. AllDone
    <3>1. \A t \in Threads : t < i \/ t = i
      BY <1>4, <1>6 DEF NT
    <3> QED
      BY <1>1, <3>1 DEF JoinInv, AllDone
  <2>3. ASSUME NEW x \in Nodes(tree_height), 2 * NT < x PROVE Hashed(x)
    <3>1. x \in Nat /\ x < nb_nodes /\ 2 * NT <= x
      BY <1>4, <2>3, NodeKinds
    <3>2. PICK t \in Threads, a \in 0..WorkerLevels - 1 : InRange(x, t, a)
      BY <3>1, Cover
    <3>3. wpc[t] = "done" /\ OnLevel(t)
      BY <2>2, <3>2 DEF AllDone, WorkerInv
    <3>4. level[t] = WorkerLevels
      BY <3>3 DEF OnLevel
    <3>5. Completed(t, x)
      BY <3>2, <3>4 DEF Completed
    <3> QED
      BY <1>1, <3>2, <3>5 DEF WorkerInv
  <2>4. RootInv'
    BY <1>1, <1>4, <2>1, <2>2, <2>3 DEF RootInv, AllDone, Hashed
  <2>5. PhaseInv'
    BY <1>1, <2>1, <2>4
       DEF PhaseInv, SetInv, CreateInv, JoinInv, StoreInv, EndInv, DataInv, ResultInv
  <2> QED
    BY <1>2, <1>3, <2>5
<1> QED
  BY <1>5, <1>6

-----------------------------------------------------------------------------

\* The top of the tree: the workers are done, and whatever happens to the tree
\* afterwards keeps what holds of them.
LEMMA WorkersDone ==
  ASSUME NEW t \in Threads, WorkerInv(t), wpc[t] = "done",
         UNCHANGED workers, pc' \notin {"set", "create", "join"}
  PROVE  WorkerInv(t)'
BY DEF WorkerInv, OnLevel, Storing, workers

\* The invariant is kept when the main thread starts to hash a top node: its children
\* are hashed, by joined workers or by itself.
LEMMA RootHashStep ==
  ASSUME Balanced, IInv, RootHash
  PROVE  IInv'
<1> USE DEF IInv
<1>1. /\ pc = "root" /\ i > 0
      /\ UNCHANGED <<result, data, i, t_arg, wpc, level, start, nb_leaves, j>>
      /\ RootInv /\ DataInv /\ ResultInv
  BY DEF RootHash, workers, PhaseInv
<1>2. NT \in Nat /\ i \in Nat /\ i \in Nodes(tree_height)
  BY <1>1, SizeAssumption, NodeKinds DEF NT, RootInv, Balanced
<1> DEFINE cleared == [hash EXCEPT ![i] = Unset]
           results == hash_node(cleared, data, tree_height, i)
<1>3. 2 * i # i /\ 2 * i + 1 # i
  BY <1>1, <1>2
<1>4. results = hash_node(hash, data, tree_height, i)
  <2>1. hash = [x \in Nodes(tree_height) |-> hash[x]]
    BY HashIsArray
  <2> QED
    BY <1>2, <1>3, <2>1, FitsKept
<1>5. results # {} /\ \A s \in results : HasText(s)
  <2>1. i \in Leaves(tree_height) => data[i] # Null
    BY <1>1 DEF DataInv
  <2>2. i \in Interior(tree_height) => HasText(hash[2 * i]) /\ HasText(hash[2 * i + 1])
    <3>1. i \in Interior(tree_height) => Hashed(2 * i) /\ Hashed(2 * i + 1)
      BY <1>1, <1>2, NodeKinds DEF RootInv
    <3> QED
      BY <3>1 DEF Hashed, Good
  <2>3. /\ hash_node(hash, data, tree_height, i) # {}
        /\ \A s \in hash_node(hash, data, tree_height, i) : HasText(s)
    BY <1>2, <2>1, <2>2, Ready
  <2> HIDE DEF results
  <2> QED
    BY <1>4, <2>3
<1>6. PICK s \in results : /\ text' = [text EXCEPT ![Main] = s]
                            /\ hash' = [hash EXCEPT ![i] = Garbage]
                            /\ pc' = "store" /\ ret' = ret
  BY <1>5 DEF RootHash
<1>7. HasText(s) /\ s \in hash_node(hash, data, tree_height, i)
  BY <1>4, <1>5
<1> HIDE DEF cleared, results
<1>8. TypeInv'
  BY <1>1, <1>6 DEF TypeInv
<1>9. \A t \in Threads : WorkerInv(t)'
  BY <1>1, <1>6, WorkersDone DEF RootInv, AllDone, workers
<1>10. RootInv'
  <2>1. ASSUME NEW x \in Nodes(tree_height), i < x PROVE Hashed(x)'
    <3>1. x # i /\ 2 * x # i /\ 2 * x + 1 # i
      BY <1>2, <2>1, NodeKinds
    <3>2. Good(hash, data, tree_height, x)
      BY <1>1, <2>1 DEF RootInv, Hashed
    <3>3. Good(hash', data, tree_height, x)
      BY <1>6, <3>1, <3>2, GoodKept DEF TypeInv
    <3> QED
      BY <1>1, <3>3 DEF Hashed
  <2> QED
    BY <1>1, <1>6, <2>1 DEF RootInv, AllDone
<1>11. StoreInv'
  <2>1. hash'[i] = Garbage /\ text'[Main] = s
    BY <1>2, <1>6 DEF TypeInv
  <2>2. s \in hash_node(hash', data, tree_height, i)
    <3>1. hash = [x \in Nodes(tree_height) |-> hash[x]]
      BY HashIsArray
    <3>2. hash_node([hash EXCEPT ![i] = Garbage], data, tree_height, i)
            = hash_node(hash, data, tree_height, i)
      BY <1>2, <1>3, <3>1, FitsKept
    <3> QED
      BY <1>1, <1>6, <1>7, <3>2
  <2>3. Fits(text[Main], i)'
    BY <1>1, <1>7, <2>1, <2>2 DEF Fits
  <2> QED
    BY <1>1, <1>2, <2>1, <2>3 DEF StoreInv
<1>12. PhaseInv'
  BY <1>1, <1>6, <1>10, <1>11
     DEF PhaseInv, SetInv, CreateInv, JoinInv, EndInv, DataInv, ResultInv
<1> QED
  BY <1>8, <1>9, <1>12

\* The invariant is kept when the main thread stores the hash of a top node.
LEMMA RootStoreStep ==
  ASSUME Balanced, IInv, RootStore
  PROVE  IInv'
<1> USE DEF IInv
<1>1. /\ pc = "store" /\ pc' = "root" /\ i' = i - 1
      /\ hash' = [hash EXCEPT ![i] = text[Main]]
      /\ UNCHANGED <<ret, result, data, t_arg, wpc, level, start, nb_leaves, j, text>>
      /\ RootInv /\ StoreInv /\ DataInv /\ ResultInv
  BY DEF RootStore, main, workers, PhaseInv
<1>2. NT \in Nat /\ i \in Nat /\ i \in Nodes(tree_height) /\ i >= 1
  BY <1>1, SizeAssumption, NodeKinds DEF NT, RootInv, StoreInv, Balanced
<1>3. TypeInv'
  BY <1>1 DEF TypeInv
<1>4. \A t \in Threads : WorkerInv(t)'
  BY <1>1, WorkersDone DEF RootInv, AllDone, workers
<1>5. RootInv'
  <2>1. ASSUME NEW x \in Nodes(tree_height), i' < x PROVE Hashed(x)'
    <3>1. x \in Nat /\ (x = i \/ i < x)
      BY <1>1, <1>2, <2>1, NodeKinds
    <3>2. CASE x = i
      <4>1. HasText(text[Main]) /\ text[Main] \in hash_node(hash, data, tree_height, i)
        BY <1>1 DEF StoreInv, Fits
      <4>2. Good(hash', data, tree_height, i)
        BY <1>1, <1>2, <4>1, GoodMade DEF TypeInv
      <4> QED
        BY <1>1, <3>2, <4>2 DEF Hashed
    <3>3. CASE i < x
      <4>1. x # i /\ 2 * x # i /\ 2 * x + 1 # i
        BY <1>2, <3>1, <3>3
      <4>2. Good(hash, data, tree_height, x)
        BY <1>1, <3>3 DEF RootInv, Hashed
      <4>3. Good(hash', data, tree_height, x)
        BY <1>1, <4>1, <4>2, GoodKept DEF TypeInv
      <4> QED
        BY <1>1, <4>3 DEF Hashed
    <3> QED
      BY <3>1, <3>2, <3>3
  <2>2. i' \in 0..2 * NT
    BY <1>1, <1>2 DEF RootInv
  <2> QED
    BY <1>1, <2>1, <2>2 DEF RootInv, AllDone
<1>6. PhaseInv'
  BY <1>1, <1>5
     DEF PhaseInv, SetInv, CreateInv, JoinInv, StoreInv, EndInv, DataInv, ResultInv
<1> QED
  BY <1>3, <1>4, <1>6

\* The invariant is kept when m_build_tree returns: every node has been hashed.
LEMMA RootDoneStep ==
  ASSUME Balanced, IInv, RootDone
  PROVE  IInv'
<1> USE DEF IInv
<1>1. /\ pc = "root" /\ i = 0 /\ pc' = "print" /\ ret' = "built"
      /\ UNCHANGED <<result, data, hash, i, t_arg, wpc, level, start, nb_leaves, j, text>>
      /\ RootInv /\ ResultInv
  BY DEF RootDone, Return, tree, workers, PhaseInv
<1>2. TypeInv'
  BY <1>1 DEF TypeInv
<1>3. \A t \in Threads : WorkerInv(t)'
  BY <1>1, WorkersDone DEF RootInv, AllDone, workers
<1>4. \A x \in Nodes(tree_height) : Hashed(x)
  BY <1>1, NodeKinds DEF RootInv
<1>5. EndInv'
  BY <1>1, <1>4, NodeKinds DEF EndInv, RootInv, AllDone, Hashed
<1>6. PhaseInv'
  BY <1>1, <1>5
     DEF PhaseInv, SetInv, CreateInv, JoinInv, RootInv, StoreInv, DataInv, ResultInv
<1> QED
  BY <1>2, <1>3, <1>6

\* The invariant is kept when the tree is printed, which cannot crash.
LEMMA TreeToStringStep ==
  ASSUME Balanced, IInv, TreeToString
  PROVE  IInv'
<1> USE DEF IInv
<1>1. /\ pc = "print" /\ pc' \in {"returned", "crashed"}
      /\ UNCHANGED <<ret, data, hash, i, t_arg, wpc, level, start, nb_leaves, j, text>>
      /\ EndInv /\ ResultInv
  BY DEF TreeToString, tree, workers, PhaseInv
<1>2. TypeInv'
  BY <1>1 DEF TypeInv
<1>3. \A t \in Threads : WorkerInv(t)'
  BY <1>1, WorkersUnchanged DEF tree, workers
<1>4. EndInv'
  BY <1>1 DEF EndInv, AllDone, Hashed
<1>5. ResultInv'
  <2>1. CASE \E x \in Nodes(tree_height) : hash[x] = Unset
    <3>1. pc' = "crashed" /\ result' = result
      BY <2>1 DEF TreeToString
    <3> QED
      BY <1>1, <3>1 DEF ResultInv
  <2>2. CASE ~\E x \in Nodes(tree_height) : hash[x] = Unset
    <3>1. pc' = "returned" /\ result' = hash
      BY <2>2 DEF TreeToString
    <3>2. ret = "built"
      <4>1. 1 \in Nodes(tree_height)
        BY NodeKinds
      <4> QED
        BY <1>1, <2>2, <4>1 DEF EndInv
    <3> QED
      BY <1>1, <3>1, <3>2 DEF ResultInv
  <2> QED
    BY <2>1, <2>2
<1>6. PhaseInv'
  BY <1>1, <1>4, <1>5
     DEF PhaseInv, SetInv, CreateInv, JoinInv, RootInv, StoreInv, DataInv
<1> QED
  BY <1>2, <1>3, <1>6

-----------------------------------------------------------------------------

\* The steps of a worker leave the main thread where it is.
LEMMA PhaseKept ==
  ASSUME PhaseInv, pc \in {"create", "join"},
         UNCHANGED <<pc, i, ret, result, data>>,
         \A t \in Threads : /\ wpc[t] = "none" <=> wpc'[t] = "none"
                            /\ wpc[t] = "done" => wpc'[t] = "done"
  PROVE  PhaseInv'
BY DEF PhaseInv, SetInv, CreateInv, JoinInv, RootInv, StoreInv, EndInv, DataInv, ResultInv

\* What a worker's step does to the tree keeps what holds of the other workers.
LEMMA OtherWorker ==
  ASSUME Balanced, TypeInv, NEW t \in Threads, NEW u \in Threads, t # u,
         WorkerInv(t), WorkerInv(u), InHash(t), NEW v,
         hash' = [hash EXCEPT ![j[t]] = v], UNCHANGED <<pc, data>>,
         text'[u] = text[u], t_arg'[u] = t_arg[u], wpc'[u] = wpc[u], level'[u] = level[u],
         start'[u] = start[u], nb_leaves'[u] = nb_leaves[u], j'[u] = j[u]
  PROVE  WorkerInv(u)'
<1>1. /\ (wpc[u] \in {"none", "args"} => NoRange(u))'
      /\ (wpc[u] \notin {"none", "args"} => OnLevel(u))'
  BY DEF WorkerInv, NoRange, OnLevel
<1>2. Storing(u)'
  <2>1. SUFFICES ASSUME wpc[u] = "store"
                 PROVE  hash'[j[u]] = Garbage /\ Fits(text[u], j[u])'
    BY DEF Storing
  <2>2. InHash(u)
    BY <2>1 DEF InHash
  <2>3. j[t] # j[u] /\ 2 * j[u] # j[t] /\ 2 * j[u] + 1 # j[t]
    BY <2>2, WorkersApart
  <2>4. j[u] \in Nodes(tree_height)
    BY <2>2, Position
  <2>5. hash[j[u]] = Garbage /\ HasText(text[u])
        /\ text[u] \in hash_node(hash, data, tree_height, j[u])
    BY <2>1 DEF WorkerInv, Storing, Fits
  <2>6. hash_node(hash', data, tree_height, j[u]) = hash_node(hash, data, tree_height, j[u])
    <3>1. hash = [x \in Nodes(tree_height) |-> hash[x]]
      BY HashIsArray
    <3>2. hash_node([hash EXCEPT ![j[t]] = v], data, tree_height, j[u])
            = hash_node(hash, data, tree_height, j[u])
      BY <2>3, <2>4, <3>1, FitsKept
    <3> QED
      BY <3>2
  <2> QED
    BY <2>3, <2>4, <2>5, <2>6 DEF Fits, TypeInv
<1>3. ASSUME pc \in {"set", "create", "join"},
             NEW x \in Nodes(tree_height), Completed(u, x)'
      PROVE  Hashed(x)'
  <2>1. Completed(u, x)
    BY <1>3 DEF Completed
  <2>2. Good(hash, data, tree_height, x)
    BY <1>3, <2>1 DEF WorkerInv, Hashed
  <2>3. x # j[t] /\ 2 * x # j[t] /\ 2 * x + 1 # j[t]
    BY <2>1, Apart
  <2>4. Good(hash', data, tree_height, x)
    BY <2>2, <2>3, GoodKept DEF TypeInv
  <2> QED
    BY <2>4 DEF Hashed
<1> QED
  BY <1>1, <1>2, <1>3 DEF WorkerInv

\* A worker finds its arguments as m_build_tree has left them, which has not returned
\* while a worker has to read them, and begins its first level.
LEMMA WorkerArgsStep ==
  ASSUME Balanced, IInv, NEW t \in Threads, WorkerArgs(t)
  PROVE  /\ IInv'
         /\ \A x \in Nodes(tree_height) : ~Completed(t, x)
         /\ \A u \in Threads \ {t} :
              level'[u] = level[u] /\ start'[u] = start[u] /\ j'[u] = j[u]
<1> USE DEF IInv
<1>1. /\ wpc[t] = "args" /\ UNCHANGED <<ret, result, data, hash, i, text>>
      /\ TypeInv /\ PhaseInv /\ WorkerInv(t)
  BY DEF WorkerArgs, main, tree
<1>2. pc \in {"create", "join"} /\ ret = "none"
  BY <1>1 DEF PhaseInv, SetInv, RootInv, EndInv, DataInv, AllDone, TypeInv
<1>3. Begin(t, OwnArgs(t)) /\ pc' = pc
  BY <1>2 DEF WorkerArgs
<1>4. ArgLeaves(t) = Span(0) /\ Log2(ArgLeaves(t)) = WorkerLevels /\ ArgStart(t) = Base(t, 0)
  BY Args
<1>5. /\ 0 \in 0..WorkerLevels /\ WorkerLevels # 0 /\ Span(0) \in Nat /\ Span(0) >= 1
      /\ Base(t, 0) \in Nat
  BY Sizes, Spans, Bases
<1>6. OwnArgs(t) = [start_index |-> Base(t, 0), nb_leaves |-> Span(0)]
  BY <1>4 DEF OwnArgs
<1>7. OwnArgs(t) \in [start_index : Nat, nb_leaves : Nat]
  BY <1>5, <1>6
<1>8. /\ t_arg' = [t_arg EXCEPT ![t] = OwnArgs(t)]
      /\ wpc' = [wpc EXCEPT ![t] = "hash"]
      /\ start' = [start EXCEPT ![t] = Base(t, 0)]
      /\ nb_leaves' = [nb_leaves EXCEPT ![t] = Span(0)]
      /\ j' = [j EXCEPT ![t] = Base(t, 0)]
      /\ level' = level
  BY <1>3, <1>4, <1>5 DEF Begin, OwnArgs
<1>9. TypeInv'
  BY <1>1, <1>3, <1>5, <1>7, <1>8 DEF TypeInv
<1>10. level[t] = 0 /\ start[t] = 0 /\ j[t] = 0
  BY <1>1 DEF WorkerInv, NoRange
<1>11. \A x \in Nodes(tree_height) : ~Completed(t, x)
  BY <1>10, NodeKinds DEF Completed
<1>12. \A u \in Threads \ {t} :
         /\ t_arg'[u] = t_arg[u] /\ wpc'[u] = wpc[u] /\ level'[u] = level[u]
         /\ start'[u] = start[u] /\ nb_leaves'[u] = nb_leaves[u] /\ j'[u] = j[u]
  BY <1>8 DEF TypeInv
<1>13. /\ t_arg'[t] = OwnArgs(t) /\ wpc'[t] = "hash" /\ level'[t] = 0
       /\ start'[t] = Base(t, 0) /\ nb_leaves'[t] = Span(0) /\ j'[t] = Base(t, 0)
  BY <1>8, <1>10 DEF TypeInv
<1>14. ASSUME NEW u \in Threads PROVE WorkerInv(u)'
  <2>1. CASE u = t
    <3>1. OnLevel(t)'
      BY <1>5, <1>13 DEF OnLevel
    <3>2. \A x \in Nodes(tree_height) : ~Completed(t, x)'
      BY <1>5, <1>13, NodeKinds DEF Completed
    <3> QED
      BY <1>13, <2>1, <3>1, <3>2 DEF WorkerInv, Storing
  <2>2. CASE u # t
    <3>1. WorkerInv(u)
      OBVIOUS
    <3> QED
      BY <1>1, <1>3, <1>12, <2>2, <3>1
         DEF WorkerInv, NoRange, OnLevel, Storing, Completed, Hashed, Fits
  <2> QED
    BY <2>1, <2>2
<1>15. PhaseInv'
  <2>1. \A u \in Threads : /\ wpc[u] = "none" <=> wpc'[u] = "none"
                           /\ wpc[u] = "done" => wpc'[u] = "done"
    BY <1>1, <1>12, <1>13
  <2> QED
    BY <1>1, <1>2, <1>3, <2>1, PhaseKept
<1> QED
  BY <1>9, <1>11, <1>12, <1>14, <1>15

\* The first half of hash_node in a worker.
LEMMA WorkerHashStep ==
  ASSUME Balanced, IInv, NEW t \in Threads, WorkerHash(t)
  PROVE  IInv'
<1> USE DEF IInv
<1>1. /\ wpc[t] = "hash" /\ wpc' = [wpc EXCEPT ![t] = "store"]
      /\ UNCHANGED <<ret, result, data, pc, i, t_arg, level, start, nb_leaves, j>>
      /\ WorkerInv(t) /\ InHash(t)
  BY DEF WorkerHash, main, InHash
<1>2. PICK s \in hash_node(hash, data, tree_height, j[t]) :
        text' = [text EXCEPT ![t] = s] /\ hash' = [hash EXCEPT ![j[t]] = Garbage]
  BY DEF WorkerHash
<1>3. pc \in {"create", "join"} /\ HasText(s)
  BY <1>1, WorkerReady
<1>4. j[t] \in Nodes(tree_height) /\ 2 * j[t] # j[t] /\ 2 * j[t] + 1 # j[t]
  BY <1>1, Position, NodeKinds
<1>5. TypeInv'
  BY <1>1, <1>2 DEF TypeInv
<1>6. PhaseInv'
  BY <1>1, <1>3, PhaseKept DEF TypeInv
<1>7. ASSUME NEW u \in Threads PROVE WorkerInv(u)'
  <2>1. CASE u # t
    <3>1. text'[u] = text[u] /\ wpc'[u] = wpc[u]
      BY <1>1, <1>2, <2>1 DEF TypeInv
    <3>2. t_arg'[u] = t_arg[u] /\ level'[u] = level[u] /\ start'[u] = start[u]
          /\ nb_leaves'[u] = nb_leaves[u] /\ j'[u] = j[u] /\ WorkerInv(u)
      BY <1>1
    <3> QED
      BY <1>1, <1>2, <2>1, <3>1, <3>2, OtherWorker
  <2>2. CASE u = t
    <3>1. wpc'[t] = "store" /\ text'[t] = s /\ hash'[j[t]] = Garbage
      BY <1>1, <1>2, <1>4 DEF TypeInv
    <3>2. OnLevel(t)'
      BY <1>1, <3>1 DEF WorkerInv, OnLevel
    <3>3. Storing(t)'
      <4>1. hash_node(hash', data, tree_height, j[t]) = hash_node(hash, data, tree_height, j[t])
        <5>1. hash = [x \in Nodes(tree_height) |-> hash[x]]
          BY HashIsArray
        <5>2. hash_node([hash EXCEPT ![j[t]] = Garbage], data, tree_height, j[t])
                = hash_node(hash, data, tree_height, j[t])
          BY <1>4, <5>1, FitsKept
        <5> QED
          BY <1>2, <5>2
      <4>2. s \in hash_node(hash', data, tree_height, j[t])
        BY <4>1
      <4> QED
        BY <1>1, <1>3, <3>1, <4>2 DEF Storing, Fits
    <3>4. ASSUME NEW x \in Nodes(tree_height), Completed(t, x)' PROVE Hashed(x)'
      <4>1. Completed(t, x)
        BY <1>1, <3>4 DEF Completed
      <4>2. Good(hash, data, tree_height, x)
        BY <1>1, <1>3, <4>1 DEF WorkerInv, Hashed
      <4>3. x # j[t] /\ 2 * x # j[t] /\ 2 * x + 1 # j[t]
        BY <1>1, <4>1, Apart
      <4>4. Good(hash', data, tree_height, x)
        BY <1>2, <4>2, <4>3, GoodKept DEF TypeInv
      <4> QED
        BY <1>1, <4>4 DEF Hashed
    <3>5. WorkerInv(t)'
      BY <3>1, <3>2, <3>3, <3>4 DEF WorkerInv
    <3> QED
      BY <2>2, <3>5
  <2> QED
    BY <2>1, <2>2
<1> QED
  BY <1>5, <1>6, <1>7

\* The loop control: the next position is on the same level, or the first one of
\* the next level, and exactly one more node is finished.
LEMMA AdvanceStep ==
  ASSUME Balanced, TypeInv, NEW t \in Threads, WorkerInv(t), InHash(t), Advance(t)
  PROVE  /\ t_arg' = t_arg
         /\ wpc' \in [Threads -> {"none", "args", "hash", "store", "done"}]
         /\ level' \in [Threads -> Nat] /\ start' \in [Threads -> Nat]
         /\ nb_leaves' \in [Threads -> Nat] /\ j' \in [Threads -> Nat]
         /\ wpc'[t] \in {"hash", "done"} /\ OnLevel(t)'
         /\ \A x \in Nodes(tree_height) : Completed(t, x)' => Completed(t, x) \/ x = j[t]
         /\ \A u \in Threads \ {t} :
              /\ wpc'[u] = wpc[u] /\ level'[u] = level[u] /\ start'[u] = start[u]
              /\ nb_leaves'[u] = nb_leaves[u] /\ j'[u] = j[u]
<1>1. /\ OnLevel(t) /\ level[t] \in 0..WorkerLevels - 1 /\ WorkerLevels \in Nat
      /\ level[t] + 1 \in 0..WorkerLevels /\ level[t] \in 0..WorkerLevels /\ level[t] \in Nat
      /\ wpc[t] # "done" /\ WorkerLevels >= 1
  BY Position, Sizes DEF WorkerInv, InHash
<1>2. /\ j[t] \in Nat /\ start[t] \in Nat /\ nb_leaves[t] \in Nat
      /\ start[t] <= j[t] /\ j[t] < start[t] + nb_leaves[t]
  BY <1>1 DEF TypeInv, OnLevel
<1>3. CASE j[t] + 1 < start[t] + nb_leaves[t]
  <2>1. /\ j' = [j EXCEPT ![t] = j[t] + 1] /\ wpc' = [wpc EXCEPT ![t] = "hash"]
        /\ UNCHANGED <<t_arg, level, start, nb_leaves>>
    BY <1>3 DEF Advance
  <2>2. j'[t] = j[t] + 1 /\ wpc'[t] = "hash"
    BY <2>1 DEF TypeInv
  <2>3. OnLevel(t)'
    BY <1>1, <1>2, <1>3, <2>1, <2>2 DEF OnLevel
  <2>4. ASSUME NEW x \in Nodes(tree_height), Completed(t, x)'
        PROVE  Completed(t, x) \/ x = j[t]
    <3>1. x \in Nat
      BY NodeKinds
    <3> QED
      BY <1>2, <2>1, <2>2, <2>4, <3>1 DEF Completed
  <2> QED
    BY <1>2, <2>1, <2>2, <2>3, <2>4 DEF TypeInv
<1>4. CASE ~(j[t] + 1 < start[t] + nb_leaves[t])
  <2> DEFINE a == level[t] + 1
  <2>1. /\ Span(level[t]) = 2 * Span(a) /\ Base(t, level[t]) = 2 * Base(t, a)
        /\ Span(a) \in Nat /\ Span(a) >= 1 /\ Base(t, a) \in Nat
    BY <1>1, Spans, Bases
  <2>2. start[t] \div 2 = Base(t, a) /\ nb_leaves[t] \div 2 = Span(a)
    BY <1>1, <2>1 DEF OnLevel
  <2>3. Log2(t_arg[t].nb_leaves) = WorkerLevels
    BY <1>1, Args DEF OnLevel, OwnArgs
  <2>4. /\ UNCHANGED t_arg
        /\ level' = [level EXCEPT ![t] = a]
        /\ start' = [start EXCEPT ![t] = Base(t, a)]
        /\ nb_leaves' = [nb_leaves EXCEPT ![t] = Span(a)]
        /\ j' = [j EXCEPT ![t] = Base(t, a)]
        /\ wpc' = [wpc EXCEPT ![t] = IF a = WorkerLevels THEN "done" ELSE "hash"]
    BY <1>4, <2>2, <2>3 DEF Advance
  <2>5. /\ level'[t] = a /\ start'[t] = Base(t, a) /\ nb_leaves'[t] = Span(a)
        /\ j'[t] = Base(t, a) /\ wpc'[t] = IF a = WorkerLevels THEN "done" ELSE "hash"
    BY <2>4 DEF TypeInv
  <2>6. a \in Nat /\ a \in 0..WorkerLevels
    BY <1>1
  <2>7. OnLevel(t)'
    BY <1>1, <2>1, <2>4, <2>5, <2>6 DEF OnLevel
  <2>8. ASSUME NEW x \in Nodes(tree_height), Completed(t, x)'
        PROVE  Completed(t, x) \/ x = j[t]
    <3>1. x \in Nat
      BY NodeKinds
    <3>2. PICK b \in 0..a - 1 : InRange(x, t, b)
      BY <2>1, <2>5, <2>8, <3>1 DEF Completed
    <3>3. CASE b = level[t]
      <4>1. start[t] <= x /\ x < start[t] + nb_leaves[t]
        BY <1>1, <3>2, <3>3 DEF InRange, OnLevel
      <4>2. x < j[t] \/ x = j[t]
        BY <1>2, <1>4, <3>1, <4>1
      <4> QED
        BY <4>1, <4>2 DEF Completed
    <3>4. CASE b # level[t]
      <4>1. b \in 0..level[t] - 1
        BY <1>1, <3>4
      <4> QED
        BY <3>2, <4>1 DEF Completed
    <3> QED
      BY <3>3, <3>4
  <2> HIDE DEF a
  <2>9. wpc' \in [Threads -> {"none", "args", "hash", "store", "done"}] /\ wpc'[t] \in {"hash", "done"}
    BY <2>4, <2>5 DEF TypeInv
  <2>10. \A u \in Threads \ {t} :
           /\ wpc'[u] = wpc[u] /\ level'[u] = level[u] /\ start'[u] = start[u]
           /\ nb_leaves'[u] = nb_leaves[u] /\ j'[u] = j[u]
    BY <2>4 DEF TypeInv
  <2>11. /\ level' \in [Threads -> Nat] /\ start' \in [Threads -> Nat]
         /\ nb_leaves' \in [Threads -> Nat] /\ j' \in [Threads -> Nat]
    BY <2>1, <2>4, <2>6 DEF TypeInv
  <2> QED
    BY <2>4, <2>7, <2>8, <2>9, <2>10, <2>11
<1> QED
  BY <1>3, <1>4

\* hash_node never fails in a worker.
LEMMA WorkerSkipStep ==
  ASSUME Balanced, IInv, NEW t \in Threads, WorkerSkip(t)
  PROVE  FALSE
<1>1. wpc[t] = "hash" /\ hash_node(hash, data, tree_height, j[t]) = {}
  BY DEF WorkerSkip
<1> QED
  BY <1>1, WorkerReady DEF IInv

\* The second half of hash_node in a worker.
LEMMA WorkerStoreStep ==
  ASSUME Balanced, IInv, NEW t \in Threads, WorkerStore(t)
  PROVE  IInv'
<1> USE DEF IInv
<1>1. /\ wpc[t] = "store" /\ Advance(t) /\ hash' = [hash EXCEPT ![j[t]] = text[t]]
      /\ UNCHANGED <<ret, result, data, pc, i, text>>
      /\ WorkerInv(t) /\ InHash(t)
  BY DEF WorkerStore, main, InHash
<1>2. pc \in {"create", "join"}
  BY <1>1 DEF PhaseInv, SetInv, RootInv, EndInv, AllDone, TypeInv
<1>3. j[t] \in Nodes(tree_height)
  BY <1>1, Position
<1>4. /\ t_arg' = t_arg
      /\ wpc' \in [Threads -> {"none", "args", "hash", "store", "done"}]
      /\ level' \in [Threads -> Nat] /\ start' \in [Threads -> Nat]
      /\ nb_leaves' \in [Threads -> Nat] /\ j' \in [Threads -> Nat]
      /\ wpc'[t] \in {"hash", "done"} /\ OnLevel(t)'
      /\ \A x \in Nodes(tree_height) : Completed(t, x)' => Completed(t, x) \/ x = j[t]
      /\ \A u \in Threads \ {t} :
           /\ wpc'[u] = wpc[u] /\ level'[u] = level[u] /\ start'[u] = start[u]
           /\ nb_leaves'[u] = nb_leaves[u] /\ j'[u] = j[u]
  BY <1>1, AdvanceStep
<1>5. TypeInv'
  BY <1>1, <1>4 DEF TypeInv
<1>6. PhaseInv'
  <2>1. \A u \in Threads : /\ wpc[u] = "none" <=> wpc'[u] = "none"
                           /\ wpc[u] = "done" => wpc'[u] = "done"
    BY <1>1, <1>4
  <2> QED
    BY <1>1, <1>2, <2>1, PhaseKept
<1>7. ASSUME NEW u \in Threads PROVE WorkerInv(u)'
  <2>1. CASE u # t
    <3>1. /\ wpc'[u] = wpc[u] /\ level'[u] = level[u] /\ start'[u] = start[u]
          /\ nb_leaves'[u] = nb_leaves[u] /\ j'[u] = j[u] /\ text'[u] = text[u]
          /\ t_arg'[u] = t_arg[u] /\ WorkerInv(u)
      BY <1>1, <1>4, <2>1
    <3> QED
      BY <1>1, <2>1, <3>1, OtherWorker
  <2>2. CASE u = t
    <3>1. ASSUME NEW x \in Nodes(tree_height), Completed(t, x)' PROVE Hashed(x)'
      <4>1. CASE x = j[t]
        <5>1. HasText(text[t]) /\ text[t] \in hash_node(hash, data, tree_height, j[t])
          BY <1>1 DEF WorkerInv, Storing, Fits
        <5>2. Good(hash', data, tree_height, j[t])
          BY <1>1, <1>3, <5>1, GoodMade DEF TypeInv
        <5> QED
          BY <1>1, <4>1, <5>2 DEF Hashed
      <4>2. CASE Completed(t, x)
        <5>1. x # j[t] /\ 2 * x # j[t] /\ 2 * x + 1 # j[t]
          BY <1>1, <4>2, Apart
        <5>2. Good(hash, data, tree_height, x)
          BY <1>1, <1>2, <4>2 DEF WorkerInv, Hashed
        <5>3. Good(hash', data, tree_height, x)
          BY <1>1, <5>1, <5>2, GoodKept DEF TypeInv
        <5> QED
          BY <1>1, <5>3 DEF Hashed
      <4> QED
        BY <1>4, <3>1, <4>1, <4>2
    <3>2. WorkerInv(t)'
      BY <1>4, <3>1 DEF WorkerInv, Storing
    <3> QED
      BY <2>2, <3>2
  <2> QED
    BY <2>1, <2>2
<1> QED
  BY <1>5, <1>6, <1>7

-----------------------------------------------------------------------------

\* A string in the parsed file has a length.
LEMMA SlotType ==
  ASSUME NEW f \in Files, NEW t \in Tails, NEW o \in Nat, Slot(f, t, o) # Null
  PROVE  Len(Slot(f, t, o)) \in Nat
<1>1. /\ f \in Seq(Bytes) /\ t \in Seq(Bytes) /\ SPACE \in Bytes
      /\ PAGE_LENGTH \in Nat /\ PAGE_LENGTH > 0 /\ Len(f) \in Nat
  BY FilesAssumption, TailsAssumption, PageAssumption
<1> DEFINE D == Len(f) \div PAGE_LENGTH
           K == o \div PAGE_LENGTH
<1>2. D \in Nat /\ K \in Nat
  BY <1>1
<1>3. \A s \in Seq(Bytes) : CStr(s) \in Seq(Bytes)
  <2> TAKE s \in Seq(Bytes)
  <2>1. Strlen(s) \in 0..Len(s) /\ Len(s) \in Nat
    BY StrlenType
  <2>2. 1 \in 1..Len(s) + 1 /\ Strlen(s) \in 1 - 1..Len(s)
    BY <2>1
  <2> QED
    BY <2>2, SubSeqProperties DEF CStr
<1> DEFINE rest == CStr(PageBytes(f, D) \o t)
<1>4. rest \in Seq(Bytes)
  <2>1. D \in 0..D
    BY <1>2
  <2>2. PageBytes(f, D) \in Seq(Bytes)
    BY <1>1, <2>1, PageType
  <2>3. PageBytes(f, D) \o t \in Seq(Bytes)
    BY <1>1, <2>2
  <2> QED
    BY <1>3, <2>3
<1>5. K < D => CStr(PageBytes(f, K)) \in Seq(Bytes)
  <2>1. K < D => K \in 0..D
    BY <1>2
  <2>2. K < D => PageBytes(f, K) \in Seq(Bytes)
    BY <1>1, <2>1, PageType
  <2> QED
    BY <1>3, <2>2
<1>6. <<SPACE>> \in Seq(Bytes) /\ << >> \in Seq(Bytes)
  BY <1>1
<1>7. Slot(f, t, o) \in {Null, <<SPACE>>, << >>, rest} \/
      (K < D /\ Slot(f, t, o) = CStr(PageBytes(f, K)))
  <2> HIDE DEF rest
  <2> QED
    BY DEF Slot, rest
<1>8. Slot(f, t, o) \in Seq(Bytes)
  <2> HIDE DEF rest, K, D
  <2> QED
    BY <1>4, <1>5, <1>6, <1>7
<1> QED
  BY <1>8

-----------------------------------------------------------------------------

\* The invariant is inductive: one step of the proof for every action.
LEMMA NextInv ==
  ASSUME Balanced, IInv, [Next]_vars
  PROVE  IInv'
<1>1. CASE SetData
  BY <1>1, SetDataStep
<1>2. CASE SetDone
  BY <1>2, SetDoneStep
<1>3. CASE CreateThread
  BY <1>3, CreateThreadStep
<1>4. CASE CreateFails
  BY <1>4 DEF CreateFails, Balanced
<1>5. CASE CreateDone
  BY <1>5, CreateDoneStep
<1>6. CASE Join
  BY <1>6, JoinStep
<1>7. CASE RootHash
  BY <1>7, RootHashStep
<1>8. CASE RootStore
  BY <1>8, RootStoreStep
<1>9. CASE RootDone
  BY <1>9, RootDoneStep
<1>10. CASE TreeToString
  BY <1>10, TreeToStringStep
<1>11. ASSUME NEW t \in Threads, Worker(t) PROVE IInv'
  <2>1. CASE WorkerHash(t)
    BY <2>1, WorkerHashStep
  <2>2. CASE WorkerSkip(t)
    BY <2>2, WorkerSkipStep
  <2>3. CASE WorkerStore(t)
    BY <2>3, WorkerStoreStep
  <2>4. CASE WorkerArgs(t)
    BY <2>4, WorkerArgsStep
  <2> QED
    BY <1>11, <2>1, <2>2, <2>3, <2>4 DEF Worker
<1>12. CASE UNCHANGED vars
  <2>1. UNCHANGED <<data, hash, pc, i, ret, result, t_arg, wpc, level, start, nb_leaves, j, text>>
    BY <1>12 DEF vars
  <2>2. TypeInv'
    BY <2>1 DEF IInv, TypeInv
  <2>3. PhaseInv'
    BY <2>1 DEF IInv, PhaseInv, SetInv, CreateInv, JoinInv, RootInv, StoreInv, EndInv,
                DataInv, ResultInv, AllDone, Hashed, Fits
  <2>4. \A t \in Threads : WorkerInv(t)'
    BY <2>1, WorkersUnchanged DEF IInv, tree, workers
  <2> QED
    BY <2>2, <2>3, <2>4 DEF IInv
<1> QED
  BY <1>1, <1>2, <1>3, <1>4, <1>5, <1>6, <1>7, <1>8, <1>9, <1>10, <1>11, <1>12
     DEF Next, MainStep, Terminated

\* The inductive invariant: where every thread of m_build_tree is determines which
\* nodes have their final hash.
THEOREM Invariance == ASSUME Balanced PROVE Spec => []IInv
<1>1. Init => IInv
  BY InitInv
<1>2. IInv /\ [Next]_vars => IInv'
  BY NextInv
<1> QED
  BY <1>1, <1>2, PTL DEF Spec

\* No two threads are inside hash_node on the same node, or on a node and its
\* parent, for every power of two of threads and every height of the tree: the
\* ranges of m_build_tree never meet.
THEOREM RaceFreedom == ASSUME Balanced PROVE Spec => []RaceFree
<1>1. IInv => RaceFree
  <2>1. SUFFICES ASSUME IInv, NEW t \in Threads
        PROVE /\ \A u \in Threads \ {t} : Writes(t) \cap (Writes(u) \cup Reads(u)) = {}
              /\ Writes(t) \cap (MainWrites \cup MainReads) = {}
              /\ Reads(t) \cap MainWrites = {}
    BY DEF RaceFree
  <2>2. TypeInv /\ WorkerInv(t)
    BY <2>1 DEF IInv
  <2>3. CASE ~InHash(t)
    BY <2>3 DEF Writes, Reads
  <2>4. CASE InHash(t)
    <3>1. ASSUME NEW u \in Threads \ {t}
          PROVE  Writes(t) \cap (Writes(u) \cup Reads(u)) = {}
      <4>1. InHash(u) => j[t] # j[u] /\ 2 * j[u] # j[t] /\ 2 * j[u] + 1 # j[t]
        BY <2>1, <2>2, <2>4, WorkersApart DEF IInv
      <4> QED
        BY <2>4, <4>1 DEF Writes, Reads
    <3>2. pc \notin {"root", "store", "print"}
      BY <2>1, <2>4 DEF IInv, PhaseInv, RootInv, EndInv, AllDone, InHash
    <3>3. MainWrites = {} /\ MainReads = {}
      BY <3>2 DEF MainWrites, MainReads
    <3> QED
      BY <3>1, <3>3
  <2> QED
    BY <2>3, <2>4
<1> QED
  BY <1>1, Invariance, PTL

\* The joins order every worker before the main thread goes on.
THEOREM JoinsEveryThread == ASSUME Balanced PROVE Spec => []WaitsForEveryThread
<1>1. IInv => WaitsForEveryThread
  BY DEF IInv, TypeInv, PhaseInv, RootInv, EndInv, AllDone, WaitsForEveryThread
<1> QED
  BY <1>1, Invariance, PTL

\* When m_build_tree answers 0 every node is hashed, over its children as they are.
THEOREM BuildsMerkleTree == ASSUME Balanced PROVE Spec => []BuiltIsMerkleTree
<1>1. IInv => BuiltIsMerkleTree
  BY DEF IInv, PhaseInv, EndInv, BuiltIsMerkleTree, IsMerkleTree, Hashed
<1> QED
  BY <1>1, Invariance, PTL

\* The tree that is printed is a Merkle tree of the strings in its leaves.
THEOREM PrintsMerkleTree == ASSUME Balanced PROVE Spec => []ResultIsMerkleTree
<1>1. IInv => ResultIsMerkleTree
  BY DEF IInv, PhaseInv, EndInv, ResultInv, ResultIsMerkleTree, IsMerkleTree, Hashed
<1> QED
  BY <1>1, Invariance, PTL

\* A step writes at most one node, and leaves it in one of the three states.
LEMMA NodeStates ==
  ASSUME Balanced, IInv, [Next]_vars,
         \A x \in Nodes(tree_height) : hash[x].state \in {"null", "garbage", "text"}
  PROVE  \A x \in Nodes(tree_height) : hash'[x].state \in {"null", "garbage", "text"}
<1> DEFINE OneNode == \E y, v : /\ hash' = [hash EXCEPT ![y] = v]
                               /\ v.state \in {"null", "garbage", "text"}
<1>1. SUFFICES hash' = hash \/ OneNode
  BY DEF IInv, TypeInv
<1>2. Unset.state = "null" /\ Garbage.state = "garbage"
  BY DEF Unset, Garbage
<1>3. CASE SetData
  BY <1>2, <1>3 DEF SetData
<1>4. CASE RootHash
  BY <1>2, <1>4 DEF RootHash
<1>5. CASE RootStore
  <2>1. HasText(text[Main]) /\ hash' = [hash EXCEPT ![i] = text[Main]]
    BY <1>5 DEF RootStore, IInv, PhaseInv, StoreInv, Fits
  <2> QED
    BY <2>1 DEF HasText
<1>6. ASSUME NEW t \in Threads, WorkerHash(t) PROVE OneNode
  <2>1. hash' = [hash EXCEPT ![j[t]] = Garbage]
    BY <1>6 DEF WorkerHash
  <2> QED
    BY <1>2, <2>1
<1>7. ASSUME NEW t \in Threads, WorkerStore(t) PROVE OneNode
  <2>1. HasText(text[t]) /\ hash' = [hash EXCEPT ![j[t]] = text[t]]
    BY <1>7 DEF WorkerStore, IInv, WorkerInv, Storing, Fits
  <2> QED
    BY <2>1 DEF HasText
<1>8. CASE \/ SetDone \/ CreateThread \/ CreateFails \/ CreateDone \/ Join \/ RootDone
           \/ TreeToString \/ (\E t \in Threads : WorkerArgs(t) \/ WorkerSkip(t))
           \/ UNCHANGED vars
  BY <1>8 DEF SetDone, CreateThread, CreateFails, CreateDone, Join, RootDone, TreeToString,
              WorkerArgs, WorkerSkip, tree, vars
<1> HIDE DEF OneNode
<1> QED
  BY <1>3, <1>4, <1>5, <1>6, <1>7, <1>8 DEF Next, MainStep, Worker, Terminated

\* What the inductive invariant does not say of the variables' types.
Frame == /\ file \in Files /\ heap \in Tails /\ total_size \in Nat
              /\ \A x \in Nodes(tree_height) :
                   hash[x].state \in {"null", "garbage", "text"}

\* The loops stay inside the tree, whatever its size.
THEOREM TypeCorrectness == ASSUME Balanced PROVE Spec => []TypeOK
<1>1. Init => Frame
  BY DEF Init, Unset, Frame
<1>2. IInv /\ Frame /\ [Next]_vars => Frame'
  <2> SUFFICES ASSUME IInv, Frame, [Next]_vars PROVE Frame'
    OBVIOUS
  <2>1. file' = file /\ heap' = heap
    BY DEF Next, MainStep, SetData, SetDone, CreateThread, CreateFails, CreateDone, Join,
           RootHash, RootStore, RootDone, TreeToString, Worker, WorkerArgs, WorkerHash, WorkerSkip,
           WorkerStore, Terminated, main, vars
  <2>2. total_size' \in Nat
    <3>1. CASE SetData
      <4>1. CASE Slot(file, heap, total_size) = Null
        BY <3>1, <4>1 DEF SetData, Frame
      <4>2. CASE Slot(file, heap, total_size) # Null
        <5>1. Len(Slot(file, heap, total_size)) \in Nat
          BY <4>2, SlotType DEF Frame
        <5>2. total_size' = total_size + Len(Slot(file, heap, total_size))
          BY <3>1, <4>2 DEF SetData
        <5> QED
          BY <5>1, <5>2 DEF Frame
      <4> QED
        BY <4>1, <4>2
    <3>2. CASE ~SetData
      <4>1. total_size' = total_size
        BY <3>2 DEF Next, MainStep, SetDone, CreateThread, CreateFails, CreateDone, Join,
             RootHash, RootStore, RootDone, TreeToString, Worker, WorkerArgs, WorkerHash, WorkerSkip,
             WorkerStore, Terminated, vars
      <4> QED
        BY <4>1 DEF Frame
    <3> QED
      BY <3>1, <3>2
  <2>3. \A x \in Nodes(tree_height) : hash'[x].state \in {"null", "garbage", "text"}
    BY NodeStates DEF Frame
  <2> QED
    BY <2>1, <2>2, <2>3 DEF Frame
<1>3. IInv /\ Frame => TypeOK
  <2> SUFFICES ASSUME IInv, Frame PROVE TypeOK
    OBVIOUS
  <2>1. NT \in Nat /\ 2 * NT <= leaf_start_index
    BY SizeAssumption, NodeKinds DEF NT, Balanced
  <2>2. i \in 0..nb_nodes
    BY <2>1, NodeKinds
       DEF IInv, TypeInv, PhaseInv, SetInv, CreateInv, JoinInv, RootInv, EndInv
  <2>3. ASSUME NEW t \in Threads PROVE j[t] \in 0..nb_nodes - 1
    <3>1. j[t] \in Nat /\ WorkerInv(t)
      BY DEF IInv, TypeInv
    <3>2. CASE wpc[t] \in {"none", "args"}
      BY <3>1, <3>2, NodeKinds DEF WorkerInv, NoRange
    <3>3. CASE wpc[t] \notin {"none", "args"}
      <4>1. level[t] \in 0..WorkerLevels /\ InRange(j[t], t, level[t])
        BY <3>1, <3>3 DEF WorkerInv, OnLevel, InRange
      <4>2. j[t] \in Nodes(tree_height)
        BY <3>1, <4>1, RangeKinds, NodeKinds
      <4> QED
        BY <4>2, NodeKinds
    <3> QED
      BY <3>2, <3>3
  <2> QED
    BY <2>2, <2>3 DEF IInv, TypeInv, Frame, TypeOK
<1> QED
  BY <1>1, <1>2, <1>3, Invariance, PTL DEF Spec

-----------------------------------------------------------------------------

\* Nodes with a text are those that a worker has finished, or that the main thread has;
\* the last loop begins with the one node that a worker has hashed before.
FreshInv ==
  /\ pc \in {"create", "join"} =>
       \A x \in Nodes(tree_height) : HasText(hash[x]) => \E t \in Threads : Completed(t, x)
  /\ pc \in {"root", "store"} =>
       \A x \in Nodes(tree_height) : HasText(hash[x]) => 2 * NT <= x \/ i < x

\* What a worker has finished stays finished, and the node it has just hashed is.
LEMMA AdvanceCompletes ==
  ASSUME Balanced, TypeInv, NEW t \in Threads, WorkerInv(t), InHash(t), Advance(t)
  PROVE  \A x \in Nodes(tree_height) : Completed(t, x) \/ x = j[t] => Completed(t, x)'
<1>1. /\ OnLevel(t) /\ level[t] \in Nat
      /\ j[t] \in Nat /\ start[t] \in Nat /\ nb_leaves[t] \in Nat
      /\ start[t] <= j[t] /\ j[t] < start[t] + nb_leaves[t]
  BY DEF WorkerInv, InHash, OnLevel, TypeInv
<1>2. SUFFICES ASSUME NEW x \in Nodes(tree_height), Completed(t, x) \/ x = j[t]
               PROVE  Completed(t, x)'
  OBVIOUS
<1>3. x \in Nat
  BY NodeKinds
<1>4. CASE j[t] + 1 < start[t] + nb_leaves[t]
  <2>1. j'[t] = j[t] + 1 /\ level'[t] = level[t] /\ start'[t] = start[t]
    BY <1>4 DEF Advance, TypeInv
  <2> QED
    BY <1>1, <1>2, <1>3, <2>1 DEF Completed
<1>5. CASE ~(j[t] + 1 < start[t] + nb_leaves[t])
  <2>1. level'[t] = level[t] + 1
    BY <1>5 DEF Advance, TypeInv
  <2>2. \E a \in 0..level[t] : InRange(x, t, a)
    <3>1. CASE start[t] <= x /\ x <= j[t]
      BY <1>1, <1>3, <3>1 DEF OnLevel, InRange
    <3>2. CASE \E a \in 0..level[t] - 1 : InRange(x, t, a)
      BY <1>1, <3>2
    <3> QED
      BY <1>1, <1>2, <1>3, <3>1, <3>2 DEF Completed
  <2>3. (level[t] + 1) - 1 = level[t]
    BY <1>1
  <2> QED
    BY <2>1, <2>2, <2>3 DEF Completed
<1> QED
  BY <1>4, <1>5

\* A worker that is done has finished nodes below the top of the tree only.
LEMMA FinishedBelowTop ==
  ASSUME Balanced, TypeInv, NEW t \in Threads, WorkerInv(t), wpc[t] = "done",
         NEW x \in Nodes(tree_height), Completed(t, x)
  PROVE  2 * NT <= x
<1>1. PICK b \in 0..WorkerLevels : InRange(x, t, b) /\ b <= level[t] /\ (b = level[t] => x < j[t])
  BY Finished
<1>2. /\ OnLevel(t) /\ level[t] = WorkerLevels /\ x \in Nat /\ j[t] \in Nat
      /\ TopLevels \in Nat /\ WorkerLevels \in Nat
  BY NodeKinds, Sizes DEF WorkerInv, OnLevel, TypeInv
<1>3. b # WorkerLevels
  <2>1. SUFFICES ASSUME b = WorkerLevels PROVE FALSE
    OBVIOUS
  <2>2. Span(b) = 1 /\ Base(t, b) \in Nat
    BY <2>1, Spans, Bases
  <2>3. j[t] = Base(t, b) /\ x < j[t] /\ Base(t, b) <= x
    BY <1>1, <1>2, <2>1, <2>2 DEF OnLevel, InRange
  <2> QED
    BY <1>2, <2>2, <2>3
<1> DEFINE A == TopLevels + WorkerLevels - b
<1>4. A \in Nat /\ TopLevels < A /\ shl[A] <= x
  BY <1>1, <1>2, <1>3, RangeBounds
<1>5. 2 * shl[TopLevels] <= shl[A] /\ shl[A] \in Nat /\ shl[TopLevels] = NT /\ NT \in Nat
  <2> HIDE DEF A
  <2> QED
    BY <1>2, <1>4, ShlMono, ShlType, Sizes
<1> QED
  BY <1>2, <1>4, <1>5

\* The invariant FreshInv is kept by every action.
LEMMA FreshNext ==
  ASSUME Balanced, IInv, IInv', FreshInv, [Next]_vars
  PROVE  FreshInv'
<1>1. CASE SetData
  BY <1>1 DEF SetData, Return, FreshInv
<1>2. CASE SetDone
  BY <1>2 DEF SetDone, tree, FreshInv, IInv, PhaseInv, SetInv, HasText, Unset
<1>3. CASE CreateThread
  BY <1>3 DEF CreateThread, tree, FreshInv, Completed
<1>4. CASE CreateFails
  BY <1>4 DEF CreateFails, Balanced
<1>5. CASE CreateDone
  BY <1>5 DEF CreateDone, tree, workers, FreshInv, Completed
<1>6. CASE Join
  <2>1. UNCHANGED <<hash, wpc, level, start, j>> /\ pc = "join" /\ pc' \in {"join", "root"}
    BY <1>6 DEF Join, tree, workers
  <2>2. CASE pc' = "join"
    BY <2>1, <2>2 DEF FreshInv, Completed
  <2>3. CASE pc' = "root"
    <3>1. ASSUME NEW x \in Nodes(tree_height), HasText(hash[x]) PROVE 2 * NT <= x
      <4>1. PICK t \in Threads : Completed(t, x)
        BY <2>1, <3>1 DEF FreshInv
      <4>2. wpc[t] = "done"
        BY <2>1, <2>3 DEF IInv, PhaseInv, RootInv, AllDone
      <4> QED
        BY <4>1, <4>2, FinishedBelowTop DEF IInv
    <3> QED
      BY <2>1, <2>3, <3>1 DEF FreshInv
  <2> QED
    BY <2>1, <2>2, <2>3
<1>7. CASE RootHash
  <2>1. SUFFICES ASSUME pc' \in {"root", "store"}, NEW x \in Nodes(tree_height), HasText(hash'[x])
                 PROVE  2 * NT <= x \/ i' < x
    BY <1>7 DEF RootHash, Return, FreshInv
  <2>2. pc = "root" /\ i' = i /\ hash' = [hash EXCEPT ![i] = Garbage]
    BY <1>7, <2>1 DEF RootHash, Return
  <2>3. x # i
    BY <2>1, <2>2 DEF HasText, Garbage, IInv, TypeInv
  <2>4. HasText(hash[x])
    BY <2>1, <2>2, <2>3 DEF IInv, TypeInv
  <2> QED
    BY <2>2, <2>4 DEF FreshInv
<1>8. CASE RootStore
  <2>1. pc = "store" /\ pc' = "root" /\ i' = i - 1 /\ hash' = [hash EXCEPT ![i] = text[Main]]
        /\ i \in Nat /\ i >= 1
    BY <1>8, Sizes, SizeAssumption, NodeKinds DEF RootStore, IInv, PhaseInv, RootInv, StoreInv, NT
  <2>2. ASSUME NEW x \in Nodes(tree_height), HasText(hash'[x]) PROVE 2 * NT <= x \/ i' < x
    <3>1. x \in Nat
      BY NodeKinds
    <3>2. x # i => HasText(hash[x])
      BY <2>1, <2>2 DEF IInv, TypeInv
    <3> QED
      BY <2>1, <3>1, <3>2 DEF FreshInv
  <2> QED
    BY <2>1, <2>2 DEF FreshInv
<1>9. CASE RootDone \/ TreeToString
  BY <1>9 DEF RootDone, TreeToString, Return, FreshInv
<1>10. ASSUME NEW t \in Threads, WorkerHash(t) PROVE FreshInv'
  <2>1. UNCHANGED <<pc, i, level, start, j>>
    BY <1>10 DEF WorkerHash
  <2>2. hash' = [hash EXCEPT ![j[t]] = Garbage]
    BY <1>10 DEF WorkerHash
  <2>3. \A x \in Nodes(tree_height) : HasText(hash'[x]) => HasText(hash[x])
    BY <2>2 DEF HasText, Garbage, IInv, TypeInv
  <2> QED
    BY <2>1, <2>3 DEF FreshInv, Completed
<1>11. ASSUME NEW t \in Threads, WorkerSkip(t) PROVE FreshInv'
  BY <1>11, WorkerSkipStep
<1>12. ASSUME NEW t \in Threads, WorkerStore(t) PROVE FreshInv'
  <2>1. /\ InHash(t) /\ Advance(t) /\ WorkerInv(t) /\ TypeInv /\ pc' = pc
        /\ hash' = [hash EXCEPT ![j[t]] = text[t]]
    BY <1>12 DEF WorkerStore, InHash, IInv
  <2>2. pc \in {"create", "join"}
    BY <2>1 DEF InHash, IInv, PhaseInv, SetInv, RootInv, EndInv, AllDone, TypeInv
  <2>3. ASSUME NEW x \in Nodes(tree_height), HasText(hash'[x])
        PROVE  \E u \in Threads : Completed(u, x)'
    <3>1. CASE x = j[t]
      BY <2>1, <3>1, AdvanceCompletes
    <3>2. CASE x # j[t]
      <4>1. HasText(hash[x])
        BY <2>1, <2>3, <3>2 DEF TypeInv
      <4>2. PICK u \in Threads : Completed(u, x)
        BY <2>2, <4>1 DEF FreshInv
      <4>3. CASE u = t
        BY <2>1, <4>2, <4>3, AdvanceCompletes
      <4>4. CASE u # t
        <5>1. level'[u] = level[u] /\ start'[u] = start[u] /\ j'[u] = j[u]
          BY <2>1, <4>4, AdvanceStep
        <5> QED
          BY <4>2, <5>1 DEF Completed
      <4> QED
        BY <4>3, <4>4
    <3> QED
      BY <3>1, <3>2
  <2> QED
    BY <2>1, <2>2, <2>3 DEF FreshInv
<1>13. CASE UNCHANGED vars
  BY <1>13 DEF vars, FreshInv, Completed
<1>14. ASSUME NEW t \in Threads, WorkerArgs(t) PROVE FreshInv'
  <2>1. /\ hash' = hash /\ wpc[t] = "args"
        /\ \A x \in Nodes(tree_height) : ~Completed(t, x)
        /\ \A u \in Threads \ {t} :
             level'[u] = level[u] /\ start'[u] = start[u] /\ j'[u] = j[u]
    BY <1>14, WorkerArgsStep DEF WorkerArgs, tree
  <2>2. pc \in {"create", "join"} /\ pc' = pc
    BY <1>14, <2>1 DEF WorkerArgs, Begin, IInv, TypeInv, PhaseInv, SetInv, RootInv, EndInv,
       DataInv, AllDone
  <2>3. ASSUME NEW x \in Nodes(tree_height), HasText(hash[x])
        PROVE  \E u \in Threads : Completed(u, x)'
    <3>1. PICK u \in Threads : Completed(u, x)
      BY <2>2, <2>3 DEF FreshInv
    <3> QED
      BY <2>1, <3>1 DEF Completed
  <2> QED
    BY <2>1, <2>2, <2>3 DEF FreshInv
<1> QED
  BY <1>1, <1>2, <1>3, <1>4, <1>5, <1>6, <1>7, <1>8, <1>9, <1>10, <1>11, <1>12, <1>13, <1>14
     DEF Next, MainStep, Worker, Terminated

\* A node that has its hash keeps it: no thread comes back to a node, but for the first one
\* of the loop over the top, which a worker has hashed before (merkletree.c:158, :187).
THEOREM NoNodeTwice == ASSUME Balanced PROVE Spec => HashedOnce
<1>1. Init => FreshInv
  BY DEF Init, FreshInv
<1>2. IInv /\ IInv' /\ FreshInv /\ [Next]_vars => FreshInv'
  BY FreshNext
<1> DEFINE Kept == \A x \in Nodes(tree_height) \ {new_start_index} :
                     HasText(hash[x]) => hash'[x] = hash[x]
<1>3. IInv /\ FreshInv /\ [Next]_vars => Kept
  <2> SUFFICES ASSUME IInv, FreshInv, [Next]_vars,
                      NEW x \in Nodes(tree_height) \ {new_start_index}, HasText(hash[x])
               PROVE  hash'[x] = hash[x]
    OBVIOUS
  <2> USE DEF IInv
  <2>1. CASE SetData
    BY <2>1 DEF SetData, PhaseInv, SetInv, HasText, Unset
  <2>2. CASE RootHash
    <3>1. x # i
      <4>1. pc = "root" /\ i \in Nat /\ i <= 2 * NT /\ x # 2 * NT
        BY <2>2, Sizes, SizeAssumption, NodeKinds DEF RootHash, PhaseInv, RootInv, NT
      <4>2. 2 * NT <= x \/ i < x
        BY <4>1 DEF FreshInv
      <4> QED
        BY <4>1, <4>2, NodeKinds, SizeAssumption DEF NT
    <3>2. \E v : hash' = [hash EXCEPT ![i] = v]
      BY <2>2 DEF RootHash
    <3> QED
      BY <3>1, <3>2 DEF TypeInv
  <2>3. CASE RootStore
    <3>1. x # i /\ hash' = [hash EXCEPT ![i] = text[Main]]
      BY <2>3 DEF RootStore, PhaseInv, StoreInv, HasText, Garbage
    <3> QED
      BY <3>1 DEF TypeInv
  <2>4. ASSUME NEW t \in Threads, WorkerHash(t) PROVE hash'[x] = hash[x]
    <3>1. wpc[t] = "hash" /\ InHash(t) /\ hash' = [hash EXCEPT ![j[t]] = Garbage]
      BY <2>4 DEF WorkerHash, InHash
    <3>2. pc \in {"create", "join"}
      BY <3>1, WorkerReady
    <3>3. PICK u \in Threads : Completed(u, x)
      BY <3>2 DEF FreshInv
    <3>4. x # j[t]
      BY <3>1, <3>3, Apart
    <3> QED
      BY <3>1, <3>4 DEF TypeInv
  <2>5. ASSUME NEW t \in Threads, WorkerStore(t) PROVE hash'[x] = hash[x]
    <3>1. hash' = [hash EXCEPT ![j[t]] = text[t]] /\ hash[j[t]] = Garbage
      BY <2>5 DEF WorkerStore, WorkerInv, Storing
    <3>2. x # j[t]
      BY <3>1 DEF HasText, Garbage
    <3> QED
      BY <3>1, <3>2 DEF TypeInv
  <2>6. ASSUME NEW t \in Threads, WorkerSkip(t) PROVE hash'[x] = hash[x]
    BY <2>6, WorkerSkipStep
  <2>7. CASE \/ SetDone \/ CreateThread \/ CreateFails \/ CreateDone \/ Join \/ RootDone
             \/ TreeToString \/ (\E t \in Threads : WorkerArgs(t)) \/ UNCHANGED vars
    BY <2>7 DEF SetDone, CreateThread, CreateFails, CreateDone, Join, RootDone, TreeToString,
                WorkerArgs, tree, vars
  <2> QED
    BY <2>1, <2>2, <2>3, <2>4, <2>5, <2>6, <2>7 DEF Next, MainStep, Worker, Terminated
<1>4. Spec => [](IInv /\ FreshInv)
  <2>1. Spec => []IInv
    BY Invariance
  <2> QED
    BY <1>1, <1>2, <2>1, PTL DEF Spec
<1>5. IInv /\ FreshInv /\ [Next]_vars => [Kept]_vars
  BY <1>3
<1> QED
  <2>1. [](IInv /\ FreshInv) /\ [][Next]_vars => [][Kept]_vars
    BY <1>5, PTL
  <2> QED
    BY <1>4, <2>1, PTL DEF Spec, HashedOnce

-----------------------------------------------------------------------------
(***************************************************************************)
(* Text files: no byte of a file is NUL, and where the buffer of the last  *)
(* page is not terminated the memory behind it happens to begin with NUL.  *)
(***************************************************************************)
TextFiles ==
  /\ \A f \in Files : \A x \in 1..Len(f) : f[x] # NUL
  /\ \A t \in Tails : t # << >> => t[1] = NUL

\* The tree has as many leaves as the file asks for.
LEMMA LeavesOfFile ==
  ASSUME NEW f \in Files
  PROVE  /\ f \in Seq(Bytes) /\ Len(f) \in Nat
         /\ PagesOf(Len(f)) \in Nat /\ PagesOf(Len(f)) >= 1
         /\ TreeSize(Len(f)) = leaf_start_index /\ PagesOf(Len(f)) <= leaf_start_index
<1> DEFINE L == Len(f)
           P == PagesOf(L)
<1>1. f \in Seq(Bytes) /\ L \in Nat /\ P \in Nat /\ P <= shl[MaxShift] /\ L <= PAGE_LENGTH * P
  BY FilesAssumption, PageArith
<1>2. PAGE_LENGTH \in Nat /\ PAGE_LENGTH >= 1
  BY PageAssumption
<1>3. L >= 1
  <2>1. nb_of_threads \in Nat /\ nb_of_threads >= 1
    BY SizeAssumption, NodeKinds
  <2>2. L >= nb_of_threads * PAGE_LENGTH
    BY FilesAssumption
  <2>3. nb_of_threads * PAGE_LENGTH >= 1
    <3>1. PAGE_LENGTH * 0 + PAGE_LENGTH <= PAGE_LENGTH * nb_of_threads
      BY <1>2, <2>1, MulMono
    <3>2. PAGE_LENGTH * 0 = 0 /\ PAGE_LENGTH * nb_of_threads = nb_of_threads * PAGE_LENGTH
      BY <1>2, <2>1
    <3>3. nb_of_threads * PAGE_LENGTH \in Nat
      BY <1>2, <2>1, MulNat
    <3> QED
      BY <1>2, <3>1, <3>2, <3>3
  <2> QED
    BY <1>1, <1>2, <2>1, <2>2, <2>3, MulNat
<1>4. P >= 1
  <2>1. P = 0 => PAGE_LENGTH * P = 0
    BY <1>2
  <2> HIDE DEF P
  <2> QED
    BY <1>1, <1>3, <2>1
<1>5. PICK k \in 0..MaxShift : compute_tree_size(P) = shl[k] /\ P <= shl[k] /\ shl[k] < 2 * P
  <2> HIDE DEF P
  <2> QED
    BY <1>1, <1>4, TreeSizeIs
<1>6. k = tree_height - 1
  <2>1. Log2(shl[k]) = k
    BY Log2Shl
  <2>2. Log2(shl[k]) + 1 = tree_height
    BY <1>5, FilesAssumption DEF HeightOf, TreeSize
  <2> QED
    BY <1>5, <2>1, <2>2, SizeAssumption DEF MaxShift
<1> QED
  BY <1>1, <1>4, <1>5, <1>6 DEF TreeSize, leaf_start_index

\* The walk over the parsed file of the builder meets its pages, and then blank pages.
LEMMA SlotOfFile ==
  ASSUME TextFiles, NEW f \in Files, NEW t \in Tails, NEW n \in Nat, n < leaf_start_index
  PROVE  /\ Slot(f, t, Offset(f, n)) = Page(f, n)
         /\ Page(f, n) \in Seq(Bytes)
         /\ Offset(f, n + 1) = Offset(f, n) + Len(Page(f, n))
<1>1. f \in Seq(Bytes) /\ PagesOf(Len(f)) <= shl[MaxShift] /\ TreeSize(Len(f)) = leaf_start_index
  BY FilesAssumption, LeavesOfFile
<1>2. IsTextFile(f) /\ Terminates(t)
  BY <1>1, TailsAssumption DEF TextFiles, IsTextFile, Terminates
<1>3. f # << >>
  <2>1. f = << >> => Len(f) = 0
    OBVIOUS
  <2>2. PagesOf(0) = 0
    BY PageAssumption DEF PagesOf, is_full
  <2> QED
    BY <2>1, <2>2, LeavesOfFile
<1> QED
  BY <1>1, <1>2, <1>3, SlotText

-----------------------------------------------------------------------------
(***************************************************************************)
(* The leaves hold the pages of the file.                                  *)
(***************************************************************************)
LeafPage(x) == data[x] = Page(file, x - leaf_start_index)

TextInv ==
  /\ file \in Files /\ heap \in Tails
  /\ ret # "failed"
  /\ pc = "set" => /\ total_size = Offset(file, i - leaf_start_index)
                   /\ \A x \in Leaves(tree_height) : x < i => LeafPage(x)
  /\ pc # "set" => \A x \in Leaves(tree_height) : LeafPage(x)

LEMMA TextInit ==
  ASSUME Init
  PROVE  TextInv
<1>1. file \in Files /\ heap \in Tails /\ ret = "none" /\ pc = "set"
      /\ i = leaf_start_index /\ total_size = 0
  BY DEF Init
<1>2. leaf_start_index \in Nat /\ leaf_start_index - leaf_start_index = 0
  BY NodeKinds
<1>3. Offset(file, 0) = 0
  <2>1. PagesOf(Len(file)) \in Nat /\ PagesOf(Len(file)) >= 1
    BY <1>1, LeavesOfFile
  <2>2. 0 * PAGE_LENGTH = 0
    BY PageAssumption
  <2> QED
    BY <2>1, <2>2 DEF Offset
<1>4. \A x \in Leaves(tree_height) : ~(x < i)
  BY <1>1, <1>2, NodeKinds
<1> QED
  BY <1>1, <1>2, <1>3, <1>4 DEF TextInv

LEMMA TextNext ==
  ASSUME Balanced, TextFiles, IInv, TextInv, [Next]_vars
  PROVE  TextInv'
<1>1. CASE SetData
  <2> DEFINE n == i - leaf_start_index
  <2>1. /\ pc = "set" /\ i \in leaf_start_index..nb_nodes /\ i < nb_nodes
        /\ nb_nodes = 2 * leaf_start_index /\ leaf_start_index \in Nat
    BY <1>1, NodeKinds DEF SetData, IInv, PhaseInv, SetInv
  <2>2. n \in Nat /\ n < leaf_start_index /\ (i + 1) - leaf_start_index = n + 1
        /\ i \in Leaves(tree_height)
    BY <2>1, NodeKinds
  <2>3. /\ Slot(file, heap, total_size) = Page(file, n)
        /\ Page(file, n) \in Seq(Bytes)
        /\ Offset(file, n + 1) = total_size + Len(Page(file, n))
    <3> HIDE DEF n
    <3> QED
      BY <2>1, <2>2, SlotOfFile DEF TextInv, n
  <2>4. Page(file, n) # Null
    BY <2>3, NullAssumption
  <2>5. /\ data' = [data EXCEPT ![i] = Page(file, n)] /\ i' = i + 1 /\ pc' = pc /\ ret' = ret
        /\ total_size' = total_size + Len(Page(file, n)) /\ UNCHANGED <<file, heap>>
    BY <1>1, <2>3, <2>4 DEF SetData
  <2>6. total_size' = Offset(file, i' - leaf_start_index)
    BY <2>2, <2>3, <2>5
  <2>7. ASSUME NEW x \in Leaves(tree_height), x < i' PROVE data'[x] = Page(file, x - leaf_start_index)
    <3>1. CASE x = i
      BY <2>2, <2>5, <3>1 DEF IInv, TypeInv
    <3>2. CASE x # i
      <4>1. x < i
        BY <2>1, <2>5, <2>7, <3>2, NodeKinds
      <4> QED
        BY <2>1, <2>5, <3>2, <4>1 DEF IInv, TypeInv, TextInv, LeafPage
    <3> QED
      BY <3>1, <3>2
  <2> HIDE DEF n
  <2> QED
    BY <2>1, <2>5, <2>6, <2>7 DEF TextInv, LeafPage
<1>2. CASE SetDone
  <2>1. \A x \in Leaves(tree_height) : x < nb_nodes
    BY NodeKinds
  <2> QED
    BY <1>2, <2>1 DEF SetDone, main, tree, TextInv, LeafPage
<1>3. CASE RootHash
  <2>1. ret' = ret \/ ret' = "failed"
    BY <1>3 DEF RootHash, Return
  <2>2. ret' # "failed"
    <3>1. SUFFICES ASSUME ret' = "failed" PROVE FALSE
      OBVIOUS
    <3>2. pc' = "print" /\ UNCHANGED wpc /\ AllDone
      BY <1>3, <3>1 DEF RootHash, Return, workers, TextInv, IInv, PhaseInv, RootInv
    <3>3. EndInv'
      BY <1>3, RootHashStep DEF IInv, PhaseInv
    <3>4. 0 \in Threads
      BY SizeAssumption, NodeKinds DEF Threads
    <3> QED
      BY <3>1, <3>2, <3>3, <3>4 DEF EndInv, AllDone
  <2> QED
    BY <1>3, <2>1, <2>2 DEF RootHash, Return, TextInv, LeafPage
<1>4. CASE CreateFails
  BY <1>4 DEF CreateFails, Balanced
<1>5. CASE \/ CreateThread \/ CreateDone \/ Join \/ RootStore \/ RootDone \/ TreeToString
           \/ (\E t \in Threads : Worker(t)) \/ UNCHANGED vars
  <2>1. UNCHANGED <<file, heap, data>>
    BY <1>5 DEF CreateThread, CreateDone, Join, RootStore, RootDone, TreeToString, Worker,
                WorkerArgs, WorkerHash, WorkerSkip, WorkerStore, main, tree, vars
  <2>2. ret' = ret \/ ret' = "built"
    BY <1>5 DEF CreateThread, CreateDone, Join, RootStore, RootDone, TreeToString, Worker,
                WorkerArgs, WorkerHash, WorkerSkip, WorkerStore, main, vars, Return
  <2>3. (pc = "set" <=> pc' = "set") /\ (pc = "set" => UNCHANGED <<i, total_size>>)
    BY <1>5 DEF CreateThread, CreateDone, Join, RootStore, RootDone, TreeToString, Worker,
                WorkerArgs, WorkerHash, WorkerSkip, WorkerStore, vars, Return, TextInv
  <2> QED
    BY <2>1, <2>2, <2>3 DEF TextInv, LeafPage
<1> QED
  BY <1>1, <1>2, <1>3, <1>4, <1>5 DEF Next, MainStep, Terminated

\* hash_node never answers -1 for a text file: the walk over the parsed file finds a
\* string for every leaf, and threads get to nodes whose children have been hashed.
THEOREM ChildrenAreReady ==
  ASSUME Balanced, TextFiles
  PROVE  Spec => []ChildrenReady
<1>1. Init => TextInv
  BY TextInit
<1>2. IInv /\ TextInv /\ [Next]_vars => TextInv'
  BY TextNext
<1>3. IInv /\ TextInv => ChildrenReady
  BY WorkerReady DEF IInv, TextInv, ChildrenReady
<1> QED
  BY <1>1, <1>2, <1>3, Invariance, PTL DEF Spec

-----------------------------------------------------------------------------
(***************************************************************************)
(* m_compute_merkle implements TreeOfFile.  The definitions of TreeOfFile  *)
(* are instances of those of Parse; they say the same.                     *)
(***************************************************************************)

\* NULL is no tree.
NullIsNoTree == \A T : Null # [x \in Nodes(tree_height) |-> T[x]]

\* Both modules shift alike.
LEMMA SameShl == TreeOf!shl = shl
  BY DEF TreeOf!shl, shl

\* A Merkle tree is one for both modules.
LEMMA SameTree ==
  ASSUME NEW H, NEW D, IsMerkleTree(H, D, tree_height)
  PROVE  TreeOf!IsMerkleTree(H, D, tree_height)
  BY SameShl DEF IsMerkleTree, Good, Nodes, Leaves, Interior, HasText, LeafHash, NodeHashes, Text, Garbage,
    TreeOf!IsMerkleTree, TreeOf!Good, TreeOf!Nodes, TreeOf!Leaves, TreeOf!Interior, TreeOf!HasText,
    TreeOf!LeafHash, TreeOf!NodeHashes, TreeOf!Text, TreeOf!Garbage

\* The leaves that TreeOfFile asks for are the pages of the file.
LEMMA SamePages ==
  TreeOf!PagesAsLeaves(file) = [x \in Leaves(tree_height) |-> Page(file, x - leaf_start_index)]
  BY SameShl DEF TreeOf!PagesAsLeaves, TreeOf!Leaves, Leaves, TreeOf!Page, Page, leaf_start_index,
    TreeOf!PageBytes, PageBytes, TreeOf!PagesOf, PagesOf, TreeOf!is_full, is_full

\* "Same as build_tree, but multithreaded" (README): for a text file m_compute_merkle answers
\* at most once, and with the Merkle tree of the pages of the file and of blank pages.
THEOREM ImplementsTree ==
  ASSUME Balanced, TextFiles, NullIsNoTree
  PROVE  Spec => ImplementsTreeOfFile
<1>1. Init => TextInv /\ TreeOf!Init
  BY TextInit DEF Init, TreeOf!Init
<1>2. IInv /\ TextInv /\ [Next]_vars => TextInv'
  BY TextNext
<1>3. IInv /\ TextInv /\ [Next]_vars => [TreeOf!Next]_<<file, result>>
  <2> SUFFICES ASSUME IInv, TextInv, [Next]_vars, ~(UNCHANGED <<file, result>>)
               PROVE  TreeOf!Next
    OBVIOUS
  <2>1. file' = file
    BY DEF Next, MainStep, SetData, SetDone, CreateThread, CreateFails, CreateDone, Join,
           RootHash, RootStore, RootDone, TreeToString, Worker, WorkerArgs, WorkerHash, WorkerSkip,
           WorkerStore, Terminated, main, vars
  <2>2. TreeToString /\ result' = hash /\ pc = "print" /\ \A x \in Nodes(tree_height) : hash[x] # Unset
    <3>1. TreeToString \/ result' = result
      BY DEF Next, MainStep, SetData, SetDone, CreateThread, CreateFails, CreateDone, Join,
             RootHash, RootStore, RootDone, Worker, WorkerArgs, WorkerHash, WorkerSkip, WorkerStore,
             Terminated, main, vars
    <3> QED
      BY <2>1, <3>1 DEF TreeToString
  <2>3. result = Null
    BY <2>2 DEF IInv, PhaseInv, ResultInv
  <2>4. hash = [x \in Nodes(tree_height) |-> hash[x]] /\ hash # Null
    BY NullIsNoTree DEF IInv, TypeInv, NullIsNoTree
  <2>5. IsMerkleTree(hash, data, tree_height)
    BY <2>2 DEF IInv, PhaseInv, EndInv, TextInv, IsMerkleTree, Hashed
  <2>6. data = TreeOf!PagesAsLeaves(file)
    <3>1. data = [x \in Leaves(tree_height) |-> Page(file, x - leaf_start_index)]
      BY <2>2 DEF IInv, TypeInv, TextInv, LeafPage
    <3> QED
      BY <3>1, SamePages
  <2>7. TreeOf!IsMerkleTree(hash, TreeOf!PagesAsLeaves(file), tree_height)
    BY <2>5, <2>6, SameTree
  <2> QED
    BY <2>1, <2>2, <2>3, <2>4, <2>7 DEF TreeOf!Next, TreeOf!Build
<1>4. TreeOf!Spec <=> TreeOf!Init /\ [][TreeOf!Next]_<<file, result>>
  BY DEF TreeOf!Spec
<1> QED
  BY <1>1, <1>2, <1>3, <1>4, Invariance, PTL DEF Spec, ImplementsTreeOfFile
=============================================================================
