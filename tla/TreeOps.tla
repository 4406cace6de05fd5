------------------------------ MODULE TreeOps ------------------------------
(***************************************************************************)
(* The sequential operations on trees: build_tree, string_to_tree,         *)
(* change_and_rebuild, get_bigger_tree (merkletree.c, parse.c) and the     *)
(* three ways in which a write gets its tree: compute_merkle, quick_change *)
(* and pages_in_need.                                                      *)
(*                                                                         *)
(* A printed tree is a function from its nodes to texts; Null stands for   *)
(* the answer -1.  What strlen finds behind an unterminated hash buffer is *)
(* modelled in MBuild; here it is one fixed element of Tails.              *)
(***************************************************************************)
EXTENDS Parse, FiniteSets

HeightOfTree(hash) == Log2(Cardinality(DOMAIN hash) + 1)
LeafCount(hash)    == shl[HeightOfTree(hash) - 1]

\* One of the texts that hash_node may store in the parent of l and r.
ParentHash(l, r) == CHOOSE s \in NodeHashes(l, r) : TRUE

\* hash_node on the given nodes, children first; Null when one of them answers -1, that
\* is when there is no such node, or it is a leaf without data.  To hash a node again
\* when its children have not changed changes nothing.
Rehash(hash, data, h, nodes) ==
  LET new[x \in Nodes(h)] ==
        IF x \notin nodes THEN hash[x]
        ELSE IF x \in Leaves(h) THEN LeafHash(data[x])
        ELSE ParentHash(new[2*x], new[2*x + 1])
  IN  IF nodes \subseteq Nodes(h) /\ \A x \in nodes \cap Leaves(h) : data[x] # Null
      THEN [x \in Nodes(h) |-> new[x]]
      ELSE Null

\* The strings that the builders find in an array that is filled at some offsets, and
\* Null from the first offset on that is not filled.
NextString(array, found) ==
  LET s == array[found.offset]
  IN  IF found.strings = Null \/ s = Null THEN [offset |-> 0, strings |-> Null]
      ELSE [offset |-> found.offset + Len(s), strings |-> Append(found.strings, s)]

Walk(array, count) ==
  LET walk[c \in Nat] ==
        IF c = 0 THEN [offset |-> 0, strings |-> <<>>] ELSE NextString(array, walk[c - 1])
  IN  walk[count].strings

\* build_tree over the given leaves.
build_tree(strings, h) ==
  LET none == [x \in Nodes(h) |-> Unset]
  IN  Rehash(none, [x \in Leaves(h) |-> strings[x - shl[h - 1] + 1]], h, Nodes(h))

\* compute_merkle on what it reads of the file.  On an empty file log2(0) makes, on
\* x86, a tree of one leaf whose string is NULL.
compute_merkle(f) ==
  IF f = <<>> THEN Null
  ELSE LET strings == Walk([o \in Nat |-> Slot(f, <<>>, o)], TreeSize(Len(f)))
       IN  IF strings = Null THEN Null ELSE build_tree(strings, HeightOf(Len(f)))

\* string_to_tree: the leaves of a parsed tree have no data, but for those at index that
\* change_and_rebuild sets.
WithData(h, index, strings) ==
  [x \in Leaves(h) |->
     IF x - index \in 0..Len(strings) - 1 THEN strings[x - index + 1] ELSE Null]

\* change_and_rebuild in BUFFER_MODE: one leaf, and the path from it to the root.
ChangeLeaf(hash, h, index, s) ==
  Rehash(hash, WithData(h, index, <<s>>), h, {index \div shl[l] : l \in 0..h - 1})

\* A slip: half of the nodes of the level below.
RunLengthHalf(number, l) ==
  LET k[m \in Nat] == IF m = 0 THEN number ELSE k[m - 1] \div 2
  IN  k[l]

\* change_and_rebuild in FILE_MODE: the leaves from index on, and at every level
\* above k / 2 + 1 nodes from the parent of the first one on.
RunLength(number, l) ==
  LET k[m \in Nat] == IF m = 0 THEN number ELSE k[m - 1] \div 2 + 1
  IN  k[l]

ChangeLeaves(hash, h, index, strings) ==
  LET Run(l) == LET first == index \div shl[l]
                IN  first .. first + RunLength(Len(strings), l) - 1
  IN  Rehash(hash, WithData(h, index, strings), h, {1} \cup UNION {Run(l) : l \in 0..h - 1})

\* get_bigger_tree: the leaves keep their hashes, and as many blank ones follow.
get_bigger_tree(hash) ==
  LET h    == HeightOfTree(hash)
      old  == shl[h] .. shl[h] + shl[h - 1] - 1
      kept == [x \in Nodes(h + 1) |-> IF x \in old THEN hash[x - shl[h] + shl[h - 1]] ELSE Unset]
  IN  Rehash(kept, [x \in Leaves(h + 1) |-> <<SPACE>>], h + 1, Nodes(h + 1) \ old)

\* A slip: the buffer is taken for the page that the offset falls in.
quick_changeAnywhere(hash, offset, buf) ==
  LET page   == offset \div PAGE_LENGTH
      target == IF page + 1 > LeafCount(hash) THEN get_bigger_tree(hash) ELSE hash
  IN  IF page >= LeafCount(target) THEN Null
      ELSE ChangeLeaf(target, HeightOfTree(target), LeafCount(target) + page, CStr(buf))

\* quick_change: -2 for an offset that is not the beginning of a page, -1 for a page
\* that is beyond the bigger tree.  buf is what strlen sees of the buffer.
quick_change(hash, offset, buf) ==
  LET page   == offset \div PAGE_LENGTH
      target == IF page + 1 > LeafCount(hash) THEN get_bigger_tree(hash) ELSE hash
  IN  IF ~is_full(offset) \/ page >= LeafCount(target) THEN Null
      ELSE ChangeLeaf(target, HeightOfTree(target), LeafCount(target) + page, CStr(buf))

\* pages_in_need computes a new tree when the file has more pages than the tree.
NeedsNewTree(hash, f) == Len(f) \div PAGE_LENGTH > LeafCount(hash)

FirstPage(offset)      == offset \div PAGE_LENGTH
LastPage(offset, size) ==
  (offset + size) \div PAGE_LENGTH - (IF is_full(offset + size) THEN 1 ELSE 0)

\* The pages that pages_in_need reads of f.  The last one is copied by strlcpy, which
\* keeps one byte for the terminator.
ChangedPages(f, offset, size) ==
  LET first == FirstPage(offset)
      last  == LastPage(offset, size)
      rest  == CStr(SubSeq(f, last * PAGE_LENGTH + 1, Len(f)))
      String(o) ==
        LET page == first + o \div PAGE_LENGTH
        IN  IF ~is_full(o) \/ page > last THEN Null
            ELSE IF page < last THEN CStr(PageBytes(f, page))
            ELSE IF Len(rest) < PAGE_LENGTH THEN rest
            ELSE SubSeq(rest, 1, PAGE_LENGTH - 1)
  IN  Walk([o \in Nat |-> String(o)], last - first + 1)

\* The rest of pages_in_need, for the pages it has read.
UpdatePages(hash, offset, strings) ==
  ChangeLeaves(hash, HeightOfTree(hash), LeafCount(hash) + FirstPage(offset), strings)

\* A slip: the last parent is taken for a leaf.
compare_treesNotLast(a, b, h) ==
  LET compared[x \in Nodes(h)] ==
        x = 1 \/ (compared[x \div 2] /\ a[x \div 2] # b[x \div 2] /\ x \div 2 < shl[h - 1] - 1)
  IN  {x \in Nodes(h) : compared[x] /\ a[x] # b[x]}

\* compare_trees(a, b, 1): the nodes that it prints.  It goes on below a node that
\* differs and is not a leaf.
compare_trees(a, b, h) ==
  LET compared[x \in Nodes(h)] ==
        x = 1 \/ (compared[x \div 2] /\ a[x \div 2] # b[x \div 2] /\ x \div 2 < shl[h - 1])
  IN  {x \in Nodes(h) : compared[x] /\ a[x] # b[x]}

\* The printed tree is the Merkle tree of the pages of f and of blank pages.
Describes(hash, f) ==
  LET h == HeightOfTree(hash)
  IN  /\ PagesOf(Len(f)) <= LeafCount(hash)
      /\ IsMerkleTree(hash, [x \in Leaves(h) |-> Page(f, x - shl[h - 1])], h)
=============================================================================
