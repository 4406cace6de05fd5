----------------------------- MODULE TreeOfFile -----------------------------
(***************************************************************************)
(* What the builders of merkletree.c and parse.c promise together: asked   *)
(* for the tree of a file they answer once, with the Merkle tree whose     *)
(* leaves are the pages of that file, completed with blank pages.          *)
(***************************************************************************)
EXTENDS Parse

CONSTANTS tree_height, Files

VARIABLES file, answer    \* answer is Null, then a function on the nodes

Init == file \in Files /\ answer = Null

PagesAsLeaves(f) ==
  [x \in Leaves(tree_height) |-> Page(f, x - shl[tree_height - 1])]

Build ==
  /\ answer = Null
  /\ answer' # Null
  /\ IsMerkleTree(answer', PagesAsLeaves(file), tree_height)
  /\ UNCHANGED file

Next == Build

Spec == Init /\ [][Next]_<<file, answer>>
=============================================================================
