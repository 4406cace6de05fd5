---------------------------- MODULE TreeTextMC ----------------------------
(***************************************************************************)
(* Values for the constants of TreeText: trees of one leaf and of two.     *)
(***************************************************************************)
EXTENDS TreeText

CONSTANTS h1, h2, h3, t1, t2

OneAndTwoLeaves == {<<h1>>, <<h1, h2, h3>>}
=============================================================================
