----------------------------- MODULE HandlersMC -----------------------------
(***************************************************************************)
(* Values for the constants of Handlers.                                   *)
(***************************************************************************)
EXTENDS Handlers, TLC

ReadWrite == {{"r", "w"}}
SomeModes == {{"r", "w"}, {"r"}, {"w"}}

Alike == Permutations(Hidden) \cup Permutations(Handles) \cup Permutations(Inodes) \cup Permutations(Pages)
           \cup Permutations(Names)
=============================================================================
