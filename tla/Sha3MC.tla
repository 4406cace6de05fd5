------------------------------- MODULE Sha3MC -------------------------------
(***************************************************************************)
(* Values for the constants of Sha3: words of three bytes, a rate of two   *)
(* words, messages of up to three blocks.                                  *)
(***************************************************************************)
EXTENDS Sha3

CONSTANTS MaxLen

\* One byte differs from the others: it is the last bit of the padding, too.
MCMessages ==
  UNION {{[x \in 1..n |-> IF x = k THEN {7} ELSE {0, 1}] : k \in 0..n} : n \in 0..MaxLen}

\* A permutation that keeps everything apart.
MCKeccakf(state) == [w \in DOMAIN state |-> {<<state, w>>}]
=============================================================================
