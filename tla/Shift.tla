------------------------------- MODULE Shift -------------------------------
(***************************************************************************)
(* The two pieces of machine arithmetic on which the tree code is built:   *)
(* the C expression 1 << n and the truncated logarithm (int) log2(n).      *)
(* Both are used on a 32-bit int, so every shift count is at most MaxShift.*)
(***************************************************************************)
EXTENDS Integers

\* The largest n for which 1 << n is representable in an int.
MaxShift == 30

\* 1 << n: the number of nodes of a tree of height n (merkletree.c, build_tree).
shl[n \in Nat] == IF n = 0 THEN 1 ELSE 2 * shl[n - 1]

\* (int) log2(n) for n >= 1.  The second conjunct is n < 1 << (k + 1).
Log2(n) == CHOOSE k \in 0..MaxShift : shl[k] <= n /\ n \div 2 < shl[k]

IsPowerOfTwo(n) == \E k \in 0..MaxShift : n = shl[k]
=============================================================================
