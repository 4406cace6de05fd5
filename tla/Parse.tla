------------------------------- MODULE Parse -------------------------------
(***************************************************************************)
(* How parse.c cuts a file into the strings it hashes.  A file is a        *)
(* sequence of bytes, NUL included.  The parsed file is an array of string *)
(* pointers that is only filled at some offsets: page i at i*PAGE_LENGTH,  *)
(* the blank pages that complete the tree right behind the last string.    *)
(* The builders find the next string by adding the length of the current   *)
(* one to its offset.                                                      *)
(***************************************************************************)
EXTENDS HashTree

CONSTANTS PAGE_LENGTH, NUL, SPACE

ASSUME PageAssumption == PAGE_LENGTH \in Nat \ {0} /\ SPACE \in Bytes

\* strlen: s is cut at its first NUL, or at its end.
Strlen(s) ==
  CHOOSE n \in 0..Len(s) : /\ \A i \in 1..n : s[i] # NUL
                           /\ n < Len(s) => s[n + 1] = NUL
CStr(s) == SubSeq(s, 1, Strlen(s))

is_full(size) == size % PAGE_LENGTH = 0

\* The smallest power of two that is not below n.  For 0 the unsigned
\* decrement wraps around and the result is 0.
compute_tree_size(n) ==
  IF n = 0 THEN 0
  ELSE CHOOSE p \in {shl[k] : k \in 0..MaxShift} : n <= p /\ p < 2 * n

\* Pages that a file of the given size has, the partial one included.
PagesOf(size)   == size \div PAGE_LENGTH + (IF is_full(size) THEN 0 ELSE 1)
TreeSize(size)  == compute_tree_size(PagesOf(size))
HeightOf(size)  == Log2(TreeSize(size)) + 1

\* The bytes of page k of f.
PageBytes(f, k) ==
  SubSeq(f, k * PAGE_LENGTH + 1,
            IF (k + 1) * PAGE_LENGTH <= Len(f) THEN (k + 1) * PAGE_LENGTH ELSE Len(f))

\* What the tree should hash for leaf number k of f.
Page(f, k) == IF k < PagesOf(Len(f)) THEN PageBytes(f, k) ELSE <<SPACE>>

\* parsed_file[o].  heap is what follows the bytes of the file in memory.
Slot(f, heap, o) ==
  LET nb_of_pages == Len(f) \div PAGE_LENGTH
      rest  == CStr(PageBytes(f, nb_of_pages) \o heap)
      blank == nb_of_pages * PAGE_LENGTH + (IF is_full(Len(f)) THEN 0 ELSE Len(rest))
      k     == o \div PAGE_LENGTH
  IN  IF o - blank \in 0 .. TreeSize(Len(f)) - PagesOf(Len(f)) - 1
      THEN <<SPACE>>
      ELSE IF ~is_full(o) \/ k >= TreeSize(Len(f)) THEN Null
      ELSE IF k < nb_of_pages THEN CStr(PageBytes(f, k))
      ELSE IF k < PagesOf(Len(f)) THEN rest
      ELSE <<>>
=============================================================================
