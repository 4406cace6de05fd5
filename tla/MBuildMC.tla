------------------------------ MODULE MBuildMC ------------------------------
(***************************************************************************)
(* Values for the constants of MBuild.  Bytes are model values.  The text  *)
(* of a digest has two characters: the first stands for the half that the  *)
(* parent hashes and tells all strings apart, the second for the rest.     *)
(***************************************************************************)
EXTENDS MBuild

CONSTANTS a, b, c, other

MCDigest(s) == <<<<"h", s>>, other>>

Repeat(s, n) == [k \in 1..n |-> s[((k - 1) % Len(s)) + 1]]

\* Eight leaves of two bytes: all pages full, a partial last page, blank pages
\* behind a full and behind a partial page.
FilesOf8 == {Repeat(<<a, b, c>>, n) : n \in {16, 15, 10, 9}}
\* Four full pages of two bytes.
FilesOf4 == {Repeat(<<a, b, c>>, 8)}

\* Binary files: the walk over the parsed file stops at a page that starts with
\* NUL, or falls between two pages.
BinaryFilesOf8 ==
  {<<a, b, c, c, NUL, a, b, b, a, b, c, c>>, <<a, b, c, NUL, a, c, b, b, a, b, c, c>>}

AnyFilesOf8 == FilesOf8 \cup BinaryFilesOf8

AllBytes == {a, b, c, NUL, SPACE}

NoTail   == {<<>>}
TwoTails == {<<>>, <<a>>}
=============================================================================
