----------------------------- MODULE BBWriteMC -----------------------------
(***************************************************************************)
(* Values for the constants of BBWrite.  The pages have three bytes, the   *)
(* least for which a write in the middle of a page may leave the page      *)
(* partial.                                                                *)
(***************************************************************************)
EXTENDS BBWrite

CONSTANTS a, b, c, other, w1, w2, f1, f2

MCDigest(s) == <<<<"h", s>>, other>>
AllBytes    == {a, b, c, NUL, SPACE}
NoTail      == {<<>>}

Fill(x, n) == [k \in 1..n |-> x]

EveryRequest(f, r) == TRUE

\* A file that is written from its beginning to its end.
AppendRequest(f, r) == r.offset = Len(f)

\* Whole pages and beginnings of pages, and writes inside a page.
PageRequests ==
  {[offset |-> o, buf |-> Fill(x, n)] : o \in {0, 3, 6}, n \in {1, 3}, x \in {a}}
    \cup {[offset |-> o, buf |-> Fill(b, 1)] : o \in {1, 4, 7}}

\* Pages of two bytes: writes of one page and of several, from any offset.
SpanRequests ==
  {[offset |-> 4, buf |-> Fill(a, 2)], [offset |-> 1, buf |-> Fill(b, 4)],
   [offset |-> 5, buf |-> Fill(b, 2)]}

\* A write that goes on in a second page.
SecondPage == {[offset |-> 0, buf |-> Fill(a, 2)], [offset |-> 2, buf |-> Fill(b, 3)]}

\* One byte at the beginning of a full page.
PageBeginning == {[offset |-> 0, buf |-> Fill(a, 1)]}

\* Bytes of an earlier request behind a buffer; a file of two pages whose tree is copied.
EarlierBytes == {<<>>, <<c>>}
OtherFile    == {Fill(b, 5)}

NewFile     == {<<>>}
TwoPages    == {Fill(c, 3)}
SomeFiles   == {<<>>, Fill(c, 5)}
=============================================================================
