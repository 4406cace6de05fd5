----------------------------- MODULE TreeParser -----------------------------
(***************************************************************************)
(* What string_to_tree (merkletree.c) promises to the threads of bb_write: *)
(* each gets, in one step, the nodes of the text that it reads, whatever   *)
(* the other threads do.                                                   *)
(***************************************************************************)
EXTENDS Integers, FiniteSets, SequencesExt

CONSTANTS Threads, Inputs, COMMA, COLON    \* Inputs: the texts that can be read

VARIABLES phase, text, nodes

Delims(s, delim, n) == Cardinality({x \in 1..n : s[x] = delim})

\* What is between two delimiters: all that has k - 1 of them before it.
Field(s, delim, k) ==
  LET places == {x \in 1..Len(s) : s[x] # delim /\ Delims(s, delim, x) = k - 1}
  IN  SubSeq(s, Min(places), Max(places))

NodesOf(s) ==
  [k \in 1 .. Delims(s, COMMA, Len(s)) + 1 |-> Field(Field(s, COMMA, k), COLON, 2)]

Init ==
  /\ phase = [t \in Threads |-> "idle"]
  /\ text = [t \in Threads |-> <<>>] /\ nodes = [t \in Threads |-> <<>>]

Read(t) ==
  /\ phase[t] = "idle"
  /\ phase' = [phase EXCEPT ![t] = "reading"]
  /\ \E s \in Inputs : text' = [text EXCEPT ![t] = s]
  /\ UNCHANGED nodes

Parse(t) ==
  /\ phase[t] = "reading"
  /\ phase' = [phase EXCEPT ![t] = "parsed"]
  /\ nodes' = [nodes EXCEPT ![t] = NodesOf(text[t])]
  /\ UNCHANGED text

Return(t) ==
  /\ phase[t] = "parsed"
  /\ phase' = [phase EXCEPT ![t] = "idle"]
  /\ text' = [text EXCEPT ![t] = <<>>] /\ nodes' = [nodes EXCEPT ![t] = <<>>]

Next == \E t \in Threads : Read(t) \/ Parse(t) \/ Return(t)

Spec == Init /\ [][Next]_<<phase, text, nodes>>
=============================================================================
