------------------------------ MODULE HashTree ------------------------------
(***************************************************************************)
(* The nodes of a Merkle tree and hash_node (merkletree.c): a tree of      *)
(* height h is an array indexed 1 .. (1 << h) - 1, the children of node i  *)
(* are 2i and 2i+1, and the leaves start at 1 << (h - 1).                  *)
(*                                                                         *)
(* A text is a sequence of characters.  Digest(s) is the text that the     *)
(* code makes of the SHA3-256 hash of s with "%x".  An interior node       *)
(* hashes only the first HASH_CHARS characters of the texts of its two     *)
(* children, followed by whatever strlen finds behind the unterminated     *)
(* buffer: Tails is the set of what may be found there.                    *)
(***************************************************************************)
EXTENDS Shift, Sequences

CONSTANTS
  Digest(_),    \* the hash text of a string
  HASH_CHARS,   \* HASH_SIZE / BYTE_SIZE: how much of a child's text is hashed
  Tails,        \* what may follow an unterminated buffer in the heap
  Bytes,        \* the characters of a file
  Null          \* the NULL pointer of node.data

ASSUME TailsAssumption == Tails # {} /\ \A t \in Tails : t \in Seq(Bytes)
ASSUME NullAssumption  == Null \notin Seq(Bytes) /\ Null \notin Seq(Seq(Bytes))

\* The states of node.hash: NULL, memory nobody has written yet (or a text
\* computed from such memory), a text.
Unset   == [state |-> "null"]
Garbage == [state |-> "garbage"]
Text(s) == [state |-> "text", text |-> s]

HasText(n) == n.state = "text"

\* Numbers of nodes of a tree of height h.
Nodes(h)    == 1 .. shl[h] - 1
Leaves(h)   == shl[h - 1] .. shl[h] - 1
Interior(h) == 1 .. shl[h - 1] - 1

\* What hash_node may store in a leaf.  (For " " the code has a literal, which
\* is the digest of " ".)
LeafHash(s) == Text(Digest(s))

\* What hash_node may store in the parent of l and r.
NodeHashes(l, r) ==
  IF HasText(l) /\ HasText(r)
  THEN {Text(Digest(SubSeq(l.text, 1, HASH_CHARS) \o SubSeq(r.text, 1, HASH_CHARS) \o t)) :
          t \in Tails}
  ELSE {Garbage}

\* What hash_node(mt, i) may store; the empty set when it returns -1.
hash_node(hash, data, h, i) ==
  IF i \in Leaves(h)
  THEN {LeafHash(s) : s \in {data[i]} \ {Null}}
  ELSE IF i \in Interior(h) /\ Unset \notin {hash[2*i], hash[2*i + 1]}
       THEN NodeHashes(hash[2*i], hash[2*i + 1])
       ELSE {}

\* Node x holds what hash_node makes of its data, or of its children as they are.
Good(hash, data, h, x) ==
  /\ HasText(hash[x])
  /\ x \in Leaves(h) => data[x] # Null /\ hash[x] = LeafHash(data[x])
  /\ x \in Interior(h) => hash[x] \in NodeHashes(hash[2*x], hash[2*x + 1])

IsMerkleTree(hash, data, h) == \A x \in Nodes(h) : Good(hash, data, h, x)
=============================================================================
