------------------------------ MODULE TreeText ------------------------------
(***************************************************************************)
(* The text of a tree, "1:hash,2:hash,...", and its parsing by several     *)
(* threads of bb_write: string_to_tree and str_split (merkletree.c) walk   *)
(* it with strtok, which keeps its position in a static variable.  The     *)
(* parsing runs under the mutex of bb_write (bbfs.c).                      *)
(*                                                                         *)
(* A text is a sequence of numbers, hashes, COMMA and COLON.  A step is    *)
(* one call of strtok with what the caller does with the token.            *)
(***************************************************************************)
EXTENDS Integers, FiniteSets, SequencesExt

CONSTANTS
  Threads,
  Hashes,
  Trees,         \* the trees that attributes hold, as sequences of hashes
  MaxCalls,      \* a bound on the number of calls
  COMMA, COLON, Null

ASSUME TextAssumption ==
  /\ \A tree \in Trees : tree \in Seq(Hashes) \ {<<>>}
  /\ {COMMA, COLON} \cap (Hashes \cup Int) = {} /\ COMMA # COLON
  /\ Null \notin Threads \cup Seq(Hashes \cup Int \cup {COMMA, COLON})
  /\ MaxCalls \in Nat

VARIABLES
  lock,         \* who holds the mutex, or Null
  saved,        \* what strtok has not looked at yet
  pc,
  tree,         \* per thread: the tree in the attribute that it reads
  behind,       \* what follows the value in its buffer
  tokens,       \* the tokens of the text
  count, token, result,    \* str_split: as in the code; result is what idx counts
  nodes,        \* the hashes of the parsed tree
  calls

splits == <<count, token, result>>
vars   == <<lock, saved, pc, tree, behind, tokens, splits, nodes, calls>>

\* tree_to_string: four symbols for a node, but no comma after the last one.
tree_to_string(t) ==
  [x \in 1 .. 4 * Len(t) - 1 |->
    LET node == (x + 3) \div 4
    IN  <<node, COLON, t[node], COMMA>>[1 + ((x - 1) % 4)]]

\* Where a token of s begins, or 0, and where the delimiter behind it is.
Start(s, delim) == SelectInSeq(s, LAMBDA e : e # delim)
End(s, delim)   == SelectInSeq(s \o <<delim>>, LAMBDA e : e = delim)

\* getxattr does not terminate the value, and malloc does not clear the buffer: it may
\* go on with the rest of an older text, which ends at its first comma when strtok has
\* been over it.
Leftovers ==
  LET Rests(s)   == {SubSeq(s, x, Len(s)) : x \in 1 .. Len(s) + 1}
      UpToNul(s) == SubSeq(s, 1, End(s, COMMA) - 1)
      rests      == UNION {Rests(tree_to_string(t)) : t \in Trees}
  IN  {<<>>} \cup rests \cup {UpToNul(s) : s \in rests}

Init ==
  /\ lock = Null /\ saved = <<>> /\ calls = 0
  /\ pc = [t \in Threads |-> "idle"]
  /\ tree = [t \in Threads |-> <<>>] /\ behind = [t \in Threads |-> <<>>]
  /\ tokens = [t \in Threads |-> <<>>] /\ nodes = [t \in Threads |-> <<>>]
  /\ count = [t \in Threads |-> 0]
  /\ token = [t \in Threads |-> Null] /\ result = [t \in Threads |-> <<>>]

Goto(t, label) == pc' = [pc EXCEPT ![t] = label]

\* The first token of s: strtok skips delimiters, and leaves what follows the next one.
Strtok(s, delim) ==
  LET start == Start(s, delim)
      from  == SubSeq(s, start, Len(s))
      end   == End(from, delim)
  IN  IF start = 0 THEN [token |-> Null, rest |-> <<>>]
      ELSE [token |-> SubSeq(from, 1, end - 1), rest |-> SubSeq(from, end + 1, Len(from))]

Delimiters(s, delim) == Cardinality({x \in 1..Len(s) : s[x] = delim})

\* A slip: no room for a token behind the last delimiter.
CountDelimiters(s, delim) == Delimiters(s, delim) + 1

\* The length of str_split's result, with its NULL at the end.
Count(s, delim) == Delimiters(s, delim) + (IF Last(s) # delim THEN 1 ELSE 0) + 1

Getxattr(t) ==
  /\ pc[t] = "idle" /\ calls < MaxCalls
  /\ \E value \in Trees, rest \in Leftovers :
       /\ tree' = [tree EXCEPT ![t] = value]
       /\ behind' = [behind EXCEPT ![t] = rest]
  /\ calls' = calls + 1
  /\ Goto(t, "lock")
  /\ UNCHANGED <<lock, saved, tokens, splits, nodes>>

\* A slip: the mutex is not waited for.
LockTry(t) ==
  /\ pc[t] = "lock"
  /\ lock' = t
  /\ Goto(t, "text")
  /\ UNCHANGED <<saved, tree, behind, tokens, splits, nodes, calls>>

Lock(t) ==
  /\ pc[t] = "lock" /\ lock = Null
  /\ lock' = t
  /\ Goto(t, "text")
  /\ UNCHANGED <<saved, tree, behind, tokens, splits, nodes, calls>>

\* str_split up to its loop: counts, and calls strtok for the first time.
Split(t, s, delim) ==
  LET first == Strtok(s, delim)
  IN  /\ count' = [count EXCEPT ![t] = Count(s, delim)]
      /\ token' = [token EXCEPT ![t] = first.token]
      /\ saved' = first.rest
      /\ result' = [result EXCEPT ![t] = <<>>]

SplitText(t) ==
  /\ pc[t] = "text"
  /\ Split(t, tree_to_string(tree[t]) \o behind[t], COMMA)
  /\ nodes' = [nodes EXCEPT ![t] = <<>>]
  /\ Goto(t, "tokens")
  /\ UNCHANGED <<lock, tree, behind, tokens, calls>>

SplitToken(t) ==
  /\ pc[t] = "token"
  /\ Split(t, tokens[t][Len(nodes[t]) + 1], COLON)
  /\ Goto(t, "thing")
  /\ UNCHANGED <<lock, tree, behind, tokens, nodes, calls>>

\* assert(idx < count), the token is stored, and strtok(0, delim) gives the next one.
NextToken(t) ==
  /\ pc[t] \in {"tokens", "thing"} /\ token[t] # Null
  /\ IF Len(result[t]) < count[t]
     THEN LET next == Strtok(saved, IF pc[t] = "tokens" THEN COMMA ELSE COLON)
          IN  /\ result' = [result EXCEPT ![t] = Append(@, token[t])]
              /\ token' = [token EXCEPT ![t] = next.token]
              /\ saved' = next.rest
              /\ UNCHANGED pc
     ELSE Goto(t, "aborted") /\ UNCHANGED <<saved, token, result>>
  /\ UNCHANGED <<lock, tree, behind, tokens, count, nodes, calls>>

\* A slip: the mutex protects the first split only.
TextSplitUnlocks(t) ==
  /\ pc[t] = "tokens" /\ token[t] = Null
  /\ lock' = Null
  /\ tokens' = [tokens EXCEPT ![t] = result[t]]
  /\ Goto(t, IF Len(result[t]) = count[t] - 1 THEN "token" ELSE "aborted")
  /\ UNCHANGED <<saved, tree, behind, splits, nodes, calls>>

\* assert(idx == count - 1), and str_split(tree_string, ',') returns.
TextSplit(t) ==
  /\ pc[t] = "tokens" /\ token[t] = Null
  /\ tokens' = [tokens EXCEPT ![t] = result[t]]
  /\ Goto(t, IF Len(result[t]) = count[t] - 1 THEN "token" ELSE "aborted")
  /\ UNCHANGED <<lock, saved, tree, behind, splits, nodes, calls>>

\* The same for str_split(token, ':').  A token without a hash ends the process, in
\* strcpy; with the last token the parsing is done.
TokenSplit(t) ==
  /\ pc[t] = "thing" /\ token[t] = Null
  /\ IF Len(result[t]) = count[t] - 1 /\ Len(result[t]) >= 2
     THEN /\ nodes' = [nodes EXCEPT ![t] = Append(@, result[t][2])]
          /\ Goto(t, IF Len(nodes'[t]) < Len(tokens[t]) THEN "token" ELSE "unlock")
     ELSE Goto(t, "aborted") /\ UNCHANGED nodes
  /\ UNCHANGED <<lock, saved, tree, behind, tokens, splits, calls>>

Unlock(t) ==
  /\ pc[t] = "unlock"
  /\ lock' = Null
  /\ Goto(t, "parsed")
  /\ UNCHANGED <<saved, tree, behind, tokens, splits, nodes, calls>>

\* The rest of bb_write, up to the next call.
Return(t) ==
  /\ pc[t] = "parsed"
  /\ Goto(t, "idle")
  /\ tree' = [tree EXCEPT ![t] = <<>>] /\ behind' = [behind EXCEPT ![t] = <<>>]
  /\ tokens' = [tokens EXCEPT ![t] = <<>>] /\ nodes' = [nodes EXCEPT ![t] = <<>>]
  /\ count' = [count EXCEPT ![t] = 0] /\ result' = [result EXCEPT ![t] = <<>>]
  /\ UNCHANGED <<lock, saved, token, calls>>

Step(t) ==
  \/ Getxattr(t) \/ Lock(t) \/ SplitText(t) \/ SplitToken(t) \/ NextToken(t)
  \/ TextSplit(t) \/ TokenSplit(t) \/ Unlock(t) \/ Return(t)

\* All calls are over, or an assertion has ended the process.
Quiet ==
  /\ \/ calls = MaxCalls /\ \A t \in Threads : pc[t] = "idle"
     \/ \E t \in Threads : pc[t] = "aborted"
  /\ UNCHANGED vars

Next == (\E t \in Threads : Step(t)) \/ Quiet

Spec == Init /\ [][Next]_vars

(***************************************************************************)
(* Properties.                                                             *)
(***************************************************************************)

\* What is parsed is what was printed, though every thread uses the one position of
\* strtok, and string_to_tree uses it for two splits.  A leftover behind the text may
\* change the hash of the last node and append nodes, but no node before the last.
ParsesWhatWasPrinted ==
  \A t \in Threads : pc[t] = "parsed" =>
    LET n    == Len(tree[t])
        sure == IF behind[t] = <<>> THEN n ELSE n - 1
    IN  /\ behind[t] = <<>> => Len(nodes[t]) = n
        /\ Len(nodes[t]) >= n
        /\ \A x \in 1..sure : nodes[t][x] = <<tree[t][x]>>

\* str_split counts the tokens before strtok finds them, and neither of its assertions
\* fails, nor is a token without a hash met, whatever older text follows.
AssertionsHold == \A t \in Threads : pc[t] # "aborted"

\* What the threads see of the parsing: the text they read, and its nodes at the end.
Phases   == [t \in Threads |-> IF pc[t] \in {"idle", "parsed"} THEN pc[t] ELSE "reading"]
TextRead == [t \in Threads |->
              IF pc[t] = "idle" THEN <<>> ELSE tree_to_string(tree[t]) \o behind[t]]
Answers  == [t \in Threads |-> IF pc[t] = "parsed" THEN nodes[t] ELSE <<>>]
AllTexts == {tree_to_string(value) \o rest : value \in Trees, rest \in Leftovers}

\* string_to_tree is atomic to its callers: the mutex makes the calls of strtok of one
\* thread one step, which gives the second field of every field of the text, the older
\* text behind it included.
Parser == INSTANCE TreeParser WITH
  Inputs <- AllTexts, phase <- Phases, text <- TextRead, nodes <- Answers
ImplementsTreeParser == Parser!Spec
=============================================================================
