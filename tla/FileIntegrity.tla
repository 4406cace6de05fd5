--------------------------- MODULE FileIntegrity ---------------------------
(***************************************************************************)
(* What the file system promises of the Merkle attribute of a file: from   *)
(* the call of a write to its return the attribute may lag behind the      *)
(* file; it is only ever replaced by the tree of what the file holds, and  *)
(* the write does not return before it is.                                 *)
(***************************************************************************)
EXTENDS TreeOps

CONSTANTS Paths, OldFiles

VARIABLES content, attr, busy    \* busy: the files a write is running on

vars == <<content, attr, busy>>

Init ==
  /\ content \in [Paths -> OldFiles]
  /\ attr = [f \in Paths |-> attr[f]]
  /\ \A f \in Paths : attr[f] # Null => Describes(attr[f], content[f])
  /\ busy = {}

Call(f) ==
  /\ f \notin busy
  /\ busy' = busy \cup {f}
  /\ UNCHANGED <<content, attr>>

Store(f) ==
  /\ f \in busy
  /\ content' = [content EXCEPT ![f] = content'[f]]
  /\ UNCHANGED <<attr, busy>>

Publish(f) ==
  /\ f \in busy
  /\ attr'[f] # Null
  /\ Describes(attr'[f], content[f])
  /\ attr' = [attr EXCEPT ![f] = attr'[f]]
  /\ UNCHANGED <<content, busy>>

Return(f) ==
  /\ f \in busy
  /\ attr[f] # Null
  /\ Describes(attr[f], content[f])
  /\ busy' = busy \ {f}
  /\ UNCHANGED <<content, attr>>

\* Whoever uses the file may remove the attribute; the next write brings it back.
Remove(f) ==
  /\ f \notin busy
  /\ attr' = [attr EXCEPT ![f] = Null]
  /\ UNCHANGED <<content, busy>>

Next ==
  \E f \in Paths : Call(f) \/ Store(f) \/ Publish(f) \/ Return(f) \/ Remove(f)

Spec == Init /\ [][Next]_vars
=============================================================================
