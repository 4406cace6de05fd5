------------------------------ MODULE BBWrite ------------------------------
(***************************************************************************)
(* bb_write (bbfs.c) as FUSE calls it from several threads: the data goes  *)
(* to the file at once, the tree goes to the file's attribute "merkle"     *)
(* after it has been read, changed and printed, with no lock around the    *)
(* two.  The only lock is held while the old tree is parsed.               *)
(*                                                                         *)
(* A step is what a call does between two accesses to shared state: the    *)
(* file, its attribute, the lock.  What it computes on its own in between  *)
(* is in TreeOps.                                                          *)
(***************************************************************************)
EXTENDS TreeOps

CONSTANTS
  Writers,        \* threads of FUSE
  Paths,
  OldFiles,       \* what a file may hold before the first call, with its tree or without
  Requests,       \* records [offset, buf]
  NbThreads,      \* the 8 of bb_write
  MaxCalls,       \* a bound on the number of calls
  PerFile,        \* whether the kernel lets one call per file through at a time
  Supported(_, _),  \* which requests a file may get
  NewSizes,       \* the lengths a file may be truncated to
  Removable,      \* the files whose attribute a user may remove
  Copied,         \* the files whose tree a user may copy to another file
  AnyValue,       \* whether a user may store what is no tree in an attribute
  BufTails,       \* what may follow the bytes of a request in FUSE's buffer
  Faults          \* a subset of FaultKinds

FaultKinds == {"pwrite", "getxattr", "fopen", "setxattr", "crash"}

ASSUME WriteAssumption ==
  /\ NbThreads \in Nat \ {0} /\ MaxCalls \in Nat /\ PerFile \in BOOLEAN /\ AnyValue \in BOOLEAN
  /\ NewSizes \subseteq Nat /\ Removable \subseteq Paths /\ Faults \subseteq FaultKinds
  /\ Paths # {} /\ Requests # {} /\ Null \notin Writers /\ NUL \in Bytes
  /\ \A f \in OldFiles \cup Copied \cup BufTails : f \in Seq(Bytes)
  /\ \A r \in Requests : r.offset \in Nat /\ r.buf \in Seq(Bytes) \ {<<>>}

\* The number of nodes of a tree is an int: no file has more than 1 << 29 pages.
Fits(size) == PagesOf(size) <= shl[MaxShift - 1]
ASSUME FitsAssumption ==
  /\ \A f \in OldFiles \cup Copied : Fits(Len(f))
  /\ \A r \in Requests : Fits(r.offset + Len(r.buf))
  /\ \A n \in NewSizes : Fits(n)

\* Any value of an attribute that string_to_tree cannot parse: a token without a ":" makes
\* it copy from NULL, other texts fail the assertions of str_split.
NoTree == <<>>

VARIABLES
  content, attr,    \* per path: the bytes, and the tree in the attribute, NoTree or Null
  lock,             \* who holds the mutex, or Null
  pc, fpath, request,    \* per writer: where its call is, and what it was called with
  mt,               \* the value it read of the attribute, and the tree parsed from it
  result,           \* the tree it is about to store; Null while the pointer is not initialised
  calls,
  suspect           \* per path: the pages of calls that have not stored their tree

disk == <<content, attr>>
vars == <<content, attr, lock, pc, fpath, request, mt, result, calls, suspect>>

\* What an idle thread is left with; it says nothing.
AnyPath    == CHOOSE f \in Paths : TRUE
AnyRequest == CHOOSE r \in Requests : TRUE

Init ==
  /\ content \in [Paths -> OldFiles]
  /\ \E known \in SUBSET Paths :
       attr = [f \in Paths |-> IF f \in known THEN compute_merkle(content[f]) ELSE Null]
  /\ lock = Null
  /\ pc = [w \in Writers |-> "idle"]
  /\ fpath = [w \in Writers |-> AnyPath]
  /\ request = [w \in Writers |-> AnyRequest]
  /\ mt = [w \in Writers |-> Null]
  /\ result = [w \in Writers |-> Null]
  /\ calls = 0
  /\ suspect = [f \in Paths |-> {}]

Active(f) == {w \in Writers : pc[w] # "idle" /\ fpath[w] = f}

\* pwrite: the first n bytes of buf at offset, behind zero bytes if there is a hole.
Patch(f, offset, buf, n) ==
  [x \in 1 .. (IF n > 0 /\ offset + n > Len(f) THEN offset + n ELSE Len(f)) |->
     IF x - offset \in 1..n THEN buf[x - offset]
     ELSE IF x <= Len(f) THEN f[x] ELSE NUL]

Touched(r) == FirstPage(r.offset) .. LastPage(r.offset, Len(r.buf))

Goto(w, label) == pc' = [pc EXCEPT ![w] = label]

\* FUSE calls bb_write.
Start(w) ==
  /\ pc[w] = "idle" /\ calls < MaxCalls
  /\ \E f \in Paths, r \in Requests :
       /\ PerFile => Active(f) = {}
       /\ Supported(content[f], r)
       /\ fpath' = [fpath EXCEPT ![w] = f]
       /\ request' = [request EXCEPT ![w] = r]
  /\ Goto(w, "pwrite")
  /\ calls' = calls + 1
  /\ UNCHANGED <<disk, lock, mt, result, suspect>>

\* pwrite may fail, or write less; the call goes on all the same.
Pwrite(w) ==
  /\ pc[w] = "pwrite"
  /\ LET f == fpath[w]
         r == request[w]
     IN  /\ \E n \in IF "pwrite" \in Faults THEN 0..Len(r.buf) ELSE {Len(r.buf)} :
              content' = [content EXCEPT ![f] = Patch(content[f], r.offset, r.buf, n)]
         /\ suspect' = [suspect EXCEPT ![f] = @ \cup Touched(r)]
  /\ Goto(w, "getxattr")
  /\ UNCHANGED <<attr, lock, fpath, request, mt, result, calls>>

\* A file without an attribute, and one whose attribute cannot be read, get a new tree.
Getxattr(w) ==
  /\ pc[w] = "getxattr"
  /\ \E tree \in {attr[fpath[w]]} \cup (IF "getxattr" \in Faults THEN {Null} ELSE {}) :
       /\ mt' = [mt EXCEPT ![w] = tree]
       /\ Goto(w, IF tree = Null THEN "m_compute" ELSE "lock")
  /\ UNCHANGED <<disk, lock, fpath, request, result, calls, suspect>>

\* string_to_tree and the strtok it uses run under the lock.
Lock(w) ==
  /\ pc[w] = "lock" /\ lock = Null
  /\ lock' = w
  /\ Goto(w, "unlock")
  /\ UNCHANGED <<disk, fpath, request, mt, result, calls, suspect>>

\* The process ends: the calls are lost, and the file system is mounted again.
Die ==
  /\ pc' = [w \in Writers |-> "idle"]
  /\ lock' = Null
  /\ fpath' = [w \in Writers |-> AnyPath]
  /\ request' = [w \in Writers |-> AnyRequest]
  /\ mt' = [w \in Writers |-> Null]
  /\ result' = [w \in Writers |-> Null]
  /\ UNCHANGED <<disk, calls, suspect>>

\* A slip: the lock is not released.
UnlockForgotten(w) ==
  /\ pc[w] = "unlock"
  /\ \/ mt[w] = NoTree /\ Die
     \/ /\ mt[w] # NoTree
        /\ Goto(w, "quick_change")
        /\ UNCHANGED <<disk, lock, fpath, request, mt, result, calls, suspect>>

\* string_to_tree gives the hashes of a printed tree back (TreeText): nothing follows the
\* value, the 512 MB of tree_string being pages that the kernel has just cleared.  With
\* another value the process ends.
Unlock(w) ==
  /\ pc[w] = "unlock"
  /\ \/ mt[w] = NoTree /\ Die
     \/ /\ mt[w] # NoTree
        /\ lock' = Null
        /\ Goto(w, "quick_change")
        /\ UNCHANGED <<disk, fpath, request, mt, result, calls, suspect>>

Answer(w, tree) == result' = [result EXCEPT ![w] = tree]

\* A slip: the call is tried again from the start.
QuickChangeAgain(w) ==
  /\ pc[w] = "quick_change"
  /\ LET tree == quick_change(mt[w], request[w].offset, request[w].buf)
     IN  IF tree = Null
         THEN Goto(w, "getxattr") /\ UNCHANGED result
         ELSE Answer(w, tree) /\ Goto(w, "setxattr")
  /\ UNCHANGED <<disk, lock, fpath, request, mt, calls, suspect>>

\* quick_change is not told where the request ends in the buffer: its strlen goes on
\* into what an earlier request has left there.
QuickChange(w) ==
  /\ pc[w] = "quick_change"
  /\ \E tail \in BufTails :
     LET tree == quick_change(mt[w], request[w].offset, request[w].buf \o tail)
     IN  IF tree = Null
         THEN Goto(w, "pages_in_need") /\ UNCHANGED result
         ELSE Answer(w, tree) /\ Goto(w, "setxattr")
  /\ UNCHANGED <<disk, lock, fpath, request, mt, calls, suspect>>

\* fopen(fpath, "r") fails, for a file that may only be written: pages_in_need and
\* m_compute_merkle answer -1, and fclose(NULL) ends the process.
FopenFails(w) ==
  /\ "fopen" \in Faults
  /\ pc[w] \in {"pages_in_need", "m_compute"}
  /\ Die

\* pages_in_need reads the file.  A NULL among the strings ends the process, in
\* strlen; when change_and_rebuild fails there is no result.
PagesInNeed(w) ==
  /\ pc[w] = "pages_in_need"
  /\ LET f == content[fpath[w]]
         r == request[w]
         strings == ChangedPages(f, r.offset, Len(r.buf))
         tree    == UpdatePages(mt[w], r.offset, strings)
     IN  \/ /\ NeedsNewTree(mt[w], f)
            /\ Goto(w, "compute_merkle")
            /\ UNCHANGED <<disk, lock, fpath, request, mt, result, calls, suspect>>
         \/ /\ ~NeedsNewTree(mt[w], f) /\ strings = Null
            /\ Die
         \/ /\ ~NeedsNewTree(mt[w], f) /\ strings # Null
            /\ IF tree = Null
               THEN Goto(w, "free") /\ UNCHANGED result
               ELSE Answer(w, tree) /\ Goto(w, "setxattr")
            /\ UNCHANGED <<disk, lock, fpath, request, mt, calls, suspect>>

\* m_compute_merkle reads the file.  With as many leaves as threads m_build_tree hashes
\* nothing, and the tree cannot be printed (see MBuild).
MComputeMerkle(w) ==
  /\ pc[w] = "m_compute"
  /\ LET f    == content[fpath[w]]
         tree == compute_merkle(f)
     IN  \/ /\ Len(f) \div PAGE_LENGTH < NbThreads
            /\ Goto(w, "compute_merkle")
            /\ UNCHANGED <<disk, lock, fpath, request, mt, result, calls, suspect>>
         \/ /\ Len(f) \div PAGE_LENGTH >= NbThreads
            /\ tree = Null \/ TreeSize(Len(f)) = NbThreads
            /\ Die
         \/ /\ Len(f) \div PAGE_LENGTH >= NbThreads
            /\ tree # Null /\ TreeSize(Len(f)) # NbThreads
            /\ Answer(w, tree) /\ Goto(w, "setxattr")
            /\ UNCHANGED <<disk, lock, fpath, request, mt, calls, suspect>>

\* compute_merkle reads the file, again.  When it fails, its result is allocated but
\* holds no tree.
ComputeMerkle(w) ==
  /\ pc[w] = "compute_merkle"
  /\ LET tree == compute_merkle(content[fpath[w]])
     IN  IF tree = Null
         THEN Answer(w, <<>>) /\ Goto(w, "free")
         ELSE Answer(w, tree) /\ Goto(w, "setxattr")
  /\ UNCHANGED <<disk, lock, fpath, request, mt, calls, suspect>>

\* setxattr replaces the attribute; its failure is ignored.
Setxattr(w) ==
  /\ pc[w] = "setxattr"
  /\ LET f == fpath[w]
     IN  \/ /\ attr' = [attr EXCEPT ![f] = result[w]]
            /\ suspect' = [suspect EXCEPT ![f] = @ \ Touched(request[w])]
         \/ /\ "setxattr" \in Faults
            /\ UNCHANGED <<attr, suspect>>
  /\ Goto(w, "free")
  /\ UNCHANGED <<content, lock, fpath, request, mt, result, calls>>

\* free(result), and the answer.  A result that was never initialised may be freed
\* in silence or end the process.
Free(w) ==
  /\ pc[w] = "free"
  /\ \/ /\ Goto(w, "idle")
        /\ fpath' = [fpath EXCEPT ![w] = AnyPath]
        /\ request' = [request EXCEPT ![w] = AnyRequest]
        /\ mt' = [mt EXCEPT ![w] = Null]
        /\ result' = [result EXCEPT ![w] = Null]
        /\ UNCHANGED <<disk, lock, calls, suspect>>
     \/ result[w] = Null /\ Die

\* The process is killed while a call is running.
Crash == "crash" \in Faults /\ (\E w \in Writers : pc[w] # "idle") /\ Die

\* bb_truncate cuts the file, or appends zero bytes, and does no more.
Truncate(f) ==
  /\ PerFile => Active(f) = {}
  /\ \E newsize \in NewSizes \ {Len(content[f])} :
       content' = [content EXCEPT ![f] =
                     [x \in 1..newsize |-> IF x <= Len(@) THEN @[x] ELSE NUL]]
  /\ UNCHANGED <<attr, lock, pc, fpath, request, mt, result, calls, suspect>>

\* bb_ftruncate does the same through the descriptor.
Ftruncate(f) == Truncate(f)

\* bb_removexattr: the next call makes a new tree, so that nothing is wrong any more.
Removexattr(f) ==
  /\ f \in Removable /\ attr[f] # Null
  /\ PerFile => Active(f) = {}
  /\ attr' = [attr EXCEPT ![f] = Null]
  /\ suspect' = [suspect EXCEPT ![f] = {}]
  /\ UNCHANGED <<content, lock, pc, fpath, request, mt, result, calls>>

\* bb_setxattr: a user gives f the tree of another file, as a copy of all attributes
\* does, or a value that is no tree, and every leaf may be wrong.
SetxattrByUser(f) ==
  /\ PerFile => Active(f) = {}
  /\ \E value \in {compute_merkle(g) : g \in Copied} \cup (IF AnyValue THEN {NoTree} ELSE {}) :
       attr' = [attr EXCEPT ![f] = value]
  /\ suspect' = [suspect EXCEPT ![f] = 0..PagesOf(Len(content[f])) - 1]
  /\ UNCHANGED <<content, lock, pc, fpath, request, mt, result, calls>>

Step(w) ==
  \/ Pwrite(w) \/ Getxattr(w) \/ Lock(w) \/ Unlock(w) \/ QuickChange(w)
  \/ FopenFails(w) \/ PagesInNeed(w) \/ MComputeMerkle(w) \/ ComputeMerkle(w) \/ Setxattr(w) \/ Free(w)

\* No call is running, and no other one may come.
Quiet ==
  /\ \A w \in Writers : pc[w] = "idle"
  /\ UNCHANGED vars

Next ==
  \/ \E w \in Writers : Start(w) \/ Step(w)
  \/ Crash
  \/ \E f \in Paths : Truncate(f) \/ Ftruncate(f) \/ Removexattr(f) \/ SetxattrByUser(f)
  \/ Quiet

Spec == Init /\ [][Next]_vars

\* The scheduler runs every thread that can take a step: WF_vars(Step(w)), with what
\* enables Step(w) spelled out.
Ready(w) == pc[w] # "idle" /\ (pc[w] = "lock" => lock = Null)
FairSpec == Spec /\ \A w \in Writers : []<>(~Ready(w)) \/ []<><<Step(w)>>_vars

(***************************************************************************)
(* Properties.                                                             *)
(***************************************************************************)

\* The requests that bb_write can handle: within one page and without a hole, either
\* from the beginning of the page to its end or to the end of the file, or to a page
\* that is the last one of the file and remains partial.
SafeRequest(f, r) ==
  LET end  == r.offset + Len(r.buf)
      size == IF end > Len(f) THEN end ELSE Len(f)
  IN  /\ r.offset <= Len(f)
      /\ FirstPage(r.offset) = LastPage(r.offset, Len(r.buf))
      /\ IF is_full(r.offset)
         THEN Len(r.buf) = PAGE_LENGTH \/ end >= Len(f)
         ELSE ~is_full(size) /\ size \div PAGE_LENGTH = FirstPage(r.offset)

\* The pages of file f for which a tree has another leaf, or none.
Stale(hash, f) ==
  {k \in 0..PagesOf(Len(f)) - 1 :
     k >= LeafCount(hash) \/ hash[LeafCount(hash) + k] # LeafHash(PageBytes(f, k))}

Consistent(hash) ==
  \A x \in Interior(HeightOfTree(hash)) : hash[x] \in NodeHashes(hash[2*x], hash[2*x + 1])

HasTree(f) == attr[f] \notin {Null, NoTree}

\* Every variable keeps its type; in particular a tree in an attribute is complete, so
\* that string_to_tree finds its height from the number of its nodes.
TypeOK ==
  /\ \A f \in Paths : /\ \A x \in 1..Len(content[f]) : content[f][x] \in Bytes
                      /\ HasTree(f) => DOMAIN attr[f] = Nodes(HeightOfTree(attr[f]))
  /\ lock \in Writers \cup {Null}
  /\ fpath \in [Writers -> Paths] /\ request \in [Writers -> Requests]
  /\ \A w \in Writers : (lock = w) <=> (pc[w] = "unlock")
  /\ calls \in 0..MaxCalls

\* Whatever is written, by however many threads and with whatever failures, an
\* attribute is the tree of some leaves: quick_change and pages_in_need renew every
\* node above the leaves they change, a bigger tree is built over all of them.
AttributeIsMerkleTree == \A f \in Paths : HasTree(f) => Consistent(attr[f])

\* A call that was lost, or whose setxattr failed, leaves wrong leaves for the pages it
\* wrote and for no other, however the following calls change the tree.
DamageConfined ==
  \A f \in Paths : HasTree(f) => Stale(attr[f], content[f]) \subseteq suspect[f]

\* Two trees of one file, the stored one and one a call has made: compare_trees finds
\* every node where they differ, though it only looks below nodes that differ.  A parent
\* that was not hashed again would hide a page that has changed.
CompareFindsChanges ==
  \A f \in Paths, w \in Writers :
    HasTree(f) /\ result[w] # Null /\ DOMAIN attr[f] = DOMAIN result[w] =>
      compare_trees(attr[f], result[w], HeightOfTree(attr[f]))
        = {x \in DOMAIN attr[f] : attr[f][x] # result[w][x]}

\* "A filesystem that guarantees file integrity with Merkle Trees" (README): when no
\* call is running on a file, its attribute is the tree of what the file holds.
AttributeDescribesFile ==
  \A f \in Paths : Active(f) = {} /\ attr[f] # Null => Describes(attr[f], content[f])

\* Every call answers, or is lost with the process: the mutex is always released, and
\* no call is turned from one way of making its tree to another for ever.
Answered == \A w \in Writers : pc[w] # "idle" ~> pc[w] = "idle"

\* A call returns only when the attribute describes the file, and a tree is only
\* stored for what the file holds at that moment.
Integrity == INSTANCE FileIntegrity WITH busy <- {f \in Paths : Active(f) # {}}
ImplementsFileIntegrity == Integrity!Spec
=============================================================================
