------------------------------- MODULE MBuild -------------------------------
(***************************************************************************)
(* m_compute_merkle, m_build_tree and m_hash_nodes: the main thread cuts   *)
(* the file into strings, sets the leaves, creates nb_of_threads workers   *)
(* that hash disjoint ranges of the tree level by level, joins them,       *)
(* hashes the top of the tree and prints the tree.                         *)
(*                                                                         *)
(* hash_node is two steps, because its result is visible in between: it    *)
(* reads its inputs and stores a pointer to fresh memory (state Garbage),  *)
(* and it copies the text into that memory.                                *)
(***************************************************************************)
EXTENDS Parse

CONSTANTS
  tree_height,
  nb_of_threads,
  Files,           \* the files the tree may be computed for
  CreateMayFail    \* whether pthread_create may fail

leaf_start_index == shl[tree_height - 1]
nb_nodes         == shl[tree_height]

\* There are not more threads than leaves: m_compute_merkle calls compute_merkle
\* when the file has less full pages than that.
ASSUME SizeAssumption ==
  /\ tree_height \in 1..MaxShift
  /\ nb_of_threads \in 1..leaf_start_index

\* The number of pages is an int.
ASSUME FilesAssumption ==
  \A f \in Files : /\ f \in Seq(Bytes)
                   /\ PagesOf(Len(f)) <= shl[MaxShift] /\ HeightOf(Len(f)) = tree_height
                   /\ Len(f) >= nb_of_threads * PAGE_LENGTH

Threads == 0 .. nb_of_threads - 1

nb_leaves_per_thread == leaf_start_index \div nb_of_threads

\* L / (1 << s), s = log2(nb_leaves_per_thread) - 1.  For s = -1 the x86 shift
\* takes the count modulo 32, and L divided by INT_MIN is 0.
new_start_index ==
  IF nb_leaves_per_thread = 1 THEN 0
  ELSE leaf_start_index \div shl[Log2(nb_leaves_per_thread) - 1]

\* threaded_arg of thread t; only the last one takes the remainder.
ArgStart(t) == leaf_start_index + t * nb_leaves_per_thread
ArgLeavesTooMany(t) == nb_leaves_per_thread + 1    \* a slip: one leaf too many
ArgLeaves(t) ==
  nb_leaves_per_thread + (IF t = nb_of_threads - 1 THEN leaf_start_index % nb_of_threads ELSE 0)
OwnArgs(t) == [start_index |-> ArgStart(t), nb_leaves |-> ArgLeaves(t)]

\* What may be found where t_arg was, bounded to the array of nodes: a range without
\* leaves does what one with a single leaf does (no level), a longer one only goes over
\* the same nodes more often, and over numbers for which hash_node answers -1.
StrayArgs == [start_index : 0 .. nb_nodes - 1, nb_leaves : 1 .. nb_nodes]

VARIABLES
  file, heap,            \* the file, and what follows it in memory
  data, hash,            \* mt->nodes
  pc,                    \* where the main thread is
  i,                     \* its loop variable
  total_size,            \* its position in the parsed file
  ret,                   \* what m_build_tree returned
  result,                \* the printed tree
  t_arg,                 \* what the workers have read of their arguments
  wpc, level, start, nb_leaves, j,    \* the workers' locals
  text                   \* the hash_string of a call of hash_node, per thread

main    == <<file, heap, ret, result>>
tree    == <<data, hash>>
workers == <<t_arg, wpc, level, start, nb_leaves, j>>
vars    == <<file, heap, data, hash, pc, i, total_size, ret, result,
             t_arg, wpc, level, start, nb_leaves, j, text>>

\* The main thread, as an index of text.
Main == nb_of_threads

Init ==
  /\ file \in Files /\ heap \in Tails
  /\ data = [x \in Leaves(tree_height) |-> Null]
  /\ hash = [x \in Nodes(tree_height) |-> Unset]
  /\ pc = "set" /\ i = leaf_start_index /\ total_size = 0
  /\ ret = "none" /\ result = Null
  /\ t_arg = [t \in Threads |-> [start_index |-> 0, nb_leaves |-> 0]]
  /\ wpc = [t \in Threads |-> "none"]
  /\ level = [t \in Threads |-> 0]
  /\ start = [t \in Threads |-> 0]
  /\ nb_leaves = [t \in Threads |-> 0]
  /\ j = [t \in Threads |-> 0]
  /\ text = [t \in Threads \cup {Main} |-> Unset]

(***************************************************************************)
(* The main thread.                                                        *)
(***************************************************************************)

\* m_build_tree returns r; m_compute_merkle only logs a failure and prints the tree.
Return(r) == pc' = "print" /\ ret' = r

\* A slip: the walk over the parsed file in steps of a page.
SetDataByPages ==
  /\ pc = "set" /\ i < nb_nodes
  /\ LET s == Slot(file, heap, total_size)
     IN  IF s = Null
         THEN Return("failed") /\ UNCHANGED <<data, hash, i, total_size>>
         ELSE /\ data' = [data EXCEPT ![i] = s]
              /\ hash' = [hash EXCEPT ![i] = Unset]
              /\ total_size' = total_size + PAGE_LENGTH
              /\ i' = i + 1
              /\ UNCHANGED <<pc, ret>>
  /\ UNCHANGED <<file, heap, result, workers, text>>

\* One iteration of set_tree_datas.
SetData ==
  /\ pc = "set" /\ i < nb_nodes
  /\ LET s == Slot(file, heap, total_size)
     IN  IF s = Null
         THEN Return("failed") /\ UNCHANGED <<data, hash, i, total_size>>
         ELSE /\ data' = [data EXCEPT ![i] = s]
              /\ hash' = [hash EXCEPT ![i] = Unset]
              /\ total_size' = total_size + Len(s)
              /\ i' = i + 1
              /\ UNCHANGED <<pc, ret>>
  /\ UNCHANGED <<file, heap, result, workers, text>>

SetDone ==
  /\ pc = "set" /\ i = nb_nodes
  /\ pc' = "create" /\ i' = 0
  /\ UNCHANGED <<main, tree, total_size, workers, text>>

\* pthread_create of thread i succeeds.
CreateThread ==
  /\ pc = "create" /\ i < nb_of_threads
  /\ wpc' = [wpc EXCEPT ![i] = "args"]
  /\ i' = i + 1
  /\ UNCHANGED <<main, tree, pc, total_size, t_arg, level, start, nb_leaves, j, text>>

\* m_build_tree returns without joining the threads it has created.
CreateFails ==
  /\ CreateMayFail
  /\ pc = "create" /\ i < nb_of_threads
  /\ Return("failed")
  /\ UNCHANGED <<file, heap, result, tree, i, total_size, workers, text>>

CreateDone ==
  /\ pc = "create" /\ i = nb_of_threads
  /\ pc' = "join" /\ i' = 0
  /\ UNCHANGED <<main, tree, total_size, workers, text>>

\* A slip: the main thread does not wait for the last worker.
JoinAllButLast ==
  /\ pc = "join" /\ i < nb_of_threads
  /\ i + 1 < nb_of_threads => wpc[i] = "done"
  /\ IF i + 1 < nb_of_threads
     THEN i' = i + 1 /\ UNCHANGED pc
     ELSE i' = new_start_index /\ pc' = "root"
  /\ UNCHANGED <<main, tree, total_size, workers, text>>

\* pthread_join of thread i, and after the last one the loop over the top nodes.
Join ==
  /\ pc = "join" /\ i < nb_of_threads
  /\ wpc[i] = "done"
  /\ IF i + 1 < nb_of_threads
     THEN i' = i + 1 /\ UNCHANGED pc
     ELSE i' = new_start_index /\ pc' = "root"
  /\ UNCHANGED <<main, tree, total_size, workers, text>>

\* mt->nodes[i].hash = NULL, and the first half of hash_node(mt, i).
RootHash ==
  /\ pc = "root" /\ i > 0
  /\ LET cleared == [hash EXCEPT ![i] = Unset]
         results == hash_node(cleared, data, tree_height, i)
     IN  \/ \E s \in results :
              /\ text' = [text EXCEPT ![Main] = s]
              /\ hash' = [hash EXCEPT ![i] = Garbage]
              /\ pc' = "store"
              /\ UNCHANGED ret
         \/ /\ results = {}
            /\ hash' = cleared
            /\ Return("failed")
            /\ UNCHANGED text
  /\ UNCHANGED <<file, heap, result, data, i, total_size, workers>>

RootStore ==
  /\ pc = "store"
  /\ hash' = [hash EXCEPT ![i] = text[Main]]
  /\ pc' = "root" /\ i' = i - 1
  /\ UNCHANGED <<main, data, total_size, workers, text>>

RootDone ==
  /\ pc = "root" /\ i = 0
  /\ Return("built")
  /\ UNCHANGED <<file, heap, result, tree, i, total_size, workers, text>>

\* A slip: a tree_to_string that prints a NULL hash as nothing.
TreeToStringBlank ==
  /\ pc = "print"
  /\ pc' = "returned" /\ result' = hash
  /\ UNCHANGED <<file, heap, ret, tree, i, total_size, workers, text>>

\* tree_to_string and free_merkle.  strcat of a NULL hash ends the process; node 1
\* comes first, so a tree without a root is never printed.
TreeToString ==
  /\ pc = "print"
  /\ IF \E x \in Nodes(tree_height) : hash[x] = Unset
     THEN pc' = "crashed" /\ UNCHANGED result
     ELSE pc' = "returned" /\ result' = hash
  /\ UNCHANGED <<file, heap, ret, tree, i, total_size, workers, text>>

(***************************************************************************)
(* A worker, m_hash_nodes.  A crash of the process ends it too.            *)
(***************************************************************************)

\* The beginning of m_hash_nodes with the arguments a: the first call of
\* hash_node, or the return when there is no level to hash.
Begin(t, a) ==
  /\ t_arg' = [t_arg EXCEPT ![t] = a]
  /\ wpc' = [wpc EXCEPT ![t] = IF Log2(a.nb_leaves) = 0 THEN "done" ELSE "hash"]
  /\ start' = [start EXCEPT ![t] = a.start_index]
  /\ nb_leaves' = [nb_leaves EXCEPT ![t] = a.nb_leaves]
  /\ j' = [j EXCEPT ![t] = a.start_index]
  /\ UNCHANGED level

\* A worker reads its arguments in m_build_tree's frame.  When m_build_tree has
\* returned early, the frame is dead and may hold anything: another range, or a
\* range or an mt that ends the process.
WorkerArgs(t) ==
  /\ pc # "crashed" /\ wpc[t] = "args"
  /\ \/ Begin(t, OwnArgs(t)) /\ UNCHANGED pc
     \/ ret = "failed" /\ (\E a \in StrayArgs : Begin(t, a)) /\ UNCHANGED pc
     \/ ret = "failed" /\ pc' = "crashed" /\ UNCHANGED workers
  /\ UNCHANGED <<main, tree, i, total_size, text>>

\* A slip: the level is not counted.
AdvanceForever(t) ==
  IF j[t] + 1 < start[t] + nb_leaves[t]
  THEN /\ j' = [j EXCEPT ![t] = j[t] + 1]
       /\ wpc' = [wpc EXCEPT ![t] = "hash"]
       /\ UNCHANGED <<t_arg, level, start, nb_leaves>>
  ELSE /\ start' = [start EXCEPT ![t] = start[t] \div 2]
       /\ nb_leaves' = [nb_leaves EXCEPT ![t] = nb_leaves[t] \div 2]
       /\ j' = [j EXCEPT ![t] = start[t] \div 2]
       /\ wpc' = [wpc EXCEPT ![t] = "hash"]
       /\ UNCHANGED <<t_arg, level>>

\* The loop control behind a call of hash_node on j[t].
Advance(t) ==
  IF j[t] + 1 < start[t] + nb_leaves[t]
  THEN /\ j' = [j EXCEPT ![t] = j[t] + 1]
       /\ wpc' = [wpc EXCEPT ![t] = "hash"]
       /\ UNCHANGED <<t_arg, level, start, nb_leaves>>
  ELSE /\ UNCHANGED t_arg
       /\ level' = [level EXCEPT ![t] = level[t] + 1]
       /\ start' = [start EXCEPT ![t] = start[t] \div 2]
       /\ nb_leaves' = [nb_leaves EXCEPT ![t] = nb_leaves[t] \div 2]
       /\ j' = [j EXCEPT ![t] = start[t] \div 2]
       /\ wpc' = [wpc EXCEPT ![t] = IF level[t] + 1 = Log2(t_arg[t].nb_leaves) THEN "done" ELSE "hash"]

\* The first half of hash_node(mt, j).
WorkerHash(t) ==
  /\ pc # "crashed" /\ wpc[t] = "hash"
  /\ \E s \in hash_node(hash, data, tree_height, j[t]) :
       /\ text' = [text EXCEPT ![t] = s]
       /\ hash' = [hash EXCEPT ![j[t]] = Garbage]
  /\ wpc' = [wpc EXCEPT ![t] = "store"]
  /\ UNCHANGED <<main, data, pc, i, total_size, t_arg, level, start, nb_leaves, j>>

\* hash_node returns -1, which the worker only logs.
WorkerSkip(t) ==
  /\ pc # "crashed" /\ wpc[t] = "hash"
  /\ hash_node(hash, data, tree_height, j[t]) = {}
  /\ Advance(t)
  /\ UNCHANGED <<main, tree, pc, i, total_size, text>>

WorkerStore(t) ==
  /\ pc # "crashed" /\ wpc[t] = "store"
  /\ hash' = [hash EXCEPT ![j[t]] = text[t]]
  /\ Advance(t)
  /\ UNCHANGED <<main, data, pc, i, total_size, text>>

MainStep ==
  \/ SetData \/ SetDone \/ CreateThread \/ CreateFails \/ CreateDone \/ Join
  \/ RootHash \/ RootStore \/ RootDone \/ TreeToString

Worker(t) == WorkerArgs(t) \/ WorkerHash(t) \/ WorkerSkip(t) \/ WorkerStore(t)

\* The call is over, or the process is.
Terminated ==
  /\ pc = "crashed" \/ (pc = "returned" /\ \A t \in Threads : wpc[t] \in {"none", "done"})
  /\ UNCHANGED vars

Next == MainStep \/ (\E t \in Threads : Worker(t)) \/ Terminated

Spec == Init /\ [][Next]_vars

\* The scheduler runs every thread that can take a step.
Fairness == WF_vars(MainStep) /\ \A t \in Threads : WF_vars(Worker(t))
FairSpec == Spec /\ Fairness

(***************************************************************************)
(* Properties.                                                             *)
(***************************************************************************)

\* Every started worker has read the arguments that m_build_tree left for it.
ArgumentsKept == \A t \in Threads : wpc[t] = "none" \/ t_arg[t] = OwnArgs(t)

\* Every variable keeps its type; in particular the loop of a worker that has got
\* its own range never leaves the array of nodes (m_hash_nodes).
TypeOK ==
  /\ file \in Files /\ heap \in Tails
  /\ data = [x \in Leaves(tree_height) |-> data[x]]
  /\ hash = [x \in Nodes(tree_height) |-> hash[x]]
  /\ \A x \in Nodes(tree_height) : hash[x].state \in {"null", "garbage", "text"}
  /\ pc \in {"set", "create", "join", "root", "store", "print", "returned", "crashed"}
  /\ i \in 0..nb_nodes /\ total_size \in Nat
  /\ ret \in {"none", "built", "failed"}
  /\ t_arg \in [Threads -> [start_index : Nat, nb_leaves : Nat]]
  /\ wpc \in [Threads -> {"none", "args", "hash", "store", "done"}]
  /\ level \in [Threads -> Nat] /\ start \in [Threads -> Nat]
  /\ nb_leaves \in [Threads -> Nat] /\ j \in [Threads -> Nat]
  /\ \A t \in Threads : t_arg[t] = OwnArgs(t) => j[t] \in 0 .. nb_nodes - 1
  /\ text = [t \in Threads \cup {Main} |-> text[t]]

\* The nodes that a thread is writing, or reading, without a lock.
InHash(t)  == wpc[t] \in {"hash", "store"}
Writes(t)  == IF InHash(t) THEN {j[t]} ELSE {}
Reads(t)   == IF InHash(t) THEN {2 * j[t], 2 * j[t] + 1} ELSE {}
MainWrites == IF pc \in {"root", "store"} THEN {i}
              ELSE IF pc = "print" THEN Nodes(tree_height) ELSE {}
MainReads  == IF pc \in {"root", "store"} THEN {2 * i, 2 * i + 1} ELSE {}

\* No two threads are ever inside hash_node with one writing a node that the
\* other reads or writes, and none is while the main thread hashes the top, prints
\* the tree or frees it: the ranges that m_build_tree gives to the workers never
\* meet at any level, and the joins order them before the main thread.
RaceFree ==
  \A t \in Threads :
    /\ \A u \in Threads \ {t} : Writes(t) \cap (Writes(u) \cup Reads(u)) = {}
    /\ Writes(t) \cap (MainWrites \cup MainReads) = {}
    /\ Reads(t) \cap MainWrites = {}

\* "Waits for every thread to be done" (merkletree.c:181): once m_build_tree is
\* past its joins, or has returned, every worker that was started has ended.
WaitsForEveryThread ==
  pc \in {"root", "store", "print", "returned"} =>
    \A t \in Threads : wpc[t] \in {"none", "done"}

\* hash_node never answers -1: whenever a thread gets to a node, the children of
\* that node have been hashed by it or by a thread that has been joined.
ChildrenReady ==
  /\ \A t \in Threads : wpc[t] = "hash" => hash_node(hash, data, tree_height, j[t]) # {}
  /\ ret # "failed"

\* The tree that m_compute_merkle prints is consistent: every leaf is the hash of
\* its data, every other node that of its children as they are printed.  Nothing is
\* said of a tree that a worker has touched whose arguments were gone.
ResultIsMerkleTree ==
  result # Null /\ ArgumentsKept => IsMerkleTree(result, data, tree_height)

\* "Same as build_tree" (README): when m_build_tree answers 0, every node of the tree
\* has been hashed, over children that have not changed since.
BuiltIsMerkleTree ==
  ret = "built" /\ pc = "print" => IsMerkleTree(hash, data, tree_height)

\* A node that has its hash keeps it; only the first node of the loop over the top
\* has been hashed before (merkletree.c:158, :187).
HashedOnce ==
  [][\A x \in Nodes(tree_height) \ {new_start_index} :
       HasText(hash[x]) => hash'[x] = hash[x]]_vars

\* m_build_tree ends: no join waits for ever, and the tree is printed.
Returns == <>(pc = "returned")

\* The call ends, in a tree or in the end of the process.
Ends == <>(pc \in {"returned", "crashed"})

\* m_compute_merkle ignores a failure of m_build_tree (parse.c:185) and prints what
\* there is: a failed build gives no tree, it ends the process, unless a worker that
\* it left behind has read its arguments after they were gone (merkletree.c:199).
FailedBuildEndsProcess == (ret = "failed" /\ ArgumentsKept) ~> (pc = "crashed")

\* "Same as build_tree, but multithreaded" (README): the tree that is printed is
\* the Merkle tree of the pages of the file, given in one step.
TreeOf == INSTANCE TreeOfFile WITH answer <- result
ImplementsTreeOfFile == TreeOf!Spec
=============================================================================
