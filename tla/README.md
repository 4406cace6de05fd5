# A TLA+ development of merkle_fs

merkle_fs is a FUSE file system (derived from BBFS) that keeps, in the extended
attribute `merkle` of every file, the text of a Merkle tree over the 64 KiB pages
of that file. This directory holds a model of it in TLA+, the TLC runs that
check the model, and proofs, checked by TLAPS, about the parallel tree builder, the write
path, the tree texts, the pass-through handlers and SHA-3.

## 1. Inventory of the system

| component | state | operations | hard behaviour |
|---|---|---|---|
| Parallel tree builder (`merkletree.c`: `m_build_tree`, `set_tree_datas`, `m_hash_nodes`, `hash_node`; `parse.c`: `m_compute_merkle`) | the array of nodes (`data`, `hash`), shared without a lock; the locals of every worker; the parsed file | cut the file into strings, set the leaves, create the workers, join, hash the top, print | interleavings of workers and main thread; order of hashing; failing `pthread_create`; the shift by `log2(..) - 1` |
| Sequential tree operations (`build_tree`, `compute_merkle`, `change_and_rebuild`, `get_bigger_tree`, `quick_change`, `pages_in_need`, `compare_trees`) | a tree owned by one call | build, change one leaf, change some leaves, enlarge, compare | page arithmetic at boundaries; which nodes are hashed again; several ways to fail |
| Tree texts (`tree_to_string`, `str_split`, `string_to_tree`) | `strtok`'s static position | print, parse | shared state under a mutex; unterminated buffers |
| Write path (`bbfs.c`: `bb_write`, `bb_truncate`, `bb_ftruncate`, `bb_setxattr`, `bb_removexattr`) | per file: bytes and attribute (on disk); a global mutex; per call: tree, `result` | read the attribute, make a new tree, store it | concurrent calls; read-modify-write without a lock; crashes; ignored results of system calls |
| Pass-through handlers (the rest of `bbfs.c`) | the descriptor or stream in `fi->fh` | one system call each | `rename`, `unlink` and `link` change what the path of a running `bb_write` leads to; `chmod` what it may do there |
| SHA-3 (`sha3.c`), third-party | its context | Init, Update, Finalize | a partial word carried from call to call; the padding at every length |
| Log (`log.c`) | the log file | append | `errno` after a message; a message from a thread that FUSE does not know |
| Tests (`test.c`, `test_fs.c`) | none | ten threads that write to files of their own | - |

How they interact: FUSE calls `bb_write` from several threads. It writes the data
with `pwrite`, reads the attribute, and then makes a new tree in one of four ways:

    no attribute          m_compute_merkle --(fewer full pages than 8)--> compute_merkle
                             \--> m_build_tree --> 8 x m_hash_nodes
    attribute             string_to_tree (under the mutex), then
      offset on a page       quick_change: the buffer is the new leaf, tree doubled if need be
      otherwise, or -1       pages_in_need: read the file again, hash the pages the write
                             touched --(more pages than leaves)--> compute_merkle

The tree is printed and stored with `setxattr`.

What makes each part correct:

- builder: no two threads are on the same node, or on a node and its parent; nothing
  is hashed before its children; the call ends; a failed build is never taken for a
  tree; the tree is that of the pages of the file;
- tree operations: after a change every node above a changed leaf is hashed again,
  and a tree that cannot hold the file is replaced;
- write path: when no call runs on a file, its attribute is the tree of its bytes;
  after a crash only the pages of lost calls may disagree; every call is answered;
- handlers: the path and the descriptor of a call lead to the same file;
- SHA-3: the digest depends on the bytes, not on how they are cut into calls.

The hazards are listed in `PROJECT.json`, each at its line.

## 2. Modules

| module | models | status |
|---|---|---|
| `Shift` | `1 << n` and `(int) log2(n)` | done, proved about in `ShiftProofs` |
| `HashTree` | nodes of a tree, `hash_node` | done |
| `Parse` | `is_full`, `compute_tree_size`, the array of strings the file is cut into | done, lemmas in `ParseProofs` |
| `TreeOfFile` | abstract: one answer, the Merkle tree of the pages | done |
| `MBuild` | `m_compute_merkle`, `m_build_tree`, `m_hash_nodes` | done, `MBuildMC`, `MBuildProofs` |
| `TreeOps` | the sequential operations | done, lemmas in `TreeOpsProofs` |
| `TreeText` | tree texts: `tree_to_string`, `str_split`, `string_to_tree`, and the mutex | done, `TreeTextMC`, `TreeTextProofs` |
| `TreeParser` | abstract: a thread reads a text and gets its nodes in one step | done |
| `FileIntegrity` | abstract: a write returns with the tree of the file stored | done |
| `BBWrite` | `bb_write`, `bb_truncate`, `bb_ftruncate`, `bb_setxattr`, `bb_removexattr` | done, `BBWriteMC`, `BBWriteProofs` |
| `Handlers` | `bb_mknod`, `bb_link`, `bb_unlink`, `bb_rename`, `bb_chmod`, `bb_open`, `bb_release`, and `bb_write` between them | done, `HandlersMC`, `HandlersProofs` |
| `Sha3` | `sha3_Init256`, `sha3_Update`, `sha3_Finalize` | done, `Sha3MC`, `Sha3Proofs` |

`MBuild` extends `Parse`, which extends `HashTree`, which extends `Shift`; `TreeOps`
extends `Parse`; `BBWrite` and `FileIntegrity` extend `TreeOps`. `TreeText` stands alone:
it opens up what is between the two steps `Lock` and `Unlock` of `BBWrite`, the parsing of the
text, and implements `TreeParser`, in which that is one step, as it is in `BBWrite`.
`Handlers` stands alone, too: it has what `BBWrite` leaves out, names and descriptors, and
leaves out what `BBWrite` has, bytes and nodes. `Sha3` opens up what `Digest` is to `HashTree`.

### From the code to the modules

*Nodes.* `hash` is `mt->nodes[i].hash`: NULL (`Unset`), memory not written yet
(`Garbage`), or a text. `Digest(s)` is the text that `sprintf("%x")` makes of the
digest of `s`; the text of a real digest has up to 64 characters and a parent only
hashes the first `HASH_CHARS` (32) of each child. In the runs a digest text has two
characters: the first tells all strings apart and is the half the parent sees. So no
two strings collide; the real texts drop leading zeros, which makes collisions a
little more likely than for SHA-3 itself, and the model does not count on that.

*Parsed file.* `Slot(f, heap, o)` is `parsed_file[o]`: page k is at
`k * PAGE_LENGTH`, the blank pages right behind the last string, and every other
offset holds NULL. `heap` is what follows the file's bytes in their buffer.

*hash_node in the builder* is two steps, as its result is visible in between:
`WorkerHash` / `RootHash` read the children and store a pointer to fresh memory,
`WorkerStore` / `RootStore` copy the text. All else between two accesses to shared
state is one step: `SetData` is an iteration of `set_tree_datas`, `CreateThread` and
`Join` one iteration of their loops, `WorkerArgs` the beginning of `m_hash_nodes`, `Advance`
the loop control of a worker, `TreeToString` printing and freeing.

*Arguments of the workers.* A worker reads `t_arg` itself, at any time after its
`pthread_create`, in the frame of `m_build_tree`. `CreateFails` is a `pthread_create` that
fails: `m_build_tree` returns at once, and a worker that it leaves behind finds in the dead
frame its own arguments, any others (`StrayArgs`, every range that begins in the array of
nodes and is no longer than it; a longer one would go over the same nodes more often, and over
numbers that are no nodes, for which `hash_node` answers -1), or such
that the process ends. `ArgumentsKept` says that no worker has read others than its own.

The process ends (`crashed`) where the code dereferences NULL: a NULL hash in
`strcat`. With one leaf per thread `1 << -1` is taken as x86 does it.

*The write path.* `content[f]` and `attr[f]` are the file and its attribute, `pc[w]`
where the call of FUSE thread `w` is, `fpath`, `request`, `mt`, `result` its locals.
`Pwrite`, `Getxattr`, `PagesInNeed`, `ComputeMerkle`, `MComputeMerkle`, `Setxattr` each
make one access to a file or its attribute and compute what follows from it;
`Lock` and `Unlock` surround the parsing; `QuickChange` touches nothing shared.
`result` is Null while the C pointer is not initialised: `Free` may then end the
process. `Die` is the end of the process at any cause: the calls are lost, the disk
stays, and the file system is mounted again. `suspect[f]` belongs to the model alone:
the pages written by calls that have not stored their tree; all pages, when a user has
set the attribute (`SetxattrByUser`): to another file's tree, or, with `AnyValue`, to something that
`string_to_tree` cannot parse (`NoTree`). The latter ends the process in the next write: a token without a colon
makes it copy from NULL, other texts fail the assertions of `str_split`. Left out are values that
no tree prints and that `string_to_tree` takes for a tree all the same; an empty value is to
`bb_write` what no value is. `Ftruncate` is `bb_ftruncate`, which goes to the descriptor
and does to the file what `Truncate` does. `FopenFails` is `fclose(NULL)`, taken as the
end of the process, for a file that can be written but not read. `BufTails` is what follows
a request in FUSE's buffer, up to a zero byte; `quick_change` takes it for data
because it looks for the end with `strlen`. A file may have its tree when the model
starts, as one that was written in an earlier run of the process has.
`MComputeMerkle` takes
the answer of the parallel builder in one step. That is justified by `MBuild`: the
tree of the pages when there are two leaves or more per thread, and the end of the
process when there is one.

A tree text is modelled as a function from nodes to hashes. What the conversion
loses is in the model (parsed leaves have no `data`, `WithData`), as is what it
recovers from the number of tokens (`HeightOfTree`). That the hashes come back, as `Unlock` has it, is
`ParsesWhatWasPrinted` of `TreeText` for a text with nothing behind it. In `bb_write` nothing is behind
it: `tree_string` is `malloc(sizeof(char *) * MAX_TREE_SIZE)`, 512 MB, and a block of that size is mapped for
each call anew, so that it consists of zero bytes. `TreeText` itself does without this assumption about the
allocator, and shows what older text behind the value would do.

*Tree texts.* In `TreeText` a text is a sequence of numbers, hashes, commas and colons, and
a step is one call of `strtok` with what its caller does with the token: `SplitText` and
`SplitToken` are `str_split` up to the first `strtok`, `NextToken` is an iteration of its loop
with the first assertion, `TextSplit` and `TokenSplit` its end with the second one, and what
`string_to_tree` does next. `saved` is the static position of `strtok`, shared by all
threads. `behind` is what the buffer of the attribute holds after the value: nothing, or the
rest of an older text (`Leftovers`). Two successive calls of one thread use
new locals, so `Return` resets them.

*Names and descriptors.* In `Handlers`, `dir` is the directory below `rootdir`, `fd[h]` the
file that `fi->fh` of open file `h` leads to, and `path[h]` the name libfuse passes with it.
`bb_write` has no `open` of its own: `Write` goes to `fd[h]`, `Getxattr`, `MComputeMerkle`
and `Setxattr` go to `Fpath(h)`. How libfuse keeps the two together is external and taken
from its documented behaviour without the option `hard_remove`: it gives open files their new
name after a rename (`Renamed`), renames a file that is removed or replaced while it is open
(`Hide`), removes that file after the last release, and does not move a name while a call uses
it (`InUse`). A file has a mode as seen by its owner, who runs bbfs: reading an attribute
needs the right to read, setting it the right to write, and the descriptor neither. A write is
of one page and a tree is the contents of the pages, as `BBWrite` has shown how trees follow
from bytes.

*SHA-3.* A byte is a set of bits, a word a set of bits and of whatever `keccakf` puts there;
`|=` is a union (the bits are not set before) and `^=` a symmetric difference. `Update` is
`sha3_Update` up to its loop, `UpdateWord` an iteration of the loop, `UpdateTail` the rest, and
`UpdateShort` the early return. `Absorbed`, `Padded` and `Sponge` are the definition of
the sponge function and not part of the model of the code.

## 3. Runs

Builder (`MBuildMC`):

| run | bounds | shows |
|---|---|---|
| `MBuild2` | 2 threads, 8 leaves, pages of 2 bytes, files of 9, 10, 15 and 16 bytes | every `pthread_create` succeeds: race freedom, order, the tree, that no hash is made twice, that it returns, refinement of `TreeOfFile` |
| `MBuildFail` | as `MBuild2`, with failing `pthread_create`, workers that are left behind and may read any arguments, zero bytes, two heap tails | the call ends all the same; when every worker has read its own arguments, a printed tree is consistent and a failed build ends the process |

The bounds: two threads with four leaves each have two worker levels, so ranges meet
both at their sides and at the hand-over to the main thread, and the top has more
than one node. The four lengths are: all pages full, a partial last page, blank
pages behind a full and behind a partial page. The eight threads of
`bb_write` are covered by the theorems, which hold for every power of two.

Write path (`BBWriteMC`):

| run | bounds | shows |
|---|---|---|
| `BBWriteSafe` | 2 threads, 2 files, 4 calls, pages of 3 bytes, trees of up to 4 leaves | with one call per file at a time and requests from `SafeRequest`, the attribute is right whenever no call runs; refinement of `FileIntegrity` |
| `BBWriteAny` | 2 threads on one file, 2 calls, pages of 2 bytes, trees of up to 4 leaves, holes, truncation, `removexattr`, a byte of an earlier request behind the buffer, attributes that hold no tree, every failure and crashes, `NbThreads` = 2, fairness | whatever happens, a tree in an attribute is the Merkle tree of some leaves, `compare_trees` of the stored tree and the next one finds every node that differs, and every call is answered or lost with the process |
| `BBWriteCrash` | 2 threads, one file, 5 calls, crashes, failing `getxattr`, `fopen` and `setxattr`, copied trees, attributes that hold no tree | only pages of lost calls may be wrong, and those of a copied tree, also after later calls have changed or enlarged the tree |

Tree texts (`TreeTextMC`), handlers (`HandlersMC`) and SHA-3 (`Sha3MC`):

| run | bounds | shows |
|---|---|---|
| `TreeText2` | 2 threads, 3 calls, trees of one and of two leaves, every leftover | each thread gets the tree it has read, but for the last node and appended nodes when older text follows; no assertion fails; refinement of `TreeParser` |
| `HandlersOneName` | 2 names, 2 hidden names, 2 files, 2 open files, 2 pages, 3 writes, modes `rw`, `r` and `w` | the path of an open file leads to the file of its descriptor, and a tree is right about all pages but those of calls that could not store theirs |
| `Sha3Chunks` | words of 3 bytes, blocks of 2 words, messages of 0 to 15 bytes, every way to cut them | indices stay in range; the context depends on the bytes only; the digest is the padded sponge function |

Two names, two files and two handles are what it takes to replace an open file by another one,
to write a file under two names, and to give a new file the inode of a removed one; three
writes leave one page wrong, repair it and change the other one. The files, names, pages and
handles are interchangeable, so they are symmetry sets (`Alike`); the runs with symmetry check
invariants only. In `Sha3Chunks` three bytes leave room for a byte
between the first and the last of a word; 15 bytes are two blocks and a partial one, so that
all positions of the padding in word and block occur, and so does an empty last block.

`SafeRequest` says for which requests the code works: inside one page and without a
hole, either from the beginning of the page up to its end or to the end of the file,
or into a last page that stays partial. Three bytes is the least page size with a
write in the middle of a page that leaves it partial. Four calls fill three pages and
double the tree twice. `PerFile` is the kernel's own order of the writes to one file;
it does not hold for mapped pages that are written back, or for two hard links,
so `BBWriteAny` drops it. In `Handlers` it holds per name, and `PerInode` is the
stronger promise that users write a file under one name at a time; `HandlersTwoNames`
drops that.

Runs that find the code and its documentation to disagree (the findings in
`PROJECT.json`); each has one property and ends in a counterexample:

| run | what happens |
|---|---|
| `MBuildOneLeaf` | as many leaves as threads: `m_build_tree` answers 0 and has hashed nothing |
| `HandlersTwoNames` | two concurrent calls on two names of a file: the tree of one is lost |
| `BBWriteOverwrite` | one byte at the beginning of a full page: the page gets the hash of that byte |
| `BBWriteMorePages` | an append into a new partial page: no tree is stored |

The same models show more of this, for which no run is kept:

- with a `pthread_create` that fails, `m_build_tree` returns without joining the workers
  it has created, although "Waits for every thread to be done" (`merkletree.c:181`):
  `WaitsForEveryThread` is violated when `CreateMayFail` is added to `MBuild2`. A worker that then reads its
  arguments too late may hash the tree that is being printed, and `m_compute_merkle` answers
  with a tree that is none: `ResultIsMerkleTree` and `FailedBuildEndsProcess` are violated in `MBuildFail`
  without `ArgumentsKept`;
- a zero byte in a file moves the walk of `set_tree_datas` off the pages
  (`MBuildFail` has such files), and bytes behind the unterminated buffer of `hash_node`
  are hashed with the children (`Tails`);
- a write over the last two pages of a full tree of four: above the leaves
  `change_and_rebuild` hashes one node too many, at the right edge the first leaf of
  the level below, which has no data, and no tree is stored (`RunLength`);
- two calls on one path lose a tree like two calls on two names do, when `PerFile` is FALSE;
- a file made read-only while it is open takes data through its descriptor, but `setxattr` of
  its path fails and `bb_write` answers success (`HandlersOneName` has this, as `suspect`); for
  a file that cannot be read `fopen` fails, and `fclose(NULL)` ends the process;
- a page that gets filled by `pages_in_need` is hashed without its last byte: `strlcpy` keeps
  room for the terminator (`ChangedPages`), which violates `AttributeDescribesFile` for two
  appends of one byte to pages of two;
- an attribute that a user has set to something that is no tree stays: every write to
  that file ends the process, and with it the calls on other files (`BBWriteAny` has this, and
  `Answered` takes the end of the process for an answer);
- `AttributeDescribesFile` is also violated when `BBWriteSafe` gets `NewSizes` (truncation
  leaves the tree), the fault `"pwrite"` (the buffer is hashed although it was not
  written), or `EarlierBytes` as `BufTails` (more than the buffer is hashed).

Every property of a passing run has a mutant: a plausible slip in the code (an
operator beside the definition it replaces, with "A slip" in its comment) under which
TLC finds the property violated.

### Fairness

`MBuild!FairSpec` and `BBWrite!FairSpec` assume weak fairness of every thread: the
scheduler runs a thread that can take a step. Nothing else is assumed: joins and the
mutex are guards. In `BBWrite` the formula is written out with `Ready`, which is what
enables `Step`, because TLC evaluates ENABLED slowly on definitions that compute
trees. The mutex needs no strong fairness here because only finitely many calls
(`MaxCalls`) compete for it. `Crash`, `FopenFails` on its own, `Truncate`, `Ftruncate`, `Removexattr`,
`SetxattrByUser` and `Start` are never forced. `Handlers` and `Sha3` have no fairness:
nothing in them waits but for libfuse, and what they promise is safety.

## 4. Proofs

Lemmas about the operators, used by all that follows:

- `ShiftProofs`: `shl` is defined on all naturals and doubles at each step, `Log2` is its
  inverse, and the facts about `\div` and `%` that the indices need. Induction is done with a
  lemma on sets, `SetInduction`, which the library's well-founded induction gives.
- `ParseProofs`: how `\div` cuts a length into pages, that `compute_tree_size` is a power of
  two and the least one, what `strlen` finds, and that a page is a string of bytes.
  One result is about the code as it is: `ArrayLengthFitsInt`. When a page is a power of two of bytes,
  the product `tree_size*PAGE_LENGTH` (`parse.c:52` and `150`) fits into an int if and only if the file
  has at most `1 << MaxShift` bytes, which is 1 GiB: the tree of a longer file has leaves for
  2 GiB or more.
- `TreeOpsProofs`: every operation that answers with a tree answers with a complete one
  whose interior nodes are hashed over their children as they are (`IsTree`). `RehashTree` is
  the heart: a `Rehash` of some nodes keeps a tree when with every node it hashes the parent.
  The rest shows that of the nodes of each operation: all of them (`compute_merkle`), the new
  ones (`get_bigger_tree`), the path from one leaf to the root (`quick_change`), or a run of nodes
  per level (`change_and_rebuild` in FILE_MODE). For the latter, the run of level l holds the
  parents of the run of the level below, whose length `RunLength` halves and then adds one to.
  Then the values of the leaves: `MerkleText` (the leaves of `compute_merkle` of a text file are
  its pages and blank pages, because the walk over the array of strings meets them at
  `Offset(f, n)`), and `ChangesLeaf` of `quick_change` and of an update of one page (that leaf is
  new, leaves that are added are blank, all others are kept).

`MBuildProofs`: for every height of the tree, all files and digests, every power of two
of threads with at least two leaves each, and no failing `pthread_create`
(assumption `Balanced`):

| theorem | states |
|---|---|
| `Invariance` | `Spec => []IInv` |
| `RaceFreedom` | `Spec => []RaceFree` |
| `JoinsEveryThread` | `Spec => []WaitsForEveryThread` |
| `BuildsMerkleTree` | `Spec => []BuiltIsMerkleTree` |
| `PrintsMerkleTree` | `Spec => []ResultIsMerkleTree` |
| `TypeCorrectness` | `Spec => []TypeOK` |

The argument. `RaceFree` is not inductive: it does not say where a worker may go next.
`IInv` ties the locals of worker t at its level a to the range
`Base(t, a) .. Base(t, a) + Span(a) - 1`, with `Base(t, a) = Span(a) * (NT + t)`. Halving
start and length gives the range of the next level (`Bases`). The ranges of two
workers never meet, not even at different levels (`Disjoint`), and together with
the top nodes they cover the tree (`Cover`). `Completed(t, x)` says which nodes a
worker at its position has finished; the invariant says that those are hashed over
their children as they are. A worker that gets to a node has completed its
children (`ChildrenInRange`); nobody else writes there (`WorkersApart`); after the joins
all ranges are complete and the main thread continues downwards from
`new_start_index`. The assumption is needed: `MBuildOneLeaf` shows
what happens with one leaf per thread, and `CreateMayFail` breaks `WaitsForEveryThread`. As long as
no `pthread_create` fails, the frame with the arguments lives until the workers have been joined, so
that every worker reads its own (`OwnArgs`).

The second part of `MBuildProofs` continues, under `Balanced` and for what the file holds:

| theorem | states | under |
|---|---|---|
| `NoNodeTwice` | `Spec => HashedOnce` | `Balanced` |
| `ChildrenAreReady` | `Spec => []ChildrenReady` | `Balanced`, `TextFiles` |
| `ImplementsTree` | `Spec => ImplementsTreeOfFile` | `Balanced`, `TextFiles`, `NullIsNoTree` |

`NoNodeTwice` needs one more invariant, `FreshInv`: whatever has a text has been finished by a
worker at its position, or by the main thread. For the other two the walk of `set_tree_datas`
has to meet the strings, and only them: `TextInv` says that it is at `Offset(file, n)` when
leaf n is next, and that the leaves before it have the pages of the file. `TextFiles` says that
no file has a zero byte and that a zero byte follows the file in its buffer; `MBuildFail`
shows what happens to others. `NullIsNoTree` says that the answer NULL is not also a tree.
`ImplementsTree` maps the step that prints the tree to the one step of `TreeOfFile` and
every other step to a stutter.

`BBWriteProofs`, for any number of writers, files and calls, pages of any length, and any
digest:

| theorem | states | under |
|---|---|---|
| `Types` | `Spec => []TypeOK` | |
| `StoredTrees` | `Spec => []AttributeIsMerkleTree` | |
| `ComparisonFindsChanges` | `Spec => [](NoCollisions => CompareFindsChanges)` | `DigestTexts` |
| `DamageStaysConfined` | `Spec => []DamageConfined` | `CarefulUse`, `NullIsNoTree` |
| `AttributesDescribe` | `Spec /\ []Buildable => []AttributeDescribesFile` | `CarefulUse`, `NullIsNoTree`, `NothingFails` |
| `ImplementsIntegrity` | `Spec /\ []Buildable => ImplementsFileIntegrity` | `CarefulUse`, `NullIsNoTree`, `NothingFails` |

*Any use.* `AttributeIsMerkleTree` is not inductive, as a call carries a tree from the attribute
through `mt` and `result` back to it. `IInv` says of every tree on that way that it is one, says
where in a call there is one, and that the mutex is held by the one call that parses. The first two
theorems have no hypothesis but the assumptions on the constants: requests are of at least one byte,
and no file gets more than `1 << 29` pages (`Fits`), as the number of nodes of a tree is an int.
`PerFile` may be FALSE, and files and requests may hold zero bytes.

`ComparisonFindsChanges` adds to this that nodes of a tree are digests (`NodeTexts`) and that a
parent whose children differ differs (`ParentDiffers`), so that `compare_trees` goes on from the root
to every node that differs (`ComparesAll`). This is false when two texts collide on the
characters that a parent hashes. `NoCollisions` therefore says of a state that they do not for the
stored tree and the one that is compared with it: texts of a node in the two trees that start with
the same `HASH_CHARS` characters are the same, and two strings that a parent may have hashed in the
two trees do not have the same digest. It is about the nodes of the two trees only, as no function
tells all strings apart by 32 characters. `DigestTexts` says that every digest has `HASH_CHARS`
characters or more, so that the halves of two children meet at a fixed place in the string that the
parent hashes. The code makes one or two characters of each of 32 bytes (`"%x"`), and `HASH_CHARS`
is 32 there.

*Careful use.* Without restrictions the other three are false (section 3 lists how). `CarefulUse`
says: one call per file at a time (`PerFile`), files and buffers without zero bytes, a zero byte
behind the buffer, no short or failing `pwrite`, no truncation, and only requests of `SafeRequest`.
`DataInv` then says that two running calls are on two files (`Alone`), and what a call knows in each
of its steps (`CallData`): it has the right to write this request to the file as it is (before
`pwrite`), the page of the request is in the file (after it), the tree it read is stale at most
where the pages are suspect, and the tree it is about to store is right for the page of the call, too.
That a request of `SafeRequest` changes one page and leaves it in the form in which `quick_change`
or `pages_in_need` hashes it is `PatchPages`; that a new leaf for this page makes the tree
right there is `StaleAfter`. Every fault but `"pwrite"`, crashes, copied trees and attributes that hold no tree are allowed.
`NullIsNoTree` says that NULL is not also a tree.

*No failures.* With `NothingFails` (of the faults at most `"getxattr"`, no copied trees, and no attribute that holds no tree),
`IntegrityInv` adds: no page of a file is suspect unless a call is between its `pwrite` and its
`setxattr`, and then only its own (`CallTree`); the leaves behind the pages are blank
(`BlankBehind`); and the page of a call is one of the tree it reads or the one behind them
(`Reaches`), which is why `pages_in_need` never fails and `quick_change` answers every call at the
beginning of a page. A tree that is stale nowhere and blank behind the pages is what
`FileIntegrity` calls the tree of the file (`DescribesFile`). `Buildable` excludes the states in
which a file has come to the size for which `m_build_tree` hashes nothing (as many leaves as
threads, the finding of `MBuildOneLeaf`): a call that has to build the whole tree of such a
file ends the process, and the calls on other files are lost with it. It is a condition on the
behaviour, not on the constants; in `BBWriteSafe` it holds in every state, as no file has eight full
pages. For the refinement, `Start`, `Pwrite`, `Setxattr`, `Free` and `Removexattr` map to `Call`,
`Store`, `Publish`, `Return` and `Remove`, and every other step is a stutter (`Works`).

TLC has checked `IInv`, `DataInv` and `IntegrityInv` as invariants on the constants of the runs before
they were proved.

`HandlersProofs`, for any number of names, files, handles and pages:

| theorem | states | under |
|---|---|---|
| `Types` | `Spec => []TypeOK` | |
| `TreeGoesToItsFile` | `Spec => []TreeGoesToFile` | |
| `TreesFollow` | `Spec => []TreesFollowFiles` | `PerInode` |

`TreeGoesToFile` is inductive with the types, as `Rename` and `Unlink` take the paths of open
handles along. For `TreesFollowFiles`, `DataInv` says that no two calls are on one file
(`Alone`), that the page of a running call is a suspect and has been written, and that the tree
of a call is right about all other pages, and about its own once it is going to be stored.
`PerInode` is needed (`HandlersTwoNames`).

`Sha3Proofs`, for any sizes of word, block and capacity, messages of any length, any cuts, and
any permutation of states (`Permutes`, the only thing that is said of `keccakf`):

| theorem | states |
|---|---|
| `Indices` | `Spec => []IndicesInRange` |
| `AnyCalls` | `Spec => []CallsDoNotMatter` |
| `Digest` | `Spec => []DigestIsSponge` |

`IInv` says that the position of the message determines `byteIndex`, `wordIndex`, the bits in
`saved` and the state, also between the words of one call, where `byteIndex` is 0. The steps
then are identities about `\div` and `%`: of one more byte or word, and of the end of a block.
`Finalize` adds the padding in `saved` and in the last word; `FinalizeSponge` shows word for word
that this is the padded message, whether or not the two are the same word or the last block is
otherwise empty.

`TreeTextProofs`, for any threads, trees of any number of nodes, any number of calls, and any older text
behind the value:

| theorem | states |
|---|---|
| `Invariance` | `Spec => []IInv` |
| `NoAssertionFails` | `Spec => []AssertionsHold` |
| `ParsesTheAttribute` | `Spec => []ParsesWhatWasPrinted` |
| `ImplementsParser` | `Spec => ImplementsTreeParser` |

There is no hypothesis but `TextAssumption`, on the constants: trees are not empty, no number or hash
is a delimiter, and NULL is neither a thread nor a text. The argument. `strtok` skips empty fields and `str_split`
does not, so the two agree on the number of tokens only if a delimiter is always followed by
something else. That is what `Tidy` says; printed texts are tidy (`PrintedTidy`), so is the rest of
one, also up to its first comma (`RestTidy`, `CutTidy`, `LeftoversTidy`), and so is a text followed by such
a rest (`ConcatTidy`). In such
a text the k-th token is what has k - 1 delimiters before it (`IsToken`). `Splitting` says of a thread
in the loop of `str_split` that it has stored the tokens up to `token` and that `saved` is behind
it; as only the holder of the mutex is there (`Mutex`), nobody else moves `saved`. With
`PrintedCommas` and `PrintedToken`, which say where in a printed text the commas are, the tokens are
the nodes of the tree. For the refinement, `Getxattr`, `Unlock` and `Return` map to `Read`, `Parse`
and `Return` of `TreeParser`, and every other step is a stutter; the nodes are the fields of the
text by `FieldIs` and `NodesAre`. TLC has checked `IInv` on the constants of `TreeText2` before it was proved.

Only model-checked is all liveness (`Returns`, `Ends`, `FailedBuildEndsProcess`, `Answered`): fairness
and ENABLED are beyond the prover. Every invariant, action property and refinement of the passing runs
is a theorem, under the hypotheses the tables give.

## 5. What could follow

1. Lengths beyond an `int`: `file_size` and the offset of a write as numbers that wrap, and which leaf
   such a write selects (`ArrayLengthFitsInt` is the first step: it says where that begins).
2. `errno` as state of the handlers and of `log.c`, for what a failed call answers.
3. Directories and symbolic links in `Handlers`.

## 6. Not modelled, and why

- `log.c` and every call of it. Two things of it do reach the program: `log_syscall` takes
  `errno` again after the message has been written, so the code a handler answers may be that of
  the log file; and `log_msg` in a worker thread (`merkletree.c:209`) would look up the FUSE
  context of a thread FUSE does not know. That line is not reached for a power
  of two of threads (`ChildrenReady`); in `MBuildFail`, where it is, the message is no step.
- The permutation of SHA-3 (`keccakf`): a parameter of `Sha3`. The whole digest is a
  parameter (`Digest`) of the modules on trees.
- Directories and their listing. One remark: `bb_readdir` ignores the offset it is given, so
  when a user rewinds an open directory the stream is at its end, and a successful
  `readdir` that returns NULL is answered with whatever `errno` holds (`bbfs.c:642`).
- Symbolic links, special files, owners and times: nothing on the write path reads them. One
  remark: the comment at `bbfs.c:499` says that the attribute handlers use the functions that do
  not follow symbolic links; they do follow them (`bbfs.c:515`, `528`, `569`), so a tree that is set on a
  link goes to the file it leads to.
- Reading (`bb_read`) and the handlers that only ask (`getattr`, `access`, `statfs`, `getxattr`,
  ...): they change nothing, and no code compares a file with its tree when it is read.
- Exhausted memory: no result of `malloc` is checked anywhere.
- Freed memory: `free_merkle` and the other calls of `free` end the use of what they
  free, apart from `free(result)`, which is modelled.
- Memory behind a heap buffer is zero in `BBWrite` and arbitrary in `MBuild` (`Tails`). For the 512 MB of
  `tree_string` this is so (section 2), for the smaller buffers it is an assumption.
- Lengths and offsets of 2 GB and more, which the code cuts to an `int`. The product that the array of
  strings needs overflows earlier, for files over 1 GiB (`ArrayLengthFitsInt`).
- Tests; build files.
