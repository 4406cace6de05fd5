------------------------------ MODULE Handlers ------------------------------
(***************************************************************************)
(* The handlers of bbfs.c that change names, rights and open files, run    *)
(* together with bb_write: it writes the data through the descriptor that  *)
(* bb_open has stored, and the tree to the path that FUSE gives it.        *)
(*                                                                         *)
(* The underlying file system is one directory of files.  libfuse knows a  *)
(* file by the name it has looked up: the names of one file are different  *)
(* files to it.  It renames what is removed while it is open, it removes   *)
(* it on the last release, and no name is moved while a call uses it.      *)
(*                                                                         *)
(* A write is of one page, so that quick_change is right about it (see     *)
(* BBWrite), and a tree is the contents of its pages.                      *)
(***************************************************************************)
EXTENDS Naturals, FiniteSets

CONSTANTS
  Names,
  Hidden,       \* the names .fuse_hidden...
  Inodes,
  Handles,      \* open files, as FUSE has them
  Pages,
  Blank, Data,  \* the contents of a page: none yet, and what is written
  Modes,        \* sets of rights to a file: "r", "w"
  PerInode,     \* whether users write a file under one name at a time
  MaxWrites,    \* a bound on the number of calls of bb_write
  Null

ASSUME HandlersAssumption ==
  /\ Names \cap Hidden = {} /\ Null \notin Names \cup Hidden \cup Inodes
  /\ Modes \subseteq SUBSET {"r", "w"} /\ PerInode \in BOOLEAN /\ MaxWrites \in Nat

VARIABLES
  dir,              \* the file that a name has, or Null
  content, attr,    \* per file: its pages, and the tree in its attribute or Null
  mode,             \* per file: the rights of its owner, who runs bbfs
  fd,               \* per handle: the file of the descriptor fi->fh, or Null
  path,             \* per handle: the name libfuse has for it
  pc, page, tree,   \* per handle: where its bb_write is, what page it writes, and its tree
  writes,
  suspect           \* per file: the pages of calls that have not stored their tree

files   == <<content, attr>>
handles == <<fd, path>>
calls   == <<pc, page, tree>>
vars    == <<dir, content, attr, mode, fd, path, pc, page, tree, writes, suspect>>

AllNames == Names \cup Hidden

Init ==
  /\ dir = [n \in AllNames |-> Null]
  /\ content = [i \in Inodes |-> [p \in Pages |-> Blank]]
  /\ attr = [i \in Inodes |-> Null]
  /\ mode = [i \in Inodes |-> {"r", "w"}]
  /\ fd = [h \in Handles |-> Null] /\ path = [h \in Handles |-> Null]
  /\ pc = [h \in Handles |-> "idle"]
  /\ page = [h \in Handles |-> Null] /\ tree = [h \in Handles |-> Null]
  /\ writes = 0
  /\ suspect = [i \in Inodes |-> {}]

IsOpen(n)   == \E h \in Handles : path[h] = n
InUse(n)    == \E h \in Handles : path[h] = n /\ pc[h] # "idle"
Writing(i)  == {h \in Handles : fd[h] = i /\ pc[h] # "idle"}
Exists(i)   == (\E n \in AllNames : dir[n] = i) \/ (\E h \in Handles : fd[h] = i)
Fpath(h)    == dir[path[h]]    \* the file that bb_fullpath leads to
May(right, i) == i # Null /\ right \in mode[i]

\* bb_mknod: open with O_CREAT and O_EXCL, and close.
Mknod(n) ==
  /\ dir[n] = Null
  /\ \E i \in Inodes, m \in Modes :
       /\ ~Exists(i)
       /\ dir' = [dir EXCEPT ![n] = i]
       /\ content' = [content EXCEPT ![i] = [p \in Pages |-> Blank]]
       /\ attr' = [attr EXCEPT ![i] = Null]
       /\ mode' = [mode EXCEPT ![i] = m]
       /\ suspect' = [suspect EXCEPT ![i] = {}]
  /\ UNCHANGED <<handles, calls, writes>>

\* bb_link; libfuse only reads the two names.
Link(n, new) ==
  /\ dir[n] # Null /\ dir[new] = Null
  /\ dir' = [dir EXCEPT ![new] = dir[n]]
  /\ UNCHANGED <<files, mode, handles, calls, writes, suspect>>

\* libfuse gives the handles of name n the name new.
Renamed(n, new) == [h \in Handles |-> IF path[h] = n THEN new ELSE path[h]]

\* bb_rename of n to x, for libfuse: n goes away, and is open.
Hide(n, x) ==
  /\ IsOpen(n) /\ dir[x] = Null
  /\ dir' = [dir EXCEPT ![x] = dir[n], ![n] = Null]
  /\ path' = Renamed(n, x)
  /\ UNCHANGED <<files, mode, fd, calls, writes, suspect>>

\* A slip: the file loses its name, although it may be open under that name.
UnlinkOpen(n) ==
  /\ dir[n] # Null /\ ~InUse(n)
  /\ dir' = [dir EXCEPT ![n] = Null]
  /\ UNCHANGED <<files, mode, handles, calls, writes, suspect>>

\* bb_unlink, or what libfuse does instead.  A hidden file that is left when the process
\* ends has a name like any other.
Unlink(n) ==
  /\ dir[n] # Null /\ ~InUse(n)
  /\ \/ \E x \in Hidden : Hide(n, x)
     \/ /\ ~IsOpen(n)
        /\ dir' = [dir EXCEPT ![n] = Null]
        /\ UNCHANGED <<files, mode, handles, calls, writes, suspect>>

\* A slip: the file that had the new name goes away, although it may be open.
RenameOver(n, new) ==
  /\ n # new /\ dir[n] # Null /\ ~InUse(n) /\ ~InUse(new)
  /\ dir' = IF dir[n] = dir[new] THEN dir ELSE [dir EXCEPT ![new] = dir[n], ![n] = Null]
  /\ path' = Renamed(n, new)
  /\ UNCHANGED <<files, mode, fd, calls, writes, suspect>>

\* bb_rename, once nothing is open that has the new name.  Between two names of one file
\* rename does nothing, and answers 0, so that libfuse renames what it has.
Rename(n, new) ==
  /\ n # new /\ dir[n] # Null /\ ~InUse(n) /\ ~InUse(new)
  /\ \/ \E x \in Hidden : Hide(new, x)
     \/ /\ ~IsOpen(new)
        /\ dir' = IF dir[n] = dir[new] THEN dir ELSE [dir EXCEPT ![new] = dir[n], ![n] = Null]
        /\ path' = Renamed(n, new)
        /\ UNCHANGED <<files, mode, fd, calls, writes, suspect>>

\* bb_chmod; rights are only looked at when a file is opened, and by calls with a path.
Chmod(n) ==
  /\ dir[n] # Null
  /\ \E m \in Modes : mode' = [mode EXCEPT ![dir[n]] = m]
  /\ UNCHANGED <<dir, files, handles, calls, writes, suspect>>

\* bb_open for writing.
Open(h, n) ==
  /\ fd[h] = Null /\ May("w", dir[n])
  /\ fd' = [fd EXCEPT ![h] = dir[n]] /\ path' = [path EXCEPT ![h] = n]
  /\ UNCHANGED <<dir, files, mode, calls, writes, suspect>>

\* A slip: bb_release does not close the descriptor.
ReleaseOpen(h) ==
  /\ fd[h] # Null /\ pc[h] = "idle"
  /\ path' = [path EXCEPT ![h] = Null]
  /\ dir' = [n \in AllNames |->
               IF n \in Hidden /\ n = path[h] /\ \A g \in Handles \ {h} : path[g] # n
               THEN Null ELSE dir[n]]
  /\ UNCHANGED <<files, mode, fd, calls, writes, suspect>>

\* bb_release, and after the last one of a hidden file bb_unlink.
Release(h) ==
  /\ fd[h] # Null /\ pc[h] = "idle"
  /\ fd' = [fd EXCEPT ![h] = Null] /\ path' = [path EXCEPT ![h] = Null]
  /\ dir' = [n \in AllNames |->
               IF n \in Hidden /\ n = path[h] /\ \A g \in Handles \ {h} : path[g] # n
               THEN Null ELSE dir[n]]
  /\ UNCHANGED <<files, mode, calls, writes, suspect>>

(***************************************************************************)
(* bb_write.                                                               *)
(***************************************************************************)
Goto(h, label) == pc' = [pc EXCEPT ![h] = label]

\* pwrite, through the descriptor.
Write(h) ==
  /\ fd[h] # Null /\ pc[h] = "idle" /\ ~InUse(path[h])
  /\ PerInode => Writing(fd[h]) = {}
  /\ writes < MaxWrites /\ writes' = writes + 1
  /\ \E p \in Pages :
       /\ page' = [page EXCEPT ![h] = p]
       /\ content' = [content EXCEPT ![fd[h]][p] = Data]
       /\ suspect' = [suspect EXCEPT ![fd[h]] = @ \cup {p}]
  /\ Goto(h, "getxattr")
  /\ UNCHANGED <<dir, attr, mode, handles, tree>>

\* getxattr of the path.
Getxattr(h) ==
  /\ pc[h] = "getxattr"
  /\ tree' = [tree EXCEPT ![h] = IF May("r", Fpath(h)) THEN attr[Fpath(h)] ELSE Null]
  /\ Goto(h, IF tree'[h] = Null THEN "m_compute" ELSE "quick_change")
  /\ UNCHANGED <<dir, files, mode, handles, page, writes, suspect>>

QuickChange(h) ==
  /\ pc[h] = "quick_change"
  /\ tree' = [tree EXCEPT ![h][page[h]] = Data]
  /\ Goto(h, "setxattr")
  /\ UNCHANGED <<dir, files, mode, handles, page, writes, suspect>>

\* The process ends: files stay, also hidden ones; the user mounts again.
Die ==
  /\ fd' = [h \in Handles |-> Null] /\ path' = [h \in Handles |-> Null]
  /\ pc' = [h \in Handles |-> "idle"]
  /\ page' = [h \in Handles |-> Null] /\ tree' = [h \in Handles |-> Null]
  /\ UNCHANGED <<dir, files, mode, writes, suspect>>

\* fopen of the path, and m_compute_merkle.  When fopen fails there is no result, and
\* fclose(NULL) ends the process.
MComputeMerkle(h) ==
  /\ pc[h] = "m_compute"
  /\ \/ /\ May("r", Fpath(h))
        /\ tree' = [tree EXCEPT ![h] = content[Fpath(h)]]
        /\ Goto(h, "setxattr")
        /\ UNCHANGED <<dir, files, mode, handles, page, writes, suspect>>
     \/ ~May("r", Fpath(h)) /\ Die

\* setxattr of the path, and the answer; that it fails, as for a file that has been made
\* read-only since it was opened, is not noticed.
Setxattr(h) ==
  /\ pc[h] = "setxattr"
  /\ IF May("w", Fpath(h))
     THEN /\ attr' = [attr EXCEPT ![Fpath(h)] = tree[h]]
          /\ suspect' = [suspect EXCEPT ![Fpath(h)] = @ \ {page[h]}]
     ELSE UNCHANGED <<attr, suspect>>
  /\ Goto(h, "idle")
  /\ page' = [page EXCEPT ![h] = Null] /\ tree' = [tree EXCEPT ![h] = Null]
  /\ UNCHANGED <<dir, content, mode, handles, writes>>

Next ==
  \/ \E n \in Names : Mknod(n) \/ Chmod(n)
  \/ \E n \in AllNames : Unlink(n)
  \/ \E n, new \in Names : Link(n, new) \/ Rename(n, new)
  \/ \E h \in Handles, n \in Names : Open(h, n)
  \/ \E h \in Handles :
       Release(h) \/ Write(h) \/ Getxattr(h) \/ QuickChange(h) \/ MComputeMerkle(h) \/ Setxattr(h)

Spec == Init /\ [][Next]_vars

(***************************************************************************)
(* Properties.                                                             *)
(***************************************************************************)

\* Every variable keeps its type; a call runs on an open handle, which has a name.
TypeOK ==
  /\ dir \in [AllNames -> Inodes \cup {Null}]
  /\ content \in [Inodes -> [Pages -> {Blank, Data}]]
  /\ attr \in [Inodes -> [Pages -> {Blank, Data}] \cup {Null}]
  /\ mode \in [Inodes -> SUBSET {"r", "w"}]
  /\ fd \in [Handles -> Inodes \cup {Null}] /\ path \in [Handles -> AllNames \cup {Null}]
  /\ \A h \in Handles : (fd[h] = Null <=> path[h] = Null) /\ (fd[h] = Null => pc[h] = "idle")
  /\ suspect \in [Inodes -> SUBSET Pages]

\* The path that bb_write gets for a handle leads to the file of its descriptor, through
\* renames, removals and links while it is open: the tree goes to the file that has
\* got the data.
TreeGoesToFile == \A h \in Handles : fd[h] # Null => Fpath(h) = fd[h]

\* When no call is running on a file, under any of its names, its tree is right about all
\* pages, but for those of calls that could not store their tree (the file may no
\* longer be written, or the process ended).
TreesFollowFiles ==
  \A i \in Inodes : attr[i] # Null /\ Writing(i) = {} =>
    \A p \in Pages \ suspect[i] : attr[i][p] = content[i][p]
=============================================================================
