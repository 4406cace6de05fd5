--------------------------- MODULE HandlersProofs ---------------------------
(***************************************************************************)
(* Proofs about Handlers, for any names, files, open files and pages, and  *)
(* without the bound on the number of writes.                              *)
(***************************************************************************)
EXTENDS Handlers, TLAPS

Trees  == [Pages -> {Blank, Data}]
Labels == {"idle", "getxattr", "quick_change", "m_compute", "setxattr"}

(***************************************************************************)
(* The types, with those of what a call keeps: it has a tree when it has   *)
(* found one in the attribute, and when it is about to store one.          *)
(***************************************************************************)
HandleType(h) ==
  /\ fd[h] = Null <=> path[h] = Null
  /\ fd[h] = Null => pc[h] = "idle"
  /\ pc[h] \in {"quick_change", "setxattr"} => tree[h] \in Trees

TypeInv ==
  /\ dir \in [AllNames -> Inodes \cup {Null}]
  /\ content \in [Inodes -> Trees]
  /\ attr \in [Inodes -> Trees \cup {Null}]
  /\ mode \in [Inodes -> SUBSET {"r", "w"}]
  /\ fd \in [Handles -> Inodes \cup {Null}]
  /\ path \in [Handles -> AllNames \cup {Null}]
  /\ pc \in [Handles -> Labels]
  /\ page \in [Handles -> Pages \cup {Null}]
  /\ tree \in [Handles -> Trees \cup {Null}]
  /\ suspect \in [Inodes -> SUBSET Pages]
  /\ \A h \in Handles : HandleType(h)

NameInv == TypeInv /\ TreeGoesToFile

\* What a running call relies on: its page is a suspect of its file, and holds what it wrote.
CallInv(h) ==
  pc[h] # "idle" => /\ page[h] \in Pages /\ page[h] \in suspect[fd[h]]
                    /\ content[fd[h]][page[h]] = Data

\* No two calls run on one file.
Alone == \A g, h \in Handles : fd[g] = fd[h] /\ pc[g] # "idle" /\ pc[h] # "idle" => g = h

\* A tree is right about the pages of a file that are not in the given set.
Right(t, i, wrong) == \A p \in Pages \ wrong : t[p] = content[i][p]

\* A stored tree is right but for the suspects, also while a call is running; the tree that
\* a call is about to store is right about the page of the call as well.
TreeInv(h) ==
  /\ pc[h] = "quick_change" => Right(tree[h], fd[h], suspect[fd[h]])
  /\ pc[h] = "setxattr" => Right(tree[h], fd[h], suspect[fd[h]] \ {page[h]})

AttrInv == \A i \in Inodes : attr[i] # Null => Right(attr[i], i, suspect[i])

DataInv == Alone /\ (\A h \in Handles : CallInv(h) /\ TreeInv(h)) /\ AttrInv

-----------------------------------------------------------------------------
(***************************************************************************)
(* Names: the types, and where the path of an open file leads.             *)
(***************************************************************************)

\* The file that the path of an open handle leads to is a file.
LEMMA OpenHandle ==
  ASSUME NameInv, NEW h \in Handles, fd[h] # Null
  PROVE  path[h] \in AllNames /\ Fpath(h) = fd[h] /\ fd[h] \in Inodes
<1>1. HandleType(h) /\ path[h] \in AllNames \cup {Null} /\ fd[h] \in Inodes \cup {Null}
  BY DEF NameInv, TypeInv
<1> QED
  BY <1>1 DEF HandleType, NameInv, TreeGoesToFile

\* A name is not Null.
LEMMA NamesAreNames == Null \notin AllNames /\ Null \notin Inodes /\ Names \subseteq AllNames /\ Hidden \subseteq AllNames
  BY HandlersAssumption DEF AllNames

\* Nothing is open at the start, and no name leads anywhere.
LEMMA NameInit == Init => NameInv
<1> SUFFICES ASSUME Init PROVE NameInv
  OBVIOUS
<1>1. TypeInv
  BY DEF Init, TypeInv, HandleType, Trees, Labels
<1>2. TreeGoesToFile
  BY DEF Init, TreeGoesToFile
<1> QED
  BY <1>1, <1>2 DEF NameInv

\* A handle keeps its type when nothing of it changes.
LEMMA HandleKept ==
  ASSUME \A h \in Handles : HandleType(h), UNCHANGED <<fd, path, calls>>
  PROVE  \A h \in Handles : HandleType(h)'
  BY DEF HandleType, calls

\* bb_mknod takes a name that no open file has.
LEMMA NameMknod ==
  ASSUME NameInv, NEW n \in Names, Mknod(n)
  PROVE  NameInv'
<1> USE NamesAreNames
<1>1. PICK i \in Inodes, m \in Modes :
        /\ dir' = [dir EXCEPT ![n] = i]
        /\ content' = [content EXCEPT ![i] = [p \in Pages |-> Blank]]
        /\ attr' = [attr EXCEPT ![i] = Null]
        /\ mode' = [mode EXCEPT ![i] = m]
        /\ suspect' = [suspect EXCEPT ![i] = {}]
  BY DEF Mknod
<1>2. UNCHANGED <<fd, path, pc, page, tree>> /\ dir[n] = Null
  BY DEF Mknod, handles, calls
<1>3. TypeInv'
  <2>1. m \in SUBSET {"r", "w"}
    BY HandlersAssumption
  <2>2. \A h \in Handles : HandleType(h)'
    BY <1>2, HandleKept DEF NameInv, TypeInv, calls
  <2>3. TypeInv
    BY DEF NameInv
  <2> QED
    BY <1>1, <1>2, <2>1, <2>2, <2>3 DEF TypeInv, Trees
<1>4. ASSUME NEW h \in Handles, fd'[h] # Null PROVE Fpath(h)' = fd'[h]
  <2>1. path[h] \in AllNames /\ dir[path[h]] = fd[h] /\ fd[h] # Null
    BY <1>2, <1>4, OpenHandle DEF Fpath
  <2> QED
    BY <1>1, <1>2, <2>1 DEF Fpath, NameInv, TypeInv
<1> QED
  BY <1>3, <1>4 DEF NameInv, TreeGoesToFile

\* What the name calls of libfuse share: handles get another name, and it leads where the
\* old one did.
LEMMA NameMoved ==
  ASSUME NameInv, UNCHANGED <<files, mode, fd, calls, suspect>>,
         dir' \in [AllNames -> Inodes \cup {Null}],
         path' \in [Handles -> AllNames \cup {Null}],
         \A h \in Handles : fd[h] = Null => path'[h] = Null,
         \A h \in Handles : fd[h] # Null => path'[h] \in AllNames /\ dir'[path'[h]] = fd[h]
  PROVE  NameInv'
<1>1. ASSUME NEW h \in Handles PROVE HandleType(h)'
  BY NamesAreNames DEF NameInv, TypeInv, HandleType, calls
<1>2. TypeInv'
  BY <1>1 DEF NameInv, TypeInv, files, calls
<1>3. TreeGoesToFile'
  BY DEF TreeGoesToFile, Fpath
<1> QED
  BY <1>2, <1>3 DEF NameInv

LEMMA NameLink ==
  ASSUME NameInv, NEW n \in Names, NEW new \in Names, Link(n, new)
  PROVE  NameInv'
<1> USE NamesAreNames
<1>1. dir' = [dir EXCEPT ![new] = dir[n]] /\ UNCHANGED <<fd, path>> /\ dir[new] = Null
  BY DEF Link, handles
<1>2. ASSUME NEW h \in Handles, fd[h] # Null PROVE path'[h] \in AllNames /\ dir'[path'[h]] = fd[h]
  BY <1>1, <1>2, OpenHandle DEF Fpath, NameInv, TypeInv
<1>3. dir' \in [AllNames -> Inodes \cup {Null}]
  BY <1>1 DEF NameInv, TypeInv
<1>4. path' \in [Handles -> AllNames \cup {Null}] /\ \A h \in Handles : fd[h] = Null => path'[h] = Null
  BY <1>1 DEF NameInv, TypeInv, HandleType
<1>5. UNCHANGED <<files, mode, fd, calls, suspect>>
  BY DEF Link, handles
<1> QED
  BY <1>2, <1>3, <1>4, <1>5, NameMoved

\* Handles of n get the name new, which no handle has had, and which leads where n did.
LEMMA NameRenamed ==
  ASSUME NameInv, NEW n \in AllNames, NEW new \in AllNames, ~IsOpen(new),
         path' = Renamed(n, new),
         UNCHANGED <<files, mode, fd, calls, suspect>>,
         dir' \in [AllNames -> Inodes \cup {Null}],
         dir'[new] = dir[n],
         \A x \in AllNames \ {n, new} : dir'[x] = dir[x]
  PROVE  NameInv'
<1> USE NamesAreNames
<1>1. path' \in [Handles -> AllNames \cup {Null}]
  BY DEF NameInv, TypeInv, Renamed
<1>2. ASSUME NEW h \in Handles, fd[h] = Null PROVE path'[h] = Null
  BY <1>2 DEF NameInv, TypeInv, HandleType, Renamed
<1>3. ASSUME NEW h \in Handles, fd[h] # Null PROVE path'[h] \in AllNames /\ dir'[path'[h]] = fd[h]
  <2>1. path[h] \in AllNames /\ dir[path[h]] = fd[h]
    BY <1>3, OpenHandle DEF Fpath
  <2>2. path[h] # new
    BY DEF IsOpen
  <2>3. path'[h] = IF path[h] = n THEN new ELSE path[h]
    BY DEF Renamed
  <2> QED
    BY <2>1, <2>2, <2>3
<1> QED
  BY <1>1, <1>2, <1>3, NameMoved

\* A name that leads nowhere is not that of an open file, and one of an open file leads
\* somewhere.
LEMMA OpenNames ==
  ASSUME NameInv, NEW n \in AllNames
  PROVE  IsOpen(n) => dir[n] # Null
<1> SUFFICES ASSUME NEW h \in Handles, path[h] = n PROVE dir[n] # Null
  BY DEF IsOpen
<1>1. fd[h] # Null
  BY NamesAreNames DEF NameInv, TypeInv, HandleType
<1> QED
  BY <1>1, OpenHandle DEF Fpath

LEMMA NameHide ==
  ASSUME NameInv, NEW n \in AllNames, NEW x \in Hidden, Hide(n, x)
  PROVE  NameInv'
<1> USE NamesAreNames
<1>1. ~IsOpen(x) /\ x # n
  BY OpenNames DEF Hide
<1>2. dir' = [dir EXCEPT ![x] = dir[n], ![n] = Null] /\ path' = Renamed(n, x)
  BY DEF Hide
<1>3. dir \in [AllNames -> Inodes \cup {Null}]
  BY DEF NameInv, TypeInv
<1>4. dir' \in [AllNames -> Inodes \cup {Null}] /\ dir'[x] = dir[n]
      /\ \A y \in AllNames \ {n, x} : dir'[y] = dir[y]
  BY <1>1, <1>2, <1>3
<1>5. UNCHANGED <<files, mode, fd, calls, suspect>>
  BY DEF Hide
<1> QED
  BY <1>1, <1>2, <1>4, <1>5, NameRenamed

LEMMA NameUnlink ==
  ASSUME NameInv, NEW n \in AllNames, Unlink(n)
  PROVE  NameInv'
<1> USE NamesAreNames
<1>1. CASE \E x \in Hidden : Hide(n, x)
  BY <1>1, NameHide
<1>2. CASE ~IsOpen(n) /\ dir' = [dir EXCEPT ![n] = Null] /\ UNCHANGED <<files, mode, handles, calls, suspect>>
  <2>1. UNCHANGED <<fd, path>>
    BY <1>2 DEF handles
  <2>2. ASSUME NEW h \in Handles, fd[h] # Null PROVE path'[h] \in AllNames /\ dir'[path'[h]] = fd[h]
    <3>1. path[h] \in AllNames /\ dir[path[h]] = fd[h] /\ path[h] # n
      BY <1>2, <2>2, OpenHandle DEF Fpath, IsOpen
    <3> QED
      BY <1>2, <2>1, <3>1 DEF NameInv, TypeInv
  <2>3. dir' \in [AllNames -> Inodes \cup {Null}]
    BY <1>2 DEF NameInv, TypeInv
  <2>4. path' \in [Handles -> AllNames \cup {Null}] /\ \A h \in Handles : fd[h] = Null => path'[h] = Null
    BY <2>1 DEF NameInv, TypeInv, HandleType
  <2> QED
    BY <1>2, <2>1, <2>2, <2>3, <2>4, NameMoved
<1> QED
  BY <1>1, <1>2 DEF Unlink

LEMMA NameRename ==
  ASSUME NameInv, NEW n \in Names, NEW new \in Names, Rename(n, new)
  PROVE  NameInv'
<1> USE NamesAreNames
<1>1. CASE \E x \in Hidden : Hide(new, x)
  BY <1>1, NameHide
<1>2. CASE ~(\E x \in Hidden : Hide(new, x))
  <2>1. /\ ~IsOpen(new) /\ n # new
        /\ dir' = IF dir[n] = dir[new] THEN dir ELSE [dir EXCEPT ![new] = dir[n], ![n] = Null]
        /\ path' = Renamed(n, new)
        /\ UNCHANGED <<files, mode, fd, calls, suspect>>
    BY <1>2 DEF Rename
  <2>2. dir \in [AllNames -> Inodes \cup {Null}]
    BY DEF NameInv, TypeInv
  <2>3. dir' \in [AllNames -> Inodes \cup {Null}] /\ dir'[new] = dir[n]
        /\ \A y \in AllNames \ {n, new} : dir'[y] = dir[y]
    BY <2>1, <2>2
  <2> QED
    BY <2>1, <2>3, NameRenamed
<1> QED
  BY <1>1, <1>2

LEMMA NameChmod ==
  ASSUME NameInv, NEW n \in Names, Chmod(n)
  PROVE  NameInv'
<1>1. /\ mode' \in [Inodes -> SUBSET {"r", "w"}]
      /\ UNCHANGED <<dir, content, attr, fd, path, pc, page, tree, suspect>>
  <2>1. PICK m \in Modes : mode' = [mode EXCEPT ![dir[n]] = m]
    BY DEF Chmod
  <2>2. m \in SUBSET {"r", "w"}
    BY HandlersAssumption
  <2> QED
    BY <2>1, <2>2 DEF Chmod, NameInv, TypeInv, files, handles, calls
<1>2. \A h \in Handles : HandleType(h)'
  BY <1>1 DEF NameInv, TypeInv, HandleType
<1> QED
  BY <1>1, <1>2 DEF NameInv, TypeInv, TreeGoesToFile, Fpath

LEMMA NameOpen ==
  ASSUME NameInv, NEW h \in Handles, NEW n \in Names, Open(h, n)
  PROVE  NameInv'
<1> USE NamesAreNames
<1>1. /\ fd' = [fd EXCEPT ![h] = dir[n]] /\ path' = [path EXCEPT ![h] = n]
      /\ UNCHANGED <<dir, content, attr, mode, pc, page, tree, suspect>>
      /\ dir[n] # Null /\ dir[n] \in Inodes
  BY DEF Open, May, files, calls, NameInv, TypeInv
<1>2. TypeInv'
  <2>1. ASSUME NEW g \in Handles PROVE HandleType(g)'
    BY <1>1 DEF NameInv, TypeInv, HandleType
  <2> QED
    BY <1>1, <2>1 DEF NameInv, TypeInv
<1>3. TreeGoesToFile'
  BY <1>1 DEF NameInv, TypeInv, TreeGoesToFile, Fpath
<1> QED
  BY <1>2, <1>3 DEF NameInv

\* The last release of a hidden file removes its name: no other handle has it.
LEMMA NameRelease ==
  ASSUME NameInv, NEW h \in Handles, Release(h)
  PROVE  NameInv'
<1> USE NamesAreNames
<1>1. /\ fd' = [fd EXCEPT ![h] = Null] /\ path' = [path EXCEPT ![h] = Null]
      /\ UNCHANGED <<content, attr, mode, pc, page, tree, suspect>>
      /\ pc[h] = "idle"
      /\ dir' = [n \in AllNames |->
                   IF n \in Hidden /\ n = path[h] /\ \A g \in Handles \ {h} : path[g] # n
                   THEN Null ELSE dir[n]]
  BY DEF Release, files, calls
<1>2. TypeInv'
  <2>1. ASSUME NEW g \in Handles PROVE HandleType(g)'
    BY <1>1 DEF NameInv, TypeInv, HandleType
  <2>2. dir' \in [AllNames -> Inodes \cup {Null}]
    BY <1>1 DEF NameInv, TypeInv
  <2>3. fd' \in [Handles -> Inodes \cup {Null}] /\ path' \in [Handles -> AllNames \cup {Null}]
    BY <1>1 DEF NameInv, TypeInv
  <2> QED
    BY <1>1, <2>1, <2>2, <2>3 DEF NameInv, TypeInv
<1>3. ASSUME NEW g \in Handles, fd'[g] # Null PROVE Fpath(g)' = fd'[g]
  <2>1. g # h /\ fd'[g] = fd[g] /\ path'[g] = path[g]
    BY <1>1, <1>3 DEF NameInv, TypeInv
  <2>2. path[g] \in AllNames /\ dir[path[g]] = fd[g]
    BY <1>3, <2>1, OpenHandle DEF Fpath
  <2> QED
    BY <1>1, <2>1, <2>2 DEF Fpath
<1> QED
  BY <1>2, <1>3 DEF NameInv, TreeGoesToFile

\* What the steps of bb_write share: names and open files stay as they are.
LEMMA NameCalls ==
  ASSUME NameInv, UNCHANGED <<dir, mode, handles>>,
         content' \in [Inodes -> Trees], attr' \in [Inodes -> Trees \cup {Null}],
         pc' \in [Handles -> Labels], page' \in [Handles -> Pages \cup {Null}],
         tree' \in [Handles -> Trees \cup {Null}], suspect' \in [Inodes -> SUBSET Pages],
         \A h \in Handles : fd[h] = Null => pc'[h] = "idle",
         \A h \in Handles : pc'[h] \in {"quick_change", "setxattr"} => tree'[h] \in Trees
  PROVE  NameInv'
<1>1. ASSUME NEW h \in Handles PROVE HandleType(h)'
  BY DEF NameInv, TypeInv, HandleType, handles
<1> QED
  BY <1>1 DEF NameInv, TypeInv, TreeGoesToFile, Fpath, handles

LEMMA NameWrite ==
  ASSUME NameInv, NEW h \in Handles, Write(h)
  PROVE  NameInv'
<1>1. PICK p \in Pages :
        /\ page' = [page EXCEPT ![h] = p]
        /\ content' = [content EXCEPT ![fd[h]][p] = Data]
        /\ suspect' = [suspect EXCEPT ![fd[h]] = @ \cup {p}]
  BY DEF Write
<1>2. pc' = [pc EXCEPT ![h] = "getxattr"] /\ fd[h] # Null /\ UNCHANGED <<dir, attr, mode, handles, tree>>
  BY DEF Write, Goto
<1>3. content' \in [Inodes -> Trees]
  <2>1. content \in [Inodes -> Trees] /\ fd[h] \in Inodes
    BY <1>2, OpenHandle DEF NameInv, TypeInv
  <2>2. [content[fd[h]] EXCEPT ![p] = Data] \in Trees
    BY <2>1 DEF Trees
  <2> QED
    BY <1>1, <2>1, <2>2
<1>4. page' \in [Handles -> Pages \cup {Null}] /\ suspect' \in [Inodes -> SUBSET Pages]
  BY <1>1 DEF NameInv, TypeInv
<1>5. \A g \in Handles : HandleType(g) /\ (pc'[g] = pc[g] \/ (g = h /\ pc'[g] = "getxattr"))
  BY <1>2 DEF NameInv, TypeInv
<1>6. pc' \in [Handles -> Labels]
  BY <1>2 DEF NameInv, TypeInv, Labels
<1>7. \A g \in Handles : fd[g] = Null => pc'[g] = "idle"
  BY <1>2, <1>5 DEF HandleType
<1>8. \A g \in Handles : pc'[g] \in {"quick_change", "setxattr"} => tree'[g] \in Trees
  BY <1>2, <1>5 DEF HandleType
<1>9. attr' \in [Inodes -> Trees \cup {Null}] /\ tree' \in [Handles -> Trees \cup {Null}]
  BY <1>2 DEF NameInv, TypeInv
<1> QED
  BY <1>2, <1>3, <1>4, <1>6, <1>7, <1>8, <1>9, NameCalls

\* A step of one call that gives it a new label and a new tree.
LEMMA NameStep ==
  ASSUME NameInv, NEW h \in Handles, NEW label \in Labels, NEW t \in Trees \cup {Null},
         fd[h] # Null, label \in {"quick_change", "setxattr"} => t \in Trees,
         pc' = [pc EXCEPT ![h] = label], tree' = [tree EXCEPT ![h] = t],
         page' \in [Handles -> Pages \cup {Null}],
         attr' \in [Inodes -> Trees \cup {Null}], suspect' \in [Inodes -> SUBSET Pages],
         UNCHANGED <<dir, content, mode, handles>>
  PROVE  NameInv'
<1>1. pc' \in [Handles -> Labels] /\ tree' \in [Handles -> Trees \cup {Null}]
  BY DEF NameInv, TypeInv
<1>2. content' \in [Inodes -> Trees]
  BY DEF NameInv, TypeInv
<1>3. ASSUME NEW g \in Handles
      PROVE  /\ fd[g] = Null => pc'[g] = "idle"
             /\ pc'[g] \in {"quick_change", "setxattr"} => tree'[g] \in Trees
  BY <1>1 DEF NameInv, TypeInv, HandleType
<1> QED
  BY <1>1, <1>2, <1>3, NameCalls

\* A call that runs has an open handle.
LEMMA CallOpen ==
  ASSUME NameInv, NEW h \in Handles, pc[h] # "idle"
  PROVE  fd[h] # Null /\ fd[h] \in Inodes /\ Fpath(h) = fd[h]
<1>1. fd[h] # Null
  BY DEF NameInv, TypeInv, HandleType
<1> QED
  BY <1>1, OpenHandle

LEMMA NameGetxattr ==
  ASSUME NameInv, NEW h \in Handles, Getxattr(h)
  PROVE  NameInv'
<1> DEFINE t == IF May("r", Fpath(h)) THEN attr[Fpath(h)] ELSE Null
           label == IF t = Null THEN "m_compute" ELSE "quick_change"
<1>1. fd[h] # Null /\ fd[h] \in Inodes /\ Fpath(h) = fd[h]
  BY CallOpen DEF Getxattr
<1>2. t \in Trees \cup {Null}
  BY <1>1 DEF NameInv, TypeInv
<1>3. tree' = [tree EXCEPT ![h] = t] /\ UNCHANGED <<dir, files, mode, handles, page, suspect>>
  BY DEF Getxattr
<1>4. tree'[h] = t
  BY <1>3 DEF NameInv, TypeInv
<1>5. pc' = [pc EXCEPT ![h] = label]
  BY <1>4 DEF Getxattr, Goto
<1>6. label \in Labels /\ (label \in {"quick_change", "setxattr"} => t \in Trees)
  BY <1>2 DEF Labels
<1>7. /\ page' \in [Handles -> Pages \cup {Null}] /\ attr' \in [Inodes -> Trees \cup {Null}]
      /\ suspect' \in [Inodes -> SUBSET Pages] /\ UNCHANGED <<dir, content, mode, handles>>
  BY <1>3 DEF NameInv, TypeInv, files
<1> HIDE DEF t, label
<1> QED
  BY <1>1, <1>2, <1>3, <1>5, <1>6, <1>7, NameStep

LEMMA NameQuickChange ==
  ASSUME NameInv, NEW h \in Handles, QuickChange(h)
  PROVE  NameInv'
<1> DEFINE t == [tree[h] EXCEPT ![page[h]] = Data]
<1>1. fd[h] # Null
  BY CallOpen DEF QuickChange
<1>2. t \in Trees
  BY DEF QuickChange, NameInv, TypeInv, HandleType, Trees
<1>3. /\ tree' = [tree EXCEPT ![h] = t] /\ pc' = [pc EXCEPT ![h] = "setxattr"]
      /\ UNCHANGED <<dir, files, mode, handles, page, suspect>>
  BY DEF QuickChange, Goto
<1>4. /\ page' \in [Handles -> Pages \cup {Null}] /\ attr' \in [Inodes -> Trees \cup {Null}]
      /\ suspect' \in [Inodes -> SUBSET Pages] /\ UNCHANGED <<dir, content, mode, handles>>
  BY <1>3 DEF NameInv, TypeInv, files
<1> HIDE DEF t
<1> QED
  BY <1>1, <1>2, <1>3, <1>4, NameStep DEF Labels

LEMMA NameMCompute ==
  ASSUME NameInv, NEW h \in Handles, MComputeMerkle(h)
  PROVE  NameInv'
<1>1. fd[h] # Null /\ fd[h] \in Inodes /\ Fpath(h) = fd[h]
  BY CallOpen DEF MComputeMerkle
<1>2. CASE Die
  <2>1. /\ UNCHANGED <<dir, content, attr, mode, suspect>>
        /\ fd' = [g \in Handles |-> Null] /\ path' = [g \in Handles |-> Null]
        /\ pc' = [g \in Handles |-> "idle"]
        /\ page' = [g \in Handles |-> Null] /\ tree' = [g \in Handles |-> Null]
    BY <1>2 DEF Die, files
  <2>2. TypeInv'
    BY <2>1 DEF NameInv, TypeInv, HandleType, Labels
  <2> QED
    BY <2>1, <2>2 DEF NameInv, TreeGoesToFile
<1>3. CASE ~Die
  <2>1. /\ tree' = [tree EXCEPT ![h] = content[Fpath(h)]] /\ pc' = [pc EXCEPT ![h] = "setxattr"]
        /\ UNCHANGED <<dir, files, mode, handles, page, suspect>>
    BY <1>3 DEF MComputeMerkle, Goto
  <2>2. content[Fpath(h)] \in Trees
    BY <1>1 DEF NameInv, TypeInv
  <2>3. /\ page' \in [Handles -> Pages \cup {Null}] /\ attr' \in [Inodes -> Trees \cup {Null}]
        /\ suspect' \in [Inodes -> SUBSET Pages] /\ UNCHANGED <<dir, content, mode, handles>>
    BY <2>1 DEF NameInv, TypeInv, files
  <2> QED
    BY <1>1, <2>1, <2>2, <2>3, NameStep DEF Labels
<1> QED
  BY <1>2, <1>3

LEMMA NameSetxattr ==
  ASSUME NameInv, NEW h \in Handles, Setxattr(h)
  PROVE  NameInv'
<1>1. fd[h] # Null /\ fd[h] \in Inodes /\ Fpath(h) = fd[h] /\ tree[h] \in Trees
  BY CallOpen DEF Setxattr, NameInv, TypeInv, HandleType
<1>2. attr' \in [Inodes -> Trees \cup {Null}] /\ suspect' \in [Inodes -> SUBSET Pages]
  BY <1>1 DEF Setxattr, NameInv, TypeInv
<1>3. /\ page' = [page EXCEPT ![h] = Null] /\ tree' = [tree EXCEPT ![h] = Null]
      /\ pc' = [pc EXCEPT ![h] = "idle"]
      /\ UNCHANGED <<dir, content, mode, handles>>
  BY DEF Setxattr, Goto
<1>4. page' \in [Handles -> Pages \cup {Null}]
  BY <1>3 DEF NameInv, TypeInv
<1> QED
  BY <1>1, <1>2, <1>3, <1>4, NameStep DEF Labels

LEMMA NameNext == NameInv /\ [Next]_vars => NameInv'
<1> SUFFICES ASSUME NameInv, [Next]_vars PROVE NameInv'
  OBVIOUS
<1>1. CASE UNCHANGED vars
  BY <1>1 DEF vars, NameInv, TypeInv, HandleType, TreeGoesToFile, Fpath
<1>2. CASE Next
  BY <1>2, NameMknod, NameChmod, NameUnlink, NameLink, NameRename, NameOpen, NameRelease,
     NameWrite, NameGetxattr, NameQuickChange, NameMCompute, NameSetxattr DEF Next
<1> QED
  BY <1>1, <1>2

\* The types, and the promise that a call runs on an open handle, which has a name.
THEOREM Types == Spec => []TypeOK
<1>1. NameInv => TypeOK
  BY DEF NameInv, TypeInv, HandleType, Trees, TypeOK
<1> QED
  BY <1>1, NameInit, NameNext, PTL DEF Spec

\* The tree goes to the file that has got the data: however names are made, moved and
\* removed while it is open, the path of a handle leads to the file of its descriptor.
THEOREM TreeGoesToItsFile == Spec => []TreeGoesToFile
<1>1. NameInv => TreeGoesToFile
  BY DEF NameInv
<1> QED
  BY <1>1, NameInit, NameNext, PTL DEF Spec

-----------------------------------------------------------------------------
(***************************************************************************)
(* Trees: when users write a file under one name at a time, what is stored *)
(* is right about all pages but the suspects of the file.                  *)
(***************************************************************************)

LEMMA DataInit == Init => DataInv
  BY DEF Init, DataInv, Alone, CallInv, TreeInv, AttrInv

\* Calls on names leave running calls, files and their suspects alone.
LEMMA DataKept ==
  ASSUME DataInv, UNCHANGED <<files, calls, suspect>>,
         \A h \in Handles : fd'[h] = fd[h] \/ pc[h] = "idle"
  PROVE  DataInv'
<1>1. \A h \in Handles : pc[h] # "idle" => fd'[h] = fd[h]
  OBVIOUS
<1>2. UNCHANGED <<content, attr, pc, page, tree, suspect>>
  BY DEF files, calls
<1>3. Alone'
  BY <1>1, <1>2 DEF DataInv, Alone
<1>4. ASSUME NEW h \in Handles PROVE CallInv(h)' /\ TreeInv(h)'
  BY <1>1, <1>2 DEF DataInv, CallInv, TreeInv, Right
<1>5. AttrInv'
  BY <1>2 DEF DataInv, AttrInv, Right
<1> QED
  BY <1>3, <1>4, <1>5 DEF DataInv

\* A new file has no handle.
LEMMA DataMknod ==
  ASSUME NameInv, DataInv, NEW n \in Names, Mknod(n)
  PROVE  DataInv'
<1>1. PICK i \in Inodes, m \in Modes :
        /\ ~Exists(i)
        /\ content' = [content EXCEPT ![i] = [p \in Pages |-> Blank]]
        /\ attr' = [attr EXCEPT ![i] = Null]
        /\ suspect' = [suspect EXCEPT ![i] = {}]
  BY DEF Mknod
<1>2. UNCHANGED <<fd, path, pc, page, tree>>
  BY DEF Mknod, handles, calls
<1>3. Alone'
  BY <1>2 DEF DataInv, Alone
<1>4. ASSUME NEW h \in Handles, pc[h] # "idle" PROVE fd[h] # i /\ fd[h] \in Inodes
  BY <1>1, <1>4, CallOpen DEF Exists
<1>5. ASSUME NEW j \in Inodes, j # i
      PROVE  content'[j] = content[j] /\ attr'[j] = attr[j] /\ suspect'[j] = suspect[j]
  BY <1>1, <1>5 DEF NameInv, TypeInv
<1>6. ASSUME NEW h \in Handles PROVE CallInv(h)' /\ TreeInv(h)'
  <2>1. CASE pc[h] = "idle"
    BY <1>2, <2>1 DEF CallInv, TreeInv
  <2>2. CASE pc[h] # "idle"
    <3>1. content'[fd[h]] = content[fd[h]] /\ suspect'[fd[h]] = suspect[fd[h]]
      BY <1>4, <1>5, <2>2
    <3> QED
      BY <1>2, <3>1 DEF DataInv, CallInv, TreeInv, Right
  <2> QED
    BY <2>1, <2>2
<1>7. ASSUME NEW j \in Inodes, attr'[j] # Null PROVE Right(attr[j], j, suspect[j])' /\ j # i
  BY <1>1, <1>5, <1>7 DEF NameInv, TypeInv, DataInv, AttrInv, Right
<1> QED
  BY <1>3, <1>6, <1>7 DEF DataInv, AttrInv

\* A write makes its page a suspect; no other call is running on the file.
LEMMA DataWrite ==
  ASSUME PerInode, NameInv, DataInv, NEW h \in Handles, Write(h)
  PROVE  DataInv'
<1> DEFINE i == fd[h]
<1>1. PICK p \in Pages :
        /\ page' = [page EXCEPT ![h] = p]
        /\ content' = [content EXCEPT ![i][p] = Data]
        /\ suspect' = [suspect EXCEPT ![i] = @ \cup {p}]
  BY DEF Write
<1>2. /\ pc' = [pc EXCEPT ![h] = "getxattr"] /\ pc[h] = "idle"
      /\ UNCHANGED <<attr, fd, tree>> /\ i \in Inodes
  BY OpenHandle DEF Write, Goto, handles
<1>3. \A g \in Handles : pc[g] # "idle" => fd[g] # i /\ g # h
  BY <1>2 DEF Write, Writing
<1>4. suspect'[i] = suspect[i] \cup {p}
      /\ \A j \in Inodes : j # i => suspect'[j] = suspect[j] /\ content'[j] = content[j]
  BY <1>1, <1>2 DEF NameInv, TypeInv
<1>5. content'[i][p] = Data /\ \A q \in Pages : q # p => content'[i][q] = content[i][q]
  BY <1>1, <1>2 DEF NameInv, TypeInv, Trees
<1>6. pc'[h] = "getxattr" /\ page'[h] = p
      /\ \A g \in Handles : g # h => pc'[g] = pc[g] /\ page'[g] = page[g]
  BY <1>1, <1>2 DEF NameInv, TypeInv
<1>7. Alone'
  BY <1>2, <1>3, <1>6 DEF DataInv, Alone
<1>8. ASSUME NEW g \in Handles PROVE CallInv(g)' /\ TreeInv(g)'
  <2>1. CASE g = h
    BY <1>2, <1>4, <1>5, <1>6, <2>1 DEF CallInv, TreeInv
  <2>2. CASE g # h /\ pc[g] = "idle"
    BY <1>6, <2>2 DEF CallInv, TreeInv
  <2>3. CASE g # h /\ pc[g] # "idle"
    <3>1. fd[g] \in Inodes /\ fd[g] # i
      BY <1>3, <2>3, CallOpen
    <3>2. content'[fd[g]] = content[fd[g]] /\ suspect'[fd[g]] = suspect[fd[g]]
      BY <1>4, <3>1
    <3> QED
      BY <1>2, <1>6, <2>3, <3>2 DEF DataInv, CallInv, TreeInv, Right
  <2> QED
    BY <2>1, <2>2, <2>3
<1>9. AttrInv'
  BY <1>2, <1>4, <1>5 DEF DataInv, AttrInv, Right
<1> QED
  BY <1>7, <1>8, <1>9 DEF DataInv

\* A step of a call that only changes its label and its tree.
LEMMA DataStep ==
  ASSUME NameInv, DataInv, NEW h \in Handles, NEW label \in Labels, NEW t,
         pc[h] # "idle",
         pc' = [pc EXCEPT ![h] = label], tree' = [tree EXCEPT ![h] = t],
         UNCHANGED <<files, fd, page, suspect>>,
         label = "quick_change" => Right(t, fd[h], suspect[fd[h]]),
         label = "setxattr" => Right(t, fd[h], suspect[fd[h]] \ {page[h]})
  PROVE  DataInv'
<1>1. UNCHANGED <<content, attr>>
  BY DEF files
<1>2. pc'[h] = label /\ tree'[h] = t
      /\ \A g \in Handles : g # h => pc'[g] = pc[g] /\ tree'[g] = tree[g]
  BY DEF NameInv, TypeInv
<1>3. Alone'
  BY <1>2 DEF DataInv, Alone
<1>4. ASSUME NEW g \in Handles PROVE CallInv(g)' /\ TreeInv(g)'
  <2>1. CallInv(g)'
    BY <1>1, <1>2 DEF DataInv, CallInv
  <2>2. TreeInv(g)'
    BY <1>1, <1>2 DEF DataInv, TreeInv, Right
  <2> QED
    BY <2>1, <2>2
<1>5. AttrInv'
  BY <1>1 DEF DataInv, AttrInv, Right
<1> QED
  BY <1>3, <1>4, <1>5 DEF DataInv

\* The attribute is that of the file the call writes.
LEMMA DataGetxattr ==
  ASSUME NameInv, DataInv, NEW h \in Handles, Getxattr(h)
  PROVE  DataInv'
<1> DEFINE t == IF May("r", Fpath(h)) THEN attr[Fpath(h)] ELSE Null
           label == IF t = Null THEN "m_compute" ELSE "quick_change"
<1>1. fd[h] \in Inodes /\ Fpath(h) = fd[h] /\ pc[h] # "idle"
  BY CallOpen DEF Getxattr
<1>2. tree' = [tree EXCEPT ![h] = t] /\ UNCHANGED <<files, fd, page, suspect>>
  BY DEF Getxattr, handles
<1>3. tree'[h] = t
  BY <1>2 DEF NameInv, TypeInv
<1>4. pc' = [pc EXCEPT ![h] = label] /\ label \in Labels
  BY <1>3 DEF Getxattr, Goto, Labels
<1>5. label = "quick_change" => Right(t, fd[h], suspect[fd[h]])
  BY <1>1 DEF DataInv, AttrInv
<1>6. label # "setxattr"
  OBVIOUS
<1> HIDE DEF t, label
<1> QED
  BY <1>1, <1>2, <1>4, <1>5, <1>6, DataStep

\* The page of the call gets its leaf; no write has come in between.
LEMMA DataQuickChange ==
  ASSUME NameInv, DataInv, NEW h \in Handles, QuickChange(h)
  PROVE  DataInv'
<1> DEFINE t == [tree[h] EXCEPT ![page[h]] = Data]
<1>1. /\ pc[h] = "quick_change" /\ tree' = [tree EXCEPT ![h] = t]
      /\ pc' = [pc EXCEPT ![h] = "setxattr"]
      /\ UNCHANGED <<files, fd, page, suspect>>
  BY DEF QuickChange, Goto, handles
<1>2. Right(t, fd[h], suspect[fd[h]] \ {page[h]})
  BY <1>1 DEF DataInv, CallInv, TreeInv, Right, NameInv, TypeInv, HandleType, Trees
<1> HIDE DEF t
<1> QED
  BY <1>1, <1>2, DataStep DEF Labels

\* m_compute_merkle reads the file of the descriptor, and nobody writes it; when the file
\* cannot be read the process ends, and nothing is running any more.
LEMMA DataMCompute ==
  ASSUME NameInv, DataInv, NEW h \in Handles, MComputeMerkle(h)
  PROVE  DataInv'
<1>1. fd[h] \in Inodes /\ Fpath(h) = fd[h] /\ pc[h] # "idle"
  BY CallOpen DEF MComputeMerkle
<1>2. CASE Die
  BY <1>2 DEF Die, files, DataInv, Alone, CallInv, TreeInv, AttrInv, Right
<1>3. CASE ~Die
  <2>1. /\ tree' = [tree EXCEPT ![h] = content[fd[h]]] /\ pc' = [pc EXCEPT ![h] = "setxattr"]
        /\ UNCHANGED <<files, fd, page, suspect>>
    BY <1>1, <1>3 DEF MComputeMerkle, Goto, handles
  <2>2. Right(content[fd[h]], fd[h], suspect[fd[h]] \ {page[h]})
    BY DEF Right
  <2> QED
    BY <1>1, <2>1, <2>2, DataStep DEF Labels
<1> QED
  BY <1>2, <1>3

\* The tree is stored, and its page is no suspect any more; or setxattr fails, and it stays
\* one.
LEMMA DataSetxattr ==
  ASSUME NameInv, DataInv, NEW h \in Handles, Setxattr(h)
  PROVE  DataInv'
<1> DEFINE i == fd[h]
<1>1. i \in Inodes /\ Fpath(h) = i /\ pc[h] = "setxattr"
  BY CallOpen DEF Setxattr
<1>2. /\ pc' = [pc EXCEPT ![h] = "idle"] /\ page' = [page EXCEPT ![h] = Null]
      /\ tree' = [tree EXCEPT ![h] = Null]
      /\ UNCHANGED <<content, fd>>
  BY DEF Setxattr, Goto, handles
<1>3. pc'[h] = "idle"
      /\ \A g \in Handles : g # h => pc'[g] = pc[g] /\ page'[g] = page[g] /\ tree'[g] = tree[g]
  BY <1>2 DEF NameInv, TypeInv
<1>4. Alone'
  BY <1>2, <1>3 DEF DataInv, Alone
<1>5. \A j \in Inodes : j # i => suspect'[j] = suspect[j] /\ attr'[j] = attr[j]
  BY <1>1 DEF Setxattr, NameInv, TypeInv
<1>6. \/ attr'[i] = attr[i] /\ suspect'[i] = suspect[i]
      \/ attr'[i] = tree[h] /\ suspect'[i] = suspect[i] \ {page[h]}
  BY <1>1 DEF Setxattr, NameInv, TypeInv
<1>7. ASSUME NEW g \in Handles PROVE CallInv(g)' /\ TreeInv(g)'
  <2>1. CASE pc'[g] = "idle"
    BY <2>1 DEF CallInv, TreeInv
  <2>2. CASE pc'[g] # "idle"
    <3>1. g # h /\ pc[g] # "idle"
      BY <1>3, <2>2
    <3>2. fd[g] \in Inodes /\ fd[g] # i
      BY <1>1, <3>1, CallOpen DEF DataInv, Alone
    <3>3. suspect'[fd[g]] = suspect[fd[g]]
      BY <1>5, <3>2
    <3> QED
      BY <1>2, <1>3, <3>1, <3>3 DEF DataInv, CallInv, TreeInv, Right
  <2> QED
    BY <2>1, <2>2
<1>8. ASSUME NEW j \in Inodes, attr'[j] # Null PROVE Right(attr[j], j, suspect[j])'
  <2>1. CASE j = i
    BY <1>1, <1>2, <1>6, <1>8, <2>1 DEF DataInv, TreeInv, AttrInv, Right
  <2>2. CASE j # i
    BY <1>2, <1>5, <1>8, <2>2 DEF DataInv, AttrInv, Right
  <2> QED
    BY <2>1, <2>2
<1> QED
  BY <1>4, <1>7, <1>8 DEF DataInv, AttrInv

\* The calls that change names, rights and open files are no writes.
LEMMA DataNames ==
  ASSUME NameInv, DataInv,
         \/ \E n \in Names : Chmod(n)
         \/ \E n \in AllNames : Unlink(n)
         \/ \E n, new \in Names : Link(n, new) \/ Rename(n, new)
         \/ \E h \in Handles, n \in Names : Open(h, n)
         \/ \E h \in Handles : Release(h)
  PROVE  DataInv'
<1>1. UNCHANGED <<files, calls, suspect>>
  BY DEF Chmod, Unlink, Link, Rename, Hide, Open, Release
<1>2. ASSUME NEW g \in Handles PROVE fd'[g] = fd[g] \/ pc[g] = "idle"
  <2>1. fd \in [Handles -> Inodes \cup {Null}] /\ HandleType(g)
    BY DEF NameInv, TypeInv
  <2>2. CASE UNCHANGED fd
    BY <2>2
  <2>3. CASE \E h \in Handles, n \in Names : Open(h, n)
    BY <2>1, <2>3 DEF Open, HandleType
  <2>4. CASE \E h \in Handles : Release(h)
    BY <2>1, <2>4 DEF Release
  <2>5. UNCHANGED fd \/ (\E h \in Handles, n \in Names : Open(h, n)) \/ (\E h \in Handles : Release(h))
    BY DEF Chmod, Unlink, Link, Rename, Hide, handles
  <2> QED
    BY <2>2, <2>3, <2>4, <2>5
<1> QED
  BY <1>1, <1>2, DataKept

LEMMA DataNext == PerInode /\ NameInv /\ DataInv /\ [Next]_vars => DataInv'
<1> SUFFICES ASSUME PerInode, NameInv, DataInv, [Next]_vars PROVE DataInv'
  OBVIOUS
<1>1. CASE UNCHANGED vars
  BY <1>1, DataKept DEF vars, files, calls
<1>2. CASE Next
  BY <1>2, DataMknod, DataNames, DataWrite, DataGetxattr, DataQuickChange, DataMCompute,
     DataSetxattr DEF Next
<1> QED
  BY <1>1, <1>2

\* When users write a file under one name at a time, its tree is right about all pages but
\* those of calls that could not store theirs, whatever happens to names, rights and open
\* files in the meantime.
THEOREM TreesFollow ==
  ASSUME PerInode
  PROVE  Spec => []TreesFollowFiles
<1>1. Init => NameInv /\ DataInv
  BY NameInit, DataInit
<1>2. NameInv /\ DataInv /\ [Next]_vars => (NameInv /\ DataInv)'
  BY PerInode, NameNext, DataNext
<1>3. DataInv => TreesFollowFiles
  BY DEF DataInv, AttrInv, Right, TreesFollowFiles
<1> QED
  BY <1>1, <1>2, <1>3, PTL DEF Spec
=============================================================================
