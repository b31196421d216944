----------------------------- MODULE FilesProofs -----------------------------
(***************************************************************************)
(* Proofs about names, inodes and open files, for any number of processes, *)
(* inodes, open files and names, and paths of any length: counts are exact *)
(* and the directories stay a tree whatever system calls do and fail to do.*)
(* A directory is not removed while it is a current one (finding 3).       *)
(***************************************************************************)
EXTENDS Files, FileDataProofs

--------------------------------------------------------------------------------
(* The invariant.                                                            *)
NodeType == [type : {"free", "file", "dir"}, nlink : Int, ents : [Elem -> Inum \cup {0}]]
Nodes == [Inum -> NodeType]

\* The links an inode should have.
Links(node, i) ==
  Cardinality(Names(node, i)) + Cardinality(Children(node, i)) + (IF i = Root THEN 1 ELSE 0)

\* A name leads to it.
Linked(node, i) == node[i].type # "free" /\ node[i].nlink > 0
LinkedDir(node, i) == node[i].type = "dir" /\ node[i].nlink > 0

\* The inodes are a tree, with what no name leads to beside it.
Blank(node) ==
  \A i \in Inum : /\ node[i].type = "free" => node[i] = FreeNode
                  /\ node[i].type # "dir" => node[i].ents = NoEntry
                  /\ node[i].nlink = 0 => \A e \in Name : node[i].ents[e] = 0
Dotted(node) ==
  \A i \in Inum : node[i].type = "dir" => node[i].ents["."] = i /\ node[i].ents[".."] # 0
Parents(node) ==
  /\ node[Root].type = "dir" /\ node[Root].ents[".."] = Root
  /\ \A d \in Inum, e \in Name : LET i == node[d].ents[e] IN
       i # 0 => i # Root /\ (node[i].type = "dir" => node[i].ents[".."] = d)
  /\ \A i \in Inum : LinkedDir(node, i) /\ i # Root =>
       \E d \in Inum, e \in Name : node[d].ents[e] = i
Counted(node) == \A i \in Inum : node[i].nlink = Links(node, i)
Tree(node) == node \in Nodes /\ Blank(node) /\ Dotted(node) /\ Parents(node) /\ Counted(node)

\* The file system's state.  An inode in memory is one on the disk, and its last
\* reference will free it if no name leads to it.
Messages == {"none", "iget: no inodes", "ilock", "ilock: no type", "fileread",
             "unlink: nlink < 1"}
FsType == [node : Nodes, ref : [Inum -> Int], valid : SUBSET Inum, bad : Messages]
Alive(k) ==
  \A i \in Inum : /\ k.ref[i] >= 0 /\ k.node[i].nlink >= 0
                  /\ k.ref[i] > 0 => /\ k.node[i].type # "free"
                                     /\ k.node[i].nlink = 0 => i \in k.valid
Good(k) == k \in FsType /\ k.bad = "none" /\ Alive(k)

\* The slots of itable in use, a table that has at most one left, and what a call
\* may have in use at its iget()s: one inode beside those before it.
Taken(ref) == {i \in Inum : ref[i] > 0}
Crowded(ref) == NINODE <= Cardinality(Taken(ref)) + 1
OneMore(ref) == \E j \in Inum : Taken(ref) \subseteq Taken(fs.ref) \cup {j}

\* iget() has found no slot, in a call that began with at most one left.
Stuck(k) == k \in FsType /\ k.bad = "iget: no inodes" /\ Crowded(fs.ref)
Lost(k) == {i \in Inum : k.node[i].type # "free" /\ k.node[i].nlink = 0 /\ k.ref[i] = 0}

\* A state that has stopped in a panic.
Halted(k) ==
  /\ k \in FsType /\ k.bad = "iget: no inodes" /\ Crowded(k.ref)
  /\ \A i \in Inum : k.ref[i] >= 0 /\ k.node[i].nlink >= 0

\* What uses inode i, as pairs, and what holds file f.
Tags == {"file", "cwd", "closing", "linking"}
Uses(t, c, cl, l, i, x, n) ==
  \/ x = "file" /\ n \in File /\ t[n].ref > 0 /\ t[n].ip = i
  \/ x = "cwd" /\ n \in Proc /\ c[n] = i
  \/ x = "closing" /\ n \in Proc /\ cl[n].ip = i
  \/ x = "linking" /\ n = l.p /\ l.ip = i
UserSet(t, c, cl, l, i) ==
  {u \in Tags \X (File \cup Proc) : Uses(t, c, cl, l, i, u[1], u[2])}
HolderSet(o, cl, f) == {h \in Proc \X Fd : o[h[1]][h[2]] = f /\ h[2] # cl[h[1]].fd}

\* A changed entry and a changed number of links.
WithEntry(n, e, x) == [type |-> n.type, nlink |-> n.nlink, ents |-> [n.ents EXCEPT ![e] = x]]
WithLinks(n, d) == [type |-> n.type, nlink |-> n.nlink + d, ents |-> n.ents]

\* Between the halves of sys_link() the inode has a link too many, and a user.
LinkInv(node, c, ex, l) ==
  \/ l = NotLinking /\ Tree(node)
  \/ /\ l.p \in Proc /\ l.ip \in Inum /\ Tree(l.disk)
     /\ l.disk[l.ip].type = "file" /\ l.disk[l.ip].nlink > 0
     /\ node = [l.disk EXCEPT ![l.ip] = WithLinks(l.disk[l.ip], 1)]
     /\ c[l.p] # 0 /\ l.p \notin ex
ProcInv(node, c, ex, cl, o) == \A p \in Proc :
  /\ c[p] # 0 => LinkedDir(node, c[p])
  /\ c[p] = 0 => p \notin ex /\ cl[p] = NotClosing /\ \A d \in Fd : o[p][d] = 0
  /\ cl[p] # NotClosing => cl[p].ip # 0
FileInv(t, o, cl) == \A f \in File :
  /\ t[f].ref = Cardinality(HolderSet(o, cl, f))
  /\ t[f].ref = 0 => t[f] = NoFile
  /\ t[f].ref > 0 => t[f].type # "none" /\ (t[f].type = "inode" <=> t[f].ip # 0)
RefInv(k, t, c, cl, l) == \A i \in Inum : k.ref[i] = Cardinality(UserSet(t, c, cl, l, i))
Rest ==
  /\ ftable \in [File -> [ref : Nat, type : {"none", "inode", "pipe"},
                          ip : Inum \cup {0}]]
  /\ ofile \in [Proc -> [Fd -> File \cup {0}]]
  /\ cwd \in [Proc -> Inum \cup {0}]
  /\ closing \in [Proc -> [ip : Inum \cup {0}, fd : Fd \cup {0}]]
  /\ exiting \subseteq Proc /\ leaked \subseteq Inum
  /\ linking.p \in Proc /\ linking.ip \in Inum \cup {0}
FilesInv ==
  /\ Rest
  /\ fs.bad # "none" => Halted(fs)
  /\ fs.bad = "none" =>
       /\ Good(fs) /\ leaked = Lost(fs)
       /\ LinkInv(fs.node, cwd, exiting, linking)
       /\ ProcInv(fs.node, cwd, exiting, closing, ofile)
       /\ FileInv(ftable, ofile, closing)
       /\ RefInv(fs, ftable, cwd, closing, linking)
--------------------------------------------------------------------------------
(* The inode table, one operation at a time.                                 *)

\* What the constants are.
LEMMA Constants ==
  /\ Root \in Inum /\ InitProc \in Proc /\ NINODE \in Nat
  /\ Inum \subseteq Nat /\ 0 \notin Inum /\ File \subseteq Nat /\ 0 \notin File
  /\ Fd \subseteq Nat /\ 0 \notin Fd
  /\ "." \notin Name /\ ".." \notin Name /\ Name \subseteq Elem
  /\ "." \in Elem /\ ".." \in Elem /\ \A e \in Elem : e \in Name \/ e = "." \/ e = ".."
  BY FilesAssumption DEF Elem

LEMMA FiniteConstants ==
  /\ IsFiniteSet(Proc) /\ IsFiniteSet(Inum) /\ IsFiniteSet(Name)
  /\ IsFiniteSet(File) /\ IsFiniteSet(Fd)
  BY FilesAssumption

\* The fields of a good state, and of one of its inodes.
LEMMA NodeIs ==
  ASSUME NEW node \in Nodes, NEW i \in Inum
  PROVE  /\ node[i] \in NodeType /\ node[i].nlink \in Int
         /\ node[i].type \in {"free", "file", "dir"}
         /\ node[i].ents \in [Elem -> Inum \cup {0}]
         /\ \A e \in Elem : node[i].ents[e] \in Inum \cup {0}
         /\ node[i] = [type |-> node[i].type, nlink |-> node[i].nlink, ents |-> node[i].ents]
<1>1. node[i] \in NodeType
  BY DEF Nodes
<1> QED
  BY <1>1 DEF NodeType

\* The fields of a state, and a state made of such fields.
LEMMA FsIs ==
  ASSUME NEW k \in FsType
  PROVE  /\ k.node \in Nodes /\ k.ref \in [Inum -> Int] /\ k.valid \in SUBSET Inum
         /\ k.bad \in Messages
         /\ k = [node |-> k.node, ref |-> k.ref, valid |-> k.valid, bad |-> k.bad]
  BY DEF FsType

LEMMA FsMade ==
  ASSUME NEW r, NEW node \in Nodes, NEW ref \in [Inum -> Int], NEW valid \in SUBSET Inum,
         NEW bad \in Messages, r = [node |-> node, ref |-> ref, valid |-> valid, bad |-> bad]
  PROVE  r \in FsType /\ r.node = node /\ r.ref = ref /\ r.valid = valid /\ r.bad = bad
  BY DEF FsType

LEMMA FreeIs == FreeNode \in NodeType /\ NoEntry \in [Elem -> Inum \cup {0}]
                /\ FreeNode.type = "free" /\ FreeNode.nlink = 0 /\ FreeNode.ents = NoEntry
                /\ \A e \in Elem : NoEntry[e] = 0
  BY DEF FreeNode, NodeType, NoEntry

\* What each operation does to the fields.
LEMMA PanicIs ==
  ASSUME NEW k \in FsType, NEW why \in Messages
  PROVE  /\ Panic(k, why) \in FsType
         /\ k.bad # "none" => Panic(k, why) = k
         /\ k.bad = "none" => Panic(k, why).bad = why
  BY DEF Panic, FsType, Messages

LEMMA IdupFields ==
  ASSUME NEW k \in FsType, NEW i \in Inum
  PROVE  Idup(k, i) = [node |-> k.node, ref |-> [k.ref EXCEPT ![i] = @ + 1],
                       valid |-> k.valid, bad |-> k.bad]
  BY DEF FsType, Idup

LEMMA IgetFields ==
  ASSUME NEW k \in FsType, NEW i \in Inum
  PROVE  \/ Iget(k, i) = [node |-> k.node, ref |-> [k.ref EXCEPT ![i] = @ + 1],
                          valid |-> k.valid, bad |-> k.bad]
         \/ /\ ~(k.ref[i] > 0)
            /\ Iget(k, i) = [node |-> k.node, ref |-> [k.ref EXCEPT ![i] = 1],
                             valid |-> k.valid, bad |-> k.bad]
         \/ /\ ~(k.ref[i] > 0) /\ Cardinality({j \in Inum : k.ref[j] > 0}) >= NINODE
            /\ Iget(k, i) = Panic(k, "iget: no inodes")
  BY DEF FsType, Iget

LEMMA IlockFields ==
  ASSUME NEW k \in FsType, NEW i \in Inum
  PROVE  \/ Ilock(k, i) = [node |-> k.node, ref |-> k.ref,
                           valid |-> k.valid \cup {i}, bad |-> k.bad]
         \/ k.ref[i] < 1 /\ Ilock(k, i) = Panic(k, "ilock")
         \/ /\ i \notin k.valid /\ k.node[i].type = "free"
            /\ Ilock(k, i) = Panic(k, "ilock: no type")
  BY DEF FsType, Ilock

LEMMA IputFields ==
  ASSUME NEW k \in FsType, NEW i \in Inum
  PROVE  Iput(k, i) =
           IF k.ref[i] = 1 /\ i \in k.valid /\ k.node[i].nlink = 0
           THEN [node |-> [k.node EXCEPT ![i] = FreeNode], ref |-> [k.ref EXCEPT ![i] = 0],
                 valid |-> k.valid \ {i}, bad |-> k.bad]
           ELSE [node |-> k.node, ref |-> [k.ref EXCEPT ![i] = @ - 1],
                 valid |-> IF k.ref[i] = 1 THEN k.valid \ {i} ELSE k.valid, bad |-> k.bad]
<1> DEFINE v == IF k.ref[i] = 1 THEN k.valid \ {i} ELSE k.valid
           k1 == [k EXCEPT !.node[i] = FreeNode]
           k2 == [k1 EXCEPT !.valid = @ \ {i}]
           k3 == [k EXCEPT !.ref[i] = @ - 1]
<1>1. /\ k1 = [node |-> [k.node EXCEPT ![i] = FreeNode], ref |-> k.ref, valid |-> k.valid,
               bad |-> k.bad]
      /\ k1 \in FsType
  BY FreeIs DEF FsType, Nodes
<1>2. /\ k3 = [node |-> k.node, ref |-> [k.ref EXCEPT ![i] = @ - 1], valid |-> k.valid,
               bad |-> k.bad]
      /\ k3 \in FsType
  BY DEF FsType
<1>3. Iput(k, i) = IF k.ref[i] = 1 /\ i \in k.valid /\ k.node[i].nlink = 0
                   THEN [k2 EXCEPT !.ref[i] = 0] ELSE [k3 EXCEPT !.valid = v]
  BY DEF Iput
<1> HIDE DEF k1, v, k3
<1>4. /\ k2 = [node |-> [k.node EXCEPT ![i] = FreeNode], ref |-> k.ref, valid |-> k.valid \ {i},
               bad |-> k.bad]
      /\ k2 \in FsType
  BY <1>1 DEF FsType
<1> HIDE DEF k2
<1>5. [k2 EXCEPT !.ref[i] = 0]
        = [node |-> [k.node EXCEPT ![i] = FreeNode], ref |-> [k.ref EXCEPT ![i] = 0],
           valid |-> k.valid \ {i}, bad |-> k.bad]
  BY <1>4, SMTT(30) DEF FsType
<1>6. [k3 EXCEPT !.valid = v]
        = [node |-> k.node, ref |-> [k.ref EXCEPT ![i] = @ - 1], valid |-> v, bad |-> k.bad]
  BY <1>2, SMTT(30) DEF FsType
<1> QED
  BY <1>3, <1>5, <1>6, Zenon DEF v

LEMMA IupdateFields ==
  ASSUME NEW k \in FsType, NEW i \in Inum, NEW n
  PROVE  Iupdate(k, i, n) = [node |-> [k.node EXCEPT ![i] = n], ref |-> k.ref,
                             valid |-> k.valid, bad |-> k.bad]
  BY DEF FsType, Iupdate

\* The states stay of their type, and whatever is done after a panic, it stays.
LEMMA FsKept ==
  ASSUME NEW k \in FsType, NEW i \in Inum
  PROVE  /\ Iget(k, i) \in FsType /\ Idup(k, i) \in FsType /\ Ilock(k, i) \in FsType
         /\ Iput(k, i) \in FsType /\ \A n \in NodeType : Iupdate(k, i, n) \in FsType
         /\ k.bad # "none" => /\ Iget(k, i).bad = k.bad /\ Idup(k, i).bad = k.bad
                          /\ Ilock(k, i).bad = k.bad /\ Iput(k, i).bad = k.bad
                          /\ \A n \in NodeType : Iupdate(k, i, n).bad = k.bad
<1>1. /\ k.node \in Nodes /\ k.ref \in [Inum -> Int] /\ k.valid \in SUBSET Inum
      /\ k.bad \in Messages
  BY FsIs
<1>2. /\ [k.ref EXCEPT ![i] = @ + 1] \in [Inum -> Int] /\ [k.ref EXCEPT ![i] = 1] \in [Inum -> Int]
      /\ [k.ref EXCEPT ![i] = 0] \in [Inum -> Int] /\ [k.ref EXCEPT ![i] = @ - 1] \in [Inum -> Int]
  BY <1>1
<1>3. \A n \in NodeType : [k.node EXCEPT ![i] = n] \in Nodes
  BY <1>1 DEF Nodes
<1>4. /\ Panic(k, "ilock") \in FsType /\ Panic(k, "ilock: no type") \in FsType
      /\ Panic(k, "iget: no inodes") \in FsType
      /\ k.bad # "none" => /\ Panic(k, "ilock") = k /\ Panic(k, "ilock: no type") = k
                           /\ Panic(k, "iget: no inodes") = k
  <2>1. "ilock" \in Messages /\ "ilock: no type" \in Messages /\ "iget: no inodes" \in Messages
    BY DEF Messages
  <2> QED
    BY <2>1, PanicIs
<1>5. Idup(k, i) \in FsType /\ Idup(k, i).bad = k.bad
  BY <1>1, <1>2, IdupFields, FsMade
<1>6. Iget(k, i) \in FsType /\ (k.bad # "none" => Iget(k, i).bad = k.bad)
  <2>1. CASE Iget(k, i) = [node |-> k.node, ref |-> [k.ref EXCEPT ![i] = @ + 1],
                           valid |-> k.valid, bad |-> k.bad]
    BY <1>1, <1>2, <2>1, FsMade
  <2>2. CASE Iget(k, i) = [node |-> k.node, ref |-> [k.ref EXCEPT ![i] = 1],
                           valid |-> k.valid, bad |-> k.bad]
    BY <1>1, <1>2, <2>2, FsMade
  <2>3. CASE Iget(k, i) = Panic(k, "iget: no inodes")
    BY <1>4, <2>3
  <2> QED
    BY <2>1, <2>2, <2>3, IgetFields
<1>7. Ilock(k, i) \in FsType /\ (k.bad # "none" => Ilock(k, i).bad = k.bad)
  <2>1. CASE Ilock(k, i) = [node |-> k.node, ref |-> k.ref,
                            valid |-> k.valid \cup {i}, bad |-> k.bad]
    <3>1. k.valid \cup {i} \in SUBSET Inum
      BY <1>1
    <3> QED
      BY <1>1, <2>1, <3>1, FsMade
  <2>2. CASE Ilock(k, i) = Panic(k, "ilock") \/ Ilock(k, i) = Panic(k, "ilock: no type")
    BY <1>4, <2>2
  <2> QED
    BY <2>1, <2>2, IlockFields
<1>8. Iput(k, i) \in FsType /\ Iput(k, i).bad = k.bad
  <2>1. CASE k.ref[i] = 1 /\ i \in k.valid /\ k.node[i].nlink = 0
    <3>1. Iput(k, i) = [node |-> [k.node EXCEPT ![i] = FreeNode], ref |-> [k.ref EXCEPT ![i] = 0],
                        valid |-> k.valid \ {i}, bad |-> k.bad]
      BY <2>1, IputFields
    <3>2. [k.node EXCEPT ![i] = FreeNode] \in Nodes /\ k.valid \ {i} \in SUBSET Inum
      BY <1>1, <1>3, FreeIs
    <3> QED
      BY <1>1, <1>2, <3>1, <3>2, FsMade
  <2>2. CASE ~(k.ref[i] = 1 /\ i \in k.valid /\ k.node[i].nlink = 0)
    <3> DEFINE v == IF k.ref[i] = 1 THEN k.valid \ {i} ELSE k.valid
    <3>1. Iput(k, i) = [node |-> k.node, ref |-> [k.ref EXCEPT ![i] = @ - 1], valid |-> v,
                        bad |-> k.bad]
      BY <2>2, IputFields
    <3>2. v \in SUBSET Inum
      BY <1>1
    <3> HIDE DEF v
    <3> QED
      BY <1>1, <1>2, <3>1, <3>2, FsMade
  <2> QED
    BY <2>1, <2>2
<1>9. ASSUME NEW n \in NodeType
      PROVE  Iupdate(k, i, n) \in FsType /\ Iupdate(k, i, n).bad = k.bad
  BY <1>1, <1>3, IupdateFields, FsMade
<1> QED
  BY <1>5, <1>6, <1>7, <1>8, <1>9

LEMMA StuckStays ==
  ASSUME NEW k, Stuck(k), NEW i \in Inum
  PROVE  /\ Stuck(Iget(k, i)) /\ Stuck(Idup(k, i)) /\ Stuck(Ilock(k, i)) /\ Stuck(Iput(k, i))
         /\ \A n \in NodeType : Stuck(Iupdate(k, i, n))
  BY FsKept DEF Stuck
--------------------------------------------------------------------------------
(* The operations on a good state.                                           *)

\* r is a good state with these inodes and references, in which inodes other
\* than i are as valid as in k.
Becomes(k, r, node, ref, i) ==
  /\ Good(r) /\ r.node = node /\ r.ref = ref
  /\ \A j \in k.valid : j # i => j \in r.valid

\* How the inodes in memory of a state made of these fields are counted.
LEMMA GoodMade ==
  ASSUME NEW r, NEW node \in Nodes, NEW ref \in [Inum -> Int], NEW valid \in SUBSET Inum,
         r = [node |-> node, ref |-> ref, valid |-> valid, bad |-> "none"],
         \A i \in Inum : /\ ref[i] >= 0 /\ node[i].nlink >= 0
                         /\ ref[i] > 0 => /\ node[i].type # "free"
                                          /\ node[i].nlink = 0 => i \in valid
  PROVE  Good(r) /\ r.node = node /\ r.ref = ref /\ r.valid = valid
<1>1. r \in FsType /\ r.node = node /\ r.ref = ref /\ r.valid = valid /\ r.bad = "none"
  <2>1. "none" \in Messages
    BY DEF Messages
  <2> QED
    BY <2>1, FsMade
<1> QED
  BY <1>1 DEF Good, Alive

\* idup() adds a reference to an inode that is linked; so does iget(), which may
\* panic if there are fewer slots than inodes.
LEMMA IdupIs ==
  ASSUME NEW k, Good(k), NEW i \in Inum, Linked(k.node, i)
  PROVE  Becomes(k, Idup(k, i), k.node, [k.ref EXCEPT ![i] = @ + 1], 0)
<1> DEFINE ref == [k.ref EXCEPT ![i] = @ + 1]
<1>1. k \in FsType /\ k.bad = "none" /\ Alive(k)
  BY DEF Good
<1>2. k.node \in Nodes /\ k.ref \in [Inum -> Int] /\ k.valid \in SUBSET Inum
  BY <1>1, FsIs
<1>3. ref \in [Inum -> Int] /\ \A j \in Inum : ref[j] = IF j = i THEN k.ref[j] + 1 ELSE k.ref[j]
  BY <1>2
<1>4. Idup(k, i) = [node |-> k.node, ref |-> ref, valid |-> k.valid, bad |-> "none"]
  BY <1>1, IdupFields
<1> HIDE DEF ref
<1>5. \A j \in Inum : /\ ref[j] >= 0 /\ k.node[j].nlink >= 0
                      /\ ref[j] > 0 => /\ k.node[j].type # "free"
                                       /\ k.node[j].nlink = 0 => j \in k.valid
  BY <1>1, <1>2, <1>3 DEF Alive, Linked
<1>6. Good(Idup(k, i)) /\ Idup(k, i).node = k.node /\ Idup(k, i).ref = ref /\ Idup(k, i).valid = k.valid
  BY <1>2, <1>3, <1>4, <1>5, GoodMade
<1> QED
  BY <1>6 DEF Becomes, ref

\* A call that has a reference more, or none, than there were when it began.
LEMMA HeldIsOneMore ==
  ASSUME NEW k0, Good(k0), k0.ref = fs.ref, NEW ref,
         ref = k0.ref \/ \E i \in Inum : ref = [k0.ref EXCEPT ![i] = @ + 1]
  PROVE  OneMore(ref)
<1>1. fs.ref \in [Inum -> Int] /\ Root \in Inum
  BY FsIs, Constants DEF Good
<1>2. CASE ref = fs.ref
  BY <1>1, <1>2 DEF OneMore
<1>3. CASE \E i \in Inum : ref = [fs.ref EXCEPT ![i] = @ + 1]
  <2>1. PICK i \in Inum : ref = [fs.ref EXCEPT ![i] = @ + 1]
    BY <1>3
  <2>2. Taken(ref) \subseteq Taken(fs.ref) \cup {i}
    BY <1>1, <2>1 DEF Taken
  <2> QED
    BY <2>2 DEF OneMore
<1> QED
  BY <1>2, <1>3

\* Of all slots taken in the course of a call, at most one was not before it.
LEMMA FullIsCrowded ==
  ASSUME NEW ref, OneMore(ref), Cardinality(Taken(ref)) >= NINODE
  PROVE  Crowded(fs.ref)
<1> DEFINE before == Taken(fs.ref)
<1>1. before \in SUBSET Inum /\ Taken(ref) \in SUBSET Inum
  BY DEF Taken
<1>2. PICK j \in Inum : Taken(ref) \subseteq before \cup {j}
  BY DEF OneMore
<1> HIDE DEF before
<1>3. IsFiniteSet(before) /\ Cardinality(before) \in Nat
  <2>1. before \subseteq Inum /\ IsFiniteSet(Inum)
    BY <1>1, FiniteConstants
  <2>2. IsFiniteSet(before)
    BY ONLY <2>1, FS_Subset
  <2> QED
    BY ONLY <2>2, FS_CardinalityType
<1>4. /\ IsFiniteSet(before \cup {j})
      /\ Cardinality(before \cup {j}) \in Nat
      /\ Cardinality(before \cup {j}) <= Cardinality(before) + 1
  <2>1. /\ IsFiniteSet(before \cup {j})
        /\ \/ Cardinality(before \cup {j}) = Cardinality(before)
           \/ Cardinality(before \cup {j}) = Cardinality(before) + 1
    BY ONLY <1>3, FS_AddElement, Zenon
  <2> QED
    BY ONLY <1>3, <2>1
<1>5. Cardinality(Taken(ref)) \in Nat /\ Cardinality(Taken(ref)) <= Cardinality(before \cup {j})
  <2> DEFINE now == Taken(ref)
             most == before \cup {j}
  <2>1. now \subseteq most /\ IsFiniteSet(most)
    BY <1>2, <1>4
  <2> HIDE DEF now, most
  <2>2. IsFiniteSet(now) /\ Cardinality(now) <= Cardinality(most)
    BY ONLY <2>1, FS_Subset
  <2>3. Cardinality(now) \in Nat
    BY ONLY <2>2, FS_CardinalityType
  <2> QED
    BY <2>2, <2>3 DEF now, most
<1>6. NINODE <= Cardinality(before) + 1
  BY <1>3, <1>4, <1>5, Constants
<1> QED
  BY <1>6 DEF Crowded, before

LEMMA IgetIs ==
  ASSUME NEW k, Good(k), NEW i \in Inum, Linked(k.node, i), OneMore(k.ref)
  PROVE  \/ Stuck(Iget(k, i))
         \/ Becomes(k, Iget(k, i), k.node, [k.ref EXCEPT ![i] = @ + 1], 0)
<1>1. k \in FsType /\ k.bad = "none" /\ Alive(k) /\ k.ref \in [Inum -> Int]
  BY FsIs DEF Good
<1>2. CASE Iget(k, i) = Idup(k, i)
  BY <1>2, IdupIs
<1>3. CASE /\ ~(k.ref[i] > 0) /\ Cardinality({j \in Inum : k.ref[j] > 0}) >= NINODE
           /\ Iget(k, i) = Panic(k, "iget: no inodes")
  <2>1. Crowded(fs.ref)
    BY <1>3, FullIsCrowded DEF Taken
  <2>2. Panic(k, "iget: no inodes") \in FsType /\ Panic(k, "iget: no inodes").bad = "iget: no inodes"
    BY <1>1, PanicIs DEF Messages
  <2> QED
    BY <1>3, <2>1, <2>2 DEF Stuck
<1>4. CASE /\ ~(k.ref[i] > 0)
           /\ Iget(k, i) = [node |-> k.node, ref |-> [k.ref EXCEPT ![i] = 1],
                            valid |-> k.valid, bad |-> k.bad]
  <2>1. k.ref[i] = 0
    BY <1>1, <1>4 DEF Alive
  <2>2. [k.ref EXCEPT ![i] = 1] = [k.ref EXCEPT ![i] = @ + 1]
    BY <1>1, <2>1
  <2> QED
    BY <1>1, <1>2, <1>4, <2>2, IdupFields
<1>5. \/ Iget(k, i) = Idup(k, i)
      \/ /\ ~(k.ref[i] > 0) /\ Cardinality({j \in Inum : k.ref[j] > 0}) >= NINODE
         /\ Iget(k, i) = Panic(k, "iget: no inodes")
      \/ /\ ~(k.ref[i] > 0)
         /\ Iget(k, i) = [node |-> k.node, ref |-> [k.ref EXCEPT ![i] = 1],
                          valid |-> k.valid, bad |-> k.bad]
  <2>1. k \in FsType
    BY <1>1
  <2> QED
    BY ONLY <2>1, i \in Inum, IgetFields, IdupFields
<1> QED
  BY <1>2, <1>3, <1>4, <1>5

\* ilock() reads in an inode that is in use.
LEMMA IlockIs ==
  ASSUME NEW k, Good(k), NEW i \in Inum, k.ref[i] > 0
  PROVE  Becomes(k, Ilock(k, i), k.node, k.ref, 0) /\ i \in Ilock(k, i).valid
<1>1. k \in FsType /\ k.bad = "none" /\ Alive(k)
  BY DEF Good
<1>2. k.node \in Nodes /\ k.ref \in [Inum -> Int] /\ k.valid \in SUBSET Inum
  BY <1>1, FsIs
<1>3. k.node[i].type # "free" /\ ~(k.ref[i] < 1)
  BY <1>1, <1>2 DEF Alive
<1>4. Ilock(k, i) = [node |-> k.node, ref |-> k.ref, valid |-> k.valid \cup {i}, bad |-> "none"]
  BY <1>1, <1>3, IlockFields
<1>5. k.valid \cup {i} \in SUBSET Inum
  BY <1>2
<1>6. Good(Ilock(k, i)) /\ Ilock(k, i).node = k.node /\ Ilock(k, i).ref = k.ref
      /\ Ilock(k, i).valid = k.valid \cup {i}
  BY <1>1, <1>2, <1>4, <1>5, GoodMade DEF Alive
<1> QED
  BY <1>6 DEF Becomes

\* iput() of an inode that has links, or that others use,
LEMMA IputIs ==
  ASSUME NEW k, Good(k), NEW i \in Inum, k.ref[i] > 0, k.node[i].nlink > 0 \/ k.ref[i] > 1
  PROVE  Becomes(k, Iput(k, i), k.node, [k.ref EXCEPT ![i] = @ - 1], i)
<1> DEFINE ref == [k.ref EXCEPT ![i] = @ - 1]
           v == IF k.ref[i] = 1 THEN k.valid \ {i} ELSE k.valid
<1>1. k \in FsType /\ k.bad = "none" /\ Alive(k)
  BY DEF Good
<1>2. k.node \in Nodes /\ k.ref \in [Inum -> Int] /\ k.valid \in SUBSET Inum
  BY <1>1, FsIs
<1>3. ref \in [Inum -> Int] /\ \A j \in Inum : ref[j] = IF j = i THEN k.ref[j] - 1 ELSE k.ref[j]
  BY <1>2
<1>4. ~(k.ref[i] = 1 /\ k.node[i].nlink = 0)
  BY <1>2
<1>5. Iput(k, i) = [node |-> k.node, ref |-> ref, valid |-> v, bad |-> "none"]
  BY <1>1, <1>4, IputFields
<1>6. v \in SUBSET Inum /\ \A j \in k.valid : j # i \/ k.ref[i] # 1 => j \in v
  BY <1>2
<1> HIDE DEF ref, v
<1>7. \A j \in Inum : /\ ref[j] >= 0 /\ k.node[j].nlink >= 0
                      /\ ref[j] > 0 => /\ k.node[j].type # "free"
                                       /\ k.node[j].nlink = 0 => j \in v
  BY <1>1, <1>2, <1>3, <1>6 DEF Alive
<1>8. Good(Iput(k, i)) /\ Iput(k, i).node = k.node /\ Iput(k, i).ref = ref /\ Iput(k, i).valid = v
  BY <1>2, <1>3, <1>5, <1>6, <1>7, GoodMade
<1> QED
  BY <1>6, <1>8 DEF Becomes, ref

\* and of the last reference to one that has none: it is freed.
LEMMA IputFrees ==
  ASSUME NEW k, Good(k), NEW i \in Inum, k.ref[i] = 1, k.node[i].nlink = 0
  PROVE  Becomes(k, Iput(k, i), [k.node EXCEPT ![i] = FreeNode], [k.ref EXCEPT ![i] = @ - 1], i)
<1> DEFINE ref == [k.ref EXCEPT ![i] = 0]
           node == [k.node EXCEPT ![i] = FreeNode]
<1>1. k \in FsType /\ k.bad = "none" /\ Alive(k)
  BY DEF Good
<1>2. k.node \in Nodes /\ k.ref \in [Inum -> Int] /\ k.valid \in SUBSET Inum
  BY <1>1, FsIs
<1>3. ref \in [Inum -> Int] /\ \A j \in Inum : ref[j] = IF j = i THEN 0 ELSE k.ref[j]
  BY <1>2
<1>4. i \in k.valid
  BY <1>1 DEF Alive
<1>5. Iput(k, i) = [node |-> node, ref |-> ref, valid |-> k.valid \ {i}, bad |-> "none"]
  BY <1>1, <1>4, IputFields
<1>6. node \in Nodes /\ \A j \in Inum : node[j] = IF j = i THEN FreeNode ELSE k.node[j]
  BY <1>2, FreeIs DEF Nodes
<1>7. k.valid \ {i} \in SUBSET Inum /\ [k.ref EXCEPT ![i] = @ - 1] = ref
  BY <1>2
<1> HIDE DEF ref, node
<1>8. \A j \in Inum : /\ ref[j] >= 0 /\ node[j].nlink >= 0
                      /\ ref[j] > 0 => /\ node[j].type # "free"
                                       /\ node[j].nlink = 0 => j \in k.valid \ {i}
  BY <1>1, <1>2, <1>3, <1>6, FreeIs DEF Alive
<1>9. /\ Good(Iput(k, i)) /\ Iput(k, i).node = node /\ Iput(k, i).ref = ref
      /\ Iput(k, i).valid = k.valid \ {i}
  BY <1>2, <1>3, <1>5, <1>6, <1>7, <1>8, GoodMade
<1> QED
  BY <1>7, <1>9 DEF Becomes, node

\* A change of an inode that is in use, or that will be.
LEMMA IupdateIs ==
  ASSUME NEW k, Good(k), NEW i \in Inum, NEW n \in NodeType, n.nlink >= 0,
         k.ref[i] > 0 => n.type # "free" /\ (n.nlink = 0 => i \in k.valid)
  PROVE  /\ Becomes(k, Iupdate(k, i, n), [k.node EXCEPT ![i] = n], k.ref, 0)
         /\ Iupdate(k, i, n).valid = k.valid
<1> DEFINE node == [k.node EXCEPT ![i] = n]
<1>1. k \in FsType /\ k.bad = "none" /\ Alive(k)
  BY DEF Good
<1>2. k.node \in Nodes /\ k.ref \in [Inum -> Int] /\ k.valid \in SUBSET Inum
  BY <1>1, FsIs
<1>3. node \in Nodes /\ \A j \in Inum : node[j] = IF j = i THEN n ELSE k.node[j]
  BY <1>2 DEF Nodes
<1>4. Iupdate(k, i, n) = [node |-> node, ref |-> k.ref, valid |-> k.valid, bad |-> "none"]
  BY <1>1, IupdateFields
<1> HIDE DEF node
<1>5. \A j \in Inum : /\ k.ref[j] >= 0 /\ node[j].nlink >= 0
                      /\ k.ref[j] > 0 => /\ node[j].type # "free"
                                         /\ node[j].nlink = 0 => j \in k.valid
  BY <1>1, <1>3 DEF Alive
<1>6. /\ Good(Iupdate(k, i, n)) /\ Iupdate(k, i, n).node = node /\ Iupdate(k, i, n).ref = k.ref
      /\ Iupdate(k, i, n).valid = k.valid
  BY <1>2, <1>3, <1>4, <1>5, GoodMade
<1> QED
  BY <1>6 DEF Becomes, node
--------------------------------------------------------------------------------
(* Path names.                                                               *)

\* k is k0 with a reference to inode i added, 0 standing for none, or a panic; k0
\* has the references of the state in which the call began.
Holds(k0, k, i) ==
  /\ i \in Inum \cup {0} /\ k0.ref = fs.ref
  /\ \/ Stuck(k)
     \/ /\ Good(k) /\ k.node = k0.node
        /\ i = 0 => k.ref = k0.ref
        /\ i # 0 => Linked(k0.node, i) /\ k.ref = [k0.ref EXCEPT ![i] = @ + 1]
Walks == [k : FsType, ip : Inum \cup {0}]
WalkIs(k0, w) == w \in Walks /\ Holds(k0, w.k, w.ip)

\* From a directory with links one comes to inodes with links only.
Walkable(node) ==
  \A d \in Inum, e \in Elem :
    LinkedDir(node, d) /\ node[d].ents[e] # 0 => Linked(node, node[d].ents[e])

LEMMA WalkMade ==
  ASSUME NEW k0, NEW k, NEW i, Holds(k0, k, i)
  PROVE  WalkIs(k0, At(k, i)) /\ At(k, i).k = k /\ At(k, i).ip = i
<1>1. k \in FsType /\ i \in Inum \cup {0}
  BY DEF Holds, Good, Stuck
<1> QED
  BY <1>1 DEF WalkIs, Walks, At

\* A reference more and a reference less.
LEMMA PlusMinus ==
  ASSUME NEW ref \in [Inum -> Int], NEW i \in Inum, NEW j \in Inum
  PROVE  /\ [[[ref EXCEPT ![i] = @ + 1] EXCEPT ![j] = @ + 1] EXCEPT ![i] = @ - 1]
              = [ref EXCEPT ![j] = @ + 1]
         /\ [[ref EXCEPT ![i] = @ + 1] EXCEPT ![i] = @ - 1] = ref
         /\ [[ref EXCEPT ![i] = @ + 1] EXCEPT ![j] = @ + 1]
              = [[ref EXCEPT ![j] = @ + 1] EXCEPT ![i] = @ + 1]
  OBVIOUS

\* The inode held can be locked,
LEMMA HeldLock ==
  ASSUME NEW k0, Good(k0), NEW k, NEW i \in Inum, Holds(k0, k, i)
  PROVE  /\ Holds(k0, Ilock(k, i), i)
         /\ Good(k) => Good(Ilock(k, i)) /\ Ilock(k, i).node = k0.node /\ i \in Ilock(k, i).valid
<1>1. CASE Stuck(k)
  BY <1>1, StuckStays DEF Holds, Stuck, Good
<1>2. CASE ~Stuck(k)
  <2>1. Good(k) /\ k.node = k0.node /\ Linked(k0.node, i) /\ k.ref = [k0.ref EXCEPT ![i] = @ + 1]
    BY <1>2, Constants DEF Holds
  <2>2. k0.ref \in [Inum -> Int] /\ k0.ref[i] >= 0
    BY FsIs DEF Good, Alive
  <2>3. k.ref[i] > 0
    BY <2>1, <2>2
  <2> QED
    BY <2>1, <2>3, IlockIs, Constants DEF Becomes, Holds
<1> QED
  BY <1>1, <1>2

\* left,
LEMMA HeldPut ==
  ASSUME NEW k0, Good(k0), NEW k, NEW i \in Inum, Holds(k0, k, i)
  PROVE  Holds(k0, Iput(k, i), 0)
<1>1. CASE Stuck(k)
  BY <1>1, StuckStays DEF Holds
<1>2. CASE ~Stuck(k)
  <2>1. Good(k) /\ k.node = k0.node /\ Linked(k0.node, i) /\ k.ref = [k0.ref EXCEPT ![i] = @ + 1]
    BY <1>2, Constants DEF Holds
  <2>2. k0.ref \in [Inum -> Int] /\ k0.ref[i] >= 0
    BY FsIs DEF Good, Alive
  <2>3. k.ref[i] > 0 /\ k.node[i].nlink > 0
    BY <2>1, <2>2 DEF Linked
  <2>4. Good(Iput(k, i)) /\ Iput(k, i).node = k0.node /\ Iput(k, i).ref = [k.ref EXCEPT ![i] = @ - 1]
    BY <2>1, <2>3, IputIs DEF Becomes
  <2>5. Iput(k, i).ref = k0.ref
    BY <2>1, <2>2, <2>4, PlusMinus
  <2> QED
    BY <2>4, <2>5 DEF Holds
<1> QED
  BY <1>1, <1>2

\* and left for another.
LEMMA HeldNext ==
  ASSUME NEW k0, Good(k0), NEW k, NEW i \in Inum, Holds(k0, k, i),
         NEW j \in Inum, Linked(k0.node, j)
  PROVE  Holds(k0, Iput(Iget(k, j), i), j)
<1>1. CASE Stuck(Iget(k, j))
  BY <1>1, StuckStays DEF Holds
<1>2. CASE ~Stuck(Iget(k, j))
  <2>1. Good(k) /\ k.node = k0.node /\ Linked(k0.node, i) /\ k.ref = [k0.ref EXCEPT ![i] = @ + 1]
    BY <1>2, StuckStays, Constants DEF Holds
  <2>2. k0.ref \in [Inum -> Int] /\ k0.ref[i] >= 0
    BY FsIs DEF Good, Alive
  <2> DEFINE g == Iget(k, j)
  <2>3. Good(g) /\ g.node = k0.node /\ g.ref = [k.ref EXCEPT ![j] = @ + 1]
    <3>1. OneMore(k.ref)
      BY <2>1, HeldIsOneMore DEF Holds
    <3> QED
      BY <1>2, <2>1, <3>1, IgetIs DEF Becomes
  <2>4. g.ref[i] > 0 /\ g.node[i].nlink > 0
    BY <2>1, <2>2, <2>3 DEF Linked
  <2> HIDE DEF g
  <2>5. Good(Iput(g, i)) /\ Iput(g, i).node = k0.node /\ Iput(g, i).ref = [g.ref EXCEPT ![i] = @ - 1]
    BY <2>3, <2>4, IputIs DEF Becomes
  <2>6. Iput(g, i).ref = [k0.ref EXCEPT ![j] = @ + 1]
    BY <2>1, <2>2, <2>3, <2>5, PlusMinus
  <2>7. Holds(k0, Iput(g, i), j)
    BY <2>5, <2>6, Constants DEF Holds
  <2> QED
    BY <2>7 DEF g
<1> QED
  BY <1>1, <1>2

\* A turn of namex()'s loop.
LEMMA NamexStepIs ==
  ASSUME NEW k0, Good(k0), Walkable(k0.node), NEW w, WalkIs(k0, w), NEW name \in Elem
  PROVE  WalkIs(k0, NamexStep(w, name))
<1>1. w.ip \in Inum \cup {0} /\ Holds(k0, w.k, w.ip)
  BY DEF WalkIs, Walks
<1>2. CASE w.ip = 0 \/ w.k.bad # "none"
  BY <1>2 DEF NamexStep
<1>3. CASE w.ip \in Inum /\ w.k.bad = "none"
  <2> DEFINE k == Ilock(w.k, w.ip)
             next == IF k.node[w.ip].type = "dir" THEN Dirlookup(k, w.ip, name) ELSE 0
  <2>1. Holds(k0, k, w.ip) /\ k.node = k0.node
    <3>1. Good(w.k)
      BY <1>1, <1>3 DEF Holds, Stuck
    <3> QED
      BY <1>1, <1>3, <3>1, HeldLock
  <2>2. Linked(k0.node, w.ip) /\ k0.node \in Nodes
    BY <1>1, <1>3, Constants, FsIs DEF Holds, Stuck, Good
  <2>3. NamexStep(w, name) = IF next = 0 THEN At(Iput(k, w.ip), 0)
                             ELSE At(Iput(Iget(k, next), w.ip), next)
    BY <1>3, Constants DEF NamexStep
  <2>4. next # 0 => next \in Inum /\ Linked(k0.node, next)
    <3>1. ASSUME next # 0 PROVE LinkedDir(k0.node, w.ip) /\ next = k0.node[w.ip].ents[name]
      BY <2>1, <2>2, <3>1 DEF Dirlookup, LinkedDir, Linked
    <3>2. k0.node[w.ip].ents[name] \in Inum \cup {0}
      BY <1>3, <2>2, NodeIs
    <3> QED
      BY <1>3, <3>1, <3>2 DEF Walkable
  <2> HIDE DEF k, next
  <2>5. CASE next = 0
    BY <1>3, <2>1, <2>3, <2>5, HeldPut, WalkMade
  <2>6. CASE next # 0
    BY <1>3, <2>1, <2>3, <2>4, <2>6, HeldNext, WalkMade
  <2> QED
    BY <2>5, <2>6
<1> QED
  BY <1>1, <1>2, <1>3

\* Where a path begins.
Ready(k0, p) ==
  /\ Good(k0) /\ k0.ref = fs.ref /\ Walkable(k0.node) /\ Linked(k0.node, Root)
  /\ cwd[p] \in Inum /\ Linked(k0.node, cwd[p])

LEMMA NamexStartIs ==
  ASSUME NEW k0, NEW p \in Proc, Ready(k0, p), NEW path \in Path
  PROVE  WalkIs(k0, NamexStart(k0, p, path)) /\ NamexStart(k0, p, path).ip \in Inum
<1>1. CASE path.abs
  <2>1. Holds(k0, Iget(k0, Root), Root)
    <3>1. OneMore(k0.ref)
      BY HeldIsOneMore DEF Ready
    <3> QED
      BY <3>1, IgetIs, Constants DEF Ready, Holds, Becomes
  <2>2. NamexStart(k0, p, path) = At(Iget(k0, Root), Root)
    BY <1>1 DEF NamexStart
  <2> QED
    BY <2>1, <2>2, WalkMade, Constants
<1>2. CASE ~path.abs
  <2>1. Holds(k0, Idup(k0, cwd[p]), cwd[p])
    BY IdupIs, Constants DEF Ready, Holds, Becomes
  <2>2. NamexStart(k0, p, path) = At(Idup(k0, cwd[p]), cwd[p])
    BY <1>2 DEF NamexStart
  <2> QED
    BY <2>1, <2>2, WalkMade DEF Ready
<1> QED
  BY <1>1, <1>2

LEMMA PathIs ==
  ASSUME NEW path \in Path
  PROVE  /\ path.elems \in Seq(Elem) /\ Len(path.elems) \in Nat
         /\ \A m \in 1..Len(path.elems) : path.elems[m] \in Elem
         /\ path.elems # <<>> => Len(path.elems) - 1 \in Nat /\ Last(path.elems) \in Elem
<1>1. path.elems \in Seq(Elem)
  BY FilesAssumption DEF Elem
<1> QED
  BY <1>1 DEF Last

\* The loop of namex().
LEMMA NamexIs ==
  ASSUME NEW k0, NEW p \in Proc, Ready(k0, p), NEW path \in Path,
         NEW N \in Nat, N <= Len(path.elems)
  PROVE  WalkIs(k0, Namex(k0, p, path, N))
<1> DEFINE x == NamexStart(k0, p, path)
           P == [n \in 0..N |-> {w \in Walks : WalkIs(k0, w)}]
           step(n, w) == NamexStep(w, path.elems[n])
           d == [n \in 1..N |-> [w \in Walks |-> IF step(n, w) \in Walks THEN step(n, w) ELSE w]]
<1>1. x \in Walks /\ x \in P[0]
  BY NamexStartIs DEF WalkIs
<1>2. ASSUME NEW n \in 1..N, NEW w \in P[n - 1]
      PROVE  step(n, w) \in P[n]
  <2>1. n \in 1..Len(path.elems) /\ n \in 0..N /\ n - 1 \in 0..N
    BY PathIs
  <2>2. path.elems[n] \in Elem /\ WalkIs(k0, w)
    BY <2>1, <1>2, PathIs
  <2>3. WalkIs(k0, step(n, w))
    BY <2>2, NamexStepIs DEF Ready
  <2> QED
    BY <2>1, <2>3 DEF WalkIs
<1> HIDE DEF x, step
<1>3. PICK g \in [0..N -> Walks] : g[0] = x /\ \A n \in 1..N : g[n] = d[n][g[n - 1]]
  <2>1. d \in Transitions(Walks, N)
    BY DEF Transitions
  <2> HIDE DEF P, d
  <2>2. \E g : IsRun(g, Walks, x, N, d)
    BY <1>1, <2>1, Iteration
  <2> QED
    BY <2>2 DEF IsRun
<1>4. ASSUME NEW n \in 1..N, g[n - 1] \in P[n - 1] PROVE g[n] = step(n, g[n - 1]) /\ g[n] \in P[n]
  <2>1. n \in 0..N /\ n - 1 \in 0..N /\ g[n - 1] \in Walks
    OBVIOUS
  <2>2. step(n, g[n - 1]) \in P[n]
    BY <1>2, <1>4
  <2>3. step(n, g[n - 1]) \in Walks
    BY <2>1, <2>2
  <2>4. g[n] = step(n, g[n - 1])
    BY <1>3, <2>1, <2>3
  <2> QED
    BY <2>2, <2>4
<1>5. \A n \in 0..N : g[n] \in P[n]
  <2>1. \A n \in 1..N : g[n - 1] \in P[n - 1] => g[n] \in P[n]
    BY <1>4
  <2> HIDE DEF P
  <2> QED
    BY <1>1, <1>3, <2>1, Steps
<1>6. \A n \in 1..N : g[n] = step(n, g[n - 1])
  <2>1. \A n \in 1..N : n - 1 \in 0..N
    OBVIOUS
  <2>2. \A n \in 1..N : g[n - 1] \in P[n - 1]
    BY <1>5, <2>1
  <2> HIDE DEF P, d
  <2> QED
    BY <1>4, <2>2
<1> HIDE DEF P, d
<1>7. \E f : f = [n \in 0..N |-> IF n = 0 THEN x ELSE step(n, f[n - 1])]
  <2>1. g = [n \in 0..N |-> IF n = 0 THEN x ELSE step(n, g[n - 1])]
    BY <1>3, <1>6
  <2> QED
    BY <2>1
<1> DEFINE walk[n \in 0..N] == IF n = 0 THEN x ELSE step(n, walk[n - 1])
<1>8. walk = [n \in 0..N |-> IF n = 0 THEN x ELSE step(n, walk[n - 1])]
  BY <1>7
<1>9. Namex(k0, p, path, N) = walk[N]
  BY DEF Namex, x, step
<1> HIDE DEF walk
<1>10. walk[0] = x /\ \A n \in 1..N : walk[n] = step(n, walk[n - 1])
  BY <1>8
<1>11. walk[N] \in P[N]
  <2>1. \A n \in 1..N : walk[n - 1] \in P[n - 1] => walk[n] \in P[n]
    BY <1>2, <1>10
  <2>2. N \in 0..N
    OBVIOUS
  <2>3. \A n \in 0..N : walk[n] \in P[n]
    BY <1>1, <1>10, <2>1, Steps
  <2> QED
    BY <2>2, <2>3
<1>12. P[N] = {w \in Walks : WalkIs(k0, w)}
  BY DEF P
<1> QED
  BY <1>9, <1>11, <1>12

\* namei(), and nameiparent(), which ends in a directory or nowhere.
LEMMA NameiIs ==
  ASSUME NEW k0, NEW p \in Proc, Ready(k0, p), NEW path \in Path
  PROVE  WalkIs(k0, Namei(k0, p, path))
  BY NamexIs, PathIs DEF Namei

LEMMA NameiparentIs ==
  ASSUME NEW k0, NEW p \in Proc, Ready(k0, p), NEW path \in Path,
         NEW w, w = Nameiparent(k0, p, path)
  PROVE  /\ WalkIs(k0, w)
         /\ w.ip # 0 /\ Good(w.k) => LinkedDir(k0.node, w.ip)
         /\ w.ip # 0 => Last(path.elems) \in Elem
<1>0. Good(k0)
  BY DEF Ready
<1>1. CASE path.elems = <<>>
  <2> DEFINE s == NamexStart(k0, p, path)
  <2>1. Holds(k0, s.k, s.ip) /\ s.ip \in Inum
    BY NamexStartIs DEF WalkIs
  <2>2. w = At(Iput(s.k, s.ip), 0)
    BY <1>1 DEF Nameiparent, NamexNothing
  <2> HIDE DEF s
  <2> QED
    BY <1>0, <2>1, <2>2, HeldPut, WalkMade
<1>2. CASE path.elems # <<>>
  <2> DEFINE v == Namex(k0, p, path, Len(path.elems) - 1)
             k == Ilock(v.k, v.ip)
  <2>1. w = NamexParent(v)
    BY <1>2 DEF Nameiparent
  <2>2. WalkIs(k0, v)
    BY <1>2, PathIs, NamexIs
  <2> HIDE DEF v
  <2>3. Last(path.elems) \in Elem
    BY <1>2, PathIs
  <2>4. CASE v.ip = 0
    BY <2>1, <2>2, <2>3, <2>4 DEF NamexParent
  <2>5. CASE v.ip # 0
    <3>1. v.ip \in Inum /\ Holds(k0, v.k, v.ip)
      BY <2>2, <2>5 DEF WalkIs, Walks
    <3>2. Holds(k0, k, v.ip)
      BY <1>0, <3>1, HeldLock
    <3>3. w = IF k.node[v.ip].type # "dir" THEN At(Iput(k, v.ip), 0) ELSE At(k, v.ip)
      BY <2>1, <2>5 DEF NamexParent
    <3> HIDE DEF k
    <3>4. CASE k.node[v.ip].type # "dir"
      BY <1>0, <3>1, <3>2, <3>3, <3>4, HeldPut, WalkMade
    <3>5. CASE k.node[v.ip].type = "dir"
      <4>1. w = At(k, v.ip)
        BY <3>3, <3>5
      <4>2. WalkIs(k0, w) /\ w.k = k /\ w.ip = v.ip
        BY <3>2, <4>1, WalkMade
      <4>3. Good(k) => k.node = k0.node /\ Linked(k0.node, v.ip)
        BY <3>1, <3>2, Constants DEF Holds, Stuck, Good
      <4> QED
        BY <2>3, <3>5, <4>2, <4>3 DEF LinkedDir, Linked
    <3> QED
      BY <3>4, <3>5
  <2> QED
    BY <2>4, <2>5
<1> QED
  BY <1>1, <1>2
--------------------------------------------------------------------------------
(* The tree.                                                                 *)

LEMMA LinksFinite ==
  ASSUME NEW node, NEW i
  PROVE  /\ IsFiniteSet(Names(node, i)) /\ Cardinality(Names(node, i)) \in Nat
         /\ IsFiniteSet(Children(node, i)) /\ Cardinality(Children(node, i)) \in Nat
         /\ Names(node, i) # {} => Cardinality(Names(node, i)) > 0
<1>1. IsFiniteSet(Inum \X Name)
  BY FiniteConstants, FS_Product
<1>2. Names(node, i) \subseteq Inum \X Name /\ Children(node, i) \subseteq Name
  BY DEF Names, Children
<1>3. IsFiniteSet(Names(node, i)) /\ IsFiniteSet(Children(node, i))
  BY <1>1, <1>2, FiniteConstants, FS_Subset
<1>4. Cardinality(Names(node, i)) \in Nat /\ Cardinality(Children(node, i)) \in Nat
  BY <1>3, FS_CardinalityType
<1>5. Names(node, i) # {} => Cardinality(Names(node, i)) # 0
  BY <1>3, FS_EmptySet
<1> QED
  BY <1>3, <1>4, <1>5

\* In a tree: links are counted from 0; what a name leads to is linked, and the
\* name is in a directory that is; the root is a directory with links.
LEMMA TreeFacts ==
  ASSUME NEW node, Tree(node)
  PROVE  /\ \A i \in Inum : node[i].nlink \in Nat /\ node[i].nlink >= 0
         /\ LinkedDir(node, Root) /\ Linked(node, Root)
         /\ \A d \in Inum, e \in Name : LET i == node[d].ents[e] IN
              i # 0 => i \in Inum /\ Linked(node, i) /\ LinkedDir(node, d)
         /\ Walkable(node)
<1>1. node \in Nodes /\ Blank(node) /\ Dotted(node) /\ Parents(node) /\ Counted(node)
  BY DEF Tree
<1>2. ASSUME NEW i \in Inum
      PROVE  /\ node[i].nlink \in Nat /\ node[i].nlink >= 0
             /\ i = Root \/ Names(node, i) # {} => node[i].nlink > 0
  <2>1. node[i].nlink = Cardinality(Names(node, i)) + Cardinality(Children(node, i))
                          + (IF i = Root THEN 1 ELSE 0)
    BY <1>1 DEF Counted, Links
  <2> QED
    BY <2>1, LinksFinite
<1>3. ASSUME NEW i \in Inum, node[i].nlink > 0 PROVE Linked(node, i)
  <2>1. node[i].type = "free" => node[i].nlink = 0
    BY <1>1, FreeIs DEF Blank
  <2> QED
    BY <1>3, <2>1 DEF Linked
<1>4. LinkedDir(node, Root) /\ Linked(node, Root)
  BY <1>1, <1>2, <1>3, Constants DEF Parents, LinkedDir
<1>5. ASSUME NEW d \in Inum, NEW e \in Name, node[d].ents[e] # 0
      PROVE  /\ node[d].ents[e] \in Inum /\ Linked(node, node[d].ents[e])
             /\ LinkedDir(node, d)
  <2>1. node[d].ents[e] \in Inum
    <3>1. e \in Elem
      BY Constants
    <3>2. node[d].ents[e] \in Inum \cup {0}
      BY ONLY <1>1, d \in Inum, <3>1, NodeIs
    <3> QED
      BY <1>5, <3>2
  <2>2. <<d, e>> \in Names(node, node[d].ents[e])
    BY DEF Names
  <2>3. Linked(node, node[d].ents[e])
    BY <1>2, <1>3, <2>1, <2>2
  <2>4. node[d].type = "dir"
    <3>1. node[d].type # "dir" => node[d].ents = NoEntry
      BY <1>1 DEF Blank
    <3> QED
      BY <3>1, <1>5, FreeIs, Constants
  <2>5. node[d].nlink # 0
    BY <1>1, <1>5 DEF Blank
  <2> QED
    BY <1>2, <2>1, <2>3, <2>4, <2>5 DEF LinkedDir
<1>6. ASSUME NEW d \in Inum, NEW e \in Elem, LinkedDir(node, d), node[d].ents[e] # 0
      PROVE  Linked(node, node[d].ents[e])
  <2>1. CASE e \in Name
    BY <1>5, <1>6, <2>1
  <2>2. CASE e = "."
    <3>1. node[d].ents["."] = d
      BY <1>1, <1>6 DEF Dotted, LinkedDir
    <3> QED
      BY <1>3, <1>6, <2>2, <3>1 DEF LinkedDir
  <2>3. CASE e = ".." /\ d = Root
    BY <1>1, <1>4, <2>3 DEF Parents
  <2>4. CASE e = ".." /\ d # Root
    <3>1. PICK f \in Inum, n \in Name : node[f].ents[n] = d
      BY <1>1, <1>6, <2>4 DEF Parents
    <3>2. node[d].ents[".."] = f
      BY <1>1, <1>6, <3>1, Constants DEF Parents, LinkedDir
    <3>3. LinkedDir(node, f)
      BY <1>5, <3>1, Constants
    <3> QED
      BY <1>3, <2>4, <3>2, <3>3 DEF LinkedDir
  <2> QED
    BY <2>1, <2>2, <2>3, <2>4, Constants
<1> QED
  BY <1>2, <1>4, <1>5, <1>6 DEF Walkable

\* r is node with a name for ip in the directory dp; what names led to
\* directories still do, and no others.
Entered(node, r, dp, name, ip) ==
  /\ node[dp].ents[name] = 0
  /\ \A j \in Inum, e \in Name :
       r[j].ents[e] = IF j = dp /\ e = name THEN ip ELSE node[j].ents[e]
  /\ \A j \in Inum, e \in Name : LET t == node[j].ents[e] IN
       t # 0 => (r[t].type = "dir" <=> node[t].type = "dir")

\* What a new name adds to the links of its inode and its directory.
Added(r, dp, ip, i) ==
  (IF i = ip THEN 1 ELSE 0) + (IF i = dp /\ r[ip].type = "dir" THEN 1 ELSE 0)
LEMMA LinksEntered ==
  ASSUME NEW node, NEW r, NEW dp \in Inum, NEW name \in Name, NEW ip \in Inum,
         Entered(node, r, dp, name, ip), NEW i \in Inum
  PROVE  /\ Names(node, i) \subseteq Names(r, i)
         /\ Links(r, i) = Links(node, i) + Added(r, dp, ip, i)
<1>0. ip # 0 /\ \A x : x \in Inum => x # 0
  BY Constants
<1>1. /\ Names(r, i) = IF i = ip THEN Names(node, i) \cup {<<dp, name>>} ELSE Names(node, i)
      /\ i = ip => <<dp, name>> \notin Names(node, i)
  <2>1. <<dp, name>> \in Inum \X Name /\ <<dp, name>>[1] = dp /\ <<dp, name>>[2] = name
    OBVIOUS
  <2>2. ASSUME NEW n \in Inum \X Name
        PROVE  /\ n[1] \in Inum /\ n[2] \in Name /\ (n[1] = dp /\ n[2] = name <=> n = <<dp, name>>)
               /\ r[n[1]].ents[n[2]] = IF n = <<dp, name>> THEN ip ELSE node[n[1]].ents[n[2]]
    BY DEF Entered
  <2>3. \A n \in Inum \X Name :
          n \in Names(r, i) <=> IF n = <<dp, name>> THEN ip = i ELSE n \in Names(node, i)
    BY <2>2 DEF Names
  <2>4. <<dp, name>> \notin Names(node, i)
    BY <1>0, <2>1 DEF Names, Entered
  <2>5. Names(r, i) \subseteq Inum \X Name /\ Names(node, i) \subseteq Inum \X Name
    BY DEF Names
  <2> QED
    BY <2>1, <2>3, <2>4, <2>5
<1>2. Cardinality(Names(r, i)) = Cardinality(Names(node, i)) + (IF i = ip THEN 1 ELSE 0)
  <2>1. CASE i = ip
    <3>1. Cardinality(Names(node, i) \cup {<<dp, name>>}) = Cardinality(Names(node, i)) + 1
      BY <1>1, <2>1, LinksFinite, FS_AddElement
    <3> QED
      BY <1>1, <2>1, <3>1
  <2>2. CASE i # ip
    BY <1>1, <2>2, LinksFinite
  <2> QED
    BY <2>1, <2>2
<1>3. /\ Children(r, i) = IF i = dp /\ r[ip].type = "dir" THEN Children(node, i) \cup {name}
                          ELSE Children(node, i)
      /\ i = dp => name \notin Children(node, i)
  <2>1. i = dp => name \notin Children(node, i)
    BY DEF Children, Entered
  <2>2. ASSUME NEW e \in Name
        PROVE  e \in Children(r, i) <=> IF i = dp /\ e = name THEN r[ip].type = "dir"
                                        ELSE e \in Children(node, i)
    <3>1. CASE i = dp /\ e = name
      <4>1. r[i].ents[e] = ip
        BY <3>1 DEF Entered
      <4> QED
        BY <1>0, <3>1, <4>1 DEF Children
    <3>2. CASE ~(i = dp /\ e = name)
      <4>1. r[i].ents[e] = node[i].ents[e]
        BY <3>2 DEF Entered
      <4>2. node[i].ents[e] # 0 =>
              (r[node[i].ents[e]].type = "dir" <=> node[node[i].ents[e]].type = "dir")
        BY DEF Entered
      <4> QED
        BY <3>2, <4>1, <4>2 DEF Children
    <3> QED
      BY <3>1, <3>2
  <2>3. Children(r, i) \subseteq Name /\ Children(node, i) \subseteq Name
    BY DEF Children
  <2> QED
    BY <2>1, <2>2, <2>3
<1>4. Cardinality(Children(r, i))
        = Cardinality(Children(node, i)) + (IF i = dp /\ r[ip].type = "dir" THEN 1 ELSE 0)
  <2>1. CASE i = dp /\ r[ip].type = "dir"
    <3>1. Cardinality(Children(node, i) \cup {name}) = Cardinality(Children(node, i)) + 1
      BY <1>3, <2>1, LinksFinite, FS_AddElement
    <3> QED
      BY <1>3, <2>1, <3>1
  <2>2. CASE ~(i = dp /\ r[ip].type = "dir")
    BY <1>3, <2>2, LinksFinite
  <2> QED
    BY <2>1, <2>2
<1>5. Names(node, i) \subseteq Names(r, i)
  BY <1>1
<1> QED
  BY <1>2, <1>4, <1>5, LinksFinite DEF Links, Added

\* The tree with a name more: for a new file or another link to one, or for a
\* new directory.
NameAdded(node, r, dp, name, ip) ==
  /\ \A j \in Inum : j # ip /\ j # dp => r[j] = node[j]
  /\ r[dp].type = "dir"
  /\ r[dp].nlink = node[dp].nlink + (IF r[ip].type = "dir" THEN 1 ELSE 0)
  /\ r[dp].ents = [node[dp].ents EXCEPT ![name] = ip]
  /\ r[ip].nlink = node[ip].nlink + 1
  /\ \/ r[ip].type = "file" /\ r[ip].ents = NoEntry /\ node[ip].type \in {"free", "file"}
     \/ r[ip].type = "dir" /\ r[ip].ents = NewDir(ip, dp) /\ node[ip].type = "free"

LEMMA TreeExtended ==
  ASSUME NEW node, Tree(node), NEW r \in Nodes,
         NEW dp \in Inum, LinkedDir(node, dp), NEW name \in Name, node[dp].ents[name] = 0,
         NEW ip \in Inum, NameAdded(node, r, dp, name, ip)
  PROVE  Tree(r)
<1>1. node \in Nodes /\ Blank(node) /\ Dotted(node) /\ Parents(node) /\ Counted(node)
  BY DEF Tree
<1>2. ip # dp /\ ip # Root /\ node[ip].type # "dir" /\ name # "." /\ name # ".."
  <2>1. node[ip].type # "dir"
    BY DEF NameAdded
  <2> QED
    BY <1>1, <2>1, Constants DEF Parents, LinkedDir
<1>3. node[dp].ents \in [Elem -> Inum \cup {0}] /\ name \in Elem
  BY <1>1, NodeIs, Constants
<1>4. NewDir(ip, dp) = [e \in Elem |-> IF e = "." THEN ip ELSE IF e = ".." THEN dp ELSE 0]
  BY Constants DEF NewDir, NoEntry
<1>5. node[ip].ents = NoEntry
  BY <1>1, <1>2 DEF Blank
<1>6. ASSUME NEW j \in Inum, NEW e \in Name
      PROVE  r[j].ents[e] = IF j = dp /\ e = name THEN ip ELSE node[j].ents[e]
  <2>1. CASE j = ip
    <3>1. r[ip].ents[e] = 0
      BY <1>4, FreeIs, Constants DEF NameAdded
    <3> QED
      BY <1>2, <1>5, <2>1, <3>1, FreeIs, Constants
  <2>2. CASE j = dp
    BY <1>3, <2>2, Constants DEF NameAdded
  <2>3. CASE j # ip /\ j # dp
    BY <2>3 DEF NameAdded
  <2> QED
    BY <2>1, <2>2, <2>3
<1>7. ASSUME NEW j \in Inum, j # ip
      PROVE  /\ r[j].type = node[j].type
             /\ r[j].ents["."] = node[j].ents["."] /\ r[j].ents[".."] = node[j].ents[".."]
             /\ r[j].nlink >= node[j].nlink
  <2>1. CASE j = dp
    <3>1. r[dp].ents["."] = node[dp].ents["."] /\ r[dp].ents[".."] = node[dp].ents[".."]
      BY <1>2, <1>3, Constants DEF NameAdded
    <3>2. r[dp].type = "dir" /\ node[dp].type = "dir"
      BY DEF NameAdded, LinkedDir
    <3>3. node[dp].nlink \in Nat
      BY TreeFacts
    <3>4. r[dp].nlink >= node[dp].nlink
      BY <3>3 DEF NameAdded
    <3> QED
      BY <2>1, <3>1, <3>2, <3>4
  <2>2. CASE j # dp
    <3>1. node[j].nlink \in Nat
      BY TreeFacts
    <3> QED
      BY <1>7, <2>2, <3>1 DEF NameAdded
  <2> QED
    BY <2>1, <2>2
<1>8. ASSUME NEW j \in Inum, NEW e \in Name, node[j].ents[e] # 0
      PROVE  /\ node[j].ents[e] \in Inum
             /\ r[node[j].ents[e]].type = "dir" <=> node[node[j].ents[e]].type = "dir"
             /\ node[j].ents[e] = ip => r[ip].type = "file"
  <2>1. node[j].ents[e] \in Inum /\ node[node[j].ents[e]].type # "free"
    BY <1>8, TreeFacts DEF Linked
  <2>2. node[j].ents[e] = ip => r[ip].type = "file" /\ node[ip].type = "file"
    BY <2>1 DEF NameAdded
  <2> QED
    BY <1>7, <2>1, <2>2
<1>9. Entered(node, r, dp, name, ip)
  BY <1>6, <1>8 DEF Entered
<1>10. ASSUME NEW i \in Inum PROVE r[i].nlink = Links(r, i)
  <2>1. node[i].nlink = Links(node, i) /\ node[i].nlink \in Nat
    BY <1>1, TreeFacts DEF Counted
  <2>2. Links(r, i) = Links(node, i) + Added(r, dp, ip, i)
    BY <1>9, LinksEntered
  <2>3. r[i].nlink = node[i].nlink + Added(r, dp, ip, i)
    BY <1>2, <2>1 DEF NameAdded, Added
  <2> QED
    BY <2>1, <2>2, <2>3
<1>11. Blank(r)
  <2>1. ASSUME NEW i \in Inum
        PROVE  /\ r[i].type = "free" => r[i] = FreeNode
               /\ r[i].type # "dir" => r[i].ents = NoEntry
               /\ r[i].nlink = 0 => \A e \in Name : r[i].ents[e] = 0
    <3>1. CASE i = ip
      <4>1. node[ip].nlink \in Nat
        BY TreeFacts
      <4> QED
        BY <3>1, <4>1 DEF NameAdded
    <3>2. CASE i = dp
      <4>1. node[dp].nlink > 0 /\ node[dp].nlink \in Nat
        BY TreeFacts DEF LinkedDir
      <4> QED
        BY <3>2, <4>1 DEF NameAdded
    <3>3. CASE i # ip /\ i # dp
      BY <1>1, <3>3 DEF NameAdded, Blank
    <3> QED
      BY <3>1, <3>2, <3>3
  <2> QED
    BY <2>1 DEF Blank
<1>12. Dotted(r)
  <2>1. r[ip].type = "dir" => r[ip].ents["."] = ip /\ r[ip].ents[".."] # 0
    BY <1>4, Constants DEF NameAdded
  <2> QED
    BY <1>1, <1>7, <2>1 DEF Dotted
<1>13. Parents(r)
  <2>1. r[Root].type = "dir" /\ r[Root].ents[".."] = Root
    BY <1>1, <1>2, <1>7, Constants DEF Parents
  <2>2. ASSUME NEW d \in Inum, NEW e \in Name, NEW i, i = r[d].ents[e], i # 0
        PROVE  i # Root /\ (r[i].type = "dir" => r[i].ents[".."] = d)
    <3>1. CASE d = dp /\ e = name
      <4>1. i = ip
        BY <1>6, <2>2, <3>1
      <4> QED
        BY <1>2, <1>4, <3>1, <4>1, Constants DEF NameAdded
    <3>2. CASE ~(d = dp /\ e = name)
      <4>1. i = node[d].ents[e]
        BY <1>6, <2>2, <3>2
      <4>2. i \in Inum /\ (r[i].type = "dir" <=> node[i].type = "dir") /\ (i = ip => r[ip].type = "file")
        BY <1>8, <2>2, <4>1
      <4>3. i # Root /\ (node[i].type = "dir" => node[i].ents[".."] = d)
        BY <1>1, <2>2, <4>1 DEF Parents
      <4> QED
        BY <1>7, <4>2, <4>3
    <3> QED
      BY <3>1, <3>2
  <2>3. ASSUME NEW i \in Inum, LinkedDir(r, i), i # Root
        PROVE  \E d \in Inum, e \in Name : r[d].ents[e] = i
    <3>1. CASE i = ip
      BY <1>6, <3>1
    <3>2. CASE i # ip
      <4>1. node[i].type = "dir"
        BY <1>7, <2>3, <3>2 DEF LinkedDir
      <4>2. node[i].nlink > 0
        <5>1. CASE i = dp
          BY <5>1 DEF LinkedDir
        <5>2. CASE i # dp
          BY <2>3, <3>2, <5>2 DEF NameAdded, LinkedDir
        <5> QED
          BY <5>1, <5>2
      <4>3. PICK d \in Inum, e \in Name : node[d].ents[e] = i
        BY <1>1, <2>3, <4>1, <4>2 DEF Parents, LinkedDir
      <4>4. ~(d = dp /\ e = name)
        BY <4>3, Constants
      <4> QED
        BY <1>6, <4>3, <4>4
    <3> QED
      BY <3>1, <3>2
  <2> QED
    BY <2>1, <2>2, <2>3 DEF Parents
<1> QED
  BY <1>10, <1>11, <1>12, <1>13 DEF Tree, Counted

\* The tree with a name less; the inode it led to may have no other.
NameRemoved(node, r, dp, name, ip) ==
  /\ \A j \in Inum : j # ip /\ j # dp => r[j] = node[j]
  /\ r[dp].type = "dir"
  /\ r[dp].nlink = node[dp].nlink - (IF node[ip].type = "dir" THEN 1 ELSE 0)
  /\ r[dp].ents = [node[dp].ents EXCEPT ![name] = 0]
  /\ r[ip] = [type |-> node[ip].type, nlink |-> node[ip].nlink - 1, ents |-> node[ip].ents]

LEMMA TreeRemoved ==
  ASSUME NEW node, Tree(node), NEW r \in Nodes,
         NEW dp \in Inum, NEW name \in Name, NEW ip \in Inum, node[dp].ents[name] = ip,
         node[ip].type = "dir" => \A e \in Name : node[ip].ents[e] = 0,
         dp # ip, NameRemoved(node, r, dp, name, ip)
  PROVE  Tree(r) /\ r[dp].nlink > 0
<1>1. node \in Nodes /\ Blank(node) /\ Dotted(node) /\ Parents(node) /\ Counted(node)
  BY DEF Tree
<1>2. ip # Root /\ ip # 0 /\ LinkedDir(node, dp) /\ Linked(node, ip)
  BY <1>1, TreeFacts, Constants DEF Parents
<1>3. node[dp].ents \in [Elem -> Inum \cup {0}] /\ name \in Elem
  BY <1>1, NodeIs, Constants
<1>4. \A j \in Inum : node[j].nlink \in Nat
  BY TreeFacts
<1>5. \A e \in Elem : r[dp].ents[e] = IF e = name THEN 0 ELSE node[dp].ents[e]
  BY <1>3 DEF NameRemoved
<1>6. ASSUME NEW j \in Inum
      PROVE  /\ r[j].type = node[j].type /\ (j # dp => r[j].ents = node[j].ents)
             /\ r[j].ents["."] = node[j].ents["."] /\ r[j].ents[".."] = node[j].ents[".."]
             /\ j # ip /\ j # dp => r[j].nlink = node[j].nlink
             /\ \A e \in Name : r[j].ents[e] = IF j = dp /\ e = name THEN 0 ELSE node[j].ents[e]
  <2>1. CASE j = dp
    <3>1. "." # name /\ ".." # name
      BY Constants
    <3>2. r[dp].type = node[dp].type
      BY <1>2 DEF NameRemoved, LinkedDir
    <3> QED
      BY <1>5, <2>1, <3>1, <3>2, Constants
  <2>2. CASE j = ip
    BY <2>2 DEF NameRemoved
  <2>3. CASE j # ip /\ j # dp
    BY <2>3 DEF NameRemoved
  <2> QED
    BY <2>1, <2>2, <2>3
<1>7. Entered(r, node, dp, name, ip)
  <2>1. r[dp].ents[name] = 0
    BY <1>6
  <2>2. \A j \in Inum, e \in Name : node[j].ents[e] = IF j = dp /\ e = name THEN ip ELSE r[j].ents[e]
    BY <1>6
  <2>3. ASSUME NEW j \in Inum, NEW e \in Name, r[j].ents[e] # 0
        PROVE  r[j].ents[e] \in Inum
    <3>1. e \in Elem
      BY Constants
    <3>2. r[j].ents[e] \in Inum \cup {0}
      BY <3>1, NodeIs
    <3> QED
      BY <2>3, <3>2
  <2> QED
    BY <1>6, <2>1, <2>2, <2>3 DEF Entered
<1>8. ASSUME NEW i \in Inum
      PROVE  r[i].nlink = Links(r, i) /\ Names(r, i) \subseteq Names(node, i)
  <2>1. node[i].nlink = Links(node, i) /\ node[i].nlink \in Nat
    BY <1>1, <1>4 DEF Counted
  <2>2. Links(node, i) = Links(r, i) + Added(node, dp, ip, i) /\ Names(r, i) \subseteq Names(node, i)
    BY <1>7, LinksEntered
  <2>3. r[i].nlink = node[i].nlink - Added(node, dp, ip, i)
    <3>1. CASE i = dp
      BY <2>1, <3>1 DEF NameRemoved, Added
    <3>2. CASE i = ip
      BY <2>1, <3>2 DEF NameRemoved, Added
    <3>3. CASE i # ip /\ i # dp
      BY <1>6, <2>1, <3>3 DEF Added
    <3> QED
      BY <3>1, <3>2, <3>3
  <2>4. Links(r, i) \in Nat
    BY LinksFinite DEF Links
  <2>5. Added(node, dp, ip, i) \in Nat
    BY DEF Added
  <2> QED
    BY <2>1, <2>2, <2>3, <2>4, <2>5
<1>9. ASSUME NEW i \in Inum, i = Root \/ Names(r, i) # {} PROVE r[i].nlink > 0
  <2>1. Links(r, i) = Cardinality(Names(r, i)) + Cardinality(Children(r, i)) + (IF i = Root THEN 1 ELSE 0)
    BY DEF Links
  <2>2. Links(r, i) > 0
    BY <1>9, <2>1, LinksFinite
  <2> QED
    BY <1>8, <2>2
<1>10. ASSUME NEW i \in Inum, i # ip, i # Root, LinkedDir(node, i)
       PROVE  \E d \in Inum, e \in Name : r[d].ents[e] = i
  <2>1. PICK d \in Inum, e \in Name : node[d].ents[e] = i
    BY <1>1, <1>10 DEF Parents
  <2>2. ~(d = dp /\ e = name)
    BY <1>10, <2>1
  <2> QED
    BY <1>6, <2>1, <2>2
<1>11. r[dp].nlink > 0
  <2>1. ASSUME dp # Root PROVE Names(r, dp) # {}
    <3>1. PICK d \in Inum, e \in Name : r[d].ents[e] = dp
      BY <1>2, <1>10, <2>1
    <3>2. <<d, e>> \in Names(r, dp)
      BY <3>1 DEF Names
    <3> QED
      BY <3>2
  <2> QED
    BY <1>9, <2>1
<1>12. Blank(r)
  <2>1. ASSUME NEW i \in Inum
        PROVE  /\ r[i].type = "free" => r[i] = FreeNode
               /\ r[i].type # "dir" => r[i].ents = NoEntry
               /\ r[i].nlink = 0 => \A e \in Name : r[i].ents[e] = 0
    <3>1. CASE i = ip
      <4>1. node[ip].type # "dir" => node[ip].ents = NoEntry
        BY <1>1 DEF Blank
      <4>2. node[ip].type # "free"
        BY <1>2 DEF Linked
      <4>3. \A e \in Name : node[ip].ents[e] = 0
        BY <4>1, FreeIs, Constants
      <4> QED
        BY <1>6, <3>1, <4>1, <4>2, <4>3
    <3>2. CASE i = dp
      BY <1>11, <3>2 DEF NameRemoved
    <3>3. CASE i # ip /\ i # dp
      BY <1>1, <3>3 DEF NameRemoved, Blank
    <3> QED
      BY <3>1, <3>2, <3>3
  <2> QED
    BY <2>1 DEF Blank
<1>13. Dotted(r)
  BY <1>1, <1>6 DEF Dotted
<1>14. Parents(r)
  <2>1. r[Root].type = "dir" /\ r[Root].ents[".."] = Root
    BY <1>1, <1>6, Constants DEF Parents
  <2>2. ASSUME NEW d \in Inum, NEW e \in Name, NEW i, i = r[d].ents[e], i # 0
        PROVE  i # Root /\ (r[i].type = "dir" => r[i].ents[".."] = d)
    <3>1. i = node[d].ents[e]
      BY <1>6, <2>2
    <3>2. i \in Inum /\ i # Root /\ (node[i].type = "dir" => node[i].ents[".."] = d)
      BY <1>1, <2>2, <3>1, TreeFacts DEF Parents
    <3> QED
      BY <1>6, <3>2
  <2>3. ASSUME NEW i \in Inum, LinkedDir(r, i), i # Root
        PROVE  \E d \in Inum, e \in Name : r[d].ents[e] = i
    <3>1. CASE i = ip
      <4>1. node[ip].type = "dir"
        BY <1>6, <2>3, <3>1 DEF LinkedDir
      <4>2. Children(r, ip) = {}
        BY <1>6, <3>1, <4>1 DEF Children
      <4>3. Cardinality(Children(r, ip)) = 0
        BY <4>2, FS_EmptySet
      <4>4. Cardinality(Names(r, ip)) # 0
        BY <1>8, <2>3, <3>1, <4>3, LinksFinite DEF Links, LinkedDir
      <4>5. Names(r, ip) # {}
        BY <4>4, FS_EmptySet
      <4> QED
        BY <3>1, <4>5 DEF Names
    <3>2. CASE i = dp
      BY <1>2, <1>10, <2>3, <3>2
    <3>3. CASE i # ip /\ i # dp
      BY <1>6, <1>10, <2>3, <3>3 DEF LinkedDir
    <3> QED
      BY <3>1, <3>2, <3>3
  <2> QED
    BY <2>1, <2>2, <2>3 DEF Parents
<1> QED
  BY <1>8, <1>11, <1>12, <1>13, <1>14 DEF Tree, Counted

\* The tree without an inode that no name leads to.
LEMMA TreeFreed ==
  ASSUME NEW node, Tree(node), NEW i \in Inum, node[i].nlink = 0
  PROVE  Tree([node EXCEPT ![i] = FreeNode])
<1> DEFINE r == [node EXCEPT ![i] = FreeNode]
<1>1. node \in Nodes /\ Blank(node) /\ Dotted(node) /\ Parents(node) /\ Counted(node)
  BY DEF Tree
<1>2. r \in Nodes /\ \A j \in Inum : r[j] = IF j = i THEN FreeNode ELSE node[j]
  BY <1>1, FreeIs DEF Nodes
<1>3. i # Root
  BY TreeFacts DEF LinkedDir
<1> HIDE DEF r
<1>4. \A j \in Inum, e \in Name : r[j].ents[e] = node[j].ents[e]
  BY <1>1, <1>2, FreeIs, Constants DEF Blank
<1>5. \A j \in Inum, e \in Name : node[j].ents[e] # 0 => node[j].ents[e] \in Inum /\ node[j].ents[e] # i
  BY TreeFacts DEF Linked
<1>6. ASSUME NEW j \in Inum PROVE Links(r, j) = Links(node, j)
  <2>1. Names(r, j) = Names(node, j)
    BY <1>4 DEF Names
  <2>2. Children(r, j) = Children(node, j)
    BY <1>2, <1>4, <1>5 DEF Children
  <2> QED
    BY <2>1, <2>2 DEF Links
<1>7. Blank(r) /\ Dotted(r) /\ Counted(r)
  BY <1>1, <1>2, <1>6, FreeIs, Constants DEF Blank, Dotted, Counted
<1>8. Parents(r)
  <2>1. r[Root].type = "dir" /\ r[Root].ents[".."] = Root
    BY <1>1, <1>2, <1>3, Constants DEF Parents
  <2>2. ASSUME NEW d \in Inum, NEW e \in Name, NEW j, j = r[d].ents[e], j # 0
        PROVE  j # Root /\ (r[j].type = "dir" => r[j].ents[".."] = d)
    BY <1>1, <1>2, <1>4, <1>5, <2>2 DEF Parents
  <2>3. ASSUME NEW j \in Inum, LinkedDir(r, j), j # Root
        PROVE  \E d \in Inum, e \in Name : r[d].ents[e] = j
    BY <1>1, <1>2, <1>4, <2>3, FreeIs DEF Parents, LinkedDir
  <2> QED
    BY <2>1, <2>2, <2>3 DEF Parents
<1> QED
  BY <1>2, <1>7, <1>8 DEF Tree, r

\* mkfs's tree.
LEMMA TreeStarts == Tree(MkfsNode)
<1> DEFINE top == NewDir(Root, Root)
<1>1. top \in [Elem -> Inum \cup {0}] /\ top["."] = Root /\ top[".."] = Root
      /\ \A e \in Name : top[e] = 0
  BY Constants DEF NewDir, NoEntry
<1> HIDE DEF top
<1>2. MkfsNode = [j \in Inum |-> IF j = Root THEN [type |-> "dir", nlink |-> 1, ents |-> top]
                                 ELSE FreeNode]
  BY DEF MkfsNode, top
<1>3. MkfsNode \in Nodes
  BY <1>1, <1>2, FreeIs DEF Nodes, NodeType
<1>4. \A j \in Inum, e \in Name : MkfsNode[j].ents[e] = 0
  BY <1>1, <1>2, FreeIs, Constants
<1>5. ASSUME NEW j \in Inum PROVE Links(MkfsNode, j) = IF j = Root THEN 1 ELSE 0
  <2>1. Names(MkfsNode, j) = {} /\ Children(MkfsNode, j) = {}
    BY <1>4, Constants DEF Names, Children
  <2> QED
    BY <2>1, FS_EmptySet DEF Links
<1>6. Blank(MkfsNode) /\ Dotted(MkfsNode) /\ Counted(MkfsNode)
  BY <1>1, <1>2, <1>4, <1>5, FreeIs, Constants DEF Blank, Dotted, Counted
<1>7. Parents(MkfsNode)
  BY <1>1, <1>2, <1>4, FreeIs, Constants DEF Parents, LinkedDir
<1> QED
  BY <1>3, <1>6, <1>7 DEF Tree
--------------------------------------------------------------------------------
(* create().                                                                 *)

\* Every inode is as it was, but for links and entries, or it is a new one.
Grown(node, r) ==
  \A i \in Inum :
    /\ node[i].nlink > 0 => r[i].nlink > 0 /\ r[i].type = node[i].type
    /\ node[i].nlink = 0 => \/ r[i] = node[i]
                            \/ node[i].type = "free" /\ r[i].nlink > 0
\* A state between two transactions, and what a call has made of it, k.
Settled(k0, k1) ==
  /\ Good(k1) /\ k1.ref = k0.ref /\ Tree(k1.node) /\ Grown(k0.node, k1.node)
Got(k0, w) == \E k1 : Settled(k0, k1) /\ WalkIs(k1, w)

LEMMA SettledSelf ==
  ASSUME NEW k0, Good(k0), Tree(k0.node)
  PROVE  Settled(k0, k0) /\ \A w : WalkIs(k0, w) => Got(k0, w)
<1>1. Grown(k0.node, k0.node)
  BY DEF Grown
<1> QED
  BY <1>1 DEF Settled, Got

\* A changed entry and a changed number of links.
LEMMA EntrySet ==
  ASSUME NEW k \in FsType, NEW i \in Inum, NEW e \in Elem, NEW x, x \in Inum \/ x = 0,
         NEW n, n = WithEntry(k.node[i], e, x)
  PROVE  /\ n \in NodeType /\ SetEntry(k, i, e, x) = Iupdate(k, i, n)
         /\ n.type = k.node[i].type /\ n.nlink = k.node[i].nlink
<1>1. PICK m \in NodeType : m = k.node[i]
  BY FsIs, NodeIs
<1>2. /\ [m EXCEPT !.ents[e] = x] = WithEntry(m, e, x) /\ WithEntry(m, e, x) \in NodeType
      /\ WithEntry(m, e, x).type = m.type /\ WithEntry(m, e, x).nlink = m.nlink
  BY DEF NodeType, WithEntry
<1> QED
  BY <1>1, <1>2 DEF SetEntry

LEMMA LinksChanged ==
  ASSUME NEW k \in FsType, NEW i \in Inum, NEW d \in Int, NEW n, n = WithLinks(k.node[i], d)
  PROVE  /\ n \in NodeType /\ AddLinks(k, i, d) = Iupdate(k, i, n)
         /\ n.type = k.node[i].type /\ n.nlink = k.node[i].nlink + d /\ n.ents = k.node[i].ents
<1>1. PICK m \in NodeType : m = k.node[i]
  BY FsIs, NodeIs
<1>2. /\ [m EXCEPT !.nlink = @ + d] = WithLinks(m, d) /\ WithLinks(m, d) \in NodeType
      /\ WithLinks(m, d).type = m.type /\ WithLinks(m, d).nlink = m.nlink + d
      /\ WithLinks(m, d).ents = m.ents
  BY DEF NodeType, WithLinks
<1> QED
  BY <1>1, <1>2 DEF AddLinks

LEMMA LinkDropped ==
  ASSUME NEW k \in FsType, NEW i \in Inum, NEW n, n = WithLinks(k.node[i], 0 - 1)
  PROVE  /\ n \in NodeType /\ DropLink(k, i) = Iupdate(k, i, n)
         /\ n.type = k.node[i].type /\ n.nlink = k.node[i].nlink - 1 /\ n.ents = k.node[i].ents
<1>1. PICK m \in NodeType : m = k.node[i]
  BY FsIs, NodeIs
<1>2. /\ [m EXCEPT !.nlink = @ - 1] = WithLinks(m, 0 - 1) /\ WithLinks(m, 0 - 1) \in NodeType
      /\ WithLinks(m, 0 - 1).type = m.type /\ WithLinks(m, 0 - 1).nlink = m.nlink - 1
      /\ WithLinks(m, 0 - 1).ents = m.ents
  BY DEF NodeType, WithLinks
<1> QED
  BY <1>1, <1>2 DEF DropLink

\* They leave a panic be.
LEMMA StuckChanges ==
  ASSUME NEW k, Stuck(k), NEW i \in Inum
  PROVE  /\ \A e \in Elem, x \in Inum \cup {0} : Stuck(SetEntry(k, i, e, x))
         /\ \A d \in Int : Stuck(AddLinks(k, i, d))
         /\ Stuck(DropLink(k, i))
<1>1. k \in FsType /\ \A n \in NodeType : Stuck(Iupdate(k, i, n))
  BY StuckStays DEF Stuck
<1>2. ASSUME NEW e \in Elem, NEW x \in Inum \cup {0} PROVE Stuck(SetEntry(k, i, e, x))
  BY <1>1, EntrySet
<1>3. ASSUME NEW d \in Int PROVE Stuck(AddLinks(k, i, d))
  BY <1>1, LinksChanged
<1>4. Stuck(DropLink(k, i))
  BY <1>1, LinkDropped
<1> QED
  BY <1>2, <1>3, <1>4

\* The new inode, locked.
LEMMA MadeIs ==
  ASSUME NEW k0, Good(k0), NEW dp \in Inum, NEW k, Good(k), Holds(k0, k, dp),
         NEW ip \in Inum, k0.node[ip].type = "free", NEW new \in NodeType,
         new.type # "free", new.nlink = 1,
         NEW made, made = Ilock(Iget(Iupdate(k, ip, new), ip), ip)
  PROVE  \/ Stuck(made)
         \/ /\ Good(made) /\ made.node = [k0.node EXCEPT ![ip] = new] /\ ip \in made.valid
            /\ made.ref = [[k0.ref EXCEPT ![dp] = @ + 1] EXCEPT ![ip] = @ + 1]
            /\ k0.ref[ip] = 0 /\ ip # dp
<1>1. k.node = k0.node /\ Linked(k0.node, dp) /\ k.ref = [k0.ref EXCEPT ![dp] = @ + 1]
  BY Constants DEF Holds, Stuck, Good
<1>2. k0.node \in Nodes /\ k0.ref \in [Inum -> Int] /\ k.ref \in [Inum -> Int]
  BY FsIs DEF Good
<1>3. ip # dp /\ k0.ref[ip] = 0 /\ k.ref[ip] = 0
  BY <1>1, <1>2 DEF Linked, Good, Alive
<1> DEFINE u == Iupdate(k, ip, new)
           g == Iget(u, ip)
<1>4. Good(u) /\ u.node = [k0.node EXCEPT ![ip] = new] /\ u.ref = k.ref
  BY <1>1, <1>3, IupdateIs DEF Becomes
<1> HIDE DEF u
<1>5. u.node[ip] = new /\ Linked(u.node, ip)
  BY <1>2, <1>4 DEF Nodes, Linked
<1>6. Stuck(g) \/ (Good(g) /\ g.node = u.node /\ g.ref = [u.ref EXCEPT ![ip] = @ + 1])
  <2>1. OneMore(u.ref)
    BY <1>1, <1>4, HeldIsOneMore DEF Holds
  <2> QED
    BY <1>4, <1>5, <2>1, IgetIs DEF Becomes
<1>7. made = Ilock(g, ip)
  BY DEF u
<1> HIDE DEF g
<1>8. CASE Stuck(g)
  BY <1>7, <1>8, StuckStays
<1>9. CASE Good(g) /\ g.node = u.node /\ g.ref = [u.ref EXCEPT ![ip] = @ + 1]
  <2>1. g.ref[ip] > 0
    BY <1>2, <1>3, <1>4, <1>9
  <2>2. Good(made) /\ made.node = g.node /\ made.ref = g.ref /\ ip \in made.valid
    <3>1. Becomes(g, Ilock(g, ip), g.node, g.ref, 0) /\ ip \in Ilock(g, ip).valid
      BY ONLY <1>9, <2>1, ip \in Inum, IlockIs
    <3> QED
      BY <1>7, <3>1 DEF Becomes
  <2> QED
    BY <1>1, <1>3, <1>4, <1>9, <2>2
<1> QED
  BY <1>6, <1>8, <1>9

\* It gets its name: the state is settled again, with a reference to it.
LEMMA NamedIs ==
  ASSUME NEW k0, Good(k0), k0.ref = fs.ref, Tree(k0.node), NEW dp \in Inum, LinkedDir(k0.node, dp),
         NEW name \in Name, k0.node[dp].ents[name] = 0,
         NEW ip \in Inum, k0.node[ip].type = "free", NEW new \in NodeType, new.nlink = 1,
         \/ new.type = "file" /\ new.ents = NoEntry
         \/ new.type = "dir" /\ new.ents = NewDir(ip, dp),
         NEW d, d = IF new.type = "dir" THEN 1 ELSE 0,
         NEW made, Good(made), made.node = [k0.node EXCEPT ![ip] = new],
         made.ref = [[k0.ref EXCEPT ![dp] = @ + 1] EXCEPT ![ip] = @ + 1], ip # dp,
         NEW r, r = Iput(AddLinks(SetEntry(made, dp, name, ip), dp, d), dp)
  PROVE  Got(k0, At(r, ip))
<1>1. k0.node \in Nodes /\ k0.ref \in [Inum -> Int] /\ made.node \in Nodes
      /\ k0.valid \in SUBSET Inum /\ name \in Elem /\ d \in Int
  BY FsIs, Constants DEF Good
<1>2. made.node[dp] = k0.node[dp] /\ k0.node[dp].nlink > 0
      /\ k0.node[dp].type = "dir" /\ k0.node[dp].nlink \in Int
  <2>1. made.node[dp] = k0.node[dp]
    BY <1>1 DEF Nodes
  <2> QED
    BY <1>1, <2>1, NodeIs DEF LinkedDir
<1>3. made.ref[dp] > 0 /\ k0.ref[dp] >= 0
  BY <1>1 DEF Good, Alive
<1> DEFINE ents == [k0.node[dp].ents EXCEPT ![name] = ip]
           n2 == WithEntry(made.node[dp], name, ip)
           m2 == SetEntry(made, dp, name, ip)
<1>4. /\ n2.type = "dir" /\ n2.nlink = k0.node[dp].nlink /\ n2.ents = ents
      /\ n2 \in NodeType /\ m2 = Iupdate(made, dp, n2)
  <2>1. made \in FsType
    BY DEF Good
  <2> HIDE DEF n2, m2
  <2>2. n2 = WithEntry(made.node[dp], name, ip) /\ m2 = SetEntry(made, dp, name, ip)
    BY DEF n2, m2
  <2>3. /\ n2 \in NodeType /\ m2 = Iupdate(made, dp, n2)
        /\ n2.type = made.node[dp].type /\ n2.nlink = made.node[dp].nlink
    <3>1. name \in Elem /\ ip \in Inum
      BY <1>1
    <3> QED
      BY ONLY <2>1, <2>2, <3>1, dp \in Inum, EntrySet
  <2>4. n2.ents = ents
    BY <1>2, <2>2 DEF WithEntry
  <2> QED
    BY <1>2, <2>3, <2>4
<1> HIDE DEF n2, m2
<1>6. Good(m2) /\ m2.node = [made.node EXCEPT ![dp] = n2] /\ m2.ref = made.ref
  <2>1. n2 \in NodeType /\ m2 = Iupdate(made, dp, n2)
    BY <1>4
  <2>2. n2.nlink >= 0 /\ n2.type # "free" /\ n2.nlink # 0
    BY <1>2, <1>4
  <2>3. Becomes(made, Iupdate(made, dp, n2), [made.node EXCEPT ![dp] = n2], made.ref, 0)
    BY ONLY <2>1, <2>2, Good(made), dp \in Inum, IupdateIs
  <2> QED
    BY ONLY <2>1, <2>3 DEF Becomes
<1> DEFINE n3 == WithLinks(m2.node[dp], d)
           m3 == AddLinks(m2, dp, d)
<1>7. m2.node[dp] = n2
  BY <1>1, <1>6 DEF Nodes
<1>8. /\ n3 \in NodeType /\ m3 = Iupdate(m2, dp, n3)
      /\ n3.type = n2.type /\ n3.nlink = n2.nlink + d /\ n3.ents = n2.ents
  <2>1. m2 \in FsType
    BY <1>6 DEF Good
  <2> HIDE DEF n3, m3
  <2>2. n3 = WithLinks(m2.node[dp], d) /\ m3 = AddLinks(m2, dp, d)
    BY DEF n3, m3
  <2> QED
    BY <1>1, <1>7, <2>1, <2>2, LinksChanged
<1>10. n3.nlink > 0 /\ n3.nlink = k0.node[dp].nlink + d /\ n3.type = "dir" /\ n3.ents = ents
  BY <1>2, <1>4, <1>8
<1> HIDE DEF n3, m3
<1>11. Good(m3) /\ m3.node = [m2.node EXCEPT ![dp] = n3] /\ m3.ref = made.ref
  <2>1. n3.nlink >= 0 /\ n3.type # "free" /\ n3.nlink # 0
    BY <1>1, <1>2, <1>10
  <2>2. Becomes(m2, Iupdate(m2, dp, n3), [m2.node EXCEPT ![dp] = n3], m2.ref, 0)
    BY <1>6, <1>8, <2>1, IupdateIs
  <2> QED
    BY <1>6, <1>8, <2>2 DEF Becomes
<1>12. m3.node \in Nodes
       /\ \A j \in Inum : m3.node[j] = IF j = dp THEN n3 ELSE IF j = ip THEN new ELSE k0.node[j]
  BY <1>1, <1>4, <1>6, <1>8, <1>11 DEF Nodes
<1>13. m3.ref[dp] > 0 /\ m3.node[dp].nlink > 0
  BY <1>3, <1>10, <1>11, <1>12
<1>14. Good(r) /\ r.node = m3.node /\ r.ref = [m3.ref EXCEPT ![dp] = @ - 1]
  <2>1. r = Iput(m3, dp)
    BY DEF m2, m3
  <2>2. Becomes(m3, Iput(m3, dp), m3.node, [m3.ref EXCEPT ![dp] = @ - 1], dp)
    BY <1>11, <1>13, IputIs
  <2> QED
    BY <2>1, <2>2 DEF Becomes
<1>15. r.ref = [k0.ref EXCEPT ![ip] = @ + 1]
  BY <1>1, <1>11, <1>14, PlusMinus
<1> DEFINE k1 == [node |-> m3.node, ref |-> k0.ref, valid |-> k0.valid, bad |-> "none"]
<1>16. Tree(m3.node)
  <2>1. FreeNode = k0.node[ip]
    BY DEF Tree, Blank
  <2>2. NameAdded(k0.node, m3.node, dp, name, ip)
    BY <1>10, <1>12, <2>1, FreeIs DEF NameAdded
  <2> QED
    BY <1>12, <2>2, TreeExtended
<1>17. Grown(k0.node, m3.node)
  <2>1. k0.node[ip].nlink = 0
    BY FreeIs DEF Tree, Blank
  <2> QED
    BY <1>2, <1>10, <1>12, <2>1 DEF Grown
<1>18. Good(k1) /\ k1.node = m3.node /\ k1.ref = k0.ref
  <2>1. ASSUME NEW i \in Inum
        PROVE  /\ k0.ref[i] >= 0 /\ m3.node[i].nlink >= 0
               /\ k0.ref[i] > 0 => /\ m3.node[i].type # "free"
                                   /\ m3.node[i].nlink = 0 => i \in k0.valid
    <3>1. /\ k0.ref[i] >= 0 /\ k0.node[i].nlink >= 0
          /\ k0.ref[i] > 0 => k0.node[i].type # "free"
                              /\ (k0.node[i].nlink = 0 => i \in k0.valid)
      BY DEF Good, Alive
    <3>2. CASE i = dp
      <4>1. m3.node[i] = n3 /\ n3.nlink > 0 /\ n3.nlink \in Int /\ n3.type = "dir"
        BY <1>1, <1>2, <1>10, <1>12, <3>2
      <4> QED
        BY <3>1, <4>1
    <3>3. CASE i = ip /\ i # dp
      BY <1>12, <3>1, <3>3
    <3>4. CASE i # ip /\ i # dp
      BY <1>12, <3>1, <3>4
    <3> QED
      BY <3>2, <3>3, <3>4
  <2> QED
    BY <1>1, <1>12, <2>1, GoodMade
<1> HIDE DEF k1
<1>19. Holds(k1, r, ip)
  <2>1. m3.node[ip] = new /\ Linked(m3.node, ip)
    BY <1>12 DEF Linked
  <2> QED
    BY <1>14, <1>15, <1>18, <2>1, Constants DEF Holds
<1>20. Settled(k0, k1) /\ WalkIs(k1, At(r, ip))
  BY <1>16, <1>17, <1>18, <1>19, WalkMade DEF Settled
<1> QED
  BY <1>20 DEF Got

\* There is no room for its name: it is freed again.
LEMMA UnmadeIs ==
  ASSUME NEW k0, Good(k0), k0.ref = fs.ref, Tree(k0.node), NEW dp \in Inum, LinkedDir(k0.node, dp),
         NEW ip \in Inum, k0.node[ip].type = "free", NEW new \in NodeType, new.nlink = 1,
         new.type # "free",
         NEW made, Good(made), made.node = [k0.node EXCEPT ![ip] = new], ip \in made.valid,
         made.ref = [[k0.ref EXCEPT ![dp] = @ + 1] EXCEPT ![ip] = @ + 1], k0.ref[ip] = 0, ip # dp,
         NEW r, r = Iput(Iput(DropLink(made, ip), ip), dp)
  PROVE  Got(k0, At(r, 0))
<1>1. k0.node \in Nodes /\ k0.ref \in [Inum -> Int] /\ made.node \in Nodes
  BY FsIs DEF Good
<1>2. made.node[ip] = new /\ k0.node[ip] = FreeNode /\ made.ref[ip] = 1
  BY <1>1 DEF Tree, Blank, Nodes
<1> DEFINE n2 == WithLinks(made.node[ip], 0 - 1)
           m2 == DropLink(made, ip)
<1>4. /\ n2 \in NodeType /\ m2 = Iupdate(made, ip, n2)
      /\ n2.type = new.type /\ n2.nlink = new.nlink - 1
  <2>1. made \in FsType
    BY DEF Good
  <2> HIDE DEF n2, m2
  <2>2. n2 = WithLinks(made.node[ip], 0 - 1) /\ m2 = DropLink(made, ip)
    BY DEF n2, m2
  <2> QED
    BY <1>2, <2>1, <2>2, LinkDropped
<1>3. n2.nlink = 0 /\ n2.type # "free"
  BY <1>4
<1> HIDE DEF n2, m2
<1>5. Good(m2) /\ m2.node = [made.node EXCEPT ![ip] = n2] /\ m2.ref = made.ref
  BY <1>3, <1>4, IupdateIs DEF Becomes
<1>6. m2.node[ip] = n2
  BY <1>1, <1>5 DEF Nodes
<1> DEFINE m3 == Iput(m2, ip)
<1>7. Good(m3) /\ m3.node = [m2.node EXCEPT ![ip] = FreeNode] /\ m3.ref = [m2.ref EXCEPT ![ip] = @ - 1]
  BY <1>2, <1>3, <1>5, <1>6, IputFrees DEF Becomes
<1>8. r = Iput(m3, dp)
  BY DEF m2
<1> HIDE DEF m3
<1>9. m3.node = k0.node
  <2>1. \A j \in Inum : m3.node[j] = k0.node[j]
    BY <1>1, <1>2, <1>5, <1>7 DEF Nodes
  <2>2. m3.node \in Nodes
    BY <1>7, FsIs DEF Good
  <2> QED
    BY <1>1, <2>1, <2>2, SameFunction DEF Nodes
<1>10. m3.ref = [k0.ref EXCEPT ![dp] = @ + 1]
  BY <1>1, <1>5, <1>7, PlusMinus
<1>11. Holds(k0, m3, dp)
  <2>1. Linked(k0.node, dp)
    BY DEF LinkedDir, Linked
  <2> QED
    BY <1>7, <1>9, <1>10, <2>1, Constants DEF Holds
<1>12. Holds(k0, r, 0)
  BY <1>8, <1>11, HeldPut
<1> QED
  BY <1>12, WalkMade, SettledSelf
\* The first of a set of numbers, 0 for none.
LEMMA LeastIs ==
  ASSUME NEW S, S \subseteq Nat
  PROVE  /\ S # {} => Least(S) \in S /\ Lowest(S) \in S /\ Least(S) = Lowest(S)
         /\ S = {} => Least(S) = 0
<1>1. ASSUME S # {} PROVE \E x \in S : \A y \in S : x <= y
  BY <1>1, LeastOf
<1> QED
  BY <1>1 DEF Least, Lowest

LEMMA IallocIs ==
  ASSUME NEW k \in FsType, NEW i, i = Ialloc(k)
  PROVE  i \in Inum \cup {0} /\ (i # 0 => k.node[i].type = "free")
<1> DEFINE S == {j \in Inum : k.node[j].type = "free"}
<1>1. S \subseteq Nat
  BY Constants
<1>2. i = Least(S)
  BY DEF Ialloc
<1>3. (S # {} => i \in S) /\ (S = {} => i = 0)
  BY <1>1, <1>2, LeastIs
<1> QED
  BY <1>3

LEMMA NewNode ==
  ASSUME NEW ip \in Inum, NEW dp \in Inum, NEW type \in {"dir", "dev", "file"}, NEW new,
         new = [type |-> IF type = "dir" THEN type ELSE "file", nlink |-> 1,
                ents |-> IF type = "dir" THEN NewDir(ip, dp) ELSE NoEntry]
  PROVE  /\ new \in NodeType /\ new.nlink = 1 /\ new.type # "free"
         /\ new.type = "dir" <=> type = "dir"
         /\ \/ new.type = "file" /\ new.ents = NoEntry
            \/ new.type = "dir" /\ new.ents = NewDir(ip, dp)
<1>1. NoEntry \in [Elem -> Inum \cup {0}] /\ NewDir(ip, dp) \in [Elem -> Inum \cup {0}]
  BY FreeIs DEF NewDir
<1> QED
  BY <1>1 DEF NodeType

\* A call that is stuck comes back with nothing, or with an inode it cannot use.
LEMMA StuckGot ==
  ASSUME NEW k0, Good(k0), k0.ref = fs.ref, Tree(k0.node), NEW k, Stuck(k), NEW i \in Inum \cup {0}
  PROVE  Got(k0, At(k, i))
<1>1. Holds(k0, k, i)
  BY DEF Holds
<1> QED
  BY <1>1, WalkMade, SettledSelf

LEMMA CreateInStuck ==
  ASSUME NEW k0, Good(k0), Tree(k0.node), NEW w, WalkIs(k0, w), w.ip # 0, Stuck(w.k),
         NEW name \in Elem, NEW type \in {"dir", "dev", "file"}, NEW room \in BOOLEAN
  PROVE  Got(k0, CreateIn(w, name, type, room))
<1> DEFINE dp == w.ip
           k1 == Ilock(w.k, dp)
           old == Dirlookup(k1, dp, name)
           found == Ilock(Iput(Iget(k1, old), dp), old)
           ip == Ialloc(k1)
           new == [type |-> IF type = "dir" THEN type ELSE "file", nlink |-> 1,
                   ents |-> IF type = "dir" THEN NewDir(ip, dp) ELSE NoEntry]
           made == Ilock(Iget(Iupdate(k1, ip, new), ip), ip)
           named == SetEntry(made, dp, name, ip)
           d == IF type = "dir" THEN 1 ELSE 0
<1>0. k0.ref = fs.ref
  BY DEF WalkIs, Holds
<1>1. dp \in Inum
  BY DEF WalkIs, Holds
<1>2. Stuck(k1) /\ k1 \in FsType
  BY <1>1, StuckStays DEF Stuck
<1>3. old \in Inum \cup {0}
  <2>1. k1.node \in Nodes
    BY <1>2, FsIs
  <2> HIDE DEF k1, dp
  <2> QED
    BY <1>1, <2>1, NodeIs DEF Dirlookup
<1>4. ip \in Inum \cup {0}
  BY <1>2, IallocIs
<1>5. CreateIn(w, name, type, room)
        = IF dp = 0 THEN w
          ELSE IF old # 0
          THEN IF type = "file" /\ found.node[old].type = "file"
               THEN At(found, old) ELSE At(Iput(found, old), 0)
          ELSE IF ip = 0 THEN At(Iput(k1, dp), 0)
          ELSE IF room THEN At(Iput(AddLinks(named, dp, d), dp), ip)
          ELSE At(Iput(Iput(DropLink(made, ip), ip), dp), 0)
  BY DEF CreateIn
<1>6. CASE old # 0
  <2> HIDE DEF k1, old, dp
  <2>1. old \in Inum
    BY <1>3, <1>6
  <2>2. Stuck(found)
    BY <1>1, <1>2, <2>1, StuckStays
  <2> HIDE DEF found
  <2>3. Stuck(Iput(found, old))
    BY <2>1, <2>2, StuckStays
  <2>4. Got(k0, At(found, old)) /\ Got(k0, At(Iput(found, old), 0))
    BY <1>0, <2>1, <2>2, <2>3, StuckGot
  <2> QED
    BY <1>1, <1>5, <1>6, <2>4, Constants
<1>7. CASE old = 0 /\ ip = 0
  <2> HIDE DEF k1, old, dp, ip
  <2>1. Stuck(Iput(k1, dp))
    BY <1>1, <1>2, StuckStays
  <2>2. Got(k0, At(Iput(k1, dp), 0))
    BY <1>0, <2>1, StuckGot
  <2> QED
    BY <1>1, <1>5, <1>7, <2>2, Constants
<1>8. CASE old = 0 /\ ip # 0
  <2> HIDE DEF k1, old, dp, ip, named, d
  <2>1. ip \in Inum
    BY <1>4, <1>8
  <2>2. new \in NodeType
    BY <1>1, <2>1, NewNode
  <2> HIDE DEF new
  <2>3. Stuck(Iupdate(k1, ip, new))
    BY <1>2, <2>1, <2>2, StuckStays
  <2>4. Stuck(made)
    BY <2>1, <2>3, StuckStays
  <2> HIDE DEF made
  <2>5. Stuck(named)
    BY <1>1, <2>1, <2>4, StuckChanges DEF named
  <2>6. d \in Int
    BY DEF d
  <2>7. Stuck(AddLinks(named, dp, d)) /\ Stuck(DropLink(made, ip))
    BY <1>1, <2>1, <2>4, <2>5, <2>6, StuckChanges
  <2>8. Stuck(Iput(AddLinks(named, dp, d), dp))
    BY <1>1, <2>7, StuckStays
  <2>9. Stuck(Iput(Iput(DropLink(made, ip), ip), dp))
    BY <1>1, <2>1, <2>7, StuckStays
  <2>10. /\ Got(k0, At(Iput(AddLinks(named, dp, d), dp), ip))
         /\ Got(k0, At(Iput(Iput(DropLink(made, ip), ip), dp), 0))
    BY <1>0, <2>1, <2>8, <2>9, StuckGot
  <2> QED
    BY <1>1, <1>5, <1>8, <2>10, Constants
<1> QED
  BY <1>3, <1>4, <1>6, <1>7, <1>8

LEMMA CreateInIs ==
  ASSUME NEW k0, Good(k0), Tree(k0.node), NEW w, WalkIs(k0, w), w.ip # 0, Good(w.k),
         LinkedDir(k0.node, w.ip),
         NEW name \in Elem, NEW type \in {"dir", "dev", "file"}, NEW room \in BOOLEAN
  PROVE  Got(k0, CreateIn(w, name, type, room))
<1> DEFINE dp == w.ip
           k1 == Ilock(w.k, dp)
           old == Dirlookup(k1, dp, name)
           found == Ilock(Iput(Iget(k1, old), dp), old)
           ip == Ialloc(k1)
           new == [type |-> IF type = "dir" THEN type ELSE "file", nlink |-> 1,
                   ents |-> IF type = "dir" THEN NewDir(ip, dp) ELSE NoEntry]
           made == Ilock(Iget(Iupdate(k1, ip, new), ip), ip)
           named == SetEntry(made, dp, name, ip)
           d == IF type = "dir" THEN 1 ELSE 0
<1>0. k0.ref = fs.ref
  BY DEF WalkIs, Holds
<1>1. dp \in Inum /\ Holds(k0, w.k, dp)
  BY DEF WalkIs, Holds
<1>2. Good(k1) /\ Holds(k0, k1, dp) /\ k1.node = k0.node /\ k1 \in FsType
  <2> HIDE DEF dp
  <2> QED
    BY <1>1, HeldLock DEF Good
<1>3. old \in Inum \cup {0} /\ old = k0.node[dp].ents[name] /\ k0.node \in Nodes
  <2>1. k1.node \in Nodes
    BY <1>2, FsIs
  <2> HIDE DEF k1, dp
  <2> QED
    BY <1>1, <1>2, <2>1, NodeIs DEF Dirlookup
<1>4. ip \in Inum \cup {0} /\ (ip # 0 => k0.node[ip].type = "free")
  BY <1>2, IallocIs
<1>5. CreateIn(w, name, type, room)
        = IF dp = 0 THEN w
          ELSE IF old # 0
          THEN IF type = "file" /\ found.node[old].type = "file"
               THEN At(found, old) ELSE At(Iput(found, old), 0)
          ELSE IF ip = 0 THEN At(Iput(k1, dp), 0)
          ELSE IF room THEN At(Iput(AddLinks(named, dp, d), dp), ip)
          ELSE At(Iput(Iput(DropLink(made, ip), ip), dp), 0)
  BY DEF CreateIn
<1>6. CASE old # 0
  <2>1. Linked(k0.node, old)
    BY <1>1, <1>3, <1>6, TreeFacts DEF Walkable
  <2> HIDE DEF k1, old, dp
  <2>2. old \in Inum
    BY <1>3, <1>6
  <2>3. Holds(k0, Iput(Iget(k1, old), dp), old)
    BY <1>1, <1>2, <2>1, <2>2, HeldNext
  <2>4. Holds(k0, found, old)
    BY <2>2, <2>3, HeldLock
  <2> HIDE DEF found
  <2>5. Holds(k0, Iput(found, old), 0)
    BY <2>2, <2>4, HeldPut
  <2>6. Got(k0, At(found, old)) /\ Got(k0, At(Iput(found, old), 0))
    BY <2>4, <2>5, WalkMade, SettledSelf
  <2> QED
    BY <1>1, <1>5, <1>6, <2>6, Constants
<1>7. CASE old = 0 /\ ip = 0
  <2> HIDE DEF k1, old, dp, ip
  <2>1. Holds(k0, Iput(k1, dp), 0)
    BY <1>1, <1>2, HeldPut
  <2>2. Got(k0, At(Iput(k1, dp), 0))
    BY <2>1, WalkMade, SettledSelf
  <2> QED
    BY <1>1, <1>5, <1>7, <2>2, Constants
<1>8. CASE old = 0 /\ ip # 0
  <2>1. name \in Name /\ k0.node[dp].ents[name] = 0
    <3>1. k0.node[dp].ents["."] # 0 /\ k0.node[dp].ents[".."] # 0
      BY <1>1, Constants DEF LinkedDir, Tree, Dotted
    <3> HIDE DEF dp, old
    <3> QED
      BY <1>3, <1>8, <3>1, Constants
  <2> HIDE DEF k1, old, dp, ip
  <2>2. ip \in Inum /\ k0.node[ip].type = "free"
    BY <1>4, <1>8
  <2>3. /\ new \in NodeType /\ new.nlink = 1 /\ new.type # "free"
        /\ new.type = "dir" <=> type = "dir"
        /\ \/ new.type = "file" /\ new.ents = NoEntry
           \/ new.type = "dir" /\ new.ents = NewDir(ip, dp)
    BY <1>1, <2>2, NewNode
  <2> HIDE DEF new
  <2>4. LinkedDir(k0.node, dp)
    BY DEF dp
  <2>5. \/ Stuck(made)
        \/ /\ Good(made) /\ made.node = [k0.node EXCEPT ![ip] = new] /\ ip \in made.valid
           /\ made.ref = [[k0.ref EXCEPT ![dp] = @ + 1] EXCEPT ![ip] = @ + 1]
           /\ k0.ref[ip] = 0 /\ ip # dp
    BY <1>1, <1>2, <2>2, <2>3, MadeIs
  <2> HIDE DEF made, named, d
  <2>6. CASE Stuck(made)
    <3>1. Stuck(named)
      BY <1>1, <2>2, <2>6, StuckChanges DEF named
    <3>2. d \in Int
      BY DEF d
    <3>3. Stuck(AddLinks(named, dp, d)) /\ Stuck(DropLink(made, ip))
      BY <1>1, <2>2, <2>6, <3>1, <3>2, StuckChanges
    <3>4. Stuck(Iput(AddLinks(named, dp, d), dp))
      BY <1>1, <3>3, StuckStays
    <3>5. Stuck(Iput(Iput(DropLink(made, ip), ip), dp))
      BY <1>1, <2>2, <3>3, StuckStays
    <3>6. /\ Got(k0, At(Iput(AddLinks(named, dp, d), dp), ip))
          /\ Got(k0, At(Iput(Iput(DropLink(made, ip), ip), dp), 0))
      BY <1>0, <2>2, <3>4, <3>5, StuckGot
    <3> QED
      BY <1>1, <1>5, <1>8, <3>6, Constants
  <2>7. CASE /\ Good(made) /\ made.node = [k0.node EXCEPT ![ip] = new] /\ ip \in made.valid
             /\ made.ref = [[k0.ref EXCEPT ![dp] = @ + 1] EXCEPT ![ip] = @ + 1]
             /\ k0.ref[ip] = 0 /\ ip # dp
    <3>1. Got(k0, At(Iput(AddLinks(named, dp, d), dp), ip))
      <4>1. d = IF new.type = "dir" THEN 1 ELSE 0
        BY <2>3 DEF d
      <4>2. named = SetEntry(made, dp, name, ip)
        BY DEF named
      <4> QED
        BY <1>0, <1>1, <2>1, <2>2, <2>3, <2>4, <2>7, <4>1, <4>2, NamedIs
    <3>2. Got(k0, At(Iput(Iput(DropLink(made, ip), ip), dp), 0))
      BY <1>0, <1>1, <2>2, <2>3, <2>4, <2>7, UnmadeIs
    <3> QED
      BY <1>1, <1>5, <1>8, <3>1, <3>2, Constants
  <2> QED
    BY <2>5, <2>6, <2>7
<1> QED
  BY <1>3, <1>4, <1>6, <1>7, <1>8

LEMMA CreateIs ==
  ASSUME NEW k0, NEW p \in Proc, Ready(k0, p), Tree(k0.node), NEW path \in Path,
         NEW type \in {"dir", "dev", "file"}, NEW room \in BOOLEAN
  PROVE  Got(k0, Create(k0, p, path, type, room))
<1> DEFINE v == Nameiparent(k0, p, path)
<1>1. /\ WalkIs(k0, v) /\ Good(k0)
      /\ v.ip # 0 /\ Good(v.k) => LinkedDir(k0.node, v.ip)
      /\ v.ip # 0 => Last(path.elems) \in Elem
  BY NameiparentIs DEF Ready
<1>2. Create(k0, p, path, type, room) = CreateIn(v, Last(path.elems), type, room)
  BY DEF Create
<1> HIDE DEF v
<1>3. CASE v.ip = 0
  <2>1. CreateIn(v, Last(path.elems), type, room) = v
    BY <1>3 DEF CreateIn
  <2> QED
    BY <1>1, <1>2, <2>1, SettledSelf
<1>4. CASE v.ip # 0
  <2>1. Stuck(v.k) \/ Good(v.k)
    BY <1>1 DEF WalkIs, Holds
  <2> QED
    BY <1>1, <1>2, <1>4, <2>1, CreateInStuck, CreateInIs
<1> QED
  BY <1>3, <1>4
--------------------------------------------------------------------------------
(* What holds references.                                                    *)

\* Sets of pairs that are the same, or the same but for one pair.
LEMMA PairSame ==
  ASSUME NEW X, NEW Y, NEW A \in SUBSET (X \X Y), NEW B \in SUBSET (X \X Y),
         \A x \in X, y \in Y : <<x, y>> \in B <=> <<x, y>> \in A
  PROVE  A = B
<1>1. \A u \in X \X Y : u \in B <=> u \in A
  <2>1. ASSUME NEW u \in X \X Y PROVE u[1] \in X /\ u[2] \in Y /\ u = <<u[1], u[2]>>
    OBVIOUS
  <2> QED
    BY <2>1
<1> QED
  BY <1>1

OnePairMore(X, Y, A, B, x0, y0) ==
  /\ IsFiniteSet(X) /\ IsFiniteSet(Y) /\ A \subseteq X \X Y /\ B \subseteq X \X Y
  /\ x0 \in X /\ y0 \in Y /\ <<x0, y0>> \notin A
  /\ \A x \in X, y \in Y : <<x, y>> \in B <=> <<x, y>> \in A \/ (x = x0 /\ y = y0)

LEMMA PairAdded ==
  ASSUME NEW X, NEW Y, NEW A, NEW B, NEW x0, NEW y0, OnePairMore(X, Y, A, B, x0, y0)
  PROVE  Cardinality(B) = Cardinality(A) + 1
<1>0. /\ IsFiniteSet(X) /\ IsFiniteSet(Y) /\ A \subseteq X \X Y /\ B \subseteq X \X Y
      /\ x0 \in X /\ y0 \in Y /\ <<x0, y0>> \notin A
      /\ \A x \in X, y \in Y : <<x, y>> \in B <=> <<x, y>> \in A \/ (x = x0 /\ y = y0)
  BY DEF OnePairMore
<1>1. \A u \in X \X Y : u \in B <=> u \in A \/ u = <<x0, y0>>
  <2>1. ASSUME NEW u \in X \X Y PROVE u[1] \in X /\ u[2] \in Y /\ u = <<u[1], u[2]>>
    OBVIOUS
  <2>2. ASSUME NEW u \in X \X Y
        PROVE  u = <<x0, y0>> <=> (u[1] = x0 /\ u[2] = y0)
    BY <2>1
  <2>3. ASSUME NEW u \in X \X Y
        PROVE  u \in B <=> u \in A \/ (u[1] = x0 /\ u[2] = y0)
    <3>1. <<u[1], u[2]>> \in B <=> <<u[1], u[2]>> \in A \/ (u[1] = x0 /\ u[2] = y0)
      BY <1>0, <2>1
    <3> QED
      BY <2>1, <3>1
  <2> QED
    BY <2>2, <2>3
<1>2. B = A \cup {<<x0, y0>>}
  BY <1>0, <1>1
<1>3. IsFiniteSet(X \X Y)
  BY <1>0, FS_Product
<1>4. IsFiniteSet(A)
  BY <1>0, <1>3, FS_Subset
<1> QED
  BY <1>0, <1>2, <1>4, FS_AddElement

\* The users of an inode as pairs.
UserTuples(t, c, cl, l, i) ==
       {<<"file", f>> : f \in {g \in File : t[g].ref > 0 /\ t[g].ip = i}}
  \cup {<<"cwd", p>> : p \in {q \in Proc : c[q] = i}}
  \cup {<<"closing", p>> : p \in {q \in Proc : cl[q].ip = i}}
  \cup (IF l.ip = i THEN {<<"linking", l.p>>} ELSE {})

LEMMA UsersAre ==
  ASSUME NEW t, NEW c, NEW cl, NEW l, l.p \in Proc, NEW i
  PROVE  UserTuples(t, c, cl, l, i) = UserSet(t, c, cl, l, i)
<1> DEFINE S == UserTuples(t, c, cl, l, i)
<1>1. S \in SUBSET (Tags \X (File \cup Proc))
  BY DEF Tags, UserTuples
<1>2. UserSet(t, c, cl, l, i) \in SUBSET (Tags \X (File \cup Proc))
  BY DEF UserSet
<1>3. ASSUME NEW x \in Tags, NEW n \in File \cup Proc
      PROVE  <<x, n>> \in UserSet(t, c, cl, l, i) <=> <<x, n>> \in S
  <2>1. <<x, n>> \in UserSet(t, c, cl, l, i) <=> Uses(t, c, cl, l, i, x, n)
    BY DEF UserSet
  <2>2. <<x, n>> \in S <=> Uses(t, c, cl, l, i, x, n)
    BY DEF Tags, Uses, UserTuples
  <2> QED
    BY <2>1, <2>2
<1> HIDE DEF S
<1>4. S = UserSet(t, c, cl, l, i)
  <2>1. PICK A : A = S
    OBVIOUS
  <2>2. PICK B : B = UserSet(t, c, cl, l, i)
    OBVIOUS
  <2>3. /\ A \in SUBSET (Tags \X (File \cup Proc)) /\ B \in SUBSET (Tags \X (File \cup Proc))
        /\ \A x \in Tags, n \in File \cup Proc : <<x, n>> \in B <=> <<x, n>> \in A
    BY <1>1, <1>2, <1>3, <2>1, <2>2
  <2>4. A = B
    BY ONLY <2>3, PairSame
  <2> QED
    BY <2>1, <2>2, <2>4
<1> QED
  BY <1>4 DEF S

\* How many users an inode has, and how many holders a file, from what they are.
LEMMA FiniteUsers == IsFiniteSet(Tags) /\ IsFiniteSet(File \cup Proc)
<1>1. IsFiniteSet(File \cup Proc)
  BY FiniteConstants, FS_Union
<1>2. IsFiniteSet({}) /\ IsFiniteSet({} \cup {"file"})
  BY FS_EmptySet, FS_AddElement
<1>3. IsFiniteSet({} \cup {"file"} \cup {"cwd"})
  BY <1>2, FS_AddElement
<1>4. IsFiniteSet({} \cup {"file"} \cup {"cwd"} \cup {"closing"})
  BY <1>3, FS_AddElement
<1>5. IsFiniteSet({} \cup {"file"} \cup {"cwd"} \cup {"closing"} \cup {"linking"})
  BY <1>4, FS_AddElement
<1>6. Tags = {} \cup {"file"} \cup {"cwd"} \cup {"closing"} \cup {"linking"}
  BY DEF Tags
<1> QED
  BY <1>1, <1>5, <1>6

LEMMA UserCount ==
  ASSUME NEW t, NEW c, NEW cl, NEW l, NEW i
  PROVE  LET U == UserSet(t, c, cl, l, i) IN
         /\ Cardinality(U) \in Nat
         /\ \A x \in Tags, n \in File \cup Proc : Uses(t, c, cl, l, i, x, n) => Cardinality(U) > 0
         /\ Cardinality(U) = 0 <=> U = {}
         /\ (\A x \in Tags, n \in File \cup Proc : ~Uses(t, c, cl, l, i, x, n)) => U = {}
<1> DEFINE U == UserSet(t, c, cl, l, i)
<1>1. IsFiniteSet(Tags \X (File \cup Proc))
  BY FiniteUsers, FS_Product
<1>2. U \subseteq Tags \X (File \cup Proc)
  BY DEF UserSet
<1>3. IsFiniteSet(U) /\ Cardinality(U) \in Nat
  BY <1>1, <1>2, FS_Subset, FS_CardinalityType
<1>4. Cardinality(U) = 0 <=> U = {}
  BY <1>3, FS_EmptySet
<1>5. ASSUME NEW x \in Tags, NEW n \in File \cup Proc, Uses(t, c, cl, l, i, x, n)
      PROVE  Cardinality(U) > 0
  <2>1. <<x, n>> \in U
    BY <1>5 DEF UserSet
  <2> QED
    BY <1>3, <1>4, <2>1
<1>6. ASSUME \A x \in Tags, n \in File \cup Proc : ~Uses(t, c, cl, l, i, x, n)
      PROVE  U = {}
  BY <1>6 DEF UserSet
<1> QED
  BY <1>3, <1>4, <1>5, <1>6

LEMMA UsersSame ==
  ASSUME NEW t, NEW c, NEW cl, NEW l, NEW t2, NEW c2, NEW cl2, NEW l2, NEW i,
         \A x \in Tags, n \in File \cup Proc :
           Uses(t2, c2, cl2, l2, i, x, n) <=> Uses(t, c, cl, l, i, x, n)
  PROVE  Cardinality(UserSet(t2, c2, cl2, l2, i)) = Cardinality(UserSet(t, c, cl, l, i))
<1>1. UserSet(t2, c2, cl2, l2, i) = UserSet(t, c, cl, l, i)
  BY DEF UserSet
<1> QED
  BY <1>1

LEMMA UsersAdded ==
  ASSUME NEW t, NEW c, NEW cl, NEW l, NEW t2, NEW c2, NEW cl2, NEW l2, NEW i,
         NEW x0 \in Tags, NEW n0 \in File \cup Proc,
         ~Uses(t, c, cl, l, i, x0, n0), Uses(t2, c2, cl2, l2, i, x0, n0),
         \A x \in Tags, n \in File \cup Proc : x # x0 \/ n # n0 =>
           (Uses(t2, c2, cl2, l2, i, x, n) <=> Uses(t, c, cl, l, i, x, n))
  PROVE  Cardinality(UserSet(t2, c2, cl2, l2, i)) = Cardinality(UserSet(t, c, cl, l, i)) + 1
<1> DEFINE A == UserSet(t, c, cl, l, i)
           B == UserSet(t2, c2, cl2, l2, i)
<1>1. IsFiniteSet(Tags) /\ IsFiniteSet(File \cup Proc)
  BY FiniteUsers
<1>2. A \in SUBSET (Tags \X (File \cup Proc)) /\ B \in SUBSET (Tags \X (File \cup Proc))
  BY DEF UserSet
<1>3. \A x \in Tags, n \in File \cup Proc :
        /\ <<x, n>> \in A <=> Uses(t, c, cl, l, i, x, n)
        /\ <<x, n>> \in B <=> Uses(t2, c2, cl2, l2, i, x, n)
  BY DEF UserSet
<1> HIDE DEF A, B
<1>4. <<x0, n0>> \notin A
  BY <1>3
<1>5. \A x \in Tags, n \in File \cup Proc : <<x, n>> \in B <=> <<x, n>> \in A \/ (x = x0 /\ n = n0)
  BY <1>3
<1>6. Cardinality(B) = Cardinality(A) + 1
  <2>1. OnePairMore(Tags, File \cup Proc, A, B, x0, n0)
    BY <1>1, <1>2, <1>4, <1>5 DEF OnePairMore
  <2> QED
    BY ONLY <2>1, PairAdded
<1> QED
  BY <1>6 DEF A, B

\* Users that differ in one pair at most, before and after.
LEMMA UsersMoved ==
  ASSUME NEW t, NEW c, NEW cl, NEW l, NEW t2, NEW c2, NEW cl2, NEW l2, NEW i,
         NEW x0 \in Tags, NEW n0 \in File \cup Proc,
         \A x \in Tags, n \in File \cup Proc : x # x0 \/ n # n0 =>
           (Uses(t2, c2, cl2, l2, i, x, n) <=> Uses(t, c, cl, l, i, x, n))
  PROVE  Cardinality(UserSet(t2, c2, cl2, l2, i))
           = Cardinality(UserSet(t, c, cl, l, i))
             + (IF Uses(t2, c2, cl2, l2, i, x0, n0) THEN 1 ELSE 0)
             - (IF Uses(t, c, cl, l, i, x0, n0) THEN 1 ELSE 0)
<1>0. Cardinality(UserSet(t2, c2, cl2, l2, i)) \in Nat /\ Cardinality(UserSet(t, c, cl, l, i)) \in Nat
  BY UserCount
<1>1. CASE Uses(t2, c2, cl2, l2, i, x0, n0) <=> Uses(t, c, cl, l, i, x0, n0)
  <2>1. \A x \in Tags, n \in File \cup Proc :
          Uses(t2, c2, cl2, l2, i, x, n) <=> Uses(t, c, cl, l, i, x, n)
    BY <1>1
  <2>2. Cardinality(UserSet(t2, c2, cl2, l2, i)) = Cardinality(UserSet(t, c, cl, l, i))
    BY <2>1, UsersSame
  <2> QED
    BY <1>0, <1>1, <2>2
<1>2. CASE Uses(t2, c2, cl2, l2, i, x0, n0) /\ ~Uses(t, c, cl, l, i, x0, n0)
  <2>1. Cardinality(UserSet(t2, c2, cl2, l2, i)) = Cardinality(UserSet(t, c, cl, l, i)) + 1
    BY <1>2, UsersAdded
  <2> QED
    BY <1>0, <1>2, <2>1
<1>3. CASE ~Uses(t2, c2, cl2, l2, i, x0, n0) /\ Uses(t, c, cl, l, i, x0, n0)
  <2>1. \A x \in Tags, n \in File \cup Proc : x # x0 \/ n # n0 =>
          (Uses(t, c, cl, l, i, x, n) <=> Uses(t2, c2, cl2, l2, i, x, n))
    OBVIOUS
  <2>2. Cardinality(UserSet(t, c, cl, l, i)) = Cardinality(UserSet(t2, c2, cl2, l2, i)) + 1
    BY <1>3, <2>1, UsersAdded
  <2> QED
    BY <1>0, <1>3, <2>2
<1> QED
  BY <1>1, <1>2, <1>3

LEMMA FileMoved ==
  ASSUME NEW t, NEW c, NEW cl, NEW l, NEW i, NEW t2, NEW f \in File,
         \A n \in File : n # f => t2[n] = t[n]
  PROVE  Cardinality(UserSet(t2, c, cl, l, i))
           = Cardinality(UserSet(t, c, cl, l, i))
             + (IF t2[f].ref > 0 /\ t2[f].ip = i THEN 1 ELSE 0)
             - (IF t[f].ref > 0 /\ t[f].ip = i THEN 1 ELSE 0)
<1>1. \A x \in Tags, n \in File \cup Proc : x # "file" \/ n # f =>
        (Uses(t2, c, cl, l, i, x, n) <=> Uses(t, c, cl, l, i, x, n))
  BY DEF Uses
<1>2. /\ Uses(t2, c, cl, l, i, "file", f) <=> t2[f].ref > 0 /\ t2[f].ip = i
      /\ Uses(t, c, cl, l, i, "file", f) <=> t[f].ref > 0 /\ t[f].ip = i
  BY DEF Uses
<1>3. "file" \in Tags /\ f \in File \cup Proc
  BY DEF Tags
<1>4. Cardinality(UserSet(t, c, cl, l, i)) \in Nat
  BY UserCount
<1>5. Cardinality(UserSet(t2, c, cl, l, i))
        = Cardinality(UserSet(t, c, cl, l, i))
          + (IF Uses(t2, c, cl, l, i, "file", f) THEN 1 ELSE 0)
          - (IF Uses(t, c, cl, l, i, "file", f) THEN 1 ELSE 0)
  BY <1>1, <1>3, UsersMoved
<1> QED
  BY <1>2, <1>4, <1>5

LEMMA CwdMoved ==
  ASSUME NEW t, NEW c, NEW cl, NEW l, NEW i, NEW c2, NEW p \in Proc,
         \A n \in Proc : n # p => c2[n] = c[n]
  PROVE  Cardinality(UserSet(t, c2, cl, l, i))
           = Cardinality(UserSet(t, c, cl, l, i))
             + (IF c2[p] = i THEN 1 ELSE 0)
             - (IF c[p] = i THEN 1 ELSE 0)
<1>1. \A x \in Tags, n \in File \cup Proc : x # "cwd" \/ n # p =>
        (Uses(t, c2, cl, l, i, x, n) <=> Uses(t, c, cl, l, i, x, n))
  BY DEF Uses
<1>2. /\ Uses(t, c2, cl, l, i, "cwd", p) <=> c2[p] = i
      /\ Uses(t, c, cl, l, i, "cwd", p) <=> c[p] = i
  BY DEF Uses
<1>3. "cwd" \in Tags /\ p \in File \cup Proc
  BY DEF Tags
<1>4. Cardinality(UserSet(t, c, cl, l, i)) \in Nat
  BY UserCount
<1>5. Cardinality(UserSet(t, c2, cl, l, i))
        = Cardinality(UserSet(t, c, cl, l, i))
          + (IF Uses(t, c2, cl, l, i, "cwd", p) THEN 1 ELSE 0)
          - (IF Uses(t, c, cl, l, i, "cwd", p) THEN 1 ELSE 0)
  BY <1>1, <1>3, UsersMoved
<1> QED
  BY <1>2, <1>4, <1>5

LEMMA ClosingMoved ==
  ASSUME NEW t, NEW c, NEW cl, NEW l, NEW i, NEW cl2, NEW p \in Proc,
         \A n \in Proc : n # p => cl2[n] = cl[n]
  PROVE  Cardinality(UserSet(t, c, cl2, l, i))
           = Cardinality(UserSet(t, c, cl, l, i))
             + (IF cl2[p].ip = i THEN 1 ELSE 0)
             - (IF cl[p].ip = i THEN 1 ELSE 0)
<1>1. \A x \in Tags, n \in File \cup Proc : x # "closing" \/ n # p =>
        (Uses(t, c, cl2, l, i, x, n) <=> Uses(t, c, cl, l, i, x, n))
  BY DEF Uses
<1>2. /\ Uses(t, c, cl2, l, i, "closing", p) <=> cl2[p].ip = i
      /\ Uses(t, c, cl, l, i, "closing", p) <=> cl[p].ip = i
  BY DEF Uses
<1>3. "closing" \in Tags /\ p \in File \cup Proc
  BY DEF Tags
<1>4. Cardinality(UserSet(t, c, cl, l, i)) \in Nat
  BY UserCount
<1>5. Cardinality(UserSet(t, c, cl2, l, i))
        = Cardinality(UserSet(t, c, cl, l, i))
          + (IF Uses(t, c, cl2, l, i, "closing", p) THEN 1 ELSE 0)
          - (IF Uses(t, c, cl, l, i, "closing", p) THEN 1 ELSE 0)
  BY <1>1, <1>3, UsersMoved
<1> QED
  BY <1>2, <1>4, <1>5

\* sys_link() alone links: l is its record, another has inode 0.
LEMMA LinkingAdded ==
  ASSUME NEW t, NEW c, NEW cl, NEW l, l.ip = 0, NEW l2, l2.p \in Proc, NEW i, i # 0
  PROVE  Cardinality(UserSet(t, c, cl, l2, i))
           = Cardinality(UserSet(t, c, cl, l, i)) + (IF l2.ip = i THEN 1 ELSE 0)
<1>1. \A x \in Tags, n \in File \cup Proc : x # "linking" \/ n # l2.p =>
        (Uses(t, c, cl, l2, i, x, n) <=> Uses(t, c, cl, l, i, x, n))
  BY DEF Uses
<1>2. /\ Uses(t, c, cl, l2, i, "linking", l2.p) <=> l2.ip = i
      /\ ~Uses(t, c, cl, l, i, "linking", l2.p)
  BY DEF Uses
<1>3. "linking" \in Tags /\ l2.p \in File \cup Proc
  BY DEF Tags
<1>4. Cardinality(UserSet(t, c, cl, l, i)) \in Nat
  BY UserCount
<1>5. Cardinality(UserSet(t, c, cl, l2, i))
        = Cardinality(UserSet(t, c, cl, l, i))
          + (IF Uses(t, c, cl, l2, i, "linking", l2.p) THEN 1 ELSE 0)
          - (IF Uses(t, c, cl, l, i, "linking", l2.p) THEN 1 ELSE 0)
  BY <1>1, <1>3, UsersMoved
<1> QED
  BY <1>2, <1>4, <1>5

LEMMA HolderCount ==
  ASSUME NEW o, NEW cl, NEW f
  PROVE  LET H == HolderSet(o, cl, f) IN
         /\ IsFiniteSet(H) /\ Cardinality(H) \in Nat
         /\ \A p \in Proc, d \in Fd : o[p][d] = f /\ d # cl[p].fd => Cardinality(H) > 0
         /\ Cardinality(H) = 0 <=> H = {}
         /\ (\A p \in Proc, d \in Fd : ~(o[p][d] = f /\ d # cl[p].fd)) => Cardinality(H) = 0
<1> DEFINE H == HolderSet(o, cl, f)
<1>1. IsFiniteSet(Proc \X Fd)
  BY FiniteConstants, FS_Product
<1>2. H \subseteq Proc \X Fd
  BY DEF HolderSet
<1>3. IsFiniteSet(H) /\ Cardinality(H) \in Nat
  BY <1>1, <1>2, FS_Subset, FS_CardinalityType
<1>4. Cardinality(H) = 0 <=> H = {}
  BY <1>3, FS_EmptySet
<1>5. ASSUME NEW p \in Proc, NEW d \in Fd, o[p][d] = f, d # cl[p].fd
      PROVE  Cardinality(H) > 0
  <2>1. <<p, d>> \in H
    BY <1>5 DEF HolderSet
  <2> QED
    BY <1>3, <1>4, <2>1
<1>6. ASSUME \A p \in Proc, d \in Fd : ~(o[p][d] = f /\ d # cl[p].fd)
      PROVE  H = {}
  BY <1>6 DEF HolderSet
<1> QED
  BY <1>3, <1>4, <1>5, <1>6

LEMMA HoldersSame ==
  ASSUME NEW o, NEW cl, NEW o2, NEW cl2, NEW f,
         \A p \in Proc, d \in Fd : o2[p][d] = f /\ d # cl2[p].fd <=> o[p][d] = f /\ d # cl[p].fd
  PROVE  HolderSet(o2, cl2, f) = HolderSet(o, cl, f)
  BY DEF HolderSet

OneHolderMore(o, cl, o2, cl2, f, p0, d0) ==
  /\ p0 \in Proc /\ d0 \in Fd
  /\ ~(o[p0][d0] = f /\ d0 # cl[p0].fd) /\ o2[p0][d0] = f /\ d0 # cl2[p0].fd
  /\ \A p \in Proc, d \in Fd : p # p0 \/ d # d0 =>
       (o2[p][d] = f /\ d # cl2[p].fd <=> o[p][d] = f /\ d # cl[p].fd)

LEMMA HoldersAdded ==
  ASSUME NEW o, NEW cl, NEW o2, NEW cl2, NEW f, NEW p0, NEW d0,
         OneHolderMore(o, cl, o2, cl2, f, p0, d0)
  PROVE  Cardinality(HolderSet(o2, cl2, f)) = Cardinality(HolderSet(o, cl, f)) + 1
<1> DEFINE A == HolderSet(o, cl, f)
           B == HolderSet(o2, cl2, f)
<1>0. /\ p0 \in Proc /\ d0 \in Fd
      /\ ~(o[p0][d0] = f /\ d0 # cl[p0].fd) /\ o2[p0][d0] = f /\ d0 # cl2[p0].fd
      /\ \A p \in Proc, d \in Fd : p # p0 \/ d # d0 =>
           (o2[p][d] = f /\ d # cl2[p].fd <=> o[p][d] = f /\ d # cl[p].fd)
  BY DEF OneHolderMore
<1>1. IsFiniteSet(Proc) /\ IsFiniteSet(Fd)
  BY FiniteConstants
<1>2. A \in SUBSET (Proc \X Fd) /\ B \in SUBSET (Proc \X Fd)
  BY DEF HolderSet
<1>3. \A p \in Proc, d \in Fd :
        /\ <<p, d>> \in A <=> o[p][d] = f /\ d # cl[p].fd
        /\ <<p, d>> \in B <=> o2[p][d] = f /\ d # cl2[p].fd
  BY DEF HolderSet
<1> HIDE DEF A, B
<1>4. <<p0, d0>> \notin A
  BY <1>0, <1>3
<1>5. \A p \in Proc, d \in Fd : <<p, d>> \in B <=> <<p, d>> \in A \/ (p = p0 /\ d = d0)
  <2> SUFFICES ASSUME NEW p \in Proc, NEW d \in Fd
               PROVE  <<p, d>> \in B <=> <<p, d>> \in A \/ (p = p0 /\ d = d0)
    OBVIOUS
  <2>1. CASE p = p0 /\ d = d0
    <3>1. <<p0, d0>> \in B
      BY <1>0, <1>3
    <3> QED
      BY <2>1, <3>1
  <2>2. CASE p # p0 \/ d # d0
    <3>1. o2[p][d] = f /\ d # cl2[p].fd <=> o[p][d] = f /\ d # cl[p].fd
      BY ONLY <1>0, <2>2, p \in Proc, d \in Fd
    <3>2. /\ <<p, d>> \in A <=> o[p][d] = f /\ d # cl[p].fd
          /\ <<p, d>> \in B <=> o2[p][d] = f /\ d # cl2[p].fd
      BY ONLY <1>3, p \in Proc, d \in Fd
    <3> QED
      BY <2>2, <3>1, <3>2
  <2> QED
    BY <2>1, <2>2
<1>6. Cardinality(B) = Cardinality(A) + 1
  <2>1. OnePairMore(Proc, Fd, A, B, p0, d0)
    BY <1>0, <1>1, <1>2, <1>4, <1>5 DEF OnePairMore
  <2> QED
    BY ONLY <2>1, PairAdded
<1> QED
  BY <1>6 DEF A, B
--------------------------------------------------------------------------------
(* Steps of the system.                                                      *)

\* From k to r no inode in use is freed or given out, and nothing is lost.
Evolves(k, r) ==
  /\ \A i \in Inum : r.node[i].type # k.node[i].type => k.ref[i] = 0 \/ r.ref[i] = 0
  /\ Lost(r) = Lost(k)
Moved ==
  \A i \in Inum : fs'.node[i].type # fs.node[i].type =>
    fs.ref[i] = 0 \/ (fs'.bad = "none" /\ fs'.ref[i] = 0)

LEMMA GrownEvolves ==
  ASSUME NEW k, Good(k), NEW r, Good(r), Grown(k.node, r.node),
         \A i \in Inum : r.node[i].nlink = 0 => r.ref[i] = k.ref[i]
  PROVE  Evolves(k, r) /\ \A i \in Inum : LinkedDir(k.node, i) => LinkedDir(r.node, i)
<1>1. \A i \in Inum : k.node[i].nlink \in Int /\ k.node[i].nlink >= 0 /\ k.ref[i] \in Int
                      /\ k.ref[i] >= 0 /\ (k.ref[i] > 0 => k.node[i].type # "free")
  BY FsIs, NodeIs DEF Good, Alive
<1>2. ASSUME NEW i \in Inum
      PROVE  /\ r.node[i].type # k.node[i].type => k.ref[i] = 0
             /\ r.node[i].nlink = 0 => r.node[i] = k.node[i]
             /\ k.node[i].nlink = 0 /\ k.node[i].type # "free" => r.node[i] = k.node[i]
             /\ LinkedDir(k.node, i) => LinkedDir(r.node, i)
  <2>1. /\ k.node[i].nlink > 0 => r.node[i].nlink > 0 /\ r.node[i].type = k.node[i].type
        /\ k.node[i].nlink = 0 => \/ r.node[i] = k.node[i]
                                  \/ k.node[i].type = "free" /\ r.node[i].nlink > 0
    BY DEF Grown
  <2>2. k.node[i].nlink > 0 \/ k.node[i].nlink = 0
    BY <1>1
  <2> QED
    BY <1>1, <2>1, <2>2 DEF LinkedDir
<1>3. Lost(r) = Lost(k)
  BY <1>2 DEF Lost
<1> QED
  BY <1>2, <1>3 DEF Evolves

\* An inode is put by its last user but one, or by its last: then it is freed if
\* it has no links.
LEMMA PutEvolves ==
  ASSUME NEW k, Good(k), Tree(k.node), NEW i \in Inum, k.ref[i] > 0, NEW r, r = Iput(k, i)
  PROVE  /\ Good(r) /\ Tree(r.node) /\ r.ref = [k.ref EXCEPT ![i] = @ - 1] /\ Evolves(k, r)
         /\ \A j \in Inum : LinkedDir(k.node, j) => LinkedDir(r.node, j)
<1>1. /\ k.node[i].nlink \in Int /\ k.node[i].nlink >= 0 /\ k.ref \in [Inum -> Int]
      /\ k.node \in Nodes /\ k.node[i].type # "free"
  BY FsIs, NodeIs DEF Good, Alive
<1>2. CASE k.node[i].nlink > 0 \/ k.ref[i] > 1
  <2>1. Good(r) /\ r.node = k.node /\ r.ref = [k.ref EXCEPT ![i] = @ - 1]
    BY <1>2, IputIs DEF Becomes
  <2>2. \A j \in Inum : r.ref[j] = IF j = i THEN k.ref[j] - 1 ELSE k.ref[j]
    BY <1>1, <2>1
  <2>3. Lost(r) = Lost(k)
    BY <1>1, <1>2, <2>1, <2>2 DEF Lost
  <2> QED
    BY <2>1, <2>3 DEF Evolves
<1>3. CASE k.node[i].nlink = 0 /\ k.ref[i] = 1
  <2>1. Good(r) /\ r.node = [k.node EXCEPT ![i] = FreeNode] /\ r.ref = [k.ref EXCEPT ![i] = @ - 1]
    BY <1>3, IputFrees DEF Becomes
  <2>2. \A j \in Inum : /\ r.ref[j] = IF j = i THEN 0 ELSE k.ref[j]
                        /\ r.node[j] = IF j = i THEN FreeNode ELSE k.node[j]
    BY <1>1, <1>3, <2>1 DEF Nodes
  <2>3. Lost(r) = Lost(k)
    BY <1>3, <2>2, FreeIs DEF Lost
  <2>4. \A j \in Inum : LinkedDir(k.node, j) => LinkedDir(r.node, j)
    BY <1>3, <2>2 DEF LinkedDir
  <2>5. Tree(r.node)
    BY <1>3, <2>1, TreeFreed
  <2> QED
    BY <2>1, <2>2, <2>3, <2>4, <2>5 DEF Evolves
<1> QED
  BY <1>1, <1>2, <1>3

\* What the end of an action makes of the state r it has come to.
LEMMA SetFsIs ==
  ASSUME Good(fs), NEW r, SetFs(r), Stuck(r) \/ Good(r)
  PROVE  /\ Stuck(r) => Halted(fs') /\ fs'.bad # "none" /\ fs'.node = fs.node
         /\ Good(r) => fs' = r /\ r.bad = "none"
<1>1. ASSUME Stuck(r) PROVE Halted(fs') /\ fs'.bad # "none" /\ fs'.node = fs.node
  <2>1. fs' = [fs EXCEPT !.bad = "iget: no inodes"] /\ Crowded(fs.ref)
    BY <1>1 DEF SetFs, Stuck
  <2>2. fs \in FsType /\ Alive(fs) /\ "iget: no inodes" \in Messages
    BY DEF Good, Messages
  <2>3. fs' \in FsType /\ fs'.bad = "iget: no inodes" /\ fs'.node = fs.node /\ fs'.ref = fs.ref
    BY <2>1, <2>2 DEF FsType
  <2> QED
    BY <2>1, <2>2, <2>3 DEF Halted, Stuck, Alive
<1>2. ASSUME Good(r) PROVE fs' = r /\ r.bad = "none"
  BY <1>2 DEF SetFs, Good
<1> QED
  BY <1>1, <1>2

\* A step keeps the invariant if the state it makes does.
LEMMA StepKept ==
  ASSUME FilesInv, fs.bad = "none", NEW r, SetFs(r), Rest', leaked' = leaked,
         Stuck(r) \/ Good(r),
         Good(r) => /\ Evolves(fs, r)
                    /\ LinkInv(r.node, cwd', exiting', linking')
                    /\ ProcInv(r.node, cwd', exiting', closing', ofile')
                    /\ FileInv(ftable', ofile', closing')
                    /\ RefInv(r, ftable', cwd', closing', linking')
  PROVE  FilesInv' /\ Moved
<1>1. Good(fs) /\ leaked = Lost(fs)
  BY DEF FilesInv
<1>2. CASE Stuck(r)
  <2>1. Halted(fs') /\ fs'.bad # "none" /\ fs'.node = fs.node
    BY <1>1, <1>2, SetFsIs
  <2> QED
    BY <2>1 DEF FilesInv, Moved
<1>3. CASE Good(r)
  <2>1. fs' = r /\ r.bad = "none"
    BY <1>1, <1>3, SetFsIs
  <2>2. leaked' = Lost(fs')
    BY <1>1, <1>3, <2>1 DEF Evolves
  <2>3. FilesInv'
    BY <1>3, <2>1, <2>2 DEF FilesInv
  <2>4. Moved
    BY <1>3, <2>1 DEF Moved, Evolves
  <2> QED
    BY <2>3, <2>4
<1> QED
  BY <1>2, <1>3

\* A state from which a transaction begins.
LEMMA CallReady ==
  ASSUME FilesInv, NEW p \in Proc, Admitted(p)
  PROVE  /\ Rest /\ fs.bad = "none" /\ Good(fs) /\ Tree(fs.node) /\ Ready(fs, p)
         /\ linking = NotLinking /\ closing[p] = NotClosing /\ cwd[p] \in Inum
         /\ leaked = Lost(fs) /\ ProcInv(fs.node, cwd, exiting, closing, ofile)
         /\ FileInv(ftable, ofile, closing) /\ RefInv(fs, ftable, cwd, closing, linking)
<1>1. fs.bad = "none" /\ linking = NotLinking /\ closing[p] = NotClosing /\ cwd[p] # 0
  BY DEF Admitted, Running
<1>2. /\ Rest /\ Good(fs) /\ leaked = Lost(fs) /\ LinkInv(fs.node, cwd, exiting, linking)
      /\ ProcInv(fs.node, cwd, exiting, closing, ofile)
      /\ FileInv(ftable, ofile, closing) /\ RefInv(fs, ftable, cwd, closing, linking)
  BY <1>1 DEF FilesInv
<1>3. linking.ip = 0
  BY <1>1 DEF NotLinking
<1>4. Tree(fs.node)
  BY <1>2, <1>3, Constants DEF LinkInv
<1>5. cwd[p] \in Inum /\ LinkedDir(fs.node, cwd[p])
  BY <1>1, <1>2 DEF Rest, ProcInv
<1>6. Ready(fs, p)
  BY <1>2, <1>4, <1>5, TreeFacts DEF Ready, LinkedDir, Linked
<1> QED
  BY <1>1, <1>2, <1>4, <1>5, <1>6

\* A transaction that changes the inodes and no reference.
LEMMA TransactionKept ==
  ASSUME FilesInv, NEW p \in Proc, NEW r, Transaction(p, r),
         \/ Stuck(r)
         \/ /\ Good(r) /\ Tree(r.node) /\ r.ref = fs.ref /\ Evolves(fs, r)
            /\ \A q \in Proc : cwd[q] \in Inum => LinkedDir(r.node, cwd[q])
  PROVE  FilesInv' /\ Moved
<1>1. Admitted(p) /\ SetFs(r) /\ UNCHANGED <<ftable, ofile, cwd, closing, exiting, linking, leaked>>
  BY DEF Transaction
<1>2. /\ Rest /\ fs.bad = "none" /\ Good(fs) /\ linking = NotLinking
      /\ ProcInv(fs.node, cwd, exiting, closing, ofile)
      /\ FileInv(ftable, ofile, closing) /\ RefInv(fs, ftable, cwd, closing, linking)
  BY <1>1, CallReady
<1>3. Rest'
  BY <1>1, <1>2 DEF Rest
<1>4. ASSUME Good(r)
      PROVE  /\ Evolves(fs, r)
             /\ LinkInv(r.node, cwd', exiting', linking')
             /\ ProcInv(r.node, cwd', exiting', closing', ofile')
             /\ FileInv(ftable', ofile', closing')
             /\ RefInv(r, ftable', cwd', closing', linking')
  <2>1. /\ Tree(r.node) /\ r.ref = fs.ref /\ Evolves(fs, r)
        /\ \A q \in Proc : cwd[q] \in Inum => LinkedDir(r.node, cwd[q])
    BY <1>4 DEF Stuck, Good
  <2>2. LinkInv(r.node, cwd, exiting, linking)
    BY <1>2, <2>1 DEF LinkInv
  <2>3. \A q \in Proc : cwd[q] # 0 => cwd[q] \in Inum
    BY <1>2 DEF Rest
  <2>4. ProcInv(r.node, cwd, exiting, closing, ofile)
    BY <1>2, <2>1, <2>3 DEF ProcInv
  <2>5. RefInv(r, ftable, cwd, closing, linking)
    BY <1>2, <2>1 DEF RefInv
  <2> QED
    BY <1>1, <1>2, <2>1, <2>2, <2>4, <2>5
<1> QED
  BY <1>1, <1>2, <1>3, <1>4, StepKept
\* mkdir(), mknod().
LEMMA PutInodeIs ==
  ASSUME NEW k0, Good(k0), NEW w, Got(k0, w), NEW r, r = PutInode(w)
  PROVE  Stuck(r) \/ Settled(k0, r)
<1>1. PICK k1 : Settled(k0, k1) /\ WalkIs(k1, w)
  BY DEF Got
<1>2. Holds(k1, w.k, w.ip) /\ Good(k1)
  BY <1>1 DEF WalkIs, Settled
<1>3. Holds(k1, r, 0)
  <2>1. CASE w.ip = 0
    BY <1>2, <2>1 DEF PutInode
  <2>2. CASE w.ip # 0
    <3>1. w.ip \in Inum /\ r = Iput(w.k, w.ip)
      BY <1>2, <2>2 DEF PutInode, Holds
    <3> QED
      BY <1>2, <3>1, HeldPut
  <2> QED
    BY <2>1, <2>2
<1>4. Stuck(r) \/ (Good(r) /\ r.node = k1.node /\ r.ref = k1.ref)
  BY <1>3 DEF Holds
<1> QED
  BY <1>1, <1>4 DEF Settled

LEMMA SettledEvolves ==
  ASSUME NEW k0, Good(k0), NEW r, Settled(k0, r)
  PROVE  /\ Good(r) /\ Tree(r.node) /\ r.ref = k0.ref /\ Evolves(k0, r)
         /\ \A i \in Inum : LinkedDir(k0.node, i) => LinkedDir(r.node, i)
  BY GrownEvolves DEF Settled

LEMMA SettledKept ==
  ASSUME FilesInv, NEW p \in Proc, NEW r, Transaction(p, r), Stuck(r) \/ Settled(fs, r)
  PROVE  FilesInv' /\ Moved
<1>1. Good(fs) /\ ProcInv(fs.node, cwd, exiting, closing, ofile)
  BY CallReady DEF Transaction
<1>2. CASE Stuck(r)
  BY <1>2, TransactionKept
<1>3. CASE Settled(fs, r)
  <2>1. /\ Good(r) /\ Tree(r.node) /\ r.ref = fs.ref /\ Evolves(fs, r)
        /\ \A i \in Inum : LinkedDir(fs.node, i) => LinkedDir(r.node, i)
    BY <1>1, <1>3, SettledEvolves
  <2>2. \A q \in Proc : cwd[q] \in Inum => LinkedDir(r.node, cwd[q])
    BY <1>1, <2>1, Constants DEF ProcInv
  <2> QED
    BY <2>1, <2>2, TransactionKept
<1> QED
  BY <1>2, <1>3

LEMMA MkdirKept ==
  ASSUME FilesInv, NEW p \in Proc, Mkdir(p)
  PROVE  FilesInv' /\ Moved
<1>1. PICK path \in Path, type \in {"dir", "dev"}, room \in BOOLEAN :
        Transaction(p, PutInode(Create(fs, p, path, type, room)))
  BY DEF Mkdir
<1> DEFINE w == Create(fs, p, path, type, room)
           r == PutInode(w)
<1>2. Good(fs) /\ Tree(fs.node) /\ Ready(fs, p)
  BY <1>1, CallReady DEF Transaction
<1>3. type \in {"dir", "dev", "file"}
  OBVIOUS
<1>4. Got(fs, w)
  BY <1>2, <1>3, CreateIs
<1> HIDE DEF w
<1>5. Stuck(r) \/ Settled(fs, r)
  BY <1>2, <1>4, PutInodeIs
<1>6. Transaction(p, r)
  BY <1>1 DEF w
<1> HIDE DEF r
<1> QED
  BY <1>5, <1>6, SettledKept

\* A call that gives up what it holds leaves the file system as it was.
LEMMA HeldKept ==
  ASSUME FilesInv, NEW p \in Proc, NEW r, Transaction(p, r), Holds(fs, r, 0)
  PROVE  FilesInv' /\ Moved
<1>1. Good(fs) /\ Tree(fs.node)
  BY CallReady DEF Transaction
<1>2. Settled(fs, fs)
  BY <1>1, SettledSelf
<1>3. Stuck(r) \/ Settled(fs, r)
  BY <1>2 DEF Holds, Settled
<1> QED
  BY <1>3, SettledKept

\* chdir(): the reference of the current directory goes from one to the other.
LEMMA ChdirKept ==
  ASSUME FilesInv, NEW p \in Proc, Chdir(p)
  PROVE  FilesInv' /\ Moved
<1>0. User(p) /\ Admitted(p)
  BY DEF Chdir
<1> PICK path \in Path : \E w \in {Namei(fs, p, path)} :
       LET k == Ilock(w.k, w.ip)
           isdir == w.ip # 0 /\ k.node[w.ip].type = "dir"
       IN /\ SetFs(IF w.ip = 0 THEN w.k ELSE Iput(k, IF isdir THEN cwd[p] ELSE w.ip))
          /\ cwd' = IF isdir THEN [cwd EXCEPT ![p] = w.ip] ELSE cwd
          /\ UNCHANGED <<ftable, ofile, closing, exiting, linking, leaked>>
  BY DEF Chdir
<1> DEFINE w == Namei(fs, p, path)
           k == Ilock(w.k, w.ip)
           isdir == w.ip # 0 /\ k.node[w.ip].type = "dir"
           r == IF w.ip = 0 THEN w.k ELSE Iput(k, IF isdir THEN cwd[p] ELSE w.ip)
<1>1. /\ SetFs(r) /\ cwd' = IF isdir THEN [cwd EXCEPT ![p] = w.ip] ELSE cwd
      /\ UNCHANGED <<ftable, ofile, closing, exiting, linking, leaked>>
  OBVIOUS
<1>2. /\ Rest /\ fs.bad = "none" /\ Good(fs) /\ Tree(fs.node) /\ Ready(fs, p)
      /\ linking = NotLinking /\ closing[p] = NotClosing /\ cwd[p] \in Inum
      /\ leaked = Lost(fs) /\ ProcInv(fs.node, cwd, exiting, closing, ofile)
      /\ FileInv(ftable, ofile, closing) /\ RefInv(fs, ftable, cwd, closing, linking)
  BY <1>0, CallReady
<1>3. WalkIs(fs, w)
  BY <1>2, NameiIs
<1>4. Holds(fs, w.k, w.ip) /\ w.ip \in Inum \cup {0}
  BY <1>3 DEF WalkIs, Holds
<1> HIDE DEF w
<1>5. CASE ~isdir
  <2>1. Holds(fs, r, 0)
    <3>1. CASE w.ip = 0
      BY <1>4, <3>1
    <3>2. CASE w.ip # 0
      <4>1. r = Iput(k, w.ip)
        BY <1>5, <3>2
      <4>2. Holds(fs, k, w.ip) /\ w.ip \in Inum
        BY <1>2, <1>4, <3>2, HeldLock
      <4> HIDE DEF k, r
      <4> QED
        BY <1>2, <4>1, <4>2, HeldPut
    <3> QED
      BY <3>1, <3>2
  <2>2. cwd' = cwd
    BY <1>1, <1>5
  <2> HIDE DEF r, isdir
  <2>3. Transaction(p, r)
    BY <1>0, <1>1, <2>2 DEF Transaction
  <2>4. Stuck(r) \/ Settled(fs, r)
    <3>1. Stuck(r) \/ (Good(r) /\ r.node = fs.node /\ r.ref = fs.ref)
      BY <2>1 DEF Holds
    <3>2. Settled(fs, fs)
      BY <1>2, SettledSelf
    <3> QED
      BY <3>1, <3>2 DEF Settled
  <2> QED
    BY <2>3, <2>4, SettledKept
<1>6. CASE isdir
  <2>1. w.ip \in Inum /\ r = Iput(k, cwd[p]) /\ cwd' = [cwd EXCEPT ![p] = w.ip]
        /\ k.node[w.ip].type = "dir"
    BY <1>1, <1>4, <1>6
  <2>2. Holds(fs, k, w.ip)
    BY <1>2, <1>4, <2>1, HeldLock
  <2> HIDE DEF k, r, isdir
  <2>3. Rest'
    BY <1>1, <1>2, <2>1 DEF Rest
  <2>4. LinkedDir(fs.node, cwd[p])
    BY <1>2, Constants DEF ProcInv
  <2>5. CASE Stuck(k)
    <3>1. Stuck(r)
      BY <1>2, <2>1, <2>5, StuckStays
    <3>2. ~Good(r)
      BY <3>1 DEF Stuck, Good
    <3> QED
      BY <1>1, <1>2, <2>3, <3>1, <3>2, StepKept
  <2>6. CASE ~Stuck(k)
    <3>1. Good(k) /\ k.node = fs.node /\ Linked(fs.node, w.ip) /\ k.ref = [fs.ref EXCEPT ![w.ip] = @ + 1]
      BY <2>1, <2>2, <2>6, Constants DEF Holds
    <3>2. fs.ref \in [Inum -> Int] /\ fs.ref[cwd[p]] > 0
      <4>1. fs.ref[cwd[p]] = Cardinality(UserSet(ftable, cwd, closing, linking, cwd[p]))
        BY <1>2 DEF RefInv
      <4>2. Uses(ftable, cwd, closing, linking, cwd[p], "cwd", p) /\ "cwd" \in Tags
        BY DEF Uses, Tags
      <4>3. fs.ref[cwd[p]] > 0
        BY <4>1, <4>2, UserCount
      <4> QED
        BY <1>2, <4>3, FsIs DEF Good
    <3>3. k.ref[cwd[p]] > 0 /\ k.node[cwd[p]].nlink > 0
      BY <1>2, <2>1, <2>4, <3>1, <3>2 DEF LinkedDir
    <3>4. Good(r) /\ r.node = fs.node /\ r.ref = [k.ref EXCEPT ![cwd[p]] = @ - 1]
      <4> PICK c : c = cwd[p]
        OBVIOUS
      <4>1. c \in Inum /\ Good(k) /\ k.ref[c] > 0 /\ k.node[c].nlink > 0 /\ r = Iput(k, c)
        BY <1>2, <2>1, <3>1, <3>3
      <4>2. Becomes(k, r, k.node, [k.ref EXCEPT ![c] = @ - 1], c)
        BY ONLY <4>1, IputIs
      <4> QED
        BY <3>1, <4>2 DEF Becomes
    <3>5. \A j \in Inum : r.ref[j] = fs.ref[j] + (IF j = w.ip THEN 1 ELSE 0) - (IF j = cwd[p] THEN 1 ELSE 0)
      BY <1>2, <2>1, <3>1, <3>2, <3>4
    <3>6. Evolves(fs, r)
      <4>1. Grown(fs.node, r.node)
        BY <3>4 DEF Grown
      <4>2. ASSUME NEW j \in Inum, r.node[j].nlink = 0 PROVE r.ref[j] = fs.ref[j]
        <5>1. j # w.ip /\ j # cwd[p]
          BY <2>4, <3>1, <3>4, <4>2 DEF Linked, LinkedDir
        <5> QED
          BY <3>2, <3>5, <5>1
      <4> QED
        BY <1>2, <3>4, <4>1, <4>2, GrownEvolves
    <3>7. RefInv(r, ftable', cwd', closing', linking')
      <4>1. ASSUME NEW j \in Inum
            PROVE  r.ref[j] = Cardinality(UserSet(ftable, cwd', closing, linking, j))
        <5>1. Cardinality(UserSet(ftable, cwd', closing, linking, j))
                = Cardinality(UserSet(ftable, cwd, closing, linking, j))
                  + (IF w.ip = j THEN 1 ELSE 0) - (IF cwd[p] = j THEN 1 ELSE 0)
          <6>1. cwd'[p] = w.ip /\ \A q \in Proc : q # p => cwd'[q] = cwd[q]
            BY <1>2, <2>1 DEF Rest
          <6> QED
            <7>1. Cardinality(UserSet(ftable, cwd', closing, linking, j))
                    = Cardinality(UserSet(ftable, cwd, closing, linking, j))
                      + (IF cwd'[p] = j THEN 1 ELSE 0) - (IF cwd[p] = j THEN 1 ELSE 0)
              BY ONLY <6>1, p \in Proc, CwdMoved
            <7> QED
              BY <6>1, <7>1
        <5>2. fs.ref[j] = Cardinality(UserSet(ftable, cwd, closing, linking, j))
          BY <1>2 DEF RefInv
        <5> QED
          BY <3>5, <5>1, <5>2
      <4> QED
        BY <1>1, <4>1 DEF RefInv
    <3>8. ProcInv(r.node, cwd', exiting', closing', ofile')
      <4>1. LinkedDir(r.node, w.ip)
        BY <2>1, <3>1, <3>4 DEF LinkedDir, Linked
      <4>2. cwd'[p] = w.ip /\ w.ip # 0 /\ \A q \in Proc : q # p => cwd'[q] = cwd[q]
        BY <1>2, <2>1, Constants DEF Rest
      <4>3. ASSUME NEW q \in Proc
            PROVE  /\ cwd'[q] # 0 => LinkedDir(r.node, cwd'[q])
                   /\ cwd'[q] = 0 => q \notin exiting /\ closing[q] = NotClosing
                                     /\ \A d \in Fd : ofile[q][d] = 0
                   /\ closing[q] # NotClosing => closing[q].ip # 0
        <5>1. CASE q = p
          BY <1>2, <4>1, <4>2, <5>1
        <5>2. CASE q # p
          BY <1>2, <3>4, <4>2, <5>2 DEF ProcInv
        <5> QED
          BY <5>1, <5>2
      <4> QED
        BY <1>1, <4>3 DEF ProcInv
    <3>9. LinkInv(r.node, cwd', exiting', linking') /\ FileInv(ftable', ofile', closing')
      BY <1>1, <1>2, <3>4 DEF LinkInv
    <3> QED
      BY <1>1, <1>2, <2>3, <3>4, <3>6, <3>7, <3>8, <3>9, StepKept
  <2> QED
    BY <2>5, <2>6
<1> QED
  BY <1>5, <1>6
\* The parts of the invariant, and the users it counts.
LEMMA Parts ==
  ASSUME FilesInv, fs.bad = "none"
  PROVE  /\ Rest /\ Good(fs) /\ leaked = Lost(fs)
         /\ LinkInv(fs.node, cwd, exiting, linking)
         /\ ProcInv(fs.node, cwd, exiting, closing, ofile)
         /\ FileInv(ftable, ofile, closing) /\ RefInv(fs, ftable, cwd, closing, linking)
         /\ linking = NotLinking => Tree(fs.node)
<1>1. linking = NotLinking => linking.ip = 0
  BY DEF NotLinking
<1> QED
  BY <1>1, Constants DEF FilesInv, LinkInv

LEMMA InUse ==
  ASSUME NEW k, NEW t, NEW c, NEW cl, NEW l, RefInv(k, t, c, cl, l), NEW i \in Inum,
         NEW x \in Tags, NEW n \in File \cup Proc, Uses(t, c, cl, l, i, x, n)
  PROVE  k.ref[i] > 0
<1>1. k.ref[i] = Cardinality(UserSet(t, c, cl, l, i))
  BY DEF RefInv
<1> QED
  BY <1>1, UserCount

\* The last step of exit() gives up the current directory.
LEMMA ExitCwdKept ==
  ASSUME FilesInv, NEW p \in Proc, ExitCwd(p)
  PROVE  FilesInv' /\ Moved
<1> DEFINE i == cwd[p]
           r == Iput(fs, i)
<1>1. /\ p \in exiting /\ Admitted(p) /\ FreeFds(p) = Fd
      /\ SetFs(r) /\ cwd' = [cwd EXCEPT ![p] = 0] /\ exiting' = exiting \ {p}
      /\ UNCHANGED <<ftable, ofile, closing, linking, leaked>>
  BY DEF ExitCwd
<1>2. /\ Rest /\ fs.bad = "none" /\ Good(fs) /\ Tree(fs.node)
      /\ linking = NotLinking /\ closing[p] = NotClosing /\ i \in Inum
      /\ ProcInv(fs.node, cwd, exiting, closing, ofile)
      /\ FileInv(ftable, ofile, closing) /\ RefInv(fs, ftable, cwd, closing, linking)
  BY <1>1, CallReady
<1>3. fs.ref[i] > 0 /\ fs.ref \in [Inum -> Int]
  <2>1. Uses(ftable, cwd, closing, linking, i, "cwd", p) /\ "cwd" \in Tags
    BY DEF Uses, Tags
  <2> HIDE DEF i
  <2>2. fs.ref[i] > 0
    BY <1>2, <2>1, InUse
  <2> QED
    BY <1>2, <2>2, FsIs DEF Good
<1> HIDE DEF i, r
<1>4. /\ Good(r) /\ Tree(r.node) /\ r.ref = [fs.ref EXCEPT ![i] = @ - 1] /\ Evolves(fs, r)
      /\ \A j \in Inum : LinkedDir(fs.node, j) => LinkedDir(r.node, j)
  BY <1>2, <1>3, PutEvolves DEF r
<1>5. Rest'
  BY <1>1, <1>2 DEF Rest
<1>6. cwd'[p] = 0 /\ \A q \in Proc : q # p => cwd'[q] = cwd[q]
  BY <1>1, <1>2 DEF Rest
<1>7. RefInv(r, ftable', cwd', closing', linking')
  <2>1. ASSUME NEW j \in Inum
        PROVE  r.ref[j] = Cardinality(UserSet(ftable, cwd', closing, linking, j))
    <3>1. Cardinality(UserSet(ftable, cwd', closing, linking, j))
            = Cardinality(UserSet(ftable, cwd, closing, linking, j))
              + (IF cwd'[p] = j THEN 1 ELSE 0) - (IF cwd[p] = j THEN 1 ELSE 0)
      BY ONLY <1>6, p \in Proc, CwdMoved
    <3>2. fs.ref[j] = Cardinality(UserSet(ftable, cwd, closing, linking, j))
      BY <1>2 DEF RefInv
    <3>3. j # 0 /\ r.ref[j] = IF j = i THEN fs.ref[j] - 1 ELSE fs.ref[j]
      BY <1>3, <1>4, Constants
    <3>4. fs.ref[j] \in Int
      BY <1>3
    <3> QED
      BY <1>6, <3>1, <3>2, <3>3, <3>4 DEF i
  <2> QED
    BY <1>1, <2>1 DEF RefInv
<1>8. ProcInv(r.node, cwd', exiting', closing', ofile')
  <2>1. \A d \in Fd : ofile[p][d] = 0
    BY <1>1 DEF FreeFds
  <2>2. ASSUME NEW q \in Proc
        PROVE  /\ cwd'[q] # 0 => LinkedDir(r.node, cwd'[q])
               /\ cwd'[q] = 0 => q \notin exiting' /\ closing[q] = NotClosing
                                 /\ \A d \in Fd : ofile[q][d] = 0
               /\ closing[q] # NotClosing => closing[q].ip # 0
    <3>1. CASE q = p
      BY <1>1, <1>2, <1>6, <2>1, <3>1
    <3>2. CASE q # p
      <4>1. cwd[q] \in Inum \cup {0}
        BY <1>2 DEF Rest
      <4> QED
        BY <1>1, <1>2, <1>4, <1>6, <3>2, <4>1 DEF ProcInv
    <3> QED
      BY <3>1, <3>2
  <2> QED
    BY <1>1, <2>2 DEF ProcInv
<1>9. LinkInv(r.node, cwd', exiting', linking') /\ FileInv(ftable', ofile', closing')
  BY <1>1, <1>2, <1>4 DEF LinkInv
<1> QED
  BY <1>1, <1>2, <1>4, <1>5, <1>7, <1>8, <1>9, StepKept

\* The rest of fileclose() gives up the inode.
LEMMA ClosePutKept ==
  ASSUME FilesInv, NEW p \in Proc, ClosePut(p)
  PROVE  FilesInv' /\ Moved
<1> DEFINE i == closing[p].ip
           r == Iput(fs, i)
<1>1. /\ fs.bad = "none" /\ closing[p] # NotClosing /\ linking = NotLinking
      /\ SetFs(r) /\ closing' = [closing EXCEPT ![p] = NotClosing]
      /\ ofile' = [ofile EXCEPT
            ![p] = [d \in Fd |-> IF d = closing[p].fd THEN 0 ELSE ofile[p][d]]]
      /\ UNCHANGED <<ftable, cwd, exiting, linking, leaked>>
  BY DEF ClosePut
<1>2. /\ Rest /\ Good(fs) /\ Tree(fs.node)
      /\ ProcInv(fs.node, cwd, exiting, closing, ofile)
      /\ FileInv(ftable, ofile, closing) /\ RefInv(fs, ftable, cwd, closing, linking)
  BY <1>1, Parts
<1>3. i \in Inum
  BY <1>1, <1>2 DEF Rest, ProcInv
<1>4. fs.ref[i] > 0 /\ fs.ref \in [Inum -> Int]
  <2>1. Uses(ftable, cwd, closing, linking, i, "closing", p) /\ "closing" \in Tags
    BY DEF Uses, Tags
  <2> HIDE DEF i
  <2>2. fs.ref[i] > 0
    BY <1>2, <1>3, <2>1, InUse
  <2> QED
    BY <1>2, <2>2, FsIs DEF Good
<1> HIDE DEF i, r
<1>5. /\ Good(r) /\ Tree(r.node) /\ r.ref = [fs.ref EXCEPT ![i] = @ - 1] /\ Evolves(fs, r)
      /\ \A j \in Inum : LinkedDir(fs.node, j) => LinkedDir(r.node, j)
  BY <1>2, <1>3, <1>4, PutEvolves DEF r
<1>6. /\ closing'[p] = NotClosing /\ \A q \in Proc : q # p => closing'[q] = closing[q]
      /\ \A d \in Fd : ofile'[p][d] = IF d = closing[p].fd THEN 0 ELSE ofile[p][d]
      /\ \A q \in Proc : q # p => ofile'[q] = ofile[q]
  BY <1>1, <1>2 DEF Rest
<1>7. Rest'
  <2>1. NotClosing \in [ip : Inum \cup {0}, fd : Fd \cup {0}]
    BY DEF NotClosing
  <2>2. [d \in Fd |-> IF d = closing[p].fd THEN 0 ELSE ofile[p][d]] \in [Fd -> File \cup {0}]
    BY <1>2 DEF Rest
  <2>3. closing' \in [Proc -> [ip : Inum \cup {0}, fd : Fd \cup {0}]]
        /\ ofile' \in [Proc -> [Fd -> File \cup {0}]]
    BY <1>1, <1>2, <2>1, <2>2 DEF Rest
  <2> QED
    BY <1>1, <1>2, <2>3 DEF Rest
<1>8. RefInv(r, ftable', cwd', closing', linking')
  <2>1. ASSUME NEW j \in Inum
        PROVE  r.ref[j] = Cardinality(UserSet(ftable, cwd, closing', linking, j))
    <3>1. Cardinality(UserSet(ftable, cwd, closing', linking, j))
            = Cardinality(UserSet(ftable, cwd, closing, linking, j))
              + (IF closing'[p].ip = j THEN 1 ELSE 0) - (IF closing[p].ip = j THEN 1 ELSE 0)
      <4>1. \A q \in Proc : q # p => closing'[q] = closing[q]
        BY <1>6
      <4> QED
        BY ONLY <4>1, p \in Proc, ClosingMoved
    <3>2. fs.ref[j] = Cardinality(UserSet(ftable, cwd, closing, linking, j))
      BY <1>2 DEF RefInv
    <3>3. j # 0 /\ r.ref[j] = IF j = i THEN fs.ref[j] - 1 ELSE fs.ref[j]
      BY <1>4, <1>5, Constants
    <3>4. fs.ref[j] \in Int /\ closing'[p].ip = 0
      BY <1>4, <1>6 DEF NotClosing
    <3> QED
      BY <3>1, <3>2, <3>3, <3>4 DEF i
  <2> QED
    BY <1>1, <2>1 DEF RefInv
<1>9. FileInv(ftable', ofile', closing')
  <2>1. ASSUME NEW f \in File PROVE HolderSet(ofile', closing', f) = HolderSet(ofile, closing, f)
    <3>1. ASSUME NEW q \in Proc, NEW d \in Fd
          PROVE  ofile'[q][d] = f /\ d # closing'[q].fd <=> ofile[q][d] = f /\ d # closing[q].fd
      BY <1>6, Constants DEF NotClosing
    <3> QED
      BY ONLY <3>1, HoldersSame
  <2> QED
    BY <1>1, <1>2, <2>1 DEF FileInv
<1>10. ProcInv(r.node, cwd', exiting', closing', ofile')
  <2>1. ASSUME NEW q \in Proc
        PROVE  /\ cwd[q] # 0 => LinkedDir(r.node, cwd[q])
               /\ cwd[q] = 0 => q \notin exiting /\ closing'[q] = NotClosing
                                /\ \A d \in Fd : ofile'[q][d] = 0
               /\ closing'[q] # NotClosing => closing'[q].ip # 0
    <3>1. cwd[q] \in Inum \cup {0}
      BY <1>2 DEF Rest
    <3> QED
      BY <1>2, <1>5, <1>6, <3>1 DEF ProcInv
  <2> QED
    BY <1>1, <2>1 DEF ProcInv
<1>11. LinkInv(r.node, cwd', exiting', linking')
  BY <1>1, <1>5 DEF LinkInv
<1> QED
  BY <1>1, <1>5, <1>7, <1>8, <1>9, <1>10, <1>11, StepKept

\* exit() begins.
LEMMA EvolvesSelf ==
  ASSUME NEW k, Good(k) PROVE Evolves(k, k)
  BY DEF Evolves

LEMMA ExitKept ==
  ASSUME FilesInv, NEW p \in Proc, Exit(p)
  PROVE  FilesInv' /\ Moved
<1>1. /\ Running(p) /\ exiting' = exiting \cup {p}
      /\ UNCHANGED <<fs, ftable, ofile, cwd, closing, linking, leaked>>
  BY DEF Exit
<1>2. fs.bad = "none" /\ cwd[p] # 0 /\ (linking # NotLinking => linking.p # p)
  BY <1>1 DEF Running
<1>3. /\ Rest /\ Good(fs) /\ LinkInv(fs.node, cwd, exiting, linking)
      /\ ProcInv(fs.node, cwd, exiting, closing, ofile)
      /\ FileInv(ftable, ofile, closing) /\ RefInv(fs, ftable, cwd, closing, linking)
  BY <1>2, Parts
<1>4. SetFs(fs) /\ Evolves(fs, fs)
  BY <1>1, <1>2, <1>3, EvolvesSelf DEF SetFs
<1>5. Rest'
  BY <1>1, <1>3 DEF Rest
<1>6. LinkInv(fs.node, cwd', exiting', linking')
  <2>1. linking.ip \in Inum => linking # NotLinking
    BY Constants DEF NotLinking
  <2> QED
    BY <1>1, <1>2, <1>3, <2>1 DEF LinkInv
<1>7. ProcInv(fs.node, cwd', exiting', closing', ofile')
  BY <1>1, <1>2, <1>3 DEF ProcInv
<1> QED
  BY <1>1, <1>2, <1>3, <1>4, <1>5, <1>6, <1>7, StepKept
\* read(), write(), fstat(): the file behind a descriptor is open.
LEMMA Opened ==
  ASSUME Rest, FileInv(ftable, ofile, closing), NEW p \in Proc, closing[p] = NotClosing,
         NEW d \in Fd, ofile[p][d] # 0
  PROVE  /\ ofile[p][d] \in File /\ ftable[ofile[p][d]].ref > 0
         /\ ftable[ofile[p][d]].type # "none"
         /\ ftable[ofile[p][d]].type = "inode" <=> ftable[ofile[p][d]].ip # 0
<1>1. PICK f \in File : f = ofile[p][d]
  BY DEF Rest
<1>2. closing[p].fd = 0 /\ d # 0
  BY Constants DEF NotClosing
<1>3. Cardinality(HolderSet(ofile, closing, f)) > 0
  BY <1>1, <1>2, HolderCount
<1>4. ftable[f].ref > 0
  BY <1>3 DEF FileInv
<1> QED
  BY <1>1, <1>4 DEF FileInv

LEMMA UseKept ==
  ASSUME FilesInv, NEW p \in Proc, Use(p)
  PROVE  FilesInv' /\ Moved
<1>1. PICK d \in Fd : /\ Running(p) /\ ofile[p][d] # 0 /\ SetFs(FileRead(fs, ftable[ofile[p][d]]))
  BY DEF Use
<1>2. UNCHANGED <<ftable, ofile, cwd, closing, exiting, linking, leaked>>
  BY DEF Use
<1>3. fs.bad = "none" /\ closing[p] = NotClosing
  BY <1>1 DEF Running
<1>4. /\ Rest /\ Good(fs) /\ LinkInv(fs.node, cwd, exiting, linking)
      /\ ProcInv(fs.node, cwd, exiting, closing, ofile)
      /\ FileInv(ftable, ofile, closing) /\ RefInv(fs, ftable, cwd, closing, linking)
  BY <1>3, Parts
<1> DEFINE f == ofile[p][d]
           i == ftable[f].ip
           r == FileRead(fs, ftable[f])
<1>5. f \in File /\ ftable[f].ref > 0 /\ ftable[f].type # "none" /\ (ftable[f].type = "inode" <=> i # 0)
  BY <1>1, <1>3, <1>4, Opened
<1> HIDE DEF f
<1>6. Good(r) /\ r.node = fs.node /\ r.ref = fs.ref
  <2>1. CASE i = 0
    <3>1. r = fs
      BY <1>5, <2>1 DEF FileRead
    <3> QED
      BY <1>4, <3>1
  <2>2. CASE i # 0
    <3>1. i \in Inum /\ r = Ilock(fs, i)
      BY <1>4, <1>5, <2>2 DEF FileRead, Rest
    <3>2. Uses(ftable, cwd, closing, linking, i, "file", f) /\ "file" \in Tags
      BY <1>5 DEF Uses, Tags
    <3> HIDE DEF i, r
    <3>3. fs.ref[i] > 0
      BY <1>4, <1>5, <3>1, <3>2, InUse
    <3> QED
      BY <1>4, <3>1, <3>3, IlockIs DEF Becomes
  <2> QED
    BY <2>1, <2>2
<1>7. SetFs(r)
  BY <1>1 DEF f
<1> HIDE DEF r
<1>8. Evolves(fs, r)
  BY <1>6 DEF Evolves, Lost
<1>9. Rest' /\ RefInv(r, ftable', cwd', closing', linking')
  BY <1>2, <1>4, <1>6 DEF Rest, RefInv
<1> QED
  BY <1>2, <1>3, <1>4, <1>6, <1>7, <1>8, <1>9, StepKept

\* A free descriptor, and a free file.
LEMMA FreeSlots ==
  ASSUME Rest, NEW p \in Proc
  PROVE  /\ FreeFds(p) # {} => FdAlloc(p) \in Fd /\ ofile[p][FdAlloc(p)] = 0
         /\ FreeFiles # {} => FileAlloc \in File /\ ftable[FileAlloc].ref = 0
         /\ FreeFds(p) \subseteq Nat /\ FreeFiles \subseteq Nat
<1>1. FreeFds(p) \subseteq Fd /\ FreeFiles \subseteq File
  BY DEF FreeFds, FreeFiles
<1>2. FreeFds(p) \subseteq Nat /\ FreeFiles \subseteq Nat
  BY <1>1, Constants
<1>3. (FreeFds(p) # {} => FdAlloc(p) \in FreeFds(p)) /\ (FreeFiles # {} => FileAlloc \in FreeFiles)
  BY <1>2, LeastIs DEF FdAlloc, FileAlloc
<1> QED
  BY <1>2, <1>3 DEF FreeFds, FreeFiles

\* Steps that leave the inodes and their users alone.
LEMMA FilesKept ==
  ASSUME FilesInv, fs.bad = "none", UNCHANGED <<fs, cwd, exiting, linking, leaked>>, Rest',
         FileInv(ftable', ofile', closing'),
         RefInv(fs, ftable', cwd, closing', linking),
         \A q \in Proc : /\ cwd[q] = 0 => closing'[q] = NotClosing
                                          /\ \A d \in Fd : ofile'[q][d] = 0
                         /\ closing'[q] # NotClosing => closing'[q].ip # 0
  PROVE  FilesInv' /\ Moved
<1>1. /\ Rest /\ Good(fs) /\ LinkInv(fs.node, cwd, exiting, linking)
      /\ ProcInv(fs.node, cwd, exiting, closing, ofile)
  BY Parts
<1>2. SetFs(fs) /\ Evolves(fs, fs)
  BY <1>1, EvolvesSelf DEF SetFs
<1>3. ProcInv(fs.node, cwd', exiting', closing', ofile')
  BY <1>1 DEF ProcInv
<1> QED
  BY <1>1, <1>2, <1>3, StepKept

\* dup().
LEMMA DupKept ==
  ASSUME FilesInv, NEW p \in Proc, Dup(p)
  PROVE  FilesInv' /\ Moved
<1>1. PICK d0 \in Fd :
        /\ Running(p) /\ ofile[p][d0] # 0 /\ FreeFds(p) # {}
        /\ ofile' = [ofile EXCEPT ![p][FdAlloc(p)] = ofile[p][d0]]
        /\ ftable' = FileDup(ftable, ofile[p][d0])
        /\ UNCHANGED <<fs, cwd, closing, exiting, linking, leaked>>
  BY DEF Dup
<1>2. fs.bad = "none" /\ closing[p] = NotClosing /\ cwd[p] # 0
  BY <1>1 DEF Running
<1>3. /\ Rest /\ ProcInv(fs.node, cwd, exiting, closing, ofile)
      /\ FileInv(ftable, ofile, closing) /\ RefInv(fs, ftable, cwd, closing, linking)
  BY <1>2, Parts
<1> DEFINE f == ofile[p][d0]
           d == FdAlloc(p)
<1>4. f \in File /\ ftable[f].ref > 0
  BY <1>1, <1>2, <1>3, Opened
<1>5. d \in Fd /\ ofile[p][d] = 0
  BY <1>1, <1>3, FreeSlots
<1> HIDE DEF f, d
<1>6. /\ \A e \in Fd : ofile'[p][e] = IF e = d THEN f ELSE ofile[p][e]
      /\ \A q \in Proc : q # p => ofile'[q] = ofile[q]
      /\ ofile' \in [Proc -> [Fd -> File \cup {0}]]
  BY <1>1, <1>3, <1>4, <1>5 DEF Rest, f, d
<1>7. /\ \A g \in File : /\ ftable'[g].ref = IF g = f THEN ftable[g].ref + 1 ELSE ftable[g].ref
                         /\ ftable'[g].type = ftable[g].type /\ ftable'[g].ip = ftable[g].ip
                         /\ g # f => ftable'[g] = ftable[g]
                         /\ ftable[g].ref \in Nat
      /\ ftable' \in [File -> [ref : Nat, type : {"none", "inode", "pipe"}, ip : Inum \cup {0}]]
  <2> DEFINE R == [ref : Nat, type : {"none", "inode", "pipe"}, ip : Inum \cup {0}]
  <2>1. ftable' = [ftable EXCEPT ![f] = [ftable[f] EXCEPT !.ref = @ + 1]]
    BY <1>1 DEF FileDup, f
  <2>2. PICK v \in R : v = ftable[f]
    BY <1>3, <1>4 DEF Rest
  <2>3. PICK n : n = [v EXCEPT !.ref = @ + 1]
    OBVIOUS
  <2>4. n \in R /\ n.ref = v.ref + 1 /\ n.type = v.type /\ n.ip = v.ip
    BY <2>3
  <2>5. ftable' = [ftable EXCEPT ![f] = n] /\ ftable \in [File -> R]
    BY <1>3, <2>1, <2>2, <2>3 DEF Rest
  <2>6. \A g \in File : ftable[g] \in R /\ ftable'[g] = IF g = f THEN n ELSE ftable[g]
    BY <2>5
  <2>7. ftable' \in [File -> R]
    BY <2>4, <2>5
  <2>8. \A g \in File : ftable[g].ref \in Nat
    BY <2>6
  <2> HIDE DEF R
  <2>9. ASSUME NEW g \in File
        PROVE  /\ ftable'[g].ref = IF g = f THEN ftable[g].ref + 1 ELSE ftable[g].ref
               /\ ftable'[g].type = ftable[g].type /\ ftable'[g].ip = ftable[g].ip
               /\ g # f => ftable'[g] = ftable[g]
    BY <2>2, <2>4, <2>6
  <2> QED
    BY <2>7, <2>8, <2>9 DEF R
<1>8. Rest'
  BY <1>1, <1>3, <1>6, <1>7 DEF Rest
<1>9. ASSUME NEW g \in File
      PROVE  Cardinality(HolderSet(ofile', closing', g))
               = IF g = f THEN Cardinality(HolderSet(ofile, closing, g)) + 1
                 ELSE Cardinality(HolderSet(ofile, closing, g))
  <2>1. closing[p].fd = 0 /\ d # 0 /\ g # 0
    BY <1>2, <1>5, Constants DEF NotClosing
  <2>2. CASE g = f
    <3>1. OneHolderMore(ofile, closing, ofile', closing, g, p, d)
      BY <1>5, <1>6, <2>1, <2>2 DEF OneHolderMore
    <3>2. Cardinality(HolderSet(ofile', closing, g)) = Cardinality(HolderSet(ofile, closing, g)) + 1
      BY ONLY <3>1, HoldersAdded
    <3> QED
      BY <1>1, <2>2, <3>2
  <2>3. CASE g # f
    <3>1. \A q \in Proc, e \in Fd :
            ofile'[q][e] = g /\ e # closing[q].fd <=> ofile[q][e] = g /\ e # closing[q].fd
      BY <1>5, <1>6, <2>1, <2>3
    <3>2. HolderSet(ofile', closing, g) = HolderSet(ofile, closing, g)
      BY ONLY <3>1, HoldersSame
    <3> QED
      BY <1>1, <2>3, <3>2
  <2> QED
    BY <2>2, <2>3
<1>10. FileInv(ftable', ofile', closing')
  <2>1. ASSUME NEW g \in File
        PROVE  /\ ftable'[g].ref = Cardinality(HolderSet(ofile', closing', g))
               /\ ftable'[g].ref = 0 => ftable'[g] = NoFile
               /\ ftable'[g].ref > 0 => /\ ftable'[g].type # "none"
                                        /\ ftable'[g].type = "inode" <=> ftable'[g].ip # 0
    BY <1>3, <1>4, <1>7, <1>9 DEF FileInv
  <2> QED
    BY <2>1 DEF FileInv
<1>11. RefInv(fs, ftable', cwd, closing', linking)
  <2>1. ASSUME NEW j \in Inum
        PROVE  Cardinality(UserSet(ftable', cwd, closing, linking, j))
                 = Cardinality(UserSet(ftable, cwd, closing, linking, j))
    <3>1. \A x \in Tags, n \in File \cup Proc :
            Uses(ftable', cwd, closing, linking, j, x, n) <=> Uses(ftable, cwd, closing, linking, j, x, n)
      BY <1>4, <1>7 DEF Uses
    <3> QED
      BY ONLY <3>1, UsersSame
  <2> QED
    BY <1>1, <1>3, <2>1 DEF RefInv
<1>12. \A q \in Proc : /\ cwd[q] = 0 => closing'[q] = NotClosing
                                        /\ \A e \in Fd : ofile'[q][e] = 0
                       /\ closing'[q] # NotClosing => closing'[q].ip # 0
  BY <1>1, <1>2, <1>3, <1>6 DEF ProcInv
<1> QED
  BY <1>1, <1>2, <1>8, <1>10, <1>11, <1>12, FilesKept
\* fileclose() under its lock: the reference goes, or becomes the call's own.
LEMMA FileDropKept ==
  ASSUME FilesInv, NEW p \in Proc, NEW d \in Fd, NEW then, then = 0 \/ then = d,
         FileDrop(p, d, then)
  PROVE  FilesInv' /\ Moved
<1> DEFINE f == ofile[p][d]
           last == ftable[f].ref = 1
           inode == ftable[f].type = "inode"
           R == [ref : Nat, type : {"none", "inode", "pipe"}, ip : Inum \cup {0}]
<1>1. /\ Running(p) /\ f # 0
      /\ last => ftable' = [ftable EXCEPT ![f] = NoFile]
      /\ ~last => ftable' = [ftable EXCEPT ![f].ref = @ - 1]
      /\ last /\ inode =>
           /\ closing' = [closing EXCEPT ![p] = [ip |-> ftable[f].ip, fd |-> then]]
           /\ ofile' = [ofile EXCEPT ![p][d] = IF then = 0 THEN 0 ELSE f]
      /\ ~(last /\ inode) => ofile' = [ofile EXCEPT ![p][d] = 0] /\ closing' = closing
      /\ UNCHANGED <<fs, cwd, exiting, linking, leaked>>
  <2>1. Running(p) /\ f # 0 /\ UNCHANGED <<fs, cwd, exiting, linking, leaked>>
    BY DEF FileDrop
  <2>2. /\ last => ftable' = [ftable EXCEPT ![f] = NoFile]
        /\ ~last => ftable' = [ftable EXCEPT ![f].ref = @ - 1]
    BY DEF FileDrop
  <2>3. last /\ inode =>
          /\ closing' = [closing EXCEPT ![p] = [ip |-> ftable[f].ip, fd |-> then]]
          /\ ofile' = [ofile EXCEPT ![p][d] = IF then = 0 THEN 0 ELSE f]
    BY DEF FileDrop
  <2>4. ~(last /\ inode) => ofile' = [ofile EXCEPT ![p][d] = 0] /\ closing' = closing
    BY DEF FileDrop
  <2> QED
    BY <2>1, <2>2, <2>3, <2>4
<1>2. fs.bad = "none" /\ closing[p] = NotClosing /\ cwd[p] # 0
  BY <1>1 DEF Running
<1>3. /\ Rest /\ ProcInv(fs.node, cwd, exiting, closing, ofile)
      /\ FileInv(ftable, ofile, closing) /\ RefInv(fs, ftable, cwd, closing, linking)
  BY <1>2, Parts
<1>4. f \in File /\ ftable[f].ref > 0 /\ (inode <=> ftable[f].ip # 0) /\ ftable[f].type # "none"
  BY <1>1, <1>2, <1>3, Opened
<1>5. closing[p].fd = 0 /\ closing[p].ip = 0 /\ d # 0 /\ 0 \notin File
  BY <1>2, Constants DEF NotClosing
<1>6. PICK v \in R : v = ftable[f]
  BY <1>3, <1>4 DEF Rest
<1>7. PICK n \in R : /\ n.ref = v.ref - 1 /\ (last => n = NoFile)
                     /\ (~last => n.type = v.type /\ n.ip = v.ip)
                     /\ ftable' = [ftable EXCEPT ![f] = n]
  <2>1. CASE last
    <3>1. NoFile \in R /\ NoFile.ref = 0
      BY DEF NoFile
    <3> QED
      BY <1>1, <1>6, <2>1, <3>1
  <2>2. CASE ~last
    <3>1. PICK n : n = [v EXCEPT !.ref = @ - 1]
      OBVIOUS
    <3>2. v.ref > 1 /\ v.ref - 1 \in Nat
      BY <1>4, <1>6, <2>2
    <3>3. n \in R /\ n.ref = v.ref - 1 /\ n.type = v.type /\ n.ip = v.ip
      BY <3>1, <3>2
    <3>4. ftable' = [ftable EXCEPT ![f] = [ftable[f] EXCEPT !.ref = @ - 1]]
      BY <1>1, <2>2
    <3>5. ftable' = [ftable EXCEPT ![f] = n]
      BY <1>6, <3>1, <3>4
    <3> QED
      BY <1>6, <2>2, <3>3, <3>5
  <2> QED
    BY <2>1, <2>2
<1>8. /\ ftable' \in [File -> R] /\ ftable'[f] = n
      /\ \A g \in File : g # f => ftable'[g] = ftable[g]
  BY <1>3, <1>4, <1>7 DEF Rest
<1>9. /\ closing' \in [Proc -> [ip : Inum \cup {0}, fd : Fd \cup {0}]]
      /\ ofile' \in [Proc -> [Fd -> File \cup {0}]]
      /\ \A q \in Proc : q # p => closing'[q] = closing[q] /\ ofile'[q] = ofile[q]
      /\ \A e \in Fd : e # d => ofile'[p][e] = ofile[p][e]
      /\ last /\ inode => /\ closing'[p] = [ip |-> v.ip, fd |-> then]
                          /\ ofile'[p][d] = IF then = 0 THEN 0 ELSE f
      /\ ~(last /\ inode) => closing' = closing /\ ofile'[p][d] = 0
  <2>1. [ip |-> v.ip, fd |-> then] \in [ip : Inum \cup {0}, fd : Fd \cup {0}]
    BY <1>6
  <2>2. CASE last /\ inode
    <3>1. closing' = [closing EXCEPT ![p] = [ip |-> v.ip, fd |-> then]]
      BY <1>1, <1>6, <2>2
    <3>2. ofile' = [ofile EXCEPT ![p][d] = IF then = 0 THEN 0 ELSE f]
      BY <1>1, <2>2
    <3> HIDE DEF f, last, inode, R
    <3>3. closing' \in [Proc -> [ip : Inum \cup {0}, fd : Fd \cup {0}]]
          /\ closing'[p] = [ip |-> v.ip, fd |-> then]
          /\ \A q \in Proc : q # p => closing'[q] = closing[q]
      BY <1>3, <2>1, <3>1 DEF Rest
    <3>4. /\ ofile' \in [Proc -> [Fd -> File \cup {0}]]
          /\ \A q \in Proc : q # p => ofile'[q] = ofile[q]
          /\ \A e \in Fd : e # d => ofile'[p][e] = ofile[p][e]
          /\ ofile'[p][d] = IF then = 0 THEN 0 ELSE f
      BY <1>3, <1>4, <3>2 DEF Rest
    <3> QED
      BY <2>2, <3>3, <3>4
  <2>3. CASE ~(last /\ inode)
    <3>1. closing' = closing /\ ofile' = [ofile EXCEPT ![p][d] = 0]
      BY <1>1, <2>3
    <3> HIDE DEF f, last, inode, R
    <3> QED
      BY <1>3, <2>3, <3>1 DEF Rest
  <2> QED
    BY <2>2, <2>3
<1>10. Rest'
  BY <1>1, <1>3, <1>8, <1>9 DEF Rest
<1>11. /\ last <=> v.ref = 1
       /\ inode <=> v.ip # 0
       /\ v.ref \in Nat /\ v.ref > 0 /\ v.type # "none"
  BY <1>4, <1>6
<1>12. v.type = "inode" <=> v.ip # 0
  BY <1>4, <1>6
<1>13. ofile[p][d] = f
  OBVIOUS
<1> HIDE DEF f, last, inode, R
<1>14. ASSUME NEW g \in File
       PROVE  Cardinality(HolderSet(ofile, closing, g))
                = IF g = f THEN Cardinality(HolderSet(ofile', closing', g)) + 1
                  ELSE Cardinality(HolderSet(ofile', closing', g))
  <2>1. \A q \in Proc, e \in Fd : q # p \/ e # d =>
          (ofile[q][e] = g /\ e # closing[q].fd <=> ofile'[q][e] = g /\ e # closing'[q].fd)
    <3>1. ASSUME NEW e \in Fd, e # d PROVE e # 0 /\ e # closing[p].fd /\ e # closing'[p].fd
      BY <1>5, <1>9, <3>1, Constants
    <3> QED
      BY <1>9, <3>1
  <2>2. ~(ofile'[p][d] = g /\ d # closing'[p].fd)
    BY <1>5, <1>9
  <2>3. ofile[p][d] = g /\ d # closing[p].fd <=> g = f
    BY <1>5, <1>13
  <2>4. CASE g = f
    <3>1. OneHolderMore(ofile', closing', ofile, closing, g, p, d)
      BY <2>1, <2>2, <2>3, <2>4 DEF OneHolderMore
    <3>2. Cardinality(HolderSet(ofile, closing, g)) = Cardinality(HolderSet(ofile', closing', g)) + 1
      BY ONLY <3>1, HoldersAdded
    <3> QED
      BY <2>4, <3>2
  <2>5. CASE g # f
    <3>1. \A q \in Proc, e \in Fd :
            ofile'[q][e] = g /\ e # closing'[q].fd <=> ofile[q][e] = g /\ e # closing[q].fd
      BY <2>1, <2>2, <2>3, <2>5
    <3>2. HolderSet(ofile', closing', g) = HolderSet(ofile, closing, g)
      BY ONLY <3>1, HoldersSame
    <3> QED
      BY <2>5, <3>2
  <2> QED
    BY <2>4, <2>5
<1>15. FileInv(ftable', ofile', closing')
  <2>1. ASSUME NEW g \in File
        PROVE  /\ ftable'[g].ref = Cardinality(HolderSet(ofile', closing', g))
               /\ ftable'[g].ref = 0 => ftable'[g] = NoFile
               /\ ftable'[g].ref > 0 => /\ ftable'[g].type # "none"
                                        /\ ftable'[g].type = "inode" <=> ftable'[g].ip # 0
    <3>0. Cardinality(HolderSet(ofile', closing', g)) \in Nat
      BY HolderCount
    <3>1. CASE g = f
      <4>1. v.ref = Cardinality(HolderSet(ofile, closing, g))
        BY <1>3, <1>6, <3>1 DEF FileInv
      <4>2. n.ref = Cardinality(HolderSet(ofile', closing', g))
        BY <1>7, <1>14, <3>0, <3>1, <4>1
      <4>3. n.ref = 0 => n = NoFile
        BY <1>7, <1>11
      <4>4. n.ref > 0 => n.type # "none" /\ (n.type = "inode" <=> n.ip # 0)
        BY <1>7, <1>11, <1>12
      <4> QED
        BY <1>8, <3>1, <4>2, <4>3, <4>4
    <3>2. CASE g # f
      BY <1>3, <1>8, <1>14, <3>2 DEF FileInv
    <3> QED
      BY <3>1, <3>2
  <2> QED
    BY <2>1 DEF FileInv
<1>16. RefInv(fs, ftable', cwd, closing', linking)
  <2>1. ASSUME NEW j \in Inum
        PROVE  Cardinality(UserSet(ftable', cwd, closing', linking, j))
                 = Cardinality(UserSet(ftable, cwd, closing, linking, j))
    <3> DEFINE u == Cardinality(UserSet(ftable, cwd, closing, linking, j))
               u1 == Cardinality(UserSet(ftable', cwd, closing, linking, j))
               u2 == Cardinality(UserSet(ftable', cwd, closing', linking, j))
    <3>1. u \in Nat /\ u1 \in Nat /\ u2 \in Nat
      BY UserCount
    <3>2. u1 = u + (IF ftable'[f].ref > 0 /\ ftable'[f].ip = j THEN 1 ELSE 0)
                 - (IF ftable[f].ref > 0 /\ ftable[f].ip = j THEN 1 ELSE 0)
      BY ONLY <1>4, <1>8, FileMoved
    <3>3. u2 = u1 + (IF closing'[p].ip = j THEN 1 ELSE 0) - (IF closing[p].ip = j THEN 1 ELSE 0)
      <4>1. \A q \in Proc : q # p => closing'[q] = closing[q]
        BY <1>9
      <4> QED
        BY ONLY <4>1, p \in Proc, ClosingMoved
    <3> HIDE DEF u, u1, u2
    <3>4. j # 0 /\ closing[p].ip # j /\ ftable[f] = v /\ ftable'[f] = n
      BY <1>5, <1>6, <1>8, Constants
    <3>5. CASE last /\ inode
      <4>1. n.ref = 0 /\ closing'[p].ip = v.ip
        BY <1>7, <1>9, <1>11, <3>5
      <4> QED
        BY <1>11, <3>1, <3>2, <3>3, <3>4, <4>1 DEF u, u2
    <3>6. CASE ~(last /\ inode)
      <4>1. closing'[p].ip # j
        BY <1>9, <3>4, <3>6
      <4>2. n.ref > 0 /\ n.ip = j <=> v.ref > 0 /\ v.ip = j
        BY <1>7, <1>11, <3>4, <3>6
      <4> QED
        BY <3>1, <3>2, <3>3, <3>4, <4>1, <4>2 DEF u, u2
    <3> QED
      BY <3>5, <3>6
  <2> QED
    BY <1>3, <2>1 DEF RefInv
<1>17. \A q \in Proc : /\ cwd[q] = 0 => closing'[q] = NotClosing
                                        /\ \A e \in Fd : ofile'[q][e] = 0
                       /\ closing'[q] # NotClosing => closing'[q].ip # 0
  <2>1. ASSUME NEW q \in Proc, q # p
        PROVE  /\ cwd[q] = 0 => closing'[q] = NotClosing /\ \A e \in Fd : ofile'[q][e] = 0
               /\ closing'[q] # NotClosing => closing'[q].ip # 0
    BY <1>3, <1>9, <2>1 DEF ProcInv
  <2>2. closing'[p] # NotClosing => closing'[p].ip # 0
    BY <1>2, <1>9, <1>11
  <2> QED
    BY <1>2, <2>1, <2>2
<1> QED
  BY <1>1, <1>2, <1>10, <1>15, <1>16, <1>17, FilesKept

LEMMA CloseKept ==
  ASSUME FilesInv, NEW p \in Proc, Close(p) \/ ExitClose(p)
  PROVE  FilesInv' /\ Moved
<1>1. CASE Close(p)
  <2>1. PICK d \in Fd : FileDrop(p, d, 0)
    BY <1>1 DEF Close
  <2> QED
    BY <2>1, FileDropKept
<1>2. CASE ExitClose(p)
  <2> DEFINE d == Least(Fd \ FreeFds(p))
  <2>1. FreeFds(p) # Fd /\ FreeFds(p) \subseteq Fd /\ FileDrop(p, d, d)
    BY <1>2 DEF ExitClose, FreeFds
  <2>2. Fd \ FreeFds(p) # {} /\ Fd \ FreeFds(p) \subseteq Nat
    BY <2>1, Constants
  <2>3. d \in Fd
    BY <2>2, LeastIs
  <2> QED
    BY <2>1, <2>3, FileDropKept
<1> QED
  BY <1>1, <1>2
\* The first two of a set of numbers.
LEMMA TwoLowest ==
  ASSUME NEW S, S \subseteq Nat, IsFiniteSet(S), Cardinality(S) > 1
  PROVE  /\ Least(S) \in S /\ Lowest(S \ {Least(S)}) \in S
         /\ Lowest(S \ {Least(S)}) # Least(S)
<1>1. S # {}
  BY FS_EmptySet
<1>2. Least(S) \in S
  BY <1>1, LeastIs
<1>3. Cardinality(S \ {Least(S)}) = Cardinality(S) - 1 /\ IsFiniteSet(S \ {Least(S)})
  BY <1>2, FS_RemoveElement
<1>4. S \ {Least(S)} # {}
  <2>1. Cardinality(S \ {Least(S)}) # 0
    BY <1>3, FS_CardinalityType
  <2> QED
    BY <2>1, FS_EmptySet
<1>5. Lowest(S \ {Least(S)}) \in S \ {Least(S)}
  BY <1>4, LeastIs
<1> QED
  BY <1>2, <1>5

\* pipe(): two files, each with a descriptor, or none.
LEMMA MakePipeKept ==
  ASSUME FilesInv, NEW p \in Proc, MakePipe(p)
  PROVE  FilesInv' /\ Moved
<1> DEFINE f == FileAlloc
           g == Lowest(FreeFiles \ {f})
           d == FdAlloc(p)
           e == Lowest(FreeFds(p) \ {d})
           end == [ref |-> 1, type |-> "pipe", ip |-> 0]
           R == [ref : Nat, type : {"none", "inode", "pipe"}, ip : Inum \cup {0}]
<1>1. /\ Running(p) /\ UNCHANGED <<fs, cwd, closing, exiting, linking, leaked>>
      /\ \/ /\ Cardinality(FreeFiles) > 1 /\ Cardinality(FreeFds(p)) > 1
            /\ ftable' = [ftable EXCEPT ![f] = end, ![g] = end]
            /\ ofile' = [ofile EXCEPT ![p][d] = f, ![p][e] = g]
         \/ UNCHANGED <<ftable, ofile>>
  BY DEF MakePipe
<1>2. fs.bad = "none" /\ closing[p] = NotClosing /\ cwd[p] # 0
  BY <1>1 DEF Running
<1>3. /\ Rest /\ ProcInv(fs.node, cwd, exiting, closing, ofile)
      /\ FileInv(ftable, ofile, closing) /\ RefInv(fs, ftable, cwd, closing, linking)
  BY <1>2, Parts
<1>4. CASE UNCHANGED <<ftable, ofile>>
  <2>1. Rest'
    BY <1>1, <1>3, <1>4 DEF Rest
  <2>2. /\ FileInv(ftable', ofile', closing') /\ RefInv(fs, ftable', cwd, closing', linking)
        /\ \A q \in Proc : /\ cwd[q] = 0 => closing'[q] = NotClosing
                                            /\ \A c \in Fd : ofile'[q][c] = 0
                           /\ closing'[q] # NotClosing => closing'[q].ip # 0
    BY <1>1, <1>3, <1>4 DEF ProcInv
  <2> QED
    BY <1>1, <1>2, <2>1, <2>2, FilesKept
<1>5. CASE /\ Cardinality(FreeFiles) > 1 /\ Cardinality(FreeFds(p)) > 1
           /\ ftable' = [ftable EXCEPT ![f] = end, ![g] = end]
           /\ ofile' = [ofile EXCEPT ![p][d] = f, ![p][e] = g]
  <2>1. /\ f \in File /\ g \in File /\ f # g /\ d \in Fd /\ e \in Fd /\ d # e
        /\ ftable[f].ref = 0 /\ ftable[g].ref = 0 /\ ofile[p][d] = 0 /\ ofile[p][e] = 0
    <3>1. IsFiniteSet(FreeFiles) /\ IsFiniteSet(FreeFds(p))
      BY FiniteConstants, FS_Subset DEF FreeFiles, FreeFds
    <3>2. FreeFiles \subseteq Nat /\ FreeFds(p) \subseteq Nat
      BY <1>3, FreeSlots
    <3>3. f \in FreeFiles /\ g \in FreeFiles /\ g # f
      BY <1>5, <3>1, <3>2, TwoLowest DEF FileAlloc
    <3>4. d \in FreeFds(p) /\ e \in FreeFds(p) /\ e # d
      BY <1>5, <3>1, <3>2, TwoLowest DEF FdAlloc
    <3> QED
      BY <3>3, <3>4 DEF FreeFiles, FreeFds
  <2> HIDE DEF f, g, d, e
  <2>2. end \in R /\ end.ref = 1 /\ end.type = "pipe" /\ end.ip = 0
    OBVIOUS
  <2> HIDE DEF end, R
  <2>3. /\ ftable' \in [File -> R] /\ ftable'[f] = end /\ ftable'[g] = end
        /\ \A h \in File : h # f /\ h # g => ftable'[h] = ftable[h]
    BY <1>3, <1>5, <2>1, <2>2 DEF Rest, R
  <2>4. /\ ofile' \in [Proc -> [Fd -> File \cup {0}]] /\ ofile'[p][d] = f /\ ofile'[p][e] = g
        /\ \A c \in Fd : c # d /\ c # e => ofile'[p][c] = ofile[p][c]
        /\ \A q \in Proc : q # p => ofile'[q] = ofile[q]
    BY <1>3, <1>5, <2>1 DEF Rest
  <2>5. Rest'
    BY <1>1, <1>3, <2>3, <2>4 DEF Rest, R
  <2>6. closing[p].fd = 0 /\ d # 0 /\ e # 0 /\ 0 \notin File
    BY <1>2, <2>1, Constants DEF NotClosing
  <2>7. ASSUME NEW h \in File
        PROVE  Cardinality(HolderSet(ofile', closing, h))
                 = IF h = f \/ h = g THEN Cardinality(HolderSet(ofile, closing, h)) + 1
                   ELSE Cardinality(HolderSet(ofile, closing, h))
    <3>1. CASE h = f
      <4>1. OneHolderMore(ofile, closing, ofile', closing, h, p, d)
        BY <2>1, <2>4, <2>6, <3>1 DEF OneHolderMore
      <4>2. Cardinality(HolderSet(ofile', closing, h)) = Cardinality(HolderSet(ofile, closing, h)) + 1
        BY ONLY <4>1, HoldersAdded
      <4> QED
        BY <3>1, <4>2
    <3>2. CASE h = g
      <4>1. OneHolderMore(ofile, closing, ofile', closing, h, p, e)
        BY <2>1, <2>4, <2>6, <3>2 DEF OneHolderMore
      <4>2. Cardinality(HolderSet(ofile', closing, h)) = Cardinality(HolderSet(ofile, closing, h)) + 1
        BY ONLY <4>1, HoldersAdded
      <4> QED
        BY <3>2, <4>2
    <3>3. CASE h # f /\ h # g
      <4>1. \A q \in Proc, c \in Fd :
              ofile'[q][c] = h /\ c # closing[q].fd <=> ofile[q][c] = h /\ c # closing[q].fd
        BY <2>1, <2>4, <2>6, <3>3
      <4>2. HolderSet(ofile', closing, h) = HolderSet(ofile, closing, h)
        BY ONLY <4>1, HoldersSame
      <4> QED
        BY <3>3, <4>2
    <3> QED
      BY <3>1, <3>2, <3>3
  <2>8. FileInv(ftable', ofile', closing')
    <3>1. ASSUME NEW h \in File
          PROVE  /\ ftable'[h].ref = Cardinality(HolderSet(ofile', closing, h))
                 /\ ftable'[h].ref = 0 => ftable'[h] = NoFile
                 /\ ftable'[h].ref > 0 => /\ ftable'[h].type # "none"
                                          /\ ftable'[h].type = "inode" <=> ftable'[h].ip # 0
      <4>1. CASE h = f \/ h = g
        BY <1>3, <2>1, <2>2, <2>3, <2>7, <4>1 DEF FileInv
      <4>2. CASE ~(h = f \/ h = g)
        BY <1>3, <2>3, <2>7, <4>2 DEF FileInv
      <4> QED
        BY <4>1, <4>2
    <3> QED
      BY <1>1, <3>1 DEF FileInv
  <2>9. RefInv(fs, ftable', cwd, closing', linking)
    <3>1. ASSUME NEW j \in Inum
          PROVE  Cardinality(UserSet(ftable', cwd, closing, linking, j))
                   = Cardinality(UserSet(ftable, cwd, closing, linking, j))
      <4>1. j # 0
        BY Constants
      <4>2. \A x \in Tags, n \in File \cup Proc :
              Uses(ftable', cwd, closing, linking, j, x, n) <=> Uses(ftable, cwd, closing, linking, j, x, n)
        BY <2>1, <2>2, <2>3, <4>1 DEF Uses
      <4> QED
        BY ONLY <4>2, UsersSame
    <3> QED
      BY <1>1, <1>3, <3>1 DEF RefInv
  <2>10. \A q \in Proc : /\ cwd[q] = 0 => closing'[q] = NotClosing
                                          /\ \A c \in Fd : ofile'[q][c] = 0
                         /\ closing'[q] # NotClosing => closing'[q].ip # 0
    BY <1>1, <1>2, <1>3, <2>4 DEF ProcInv
  <2> QED
    BY <1>1, <1>2, <2>5, <2>8, <2>9, <2>10, FilesKept
<1> QED
  BY <1>1, <1>4, <1>5

\* fork(): the child's descriptors and current directory are more references.
LEMMA HoldersForked ==
  ASSUME Rest, NEW p \in Proc, NEW q \in Proc, \A d \in Fd : ofile[q][d] = 0,
         closing[q] = NotClosing, NEW o, o = [ofile EXCEPT ![q] = ofile[p]], NEW f \in File
  PROVE  /\ Cardinality(HolderSet(o, closing, f))
              = Cardinality(HolderSet(ofile, closing, f)) + Cardinality({d \in Fd : ofile[p][d] = f})
         /\ Cardinality({d \in Fd : ofile[p][d] = f}) \in Nat
<1> DEFINE D == {d \in Fd : ofile[p][d] = f}
           A == HolderSet(ofile, closing, f)
           B == HolderSet(o, closing, f)
           C == {q} \X D
<1>1. IsFiniteSet(D) /\ IsFiniteSet(A) /\ Cardinality(D) \in Nat
  BY FiniteConstants, FS_Subset, FS_CardinalityType, HolderCount
<1>2. IsFiniteSet({q}) /\ Cardinality({q}) = 1
  BY FS_Singleton
<1>3. IsFiniteSet(C) /\ Cardinality(C) = Cardinality(D)
  <2>1. IsFiniteSet(C) /\ Cardinality(C) = Cardinality({q}) * Cardinality(D)
    BY <1>1, <1>2, FS_Product
  <2> QED
    BY <1>1, <1>2, <2>1
<1>4. closing[q].fd = 0 /\ 0 \notin Fd /\ 0 \notin File
  BY Constants DEF NotClosing
<1>5. o[q] = ofile[p] /\ \A r \in Proc : r # q => o[r] = ofile[r]
  BY DEF Rest
<1>6. A \subseteq Proc \X Fd /\ B \subseteq Proc \X Fd /\ A \cup C \subseteq Proc \X Fd
  BY DEF HolderSet
<1>7. B = A \cup C
  <2>1. ASSUME NEW r \in Proc, NEW d \in Fd PROVE <<r, d>> \in B <=> <<r, d>> \in A \cup C
    <3>1. /\ <<r, d>> \in B <=> o[r][d] = f /\ d # closing[r].fd
          /\ <<r, d>> \in A <=> ofile[r][d] = f /\ d # closing[r].fd
      BY DEF HolderSet
    <3>2. <<r, d>> \in C <=> r = q /\ ofile[p][d] = f
      OBVIOUS
    <3> HIDE DEF A, B, C
    <3> QED
      BY <1>4, <1>5, <3>1, <3>2
  <2> HIDE DEF A, B, C
  <2>2. B \in SUBSET (Proc \X Fd) /\ A \cup C \in SUBSET (Proc \X Fd)
    BY <1>6
  <2> QED
    BY <2>1, <2>2, PairSame
<1>8. A \cap C = {}
  <2>1. ASSUME NEW h \in A PROVE h[1] # q
    BY <1>4 DEF HolderSet
  <2> QED
    BY <2>1
<1> HIDE DEF A, B, C, D
<1>9. Cardinality(A \cup C) = Cardinality(A) + Cardinality(C) - Cardinality(A \cap C)
  BY <1>1, <1>3, FS_Union
<1>10. Cardinality(B) = Cardinality(A) + Cardinality(D)
  <2>1. Cardinality(A \cap C) = 0 /\ Cardinality(A) \in Nat
    BY <1>1, <1>8, FS_EmptySet, FS_CardinalityType
  <2> QED
    BY <1>1, <1>3, <1>7, <1>9, <2>1
<1> QED
  BY <1>1, <1>10 DEF A, B, D
LEMMA ForkKept ==
  ASSUME FilesInv, NEW p \in Proc, Fork(p)
  PROVE  FilesInv' /\ Moved
<1>1. PICK q \in Proc :
        /\ Running(p) /\ cwd[q] = 0
        /\ ofile' = [ofile EXCEPT ![q] = ofile[p]]
        /\ ftable' = [f \in File |->
             [ftable[f] EXCEPT !.ref = @ + Cardinality({d \in Fd : ofile[p][d] = f})]]
        /\ cwd' = [cwd EXCEPT ![q] = cwd[p]]
        /\ fs' = Idup(fs, cwd[p])
        /\ UNCHANGED <<closing, exiting, linking, leaked>>
  BY DEF Fork
<1>2. fs.bad = "none" /\ closing[p] = NotClosing /\ cwd[p] # 0 /\ q # p
  BY <1>1 DEF Running
<1>3. /\ Rest /\ Good(fs) /\ LinkInv(fs.node, cwd, exiting, linking)
      /\ ProcInv(fs.node, cwd, exiting, closing, ofile)
      /\ FileInv(ftable, ofile, closing) /\ RefInv(fs, ftable, cwd, closing, linking)
  BY <1>2, Parts
<1> DEFINE i == cwd[p]
           r == Idup(fs, i)
           R == [ref : Nat, type : {"none", "inode", "pipe"}, ip : Inum \cup {0}]
           n(f) == Cardinality({d \in Fd : ofile[p][d] = f})
<1>4. i \in Inum /\ LinkedDir(fs.node, i) /\ Linked(fs.node, i)
  BY <1>2, <1>3 DEF Rest, ProcInv, LinkedDir, Linked
<1>5. closing[q] = NotClosing /\ q \notin exiting /\ \A d \in Fd : ofile[q][d] = 0
  BY <1>1, <1>3 DEF ProcInv
<1> HIDE DEF i, r
<1>6. Good(r) /\ r.node = fs.node /\ r.ref = [fs.ref EXCEPT ![i] = @ + 1] /\ fs.ref \in [Inum -> Int]
  BY <1>3, <1>4, IdupIs, FsIs DEF Becomes, Good, r
<1>7. SetFs(r)
  BY <1>1, <1>6 DEF SetFs, Good, r, i
<1>8. ASSUME NEW f \in File
      PROVE  /\ Cardinality(HolderSet(ofile', closing, f)) = Cardinality(HolderSet(ofile, closing, f)) + n(f)
             /\ n(f) \in Nat
  <2>1. Rest /\ q \in Proc /\ (\A d \in Fd : ofile[q][d] = 0) /\ closing[q] = NotClosing
        /\ ofile' = [ofile EXCEPT ![q] = ofile[p]]
    BY <1>1, <1>3, <1>5
  <2> QED
    BY ONLY <2>1, p \in Proc, f \in File, HoldersForked
<1>9. ASSUME NEW f \in File
      PROVE  /\ ftable'[f] \in R /\ ftable[f] \in R
             /\ ftable'[f].ref = ftable[f].ref + n(f)
             /\ ftable'[f].type = ftable[f].type /\ ftable'[f].ip = ftable[f].ip
             /\ n(f) = 0 => ftable'[f] = ftable[f]
  <2>1. n(f) \in Nat
    BY <1>8
  <2> HIDE DEF n
  <2>2. PICK v \in R : v = ftable[f]
    BY <1>3 DEF Rest
  <2>3. PICK m : m = [v EXCEPT !.ref = @ + n(f)]
    OBVIOUS
  <2>4. m \in R /\ m.ref = v.ref + n(f) /\ m.type = v.type /\ m.ip = v.ip /\ (n(f) = 0 => m = v)
    BY <2>1, <2>3
  <2>5. ftable'[f] = [ftable[f] EXCEPT !.ref = @ + n(f)]
    BY <1>1 DEF n
  <2>6. ftable'[f] = m
    BY <2>2, <2>3, <2>5
  <2> HIDE DEF R
  <2> QED
    BY <2>2, <2>4, <2>6
<1>10. /\ ftable' \in [File -> R] /\ ofile' \in [Proc -> [Fd -> File \cup {0}]]
       /\ cwd' \in [Proc -> Inum \cup {0}]
       /\ ofile'[q] = ofile[p] /\ \A s \in Proc : s # q => ofile'[s] = ofile[s]
       /\ cwd'[q] = i /\ \A s \in Proc : s # q => cwd'[s] = cwd[s]
  <2>1. ftable' = [f \in File |-> ftable'[f]]
    BY <1>1
  <2>2. ftable' \in [File -> R]
    BY <1>9, <2>1
  <2> HIDE DEF R
  <2> QED
    BY <1>1, <1>3, <2>2 DEF Rest, i
<1>11. Rest'
  BY <1>1, <1>3, <1>10 DEF Rest
<1>12. FileInv(ftable', ofile', closing')
  <2>1. ASSUME NEW f \in File
        PROVE  /\ ftable'[f].ref = Cardinality(HolderSet(ofile', closing, f))
               /\ ftable'[f].ref = 0 => ftable'[f] = NoFile
               /\ ftable'[f].ref > 0 => /\ ftable'[f].type # "none"
                                        /\ ftable'[f].type = "inode" <=> ftable'[f].ip # 0
    <3>1. /\ ftable[f].ref = Cardinality(HolderSet(ofile, closing, f))
          /\ ftable[f].ref = 0 => ftable[f] = NoFile
          /\ ftable[f].ref > 0 => /\ ftable[f].type # "none"
                                  /\ ftable[f].type = "inode" <=> ftable[f].ip # 0
      BY <1>3 DEF FileInv
    <3>2. ftable[f].ref \in Nat /\ n(f) \in Nat
      BY <1>8, <1>9
    <3>3. ftable[f].ref = 0 => n(f) = 0
      <4>1. ASSUME NEW d \in Fd, ofile[p][d] = f PROVE ftable[f].ref > 0
        <5>1. closing[p].fd = 0 /\ d # 0
          BY <1>2, Constants DEF NotClosing
        <5> QED
          BY <3>1, <4>1, <5>1, HolderCount
      <4>2. ftable[f].ref = 0 => {d \in Fd : ofile[p][d] = f} = {}
        BY <3>2, <4>1
      <4> QED
        BY <4>2, FS_EmptySet
    <3> HIDE DEF n
    <3> QED
      BY <1>8, <1>9, <3>1, <3>2, <3>3
  <2> QED
    BY <1>1, <2>1 DEF FileInv
<1>13. RefInv(r, ftable', cwd', closing', linking')
  <2>1. ASSUME NEW j \in Inum
        PROVE  r.ref[j] = Cardinality(UserSet(ftable', cwd', closing, linking, j))
    <3>1. Cardinality(UserSet(ftable', cwd', closing, linking, j))
            = Cardinality(UserSet(ftable, cwd', closing, linking, j))
      <4>1. ASSUME NEW f \in File PROVE ftable'[f].ref > 0 <=> ftable[f].ref > 0
        <5>1. ftable[f].ref \in Nat /\ n(f) \in Nat /\ ftable'[f].ref = ftable[f].ref + n(f)
          BY <1>8, <1>9
        <5>2. ftable[f].ref = 0 => ftable'[f].ref = 0
          <6>1. ASSUME NEW d \in Fd, ofile[p][d] = f PROVE ftable[f].ref > 0
            <7>1. closing[p].fd = 0 /\ d # 0
              BY <1>2, Constants DEF NotClosing
            <7> QED
              BY <1>3, <6>1, <7>1, HolderCount DEF FileInv
          <6>2. ftable[f].ref = 0 => {d \in Fd : ofile[p][d] = f} = {}
            BY <5>1, <6>1
          <6>3. ftable[f].ref = 0 => n(f) = 0
            BY <6>2, FS_EmptySet
          <6> HIDE DEF n
          <6> QED
            BY <5>1, <6>3
        <5> HIDE DEF n
        <5> QED
          BY <5>1, <5>2
      <4>2. \A x \in Tags, m \in File \cup Proc :
              Uses(ftable', cwd', closing, linking, j, x, m) <=> Uses(ftable, cwd', closing, linking, j, x, m)
        BY <1>9, <4>1 DEF Uses
      <4> QED
        BY ONLY <4>2, UsersSame
    <3>2. Cardinality(UserSet(ftable, cwd', closing, linking, j))
            = Cardinality(UserSet(ftable, cwd, closing, linking, j))
              + (IF cwd'[q] = j THEN 1 ELSE 0) - (IF cwd[q] = j THEN 1 ELSE 0)
      <4>1. \A s \in Proc : s # q => cwd'[s] = cwd[s]
        BY <1>10
      <4> QED
        BY ONLY <4>1, q \in Proc, CwdMoved
    <3>3. fs.ref[j] = Cardinality(UserSet(ftable, cwd, closing, linking, j))
      BY <1>3 DEF RefInv
    <3>4. j # 0 /\ fs.ref[j] \in Int /\ r.ref[j] = IF j = i THEN fs.ref[j] + 1 ELSE fs.ref[j]
      BY <1>6, Constants
    <3> QED
      BY <1>1, <1>10, <3>1, <3>2, <3>3, <3>4
  <2> QED
    BY <1>1, <2>1 DEF RefInv
<1>14. Evolves(fs, r)
  <2>1. Grown(fs.node, r.node)
    BY <1>6 DEF Grown
  <2>2. ASSUME NEW j \in Inum, r.node[j].nlink = 0 PROVE r.ref[j] = fs.ref[j]
    <3>1. j # i
      BY <1>4, <1>6, <2>2 DEF Linked
    <3> QED
      BY <1>6, <3>1
  <2> QED
    BY <1>3, <1>6, <2>1, <2>2, GrownEvolves
<1>15. LinkInv(r.node, cwd', exiting', linking')
  <2>1. ASSUME NEW s \in Proc, cwd[s] # 0 PROVE cwd'[s] # 0
    BY <1>4, <1>10, <2>1, Constants
  <2> QED
    BY <1>1, <1>3, <1>6, <2>1 DEF LinkInv
<1>16. ProcInv(r.node, cwd', exiting', closing', ofile')
  <2>1. ASSUME NEW s \in Proc
        PROVE  /\ cwd'[s] # 0 => LinkedDir(r.node, cwd'[s])
               /\ cwd'[s] = 0 => s \notin exiting /\ closing[s] = NotClosing
                                 /\ \A d \in Fd : ofile'[s][d] = 0
               /\ closing[s] # NotClosing => closing[s].ip # 0
    <3>1. CASE s = q
      <4>1. cwd'[s] = i /\ i # 0
        BY <1>4, <1>10, <3>1, Constants
      <4> QED
        BY <1>4, <1>5, <1>6, <3>1, <4>1
    <3>2. CASE s # q
      BY <1>3, <1>6, <1>10, <3>2 DEF ProcInv
    <3> QED
      BY <3>1, <3>2
  <2> QED
    BY <1>1, <2>1 DEF ProcInv
<1> QED
  BY <1>1, <1>2, <1>6, <1>7, <1>11, <1>12, <1>13, <1>14, <1>15, <1>16, StepKept

\* open(): a file and a descriptor for the inode a walk has come to.
LEMMA OpenInodeKept ==
  ASSUME FilesInv, NEW p \in Proc, User(p), Admitted(p), NEW w, Got(fs, w), NEW mode,
         NEW fine \in BOOLEAN, OpenInode(p, w, mode, fine)
  PROVE  FilesInv' /\ Moved
<1> DEFINE k == IF w.ip = 0 THEN w.k ELSE Ilock(w.k, w.ip)
           type == k.node[w.ip].type
           good == /\ w.ip # 0
                   /\ type = "dir" => mode = "r"
                   /\ type = "file" => fine
                   /\ FreeFiles # {} /\ FreeFds(p) # {}
           f == FileAlloc
           d == FdAlloc(p)
           v == [ref |-> 1, type |-> "inode", ip |-> w.ip]
           r == IF w.ip = 0 \/ good THEN k ELSE Iput(k, w.ip)
           R == [ref : Nat, type : {"none", "inode", "pipe"}, ip : Inum \cup {0}]
<1>1. /\ SetFs(r)
      /\ ftable' = IF good THEN [ftable EXCEPT ![f] = v] ELSE ftable
      /\ ofile' = IF good THEN [ofile EXCEPT ![p][d] = f] ELSE ofile
      /\ UNCHANGED <<cwd, closing, exiting, linking, leaked>>
  BY DEF OpenInode
<1>2. /\ Rest /\ fs.bad = "none" /\ Good(fs) /\ Tree(fs.node)
      /\ linking = NotLinking /\ closing[p] = NotClosing /\ cwd[p] \in Inum
      /\ ProcInv(fs.node, cwd, exiting, closing, ofile)
      /\ FileInv(ftable, ofile, closing) /\ RefInv(fs, ftable, cwd, closing, linking)
  BY CallReady
<1>3. PICK k1 : Settled(fs, k1) /\ WalkIs(k1, w)
  BY DEF Got
<1>4. Holds(k1, w.k, w.ip) /\ Good(k1) /\ w.ip \in Inum \cup {0}
  BY <1>3 DEF WalkIs, Settled, Holds
<1>5. w.ip # 0 => Holds(k1, k, w.ip)
  <2>1. ASSUME w.ip # 0 PROVE w.ip \in Inum /\ k = Ilock(w.k, w.ip)
    BY <1>4, <2>1
  <2> HIDE DEF k
  <2> QED
    BY <1>4, <2>1, HeldLock
<1>6. CASE ~good
  <2>1. Holds(k1, r, 0)
    <3>1. CASE w.ip = 0
      BY <1>4, <3>1
    <3>2. CASE w.ip # 0
      <4>1. r = Iput(k, w.ip) /\ w.ip \in Inum
        BY <1>4, <1>6, <3>2
      <4> HIDE DEF k, r
      <4> QED
        BY <1>4, <1>5, <3>2, <4>1, HeldPut
    <3> QED
      BY <3>1, <3>2
  <2>2. ftable' = ftable /\ ofile' = ofile
    BY <1>1, <1>6
  <2> HIDE DEF k, good, r
  <2>3. Stuck(r) \/ Settled(fs, r)
    BY <1>3, <2>1 DEF Holds, Settled
  <2>4. Transaction(p, r)
    BY <1>1, <2>2 DEF Transaction
  <2> QED
    BY <2>3, <2>4, SettledKept
<1>7. CASE good
  <2>1. /\ w.ip \in Inum /\ r = k /\ FreeFiles # {} /\ FreeFds(p) # {}
        /\ ftable' = [ftable EXCEPT ![f] = v] /\ ofile' = [ofile EXCEPT ![p][d] = f]
    BY <1>1, <1>4, <1>7
  <2>2. w.ip # 0 /\ v \in R /\ v.ref = 1 /\ v.type = "inode" /\ v.ip = w.ip
    BY <2>1, Constants
  <2>3. Holds(k1, r, w.ip)
    BY <1>5, <2>1, <2>2
  <2> HIDE DEF k, good, r, v
  <2>4. f \in File /\ ftable[f].ref = 0 /\ d \in Fd /\ ofile[p][d] = 0
    BY <1>2, <2>1, FreeSlots
  <2> HIDE DEF f, d
  <2>5. /\ ftable' \in [File -> R] /\ ftable'[f] = v
        /\ \A h \in File : h # f => ftable'[h] = ftable[h]
    BY <1>2, <2>1, <2>2, <2>4 DEF Rest
  <2> HIDE DEF R
  <2>6. /\ ofile' \in [Proc -> [Fd -> File \cup {0}]] /\ ofile'[p][d] = f
        /\ \A c \in Fd : c # d => ofile'[p][c] = ofile[p][c]
        /\ \A q \in Proc : q # p => ofile'[q] = ofile[q]
    BY <1>2, <2>1, <2>4 DEF Rest
  <2>7. Rest'
    BY <1>1, <1>2, <2>5, <2>6 DEF Rest, R
  <2>8. closing[p].fd = 0 /\ d # 0 /\ 0 \notin File
    BY <1>2, <2>4, Constants DEF NotClosing
  <2>9. ASSUME NEW h \in File
        PROVE  Cardinality(HolderSet(ofile', closing, h))
                 = IF h = f THEN Cardinality(HolderSet(ofile, closing, h)) + 1
                   ELSE Cardinality(HolderSet(ofile, closing, h))
    <3>1. CASE h = f
      <4>1. OneHolderMore(ofile, closing, ofile', closing, h, p, d)
        BY <2>4, <2>6, <2>8, <3>1 DEF OneHolderMore
      <4>2. Cardinality(HolderSet(ofile', closing, h)) = Cardinality(HolderSet(ofile, closing, h)) + 1
        BY ONLY <4>1, HoldersAdded
      <4> QED
        BY <3>1, <4>2
    <3>2. CASE h # f
      <4>1. \A q \in Proc, c \in Fd :
              ofile'[q][c] = h /\ c # closing[q].fd <=> ofile[q][c] = h /\ c # closing[q].fd
        BY <2>4, <2>6, <2>8, <3>2
      <4>2. HolderSet(ofile', closing, h) = HolderSet(ofile, closing, h)
        BY ONLY <4>1, HoldersSame
      <4> QED
        BY <3>2, <4>2
    <3> QED
      BY <3>1, <3>2
  <2>10. FileInv(ftable', ofile', closing')
    <3>1. ASSUME NEW h \in File
          PROVE  /\ ftable'[h].ref = Cardinality(HolderSet(ofile', closing, h))
                 /\ ftable'[h].ref = 0 => ftable'[h] = NoFile
                 /\ ftable'[h].ref > 0 => /\ ftable'[h].type # "none"
                                          /\ ftable'[h].type = "inode" <=> ftable'[h].ip # 0
      <4>1. CASE h = f
        BY <1>2, <2>2, <2>4, <2>5, <2>9, <4>1 DEF FileInv
      <4>2. CASE h # f
        BY <1>2, <2>5, <2>9, <4>2 DEF FileInv
      <4> QED
        BY <4>1, <4>2
    <3> QED
      BY <1>1, <3>1 DEF FileInv
  <2>11. CASE Stuck(r)
    <3>1. ~Good(r)
      BY <2>11 DEF Stuck, Good
    <3> QED
      BY <1>1, <1>2, <2>7, <2>11, <3>1, StepKept
  <2>12. CASE ~Stuck(r)
    <3>1. /\ Good(r) /\ r.node = k1.node /\ Linked(k1.node, w.ip)
          /\ r.ref = [k1.ref EXCEPT ![w.ip] = @ + 1]
      BY <2>2, <2>3, <2>12 DEF Holds
    <3>2. k1.ref = fs.ref /\ Tree(k1.node) /\ Grown(fs.node, k1.node) /\ fs.ref \in [Inum -> Int]
      BY <1>2, <1>3, FsIs DEF Settled, Good
    <3>3. \A j \in Inum : r.ref[j] = IF j = w.ip THEN fs.ref[j] + 1 ELSE fs.ref[j]
      BY <3>1, <3>2
    <3>4. Evolves(fs, r) /\ \A j \in Inum : LinkedDir(fs.node, j) => LinkedDir(r.node, j)
      <4>1. ASSUME NEW j \in Inum, r.node[j].nlink = 0 PROVE r.ref[j] = fs.ref[j]
        <5>1. j # w.ip
          BY <3>1, <4>1 DEF Linked
        <5> QED
          BY <3>3, <5>1
      <4> QED
        BY <1>2, <3>1, <3>2, <4>1, GrownEvolves
    <3>5. RefInv(r, ftable', cwd', closing', linking')
      <4>1. ASSUME NEW j \in Inum
            PROVE  r.ref[j] = Cardinality(UserSet(ftable', cwd, closing, linking, j))
        <5>1. Cardinality(UserSet(ftable', cwd, closing, linking, j))
                = Cardinality(UserSet(ftable, cwd, closing, linking, j))
                  + (IF ftable'[f].ref > 0 /\ ftable'[f].ip = j THEN 1 ELSE 0)
                  - (IF ftable[f].ref > 0 /\ ftable[f].ip = j THEN 1 ELSE 0)
          BY ONLY <2>4, <2>5, FileMoved
        <5>2. fs.ref[j] = Cardinality(UserSet(ftable, cwd, closing, linking, j)) /\ fs.ref[j] \in Int
          BY <1>2, <3>2 DEF RefInv
        <5>3. ftable'[f].ref = 1 /\ ftable'[f].ip = w.ip
          BY <2>2, <2>5
        <5> QED
          BY <2>4, <3>3, <5>1, <5>2, <5>3
      <4> QED
        BY <1>1, <4>1 DEF RefInv
    <3>6. LinkInv(r.node, cwd', exiting', linking')
      BY <1>1, <1>2, <3>1, <3>2 DEF LinkInv
    <3>7. ProcInv(r.node, cwd', exiting', closing', ofile')
      <4>1. ASSUME NEW q \in Proc
            PROVE  /\ cwd[q] # 0 => LinkedDir(r.node, cwd[q])
                   /\ cwd[q] = 0 => q \notin exiting /\ closing[q] = NotClosing
                                    /\ \A c \in Fd : ofile'[q][c] = 0
                   /\ closing[q] # NotClosing => closing[q].ip # 0
        <5>1. cwd[q] \in Inum \cup {0} /\ (cwd[q] = 0 => q # p)
          BY <1>2, Constants DEF Rest
        <5> QED
          BY <1>2, <2>6, <3>4, <5>1 DEF ProcInv
      <4> QED
        BY <1>1, <4>1 DEF ProcInv
    <3> QED
      BY <1>1, <1>2, <2>7, <2>10, <3>1, <3>4, <3>5, <3>6, <3>7, StepKept
  <2> QED
    BY <2>11, <2>12
<1> QED
  BY <1>6, <1>7

LEMMA OpenKept ==
  ASSUME FilesInv, NEW p \in Proc, Open(p)
  PROVE  FilesInv' /\ Moved
<1>1. User(p) /\ Admitted(p)
  BY DEF Open
<1>2. Good(fs) /\ Tree(fs.node) /\ Ready(fs, p)
  BY <1>1, CallReady
<1>3. PICK path \in Path, fine \in BOOLEAN :
       \/ OpenInode(p, Create(fs, p, path, "file", fine), "create", fine)
       \/ \E mode \in {"r", "w"} : OpenInode(p, Namei(fs, p, path), mode, fine)
  BY DEF Open
<1>4. CASE OpenInode(p, Create(fs, p, path, "file", fine), "create", fine)
  <2>1. Got(fs, Create(fs, p, path, "file", fine))
    <3>1. "file" \in {"dir", "dev", "file"}
      OBVIOUS
    <3> QED
      BY <1>2, <3>1, CreateIs
  <2> QED
    BY <1>1, <1>4, <2>1, OpenInodeKept
<1>5. CASE \E mode \in {"r", "w"} : OpenInode(p, Namei(fs, p, path), mode, fine)
  <2>1. Got(fs, Namei(fs, p, path))
    BY <1>2, NameiIs, SettledSelf
  <2> QED
    BY <1>1, <1>5, <2>1, OpenInodeKept
<1> QED
  BY <1>3, <1>4, <1>5
\* unlink() takes a name away, and the inode it led to if nothing else holds it.
LEMMA RemovedIs ==
  ASSUME NEW k0, Good(k0), Tree(k0.node), NEW dp \in Inum, LinkedDir(k0.node, dp),
         NEW name \in Name, NEW ip \in Inum, k0.node[dp].ents[name] = ip,
         k0.node[ip].type = "dir" => \A e \in Name : k0.node[ip].ents[e] = 0,
         NEW k2, Good(k2), k2.node = k0.node, ip \in k2.valid,
         k2.ref = [[k0.ref EXCEPT ![dp] = @ + 1] EXCEPT ![ip] = @ + 1],
         NEW k3, k3 = SetEntry(k2, dp, name, 0),
         NEW k4, k4 = Iput(IF k0.node[ip].type = "dir" THEN DropLink(k3, dp) ELSE k3, dp),
         NEW r, r = Iput(DropLink(k4, ip), ip)
  PROVE  /\ Good(r) /\ Tree(r.node) /\ r.ref = k0.ref /\ Evolves(k0, r)
         /\ \A j \in Inum : LinkedDir(k0.node, j) /\ (k0.node[ip].type = "dir" => j # ip) => LinkedDir(r.node, j)
<1> DEFINE node == k0.node
           isdir == node[ip].type = "dir"
           n3 == WithEntry(node[dp], name, 0)
           n4 == IF isdir THEN WithLinks(n3, 0 - 1) ELSE n3
           n5 == WithLinks(node[ip], 0 - 1)
           k5 == IF isdir THEN DropLink(k3, dp) ELSE k3
           k6 == DropLink(k4, ip)
<1>1. /\ node \in Nodes /\ k0.ref \in [Inum -> Int] /\ name \in Elem /\ k2 \in FsType
      /\ k0.valid \in SUBSET Inum /\ \A i \in Inum : k0.ref[i] >= 0
  BY FsIs, Constants DEF Good, Alive
<1>2. /\ node[dp].type = "dir" /\ node[dp].nlink > 0 /\ node[dp].nlink \in Int
      /\ node[dp].ents \in [Elem -> Inum \cup {0}]
      /\ node[ip].type # "free" /\ node[ip].nlink > 0 /\ node[ip].nlink \in Int
  <2>1. ip # 0
    BY Constants
  <2>2. Linked(node, ip)
    BY <2>1, TreeFacts
  <2> QED
    BY <1>1, <2>2, NodeIs DEF LinkedDir, Linked
<1>3. dp # ip
  BY <1>2, Constants
<1>4. /\ k2.ref[dp] = k0.ref[dp] + 1 /\ k2.ref[ip] = k0.ref[ip] + 1
      /\ \A j \in Inum : j # dp /\ j # ip => k2.ref[j] = k0.ref[j]
  BY <1>1, <1>3
<1>5. /\ n3 \in NodeType /\ k3 = Iupdate(k2, dp, n3) /\ n3.type = "dir"
      /\ n3.nlink = node[dp].nlink /\ n3.ents = [node[dp].ents EXCEPT ![name] = 0]
  <2> HIDE DEF n3
  <2>0. PICK z : z = 0
    OBVIOUS
  <2>1. n3 = WithEntry(k2.node[dp], name, z) /\ (z \in Inum \/ z = 0)
    BY <2>0 DEF n3
  <2>2. k2 \in FsType /\ name \in Elem
    BY <1>1
  <2>3. /\ n3 \in NodeType /\ SetEntry(k2, dp, name, z) = Iupdate(k2, dp, n3)
        /\ n3.type = k2.node[dp].type /\ n3.nlink = k2.node[dp].nlink
    BY ONLY <2>1, <2>2, dp \in Inum, EntrySet
  <2> QED
    BY <1>2, <2>0, <2>3 DEF n3, WithEntry
<1> HIDE DEF n3
<1>6. Good(k3) /\ k3.node = [node EXCEPT ![dp] = n3] /\ k3.ref = k2.ref /\ k3.valid = k2.valid
  BY <1>2, <1>5, IupdateIs DEF Becomes
<1>7. k3.node[dp] = n3 /\ k3 \in FsType
  BY <1>1, <1>6 DEF Nodes, Good
<1>8. /\ n4 \in NodeType /\ (isdir => k5 = Iupdate(k3, dp, n4))
      /\ n4.type = "dir" /\ n4.nlink = node[dp].nlink - (IF isdir THEN 1 ELSE 0)
      /\ n4.ents = [node[dp].ents EXCEPT ![name] = 0]
  <2>1. CASE isdir
    <3>1. n4 = WithLinks(k3.node[dp], 0 - 1) /\ k5 = DropLink(k3, dp)
      BY <1>7, <2>1
    <3> HIDE DEF n4, k5
    <3>2. /\ n4 \in NodeType /\ DropLink(k3, dp) = Iupdate(k3, dp, n4)
          /\ n4.type = k3.node[dp].type /\ n4.nlink = k3.node[dp].nlink - 1
          /\ n4.ents = k3.node[dp].ents
      BY ONLY <1>7, <3>1, dp \in Inum, LinkDropped
    <3> QED
      BY <1>5, <1>7, <2>1, <3>1, <3>2
  <2>2. CASE ~isdir
    BY <1>2, <1>5, <2>2
  <2> QED
    BY <2>1, <2>2
<1>9. /\ n5 \in NodeType /\ n5.type = node[ip].type /\ n5.nlink = node[ip].nlink - 1
      /\ n5.ents = node[ip].ents /\ n5 = [type |-> node[ip].type, nlink |-> node[ip].nlink - 1, ents |-> node[ip].ents]
  <2>1. k0 \in FsType
    BY DEF Good
  <2> HIDE DEF n5
  <2>2. n5 = WithLinks(k0.node[ip], 0 - 1)
    BY DEF n5
  <2>3. /\ n5 \in NodeType /\ n5.type = k0.node[ip].type /\ n5.nlink = k0.node[ip].nlink - 1
        /\ n5.ents = k0.node[ip].ents
    BY ONLY <2>1, <2>2, ip \in Inum, LinkDropped
  <2>4. n5 = [type |-> node[ip].type, nlink |-> node[ip].nlink - 1, ents |-> node[ip].ents]
    BY <1>2 DEF n5, WithLinks
  <2> QED
    BY <2>3, <2>4
<1> HIDE DEF n4, n5
<1> DEFINE rn == [[node EXCEPT ![dp] = n4] EXCEPT ![ip] = n5]
<1>10. /\ rn \in Nodes
       /\ \A j \in Inum : rn[j] = IF j = ip THEN n5 ELSE IF j = dp THEN n4 ELSE node[j]
  <2> HIDE DEF isdir
  <2>1. node \in [Inum -> NodeType]
    BY <1>1 DEF Nodes
  <2>2. [node EXCEPT ![dp] = n4] \in [Inum -> NodeType]
    BY <1>8, <2>1
  <2>3. rn \in [Inum -> NodeType]
    BY <1>9, <2>2
  <2>4. \A j \in Inum : rn[j] = IF j = ip THEN n5 ELSE IF j = dp THEN n4 ELSE node[j]
    BY <2>1
  <2> QED
    BY <2>3, <2>4 DEF Nodes
<1> HIDE DEF rn
<1>11. Tree(rn) /\ rn[dp].nlink > 0
  <2>1. NameRemoved(node, rn, dp, name, ip)
    BY <1>3, <1>8, <1>9, <1>10 DEF NameRemoved
  <2> QED
    BY <1>3, <1>10, <2>1, TreeRemoved
<1>12. n4.nlink > 0 /\ n4.nlink \in Int
  <2>1. rn[dp] = n4
    BY <1>3, <1>10
  <2> QED
    BY <1>10, <1>11, <2>1, NodeIs
<1>13. /\ Good(k5) /\ k5.ref = k2.ref /\ k5.valid = k2.valid /\ k5.node \in Nodes
       /\ \A j \in Inum : k5.node[j] = IF j = dp THEN n4 ELSE node[j]
  <2>1. CASE isdir
    <3>1. k5 = Iupdate(k3, dp, n4)
      BY <1>8, <2>1
    <3> HIDE DEF k5
    <3>2. Good(k5) /\ k5.node = [k3.node EXCEPT ![dp] = n4] /\ k5.ref = k3.ref /\ k5.valid = k3.valid
      BY <1>6, <1>8, <1>12, <3>1, IupdateIs DEF Becomes
    <3> QED
      BY <1>1, <1>5, <1>6, <1>8, <3>2 DEF Nodes
  <2>2. CASE ~isdir
    <3>1. k5 = k3 /\ n4 = n3
      BY <2>2 DEF n4
    <3> HIDE DEF k5
    <3> QED
      BY <1>1, <1>5, <1>6, <3>1 DEF Nodes
  <2> QED
    BY <2>1, <2>2
<1>14. k4 = Iput(k5, dp)
  OBVIOUS
<1> HIDE DEF k5
<1>15. /\ Good(k4) /\ k4.node = k5.node /\ k4.ref = [k0.ref EXCEPT ![ip] = @ + 1] /\ ip \in k4.valid
  <2>1. k5.ref[dp] > 0 /\ k5.node[dp].nlink > 0
    BY <1>1, <1>4, <1>12, <1>13
  <2>2. Becomes(k5, Iput(k5, dp), k5.node, [k5.ref EXCEPT ![dp] = @ - 1], dp)
    BY <1>13, <2>1, IputIs
  <2>3. Good(k4) /\ k4.node = k5.node /\ k4.ref = [k5.ref EXCEPT ![dp] = @ - 1] /\ ip \in k4.valid
    BY <1>3, <1>13, <1>14, <2>2 DEF Becomes
  <2> QED
    BY <1>1, <1>13, <2>3, PlusMinus
<1>16. k4.node[ip] = node[ip] /\ k4.ref[ip] = k0.ref[ip] + 1 /\ k4 \in FsType
  BY <1>1, <1>3, <1>13, <1>15 DEF Good
<1>17. k6 = Iupdate(k4, ip, n5)
  <2>1. n5 = WithLinks(k4.node[ip], 0 - 1)
    BY <1>16 DEF n5
  <2>2. DropLink(k4, ip) = Iupdate(k4, ip, n5)
    BY ONLY <1>16, <2>1, ip \in Inum, LinkDropped
  <2> QED
    BY <2>2
<1>18. r = Iput(k6, ip)
  OBVIOUS
<1> HIDE DEF k6
<1>19. Good(k6) /\ k6.node = [k4.node EXCEPT ![ip] = n5] /\ k6.ref = k4.ref
  <2>1. n5.nlink >= 0 /\ n5.type # "free"
    BY <1>2, <1>9
  <2> QED
    BY <1>9, <1>15, <1>17, <2>1, IupdateIs DEF Becomes
<1>20. k6.node = rn
  <2>1. k6.node \in Nodes
    BY <1>19, FsIs DEF Good
  <2>2. \A j \in Inum : k6.node[j] = rn[j]
    BY <1>9, <1>10, <1>13, <1>15, <1>19 DEF Nodes
  <2> QED
    BY <1>10, <2>1, <2>2, SameFunction DEF Nodes
<1>21. k6.ref[ip] = k0.ref[ip] + 1 /\ k6.ref[ip] > 0 /\ \A j \in Inum : j # ip => k6.ref[j] = k0.ref[j]
  BY <1>1, <1>15, <1>19
<1>22. /\ Good(r) /\ Tree(r.node) /\ r.ref = [k6.ref EXCEPT ![ip] = @ - 1] /\ Evolves(k6, r)
       /\ \A j \in Inum : LinkedDir(k6.node, j) => LinkedDir(r.node, j)
  <2>1. Good(k6) /\ Tree(k6.node) /\ k6.ref[ip] > 0
    BY <1>11, <1>19, <1>20, <1>21
  <2> QED
    BY ONLY <1>18, <2>1, ip \in Inum, PutEvolves
<1>23. r.ref = k0.ref
  BY <1>1, <1>15, <1>19, <1>22, PlusMinus
<1>24. ASSUME NEW j \in Inum
       PROVE  /\ k6.node[j].type = node[j].type
              /\ k6.node[j].nlink = 0 /\ k6.ref[j] = 0 <=> node[j].nlink = 0 /\ k0.ref[j] = 0
              /\ LinkedDir(node, j) /\ (isdir => j # ip) => LinkedDir(k6.node, j)
  <2>1. CASE j = ip
    BY <1>2, <1>9, <1>10, <1>20, <1>21, <2>1 DEF LinkedDir
  <2>2. CASE j = dp /\ j # ip
    BY <1>2, <1>8, <1>10, <1>12, <1>20, <1>21, <2>2 DEF LinkedDir
  <2>3. CASE j # dp /\ j # ip
    BY <1>10, <1>20, <1>21, <2>3 DEF LinkedDir
  <2> QED
    BY <2>1, <2>2, <2>3
<1>25. Lost(k6) = Lost(k0)
  BY <1>24 DEF Lost
<1>26. Evolves(k0, r)
  <2>1. ASSUME NEW j \in Inum, r.node[j].type # k0.node[j].type PROVE k0.ref[j] = 0 \/ r.ref[j] = 0
    <3>1. k6.ref[j] = 0 \/ r.ref[j] = 0
      BY <1>22, <1>24, <2>1 DEF Evolves
    <3> QED
      BY <1>21, <3>1
  <2> QED
    BY <1>22, <1>25, <2>1 DEF Evolves
<1> QED
  BY <1>22, <1>23, <1>24, <1>26

LEMMA UnlinkKept ==
  ASSUME ~RmCwd, FilesInv, NEW p \in Proc, Unlink(p)
  PROVE  FilesInv' /\ Moved
<1>0. User(p) /\ Admitted(p)
  BY DEF Unlink
<1>1. PICK path \in Path : \E w \in {Nameiparent(fs, p, path)} :
       LET dp == w.ip
           name == Last(path.elems)
           k1 == Ilock(w.k, dp)
           ip == Dirlookup(k1, dp, name)
           k2 == Ilock(Iget(k1, ip), ip)
           isdir == k2.node[ip].type = "dir"
           k3 == SetEntry(k2, dp, name, 0)
           k4 == Iput(IF isdir THEN DropLink(k3, dp) ELSE k3, dp)
           rmdir == dp # 0 /\ name \notin {".", ".."} /\ ip # 0 /\ isdir
       IN /\ RmCwd \/ ~(rmdir /\ \E q \in Proc : cwd[q] = ip)
          /\ Transaction(p,
               IF dp = 0 THEN w.k
               ELSE IF name \in {".", ".."} \/ ip = 0 THEN Iput(k1, dp)
               ELSE IF k2.node[ip].nlink < 1 THEN Panic(k2, "unlink: nlink < 1")
               ELSE IF isdir /\ ~IsDirEmpty(k2, ip) THEN Iput(Iput(k2, ip), dp)
               ELSE Iput(DropLink(k4, ip), ip))
  BY DEF Unlink
<1> DEFINE w == Nameiparent(fs, p, path)
           dp == w.ip
           name == Last(path.elems)
           k1 == Ilock(w.k, dp)
           ip == Dirlookup(k1, dp, name)
           k2 == Ilock(Iget(k1, ip), ip)
           isdir == k2.node[ip].type = "dir"
           k3 == SetEntry(k2, dp, name, 0)
           k4 == Iput(IF isdir THEN DropLink(k3, dp) ELSE k3, dp)
           r == IF dp = 0 THEN w.k
                ELSE IF name \in {".", ".."} \/ ip = 0 THEN Iput(k1, dp)
                ELSE IF k2.node[ip].nlink < 1 THEN Panic(k2, "unlink: nlink < 1")
                ELSE IF isdir /\ ~IsDirEmpty(k2, ip) THEN Iput(Iput(k2, ip), dp)
                ELSE Iput(DropLink(k4, ip), ip)
<1>2. /\ Transaction(p, r)
      /\ dp # 0 /\ name \notin {".", ".."} /\ ip # 0 /\ isdir => \A q \in Proc : cwd[q] # ip
  BY <1>1, ZenonT(60)
<1>3. /\ Good(fs) /\ Tree(fs.node) /\ Ready(fs, p) /\ cwd \in [Proc -> Inum \cup {0}]
      /\ ProcInv(fs.node, cwd, exiting, closing, ofile)
  BY <1>0, CallReady DEF Rest
<1>4. /\ WalkIs(fs, w) /\ (w.ip # 0 /\ Good(w.k) => LinkedDir(fs.node, w.ip))
      /\ (w.ip # 0 => name \in Elem)
  BY <1>3, NameiparentIs
<1>5. Holds(fs, w.k, dp) /\ dp \in Inum \cup {0}
  BY <1>4 DEF WalkIs, Holds
<1> HIDE DEF w, name
<1>6. CASE dp = 0
  <2>1. r = w.k /\ Holds(fs, r, 0)
    BY <1>5, <1>6
  <2> HIDE DEF r
  <2> QED
    BY <1>2, <1>3, <2>1, HeldKept
<1>7. CASE dp # 0
  <2>1. dp \in Inum /\ name \in Elem
    BY <1>4, <1>5, <1>7
  <2>2. Holds(fs, k1, dp) /\ (Good(w.k) => k1.node = fs.node)
    BY <1>3, <1>5, <2>1, HeldLock
  <2> HIDE DEF dp, k1
  <2>3. ASSUME Stuck(k2), ip \in Inum
        PROVE  /\ Stuck(Panic(k2, "unlink: nlink < 1")) /\ Stuck(Iput(Iput(k2, ip), dp))
               /\ Stuck(Iput(DropLink(k4, ip), ip))
    <3> HIDE DEF ip, k2
    <3>1. Stuck(Panic(k2, "unlink: nlink < 1"))
      BY <2>3 DEF Stuck, Panic
    <3>2. Stuck(Iput(Iput(k2, ip), dp)) /\ Stuck(k3)
      BY <2>1, <2>3, StuckStays, StuckChanges
    <3> HIDE DEF k3
    <3>3. Stuck(k4)
      BY <2>1, <3>2, StuckChanges, StuckStays
    <3> HIDE DEF k4
    <3> QED
      BY <2>3, <3>1, <3>2, <3>3, StuckChanges, StuckStays
  <2>4. CASE Stuck(k1)
    <3>1. ip \in Inum \cup {0}
      BY <2>1, <2>4, FsIs, NodeIs DEF Stuck, Dirlookup
    <3>2. Stuck(Iput(k1, dp)) /\ (ip # 0 => ip \in Inum /\ Stuck(k2))
      <4> HIDE DEF ip
      <4> QED
        BY <2>1, <2>4, <3>1, StuckStays
    <3> HIDE DEF ip, k2, k3, k4
    <3>3. Stuck(r)
      BY <1>7, <2>3, <3>2 DEF dp
    <3> HIDE DEF r
    <3> QED
      BY <1>2, <3>3, TransactionKept
  <2>5. CASE ~Stuck(k1)
    <3>1. Good(k1) /\ k1.node = fs.node /\ k1.ref = [fs.ref EXCEPT ![dp] = @ + 1]
      BY <2>1, <2>2, <2>5, Constants DEF Holds
    <3>2. LinkedDir(fs.node, dp)
      <4>1. ASSUME Stuck(w.k) PROVE FALSE
        BY <2>1, <2>5, <4>1, StuckStays DEF k1, dp
      <4>2. Good(w.k)
        BY <1>5, <4>1 DEF Holds
      <4> QED
        BY <1>4, <1>7, <4>2 DEF dp
    <3>3. ip = fs.node[dp].ents[name] /\ ip \in Inum \cup {0} /\ fs.node \in Nodes
          /\ fs.ref \in [Inum -> Int]
      BY <1>3, <2>1, <3>1, FsIs, NodeIs DEF Dirlookup, Good
    <3> HIDE DEF ip
    <3>4. CASE name \in {".", ".."} \/ ip = 0
      <4>1. r = Iput(k1, dp)
        BY <1>7, <3>4 DEF dp
      <4>2. Holds(fs, Iput(k1, dp), 0)
        BY <1>3, <2>1, <2>2, HeldPut
      <4> HIDE DEF r
      <4> QED
        BY <1>2, <4>1, <4>2, HeldKept
    <3>5. CASE ~(name \in {".", ".."} \/ ip = 0)
      <4>1. ip \in Inum /\ name \in Name /\ Linked(fs.node, ip)
        <5>1. ip \in Inum /\ name \in Name
          BY <2>1, <3>3, <3>5, Constants
        <5> QED
          BY <1>3, <2>1, <3>3, <3>5, <5>1, TreeFacts
      <4>2. \/ Stuck(k2)
            \/ /\ Good(k2) /\ k2.node = fs.node /\ ip \in k2.valid
               /\ k2.ref = [[fs.ref EXCEPT ![dp] = @ + 1] EXCEPT ![ip] = @ + 1]
        <5> DEFINE k == Iget(k1, ip)
        <5>1. Stuck(k) \/ Becomes(k1, k, k1.node, [k1.ref EXCEPT ![ip] = @ + 1], 0)
          <6>1. k1.ref = [fs.ref EXCEPT ![dp] = @ + 1]
            BY <2>1, <3>1, <3>3
          <6>2. OneMore(k1.ref)
            BY <1>3, <2>1, <3>3, <6>1, HeldIsOneMore
          <6> QED
            BY <3>1, <4>1, <6>2, IgetIs
        <5> HIDE DEF k
        <5>2. CASE Stuck(k)
          BY <4>1, <5>2, StuckStays DEF k
        <5>3. CASE Becomes(k1, k, k1.node, [k1.ref EXCEPT ![ip] = @ + 1], 0)
          <6>1. Good(k) /\ k.node = fs.node /\ k.ref = [[fs.ref EXCEPT ![dp] = @ + 1] EXCEPT ![ip] = @ + 1]
            BY <3>1, <5>3 DEF Becomes
          <6>2. k.ref[ip] > 0
            <7>1. fs.ref[ip] >= 0
              BY <1>3, <4>1 DEF Good, Alive
            <7> QED
              BY <2>1, <3>3, <4>1, <6>1, <7>1
          <6>3. Becomes(k, Ilock(k, ip), k.node, k.ref, 0) /\ ip \in Ilock(k, ip).valid
            BY <4>1, <6>1, <6>2, IlockIs
          <6>4. k2 = Ilock(k, ip)
            BY DEF k
          <6> QED
            BY <6>1, <6>3, <6>4 DEF Becomes
        <5> QED
          BY <5>1, <5>2, <5>3
      <4> HIDE DEF k2
      <4>3. CASE Stuck(k2)
        <5>1. Stuck(r)
          BY <1>7, <2>3, <3>5, <4>1, <4>3 DEF dp
        <5> HIDE DEF r
        <5> QED
          BY <1>2, <5>1, TransactionKept
      <4>4. CASE ~Stuck(k2)
        <5>1. /\ Good(k2) /\ k2.node = fs.node /\ ip \in k2.valid
              /\ k2.ref = [[fs.ref EXCEPT ![dp] = @ + 1] EXCEPT ![ip] = @ + 1]
          BY <4>2, <4>4
        <5>2. fs.node[ip].nlink > 0 /\ fs.node[ip].nlink \in Int /\ k2.ref[ip] > 0
          <6>1. \A i \in Inum : fs.ref[i] >= 0
            BY <1>3 DEF Good, Alive
          <6>2. k2.ref[ip] > 0
            <7>1. fs.ref[ip] \in Int /\ fs.ref[ip] >= 0
              BY <3>3, <4>1, <6>1
            <7>2. CASE ip = dp
              BY <2>1, <3>3, <5>1, <7>1, <7>2
            <7>3. CASE ip # dp
              BY <2>1, <3>3, <4>1, <5>1, <7>1, <7>3
            <7> QED
              BY <7>2, <7>3
          <6> QED
            BY <3>3, <4>1, <6>2, NodeIs DEF Linked
        <5>3. ~(k2.node[ip].nlink < 1)
          BY <5>1, <5>2
        <5>4. CASE isdir /\ ~IsDirEmpty(k2, ip)
          <6>1. r = Iput(Iput(k2, ip), dp)
            BY <1>7, <3>5, <5>3, <5>4 DEF dp
          <6> DEFINE k == Iput(k2, ip)
          <6>2. Becomes(k2, k, k2.node, [k2.ref EXCEPT ![ip] = @ - 1], ip)
            BY <4>1, <5>1, <5>2, IputIs
          <6> HIDE DEF k
          <6>3. Good(k) /\ k.node = fs.node /\ k.ref = [fs.ref EXCEPT ![dp] = @ + 1]
            BY <2>1, <3>3, <4>1, <5>1, <6>2, PlusMinus DEF Becomes
          <6>4. Holds(fs, k, dp)
            BY <2>1, <3>2, <6>3, Constants DEF Holds, LinkedDir, Linked
          <6>5. Holds(fs, r, 0)
            BY <1>3, <2>1, <6>1, <6>4, HeldPut DEF k
          <6> HIDE DEF r
          <6> QED
            BY <1>2, <6>5, HeldKept
        <5>5. CASE ~(isdir /\ ~IsDirEmpty(k2, ip))
          <6>1. r = Iput(DropLink(k4, ip), ip)
            BY <1>7, <3>5, <5>3, <5>5 DEF dp
          <6>2. /\ k3 = SetEntry(k2, dp, name, 0)
                /\ k4 = Iput(IF fs.node[ip].type = "dir" THEN DropLink(k3, dp) ELSE k3, dp)
            BY <5>1
          <6>3. fs.node[ip].type = "dir" => \A e \in Name : fs.node[ip].ents[e] = 0
            BY <5>1, <5>5 DEF IsDirEmpty
          <6>4. fs.node[ip].type = "dir" => \A q \in Proc : cwd[q] # ip
            BY <1>2, <1>7, <3>5, <5>1 DEF dp
          <6> HIDE DEF k3, k4, r
          <6>5. /\ Good(r) /\ Tree(r.node) /\ r.ref = fs.ref /\ Evolves(fs, r)
                /\ \A j \in Inum : LinkedDir(fs.node, j) /\ (fs.node[ip].type = "dir" => j # ip)
                                   => LinkedDir(r.node, j)
            <7>1. Good(fs) /\ Tree(fs.node) /\ dp \in Inum /\ fs.node[dp].ents[name] = ip
              BY <1>3, <2>1, <3>3
            <7> QED
              BY ONLY <3>2, <4>1, <5>1, <6>1, <6>2, <6>3, <7>1, RemovedIs
          <6>6. \A q \in Proc : cwd[q] \in Inum => LinkedDir(r.node, cwd[q])
            BY <1>3, <6>4, <6>5, Constants DEF ProcInv
          <6> QED
            BY <1>2, <6>5, <6>6, TransactionKept
        <5> QED
          BY <5>4, <5>5
      <4> QED
        BY <4>3, <4>4
    <3> QED
      BY <3>4, <3>5
  <2> QED
    BY <2>4, <2>5
<1> QED
  BY <1>6, <1>7

\* The first half of link() counts the link.
LEMMA LinkBeginKept ==
  ASSUME FilesInv, NEW p \in Proc, LinkBegin(p)
  PROVE  FilesInv' /\ Moved
<1>0. User(p) /\ Admitted(p)
  BY DEF LinkBegin
<1> PICK path \in Path : \E w \in {Namei(fs, p, path)} :
       LET k == Ilock(w.k, w.ip)
           isfile == w.ip # 0 /\ k.node[w.ip].type # "dir"
       IN /\ SetFs(IF w.ip = 0 THEN w.k
                   ELSE IF isfile THEN AddLinks(k, w.ip, 1) ELSE Iput(k, w.ip))
          /\ linking' = IF isfile THEN [p |-> p, ip |-> w.ip, disk |-> fs.node]
                        ELSE linking
          /\ UNCHANGED <<ftable, ofile, cwd, closing, exiting, leaked>>
  BY DEF LinkBegin
<1> DEFINE w == Namei(fs, p, path)
           k == Ilock(w.k, w.ip)
           isfile == w.ip # 0 /\ k.node[w.ip].type # "dir"
           l == [p |-> p, ip |-> w.ip, disk |-> fs.node]
           r == IF w.ip = 0 THEN w.k
                ELSE IF isfile THEN AddLinks(k, w.ip, 1) ELSE Iput(k, w.ip)
<1>1. /\ SetFs(r) /\ linking' = IF isfile THEN l ELSE linking
      /\ UNCHANGED <<ftable, ofile, cwd, closing, exiting, leaked>>
  OBVIOUS
<1>2. /\ Rest /\ fs.bad = "none" /\ Good(fs) /\ Tree(fs.node) /\ Ready(fs, p)
      /\ linking = NotLinking /\ closing[p] = NotClosing /\ cwd[p] \in Inum
      /\ leaked = Lost(fs) /\ ProcInv(fs.node, cwd, exiting, closing, ofile)
      /\ FileInv(ftable, ofile, closing) /\ RefInv(fs, ftable, cwd, closing, linking)
  BY <1>0, CallReady
<1>3. WalkIs(fs, w)
  BY <1>2, NameiIs
<1>4. Holds(fs, w.k, w.ip) /\ w.ip \in Inum \cup {0}
  BY <1>3 DEF WalkIs, Holds
<1> HIDE DEF w
<1>5. CASE ~isfile
  <2>1. Holds(fs, r, 0)
    <3>1. CASE w.ip = 0
      BY <1>4, <3>1
    <3>2. CASE w.ip # 0
      <4>1. r = Iput(k, w.ip)
        BY <1>5, <3>2
      <4>2. Holds(fs, k, w.ip) /\ w.ip \in Inum
        BY <1>2, <1>4, <3>2, HeldLock
      <4> HIDE DEF k, r
      <4> QED
        BY <1>2, <4>1, <4>2, HeldPut
    <3> QED
      BY <3>1, <3>2
  <2>2. linking' = linking
    BY <1>1, <1>5
  <2> HIDE DEF r, isfile
  <2>3. Transaction(p, r)
    BY <1>0, <1>1, <2>2 DEF Transaction
  <2> QED
    BY <2>1, <2>3, HeldKept
<1>6. CASE isfile
  <2> DEFINE i == w.ip
             n == WithLinks(fs.node[i], 1)
  <2>1. i \in Inum /\ r = AddLinks(k, i, 1) /\ linking' = l /\ k.node[i].type # "dir"
    BY <1>1, <1>4, <1>6
  <2>2. Holds(fs, k, i)
    BY <1>2, <1>4, <2>1, HeldLock
  <2>3. linking'.p = p /\ linking'.ip = i /\ linking'.disk = fs.node
    BY <2>1
  <2> HIDE DEF i, k, r, isfile, l
  <2>4. Rest'
    BY <1>1, <1>2, <2>1, <2>3 DEF Rest
  <2>5. CASE Stuck(k)
    <3>1. Stuck(r)
      BY <2>1, <2>5, StuckChanges
    <3>2. ~Good(r)
      BY <3>1 DEF Stuck, Good
    <3> QED
      BY <1>1, <1>2, <2>4, <3>1, <3>2, StepKept
  <2>6. CASE ~Stuck(k)
    <3>1. Good(k) /\ k.node = fs.node /\ Linked(fs.node, i) /\ k.ref = [fs.ref EXCEPT ![i] = @ + 1]
      BY <2>1, <2>2, <2>6, Constants DEF Holds
    <3>2. fs.ref \in [Inum -> Int] /\ fs.node \in Nodes /\ k \in FsType
      BY <1>2, <3>1, FsIs DEF Good
    <3>3. fs.node[i].type = "file" /\ fs.node[i].nlink > 0 /\ fs.node[i].nlink \in Int
      <4>1. fs.node[i].type \in {"free", "file", "dir"} /\ fs.node[i].nlink \in Int
        BY ONLY <2>1, <3>2, NodeIs
      <4> QED
        BY <2>1, <3>1, <4>1 DEF Linked
    <3> HIDE DEF n
    <3>4. /\ n \in NodeType /\ r = Iupdate(k, i, n) /\ n.type = "file"
          /\ n.nlink = fs.node[i].nlink + 1 /\ n.ents = fs.node[i].ents
      <4>0. PICK one \in Int : one = 1
        OBVIOUS
      <4>1. n = WithLinks(k.node[i], one)
        BY <3>1, <4>0 DEF n
      <4>2. /\ n \in NodeType /\ AddLinks(k, i, one) = Iupdate(k, i, n)
            /\ n.type = k.node[i].type /\ n.nlink = k.node[i].nlink + one /\ n.ents = k.node[i].ents
        <5>1. k \in FsType /\ i \in Inum
          BY <2>1, <3>2
        <5> QED
          BY ONLY <4>0, <4>1, <5>1, LinksChanged
      <4> QED
        BY <2>1, <3>1, <3>3, <4>0, <4>2
    <3>5. Good(r) /\ r.node = [fs.node EXCEPT ![i] = n] /\ r.ref = k.ref
      <4>1. n.nlink >= 0 /\ n.nlink # 0 /\ n.type # "free"
        BY <3>3, <3>4
      <4> QED
        BY <2>1, <3>1, <3>4, <4>1, IupdateIs DEF Becomes
    <3>6. /\ \A j \in Inum : r.node[j] = IF j = i THEN n ELSE fs.node[j]
          /\ \A j \in Inum : r.ref[j] = IF j = i THEN fs.ref[j] + 1 ELSE fs.ref[j]
      BY <2>1, <3>1, <3>2, <3>5 DEF Nodes
    <3>7. Evolves(fs, r) /\ \A j \in Inum : LinkedDir(fs.node, j) => LinkedDir(r.node, j)
      <4>1. Grown(fs.node, r.node)
        BY <3>3, <3>4, <3>6 DEF Grown
      <4>2. ASSUME NEW j \in Inum, r.node[j].nlink = 0 PROVE r.ref[j] = fs.ref[j]
        BY <3>3, <3>4, <3>6, <4>2
      <4> QED
        BY <1>2, <3>5, <4>1, <4>2, GrownEvolves
    <3>8. LinkInv(r.node, cwd', exiting', linking')
      <4>1. r.node = [linking'.disk EXCEPT ![linking'.ip] = WithLinks(linking'.disk[linking'.ip], 1)]
        BY <2>3, <3>5 DEF n
      <4>2. cwd'[p] # 0 /\ p \notin exiting'
        BY <1>0, <1>1, <1>2, Constants DEF User
      <4> QED
        BY <1>2, <2>1, <2>3, <3>3, <4>1, <4>2 DEF LinkInv
    <3>9. RefInv(r, ftable', cwd', closing', linking')
      <4>1. ASSUME NEW j \in Inum
            PROVE  r.ref[j] = Cardinality(UserSet(ftable, cwd, closing, linking', j))
        <5>1. linking.ip = 0 /\ linking'.p \in Proc /\ j # 0
          BY <1>2, <2>3, Constants DEF NotLinking
        <5>2. Cardinality(UserSet(ftable, cwd, closing, linking', j))
                = Cardinality(UserSet(ftable, cwd, closing, linking, j)) + (IF linking'.ip = j THEN 1 ELSE 0)
          BY ONLY <5>1, LinkingAdded
        <5>3. fs.ref[j] = Cardinality(UserSet(ftable, cwd, closing, linking, j)) /\ fs.ref[j] \in Int
          BY <1>2, <3>2 DEF RefInv
        <5> QED
          BY <2>3, <3>6, <5>2, <5>3
      <4> QED
        BY <1>1, <4>1 DEF RefInv
    <3>10. ProcInv(r.node, cwd', exiting', closing', ofile') /\ FileInv(ftable', ofile', closing')
      <4>1. ASSUME NEW q \in Proc, cwd[q] # 0 PROVE LinkedDir(r.node, cwd[q])
        BY <1>2, <3>7, <4>1 DEF ProcInv, Rest
      <4> QED
        BY <1>1, <1>2, <4>1 DEF ProcInv
    <3> QED
      BY <1>1, <1>2, <2>4, <3>5, <3>7, <3>8, <3>9, <3>10, StepKept
  <2> QED
    BY <2>5, <2>6
<1> QED
  BY <1>5, <1>6

\* Between the halves the inode has a link too many; walks are as before.
ExtraLink(dk, node, ip) ==
  /\ Tree(dk) /\ ip \in Inum /\ dk[ip].type = "file" /\ dk[ip].nlink > 0
  /\ node \in Nodes /\ node = [dk EXCEPT ![ip] = WithLinks(dk[ip], 1)]

LEMMA ExtraIs ==
  ASSUME NEW dk, NEW node, NEW ip, ExtraLink(dk, node, ip)
  PROVE  /\ dk \in Nodes /\ dk[ip].nlink \in Int /\ dk[ip].ents = NoEntry
         /\ node[ip] = [type |-> "file", nlink |-> dk[ip].nlink + 1, ents |-> NoEntry]
         /\ \A j \in Inum : j # ip => node[j] = dk[j]
         /\ \A j \in Inum : LinkedDir(node, j) => j # ip /\ LinkedDir(dk, j)
         /\ Walkable(node) /\ Linked(node, Root) /\ Linked(node, ip) /\ Dotted(node)
<1>1. /\ dk \in Nodes /\ ip \in Inum /\ dk[ip].type = "file" /\ dk[ip].nlink > 0
      /\ dk[ip].nlink \in Int /\ dk[ip].ents = NoEntry /\ Walkable(dk)
      /\ LinkedDir(dk, Root) /\ Dotted(dk)
  BY NodeIs, TreeFacts DEF ExtraLink, Tree, Blank
<1>2. node[ip] = [type |-> "file", nlink |-> dk[ip].nlink + 1, ents |-> NoEntry]
  BY <1>1 DEF ExtraLink, WithLinks, Nodes
<1>3. \A j \in Inum : j # ip => node[j] = dk[j]
  BY <1>1 DEF ExtraLink, Nodes
<1>4. node[ip].type = "file" /\ node[ip].nlink > 0 /\ node[ip].ents = NoEntry
  BY <1>1, <1>2
<1>5. \A j \in Inum : LinkedDir(node, j) => j # ip /\ LinkedDir(dk, j)
  BY <1>3, <1>4 DEF LinkedDir
<1>6. \A j \in Inum : Linked(dk, j) => Linked(node, j)
  BY <1>3, <1>4 DEF Linked
<1>7. Walkable(node)
  <2>1. ASSUME NEW d \in Inum, NEW e \in Elem, LinkedDir(node, d), node[d].ents[e] # 0
        PROVE  Linked(node, node[d].ents[e])
    <3>1. LinkedDir(dk, d) /\ node[d] = dk[d]
      BY <1>3, <1>5, <2>1
    <3>2. dk[d].ents[e] \in Inum \cup {0}
      BY <1>1, NodeIs
    <3> QED
      BY <1>1, <1>6, <2>1, <3>1, <3>2 DEF Walkable
  <2> QED
    BY <2>1 DEF Walkable
<1>8. Linked(node, Root) /\ Linked(node, ip)
  BY <1>1, <1>4, <1>6, Constants DEF LinkedDir, Linked
<1>9. Dotted(node)
  BY <1>1, <1>3, <1>4 DEF Dotted
<1> QED
  BY <1>1, <1>2, <1>3, <1>5, <1>7, <1>8, <1>9

\* What link() knows when it comes back.
LEMMA LinkingReady ==
  ASSUME FilesInv, fs.bad = "none", linking # NotLinking
  PROVE  /\ Ready(fs, linking.p) /\ linking.p \in Proc
         /\ ExtraLink(linking.disk, fs.node, linking.ip) /\ fs.ref[linking.ip] > 0
<1> DEFINE p == linking.p
<1>1. /\ Rest /\ Good(fs) /\ LinkInv(fs.node, cwd, exiting, linking)
      /\ ProcInv(fs.node, cwd, exiting, closing, ofile)
      /\ RefInv(fs, ftable, cwd, closing, linking)
  BY Parts
<1>2. fs.node \in Nodes
  BY <1>1, FsIs DEF Good
<1>3. p \in Proc /\ cwd[p] # 0 /\ ExtraLink(linking.disk, fs.node, linking.ip)
  BY <1>1, <1>2 DEF LinkInv, ExtraLink
<1>4. cwd[p] \in Inum /\ LinkedDir(fs.node, cwd[p])
  BY <1>1, <1>3 DEF Rest, ProcInv
<1>5. Ready(fs, p)
  BY <1>1, <1>3, <1>4, ExtraIs DEF Ready, LinkedDir, Linked
<1>6. fs.ref[linking.ip] > 0
  <2>1. /\ linking.ip \in Inum /\ "linking" \in Tags /\ p \in File \cup Proc
        /\ Uses(ftable, cwd, closing, linking, linking.ip, "linking", p)
    BY <1>3 DEF ExtraLink, Tags, Uses
  <2> QED
    BY <1>1, <2>1, InUse
<1> QED
  BY <1>3, <1>5, <1>6

\* The link is undone.
LEMMA UndoIs ==
  ASSUME NEW k0, NEW dk, NEW ip, Good(k0), ExtraLink(dk, k0.node, ip), k0.ref[ip] > 0,
         NEW k, Holds(k0, k, 0), NEW r, r = Iput(DropLink(Ilock(k, ip), ip), ip)
  PROVE  \/ Stuck(r)
         \/ Good(r) /\ r.node = dk /\ r.ref = [k0.ref EXCEPT ![ip] = @ - 1]
<1> DEFINE k1 == Ilock(k, ip)
           k2 == DropLink(k1, ip)
           n == WithLinks(k1.node[ip], 0 - 1)
<1>0. /\ ip \in Inum /\ dk \in Nodes /\ dk[ip].nlink \in Int /\ dk[ip].nlink > 0
      /\ k0.node[ip] = [type |-> "file", nlink |-> dk[ip].nlink + 1, ents |-> NoEntry]
      /\ dk[ip].type = "file" /\ dk[ip].ents = NoEntry
      /\ \A j \in Inum : j # ip => k0.node[j] = dk[j]
  BY ExtraIs DEF ExtraLink
<1>1. r = Iput(k2, ip)
  OBVIOUS
<1> HIDE DEF n
<1>2. CASE Stuck(k)
  <2>1. Stuck(k1)
    BY <1>0, <1>2, StuckStays
  <2> HIDE DEF k1
  <2>2. Stuck(k2)
    BY <1>0, <2>1, StuckChanges
  <2> HIDE DEF k2
  <2> QED
    BY <1>0, <1>1, <2>2, StuckStays
<1>3. CASE ~Stuck(k)
  <2>1. Good(k) /\ k.node = k0.node /\ k.ref = k0.ref
    BY <1>3 DEF Holds
  <2>2. Good(k1) /\ k1.node = k0.node /\ k1.ref = k0.ref
    <3>1. Becomes(k, Ilock(k, ip), k.node, k.ref, 0)
      BY <1>0, <2>1, IlockIs
    <3> QED
      BY <2>1, <3>1 DEF Becomes
  <2> HIDE DEF k1
  <2>3. k1 \in FsType /\ k1.node \in Nodes /\ k1.ref \in [Inum -> Int]
    BY <2>2, FsIs DEF Good
  <2>4. /\ n \in NodeType /\ k2 = Iupdate(k1, ip, n)
        /\ n.type = "file" /\ n.nlink = dk[ip].nlink /\ n.ents = NoEntry
    <3>1. n = WithLinks(k1.node[ip], 0 - 1)
      BY DEF n
    <3>2. /\ n \in NodeType /\ DropLink(k1, ip) = Iupdate(k1, ip, n)
          /\ n.type = k1.node[ip].type /\ n.nlink = k1.node[ip].nlink - 1 /\ n.ents = k1.node[ip].ents
      BY ONLY <1>0, <2>3, <3>1, LinkDropped
    <3>3. /\ k1.node[ip].type = "file" /\ k1.node[ip].nlink = dk[ip].nlink + 1
          /\ k1.node[ip].ents = NoEntry
      BY <1>0, <2>2
    <3> QED
      BY <1>0, <3>2, <3>3
  <2> HIDE DEF k2
  <2>5. Good(k2) /\ k2.node = [k1.node EXCEPT ![ip] = n] /\ k2.ref = k0.ref
    <3>1. n.nlink >= 0 /\ n.nlink # 0 /\ n.type # "free"
      BY <1>0, <2>4
    <3> QED
      BY <1>0, <2>2, <2>4, <3>1, IupdateIs DEF Becomes
  <2>6. k2.node = dk
    <3>1. n = dk[ip]
      <4>1. n = [type |-> n.type, nlink |-> n.nlink, ents |-> n.ents]
        BY <2>4 DEF NodeType
      <4>2. dk[ip] = [type |-> dk[ip].type, nlink |-> dk[ip].nlink, ents |-> dk[ip].ents]
        BY <1>0, NodeIs
      <4> QED
        BY <1>0, <2>4, <4>1, <4>2
    <3>2. k2.node \in Nodes
      BY <2>5, FsIs DEF Good
    <3>3. \A j \in Inum : k2.node[j] = dk[j]
      BY <1>0, <2>2, <2>3, <2>5, <3>1 DEF Nodes
    <3> QED
      BY <1>0, <3>2, <3>3, SameFunction DEF Nodes
  <2>7. k2.ref[ip] > 0 /\ k2.node[ip].nlink > 0
    BY <1>0, <2>5, <2>6
  <2>8. Becomes(k2, Iput(k2, ip), k2.node, [k2.ref EXCEPT ![ip] = @ - 1], ip)
    BY <1>0, <2>5, <2>7, IputIs
  <2> QED
    BY <1>1, <2>5, <2>6, <2>8 DEF Becomes
<1> QED
  BY <1>2, <1>3

\* The inode gets its second name.
LEMMA EnteredIs ==
  ASSUME NEW k0, NEW dk, NEW ip, Good(k0), ExtraLink(dk, k0.node, ip), k0.ref[ip] > 0,
         NEW dp \in Inum, LinkedDir(k0.node, dp), NEW name \in Name, k0.node[dp].ents[name] = 0,
         NEW k, Good(k), Holds(k0, k, dp),
         NEW r, r = Iput(Iput(SetEntry(k, dp, name, ip), dp), ip)
  PROVE  /\ Good(r) /\ Tree(r.node) /\ r.ref = [k0.ref EXCEPT ![ip] = @ - 1]
         /\ Grown(k0.node, r.node) /\ r.node[ip].nlink > 0
<1> DEFINE n == WithEntry(k.node[dp], name, ip)
           k1 == SetEntry(k, dp, name, ip)
           k2 == Iput(k1, dp)
           rn == [k0.node EXCEPT ![dp] = n]
<1>0. /\ ip \in Inum /\ dk \in Nodes /\ dk[ip].nlink \in Int /\ dk[ip].nlink > 0
      /\ k0.node[ip] = [type |-> "file", nlink |-> dk[ip].nlink + 1, ents |-> NoEntry]
      /\ dk[ip].type = "file" /\ dk[ip].ents = NoEntry /\ Tree(dk)
      /\ \A j \in Inum : j # ip => k0.node[j] = dk[j]
      /\ dp # ip /\ LinkedDir(dk, dp)
  <2>1. /\ ip \in Inum /\ dk \in Nodes /\ dk[ip].nlink \in Int /\ dk[ip].ents = NoEntry
        /\ k0.node[ip] = [type |-> "file", nlink |-> dk[ip].nlink + 1, ents |-> NoEntry]
        /\ \A j \in Inum : j # ip => k0.node[j] = dk[j]
        /\ \A j \in Inum : LinkedDir(k0.node, j) => j # ip /\ LinkedDir(dk, j)
    <3>1. PICK m : m = k0.node
      OBVIOUS
    <3>2. ExtraLink(dk, m, ip)
      BY <3>1
    <3>3. /\ dk \in Nodes /\ dk[ip].nlink \in Int /\ dk[ip].ents = NoEntry
          /\ m[ip] = [type |-> "file", nlink |-> dk[ip].nlink + 1, ents |-> NoEntry]
          /\ \A j \in Inum : j # ip => m[j] = dk[j]
          /\ \A j \in Inum : LinkedDir(m, j) => j # ip /\ LinkedDir(dk, j)
      BY ONLY <3>2, ExtraIs
    <3> QED
      BY <3>1, <3>3 DEF ExtraLink
  <2> QED
    BY <2>1 DEF ExtraLink
<1>1. /\ k.node = k0.node /\ k.ref = [k0.ref EXCEPT ![dp] = @ + 1] /\ k \in FsType
      /\ k0.node \in Nodes /\ k0.ref \in [Inum -> Int] /\ name \in Elem
      /\ \A i \in Inum : k0.ref[i] >= 0
  <2>1. ~Stuck(k)
    BY DEF Stuck, Good
  <2> QED
    BY <2>1, FsIs, Constants DEF Holds, Good, Alive
<1>2. k0.node[dp] = dk[dp] /\ dk[dp].type = "dir" /\ dk[dp].nlink > 0 /\ dk[dp].nlink \in Int
      /\ k0.node[ip].type = "file" /\ k0.node[ip].nlink = dk[ip].nlink + 1
      /\ k0.node[ip].ents = NoEntry
  <2>1. dk[dp].nlink \in Int
    BY <1>0, NodeIs
  <2> QED
    BY <1>0, <2>1 DEF LinkedDir
<1>3. /\ n \in NodeType /\ k1 = Iupdate(k, dp, n) /\ n.type = "dir" /\ n.nlink = dk[dp].nlink
      /\ n.ents = [dk[dp].ents EXCEPT ![name] = ip]
  <2> HIDE DEF n
  <2>1. n = WithEntry(k.node[dp], name, ip)
    BY DEF n
  <2>2. k \in FsType /\ name \in Elem /\ ip \in Inum
    BY <1>0, <1>1
  <2>3. /\ n \in NodeType /\ SetEntry(k, dp, name, ip) = Iupdate(k, dp, n)
        /\ n.type = k.node[dp].type /\ n.nlink = k.node[dp].nlink
    BY ONLY <2>1, <2>2, dp \in Inum, EntrySet
  <2> QED
    BY <1>1, <1>2, <2>3 DEF n, WithEntry
<1>4. r = Iput(k2, ip)
  OBVIOUS
<1> HIDE DEF n, k1
<1>5. Good(k1) /\ k1.node = rn /\ k1.ref = k.ref
  <2>1. n.nlink >= 0 /\ n.nlink # 0 /\ n.type # "free"
    BY <1>2, <1>3
  <2> QED
    BY <1>1, <1>3, <2>1, IupdateIs DEF Becomes
<1>6. rn \in Nodes /\ \A j \in Inum : rn[j] = IF j = dp THEN n ELSE k0.node[j]
  BY <1>1, <1>3 DEF Nodes
<1> HIDE DEF rn
<1>7. k1.ref[dp] > 0 /\ k1.node[dp].nlink > 0
  BY <1>1, <1>2, <1>3, <1>5, <1>6
<1>8. Good(k2) /\ k2.node = rn /\ k2.ref = k0.ref
  <2>1. Becomes(k1, Iput(k1, dp), k1.node, [k1.ref EXCEPT ![dp] = @ - 1], dp)
    BY <1>5, <1>7, IputIs
  <2> QED
    BY <1>1, <1>5, <2>1, PlusMinus DEF Becomes
<1> HIDE DEF k2
<1>9. rn[ip].nlink > 0 /\ rn[ip] = k0.node[ip]
  BY <1>0, <1>2, <1>6
<1>10. Good(r) /\ r.node = rn /\ r.ref = [k0.ref EXCEPT ![ip] = @ - 1]
  <2>1. Becomes(k2, Iput(k2, ip), k2.node, [k2.ref EXCEPT ![ip] = @ - 1], ip)
    BY <1>0, <1>8, <1>9, IputIs
  <2> QED
    BY <1>4, <1>8, <2>1 DEF Becomes
<1>11. Tree(rn)
  <2>1. NameAdded(dk, rn, dp, name, ip)
    BY <1>0, <1>2, <1>3, <1>6, <1>9 DEF NameAdded
  <2>2. dk[dp].ents[name] = 0
    BY <1>2
  <2> QED
    BY <1>0, <1>6, <2>1, <2>2, TreeExtended
<1>12. Grown(k0.node, rn)
  BY <1>2, <1>3, <1>6 DEF Grown
<1> QED
  BY <1>9, <1>10, <1>11, <1>12

\* The second half makes the link or undoes it.
LEMMA LinkEnded ==
  ASSUME FilesInv, fs.bad = "none", linking # NotLinking, NEW r, SetFs(r),
         linking' = NotLinking, UNCHANGED <<ftable, ofile, cwd, closing, exiting, leaked>>,
         \/ Stuck(r)
         \/ /\ Good(r) /\ Tree(r.node) /\ r.ref = [fs.ref EXCEPT ![linking.ip] = @ - 1]
            /\ Evolves(fs, r)
            /\ \A i \in Inum : LinkedDir(fs.node, i) => LinkedDir(r.node, i)
  PROVE  FilesInv' /\ Moved
<1>1. /\ Rest /\ Good(fs) /\ LinkInv(fs.node, cwd, exiting, linking)
      /\ ProcInv(fs.node, cwd, exiting, closing, ofile)
      /\ FileInv(ftable, ofile, closing) /\ RefInv(fs, ftable, cwd, closing, linking)
  BY Parts
<1>2. /\ NotLinking.p \in Proc /\ NotLinking.ip = 0 /\ linking.p \in Proc /\ linking.ip \in Inum
      /\ fs.ref \in [Inum -> Int]
  BY <1>1, LinkingReady, Constants, FsIs DEF NotLinking, ExtraLink, Good
<1>3. Rest'
  BY <1>1, <1>2 DEF Rest
<1>4. ASSUME Good(r)
      PROVE  /\ Evolves(fs, r)
             /\ LinkInv(r.node, cwd', exiting', linking')
             /\ ProcInv(r.node, cwd', exiting', closing', ofile')
             /\ FileInv(ftable', ofile', closing')
             /\ RefInv(r, ftable', cwd', closing', linking')
  <2>1. /\ Tree(r.node) /\ r.ref = [fs.ref EXCEPT ![linking.ip] = @ - 1] /\ Evolves(fs, r)
        /\ \A i \in Inum : LinkedDir(fs.node, i) => LinkedDir(r.node, i)
    BY <1>4 DEF Stuck, Good
  <2>2. ASSUME NEW q \in Proc, cwd[q] # 0 PROVE LinkedDir(r.node, cwd[q])
    BY <1>1, <2>1, <2>2 DEF ProcInv, Rest
  <2>3. ProcInv(r.node, cwd', exiting', closing', ofile')
    BY <1>1, <2>2 DEF ProcInv
  <2>4. ASSUME NEW j \in Inum
        PROVE  r.ref[j] = Cardinality(UserSet(ftable, cwd, closing, NotLinking, j))
    <3>1. j # 0
      BY Constants
    <3>2. Cardinality(UserSet(ftable, cwd, closing, linking, j))
            = Cardinality(UserSet(ftable, cwd, closing, NotLinking, j))
              + (IF linking.ip = j THEN 1 ELSE 0)
      BY ONLY <1>2, <3>1, LinkingAdded
    <3>3. fs.ref[j] = Cardinality(UserSet(ftable, cwd, closing, linking, j)) /\ fs.ref[j] \in Int
      BY <1>1, <1>2 DEF RefInv
    <3>4. r.ref[j] = IF linking.ip = j THEN fs.ref[j] - 1 ELSE fs.ref[j]
      BY <1>2, <2>1
    <3>5. Cardinality(UserSet(ftable, cwd, closing, NotLinking, j)) \in Nat
      BY UserCount
    <3> QED
      BY <3>2, <3>3, <3>4, <3>5
  <2>5. RefInv(r, ftable', cwd', closing', linking')
    BY <2>4 DEF RefInv
  <2> QED
    BY <1>1, <2>1, <2>3, <2>5 DEF LinkInv
<1>5. Stuck(r) \/ Good(r)
  OBVIOUS
<1> QED
  BY <1>3, <1>4, <1>5, StepKept

LEMMA LinkEndKept ==
  ASSUME FilesInv, NEW p \in Proc, LinkEnd(p)
  PROVE  FilesInv' /\ Moved
<1>1. linking.p = p /\ linking # NotLinking /\ fs.bad = "none"
  BY DEF LinkEnd
<1>2. PICK path \in Path, room \in BOOLEAN : \E w \in {Nameiparent(fs, p, path)} :
       LET ip == linking.ip
           dp == w.ip
           name == Last(path.elems)
           k == Ilock(w.k, dp)
           old == Dirlookup(k, dp, name)
           undo(k1) == Iput(DropLink(Ilock(k1, ip), ip), ip)
       IN /\ SetFs(IF dp = 0 THEN undo(w.k)
                   ELSE IF old # 0 THEN undo(Iput(Iput(Iget(k, old), old), dp))
                   ELSE IF room THEN Iput(Iput(SetEntry(k, dp, name, ip), dp), ip)
                   ELSE undo(Iput(k, dp)))
          /\ linking' = NotLinking
          /\ UNCHANGED <<ftable, ofile, cwd, closing, exiting, leaked>>
  BY DEF LinkEnd
<1> DEFINE w == Nameiparent(fs, p, path)
           ip == linking.ip
           dp == w.ip
           name == Last(path.elems)
           k == Ilock(w.k, dp)
           old == Dirlookup(k, dp, name)
           undo(k1) == Iput(DropLink(Ilock(k1, ip), ip), ip)
           k2 == IF dp = 0 THEN w.k
                 ELSE IF old # 0 THEN Iput(Iput(Iget(k, old), old), dp) ELSE Iput(k, dp)
           e == Iput(Iput(SetEntry(k, dp, name, ip), dp), ip)
           made == dp # 0 /\ old = 0 /\ room
           r == IF made THEN e ELSE undo(k2)
<1>3. /\ SetFs(r) /\ linking' = NotLinking
      /\ UNCHANGED <<ftable, ofile, cwd, closing, exiting, leaked>>
  BY <1>2
<1>4. /\ Ready(fs, p) /\ Good(fs) /\ ExtraLink(linking.disk, fs.node, ip) /\ fs.ref[ip] > 0
      /\ ip \in Inum
  BY <1>1, LinkingReady DEF Ready, ExtraLink
<1>5. /\ WalkIs(fs, w) /\ (w.ip # 0 /\ Good(w.k) => LinkedDir(fs.node, w.ip))
      /\ (w.ip # 0 => name \in Elem)
  BY <1>4, NameiparentIs
<1>6. Holds(fs, w.k, dp) /\ dp \in Inum \cup {0}
  BY <1>5 DEF WalkIs, Holds
<1>7. Walkable(fs.node) /\ Dotted(fs.node) /\ fs.node \in Nodes /\ fs.ref \in [Inum -> Int]
  BY <1>4, ExtraIs, FsIs DEF Good
<1>8. ASSUME dp # 0
      PROVE  /\ dp \in Inum /\ name \in Elem /\ Holds(fs, k, dp) /\ old \in Inum \cup {0}
             /\ Good(k) => /\ LinkedDir(fs.node, dp) /\ k.node = fs.node
                           /\ k.ref = [fs.ref EXCEPT ![dp] = @ + 1]
                           /\ old = fs.node[dp].ents[name]
  <2> HIDE DEF w, name
  <2>1. dp \in Inum /\ name \in Elem
    BY <1>5, <1>6, <1>8
  <2>2. Holds(fs, k, dp)
    BY <1>4, <1>6, <2>1, HeldLock
  <2>3. k \in FsType
    BY <2>2 DEF Holds, Stuck, Good
  <2>4. ASSUME Good(k) PROVE ~Stuck(w.k)
    <3>1. ASSUME Stuck(w.k) PROVE Stuck(k)
      BY <2>1, <3>1, StuckStays
    <3> HIDE DEF k
    <3> QED
      BY <2>4, <3>1 DEF Stuck, Good
  <2>5. ASSUME Good(k) PROVE LinkedDir(fs.node, dp)
    BY <1>5, <1>6, <1>8, <2>4, <2>5 DEF Holds
  <2> HIDE DEF k, dp
  <2>6. old \in Inum \cup {0}
    BY <2>1, <2>3, FsIs, NodeIs DEF Dirlookup
  <2>7. ASSUME Good(k) PROVE k.node = fs.node /\ k.ref = [fs.ref EXCEPT ![dp] = @ + 1]
    BY <1>8, <2>2, <2>7 DEF Holds, Stuck, Good
  <2> QED
    BY <2>1, <2>2, <2>5, <2>6, <2>7 DEF Dirlookup
<1> HIDE DEF w, name, dp, k, old
<1>9. CASE ~made
  <2>1. Holds(fs, k2, 0)
    <3>1. CASE dp = 0
      BY <1>6, <3>1
    <3>2. CASE dp # 0 /\ old = 0
      BY <1>4, <1>8, <3>2, HeldPut
    <3>3. CASE dp # 0 /\ old # 0
      <4> DEFINE k3 == Iget(k, old)
                 k4 == Iput(k3, old)
      <4>1. old \in Inum /\ dp \in Inum /\ Holds(fs, k, dp) /\ k2 = Iput(k4, dp)
        BY <1>8, <3>3
      <4>2. Holds(fs, k4, dp)
        <5>1. CASE Stuck(k)
          <6>1. Stuck(k3)
            BY <4>1, <5>1, StuckStays
          <6> HIDE DEF k3
          <6>2. Stuck(k4)
            BY <4>1, <6>1, StuckStays
          <6> HIDE DEF k4
          <6> QED
            BY <4>1, <6>2 DEF Holds
        <5>2. CASE ~Stuck(k)
          <6>1. /\ Good(k) /\ LinkedDir(fs.node, dp) /\ k.node = fs.node
                /\ k.ref = [fs.ref EXCEPT ![dp] = @ + 1] /\ old = fs.node[dp].ents[name]
            BY <1>8, <3>3, <5>2 DEF Holds
          <6>2. Linked(fs.node, old)
            BY <1>7, <1>8, <3>3, <6>1 DEF Walkable
          <6>3. Stuck(k3) \/ Becomes(k, k3, k.node, [k.ref EXCEPT ![old] = @ + 1], 0)
            <7>1. OneMore(k.ref)
              BY <1>4, <4>1, <6>1, HeldIsOneMore
            <7> QED
              BY <4>1, <6>1, <6>2, <7>1, IgetIs
          <6> HIDE DEF k3
          <6>4. CASE Stuck(k3)
            <7>1. Stuck(k4)
              BY <4>1, <6>4, StuckStays
            <7> HIDE DEF k4
            <7> QED
              BY <4>1, <7>1 DEF Holds
          <6>5. CASE Becomes(k, k3, k.node, [k.ref EXCEPT ![old] = @ + 1], 0)
            <7>1. Good(k3) /\ k3.node = fs.node /\ k3.ref = [k.ref EXCEPT ![old] = @ + 1]
              BY <6>1, <6>5 DEF Becomes
            <7>2. k.ref \in [Inum -> Int] /\ k.ref[old] >= 0
              BY <4>1, <6>1, FsIs DEF Good, Alive
            <7>3. k3.ref[old] > 0 /\ k3.node[old].nlink > 0
              BY <4>1, <6>2, <7>1, <7>2 DEF Linked
            <7>4. Becomes(k3, k4, k3.node, [k3.ref EXCEPT ![old] = @ - 1], old)
              BY <4>1, <7>1, <7>3, IputIs
            <7> HIDE DEF k4
            <7>5. Good(k4) /\ k4.node = fs.node /\ k4.ref = k.ref
              BY <4>1, <7>1, <7>2, <7>4, PlusMinus DEF Becomes
            <7> QED
              BY <4>1, <6>1, <7>5, Constants DEF Holds, LinkedDir, Linked
          <6> QED
            BY <6>3, <6>4, <6>5
        <5> QED
          BY <5>1, <5>2
      <4> HIDE DEF k4
      <4> QED
        BY <1>4, <4>1, <4>2, HeldPut
    <3> QED
      BY <3>1, <3>2, <3>3
  <2>2. r = Iput(DropLink(Ilock(k2, ip), ip), ip)
    BY <1>9
  <2> HIDE DEF k2, r, ip
  <2>3. \/ Stuck(r)
        \/ Good(r) /\ r.node = linking.disk /\ r.ref = [fs.ref EXCEPT ![ip] = @ - 1]
    BY ONLY <1>4, <2>1, <2>2, UndoIs
  <2>4. ASSUME Good(r), r.node = linking.disk, r.ref = [fs.ref EXCEPT ![ip] = @ - 1]
        PROVE  /\ Tree(r.node) /\ Evolves(fs, r)
               /\ \A i \in Inum : LinkedDir(fs.node, i) => LinkedDir(r.node, i)
    <3>1. /\ r.node[ip].nlink > 0 /\ r.node[ip].type = "file" /\ fs.node[ip].type = "file"
          /\ Tree(r.node) /\ fs.node[ip].nlink > 0 /\ \A j \in Inum : j # ip => fs.node[j] = r.node[j]
      <4>1. /\ fs.node[ip] = [type |-> "file", nlink |-> r.node[ip].nlink + 1, ents |-> NoEntry]
            /\ r.node[ip].nlink \in Int /\ \A j \in Inum : j # ip => fs.node[j] = r.node[j]
        BY <1>4, <2>4, ExtraIs
      <4> QED
        BY <1>4, <2>4, <4>1 DEF ExtraLink
    <3>2. Grown(fs.node, r.node)
      BY <3>1 DEF Grown
    <3>3. ASSUME NEW i \in Inum, r.node[i].nlink = 0 PROVE r.ref[i] = fs.ref[i]
      BY <1>4, <1>7, <2>4, <3>1, <3>3
    <3> QED
      BY <1>4, <2>4, <3>1, <3>2, <3>3, GrownEvolves
  <2> QED
    BY <1>1, <1>3, <2>3, <2>4, LinkEnded DEF ip
<1>10. CASE made
  <2>1. r = e /\ dp # 0 /\ old = 0 /\ dp \in Inum /\ name \in Elem /\ Holds(fs, k, dp)
    BY <1>8, <1>10
  <2> HIDE DEF r
  <2>2. CASE Stuck(k)
    <3>1. Stuck(r)
      <4>1. Stuck(SetEntry(k, dp, name, ip))
        BY <1>4, <2>1, <2>2, StuckChanges
      <4>2. Stuck(Iput(SetEntry(k, dp, name, ip), dp))
        BY <2>1, <4>1, StuckStays
      <4> QED
        BY <1>4, <2>1, <4>2, StuckStays
    <3> QED
      BY <1>1, <1>3, <3>1, LinkEnded
  <2>3. CASE ~Stuck(k)
    <3>1. Good(k) /\ LinkedDir(fs.node, dp) /\ fs.node[dp].ents[name] = 0
      BY <1>8, <2>1, <2>3, Constants DEF Holds
    <3>2. name \in Name
      <4>1. fs.node[dp].ents["."] # 0 /\ fs.node[dp].ents[".."] # 0
        BY <1>7, <2>1, <3>1, Constants DEF Dotted, LinkedDir
      <4> QED
        BY <2>1, <3>1, <4>1, Constants
    <3> HIDE DEF ip
    <3>3. /\ Good(r) /\ Tree(r.node) /\ r.ref = [fs.ref EXCEPT ![ip] = @ - 1]
          /\ Grown(fs.node, r.node) /\ r.node[ip].nlink > 0
      BY ONLY <1>4, <2>1, <3>1, <3>2, EnteredIs
    <3>4. ASSUME NEW i \in Inum, r.node[i].nlink = 0 PROVE r.ref[i] = fs.ref[i]
      BY <1>4, <1>7, <3>3, <3>4
    <3>5. Evolves(fs, r) /\ \A i \in Inum : LinkedDir(fs.node, i) => LinkedDir(r.node, i)
      BY <1>4, <3>3, <3>4, GrownEvolves
    <3> QED
      BY <1>1, <1>3, <3>3, <3>5, LinkEnded DEF ip
  <2> QED
    BY <2>2, <2>3
<1> QED
  BY <1>9, <1>10

--------------------------------------------------------------------------------
(* Booting, from mkfs' disk or what a crash leaves.                          *)
LEMMA BootedIs ==
  ASSUME NEW node, Tree(node), NEW k, k = Booted(node)
  PROVE  /\ Good(k) /\ k.node = node /\ k.bad = "none"
         /\ \A i \in Inum : k.ref[i] = IF i = Root THEN 1 ELSE 0
         /\ Lost(k) = {i \in Inum : node[i].type # "free" /\ node[i].nlink = 0}
<1> DEFINE ref == [i \in Inum |-> IF i = Root THEN 1 ELSE 0]
<1>1. /\ node \in Nodes /\ node[Root].type # "free" /\ node[Root].nlink > 0
      /\ \A i \in Inum : node[i].nlink >= 0
  BY TreeFacts DEF Tree, Linked
<1>2. ref \in [Inum -> Int] /\ {} \in SUBSET Inum
  OBVIOUS
<1>3. k = [node |-> node, ref |-> ref, valid |-> {}, bad |-> "none"]
  BY DEF Booted
<1>4. \A i \in Inum : ref[i] = IF i = Root THEN 1 ELSE 0
  OBVIOUS
<1> HIDE DEF ref
<1>5. ASSUME NEW i \in Inum
      PROVE  /\ ref[i] >= 0 /\ node[i].nlink >= 0
             /\ ref[i] > 0 => node[i].type # "free" /\ (node[i].nlink = 0 => i \in {})
  BY <1>1, <1>4
<1>6. Good(k) /\ k.node = node /\ k.ref = ref
  BY <1>1, <1>2, <1>3, <1>5, GoodMade
<1>7. Lost(k) = {i \in Inum : node[i].type # "free" /\ node[i].nlink = 0}
  BY <1>1, <1>4, <1>6 DEF Lost
<1> QED
  BY <1>3, <1>4, <1>6, <1>7

\* A system that boots: init has the root, and nothing else is in use.
LEMMA BootInv ==
  ASSUME NEW node, Tree(node), NEW k, k = Booted(node),
         NEW t, t = [f \in File |-> NoFile], NEW o, o = [p \in Proc |-> [d \in Fd |-> 0]],
         NEW c, c = [p \in Proc |-> IF p = InitProc THEN Root ELSE 0],
         NEW cl, cl = [p \in Proc |-> NotClosing]
  PROVE  /\ LinkInv(node, c, {}, NotLinking) /\ ProcInv(node, c, {}, cl, o)
         /\ FileInv(t, o, cl) /\ RefInv(k, t, c, cl, NotLinking)
<1>1. /\ NotClosing.ip = 0 /\ NoFile.ref = 0 /\ NotLinking.ip = 0 /\ LinkedDir(node, Root)
      /\ 0 \notin File
  BY TreeFacts, Constants DEF NotClosing, NoFile, NotLinking
<1>2. LinkInv(node, c, {}, NotLinking)
  BY DEF LinkInv
<1>3. ProcInv(node, c, {}, cl, o)
  <2>1. ASSUME NEW p \in Proc
        PROVE  /\ c[p] # 0 => LinkedDir(node, c[p])
               /\ cl[p] = NotClosing /\ \A d \in Fd : o[p][d] = 0
    BY <1>1
  <2> QED
    BY <2>1 DEF ProcInv
<1>4. FileInv(t, o, cl)
  <2>1. ASSUME NEW f \in File
        PROVE  t[f].ref = Cardinality(HolderSet(o, cl, f)) /\ t[f] = NoFile /\ t[f].ref = 0
    <3>1. \A p \in Proc, d \in Fd : ~(o[p][d] = f /\ d # cl[p].fd)
      BY <1>1
    <3>2. Cardinality(HolderSet(o, cl, f)) = 0
      BY ONLY <3>1, HolderCount
    <3> QED
      BY <1>1, <3>2
  <2> QED
    BY <2>1 DEF FileInv
<1>5. RefInv(k, t, c, cl, NotLinking)
  <2> DEFINE c0 == [p \in Proc |-> 0]
  <2>1. ASSUME NEW i \in Inum PROVE k.ref[i] = Cardinality(UserSet(t, c, cl, NotLinking, i))
    <3>1. i # 0 /\ k.ref[i] = IF i = Root THEN 1 ELSE 0
      BY Constants, BootedIs
    <3>2. Cardinality(UserSet(t, c0, cl, NotLinking, i)) = 0
      <4>1. \A x \in Tags, n \in File \cup Proc : ~Uses(t, c0, cl, NotLinking, i, x, n)
        BY <1>1, <3>1 DEF Uses
      <4> HIDE DEF c0
      <4> QED
        BY ONLY <4>1, UserCount
    <3>3. c0[InitProc] = 0 /\ c[InitProc] = Root /\ \A p \in Proc : p # InitProc => c[p] = c0[p]
      BY Constants
    <3> HIDE DEF c0
    <3>4. Cardinality(UserSet(t, c, cl, NotLinking, i))
            = Cardinality(UserSet(t, c0, cl, NotLinking, i))
              + (IF c[InitProc] = i THEN 1 ELSE 0) - (IF c0[InitProc] = i THEN 1 ELSE 0)
      BY ONLY <3>3, Constants, CwdMoved
    <3> QED
      BY <3>1, <3>2, <3>3, <3>4
  <2> QED
    BY <2>1 DEF RefInv
<1> QED
  BY <1>2, <1>3, <1>4, <1>5

LEMMA BootRest ==
  ASSUME NEW t, t = [f \in File |-> NoFile], NEW o, o = [p \in Proc |-> [d \in Fd |-> 0]],
         NEW c, c = [p \in Proc |-> IF p = InitProc THEN Root ELSE 0],
         NEW cl, cl = [p \in Proc |-> NotClosing]
  PROVE  /\ t \in [File -> [ref : Nat, type : {"none", "inode", "pipe"}, ip : Inum \cup {0}]]
         /\ o \in [Proc -> [Fd -> File \cup {0}]] /\ c \in [Proc -> Inum \cup {0}]
         /\ cl \in [Proc -> [ip : Inum \cup {0}, fd : Fd \cup {0}]]
         /\ NotLinking.p \in Proc /\ NotLinking.ip \in Inum \cup {0}
  BY Constants DEF NoFile, NotClosing, NotLinking

LEMMA InitKept == Init => FilesInv
<1> SUFFICES ASSUME Init PROVE FilesInv
  OBVIOUS
<1>1. Tree(MkfsNode) /\ fs = Booted(MkfsNode) /\ exiting = {} /\ linking = NotLinking /\ leaked = {}
  BY TreeStarts DEF Init
<1>2. Rest
  BY <1>1, BootRest DEF Init, Rest
<1>3. Good(fs) /\ fs.node = MkfsNode /\ fs.bad = "none"
      /\ Lost(fs) = {i \in Inum : MkfsNode[i].type # "free" /\ MkfsNode[i].nlink = 0}
  BY <1>1, BootedIs
<1>4. ASSUME NEW i \in Inum PROVE ~(MkfsNode[i].type # "free" /\ MkfsNode[i].nlink = 0)
  BY FreeIs DEF MkfsNode
<1>5. /\ LinkInv(fs.node, cwd, exiting, linking)
      /\ ProcInv(fs.node, cwd, exiting, closing, ofile)
      /\ FileInv(ftable, ofile, closing) /\ RefInv(fs, ftable, cwd, closing, linking)
  BY <1>1, <1>3, BootInv DEF Init
<1>6. leaked = Lost(fs)
  BY <1>1, <1>3, <1>4
<1> QED
  BY <1>2, <1>3, <1>5, <1>6 DEF FilesInv

\* What a crash finds on the disk is a tree with the inodes in memory, all of
\* them; between the halves of link() it has one link less.
LEMMA DiskIs ==
  ASSUME FilesInv, fs.bad = "none"
  PROVE  /\ Tree(Disk)
         /\ \A i \in Inum : /\ Disk[i].type = fs.node[i].type
                            /\ Disk[i].nlink = 0 <=> fs.node[i].nlink = 0
<1>1. CASE linking = NotLinking
  BY <1>1, Parts DEF Disk
<1>2. CASE linking # NotLinking
  <2>1. ExtraLink(linking.disk, fs.node, linking.ip) /\ Disk = linking.disk
    BY <1>2, LinkingReady DEF Disk
  <2> DEFINE ip == linking.ip
  <2>2. /\ fs.node[ip] = [type |-> "file", nlink |-> linking.disk[ip].nlink + 1, ents |-> NoEntry]
        /\ linking.disk[ip].nlink \in Int /\ \A j \in Inum : j # ip => fs.node[j] = linking.disk[j]
    BY <2>1, ExtraIs
  <2>3. Tree(linking.disk) /\ linking.disk[ip].type = "file" /\ linking.disk[ip].nlink > 0
    BY <2>1 DEF ExtraLink
  <2>4. fs.node[ip].type = "file" /\ fs.node[ip].nlink > 0
    BY <2>2, <2>3
  <2> QED
    BY <2>1, <2>2, <2>3, <2>4
<1> QED
  BY <1>1, <1>2

LEMMA CrashKept ==
  ASSUME FilesInv, Crash
  PROVE  FilesInv' /\ Moved
<1>1. /\ fs.bad = "none" /\ fs' = Booted(Disk) /\ exiting' = {} /\ linking' = NotLinking
      /\ leaked' = {i \in Inum : Disk[i].type # "free" /\ Disk[i].nlink = 0}
  BY DEF Crash
<1>2. Tree(Disk) /\ \A i \in Inum : Disk[i].type = fs.node[i].type
  BY <1>1, DiskIs
<1>3. Rest'
  <2>1. leaked' \subseteq Inum
    BY <1>1
  <2> QED
    BY <1>1, <2>1, BootRest DEF Crash, Rest
<1>4. Good(fs') /\ fs'.node = Disk /\ fs'.bad = "none" /\ leaked' = Lost(fs')
  <2>1. PICK k : k = fs'
    OBVIOUS
  <2>2. /\ Good(k) /\ k.node = Disk /\ k.bad = "none"
        /\ Lost(k) = {i \in Inum : Disk[i].type # "free" /\ Disk[i].nlink = 0}
    BY <1>1, <1>2, <2>1, BootedIs
  <2> QED
    BY <1>1, <2>1, <2>2
<1>5. /\ LinkInv(Disk, cwd', {}, NotLinking) /\ ProcInv(Disk, cwd', {}, closing', ofile')
      /\ FileInv(ftable', ofile', closing')
      /\ RefInv(fs', ftable', cwd', closing', NotLinking)
  BY <1>1, <1>2, BootInv DEF Crash
<1>6. FilesInv'
  BY <1>1, <1>3, <1>4, <1>5 DEF FilesInv
<1>7. Moved
  BY <1>2, <1>4 DEF Moved
<1> QED
  BY <1>6, <1>7

--------------------------------------------------------------------------------
(* The theorems.                                                             *)

LEMMA UseKeptOrPipe ==
  ASSUME FilesInv, NEW p \in Proc, MakePipe(p) \/ Dup(p) \/ Use(p) \/ Close(p) \/ ExitClose(p)
  PROVE  FilesInv' /\ Moved
  BY MakePipeKept, DupKept, UseKept, CloseKept

\* Every step keeps the invariant, and no inode in use changes its type.
LEMMA NextKept ==
  ASSUME ~RmCwd, FilesInv, [Next]_vars
  PROVE  FilesInv' /\ Moved
<1>1. CASE Crash
  BY <1>1, CrashKept
<1>2. ASSUME NEW p \in Proc, \/ Mkdir(p) \/ Unlink(p) \/ LinkBegin(p) \/ LinkEnd(p) \/ Chdir(p)
                             \/ Open(p) \/ MakePipe(p) \/ Dup(p) \/ Use(p) \/ Close(p)
                             \/ ClosePut(p) \/ Fork(p) \/ Exit(p) \/ ExitClose(p) \/ ExitCwd(p)
      PROVE  FilesInv' /\ Moved
  <2>1. CASE Mkdir(p)
    BY <2>1, MkdirKept
  <2>2. CASE Unlink(p)
    BY <2>2, UnlinkKept
  <2>3. CASE LinkBegin(p)
    BY <2>3, LinkBeginKept
  <2>4. CASE LinkEnd(p)
    BY <2>4, LinkEndKept
  <2>5. CASE Chdir(p)
    BY <2>5, ChdirKept
  <2>6. CASE Open(p)
    BY <2>6, OpenKept
  <2>7. CASE MakePipe(p) \/ Dup(p) \/ Use(p) \/ Close(p) \/ ExitClose(p)
    BY <2>7, UseKeptOrPipe
  <2>8. CASE ClosePut(p)
    BY <2>8, ClosePutKept
  <2>9. CASE Fork(p)
    BY <2>9, ForkKept
  <2>10. CASE Exit(p)
    BY <2>10, ExitKept
  <2>11. CASE ExitCwd(p)
    BY <2>11, ExitCwdKept
  <2> QED
    BY <1>2, <2>1, <2>2, <2>3, <2>4, <2>5, <2>6, <2>7, <2>8, <2>9, <2>10, <2>11
<1>3. CASE UNCHANGED vars
  BY <1>3 DEF vars, FilesInv, Rest, Moved
<1> QED
  BY <1>1, <1>2, <1>3 DEF Next

\* The invariant holds, whatever the processes do.
THEOREM FilesInvHolds == ASSUME ~RmCwd PROVE Spec => []FilesInv
<1>1. Init => FilesInv
  BY InitKept
<1>2. FilesInv /\ [Next]_vars => FilesInv'
  BY NextKept
<1> QED
  BY <1>1, <1>2, PTL DEF Spec

\* The users of an inode, now and after a step.
LEMMA UsersNow ==
  ASSUME FilesInv, fs.bad = "none", NEW i \in Inum
  PROVE  fs.ref[i] = Cardinality(Users(i)) /\ (fs.ref[i] = 0 <=> Users(i) = {})
<1>1. linking.p \in Proc /\ RefInv(fs, ftable, cwd, closing, linking)
  BY Parts DEF Rest
<1>2. Users(i) = UserSet(ftable, cwd, closing, linking, i)
  <2>1. Users(i) = UserTuples(ftable, cwd, closing, linking, i)
    BY DEF Users, UserTuples
  <2> QED
    BY <1>1, <2>1, UsersAre
<1>3. fs.ref[i] = Cardinality(UserSet(ftable, cwd, closing, linking, i))
  BY <1>1 DEF RefInv
<1> QED
  BY <1>2, <1>3, UserCount

LEMMA UsersThen ==
  ASSUME FilesInv', fs'.bad = "none", NEW i \in Inum, fs'.ref[i] = 0
  PROVE  Users(i)' = {}
<1>1. linking'.p \in Proc /\ RefInv(fs', ftable', cwd', closing', linking')
  BY DEF FilesInv, Rest
<1>2. Users(i)' = UserSet(ftable', cwd', closing', linking', i)
  <2>1. Users(i)' = UserTuples(ftable', cwd', closing', linking', i)
    BY DEF Users, UserTuples
  <2> QED
    BY <1>1, <2>1, UsersAre
<1>3. fs'.ref[i] = Cardinality(UserSet(ftable', cwd', closing', linking', i))
  BY <1>1 DEF RefInv
<1> QED
  BY <1>2, <1>3, UserCount

\* The type invariant.
THEOREM FilesTypesHold == ASSUME ~RmCwd PROVE Spec => []TypeOK
<1>1. FilesInv => TypeOK
  <2> SUFFICES ASSUME FilesInv PROVE TypeOK
    OBVIOUS
  <2>1. /\ Rest /\ fs \in FsType /\ \A i \in Inum : fs.ref[i] >= 0 /\ fs.node[i].nlink >= 0
    BY DEF FilesInv, Good, Alive, Halted, Stuck
  <2>2. fs.node \in Nodes /\ fs.ref \in [Inum -> Int] /\ fs.valid \in SUBSET Inum
    BY <2>1, FsIs
  <2> DEFINE N == [type : {"free", "file", "dir"}, nlink : Nat, ents : [Elem -> Inum \cup {0}]]
  <2>3. fs.node \in [Inum -> N]
    <3>1. ASSUME NEW i \in Inum PROVE fs.node[i] \in N
      <4> PICK n : n = fs.node[i]
        OBVIOUS
      <4>1. /\ n.type \in {"free", "file", "dir"} /\ n.nlink \in Int /\ n.nlink >= 0
            /\ n.ents \in [Elem -> Inum \cup {0}]
            /\ n = [type |-> n.type, nlink |-> n.nlink, ents |-> n.ents]
        BY <2>1, <2>2, NodeIs
      <4> QED
        BY <4>1
    <3> HIDE DEF N
    <3> QED
      BY <2>2, <3>1 DEF Nodes
  <2>4. fs.ref \in [Inum -> Nat]
    BY <2>1, <2>2
  <2> QED
    BY <2>1, <2>2, <2>3, <2>4 DEF TypeOK, Rest
<1> QED
  BY <1>1, FilesInvHolds, PTL

\* The reference counts of open files and of inodes are what refers to them:
\* filealloc(), filedup(), fileclose(), iget(), idup() and iput() count alike.
THEOREM CountsAreExact == ASSUME ~RmCwd PROVE Spec => []CountsExact
<1>1. FilesInv => CountsExact
  <2> SUFFICES ASSUME FilesInv, fs.bad = "none"
               PROVE  /\ \A f \in File : ftable[f].ref = Cardinality(Holders(f))
                      /\ \A i \in Inum : fs.ref[i] = Cardinality(Users(i))
    BY DEF CountsExact
  <2>1. \A f \in File : ftable[f].ref = Cardinality(Holders(f))
    BY Parts DEF FileInv, HolderSet, Holders
  <2> QED
    BY <2>1, UsersNow
<1> QED
  BY <1>1, FilesInvHolds, PTL

\* Inodes on the disk have the links that names make, and directories the
\* entries "." and ".." that fit, after a crash at any moment too.
THEOREM LinksAreExact == ASSUME ~RmCwd PROVE Spec => []LinksExact
<1>1. FilesInv => LinksExact
  <2> SUFFICES ASSUME FilesInv, fs.bad = "none", NEW i \in Inum
               PROVE  /\ Disk[i].nlink = Cardinality(Names(Disk, i)) + Cardinality(Children(Disk, i))
                                         + (IF i = Root THEN 1 ELSE 0)
                      /\ Disk[i].type = "dir" =>
                           /\ Disk[i].ents["."] = i
                           /\ \A n \in Names(Disk, i) : Disk[i].ents[".."] = n[1]
    BY DEF LinksExact
  <2>1. Counted(Disk) /\ Dotted(Disk) /\ Parents(Disk)
    BY DiskIs DEF Tree
  <2>2. Disk[i].nlink = Links(Disk, i)
    BY <2>1 DEF Counted
  <2>3. ASSUME Disk[i].type = "dir", NEW n \in Names(Disk, i) PROVE Disk[i].ents[".."] = n[1]
    <3>1. n[1] \in Inum /\ n[2] \in Name /\ Disk[n[1]].ents[n[2]] = i /\ i # 0
      BY Constants DEF Names
    <3> QED
      BY <2>1, <2>3, <3>1 DEF Parents
  <2>4. Disk[i].type = "dir" => Disk[i].ents["."] = i
    BY <2>1 DEF Dotted
  <2> QED
    BY <2>2, <2>3, <2>4 DEF Links
<1> QED
  BY <1>1, FilesInvHolds, PTL

\* Whatever the size of itable, iget() is the only function of these that can
\* panic, and it does so only in a call that began with at most one slot free:
\* no call needs more than two slots beside those in use before it.  (A panic
\* leaves the references as they were when the call began.)
THEOREM OnlyFullTablePanics ==
  ASSUME ~RmCwd
  PROVE  Spec => [](\/ NoPanic
                    \/ /\ fs.bad = "iget: no inodes"
                       /\ NINODE <= Cardinality({i \in Inum : fs.ref[i] > 0}) + 1)
<1>1. FilesInv => \/ NoPanic
                  \/ /\ fs.bad = "iget: no inodes"
                     /\ NINODE <= Cardinality({i \in Inum : fs.ref[i] > 0}) + 1
  BY DEF FilesInv, Halted, Crowded, Taken, NoPanic
<1> QED
  BY <1>1, FilesInvHolds, PTL

\* An allocated inode that nothing leads to and nothing uses is one that a
\* crash left.
THEOREM NothingElseIsLeaked == ASSUME ~RmCwd PROVE Spec => []NothingElseLeaks
<1>1. FilesInv => NothingElseLeaks
  <2> SUFFICES ASSUME FilesInv, fs.bad = "none"
               PROVE  {i \in Inum : /\ Disk[i].type # "free" /\ Disk[i].nlink = 0
                                    /\ Users(i) = {}} = leaked
    BY DEF NothingElseLeaks
  <2>1. leaked = Lost(fs)
    BY Parts
  <2>2. \A i \in Inum : /\ Disk[i].type = fs.node[i].type
                        /\ Disk[i].nlink = 0 <=> fs.node[i].nlink = 0
                        /\ fs.ref[i] = 0 <=> Users(i) = {}
    BY DiskIs, UsersNow
  <2> QED
    BY <2>1, <2>2 DEF Lost
<1> QED
  BY <1>1, FilesInvHolds, PTL

\* After a panic there is no step.
LEMMA NextRuns == Next => fs.bad = "none"
<1>1. Crash => fs.bad = "none"
  BY DEF Crash
<1>2. ASSUME NEW p \in Proc, \/ Mkdir(p) \/ Unlink(p) \/ LinkBegin(p) \/ LinkEnd(p) \/ Chdir(p)
                             \/ Open(p) \/ MakePipe(p) \/ Dup(p) \/ Use(p) \/ Close(p)
                             \/ ClosePut(p) \/ Fork(p) \/ Exit(p) \/ ExitClose(p) \/ ExitCwd(p)
      PROVE  fs.bad = "none"
  <2>1. Running(p) => fs.bad = "none"
    BY DEF Running
  <2>2. Admitted(p) => fs.bad = "none"
    BY <2>1 DEF Admitted
  <2>3. CASE Mkdir(p)
    BY <2>2, <2>3, Zenon DEF Mkdir, Transaction
  <2>4. CASE Unlink(p)
    BY <2>2, <2>4, Zenon DEF Unlink
  <2>5. CASE LinkBegin(p)
    BY <2>2, <2>5, Zenon DEF LinkBegin
  <2>6. CASE LinkEnd(p)
    BY <2>6, Zenon DEF LinkEnd
  <2>7. CASE Chdir(p)
    BY <2>2, <2>7, Zenon DEF Chdir
  <2>8. CASE Open(p)
    BY <2>2, <2>8, Zenon DEF Open
  <2>9. CASE MakePipe(p)
    BY <2>1, <2>9, Zenon DEF MakePipe
  <2>10. CASE Dup(p)
    BY <2>1, <2>10, Zenon DEF Dup
  <2>11. CASE Use(p)
    BY <2>1, <2>11, Zenon DEF Use
  <2>12. CASE Close(p)
    BY <2>1, <2>12, Zenon DEF Close, FileDrop
  <2>13. CASE ClosePut(p)
    BY <2>13, Zenon DEF ClosePut
  <2>14. CASE Fork(p)
    BY <2>1, <2>14, Zenon DEF Fork
  <2>15. CASE Exit(p)
    BY <2>1, <2>15, Zenon DEF Exit
  <2>16. CASE ExitClose(p)
    BY <2>1, <2>16, Zenon DEF ExitClose, FileDrop
  <2>17. CASE ExitCwd(p)
    BY <2>2, <2>17, Zenon DEF ExitCwd
  <2> QED
    BY <1>2, <2>3, <2>4, <2>5, <2>6, <2>7, <2>8, <2>9, <2>10, <2>11, <2>12, <2>13, <2>14, <2>15,
       <2>16, <2>17
<1> QED
  BY <1>1, <1>2 DEF Next

\* What uses an inode keeps it from being freed and from being given out.
THEOREM InUseIsKept == ASSUME ~RmCwd PROVE Spec => InUseKept
<1>1. FilesInv /\ [Next]_vars =>
        [\A i \in Inum : fs'.node[i].type # fs.node[i].type =>
           Users(i) \cap Users(i)' = {}]_vars
  <2> SUFFICES ASSUME FilesInv, Next, NEW i \in Inum, fs'.node[i].type # fs.node[i].type
               PROVE  Users(i) \cap Users(i)' = {}
    OBVIOUS
  <2>1. FilesInv' /\ Moved
    BY NextKept
  <2>2. fs.bad = "none"
    BY NextRuns
  <2>3. CASE fs.ref[i] = 0
    BY <2>2, <2>3, UsersNow
  <2>4. CASE fs'.bad = "none" /\ fs'.ref[i] = 0
    BY <2>1, <2>4, UsersThen
  <2> QED
    BY <2>1, <2>3, <2>4 DEF Moved
<1> QED
  BY <1>1, FilesInvHolds, PTL DEF Spec, InUseKept

================================================================================
