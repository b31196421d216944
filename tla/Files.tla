--------------------------------- MODULE Files ---------------------------------
(* Path names, directories, the inode table and the open-file table of xv6:  *)
(* kernel/fs.c (inode and directory part), kernel/file.c, kernel/sysfile.c,  *)
(* the descriptors in kernel/proc.c's fork() and exit().                     *)
(*                                                                           *)
(* LogProofs!OneOperationAtATime shows that begin_op() lets one operation in *)
(* at a time (LOGSIZE = MAXOPBLOCKS), so what a system call does between     *)
(* begin_op() and end_op() is one action, written as functions of the state  *)
(* fs of the file system that are composed in the order of the code's calls. *)
(* sys_link() alone is two actions, for it unlocks its inode in the middle.  *)
(* Steps of other processes interleave with the rest: fileclose() drops its  *)
(* reference, then waits for a transaction; exit() closes file after file.   *)
(* The contents of files are in FileData; here a directory has names only.   *)
EXTENDS Naturals, FiniteSets, SequencesExt

CONSTANTS
  Proc, InitProc,     \* processes; the one that never exits
  Inum, Root,         \* inode numbers of the disk (positive); the root's
  File,               \* slots of ftable.file (1..NFILE)
  Fd,                 \* descriptors of a process (1..NOFILE)
  Name,               \* names other than "." and ".."
  NINODE,             \* slots of itable.inode
  Path,               \* path names: absolute or not, and their elements
  RmCwd               \* may a directory be removed while it is a current one?

ASSUME FilesAssumption ==
  /\ Inum \subseteq Nat \ {0} /\ Root \in Inum /\ InitProc \in Proc
  /\ File \subseteq Nat \ {0} /\ Fd \subseteq Nat \ {0}
  /\ {".", ".."} \cap Name = {} /\ RmCwd \in BOOLEAN
  /\ NINODE \in Nat
  /\ \A path \in Path : /\ path.abs \in BOOLEAN
                        /\ path.elems \in Seq(Name \cup {".", ".."})
  /\ IsFiniteSet(Proc) /\ IsFiniteSet(Inum) /\ IsFiniteSet(Name)
  /\ IsFiniteSet(File) /\ IsFiniteSet(Fd)

VARIABLES
  fs,       \* inodes (node), their in-memory copies (ref, valid), panic (bad)
  ftable,   \* file.c: the open files
  ofile,    \* ofile[p][fd]: the open file of a descriptor, 0 if none
  cwd,      \* cwd[p]: the current directory, 0 if p does not exist
  closing,  \* fileclose() between ftable.lock and begin_op(): its copy ff
  exiting,  \* processes in exit()
  linking,  \* sys_link() between its two halves, and the disk it started from
  leaked    \* what a crash leaked: allocated inodes no name leads to

vars == <<fs, ftable, ofile, cwd, closing, exiting, linking, leaked>>

Elem == Name \cup {".", ".."}
NoFile == [ref |-> 0, type |-> "none", ip |-> 0]
NotClosing == [ip |-> 0, fd |-> 0]
NotLinking == [p |-> InitProc, ip |-> 0, disk |-> <<>>]
NoEntry == [e \in Elem |-> 0]
FreeNode == [type |-> "free", nlink |-> 0, ents |-> NoEntry]
(* Slip: create() links ".." to the new directory and "." to its parent. *)
NewDirSwapped(self, up) == [NoEntry EXCEPT !["."] = up, ![".."] = self]
NewDir(self, up) == [NoEntry EXCEPT !["."] = self, ![".."] = up]

Lowest(S) == CHOOSE x \in S : \A y \in S : x <= y
Least(S) == IF S = {} THEN 0 ELSE Lowest(S)

--------------------------------------------------------------------------------
(* fs.c: the inode table.                                                    *)

Panic(k, why) == IF k.bad = "none" THEN [k EXCEPT !.bad = why] ELSE k

Iget(k, i) ==
  IF k.ref[i] > 0 THEN [k EXCEPT !.ref[i] = @ + 1]
  ELSE IF Cardinality({j \in Inum : k.ref[j] > 0}) >= NINODE
  THEN Panic(k, "iget: no inodes")
  ELSE [k EXCEPT !.ref[i] = 1]

(* Slip: idup() does not count. *)
IdupUncounted(k, i) == k
Idup(k, i) == [k EXCEPT !.ref[i] = @ + 1]

Ilock(k, i) ==
  IF k.ref[i] < 1 THEN Panic(k, "ilock")
  ELSE IF i \notin k.valid /\ k.node[i].type = "free"
  THEN Panic(k, "ilock: no type")
  ELSE [k EXCEPT !.valid = @ \cup {i}]

(* Slip: iput() never frees; iput() frees whatever the other references.     *)
IputKeeps(k, i) ==
  [k EXCEPT !.ref[i] = @ - 1, !.valid = IF k.ref[i] = 1 THEN @ \ {i} ELSE @]
IputShared(k, i) ==
  IF i \in k.valid /\ k.node[i].nlink = 0
  THEN [k EXCEPT !.node[i] = FreeNode, !.valid = @ \ {i}, !.ref[i] = @ - 1]
  ELSE IputKeeps(k, i)
\* The last reference to an inode without links frees it.  The slot of an inode
\* without references is free: iget() will not look at its valid.
Iput(k, i) ==
  IF k.ref[i] = 1 /\ i \in k.valid /\ k.node[i].nlink = 0
  THEN [k EXCEPT !.node[i] = FreeNode, !.valid = @ \ {i}, !.ref[i] = 0]
  ELSE [k EXCEPT !.ref[i] = @ - 1,
                 !.valid = IF k.ref[i] = 1 THEN @ \ {i} ELSE @]

\* ialloc(): the first inode that is free on the disk, 0 if none.
Ialloc(k) == Least({i \in Inum : k.node[i].type = "free"})

\* A change of a field of a locked inode and its iupdate().
Iupdate(k, i, n) == [k EXCEPT !.node[i] = n]
(* Slip: the link is not counted. *)
AddLinksUncounted(k, i, d) == k
AddLinks(k, i, d) == Iupdate(k, i, [k.node[i] EXCEPT !.nlink = @ + d])
DropLink(k, i) == Iupdate(k, i, [k.node[i] EXCEPT !.nlink = @ - 1])
SetEntry(k, dp, name, i) ==
  Iupdate(k, dp, [k.node[dp] EXCEPT !.ents[name] = i])

\* dirlookup(), without its iget(): the inode a name stands for, 0 if none.
Dirlookup(k, dp, name) == k.node[dp].ents[name]

(* Path names.  A walk is the state and the inode it holds, 0 for none.      *)
At(k, i) == [k |-> k, ip |-> i]

\* The loop of namex() for an element that is not the parent's last one.
NamexStep(w, name) ==
  IF w.ip = 0 \/ w.k.bad # "none" THEN w
  ELSE LET k == Ilock(w.k, w.ip)
           next == IF k.node[w.ip].type = "dir"
                   THEN Dirlookup(k, w.ip, name) ELSE 0
       IN IF next = 0 THEN At(Iput(k, w.ip), 0)
          ELSE At(Iput(Iget(k, next), w.ip), next)

NamexStart(k, p, path) ==
  IF path.abs THEN At(Iget(k, Root), Root) ELSE At(Idup(k, cwd[p]), cwd[p])

\* The first n turns of the loop.
Namex(k, p, path, n) ==
  LET walk[m \in 0..n] == IF m = 0 THEN NamexStart(k, p, path)
                          ELSE NamexStep(walk[m - 1], path.elems[m])
  IN walk[n]

Namei(k, p, path) == Namex(k, p, path, Len(path.elems))

\* Where namex() stops for the parent: in a directory, or with nothing.
NamexParent(w) ==
  IF w.ip = 0 THEN w
  ELSE LET k == Ilock(w.k, w.ip)
       IN IF k.node[w.ip].type # "dir" THEN At(Iput(k, w.ip), 0)
          ELSE At(k, w.ip)
NamexNothing(w) == At(Iput(w.k, w.ip), 0)

Nameiparent(k, p, path) ==
  IF path.elems = <<>> THEN NamexNothing(NamexStart(k, p, path))
  ELSE NamexParent(Namex(k, p, path, Len(path.elems) - 1))

\* sysfile.c create(): the inode is returned locked, with a reference.
\* room: the directories find blocks for their new entries.  A device's inode
\* has the type "file" here: only open() tells them apart.
CreateIn(w, name, type, room) ==
  LET dp == w.ip
      k1 == Ilock(w.k, dp)
      old == Dirlookup(k1, dp, name)
      found == Ilock(Iput(Iget(k1, old), dp), old)
      ip == Ialloc(k1)
      new == [type |-> IF type = "dir" THEN type ELSE "file", nlink |-> 1,
              ents |-> IF type = "dir" THEN NewDir(ip, dp) ELSE NoEntry]
      made == Ilock(Iget(Iupdate(k1, ip, new), ip), ip)
      named == SetEntry(made, dp, name, ip)
  IN IF dp = 0 THEN w
     ELSE IF old # 0
     THEN IF type = "file" /\ found.node[old].type = "file"
          THEN At(found, old) ELSE At(Iput(found, old), 0)
     ELSE IF ip = 0 THEN At(Iput(k1, dp), 0)
     ELSE IF room
     THEN At(Iput(AddLinks(named, dp, IF type = "dir" THEN 1 ELSE 0), dp), ip)
     ELSE At(Iput(Iput(DropLink(made, ip), ip), dp), 0)

Create(k, p, path, type, room) ==
  CreateIn(Nameiparent(k, p, path), Last(path.elems), type, room)

--------------------------------------------------------------------------------
(* System calls.                                                             *)

\* p can take a step outside transactions ...
Running(p) == /\ fs.bad = "none" /\ cwd[p] # 0 /\ closing[p] = NotClosing
              /\ linking # NotLinking => linking.p # p
\* ... and begin_op() lets it start one.
Admitted(p) == Running(p) /\ linking = NotLinking
User(p) == p \notin exiting

\* A step that panics stops there.
SetFs(k) == fs' = IF k.bad = "none" THEN k ELSE [fs EXCEPT !.bad = k.bad]

\* begin_op(); ...; end_op() that changes the file system alone.
Transaction(p, k) ==
  /\ User(p) /\ Admitted(p) /\ SetFs(k)
  /\ UNCHANGED <<ftable, ofile, cwd, closing, exiting, linking, leaked>>

\* sys_mkdir(), sys_mknod(); and sys_open() with O_CREATE below.
PutInode(w) == IF w.ip = 0 THEN w.k ELSE Iput(w.k, w.ip)

Mkdir(p) == \E path \in Path, type \in {"dir", "dev"}, room \in BOOLEAN :
  Transaction(p, PutInode(Create(fs, p, path, type, room)))

IsDirEmpty(k, i) == \A e \in Name : k.node[i].ents[e] = 0

Unlink(p) ==
  /\ User(p) /\ Admitted(p)
  /\ \E path \in Path : \E w \in {Nameiparent(fs, p, path)} :
       LET dp == w.ip
           name == Last(path.elems)
           k1 == Ilock(w.k, dp)
           ip == Dirlookup(k1, dp, name)
           k2 == Ilock(Iget(k1, ip), ip)
           isdir == k2.node[ip].type = "dir"
           k3 == SetEntry(k2, dp, name, 0)
           k4 == Iput(IF isdir THEN DropLink(k3, dp) ELSE k3, dp)
           rmdir == dp # 0 /\ name \notin {".", ".."} /\ ip # 0 /\ isdir
       IN /\ RmCwd \/ ~(rmdir /\ \E q \in Proc : cwd[q] = ip)
          /\ Transaction(p,
               IF dp = 0 THEN w.k
               ELSE IF name \in {".", ".."} \/ ip = 0 THEN Iput(k1, dp)
               ELSE IF k2.node[ip].nlink < 1 THEN Panic(k2, "unlink: nlink < 1")
               ELSE IF isdir /\ ~IsDirEmpty(k2, ip) THEN Iput(Iput(k2, ip), dp)
               ELSE Iput(DropLink(k4, ip), ip))

\* sys_link() up to iunlock(ip): the link is counted before it is made.
LinkBegin(p) ==
  /\ User(p) /\ Admitted(p)
  /\ \E path \in Path : \E w \in {Namei(fs, p, path)} :
       LET k == Ilock(w.k, w.ip)
           isfile == w.ip # 0 /\ k.node[w.ip].type # "dir"
       IN /\ SetFs(IF w.ip = 0 THEN w.k
                   ELSE IF isfile THEN AddLinks(k, w.ip, 1) ELSE Iput(k, w.ip))
          /\ linking' = IF isfile THEN [p |-> p, ip |-> w.ip, disk |-> fs.node]
                        ELSE linking
          /\ UNCHANGED <<ftable, ofile, cwd, closing, exiting, leaked>>

LinkEnd(p) ==
  /\ linking.p = p /\ linking # NotLinking /\ fs.bad = "none"
  /\ \E path \in Path, room \in BOOLEAN : \E w \in {Nameiparent(fs, p, path)} :
       LET ip == linking.ip
           dp == w.ip
           name == Last(path.elems)
           k == Ilock(w.k, dp)
           old == Dirlookup(k, dp, name)
           undo(k1) == Iput(DropLink(Ilock(k1, ip), ip), ip)
       IN /\ SetFs(IF dp = 0 THEN undo(w.k)
                   ELSE IF old # 0 THEN undo(Iput(Iput(Iget(k, old), old), dp))
                   ELSE IF room THEN Iput(Iput(SetEntry(k, dp, name, ip), dp), ip)
                   ELSE undo(Iput(k, dp)))
          /\ linking' = NotLinking
          /\ UNCHANGED <<ftable, ofile, cwd, closing, exiting, leaked>>

Chdir(p) ==
  /\ User(p) /\ Admitted(p)
  /\ \E path \in Path : \E w \in {Namei(fs, p, path)} :
       LET k == Ilock(w.k, w.ip)
           isdir == w.ip # 0 /\ k.node[w.ip].type = "dir"
       IN /\ SetFs(IF w.ip = 0 THEN w.k ELSE Iput(k, IF isdir THEN cwd[p] ELSE w.ip))
          /\ cwd' = IF isdir THEN [cwd EXCEPT ![p] = w.ip] ELSE cwd
          /\ UNCHANGED <<ftable, ofile, closing, exiting, linking, leaked>>

(* Descriptors.                                                              *)
FreeFiles == {f \in File : ftable[f].ref = 0}
FreeFds(p) == {d \in Fd : ofile[p][d] = 0}
FileAlloc == Least(FreeFiles)
FdAlloc(p) == Least(FreeFds(p))

\* fine: directories find blocks for a new entry; an inode found is no device
\* or has a major number below NDEV.
OpenInode(p, w, mode, fine) ==
  LET k == IF w.ip = 0 THEN w.k ELSE Ilock(w.k, w.ip)
      type == k.node[w.ip].type
      good == /\ w.ip # 0
              /\ type = "dir" => mode = "r"
              /\ type = "file" => fine
              /\ FreeFiles # {} /\ FreeFds(p) # {}
      f == FileAlloc
  IN /\ SetFs(IF w.ip = 0 \/ good THEN k ELSE Iput(k, w.ip))
     /\ ftable' = IF good
                  THEN [ftable EXCEPT
                        ![f] = [ref |-> 1, type |-> "inode", ip |-> w.ip]]
                  ELSE ftable
     /\ ofile' = IF good THEN [ofile EXCEPT ![p][FdAlloc(p)] = f] ELSE ofile
     /\ UNCHANGED <<cwd, closing, exiting, linking, leaked>>

Open(p) ==
  /\ User(p) /\ Admitted(p)
  /\ \E path \in Path, fine \in BOOLEAN :
       \/ OpenInode(p, Create(fs, p, path, "file", fine), "create", fine)
       \/ \E mode \in {"r", "w"} : OpenInode(p, Namei(fs, p, path), mode, fine)

\* sys_pipe(); memory: pipealloc()'s kalloc() and the copyout()s succeed.
\* On any failure both files are closed again.
MakePipe(p) == \E memory \in BOOLEAN :
  LET f == FileAlloc
      g == Lowest(FreeFiles \ {f})
      d == FdAlloc(p)
      e == Lowest(FreeFds(p) \ {d})
      end == [ref |-> 1, type |-> "pipe", ip |-> 0]
  IN /\ User(p) /\ Running(p)
     /\ IF memory /\ Cardinality(FreeFiles) > 1 /\ Cardinality(FreeFds(p)) > 1
        THEN /\ ftable' = [ftable EXCEPT ![f] = end, ![g] = end]
             /\ ofile' = [ofile EXCEPT ![p][d] = f, ![p][e] = g]
        ELSE UNCHANGED <<ftable, ofile>>
     /\ UNCHANGED <<fs, cwd, closing, exiting, linking, leaked>>

(* Slip: filedup() does not count. *)
FileDupUncounted(t, f) == t
FileDup(t, f) == [t EXCEPT ![f].ref = @ + 1]

Dup(p) == \E d \in Fd :
  /\ User(p) /\ Running(p) /\ ofile[p][d] # 0 /\ FreeFds(p) # {}
  /\ ofile' = [ofile EXCEPT ![p][FdAlloc(p)] = ofile[p][d]]
  /\ ftable' = FileDup(ftable, ofile[p][d])
  /\ UNCHANGED <<fs, cwd, closing, exiting, linking, leaked>>

\* fileread(), filewrite(): what they do with a file apart from its contents.
FileRead(k, f) ==
  IF f.type = "inode" THEN Ilock(k, f.ip)
  ELSE IF f.type = "none" THEN Panic(k, "fileread") ELSE k

\* sys_read(), sys_write(), sys_fstat().
Use(p) == \E d \in Fd :
  /\ User(p) /\ Running(p) /\ ofile[p][d] # 0
  /\ SetFs(FileRead(fs, ftable[ofile[p][d]]))
  /\ UNCHANGED <<ftable, ofile, cwd, closing, exiting, linking, leaked>>

\* fileclose() of descriptor d under ftable.lock.  The last reference to an
\* inode leaves its copy in closing; then: the descriptor is still to clear.
FileDrop(p, d, then) ==
  LET f == ofile[p][d]
      last == ftable[f].ref = 1
  IN /\ Running(p) /\ f # 0
     /\ ftable' = IF last THEN [ftable EXCEPT ![f] = NoFile]
                  ELSE [ftable EXCEPT ![f].ref = @ - 1]
     /\ IF last /\ ftable[f].type = "inode"
        THEN /\ closing' = [closing EXCEPT
                            ![p] = [ip |-> ftable[f].ip, fd |-> then]]
             /\ ofile' = [ofile EXCEPT ![p][d] = IF then = 0 THEN 0 ELSE f]
        ELSE /\ ofile' = [ofile EXCEPT ![p][d] = 0]
             /\ UNCHANGED closing
     /\ UNCHANGED <<fs, cwd, exiting, linking, leaked>>

\* sys_close() clears the descriptor first, exit() afterwards.
Close(p) == \E d \in Fd : User(p) /\ FileDrop(p, d, 0)
ExitClose(p) ==
  /\ p \in exiting /\ FreeFds(p) # Fd
  /\ FileDrop(p, Least(Fd \ FreeFds(p)), Least(Fd \ FreeFds(p)))

\* The rest of fileclose(): the transaction that puts the inode.
ClosePut(p) ==
  /\ fs.bad = "none" /\ closing[p] # NotClosing /\ linking = NotLinking
  /\ SetFs(Iput(fs, closing[p].ip))
  /\ ofile' = [ofile EXCEPT
        ![p] = [d \in Fd |-> IF d = closing[p].fd THEN 0 ELSE @[d]]]
  /\ closing' = [closing EXCEPT ![p] = NotClosing]
  /\ UNCHANGED <<ftable, cwd, exiting, linking, leaked>>

Fork(p) == \E q \in Proc :
  /\ User(p) /\ Running(p) /\ cwd[q] = 0
  /\ ofile' = [ofile EXCEPT ![q] = ofile[p]]
  /\ ftable' = [f \in File |->
       [ftable[f] EXCEPT !.ref = @ + Cardinality({d \in Fd : ofile[p][d] = f})]]
  /\ cwd' = [cwd EXCEPT ![q] = cwd[p]]
  /\ fs' = Idup(fs, cwd[p])
  /\ UNCHANGED <<closing, exiting, linking, leaked>>

Exit(p) ==
  /\ User(p) /\ Running(p) /\ p # InitProc
  /\ exiting' = exiting \cup {p}
  /\ UNCHANGED <<fs, ftable, ofile, cwd, closing, linking, leaked>>

ExitCwd(p) ==
  /\ p \in exiting /\ Admitted(p) /\ FreeFds(p) = Fd
  /\ SetFs(Iput(fs, cwd[p]))
  /\ cwd' = [cwd EXCEPT ![p] = 0]
  /\ exiting' = exiting \ {p}
  /\ UNCHANGED <<ftable, ofile, closing, linking, leaked>>

\* What the log has made durable: the last end_op()'s inodes.
Disk == IF linking = NotLinking THEN fs.node ELSE linking.disk

Booted(node) ==
  [node |-> node, ref |-> [i \in Inum |-> IF i = Root THEN 1 ELSE 0],
   valid |-> {}, bad |-> "none"]

Crash ==
  /\ fs.bad = "none"
  /\ fs' = Booted(Disk)
  /\ ftable' = [f \in File |-> NoFile]
  /\ ofile' = [p \in Proc |-> [d \in Fd |-> 0]]
  /\ cwd' = [p \in Proc |-> IF p = InitProc THEN Root ELSE 0]
  /\ closing' = [p \in Proc |-> NotClosing]
  /\ exiting' = {} /\ linking' = NotLinking
  /\ leaked' = {i \in Inum : Disk[i].type # "free" /\ Disk[i].nlink = 0}

\* mkfs: a root directory, its own parent.
MkfsNode == [i \in Inum |-> IF i = Root
  THEN [type |-> "dir", nlink |-> 1, ents |-> NewDir(Root, Root)] ELSE FreeNode]

Init ==
  /\ fs = Booted(MkfsNode)
  /\ ftable = [f \in File |-> NoFile]
  /\ ofile = [p \in Proc |-> [d \in Fd |-> 0]]
  /\ cwd = [p \in Proc |-> IF p = InitProc THEN Root ELSE 0]
  /\ closing = [p \in Proc |-> NotClosing]
  /\ exiting = {} /\ linking = NotLinking /\ leaked = {}

Next ==
  \/ Crash
  \/ \E p \in Proc :
       \/ Mkdir(p) \/ Unlink(p) \/ LinkBegin(p) \/ LinkEnd(p) \/ Chdir(p)
       \/ Open(p) \/ MakePipe(p) \/ Dup(p) \/ Use(p) \/ Close(p)
       \/ ClosePut(p) \/ Fork(p) \/ Exit(p) \/ ExitClose(p) \/ ExitCwd(p)

Spec == Init /\ [][Next]_vars

--------------------------------------------------------------------------------
(* Properties.                                                               *)

TypeOK ==
  /\ fs.node \in [Inum -> [type : {"free", "file", "dir"}, nlink : Nat,
                           ents : [Elem -> Inum \cup {0}]]]
  /\ fs.ref \in [Inum -> Nat] /\ fs.valid \subseteq Inum
  /\ ftable \in [File -> [ref : Nat, type : {"none", "inode", "pipe"},
                          ip : Inum \cup {0}]]
  /\ ofile \in [Proc -> [Fd -> File \cup {0}]]
  /\ cwd \in [Proc -> Inum \cup {0}]
  /\ closing \in [Proc -> [ip : Inum \cup {0}, fd : Fd \cup {0}]]
  /\ exiting \subseteq Proc /\ leaked \subseteq Inum
  /\ linking.p \in Proc /\ linking.ip \in Inum \cup {0}

\* The descriptors that hold a reference to file f: all that name it but the
\* one exit() has yet to clear.
Holders(f) == {h \in Proc \X Fd :
                 ofile[h[1]][h[2]] = f /\ h[2] # closing[h[1]].fd}
\* What holds references to inode i.
Users(i) == {<<"file", f>> : f \in {g \in File : ftable[g].ref > 0
                                               /\ ftable[g].ip = i}}
       \cup {<<"cwd", p>> : p \in {q \in Proc : cwd[q] = i}}
       \cup {<<"closing", p>> : p \in {q \in Proc : closing[q].ip = i}}
       \cup (IF linking.ip = i THEN {<<"linking", linking.p>>} ELSE {})

\* The counts that decide when a file or an inode may be recycled are exact:
\* a file's is the number of descriptors, an inode's is the number of open
\* files, current directories and calls in progress that point to it.
CountsExact == fs.bad = "none" =>
  /\ \A f \in File : ftable[f].ref = Cardinality(Holders(f))
  /\ \A i \in Inum : fs.ref[i] = Cardinality(Users(i))

\* The names that lead to inode i, and those in it that lead to directories.
Names(node, i) == {n \in Inum \X Name : node[n[1]].ents[n[2]] = i}
Children(node, i) ==
  {e \in Name : node[i].ents[e] # 0 /\ node[node[i].ents[e]].type = "dir"}

\* The tree on the disk, after every crash too: an inode has as many links as
\* names lead to it plus, for a directory, one for each child's "..", and a
\* child's ".." is the directory that names it.  So no name leads to a free
\* inode.
LinksExact == fs.bad = "none" =>
  \A i \in Inum :
    /\ Disk[i].nlink = Cardinality(Names(Disk, i)) + Cardinality(Children(Disk, i))
                       + (IF i = Root THEN 1 ELSE 0)
    /\ Disk[i].type = "dir" =>
         /\ Disk[i].ents["."] = i
         /\ \A n \in Names(Disk, i) : Disk[i].ents[".."] = n[1]

\* No sequence of system calls reaches one of the panics of ilock(), fileread()
\* or sys_unlink(); nor that of iget(), if there is a slot for every inode.  When
\* iget() panics with fewer slots is FilesProofs!OnlyFullTablePanics.
NoPanic == fs.bad = "none"

\* An allocated inode without a name is in use, unless a crash left it: what
\* unlinks the last name, or fails half-way, leaves nothing behind.
NothingElseLeaks == fs.bad = "none" =>
  {i \in Inum : Disk[i].type # "free" /\ Disk[i].nlink = 0 /\ Users(i) = {}}
    = leaked

\* An inode is neither freed nor given out again while an open file, a current
\* directory or a call in progress points to it.
InUseKept ==
  [][\A i \in Inum : fs'.node[i].type # fs.node[i].type =>
       Users(i) \cap Users(i)' = {}]_vars

================================================================================
