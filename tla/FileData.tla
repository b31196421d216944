-------------------------------- MODULE FileData -------------------------------
(* The contents of files: kernel/fs.c balloc(), bfree(), bmap(), itrunc(),   *)
(* readi(), writei(), and the loop of kernel/file.c filewrite() that writes  *)
(* piece after piece, each in a transaction of its own.  Between two pieces  *)
(* other processes use the same open file (its offset is shared after fork   *)
(* and dup), truncate it, or the machine restarts; within one, nobody does   *)
(* (LogProofs!OneOperationAtATime), so a piece is one action.  A block's     *)
(* data is one value; reads and writes are of whole blocks.                  *)
EXTENDS Naturals, FiniteSets, SequencesExt

CONSTANTS
  Inode, Block,         \* files; data blocks of the disk (positive numbers)
  OpenFile, inodeOf,    \* struct file's, and the inode of each
  Writer,               \* processes
  Val,                  \* what a block may hold (positive numbers)
  Image,                \* what mkfs may append: sequences of <<file, block>>
  NDIRECT, NINDIRECT,   \* fs.h
  MaxChunk,             \* filewrite()'s max, in blocks
  MaxWrite, valueOf     \* bounds: blocks of a write(), what a process writes

ASSUME FileDataAssumption ==
  /\ Block \subseteq Nat \ {0} /\ Block # {} /\ Val \subseteq Nat \ {0}
  /\ inodeOf \in [OpenFile -> Inode]
  /\ Image \subseteq Seq(Inode \X Val)
  /\ NDIRECT \in Nat /\ NINDIRECT \in Nat \ {0}
  /\ valueOf \in [Writer -> Val]
  /\ MaxChunk \in Nat \ {0} /\ MaxWrite \in Nat

VARIABLES
  disk,      \* bitmap, inodes and blocks, as the last transaction left them
  offset,    \* f->off
  writing    \* what each process has still to write, and where

dataVars == <<disk, offset, writing>>

MAXFILE == NDIRECT + NINDIRECT
NoBlocks == [n \in 0..NINDIRECT - 1 |-> 0]
Idle == [f |-> CHOOSE f \in OpenFile : TRUE, left |-> <<>>]
DPanic(k, why) == IF k.bad = "" THEN [k EXCEPT !.bad = why] ELSE k

\* balloc(), with bzero(): the first free block, or 0.  A block holds data or,
\* as an indirect block, block numbers (ind); zeroed it holds neither.
FreeBlocks(k) == Block \ k.used
FirstFree(k) == IF FreeBlocks(k) = {} THEN 0
                ELSE CHOOSE b \in FreeBlocks(k) : \A c \in FreeBlocks(k) : b <= c
Balloc(k, b) ==
  IF b = 0 THEN k
  ELSE [k EXCEPT !.used = @ \cup {b}, !.data[b] = 0, !.ind[b] = NoBlocks]

\* (The data of a free block is never read: 0.)
Bfree(k, b) == IF b = 0 THEN k
               ELSE IF b \notin k.used THEN DPanic(k, "freeing free block")
               ELSE [k EXCEPT !.used = @ \ {b}, !.data[b] = 0]

\* The address of block bn of inode i, 0 if none.
Addr(k, i, bn) ==
  IF bn < NDIRECT THEN k.addrs[i][bn]
  ELSE IF k.addrs[i][NDIRECT] = 0 THEN 0
  ELSE k.ind[k.addrs[i][NDIRECT]][bn - NDIRECT]

\* A new block b, if it is one, as address n of inode i, or as entry n of the
\* indirect block a.
PutAddr(k, i, n, b) == [Balloc(k, b) EXCEPT !.addrs[i][n] = b]
PutEntry(k, a, n, b) == [Balloc(k, b) EXCEPT !.ind[a][n] = b]
WithIndirect(k, i) == IF k.addrs[i][NDIRECT] = 0
                      THEN PutAddr(k, i, NDIRECT, FirstFree(k)) ELSE k

\* bmap(): the state after, in which Addr(k, i, bn) is what it returned.
Bmap(k, i, bn) ==
  LET k1 == WithIndirect(k, i)
      a == k1.addrs[i][NDIRECT]
  IN IF bn >= MAXFILE THEN DPanic(k, "bmap: out of range")
     ELSE IF Addr(k, i, bn) # 0 THEN k
     ELSE IF bn < NDIRECT THEN PutAddr(k, i, bn, FirstFree(k))
     ELSE IF a = 0 THEN k1
     ELSE PutEntry(k1, a, bn - NDIRECT, FirstFree(k1))

\* The places of a file that may hold a block: its MAXFILE addresses and, as
\* place MAXFILE, its indirect block.
Entry(k, i, n) == IF n < MAXFILE THEN Addr(k, i, n) ELSE k.addrs[i][NDIRECT]

\* The state after bfree() of the blocks of a sequence, one after the other.
Freed(k, list) ==
  LET after[n \in 0..Len(list)] ==
        IF n = 0 THEN k ELSE Bfree(after[n - 1], list[n])
  IN after[Len(list)]

Emptied(k, i) == [k EXCEPT !.addrs[i] = [n \in 0..NDIRECT |-> 0], !.size[i] = 0]
(* Slip: the indirect block and its blocks are forgotten. *)
ItruncDirect(k, i) ==
  Emptied(Freed(k, [n \in 1..NDIRECT |-> Entry(k, i, n - 1)]), i)
Itrunc(k, i) ==
  Emptied(Freed(k, [n \in 1..MAXFILE + 1 |-> Entry(k, i, n - 1)]), i)

\* The loop of writei() for one block, in state w = [k, off, go]; a copy from
\* user memory fails (val = 0) after bmap() has given the file its block.
WriteBlock(w, i, val) ==
  LET k == Bmap(w.k, i, w.off)
      a == Addr(k, i, w.off)
  IN IF ~w.go THEN w
     ELSE IF a = 0 \/ val = 0 THEN [w EXCEPT !.k = k, !.go = FALSE]
     ELSE [k |-> [k EXCEPT !.data[a] = val], off |-> w.off + 1, go |-> TRUE]

\* The loop over the blocks vals.
Written(k, i, off, vals) ==
  LET after[n \in 0..Len(vals)] ==
        IF n = 0 THEN [k |-> k, off |-> off, go |-> TRUE]
        ELSE WriteBlock(after[n - 1], i, vals[n])
  IN after[Len(vals)]

(* Slip: the size is set to the offset, though the file may be longer. *)
SizeSet(w, i, off) == [k |-> [w.k EXCEPT !.size[i] = w.off], r |-> w.off - off]
SizeGrown(w, i, off) ==
  [k |-> [w.k EXCEPT !.size[i] = IF w.off > @ THEN w.off ELSE @],
   r |-> w.off - off]
\* writei(): the state and the number of blocks written; 0 stands for an error
\* too, for filewrite() treats alike what is not n1.
Writei(k, i, off, vals) ==
  IF off > k.size[i] \/ off + Len(vals) > MAXFILE THEN [k |-> k, r |-> 0]
  ELSE SizeGrown(Written(k, i, off, vals), i, off)

--------------------------------------------------------------------------------
SetDisk(k) == disk' = IF k.bad = "" THEN k ELSE [disk EXCEPT !.bad = k.bad]

WriteBegin(p) ==
  /\ writing[p] = Idle
  /\ \E f \in OpenFile, n \in 1..MaxWrite :
       writing' = [writing EXCEPT
         ![p] = [f |-> f, left |-> [m \in 1..n |-> valueOf[p]]]]
  /\ UNCHANGED <<disk, offset>>

\* One turn of filewrite()'s loop: begin_op() ... end_op().  good: the blocks
\* that can be copied from user memory.
WriteChunk(p) ==
  LET f == writing[p].f
      left == writing[p].left
      n == IF Len(left) < MaxChunk THEN Len(left) ELSE MaxChunk
  IN /\ writing[p] # Idle /\ disk.bad = ""
     /\ \E good \in 0..n :
          LET vals == [m \in 1..n |-> IF m <= good THEN left[m] ELSE 0]
          IN \E w \in {Writei(disk, inodeOf[f], offset[f], vals)} :
               /\ SetDisk(w.k)
               /\ offset' = [offset EXCEPT ![f] = @ + w.r]
               /\ writing' = [writing EXCEPT ![p] =
                    IF w.r # n \/ n = Len(left) THEN Idle
                    ELSE [@ EXCEPT !.left = SubSeq(left, n + 1, Len(left))]]

\* fileread(): readi() stops at the end of the file, at a block that is not
\* there or at a fault; r # 0 blocks read.
ReadData(f) ==
  LET i == inodeOf[f]
  IN \E r \in 1..MAXFILE :
       /\ offset[f] + r <= disk.size[i]
       /\ \A n \in offset[f]..offset[f] + r - 1 : Addr(disk, i, n) # 0
       /\ offset' = [offset EXCEPT ![f] = @ + r]
       /\ UNCHANGED <<disk, writing>>

\* sys_open() with O_TRUNC, and iput() of an unlinked file.
Truncate(i) ==
  disk.bad = "" /\ SetDisk(Itrunc(disk, i)) /\ UNCHANGED <<offset, writing>>

\* The file is closed and opened again, by nobody who is writing it.
Rewind(f) ==
  /\ offset[f] # 0 /\ \A p \in Writer : writing[p] = Idle \/ writing[p].f # f
  /\ offset' = [offset EXCEPT ![f] = 0]
  /\ UNCHANGED <<disk, writing>>

\* The log keeps whole transactions (Log): pieces of a write, that is.
Restart == /\ offset' = [f \in OpenFile |-> 0]
           /\ writing' = [p \in Writer |-> Idle]
           /\ UNCHANGED disk

(* mkfs.c, which makes the image of the card, allocates blocks in its own way *)
(* and notes in the bitmap at the end which they were.                       *)
Formatted ==
  [used |-> {}, data |-> [b \in Block |-> 0],
   ind |-> [b \in Block |-> NoBlocks],
   addrs |-> [i \in Inode |-> [n \in 0..NDIRECT |-> 0]],
   size |-> [i \in Inode |-> 0], bad |-> ""]

\* iappend() of a block with contents val to file i; free: freeblock.
MkfsAppend(w, i, val) ==
  LET fbn == w.k.size[i]
      direct == fbn < NDIRECT
      new == ~direct /\ w.k.addrs[i][NDIRECT] = 0
      x == IF new THEN w.free + 1 ELSE w.free
      k1 == IF new THEN [w.k EXCEPT !.addrs[i][NDIRECT] = w.free] ELSE w.k
      k2 == IF direct THEN [k1 EXCEPT !.addrs[i][fbn] = x]
            ELSE [k1 EXCEPT !.ind[k1.addrs[i][NDIRECT]][fbn - NDIRECT] = x]
  IN [k |-> [k2 EXCEPT !.data[x] = val, !.size[i] = fbn + 1], free |-> x + 1]

FirstBlock == CHOOSE b \in Block : \A c \in Block : b <= c
MkfsAppended(image) ==
  LET after[n \in 0..Len(image)] ==
        IF n = 0 THEN [k |-> Formatted, free |-> FirstBlock]
        ELSE MkfsAppend(after[n - 1], image[n][1], image[n][2])
  IN after

\* balloc(), at the end.
Marked(w) == [w.k EXCEPT !.used = {b \in Block : b < w.free}]
MkfsDisk(image) == Marked(MkfsAppended(image)[Len(image)])

\* What mkfs can make an image of: no file is longer than it can be, which
\* iappend() asserts, and the files fit on the disk.
ASSUME MkfsAccepts ==
  \A image \in Image :
    \A n \in 0..Len(image) - 1 :
      LET w == MkfsAppended(image)[n]
      IN /\ w.k.size[image[n + 1][1]] < MAXFILE
         /\ w.free..MkfsAppended(image)[n + 1].free - 1 \subseteq Block

DataInit ==
  /\ disk \in {MkfsDisk(image) : image \in Image}
  /\ offset = [f \in OpenFile |-> 0]
  /\ writing = [p \in Writer |-> Idle]

DataNext ==
  \/ \E p \in Writer : WriteBegin(p) \/ WriteChunk(p)
  \/ \E f \in OpenFile : ReadData(f) \/ Rewind(f)
  \/ \E i \in Inode : Truncate(i)
  \/ Restart

DataSpec == DataInit /\ [][DataNext]_dataVars

--------------------------------------------------------------------------------
(* Properties.                                                               *)

DataTypeOK ==
  /\ disk.used \subseteq Block
  /\ disk.data \in [Block -> Val \cup {0}]
  /\ disk.ind \in [Block -> [0..NINDIRECT - 1 -> Block \cup {0}]]
  /\ disk.addrs \in [Inode -> [0..NDIRECT -> Block \cup {0}]]
  /\ disk.size \in [Inode -> 0..MAXFILE]
  /\ offset \in [OpenFile -> 0..MAXFILE]
  /\ \A p \in Writer : writing[p].left \in Seq(Val)

\* The places that hold block b.
Owners(b) ==
  {o \in Inode \X (0..MAXFILE) : Entry(disk, o[1], o[2]) = b}

(* The boot loader, boot/main.c, reads the kernel's file with its own code.  *)
\* getInode(): the inode and the indirect block, read whether there is one or
\* not (block 0 then, of which nothing is used).
GetInode(i) ==
  [addrs |-> disk.addrs[i],
   indirect |-> IF disk.addrs[i][NDIRECT] = 0 THEN NoBlocks
                ELSE disk.ind[disk.addrs[i][NDIRECT]]]
\* load(): the first n blocks of a file.
Load(file, n) ==
  [m \in 1..n |-> disk.data[IF m - 1 < NDIRECT THEN file.addrs[m - 1]
                            ELSE file.indirect[m - 1 - NDIRECT]]]

\* What a file holds, as its readers see it.
Content(k, i) == [n \in 1..k.size[i] |-> k.data[Addr(k, i, n - 1)]]

\* The bitmap and the inodes agree after every transaction, hence after every
\* crash: a block in use is in one place of one file, and no file holds a free
\* block, through failing allocations, faults in the middle of a write, and
\* truncation; freeing a free block, a panic, is unreachable.  Every block
\* below a file's size is there, from mkfs's image on, and is where the boot
\* loader looks for it.
BlocksOwnedOnce ==
  /\ \A b \in Block : Cardinality(Owners(b)) = (IF b \in disk.used THEN 1 ELSE 0)
  /\ disk.bad = ""
  /\ \A i \in Inode : /\ \A n \in 0..disk.size[i] - 1 : Addr(disk, i, n) # 0
                       /\ Load(GetInode(i), disk.size[i]) = Content(disk, i)

\* Files as ByteStore has them.
Store == INSTANCE ByteStore
  WITH content <- [i \in Inode |-> Content(disk, i)], pos <- offset

\* Through direct and indirect blocks, reuse of freed blocks, and interleaved
\* writes, a piece of a write() changes the blocks it is about and no others,
\* of its file or of another; nothing else changes what a file holds.
RefinesStore == Store!StoreSpec

================================================================================
