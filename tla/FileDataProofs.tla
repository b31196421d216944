---------------------------- MODULE FileDataProofs ----------------------------
(***************************************************************************)
(* Proofs about the contents of files for any number of inodes, blocks,     *)
(* processes and open files and any NDIRECT and NINDIRECT: after mkfs and   *)
(* after every transaction a block in use is in one place of one file; and *)
(* files are the byte stores of ByteStore.  The loops of the code are      *)
(* recursive functions in the model, which Iteration turns into functions  *)
(* with a type and Steps into facts about their last value.                *)
(***************************************************************************)
EXTENDS FileData, FiniteSetTheorems, WellFoundedInduction, TLAPS

--------------------------------------------------------------------------------
(* Induction and recursion over the natural numbers.                         *)

\* A set of natural numbers that is not empty has a least element.
LEMMA LeastOf ==
  ASSUME NEW T \in SUBSET Nat, T # {}
  PROVE  \E x \in T : \A y \in T : x <= y
<1>1. \E x \in T : \A y \in T : ~(<<y, x>> \in OpToRel(<, Nat))
  BY NatLessThanWellFounded, WFMin
<1>2. PICK x \in T : \A y \in T : ~(<<y, x>> \in OpToRel(<, Nat))
  BY <1>1
<1>3. \A y \in T : ~(y < x)
  BY <1>2 DEF OpToRel
<1>4. x \in Nat /\ \A y \in T : y \in Nat /\ (~(y < x) => x <= y)
  OBVIOUS
<1> QED
  BY <1>2, <1>3, <1>4

\* Induction, with the formula as a set of numbers.
LEMMA Induction ==
  ASSUME NEW S, 0 \in S, \A n \in Nat : n \in S => n + 1 \in S
  PROVE  Nat \subseteq S
<1> DEFINE T == Nat \ S
<1>1. SUFFICES ASSUME T # {} PROVE FALSE
  OBVIOUS
<1>2. PICK x \in T : \A y \in T : x <= y
  BY <1>1, LeastOf
<1>3. x \in Nat \ {0} /\ x - 1 \in Nat /\ x - 1 \notin T
  BY <1>2
<1> QED
  BY <1>2, <1>3

\* What every step of a run keeps holds at each point of it.
LEMMA Steps ==
  ASSUME NEW N \in Nat, NEW P, NEW f, f[0] \in P[0],
         \A n \in 1..N : f[n - 1] \in P[n - 1] => f[n] \in P[n]
  PROVE  \A n \in 0..N : f[n] \in P[n]
<1> DEFINE T == {n \in Nat : n <= N => f[n] \in P[n]}
<1>1. 0 \in T
  OBVIOUS
<1>2. ASSUME NEW n \in Nat, n \in T PROVE n + 1 \in T
  <2> SUFFICES ASSUME n + 1 <= N PROVE f[n + 1] \in P[n + 1]
    OBVIOUS
  <2>1. n + 1 \in 1..N /\ (n + 1) - 1 = n /\ f[n] \in P[n]
    BY <1>2
  <2>2. f[(n + 1) - 1] \in P[(n + 1) - 1] => f[n + 1] \in P[n + 1]
    BY <2>1
  <2> QED
    BY <2>1, <2>2
<1>3. Nat \subseteq T
  <2> HIDE DEF T
  <2> QED BY <1>1, <1>2, Induction
<1> QED
  BY <1>3

\* g has the states of S that the functions d lead to from x, one by one.
IsRun(g, S, x, N, d) ==
  g \in [0..N -> S] /\ g[0] = x /\ \A n \in 1..N : g[n] = d[n][g[n - 1]]
Transitions(S, N) == [1..N -> [S -> S]]

\* A loop of N steps has a run, so a recursive function of FileData a value.
LEMMA Iteration ==
  ASSUME NEW S, NEW x \in S, NEW N \in Nat, NEW d \in Transitions(S, N)
  PROVE  \E g : IsRun(g, S, x, N, d)
<1>0. d \in [1..N -> [S -> S]]
  BY DEF Transitions
<1> DEFINE Good(m) == m <= N => \E g \in [0..m -> S] :
                        g[0] = x /\ \A n \in 1..m : g[n] = d[n][g[n - 1]]
           T == {m \in Nat : Good(m)}
<1>1. 0 \in T
  <2>1. /\ [n \in 0..0 |-> x] \in [0..0 -> S] /\ [n \in 0..0 |-> x][0] = x
        /\ 1..0 = {}
    OBVIOUS
  <2> QED
    BY <2>1
<1>2. ASSUME NEW m \in Nat, m \in T PROVE m + 1 \in T
  <2> SUFFICES ASSUME m + 1 <= N
               PROVE  \E g \in [0..m + 1 -> S] :
                        g[0] = x /\ \A n \in 1..m + 1 : g[n] = d[n][g[n - 1]]
    OBVIOUS
  <2>1. PICK g \in [0..m -> S] : g[0] = x /\ \A n \in 1..m : g[n] = d[n][g[n - 1]]
    BY <1>2
  <2> DEFINE h == [n \in 0..m + 1 |-> IF n = m + 1 THEN d[n][g[m]] ELSE g[n]]
  <2>2. h \in [0..m + 1 -> S]
    BY <1>0, <2>1
  <2>3. h[0] = x
    BY <2>1
  <2>4. ASSUME NEW n \in 1..m + 1 PROVE h[n] = d[n][h[n - 1]]
    BY <2>1
  <2> QED
    BY <2>2, <2>3, <2>4
<1>3. Nat \subseteq T
  <2> HIDE DEF T
  <2> QED BY <1>1, <1>2, Induction
<1>4. N <= N => \E g \in [0..N -> S] : g[0] = x /\ \A n \in 1..N : g[n] = d[n][g[n - 1]]
  BY <1>3
<1>5. PICK g \in [0..N -> S] : g[0] = x /\ \A n \in 1..N : g[n] = d[n][g[n - 1]]
  BY <1>4
<1> QED
  BY <1>5 DEF IsRun

--------------------------------------------------------------------------------
(* The disk: its types, and the places of blocks.                            *)

Disks ==
  [used : SUBSET Block, data : [Block -> Val \cup {0}],
   ind : [Block -> [0..NINDIRECT - 1 -> Block \cup {0}]],
   addrs : [Inode -> [0..NDIRECT -> Block \cup {0}]],
   size : [Inode -> 0..MAXFILE],
   bad : {"", "bmap: out of range", "freeing free block"}]

\* Functions that agree everywhere are equal.
LEMMA SameFunction ==
  ASSUME NEW D, NEW R, NEW f \in [D -> R], NEW g \in [D -> R], \A x \in D : f[x] = g[x]
  PROVE  f = g
<1>1. f = [x \in D |-> f[x]] /\ g = [x \in D |-> g[x]]
  OBVIOUS
<1> QED
  BY <1>1

\* A record with the fields of a disk, each of its type, is a disk.
LEMMA DiskMade ==
  ASSUME NEW r, r.used \in SUBSET Block, r.data \in [Block -> Val \cup {0}],
         r.ind \in [Block -> [0..NINDIRECT - 1 -> Block \cup {0}]],
         r.addrs \in [Inode -> [0..NDIRECT -> Block \cup {0}]],
         r.size \in [Inode -> 0..MAXFILE],
         r.bad \in {"", "bmap: out of range", "freeing free block"},
         r = [used |-> r.used, data |-> r.data, ind |-> r.ind, addrs |-> r.addrs,
              size |-> r.size, bad |-> r.bad]
  PROVE  r \in Disks
  BY DEF Disks

\* The fields of a disk, each of its type.
LEMMA DiskFields ==
  ASSUME NEW k \in Disks
  PROVE  /\ k.used \in SUBSET Block /\ k.data \in [Block -> Val \cup {0}]
         /\ k.ind \in [Block -> [0..NINDIRECT - 1 -> Block \cup {0}]]
         /\ k.addrs \in [Inode -> [0..NDIRECT -> Block \cup {0}]]
         /\ k.size \in [Inode -> 0..MAXFILE]
         /\ k.bad \in {"", "bmap: out of range", "freeing free block"}
         /\ k = [used |-> k.used, data |-> k.data, ind |-> k.ind, addrs |-> k.addrs,
                 size |-> k.size, bad |-> k.bad]
  BY DEF Disks

\* A block in use is in one place, and only blocks in use are.
Owned(k) ==
  /\ \A i \in Inode, n \in 0..MAXFILE : Entry(k, i, n) # 0 => Entry(k, i, n) \in k.used
  /\ \A i, j \in Inode, n, m \in 0..MAXFILE :
       Entry(k, i, n) # 0 /\ Entry(k, i, n) = Entry(k, j, m) => i = j /\ n = m
  /\ \A b \in k.used : \E i \in Inode, n \in 0..MAXFILE : Entry(k, i, n) = b

\* Every block below a file's size is there.
Filled(k) == \A i \in Inode : \A n \in 0..k.size[i] - 1 : Entry(k, i, n) # 0

Sound(k) == k \in Disks /\ k.bad = "" /\ Owned(k)

\* The constants, as arithmetic needs them.
LEMMA Sizes ==
  /\ NDIRECT \in Nat /\ NINDIRECT \in Nat /\ NINDIRECT > 0
  /\ MAXFILE \in Nat /\ MAXFILE = NDIRECT + NINDIRECT /\ MAXFILE > NDIRECT
  /\ 0 \notin Block /\ 0 \notin Val /\ Block \subseteq Nat
  BY FileDataAssumption DEF MAXFILE

\* Where each place of a file is kept.
LEMMA EntryIs ==
  ASSUME NEW k \in Disks, NEW i \in Inode, NEW n \in 0..MAXFILE
  PROVE  /\ Entry(k, i, n) \in Block \cup {0}
         /\ n < NDIRECT => Entry(k, i, n) = k.addrs[i][n]
         /\ n = MAXFILE => Entry(k, i, n) = k.addrs[i][NDIRECT]
         /\ n >= NDIRECT /\ n < MAXFILE =>
              /\ n - NDIRECT \in 0..NINDIRECT - 1
              /\ Entry(k, i, MAXFILE) = 0 => Entry(k, i, n) = 0
              /\ Entry(k, i, MAXFILE) # 0 =>
                   Entry(k, i, n) = k.ind[Entry(k, i, MAXFILE)][n - NDIRECT]
<1> DEFINE a == k.addrs[i][NDIRECT]
<1>1. /\ k.addrs[i] \in [0..NDIRECT -> Block \cup {0}]
      /\ \A c \in Block : k.ind[c] \in [0..NINDIRECT - 1 -> Block \cup {0}]
  BY DEF Disks
<1>2. Entry(k, i, MAXFILE) = a /\ a \in Block \cup {0}
  BY <1>1, Sizes DEF Entry
<1>3. CASE n < NDIRECT
  BY <1>1, <1>3, Sizes DEF Entry, Addr
<1>4. CASE n = MAXFILE
  BY <1>2, <1>4, Sizes
<1>5. CASE n >= NDIRECT /\ n < MAXFILE
  <2>1. n - NDIRECT \in 0..NINDIRECT - 1
    BY <1>5, Sizes
  <2>2. Entry(k, i, n) = IF a = 0 THEN 0 ELSE k.ind[a][n - NDIRECT]
    BY <1>5, Sizes DEF Entry, Addr
  <2>3. a # 0 => k.ind[a][n - NDIRECT] \in Block \cup {0}
    BY <1>1, <1>2, <2>1
  <2> QED
    BY <1>2, <1>5, <2>1, <2>2, <2>3, Sizes
<1> QED
  BY <1>3, <1>4, <1>5, Sizes

\* A block that a file holds is in use, and in no other place.
LEMMA OwnedIs ==
  ASSUME NEW k, Sound(k), NEW i \in Inode, NEW n \in 0..MAXFILE, Entry(k, i, n) # 0
  PROVE  /\ Entry(k, i, n) \in k.used /\ Entry(k, i, n) \in Block
         /\ \A j \in Inode, m \in 0..MAXFILE :
              Entry(k, j, m) = Entry(k, i, n) => j = i /\ m = n
<1>1. /\ \A p \in Inode, x \in 0..MAXFILE : Entry(k, p, x) # 0 => Entry(k, p, x) \in k.used
      /\ \A p, q \in Inode, x, y \in 0..MAXFILE :
           Entry(k, p, x) # 0 /\ Entry(k, p, x) = Entry(k, q, y) => p = q /\ x = y
  BY DEF Sound, Owned
<1>2. k.used \subseteq Block
  BY DEF Sound, Disks
<1> QED
  BY <1>1, <1>2

\* The block balloc() finds is free.
LEMMA FirstFreeIs ==
  ASSUME NEW k \in Disks
  PROVE  FirstFree(k) # 0 => FirstFree(k) \in Block \ k.used
<1>1. CASE FreeBlocks(k) = {}
  BY <1>1 DEF FirstFree
<1>2. CASE FreeBlocks(k) # {}
  <2>1. FreeBlocks(k) \in SUBSET Nat
    BY FileDataAssumption DEF FreeBlocks
  <2>2. \E b \in FreeBlocks(k) : \A c \in FreeBlocks(k) : b <= c
    BY <1>2, <2>1, LeastOf
  <2> QED
    BY <1>2, <2>2 DEF FirstFree, FreeBlocks
<1> QED
  BY <1>1, <1>2

--------------------------------------------------------------------------------
(* balloc() and bmap().                                                      *)

\* r is k with block b put into the empty place n0 of file i0.
PutIn(k, r, i0, n0, b) ==
  /\ b \in Block \ k.used /\ Entry(k, i0, n0) = 0
  /\ r.used = k.used \cup {b}
  /\ \A j \in Inode, m \in 0..MAXFILE :
       Entry(r, j, m) = IF j = i0 /\ m = n0 THEN b ELSE Entry(k, j, m)

\* A free block put into an empty place leaves bitmap and inodes in agreement.
LEMMA PutInOwned ==
  ASSUME NEW k \in Disks, Owned(k), NEW r, NEW i0 \in Inode, NEW n0 \in 0..MAXFILE,
         NEW b, PutIn(k, r, i0, n0, b)
  PROVE  Owned(r)
<1>0. b # 0 /\ b \in Block /\ b \notin k.used
  BY Sizes DEF PutIn
<1>1. ASSUME NEW i \in Inode, NEW n \in 0..MAXFILE, Entry(r, i, n) # 0
      PROVE  Entry(r, i, n) \in r.used
  BY <1>1 DEF PutIn, Owned
<1>2. ASSUME NEW i \in Inode, NEW j \in Inode, NEW n \in 0..MAXFILE, NEW m \in 0..MAXFILE,
             Entry(r, i, n) # 0, Entry(r, i, n) = Entry(r, j, m)
      PROVE  i = j /\ n = m
  BY <1>0, <1>2 DEF PutIn, Owned
<1>3. ASSUME NEW c \in r.used
      PROVE  \E i \in Inode, n \in 0..MAXFILE : Entry(r, i, n) = c
  <2>1. CASE c = b
    BY <2>1 DEF PutIn
  <2>2. CASE c # b
    <3>1. c \in k.used
      BY <2>2 DEF PutIn
    <3>2. PICK i \in Inode, n \in 0..MAXFILE : Entry(k, i, n) = c
      BY <3>1 DEF Owned
    <3>3. c # 0
      BY <3>1, Sizes DEF Disks
    <3> QED
      BY <3>2, <3>3 DEF PutIn
  <2> QED
    BY <2>1, <2>2
<1> QED
  BY <1>1, <1>2, <1>3 DEF Owned

\* r is k with a new block in place n0 of file i0, or without; in any case what
\* was there is still there.
Extended(k, r, i, n) ==
  /\ Sound(r) /\ r.size = k.size /\ k.used \subseteq r.used
  /\ \A j \in Inode, m \in 0..MAXFILE :
       Entry(k, j, m) # 0 \/ ~(j = i /\ m \in {n, MAXFILE}) => Entry(r, j, m) = Entry(k, j, m)
  /\ \A b \in k.used : r.data[b] = k.data[b]

\* r is k with block b taken from the free ones.
Takes(k, r, b) ==
  /\ b \in Block \ k.used
  /\ r \in Disks /\ r.used = k.used \cup {b} /\ r.bad = k.bad
  /\ \A c \in k.used : r.data[c] = k.data[c]

\* A new block in an empty place is an extension of the file.
LEMMA PutInExtends ==
  ASSUME NEW k, Sound(k), NEW i \in Inode, NEW n \in 0..MAXFILE, NEW r, NEW b,
         Takes(k, r, b), r.size = k.size, PutIn(k, r, i, n, b)
  PROVE  Extended(k, r, i, n)
<1>1. Owned(r)
  BY PutInOwned DEF Sound
<1> QED
  BY <1>1 DEF Extended, Sound, PutIn, Takes

\* The three places bmap() may fill: an address of the inode,
LEMMA PutDirect ==
  ASSUME NEW k, Sound(k), NEW i \in Inode, NEW n \in 0..NDIRECT - 1, NEW r, NEW b,
         Takes(k, r, b), Entry(k, i, n) = 0,
         \A j \in Inode, m \in 0..NDIRECT :
           r.addrs[j][m] = IF j = i /\ m = n THEN b ELSE k.addrs[j][m],
         \A c \in k.used : r.ind[c] = k.ind[c]
  PROVE  PutIn(k, r, i, n, b)
<1>0. k \in Disks /\ r \in Disks /\ n \in 0..MAXFILE
  <2>1. n \in 0..MAXFILE
    BY Sizes
  <2> QED
    BY <2>1 DEF Sound, Takes
<1>2. ASSUME NEW j \in Inode, NEW m \in 0..MAXFILE
      PROVE  Entry(r, j, m) = IF j = i /\ m = n THEN b ELSE Entry(k, j, m)
  <2>1. MAXFILE \in 0..MAXFILE /\ NDIRECT \in 0..NDIRECT /\ n # NDIRECT /\ n # MAXFILE
    BY Sizes
  <2>3. Entry(r, j, MAXFILE) = Entry(k, j, MAXFILE)
    BY <1>0, <2>1, EntryIs
  <2>4. Entry(k, j, MAXFILE) # 0 => Entry(k, j, MAXFILE) \in k.used
    BY <2>1 DEF Sound, Owned
  <2>6. CASE m < NDIRECT
    <3>1. m \in 0..NDIRECT
      BY <2>6, Sizes
    <3> QED
      BY <1>0, <3>1, <2>6, EntryIs
  <2>7. CASE m = MAXFILE
    BY <2>1, <2>3, <2>7
  <2>8. CASE m >= NDIRECT /\ m < MAXFILE
    <3>1. m # n
      BY <2>8, Sizes
    <3> QED
      BY <1>0, <2>3, <2>4, <2>8, <3>1, EntryIs
  <2> QED
    BY <2>6, <2>7, <2>8, Sizes
<1> QED
  BY <1>0, <1>2 DEF PutIn, Takes

\* the address of its indirect block,
LEMMA PutIndirect ==
  ASSUME NEW k, Sound(k), NEW i \in Inode, NEW r, NEW b,
         Takes(k, r, b), Entry(k, i, MAXFILE) = 0,
         \A j \in Inode, m \in 0..NDIRECT :
           r.addrs[j][m] = IF j = i /\ m = NDIRECT THEN b ELSE k.addrs[j][m],
         \A c \in k.used : r.ind[c] = k.ind[c],
         \A m \in 0..NINDIRECT - 1 : r.ind[b][m] = 0
  PROVE  PutIn(k, r, i, MAXFILE, b)
<1>0. k \in Disks /\ r \in Disks /\ b \in Block /\ b # 0
  BY Sizes DEF Sound, Takes
<1>2. ASSUME NEW j \in Inode, NEW m \in 0..MAXFILE
      PROVE  Entry(r, j, m) = IF j = i /\ m = MAXFILE THEN b ELSE Entry(k, j, m)
  <2>1. MAXFILE \in 0..MAXFILE /\ NDIRECT \in 0..NDIRECT
    BY Sizes
  <2>3. Entry(r, j, MAXFILE) = IF j = i THEN b ELSE Entry(k, j, MAXFILE)
    BY <1>0, <2>1, EntryIs
  <2>4. Entry(k, j, MAXFILE) # 0 => Entry(k, j, MAXFILE) \in k.used
    BY <2>1 DEF Sound, Owned
  <2>6. CASE m < NDIRECT
    <3>1. m \in 0..NDIRECT /\ m # MAXFILE /\ m # NDIRECT
      BY <2>6, Sizes
    <3> QED
      BY <1>0, <3>1, <2>6, EntryIs
  <2>7. CASE m = MAXFILE
    BY <2>3, <2>7
  <2>8. CASE m >= NDIRECT /\ m < MAXFILE
    <3>1. m # MAXFILE
      BY <2>8, Sizes
    <3>2. j = i => Entry(r, j, m) = 0 /\ Entry(k, j, m) = 0
      BY <1>0, <2>3, <2>8, EntryIs
    <3>3. j # i => Entry(r, j, m) = Entry(k, j, m)
      BY <1>0, <2>3, <2>4, <2>8, EntryIs
    <3> QED
      BY <3>1, <3>2, <3>3
  <2> QED
    BY <2>6, <2>7, <2>8, Sizes
<1> QED
  BY <1>2 DEF PutIn, Takes

\* and an entry of the indirect block.
LEMMA PutBeyond ==
  ASSUME NEW k, Sound(k), NEW i \in Inode, NEW n \in NDIRECT..MAXFILE - 1, NEW r, NEW b, NEW a,
         Takes(k, r, b), Entry(k, i, n) = 0, a = Entry(k, i, MAXFILE), a # 0,
         r.addrs = k.addrs,
         \A c \in k.used : c # a => r.ind[c] = k.ind[c],
         \A m \in 0..NINDIRECT - 1 :
           r.ind[a][m] = IF m = n - NDIRECT THEN b ELSE k.ind[a][m]
  PROVE  PutIn(k, r, i, n, b)
<1>0. k \in Disks /\ r \in Disks /\ n \in 0..MAXFILE /\ n >= NDIRECT /\ n < MAXFILE
  <2>1. n \in 0..MAXFILE /\ n >= NDIRECT /\ n < MAXFILE
    BY Sizes
  <2> QED
    BY <2>1 DEF Sound, Takes
<1>2. ASSUME NEW j \in Inode, NEW m \in 0..MAXFILE
      PROVE  Entry(r, j, m) = IF j = i /\ m = n THEN b ELSE Entry(k, j, m)
  <2>1. MAXFILE \in 0..MAXFILE
    BY Sizes
  <2>2. Entry(r, j, MAXFILE) = Entry(k, j, MAXFILE)
    BY <1>0, <2>1, EntryIs
  <2>3. /\ Entry(k, j, MAXFILE) # 0 => Entry(k, j, MAXFILE) \in k.used
        /\ Entry(k, j, MAXFILE) = a => j = i
    <3>1. Entry(k, i, MAXFILE) # 0 /\ a = Entry(k, i, MAXFILE)
      OBVIOUS
    <3>2. Entry(k, j, MAXFILE) # 0 => Entry(k, j, MAXFILE) \in k.used
      BY <2>1 DEF Sound, Owned
    <3>3. ASSUME Entry(k, i, MAXFILE) = Entry(k, j, MAXFILE) PROVE i = j
      <4>1. \A p, q \in Inode, x, y \in 0..MAXFILE :
              Entry(k, p, x) # 0 /\ Entry(k, p, x) = Entry(k, q, y) => p = q /\ x = y
        BY DEF Sound, Owned
      <4> QED
        BY <2>1, <3>1, <3>3, <4>1
    <3> QED
      BY <3>1, <3>2, <3>3
  <2>6. CASE m < NDIRECT
    <3>1. m # n
      BY <2>6, <1>0, Sizes
    <3> QED
      BY <1>0, <2>6, <3>1, EntryIs
  <2>7. CASE m = MAXFILE
    BY <1>0, <2>2, <2>7, Sizes
  <2>8. CASE m >= NDIRECT /\ m < MAXFILE
    <3>1. m - NDIRECT \in 0..NINDIRECT - 1 /\ (m - NDIRECT = n - NDIRECT <=> m = n)
      BY <1>0, <2>8, Sizes
    <3>4. CASE j = i
      BY <1>0, <2>2, <2>8, <3>1, <3>4, EntryIs
    <3>5. CASE j # i
      BY <1>0, <2>2, <2>3, <2>8, <3>5, EntryIs
    <3> QED
      BY <3>4, <3>5
  <2> QED
    BY <2>6, <2>7, <2>8, Sizes
<1> QED
  BY <1>0, <1>2 DEF PutIn, Takes

\* What PutAddr does to the disk, field by field.
LEMMA PutAddrIs ==
  ASSUME NEW k \in Disks, NEW i \in Inode, NEW n \in 0..NDIRECT, NEW b \in Block \ k.used
  PROVE  LET r == PutAddr(k, i, n, b)
         IN /\ Takes(k, r, b) /\ r.size = k.size
            /\ \A j \in Inode, m \in 0..NDIRECT :
                 r.addrs[j][m] = IF j = i /\ m = n THEN b ELSE k.addrs[j][m]
            /\ \A c \in k.used : r.ind[c] = k.ind[c]
            /\ \A m \in 0..NINDIRECT - 1 : r.ind[b][m] = 0
<1> DEFINE r == PutAddr(k, i, n, b)
<1>1. r = [k EXCEPT !.used = k.used \cup {b}, !.data[b] = 0, !.ind[b] = NoBlocks,
                    !.addrs[i][n] = b]
  BY Sizes DEF PutAddr, Balloc
<1>2. NoBlocks \in [0..NINDIRECT - 1 -> Block \cup {0}]
      /\ \A m \in 0..NINDIRECT - 1 : NoBlocks[m] = 0
  BY DEF NoBlocks
<1>4. /\ r.used = k.used \cup {b} /\ r.size = k.size /\ r.bad = k.bad
      /\ r.data = [k.data EXCEPT ![b] = 0]
      /\ r.ind = [k.ind EXCEPT ![b] = NoBlocks]
      /\ r.addrs = [k.addrs EXCEPT ![i] = [k.addrs[i] EXCEPT ![n] = b]]
      /\ r = [used |-> r.used, data |-> r.data, ind |-> r.ind, addrs |-> r.addrs,
              size |-> r.size, bad |-> r.bad]
  BY <1>1 DEF Disks
<1> HIDE DEF r
<1>5. /\ k.addrs \in [Inode -> [0..NDIRECT -> Block \cup {0}]] /\ k.used \subseteq Block
      /\ k.data \in [Block -> Val \cup {0}]
      /\ k.ind \in [Block -> [0..NINDIRECT - 1 -> Block \cup {0}]]
  BY DEF Disks
<1>3. r \in Disks
  <2>1. [k.addrs[i] EXCEPT ![n] = b] \in [0..NDIRECT -> Block \cup {0}]
    BY <1>5
  <2>2. r.addrs \in [Inode -> [0..NDIRECT -> Block \cup {0}]]
    BY <1>4, <1>5, <2>1
  <2>3. r.ind \in [Block -> [0..NINDIRECT - 1 -> Block \cup {0}]]
    BY <1>2, <1>4, <1>5
  <2>4. r.data \in [Block -> Val \cup {0}] /\ r.used \subseteq Block
    BY <1>4, <1>5
  <2> QED
    BY <1>4, <2>2, <2>3, <2>4 DEF Disks
<1>6. ASSUME NEW j \in Inode, NEW m \in 0..NDIRECT
      PROVE  r.addrs[j][m] = IF j = i /\ m = n THEN b ELSE k.addrs[j][m]
  <2>1. r.addrs[j] = IF j = i THEN [k.addrs[i] EXCEPT ![n] = b] ELSE k.addrs[j]
    BY <1>4, <1>5
  <2>2. [k.addrs[i] EXCEPT ![n] = b][m] = IF m = n THEN b ELSE k.addrs[i][m]
    BY <1>5
  <2> QED
    BY <2>1, <2>2
<1>7. /\ \A c \in k.used : r.ind[c] = k.ind[c] /\ r.data[c] = k.data[c]
      /\ \A m \in 0..NINDIRECT - 1 : r.ind[b][m] = 0
  BY <1>2, <1>4, <1>5
<1> QED
  BY <1>3, <1>4, <1>6, <1>7 DEF Takes, r

\* What PutEntry does to the disk, field by field.
LEMMA PutEntryIs ==
  ASSUME NEW k \in Disks, NEW a \in k.used, NEW n \in 0..NINDIRECT - 1,
         NEW b \in Block \ k.used
  PROVE  LET r == PutEntry(k, a, n, b)
         IN /\ Takes(k, r, b) /\ r.size = k.size
            /\ r.addrs = k.addrs
            /\ \A c \in k.used : c # a => r.ind[c] = k.ind[c]
            /\ \A m \in 0..NINDIRECT - 1 :
                 r.ind[a][m] = IF m = n THEN b ELSE k.ind[a][m]
<1> DEFINE r == PutEntry(k, a, n, b)
<1>1. r = [k EXCEPT !.used = k.used \cup {b}, !.data[b] = 0, !.ind[b] = NoBlocks,
                    !.ind[a][n] = b]
  BY Sizes DEF PutEntry, Balloc
<1>2. NoBlocks \in [0..NINDIRECT - 1 -> Block \cup {0}]
  BY DEF NoBlocks
<1>5. /\ k.used \subseteq Block /\ a \in Block /\ a # b
      /\ k.data \in [Block -> Val \cup {0}]
      /\ k.ind \in [Block -> [0..NINDIRECT - 1 -> Block \cup {0}]]
  BY DEF Disks
<1>4. /\ r.used = k.used \cup {b} /\ r.size = k.size /\ r.bad = k.bad
      /\ r.data = [k.data EXCEPT ![b] = 0] /\ r.addrs = k.addrs
      /\ r.ind = [[k.ind EXCEPT ![b] = NoBlocks] EXCEPT ![a][n] = b]
      /\ r = [used |-> r.used, data |-> r.data, ind |-> r.ind, addrs |-> r.addrs,
              size |-> r.size, bad |-> r.bad]
  BY <1>1 DEF Disks
<1> HIDE DEF r
<1>3. r \in Disks
  <2>1. [k.ind EXCEPT ![b] = NoBlocks] \in [Block -> [0..NINDIRECT - 1 -> Block \cup {0}]]
    BY <1>2, <1>5
  <2>3. r.ind \in [Block -> [0..NINDIRECT - 1 -> Block \cup {0}]]
    BY <1>4, <1>5, <2>1
  <2>4. r.data \in [Block -> Val \cup {0}] /\ r.used \subseteq Block
    BY <1>4, <1>5
  <2> QED
    BY <1>4, <2>3, <2>4 DEF Disks
<1>6. \A c \in k.used : r.data[c] = k.data[c] /\ (c # a => r.ind[c] = k.ind[c])
  BY <1>4, <1>5
<1>7. r.ind[a] = [k.ind[a] EXCEPT ![n] = b]
  BY <1>4, <1>5, <1>2
<1>8. \A m \in 0..NINDIRECT - 1 : r.ind[a][m] = IF m = n THEN b ELSE k.ind[a][m]
  BY <1>5, <1>7
<1> QED
  BY <1>3, <1>4, <1>6, <1>8 DEF Takes, r

\* A block that there is not changes nothing.
LEMMA PutNothing ==
  ASSUME NEW k \in Disks
  PROVE  /\ \A i \in Inode, n \in 0..NDIRECT : k.addrs[i][n] = 0 => PutAddr(k, i, n, 0) = k
         /\ \A a \in Block, n \in 0..NINDIRECT - 1 :
              k.ind[a][n] = 0 => PutEntry(k, a, n, 0) = k
<1>1. ASSUME NEW i \in Inode, NEW n \in 0..NDIRECT, k.addrs[i][n] = 0
      PROVE  PutAddr(k, i, n, 0) = k
  <2>1. PutAddr(k, i, n, 0) = [k EXCEPT !.addrs = [k.addrs EXCEPT ![i] = [k.addrs[i] EXCEPT ![n] = 0]]]
    BY DEF PutAddr, Balloc
  <2>2. [k.addrs[i] EXCEPT ![n] = 0] = k.addrs[i]
    BY <1>1 DEF Disks
  <2>3. [k.addrs EXCEPT ![i] = k.addrs[i]] = k.addrs
    BY DEF Disks
  <2> QED
    BY <2>1, <2>2, <2>3, ZenonT(60) DEF Disks
<1>2. ASSUME NEW a \in Block, NEW n \in 0..NINDIRECT - 1, k.ind[a][n] = 0
      PROVE  PutEntry(k, a, n, 0) = k
  <2>1. PutEntry(k, a, n, 0) = [k EXCEPT !.ind = [k.ind EXCEPT ![a] = [k.ind[a] EXCEPT ![n] = 0]]]
    BY DEF PutEntry, Balloc
  <2>2. [k.ind[a] EXCEPT ![n] = 0] = k.ind[a]
    BY <1>2 DEF Disks
  <2>3. [k.ind EXCEPT ![a] = k.ind[a]] = k.ind
    BY DEF Disks
  <2> QED
    BY <2>1, <2>2, <2>3, ZenonT(60) DEF Disks
<1> QED
  BY <1>1, <1>2

\* bmap() may extend a file by two blocks, the indirect one first.
LEMMA ExtendedTwice ==
  ASSUME NEW k, Sound(k), NEW i \in Inode, NEW n \in 0..MAXFILE - 1, NEW k1, NEW r,
         Extended(k, k1, i, MAXFILE), Extended(k1, r, i, n)
  PROVE  Extended(k, r, i, n)
  BY DEF Extended, Sound, Disks

\* A file that has the block already is not extended.
LEMMA ExtendedNone ==
  ASSUME NEW k, Sound(k), NEW i, NEW n PROVE Extended(k, k, i, n)
  BY DEF Extended

\* bmap() extends the file by its block, by its indirect block, by both or by
\* none, as there are blocks free.
LEMMA BmapExtends ==
  ASSUME NEW k, Sound(k), NEW i \in Inode, NEW n \in 0..MAXFILE - 1
  PROVE  Extended(k, Bmap(k, i, n), i, n)
<1>0. /\ k \in Disks /\ n \in 0..MAXFILE /\ MAXFILE \in 0..MAXFILE /\ n < MAXFILE
      /\ NDIRECT \in 0..NDIRECT
  <2>1. n \in 0..MAXFILE /\ MAXFILE \in 0..MAXFILE /\ n < MAXFILE /\ NDIRECT \in 0..NDIRECT
    BY Sizes
  <2> QED
    BY <2>1 DEF Sound
<1>1. Entry(k, i, n) = Addr(k, i, n) /\ Entry(k, i, MAXFILE) = k.addrs[i][NDIRECT]
  BY <1>0, Sizes DEF Entry
<1>b. ~(n >= MAXFILE)
  BY <1>0, Sizes
<1> DEFINE k1 == WithIndirect(k, i)
           a == Entry(k1, i, MAXFILE)
<1>a. a = k1.addrs[i][NDIRECT]
  BY Sizes DEF Entry
<1>2. Bmap(k, i, n) =
        IF Entry(k, i, n) # 0 THEN k
        ELSE IF n < NDIRECT THEN PutAddr(k, i, n, FirstFree(k))
        ELSE IF a = 0 THEN k1
        ELSE PutEntry(k1, a, n - NDIRECT, FirstFree(k1))
  BY <1>1, <1>a, <1>b DEF Bmap
<1>4. CASE Entry(k, i, n) # 0
  BY <1>2, <1>4, ExtendedNone
<1>5. CASE Entry(k, i, n) = 0 /\ n < NDIRECT
  <2> DEFINE b == FirstFree(k)
  <2>1. Bmap(k, i, n) = PutAddr(k, i, n, b)
    BY <1>2, <1>5
  <2>2. n \in 0..NDIRECT - 1 /\ n \in 0..NDIRECT
    BY <1>0, <1>5, Sizes
  <2>3. CASE b = 0
    <3>1. k.addrs[i][n] = 0
      BY <1>0, <1>5, EntryIs
    <3> QED
      BY <1>0, <2>1, <2>2, <2>3, <3>1, PutNothing, ExtendedNone
  <2>4. CASE b # 0
    <3>1. b \in Block \ k.used
      BY <1>0, <2>4, FirstFreeIs
    <3> HIDE DEF b
    <3> QED
      <4>1. Takes(k, Bmap(k, i, n), b) /\ Bmap(k, i, n).size = k.size
        BY <1>0, <2>1, <2>2, <3>1, PutAddrIs
      <4>2. \A j \in Inode, m \in 0..NDIRECT :
              Bmap(k, i, n).addrs[j][m] = IF j = i /\ m = n THEN b ELSE k.addrs[j][m]
        BY <1>0, <2>1, <2>2, <3>1, PutAddrIs
      <4>3. \A c \in k.used : Bmap(k, i, n).ind[c] = k.ind[c]
        BY <1>0, <2>1, <2>2, <3>1, PutAddrIs
      <4>4. PutIn(k, Bmap(k, i, n), i, n, b)
        BY <1>5, <2>2, <4>1, <4>2, <4>3, PutDirect
      <4> QED
        BY <1>0, <4>1, <4>4, PutInExtends
  <2> QED
    BY <2>3, <2>4
<1>6. CASE Entry(k, i, n) = 0 /\ ~(n < NDIRECT)
  <2>1. Extended(k, k1, i, MAXFILE)
    <3> DEFINE b == FirstFree(k)
    <3>1. CASE Entry(k, i, MAXFILE) # 0
      BY <1>1, <3>1, ExtendedNone DEF WithIndirect
    <3>2. CASE Entry(k, i, MAXFILE) = 0
      <4>1. k1 = PutAddr(k, i, NDIRECT, b)
        BY <1>1, <3>2 DEF WithIndirect
      <4>2. CASE b = 0
        <5>1. k1 = k
          BY <1>0, <1>1, <3>2, <4>1, <4>2, PutNothing
        <5> QED
          BY <5>1, ExtendedNone
      <4>3. CASE b # 0
        <5>1. b \in Block \ k.used
          BY <1>0, <4>3, FirstFreeIs
        <5> HIDE DEF b
        <5> QED
          <6>1. Takes(k, k1, b) /\ k1.size = k.size
            BY <1>0, <4>1, <5>1, PutAddrIs
          <6>2. \A j \in Inode, m \in 0..NDIRECT :
                  k1.addrs[j][m] = IF j = i /\ m = NDIRECT THEN b ELSE k.addrs[j][m]
            BY <1>0, <4>1, <5>1, PutAddrIs
          <6>3. /\ \A c \in k.used : k1.ind[c] = k.ind[c]
                /\ \A m \in 0..NINDIRECT - 1 : k1.ind[b][m] = 0
            BY <1>0, <4>1, <5>1, PutAddrIs
          <6> HIDE DEF k1
          <6>4. PutIn(k, k1, i, MAXFILE, b)
            BY <3>2, <6>1, <6>2, <6>3, PutIndirect
          <6> QED
            BY <1>0, <6>1, <6>4, PutInExtends
      <4> QED
        BY <4>2, <4>3
    <3> QED
      BY <3>1, <3>2
  <2> HIDE DEF k1
  <2>2. Sound(k1) /\ k1 \in Disks
    BY <2>1 DEF Extended, Sound
  <2>3. CASE a = 0
    <3>1. Bmap(k, i, n) = k1
      BY <1>2, <1>6, <2>3
    <3> QED
      BY <2>1, <2>2, <3>1, ExtendedNone, ExtendedTwice
  <2>4. CASE a # 0
    <3> DEFINE c == FirstFree(k1)
    <3>1. Bmap(k, i, n) = PutEntry(k1, a, n - NDIRECT, c)
      BY <1>2, <1>6, <2>4
    <3>2. a \in k1.used /\ a \in Block
      BY <1>0, <2>2, <2>4 DEF Sound, Owned, Disks
    <3>3. n \in NDIRECT..MAXFILE - 1 /\ n - NDIRECT \in 0..NINDIRECT - 1
      BY <1>0, <1>6, Sizes
    <3>4. Entry(k1, i, n) = 0
      <4>1. n # MAXFILE
        BY <1>0, Sizes
      <4> QED
        BY <1>0, <1>6, <2>1, <4>1 DEF Extended
    <3>5. CASE c = 0
      <4>1. k1.ind[a][n - NDIRECT] = 0
        BY <1>0, <2>2, <2>4, <3>3, <3>4, EntryIs
      <4>2. Bmap(k, i, n) = k1
        BY <2>2, <3>1, <3>2, <3>3, <3>5, <4>1, PutNothing
      <4> QED
        BY <2>1, <2>2, <4>2, ExtendedNone, ExtendedTwice
    <3>6. CASE c # 0
      <4>1. c \in Block \ k1.used
        BY <2>2, <3>6, FirstFreeIs
      <4> HIDE DEF c, a
      <4>2. Extended(k1, Bmap(k, i, n), i, n)
        <5> DEFINE q == Bmap(k, i, n)
        <5>1. Takes(k1, q, c) /\ q.addrs = k1.addrs /\ q.size = k1.size
          BY <2>2, <3>1, <3>2, <3>3, <4>1, PutEntryIs
        <5>2. /\ \A x \in k1.used : x # a => q.ind[x] = k1.ind[x]
              /\ \A m \in 0..NINDIRECT - 1 :
                   q.ind[a][m] = IF m = n - NDIRECT THEN c ELSE k1.ind[a][m]
          BY <2>2, <3>1, <3>2, <3>3, <4>1, PutEntryIs
        <5>3. a = Entry(k1, i, MAXFILE)
          BY DEF a
        <5> HIDE DEF q
        <5>4. PutIn(k1, q, i, n, c)
          BY <2>2, <2>4, <3>3, <3>4, <5>1, <5>2, <5>3, PutBeyond
        <5>5. Extended(k1, q, i, n)
          BY <1>0, <2>2, <5>1, <5>4, PutInExtends
        <5> QED
          BY <5>5 DEF q
      <4> QED
        BY <2>1, <4>2, ExtendedTwice
    <3> QED
      BY <3>5, <3>6
  <2> QED
    BY <2>3, <2>4
<1> QED
  BY <1>4, <1>5, <1>6

--------------------------------------------------------------------------------
(* writei().                                                                 *)

\* What the loop of writei() has made of k when it has come to block n.
Wrote(k, i, off, vals, n, w) ==
  /\ w \in [k : Disks, off : off..off + n, go : BOOLEAN]
  /\ w.go => w.off = off + n
  /\ Sound(w.k) /\ w.k.size = k.size
  /\ \A j \in Inode, m \in 0..MAXFILE : Entry(k, j, m) # 0 =>
       /\ Entry(w.k, j, m) = Entry(k, j, m)
       /\ (j = i /\ m \in off..w.off - 1) \/ w.k.data[Entry(k, j, m)] = k.data[Entry(k, j, m)]
  /\ \A m \in off..w.off - 1 :
       /\ Entry(w.k, i, m) # 0 /\ vals[m - off + 1] # 0
       /\ w.k.data[Entry(w.k, i, m)] = vals[m - off + 1]

\* r is k but for the sizes of files and the data in blocks.
SameBlocks(k, r) ==
  /\ r \in Disks /\ r.used = k.used /\ r.bad = k.bad
  /\ r.ind = k.ind /\ r.addrs = k.addrs

\* Data put into blocks does not change who owns them.
LEMMA DataPut ==
  ASSUME NEW k, Sound(k), NEW r, SameBlocks(k, r)
  PROVE  Sound(r) /\ \A j \in Inode, m \in 0..MAXFILE : Entry(r, j, m) = Entry(k, j, m)
<1>3. r.used = k.used /\ r.ind = k.ind /\ r.addrs = k.addrs
  BY DEF SameBlocks
<1>4. \A j, m : Entry(r, j, m) = Entry(k, j, m)
  BY <1>3 DEF Entry, Addr
<1>5. Owned(r)
  <2>1. /\ \A i \in Inode, n \in 0..MAXFILE : Entry(k, i, n) # 0 => Entry(k, i, n) \in k.used
        /\ \A i, j \in Inode, n, m \in 0..MAXFILE :
             Entry(k, i, n) # 0 /\ Entry(k, i, n) = Entry(k, j, m) => i = j /\ n = m
        /\ \A b \in k.used : \E i \in Inode, n \in 0..MAXFILE : Entry(k, i, n) = b
    BY DEF Sound, Owned
  <2>2. \A i \in Inode, n \in 0..MAXFILE : Entry(r, i, n) # 0 => Entry(r, i, n) \in r.used
    BY <1>3, <1>4, <2>1
  <2>3. \A i, j \in Inode, n, m \in 0..MAXFILE :
             Entry(r, i, n) # 0 /\ Entry(r, i, n) = Entry(r, j, m) => i = j /\ n = m
    BY <1>4, <2>1
  <2>4. \A b \in r.used : \E i \in Inode, n \in 0..MAXFILE : Entry(r, i, n) = b
    BY <1>3, <1>4, <2>1
  <2> QED
    BY <2>2, <2>3, <2>4 DEF Owned
<1> QED
  BY <1>4, <1>5 DEF Sound, SameBlocks

\* One turn of writei()'s loop, whether a block is found or not.
LEMMA WriteBlockIs ==
  ASSUME NEW k, Sound(k), NEW i \in Inode, NEW off \in Nat, NEW vals \in Seq(Val \cup {0}),
         off + Len(vals) <= MAXFILE, NEW n \in 1..Len(vals), NEW w,
         Wrote(k, i, off, vals, n - 1, w)
  PROVE  Wrote(k, i, off, vals, n, WriteBlock(w, i, vals[n]))
<1> DEFINE val == vals[n]
           K == Bmap(w.k, i, w.off)
           a == Addr(K, i, w.off)
           r == WriteBlock(w, i, val)
<1>0. /\ n \in Nat /\ n >= 1 /\ val \in Val \cup {0} /\ n - 1 \in Nat
      /\ w \in [k : Disks, off : off..off + (n - 1), go : BOOLEAN]
      /\ w.off \in off..off + (n - 1) /\ w.off \in off..off + n
      /\ off..off + (n - 1) \subseteq off..off + n
      /\ w.off \in Nat /\ w.off < MAXFILE /\ w.off \in 0..MAXFILE - 1
  <2>1. Len(vals) \in Nat /\ n <= Len(vals) /\ val \in Val \cup {0}
    OBVIOUS
  <2>2. w \in [k : Disks, off : off..off + (n - 1), go : BOOLEAN]
    BY DEF Wrote
  <2> QED
    BY <2>1, <2>2, Sizes
<1>1. CASE ~w.go
  <2>1. r = w
    BY <1>1 DEF WriteBlock
  <2>2. w \in [k : Disks, off : off..off + n, go : BOOLEAN]
    BY <1>0
  <2> QED
    BY <1>1, <2>1, <2>2 DEF Wrote
<1>2. CASE w.go
  <2>1. w.off = off + (n - 1)
    BY <1>2 DEF Wrote
  <2>2. Extended(w.k, K, i, w.off)
    BY <1>0, BmapExtends DEF Wrote
  <2> HIDE DEF K
  <2>3. Sound(K) /\ K \in Disks /\ K.size = k.size
    BY <2>2 DEF Extended, Sound, Wrote
  <2>4. a = Entry(K, i, w.off) /\ w.off \in 0..MAXFILE
    BY <1>0, Sizes DEF Entry
  <2>5. \A j \in Inode, m \in 0..MAXFILE : Entry(k, j, m) # 0 =>
          /\ Entry(K, j, m) = Entry(k, j, m)
          /\ (j = i /\ m \in off..w.off - 1) \/ K.data[Entry(k, j, m)] = k.data[Entry(k, j, m)]
    <3> SUFFICES ASSUME NEW j \in Inode, NEW m \in 0..MAXFILE, Entry(k, j, m) # 0
                 PROVE  /\ Entry(K, j, m) = Entry(k, j, m)
                        /\ (j = i /\ m \in off..w.off - 1) \/ K.data[Entry(k, j, m)] = k.data[Entry(k, j, m)]
      OBVIOUS
    <3>1. /\ Entry(w.k, j, m) = Entry(k, j, m)
          /\ (j = i /\ m \in off..w.off - 1) \/ w.k.data[Entry(k, j, m)] = k.data[Entry(k, j, m)]
      BY DEF Wrote
    <3>2. Entry(w.k, j, m) \in w.k.used
      BY <3>1 DEF Wrote, Sound, Owned
    <3>3. Entry(K, j, m) = Entry(w.k, j, m)
      BY <2>2, <3>1 DEF Extended
    <3>4. K.data[Entry(w.k, j, m)] = w.k.data[Entry(w.k, j, m)]
      BY <2>2, <3>2 DEF Extended
    <3> QED
      BY <3>1, <3>3, <3>4
  <2>6. \A m \in off..w.off - 1 :
          /\ Entry(K, i, m) # 0 /\ vals[m - off + 1] # 0
          /\ K.data[Entry(K, i, m)] = vals[m - off + 1]
    <3> SUFFICES ASSUME NEW m \in off..w.off - 1
                 PROVE  /\ Entry(K, i, m) # 0 /\ vals[m - off + 1] # 0
                        /\ K.data[Entry(K, i, m)] = vals[m - off + 1]
      OBVIOUS
    <3>1. /\ Entry(w.k, i, m) # 0 /\ vals[m - off + 1] # 0
          /\ w.k.data[Entry(w.k, i, m)] = vals[m - off + 1]
      BY DEF Wrote
    <3>2. m \in 0..MAXFILE
      BY <1>0, Sizes
    <3>3. Entry(w.k, i, m) \in w.k.used
      BY <3>1, <3>2 DEF Wrote, Sound, Owned
    <3>4. Entry(K, i, m) = Entry(w.k, i, m)
      BY <2>2, <3>1, <3>2 DEF Extended
    <3>5. K.data[Entry(w.k, i, m)] = w.k.data[Entry(w.k, i, m)]
      BY <2>2, <3>3 DEF Extended
    <3> QED
      BY <3>1, <3>4, <3>5
  <2>7. CASE a = 0 \/ val = 0
    <3>1. r = [w EXCEPT !.k = K, !.go = FALSE]
      BY <1>2, <2>7 DEF WriteBlock, K
    <3>2. r = [k |-> K, off |-> w.off, go |-> FALSE]
      BY <1>0, <3>1
    <3> HIDE DEF r, a
    <3>3. r.k = K /\ r.off = w.off /\ ~r.go /\ r \in [k : Disks, off : off..off + n, go : BOOLEAN]
      BY <1>0, <2>3, <3>2
    <3> QED
      BY <2>3, <2>5, <2>6, <3>3 DEF Wrote, r
  <2>8. CASE a # 0 /\ val # 0
    <3> DEFINE D == [K EXCEPT !.data[a] = val]
    <3>1. r = [k |-> D, off |-> w.off + 1, go |-> TRUE]
      BY <1>2, <2>8 DEF WriteBlock, K
    <3>2. a \in K.used /\ a \in Block /\ val \in Val
      <4>1. Entry(K, i, w.off) # 0
        BY <2>4, <2>8
      <4> QED
        BY <1>0, <2>3, <2>4, <2>8, <4>1, OwnedIs
    <3>9. /\ SameBlocks(K, D) /\ D.size = K.size /\ D.data[a] = val
          /\ \A b \in Block : b # a => D.data[b] = K.data[b]
      <4> HIDE DEF a, val
      <4> DEFINE data == [K.data EXCEPT ![a] = val]
      <4>0. D = [K EXCEPT !.data = data]
        OBVIOUS
      <4> HIDE DEF D, data
      <4>5. D = [used |-> K.used, data |-> data, ind |-> K.ind, addrs |-> K.addrs,
                 size |-> K.size, bad |-> K.bad]
        BY <2>3, <4>0 DEF Disks
      <4>1. /\ D.used = K.used /\ D.size = K.size /\ D.bad = K.bad
            /\ D.ind = K.ind /\ D.addrs = K.addrs /\ D.data = [K.data EXCEPT ![a] = val]
            /\ D = [used |-> K.used, data |-> D.data, ind |-> K.ind, addrs |-> K.addrs,
                    size |-> K.size, bad |-> K.bad]
        BY <4>5 DEF data
      <4>2. K.data \in [Block -> Val \cup {0}]
        BY <2>3 DEF Disks
      <4>3. D.data \in [Block -> Val \cup {0}]
        BY <3>2, <4>1, <4>2
      <4>4. D \in Disks
        BY <2>3, <4>1, <4>3 DEF Disks
      <4> QED
        BY <3>2, <4>1, <4>2, <4>4 DEF SameBlocks
    <3> HIDE DEF D
    <3>3. /\ Sound(D) /\ D.size = K.size
          /\ D.data[a] = val /\ \A b \in Block : b # a => D.data[b] = K.data[b]
          /\ \A j \in Inode, m \in 0..MAXFILE : Entry(D, j, m) = Entry(K, j, m)
      BY <2>3, <3>9, DataPut DEF SameBlocks
    <3> HIDE DEF r, a
    <3>4. /\ r.k = D /\ r.off = w.off + 1 /\ r.off = off + n /\ r.go
          /\ r \in [k : Disks, off : off..off + n, go : BOOLEAN]
      <4>1. D \in Disks
        BY <3>3 DEF Sound
      <4>2. w.off + 1 = off + n /\ w.off + 1 \in off..off + n
        BY <1>0, <2>1
      <4> QED
        BY <3>1, <4>1, <4>2
    <3>5. \A j \in Inode, m \in 0..MAXFILE : Entry(K, j, m) = a => j = i /\ m = w.off
      <4>1. \A p, q \in Inode, x, y \in 0..MAXFILE :
              Entry(K, p, x) # 0 /\ Entry(K, p, x) = Entry(K, q, y) => p = q /\ x = y
        BY <2>3 DEF Sound, Owned
      <4> QED
        BY <2>4, <2>8, <4>1
    <3>6. ASSUME NEW j \in Inode, NEW m \in 0..MAXFILE, Entry(k, j, m) # 0
          PROVE  /\ Entry(D, j, m) = Entry(k, j, m)
                 /\ (j = i /\ m \in off..r.off - 1) \/ D.data[Entry(k, j, m)] = k.data[Entry(k, j, m)]
      <4>1. Entry(K, j, m) = Entry(k, j, m) /\ Entry(D, j, m) = Entry(K, j, m)
        BY <2>5, <3>3, <3>6
      <4>2. Entry(K, j, m) \in Block
        BY <2>3, <3>6, <4>1 DEF Sound, Owned, Disks
      <4>3. CASE Entry(K, j, m) = a
        <5>1. j = i /\ m = w.off
          BY <3>5, <4>3
        <5> QED
          BY <1>0, <3>4, <4>1, <5>1
      <4>4. CASE Entry(K, j, m) # a
        <5>1. D.data[Entry(k, j, m)] = K.data[Entry(k, j, m)]
          BY <3>3, <4>1, <4>2, <4>4
        <5>2. m \in off..w.off - 1 => m \in off..r.off - 1
          BY <1>0, <3>4
        <5> QED
          BY <2>5, <3>6, <4>1, <5>1, <5>2
      <4> QED
        BY <4>3, <4>4
    <3>7. ASSUME NEW m \in off..r.off - 1
          PROVE  /\ Entry(D, i, m) # 0 /\ vals[m - off + 1] # 0
                 /\ D.data[Entry(D, i, m)] = vals[m - off + 1]
      <4>1. m \in 0..MAXFILE /\ Entry(D, i, m) = Entry(K, i, m)
        <5>1. m \in 0..MAXFILE
          BY <1>0, <3>4, Sizes
        <5> QED
          BY <3>3, <5>1
      <4>2. CASE m = w.off
        <5>1. m - off + 1 = n
          BY <1>0, <2>1, <4>2
        <5> QED
          BY <2>4, <2>8, <3>3, <4>1, <4>2, <5>1
      <4>3. CASE m # w.off
        <5>1. m \in off..w.off - 1
          BY <1>0, <3>4, <4>3
        <5>2. Entry(K, i, m) # 0 /\ Entry(K, i, m) # a
          BY <2>6, <3>5, <4>1, <4>3, <5>1
        <5>3. Entry(K, i, m) \in Block
          BY <2>3, <4>1, <5>2 DEF Sound, Owned, Disks
        <5> QED
          BY <2>6, <3>3, <4>1, <5>1, <5>2, <5>3
      <4> QED
        BY <4>2, <4>3
    <3> QED
      BY <2>3, <3>3, <3>4, <3>6, <3>7 DEF Wrote, r
  <2> QED
    BY <2>7, <2>8
<1> QED
  BY <1>1, <1>2

\* The whole loop: the blocks up to where it stopped are in the file.
LEMMA WrittenIs ==
  ASSUME NEW k, Sound(k), NEW i \in Inode, NEW off \in Nat, NEW vals \in Seq(Val \cup {0}),
         off + Len(vals) <= MAXFILE
  PROVE  Wrote(k, i, off, vals, Len(vals), Written(k, i, off, vals))
<1>1. PICK N \in Nat : N = Len(vals)
  OBVIOUS
<1> DEFINE x == [k |-> k, off |-> off, go |-> TRUE]
           S == [k : Disks, off : Nat, go : BOOLEAN]
           P == [n \in 0..N |-> {w \in S : Wrote(k, i, off, vals, n, w)}]
           step(n, w) == WriteBlock(w, i, vals[n])
           d == [n \in 1..N |-> [w \in S |-> IF step(n, w) \in S THEN step(n, w) ELSE w]]
<1>2. x \in S /\ Wrote(k, i, off, vals, 0, x)
  <2>1. x \in [k : Disks, off : off..off + 0, go : BOOLEAN] /\ off = off + 0
    <3>1. off \in off..off + 0 /\ off = off + 0
      OBVIOUS
    <3>2. k \in Disks
      BY DEF Sound
    <3> QED
      BY <3>1, <3>2
  <2>2. \A m \in off..off - 1 : FALSE
    OBVIOUS
  <2> QED
    BY <2>1, <2>2 DEF Wrote
<1>3. ASSUME NEW n \in 1..N, NEW w \in P[n - 1]
      PROVE  step(n, w) \in P[n]
  <2>1. n - 1 \in 0..N /\ n \in 0..N /\ n \in Nat
    BY <1>1
  <2>2. Wrote(k, i, off, vals, n - 1, w)
    BY <1>3, <2>1
  <2> DEFINE r == step(n, w)
  <2>3. Wrote(k, i, off, vals, n, r)
    BY <1>1, <2>2, WriteBlockIs
  <2> HIDE DEF r
  <2>4. r \in [k : Disks, off : off..off + n, go : BOOLEAN]
    BY <2>3 DEF Wrote
  <2>5. r \in S
    BY <2>1, <2>4
  <2> QED
    BY <2>1, <2>3, <2>5 DEF r
<1> HIDE DEF x, step
<1>4. x \in P[0]
  BY <1>1, <1>2
<1>5. \E g : g = [n \in 0..N |-> IF n = 0 THEN x ELSE step(n, g[n - 1])]
  <2>1. d \in Transitions(S, N)
    BY DEF Transitions
  <2>2. PICK g \in [0..N -> S] : g[0] = x /\ \A n \in 1..N : g[n] = d[n][g[n - 1]]
    <3>1. x \in S
      BY <1>2
    <3> HIDE DEF P, d, S
    <3>2. \E g : IsRun(g, S, x, N, d)
      BY <3>1, <2>1, Iteration
    <3> QED
      BY <3>2 DEF IsRun
  <2>3. \A n \in 1..N : g[n - 1] \in S /\ n - 1 \in 0..N
    BY <1>1
  <2>4. ASSUME NEW n \in 1..N, g[n - 1] \in P[n - 1]
        PROVE  g[n] = step(n, g[n - 1])
    <3>1. step(n, g[n - 1]) \in P[n]
      BY <1>3, <2>4
    <3>2. step(n, g[n - 1]) \in S
      BY <3>1
    <3> QED
      BY <2>2, <2>3, <3>2
  <2>5. \A n \in 0..N : g[n] \in P[n]
    <3>1. \A n \in 1..N : g[n - 1] \in P[n - 1] => g[n] \in P[n]
      BY <1>3, <2>4, ZenonT(60)
    <3> HIDE DEF P
    <3> QED
      BY <1>1, <1>4, <2>2, <3>1, Steps
  <2>6. \A n \in 1..N : g[n] = step(n, g[n - 1])
    BY <2>3, <2>4, <2>5
  <2>7. g = [n \in 0..N |-> IF n = 0 THEN x ELSE step(n, g[n - 1])]
    BY <1>1, <2>2, <2>6
  <2> QED
    BY <2>7
<1> DEFINE after[n \in 0..N] == IF n = 0 THEN x ELSE step(n, after[n - 1])
<1>6. after = [n \in 0..N |-> IF n = 0 THEN x ELSE step(n, after[n - 1])]
  <2> HIDE DEF P, d, S
  <2> QED
    BY <1>5
<1>7. Written(k, i, off, vals) = after[N]
  BY <1>1 DEF Written, x, step
<1> HIDE DEF after
<1>8. after[0] = x /\ \A n \in 1..N : after[n] = step(n, after[n - 1])
  BY <1>1, <1>6
<1>9. after[N] \in P[N]
  <2>1. \A n \in 1..N : after[n - 1] \in P[n - 1] => after[n] \in P[n]
    BY <1>3, <1>8
  <2>2. N \in 0..N
    BY <1>1
  <2> HIDE DEF P
  <2>3. \A n \in 0..N : after[n] \in P[n]
    BY <1>1, <1>4, <1>8, <2>1, Steps
  <2> QED
    BY <2>2, <2>3
<1> QED
  BY <1>1, <1>7, <1>9

\* What a reader of a file sees, block by block.
LEMMA ContentIs ==
  ASSUME NEW k \in Disks, NEW i \in Inode
  PROVE  /\ k.size[i] \in 0..MAXFILE /\ Len(Content(k, i)) = k.size[i]
         /\ DOMAIN Content(k, i) = 1..k.size[i]
         /\ \A n \in 1..k.size[i] :
              n - 1 \in 0..MAXFILE /\ Content(k, i)[n] = k.data[Entry(k, i, n - 1)]
<1>0. k.size \in [Inode -> 0..MAXFILE]
  BY DEF Disks
<1>1. k.size[i] \in 0..MAXFILE /\ k.size[i] \in Nat
  BY <1>0, Sizes
<1>2. \A n \in 1..k.size[i] : n - 1 \in 0..MAXFILE /\ n - 1 < MAXFILE
  BY <1>1, Sizes
<1>3. ASSUME NEW s \in Nat, NEW c, c = [n \in 1..s |-> k.data[Addr(k, i, n - 1)]]
      PROVE  Len(c) = s
  BY <1>3
<1> QED
  BY <1>1, <1>2, <1>3 DEF Content, Entry

\* writei() puts r blocks of vals into the file from off on, and changes no
\* other file.
Changed(k, i, off, vals, w) ==
  /\ Sound(w.k) /\ Filled(w.k) /\ w.r \in 0..Len(vals)
  /\ off > k.size[i] \/ off + Len(vals) > MAXFILE => w.k = k /\ w.r = 0
  /\ off <= k.size[i] /\ off + Len(vals) <= MAXFILE =>
       /\ \A m \in 1..w.r : vals[m] # 0
       /\ Content(w.k, i) = Store!Overwrite(Content(k, i), off, [m \in 1..w.r |-> vals[m]])
  /\ \A j \in Inode : j # i => Content(w.k, j) = Content(k, j)

\* writei() does so.
LEMMA WriteiIs ==
  ASSUME NEW k, Sound(k), Filled(k), NEW i \in Inode, NEW off \in Nat,
         NEW vals \in Seq(Val \cup {0}), NEW w, w = Writei(k, i, off, vals)
  PROVE  Changed(k, i, off, vals, w)
<1>0. Len(vals) \in Nat /\ k \in Disks /\ k.size[i] \in 0..MAXFILE /\ k.size[i] \in Nat
  <2>1. k \in Disks
    BY DEF Sound
  <2>2. Len(vals) \in Nat
    OBVIOUS
  <2> QED
    BY <2>1, <2>2, ContentIs, Sizes
<1>1. CASE off > k.size[i] \/ off + Len(vals) > MAXFILE
  <2>1. w = [k |-> k, r |-> 0]
    BY <1>1 DEF Writei
  <2>2. ~(off <= k.size[i] /\ off + Len(vals) <= MAXFILE)
    BY <1>0, <1>1, Sizes
  <2> QED
    BY <1>0, <2>1, <2>2 DEF Changed
<1>2. CASE ~(off > k.size[i] \/ off + Len(vals) > MAXFILE)
  <2>1. off <= k.size[i] /\ off + Len(vals) <= MAXFILE
    BY <1>0, <1>2, Sizes
  <2> DEFINE v == Written(k, i, off, vals)
             s == IF v.off > k.size[i] THEN v.off ELSE k.size[i]
             r == w.k
  <2>2. Wrote(k, i, off, vals, Len(vals), v)
    BY <2>1, WrittenIs
  <2>3. w = SizeGrown(v, i, off)
    BY <1>2 DEF Writei
  <2> HIDE DEF v
  <2>4. /\ v.k \in Disks /\ v.off \in off..off + Len(vals) /\ v.off \in Nat
        /\ Sound(v.k) /\ v.k.size = k.size /\ v.off <= MAXFILE
    <3>1. v.off \in off..off + Len(vals) /\ v.k \in Disks /\ Sound(v.k) /\ v.k.size = k.size
      BY <2>2 DEF Wrote
    <3> QED
      BY <1>0, <2>1, <3>1, Sizes
  <2>5. /\ SameBlocks(v.k, r) /\ r.data = v.k.data /\ r.size[i] = s
        /\ \A j \in Inode : j # i => r.size[j] = k.size[j]
        /\ w.r = v.off - off /\ w.r \in 0..Len(vals) /\ s \in 0..MAXFILE
    <3> DEFINE size == [k.size EXCEPT ![i] = s]
    <3>1. w = [k |-> [v.k EXCEPT !.size = size], r |-> v.off - off]
      BY <2>3, <2>4 DEF SizeGrown
    <3>2. s \in 0..MAXFILE
      BY <1>0, <2>4, Sizes
    <3>3. k.size \in [Inode -> 0..MAXFILE]
      BY <1>0 DEF Disks
    <3>4. size \in [Inode -> 0..MAXFILE] /\ size[i] = s /\ \A j \in Inode : j # i => size[j] = k.size[j]
      <4> HIDE DEF s
      <4> QED
        BY <3>2, <3>3
    <3>5. v.off - off \in 0..Len(vals)
      BY <1>0, <2>4
    <3> HIDE DEF size, s
    <3>6. r = [v.k EXCEPT !.size = size] /\ w.r = v.off - off
      BY <3>1
    <3>7. r = [used |-> v.k.used, data |-> v.k.data, ind |-> v.k.ind, addrs |-> v.k.addrs,
               size |-> size, bad |-> v.k.bad]
      BY <2>4, <3>6 DEF Disks
    <3> HIDE DEF r
    <3>8. r \in Disks
      BY <2>4, <3>4, <3>7 DEF Disks
    <3> QED
      BY <3>2, <3>4, <3>5, <3>6, <3>7, <3>8 DEF SameBlocks, r
  <2> HIDE DEF r
  <2>6. Sound(r) /\ \A j \in Inode, m \in 0..MAXFILE : Entry(r, j, m) = Entry(v.k, j, m)
    BY <2>4, <2>5, DataPut
  <2>7. ASSUME NEW j \in Inode, NEW n \in 0..k.size[j] - 1
        PROVE  /\ n \in 0..MAXFILE /\ Entry(k, j, n) # 0 /\ Entry(r, j, n) = Entry(k, j, n)
               /\ ~(j = i /\ n \in off..v.off - 1) =>
                    r.data[Entry(r, j, n)] = k.data[Entry(k, j, n)]
    <3>1. n \in 0..MAXFILE
      <4>1. k.size[j] \in 0..MAXFILE
        BY <1>0, ContentIs
      <4> QED
        BY <4>1, Sizes
    <3>2. Entry(k, j, n) # 0
      BY DEF Filled
    <3> QED
      BY <2>2, <2>5, <2>6, <3>1, <3>2 DEF Wrote
  <2>8. ASSUME NEW n \in off..v.off - 1
        PROVE  /\ n \in 0..MAXFILE /\ Entry(r, i, n) # 0 /\ vals[n - off + 1] # 0
               /\ r.data[Entry(r, i, n)] = vals[n - off + 1]
    <3>1. n \in 0..MAXFILE
      BY <2>4, Sizes
    <3> QED
      BY <2>2, <2>5, <2>6, <3>1 DEF Wrote
  <2>9. Filled(r)
    <3> SUFFICES ASSUME NEW j \in Inode, NEW n \in 0..r.size[j] - 1 PROVE Entry(r, j, n) # 0
      BY DEF Filled
    <3>1. CASE n < k.size[j]
      <4>1. n \in 0..k.size[j] - 1
        <5>1. k.size[j] \in 0..MAXFILE
          BY <1>0, ContentIs
        <5>2. r.size[j] \in 0..MAXFILE
          BY <2>6, ContentIs DEF Sound
        <5> QED
          BY <3>1, <5>1, <5>2, Sizes
      <4> QED
        BY <2>7, <4>1
    <3>2. CASE ~(n < k.size[j])
      <4>1. j = i
        <5>1. k.size[j] \in 0..MAXFILE
          BY <1>0, ContentIs
        <5>2. n \notin 0..k.size[j] - 1
          BY <3>2, <5>1, Sizes
        <5> QED
          BY <2>5, <5>2
      <4>2. n \in off..v.off - 1
        BY <1>0, <2>1, <2>4, <2>5, <3>2, <4>1, Sizes
      <4> QED
        BY <2>8, <4>1, <4>2
    <3> QED
      BY <3>1, <3>2
  <2>10. r \in Disks
    BY <2>5 DEF SameBlocks
  <2>11. ASSUME NEW j \in Inode, j # i
         PROVE  Content(r, j) = Content(k, j)
    <3>1. r.size[j] = k.size[j] /\ k.size[j] \in 0..MAXFILE
      BY <1>0, <2>5, <2>11, ContentIs
    <3>2. ASSUME NEW n \in 1..k.size[j] PROVE Content(r, j)[n] = Content(k, j)[n]
      <4>1. n - 1 \in 0..k.size[j] - 1
        BY <3>1, Sizes
      <4>2. r.data[Entry(r, j, n - 1)] = k.data[Entry(k, j, n - 1)]
        BY <2>7, <2>11, <4>1
      <4> QED
        BY <1>0, <2>10, <3>1, <4>2, ContentIs
    <3> QED
      BY <3>1, <3>2 DEF Content
  <2>12. off + w.r = v.off /\ w.r \in Nat /\ s \in Nat
    BY <1>0, <2>4, <2>5, Sizes
  <2>13. \A m \in 1..w.r : vals[m] # 0
    <3> SUFFICES ASSUME NEW m \in 1..w.r PROVE vals[m] # 0
      OBVIOUS
    <3>1. off + m - 1 \in off..v.off - 1 /\ (off + m - 1) - off + 1 = m
      BY <2>12
    <3> QED
      BY <2>8, <3>1
  <2>14. Content(r, i) = Store!Overwrite(Content(k, i), off, [m \in 1..w.r |-> vals[m]])
    <3> DEFINE vs == [m \in 1..w.r |-> vals[m]]
               c == Content(k, i)
    <3>1. Len(vs) = w.r /\ Len(c) = k.size[i]
      BY <1>0, <2>12, ContentIs
    <3>2. (IF off + Len(vs) > Len(c) THEN off + Len(vs) ELSE Len(c)) = s
      BY <2>12, <3>1
    <3> HIDE DEF s, c
    <3>3. Store!Overwrite(c, off, vs) =
            [n \in 1..s |-> IF n > off /\ n <= off + Len(vs) THEN vs[n - off] ELSE c[n]]
      <4> HIDE DEF vs
      <4> QED
        BY <3>2 DEF Store!Overwrite
    <3>4. ASSUME NEW n \in 1..s
          PROVE  Content(r, i)[n] = IF n > off /\ n <= off + Len(vs) THEN vs[n - off] ELSE c[n]
      <4>1. Content(r, i)[n] = r.data[Entry(r, i, n - 1)]
        BY <2>5, <2>10, ContentIs
      <4>2. CASE n > off /\ n <= v.off
        <5>1. n - 1 \in off..v.off - 1 /\ (n - 1) - off + 1 = n - off /\ n - off \in 1..w.r
          BY <2>12, <2>4, <4>2
        <5>2. r.data[Entry(r, i, n - 1)] = vals[n - off]
          BY <2>8, <5>1
        <5>3. n <= off + Len(vs) /\ vs[n - off] = vals[n - off]
          BY <2>12, <3>1, <4>2, <5>1
        <5> QED
          BY <4>1, <4>2, <5>2, <5>3
      <4>3. CASE ~(n > off /\ n <= v.off)
        <5>1. n \in 1..k.size[i] /\ n - 1 \in 0..k.size[i] - 1 /\ n - 1 \notin off..v.off - 1
          BY <1>0, <2>1, <2>4, <4>3 DEF s
        <5>2. r.data[Entry(r, i, n - 1)] = k.data[Entry(k, i, n - 1)]
          BY <2>7, <5>1
        <5>3. c[n] = k.data[Entry(k, i, n - 1)]
          BY <1>0, <5>1, ContentIs DEF c
        <5>4. ~(n > off /\ n <= off + Len(vs))
          BY <2>12, <3>1, <4>3
        <5> QED
          BY <4>1, <5>2, <5>3, <5>4
      <4> QED
        BY <4>2, <4>3
    <3>5. Content(r, i) = [n \in 1..s |-> Content(r, i)[n]]
      BY <2>5 DEF Content
    <3>6. [n \in 1..s |-> Content(r, i)[n]] =
            [n \in 1..s |-> IF n > off /\ n <= off + Len(vs) THEN vs[n - off] ELSE c[n]]
      BY <3>4
    <3> QED
      BY <3>3, <3>5, <3>6 DEF c
  <2> QED
    BY <1>2, <2>1, <2>5, <2>6, <2>9, <2>11, <2>13, <2>14 DEF r, Changed
<1> QED
  BY <1>1, <1>2

--------------------------------------------------------------------------------
(* itrunc().                                                                 *)

\* bfree() of a block in use.
LEMMA BfreeIs ==
  ASSUME NEW k \in Disks, NEW b \in Block \cup {0}
  PROVE  /\ Bfree(k, b) \in Disks
         /\ b = 0 \/ b \in k.used =>
              /\ Bfree(k, b).used = k.used \ {b} /\ Bfree(k, b).bad = k.bad
              /\ Bfree(k, b).ind = k.ind /\ Bfree(k, b).addrs = k.addrs
              /\ Bfree(k, b).size = k.size
              /\ \A c \in Block : c # b => Bfree(k, b).data[c] = k.data[c]
<1>1. CASE b = 0
  <2>1. Bfree(k, b) = k /\ k.used \ {b} = k.used
    BY <1>1, Sizes, ZenonT(60) DEF Bfree, Disks
  <2> QED
    BY <2>1
<1>2. CASE b # 0 /\ b \notin k.used
  <2>1. Bfree(k, b) = DPanic(k, "freeing free block")
    BY <1>2 DEF Bfree
  <2> DEFINE why == "freeing free block"
             r == [k EXCEPT !.bad = why]
  <2>2. Bfree(k, b) = k \/ Bfree(k, b) = r
    BY <2>1 DEF DPanic
  <2>0. why \in {"", "bmap: out of range", "freeing free block"}
    OBVIOUS
  <2>5. r = [k EXCEPT !.bad = why]
    OBVIOUS
  <2> HIDE DEF why, r
  <2>3. r = [used |-> k.used, data |-> k.data, ind |-> k.ind, addrs |-> k.addrs,
             size |-> k.size, bad |-> why]
    BY <2>5 DEF Disks
  <2>4. r \in Disks
    BY <2>0, <2>3, DiskFields, DiskMade
  <2> QED
    BY <1>2, <2>2, <2>4
<1>3. CASE b # 0 /\ b \in k.used
  <2> DEFINE used == k.used \ {b}
             data == [k.data EXCEPT ![b] = 0]
  <2>1. Bfree(k, b) = [[k EXCEPT !.used = used] EXCEPT !.data = data]
    BY <1>3 DEF Bfree
  <2>2. used \subseteq Block /\ data \in [Block -> Val \cup {0}]
        /\ \A c \in Block : c # b => data[c] = k.data[c]
    BY <1>3 DEF Disks
  <2> HIDE DEF used, data
  <2>3. Bfree(k, b) = [used |-> used, data |-> data, ind |-> k.ind, addrs |-> k.addrs,
                       size |-> k.size, bad |-> k.bad]
    BY <2>1 DEF Disks
  <2> DEFINE r == Bfree(k, b)
  <2> HIDE DEF r
  <2>4. r \in Disks
    <3>1. /\ r.used = used /\ r.data = data /\ r.ind = k.ind /\ r.addrs = k.addrs
          /\ r.size = k.size /\ r.bad = k.bad
      BY <2>3 DEF r
    <3>2. r = [used |-> r.used, data |-> r.data, ind |-> r.ind, addrs |-> r.addrs,
              size |-> r.size, bad |-> r.bad]
      BY <2>3, <3>1 DEF r
    <3> QED
      BY <2>2, <3>1, <3>2, DiskFields, DiskMade
  <2> QED
    BY <2>2, <2>3, <2>4 DEF used, r
<1> QED
  BY <1>1, <1>2, <1>3

\* r is k without the blocks in the first n places of file i, which still names
\* them.
FreedTo(k, i, n, r) ==
  /\ r \in Disks /\ r.bad = "" /\ r.ind = k.ind /\ r.addrs = k.addrs /\ r.size = k.size
  /\ r.used = k.used \ {Entry(k, i, m) : m \in 0..n - 1}
  /\ \A c \in r.used : r.data[c] = k.data[c]

\* After n turns of itrunc()'s loops, n places' blocks are free.
LEMMA FreedIs ==
  ASSUME NEW k, Sound(k), NEW i \in Inode
  PROVE  FreedTo(k, i, MAXFILE + 1, Freed(k, [n \in 1..MAXFILE + 1 |-> Entry(k, i, n - 1)]))
<1>1. PICK N \in Nat : N = MAXFILE + 1
  BY Sizes
<1> DEFINE list == [n \in 1..MAXFILE + 1 |-> Entry(k, i, n - 1)]
           step(n, w) == Bfree(w, list[n])
           d == [n \in 1..N |-> [w \in Disks |-> step(n, w)]]
           P == [n \in 0..N |-> {w \in Disks : FreedTo(k, i, n, w)}]
<1>0. k \in Disks /\ \A n \in 1..N : n - 1 \in 0..MAXFILE
  <2>1. k \in Disks
    BY DEF Sound
  <2> QED
    BY <1>1, <2>1, Sizes
<1>2. Len(list) = N /\ \A n \in 1..N : list[n] = Entry(k, i, n - 1) /\ list[n] \in Block \cup {0}
  BY <1>0, <1>1, EntryIs
<1>3. k \in P[0]
  <2>1. {Entry(k, i, m) : m \in 0..0 - 1} = {}
    OBVIOUS
  <2>2. k.used = k.used \ {Entry(k, i, m) : m \in 0..0 - 1}
    BY <2>1
  <2>3. FreedTo(k, i, 0, k)
    BY <1>0, <2>2 DEF FreedTo, Sound
  <2> QED
    BY <1>0, <2>3
<1>4. ASSUME NEW n \in 1..N, NEW w \in P[n - 1]
      PROVE  step(n, w) \in P[n]
  <2> DEFINE b == list[n]
             r == step(n, w)
  <2>1. n - 1 \in 0..N /\ n \in 0..N /\ 0..n - 1 = (0..(n - 1) - 1) \cup {n - 1}
    BY <1>1
  <2>2. FreedTo(k, i, n - 1, w) /\ w \in Disks
    BY <1>4, <2>1
  <2>3. b = Entry(k, i, n - 1) /\ b \in Block \cup {0} /\ n - 1 \in 0..MAXFILE
    BY <1>0, <1>2
  <2>4. b = 0 \/ b \in w.used
    <3> SUFFICES ASSUME b # 0 PROVE b \in w.used
      OBVIOUS
    <3>1. b \in k.used /\ \A m \in 0..MAXFILE : Entry(k, i, m) = b => m = n - 1
      <4>1. Entry(k, i, n - 1) # 0
        BY <2>3
      <4> HIDE DEF b
      <4> QED
        BY <2>3, <4>1, OwnedIs
    <3>2. \A m \in 0..(n - 1) - 1 : m \in 0..MAXFILE /\ m # n - 1
      BY <1>1, <2>1, Sizes
    <3> QED
      BY <2>2, <3>1, <3>2 DEF FreedTo
  <2>5. /\ r \in Disks /\ r.used = w.used \ {b} /\ r.bad = w.bad /\ r.ind = w.ind
        /\ r.addrs = w.addrs /\ r.size = w.size
        /\ \A c \in Block : c # b => r.data[c] = w.data[c]
    <3> HIDE DEF b
    <3> QED
      BY <2>2, <2>3, <2>4, BfreeIs DEF b
  <2> HIDE DEF r, b
  <2>6. {Entry(k, i, m) : m \in 0..n - 1} = {Entry(k, i, m) : m \in 0..(n - 1) - 1} \cup {b}
    BY <2>1, <2>3
  <2>7. r.used = k.used \ {Entry(k, i, m) : m \in 0..n - 1}
    BY <2>2, <2>5, <2>6 DEF FreedTo
  <2>8. \A c \in r.used : r.data[c] = k.data[c]
    <3> SUFFICES ASSUME NEW c \in r.used PROVE r.data[c] = k.data[c]
      OBVIOUS
    <3>1. c \in w.used /\ c # b
      BY <2>5
    <3>2. c \in Block
      BY <2>2, <3>1 DEF Disks
    <3> QED
      BY <2>2, <2>5, <3>1, <3>2 DEF FreedTo
  <2>9. FreedTo(k, i, n, r)
    BY <2>2, <2>5, <2>7, <2>8 DEF FreedTo
  <2> QED
    BY <2>1, <2>5, <2>9 DEF r
<1>5. \A n \in 1..N, w \in Disks : step(n, w) \in Disks
  <2> HIDE DEF list
  <2> QED
    BY <1>2, BfreeIs
<1> HIDE DEF step
<1>6. \E g : g = [n \in 0..N |-> IF n = 0 THEN k ELSE step(n, g[n - 1])]
  <2>1. d \in Transitions(Disks, N)
    BY <1>5 DEF Transitions
  <2>2. PICK g \in [0..N -> Disks] : g[0] = k /\ \A n \in 1..N : g[n] = d[n][g[n - 1]]
    <3> HIDE DEF d
    <3>1. \E g : IsRun(g, Disks, k, N, d)
      BY <1>0, <2>1, Iteration
    <3> QED
      BY <3>1 DEF IsRun
  <2>3. \A n \in 1..N : n - 1 \in 0..N
    BY <1>1
  <2>4. \A n \in 1..N : g[n] = step(n, g[n - 1])
    BY <2>2, <2>3
  <2>5. g = [n \in 0..N |-> IF n = 0 THEN k ELSE step(n, g[n - 1])]
    BY <2>2, <2>3, <2>4
  <2> QED
    BY <2>5
<1> DEFINE after[n \in 0..N] == IF n = 0 THEN k ELSE step(n, after[n - 1])
<1>7. after = [n \in 0..N |-> IF n = 0 THEN k ELSE step(n, after[n - 1])]
  <2> HIDE DEF P, d
  <2> QED
    BY <1>6
<1>8. Freed(k, list) = after[N]
  BY <1>2 DEF Freed, step
<1> HIDE DEF after
<1>9. after[0] = k /\ \A n \in 1..N : after[n] = step(n, after[n - 1])
  BY <1>7
<1>10. after[N] \in P[N]
  <2>1. \A n \in 1..N : after[n - 1] \in P[n - 1] => after[n] \in P[n]
    BY <1>4, <1>9
  <2>2. N \in 0..N
    OBVIOUS
  <2> HIDE DEF P
  <2>3. \A n \in 0..N : after[n] \in P[n]
    BY <1>3, <1>9, <2>1, Steps
  <2> QED
    BY <2>2, <2>3
<1> QED
  BY <1>1, <1>8, <1>10

\* itrunc() empties the file and changes no other.
LEMMA ItruncIs ==
  ASSUME NEW k, Sound(k), Filled(k), NEW i \in Inode, NEW r, r = Itrunc(k, i)
  PROVE  /\ Sound(r) /\ Filled(r) /\ Content(r, i) = <<>>
         /\ \A j \in Inode : j # i => Content(r, j) = Content(k, j)
<1> DEFINE q == Freed(k, [n \in 1..MAXFILE + 1 |-> Entry(k, i, n - 1)])
           none == [n \in 0..NDIRECT |-> 0]
           addrs == [k.addrs EXCEPT ![i] = none]
           size == [k.size EXCEPT ![i] = 0]
<1>0. k \in Disks
  BY DEF Sound
<1>1. FreedTo(k, i, MAXFILE + 1, q)
  BY FreedIs
<1> HIDE DEF q
<1>2. r = [[q EXCEPT !.addrs = [q.addrs EXCEPT ![i] = none]] EXCEPT !.size = [q.size EXCEPT ![i] = 0]]
  BY DEF Itrunc, Emptied, q
<1>3. r = [[q EXCEPT !.addrs = addrs] EXCEPT !.size = size]
  BY <1>1, <1>2 DEF FreedTo
<1>4. /\ addrs \in [Inode -> [0..NDIRECT -> Block \cup {0}]] /\ size \in [Inode -> 0..MAXFILE]
      /\ \A n \in 0..NDIRECT : addrs[i][n] = 0
      /\ size[i] = 0 /\ \A j \in Inode : j # i => addrs[j] = k.addrs[j] /\ size[j] = k.size[j]
  <2>1. k.addrs \in [Inode -> [0..NDIRECT -> Block \cup {0}]] /\ k.size \in [Inode -> 0..MAXFILE]
    BY <1>0 DEF Disks
  <2>2. none \in [0..NDIRECT -> Block \cup {0}] /\ (\A n \in 0..NDIRECT : none[n] = 0) /\ 0 \in 0..MAXFILE
    BY Sizes
  <2> HIDE DEF none
  <2> QED
    BY <2>1, <2>2
<1> HIDE DEF addrs, size
<1>5. r = [used |-> q.used, data |-> q.data, ind |-> q.ind, addrs |-> addrs,
           size |-> size, bad |-> q.bad]
  BY <1>1, <1>3 DEF FreedTo, Disks
<1>a. /\ r.used = q.used /\ r.data = q.data /\ r.ind = q.ind /\ r.addrs = addrs
      /\ r.size = size /\ r.bad = q.bad
  BY <1>5
<1>b. /\ q \in Disks /\ q.bad = "" /\ q.ind = k.ind
      /\ \A c \in q.used : q.data[c] = k.data[c]
  BY <1>1 DEF FreedTo
<1>c. r.used = k.used \ {Entry(k, i, m) : m \in 0..(MAXFILE + 1) - 1}
  BY <1>1, <1>a DEF FreedTo
<1>6. r \in Disks
  <2>1. /\ q.used \in SUBSET Block /\ q.data \in [Block -> Val \cup {0}]
        /\ q.ind \in [Block -> [0..NINDIRECT - 1 -> Block \cup {0}]]
        /\ q.bad \in {"", "bmap: out of range", "freeing free block"}
    BY <1>b DEF Disks
  <2> QED
    BY <1>4, <1>5, <1>a, <2>1, DiskMade
<1>7. (\A c \in r.used : r.data[c] = k.data[c]) /\ r.bad = "" /\ r.ind = k.ind
      /\ r.addrs = addrs /\ r.size = size
  BY <1>a, <1>b
<1>8. MAXFILE \in 0..MAXFILE /\ (MAXFILE + 1) - 1 = MAXFILE /\ NDIRECT \in 0..NDIRECT
  BY Sizes
<1>9. ASSUME NEW n \in 0..MAXFILE PROVE Entry(r, i, n) = 0
  <2>1. r.addrs[i][NDIRECT] = 0 /\ (n < NDIRECT => r.addrs[i][n] = 0)
    <3>1. n < NDIRECT => n \in 0..NDIRECT
      BY Sizes
    <3> QED
      BY <1>4, <1>7, <1>8, <3>1
  <2> QED
    BY <2>1 DEF Entry, Addr
<1>10. ASSUME NEW j \in Inode, j # i, NEW n \in 0..MAXFILE PROVE Entry(r, j, n) = Entry(k, j, n)
  <2>1. r.addrs[j] = k.addrs[j] /\ r.ind = k.ind
    BY <1>4, <1>7, <1>10
  <2> QED
    BY <2>1 DEF Entry, Addr
<1>11. ASSUME NEW j \in Inode, NEW n \in 0..MAXFILE, Entry(r, j, n) # 0
       PROVE  /\ j # i /\ Entry(r, j, n) = Entry(k, j, n) /\ Entry(r, j, n) \in r.used
              /\ \A p \in Inode, m \in 0..MAXFILE : Entry(r, p, m) = Entry(r, j, n) => p = j /\ m = n
  <2>1. j # i /\ Entry(r, j, n) = Entry(k, j, n)
    BY <1>9, <1>10, <1>11
  <2>2. /\ Entry(k, j, n) \in k.used
        /\ \A p \in Inode, m \in 0..MAXFILE : Entry(k, p, m) = Entry(k, j, n) => p = j /\ m = n
    BY <1>11, <2>1, OwnedIs
  <2>3. Entry(k, j, n) \notin {Entry(k, i, m) : m \in 0..(MAXFILE + 1) - 1}
    BY <1>8, <2>1, <2>2
  <2>4. ASSUME NEW p \in Inode, NEW m \in 0..MAXFILE, Entry(r, p, m) = Entry(r, j, n)
        PROVE  p = j /\ m = n
    <3>1. Entry(r, p, m) = Entry(k, p, m)
      BY <1>9, <1>10, <1>11, <2>4
    <3> QED
      BY <2>1, <2>2, <2>4, <3>1
  <2> QED
    BY <1>c, <2>1, <2>2, <2>3, <2>4
<1>12. ASSUME NEW b \in r.used PROVE \E j \in Inode, n \in 0..MAXFILE : Entry(r, j, n) = b
  <2>1. b \in k.used
    BY <1>c
  <2>2. PICK j \in Inode, n \in 0..MAXFILE : Entry(k, j, n) = b
    BY <2>1 DEF Sound, Owned
  <2>3. j # i
    BY <1>c, <1>8, <2>2
  <2> QED
    BY <1>10, <2>2, <2>3
<1>13. Sound(r)
  <2>1. \A j \in Inode, n \in 0..MAXFILE : Entry(r, j, n) # 0 => Entry(r, j, n) \in r.used
    BY <1>11
  <2>2. \A j, p \in Inode, n, m \in 0..MAXFILE :
          Entry(r, j, n) # 0 /\ Entry(r, j, n) = Entry(r, p, m) => j = p /\ n = m
    BY <1>11
  <2>3. \A b \in r.used : \E j \in Inode, n \in 0..MAXFILE : Entry(r, j, n) = b
    BY <1>12
  <2> QED
    BY <1>6, <1>7, <2>1, <2>2, <2>3 DEF Sound, Owned
<1>14. Filled(r)
  <2> SUFFICES ASSUME NEW j \in Inode, NEW n \in 0..r.size[j] - 1 PROVE Entry(r, j, n) # 0
    BY DEF Filled
  <2>1. j # i
    <3>1. \A m \in 0..0 - 1 : FALSE
      OBVIOUS
    <3> QED
      BY <1>4, <1>7, <3>1
  <2>2. r.size[j] = k.size[j] /\ k.size[j] \in 0..MAXFILE
    BY <1>0, <1>4, <1>7, <2>1, ContentIs
  <2>3. n \in 0..MAXFILE
    BY <2>2, Sizes
  <2> QED
    BY <1>10, <2>1, <2>2, <2>3 DEF Filled
<1>15. Content(r, i) = <<>>
  <2>1. r.size[i] = 0
    BY <1>4, <1>7
  <2> QED
    BY <2>1 DEF Content
<1>16. ASSUME NEW j \in Inode, j # i PROVE Content(r, j) = Content(k, j)
  <2>1. r.size[j] = k.size[j] /\ k.size[j] \in 0..MAXFILE
    BY <1>0, <1>4, <1>7, <1>16, ContentIs
  <2>2. ASSUME NEW n \in 1..k.size[j] PROVE Content(r, j)[n] = Content(k, j)[n]
    <3>1. n - 1 \in 0..k.size[j] - 1 /\ n - 1 \in 0..MAXFILE
      BY <2>1, Sizes
    <3>2. Entry(r, j, n - 1) = Entry(k, j, n - 1) /\ Entry(k, j, n - 1) # 0
      BY <1>10, <1>16, <3>1 DEF Filled
    <3>3. Entry(r, j, n - 1) \in r.used
      BY <1>11, <3>1, <3>2
    <3>4. r.data[Entry(r, j, n - 1)] = k.data[Entry(k, j, n - 1)]
      BY <1>7, <3>2, <3>3
    <3> QED
      BY <1>0, <1>6, <2>1, <3>4, ContentIs
  <2> QED
    BY <2>1, <2>2 DEF Content
<1> QED
  BY <1>13, <1>14, <1>15, <1>16

--------------------------------------------------------------------------------
(* mkfs.                                                                     *)

MkfsStates ==
  [k : [used : {{}}, data : [Block -> Val \cup {0}],
        ind : [Block -> [0..NINDIRECT - 1 -> Nat]],
        addrs : [Inode -> [0..NDIRECT -> Nat]], size : [Inode -> Nat], bad : {""}],
   free : Nat]

\* The blocks below free are in one place each, and hold the files.
Packed(w) ==
  /\ w \in MkfsStates /\ Sound(Marked(w))
  /\ \A b \in Block : b >= w.free => \A m \in 0..NINDIRECT - 1 : w.k.ind[b][m] = 0
  /\ \A i \in Inode, n \in 0..MAXFILE - 1 :
       IF n < w.k.size[i]
       THEN /\ Entry(Marked(w), i, n) # 0
            /\ w.k.data[Entry(Marked(w), i, n)] \in Val
       ELSE Entry(Marked(w), i, n) = 0

\* The state of mkfs after iappend(), field by field.
LEMMA MkfsAppendIs ==
  ASSUME NEW w \in MkfsStates, NEW i \in Inode, NEW val \in Val, NEW r,
         r = MkfsAppend(w, i, val)
  PROVE  LET fbn == w.k.size[i]
             direct == fbn < NDIRECT
             new == ~direct /\ w.k.addrs[i][NDIRECT] = 0
             a == IF new THEN w.free ELSE w.k.addrs[i][NDIRECT]
             x == IF new THEN w.free + 1 ELSE w.free
         IN /\ r \in MkfsStates /\ r.free = x + 1
            /\ \A j \in Inode : r.k.size[j] = IF j = i THEN fbn + 1 ELSE w.k.size[j]
            /\ \A b \in Block : r.k.data[b] = IF b = x THEN val ELSE w.k.data[b]
            /\ \A j \in Inode, m \in 0..NDIRECT :
                 r.k.addrs[j][m] = IF j = i /\ direct /\ m = fbn THEN x
                                   ELSE IF j = i /\ new /\ m = NDIRECT THEN w.free
                                   ELSE w.k.addrs[j][m]
            /\ \A b \in Block, m \in 0..NINDIRECT - 1 :
                 r.k.ind[b][m] = IF ~direct /\ b = a /\ m = fbn - NDIRECT THEN x
                                 ELSE w.k.ind[b][m]
<1> DEFINE k == w.k
           fbn == k.size[i]
           direct == fbn < NDIRECT
           new == ~direct /\ k.addrs[i][NDIRECT] = 0
           a == IF new THEN w.free ELSE k.addrs[i][NDIRECT]
           x == IF new THEN w.free + 1 ELSE w.free
           row == IF direct THEN [k.addrs[i] EXCEPT ![fbn] = x]
                  ELSE IF new THEN [k.addrs[i] EXCEPT ![NDIRECT] = w.free] ELSE k.addrs[i]
           addrs == [k.addrs EXCEPT ![i] = row]
           ind == IF direct THEN k.ind
                  ELSE [k.ind EXCEPT ![a] = [k.ind[a] EXCEPT ![fbn - NDIRECT] = x]]
           data == [k.data EXCEPT ![x] = val]
           size == [k.size EXCEPT ![i] = fbn + 1]
<1>1. /\ k.used = {} /\ k.data \in [Block -> Val \cup {0}]
      /\ k.ind \in [Block -> [0..NINDIRECT - 1 -> Nat]]
      /\ k.addrs \in [Inode -> [0..NDIRECT -> Nat]] /\ k.size \in [Inode -> Nat]
      /\ k.bad = "" /\ w.free \in Nat
      /\ k = [used |-> k.used, data |-> k.data, ind |-> k.ind, addrs |-> k.addrs,
              size |-> k.size, bad |-> k.bad]
  BY DEF MkfsStates
<1> HIDE DEF k
<1>2. fbn \in Nat /\ x \in Nat /\ k.addrs[i] \in [0..NDIRECT -> Nat] /\ a \in Nat
      /\ NDIRECT \in 0..NDIRECT
  <2>1. fbn \in Nat /\ k.addrs[i] \in [0..NDIRECT -> Nat]
    BY <1>1
  <2>2. NDIRECT \in 0..NDIRECT
    BY Sizes
  <2>3. k.addrs[i][NDIRECT] \in Nat /\ w.free \in Nat
    BY <1>1, <2>1, <2>2
  <2> QED
    BY <2>1, <2>2, <2>3
<1>3. r = [k |-> [used |-> k.used, data |-> data, ind |-> ind, addrs |-> addrs,
                  size |-> size, bad |-> k.bad], free |-> x + 1]
  <2> DEFINE k1 == IF new THEN [k EXCEPT !.addrs[i][NDIRECT] = w.free] ELSE k
             k2 == IF direct THEN [k1 EXCEPT !.addrs[i][fbn] = x]
                   ELSE [k1 EXCEPT !.ind[k1.addrs[i][NDIRECT]][fbn - NDIRECT] = x]
             addrs1 == IF new THEN [k.addrs EXCEPT ![i] = [k.addrs[i] EXCEPT ![NDIRECT] = w.free]]
                       ELSE k.addrs
  <2>1. r = [k |-> [k2 EXCEPT !.data = [k2.data EXCEPT ![x] = val],
                              !.size = [k2.size EXCEPT ![i] = fbn + 1]], free |-> x + 1]
    BY DEF MkfsAppend, k
  <2>2. k1 = [used |-> k.used, data |-> k.data, ind |-> k.ind, addrs |-> addrs1,
              size |-> k.size, bad |-> k.bad]
    <3>1. CASE new
      <4>1. k1 = [k EXCEPT !.addrs = addrs1]
        BY <3>1
      <4> HIDE DEF addrs1, k1
      <4> QED
        BY <1>1, <4>1
    <3>2. CASE ~new
      BY <1>1, <3>2
    <3> QED
      BY <3>1, <3>2
  <2>3. k1.addrs[i][NDIRECT] = a
    <3>1. addrs1[i][NDIRECT] = a
      BY <1>1, <1>2
    <3> QED
      BY <2>2, <3>1
  <2> HIDE DEF k1
  <2>4. k2 = [used |-> k.used, data |-> k.data, ind |-> ind, addrs |-> addrs,
              size |-> k.size, bad |-> k.bad]
    <3>1. CASE direct
      <4>1. k2 = [k1 EXCEPT !.addrs = [k1.addrs EXCEPT ![i] = [k1.addrs[i] EXCEPT ![fbn] = x]]]
        BY <3>1
      <4>2. k1.addrs = k.addrs /\ ind = k.ind
        BY <2>2, <3>1
      <4>3. k2 = [k1 EXCEPT !.addrs = addrs]
        BY <3>1, <4>1, <4>2
      <4> HIDE DEF k2, addrs, ind
      <4> QED
        BY <2>2, <4>2, <4>3
    <3>2. CASE ~direct
      <4>1. k2 = [k1 EXCEPT !.ind = [k1.ind EXCEPT ![a] = [k1.ind[a] EXCEPT ![fbn - NDIRECT] = x]]]
        BY <2>3, <3>2
      <4>2. k1.addrs = addrs1 /\ k1.ind = k.ind
        BY <2>2
      <4>3. k2 = [k1 EXCEPT !.ind = ind]
        BY <3>2, <4>1, <4>2
      <4>4. addrs1 = addrs
        <5>1. CASE new
          BY <3>2, <5>1
        <5>2. CASE ~new
          <6>1. addrs = [k.addrs EXCEPT ![i] = k.addrs[i]]
            BY <3>2, <5>2
          <6> QED
            BY <1>1, <5>2, <6>1
        <5> QED
          BY <5>1, <5>2
      <4> HIDE DEF k2, addrs, ind, addrs1
      <4> QED
        BY <2>2, <4>2, <4>3, <4>4
    <3> QED
      BY <3>1, <3>2
  <2> HIDE DEF k2
  <2>5. k2.data = k.data /\ k2.size = k.size
    BY <2>4
  <2>6. r = [k |-> [k2 EXCEPT !.data = data, !.size = size], free |-> x + 1]
    BY <2>1, <2>5
  <2> HIDE DEF data, size, addrs, ind, x
  <2> DEFINE k3 == [k2 EXCEPT !.data = data, !.size = size]
  <2>8. r = [k |-> k3, free |-> x + 1]
    BY <2>6
  <2>9. k3 = [k2 EXCEPT !.data = data, !.size = size]
    OBVIOUS
  <2> HIDE DEF k3
  <2>7. k3 = [used |-> k.used, data |-> data, ind |-> ind, addrs |-> addrs,
              size |-> size, bad |-> k.bad]
    BY <2>4, <2>9
  <2> QED
    BY <2>7, <2>8
<1>4. data \in [Block -> Val \cup {0}]
      /\ \A b \in Block : data[b] = IF b = x THEN val ELSE k.data[b]
  <2> HIDE DEF x
  <2> QED
    BY <1>1
<1>5. size \in [Inode -> Nat] /\ \A j \in Inode : size[j] = IF j = i THEN fbn + 1 ELSE k.size[j]
  <2>1. PICK q \in Nat : q = fbn + 1
    BY <1>2
  <2>2. size = [k.size EXCEPT ![i] = q]
    BY <2>1
  <2> HIDE DEF size
  <2>3. size \in [Inode -> Nat] /\ \A j \in Inode : size[j] = IF j = i THEN q ELSE k.size[j]
    BY <1>1, <2>2
  <2> QED
    BY <2>1, <2>3
<1>6. row \in [0..NDIRECT -> Nat] /\ \A m \in 0..NDIRECT :
        row[m] = IF direct /\ m = fbn THEN x ELSE IF new /\ m = NDIRECT THEN w.free ELSE k.addrs[i][m]
  <2> HIDE DEF x
  <2>1. CASE direct
    BY <1>1, <1>2, <2>1
  <2>2. CASE ~direct
    BY <1>1, <1>2, <2>2
  <2> QED
    BY <2>1, <2>2
<1>7. addrs \in [Inode -> [0..NDIRECT -> Nat]]
      /\ \A j \in Inode : addrs[j] = IF j = i THEN row ELSE k.addrs[j]
  <2> HIDE DEF row
  <2> QED
    BY <1>1, <1>6
<1>8. ind \in [Block -> [0..NINDIRECT - 1 -> Nat]]
      /\ \A b \in Block, m \in 0..NINDIRECT - 1 :
           ind[b][m] = IF ~direct /\ b = a /\ m = fbn - NDIRECT THEN x ELSE k.ind[b][m]
  <2> HIDE DEF a, x, direct
  <2>1. CASE direct
    BY <1>1, <2>1
  <2>2. CASE ~direct /\ a \in Block
    <3> DEFINE e == [k.ind[a] EXCEPT ![fbn - NDIRECT] = x]
    <3>1. e \in [0..NINDIRECT - 1 -> Nat] /\ \A m \in 0..NINDIRECT - 1 :
            e[m] = IF m = fbn - NDIRECT THEN x ELSE k.ind[a][m]
      BY <1>1, <1>2, <2>2
    <3>2. ind = [k.ind EXCEPT ![a] = e]
      BY <2>2
    <3> HIDE DEF e, ind
    <3> QED
      BY <1>1, <2>2, <3>1, <3>2
  <2>3. CASE ~direct /\ a \notin Block
    <3>1. ind = k.ind
      BY <1>1, <2>3
    <3> QED
      BY <1>1, <2>3, <3>1
  <2> QED
    BY <2>1, <2>2, <2>3
<1> HIDE DEF x, row, addrs, ind, data, size, a
<1>9. /\ r.free = x + 1 /\ r.k.size = size /\ r.k.data = data /\ r.k.addrs = addrs
      /\ r.k.ind = ind /\ r \in MkfsStates
  <2>1. /\ r.free = x + 1
        /\ r.k = [used |-> k.used, data |-> data, ind |-> ind, addrs |-> addrs,
                  size |-> size, bad |-> k.bad]
        /\ r = [k |-> r.k, free |-> r.free]
    BY <1>3
  <2>2. r.k.size = size /\ r.k.data = data /\ r.k.addrs = addrs /\ r.k.ind = ind
    BY <2>1
  <2>3. r.k \in [used : {{}}, data : [Block -> Val \cup {0}],
                 ind : [Block -> [0..NINDIRECT - 1 -> Nat]],
                 addrs : [Inode -> [0..NDIRECT -> Nat]], size : [Inode -> Nat], bad : {""}]
    <3> DEFINE e == r.k
    <3>0. /\ e = [used |-> k.used, data |-> data, ind |-> ind, addrs |-> addrs,
                  size |-> size, bad |-> k.bad]
          /\ e.size = size /\ e.data = data /\ e.addrs = addrs /\ e.ind = ind
      BY <2>1, <2>2
    <3> HIDE DEF e
    <3>1. e.used = {} /\ e.bad = ""
      BY <1>1, <3>0
    <3>2. e = [used |-> e.used, data |-> e.data, ind |-> e.ind, addrs |-> e.addrs,
               size |-> e.size, bad |-> e.bad]
      BY <1>1, <3>0, <3>1
    <3>3. e \in [used : {{}}, data : [Block -> Val \cup {0}],
                 ind : [Block -> [0..NINDIRECT - 1 -> Nat]],
                 addrs : [Inode -> [0..NDIRECT -> Nat]], size : [Inode -> Nat], bad : {""}]
      BY <1>4, <1>5, <1>7, <1>8, <3>0, <3>1, <3>2
    <3> QED
      BY <3>3 DEF e
  <2>4. r.free \in Nat
    BY <1>2, <2>1
  <2> QED
    BY <2>1, <2>2, <2>3, <2>4 DEF MkfsStates
<1> QED
  BY <1>4, <1>5, <1>6, <1>7, <1>8, <1>9, ZenonT(60) DEF k, a, x

\* The disk after balloc() of mkfs.c, field by field.
LEMMA MarkedIs ==
  ASSUME NEW w \in MkfsStates
  PROVE  /\ Marked(w).used = {b \in Block : b < w.free} /\ Marked(w).bad = ""
         /\ Marked(w).data = w.k.data /\ Marked(w).ind = w.k.ind
         /\ Marked(w).addrs = w.k.addrs /\ Marked(w).size = w.k.size
         /\ Marked(w) = [used |-> Marked(w).used, data |-> Marked(w).data,
                         ind |-> Marked(w).ind, addrs |-> Marked(w).addrs,
                         size |-> Marked(w).size, bad |-> Marked(w).bad]
         /\ w.k.data \in [Block -> Val \cup {0}] /\ w.k.size \in [Inode -> Nat]
         /\ w.k.ind \in [Block -> [0..NINDIRECT - 1 -> Nat]]
         /\ w.k.addrs \in [Inode -> [0..NDIRECT -> Nat]] /\ w.free \in Nat
<1> DEFINE k == w.k
           q == Marked(w)
           used == {b \in Block : b < w.free}
<1>1. /\ k = [used |-> k.used, data |-> k.data, ind |-> k.ind, addrs |-> k.addrs,
              size |-> k.size, bad |-> k.bad]
      /\ k.bad = ""
      /\ k.data \in [Block -> Val \cup {0}] /\ k.size \in [Inode -> Nat]
      /\ k.ind \in [Block -> [0..NINDIRECT - 1 -> Nat]]
      /\ k.addrs \in [Inode -> [0..NDIRECT -> Nat]] /\ w.free \in Nat
  BY DEF MkfsStates
<1>2. q = [k EXCEPT !.used = used]
  BY DEF Marked
<1> HIDE DEF k, q, used
<1>3. q = [used |-> used, data |-> k.data, ind |-> k.ind, addrs |-> k.addrs,
           size |-> k.size, bad |-> k.bad]
  BY <1>1, <1>2
<1>4. /\ q.used = used /\ q.bad = "" /\ q.data = k.data /\ q.ind = k.ind
      /\ q.addrs = k.addrs /\ q.size = k.size
      /\ q = [used |-> q.used, data |-> q.data, ind |-> q.ind, addrs |-> q.addrs,
              size |-> q.size, bad |-> q.bad]
  BY <1>1, <1>3
<1> QED
  BY <1>1, <1>4 DEF k, q, used

\* iappend() takes the next one or two blocks.
LEMMA AppendPacked ==
  ASSUME NEW w, Packed(w), NEW i \in Inode, NEW val \in Val, w.k.size[i] < MAXFILE,
         NEW r, r = MkfsAppend(w, i, val), w.free..r.free - 1 \subseteq Block
  PROVE  Packed(r)
<1> DEFINE k == Marked(w)
           q == Marked(r)
           fbn == w.k.size[i]
           direct == fbn < NDIRECT
           new == ~direct /\ w.k.addrs[i][NDIRECT] = 0
           a == IF new THEN w.free ELSE w.k.addrs[i][NDIRECT]
           x == IF new THEN w.free + 1 ELSE w.free
<1>1. /\ w \in MkfsStates /\ Sound(k) /\ k \in Disks
      /\ k.used = {b \in Block : b < w.free} /\ k.bad = "" /\ k.data = w.k.data
      /\ k.ind = w.k.ind /\ k.addrs = w.k.addrs /\ k.size = w.k.size /\ w.free \in Nat
  BY MarkedIs DEF Packed, Sound
<1>0. /\ r \in MkfsStates /\ r.free = x + 1
      /\ \A j \in Inode : r.k.size[j] = IF j = i THEN fbn + 1 ELSE w.k.size[j]
      /\ \A b \in Block : r.k.data[b] = IF b = x THEN val ELSE w.k.data[b]
      /\ \A j \in Inode, m \in 0..NDIRECT :
           r.k.addrs[j][m] = IF j = i /\ direct /\ m = fbn THEN x
                             ELSE IF j = i /\ new /\ m = NDIRECT THEN w.free
                             ELSE w.k.addrs[j][m]
      /\ \A b \in Block, m \in 0..NINDIRECT - 1 :
           r.k.ind[b][m] = IF ~direct /\ b = a /\ m = fbn - NDIRECT THEN x ELSE w.k.ind[b][m]
  <2>1. w \in MkfsStates
    BY DEF Packed
  <2> QED
    BY <2>1, MkfsAppendIs
<1>3. /\ q.used = {b \in Block : b < r.free} /\ q.bad = "" /\ q.data = r.k.data
      /\ q.ind = r.k.ind /\ q.addrs = r.k.addrs /\ q.size = r.k.size
      /\ q = [used |-> q.used, data |-> q.data, ind |-> q.ind, addrs |-> q.addrs,
              size |-> q.size, bad |-> q.bad]
      /\ q.data \in [Block -> Val \cup {0}] /\ q.size \in [Inode -> Nat]
      /\ q.ind \in [Block -> [0..NINDIRECT - 1 -> Nat]]
      /\ q.addrs \in [Inode -> [0..NDIRECT -> Nat]]
  <2>1. r \in MkfsStates
    BY <1>0
  <2> QED
    BY <2>1, MarkedIs
<1>4. /\ \A b \in Block : b >= w.free => \A m \in 0..NINDIRECT - 1 : k.ind[b][m] = 0
      /\ \A j \in Inode, n \in 0..MAXFILE - 1 :
           IF n < k.size[j] THEN Entry(k, j, n) # 0 /\ k.data[Entry(k, j, n)] \in Val
           ELSE Entry(k, j, n) = 0
  BY <1>1 DEF Packed
<1> HIDE DEF k, q, fbn, direct, new, a, x
<1>2. /\ \A j \in Inode : q.size[j] = IF j = i THEN fbn + 1 ELSE k.size[j]
      /\ \A j \in Inode, m \in 0..NDIRECT :
           q.addrs[j][m] = IF j = i /\ direct /\ m = fbn THEN x
                           ELSE IF j = i /\ new /\ m = NDIRECT THEN w.free
                           ELSE k.addrs[j][m]
      /\ \A b \in Block, m \in 0..NINDIRECT - 1 :
           q.ind[b][m] = IF ~direct /\ b = a /\ m = fbn - NDIRECT THEN x ELSE k.ind[b][m]
  <2>1. \A j \in Inode : q.size[j] = IF j = i THEN fbn + 1 ELSE k.size[j]
    <3>1. q.size = r.k.size /\ k.size = w.k.size
      BY <1>1, <1>3
    <3> QED
      BY <1>0, <3>1
  <2>2. \A j \in Inode, m \in 0..NDIRECT :
          q.addrs[j][m] = IF j = i /\ direct /\ m = fbn THEN x
                          ELSE IF j = i /\ new /\ m = NDIRECT THEN w.free
                          ELSE k.addrs[j][m]
    <3>1. q.addrs = r.k.addrs /\ k.addrs = w.k.addrs
      BY <1>1, <1>3
    <3> QED
      BY <1>0, <3>1
  <2>3. \A b \in Block, m \in 0..NINDIRECT - 1 :
          q.ind[b][m] = IF ~direct /\ b = a /\ m = fbn - NDIRECT THEN x ELSE k.ind[b][m]
    <3>1. q.ind = r.k.ind /\ k.ind = w.k.ind
      BY <1>1, <1>3
    <3> QED
      BY <1>0, <3>1
  <2> QED
    BY <2>1, <2>2, <2>3
<1>5. /\ k.used \subseteq Block /\ k.data \in [Block -> Val \cup {0}]
      /\ k.ind \in [Block -> [0..NINDIRECT - 1 -> Block \cup {0}]]
      /\ k.addrs \in [Inode -> [0..NDIRECT -> Block \cup {0}]]
      /\ k.size \in [Inode -> 0..MAXFILE] /\ NDIRECT \in 0..NDIRECT
  <2>1. k \in Disks
    BY <1>1
  <2>2. NDIRECT \in 0..NDIRECT
    BY Sizes
  <2> QED
    BY <2>1, <2>2, DiskFields
<1>6. /\ fbn = k.size[i] /\ fbn \in Nat /\ fbn < MAXFILE /\ fbn \in 0..MAXFILE - 1 /\ fbn + 1 \in 0..MAXFILE
      /\ k.addrs[i][NDIRECT] \in Block \cup {0}
  <2>1. fbn \in 0..MAXFILE /\ fbn < MAXFILE /\ fbn = k.size[i]
    <3>1. k.size[i] \in 0..MAXFILE /\ k.size[i] = fbn
      BY <1>1, <1>5 DEF fbn
    <3> QED
      BY <3>1 DEF fbn
  <2>2. k.addrs[i][NDIRECT] \in Block \cup {0}
    BY <1>5
  <2> QED
    BY <2>1, <2>2, Sizes
<1>7. /\ w.free \in Block /\ x \in Block /\ x \in Nat /\ w.free <= x
      /\ w.free \notin k.used /\ x \notin k.used
  <2>1. w.free <= x /\ x \in Nat /\ w.free \in w.free..r.free - 1 /\ x \in w.free..r.free - 1
    <3>1. w.free \in Nat /\ r.free = x + 1
      BY <1>0, <1>1
    <3>2. x = w.free \/ x = w.free + 1
      BY DEF x
    <3> QED
      BY <3>1, <3>2
  <2>2. w.free \in Block /\ x \in Block
    BY <2>1
  <2>3. w.free \notin k.used /\ x \notin k.used
    <3>1. \A c \in k.used : c < w.free
      BY <1>1
    <3>2. ~(w.free < w.free) /\ ~(x < w.free)
      <4>1. w.free \in Nat
        BY <1>1
      <4> QED
        BY <2>1, <4>1
    <3> QED
      BY <3>1, <3>2
  <2> QED
    BY <2>1, <2>2, <2>3
<1>8. q \in Disks
  <2>1. q.addrs \in [Inode -> [0..NDIRECT -> Block \cup {0}]]
    <3>1. ASSUME NEW j \in Inode, NEW m \in 0..NDIRECT PROVE q.addrs[j][m] \in Block \cup {0}
      <4>1. k.addrs[j][m] \in Block \cup {0}
        BY <1>5, SMTT(40)
      <4> QED
        BY <1>2, <1>7, <4>1
    <3>2. ASSUME NEW j \in Inode PROVE q.addrs[j] \in [0..NDIRECT -> Block \cup {0}]
      BY <1>3, <3>1
    <3> QED
      BY <1>3, <3>2
  <2>2. q.ind \in [Block -> [0..NINDIRECT - 1 -> Block \cup {0}]]
    <3>1. ASSUME NEW b \in Block, NEW m \in 0..NINDIRECT - 1 PROVE q.ind[b][m] \in Block \cup {0}
      <4>1. k.ind[b][m] \in Block \cup {0}
        <5>1. k.ind[b] \in [0..NINDIRECT - 1 -> Block \cup {0}]
          BY <1>5
        <5> QED
          BY <5>1
      <4> QED
        BY <1>2, <1>7, <4>1
    <3>2. ASSUME NEW b \in Block PROVE q.ind[b] \in [0..NINDIRECT - 1 -> Block \cup {0}]
      BY <1>3, <3>1
    <3> QED
      BY <1>3, <3>2
  <2>3. q.size \in [Inode -> 0..MAXFILE]
    <3>1. ASSUME NEW j \in Inode PROVE q.size[j] \in 0..MAXFILE
      BY <1>2, <1>5, <1>6
    <3> QED
      BY <1>3, <3>1
  <2>4. q.used \in SUBSET Block
    BY <1>3
  <2> QED
    BY <1>3, <2>1, <2>2, <2>3, <2>4, DiskMade
<1>9. Entry(k, i, fbn) = 0
  <2>1. ~(fbn < k.size[i])
    BY <1>6
  <2> QED
    BY <1>4, <1>6, <2>1
<1>10. \A c \in Block : c # x => q.data[c] = k.data[c]
  BY <1>0, <1>1, <1>3
<1>a. /\ w.free \in Nat /\ x \in Nat /\ r.free = x + 1 /\ Block \subseteq Nat
      /\ k.bad = q.bad /\ Sound(k) /\ k \in Disks /\ k.data \in [Block -> Val \cup {0}]
      /\ i \in Inode /\ MAXFILE \in 0..MAXFILE
  <2>1. MAXFILE \in 0..MAXFILE /\ Block \subseteq Nat
    BY Sizes
  <2> QED
    BY <1>0, <1>1, <1>3, <1>7, <2>1, <1>5
<1>b. k.used = {b \in Block : b < w.free} /\ q.used = {b \in Block : b < x + 1}
  BY <1>0, <1>1, <1>3
<1>c. Entry(k, i, MAXFILE) = k.addrs[i][NDIRECT]
  BY <1>a, EntryIs
<1>d. /\ q.ind \in [Block -> [0..NINDIRECT - 1 -> Block \cup {0}]]
      /\ q.addrs \in [Inode -> [0..NDIRECT -> Block \cup {0}]]
  BY <1>8, DiskFields
<1>11. /\ Owned(q)
       /\ \A j \in Inode, m \in 0..MAXFILE - 1 :
            Entry(q, j, m) = IF j = i /\ m = fbn THEN x ELSE Entry(k, j, m)
  <2>0. \A m \in 0..MAXFILE - 1 : m \in 0..MAXFILE /\ m # MAXFILE
    BY Sizes
  <2>1. CASE direct
    <3>1. x = w.free /\ ~new
      BY <2>1 DEF x, new
    <3>2. q.used = k.used \cup {x}
      <4>1. \A b \in Block : b < x + 1 <=> b < x \/ b = x
        BY <1>a
      <4> QED
        BY <1>7, <1>b, <3>1, <4>1
    <3>3. \A c \in k.used : q.data[c] = k.data[c]
      BY <1>5, <1>7, <1>10
    <3>4. Takes(k, q, x)
      BY <1>7, <1>8, <1>a, <3>2, <3>3 DEF Takes
    <3>5. fbn \in 0..NDIRECT - 1
      BY <1>6, <2>1, Sizes DEF direct
    <3>6. \A j \in Inode, m \in 0..NDIRECT :
            q.addrs[j][m] = IF j = i /\ m = fbn THEN x ELSE k.addrs[j][m]
      BY <1>2, <2>1, <3>1
    <3>7. \A c \in k.used : q.ind[c] = k.ind[c]
      <4> SUFFICES ASSUME NEW c \in k.used PROVE q.ind[c] = k.ind[c]
        OBVIOUS
      <4>1. c \in Block /\ \A m \in 0..NINDIRECT - 1 : q.ind[c][m] = k.ind[c][m]
        BY <1>2, <1>5, <2>1
      <4>2. q.ind[c] \in [0..NINDIRECT - 1 -> Block \cup {0}] /\ k.ind[c] \in [0..NINDIRECT - 1 -> Block \cup {0}]
        BY <1>d, <1>5, <4>1
      <4>3. /\ q.ind[c] = [m \in 0..NINDIRECT - 1 |-> q.ind[c][m]]
            /\ k.ind[c] = [m \in 0..NINDIRECT - 1 |-> k.ind[c][m]]
        BY <4>2
      <4> QED
        BY <4>1, <4>3
    <3>8. PutIn(k, q, i, fbn, x)
      BY <1>9, <1>a, <3>4, <3>5, <3>6, <3>7, PutDirect
    <3>9. fbn \in 0..MAXFILE
      BY <1>6, <2>0
    <3>10. Owned(q)
      BY <1>a, <3>8, <3>9, PutInOwned DEF Sound
    <3> QED
      BY <2>0, <3>8, <3>10 DEF PutIn
  <2>2. CASE ~direct /\ ~new
    <3>1. x = w.free /\ a = w.k.addrs[i][NDIRECT] /\ a # 0 /\ a = k.addrs[i][NDIRECT]
      BY <1>1, <2>2 DEF x, a, new
    <3>2. q.used = k.used \cup {x}
      <4>1. \A b \in Block : b < x + 1 <=> b < x \/ b = x
        BY <1>a
      <4> QED
        BY <1>7, <1>b, <3>1, <4>1
    <3>3. \A c \in k.used : q.data[c] = k.data[c]
      BY <1>5, <1>7, <1>10
    <3>4. Takes(k, q, x)
      BY <1>7, <1>8, <1>a, <3>2, <3>3 DEF Takes
    <3>5. fbn \in NDIRECT..MAXFILE - 1
      BY <1>6, <2>2, Sizes DEF direct
    <3>6. q.addrs = k.addrs
      <4>1. \A j \in Inode, m \in 0..NDIRECT : q.addrs[j][m] = k.addrs[j][m]
        BY <1>2, <2>2
      <4>2. ASSUME NEW j \in Inode PROVE q.addrs[j] = k.addrs[j]
        <5>1. q.addrs[j] \in [0..NDIRECT -> Block \cup {0}] /\ k.addrs[j] \in [0..NDIRECT -> Block \cup {0}]
          BY <1>d, <1>5
        <5>2. /\ q.addrs[j] = [m \in 0..NDIRECT |-> q.addrs[j][m]]
              /\ k.addrs[j] = [m \in 0..NDIRECT |-> k.addrs[j][m]]
          BY <5>1
        <5> QED
          BY <4>1, <5>2
      <4> QED
        BY <1>d, <1>5, <4>2, SameFunction
    <3>7. \A c \in k.used : c # a => q.ind[c] = k.ind[c]
      <4> SUFFICES ASSUME NEW c \in k.used, c # a PROVE q.ind[c] = k.ind[c]
        OBVIOUS
      <4>1. c \in Block /\ \A m \in 0..NINDIRECT - 1 : q.ind[c][m] = k.ind[c][m]
        BY <1>2, <1>5
      <4>2. q.ind[c] \in [0..NINDIRECT - 1 -> Block \cup {0}] /\ k.ind[c] \in [0..NINDIRECT - 1 -> Block \cup {0}]
        BY <1>d, <1>5, <4>1
      <4>3. /\ q.ind[c] = [m \in 0..NINDIRECT - 1 |-> q.ind[c][m]]
            /\ k.ind[c] = [m \in 0..NINDIRECT - 1 |-> k.ind[c][m]]
        BY <4>2
      <4> QED
        BY <4>1, <4>3
    <3>8. a \in Block
      BY <1>6, <3>1
    <3>9. \A m \in 0..NINDIRECT - 1 : q.ind[a][m] = IF m = fbn - NDIRECT THEN x ELSE k.ind[a][m]
      BY <1>2, <2>2, <3>8
    <3>10. PutIn(k, q, i, fbn, x)
      BY <1>9, <1>a, <1>c, <3>1, <3>4, <3>5, <3>6, <3>7, <3>9, PutBeyond
    <3>11. fbn \in 0..MAXFILE
      BY <1>6, <2>0
    <3>12. Owned(q)
      BY <1>a, <3>10, <3>11, PutInOwned DEF Sound
    <3> QED
      BY <2>0, <3>10, <3>12 DEF PutIn
  <2>3. CASE new
    <3> DEFINE f == w.free
               k1 == [used |-> k.used \cup {f}, data |-> k.data, ind |-> k.ind,
                      addrs |-> q.addrs, size |-> k.size, bad |-> k.bad]
    <3>1. x = f + 1 /\ a = f /\ ~direct /\ k.addrs[i][NDIRECT] = 0
      BY <1>1, <2>3 DEF x, a, new
    <3>2. /\ k1.used = k.used \cup {f} /\ k1.data = k.data /\ k1.ind = k.ind
          /\ k1.addrs = q.addrs /\ k1.size = k.size /\ k1.bad = k.bad
          /\ k1 = [used |-> k1.used, data |-> k1.data, ind |-> k1.ind, addrs |-> k1.addrs,
                   size |-> k1.size, bad |-> k1.bad]
      OBVIOUS
    <3> HIDE DEF k1
    <3>3. k1 \in Disks
      <4>1. q.addrs \in [Inode -> [0..NDIRECT -> Block \cup {0}]]
        BY <1>8, DiskFields
      <4>2. k.bad \in {"", "bmap: out of range", "freeing free block"}
        BY <1>a, DiskFields
      <4> QED
        BY <1>5, <1>7, <3>2, <4>1, <4>2, DiskMade
    <3>4. Takes(k, k1, f)
      BY <1>7, <3>2, <3>3 DEF Takes
    <3>5. \A j \in Inode, m \in 0..NDIRECT :
            k1.addrs[j][m] = IF j = i /\ m = NDIRECT THEN f ELSE k.addrs[j][m]
      BY <1>2, <2>3, <3>1, <3>2
    <3>6. \A m \in 0..NINDIRECT - 1 : k1.ind[f][m] = 0
      BY <1>4, <1>7, <1>a, <3>2
    <3>7. PutIn(k, k1, i, MAXFILE, f)
      <4>1. Entry(k, i, MAXFILE) = 0
        BY <1>c, <3>1
      <4>2. \A c \in k.used : k1.ind[c] = k.ind[c]
        BY <3>2
      <4> QED
        BY <1>a, <3>4, <3>5, <3>6, <4>1, <4>2, PutIndirect
    <3>8. Sound(k1)
      <4>1. Owned(k1)
        BY <1>a, <3>7, PutInOwned DEF Sound
      <4> QED
        BY <1>a, <3>2, <3>3, <4>1 DEF Sound
    <3>9. Takes(k1, q, x)
      <4>1. q.used = k1.used \cup {x} /\ x \notin k1.used
        BY <1>7, <1>a, <1>b, <3>1, <3>2
      <4>2. \A c \in k1.used : q.data[c] = k1.data[c]
        BY <1>5, <1>7, <1>10, <3>2, <4>1
      <4> QED
        BY <1>7, <1>8, <1>a, <3>2, <4>1, <4>2 DEF Takes
    <3>10. fbn \in NDIRECT..MAXFILE - 1 /\ fbn \in 0..MAXFILE
      BY <1>6, <3>1, Sizes DEF direct
    <3>11. /\ Entry(k1, i, fbn) = 0 /\ Entry(k1, i, MAXFILE) = f /\ f # 0
           /\ \A j \in Inode, m \in 0..MAXFILE - 1 : Entry(k1, j, m) = Entry(k, j, m)
      <4>1. \A j \in Inode, m \in 0..MAXFILE - 1 : Entry(k1, j, m) = Entry(k, j, m)
        BY <2>0, <3>7 DEF PutIn
      <4>2. Entry(k1, i, MAXFILE) = f
        BY <1>a, <3>7 DEF PutIn
      <4> QED
        BY <1>6, <1>7, <1>9, <4>1, <4>2, Sizes
    <3>12. \A c \in k1.used : c # f => q.ind[c] = k1.ind[c]
      <4> SUFFICES ASSUME NEW c \in k.used PROVE q.ind[c] = k.ind[c]
        BY <3>2
      <4>1. c \in Block /\ c # a
        BY <1>5, <1>7, <3>1
      <4>2. \A m \in 0..NINDIRECT - 1 : q.ind[c][m] = k.ind[c][m]
        BY <1>2, <4>1
      <4>3. q.ind[c] \in [0..NINDIRECT - 1 -> Block \cup {0}] /\ k.ind[c] \in [0..NINDIRECT - 1 -> Block \cup {0}]
        BY <1>d, <1>5, <4>1
      <4>4. /\ q.ind[c] = [m \in 0..NINDIRECT - 1 |-> q.ind[c][m]]
            /\ k.ind[c] = [m \in 0..NINDIRECT - 1 |-> k.ind[c][m]]
        BY <4>3
      <4> QED
        BY <4>2, <4>4
    <3>13. \A m \in 0..NINDIRECT - 1 : q.ind[f][m] = IF m = fbn - NDIRECT THEN x ELSE k1.ind[f][m]
      BY <1>2, <1>7, <3>1, <3>2
    <3> HIDE DEF f
    <3>14. PutIn(k1, q, i, fbn, x)
      BY <3>2, <3>8, <3>9, <3>10, <3>11, <3>12, <3>13, PutBeyond
    <3>15. Owned(q)
      BY <3>8, <3>10, <3>14, PutInOwned DEF Sound
    <3> QED
      BY <2>0, <3>11, <3>14, <3>15 DEF PutIn
  <2> QED
    BY <2>1, <2>2, <2>3
<1>12. \A b \in Block : b >= r.free => \A m \in 0..NINDIRECT - 1 : r.k.ind[b][m] = 0
  <2> SUFFICES ASSUME NEW b \in Block, b >= r.free, NEW m \in 0..NINDIRECT - 1
               PROVE  q.ind[b][m] = 0
    BY <1>3
  <2>1. b >= w.free /\ b # x /\ b # w.free
    BY <1>7, <1>a
  <2>2. k.ind[b][m] = 0
    BY <1>4, <2>1
  <2>3. ~direct => b # a
    <3>1. a = w.free \/ a = k.addrs[i][NDIRECT]
      BY <1>1 DEF a
    <3>2. CASE a = k.addrs[i][NDIRECT]
      <4>1. a = 0 \/ a \in k.used
        BY <1>a, <1>c, <3>2, OwnedIs
      <4>2. b # 0 /\ b \notin k.used
        BY <1>a, <1>b, <2>1, Sizes
      <4> QED
        BY <4>1, <4>2
    <3> QED
      BY <2>1, <3>1, <3>2
  <2> QED
    BY <1>2, <2>2, <2>3
<1>13. ASSUME NEW j \in Inode, NEW n \in 0..MAXFILE - 1
       PROVE  IF n < r.k.size[j]
              THEN Entry(q, j, n) # 0 /\ r.k.data[Entry(q, j, n)] \in Val
              ELSE Entry(q, j, n) = 0
  <2>1. q.size[j] = r.k.size[j] /\ q.data = r.k.data /\ k.size[j] \in 0..MAXFILE /\ n \in 0..MAXFILE
    <3>1. n \in 0..MAXFILE
      BY Sizes
    <3> QED
      BY <1>3, <1>5, <3>1
  <2>2. Entry(q, j, n) = IF j = i /\ n = fbn THEN x ELSE Entry(k, j, n)
    BY <1>11
  <2>3. CASE j = i /\ n = fbn
    <3>1. n < q.size[j]
      BY <1>2, <1>6, <2>3
    <3>2. x # 0 /\ q.data[x] = val
      BY <1>0, <1>3, <1>7, Sizes
    <3> QED
      BY <2>1, <2>2, <2>3, <3>1, <3>2
  <2>4. CASE ~(j = i /\ n = fbn)
    <3>1. n < q.size[j] <=> n < k.size[j]
      BY <1>2, <1>6, <2>1, <2>4
    <3>2. Entry(k, j, n) # 0 => Entry(k, j, n) \in Block /\ Entry(k, j, n) # x
      BY <1>7, <1>a, <2>1, OwnedIs
    <3>3. Entry(k, j, n) # 0 => q.data[Entry(k, j, n)] = k.data[Entry(k, j, n)]
      BY <1>10, <3>2
    <3> QED
      BY <1>4, <2>1, <2>2, <2>4, <3>1, <3>3
  <2> QED
    BY <2>3, <2>4
<1> QED
  BY <1>0, <1>3, <1>8, <1>11, <1>12, <1>13 DEF Packed, Sound, q

\* A new disk holds nothing.
LEMMA FormattedPacked == Packed([k |-> Formatted, free |-> FirstBlock])
<1> DEFINE w == [k |-> Formatted, free |-> FirstBlock]
           q == Marked(w)
<1>1. FirstBlock \in Block /\ \A c \in Block : FirstBlock <= c
  <2>1. \E b \in Block : \A c \in Block : b <= c
    BY FileDataAssumption, Sizes, LeastOf
  <2> QED
    BY <2>1 DEF FirstBlock
<1>2. FirstBlock \in Nat /\ \A c \in Block : ~(c < FirstBlock)
  BY <1>1, Sizes
<1>3. /\ Formatted.used = {} /\ Formatted.bad = ""
      /\ Formatted.data = [b \in Block |-> 0] /\ Formatted.ind = [b \in Block |-> NoBlocks]
      /\ Formatted.addrs = [i \in Inode |-> [n \in 0..NDIRECT |-> 0]]
      /\ Formatted.size = [i \in Inode |-> 0]
      /\ Formatted = [used |-> Formatted.used, data |-> Formatted.data,
                      ind |-> Formatted.ind, addrs |-> Formatted.addrs,
                      size |-> Formatted.size, bad |-> Formatted.bad]
  BY DEF Formatted
<1> DEFINE none == [n \in 0..NDIRECT |-> 0]
<1>4. /\ NoBlocks \in [0..NINDIRECT - 1 -> {0}] /\ \A m \in 0..NINDIRECT - 1 : NoBlocks[m] = 0
      /\ none \in [0..NDIRECT -> {0}] /\ \A m \in 0..NDIRECT : none[m] = 0
  BY DEF NoBlocks
<1>5. /\ [0..NINDIRECT - 1 -> {0}] \subseteq [0..NINDIRECT - 1 -> Nat]
      /\ [0..NINDIRECT - 1 -> {0}] \subseteq [0..NINDIRECT - 1 -> Block \cup {0}]
      /\ [0..NDIRECT -> {0}] \subseteq [0..NDIRECT -> Nat]
      /\ [0..NDIRECT -> {0}] \subseteq [0..NDIRECT -> Block \cup {0}]
      /\ 0 \in 0..MAXFILE /\ NDIRECT \in 0..NDIRECT
  BY Sizes
<1> HIDE DEF none
<1>6. /\ Formatted.data \in [Block -> Val \cup {0}]
      /\ Formatted.ind \in [Block -> [0..NINDIRECT - 1 -> Nat]]
      /\ Formatted.addrs \in [Inode -> [0..NDIRECT -> Nat]] /\ Formatted.size \in [Inode -> Nat]
      /\ Formatted.ind \in [Block -> [0..NINDIRECT - 1 -> Block \cup {0}]]
      /\ Formatted.addrs \in [Inode -> [0..NDIRECT -> Block \cup {0}]]
      /\ Formatted.size \in [Inode -> 0..MAXFILE]
  <2>1. /\ NoBlocks \in [0..NINDIRECT - 1 -> Nat] /\ none \in [0..NDIRECT -> Nat]
        /\ NoBlocks \in [0..NINDIRECT - 1 -> Block \cup {0}]
        /\ none \in [0..NDIRECT -> Block \cup {0}]
    BY <1>4, <1>5
  <2>2. Formatted.addrs = [i \in Inode |-> none]
    BY <1>3 DEF none
  <2>3. Formatted.data \in [Block -> Val \cup {0}]
    BY <1>3
  <2>4. /\ Formatted.ind \in [Block -> [0..NINDIRECT - 1 -> Nat]]
        /\ Formatted.ind \in [Block -> [0..NINDIRECT - 1 -> Block \cup {0}]]
    BY <1>3, <2>1
  <2>5. /\ Formatted.addrs \in [Inode -> [0..NDIRECT -> Nat]]
        /\ Formatted.addrs \in [Inode -> [0..NDIRECT -> Block \cup {0}]]
    BY <2>1, <2>2
  <2>6. Formatted.size \in [Inode -> Nat] /\ Formatted.size \in [Inode -> 0..MAXFILE]
    <3>1. 0 \in Nat /\ 0 \in 0..MAXFILE
      BY Sizes
    <3>2. Formatted.size = [i \in Inode |-> 0]
      BY <1>3
    <3> QED
      BY <3>1, <3>2
  <2> QED
    BY <2>3, <2>4, <2>5, <2>6
<1>7. w.k = Formatted /\ w.free = FirstBlock /\ w \in MkfsStates
  <2>1. Formatted \in [used : {{}}, data : [Block -> Val \cup {0}],
                       ind : [Block -> [0..NINDIRECT - 1 -> Nat]],
                       addrs : [Inode -> [0..NDIRECT -> Nat]], size : [Inode -> Nat], bad : {""}]
    BY <1>3, <1>6
  <2> QED
    BY <1>2, <2>1 DEF MkfsStates
<1> HIDE DEF w
<1>8. /\ q.used = {} /\ q.bad = "" /\ q.data = Formatted.data /\ q.ind = Formatted.ind
      /\ q.addrs = Formatted.addrs /\ q.size = Formatted.size
      /\ q = [used |-> q.used, data |-> q.data, ind |-> q.ind, addrs |-> q.addrs,
              size |-> q.size, bad |-> q.bad]
  <2>1. {b \in Block : b < w.free} = {}
    BY <1>2, <1>7
  <2> QED
    BY <1>7, <2>1, MarkedIs
<1> HIDE DEF q
<1>9. q \in Disks
  BY <1>6, <1>8, DiskMade
<1>10. ASSUME NEW i \in Inode, NEW n \in 0..MAXFILE PROVE Entry(q, i, n) = 0
  <2>1. q.addrs[i] = none
    <3>1. q.addrs = Formatted.addrs
      BY <1>8
    <3>2. Formatted.addrs = [j \in Inode |-> none]
      BY <1>3 DEF none
    <3> HIDE <1>3, <1>8
    <3> QED
      BY <3>1, <3>2
  <2>2. q.addrs[i][NDIRECT] = 0
    BY <1>4, <1>5, <2>1
  <2>3. n < NDIRECT => q.addrs[i][n] = 0
    <3>1. n < NDIRECT => n \in 0..NDIRECT
      BY Sizes
    <3> QED
      BY <1>4, <2>1, <3>1
  <2> QED
    BY <2>2, <2>3 DEF Entry, Addr
<1>11. Sound(q)
  BY <1>8, <1>9, <1>10 DEF Sound, Owned
<1>12. \A i \in Inode, n \in 0..MAXFILE - 1 : ~(n < w.k.size[i]) /\ n \in 0..MAXFILE
  <2>1. \A i \in Inode : w.k.size[i] = 0
    BY <1>3, <1>7
  <2>2. \A n \in 0..MAXFILE - 1 : ~(n < 0) /\ n \in 0..MAXFILE
    BY Sizes
  <2> QED
    BY <2>1, <2>2
<1>13. \A b \in Block : \A m \in 0..NINDIRECT - 1 : w.k.ind[b][m] = 0
  BY <1>3, <1>4, <1>7, ZenonT(60)
<1> QED
  BY <1>7, <1>10, <1>11, <1>12, <1>13 DEF Packed, q, w

\* mkfs's image is packed: its loop keeps what each iappend() keeps.
LEMMA MkfsPacked ==
  ASSUME NEW image \in Image
  PROVE  Packed(MkfsAppended(image)[Len(image)])
<1>1. image \in Seq(Inode \X Val) /\ Len(image) \in Nat
      /\ \A n \in 1..Len(image) : image[n][1] \in Inode /\ image[n][2] \in Val
  <2>1. image \in Seq(Inode \X Val)
    BY FileDataAssumption
  <2> QED
    BY <2>1
<1>2. PICK N \in Nat : N = Len(image)
  BY <1>1
<1> DEFINE x == [k |-> Formatted, free |-> FirstBlock]
           step(n, w) == MkfsAppend(w, image[n][1], image[n][2])
           d == [n \in 1..N |-> [w \in MkfsStates |-> step(n, w)]]
           P == [n \in 0..N |-> {w \in MkfsStates : Packed(w)}]
<1>3. x \in MkfsStates /\ Packed(x)
  BY FormattedPacked DEF Packed
<1>4. \A n \in 1..N, w \in MkfsStates : step(n, w) \in MkfsStates
  BY <1>1, <1>2, MkfsAppendIs
<1> HIDE DEF step, x
<1>5. \E g : g = [n \in 0..N |-> IF n = 0 THEN x ELSE step(n, g[n - 1])]
  <2>1. d \in Transitions(MkfsStates, N)
    BY <1>4 DEF Transitions
  <2>2. PICK g \in [0..N -> MkfsStates] : g[0] = x /\ \A n \in 1..N : g[n] = d[n][g[n - 1]]
    <3> HIDE DEF d
    <3>1. \E g : IsRun(g, MkfsStates, x, N, d)
      BY <1>3, <2>1, Iteration
    <3> QED
      BY <3>1 DEF IsRun
  <2>3. \A n \in 1..N : n - 1 \in 0..N
    BY <1>2
  <2>4. \A n \in 1..N : g[n] = step(n, g[n - 1])
    BY <2>2, <2>3
  <2>5. g = [n \in 0..N |-> IF n = 0 THEN x ELSE step(n, g[n - 1])]
    BY <2>2, <2>3, <2>4
  <2> QED
    BY <2>5
<1> DEFINE after[n \in 0..N] == IF n = 0 THEN x ELSE step(n, after[n - 1])
<1>6. after = [n \in 0..N |-> IF n = 0 THEN x ELSE step(n, after[n - 1])]
  <2> HIDE DEF P, d
  <2> QED
    BY <1>5
<1>7. MkfsAppended(image) = after
  BY <1>2 DEF MkfsAppended, step, x
<1> HIDE DEF after
<1>8. after[0] = x /\ \A n \in 1..N : after[n] = step(n, after[n - 1])
  BY <1>6
<1>9. ASSUME NEW n \in 1..N, Packed(after[n - 1]) PROVE Packed(after[n])
  <2>1. n - 1 \in 0..Len(image) - 1 /\ (n - 1) + 1 = n
    BY <1>2
  <2>2. /\ after[n - 1].k.size[image[n][1]] < MAXFILE
        /\ after[n - 1].free..after[n].free - 1 \subseteq Block
    BY <1>7, <2>1, MkfsAccepts
  <2>3. after[n] = MkfsAppend(after[n - 1], image[n][1], image[n][2])
    BY <1>8 DEF step
  <2>4. image[n][1] \in Inode /\ image[n][2] \in Val
    BY <1>1, <1>2
  <2> QED
    BY <1>9, <2>2, <2>3, <2>4, AppendPacked
<1>10. after[N] \in P[N]
  <2>1. \A n \in 1..N : after[n - 1] \in P[n - 1] => after[n] \in P[n]
    <3> SUFFICES ASSUME NEW n \in 1..N, after[n - 1] \in P[n - 1] PROVE after[n] \in P[n]
      OBVIOUS
    <3>1. n - 1 \in 0..N /\ n \in 0..N
      BY <1>2
    <3>2. Packed(after[n - 1])
      BY <3>1
    <3>3. Packed(after[n])
      BY <1>9, <3>2
    <3> QED
      BY <3>1, <3>3 DEF Packed
  <2>2. N \in 0..N /\ after[0] \in P[0]
    BY <1>3, <1>8
  <2> HIDE DEF P
  <2>3. \A n \in 0..N : after[n] \in P[n]
    BY <2>1, <2>2, Steps
  <2> QED
    BY <2>2, <2>3
<1> QED
  BY <1>2, <1>7, <1>10

--------------------------------------------------------------------------------
(* The theorems.                                                             *)

\* The strengthening: the bitmap and the inodes agree, and the processes write
\* what they may.
DataInv ==
  /\ Sound(disk) /\ Filled(disk)
  /\ offset \in [OpenFile -> 0..MAXFILE]
  /\ writing \in [Writer -> [f : OpenFile, left : Seq(Val)] \cup {Idle}]

\* The image is in agreement.
LEMMA InitInv == DataInit => DataInv
<1> SUFFICES ASSUME DataInit PROVE DataInv
  OBVIOUS
<1>1. PICK image \in Image : disk = MkfsDisk(image)
  BY DEF DataInit
<1> DEFINE w == MkfsAppended(image)[Len(image)]
<1>2. Packed(w) /\ disk = Marked(w)
  BY <1>1, MkfsPacked DEF MkfsDisk
<1>3. Filled(disk)
  <2>1. w \in MkfsStates /\ Marked(w).size = w.k.size /\ Sound(disk)
    BY <1>2, MarkedIs DEF Packed
  <2> SUFFICES ASSUME NEW i \in Inode, NEW n \in 0..disk.size[i] - 1 PROVE Entry(disk, i, n) # 0
    BY DEF Filled
  <2>2. disk.size[i] \in 0..MAXFILE /\ disk.size[i] = w.k.size[i]
    BY <1>2, <2>1, ContentIs DEF Sound
  <2>3. n \in 0..MAXFILE - 1 /\ n < w.k.size[i]
    BY <2>2, Sizes
  <2> QED
    BY <1>2, <2>3 DEF Packed
<1>4. Sound(disk)
  BY <1>2 DEF Packed
<1>5. offset \in [OpenFile -> 0..MAXFILE]
  BY Sizes DEF DataInit
<1>6. writing \in [Writer -> [f : OpenFile, left : Seq(Val)] \cup {Idle}]
  BY DEF DataInit
<1> QED
  BY <1>3, <1>4, <1>5, <1>6 DEF DataInv

\* A piece of a write(), in full: p gives the blocks vals to f, and w comes of it.
Chunk(p, f, vals, w) ==
  /\ writing[p].f = f /\ writing[p].left \in Seq(Val)
  /\ Len(vals) \in 0..Len(writing[p].left)
  /\ \A m \in 1..Len(vals) : vals[m] # 0 => vals[m] \in Val
  /\ w = Writei(disk, inodeOf[f], offset[f], vals)
  /\ SetDisk(w.k) /\ offset' = [offset EXCEPT ![f] = @ + w.r]
  /\ writing' = [writing EXCEPT ![p] =
       IF w.r # Len(vals) \/ Len(vals) = Len(writing[p].left) THEN Idle
       ELSE [@ EXCEPT !.left = SubSeq(writing[p].left, Len(vals) + 1, Len(writing[p].left))]]

\* That is what WriteChunk is.
LEMMA ChunkIs ==
  ASSUME DataInv, NEW p \in Writer, WriteChunk(p)
  PROVE  \E f \in OpenFile, vals \in Seq(Val \cup {0}) : \E w : Chunk(p, f, vals, w)
<1> DEFINE f == writing[p].f
           left == writing[p].left
           n == IF Len(left) < MaxChunk THEN Len(left) ELSE MaxChunk
<1>1. f \in OpenFile /\ left \in Seq(Val)
  BY DEF WriteChunk, DataInv
<1>2. n \in 0..Len(left) /\ n \in Nat
  BY <1>1, FileDataAssumption
<1>3. PICK good \in 0..n :
        \E w \in {Writei(disk, inodeOf[f], offset[f], [m \in 1..n |-> IF m <= good THEN left[m] ELSE 0])} :
          /\ SetDisk(w.k)
          /\ offset' = [offset EXCEPT ![f] = @ + w.r]
          /\ writing' = [writing EXCEPT ![p] =
               IF w.r # n \/ n = Len(left) THEN Idle
               ELSE [@ EXCEPT !.left = SubSeq(left, n + 1, Len(left))]]
  BY DEF WriteChunk
<1> DEFINE vals == [m \in 1..n |-> IF m <= good THEN left[m] ELSE 0]
           w == Writei(disk, inodeOf[f], offset[f], vals)
<1> HIDE DEF f, left, n
<1>4. \A m \in 1..n : left[m] \in Val
  BY <1>1, <1>2
<1>5. vals \in Seq(Val \cup {0}) /\ Len(vals) = n /\ \A m \in 1..n : vals[m] # 0 => vals[m] \in Val
  BY <1>2, <1>4
<1>6. /\ SetDisk(w.k) /\ offset' = [offset EXCEPT ![f] = @ + w.r]
      /\ writing' = [writing EXCEPT ![p] =
           IF w.r # n \/ n = Len(left) THEN Idle
           ELSE [@ EXCEPT !.left = SubSeq(left, n + 1, Len(left))]]
  BY <1>3
<1> HIDE DEF vals, w
<1>7. w = Writei(disk, inodeOf[f], offset[f], vals)
  BY DEF w
<1>8. Chunk(p, f, vals, w)
  BY <1>1, <1>2, <1>5, <1>6, <1>7 DEF f, left, Chunk
<1> QED
  BY <1>1, <1>5, <1>8

\* Every step keeps the agreement.
LEMMA NextInv == DataInv /\ [DataNext]_dataVars => DataInv'
<1> SUFFICES ASSUME DataInv, [DataNext]_dataVars PROVE DataInv'
  OBVIOUS
<1>0. /\ Sound(disk) /\ Filled(disk) /\ disk \in Disks /\ disk.bad = ""
      /\ offset \in [OpenFile -> 0..MAXFILE]
      /\ writing \in [Writer -> [f : OpenFile, left : Seq(Val)] \cup {Idle}]
      /\ \A i \in Inode : disk.size[i] \in 0..MAXFILE
      /\ \A f \in OpenFile : inodeOf[f] \in Inode
  BY ContentIs, FileDataAssumption DEF DataInv, Sound
<1>a. ASSUME NEW f \in OpenFile
      PROVE  offset[f] \in Nat /\ offset[f] \in 0..MAXFILE /\ inodeOf[f] \in Inode
  <2>1. offset[f] \in 0..MAXFILE
    BY DEF DataInv
  <2>2. inodeOf[f] \in Inode
    BY FileDataAssumption
  <2> QED
    BY <2>1, <2>2
<1>1. ASSUME NEW p \in Writer, WriteBegin(p) PROVE DataInv'
  <2>1. PICK f \in OpenFile, n \in 1..MaxWrite :
          writing' = [writing EXCEPT ![p] = [f |-> f, left |-> [m \in 1..n |-> valueOf[p]]]]
    BY <1>1 DEF WriteBegin
  <2>2. [m \in 1..n |-> valueOf[p]] \in Seq(Val)
    BY FileDataAssumption
  <2>3. writing' \in [Writer -> [f : OpenFile, left : Seq(Val)] \cup {Idle}]
    BY <1>0, <2>1, <2>2
  <2> QED
    BY <1>0, <1>1, <2>3 DEF DataInv, WriteBegin
<1>2. ASSUME NEW p \in Writer, WriteChunk(p) PROVE DataInv'
  <2>a. PICK f \in OpenFile, vals \in Seq(Val \cup {0}) : \E w : Chunk(p, f, vals, w)
    BY <1>2, ChunkIs
  <2>b. PICK w : Chunk(p, f, vals, w)
    BY <2>a
  <2>1. /\ writing[p].f = f /\ writing[p].left \in Seq(Val)
        /\ Len(vals) \in 0..Len(writing[p].left)
        /\ \A m \in 1..Len(vals) : vals[m] # 0 => vals[m] \in Val
        /\ w = Writei(disk, inodeOf[f], offset[f], vals)
        /\ SetDisk(w.k) /\ offset' = [offset EXCEPT ![f] = @ + w.r]
        /\ writing' = [writing EXCEPT ![p] =
             IF w.r # Len(vals) \/ Len(vals) = Len(writing[p].left) THEN Idle
             ELSE [@ EXCEPT !.left = SubSeq(writing[p].left, Len(vals) + 1, Len(writing[p].left))]]
    BY <2>b DEF Chunk
  <2>2. offset[f] \in Nat /\ offset[f] \in 0..MAXFILE /\ inodeOf[f] \in Inode
    BY <1>a
  <2>3. /\ Sound(w.k) /\ Filled(w.k) /\ w.r \in 0..Len(vals)
        /\ offset[f] > disk.size[inodeOf[f]] \/ offset[f] + Len(vals) > MAXFILE => w.r = 0
    <3>1. vals \in Seq(Val \cup {0}) /\ w = Writei(disk, inodeOf[f], offset[f], vals)
      BY <2>1
    <3>2. Sound(disk) /\ Filled(disk) /\ offset[f] \in Nat /\ inodeOf[f] \in Inode
      BY <1>0, <2>2
    <3>3. PICK i \in Inode, off \in Nat : i = inodeOf[f] /\ off = offset[f]
      BY <3>2
    <3>4. w = Writei(disk, i, off, vals)
      BY <3>1, <3>3
    <3>5. /\ Sound(w.k) /\ Filled(w.k) /\ w.r \in 0..Len(vals)
          /\ off > disk.size[i] \/ off + Len(vals) > MAXFILE => w.k = disk /\ w.r = 0
      <4>1. Changed(disk, i, off, vals, w)
        BY <3>1, <3>2, <3>4, WriteiIs
      <4> QED
        BY <4>1 DEF Changed
    <3> QED
      BY <3>3, <3>5
  <2>4. disk' = w.k
    BY <2>1, <2>3 DEF SetDisk, Sound
  <2>5. offset' \in [OpenFile -> 0..MAXFILE]
    <3>1. PICK N \in Nat : N = Len(vals)
      BY <2>1
    <3>2. offset[f] + w.r \in 0..MAXFILE
      BY <2>2, <2>3, <3>1, Sizes
    <3> QED
      BY <1>0, <2>1, <3>2
  <2>6. writing' \in [Writer -> [f : OpenFile, left : Seq(Val)] \cup {Idle}]
    <3>1. CASE w.r # Len(vals) \/ Len(vals) = Len(writing[p].left)
      <4>1. writing' = [writing EXCEPT ![p] = Idle]
        BY <2>1, <3>1
      <4> QED
        BY <1>0, <4>1
    <3>2. CASE ~(w.r # Len(vals) \/ Len(vals) = Len(writing[p].left))
      <4> DEFINE left == SubSeq(writing[p].left, Len(vals) + 1, Len(writing[p].left))
      <4>1. left \in Seq(Val)
        <5>1. PICK L \in Seq(Val) : L = writing[p].left
          BY <2>1
        <5>2. Len(vals) + 1 \in 1..Len(L) + 1 /\ Len(vals) \in Nat /\ Len(L) \in Nat
          BY <2>1, <5>1
        <5>3. \A n \in 1..Len(L) + 1 : SubSeq(L, n, Len(L)) \in Seq(Val)
          OBVIOUS
        <5> QED
          BY <5>1, <5>2, <5>3
      <4>2. writing' = [writing EXCEPT ![p] = [writing[p] EXCEPT !.left = left]]
        BY <2>1, <3>2
      <4> HIDE DEF left
      <4>3. [writing[p] EXCEPT !.left = left] \in [f : OpenFile, left : Seq(Val)]
        <5>1. writing[p] \in [f : OpenFile, left : Seq(Val)]
          BY <1>0, <1>2 DEF WriteChunk
        <5> QED
          BY <4>1, <5>1
      <4> QED
        BY <1>0, <4>2, <4>3
    <3> QED
      BY <3>1, <3>2
  <2> QED
    BY <2>3, <2>4, <2>5, <2>6 DEF DataInv
<1>3. ASSUME NEW f \in OpenFile, ReadData(f) PROVE DataInv'
  <2>1. PICK r \in 1..MAXFILE : /\ offset[f] + r <= disk.size[inodeOf[f]]
                                /\ offset' = [offset EXCEPT ![f] = @ + r]
    BY <1>3 DEF ReadData
  <2>2. offset[f] + r \in 0..MAXFILE
    <3>1. offset[f] \in Nat /\ inodeOf[f] \in Inode
      BY <1>a
    <3>2. PICK N \in 0..MAXFILE : N = disk.size[inodeOf[f]]
      BY <1>0, <3>1
    <3>3. offset[f] + r <= N
      BY <2>1, <3>2
    <3> QED
      BY <3>1, <3>2, <3>3, Sizes
  <2>3. offset' \in [OpenFile -> 0..MAXFILE]
    BY <1>0, <2>1, <2>2
  <2> QED
    BY <1>0, <1>3, <2>3 DEF DataInv, ReadData
<1>4. ASSUME NEW f \in OpenFile, Rewind(f) PROVE DataInv'
  <2>1. offset' \in [OpenFile -> 0..MAXFILE]
    <3>1. 0 \in 0..MAXFILE
      BY Sizes
    <3>2. offset' = [offset EXCEPT ![f] = 0]
      BY <1>4 DEF Rewind
    <3> QED
      BY <1>0, <3>1, <3>2
  <2> QED
    BY <1>0, <1>4, <2>1 DEF DataInv, Rewind
<1>5. ASSUME NEW i \in Inode, Truncate(i) PROVE DataInv'
  <2> DEFINE r == Itrunc(disk, i)
  <2>1. Sound(r) /\ Filled(r)
    BY <1>0, ItruncIs
  <2>2. disk' = r
    BY <1>5, <2>1 DEF Truncate, SetDisk, Sound
  <2> HIDE DEF r
  <2> QED
    BY <1>0, <1>5, <2>1, <2>2 DEF DataInv, Truncate
<1>6. CASE Restart
  <2>1. /\ offset' \in [OpenFile -> 0..MAXFILE]
        /\ writing' \in [Writer -> [f : OpenFile, left : Seq(Val)] \cup {Idle}]
    BY <1>6, Sizes DEF Restart
  <2> QED
    BY <1>0, <1>6, <2>1 DEF DataInv, Restart
<1>7. CASE UNCHANGED dataVars
  BY <1>0, <1>7 DEF DataInv, dataVars
<1> QED
  BY <1>1, <1>2, <1>3, <1>4, <1>5, <1>6, <1>7 DEF DataNext

\* The bitmap and the inodes agree, and every block below a file's size is
\* there, in every state: after every allocation that runs out of blocks, every
\* fault in the middle of a write(), every truncation and every restart.
THEOREM DataInvHolds == DataSpec => []DataInv
BY InitInv, NextInv, PTL DEF DataSpec

\* Bitmap, blocks, inodes, offsets and what the processes have to write are of
\* their types; no file is longer than its addresses reach.
THEOREM DataTypesHold == DataSpec => []DataTypeOK
<1>1. DataInv => DataTypeOK
  <2> SUFFICES ASSUME DataInv PROVE DataTypeOK
    OBVIOUS
  <2>1. /\ disk.used \in SUBSET Block /\ disk.data \in [Block -> Val \cup {0}]
        /\ disk.ind \in [Block -> [0..NINDIRECT - 1 -> Block \cup {0}]]
        /\ disk.addrs \in [Inode -> [0..NDIRECT -> Block \cup {0}]]
        /\ disk.size \in [Inode -> 0..MAXFILE]
    BY DiskFields DEF DataInv, Sound
  <2>2. \A p \in Writer : writing[p].left \in Seq(Val)
    <3> SUFFICES ASSUME NEW p \in Writer PROVE writing[p].left \in Seq(Val)
      OBVIOUS
    <3>1. writing[p] \in [f : OpenFile, left : Seq(Val)] \/ writing[p] = Idle
      BY DEF DataInv
    <3>2. Idle.left = <<>> /\ <<>> \in Seq(Val)
      BY DEF Idle
    <3> QED
      BY <3>1, <3>2
  <2> QED
    BY <2>1, <2>2 DEF DataInv, DataTypeOK
<1> QED
  BY <1>1, DataInvHolds, PTL

\* A block in use is in one place of one file and no file holds a free one,
\* bfree() never finds a block free already, and the boot loader, with its own
\* code, finds in every file what readi() finds.
THEOREM BlocksAreOwnedOnce == DataSpec => []BlocksOwnedOnce
<1>1. DataInv => BlocksOwnedOnce
  <2> SUFFICES ASSUME DataInv PROVE BlocksOwnedOnce
    OBVIOUS
  <2>0. Sound(disk) /\ Filled(disk) /\ disk \in Disks /\ Owned(disk) /\ disk.bad = ""
    BY DEF DataInv, Sound
  <2>1. ASSUME NEW b \in Block
        PROVE  Cardinality(Owners(b)) = (IF b \in disk.used THEN 1 ELSE 0)
    <3>0. b # 0
      BY Sizes
    <3>1. CASE b \in disk.used
      <4>1. PICK i \in Inode, n \in 0..MAXFILE : Entry(disk, i, n) = b
        BY <2>0, <3>1 DEF Owned
      <4>2. \A j \in Inode, m \in 0..MAXFILE : Entry(disk, j, m) = b => j = i /\ m = n
        <5>1. \A j \in Inode, m \in 0..MAXFILE :
                Entry(disk, j, m) = Entry(disk, i, n) => j = i /\ m = n
          BY <2>0, <3>0, <4>1, OwnedIs
        <5> QED
          BY <4>1, <5>1
      <4>3. Owners(b) = {<<i, n>>}
        BY <4>1, <4>2 DEF Owners
      <4>4. Cardinality({<<i, n>>}) = 1
        BY FS_Singleton
      <4> QED
        BY <3>1, <4>3, <4>4
    <3>2. CASE b \notin disk.used
      <4>1. \A j \in Inode, m \in 0..MAXFILE : Entry(disk, j, m) # b
        <5> SUFFICES ASSUME NEW j \in Inode, NEW m \in 0..MAXFILE, Entry(disk, j, m) = b
                     PROVE  FALSE
          OBVIOUS
        <5> QED
          BY <2>0, <3>0, <3>2, OwnedIs
      <4>2. Owners(b) = {}
        BY <4>1 DEF Owners
      <4> QED
        BY <3>2, <4>2, FS_EmptySet
    <3> QED
      BY <3>1, <3>2
  <2>2. ASSUME NEW i \in Inode
        PROVE  /\ \A n \in 0..disk.size[i] - 1 : Addr(disk, i, n) # 0
               /\ Load(GetInode(i), disk.size[i]) = Content(disk, i)
    <3>1. disk.size[i] \in 0..MAXFILE /\ disk.size[i] \in Nat
      <4>1. disk.size[i] \in 0..MAXFILE
        BY <2>0, ContentIs
      <4> QED
        BY <4>1
    <3>2. \A n \in 0..disk.size[i] - 1 : n \in 0..MAXFILE /\ n < MAXFILE
      BY <3>1, Sizes
    <3>3. \A n \in 0..disk.size[i] - 1 : Addr(disk, i, n) # 0
      BY <2>0, <3>2 DEF Filled, Entry
    <3>4. ASSUME NEW m \in 1..disk.size[i]
          PROVE  (IF m - 1 < NDIRECT THEN GetInode(i).addrs[m - 1]
                  ELSE GetInode(i).indirect[m - 1 - NDIRECT]) = Addr(disk, i, m - 1)
      <4>1. m - 1 \in 0..disk.size[i] - 1
        BY <3>1
      <4>2. Addr(disk, i, m - 1) # 0
        BY <3>3, <4>1
      <4> QED
        BY <4>2 DEF Addr, GetInode
    <3>5. Load(GetInode(i), disk.size[i]) = [m \in 1..disk.size[i] |-> disk.data[Addr(disk, i, m - 1)]]
      BY <3>4 DEF Load
    <3> QED
      BY <3>3, <3>5 DEF Content
  <2> QED
    BY <2>0, <2>1, <2>2 DEF BlocksOwnedOnce
<1> QED
  BY <1>1, DataInvHolds, PTL

--------------------------------------------------------------------------------
(* Files as ByteStore has them.                                              *)

\* What mkfs puts into files are values.
LEMMA InitRefines == DataInit => Store!StoreInit
<1> SUFFICES ASSUME DataInit PROVE Store!StoreInit
  OBVIOUS
<1>1. PICK image \in Image : disk = MkfsDisk(image)
  BY DEF DataInit
<1> DEFINE w == MkfsAppended(image)[Len(image)]
<1>2. Packed(w) /\ disk = Marked(w)
  BY <1>1, MkfsPacked DEF MkfsDisk
<1> HIDE DEF w
<1>3. /\ w \in MkfsStates /\ disk.size = w.k.size /\ disk.data = w.k.data /\ disk \in Disks
      /\ \A i \in Inode, n \in 0..MAXFILE - 1 :
           n < w.k.size[i] => w.k.data[Entry(disk, i, n)] \in Val
  BY <1>2, MarkedIs DEF Packed, Sound
<1>4. ASSUME NEW i \in Inode PROVE Content(disk, i) \in Seq(Val)
  <2>1. /\ disk.size[i] \in 0..MAXFILE /\ DOMAIN Content(disk, i) = 1..disk.size[i]
        /\ \A n \in 1..disk.size[i] : Content(disk, i)[n] = disk.data[Entry(disk, i, n - 1)]
    BY <1>3, ContentIs
  <2>2. PICK s \in Nat : s = disk.size[i] /\ s <= MAXFILE
    BY <2>1, Sizes
  <2>3. \A n \in 1..s : n - 1 \in 0..MAXFILE - 1 /\ n - 1 < s
    BY <2>2, Sizes
  <2>4. \A n \in 1..s : Content(disk, i)[n] \in Val
    BY <1>3, <2>1, <2>2, <2>3
  <2>5. Content(disk, i) = [n \in 1..s |-> Content(disk, i)[n]]
    BY <2>2 DEF Content
  <2>6. ASSUME NEW c, c = [n \in 1..s |-> c[n]], \A n \in 1..s : c[n] \in Val
        PROVE  c \in Seq(Val)
    BY <2>6
  <2> QED
    BY <2>4, <2>5, <2>6
<1> QED
  BY <1>4 DEF DataInit, Store!StoreInit

\* What the steps of ByteStore say of a file that changes, and of the others.
LEMMA ContentsChange ==
  ASSUME NEW k, NEW r, NEW i \in Inode, NEW c, Content(r, i) = c,
         \A j \in Inode : j # i => Content(r, j) = Content(k, j)
  PROVE  [j \in Inode |-> Content(r, j)] =
           [[j \in Inode |-> Content(k, j)] EXCEPT ![i] = c]
  OBVIOUS

\* Every step is one of ByteStore's, or invisible.
LEMMA StepRefines == DataInv /\ [DataNext]_dataVars => [Store!StoreNext]_Store!storeVars
<1> SUFFICES ASSUME DataInv, [DataNext]_dataVars
             PROVE  [Store!StoreNext]_Store!storeVars
  OBVIOUS
<1> DEFINE c == [i \in Inode |-> Content(disk, i)]
           d == [i \in Inode |-> Content(disk', i)]
<1>0. c' = d
  BY DEF Content, Addr
<1>1. disk' = disk => d = c
  OBVIOUS
<1>2. disk' = disk /\ offset' = offset => UNCHANGED Store!storeVars
  BY <1>0, <1>1 DEF Store!storeVars
<1>3. /\ Sound(disk) /\ Filled(disk) /\ disk.bad = ""
      /\ offset \in [OpenFile -> 0..MAXFILE]
      /\ \A f \in OpenFile : offset[f] \in Nat /\ inodeOf[f] \in Inode
  <2>1. \A f \in OpenFile : offset[f] \in 0..MAXFILE
    BY DEF DataInv
  <2>2. \A f \in OpenFile : offset[f] \in Nat
    BY <2>1
  <2> QED
    BY <2>2, FileDataAssumption DEF DataInv, Sound
<1>4. \A i \in Inode : c[i] = Content(disk, i) /\ Len(c[i]) = disk.size[i]
  <2>1. \A i \in Inode : Len(Content(disk, i)) = disk.size[i]
    BY <1>3, ContentIs DEF Sound
  <2> QED
    BY <2>1
<1>5. ASSUME NEW p \in Writer, WriteBegin(p) PROVE UNCHANGED Store!storeVars
  BY <1>2, <1>5 DEF WriteBegin
<1>6. ASSUME NEW p \in Writer, WriteChunk(p)
      PROVE  Store!StoreNext \/ UNCHANGED Store!storeVars
  <2>a. PICK f \in OpenFile, vals \in Seq(Val \cup {0}) : \E w : Chunk(p, f, vals, w)
    BY <1>6, ChunkIs
  <2>b. PICK w : Chunk(p, f, vals, w)
    BY <2>a
  <2>1. /\ \A m \in 1..Len(vals) : vals[m] # 0 => vals[m] \in Val
        /\ w = Writei(disk, inodeOf[f], offset[f], vals)
        /\ SetDisk(w.k) /\ offset' = [offset EXCEPT ![f] = @ + w.r]
    BY <2>b DEF Chunk
  <2>2. PICK i \in Inode, off \in Nat : i = inodeOf[f] /\ off = offset[f]
    BY <1>3
  <2>3. w = Writei(disk, i, off, vals)
    BY <2>1, <2>2
  <2>4. /\ Sound(w.k) /\ w.r \in 0..Len(vals)
        /\ off > disk.size[i] \/ off + Len(vals) > MAXFILE => w.k = disk /\ w.r = 0
        /\ off <= disk.size[i] /\ off + Len(vals) <= MAXFILE =>
             /\ \A m \in 1..w.r : vals[m] # 0
             /\ Content(w.k, i) = Store!Overwrite(Content(disk, i), off, [m \in 1..w.r |-> vals[m]])
        /\ \A j \in Inode : j # i => Content(w.k, j) = Content(disk, j)
    <3>1. Changed(disk, i, off, vals, w)
      BY <1>3, <2>1, <2>2, <2>3, WriteiIs
    <3> QED
      BY <3>1 DEF Changed
  <2>5. disk' = w.k
    BY <2>1, <2>4 DEF SetDisk, Sound
  <2>6. PICK n \in Nat, s \in 0..MAXFILE : n = Len(vals) /\ s = disk.size[i]
    <3>1. disk \in Disks
      BY <1>3 DEF Sound
    <3>2. disk.size[i] \in 0..MAXFILE
      BY <3>1, ContentIs
    <3>3. Len(vals) \in Nat
      OBVIOUS
    <3> QED
      BY <3>2, <3>3
  <2>7. CASE off > disk.size[i] \/ off + Len(vals) > MAXFILE
    <3>1. disk' = disk /\ w.r = 0
      BY <2>4, <2>5, <2>7
    <3>2. offset' = offset
      <4>1. offset' = [offset EXCEPT ![f] = offset[f] + 0]
        BY <2>1, <3>1
      <4>2. offset[f] + 0 = offset[f]
        BY <2>2
      <4> QED
        BY <1>3, <4>1, <4>2
    <3> QED
      BY <1>2, <3>1, <3>2
  <2>8. CASE off <= disk.size[i] /\ off + Len(vals) <= MAXFILE
    <3> DEFINE vs == [m \in 1..w.r |-> vals[m]]
    <3>1. w.r \in 0..MAXFILE /\ off + w.r <= MAXFILE
      BY <2>4, <2>6, <2>8, Sizes
    <3>2. vs \in [1..w.r -> Val]
      <4>1. \A m \in 1..w.r : m \in 1..Len(vals)
        BY <2>4, <2>6
      <4> QED
        BY <2>1, <2>4, <2>8, <4>1
    <3>3. Content(disk', i) = Store!Overwrite(Content(disk, i), off, vs)
      BY <2>4, <2>5, <2>8
    <3>4. \A j \in Inode : j # i => Content(disk', j) = Content(disk, j)
      BY <2>4, <2>5
    <3> HIDE DEF vs
    <3>5. d = [c EXCEPT ![i] = Store!Overwrite(Content(disk, i), off, vs)]
      BY <3>3, <3>4, ContentsChange
    <3>6. d = [c EXCEPT ![i] = Store!Overwrite(c[i], off, vs)]
      BY <1>4, <3>5
    <3>7. off <= Len(c[i])
      BY <1>4, <2>8
    <3> HIDE DEF c, d
    <3>8. /\ offset' = [offset EXCEPT ![f] = offset[f] + w.r]
          /\ offset[f] <= Len(c[inodeOf[f]]) /\ offset[f] + w.r <= MAXFILE
          /\ c' = [c EXCEPT ![inodeOf[f]] = Store!Overwrite(c[inodeOf[f]], offset[f], vs)]
      BY <1>0, <2>1, <2>2, <3>1, <3>6, <3>7
    <3>9. Store!StoreWrite(f)
      BY <3>1, <3>2, <3>8 DEF Store!StoreWrite, c
    <3> QED
      BY <3>9 DEF Store!StoreNext
  <2>9. off > disk.size[i] \/ off + Len(vals) > MAXFILE
        \/ (off <= disk.size[i] /\ off + Len(vals) <= MAXFILE)
    BY <2>6, Sizes
  <2> QED
    BY <2>7, <2>8, <2>9
<1>7. ASSUME NEW f \in OpenFile, ReadData(f) PROVE Store!StoreRead(f)
  <2>1. PICK r \in 1..MAXFILE : /\ offset[f] + r <= disk.size[inodeOf[f]]
                                /\ offset' = [offset EXCEPT ![f] = @ + r] /\ disk' = disk
    BY <1>7 DEF ReadData
  <2>2. offset[f] + r <= Len(c[inodeOf[f]])
    BY <1>3, <1>4, <2>1
  <2>3. c' = c
    BY <1>0, <1>1, <2>1
  <2> QED
    BY <2>1, <2>2, <2>3 DEF Store!StoreRead
<1>8. ASSUME NEW f \in OpenFile, Rewind(f) PROVE Store!StoreRewind({f})
  <2>1. offset' = [offset EXCEPT ![f] = 0] /\ disk' = disk
    BY <1>8 DEF Rewind
  <2>2. offset' = [g \in OpenFile |-> IF g \in {f} THEN 0 ELSE offset[g]]
    BY <1>3, <2>1
  <2> QED
    BY <1>0, <1>1, <2>1, <2>2 DEF Store!StoreRewind
<1>9. ASSUME NEW i \in Inode, Truncate(i) PROVE Store!StoreTruncate(i)
  <2> DEFINE r == Itrunc(disk, i)
  <2>1. /\ Sound(r) /\ Content(r, i) = <<>>
        /\ \A j \in Inode : j # i => Content(r, j) = Content(disk, j)
    <3> HIDE DEF c, d
    <3>1. Sound(disk) /\ Filled(disk)
      BY <1>3
    <3> QED
      BY <3>1, ItruncIs
  <2>2. disk' = r /\ offset' = offset
    BY <1>9, <2>1 DEF Truncate, SetDisk, Sound
  <2> HIDE DEF r
  <2>3. d = [c EXCEPT ![i] = <<>>]
    BY <2>1, <2>2, ContentsChange
  <2> QED
    BY <1>0, <2>2, <2>3 DEF Store!StoreTruncate
<1>10. CASE Restart
  <2>1. offset' = [f \in OpenFile |-> 0] /\ disk' = disk
    BY <1>10 DEF Restart
  <2>2. Store!StoreRewind(OpenFile)
    BY <1>0, <1>1, <2>1 DEF Store!StoreRewind
  <2> QED
    BY <2>2 DEF Store!StoreNext
<1>11. CASE UNCHANGED dataVars
  BY <1>2, <1>11 DEF dataVars
<1> HIDE DEF c, d
<1> QED
  BY <1>5, <1>6, <1>7, <1>8, <1>9, <1>10, <1>11 DEF DataNext, Store!StoreNext

\* Files are byte stores: a piece of a write() changes the blocks it is about
\* and no others, of its file or of another; reading, reopening and restarting
\* change nothing, and truncating empties one file.
THEOREM DataImplementsStore == DataSpec => RefinesStore
<1>1. DataInit => Store!StoreInit
  BY InitRefines
<1>2. DataInv /\ [DataNext]_dataVars => [Store!StoreNext]_Store!storeVars
  BY StepRefines
<1> QED
  BY <1>1, <1>2, DataInvHolds, PTL DEF DataSpec, RefinesStore, Store!StoreSpec
===============================================================================
