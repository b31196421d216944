--------------------------------- MODULE Bcache ---------------------------------
(***************************************************************************)
(* The buffer cache, kernel/bio.c, with the sleep locks of its buffers,    *)
(* kernel/sleeplock.c: NBUF buffers for the blocks of the SD card, recycled*)
(* least recently used first, some of them pinned by the log.              *)
(*                                                                         *)
(* One action is one critical section of bcache.lock or of a sleep lock's  *)
(* spin lock, or one transfer of a block.                                  *)
(***************************************************************************)
EXTENDS Naturals, FiniteSets

CONSTANTS
  Proc,     \* processes
  Block,    \* block numbers, in the order in which callers nest them
  Data,     \* contents of a block
  None,     \* no process, no buffer, no block
  NBUF,     \* param.h: number of buffers
  MaxHeld,  \* buffers a caller holds at a time (bmap, write_log: 2)
  MaxPins   \* blocks in the log at a time (log_write: LOGSIZE - 1)

ASSUME ConstAssumption ==
  /\ Block \subseteq Nat /\ None \notin Proc \cup Nat
  /\ NBUF \in Nat \ {0} /\ MaxHeld \in Nat /\ MaxPins \in Nat
  /\ IsFiniteSet(Proc)

Buf == 1 .. NBUF

VARIABLES
  disk,      \* the SD card
  blockno,   \* b->dev and b->blockno; None as long as dev is 0
  valid,     \* b->valid
  data,      \* b->data
  refcnt,    \* b->refcnt
  lru,       \* the list from bcache.head.next to bcache.head.prev
  owner,     \* b->lock: lk->locked and lk->pid
  held,      \* the buffers a process has got from bread
  cur,       \* the buffer a process is in bget or brelse with
  pc,        \* where each process is
  dirty,     \* buffers modified, but neither logged nor written since
  pins,      \* blocks that log_write has pinned
  panicked   \* bget found no buffer

bufs == <<blockno, valid, data, refcnt, lru>>
vars == <<disk, bufs, owner, held, cur, pc, dirty, pins, panicked>>

Init ==
  /\ disk \in [Block -> Data]
  /\ blockno = [x \in Buf |-> None]
  /\ valid = [x \in Buf |-> FALSE]
  /\ \E v \in Data : data = [x \in Buf |-> v]
  /\ refcnt = [x \in Buf |-> 0]
  /\ lru = [i \in Buf |-> NBUF + 1 - i]
  /\ owner = [x \in Buf |-> None]
  /\ held = [p \in Proc |-> {}]
  /\ cur = [p \in Proc |-> None]
  /\ pc = [p \in Proc |-> "run"]
  /\ dirty = {} /\ pins = {}
  /\ panicked = FALSE

Goto(p, label) == [pc EXCEPT ![p] = label]

Runs(p) == pc[p] = "run" /\ ~panicked

(* A caller nests its blocks in one order (indirect block before bitmap     *)
(* block, log block before home block), or two callers could deadlock.      *)
MayRead(p, b) ==
  /\ Runs(p)
  /\ Cardinality(held[p]) < MaxHeld
  /\ \A x \in held[p] : blockno[x] < b

--------------------------------------------------------------------------------
(* bget() *)

(* Slip: the reference is counted only by the first user. *)
BgetUncounted(p, b) ==
  /\ MayRead(p, b)
  /\ \E x \in Buf :
       /\ blockno[x] = b
       /\ refcnt' = [refcnt EXCEPT ![x] = IF @ = 0 THEN 1 ELSE @]
       /\ cur' = [cur EXCEPT ![p] = x]
  /\ pc' = Goto(p, "acquire")
  /\ UNCHANGED <<disk, blockno, valid, data, lru, owner, held, dirty, pins, panicked>>

(* The first loop finds the block. *)
BgetCached(p, b) ==
  /\ MayRead(p, b)
  /\ \E x \in Buf :
       /\ blockno[x] = b
       /\ refcnt' = [refcnt EXCEPT ![x] = @ + 1]
       /\ cur' = [cur EXCEPT ![p] = x]
  /\ pc' = Goto(p, "acquire")
  /\ UNCHANGED <<disk, blockno, valid, data, lru, owner, held, dirty, pins, panicked>>

(* Slip: the recycled buffer keeps its valid flag. *)
RecycleValid(p, b) ==
  /\ MayRead(p, b)
  /\ \A x \in Buf : blockno[x] # b
  /\ \E i \in Buf :
       /\ refcnt[lru[i]] = 0
       /\ \A j \in Buf : j > i => refcnt[lru[j]] > 0
       /\ blockno' = [blockno EXCEPT ![lru[i]] = b]
       /\ refcnt' = [refcnt EXCEPT ![lru[i]] = 1]
       /\ cur' = [cur EXCEPT ![p] = lru[i]]
  /\ pc' = Goto(p, "acquire")
  /\ UNCHANGED <<disk, valid, data, lru, owner, held, dirty, pins, panicked>>

(* The second loop takes the least recently used free buffer. *)
BgetRecycle(p, b) ==
  /\ MayRead(p, b)
  /\ \A x \in Buf : blockno[x] # b
  /\ \E i \in Buf :
       /\ refcnt[lru[i]] = 0
       /\ \A j \in Buf : j > i => refcnt[lru[j]] > 0
       /\ blockno' = [blockno EXCEPT ![lru[i]] = b]
       /\ valid' = [valid EXCEPT ![lru[i]] = FALSE]
       /\ refcnt' = [refcnt EXCEPT ![lru[i]] = 1]
       /\ cur' = [cur EXCEPT ![p] = lru[i]]
  /\ pc' = Goto(p, "acquire")
  /\ UNCHANGED <<disk, data, lru, owner, held, dirty, pins, panicked>>

(* panic("bget: no buffers"): nothing happens any more. *)
BgetPanics(p, b) ==
  /\ MayRead(p, b)
  /\ \A x \in Buf : blockno[x] # b
  /\ \A i \in Buf : refcnt[lru[i]] > 0
  /\ panicked' = TRUE
  /\ UNCHANGED <<disk, bufs, owner, held, cur, pc, dirty, pins>>

--------------------------------------------------------------------------------
(* acquiresleep() and the rest of bread() *)

Acquire(p) ==
  /\ pc[p] = "acquire" /\ ~panicked
  /\ owner[cur[p]] = None
  /\ owner' = [owner EXCEPT ![cur[p]] = p]
  /\ pc' = Goto(p, "fill")
  /\ UNCHANGED <<disk, bufs, held, cur, dirty, pins, panicked>>

Sleep(p) ==
  /\ pc[p] = "acquire" /\ ~panicked
  /\ owner[cur[p]] # None
  /\ pc' = Goto(p, "sleep")
  /\ UNCHANGED <<disk, bufs, owner, held, cur, dirty, pins, panicked>>

(* kill() takes a process out of its sleep; the loop in acquiresleep() looks *)
(* again.                                                                   *)
Kill(p) ==
  /\ pc[p] = "sleep" /\ ~panicked
  /\ pc' = Goto(p, "acquire")
  /\ UNCHANGED <<disk, bufs, owner, held, cur, dirty, pins, panicked>>

(* spi_rb(), if the buffer does not have the block yet. *)
Fill(p) ==
  /\ pc[p] = "fill" /\ ~panicked
  /\ data' = IF valid[cur[p]] THEN data ELSE [data EXCEPT ![cur[p]] = disk[blockno[cur[p]]]]
  /\ valid' = [valid EXCEPT ![cur[p]] = TRUE]
  /\ held' = [held EXCEPT ![p] = @ \cup {cur[p]}]
  /\ cur' = [cur EXCEPT ![p] = None]
  /\ pc' = Goto(p, "run")
  /\ UNCHANGED <<disk, blockno, refcnt, lru, owner, dirty, pins, panicked>>

--------------------------------------------------------------------------------
(* What the caller does with a buffer. *)

Modify(p, x, v) ==
  /\ Runs(p)
  /\ x \in held[p]
  /\ data' = [data EXCEPT ![x] = v]
  /\ dirty' = dirty \cup {x}
  /\ UNCHANGED <<disk, blockno, valid, refcnt, lru, owner, held, cur, pc, pins, panicked>>

(* log_write(): bpin() for a block that is not in the log yet. *)
LogWrite(p, x) ==
  /\ Runs(p)
  /\ x \in held[p] \cap dirty
  /\ IF blockno[x] \in pins
     THEN UNCHANGED <<refcnt, pins>>
     ELSE /\ Cardinality(pins) < MaxPins
          /\ refcnt' = [refcnt EXCEPT ![x] = @ + 1]
          /\ pins' = pins \cup {blockno[x]}
  /\ dirty' = dirty \ {x}
  /\ UNCHANGED <<disk, blockno, valid, data, lru, owner, held, cur, pc, panicked>>

Bwrite(p, x) ==
  /\ Runs(p)
  /\ x \in held[p]
  /\ disk' = [disk EXCEPT ![blockno[x]] = data[x]]
  /\ dirty' = dirty \ {x}
  /\ UNCHANGED <<bufs, owner, held, cur, pc, pins, panicked>>

(* Slip: install_trans unpins while recovering, when nothing is pinned. *)
BunpinAny(p, x) ==
  /\ Runs(p)
  /\ x \in held[p] /\ x \notin dirty
  /\ disk[blockno[x]] = data[x]
  /\ refcnt' = [refcnt EXCEPT ![x] = @ - 1]
  /\ pins' = pins \ {blockno[x]}
  /\ UNCHANGED <<disk, blockno, valid, data, lru, owner, held, cur, pc, dirty, panicked>>

(* install_trans(): bunpin() after bwrite(). *)
Bunpin(p, x) ==
  /\ Runs(p)
  /\ x \in held[p] /\ x \notin dirty
  /\ blockno[x] \in pins
  /\ disk[blockno[x]] = data[x]
  /\ refcnt' = [refcnt EXCEPT ![x] = @ - 1]
  /\ pins' = pins \ {blockno[x]}
  /\ UNCHANGED <<disk, blockno, valid, data, lru, owner, held, cur, pc, dirty, panicked>>

--------------------------------------------------------------------------------
(* brelse() *)

(* Slip: `if` for `while` in acquiresleep, a woken process has the lock.    *)
WakeupOwns(f, x) == [q \in Proc |-> IF f[q] = "sleep" /\ cur[q] = x THEN "fill" ELSE f[q]]

(* Slip: a wakeup on the address of another lock. *)
WakeupOther(f, x) == [q \in Proc |-> IF f[q] = "sleep" /\ cur[q] # x THEN "acquire" ELSE f[q]]

(* wakeup(lk) *)
Wakeup(f, x) == [q \in Proc |-> IF f[q] = "sleep" /\ cur[q] = x THEN "acquire" ELSE f[q]]

ReleaseSleep(p, x) ==
  /\ Runs(p)
  /\ x \in held[p] /\ x \notin dirty
  /\ owner' = [owner EXCEPT ![x] = None]
  /\ held' = [held EXCEPT ![p] = @ \ {x}]
  /\ cur' = [cur EXCEPT ![p] = x]
  /\ pc' = Wakeup(Goto(p, "release"), x)
  /\ UNCHANGED <<disk, bufs, dirty, pins, panicked>>

(* Slip: x is put in front without being taken out. *)
ToFrontTwice(x) == [i \in Buf |-> IF i = 1 THEN x ELSE lru[i - 1]]

(* The list with x taken out and put behind the head. *)
ToFront(x) ==
  LET k == CHOOSE i \in Buf : lru[i] = x
  IN  [i \in Buf |-> IF i = 1 THEN x ELSE IF i <= k THEN lru[i - 1] ELSE lru[i]]

Brelse(p) ==
  /\ pc[p] = "release" /\ ~panicked
  /\ refcnt' = [refcnt EXCEPT ![cur[p]] = @ - 1]
  /\ lru' = IF refcnt[cur[p]] = 1 THEN ToFront(cur[p]) ELSE lru
  /\ cur' = [cur EXCEPT ![p] = None]
  /\ pc' = Goto(p, "run")
  /\ UNCHANGED <<disk, blockno, valid, data, owner, held, dirty, pins, panicked>>

Next ==
  \E p \in Proc :
    \/ Acquire(p) \/ Sleep(p) \/ Kill(p) \/ Fill(p) \/ Brelse(p)
    \/ \E b \in Block : BgetCached(p, b) \/ BgetRecycle(p, b) \/ BgetPanics(p, b)
    \/ \E x \in Buf : LogWrite(p, x) \/ Bwrite(p, x) \/ Bunpin(p, x) \/ ReleaseSleep(p, x)
    \/ \E x \in Buf, v \in Data : Modify(p, x, v)

Spec == Init /\ [][Next]_vars

(* Every caller writes or logs what it has modified before it lets go, as   *)
(* bio.c:10 asks, but one: writei() releases the buffer when the user's     *)
(* memory ends in the middle of what it has already begun to copy.          *)
WriteFails(p, x) ==
  /\ Runs(p)
  /\ x \in held[p] \cap dirty
  /\ dirty' = dirty \ {x}
  /\ owner' = [owner EXCEPT ![x] = None]
  /\ held' = [held EXCEPT ![p] = @ \ {x}]
  /\ cur' = [cur EXCEPT ![p] = x]
  /\ pc' = Wakeup(Goto(p, "release"), x)
  /\ UNCHANGED <<disk, bufs, pins, panicked>>

SpecFaults == Init /\ [][Next \/ \E p \in Proc, x \in Buf : WriteFails(p, x)]_vars

--------------------------------------------------------------------------------
(* Properties. *)

Labels == {"run", "acquire", "sleep", "fill", "release"}

(* Every variable has its type. *)
TypeOK ==
  /\ disk \in [Block -> Data]
  /\ blockno \in [Buf -> Block \cup {None}]
  /\ valid \in [Buf -> BOOLEAN]
  /\ data \in [Buf -> Data]
  /\ refcnt \in [Buf -> Nat]
  /\ lru \in [Buf -> Buf]
  /\ owner \in [Buf -> Proc \cup {None}]
  /\ held \in [Proc -> SUBSET Buf]
  /\ cur \in [Proc -> Buf \cup {None}]
  /\ pc \in [Proc -> Labels]
  /\ dirty \in SUBSET Buf
  /\ pins \in SUBSET Block
  /\ panicked \in BOOLEAN

(* A block is never cached twice. *)
OneBuffer ==
  \A x, y \in Buf : blockno[x] # None /\ blockno[x] = blockno[y] => x = y

(* The processes that are somewhere between bget and brelse with a buffer.  *)
Users(x) == {p \in Proc : x \in held[p] \/ cur[p] = x}

(* A buffer is counted once by each process that uses it and once by the    *)
(* log: none is recycled under a user, none is lost to the cache.           *)
RefcntExact ==
  \A x \in Buf : refcnt[x] = Cardinality(Users(x)) + (IF blockno[x] \in pins THEN 1 ELSE 0)

(* holdingsleep() is true in every bwrite() and brelse().                   *)
HoldersOwn == \A p \in Proc : \A x \in held[p] : owner[x] = p

(* bget() gives up only when every buffer is in use.                        *)
PanicsWhenFull == panicked => \A x \in Buf : refcnt[x] > 0

(* A process sleeps only on a lock that somebody has.                       *)
NoLostWakeup == \A p \in Proc : pc[p] = "sleep" => owner[cur[p]] # None

(* What the next reader of a block finds. *)
View(b) ==
  IF \E x \in Buf : blockno[x] = b /\ valid[x]
  THEN data[CHOOSE x \in Buf : blockno[x] = b /\ valid[x]]
  ELSE disk[b]

UserOf(b) ==
  IF \E p \in Proc : \E x \in held[p] : blockno[x] = b
  THEN CHOOSE p \in Proc : \E x \in held[p] : blockno[x] = b
  ELSE None

(* Whoever uses the cache sees one contents for each block, alone.          *)
Store == INSTANCE BlockStore WITH
           Free <- None,
           contents <- [b \in Block |-> View(b)],
           user <- [b \in Block |-> UserOf(b)]

RefinesBlockStore == Store!Spec

(* A block that nobody uses keeps its contents: what was changed in the     *)
(* cache is on the card before its buffer is recycled ("After changing      *)
(* buffer data, call bwrite to write it to disk", bio.c:10).                *)
ChangesLast ==
  [][\A b \in Block : UserOf(b) = None /\ UserOf(b)' = None => View(b)' = View(b)]_vars

--------------------------------------------------------------------------------
(* The inductive invariant behind the properties. *)

(* The buffer in bget or brelse is none of those held, and its block comes  *)
(* behind theirs.                                                           *)
CurInv ==
  \A p \in Proc :
    /\ pc[p] = "run" <=> cur[p] = None
    /\ \A x \in held[p] : valid[x] /\ blockno[x] # None
    /\ cur[p] # None => cur[p] \notin held[p] /\ blockno[cur[p]] # None

(* A sleep lock belongs to the process that holds the buffer or fills it.   *)
OwnInv ==
  \A p \in Proc, x \in Buf :
    owner[x] = p <=> x \in held[p] \/ (pc[p] = "fill" /\ cur[p] = x)

(* A buffer that differs from the card is pinned, or is still held by the   *)
(* process that has modified it; a pinned block is cached.                  *)
DirtyInv ==
  /\ \A x \in dirty : \E p \in Proc : x \in held[p]
  /\ \A x \in Buf : blockno[x] # None /\ valid[x] /\ x \notin dirty /\ blockno[x] \notin pins =>
       data[x] = disk[blockno[x]]
  /\ \A b \in pins : \E x \in Buf : blockno[x] = b

(* Every buffer is in the list. *)
LruInv == \A x \in Buf : \E i \in Buf : lru[i] = x

IInv ==
  /\ TypeOK /\ OneBuffer /\ CurInv /\ OwnInv /\ RefcntExact /\ DirtyInv /\ LruInv
  /\ PanicsWhenFull /\ NoLostWakeup
================================================================================
