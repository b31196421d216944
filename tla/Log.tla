---------------------------------- MODULE Log ----------------------------------
(***************************************************************************)
(* The write-ahead log of the file system, kernel/log.c, with the parts of *)
(* the buffer cache it leans on (a modified block must stay cached until   *)
(* it is installed) and the power failures it exists for.                  *)
(*                                                                         *)
(* One action is one critical section of log.lock, or one block written to *)
(* the SD card: between two of them other processes run and the power can  *)
(* fail.  A block the power failure catches in flight may be left torn;    *)
(* only the header block is assumed to be written whole.                   *)
(***************************************************************************)
EXTENDS Naturals, Sequences, FiniteSets, Functions

CONSTANTS
  Proc,         \* processes that run file-system calls
  Block,        \* home blocks (inode, bitmap, directory and data blocks)
  Data,         \* block contents
  Torn,         \* contents of a block whose write was cut short
  Nothing,      \* "no block": not cached, no buffer held
  MAXOPBLOCKS,  \* param.h: blocks reserved for one operation
  LOGSIZE,      \* param.h: entries of the log header
  NLOG,         \* superblock nlog: blocks of the log area, header included
  OpBlocks      \* blocks the file-system calls really add to a transaction

ASSUME ConstAssumption ==
  /\ Torn \notin Data
  /\ Nothing \notin Data \cup Block \cup {Torn}
  /\ IsFiniteSet(Proc)
  /\ MAXOPBLOCKS \in Nat /\ LOGSIZE \in Nat /\ NLOG \in Nat /\ OpBlocks \in Nat

(* mkfs makes the log area as large as the header has entries (mkfs.c:25),  *)
(* and log_write wants one block less than it, even to absorb a write: the  *)
(* calls must stay two blocks below their reservation.  filewrite's largest *)
(* piece (file.c:155) adds 10 of 16.                                        *)
Sized ==
  OpBlocks + 2 <= MAXOPBLOCKS /\ MAXOPBLOCKS <= LOGSIZE /\ LOGSIZE <= NLOG

VARIABLES
  home,        \* SD card: the home blocks
  logd,        \* SD card: log.start+1, log.start+2, ... the logged contents
  head,        \* SD card: the header block, as the sequence block[0..n-1]
  cache,       \* bcache: contents of the cached home blocks
  pins,        \* bcache: references taken by bpin
  held,        \* the buffer a process has locked and modified
  lh,          \* log.lh, as the sequence block[0..n-1]
  outstanding, \* log.outstanding
  committing,  \* log.committing
  tail,        \* the loop variable of write_log and install_trans
  boot,        \* progress of initlog after power-on
  pc,          \* where each process is
  used,        \* blocks the running operation of a process added to the log
  panicked     \* the kernel stopped in panic()

disk  == <<home, logd, head>>
bufs  == <<cache, pins, held>>
loghd == <<lh, outstanding, committing>>
procs == <<pc, used>>
vars  == <<disk, bufs, loghd, procs, tail, boot, panicked>>

(* bread(b): the cached contents, or those on the disk. *)
View(b) == IF cache[b] # Nothing THEN cache[b] ELSE home[b]

(* The disk a recovery started now would produce (read_head, install_trans). *)
Recovered ==
  [b \in Block |-> IF b \in Range(head)
                   THEN logd[CHOOSE i \in DOMAIN head : head[i] = b]
                   ELSE home[b]]

(* The contents processes see; while the machine boots, those they will see. *)
Current == IF boot = "up" THEN [b \in Block |-> View(b)] ELSE Recovered

(* The processes between begin_op and end_op. *)
Ops == {p \in Proc : pc[p] = "op"}

(* wakeup(&log): everyone asleep on the log runs begin_op's loop again. *)
Wakeup(f) == [p \in Proc |-> IF f[p] = "sleep" THEN "begin" ELSE f[p]]

--------------------------------------------------------------------------------
(* Memory after power-on. *)
PowerOn ==
  /\ cache = [b \in Block |-> Nothing]
  /\ pins = [b \in Block |-> 0]
  /\ held = [p \in Proc |-> Nothing]
  /\ lh = <<>>
  /\ outstanding = 0
  /\ committing = FALSE
  /\ tail = 0
  /\ boot = "read_head"
  /\ pc = [p \in Proc |-> "user"]
  /\ used = [p \in Proc |-> 0]
  /\ panicked = FALSE

(* mkfs wrote some file system and an empty log. *)
Init ==
  /\ home \in [Block -> Data]
  /\ logd = [i \in 1..LOGSIZE |-> Torn]
  /\ head = <<>>
  /\ PowerOn

--------------------------------------------------------------------------------
(* initlog: recover_from_log. *)

ReadHead ==
  /\ boot = "read_head"
  /\ lh' = head
  /\ tail' = 0
  /\ boot' = "install"
  /\ UNCHANGED <<disk, bufs, outstanding, committing, procs, panicked>>

(* Slip: install_trans without its "recovering == 0". *)
RecoverBlockUnpins ==
  /\ boot = "install"
  /\ tail < Len(lh)
  /\ home' = [home EXCEPT ![lh[tail + 1]] = logd[tail + 1]]
  /\ cache' = [cache EXCEPT ![lh[tail + 1]] = logd[tail + 1]]
  /\ pins' = [pins EXCEPT ![lh[tail + 1]] = @ - 1]
  /\ tail' = tail + 1
  /\ UNCHANGED <<logd, head, held, loghd, procs, boot, panicked>>

(* install_trans(1), one block: copy a log block to its home location. *)
RecoverBlock ==
  /\ boot = "install"
  /\ tail < Len(lh)
  /\ home' = [home EXCEPT ![lh[tail + 1]] = logd[tail + 1]]
  /\ cache' = [cache EXCEPT ![lh[tail + 1]] = logd[tail + 1]]
  /\ tail' = tail + 1
  /\ UNCHANGED <<logd, head, pins, held, loghd, procs, boot, panicked>>

(* log.lh.n = 0; write_head(). *)
RecoverClear ==
  /\ boot = "install"
  /\ tail >= Len(lh)
  /\ lh' = <<>>
  /\ head' = <<>>
  /\ boot' = "up"
  /\ UNCHANGED <<home, logd, bufs, outstanding, committing, procs, tail, panicked>>

Recover == ReadHead \/ RecoverBlock \/ RecoverClear

--------------------------------------------------------------------------------
(* A process runs only when the log is up and the kernel has not stopped. *)
Running == boot = "up" /\ ~panicked

(* Slip: the caller's own reservation is forgotten. *)
NoRoomForgetsCaller == Len(lh) + outstanding * MAXOPBLOCKS > LOGSIZE

NoRoom == Len(lh) + (outstanding + 1) * MAXOPBLOCKS > LOGSIZE

(* Slip: begin_op does not look at log.committing. *)
BeginOpWhileCommitting(p) ==
  /\ Running
  /\ pc[p] \in {"user", "begin"}
  /\ IF NoRoom
     THEN /\ pc' = [pc EXCEPT ![p] = "sleep"]
          /\ UNCHANGED <<outstanding, used>>
     ELSE /\ pc' = [pc EXCEPT ![p] = "op"]
          /\ outstanding' = outstanding + 1
          /\ used' = [used EXCEPT ![p] = 0]
  /\ UNCHANGED <<disk, bufs, lh, committing, tail, boot, panicked>>

(* begin_op, one turn of its loop.  pc "begin" is a process that was asleep *)
(* in the loop and has been made runnable.                                  *)
BeginOp(p) ==
  /\ Running
  /\ pc[p] \in {"user", "begin"}
  /\ IF committing \/ NoRoom
     THEN /\ pc' = [pc EXCEPT ![p] = "sleep"]
          /\ UNCHANGED <<outstanding, used>>
     ELSE /\ pc' = [pc EXCEPT ![p] = "op"]
          /\ outstanding' = outstanding + 1
          /\ used' = [used EXCEPT ![p] = 0]
  /\ UNCHANGED <<disk, bufs, lh, committing, tail, boot, panicked>>

(* A file-system call breads a block and modifies its buffer, which it      *)
(* keeps locked; the call stays within OpBlocks new log entries.            *)
Modify(p, b, d) ==
  /\ Running
  /\ pc[p] = "op"
  /\ held[p] = Nothing
  /\ b \notin {held[q] : q \in Proc}
  /\ b \in Range(lh) \/ used[p] < OpBlocks
  /\ held' = [held EXCEPT ![p] = b]
  /\ cache' = [cache EXCEPT ![b] = d]
  /\ UNCHANGED <<disk, pins, loghd, procs, tail, boot, panicked>>

(* Slip: no absorption, every write takes a new log entry. *)
LogWriteAppends(p) ==
  /\ Running
  /\ held[p] # Nothing
  /\ IF Len(lh) >= LOGSIZE \/ Len(lh) + 1 >= NLOG \/ outstanding < 1
     THEN /\ panicked' = TRUE
          /\ UNCHANGED <<held, lh, pins, used>>
     ELSE /\ lh' = Append(lh, held[p])
          /\ pins' = [pins EXCEPT ![held[p]] = @ + 1]
          /\ used' = [used EXCEPT ![p] = @ + 1]
          /\ held' = [held EXCEPT ![p] = Nothing]
          /\ UNCHANGED panicked
  /\ UNCHANGED <<disk, cache, outstanding, committing, pc, tail, boot>>

(* Slip: no bpin. *)
LogWriteUnpinned(p) ==
  /\ Running
  /\ held[p] # Nothing
  /\ IF Len(lh) >= LOGSIZE \/ Len(lh) + 1 >= NLOG \/ outstanding < 1
     THEN /\ panicked' = TRUE
          /\ UNCHANGED <<held, lh, used>>
     ELSE /\ IF held[p] \in Range(lh)
             THEN UNCHANGED <<lh, used>>
             ELSE /\ lh' = Append(lh, held[p])
                  /\ used' = [used EXCEPT ![p] = @ + 1]
          /\ held' = [held EXCEPT ![p] = Nothing]
          /\ UNCHANGED panicked
  /\ UNCHANGED <<disk, cache, pins, outstanding, committing, pc, tail, boot>>

(* log_write(b) and the brelse(b) that follows it. *)
LogWrite(p) ==
  /\ Running
  /\ held[p] # Nothing
  /\ IF Len(lh) >= LOGSIZE \/ Len(lh) + 1 >= NLOG \/ outstanding < 1
     THEN /\ panicked' = TRUE
          /\ UNCHANGED <<held, lh, pins, used>>
     ELSE /\ IF held[p] \in Range(lh)
             THEN UNCHANGED <<lh, pins, used>>
             ELSE /\ lh' = Append(lh, held[p])
                  /\ pins' = [pins EXCEPT ![held[p]] = @ + 1]
                  /\ used' = [used EXCEPT ![p] = @ + 1]
          /\ held' = [held EXCEPT ![p] = Nothing]
          /\ UNCHANGED panicked
  /\ UNCHANGED <<disk, cache, outstanding, committing, pc, tail, boot>>

(* Slip: only the last operation wakes the sleepers. *)
EndOpSilent(p) ==
  /\ Running
  /\ pc[p] = "op"
  /\ held[p] = Nothing
  /\ outstanding' = outstanding - 1
  /\ panicked' = committing
  /\ IF outstanding = 1
     THEN /\ committing' = TRUE
          /\ tail' = 0
          /\ pc' = [pc EXCEPT ![p] = IF lh = <<>> THEN "finish" ELSE "write_log"]
     ELSE /\ pc' = [pc EXCEPT ![p] = "user"]
          /\ UNCHANGED <<committing, tail>>
  /\ UNCHANGED <<disk, bufs, lh, used, boot>>

(* end_op up to the release of log.lock; the process that leaves no         *)
(* operation outstanding goes on to commit().                               *)
EndOp(p) ==
  /\ Running
  /\ pc[p] = "op"
  /\ held[p] = Nothing
  /\ outstanding' = outstanding - 1
  /\ panicked' = committing
  /\ IF outstanding = 1
     THEN /\ committing' = TRUE
          /\ tail' = 0
          /\ pc' = [pc EXCEPT ![p] = IF lh = <<>> THEN "finish" ELSE "write_log"]
     ELSE /\ pc' = Wakeup([pc EXCEPT ![p] = "user"])
          /\ UNCHANGED <<committing, tail>>
  /\ UNCHANGED <<disk, bufs, lh, used, boot>>

--------------------------------------------------------------------------------
(* commit(). *)

(* write_log, one block: cache block to log block. *)
WriteLog(p) ==
  /\ Running
  /\ pc[p] = "write_log"
  /\ tail < Len(lh)
  /\ logd' = [logd EXCEPT ![tail + 1] = View(lh[tail + 1])]
  /\ cache' = [cache EXCEPT ![lh[tail + 1]] = View(lh[tail + 1])]
  /\ tail' = tail + 1
  /\ UNCHANGED <<home, head, pins, held, loghd, procs, boot, panicked>>

(* Slip: the header is written before the log blocks are. *)
WriteHeadEarly(p) ==
  /\ Running
  /\ pc[p] = "write_log"
  /\ head' = lh
  /\ tail' = 0
  /\ pc' = [pc EXCEPT ![p] = "install"]
  /\ UNCHANGED <<home, logd, bufs, loghd, used, boot, panicked>>

(* The first write_head: the point at which the transaction commits. *)
WriteHead(p) ==
  /\ Running
  /\ pc[p] = "write_log"
  /\ tail >= Len(lh)
  /\ head' = lh
  /\ tail' = 0
  /\ pc' = [pc EXCEPT ![p] = "install"]
  /\ UNCHANGED <<home, logd, bufs, loghd, used, boot, panicked>>

(* install_trans(0), one block: log block to home block, then bunpin. *)
Install(p) ==
  /\ Running
  /\ pc[p] = "install"
  /\ tail < Len(lh)
  /\ home' = [home EXCEPT ![lh[tail + 1]] = logd[tail + 1]]
  /\ cache' = [cache EXCEPT ![lh[tail + 1]] = logd[tail + 1]]
  /\ pins' = [pins EXCEPT ![lh[tail + 1]] = @ - 1]
  /\ tail' = tail + 1
  /\ UNCHANGED <<logd, head, held, loghd, procs, boot, panicked>>

(* Slip: the transaction is erased before it is installed. *)
ClearHeadEarly(p) ==
  /\ Running
  /\ pc[p] = "install"
  /\ lh' = <<>>
  /\ head' = <<>>
  /\ pc' = [pc EXCEPT ![p] = "finish"]
  /\ UNCHANGED <<home, logd, bufs, outstanding, committing, used, tail, boot, panicked>>

(* log.lh.n = 0 and the second write_head: erase the transaction. *)
ClearHead(p) ==
  /\ Running
  /\ pc[p] = "install"
  /\ tail >= Len(lh)
  /\ lh' = <<>>
  /\ head' = <<>>
  /\ pc' = [pc EXCEPT ![p] = "finish"]
  /\ UNCHANGED <<home, logd, bufs, outstanding, committing, used, tail, boot, panicked>>

(* Slip: end_op does not wake those who waited for the commit. *)
FinishSilent(p) ==
  /\ Running
  /\ pc[p] = "finish"
  /\ committing' = FALSE
  /\ pc' = [pc EXCEPT ![p] = "user"]
  /\ UNCHANGED <<disk, bufs, lh, outstanding, used, tail, boot, panicked>>

(* The last critical section of end_op. *)
Finish(p) ==
  /\ Running
  /\ pc[p] = "finish"
  /\ committing' = FALSE
  /\ pc' = Wakeup([pc EXCEPT ![p] = "user"])
  /\ UNCHANGED <<disk, bufs, lh, outstanding, used, tail, boot, panicked>>

Commit(p) == WriteLog(p) \/ WriteHead(p) \/ Install(p) \/ ClearHead(p) \/ Finish(p)

--------------------------------------------------------------------------------
(* The rest of the machine. *)

(* A reader outside any transaction brings a block into the cache. *)
Load(b) ==
  /\ Running
  /\ cache[b] = Nothing
  /\ cache' = [cache EXCEPT ![b] = home[b]]
  /\ UNCHANGED <<disk, pins, held, loghd, procs, tail, boot, panicked>>

(* bget recycles a buffer nobody refers to: its contents are forgotten. *)
Evict(b) ==
  /\ Running
  /\ cache[b] # Nothing
  /\ pins[b] = 0
  /\ b \notin {held[p] : p \in Proc}
  /\ cache' = [cache EXCEPT ![b] = Nothing]
  /\ UNCHANGED <<disk, pins, held, loghd, procs, tail, boot, panicked>>

(* The block that is being written when the power fails may be torn; a      *)
(* header block is not.                                                     *)
LogWriteInFlight == tail < Len(lh) /\ \E p \in Proc : pc[p] = "write_log"

HomeWriteInFlight ==
  /\ tail < Len(lh)
  /\ boot = "install" \/ \E p \in Proc : pc[p] = "install"

Crash ==
  /\ \/ UNCHANGED <<home, logd>>
     \/ /\ LogWriteInFlight
        /\ logd' = [logd EXCEPT ![tail + 1] = Torn]
        /\ UNCHANGED home
     \/ /\ HomeWriteInFlight
        /\ home' = [home EXCEPT ![lh[tail + 1]] = Torn]
        /\ UNCHANGED logd
  /\ UNCHANGED head
  /\ cache' = [b \in Block |-> Nothing]
  /\ pins' = [b \in Block |-> 0]
  /\ held' = [p \in Proc |-> Nothing]
  /\ lh' = <<>>
  /\ outstanding' = 0
  /\ committing' = FALSE
  /\ tail' = 0
  /\ boot' = "read_head"
  /\ pc' = [p \in Proc |-> "user"]
  /\ used' = [p \in Proc |-> 0]
  /\ panicked' = FALSE

Next ==
  \/ Recover
  \/ \E p \in Proc : BeginOp(p) \/ LogWrite(p) \/ EndOp(p) \/ Commit(p)
  \/ \E p \in Proc, b \in Block, d \in Data : Modify(p, b, d)
  \/ \E b \in Block : Load(b) \/ Evict(b)
  \/ Crash

Spec == Init /\ [][Next]_vars

(* The scheduler runs every runnable process again and again, and booting   *)
(* makes progress.  The loops of a file-system call are bounded, so a call  *)
(* that can end ends: strong fairness, as its writes keep disabling EndOp.  *)
(* A process in user mode need not call the kernel, and the power need not  *)
(* fail.                                                                    *)
Fairness ==
  /\ WF_vars(Recover)
  /\ \A p \in Proc : /\ WF_vars(pc[p] = "begin" /\ BeginOp(p))
                     /\ WF_vars(LogWrite(p))
                     /\ SF_vars(EndOp(p))
                     /\ WF_vars(Commit(p))

FairSpec == Spec /\ Fairness
--------------------------------------------------------------------------------
(* Properties. *)

PcValues == {"user", "begin", "sleep", "op", "write_log", "install", "finish"}

(* Every variable has its type; a process that waits or runs a commit holds *)
(* no buffer.                                                               *)
TypeOK ==
  /\ home \in [Block -> Data \cup {Torn}]
  /\ logd \in [1..LOGSIZE -> Data \cup {Torn}]
  /\ head \in Seq(Block)
  /\ cache \in [Block -> Data \cup {Torn, Nothing}]
  /\ pins \in [Block -> Nat]
  /\ held \in [Proc -> Block \cup {Nothing}]
  /\ lh \in Seq(Block)
  /\ outstanding \in Nat
  /\ committing \in BOOLEAN
  /\ tail \in Nat
  /\ boot \in {"read_head", "install", "up"}
  /\ pc \in [Proc -> PcValues]
  /\ used \in [Proc -> Nat]
  /\ panicked \in BOOLEAN

(* No file-system call ever stops the kernel: log_write never finds the log *)
(* full or no operation outstanding, end_op never finds a commit running.   *)
NoPanic == ~panicked

(* begin_op admits an operation only if the log can still take the whole    *)
(* MAXOPBLOCKS of every admitted operation (log.c:133).                     *)
Slots == {s \in Proc \X (1..MAXOPBLOCKS) : pc[s[1]] = "op" /\ s[2] > used[s[1]]}
SpaceReserved == Len(lh) + Cardinality(Slots) <= LOGSIZE

(* A process is asleep in begin_op only for a reason that still holds, and  *)
(* some end_op is still to come that wakes it (log.c:162, log.c:172).       *)
NoLostWakeup ==
  (\E p \in Proc : pc[p] = "sleep") => committing \/ (NoRoom /\ outstanding > 0)

(* With the constants of param.h, LOGSIZE = MAXOPBLOCKS, the log never runs *)
(* two file-system calls at a time.                                         *)
Serialised == LOGSIZE < 2 * MAXOPBLOCKS => outstanding <= 1

(* A block whose cached contents are newer than the disk's cannot be        *)
(* recycled: it is pinned by the log or locked by its writer.               *)
DirtyIsKept ==
  boot = "up" =>
    \A b \in Block : cache[b] \notin {Nothing, home[b]} =>
                       pins[b] > 0 \/ b \in {held[p] : p \in Proc}

(* What a power failure would leave changes in one step only, the write of  *)
(* a header over an empty one: "the true point at which the current         *)
(* transaction commits" (log.c:100).  Recovery, installation, erasing the   *)
(* header, and a power failure at any point of them change nothing.         *)
CommitPoint ==
  [][Recovered' # Recovered =>
       head = <<>> /\ head' # <<>> /\ outstanding = 0]_vars

(* The log implements the atomic disk: groups of operations become          *)
(* permanent in one step, nothing of an unfinished one ever does, and the   *)
(* end_op that ends a group returns with all of it permanent.               *)
Atomic == INSTANCE AtomicDisk WITH
            stable  <- Recovered,
            current <- Current,
            open    <- Ops,
            syncing <- committing

RefinesAtomicDisk == Atomic!Spec

(* A process asleep in begin_op is woken again, whatever the others do.     *)
SleeperWakes == \A p \in Proc : pc[p] = "sleep" ~> pc[p] # "sleep"

--------------------------------------------------------------------------------
(* The inductive invariant behind the safety properties: LogProofs proves   *)
(* that it is one.                                                          *)

Committers == {p \in Proc : pc[p] \in {"write_log", "install", "finish"}}
InPhase(phase) == \E p \in Proc : pc[p] = phase

(* The blocks whose home location is still to be written. *)
Pending == IF InPhase("install")
           THEN {lh[i] : i \in {j \in DOMAIN lh : j > tail}}
           ELSE Range(lh)

(* Who runs: nobody while booting, one committer after the last operation. *)
ControlInv ==
  /\ boot # "up" => /\ \A p \in Proc : pc[p] = "user"
                    /\ \A b \in Block : pins[b] = 0
  /\ outstanding = Cardinality(Ops)
  /\ committing <=> Committers # {}
  /\ \A p, q \in Committers : p = q
  /\ committing => Ops = {}
  /\ \A p \in Proc : held[p] # Nothing => pc[p] = "op"
  /\ ~panicked

(* What an operation may still add to the log. *)
SpaceInv ==
  /\ SpaceReserved
  /\ Len(lh) <= LOGSIZE /\ Len(head) <= LOGSIZE
  /\ \A p \in Proc : used[p] <= OpBlocks
  /\ \A p \in Proc : held[p] \notin Range(lh) \cup {Nothing} => used[p] < OpBlocks

(* The header on the disk, the header in memory, and how far the copies     *)
(* between cache, log and home locations have come.                         *)
HeaderInv ==
  /\ \A i, j \in DOMAIN head : head[i] = head[j] => i = j
  /\ \A i, j \in DOMAIN lh : lh[i] = lh[j] => i = j
  /\ boot = "read_head" => lh = <<>>
  /\ boot = "install" => lh = head
  /\ boot = "up" => head = IF InPhase("install") THEN lh ELSE <<>>
  /\ InPhase("finish") => lh = <<>>
  /\ InPhase("write_log") =>
       \A i \in DOMAIN lh : i <= tail => logd[i] = View(lh[i])
  /\ boot = "install" \/ InPhase("install") =>
       \A i \in DOMAIN lh : i <= tail => home[lh[i]] = logd[i]
  /\ InPhase("install") => \A i \in DOMAIN lh : logd[i] = View(lh[i])

(* The cache: what is pinned, and that nothing else is dirty. *)
CacheInv ==
  /\ boot = "up" => \A b \in Block : pins[b] = IF b \in Pending THEN 1 ELSE 0
  /\ \A b \in Block : cache[b] \notin {Nothing, home[b]} =>
                        pins[b] > 0 \/ b \in {held[p] : p \in Proc}

IInv == TypeOK /\ ControlInv /\ SpaceInv /\ HeaderInv /\ CacheInv
================================================================================
