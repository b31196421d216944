---------------------------------- MODULE Pipe ----------------------------------
(***************************************************************************)
(* A pipe, kernel/pipe.c, and the processes at its two ends: they inherit  *)
(* the ends through fork, sleep on a full or an empty pipe, get killed,    *)
(* and the last of them to close an end closes it for the others.          *)
(*                                                                         *)
(* One action is one byte, or one turn of a loop, of a process that holds  *)
(* pi->lock; sleep() gives the lock back and takes it again.               *)
(***************************************************************************)
EXTENDS Naturals, Sequences

CONSTANTS
  Proc,      \* entries of the process table
  Byte,      \* what is sent
  None,      \* nobody holds the lock
  PIPESIZE,  \* bytes in the ring
  UINT,      \* the counters nread and nwrite are modulo this (2^32)
  MaxCount,  \* the largest n of a read or a write (bound of the model)
  NCPU       \* param.h: with one CPU nobody runs while the lock is held

ASSUME ConstAssumption ==
  /\ None \notin Proc
  /\ PIPESIZE \in Nat \ {0} /\ UINT \in Nat /\ MaxCount \in Nat /\ NCPU \in Nat
  /\ UINT % PIPESIZE = 0 /\ UINT > PIPESIZE

VARIABLES
  data,       \* pi->data
  nread,      \* pi->nread
  nwrite,     \* pi->nwrite
  readopen,   \* pi->readopen
  writeopen,  \* pi->writeopen
  allocated,  \* pi is a page of its own, kfree() has not got it back
  lock,       \* pi->lock
  fds,        \* the ends a process has open
  killed,     \* p->killed
  todo,       \* n - i of a read or a write
  pc          \* where each process is

ring == <<data, nread, nwrite>>
ends == <<readopen, writeopen, allocated>>
vars == <<ring, ends, lock, fds, killed, todo, pc>>

Empty == nread = nwrite
(* Slip: a ring of one byte more than there is room for. *)
FullTooLate == nwrite = (nread + PIPESIZE + 1) % UINT

Full == nwrite = (nread + PIPESIZE) % UINT

(* wakeup(chan), where the label `asleep` means sleeping on chan. *)
Wakeup(f, asleep, awake) == [q \in Proc |-> IF f[q] = asleep THEN awake ELSE f[q]]

WakeReaders(f) == Wakeup(f, "read_sleep", "read")
WakeWriters(f) == Wakeup(f, "write_sleep", "write")

(* usertrap() starts a system call. *)
Syscall(p) == pc[p] = "user" /\ ~killed[p]

Goto(p, label) == [pc EXCEPT ![p] = label]

Init ==
  /\ data \in [0 .. PIPESIZE - 1 -> Byte]
  /\ nread = 0 /\ nwrite = 0
  /\ readopen = FALSE /\ writeopen = FALSE /\ allocated = FALSE
  /\ lock = None
  /\ fds = [p \in Proc |-> {}]
  /\ killed = [p \in Proc |-> FALSE]
  /\ todo = [p \in Proc |-> 0]
  /\ pc = [p \in Proc |-> "user"]

--------------------------------------------------------------------------------
(* The ends. *)

(* pipe(): pipealloc(), with both ends in new descriptors. *)
PipeAlloc(p) ==
  /\ Syscall(p)
  /\ ~allocated
  /\ allocated' = TRUE /\ readopen' = TRUE /\ writeopen' = TRUE
  /\ nread' = 0 /\ nwrite' = 0
  /\ fds' = [fds EXCEPT ![p] = {"read", "write"}]
  /\ UNCHANGED <<data, lock, killed, todo, pc>>

(* fork(): filedup() of every open file; q is the slot of the new process.  *)
Fork(p, q) ==
  /\ Syscall(p) /\ Syscall(q)
  /\ p # q
  /\ fds[q] = {}
  /\ fds' = [fds EXCEPT ![q] = fds[p]]
  /\ UNCHANGED <<ring, ends, lock, killed, todo, pc>>

(* fileclose(), by close() or exit(): only the last reference closes the    *)
(* end, after ftable.lock is released.                                      *)
FileClose(p, e) ==
  /\ pc[p] = "user"
  /\ e \in fds[p]
  /\ fds' = [fds EXCEPT ![p] = @ \ {e}]
  /\ pc' = IF \E q \in Proc \ {p} : e \in fds[q]
           THEN pc
           ELSE Goto(p, IF e = "read" THEN "close_read" ELSE "close_write")
  /\ UNCHANGED <<ring, ends, lock, killed, todo>>

(* Slip: the page is freed when either end is closed. *)
CloseEither(p) ==
  /\ lock = None
  /\ \/ /\ pc[p] = "close_write"
        /\ writeopen' = FALSE
        /\ pc' = WakeReaders(Goto(p, "user"))
        /\ UNCHANGED readopen
     \/ /\ pc[p] = "close_read"
        /\ readopen' = FALSE
        /\ pc' = WakeWriters(Goto(p, "user"))
        /\ UNCHANGED writeopen
  /\ allocated' = (readopen' /\ writeopen')
  /\ UNCHANGED <<ring, lock, fds, killed, todo>>

(* Slip: pipeclose() wakes the processes of its own end. *)
CloseSilent(p) ==
  /\ lock = None
  /\ \/ /\ pc[p] = "close_write"
        /\ writeopen' = FALSE
        /\ pc' = WakeWriters(Goto(p, "user"))
        /\ UNCHANGED readopen
     \/ /\ pc[p] = "close_read"
        /\ readopen' = FALSE
        /\ pc' = WakeReaders(Goto(p, "user"))
        /\ UNCHANGED writeopen
  /\ allocated' = (readopen' \/ writeopen')
  /\ UNCHANGED <<ring, lock, fds, killed, todo>>

PipeClose(p) ==
  /\ lock = None
  /\ \/ /\ pc[p] = "close_write"
        /\ writeopen' = FALSE
        /\ pc' = WakeReaders(Goto(p, "user"))
        /\ UNCHANGED readopen
     \/ /\ pc[p] = "close_read"
        /\ readopen' = FALSE
        /\ pc' = WakeWriters(Goto(p, "user"))
        /\ UNCHANGED writeopen
  /\ allocated' = (readopen' \/ writeopen')
  /\ UNCHANGED <<ring, lock, fds, killed, todo>>

--------------------------------------------------------------------------------
(* pipewrite() *)

Write(p, n) ==
  /\ Syscall(p)
  /\ "write" \in fds[p]
  /\ todo' = [todo EXCEPT ![p] = n]
  /\ pc' = Goto(p, "write")
  /\ UNCHANGED <<ring, ends, lock, fds, killed>>

(* acquire(&pi->lock), at the start and at the end of sleep(). *)
WriteLock(p) ==
  /\ pc[p] = "write"
  /\ lock = None
  /\ lock' = p
  /\ pc' = Goto(p, "writing")
  /\ UNCHANGED <<ring, ends, fds, killed, todo>>

(* The test of the loop passes.  It reads p->killed under p->lock and gives *)
(* that lock back: with several CPUs a kill may come right after.           *)
WriteReady(p) ==
  /\ pc[p] = "writing"
  /\ todo[p] > 0
  /\ readopen /\ ~killed[p]
  /\ pc' = Goto(p, "write_ready")
  /\ UNCHANGED <<ring, ends, lock, fds, killed, todo>>

WriteAbort(p) ==
  /\ pc[p] = "writing"
  /\ todo[p] > 0
  /\ ~readopen \/ killed[p]
  /\ lock' = None
  /\ todo' = [todo EXCEPT ![p] = 0]
  /\ pc' = Goto(p, "user")
  /\ UNCHANGED <<ring, ends, fds, killed>>

(* Slip: the writer sleeps without waking the readers. *)
WriteSleepSilent(p) ==
  /\ pc[p] = "write_ready"
  /\ Full
  /\ lock' = None
  /\ pc' = Goto(p, "write_sleep")
  /\ UNCHANGED <<ring, ends, fds, killed, todo>>

WriteSleep(p) ==
  /\ pc[p] = "write_ready"
  /\ Full
  /\ lock' = None
  /\ pc' = WakeReaders(Goto(p, "write_sleep"))
  /\ UNCHANGED <<ring, ends, fds, killed, todo>>

WriteByte(p, b) ==
  /\ pc[p] = "write_ready"
  /\ ~Full
  /\ data' = [data EXCEPT ![nwrite % PIPESIZE] = b]
  /\ nwrite' = (nwrite + 1) % UINT
  /\ todo' = [todo EXCEPT ![p] = @ - 1]
  /\ pc' = Goto(p, "writing")
  /\ UNCHANGED <<nread, ends, lock, fds, killed>>

(* All is written, or copyin() fails: the call returns what it has done.    *)
WriteDone(p) ==
  /\ \/ pc[p] = "writing" /\ todo[p] = 0
     \/ pc[p] = "write_ready" /\ ~Full
  /\ lock' = None
  /\ todo' = [todo EXCEPT ![p] = 0]
  /\ pc' = WakeReaders(Goto(p, "user"))
  /\ UNCHANGED <<ring, ends, fds, killed>>

--------------------------------------------------------------------------------
(* piperead() *)

Read(p, n) ==
  /\ Syscall(p)
  /\ "read" \in fds[p]
  /\ todo' = [todo EXCEPT ![p] = n]
  /\ pc' = Goto(p, "read")
  /\ UNCHANGED <<ring, ends, lock, fds, killed>>

ReadLock(p) ==
  /\ pc[p] = "read"
  /\ lock = None
  /\ lock' = p
  /\ pc' = Goto(p, "reading")
  /\ UNCHANGED <<ring, ends, fds, killed, todo>>

(* Nothing to read yet, but somebody may still write. *)
MustWait(p) == pc[p] = "reading" /\ Empty /\ writeopen

ReadAbort(p) ==
  /\ MustWait(p)
  /\ killed[p]
  /\ lock' = None
  /\ todo' = [todo EXCEPT ![p] = 0]
  /\ pc' = Goto(p, "user")
  /\ UNCHANGED <<ring, ends, fds, killed>>

ReadReady(p) ==
  /\ MustWait(p)
  /\ ~killed[p]
  /\ pc' = Goto(p, "read_ready")
  /\ UNCHANGED <<ring, ends, lock, fds, killed, todo>>

ReadSleep(p) ==
  /\ pc[p] = "read_ready"
  /\ lock' = None
  /\ pc' = Goto(p, "read_sleep")
  /\ UNCHANGED <<ring, ends, fds, killed, todo>>

ReadCopy(p) ==
  /\ pc[p] = "reading"
  /\ ~Empty \/ ~writeopen
  /\ pc' = Goto(p, "copying")
  /\ UNCHANGED <<ring, ends, lock, fds, killed, todo>>

(* Slip: "<=" for "<" in the loop over the bytes. *)
ReadOneMore(p) ==
  /\ pc[p] = "copying"
  /\ ~Empty
  /\ nread' = (nread + 1) % UINT
  /\ todo' = [todo EXCEPT ![p] = @ - 1]
  /\ UNCHANGED <<data, nwrite, ends, lock, fds, killed, pc>>

ReadByte(p) ==
  /\ pc[p] = "copying"
  /\ todo[p] > 0
  /\ ~Empty
  /\ nread' = (nread + 1) % UINT
  /\ todo' = [todo EXCEPT ![p] = @ - 1]
  /\ UNCHANGED <<data, nwrite, ends, lock, fds, killed, pc>>

(* copyout() fails: the byte is gone all the same. *)
ReadFault(p) ==
  /\ pc[p] = "copying"
  /\ todo[p] > 0
  /\ ~Empty
  /\ nread' = (nread + 1) % UINT
  /\ lock' = None
  /\ todo' = [todo EXCEPT ![p] = 0]
  /\ pc' = WakeWriters(Goto(p, "user"))
  /\ UNCHANGED <<data, nwrite, ends, fds, killed>>

ReadDone(p) ==
  /\ pc[p] = "copying"
  /\ todo[p] = 0 \/ Empty
  /\ lock' = None
  /\ todo' = [todo EXCEPT ![p] = 0]
  /\ pc' = WakeWriters(Goto(p, "user"))
  /\ UNCHANGED <<ring, ends, fds, killed>>

--------------------------------------------------------------------------------
(* Slip: kill() leaves a sleeping process asleep. *)
KillSilent(p) ==
  /\ NCPU = 1 => lock = None
  /\ ~killed[p]
  /\ killed' = [killed EXCEPT ![p] = TRUE]
  /\ UNCHANGED <<ring, ends, lock, fds, todo, pc>>

(* kill(), by some process that runs: with one CPU nobody else runs while   *)
(* the lock is held, because interrupts are off.                            *)
Kill(p) ==
  /\ NCPU = 1 => lock = None
  /\ ~killed[p]
  /\ killed' = [killed EXCEPT ![p] = TRUE]
  /\ pc' = CASE pc[p] = "read_sleep"  -> Goto(p, "read")
             [] pc[p] = "write_sleep" -> Goto(p, "write")
             [] OTHER                 -> pc
  /\ UNCHANGED <<ring, ends, lock, fds, todo>>

(* exit() has closed everything; the slot is free for another process.      *)
Exit(p) ==
  /\ pc[p] = "user"
  /\ killed[p]
  /\ fds[p] = {}
  /\ killed' = [killed EXCEPT ![p] = FALSE]
  /\ UNCHANGED <<ring, ends, lock, fds, todo, pc>>

(* What a process does once it has entered the kernel. *)
Step(p) ==
  \/ PipeClose(p)
  \/ WriteLock(p) \/ WriteAbort(p) \/ WriteReady(p) \/ WriteSleep(p) \/ WriteDone(p)
  \/ \E b \in Byte : WriteByte(p, b)
  \/ ReadLock(p) \/ ReadAbort(p) \/ ReadReady(p) \/ ReadSleep(p) \/ ReadCopy(p)
  \/ ReadByte(p) \/ ReadFault(p) \/ ReadDone(p)

Next ==
  \E p \in Proc :
    \/ PipeAlloc(p) \/ Step(p) \/ Kill(p) \/ Exit(p)
    \/ \E q \in Proc : Fork(p, q)
    \/ \E e \in {"read", "write"} : FileClose(p, e)
    \/ \E n \in 0 .. MaxCount : Write(p, n) \/ Read(p, n)

Spec == Init /\ [][Next]_vars

(* The scheduler runs every process in the kernel again and again.  Strong  *)
(* fairness: the lock may be taken each time the process looks, but not     *)
(* always.  A process in user mode need not do anything.                    *)
Fairness == \A p \in Proc : SF_vars(Step(p))

FairSpec == Spec /\ Fairness

--------------------------------------------------------------------------------
(* Properties. *)

Reads == {"read", "reading", "read_ready", "copying", "read_sleep"}
Writes == {"write", "writing", "write_ready", "write_sleep"}
Labels == Reads \cup Writes \cup {"user", "close_read", "close_write"}

(* Every variable has its type. *)
TypeOK ==
  /\ data \in [0 .. PIPESIZE - 1 -> Byte]
  /\ nread \in 0 .. UINT - 1 /\ nwrite \in 0 .. UINT - 1
  /\ readopen \in BOOLEAN /\ writeopen \in BOOLEAN /\ allocated \in BOOLEAN
  /\ lock \in Proc \cup {None}
  /\ fds \in [Proc -> SUBSET {"read", "write"}]
  /\ killed \in [Proc -> BOOLEAN]
  /\ todo \in [Proc -> 0 .. MaxCount]
  /\ pc \in [Proc -> Labels]

(* When pi->lock is free, a process sleeps only over what it waits for: the *)
(* pipe is empty (full), the other end is open, and it has not been killed. *)
(* With several CPUs it does not hold: a kill may come between the test of  *)
(* p->killed and the sleep, or make pipewrite return without the wakeup.    *)
NoLostWakeup ==
  NCPU = 1 /\ lock = None =>
    \A p \in Proc :
      /\ pc[p] = "read_sleep" => Empty /\ writeopen /\ ~killed[p]
      /\ pc[p] = "write_sleep" => Full /\ readopen /\ ~killed[p]

(* The page of a pipe is freed once, and nobody is in the pipe, has a       *)
(* descriptor for it, or is about to close it, after that.                  *)
FreedIsUnused == ~allocated => \A p \in Proc : fds[p] = {} /\ pc[p] = "user"

(* The ring is a channel: nothing is lost, doubled or reordered, also when  *)
(* the counters wrap, several processes write, or a pipe is made anew.      *)
Count == (nwrite + UINT - nread) % UINT
Bytes == [k \in 1 .. Count |-> data[(nread + k - 1) % PIPESIZE]]

Chan == INSTANCE Channel WITH
          Size <- PIPESIZE,
          bytes <- Bytes,
          ends <- (IF readopen THEN {"read"} ELSE {}) \cup (IF writeopen THEN {"write"} ELSE {})

RefinesChannel == Chan!Spec

(* Whoever waits at one end learns that the other end is closed.            *)
EndIsSeen ==
  \A p \in Proc :
    \/ pc[p] \in Reads /\ ~writeopen
    \/ pc[p] \in Writes /\ ~readopen
    ~> pc[p] = "user"

(* A killed process leaves the pipe.                                        *)
KilledReturns == \A p \in Proc : killed[p] ~> pc[p] = "user"

--------------------------------------------------------------------------------
(* The inductive invariant behind the safety properties.                    *)

(* The process that has the lock is in a loop of pipewrite or piperead, and *)
(* what it has tested stays true.                                           *)
LockInv ==
  \A p \in Proc :
    /\ pc[p] \in {"writing", "write_ready", "reading", "read_ready", "copying"} <=> lock = p
    /\ pc[p] = "write_ready" => todo[p] > 0 /\ readopen /\ (NCPU = 1 => ~killed[p])
    /\ pc[p] = "read_ready" => Empty /\ writeopen /\ (NCPU = 1 => ~killed[p])

(* An end is open while somebody has it, or is about to close it as the     *)
(* last one who had it.                                                     *)
EndInv ==
  /\ allocated <=> readopen \/ writeopen
  /\ readopen <=> \E p \in Proc : "read" \in fds[p] \/ pc[p] = "close_read"
  /\ writeopen <=> \E p \in Proc : "write" \in fds[p] \/ pc[p] = "close_write"
  /\ \A p, q \in Proc : pc[p] = "close_read" =>
       "read" \notin fds[q] /\ (pc[q] = "close_read" => q = p)
  /\ \A p, q \in Proc : pc[p] = "close_write" =>
       "write" \notin fds[q] /\ (pc[q] = "close_write" => q = p)
  /\ \A p \in Proc : pc[p] \in Reads => "read" \in fds[p]
  /\ \A p \in Proc : pc[p] \in Writes => "write" \in fds[p]

(* Whoever makes the reason of a sleep untrue still has the lock and wakes. *)
WakeInv ==
  NCPU = 1 =>
    \A p \in Proc :
      /\ pc[p] = "read_sleep" =>
           /\ writeopen /\ ~killed[p]
           /\ \/ Empty
              \/ /\ lock # None
                 /\ pc[lock] \in {"writing", "write_ready"}
                 /\ ~killed[lock]
      /\ pc[p] = "write_sleep" =>
           /\ readopen /\ ~killed[p]
           /\ Full \/ (lock # None /\ pc[lock] = "copying")

(* The ring never holds more than it has room for. *)
CountInv == Count <= PIPESIZE

IInv == TypeOK /\ CountInv /\ LockInv /\ EndInv /\ WakeInv
================================================================================
