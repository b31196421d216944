# Models of xv6 on the rv32ia system-on-chip

TLA+ specifications, model-checking runs and machine-checked proofs for this
repository: the xv6 Unix kernel ported to a 32-bit RISC-V CPU written in
Verilog, with an SD card as its disk.  Paths below are relative to the
repository; `kernel/` stands for `xv6-riscv/kernel/`, `user/` for
`xv6-riscv/user/`.

- `PROJECT.json` lists components, runs, mutants, the map from definitions to
  source lines, findings, hazards and theorems.
- A run: `tlc -workers 2 -config MCLogSerial.cfg MCLog`.
- A proof: `tlapm LogProofs.tla`.

Section 1 is the inventory, section 2 the modules, sections 3 to 13 what each
models and promises, 14 the runs, 15 the proofs, 16 the findings, 17 what is left out.


## 1. Inventory

### How the parts fit together

User programs enter the kernel through `ecall` (`kernel/trap.c`, `syscall.c`).
Process calls end in `proc.c`; file calls go through `sysfile.c` and `file.c`
to `fs.c`, whose every change to the disk is bracketed by `begin_op` and
`end_op` of `log.c`; the log works on buffers of `bio.c`, which `sdcard.c` reads
and writes.  Console input comes from `uart.c` by interrupt.  All waiting is
`sleep(chan, lock)` and `wakeup(chan)` of `proc.c`.  `param.h` builds the kernel
for one CPU (`NCPU 1`), but all the locking for several is there.

### Components

| Component | State | Operations | Talks to | Hard behaviour | What makes it correct |
|---|---|---|---|---|---|
| Log (`log.c`) | `log.lh`, `outstanding`, `committing`; header and log blocks on the card | `begin_op`, `log_write`, `end_op`, `commit`, recovery | buffer cache, card, sleep/wakeup | power failure between any two writes, group commit, space reservation, waiting | groups of operations are atomic and permanent when the last `end_op` returns; never out of space; nobody waits for ever |
| Processes (`proc.c`, part of `trap.c`) | the process table, `wait_lock`, `c->proc` | `fork`, `exit`, `wait`, `kill`, `sleep`, `wakeup`, `yield`, `scheduler` | everything that waits | locks handed across a context switch, parent and child exiting together, a kill on the way into a sleep | one CPU per stack, no lost wakeup, orphans go to init, killed processes exit |
| Buffer cache (`bio.c`) | buffers, reference counts, LRU list | `bget`, `bread`, `bwrite`, `brelse`, `bpin` | log, card, sleep locks | recycling against a reader, all buffers busy | one buffer per block, a referenced buffer is not recycled |
| SD card (`sdcard.c`) | card state, `sdlock` | `spi_init`, `spi_rb`, `spi_wb` | SPI port | refused commands, bad CRC | what `bread` returns is the block on the card; a write that returns is on the card |
| Sleep locks (`sleeplock.c`) | `locked`, `pid` | acquire, release, holding | sleep/wakeup | a third process between wakeup and look | mutual exclusion, waiters are served |
| Spin locks (`spinlock.c`) | `locked`, `cpu`, `noff`, `intena` | acquire, release, `push_off`, `pop_off` | traps, `sched` | interrupt state across a switch | interrupts on exactly when no lock is held and they were on |
| Inodes and directories (`fs.c`) | inode table, bitmap, inodes and directories on disk | `ialloc`, `iget`, `ilock`, `iput`, `bmap`, `itrunc`, `readi`, `writei`, `namex` | log, buffer cache | freeing at the last close against a lookup, table exhaustion, crash with an unlinked open file | a block has one owner, links are counted right, no inode is freed while in use |
| File table (`file.c`, `sysfile.c`) | `ftable`, `ofile` of each process | `filealloc`, `filedup`, `fileclose`, read, write, open, link, unlink | inodes, pipes, console, processes | close of shared descriptors, failure half way | reference counts equal the descriptors; last close closes once |
| Pipes (`pipe.c`) | ring, `nread`, `nwrite`, `readopen`, `writeopen` | read, write, close | file table, sleep/wakeup | closing or killing against a sleeper | a FIFO of bytes; readers and writers never wait without a waker |
| Console (`console.c`) | `buf`, `r`, `w`, `e` | `consoleread`, `consoleintr`, `consolewrite` | UART | editing against a blocked reader, counters at the limit | `r <= w <= e <= r + 128`; complete lines come out in order |
| UART (`uart.c`, `fpga/uart.v`) | transmit ring, holding and shift register, interrupt flags | `uartputc`, `uartstart`, `uartintr`, hardware shift | console, PLIC | an interrupt edge lost between test and return | every character is sent once and in order |
| Traps and timer (`trap.c`, `kernelvec32.S`, `start.c`, `fpga/clint.v`, `plic.v`) | `ticks`, `mtimecmp`, `mip`, `sip` | `usertrap`, `kerneltrap`, `clockintr`, `devintr`, `timervec` | scheduler, devices | a timer interrupt while the last one is acknowledged | no tick is lost, `sys_sleep` ends |
| Memory (`kalloc.c`, `vm.c`, `exec.c`) | free list, page tables | `kalloc`, `kfree`, `uvmalloc`, `uvmcopy`, `uvmunmap`, `exec` | processes | allocation failing half way | every page has one owner, failures give everything back |
| CPU (`fpga/rv32.v`) | privilege level, CSRs, pipeline state | trap entry, `mret`, `sret`, interrupts, arithmetic | bus | an interrupt that arrives while an exception is decoded | no exception is lost, the level returned to is the one left; results are what the instruction set asks for |
| Memory access (`fpga/vma.v`, `sram.v`) | walk and half-word registers | page walk, load, store | CPU, bus | two halves, three walks, strobes that overlap | one word, the right one, once |
| User malloc (`user/umalloc.c`) | circular free list | `malloc`, `free`, `morecore` | `sbrk` | merging with both neighbours | blocks in use are disjoint, free blocks merge |
| Shell (`user/sh.c`) | the line, the command, a process for each part | parser, `runcmd` | fork, exec, pipe, wait | descriptors left open, everybody waiting | the command typed is run; a pipeline ends |
| Strings and filters (`string.c`, `ulib.c`, `printf.c`, `grep.c`, `cat.c`, `wc.c`) | memory, a buffer | copying, comparing, printing, matching | files | overlap, input cut anywhere, numbers at the limit | the result for the whole input, however it arrives |

Not candidates for a model: start-up code (`main.c`, `entry32.S`), the boot loader
and `mkfs.c` beyond what they share with the kernel (sequential, run once), the
bus wiring of `soc.v`, the other user programs (clients, represented by "any
sequence of calls"), and the Arduino flash programmer (a separate host tool with
a vendored library).


## 2. Modules

| Section | Module | Models | Abstract specification, or what it is compared with | Proved |
|---|---|---|---|---|
| 3 | `Log` | `log.c`, pins of `bio.c`, crashes | `AtomicDisk` | safety, refinement |
| 4 | `Proc` | `proc.c` with the scheduler | `ProcTree` | safety, refinement |
| 5 | `Bcache` | `bio.c` with LRU and exhaustion, `sleeplock.c` | `BlockStore` | safety, refinement |
| 6 | `Pipe` | `pipe.c` with fork, close, kill and exit at both ends | `Channel` | safety, refinement |
| 7 | `Files` | inode table, directories, open files and descriptors: the calls of `sysfile.c` | counts and links recomputed from the users | safety, action property |
| 8 | `FileData` | blocks of files: `balloc`, `bmap`, `itrunc`, `readi`, `writei`, `filewrite` | `ByteStore` | safety, refinement |
| 9 | `Memory` | `kalloc.c`, `vm.c`, `exec.c`, `growproc`, `fork`'s copy | every page in one place | safety, action property |
| 10 | `Umalloc`, `Shell`, `Library` | `umalloc.c`; `sh.c`; strings, `printf`, `cat`, `grep`, `wc` | ownership; the command typed; definitions over whole inputs | |
| 11 | `Cpu` | traps, interrupts, context switch and spin locks on `rv32.v` | what each program should see next | safety |
| 12 | `Terminal` | `console.c`, `uart.c`, `uart.v`, `plic.v` | queues of characters | safety, action properties |
| 13 | `SdCard`, `MemoryPath`, `Alu` | `sdcard.c`, `spi.c`, `spi.v`; `vma.v`, `sram.v`; the arithmetic of `rv32.v` | the block, the word, the number meant | `MemoryPath`: types, action property |

Proofs are in modules of their own, named after the module with `Proofs` added (`MachineProofs` for
`Cpu`, `MemoryPath` and `Memory`); a refinement is proved at the end of the module about safety.  `Shell`, `Library` and `SdCard` parse, match and compute with RECURSIVE
operators or with `Bitwise` and are for the model checker only.

Modules that interact are composed in the module itself (`Bcache` with its sleep
locks, `Terminal` with its hardware, `Cpu` with the locks).  Modules that do not
share state share a run: `MCPrograms` and `MCMachine` have a variable `part` that
picks one of them at the start; it runs with all its behaviours while the others
stay at a first state.  That is the same as a run for each, with one set of
constants; nothing is claimed about combinations.

What connects the modules is argued here, not checked: `Files` and `FileData` make a
transaction one action because `Log` proves that transactions are atomic and
(`OneOperationAtATime`) one at a time; `Log` makes a block transfer one action
because `sdlock` is held over it, and what it assumes of the card is `TransferExact`;
`Proc` switches threads atomically, which `Cpu` takes apart (`UserContext`).

### What is left

In this order: the Lisp program of `user/lisp.c`; the atomic
instructions of `rv32.v`; a card that refuses commands after it has started.


## 3. The log: `Log`, `AtomicDisk`

### What an action is

One critical section of `log.lock`, or one block written to the card.  The card
driver holds `sdlock`, a spin lock with interrupts off, over a whole transfer, so
a block write is one step for everything but the power supply: `Crash` may leave
the block in flight torn.

| Module | Code |
|---|---|
| `home`, `logd`, `head` | home blocks, log blocks and header block on the card |
| `cache`, `pins`, `held` | `b->data` of cached blocks, the references `bpin` took, the buffer a call has locked |
| `lh`, `outstanding`, `committing` | the fields of `log` |
| `boot`: `ReadHead`, `RecoverBlock`, `RecoverClear` | `initlog`, `recover_from_log`, `install_trans(1)` |
| `BeginOp` | one turn of `begin_op`'s loop; label `begin` is a process woken in it |
| `Modify`, `LogWrite` | a call changes a buffer; `log_write` and the `brelse` after it |
| `EndOp`, `Finish` | the two critical sections of `end_op` |
| `WriteLog`, `WriteHead`, `Install`, `ClearHead` | `commit`, block by block |
| `Load`, `Evict` | `bread` of a block that is not cached, `bget` recycling a buffer |
| `Crash` | power failure: memory is lost; not code |

Data is abstract: a block's contents are a value, with `Torn` for a block cut
short.  `View(b)` is what `bread(b)` returns.

### What is promised

`AtomicDisk` has a `stable` and a `current` disk, the set of `open` operations
and a flag for the last `end_op` not having returned.  `RefinesAtomicDisk` maps
`stable` to `Recovered`, the disk a recovery started now would produce: so every
power failure, also in the middle of recovery, of `install_trans` or of a torn
block, loses exactly what was not committed, and the `end_op` that ends a group
returns only when all of it is permanent.  `CommitPoint` says that `Recovered`
changes in one kind of step only, the write of a header over an empty one.

`NoPanic`, `SpaceReserved`, `DirtyIsKept`, `NoLostWakeup` and `Serialised` are the
safety properties underneath, `SleeperWakes` the liveness property.  Those of
them that no run repeats were checked by TLC before they were proved, and follow
from `Invariance`.

### Assumptions

- The header block is written whole or not at all.  `log.c` relies on it too: it
  has no checksum over the header.
- A write that returns is on the card (`sdcard.c` does not look at the card's
  response to a data block; see the hazards; of reads and late cards, section 13).
- `Sized`: an operation adds at most `MAXOPBLOCKS - 2` blocks to the log.
  `filewrite` cuts its work into pieces of at most 10 logged blocks of 16.  All
  theorems of `LogProofs` assume it: the invariant counts the reserved blocks.
- Whoever modifies a block logs it before releasing it.  One call does not: see
  finding 2.
- The number of buffers is not bounded here; `Bcache` has the bound.

### Runs

| Run | Instance | Why it is enough | Shows |
|---|---|---|---|
| `log_serial` | 2 processes, 2 blocks, 2 contents, the proportions of `param.h` (`LOGSIZE = MAXOPBLOCKS = nlog = 4`), fairness | a transaction of two blocks has a first and a last log block, home block and torn block; a second process waits; absorption and repeated writes happen | atomicity, one commit point, no panic, no dirty block recycled, one operation at a time, no one asleep for ever |
| `log_group` | 3 processes, room for two operations (`MAXOPBLOCKS` 3, `LOGSIZE` 7), symmetry | two operations share a commit, a third waits for space and for a commit | the same refinement under group commit, reserved space, no lost wakeup |

Fairness of `log_serial`: recovery, a woken process, the commit and a `log_write`
that has begun go on (the scheduler runs every runnable process again and
again); `EndOp` is strongly fair because a call's own writes keep disabling it
and the loops of every file-system call are bounded.  Nothing forces a process
to enter the kernel, or the power to fail or not to.

No run or theorem puts a bound on the number of crashes or operations.


## 4. The process table: `Proc`, `ProcTree`

### What an action is

What a CPU does from taking a lock up to the next lock it takes.  A lock that
stays held between two actions is a variable: `plock` for `p->lock`, which
`yield`, `sleep` and `exit` take and the scheduler, running as the other thread
of that CPU, releases (`SwitchedOut`); `wlock` for `wait_lock`.  A CPU with a lock
has interrupts off, so `Yield` comes only at the labels in `Unlocked`.

| Module | Code |
|---|---|
| `state`, `parent`, `chan`, `killed` | the fields of `struct proc` |
| `on` | `c->proc`, until the scheduler has dropped the lock |
| `pc`, `child`, `i` | where a process is, `np` of its `fork`, the index of its loop |
| `Dispatch`, `SwitchedOut`, `Yield` | `scheduler`, `sched`, `yield`, the timer path of `usertrap` and `kerneltrap` |
| `Fork`, `ForkFails`, `ForkParent`, `ForkRunnable` | `allocproc` and the three lock regions of `fork` |
| `Exit`, `ExitLock`, `Reparent`, `WakeInit`, `ReparentDone`, `WakeParent`, `Zombie` | `exit` with `reparent` and both `wakeup` loops, one slot a step |
| `Wait`, `WaitLock`, `ScanOn`, `Reap`, `ReapFails`, `ScanDone`, `Sleep` | `wait`, one slot a step, `freeproc`, `sleep` |
| `Kill` | `kill`; also the fault path of `usertrap`, which sets `killed` of the process itself |

In the C loops the lock of a slot is taken and dropped within one turn; that
turn is an action with the guard that nobody else has the lock.

### What is promised

`ProcTree` has atomic `Fork`, `Exit` and `Wait` on a tree of processes.
`ImplementsProcTree` maps an exit to the moment the process takes `wait_lock`: from
then on the tree shows it as exited and its children as init's, although
`reparent` still goes through the table and the state becomes `ZOMBIE` last.

`StackInUse` (no two CPUs on one kernel stack, no slot freed under a CPU),
`ParentLives`, `NoLostWakeup` and `KilledIsAwake` are the safety properties;
`WaiterIsServed` and `KilledExits` the liveness properties.

### Assumptions

- init, slot 0, neither exits nor is killed: the first is a panic, and the
  second leads to it.  `kill(1)` is not excluded by the code.
- Only `wait` sleeps here.  Other sleepers (log, pipes, devices) have modules of
  their own; a process in them is in none of this module's loops.
- pids are abstract: `Kill` names a slot.  What matters about pids is that an
  unused slot has pid 0 and `kill(0)` finds it.
- Weak memory is not modelled: `__sync_synchronize` and one CPU make lock
  regions sequentially consistent.

### Runs

| Run | Instance | Why it is enough | Shows |
|---|---|---|---|
| `proc_smp` | 2 CPUs, 3 slots, symmetry | parent, child and init can all exit, wait and be killed at the same time; a slot is reused | stacks, tree, lost wakeups, refinement, under all interleavings of two CPUs |
| `proc_fair` | 1 CPU as in `param.h`, 3 slots, fairness | a parent sleeps, scans or is on its way into the sleep when its child exits or is killed | a parent with an exited child returns; a killed process exits; with one CPU a killed process never sleeps |
| `proc_born` | 1 CPU | | violation of `BornAlive`, see findings |

The safety properties of `proc_smp` were also checked by hand with 4 slots and 2
CPUs (2.7 million states); liveness with 4 slots takes too long.  The proofs have
no such bound.

Fairness: the scheduler goes round the whole table, so a slot that is runnable
again and again is dispatched; the timer interrupts every process at a point
where it holds no lock; a time slice is enough for a step of a system call.
Strong fairness, because the process may be off the CPU in between.  A killed
process in user mode reaches `usertrap`, which makes it exit.  On several CPUs
`KilledExits` is not claimed: see the hazard at `proc.c:427`.


## 5. The buffer cache and sleep locks: `Bcache`, `BlockStore`

### What an action is

One critical section of `bcache.lock` or of a sleep lock's spin lock, or one
block transferred.

| Module | Code |
|---|---|
| `blockno`, `valid`, `data`, `refcnt` | the fields of `struct buf` |
| `lru` | the list from `head.next` (most recent) to `head.prev` |
| `owner` | `locked` and `pid` of the buffer's sleep lock |
| `held`, `cur`, `pc` | the buffers a process has from `bread`; the one it is getting or releasing, and where it is |
| `dirty`, `pins` | modified and neither logged nor written yet; the log's references |
| `BgetCached`, `BgetRecycle`, `BgetPanics` | the two loops of `bget` and its panic |
| `Acquire`, `Sleep`, `Kill` | a turn of the loop in `acquiresleep`; `kill()` ends the sleep, not the wait |
| `Fill` | the rest of `bread` |
| `Modify`, `LogWrite`, `Bwrite`, `Bunpin` | what callers do with a locked buffer: change it, `log_write` (`bpin`), `bwrite`, `install_trans` (`bunpin`) |
| `ReleaseSleep`, `Brelse` | the two critical sections of `brelse` |
| `WriteFails` | the error path of `writei`, in `SpecFaults` only |

### What is promised

`BlockStore`: each block has one contents and at most one user, and only the user
changes it.  `RefinesBlockStore` maps a block's contents to what `bread` would
return, so recycling, pinning and writing back must not show.  Underneath:
`RefcntExact` (a count is the users plus the pin, also while they sleep or are
between `releasesleep` and the decrement), `HoldersOwn` (the panics of `bwrite` and
`brelse` cannot happen), `PanicsWhenFull` (`bget` gives up only when every buffer is
in use) and `NoLostWakeup` (sleepers sleep on a lock somebody has).

### Assumptions

- Callers nest buffers in one order, as `bmap` (indirect block, then bitmap
  block) and `write_log` and `install_trans` (log block, then home block) do:
  `MayRead`.  Otherwise two callers could wait for each other.
- Callers write or log what they changed before they release it.  `SpecFaults`
  drops this for the one caller that does not keep to it.
- A transfer succeeds.  `spi_rb` and `spi_wb` can fail unnoticed; see the hazards.
- The panic is reachable in the model, and not excluded by the code: `NBUF` is
  `MAXOPBLOCKS` (16), one transaction pins about ten blocks, and every process in
  a read holds one or two more.

### Runs

| Run | Instance | Why it is enough | Shows |
|---|---|---|---|
| `bcache` | 3 processes, 3 blocks, 2 buffers, 2 contents, one pin, two held at a time, symmetry | fewer buffers than blocks, so buffers are recycled and run out; a holder, a waiter and a third that comes between wakeup and look; a pinned buffer that nobody uses | all of the above |
| `bcache_faults` | 2 processes | | violation of `ChangesLast`, see findings |

Deadlock is not checked because a panic stops the kernel.  That a waiter is
served eventually is not checked: a third process may take the lock first any
number of times.


## 6. Pipes: `Pipe`, `Channel`

### What an action is

A system call enters, takes `pi->lock`, moves one byte, tests before it sleeps,
sleeps, or returns.  The lock is held over the whole of a transfer, as in the code.
Between the test of `killed` and `sleep` (`WriteReady`, `ReadReady`) the pipe's lock
is held, but `kill` takes only `p->lock`: on one CPU nothing comes between, on several
the kill does.

| Module | Code |
|---|---|
| `ring` | `struct pipe`: `data`, `nread`, `nwrite`; the counters have a width and wrap |
| `ends` | `readopen`, `writeopen`, and whether the page is allocated |
| `PipeAlloc`, `Fork`, `FileClose`, `PipeClose`, `Exit` | `pipealloc`, `filedup` in `fork`, `fileclose` down to the last reference, `pipeclose`, the closes of `exit` |
| `Write`, `WriteLock`, `WriteAbort`, `WriteReady`, `WriteSleep`, `WriteByte`, `WriteDone` | `pipewrite` |
| `Read`, `ReadLock`, `ReadAbort`, `ReadReady`, `ReadSleep`, `ReadCopy`, `ReadByte`, `ReadFault`, `ReadDone` | `piperead` |
| `Kill` | `kill` |

### What is promised

`Channel` is a bounded sequence with two ends; a byte is sent, received or, when
`copyout` fails, dropped by the reader.  `RefinesChannel` maps the sequence to the
bytes from `nread` to `nwrite`: order, loss, and the place of a byte when one
counter has wrapped.  `NoLostWakeup`: when the lock is free, a process sleeps only
on an empty (full) pipe with its other end open, and not if it has been killed.
`FreedIsUnused`: the page is freed once, with no descriptor left.  `EndIsSeen` and
`KilledReturns` are the liveness properties: after the last close of the other end,
or a kill, a blocked process returns.

### Assumptions, bounds, fairness

- `PIPESIZE` divides the range of the counters (512 and 2^32).
- One pipe at a time; a `pipealloc` that fails leaves nothing and is no step.
- Run `pipe`: two processes, a ring of two bytes, counters modulo 4 so that they
  wrap after two rounds, calls of up to three bytes so that one call fills the
  ring and has to wait.
- Strong fairness of a process' steps: the other process may hold the lock each
  time it looks, but it always lets go.
- `NoLostWakeup` and `KilledReturns` are claimed for one CPU, as in `param.h`.  On
  two, a kill between the test of `killed` and the sleep is lost until the next
  wakeup; and a writer that is killed returns without waking readers
  (`pipe.c:83-87`).  Checked by hand with two CPUs: these two fail, `RefinesChannel`,
  `FreedIsUnused` and `TypeOK` hold.


## 7. Files and descriptors: `Files`

### What an action is

A transaction, from `begin_op` to `end_op`: `LogProofs!OneOperationAtATime` shows that
nobody else is in one.  It is written as a composition of functions of the
state `fs` (inode table, disk, panic), named for the functions of the code and
called in its order: `Iget`, `Idup`, `Ilock`, `Iput`, `Ialloc`, `Iupdate`, `Dirlookup`,
`SetEntry` (`dirlink` and the clearing of an entry), `NamexStep`, `Create`.  What the code does outside a transaction, or in
several, is several actions.  `Iput` is one of these functions, so the window in
which `iput` has dropped `itable.lock` and truncates (`fs.c:348`) is not taken apart.  Nobody can
come between: a lookup is in a transaction and waits in `begin_op`, and what
takes references outside transactions (`fork`) takes them to inodes that have a user already, while
`iput` has the only reference.

| Module | Code |
|---|---|
| `fs.node`, `fs.ref` | the inodes on disk with the entries of directories; `ip->ref` |
| `ftable`, `ofile`, `cwd` | the open files, `p->ofile`, `p->cwd` |
| `closing`, `exiting` | a process between the two halves of `fileclose`; in the loop of `exit` |
| `linking` | the disk as it was while `sys_link`, which unlocks its inode in the middle, is under way |
| `Mkdir`, `Unlink`, `LinkBegin`, `LinkEnd`, `Chdir`, `Open`, `MakePipe`, `Dup`, `Use`, `Close` | the system calls |
| `ClosePut` | the transaction of `fileclose`'s last reference |
| `Fork`, `Exit`, `ExitClose`, `ExitCwd` | what `fork` and `exit` do to files |
| `Crash` | power failure: tables are lost, the disk is as the last transaction left it (or, in `sys_link`, as before) |

### What is promised

`CountsExact`: `ref` of a file is the number of descriptors, `ref` of an inode
the number of open files, current directories and calls that point to it.
`LinksExact`: the tree on the disk, after every crash too, has the link
counts its names say.  `NoPanic`: none of the panics of these functions is
reached.  `NothingElseLeaks`: an inode without a name is in use, or a crash left
it.  `InUseKept`: no inode is freed or given out again while something points to
it.

### Assumptions and bounds

Two processes, three inodes, two names, two open files, two descriptors each;
the path names `a`, `..` and `/a/b`.  So a directory has a child and a parent, a
name is taken, and the inode table is full; an absolute and a relative path, the
way up and the way down all occur.  `FewOpen` keeps at most two descriptors (with
those being closed and inodes leaked by crashes) and one inode file at a time.
With `NINODE` 3 there is a slot for every inode and `iget`'s panic is out of reach: `NoPanic`
is about the other panics.  xv6 has 8 slots for 400 inodes; when `iget` panics with fewer slots than
inodes is proved (`OnlyFullTablePanics`, section 15).  `RmCwd = FALSE` in the passing run: a directory is not
removed while it is a current one.  With `TRUE` (run `files_rmcwd`) `NoPanic` is
violated, finding 3.


## 8. The data of files: `FileData`, `ByteStore`

An action is a piece of a `write()`, a read, a truncation, a restart.  `WriteBegin`
and `WriteChunk` are the loop of `filewrite`, with a transaction for each piece;
another process may write through the same open file, or truncate, in between.
Inside a piece `Writei` is the loop over blocks with `Bmap`, `Balloc` and the
failures in the middle: no block free, or a fault in the user's memory.

| Module | Code |
|---|---|
| `disk.used`, `disk.addrs`, `disk.ind`, `disk.size` | bitmap, `addrs`, indirect block, `size` |
| `disk.data` | the blocks; a block's data is one value |
| `offset`, `writing` | `f->off`; a write between two pieces |
| `Balloc`, `Bfree`, `Bmap`, `Itrunc`, `Writei`, `ReadData` | the functions of these names in `fs.c` |
| `MkfsAppend`, `GetInode`, `Load` | `mkfs.c`'s `iappend`; the boot loader's way to a block |

`BlocksOwnedOnce`: a block in use is in one place of one file and no other, so a
failure half way leaks nothing and freeing never finds a free block (its
panic); every block below the size is there, from the image that `mkfs` makes on,
and where the boot loader looks for it.  `RefinesStore`: files are sequences of
blocks, and a piece changes what it is about and nothing else.  `BlocksOwnedOnce`
was expected to fail at `fs.c:516`, where `writei` may allocate a block and then
copy nothing; it holds because the block stays in the file beyond its size, and
`itrunc` frees it.

Bounds: two files, three open files' worth of sharing (`f` on one, `h` on the
other, two writers), four blocks, one direct and two indirect ones, so that
blocks run out while the indirect block is being allocated; writes of at most two
blocks in pieces of one.  `MkfsAccepts` says which images there are: those whose files
fit.  `mkfs` also rounds the size of the root directory up to whole blocks, which
would promise a block that is not there if its entries just filled the last one (62
files); sizes are in blocks here, and that image is not among them.  `ShortSecond`: the second file has at most one block.


## 9. Pages and address spaces: `Memory`

A call works on one address space and takes pages one at a time, so it is one
action; `Offers` withholds free pages from it, as processes in the middle of
their calls would, so that `kalloc` may fail at any point.

| Module | Code |
|---|---|
| `freelist` | `kmem.freelist` |
| `space[p]` | root, tables, leaves, trapframe page, guard and `sz` of a process |
| `Kalloc`, `Kfree`, `WalkAlloc`, `Mappages`, `Uvmunmap`, `Uvmalloc`, `Uvmdealloc`, `Uvmcopy`, `Uvmfree`, `Freewalk` | the functions of these names |
| `Copyin`, `Copyinstr`, `Fetchaddr` | which pages a copy reaches before it fails |
| `Allocproc`, `Freeproc`, `ProcPagetable`, `ProcFreePagetable`, `Growproc` | the memory side of `proc.c` |
| `ExecProgram` and its steps to `ExecBad` | `exec()` with its `bad:` path; `inOp` counts open transactions |
| `ForkMemory`, `Sbrk`, `Exec`, `FreeMemory` | the actions |

`MemoryConsistent` has three parts: every page is free or in exactly one place
(`PagesAccounted`); memory is mapped from 0 to `sz` without a gap, which
`uvmunmap`, `uvmcopy` and `freewalk` panic without (`ImagesMapped`); the kernel's
copies stop where the memory does (`CopiesExact`).  `FailedCallUndone`: a call that
fails leaves no transaction open and nobody's memory changed.

Bounds: eleven pages, two processes, pages of two bytes so that sizes off a page
boundary occur, tables of two pages so that a second table is needed and fails;
one program of two segments that share a page boundary; one argument (`MaxArgs`);
`sbrk` by up to two bytes (`MaxBrk`).  No bound is in the proofs.  Assumed
are `MaxPages >= Cardinality(Page)`, there are more user addresses than memory, as on
this machine (4 GB of addresses, 512 KB of RAM), and `MemoryBoots`: memory is enough for the first
process, since `userinit` and `uvmfirst` do not look whether `kalloc` failed.


## 10. User level: `Umalloc`, `Shell`, `Library`

`Umalloc` has the circular free list with `freep`, in units of a header, over
`Malloc`, `Free` and a program's own `sbrk`.  `HeapConsistent`: every unit is in one
block, in use, free or the program's; the list is in order of addresses and no
two free neighbours are left unmerged.  Bounds: 12 units, `morecore` of 4.

`Shell` parses the characters of a line as `gettoken`, `peek`, `parseline`,
`parsepipe`, `parseexec`, `parseredirs`, `parseblock` and `nulterminate` do, and runs the
command as processes (`runcmd`).  `ParsesBack`: the notation of a command
parses to that command.  `ProgramDescriptors`: a program starts with descriptors 0, 1, 2
and nothing else, so every reader sees the end of its input; `SomebodyRuns`:
unless all have ended, one process can go on.  The commands (`MCCommand`) are all
pairs of simple commands with pipes, lists, background and redirections, and some
nested one level more; five processes.

`Library` has the string functions of the kernel and of `ulib.c` on a memory of
five bytes, the way `namex` takes a path apart, the three `printf`s, `atoi`, and
`cat`, `grep` and `wc` over several files that arrive in pieces of any size.
`StringsExact`, `FiltersExact` and `PrintfExact` compare each with a definition over
the whole input.  Inputs are all texts of up to four characters, patterns of up
to two and some longer ones, path names of up to five characters, and numbers at
the edges of an eight-bit `int`.


## 11. Traps and switches: `Cpu`

The program counter is a label of the code; a step runs from a label to the
next, and interrupts are taken at labels.

| Module | Code |
|---|---|
| `cpu` | `pc`, mode, `sepc`, `scause`, `stvec`, `sstatus` (SIE, SPP), SSIP, `satp`, whose values the registers hold |
| `mycpu` | `noff`, `intena`, `proc` |
| `th[p]` | state, context, trapframe, and what a thread keeps on its stack |
| `line` | a device's interrupt |
| `user`, `asked` | what each program should see next: history variables |
| `UserStep`, `Ecall`, `sret`, `Interrupt`, `Timer` | `rv32.v`; `Timer` is `timervec` with its MRET |
| `uservec`, `usertrap`, `usertrapret`, `userret`, `kernelvec`, `devintr`, `syscall`, `yield`, `Sched`, `forkret`, `scheduler` | the code of those names; `PushOff`, `PopOff` and `Release` are `spinlock.c`'s |

`NoTrapPanic`: no panic of `usertrap`, `kerneltrap`, `pop_off` or `sched` and no unexpected
cause.  `UserContext`: a program finds its own registers and its own next instruction, and
every call it made has been served once.  `InterruptedSafely`: kernel code is
interrupted only without locks and with the kernel's own vector and page table.
`UserCodeInUserMode`: see finding 4.

The processor is the one of this repository.  SRET does not
restore SIE, so kernel code resumes after an interrupt with interrupts off until
the next `intr_on` or `pop_off`; ECALL leaves SIE and SPP alone; in user mode
supervisor interrupts are always taken; the machine-mode timer is never masked.
None of this breaks the kernel as it is written, which is what the theorems say.

Bounds: two processes with a loop of two instructions, at most two locks held by
a call (`MaxLocks`).  `Coincide = FALSE` in the passing run: an interrupt does not fall
in the cycle of an ECALL or SRET.  With `TRUE` (run `cpu_coincide`) it does.


## 12. Console and UART: `Terminal`

One CPU.  Whoever runs with interrupts off owns it (`owner`) until it turns them
on again or sleeps; meanwhile only the devices move, a cycle or a character at a
time.

| Module | Code |
|---|---|
| `cons` | `cons.buf`, `r`, `w`, `e`, counted modulo `UINT` |
| `tx` | `uart_tx_buf`, `uart_tx_r`, `uart_tx_w` |
| `uart`, `pending` | THR and whether it is empty, the edge that interrupts, IID, RBR; the PLIC's bit |
| `thread` | readers and writers and where they are |
| `consoleintr`, `consoleread`, `Write`, `uartputc`, `uartstart`, `uartstartSend`, `uartputc_sync`, `uartintr`, `uartgetc` | the functions of those names |
| `Cycle`, `LoadTSR`, `Receive`, `Latch` | `uart.v` and `plic.v` |

`LineDiscipline`: committed lines are only read, from the front; no later key
changes what a reader has been promised.  `OutputInOrder`: what was accepted leaves the
THR once and in order.  `ConsoleMoves`: unless output is finished somebody can move it on, and nobody sleeps
on something that has come; so no interrupt edge and no wakeup is lost.

Bounds: rings of 2 and 1 with indices modulo 4, so each ring fills and each index
wraps; five kinds of key; reads of two.  `OneTurns`: only one of the rings turns in a
behaviour.  The proofs have none of these bounds.


## 13. Card, memory path, arithmetic: `SdCard`, `MemoryPath`, `Alu`

`SdCard`: every step is the exchange of a byte over `spi.v`, in the kernel's driver
and in the boot loader's.  The card is late, answers with an error token, flips a
bit of what it sends, and is slow to start (`Delay`).  `TransferExact`: a transfer that
returns has moved the block it was asked for, and driver and card finish together.
Bounds: blocks of two bytes, `Tries`, `Patience` and `Attempts` 3, more than `Delay`.

`MemoryPath`: one action is a clock edge of `vma.v` and `sram.v`.  `AccessExact`: an
acknowledged load got the word its virtual address stands for, a store changed
the bytes of its mask and nothing else, and a walk that finds no valid entry
changes nothing.  Such an access is never acknowledged: `o_exception` is 0, so the
processor waits for ever.  Bounds: three pages of two words, one word changed at most (`OneWord`).

`Alu`: the adder and subtracter, comparisons, barrel shifters, branch predicate and
byte lanes, as the Verilog computes them, against the instruction set, for all
inputs of four bits (`STAGES = 2`), of which the width of 32 differs only in the
number of stages.


## 14. Runs

| Run | Instance | Distinct states | Shows |
|---|---|---|---|
| `log_serial`, `log_group` | section 3 | | atomicity and permanence over crashes; group commit; nobody waits for ever |
| `proc_smp`, `proc_fair` | section 4 | | atomic process tree, stacks, lost wakeups; waiting parents are served, the killed exit |
| `bcache` | section 5 | | recycling, exhaustion, one contents per block |
| `pipe` | section 6 | | FIFO, last close, wakeups, kill |
| `programs` | sections 7 to 10, one part at a time | 236 thousand | counts, links, leaks; blocks and bytes; pages; heap; parser and pipelines; library |
| `machine` | sections 11 to 13, one part at a time | 2.4 million | traps and switches; console; card; memory path; arithmetic |
| `proc_born`, `bcache_faults`, `files_rmcwd`, `cpu_coincide` | | | the violations of section 16 |

`programs` and `machine` take about three minutes each on two cores, the others
less than a minute.  Deadlock is checked where the system cannot stop; the other
configurations say CHECK_DEADLOCK FALSE because a panic, a full disk or a
finished pipeline is a legitimate end.

**Bounds.**  No run bounds the number of operations, crashes or interrupts; what is
bounded is the size of tables and rings, named in the sections above, and what
the four constraints say: `FewOpen`, `ShortSecond` (`programs`), `OneWord`, `OneTurns`
(`machine`).  Each keeps every action enabled and every boundary reachable, and
limits how many things are in an unusual state at once.

**Fairness** is assumed in `log_serial`, `proc_fair` and `pipe` only and justified in
their sections.  The other runs check safety; `ConsoleMoves`, `SomebodyRuns` and
`NoLostWakeup` say, as invariants, that somebody can move or that a sleeper has a
waker, which is what the code can get wrong.


## 15. What is proved

All for arbitrary constants that satisfy the assumptions stated in the modules.
`PROJECT.json` lists the theorems.

**Log** (`LogProofs`).  `IInv` is inductive.  The properties alone
are not: that a crash loses nothing needs to know that, while `install_trans`
runs, the header on the card is `lh` and the log blocks up to it are what the
cache has (`HeaderInv`); that needs that nobody modifies a block meanwhile, hence
that no operation is open (`ControlInv`); that no write panics needs the counting
of reserved blocks (`SpaceInv`); that `bread` returns what was written needs that
a pinned block is pinned exactly once and nothing unpinned is newer than the
card (`CacheInv`).  It is an invariant under `Sized`, which every theorem of the
module assumes.  From it follow `TypeOK`, `NoPanic`, `SpaceReserved`, `DirtyIsKept`, `NoLostWakeup`, `Serialised`, then `CommitPoint`,
and the refinement `RefinesAtomicDisk`: each action is mapped to a step of
`AtomicDisk` or leaves all four of its variables alone.

**Processes** (`ProcProofs`).  `IInv` is the conjunction of
`RunInv` (locks, CPUs and states belong together), `LabelInv` (a process changes
its label only while it runs), `ForkInv` (the child of a fork in progress belongs
to that fork), `TreeInv` (a parent is alive; past `reparent` there are no
children) and `WakeInv` (how far a scan or a wakeup has come).  The last is where
the argument is: a process goes to sleep in `wait` having seen every child, with
`wait_lock` held, and `exit` takes that lock before it hands over children or
wakes the parent; an exited child under a sleeping parent is possible only for
init and only while the wakeup of init is still on its way to slot 0.
`TypeOK`, `StackInUse`, `ParentLives`, `NoLostWakeup` follow, `KilledIsAwake` with
one more conjunct, and then `ImplementsProcTree`: three actions are visible in the
tree (`ForkParent`, `ExitLock`, `Reap`), every other is a stutter.

**Buffer cache** (`BcacheProofs`).  `IInv` adds to the properties that no block has
two buffers (`OneBuffer`), that the buffer a process is getting is none it holds
(`CurInv`, from the nesting order), that a sleep lock belongs to the holder or to
the process filling the buffer (`OwnInv`), that an unpinned, unmodified buffer
equals the card (`DirtyInv`) and that the list has every buffer (`LruInv`).
Recycling is invisible because a buffer with count 0 has no user and no pin
(`RefcntExact`), so by `DirtyInv` its contents are on the card.  Counts are
cardinalities of sets of users; `UserFacts` has what is needed of them.

**Pipes** (`PipeProofs`).  `IInv` relates lock, ends and labels, bounds
`nwrite - nread` modulo the counters' range by `PIPESIZE`, and follows each wakeup
from the change that calls for it to the release of the lock.  `BytesFacts` says
what a send and a receive do to the sequence that the ring stands for; from it
the refinement of `Channel`.

**Traps** (`MachineProofs`, first part, under `Coincide = FALSE`, because of finding 4).
`CpuInvariant` says for every label what must hold there: `Registers` (mode, vector, page table,
SIE, SPP and cause), `Locks` (`noff`, `intena` and SIE: how deep each label is in
spin locks), `Threads` (a thread that does not run has a context that is one of four
places, with one lock held), `Handler` (what the handler of a trap will find in
`sepc`, `scause` and on its thread's stack) and `Process` (where
a program's registers and next instruction are: processor, trapframe, or
switched out).  The properties alone are not inductive: that a program finds its registers needs
to know for each label who has them.  TLC checked
`CpuInvariant` on 793,664 states before it was proved.  From it: `CpuTypeOK`,
`NoTrapPanic`, `UserContext`, `InterruptedSafely`, for any number of processes, any
`Loop` and `MaxLocks`.

**Console** (`TerminalProofs`).  `TerminalInv` adds to the types that `r <= w <= e` within one turn of
the ring (`ConsOrder`), the same for the transmit ring (`TxOrder`), who may be
asleep when (`Sleepers`) and where an unsent character's interrupt is
(`Sending`: THR, the edge detector, IID, the PLIC's bit, or a handler on its way).
Indices count modulo `UINT`, so the proof starts with lemmas on distances (`Gap`,
`GapPlus`, `GapTake`, `GapErase`, `Around`, `Apart`) and on what a
ring holds when an index moves (`HeldAppend`, `HeldTail`, `HeldKept`, `HeldPrefix`, `HeldCat`).
From it: the types, `ConsoleMoves`, and the action properties `LineDiscipline` and
`OutputInOrder`, for any size of the rings.

**Files** (`FilesProofs`).  Every theorem has the hypothesis `~RmCwd`, a directory is not
removed while it is a current one, because without it they are false (finding 3).
`FilesInv` says of a state without a panic

- that the inodes are a `Tree`: a free inode is blank and an unnamed one has no entries (`Blank`);
  a directory has its dots (`Dotted`); the `..` of a directory is where its name is,
  nothing leads to the root, and a directory with links has a name (`Parents`); links
  are counted (`Counted`);
- between the halves of `sys_link`, that the disk it started from is such a tree and the
  inodes are that tree with one link more, of a file somebody uses (`LinkInv`);
- that an inode with references is not free and, when its links are gone, is `valid`, so
  that the last `iput` frees it (`Alive`);
- that current directories are directories with a name (`ProcInv`), and what a closed file, an
  open one and a dead process have (`FileInv`, `ProcInv`);
- that every count is the number of its users (`FileInv`, `RefInv`), and that what a crash left is
  exactly the allocated inodes without links or references.

The properties that runs check are not inductive, not even together: that removing an empty
directory leaves exact counts needs `Parents`, that `iput` frees nothing with names in it needs `Blank`, and
that `ilock` in the middle of a path does not panic needs `Alive`.  A call is a composition of
functions of `fs`, some of which panic.  Each operation is reduced to what it does to the
fields (`IgetFields` to `IupdateFields`); a path is followed turn by turn, by
`Steps` of `FileDataProofs`, and to its end the walk holds one reference more and has changed no inode
(`WalkIs`, `NamexIs`).  The change that follows is one of three shapes with a lemma each:
a name more, a name less, an inode freed (`TreeExtended`, `TreeRemoved`, `TreeFreed`).  Counts are
cardinalities of sets of users, and one lemma for each place says how moving a user moves
them (`UsersAdded`, `UsersMoved`, `HoldersAdded`).
TLC checked `FilesInv` on 50,920 states with `NINODE` 3 and on 28,746 with `NINODE` 2, where `iget`
panics.  From it: `TypeOK`, `CountsExact`, `LinksExact`, `NothingElseLeaks` and
`InUseKept`.  `NoPanic` alone is not proved, and is not true of xv6: `param.h` has 8 slots of
`itable` (`NINODE`), and with 8 open files (`NFILE`) and 8 current directories (`NPROC`)
all of them can be in use when a path leads to one more of `mkfs`'s 400 inodes.  What is proved
instead, for a table of any size, is `OnlyFullTablePanics`: no other panic is reached, and `iget` panics
only in a call that began with at most one free slot.  The argument is that
at each `iget` a call has at most one inode in use beside those in use before
it (`HeldIsOneMore`, `FullIsCrowded`), the directory its path has come to, so that
no path is too deep for two free slots.  TLC finds the bound sharp: with 3 inodes and 2 slots a
call that begins with one free slot does panic; with 4 inodes and 3 slots none that begins with
two does (792,753 states).

**Files' data** (`FileDataProofs`).  `DataInv` says of the disk that it is `Sound` (types, no
panic, and `Owned`: an address that is not 0 is a block in use, no two places hold the
same one, and every block in use is in a place), that it is `Filled` (every block below
a size is there), that offsets are within `MAXFILE` and that processes write what they
may.  It is about the state between transactions; what a transaction does is
a loop, and the proof is about loops.  The library's induction theorems take an operator,
which the provers cannot instantiate, so the module proves induction anew for sets of
numbers, from the well-foundedness of `<` (`LeastOf`, `Induction`), then that
a loop of `N` steps over a set of states has a run (`Iteration`), by which the recursive
functions of `FileData` (`Written`, `Freed`, `MkfsAppended`) are what they seem to be,
and that what each step keeps holds to the end (`Steps`).  Then, bottom up: a new block in any of
the three places `bmap` may fill keeps `Owned` (`PutDirect`, `PutIndirect`, `PutBeyond`,
`BmapExtends`); a turn of `writei`'s loop extends the file by one block or stops with the file as
it was, but for a block beyond its size (`WriteBlockIs`, `WrittenIs`, `WriteiIs`); `itrunc` frees
each place once, since no two hold the same block (`FreedIs`, `ItruncIs`); `mkfs`'s
image is packed (`AppendPacked`, `MkfsPacked`).  From it: `DataTypeOK`, `BlocksOwnedOnce`, and
the refinement `RefinesStore`, for any number of files, blocks, open files and
processes, any `NDIRECT`, and any `NINDIRECT` and `MaxChunk` above 0.  `MkfsAccepts` is the one
assumption that is not about types.

**Memory path** (`MachineProofs`, second part).  An access is up to three accesses of the memory, one
after the other: walks 1 and 2 through the page table and walk 3 of the page found, or
"walk" 0 of a physical address.  Each goes through the same phases.  `PathInv` says which
phase of which walk the registers are in, and what is true in it: the entries the walk has
found (`Walked`), the half word that the controller has read or is about to write,
and that the memory is as it was before the access or, between the two halves of a store,
`HalfStored`.  `AccessExact` speaks of the edge of the acknowledgement alone, and is
not inductive at all: what it says of that edge is the sum of the edges before it.  One lemma
for each phase says where the next edge leads (`StartedStep` to `FaultedStep`); TLC
checked `PathInv` on 44,561 states first.  From it: `PathTypeOK` and `AccessExact`, for any
number of pages and words in them.

**Pages and address spaces** (`MachineProofs`, third part).  `MemInv` says between two calls that every
process has no memory at all or an `Image`: pages from 0 to `sz` with their tables, the two
pages at the top, the trapframe's twice, and nothing else (`Shape`); and that every page is
`Accounted`, free or in one place of one process.  A page is where it is by a function from the `Place`s
of a process, `PagesOf`, so that what a call does to a page is a change of a function at a place:
a page is put where none was (`OwnsPut`), or taken from a set of places and freed, once each
because no two hold the same one (`OwnsEmptied`, `OwnsGiveEach`).  A call is a composition of functions of `w`, and
there is one lemma for each of them, under `Good(w, T)`: the pages that `w` has free and those of the
space it works on are together the set `T`, disjoint, and nothing has panicked.  What the lemma says
holds whether the function fails or not: `MapRangeIs`, by `Steps`, that a range is mapped whole, or
that as much as was mapped is unmapped again; `FreewalkIs` and `ProcFreePagetable`'s
that all is given back; `LoadSegmentsIs`, `ExecImageIs` and `ExecProgramIs` the same of `exec()`,
with a commit that swaps two spaces or the label `bad` with the old one kept.
The properties alone are not inductive: that nothing leaks from a space torn down needs to know
that it has no page beyond its size, that freeing it does not panic that the tables of all its pages
are there (`Built`).  From `MemInv`: `MemTypeOK`, `MemoryConsistent` and `FailedCallUndone`, for any pages,
any number of processes, any sizes and programs.  That cardinalities agree is shown with a bijection;
that copies are exact by following the loop of `copyout` to the end (`CopyTurnIs`, `CopiedIs`),
with addresses taken apart by the page size.  `MemoryBoots` is the one assumption that is not
about types: there are pages for the first process.
**Only model-checked**, and why:

- the liveness properties `SleeperWakes`, `WaiterIsServed`, `KilledExits`, `EndIsSeen` and
  `KilledReturns`: temporal reasoning under fairness is left to TLC;
- `LibraryExact`, `ParsesBack`, `PipelinesRun`, `TransferExact`, `ArithmeticExact`: their modules
  have RECURSIVE operators or use `Bitwise`;
- `PartsTypeOK`: a conjunction over modules that share only a run; the conjuncts about
  `Cpu`, `Terminal`, `MemoryPath`, `Memory`, `Files` and `FileData` are proved;
- the counterexamples of the violations.

## 16. Findings

1. `kill(0)` marks an unused slot: the next process forked there is born killed
   (`proc_born`).
2. `writei` copies from the user straight into the buffer and, when the user's
   memory ends half way, releases it without logging it: readers see the part
   that was copied until the buffer is recycled, then the old contents again
   (`bcache_faults`).
3. A directory that is a process's current one can be removed, and then its
   parent, although `..` still leads there: `chdir("..")` finds a free inode and
   `ilock` panics (`files_rmcwd`).  A file created in such a directory is
   never freed.
4. A timer interrupt in the cycle of the SRET to a program: the pipeline takes
   the interrupt and drops the change of mode, but saves the program's `pc`; the
   program goes on in supervisor mode (`cpu_coincide`).

Remarks, of which no run is made:

- `param.h:10` sizes the log "max data blocks in on-disk log" as `LOGSIZE`, and
  `param.h:9` allows an operation as many.  `mkfs` makes the area that large *with*
  its header, and `log_write` panics when `size - 1` blocks are in the log, before
  it looks whether the block is one of them.  The calls in the tree stay below:
  `NeverPanics` (`LogProofs`) holds for operations that log at most
  `MAXOPBLOCKS - 2` blocks (`Sized`).
- `OneOperationAtATime`, which is proved, says of the same constants that
  `begin_op` never admits two operations at a time: group commit, which `log.c`'s
  comments describe, cannot happen in this configuration.
- `devintr` clears SSIP after `clockintr` by a read and a write; a timer interrupt in
  between is lost, so `ticks` may lag.  Nothing says it does not.
- `boot/main.c:62` copies whole blocks, beyond the file's end; `boot/spi.c` returns
  the last block's `crc` when a command was refused; the test at `sdcard.c:134` is
  always true (`~` for `!`); `mkfs.c:169` rounds the root's size up only after the
  last entry.
- `grep` gives up on a line longer than its buffer and ignores a last line without
  newline.
- The three `printf`s know different letters; the kernel's `%x` is signed, the
  library's is not; a lone `%` at the end prints nothing in all of them.


## 17. Not modelled

- The card once started: that it refuses a command or rejects the data of a write
  (the driver takes both for success, see the hazards), and the pulses that wake it.
- `ticks` and `mtimecmp` as numbers; the wraparound of `ticks`; `sys_sleep` with a negative number
  (`sysproc.c:60`), which returns at once.
- `start.c`, `main.c`, `entry32.S`, `kvmmake`: straight-line start-up.  What they leave is the
  first state of `Cpu` and `Memory`.
- More than one CPU in `Cpu` and `Terminal` (`param.h` builds for one), weak memory.
- Instruction decoding, the atomic instructions, `soc.v`'s bus and clocks, baud rates.
- `sh`'s main loop (`cd`, the prompt), the other user programs, `init` (assumed not to exit), the
  Lisp interpreters, the Arduino flash programmer, the boot loader's search
  for the kernel's inode.
- Contents of files other than blocks of one value in `FileData`: a write that ends inside a
  block is a read, a change and a write of the block.

Every hazard listed in `PROJECT.json` that no property covers has a note there.
