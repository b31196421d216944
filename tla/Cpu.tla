-------------------------------- MODULE Cpu --------------------------------
(***************************************************************************)
(* The way into the kernel and back: traps, interrupts and context         *)
(* switches of trap.c, trampoline32.S, kernelvec32.S, spinlock.c and       *)
(* proc.c on the processor rv32.v.  The program counter is a label of the  *)
(* code; one step runs from a label to the next, and interrupts are taken  *)
(* at labels.  The processor is rv32.v, not the RISC-V manual: SRET leaves *)
(* SIE alone, ECALL leaves SIE and SPP alone.  A register or a local that  *)
(* is dead (written before it is read again) is given a fixed value.       *)
(***************************************************************************)
EXTENDS Integers

CONSTANTS Proc,        \* the processes; each runs the program 0, 1, ...
          Loop,        \* bound: the number of instructions in the loop they run
          MaxLocks,    \* bound: spin locks a system call holds at once
          Coincide     \* an interrupt may be taken in the cycle of ECALL or SRET

ASSUME CpuAssumption ==
  /\ Proc \cap {"scheduler", "none", "kernel"} = {}
  /\ Loop \in Nat \ {0} /\ MaxLocks \in Nat \ {0} /\ Coincide \in BOOLEAN

VARIABLES cpu,     \* pc, mode and CSRs, satp and regs (whose values the registers hold)
          mycpu,   \* struct cpu: noff, intena, proc
          th,      \* per thread: state, context, trapframe, locals kept on its stack
          line,    \* a device raises its interrupt
          user,    \* what each process should see next: its pc and registers
          asked,   \* processes with a system call issued and not served
          halted   \* the panic, if any

machine == <<cpu, mycpu, th, line, user, asked, halted>>

KernelRegs == -1
NoFrame == [epc |-> [at |-> "user", n |-> 0], regs |-> 0]
NoTrap == [sepc |-> [at |-> "user", n |-> 0], spp |-> FALSE, sie |-> FALSE]
At(label) == [at |-> label, n |-> 0]
UserAt(n) == [at |-> "user", n |-> n]
Current == IF mycpu.proc = "none" THEN "scheduler" ELSE mycpu.proc
Panicking(message) == halted' = message /\ UNCHANGED <<cpu, mycpu, th, line, user, asked>>

\* Supervisor code at a label, with the panics it may raise.
Kernel(label) == cpu.pc = At(label) /\ cpu.mode = "S" /\ halted = "no"
Goto(label) == [cpu EXCEPT !.pc = At(label)]

(***************************************************************************)
(* The processor.                                                          *)
(***************************************************************************)
PendingS == cpu.ssip \/ line
TakesS == PendingS /\ (cpu.mode = "U" \/ (cpu.mode = "S" /\ cpu.sie))

\* Both interrupts save the pc of the next instruction and the mode before it.
\* The timer's is taken whatever the mode, unless machine mode has it off, and
\* its handler timervec only sets SSIP and returns to that pc and that mode.
InterruptS(next) ==
  cpu' = [cpu EXCEPT !.pc = At(cpu.stvec), !.mode = "S", !.sepc = next,
                     !.scause = IF cpu.ssip THEN "software" ELSE "external",
                     !.spp = (cpu.mode = "S"), !.sie = FALSE]
InterruptM(next) ==
  cpu' = [cpu EXCEPT !.pc = next, !.ssip = TRUE]

Interrupt == TakesS /\ halted = "no" /\ InterruptS(cpu.pc)
               /\ UNCHANGED <<mycpu, th, line, user, asked, halted>>
Timer == halted = "no" /\ InterruptM(cpu.pc)
           /\ UNCHANGED <<mycpu, th, line, user, asked, halted>>
Device == ~line /\ line' = TRUE /\ UNCHANGED <<cpu, mycpu, th, user, asked, halted>>

\* An instruction that changes the mode, and the interrupt that replaces it.
Coinciding(next) == Coincide /\ (InterruptM(next) \/ (TakesS /\ InterruptS(next)))

UserStep ==
  LET n == (cpu.pc.n + 1) % Loop IN
  /\ cpu.pc.at = "user" /\ halted = "no"
  /\ cpu' = [cpu EXCEPT !.pc = UserAt(n), !.regs = n]
  /\ user' = [user EXCEPT ![cpu.satp] = [pc |-> n, regs |-> n]]
  /\ UNCHANGED <<mycpu, th, line, asked, halted>>

Ecall ==
  /\ cpu.pc.at = "user" /\ halted = "no"
  /\ \/ cpu' = [cpu EXCEPT !.pc = At(cpu.stvec), !.mode = "S",
                           !.sepc = cpu.pc, !.scause = "ecall"]
     \/ Coinciding(At(cpu.stvec))
  /\ asked' = asked \cup {cpu.satp}
  /\ user' = [user EXCEPT ![cpu.satp].pc = (cpu.pc.n + 1) % Loop]
  /\ UNCHANGED <<mycpu, th, line, halted>>

sret ==
  /\ Kernel("sret")
  /\ \/ cpu' = [cpu EXCEPT !.pc = cpu.sepc, !.mode = IF cpu.spp THEN "S" ELSE "U",
                           !.sepc = UserAt(0)]
     \/ Coinciding(cpu.sepc)
  /\ UNCHANGED <<mycpu, th, line, user, asked, halted>>

(***************************************************************************)
(* spinlock.c.  PushOff and PopOff give the new cpu and mycpu.             *)
(***************************************************************************)
PushOff(next) ==
  /\ mycpu' = [mycpu EXCEPT !.noff = mycpu.noff + 1,
                            !.intena = IF mycpu.noff = 0 THEN cpu.sie ELSE mycpu.intena]
  /\ cpu' = [Goto(next) EXCEPT !.sie = FALSE]

PopPanics == cpu.sie \/ mycpu.noff < 1
(* Slip: interrupts come back on whatever noff is. *)
PopOffEarly(next, proc) ==
  /\ mycpu' = [mycpu EXCEPT !.noff = mycpu.noff - 1, !.proc = proc]
  /\ cpu' = [Goto(next) EXCEPT !.sie = cpu.sie \/ mycpu.intena]
PopOff(next, proc) ==
  /\ mycpu' = [mycpu EXCEPT !.noff = mycpu.noff - 1, !.proc = proc]
  /\ cpu' = [Goto(next) EXCEPT !.sie = cpu.sie \/ (mycpu.noff = 1 /\ mycpu.intena)]

\* Release a lock and go on at next.
Release(next) ==
  IF PopPanics THEN Panicking("pop_off")
  ELSE PopOff(next, mycpu.proc) /\ UNCHANGED <<th, line, user, asked, halted>>

(***************************************************************************)
(* From user space into the kernel, and back.                              *)
(***************************************************************************)
uservec ==
  /\ Kernel("uservec")
  /\ IF cpu.satp = "kernel" THEN Panicking("no trapframe")
     ELSE /\ th' = [th EXCEPT ![cpu.satp].tf.regs = cpu.regs]
          /\ cpu' = [Goto("usertrap") EXCEPT !.regs = KernelRegs, !.satp = "kernel"]
          /\ UNCHANGED <<mycpu, line, user, asked, halted>>

usertrap ==
  /\ Kernel("usertrap")
  /\ IF cpu.spp THEN Panicking("usertrap: not from user mode")
     ELSE /\ cpu' = [Goto("cause") EXCEPT !.stvec = "kernelvec"]
          /\ UNCHANGED <<mycpu, th, line, user, asked, halted>>

(* Slip: the saved pc is that of the ecall itself. *)
usertrapCauseAgain ==
  /\ Kernel("cause")
  /\ th' = [th EXCEPT ![mycpu.proc].tf.epc = cpu.sepc,
                      ![mycpu.proc].back = "usertrapret"]
  /\ cpu' = IF cpu.scause = "ecall"
            THEN [Goto("syscall") EXCEPT !.sie = TRUE, !.sepc = UserAt(0), !.scause = "none"]
            ELSE [Goto("devintr") EXCEPT !.sepc = UserAt(0)]
  /\ UNCHANGED <<mycpu, line, user, asked, halted>>
usertrapCause ==                  \* saves sepc, then enables interrupts or not
  /\ Kernel("cause")
  /\ IF cpu.scause = "ecall"
     THEN /\ th' = [th EXCEPT ![mycpu.proc].tf.epc = UserAt((cpu.sepc.n + 1) % Loop)]
          /\ cpu' = [Goto("syscall") EXCEPT !.sie = TRUE, !.sepc = UserAt(0), !.scause = "none"]
     ELSE /\ th' = [th EXCEPT ![mycpu.proc].tf.epc = cpu.sepc,
                              ![mycpu.proc].back = "usertrapret"]
          /\ cpu' = [Goto("devintr") EXCEPT !.sepc = UserAt(0)]
  /\ UNCHANGED <<mycpu, line, user, asked, halted>>

(* Slip: usertrapret() leaves interrupts on. *)
usertrapretOn ==
  /\ Kernel("usertrapret")
  /\ cpu' = Goto("usertrapret2")
  /\ UNCHANGED <<mycpu, th, line, user, asked, halted>>
usertrapret ==
  /\ Kernel("usertrapret")
  /\ cpu' = [Goto("usertrapret2") EXCEPT !.sie = FALSE]
  /\ UNCHANGED <<mycpu, th, line, user, asked, halted>>

usertrapretSet ==
  /\ Kernel("usertrapret2")
  /\ cpu' = [Goto("userret") EXCEPT !.stvec = "uservec", !.spp = FALSE,
                                    !.sepc = th[mycpu.proc].tf.epc]
  /\ UNCHANGED <<mycpu, th, line, user, asked, halted>>

userret ==
  /\ Kernel("userret")
  /\ cpu' = [Goto("sret") EXCEPT !.satp = mycpu.proc, !.regs = th[mycpu.proc].tf.regs]
  /\ th' = [th EXCEPT ![mycpu.proc].tf = NoFrame]
  /\ UNCHANGED <<mycpu, line, user, asked, halted>>

(***************************************************************************)
(* Interrupts in the kernel.                                               *)
(***************************************************************************)
kernelvec ==
  /\ Kernel("kernelvec")
  /\ IF ~cpu.spp THEN Panicking("kerneltrap: not from supervisor mode")
     ELSE IF cpu.sie THEN Panicking("kerneltrap: interrupts enabled")
     ELSE /\ th' = [th EXCEPT ![Current].frame = [sepc |-> cpu.sepc, spp |-> cpu.spp, sie |-> cpu.sie],
                              ![Current].back = "kerneltrap"]
          /\ cpu' = [Goto("devintr") EXCEPT !.sepc = UserAt(0)]
          /\ UNCHANGED <<mycpu, line, user, asked, halted>>

kerneltrapReturn ==
  /\ Kernel("kerneltrap")
  /\ LET f == th[Current].frame IN
     cpu' = [Goto("sret") EXCEPT !.sepc = f.sepc, !.spp = f.spp, !.sie = f.sie]
  /\ th' = [th EXCEPT ![Current].frame = NoTrap]
  /\ UNCHANGED <<mycpu, line, user, asked, halted>>

Awake(p) == IF th[p].state = "SLEEPING" THEN "RUNNABLE" ELSE th[p].state

Served(next) == [Goto(next) EXCEPT !.scause = "none"]
devintr ==                        \* clockintr wakes who sleeps on ticks
  /\ Kernel("devintr")
  /\ CASE cpu.scause = "external" ->
            line' = FALSE /\ cpu' = Served(th[Current].back) /\ UNCHANGED <<mycpu, th, user, asked, halted>>
       [] cpu.scause = "software" ->
            /\ th' = [p \in DOMAIN th |-> [th[p] EXCEPT !.state = Awake(p)]]
            /\ cpu' = Served("w_sip")
            /\ UNCHANGED <<mycpu, line, user, asked, halted>>
       [] OTHER -> Panicking("unexpected scause")

w_sip ==                          \* ... and the caller yields if there is a process
  /\ Kernel("w_sip")
  /\ cpu' = [Goto(IF mycpu.proc # "none" /\ th[Current].state = "RUNNING"
                  THEN "yield" ELSE th[Current].back) EXCEPT !.ssip = FALSE]
  /\ UNCHANGED <<mycpu, th, line, user, asked, halted>>

(***************************************************************************)
(* System calls, and the context switch.                                   *)
(***************************************************************************)
syscall ==                        \* serves the call that was issued
  /\ Kernel("syscall")
  /\ IF mycpu.proc \notin asked THEN Panicking("nothing was asked")
     ELSE asked' = asked \ {mycpu.proc} /\ cpu' = Goto("sys") /\ UNCHANGED <<mycpu, th, line, user, halted>>

sys_return == Kernel("sys") /\ cpu' = Goto("usertrapret") /\ UNCHANGED <<mycpu, th, line, user, asked, halted>>
sys_acquire ==
  /\ Kernel("sys") \/ (Kernel("locked") /\ mycpu.noff < MaxLocks)
  /\ PushOff("locked") /\ UNCHANGED <<th, line, user, asked, halted>>
sys_release == Kernel("locked") /\ Release(IF mycpu.noff > 1 THEN "locked" ELSE "sys")

\* sched() with p->lock held once: saves intena and the context.
SchedPanics == mycpu.noff # 1 \/ cpu.sie
Sched(state, context, intena) ==
  /\ th' = [th EXCEPT ![mycpu.proc].state = state, ![mycpu.proc].context = context,
                      ![mycpu.proc].intena = intena]
  /\ cpu' = [Goto(th["scheduler"].context) EXCEPT !.sie = FALSE]

sys_sleep ==                      \* sleep(): acquire(p->lock), release(lk), sched()
  /\ Kernel("locked")
  /\ IF mycpu.noff = 1 /\ cpu.sie THEN Panicking("sched")
     ELSE mycpu.noff = 1 /\ Sched("SLEEPING", "slept", mycpu.intena)
          /\ UNCHANGED <<mycpu, line, user, asked, halted>>

yield ==                          \* acquire(p->lock), sched()
  /\ Kernel("yield")
  /\ IF mycpu.noff # 0 THEN Panicking("sched locks")
     ELSE /\ Sched("RUNNABLE", "yielded", cpu.sie)
          /\ mycpu' = [mycpu EXCEPT !.noff = 1, !.intena = cpu.sie]
          /\ UNCHANGED <<line, user, asked, halted>>

schedReturn ==                    \* mycpu()->intena = intena
  /\ Kernel("yielded") \/ Kernel("slept")
  /\ mycpu' = [mycpu EXCEPT !.intena = th[mycpu.proc].intena]
  /\ cpu' = Goto(IF cpu.pc.at = "slept" THEN "relock" ELSE "unlock")
  /\ th' = [th EXCEPT ![mycpu.proc].intena = FALSE, ![mycpu.proc].context = "none"]
  /\ UNCHANGED <<line, user, asked, halted>>
unlock == Kernel("unlock") /\ Release(th[mycpu.proc].back)
relock == Kernel("relock") /\ Release("sys")     \* ... and the call acquires lk again
forkret == Kernel("forkret") /\ Release("usertrapret")

schedulerOn ==
  /\ Kernel("scheduler")
  /\ cpu' = [Goto("scan") EXCEPT !.sie = TRUE]
  /\ UNCHANGED <<mycpu, th, line, user, asked, halted>>
schedulerScan ==                  \* the rest of the table holds nothing RUNNABLE
  Kernel("scan") /\ cpu' = Goto("scheduler") /\ UNCHANGED <<mycpu, th, line, user, asked, halted>>
schedulerRun(p) ==
  /\ Kernel("scan") /\ th[p].state = "RUNNABLE"
  /\ th' = [th EXCEPT ![p].state = "RUNNING", !["scheduler"].context = "switched"]
  /\ mycpu' = [noff |-> mycpu.noff + 1, proc |-> p,
               intena |-> IF mycpu.noff = 0 THEN cpu.sie ELSE mycpu.intena]
  /\ cpu' = [Goto(th[p].context) EXCEPT !.sie = FALSE]
  /\ UNCHANGED <<line, user, asked, halted>>
schedulerBack ==
  /\ Kernel("switched")
  /\ IF PopPanics THEN Panicking("pop_off")
     ELSE PopOff("scan", "none") /\ UNCHANGED <<th, line, user, asked, halted>>

(***************************************************************************)
(* main() calls scheduler() after start() has set the processor up.        *)
(***************************************************************************)
NewThread(context) ==
  [state |-> "RUNNABLE", context |-> context, intena |-> FALSE, back |-> "usertrapret",
   tf |-> NoFrame, frame |-> NoTrap]

CpuInit ==
  /\ cpu = [pc |-> At("scheduler"), mode |-> "S", sie |-> FALSE, spp |-> FALSE,
            sepc |-> UserAt(0), scause |-> "none", stvec |-> "kernelvec", satp |-> "kernel",
            ssip |-> FALSE, regs |-> KernelRegs]
  /\ mycpu = [noff |-> 0, intena |-> FALSE, proc |-> "none"]
  /\ th = [p \in Proc \cup {"scheduler"} |->
             NewThread(IF p = "scheduler" THEN "scheduler" ELSE "forkret")]
  /\ line = FALSE /\ asked = {} /\ halted = "no"
  /\ user = [p \in Proc |-> [pc |-> 0, regs |-> 0]]

Hardware == Interrupt \/ Timer \/ Device \/ UserStep \/ Ecall \/ sret
Traps == uservec \/ usertrap \/ usertrapCause \/ usertrapret \/ usertrapretSet \/ userret
           \/ kernelvec \/ kerneltrapReturn \/ devintr \/ w_sip
Calls == syscall \/ sys_return \/ sys_acquire \/ sys_release \/ sys_sleep
Switch == yield \/ schedReturn \/ unlock \/ relock \/ forkret \/ schedulerOn \/ schedulerScan
            \/ schedulerBack \/ (\E p \in Proc : schedulerRun(p))

CpuNext == Hardware \/ Traps \/ Calls \/ Switch
CpuSpec == CpuInit /\ [][CpuNext]_machine

-----------------------------------------------------------------------------
\* The variables have their types.
CpuTypeOK ==
  /\ cpu.mode \in {"U", "S"}
  /\ cpu.regs \in 0 .. Loop - 1 \cup {KernelRegs} /\ cpu.satp \in Proc \cup {"kernel"}
  /\ mycpu.noff \in 0 .. MaxLocks + 1 /\ mycpu.proc \in Proc \cup {"none"}
  /\ \A p \in Proc : th[p].state \in {"RUNNABLE", "RUNNING", "SLEEPING"}

\* No panic of usertrap(), kerneltrap(), pop_off() or sched() is reached, and
\* no trap finds a cause nobody raised.
NoTrapPanic == halted = "no"

\* A process sees its own registers and its own next instruction, whatever
\* interrupts and switches lie in between; every system call it issued has
\* been served once; and the processor is as the next trap needs it.
UserContext ==
  cpu.pc.at = "user" =>
    LET p == cpu.satp IN
    /\ p \in Proc /\ mycpu.proc = p /\ th[p].state = "RUNNING" /\ p \notin asked
    /\ cpu.pc.n = user[p].pc /\ cpu.regs = user[p].regs
    /\ cpu.stvec = "uservec" /\ ~cpu.sie /\ ~cpu.spp /\ cpu.mode = "U"

\* User code runs in user mode.
UserCodeInUserMode == cpu.pc.at = "user" => cpu.mode = "U"

\* Kernel code is interrupted only with no spin lock held and with the kernel's
\* own vector and page table installed, and kernel code runs on no other.
InterruptedSafely ==
  /\ cpu.sie => mycpu.noff = 0 /\ cpu.stvec = "kernelvec" /\ cpu.satp = "kernel"
  /\ cpu.satp = "kernel" => cpu.regs = KernelRegs
=============================================================================
