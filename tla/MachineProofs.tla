---------------------------- MODULE MachineProofs ----------------------------
(***************************************************************************)
(* Proofs about three parts of the machine, which share no variable.       *)
(*                                                                         *)
(* The ways into the kernel and back, for any number of processes, any     *)
(* program length and any number of locks held at once, of a processor     *)
(* that takes no interrupt in the cycle of ECALL or SRET: no panic of the  *)
(* trap path, every process finds its own registers and its own next       *)
(* instruction, and the kernel is interrupted only where it may be.        *)
(*                                                                         *)
(* The way to the memory, for any number of pages and words: an access     *)
(* goes through the same phases whatever it is for, and what is in the     *)
(* registers in each of them makes it exact in the end.                    *)
(*                                                                         *)
(* The pages and the address spaces, for any number of pages, processes    *)
(* and programs and any size of a page: no page is lost or used twice, no  *)
(* address space is torn, and a call that fails half way is undone.        *)
(***************************************************************************)
EXTENDS Cpu, MemoryPath, Memory, FiniteSetTheorems, WellFoundedInduction, TLAPS


(***************************************************************************)
(* The types.                                                              *)
(***************************************************************************)
L == cpu.pc.at
TrapLabels == {"kernelvec", "devintr", "w_sip", "kerneltrap"}
LockedLabels == {"switched", "yielded", "slept", "unlock", "relock", "forkret"}
KernelLabels ==
  {"uservec", "usertrap", "cause", "syscall", "sys", "locked", "usertrapret", "usertrapret2",
   "userret", "sret", "yield", "scheduler", "scan"} \cup TrapLabels \cup LockedLabels

\* SRET that leaves the kernel.
ToUser == L = "sret" /\ ~cpu.spp

Pcs == [at : KernelLabels \cup {"user"}, n : Nat]
States == {"RUNNABLE", "RUNNING", "SLEEPING"}
Contexts == {"forkret", "slept", "yielded", "none", "scheduler", "switched"}
Thread ==
  [state : States, context : Contexts, intena : BOOLEAN, back : {"usertrapret", "kerneltrap"},
   tf : [epc : Pcs, regs : Int], frame : [sepc : Pcs, spp : BOOLEAN, sie : BOOLEAN]]

CpuTypes ==
  cpu \in [pc : Pcs, mode : {"U", "S"}, sie : BOOLEAN, spp : BOOLEAN, sepc : Pcs,
           scause : {"none", "ecall", "software", "external"}, stvec : {"uservec", "kernelvec"},
           satp : Proc \cup {"kernel"}, ssip : BOOLEAN, regs : Int]
ThreadTypes == th \in [Proc \cup {"scheduler"} -> Thread]
OtherTypes ==
  /\ mycpu \in [noff : Nat, intena : BOOLEAN, proc : Proc \cup {"none"}]
  /\ user \in [Proc -> [pc : 0 .. Loop - 1, regs : 0 .. Loop - 1]]
  /\ line \in BOOLEAN /\ asked \subseteq Proc

(***************************************************************************)
(* The inductive invariant.  A thread t that an interrupt stopped resumes  *)
(* at a label where interrupts are on; a process is about to serve a call  *)
(* exactly when it has asked for one.                                      *)
(***************************************************************************)
Resumable(t) == IF t = "scheduler" THEN {"scheduler", "scan"}
                ELSE {"syscall", "sys", "usertrapret"}
OfAsked(t, l) == t \in Proc => ((t \in asked) <=> (l = "syscall"))
Resumes(t, pc) == \E l \in Resumable(t) : pc = At(l) /\ OfAsked(t, l)

\* The trapframe holds what the process should see next.
TfOK(p) == th[p].tf.epc = UserAt(user[p].pc) /\ th[p].tf.regs = user[p].regs

\* What kerneltrap() saved, and where the handler returns to.
FrameOK(t) == th[t].frame.spp /\ ~th[t].frame.sie /\ Resumes(t, th[t].frame.sepc)
BackOK(t) == \/ th[t].back = "kerneltrap" /\ FrameOK(t)
             \/ th[t].back = "usertrapret" /\ t \in Proc /\ t \notin asked

\* A process that is not on the processor.
SavedOK(p) ==
  /\ th[p].state \in {"RUNNABLE", "SLEEPING"} /\ TfOK(p)
  /\ \/ th[p].context \in {"forkret", "slept"} /\ p \notin asked
     \/ th[p].context = "yielded" /\ ~th[p].intena /\ BackOK(p)

\* The mode, vector, page table and cause at every label.
Registers ==
  /\ halted = "no"
  /\ L = "user" <=> cpu.mode = "U"
  /\ L # "user" => cpu.pc = At(L)
  /\ cpu.sie => L \in {"scheduler", "scan", "syscall", "sys", "usertrapret"}
  /\ cpu.stvec = "uservec" <=> (L \in {"user", "uservec", "usertrap", "userret"} \/ ToUser)
  /\ cpu.satp = (IF L \in {"user", "uservec"} \/ ToUser THEN mycpu.proc ELSE "kernel")
  /\ cpu.satp = "kernel" => cpu.regs = KernelRegs
  /\ L \in {"user", "uservec", "usertrap", "cause", "userret"} => ~cpu.spp
  /\ L = "kernelvec" => cpu.spp
  /\ L \in {"uservec", "usertrap", "cause"} => cpu.scause \in {"ecall", "software", "external"}
  /\ L \in {"kernelvec", "devintr"} => cpu.scause \in {"software", "external"}
  /\ L \in {"uservec", "usertrap", "cause"} => cpu.sepc.at = "user"

\* How many spin locks are held.
Locks ==
  /\ L = "locked" => mycpu.noff \in 1 .. MaxLocks
  /\ L \in LockedLabels => mycpu.noff = 1
  /\ L \notin {"locked"} \cup LockedLabels => mycpu.noff = 0
  /\ L = "unlock" => ~mycpu.intena

\* Who is on the processor, and who is saved.
Threads ==
  /\ mycpu.proc = "none" => L \in TrapLabels \cup {"scheduler", "scan", "sret"} /\ ~ToUser
  /\ mycpu.proc \in Proc => L \notin {"scheduler", "scan"} /\ th["scheduler"].context = "switched"
  /\ mycpu.proc \in Proc /\ L # "switched" => th[mycpu.proc].state = "RUNNING"
  /\ \A p \in Proc : p # mycpu.proc \/ L = "switched" => SavedOK(p)
  /\ L = "yielded" => ~th[mycpu.proc].intena

\* The interrupted thread while its interrupt is handled.
Handler == \A t \in Proc \cup {"scheduler"} : t = Current =>
  /\ L = "kernelvec" => Resumes(t, cpu.sepc)
  /\ L \in {"devintr", "w_sip", "yield", "yielded", "unlock"} => BackOK(t)
  /\ L = "kerneltrap" => FrameOK(t)
  /\ L = "sret" /\ cpu.spp => Resumes(t, cpu.sepc)

\* The process on the processor: where its context is at every label.
Process == \A p \in Proc : p = mycpu.proc =>
  /\ L = "user" => cpu.pc = UserAt(user[p].pc) /\ cpu.regs = user[p].regs /\ p \notin asked
  /\ L \in {"uservec", "usertrap", "cause"} =>
       /\ (p \in asked) <=> (cpu.scause = "ecall")
       /\ user[p].pc = IF p \in asked THEN (cpu.sepc.n + 1) % Loop ELSE cpu.sepc.n
  /\ L = "uservec" => cpu.regs = user[p].regs
  /\ L \in {"usertrap", "cause"} => th[p].tf.regs = user[p].regs
  /\ L \notin {"user", "uservec", "usertrap", "cause"} /\ ~ToUser => TfOK(p)
  /\ ToUser => cpu.sepc = UserAt(user[p].pc) /\ cpu.regs = user[p].regs /\ p \notin asked
  /\ L \in {"syscall", "sys", "locked", "relock", "slept", "forkret", "usertrapret",
            "usertrapret2", "userret"} => OfAsked(p, L)
  /\ L = "userret" => cpu.sepc = th[p].tf.epc

CpuInvariant ==
  CpuTypes /\ ThreadTypes /\ OtherTypes /\ Registers /\ Locks /\ Threads /\ Handler /\ Process

(***************************************************************************)
(* Facts about the values.                                                 *)
(***************************************************************************)

(* The next instruction of the loop is one of the loop. *)
LEMMA NextN == ASSUME NEW n \in Nat PROVE (n + 1) % Loop \in 0 .. Loop - 1
  BY CpuAssumption

(* Every label is a program counter. *)
LEMMA Labels ==
  /\ \A l \in {"uservec", "usertrap", "cause", "syscall", "sys", "locked", "usertrapret",
               "usertrapret2", "userret", "sret", "yield", "scheduler", "scan", "kernelvec",
               "devintr", "w_sip", "kerneltrap", "switched", "yielded", "slept", "unlock",
               "relock", "forkret"} : At(l) \in Pcs
  /\ \A n \in Nat : UserAt(n) \in Pcs
  BY DEF KernelLabels, TrapLabels, LockedLabels, Pcs, At, UserAt

(* The kernel's registers, an empty trapframe and an empty trap frame. *)
LEMMA Values ==
  KernelRegs \in Int /\ NoFrame \in [epc : Pcs, regs : Int]
  /\ NoTrap \in [sepc : Pcs, spp : BOOLEAN, sie : BOOLEAN]
<1>1. KernelRegs \in Int
  BY DEF KernelRegs
<1>2. UserAt(0) \in Pcs /\ UserAt(0) = [at |-> "user", n |-> 0]
  BY Labels DEF UserAt
<1>3. NoFrame = [epc |-> UserAt(0), regs |-> 0]
  BY <1>2 DEF NoFrame
<1>4. NoTrap = [sepc |-> UserAt(0), spp |-> FALSE, sie |-> FALSE]
  BY <1>2 DEF NoTrap
<1> QED
  BY <1>1, <1>2, <1>3, <1>4

(* A process is neither the scheduler nor none. *)
LEMMA Names ==
  "scheduler" \notin Proc /\ "none" \notin Proc /\ "kernel" \notin Proc
  BY CpuAssumption

(* Who runs. *)
LEMMA CurrentIs ==
  ASSUME OtherTypes
  PROVE  /\ Current \in Proc \cup {"scheduler"}
         /\ \A p \in Proc : Current = p <=> mycpu.proc = p
  BY Names DEF Current, OtherTypes

(***************************************************************************)
(* What a step leaves alone.                                               *)
(***************************************************************************)
LEMMA ResumesKept ==
  ASSUME NEW t, NEW pc, t \in asked <=> t \in asked', Resumes(t, pc)
  PROVE  Resumes(t, pc)'
  BY DEF Resumes, OfAsked, Resumable

LEMMA FrameKept ==
  ASSUME NEW t, th'[t].frame = th[t].frame, t \in asked <=> t \in asked', FrameOK(t)
  PROVE  FrameOK(t)'
  BY DEF FrameOK, Resumes, OfAsked, Resumable

LEMMA BackKept ==
  ASSUME NEW t, th'[t].frame = th[t].frame, th'[t].back = th[t].back,
         t \in asked <=> t \in asked', BackOK(t)
  PROVE  BackOK(t)'
  BY FrameKept DEF BackOK

LEMMA TfKept ==
  ASSUME NEW p, th'[p].tf = th[p].tf, user'[p] = user[p], TfOK(p)
  PROVE  TfOK(p)'
  BY DEF TfOK

LEMMA SavedKept ==
  ASSUME NEW p, th'[p] = th[p], user'[p] = user[p], p \in asked <=> p \in asked', SavedOK(p)
  PROVE  SavedOK(p)'
  BY BackKept, TfKept DEF SavedOK

Undisturbed(t) ==
  /\ \A pc : Resumes(t, pc) => Resumes(t, pc)'
  /\ FrameOK(t) => FrameOK(t)'
  /\ BackOK(t) => BackOK(t)'
  /\ TfOK(t) => TfOK(t)'
  /\ SavedOK(t) => SavedOK(t)'

(* A step that leaves the threads alone. *)
LEMMA QuietKernel ==
  ASSUME UNCHANGED <<th, user, asked>>
  PROVE  \A t : Undisturbed(t)
  BY ResumesKept, FrameKept, BackKept, TfKept, SavedKept DEF Undisturbed

(* A step that changes one thread. *)
LEMMA OneThread ==
  ASSUME ThreadTypes, NEW t \in Proc \cup {"scheduler"}, NEW r \in Thread,
         th' = [th EXCEPT ![t] = r], UNCHANGED <<user, asked>>
  PROVE  /\ ThreadTypes' /\ th'[t] = r
         /\ \A q \in Proc \cup {"scheduler"} : q # t => th'[q] = th[q]
         /\ \A q \in Proc : q # t => (SavedOK(q) => SavedOK(q)')
<1>1. ThreadTypes' /\ th'[t] = r
  BY DEF ThreadTypes
<1>2. \A q \in Proc \cup {"scheduler"} : q # t => th'[q] = th[q]
  BY DEF ThreadTypes
<1>3. \A q \in Proc : q # t => (SavedOK(q) => SavedOK(q)')
  BY <1>2, SavedKept
<1> QED
  BY <1>1, <1>2, <1>3

(* Threads holds after a step when a process runs on ... *)
LEMMA ThreadsRun ==
  ASSUME NEW p \in Proc, mycpu'.proc = p, L' \notin {"scheduler", "scan", "switched"},
         th'["scheduler"].context = "switched", th'[p].state = "RUNNING",
         \A q \in Proc : q # p => SavedOK(q)', L' = "yielded" => ~th'[p].intena
  PROVE  Threads'
  BY Names DEF Threads

(* ... and when it has just given the processor up. *)
LEMMA ThreadsSwitched ==
  ASSUME NEW p \in Proc, mycpu'.proc = p, L' = "switched",
         th'["scheduler"].context = "switched", \A q \in Proc : SavedOK(q)'
  PROVE  Threads'
  BY Names DEF Threads

(***************************************************************************)
(* spinlock.c.                                                             *)
(***************************************************************************)
(* push_off() leaves interrupts off and counts one more. *)
LEMMA PushOffFacts ==
  ASSUME CpuTypes, OtherTypes, NEW next, PushOff(next)
  PROVE  \E i \in BOOLEAN :
    /\ mycpu.noff + 1 \in Nat
    /\ mycpu' = [mycpu EXCEPT !.noff = mycpu.noff + 1, !.intena = i]
    /\ cpu' = [cpu EXCEPT !.pc = At(next), !.sie = FALSE]
<1>1. cpu.sie \in BOOLEAN /\ mycpu.intena \in BOOLEAN /\ mycpu.noff \in Nat
  BY DEF CpuTypes, OtherTypes
<1>2. cpu' = [cpu EXCEPT !.pc = At(next), !.sie = FALSE]
  BY DEF PushOff, Goto, CpuTypes
<1>3. mycpu.noff + 1 \in Nat
  BY <1>1
<1>4. CASE mycpu.noff = 0
  <2>1. mycpu' = [mycpu EXCEPT !.noff = mycpu.noff + 1, !.intena = cpu.sie]
    BY <1>4 DEF PushOff
  <2> QED
    BY <2>1, <1>1, <1>2, <1>3
<1>5. CASE mycpu.noff # 0
  <2>1. mycpu' = [mycpu EXCEPT !.noff = mycpu.noff + 1, !.intena = mycpu.intena]
    BY <1>5 DEF PushOff
  <2> QED
    BY <2>1, <1>1, <1>2, <1>3
<1> QED
  BY <1>4, <1>5

(* pop_off() counts one less, and turns interrupts on only at the last. *)
LEMMA PopOffFacts ==
  ASSUME CpuTypes, OtherTypes, NEW next, NEW q, ~PopPanics, PopOff(next, q)
  PROVE  \E s \in BOOLEAN :
    /\ mycpu.noff >= 1 /\ mycpu.noff - 1 \in Nat
    /\ mycpu' = [mycpu EXCEPT !.noff = mycpu.noff - 1, !.proc = q]
    /\ cpu' = [cpu EXCEPT !.pc = At(next), !.sie = s]
    /\ s => mycpu.noff = 1 /\ mycpu.intena
<1> DEFINE s == mycpu.noff = 1 /\ mycpu.intena
<1>1. s \in BOOLEAN
  BY DEF OtherTypes
<1>2. mycpu.noff >= 1 /\ mycpu.noff - 1 \in Nat
  BY DEF PopPanics, OtherTypes
<1>3. mycpu' = [mycpu EXCEPT !.noff = mycpu.noff - 1, !.proc = q]
  BY DEF PopOff
<1>4. cpu' = [cpu EXCEPT !.pc = At(next), !.sie = s]
  BY DEF PopPanics, PopOff, Goto, CpuTypes, OtherTypes
<1>5. s => mycpu.noff = 1 /\ mycpu.intena
  OBVIOUS
<1> QED
  <2> HIDE DEF s
  <2> QED
    BY <1>1, <1>2, <1>3, <1>4, <1>5

(* pop_off() does not panic where a lock is held. *)
LEMMA NoPopPanic ==
  ASSUME CpuInvariant, L \in {"locked"} \cup LockedLabels
  PROVE  ~PopPanics
  BY DEF CpuInvariant, Registers, Locks, LockedLabels, PopPanics, OtherTypes

(***************************************************************************)
(* What holds at a label.                                                  *)
(***************************************************************************)
(* Where the processor is. *)
LEMMA AtLabel ==
  ASSUME NEW l, Kernel(l)
  PROVE  L = l /\ cpu.pc = At(l) /\ cpu.mode = "S" /\ halted = "no"
  BY DEF Kernel, L, At

(* Outside the scheduler and the handler of its interrupts a process runs. *)
LEMMA ProcessRuns ==
  ASSUME CpuInvariant, L \notin TrapLabels \cup {"scheduler", "scan", "sret"} \/ ToUser
  PROVE  mycpu.proc \in Proc
  BY DEF CpuInvariant, Threads, OtherTypes

(* A process that runs, and the others. *)
LEMMA Running ==
  ASSUME CpuInvariant, NEW p \in Proc, p = mycpu.proc
  PROVE  /\ th["scheduler"].context = "switched"
         /\ L # "switched" => th[p].state = "RUNNING"
         /\ \A q \in Proc : q # p \/ L = "switched" => SavedOK(q)
  BY DEF CpuInvariant, Threads

(* Its trapframe, once saved and not yet restored. *)
LEMMA SavedFrame ==
  ASSUME CpuInvariant, NEW p \in Proc, p = mycpu.proc,
         L \notin {"user", "uservec", "usertrap", "cause"}, ~ToUser
  PROVE  TfOK(p)
  BY DEF CpuInvariant, Process

(* The way back from the interrupt that the current thread handles. *)
LEMMA WayBack ==
  ASSUME CpuInvariant, NEW t \in Proc \cup {"scheduler"}, t = Current,
         L \in {"devintr", "w_sip", "yield", "yielded", "unlock"}
  PROVE  BackOK(t)
  BY DEF CpuInvariant, Handler

(***************************************************************************)
(* The processor.                                                          *)
(***************************************************************************)
(* An interrupt is taken. *)
LEMMA InterruptKeeps ==
  ASSUME CpuInvariant, Interrupt
  PROVE  CpuInvariant'
<1> USE DEF CpuInvariant
<1>1. CASE cpu.mode = "U"
  <2>1. PICK c \in {"software", "external"} :
        /\ cpu' = [cpu EXCEPT !.pc = At(cpu.stvec), !.mode = "S", !.sepc = cpu.pc, !.scause = c,
               !.spp = FALSE, !.sie = FALSE]
        /\ halted = "no"
        /\ UNCHANGED <<mycpu, th, line, user, asked, halted>>
    BY <1>1 DEF Interrupt, TakesS, PendingS, InterruptS, CpuTypes
  <2>2. \A t : Undisturbed(t)
    BY <2>1, QuietKernel
  <2>3. CpuTypes' /\ ThreadTypes' /\ OtherTypes'
    BY <1>1, <2>1, <2>2, Labels, Values DEF CpuTypes, ThreadTypes, OtherTypes
  <2>4. Registers'
    BY <1>1, <2>1, <2>2 DEF Kernel, At, L, Registers, ToUser, CpuTypes
  <2>5. Locks'
    BY <1>1, <2>1, <2>2 DEF Kernel, At, L, Locks, LockedLabels, Registers, CpuTypes, OtherTypes,
    ToUser
  <2>6. Threads'
    BY <1>1, <2>1, <2>2 DEF Kernel, At, L, Threads, TrapLabels, Undisturbed, Registers, ToUser,
    OtherTypes, CpuTypes
  <2>7. Handler'
    BY <1>1, <2>1, <2>2 DEF Kernel, At, L, Handler, Registers, Current, Undisturbed
  <2>8. Process'
    BY <1>1, <2>1, <2>2 DEF Kernel, At, L, Process, Registers, ToUser, OtherTypes, CpuTypes,
    Threads, OfAsked, Current, UserAt, Undisturbed
  <2> QED
    BY <2>3, <2>4, <2>5, <2>6, <2>7, <2>8 DEF CpuInvariant
<1>2. CASE cpu.mode = "S"
  <2>1. PICK c \in {"software", "external"} :
        /\ cpu' = [cpu EXCEPT !.pc = At(cpu.stvec), !.mode = "S", !.sepc = cpu.pc, !.scause = c,
               !.spp = TRUE, !.sie = FALSE]
        /\ halted = "no"
        /\ cpu.sie
        /\ UNCHANGED <<mycpu, th, line, user, asked, halted>>
    BY <1>2 DEF Interrupt, TakesS, PendingS, InterruptS, CpuTypes
  <2>2. \A t : Undisturbed(t)
    BY <2>1, QuietKernel
  <2>3. CpuTypes' /\ ThreadTypes' /\ OtherTypes'
    BY <1>2, <2>1, <2>2, Labels, Values DEF CpuTypes, ThreadTypes, OtherTypes
  <2>4. Registers'
    BY <1>2, <2>1, <2>2 DEF Kernel, At, L, Registers, ToUser, CpuTypes
  <2>5. Locks'
    BY <1>2, <2>1, <2>2 DEF Kernel, At, L, Locks, LockedLabels, Registers, CpuTypes, OtherTypes,
    ToUser
  <2>6. Threads'
    BY <1>2, <2>1, <2>2 DEF Kernel, At, L, Threads, TrapLabels, Undisturbed, Registers, ToUser,
    OtherTypes, CpuTypes
  <2>7. Handler'
    <3> DEFINE l == L
    <3>1. l \in {"scheduler", "scan", "syscall", "sys", "usertrapret"} /\ cpu.pc = At(l)
      BY <2>1 DEF Registers
    <3>2. cpu.stvec = "kernelvec"
      BY <3>1 DEF Registers, ToUser, CpuTypes
    <3>3. L' = "kernelvec" /\ cpu'.sepc = At(l)
      BY <2>1, <3>1, <3>2 DEF L, At, CpuTypes
    <3>4. ASSUME NEW t \in Proc \cup {"scheduler"}, t = Current
          PROVE  l \in Resumable(t) /\ OfAsked(t, l)
      <4>1. CASE mycpu.proc = "none"
        BY <3>1, <3>4, <4>1, Names DEF Threads, TrapLabels, Resumable, OfAsked, Current
      <4>2. CASE mycpu.proc \in Proc
        <5>1. t = mycpu.proc /\ t \in Proc /\ l \in {"syscall", "sys", "usertrapret"}
          BY <3>1, <3>4, <4>2, Names DEF Threads, Current
        <5> QED
          BY <5>1, Names DEF Process, Resumable
      <4> QED
        BY <4>1, <4>2 DEF OtherTypes
    <3> HIDE DEF l
    <3>5. ASSUME NEW t \in Proc \cup {"scheduler"}, t = Current
          PROVE  Resumes(t, cpu.pc)
      BY <3>1, <3>4, <3>5 DEF Resumes
    <3>6. \A t \in Proc \cup {"scheduler"} : t = Current => Resumes(t, cpu'.sepc)
      BY <3>1, <3>3, <3>5
    <3> QED
      BY <2>1, <2>2, <3>3, <3>6 DEF Handler, Current, Resumes, OfAsked, Resumable
  <2>8. Process'
    BY <1>2, <2>1, <2>2 DEF Kernel, At, L, Process, Registers, ToUser, OtherTypes, CpuTypes,
    Threads, OfAsked, Current, UserAt, Undisturbed
  <2> QED
    BY <2>3, <2>4, <2>5, <2>6, <2>7, <2>8 DEF CpuInvariant
<1> QED
  BY <1>1, <1>2 DEF CpuTypes

(* The timer's interrupt only sets SSIP. *)
LEMMA TimerKeeps ==
  ASSUME CpuInvariant, Timer
  PROVE  CpuInvariant'
<1> USE DEF CpuInvariant
<1>1. /\ halted = "no"
      /\ cpu' = [cpu EXCEPT !.pc = cpu.pc, !.ssip = TRUE]
      /\ UNCHANGED <<mycpu, th, line, user, asked, halted>>
  BY DEF Timer, InterruptM
<1>2. \A t : Undisturbed(t)
  BY <1>1, QuietKernel
<1>3. CpuTypes' /\ ThreadTypes' /\ OtherTypes'
  BY <1>1, <1>2, Labels, Values DEF CpuTypes, ThreadTypes, OtherTypes
<1>4. Registers'
  BY <1>1, <1>2 DEF Kernel, At, L, Registers, ToUser
<1>5. Locks'
  BY <1>1, <1>2 DEF Kernel, At, L, Locks, LockedLabels, Registers
<1>6. Threads'
  BY <1>1, <1>2 DEF Kernel, At, L, Threads, TrapLabels, Undisturbed, Registers, ToUser
<1>7. Handler'
  BY <1>1, <1>2 DEF Kernel, At, L, Handler, Current, Undisturbed
<1>8. Process'
  BY <1>1, <1>2 DEF Kernel, At, L, Process, ToUser, OfAsked, Undisturbed
<1> QED
  BY <1>3, <1>4, <1>5, <1>6, <1>7, <1>8 DEF CpuInvariant

(* A device raises its interrupt. *)
LEMMA DeviceKeeps ==
  ASSUME CpuInvariant, Device
  PROVE  CpuInvariant'
<1> USE DEF CpuInvariant
<1>1. /\ UNCHANGED <<cpu, mycpu, th, user, asked, halted>>
      /\ line' = TRUE
  BY DEF Device
<1>2. \A t : Undisturbed(t)
  BY <1>1, QuietKernel
<1>3. CpuTypes' /\ ThreadTypes' /\ OtherTypes'
  BY <1>1, <1>2, Labels, Values DEF CpuTypes, ThreadTypes, OtherTypes
<1>4. Registers'
  BY <1>1, <1>2 DEF Kernel, At, L, Registers, ToUser
<1>5. Locks'
  BY <1>1, <1>2 DEF Kernel, At, L, Locks, LockedLabels, Registers
<1>6. Threads'
  BY <1>1, <1>2 DEF Kernel, At, L, Threads, TrapLabels, Undisturbed, Registers, ToUser
<1>7. Handler'
  BY <1>1, <1>2 DEF Kernel, At, L, Handler, Current, Undisturbed
<1>8. Process'
  BY <1>1, <1>2 DEF Kernel, At, L, Process, ToUser, OfAsked, Undisturbed
<1> QED
  BY <1>3, <1>4, <1>5, <1>6, <1>7, <1>8 DEF CpuInvariant

(* User code steps. *)
LEMMA UserStepKeeps ==
  ASSUME CpuInvariant, UserStep
  PROVE  CpuInvariant'
<1> USE DEF CpuInvariant
<1>1. PICK p \in Proc : p = mycpu.proc
  BY DEF UserStep, Kernel, At, L, OtherTypes, Threads, TrapLabels, Registers, ToUser, CpuTypes
<1>2. /\ cpu.pc.at = "user" /\ halted = "no"
      /\ cpu.satp = p /\ cpu.pc.n \in Nat
  BY <1>1 DEF UserStep, L, Registers, CpuTypes, Pcs
<1>3. PICK n \in 0 .. Loop - 1 : n = (cpu.pc.n + 1) % Loop
  BY <1>2, NextN
<1>4. /\ cpu' = [cpu EXCEPT !.pc = UserAt(n), !.regs = n]
      /\ user' = [user EXCEPT ![p] = [pc |-> n, regs |-> n]]
      /\ UNCHANGED <<mycpu, th, line, asked, halted>>
  BY <1>2, <1>3 DEF UserStep
<1>5. UserAt(n) \in Pcs /\ n \in Int
  BY Labels
<1>6. \A q \in Proc : q # p => (SavedOK(q) => SavedOK(q)')
  BY <1>4, SavedKept DEF OtherTypes
<1>7. CpuTypes' /\ ThreadTypes' /\ OtherTypes'
  BY <1>4, <1>5 DEF CpuTypes, ThreadTypes, OtherTypes
<1>8. Registers'
  BY <1>1, <1>2, <1>4, Names DEF Kernel, At, L, UserAt, Registers, ToUser, CpuTypes
<1>9. Locks'
  BY <1>1, <1>2, <1>3, <1>4, <1>5, <1>6 DEF Kernel, At, L, UserAt, Locks, LockedLabels,
  Registers, CpuTypes, OtherTypes, ToUser
<1>10. Threads'
  BY <1>1, <1>2, <1>4, <1>6 DEF Kernel, At, L, UserAt, Threads, TrapLabels, Registers, ToUser,
  OtherTypes, CpuTypes
<1>11. Handler'
  BY <1>2, <1>4 DEF Kernel, At, L, UserAt, Handler, CpuTypes
<1>12. Process'
  BY <1>1, <1>2, <1>3, <1>4, <1>5, <1>6 DEF Kernel, At, L, UserAt, Process, Registers, ToUser,
  OtherTypes, CpuTypes, Threads, OfAsked
<1> QED
  BY <1>7, <1>8, <1>9, <1>10, <1>11, <1>12 DEF CpuInvariant

(* A process issues a system call. *)
LEMMA EcallKeeps ==
  ASSUME CpuInvariant, ~Coincide, Ecall
  PROVE  CpuInvariant'
<1> USE DEF CpuInvariant
<1>1. PICK p \in Proc : p = mycpu.proc
  BY DEF Ecall, Kernel, At, L, OtherTypes, Threads, TrapLabels, Registers, ToUser, CpuTypes
<1>2. /\ cpu.pc.at = "user" /\ halted = "no"
      /\ cpu.satp = p /\ cpu.pc.n \in Nat
  BY <1>1 DEF Ecall, L, Registers, CpuTypes, Pcs
<1>3. PICK n \in 0 .. Loop - 1 : n = (cpu.pc.n + 1) % Loop
  BY <1>2, NextN
<1>4. /\ cpu' = [cpu EXCEPT !.pc = At(cpu.stvec), !.mode = "S", !.sepc = cpu.pc,
                        !.scause = "ecall"]
      /\ asked' = asked \cup {p}
      /\ user' = [user EXCEPT ![p].pc = n]
      /\ UNCHANGED <<mycpu, th, line, halted>>
  BY <1>2, <1>3 DEF Ecall, Coinciding
<1>5. \A q \in Proc : q # p => (SavedOK(q) => SavedOK(q)')
  BY <1>4, SavedKept DEF OtherTypes
<1>6. CpuTypes' /\ ThreadTypes' /\ OtherTypes'
  BY <1>1, <1>2, <1>3, <1>4, <1>5, Labels, Values DEF CpuTypes, ThreadTypes, OtherTypes
<1>7. Registers'
  BY <1>1, <1>2, <1>3, <1>4, <1>5 DEF Kernel, At, L, Registers, ToUser, CpuTypes
<1>8. Locks'
  BY <1>1, <1>2, <1>3, <1>4, <1>5 DEF Kernel, At, L, Locks, LockedLabels, Registers
<1>9. Threads'
  BY <1>1, <1>2, <1>3, <1>4, <1>5 DEF Kernel, At, L, Threads, TrapLabels, Registers, ToUser
<1>10. Handler'
  BY <1>1, <1>2, <1>3, <1>4, <1>5 DEF Kernel, At, L, Handler, Registers, Current
<1>11. Process'
  BY <1>1, <1>2, <1>3, <1>4, <1>5 DEF Kernel, At, L, Process, Registers, ToUser, OtherTypes,
  CpuTypes, Threads, OfAsked, Current, UserAt
<1> QED
  BY <1>6, <1>7, <1>8, <1>9, <1>10, <1>11 DEF CpuInvariant

(* SRET returns to user code or to the interrupted kernel code. *)
LEMMA sretKeeps ==
  ASSUME CpuInvariant, ~Coincide, sret
  PROVE  CpuInvariant'
<1> USE DEF CpuInvariant
<1>1. CASE cpu.spp = FALSE
  <2>1. /\ Kernel("sret")
        /\ cpu' = [cpu EXCEPT !.pc = cpu.sepc, !.mode = "U", !.sepc = UserAt(0)]
        /\ UNCHANGED <<mycpu, th, line, user, asked, halted>>
    BY <1>1 DEF sret, Coinciding, CpuTypes
  <2>2. \A t : Undisturbed(t)
    BY <2>1, QuietKernel
  <2>3. CpuTypes' /\ ThreadTypes' /\ OtherTypes'
    BY <1>1, <2>1, <2>2, Labels, Values DEF CpuTypes, ThreadTypes, OtherTypes
  <2>4. Registers'
    BY <1>1, <2>1, <2>2, CurrentIs DEF Kernel, At, L, UserAt, Registers, ToUser, CpuTypes,
    OtherTypes, Threads, Handler, Process, Resumes, Resumable
  <2>5. Locks'
    BY <1>1, <2>1, <2>2, CurrentIs DEF Kernel, At, L, UserAt, Locks, LockedLabels, Registers,
    CpuTypes, OtherTypes, Threads, Handler, Process, Resumes, Resumable, ToUser
  <2>6. Threads'
    BY <1>1, <2>1, <2>2, CurrentIs DEF Kernel, At, L, UserAt, Threads, TrapLabels, Undisturbed,
    Registers, ToUser, OtherTypes, CpuTypes, Handler, Process, Resumes, Resumable, Current
  <2>7. Handler'
    BY <1>1, <2>1, <2>2 DEF Kernel, At, L, UserAt, Handler, Registers, Current, Threads,
    OtherTypes, Resumes, Resumable, OfAsked, Process, ToUser, CpuTypes
  <2>8. Process'
    BY <1>1, <2>1, <2>2 DEF Kernel, At, L, UserAt, Process, Registers, ToUser, OtherTypes,
    CpuTypes, Threads, Handler, Resumes, Resumable, OfAsked, Current, Undisturbed
  <2> QED
    BY <2>3, <2>4, <2>5, <2>6, <2>7, <2>8 DEF CpuInvariant
<1>2. CASE cpu.spp = TRUE
  <2>1. /\ Kernel("sret")
        /\ cpu' = [cpu EXCEPT !.pc = cpu.sepc, !.mode = "S", !.sepc = UserAt(0)]
        /\ UNCHANGED <<mycpu, th, line, user, asked, halted>>
    BY <1>2 DEF sret, Coinciding, CpuTypes
  <2>2. \A t : Undisturbed(t)
    BY <2>1, QuietKernel
  <2>3. CpuTypes' /\ ThreadTypes' /\ OtherTypes'
    BY <1>2, <2>1, <2>2, Labels, Values DEF CpuTypes, ThreadTypes, OtherTypes
  <2>4. Registers'
    BY <1>2, <2>1, <2>2, CurrentIs DEF Kernel, At, L, UserAt, Registers, ToUser, CpuTypes,
    OtherTypes, Threads, Handler, Process, Resumes, Resumable
  <2>5. Locks'
    BY <1>2, <2>1, <2>2, CurrentIs DEF Kernel, At, L, UserAt, Locks, LockedLabels, Registers,
    CpuTypes, OtherTypes, Threads, Handler, Process, Resumes, Resumable, ToUser
  <2>6. Threads'
    <3>1. mycpu' = mycpu /\ L = "sret" /\ ~ToUser
      BY <1>2, <2>1, AtLabel DEF ToUser
    <3>2. PICK l \in Resumable(Current) : cpu.sepc = At(l)
      BY <1>2, <3>1, CurrentIs DEF Handler, Resumes
    <3>3. L' = l
      BY <2>1, <3>2 DEF L, At, CpuTypes
    <3>4. CASE mycpu.proc = "none"
      <4>1. l \in {"scheduler", "scan"} /\ \A q \in Proc : SavedOK(q)
        BY <3>1, <3>2, <3>4, Names DEF Resumable, Current, Threads
      <4> QED
        BY <2>2, <3>1, <3>3, <3>4, <4>1, Names DEF Threads, Undisturbed, ToUser
    <3>5. CASE mycpu.proc \in Proc
      <4>1. l \in {"syscall", "sys", "usertrapret"}
        BY <3>2, <3>5, Names DEF Resumable, Current
      <4>2. PICK p \in Proc : p = mycpu.proc
        BY <3>5
      <4>3. th["scheduler"].context = "switched" /\ th[p].state = "RUNNING"
            /\ \A q \in Proc : q # p => SavedOK(q)
        BY <3>1, <4>2, Running
      <4> QED
        BY <2>1, <2>2, <3>1, <3>3, <4>1, <4>2, <4>3, ThreadsRun DEF Undisturbed
    <3> QED
      BY <3>4, <3>5 DEF OtherTypes
  <2>7. Handler'
    BY <1>2, <2>1, <2>2 DEF Kernel, At, L, UserAt, Handler, Registers, Current, Threads,
    OtherTypes, Resumes, Resumable, OfAsked, Process, ToUser, CpuTypes
  <2>8. Process'
    BY <1>2, <2>1, <2>2 DEF Kernel, At, L, UserAt, Process, Registers, ToUser, OtherTypes,
    CpuTypes, Threads, Handler, Resumes, Resumable, OfAsked, Current, Undisturbed
  <2> QED
    BY <2>3, <2>4, <2>5, <2>6, <2>7, <2>8 DEF CpuInvariant
<1> QED
  BY <1>1, <1>2 DEF CpuTypes

(***************************************************************************)
(* From user space into the kernel, and back.                              *)
(***************************************************************************)
(* uservec saves the registers. *)
LEMMA uservecKeeps ==
  ASSUME CpuInvariant, uservec
  PROVE  CpuInvariant'
<1> USE DEF CpuInvariant
<1>1. Kernel("uservec")
  BY DEF uservec
<1>2. PICK p \in Proc : p = mycpu.proc
  BY <1>1, AtLabel, ProcessRuns DEF TrapLabels
<1>3. cpu.satp = p /\ p # "kernel"
  BY <1>1, <1>2, AtLabel, Names DEF Registers
<1>4. /\ cpu' = [cpu EXCEPT !.pc = At("usertrap"), !.regs = KernelRegs, !.satp = "kernel"]
      /\ th' = [th EXCEPT ![p].tf.regs = cpu.regs]
      /\ UNCHANGED <<mycpu, line, user, asked, halted>>
  BY <1>3 DEF uservec, Goto
<1>5. th[p] \in Thread /\ cpu.regs \in Int
  BY <1>2 DEF ThreadTypes, CpuTypes
<1> DEFINE r == [th[p] EXCEPT !.tf.regs = cpu.regs]
<1>6. /\ r \in Thread
      /\ r.tf.regs = cpu.regs
      /\ r.state = th[p].state
  BY <1>5 DEF Thread
<1>7. th' = [th EXCEPT ![p] = r]
  BY <1>4
<1> HIDE DEF r
<1>8. UNCHANGED <<user, asked>>
  BY <1>4
<1>9. /\ ThreadTypes' /\ th'[p] = r
      /\ \A q \in Proc \cup {"scheduler"} : q # p => th'[q] = th[q]
      /\ \A q \in Proc : q # p => (SavedOK(q) => SavedOK(q)')
  BY <1>6, <1>7, <1>8, OneThread
<1>10. CpuTypes' /\ ThreadTypes' /\ OtherTypes'
  BY <1>2, <1>4, <1>9, Labels, Values DEF CpuTypes, OtherTypes
<1>11. Registers'
  BY <1>1, <1>2, <1>4, Names DEF Kernel, At, L, Registers, ToUser
<1>12. Locks'
  BY <1>1, <1>2, <1>4 DEF Kernel, At, L, Locks, LockedLabels
<1>13. Threads'
  <2>1. mycpu'.proc = p /\ L' = "usertrap"
    BY <1>2, <1>4 DEF L, At, CpuTypes
  <2>2. th["scheduler"].context = "switched" /\ th[p].state = "RUNNING"
        /\ \A q \in Proc : q # p => SavedOK(q)
    BY <1>1, <1>2, AtLabel, Running
  <2> QED
    BY <1>6, <1>9, <2>1, <2>2, ThreadsRun, Names
<1>14. Handler'
  BY <1>2, <1>4 DEF Kernel, At, L, Handler
<1>15. Process'
  BY <1>1, <1>2, <1>4, <1>6, <1>9 DEF Kernel, At, L, Process, ToUser
<1> QED
  BY <1>10, <1>11, <1>12, <1>13, <1>14, <1>15 DEF CpuInvariant

(* usertrap() finds the trap came from user mode. *)
LEMMA usertrapKeeps ==
  ASSUME CpuInvariant, usertrap
  PROVE  CpuInvariant'
<1> USE DEF CpuInvariant
<1>1. Kernel("usertrap")
  BY DEF usertrap
<1>2. ~cpu.spp
  BY <1>1, AtLabel DEF Registers
<1>3. /\ Kernel("usertrap")
      /\ cpu' = [cpu EXCEPT !.pc = At("cause"), !.stvec = "kernelvec"]
      /\ UNCHANGED <<mycpu, th, line, user, asked, halted>>
  BY <1>1, <1>2 DEF usertrap, Goto
<1>4. \A t : Undisturbed(t)
  BY <1>3, QuietKernel
<1>5. CpuTypes' /\ ThreadTypes' /\ OtherTypes'
  BY <1>3, <1>4, Labels, Values DEF CpuTypes, ThreadTypes, OtherTypes
<1>6. Registers'
  BY <1>3, <1>4 DEF Kernel, At, L, Registers, ToUser
<1>7. Locks'
  BY <1>3, <1>4 DEF Kernel, At, L, Locks, LockedLabels, Registers
<1>8. Threads'
  BY <1>3, <1>4 DEF Kernel, At, L, Threads, TrapLabels, Undisturbed
<1>9. Handler'
  BY <1>3, <1>4 DEF Kernel, At, L, Handler, Undisturbed
<1>10. Process'
  BY <1>3, <1>4 DEF Kernel, At, L, Process, ToUser, OfAsked, Undisturbed
<1> QED
  BY <1>5, <1>6, <1>7, <1>8, <1>9, <1>10 DEF CpuInvariant

(* usertrap() saves the pc: of the call's next instruction or of the interrupted one. *)
LEMMA usertrapCauseKeeps ==
  ASSUME CpuInvariant, usertrapCause
  PROVE  CpuInvariant'
<1> USE DEF CpuInvariant
<1>1. CASE cpu.scause = "ecall"
  <2>1. PICK p \in Proc : p = mycpu.proc
    BY DEF usertrapCause, Kernel, At, L, OtherTypes, Threads, TrapLabels
  <2>2. cpu.sepc.n \in Nat
    BY DEF CpuTypes, Pcs
  <2>3. PICK n \in 0 .. Loop - 1 : n = (cpu.sepc.n + 1) % Loop
    BY <2>2, NextN
  <2>4. /\ Kernel("cause")
        /\ cpu' = [cpu EXCEPT !.pc = At("syscall"), !.sie = TRUE, !.sepc = UserAt(0),
                          !.scause = "none"]
        /\ th' = [th EXCEPT ![p].tf.epc = UserAt(n)]
        /\ UNCHANGED <<mycpu, line, user, asked, halted>>
    BY <1>1, <2>1, <2>3 DEF usertrapCause, Goto
  <2>5. th[p] \in Thread /\ UserAt(n) \in Pcs
    BY <2>1, Labels DEF ThreadTypes
  <2> DEFINE r == [th[p] EXCEPT !.tf.epc = UserAt(n)]
  <2>6. /\ r \in Thread
        /\ r.tf.regs = th[p].tf.regs
        /\ r.tf.epc = UserAt(n)
        /\ r.state = th[p].state
    BY <2>5 DEF Thread
  <2>7. th' = [th EXCEPT ![p] = r]
    BY <2>4
  <2> HIDE DEF r
  <2>8. /\ ThreadTypes' /\ th'[p] = r
        /\ \A q \in Proc \cup {"scheduler"} : q # p => th'[q] = th[q]
        /\ \A q \in Proc : q # p => (SavedOK(q) => SavedOK(q)')
    BY <2>6, <2>7, <2>4, OneThread
  <2>9. CpuTypes' /\ ThreadTypes' /\ OtherTypes'
    BY <2>1, <2>4, <2>8, Labels DEF CpuTypes, OtherTypes
  <2>10. Registers'
    BY <1>1, <2>1, <2>4 DEF Kernel, At, L, Registers, ToUser
  <2>11. Locks'
    BY <2>4 DEF Kernel, At, L, Locks, LockedLabels
  <2>12. Threads'
    <3>1. mycpu'.proc = p /\ L' = "syscall"
      BY <2>1, <2>4 DEF L, At, CpuTypes, OtherTypes
    <3>2. th["scheduler"].context = "switched" /\ th[p].state = "RUNNING"
          /\ \A q \in Proc : q # p => SavedOK(q)
      BY <2>1, <2>4, AtLabel, Running
    <3> QED
      BY <2>6, <2>8, <3>1, <3>2, ThreadsRun, Names
  <2>13. Handler'
    BY <2>4 DEF Kernel, At, L, Handler
  <2>14. Process'
    BY <1>1, <2>1, <2>3, <2>4, <2>6, <2>8 DEF Kernel, At, L, Process, ToUser, OfAsked, TfOK,
    UserAt
  <2> QED
    BY <2>9, <2>10, <2>11, <2>12, <2>13, <2>14 DEF CpuInvariant
<1>2. CASE cpu.scause # "ecall"
  <2>1. PICK p \in Proc : p = mycpu.proc
    BY DEF usertrapCause, Kernel, At, L, OtherTypes, Threads, TrapLabels
  <2>2. /\ Kernel("cause")
        /\ cpu' = [cpu EXCEPT !.pc = At("devintr"), !.sepc = UserAt(0)]
        /\ th' = [th EXCEPT ![p].tf.epc = cpu.sepc, ![p].back = "usertrapret"]
        /\ UNCHANGED <<mycpu, line, user, asked, halted>>
    BY <1>2, <2>1 DEF usertrapCause, Goto
  <2>3. th[p] \in Thread /\ cpu.sepc \in Pcs
    BY <2>1 DEF ThreadTypes, CpuTypes
  <2> DEFINE r == [th[p] EXCEPT !.tf.epc = cpu.sepc, !.back = "usertrapret"]
  <2>4. /\ r \in Thread
        /\ r.tf.regs = th[p].tf.regs
        /\ r.tf.epc = cpu.sepc
        /\ r.state = th[p].state
        /\ r.back = "usertrapret"
    BY <2>3 DEF Thread
  <2>5. th' = [th EXCEPT ![p] = r]
    BY <2>2
  <2> HIDE DEF r
  <2>6. /\ ThreadTypes' /\ th'[p] = r
        /\ \A q \in Proc \cup {"scheduler"} : q # p => th'[q] = th[q]
        /\ \A q \in Proc : q # p => (SavedOK(q) => SavedOK(q)')
    BY <2>4, <2>5, <2>2, OneThread
  <2>7. p \notin asked /\ cpu.sepc = UserAt(user[p].pc)
    BY <1>2, <2>1, <2>2 DEF Kernel, At, L, Process, Registers, CpuTypes, Pcs, UserAt
  <2>8. BackOK(p)'
    BY <2>2, <2>4, <2>6, <2>7 DEF BackOK
  <2>9. TfOK(p)'
    BY <2>1, <2>2, <2>4, <2>6, <2>7 DEF Kernel, At, L, Process, TfOK
  <2>10. CpuTypes' /\ ThreadTypes' /\ OtherTypes'
    BY <2>1, <2>2, <2>6, Labels DEF CpuTypes, OtherTypes
  <2>11. Registers'
    BY <1>2, <2>1, <2>2 DEF Kernel, At, L, Registers, ToUser
  <2>12. Locks'
    BY <2>2 DEF Kernel, At, L, Locks, LockedLabels
  <2>13. Threads'
    <3>1. mycpu'.proc = p /\ L' = "devintr"
      BY <2>1, <2>2 DEF L, At, CpuTypes, OtherTypes
    <3>2. th["scheduler"].context = "switched" /\ th[p].state = "RUNNING"
          /\ \A q \in Proc : q # p => SavedOK(q)
      BY <2>1, <2>2, AtLabel, Running
    <3> QED
      BY <2>4, <2>6, <3>1, <3>2, ThreadsRun, Names
  <2>14. Handler'
    BY <2>1, <2>2, <2>8, CurrentIs DEF Kernel, At, L, Handler, Current
  <2>15. Process'
    BY <2>1, <2>2, <2>9 DEF Kernel, At, L, Process, ToUser
  <2> QED
    BY <2>10, <2>11, <2>12, <2>13, <2>14, <2>15 DEF CpuInvariant
<1> QED
  BY <1>1, <1>2

(* usertrapret() turns interrupts off ... *)
LEMMA usertrapretKeeps ==
  ASSUME CpuInvariant, usertrapret
  PROVE  CpuInvariant'
<1> USE DEF CpuInvariant
<1>1. /\ Kernel("usertrapret")
      /\ cpu' = [cpu EXCEPT !.pc = At("usertrapret2"), !.sie = FALSE]
      /\ UNCHANGED <<mycpu, th, line, user, asked, halted>>
  BY DEF usertrapret, Goto
<1>2. \A t : Undisturbed(t)
  BY <1>1, QuietKernel
<1>3. CpuTypes' /\ ThreadTypes' /\ OtherTypes'
  BY <1>1, <1>2, Labels, Values DEF CpuTypes, ThreadTypes, OtherTypes
<1>4. Registers'
  BY <1>1, <1>2 DEF Kernel, At, L, Registers, ToUser
<1>5. Locks'
  BY <1>1, <1>2 DEF Kernel, At, L, Locks, LockedLabels, Registers
<1>6. Threads'
  BY <1>1, <1>2 DEF Kernel, At, L, Threads, TrapLabels, Undisturbed
<1>7. Handler'
  BY <1>1, <1>2 DEF Kernel, At, L, Handler, Undisturbed
<1>8. Process'
  BY <1>1, <1>2 DEF Kernel, At, L, Process, ToUser, OfAsked, Undisturbed
<1> QED
  BY <1>3, <1>4, <1>5, <1>6, <1>7, <1>8 DEF CpuInvariant

(* ... and then sets the processor up for user mode. *)
LEMMA usertrapretSetKeeps ==
  ASSUME CpuInvariant, usertrapretSet
  PROVE  CpuInvariant'
<1> USE DEF CpuInvariant
<1>1. PICK p \in Proc : p = mycpu.proc
  BY DEF usertrapretSet, Kernel, At, L, OtherTypes, Threads, TrapLabels, Registers, ToUser,
  CpuTypes
<1>2. th[p].tf.epc \in Pcs
  BY <1>1 DEF ThreadTypes, Thread
<1>3. /\ Kernel("usertrapret2")
      /\ cpu' = [cpu EXCEPT !.pc = At("userret"), !.stvec = "uservec", !.spp = FALSE,
                        !.sepc = th[p].tf.epc]
      /\ UNCHANGED <<mycpu, th, line, user, asked, halted>>
  BY <1>1 DEF usertrapretSet, Goto
<1>4. \A t : Undisturbed(t)
  BY <1>3, QuietKernel
<1>5. CpuTypes' /\ ThreadTypes' /\ OtherTypes'
  BY <1>1, <1>2, <1>3, <1>4, Labels, Values DEF CpuTypes, ThreadTypes, OtherTypes
<1>6. Registers'
  BY <1>1, <1>2, <1>3, <1>4 DEF Kernel, At, L, Registers, ToUser
<1>7. Locks'
  BY <1>1, <1>2, <1>3, <1>4 DEF Kernel, At, L, Locks, LockedLabels, Registers
<1>8. Threads'
  BY <1>1, <1>2, <1>3, <1>4 DEF Kernel, At, L, Threads, TrapLabels, Undisturbed
<1>9. Handler'
  BY <1>1, <1>2, <1>3, <1>4 DEF Kernel, At, L, Handler, Undisturbed
<1>10. Process'
  BY <1>1, <1>2, <1>3, <1>4 DEF Kernel, At, L, Process, ToUser, OfAsked, Undisturbed
<1> QED
  BY <1>5, <1>6, <1>7, <1>8, <1>9, <1>10 DEF CpuInvariant

(* userret loads the registers of the process. *)
LEMMA userretKeeps ==
  ASSUME CpuInvariant, userret
  PROVE  CpuInvariant'
<1> USE DEF CpuInvariant
<1>1. PICK p \in Proc : p = mycpu.proc
  BY DEF userret, Kernel, At, L, OtherTypes, Threads, TrapLabels, Registers, ToUser, CpuTypes
<1>2. /\ Kernel("userret")
      /\ cpu' = [cpu EXCEPT !.pc = At("sret"), !.satp = p, !.regs = th[p].tf.regs]
      /\ th' = [th EXCEPT ![p].tf = NoFrame]
      /\ UNCHANGED <<mycpu, line, user, asked, halted>>
  BY <1>1 DEF userret, Goto
<1>3. th[p] \in Thread /\ th[p].tf.regs \in Int
  BY <1>1 DEF ThreadTypes, Thread
<1> DEFINE r == [th[p] EXCEPT !.tf = NoFrame]
<1>4. /\ r \in Thread
      /\ r.state = th[p].state
  BY <1>3, Values DEF Thread
<1>5. th' = [th EXCEPT ![p] = r]
  BY <1>2
<1> HIDE DEF r
<1>6. /\ ThreadTypes' /\ th'[p] = r
      /\ \A q \in Proc \cup {"scheduler"} : q # p => th'[q] = th[q]
      /\ \A q \in Proc : q # p => (SavedOK(q) => SavedOK(q)')
  BY <1>4, <1>5, <1>2, OneThread
<1>7. CpuTypes' /\ ThreadTypes' /\ OtherTypes'
  BY <1>1, <1>2, <1>3, <1>6, Labels DEF CpuTypes, OtherTypes
<1>8. Registers'
  BY <1>1, <1>2, Names DEF Kernel, At, L, Registers, ToUser
<1>9. Locks'
  BY <1>1, <1>2 DEF Kernel, At, L, Locks, LockedLabels
<1>10. Threads'
  BY <1>1, <1>2, <1>4, <1>6, ThreadsRun, Names DEF Kernel, At, L, Threads, Registers
<1>11. Handler'
  BY <1>1, <1>2 DEF Kernel, At, L, Handler, Registers
<1>12. Process'
  BY <1>1, <1>2 DEF Kernel, At, L, Process, Registers, ToUser, OfAsked, TfOK
<1> QED
  BY <1>7, <1>8, <1>9, <1>10, <1>11, <1>12 DEF CpuInvariant

(***************************************************************************)
(* Interrupts in the kernel.                                               *)
(***************************************************************************)
(* kerneltrap() saves what SRET needs. *)
LEMMA kernelvecKeeps ==
  ASSUME CpuInvariant, kernelvec
  PROVE  CpuInvariant'
<1> USE DEF CpuInvariant
<1>1. PICK t \in Proc \cup {"scheduler"} : t = Current
  BY CurrentIs
<1>2. Kernel("kernelvec")
  BY DEF kernelvec
<1>3. cpu.spp = TRUE /\ cpu.sie = FALSE
  BY <1>2, AtLabel DEF Registers, CpuTypes
<1>4. /\ Kernel("kernelvec")
      /\ cpu' = [cpu EXCEPT !.pc = At("devintr"), !.sepc = UserAt(0)]
      /\ th' = [th EXCEPT ![t].frame = [sepc |-> cpu.sepc, spp |-> TRUE, sie |-> FALSE],
                    ![t].back = "kerneltrap"]
      /\ UNCHANGED <<mycpu, line, user, asked, halted>>
  BY <1>2, <1>1, <1>3 DEF kernelvec, Goto
<1>5. th[t] \in Thread /\ cpu.sepc \in Pcs
      /\ [sepc |-> cpu.sepc, spp |-> TRUE, sie |-> FALSE]
           \in [sepc : Pcs, spp : BOOLEAN, sie : BOOLEAN]
  BY <1>1 DEF ThreadTypes, CpuTypes
<1> DEFINE r == [th[t] EXCEPT !.frame = [sepc |-> cpu.sepc, spp |-> TRUE, sie |-> FALSE],
                         !.back = "kerneltrap"]
<1>6. /\ r \in Thread
      /\ r.frame = [sepc |-> cpu.sepc, spp |-> TRUE, sie |-> FALSE]
      /\ r.back = "kerneltrap" /\ r.state = th[t].state /\ r.tf = th[t].tf
  BY <1>5 DEF Thread
<1>7. th' = [th EXCEPT ![t] = r]
  BY <1>4
<1> HIDE DEF r
<1>8. /\ ThreadTypes' /\ th'[t] = r
      /\ \A q \in Proc \cup {"scheduler"} : q # t => th'[q] = th[q]
      /\ \A q \in Proc : q # t => (SavedOK(q) => SavedOK(q)')
  BY <1>6, <1>7, <1>4, OneThread
<1>9. Resumes(t, cpu.sepc)
  BY <1>1, <1>4 DEF Kernel, At, L, Handler
<1>10. FrameOK(t)'
  <2>1. PICK l \in Resumable(t) : cpu.sepc = At(l) /\ OfAsked(t, l)
    BY <1>9 DEF Resumes
  <2>2. th'[t].frame.spp /\ ~th'[t].frame.sie /\ th'[t].frame.sepc = At(l)
    BY <1>6, <1>8, <2>1
  <2>3. OfAsked(t, l)'
    BY <1>4, <2>1 DEF OfAsked
  <2> QED
    BY <2>2, <2>3 DEF FrameOK, Resumes, Resumable, At
<1>11. BackOK(t)'
  BY <1>6, <1>8, <1>10 DEF BackOK
<1>12. \A p \in Proc : TfOK(p) => TfOK(p)'
  BY <1>4, <1>6, <1>8, TfKept
<1>13. mycpu.proc \in Proc => t = mycpu.proc
  BY <1>1, CurrentIs
<1>14. CpuTypes' /\ ThreadTypes' /\ OtherTypes'
  BY <1>4, <1>8, Labels DEF CpuTypes, OtherTypes
<1>15. Registers'
  BY <1>4 DEF Kernel, At, L, Registers, ToUser
<1>16. Locks'
  BY <1>4 DEF Kernel, At, L, Locks, LockedLabels
<1>17. Threads'
  <2>1. mycpu' = mycpu /\ L = "kernelvec" /\ L' = "devintr"
    BY <1>4, AtLabel DEF L, At, CpuTypes
  <2>2. CASE mycpu.proc = "none"
    <3>1. \A q \in Proc : SavedOK(q)'
      BY <1>1, <1>4, <1>8, <2>1, <2>2, Names DEF Threads, Current
    <3> QED
      BY <2>1, <2>2, <3>1, Names DEF Threads, TrapLabels, ToUser
  <2>3. CASE mycpu.proc \in Proc
    <3>1. th["scheduler"].context = "switched" /\ th[t].state = "RUNNING"
          /\ t = mycpu.proc /\ \A q \in Proc : q # t => SavedOK(q)
      BY <1>13, <2>1, <2>3, Running
    <3> QED
      BY <1>6, <1>8, <2>1, <2>3, <3>1, ThreadsRun, Names
  <2> QED
    BY <2>2, <2>3 DEF OtherTypes
<1>18. Handler'
  BY <1>1, <1>4, <1>11 DEF Kernel, At, L, Handler, Current
<1>19. Process'
  BY <1>1, <1>4, <1>12 DEF Kernel, At, L, Process, ToUser
<1> QED
  BY <1>14, <1>15, <1>16, <1>17, <1>18, <1>19 DEF CpuInvariant

(* ... and kerneltrap() puts it back. *)
LEMMA kerneltrapReturnKeeps ==
  ASSUME CpuInvariant, kerneltrapReturn
  PROVE  CpuInvariant'
<1> USE DEF CpuInvariant
<1>1. PICK t \in Proc \cup {"scheduler"} : t = Current
  BY CurrentIs
<1>2. FrameOK(t) /\ th[t] \in Thread
  BY <1>1 DEF kerneltrapReturn, Kernel, At, L, Handler, ThreadTypes
<1>3. th[t].frame.spp = TRUE /\ th[t].frame.sie = FALSE /\ th[t].frame.sepc \in Pcs
  BY <1>2 DEF FrameOK, Thread
<1>4. /\ Kernel("kerneltrap")
      /\ cpu' = [cpu EXCEPT !.pc = At("sret"), !.sepc = th[t].frame.sepc, !.spp = TRUE,
                        !.sie = FALSE]
      /\ th' = [th EXCEPT ![t].frame = NoTrap]
      /\ UNCHANGED <<mycpu, line, user, asked, halted>>
  BY <1>1, <1>3 DEF kerneltrapReturn, Goto
<1> DEFINE r == [th[t] EXCEPT !.frame = NoTrap]
<1>5. /\ r \in Thread
      /\ r.state = th[t].state /\ r.tf = th[t].tf
  BY <1>2, Values DEF Thread
<1>6. th' = [th EXCEPT ![t] = r]
  BY <1>4
<1> HIDE DEF r
<1>7. /\ ThreadTypes' /\ th'[t] = r
      /\ \A q \in Proc \cup {"scheduler"} : q # t => th'[q] = th[q]
      /\ \A q \in Proc : q # t => (SavedOK(q) => SavedOK(q)')
  BY <1>5, <1>6, <1>4, OneThread
<1>8. Resumes(t, th[t].frame.sepc) /\ cpu'.sepc = th[t].frame.sepc
  BY <1>2, <1>4 DEF FrameOK, CpuTypes
<1>9. Resumes(t, cpu.sepc)'
  BY <1>4, <1>8 DEF Resumes, OfAsked, Resumable
<1>10. \A p \in Proc : TfOK(p) => TfOK(p)'
  BY <1>4, <1>5, <1>7, TfKept
<1>11. mycpu.proc \in Proc => t = mycpu.proc
  BY <1>1, CurrentIs
<1>12. CpuTypes' /\ ThreadTypes' /\ OtherTypes'
  BY <1>3, <1>4, <1>7, Labels DEF CpuTypes, OtherTypes
<1>13. Registers'
  BY <1>4 DEF Kernel, At, L, Registers, ToUser
<1>14. Locks'
  BY <1>4 DEF Kernel, At, L, Locks, LockedLabels
<1>15. Threads'
  BY <1>1, <1>4, <1>5, <1>7, <1>11, Names DEF Kernel, At, L, Threads, TrapLabels, ToUser,
  Current
<1>16. Handler'
  BY <1>1, <1>4, <1>9 DEF Kernel, At, L, Handler, Current
<1>17. Process'
  BY <1>1, <1>4, <1>10 DEF Kernel, At, L, Process, ToUser
<1> QED
  BY <1>12, <1>13, <1>14, <1>15, <1>16, <1>17 DEF CpuInvariant

(* devintr() finds the cause, and wakes the sleepers at a tick. *)
LEMMA devintrKeeps ==
  ASSUME CpuInvariant, devintr
  PROVE  CpuInvariant'
<1> USE DEF CpuInvariant
<1>1. CASE cpu.scause = "external"
  <2>1. PICK t \in Proc \cup {"scheduler"} : t = Current
    BY CurrentIs
  <2>2. PICK l \in {"kerneltrap", "usertrapret"} : l = th[t].back
    BY <2>1 DEF ThreadTypes, Thread
  <2>3. /\ Kernel("devintr")
        /\ cpu' = [cpu EXCEPT !.pc = At(l), !.scause = "none"]
        /\ UNCHANGED <<mycpu, th, user, asked, halted>>
        /\ line' = FALSE
    BY <1>1, <2>1, <2>2 DEF devintr, Served, Goto
  <2>4. \A s : Undisturbed(s)
    BY <2>3, QuietKernel
  <2>5. BackOK(t)
    BY <2>1, <2>3 DEF Kernel, At, L, Handler
  <2>6. t \in Proc => t = mycpu.proc
    BY <2>1, CurrentIs
  <2>7. CpuTypes' /\ ThreadTypes' /\ OtherTypes'
    BY <1>1, <2>1, <2>2, <2>3, <2>4, <2>5, <2>6, Labels, Values DEF CpuTypes, ThreadTypes,
    OtherTypes
  <2>8. Registers'
    BY <1>1, <2>1, <2>2, <2>3, <2>4, <2>5, <2>6 DEF Kernel, At, L, Registers, ToUser
  <2>9. Locks'
    BY <1>1, <2>1, <2>2, <2>3, <2>4, <2>5, <2>6 DEF Kernel, At, L, Locks, LockedLabels, Registers
  <2>10. Threads'
    BY <1>1, <2>1, <2>2, <2>3, <2>4, <2>5, <2>6 DEF Kernel, At, L, Threads, TrapLabels, ToUser,
    Undisturbed, BackOK, Current
  <2>11. Handler'
    BY <1>1, <2>1, <2>2, <2>3, <2>4, <2>5, <2>6 DEF Kernel, At, L, Handler, BackOK, Undisturbed,
    Current
  <2>12. Process'
    BY <1>1, <2>1, <2>2, <2>3, <2>4, <2>5, <2>6 DEF Kernel, At, L, Process, ToUser, OfAsked,
    BackOK, Undisturbed, Current
  <2> QED
    BY <2>7, <2>8, <2>9, <2>10, <2>11, <2>12 DEF CpuInvariant
<1>2. CASE cpu.scause = "software"
  <2>1. /\ Kernel("devintr")
        /\ cpu' = [cpu EXCEPT !.pc = At("w_sip"), !.scause = "none"]
        /\ th' = [p \in Proc \cup {"scheduler"} |-> [th[p] EXCEPT !.state = Awake(p)]]
        /\ UNCHANGED <<mycpu, line, user, asked, halted>>
    BY <1>2 DEF devintr, Served, Goto, ThreadTypes
  <2>2. \A t \in Proc \cup {"scheduler"} :
        Awake(t) \in States /\ [th[t] EXCEPT !.state = Awake(t)] \in Thread
    BY DEF ThreadTypes, Thread, States, Awake
  <2>3. ThreadTypes'
    BY <2>1, <2>2 DEF ThreadTypes
  <2>4. \A t \in Proc \cup {"scheduler"} :
        /\ th'[t].state = Awake(t) /\ th'[t].context = th[t].context
        /\ th'[t].intena = th[t].intena /\ th'[t].back = th[t].back
        /\ th'[t].tf = th[t].tf /\ th'[t].frame = th[t].frame
    BY <2>1 DEF ThreadTypes, Thread
  <2>5. \A t \in Proc : TfOK(t) => TfOK(t)'
    BY <2>1, <2>4, TfKept
  <2>6. \A t \in Proc \cup {"scheduler"} : BackOK(t) => BackOK(t)'
    BY <2>1, <2>4, BackKept
  <2>7. \A t \in Proc : SavedOK(t) => SavedOK(t)'
    BY <2>1, <2>4, <2>5, <2>6, ZenonT(60) DEF SavedOK, Awake
  <2>8. \A t \in Proc : th[t].state = "RUNNING" => th'[t].state = "RUNNING"
    BY <2>4 DEF Awake
  <2>9. CpuTypes' /\ ThreadTypes' /\ OtherTypes'
    BY <2>1, <2>3, Labels DEF CpuTypes, OtherTypes
  <2>10. Registers'
    BY <2>1 DEF Kernel, At, L, Registers, ToUser
  <2>11. Locks'
    BY <2>1 DEF Kernel, At, L, Locks, LockedLabels
  <2>12. Threads'
    <3>1. mycpu' = mycpu /\ L = "devintr" /\ L' = "w_sip"
      BY <2>1, AtLabel DEF L, At, CpuTypes
    <3>2. th'["scheduler"].context = th["scheduler"].context
      BY <2>4
    <3> QED
      BY <2>7, <2>8, <3>1, <3>2 DEF Threads, TrapLabels, ToUser
  <2>13. Handler'
    BY <2>1, <2>6 DEF Kernel, At, L, Handler, Current
  <2>14. Process'
    BY <2>1, <2>5 DEF Kernel, At, L, Process, ToUser
  <2> QED
    BY <2>9, <2>10, <2>11, <2>12, <2>13, <2>14 DEF CpuInvariant
<1> QED
  <2>1. cpu.scause \in {"software", "external"}
    <3>1. Kernel("devintr")
      BY DEF devintr
    <3> QED
      BY <3>1, AtLabel DEF Registers
  <2> QED
    BY <1>1, <1>2, <2>1

(* The software interrupt is cleared, and a running process yields. *)
LEMMA w_sipKeeps ==
  ASSUME CpuInvariant, w_sip
  PROVE  CpuInvariant'
<1> USE DEF CpuInvariant
<1>1. CASE mycpu.proc # "none" /\ th[Current].state = "RUNNING"
  <2>1. /\ Kernel("w_sip") /\ mycpu.proc # "none" /\ th[Current].state = "RUNNING"
        /\ cpu' = [cpu EXCEPT !.pc = At("yield"), !.ssip = FALSE]
        /\ UNCHANGED <<mycpu, th, line, user, asked, halted>>
    BY <1>1 DEF w_sip, Goto
  <2>2. \A t : Undisturbed(t)
    BY <2>1, QuietKernel
  <2>3. CpuTypes' /\ ThreadTypes' /\ OtherTypes'
    BY <1>1, <2>1, <2>2, Labels, Values DEF CpuTypes, ThreadTypes, OtherTypes
  <2>4. Registers'
    BY <1>1, <2>1, <2>2 DEF Kernel, At, L, Registers, ToUser
  <2>5. Locks'
    BY <1>1, <2>1, <2>2 DEF Kernel, At, L, Locks, LockedLabels, Registers
  <2>6. Threads'
    BY <1>1, <2>1, <2>2 DEF Kernel, At, L, Threads, TrapLabels, Undisturbed
  <2>7. Handler'
    BY <1>1, <2>1, <2>2 DEF Kernel, At, L, Handler, Undisturbed, Current
  <2>8. Process'
    BY <1>1, <2>1, <2>2 DEF Kernel, At, L, Process, ToUser, OfAsked, Undisturbed
  <2> QED
    BY <2>3, <2>4, <2>5, <2>6, <2>7, <2>8 DEF CpuInvariant
<1>2. CASE ~(mycpu.proc # "none" /\ th[Current].state = "RUNNING")
  <2>1. PICK t \in Proc \cup {"scheduler"} : t = Current
    BY CurrentIs
  <2>2. PICK l \in {"kerneltrap", "usertrapret"} : l = th[t].back
    BY <2>1 DEF ThreadTypes, Thread
  <2>3. /\ Kernel("w_sip")
        /\ cpu' = [cpu EXCEPT !.pc = At(l), !.ssip = FALSE]
        /\ UNCHANGED <<mycpu, th, line, user, asked, halted>>
    BY <1>2, <2>1, <2>2 DEF w_sip, Goto
  <2>4. \A s : Undisturbed(s)
    BY <2>3, QuietKernel
  <2>5. BackOK(t)
    BY <2>1, <2>3 DEF Kernel, At, L, Handler
  <2>6. t \in Proc => t = mycpu.proc
    BY <2>1, CurrentIs
  <2>7. CpuTypes' /\ ThreadTypes' /\ OtherTypes'
    BY <1>2, <2>1, <2>2, <2>3, <2>4, <2>5, <2>6, Labels, Values DEF CpuTypes, ThreadTypes,
    OtherTypes
  <2>8. Registers'
    BY <1>2, <2>1, <2>2, <2>3, <2>4, <2>5, <2>6 DEF Kernel, At, L, Registers, ToUser
  <2>9. Locks'
    BY <1>2, <2>1, <2>2, <2>3, <2>4, <2>5, <2>6 DEF Kernel, At, L, Locks, LockedLabels, Registers
  <2>10. Threads'
    BY <1>2, <2>1, <2>2, <2>3, <2>4, <2>5, <2>6 DEF Kernel, At, L, Threads, TrapLabels, ToUser,
    Undisturbed, BackOK, Current
  <2>11. Handler'
    BY <1>2, <2>1, <2>2, <2>3, <2>4, <2>5, <2>6 DEF Kernel, At, L, Handler, BackOK, Undisturbed,
    Current
  <2>12. Process'
    BY <1>2, <2>1, <2>2, <2>3, <2>4, <2>5, <2>6 DEF Kernel, At, L, Process, ToUser, OfAsked,
    BackOK, Undisturbed, Current
  <2> QED
    BY <2>7, <2>8, <2>9, <2>10, <2>11, <2>12 DEF CpuInvariant
<1> QED
  BY <1>1, <1>2

(***************************************************************************)
(* System calls, and the context switch.                                   *)
(***************************************************************************)
(* syscall() serves the call that was issued. *)
LEMMA syscallKeeps ==
  ASSUME CpuInvariant, syscall
  PROVE  CpuInvariant'
<1> USE DEF CpuInvariant
<1>1. Kernel("syscall")
  BY DEF syscall
<1>2. PICK p \in Proc : p = mycpu.proc
  BY <1>1, AtLabel, ProcessRuns DEF TrapLabels
<1>3. p \in asked
  BY <1>1, <1>2, AtLabel DEF Process, OfAsked
<1>4. /\ Kernel("syscall") /\ p \in asked
      /\ cpu' = [cpu EXCEPT !.pc = At("sys")]
      /\ asked' = asked \ {p}
      /\ UNCHANGED <<mycpu, th, line, user, halted>>
  BY <1>1, <1>2, <1>3 DEF syscall, Goto
<1>5. \A q \in Proc : q # p => (SavedOK(q) => SavedOK(q)')
  BY <1>4, SavedKept
<1>6. TfOK(p) => TfOK(p)'
  BY <1>4, TfKept
<1>7. CpuTypes' /\ ThreadTypes' /\ OtherTypes'
  BY <1>2, <1>4, <1>5, <1>6, Labels, Values DEF CpuTypes, ThreadTypes, OtherTypes
<1>8. Registers'
  BY <1>2, <1>4, <1>5, <1>6 DEF Kernel, At, L, Registers, ToUser
<1>9. Locks'
  BY <1>2, <1>4, <1>5, <1>6 DEF Kernel, At, L, Locks, LockedLabels, Registers
<1>10. Threads'
  BY <1>2, <1>4, <1>5, <1>6 DEF Kernel, At, L, Threads, TrapLabels
<1>11. Handler'
  BY <1>2, <1>4, <1>5, <1>6 DEF Kernel, At, L, Handler
<1>12. Process'
  BY <1>2, <1>4, <1>5, <1>6 DEF Kernel, At, L, Process, ToUser, OfAsked
<1> QED
  BY <1>7, <1>8, <1>9, <1>10, <1>11, <1>12 DEF CpuInvariant

(* A system call returns. *)
LEMMA sys_returnKeeps ==
  ASSUME CpuInvariant, sys_return
  PROVE  CpuInvariant'
<1> USE DEF CpuInvariant
<1>1. /\ Kernel("sys")
      /\ cpu' = [cpu EXCEPT !.pc = At("usertrapret")]
      /\ UNCHANGED <<mycpu, th, line, user, asked, halted>>
  BY DEF sys_return, Goto
<1>2. \A t : Undisturbed(t)
  BY <1>1, QuietKernel
<1>3. CpuTypes' /\ ThreadTypes' /\ OtherTypes'
  BY <1>1, <1>2, Labels, Values DEF CpuTypes, ThreadTypes, OtherTypes
<1>4. Registers'
  BY <1>1, <1>2 DEF Kernel, At, L, Registers, ToUser
<1>5. Locks'
  BY <1>1, <1>2 DEF Kernel, At, L, Locks, LockedLabels, Registers
<1>6. Threads'
  BY <1>1, <1>2 DEF Kernel, At, L, Threads, TrapLabels, Undisturbed
<1>7. Handler'
  BY <1>1, <1>2 DEF Kernel, At, L, Handler, Undisturbed
<1>8. Process'
  BY <1>1, <1>2 DEF Kernel, At, L, Process, ToUser, OfAsked, Undisturbed
<1> QED
  BY <1>3, <1>4, <1>5, <1>6, <1>7, <1>8 DEF CpuInvariant

(* A system call acquires a spin lock. *)
LEMMA sys_acquireKeeps ==
  ASSUME CpuInvariant, sys_acquire
  PROVE  CpuInvariant'
<1> USE DEF CpuInvariant
<1>1. (Kernel("sys") \/ (Kernel("locked") /\ mycpu.noff < MaxLocks)) /\ PushOff("locked")
     /\ UNCHANGED <<th, line, user, asked, halted>>
  BY DEF sys_acquire
<1>2. PICK i \in BOOLEAN :
      /\ mycpu.noff + 1 \in Nat
      /\ mycpu' = [mycpu EXCEPT !.noff = mycpu.noff + 1, !.intena = i]
      /\ cpu' = [cpu EXCEPT !.pc = At("locked"), !.sie = FALSE]
  BY <1>1, PushOffFacts
<1>3. \A t : Undisturbed(t)
  BY <1>1, QuietKernel
<1>4. CpuTypes' /\ ThreadTypes' /\ OtherTypes'
  BY <1>1, <1>2, <1>3, Labels, Values DEF CpuTypes, ThreadTypes, OtherTypes
<1>5. Registers'
  BY <1>1, <1>2, <1>3 DEF Kernel, At, L, Registers, ToUser
<1>6. Locks'
  BY <1>1, <1>2, <1>3, CpuAssumption DEF Kernel, At, L, Locks, LockedLabels, OtherTypes
<1>7. Threads'
  BY <1>1, <1>2, <1>3 DEF Kernel, At, L, Threads, TrapLabels, Undisturbed
<1>8. Handler'
  BY <1>1, <1>2, <1>3 DEF Kernel, At, L, Handler, Undisturbed
<1>9. Process'
  BY <1>1, <1>2, <1>3 DEF Kernel, At, L, Process, ToUser, OfAsked, Undisturbed
<1> QED
  BY <1>4, <1>5, <1>6, <1>7, <1>8, <1>9 DEF CpuInvariant

(* ... and releases one. *)
LEMMA sys_releaseKeeps ==
  ASSUME CpuInvariant, sys_release
  PROVE  CpuInvariant'
<1> USE DEF CpuInvariant
<1>1. CASE mycpu.noff > 1
  <2>1. Kernel("locked") /\ ~PopPanics
    BY <1>1, NoPopPanic DEF sys_release, Kernel, At, L, LockedLabels
  <2>2. PopOff("locked", mycpu.proc) /\ UNCHANGED <<th, line, user, asked, halted>>
    BY <1>1, <2>1 DEF sys_release, Release
  <2>3. PICK s \in BOOLEAN :
        /\ mycpu.noff >= 1 /\ mycpu.noff - 1 \in Nat
        /\ mycpu' = [mycpu EXCEPT !.noff = mycpu.noff - 1, !.proc = mycpu.proc]
        /\ cpu' = [cpu EXCEPT !.pc = At("locked"), !.sie = s]
        /\ s => mycpu.noff = 1 /\ mycpu.intena
    BY <2>1, <2>2, PopOffFacts
  <2>4. \A t : Undisturbed(t)
    BY <2>2, QuietKernel
  <2>5. CpuTypes' /\ ThreadTypes' /\ OtherTypes'
    BY <1>1, <2>1, <2>2, <2>3, <2>4, Labels, Values DEF CpuTypes, ThreadTypes, OtherTypes
  <2>6. Registers'
    BY <1>1, <2>1, <2>2, <2>3, <2>4 DEF Kernel, At, L, Registers, ToUser
  <2>7. Locks'
    <3>1. L = "locked" /\ L' = "locked"
      BY <2>1, <2>3, AtLabel DEF L, At, CpuTypes
    <3>2. mycpu.noff \in 1 .. MaxLocks
      BY <3>1 DEF Locks
    <3>3. mycpu'.noff = mycpu.noff - 1
      BY <2>3 DEF OtherTypes
    <3> QED
      BY <1>1, <3>1, <3>2, <3>3, CpuAssumption DEF Locks, LockedLabels
  <2>8. Threads'
    BY <1>1, <2>1, <2>2, <2>3, <2>4 DEF Kernel, At, L, Threads, TrapLabels, Undisturbed
  <2>9. Handler'
    BY <1>1, <2>1, <2>2, <2>3, <2>4 DEF Kernel, At, L, Handler, Undisturbed
  <2>10. Process'
    BY <1>1, <2>1, <2>2, <2>3, <2>4 DEF Kernel, At, L, Process, ToUser, OfAsked, Undisturbed
  <2> QED
    BY <2>5, <2>6, <2>7, <2>8, <2>9, <2>10 DEF CpuInvariant
<1>2. CASE ~(mycpu.noff > 1)
  <2>1. Kernel("locked") /\ ~PopPanics
    BY <1>2, NoPopPanic DEF sys_release, Kernel, At, L, LockedLabels
  <2>2. PopOff("sys", mycpu.proc) /\ UNCHANGED <<th, line, user, asked, halted>>
    BY <1>2, <2>1 DEF sys_release, Release
  <2>3. PICK s \in BOOLEAN :
        /\ mycpu.noff >= 1 /\ mycpu.noff - 1 \in Nat
        /\ mycpu' = [mycpu EXCEPT !.noff = mycpu.noff - 1, !.proc = mycpu.proc]
        /\ cpu' = [cpu EXCEPT !.pc = At("sys"), !.sie = s]
        /\ s => mycpu.noff = 1 /\ mycpu.intena
    BY <2>1, <2>2, PopOffFacts
  <2>4. \A t : Undisturbed(t)
    BY <2>2, QuietKernel
  <2>5. CpuTypes' /\ ThreadTypes' /\ OtherTypes'
    BY <1>2, <2>1, <2>2, <2>3, <2>4, Labels, Values DEF CpuTypes, ThreadTypes, OtherTypes
  <2>6. Registers'
    BY <1>2, <2>1, <2>2, <2>3, <2>4 DEF Kernel, At, L, Registers, ToUser
  <2>7. Locks'
    BY <1>2, <2>1, <2>2, <2>3, <2>4 DEF Kernel, At, L, Locks, LockedLabels, Registers, OtherTypes
  <2>8. Threads'
    BY <1>2, <2>1, <2>2, <2>3, <2>4 DEF Kernel, At, L, Threads, TrapLabels, Undisturbed
  <2>9. Handler'
    BY <1>2, <2>1, <2>2, <2>3, <2>4 DEF Kernel, At, L, Handler, Undisturbed
  <2>10. Process'
    BY <1>2, <2>1, <2>2, <2>3, <2>4 DEF Kernel, At, L, Process, ToUser, OfAsked, Undisturbed
  <2> QED
    BY <2>5, <2>6, <2>7, <2>8, <2>9, <2>10 DEF CpuInvariant
<1> QED
  BY <1>1, <1>2

(* sleep() gives the processor up. *)
LEMMA sys_sleepKeeps ==
  ASSUME CpuInvariant, sys_sleep
  PROVE  CpuInvariant'
<1> USE DEF CpuInvariant
<1>1. Kernel("locked")
  BY DEF sys_sleep
<1>2. PICK p \in Proc : p = mycpu.proc
  BY <1>1, AtLabel, ProcessRuns DEF TrapLabels
<1>3. PICK i \in BOOLEAN : i = mycpu.intena
  BY DEF OtherTypes
<1>4. ~cpu.sie
  BY <1>1, AtLabel DEF Registers
<1>5. /\ Kernel("locked") /\ mycpu.noff = 1
      /\ cpu' = [cpu EXCEPT !.pc = At("switched"), !.sie = FALSE]
      /\ th' = [th EXCEPT ![p].state = "SLEEPING", ![p].context = "slept", ![p].intena = i]
      /\ UNCHANGED <<mycpu, line, user, asked, halted>>
  BY <1>1, <1>2, <1>3, <1>4, Running DEF sys_sleep, Sched, Goto
<1>6. th[p] \in Thread
  BY <1>2 DEF ThreadTypes
<1> DEFINE r == [th[p] EXCEPT !.state = "SLEEPING", !.context = "slept", !.intena = i]
<1>7. /\ r \in Thread
      /\ r.state = "SLEEPING" /\ r.context = "slept" /\ r.tf = th[p].tf
  BY <1>6 DEF Thread, States, Contexts
<1>8. th' = [th EXCEPT ![p] = r]
  BY <1>5
<1> HIDE DEF r
<1>9. /\ ThreadTypes' /\ th'[p] = r
      /\ \A q \in Proc \cup {"scheduler"} : q # p => th'[q] = th[q]
      /\ \A q \in Proc : q # p => (SavedOK(q) => SavedOK(q)')
  BY <1>7, <1>8, <1>5, OneThread
<1>10. TfOK(p)'
  <2>1. TfOK(p)
    BY <1>1, <1>2, AtLabel, SavedFrame DEF ToUser
  <2> QED
    BY <1>5, <1>7, <1>9, <2>1, TfKept
<1>11. p \notin asked
  BY <1>2, <1>5 DEF Kernel, At, L, Process, OfAsked
<1>12. SavedOK(p)'
  BY <1>5, <1>7, <1>9, <1>10, <1>11 DEF SavedOK
<1>13. CpuTypes' /\ ThreadTypes' /\ OtherTypes'
  BY <1>5, <1>9, Labels DEF CpuTypes, OtherTypes
<1>14. Registers'
  BY <1>2, <1>5, Names DEF Kernel, At, L, Registers, ToUser
<1>15. Locks'
  BY <1>5 DEF Kernel, At, L, Locks, LockedLabels
<1>16. Threads'
  <2>1. mycpu'.proc = p /\ L' = "switched"
    BY <1>2, <1>5 DEF L, At, CpuTypes, OtherTypes
  <2>2. th["scheduler"].context = "switched" /\ \A q \in Proc : q # p => SavedOK(q)
    BY <1>2, Running
  <2> QED
    BY <1>9, <1>12, <2>1, <2>2, ThreadsSwitched, Names
<1>17. Handler'
  BY <1>5 DEF Kernel, At, L, Handler
<1>18. Process'
  BY <1>2, <1>5, <1>10 DEF Kernel, At, L, Process, ToUser
<1> QED
  BY <1>13, <1>14, <1>15, <1>16, <1>17, <1>18 DEF CpuInvariant

(* yield() gives the processor up. *)
LEMMA yieldKeeps ==
  ASSUME CpuInvariant, yield
  PROVE  CpuInvariant'
<1> USE DEF CpuInvariant
<1>1. Kernel("yield")
  BY DEF yield
<1>2. PICK p \in Proc : p = mycpu.proc
  BY <1>1, AtLabel, ProcessRuns DEF TrapLabels
<1>3. cpu.sie = FALSE /\ mycpu.noff = 0
  BY <1>1, AtLabel DEF Registers, Locks, LockedLabels, CpuTypes
<1>4. /\ Kernel("yield")
      /\ cpu' = [cpu EXCEPT !.pc = At("switched"), !.sie = FALSE]
      /\ mycpu' = [mycpu EXCEPT !.noff = 1, !.intena = FALSE]
      /\ th' = [th EXCEPT ![p].state = "RUNNABLE", ![p].context = "yielded", ![p].intena = FALSE]
      /\ UNCHANGED <<line, user, asked, halted>>
  BY <1>1, <1>2, <1>3, Running DEF yield, Sched, Goto
<1>5. th[p] \in Thread
  BY <1>2 DEF ThreadTypes
<1> DEFINE r == [th[p] EXCEPT !.state = "RUNNABLE", !.context = "yielded", !.intena = FALSE]
<1>6. /\ r \in Thread
      /\ r.state = "RUNNABLE" /\ r.context = "yielded" /\ ~r.intena
      /\ r.tf = th[p].tf /\ r.back = th[p].back /\ r.frame = th[p].frame
  BY <1>5 DEF Thread, States, Contexts
<1>7. th' = [th EXCEPT ![p] = r]
  BY <1>4
<1> HIDE DEF r
<1>8. /\ ThreadTypes' /\ th'[p] = r
      /\ \A q \in Proc \cup {"scheduler"} : q # p => th'[q] = th[q]
      /\ \A q \in Proc : q # p => (SavedOK(q) => SavedOK(q)')
  BY <1>6, <1>7, <1>4, OneThread
<1>9. TfOK(p)'
  <2>1. TfOK(p)
    BY <1>1, <1>2, AtLabel, SavedFrame DEF ToUser
  <2> QED
    BY <1>4, <1>6, <1>8, <2>1, TfKept
<1>10. BackOK(p)'
  <2>1. BackOK(p)
    BY <1>1, <1>2, AtLabel, WayBack, CurrentIs
  <2> QED
    BY <1>4, <1>6, <1>8, <2>1, BackKept
<1>11. SavedOK(p)'
  BY <1>6, <1>8, <1>9, <1>10 DEF SavedOK
<1>12. CpuTypes' /\ ThreadTypes' /\ OtherTypes'
  BY <1>4, <1>8, Labels DEF CpuTypes, OtherTypes
<1>13. Registers'
  BY <1>2, <1>4, Names DEF Kernel, At, L, Registers, ToUser
<1>14. Locks'
  BY <1>4 DEF Kernel, At, L, Locks, LockedLabels
<1>15. Threads'
  <2>1. mycpu'.proc = p /\ L' = "switched"
    BY <1>2, <1>4 DEF L, At, CpuTypes, OtherTypes
  <2>2. th["scheduler"].context = "switched" /\ \A q \in Proc : q # p => SavedOK(q)
    BY <1>2, Running
  <2> QED
    BY <1>8, <1>11, <2>1, <2>2, ThreadsSwitched, Names
<1>16. Handler'
  BY <1>4 DEF Kernel, At, L, Handler
<1>17. Process'
  BY <1>2, <1>4, <1>9 DEF Kernel, At, L, Process, ToUser
<1> QED
  BY <1>12, <1>13, <1>14, <1>15, <1>16, <1>17 DEF CpuInvariant

(* sched() returns: intena is what it was. *)
LEMMA schedReturnKeeps ==
  ASSUME CpuInvariant, schedReturn
  PROVE  CpuInvariant'
<1> USE DEF CpuInvariant
<1>1. CASE Kernel("yielded")
  <2>1. PICK p \in Proc : p = mycpu.proc
    BY <1>1 DEF Kernel, At, L, OtherTypes, Threads, TrapLabels
  <2>2. th[p] \in Thread /\ th[p].intena \in BOOLEAN /\ th[p].intena = FALSE
    BY <1>1, <2>1 DEF Kernel, At, L, ThreadTypes, Thread, Threads
  <2>3. PICK i \in BOOLEAN :
        /\ i = FALSE
        /\ mycpu' = [mycpu EXCEPT !.intena = i]
        /\ cpu' = [cpu EXCEPT !.pc = At("unlock")]
        /\ th' = [th EXCEPT ![p].intena = FALSE, ![p].context = "none"]
        /\ UNCHANGED <<line, user, asked, halted>>
    BY <1>1, <2>1, <2>2 DEF schedReturn, Kernel, At, Goto
  <2> DEFINE r == [th[p] EXCEPT !.intena = FALSE, !.context = "none"]
  <2>4. /\ r \in Thread
        /\ r.state = th[p].state
        /\ r.tf = th[p].tf /\ r.back = th[p].back /\ r.frame = th[p].frame
    BY <2>2 DEF Thread, Contexts
  <2>5. th' = [th EXCEPT ![p] = r]
    BY <2>3
  <2> HIDE DEF r
  <2>6. /\ ThreadTypes' /\ th'[p] = r
        /\ \A q \in Proc \cup {"scheduler"} : q # p => th'[q] = th[q]
        /\ \A q \in Proc : q # p => (SavedOK(q) => SavedOK(q)')
    BY <2>4, <2>5, <2>3, OneThread
  <2>7. TfOK(p)'
    <3>1. TfOK(p)
      BY <1>1, <2>1, AtLabel, SavedFrame DEF ToUser
    <3> QED
      BY <2>3, <2>4, <2>6, <3>1, TfKept
  <2>8. BackOK(p)'
    <3>1. BackOK(p)
      BY <1>1, <2>1, AtLabel, WayBack, CurrentIs
    <3> QED
      BY <2>3, <2>4, <2>6, <3>1, BackKept
  <2>9. CpuTypes' /\ ThreadTypes' /\ OtherTypes'
    BY <2>1, <2>3, <2>6, Labels DEF CpuTypes, OtherTypes
  <2>10. Registers'
    BY <1>1, <2>1, <2>3, Names DEF Kernel, At, L, Registers, ToUser
  <2>11. Locks'
    BY <1>1, <2>3 DEF Kernel, At, L, Locks, LockedLabels
  <2>12. Threads'
    <3>1. mycpu'.proc = p /\ L' = "unlock"
      BY <2>1, <2>3 DEF L, At, CpuTypes, OtherTypes
    <3>2. th["scheduler"].context = "switched" /\ th[p].state = "RUNNING"
          /\ \A q \in Proc : q # p => SavedOK(q)
      BY <2>1, <1>1, AtLabel, Running
    <3> QED
      BY <2>4, <2>6, <3>1, <3>2, ThreadsRun, Names
  <2>13. Handler'
    BY <2>1, <2>3, <2>8, CurrentIs DEF Kernel, At, L, Handler, Current
  <2>14. Process'
    BY <1>1, <2>1, <2>3, <2>7 DEF Kernel, At, L, Process, ToUser, OfAsked
  <2> QED
    BY <2>9, <2>10, <2>11, <2>12, <2>13, <2>14 DEF CpuInvariant
<1>2. CASE Kernel("slept")
  <2>1. PICK p \in Proc : p = mycpu.proc
    BY <1>2 DEF Kernel, At, L, OtherTypes, Threads, TrapLabels
  <2>2. th[p] \in Thread /\ th[p].intena \in BOOLEAN
    BY <1>2, <2>1 DEF Kernel, At, L, ThreadTypes, Thread, Threads
  <2>3. PICK i \in BOOLEAN :
        /\ mycpu' = [mycpu EXCEPT !.intena = i]
        /\ cpu' = [cpu EXCEPT !.pc = At("relock")]
        /\ th' = [th EXCEPT ![p].intena = FALSE, ![p].context = "none"]
        /\ UNCHANGED <<line, user, asked, halted>>
    BY <1>2, <2>1, <2>2 DEF schedReturn, Kernel, At, Goto
  <2> DEFINE r == [th[p] EXCEPT !.intena = FALSE, !.context = "none"]
  <2>4. /\ r \in Thread
        /\ r.state = th[p].state
        /\ r.tf = th[p].tf /\ r.back = th[p].back /\ r.frame = th[p].frame
    BY <2>2 DEF Thread, Contexts
  <2>5. th' = [th EXCEPT ![p] = r]
    BY <2>3
  <2> HIDE DEF r
  <2>6. /\ ThreadTypes' /\ th'[p] = r
        /\ \A q \in Proc \cup {"scheduler"} : q # p => th'[q] = th[q]
        /\ \A q \in Proc : q # p => (SavedOK(q) => SavedOK(q)')
    BY <2>4, <2>5, <2>3, OneThread
  <2>7. TfOK(p)'
    <3>1. TfOK(p)
      BY <1>2, <2>1, AtLabel, SavedFrame DEF ToUser
    <3> QED
      BY <2>3, <2>4, <2>6, <3>1, TfKept
  <2>8. CpuTypes' /\ ThreadTypes' /\ OtherTypes'
    BY <2>1, <2>3, <2>6, Labels DEF CpuTypes, OtherTypes
  <2>9. Registers'
    BY <1>2, <2>1, <2>3, Names DEF Kernel, At, L, Registers, ToUser
  <2>10. Locks'
    BY <1>2, <2>3 DEF Kernel, At, L, Locks, LockedLabels
  <2>11. Threads'
    <3>1. mycpu'.proc = p /\ L' = "relock"
      BY <2>1, <2>3 DEF L, At, CpuTypes, OtherTypes
    <3>2. th["scheduler"].context = "switched" /\ th[p].state = "RUNNING"
          /\ \A q \in Proc : q # p => SavedOK(q)
      BY <2>1, <1>2, AtLabel, Running
    <3> QED
      BY <2>4, <2>6, <3>1, <3>2, ThreadsRun, Names
  <2>12. Handler'
    BY <2>3 DEF Kernel, At, L, Handler
  <2>13. Process'
    BY <1>2, <2>1, <2>3, <2>7 DEF Kernel, At, L, Process, ToUser, OfAsked
  <2> QED
    BY <2>8, <2>9, <2>10, <2>11, <2>12, <2>13 DEF CpuInvariant
<1> QED
  BY <1>1, <1>2 DEF schedReturn

(* yield() releases p->lock and the handler returns. *)
LEMMA unlockKeeps ==
  ASSUME CpuInvariant, unlock
  PROVE  CpuInvariant'
<1> USE DEF CpuInvariant
<1>1. PICK p \in Proc : p = mycpu.proc
  BY DEF unlock, Kernel, At, L, OtherTypes, Threads, TrapLabels, Registers, ToUser, CpuTypes
<1>2. PICK l \in {"kerneltrap", "usertrapret"} : l = th[p].back
  BY <1>1 DEF ThreadTypes, Thread
<1>3. Kernel("unlock") /\ ~PopPanics
  BY NoPopPanic DEF unlock, Kernel, At, L, LockedLabels
<1>4. PopOff(l, mycpu.proc) /\ UNCHANGED <<th, line, user, asked, halted>>
  BY <1>1, <1>2, <1>3 DEF unlock, Release
<1>5. PICK s \in BOOLEAN :
      /\ mycpu.noff >= 1 /\ mycpu.noff - 1 \in Nat
      /\ mycpu' = [mycpu EXCEPT !.noff = mycpu.noff - 1, !.proc = mycpu.proc]
      /\ cpu' = [cpu EXCEPT !.pc = At(l), !.sie = s]
      /\ s => mycpu.noff = 1 /\ mycpu.intena
  BY <1>3, <1>4, PopOffFacts
<1>6. s = FALSE
  BY <1>3, <1>5 DEF Kernel, At, L, Locks
<1>7. \A t : Undisturbed(t)
  BY <1>4, QuietKernel
<1>8. BackOK(p)
  BY <1>1, <1>3, CurrentIs DEF Kernel, At, L, Handler
<1>9. Current = p /\ Current' = p
  BY <1>1, <1>5, CurrentIs DEF Current, OtherTypes
<1>10. CpuTypes' /\ ThreadTypes' /\ OtherTypes'
  BY <1>1, <1>2, <1>3, <1>4, <1>5, <1>6, <1>7, <1>8, <1>9, Labels, Values DEF CpuTypes,
  ThreadTypes, OtherTypes
<1>11. Registers'
  BY <1>1, <1>2, <1>3, <1>4, <1>5, <1>6, <1>7, <1>8, <1>9 DEF Kernel, At, L, Registers, ToUser
<1>12. Locks'
  BY <1>1, <1>2, <1>3, <1>4, <1>5, <1>6, <1>7, <1>8, <1>9 DEF Kernel, At, L, Locks,
  LockedLabels, Registers
<1>13. Threads'
  BY <1>1, <1>2, <1>3, <1>4, <1>5, <1>6, <1>7, <1>8, <1>9 DEF Kernel, At, L, Threads,
  TrapLabels, Undisturbed
<1>14. Handler'
  BY <1>1, <1>2, <1>3, <1>4, <1>5, <1>6, <1>7, <1>8, <1>9 DEF Kernel, At, L, Handler, BackOK,
  Undisturbed
<1>15. Process'
  BY <1>1, <1>2, <1>3, <1>4, <1>5, <1>6, <1>7, <1>8, <1>9 DEF Kernel, At, L, Process, ToUser,
  OfAsked, BackOK, Undisturbed
<1> QED
  BY <1>10, <1>11, <1>12, <1>13, <1>14, <1>15 DEF CpuInvariant

(* sleep() releases p->lock and takes the other lock again. *)
LEMMA relockKeeps ==
  ASSUME CpuInvariant, relock
  PROVE  CpuInvariant'
<1> USE DEF CpuInvariant
<1>1. Kernel("relock") /\ ~PopPanics
  BY NoPopPanic DEF relock, Kernel, At, L, LockedLabels
<1>2. PopOff("sys", mycpu.proc) /\ UNCHANGED <<th, line, user, asked, halted>>
  BY <1>1 DEF relock, Release
<1>3. PICK s \in BOOLEAN :
      /\ mycpu.noff >= 1 /\ mycpu.noff - 1 \in Nat
      /\ mycpu' = [mycpu EXCEPT !.noff = mycpu.noff - 1, !.proc = mycpu.proc]
      /\ cpu' = [cpu EXCEPT !.pc = At("sys"), !.sie = s]
      /\ s => mycpu.noff = 1 /\ mycpu.intena
  BY <1>1, <1>2, PopOffFacts
<1>4. \A t : Undisturbed(t)
  BY <1>2, QuietKernel
<1>5. CpuTypes' /\ ThreadTypes' /\ OtherTypes'
  BY <1>1, <1>2, <1>3, <1>4, Labels, Values DEF CpuTypes, ThreadTypes, OtherTypes
<1>6. Registers'
  BY <1>1, <1>2, <1>3, <1>4 DEF Kernel, At, L, Registers, ToUser
<1>7. Locks'
  BY <1>1, <1>2, <1>3, <1>4 DEF Kernel, At, L, Locks, LockedLabels, Registers
<1>8. Threads'
  BY <1>1, <1>2, <1>3, <1>4 DEF Kernel, At, L, Threads, TrapLabels, Undisturbed
<1>9. Handler'
  BY <1>1, <1>2, <1>3, <1>4 DEF Kernel, At, L, Handler, Undisturbed
<1>10. Process'
  BY <1>1, <1>2, <1>3, <1>4 DEF Kernel, At, L, Process, ToUser, OfAsked, Undisturbed
<1> QED
  BY <1>5, <1>6, <1>7, <1>8, <1>9, <1>10 DEF CpuInvariant

(* A new process releases p->lock. *)
LEMMA forkretKeeps ==
  ASSUME CpuInvariant, forkret
  PROVE  CpuInvariant'
<1> USE DEF CpuInvariant
<1>1. Kernel("forkret") /\ ~PopPanics
  BY NoPopPanic DEF forkret, Kernel, At, L, LockedLabels
<1>2. PopOff("usertrapret", mycpu.proc) /\ UNCHANGED <<th, line, user, asked, halted>>
  BY <1>1 DEF forkret, Release
<1>3. PICK s \in BOOLEAN :
      /\ mycpu.noff >= 1 /\ mycpu.noff - 1 \in Nat
      /\ mycpu' = [mycpu EXCEPT !.noff = mycpu.noff - 1, !.proc = mycpu.proc]
      /\ cpu' = [cpu EXCEPT !.pc = At("usertrapret"), !.sie = s]
      /\ s => mycpu.noff = 1 /\ mycpu.intena
  BY <1>1, <1>2, PopOffFacts
<1>4. \A t : Undisturbed(t)
  BY <1>2, QuietKernel
<1>5. CpuTypes' /\ ThreadTypes' /\ OtherTypes'
  BY <1>1, <1>2, <1>3, <1>4, Labels, Values DEF CpuTypes, ThreadTypes, OtherTypes
<1>6. Registers'
  BY <1>1, <1>2, <1>3, <1>4 DEF Kernel, At, L, Registers, ToUser
<1>7. Locks'
  BY <1>1, <1>2, <1>3, <1>4 DEF Kernel, At, L, Locks, LockedLabels, Registers
<1>8. Threads'
  BY <1>1, <1>2, <1>3, <1>4 DEF Kernel, At, L, Threads, TrapLabels, Undisturbed
<1>9. Handler'
  BY <1>1, <1>2, <1>3, <1>4 DEF Kernel, At, L, Handler, Undisturbed
<1>10. Process'
  BY <1>1, <1>2, <1>3, <1>4 DEF Kernel, At, L, Process, ToUser, OfAsked, Undisturbed
<1> QED
  BY <1>5, <1>6, <1>7, <1>8, <1>9, <1>10 DEF CpuInvariant

(* The scheduler turns interrupts on ... *)
LEMMA schedulerOnKeeps ==
  ASSUME CpuInvariant, schedulerOn
  PROVE  CpuInvariant'
<1> USE DEF CpuInvariant
<1>1. /\ Kernel("scheduler")
      /\ cpu' = [cpu EXCEPT !.pc = At("scan"), !.sie = TRUE]
      /\ UNCHANGED <<mycpu, th, line, user, asked, halted>>
  BY DEF schedulerOn, Goto
<1>2. \A t : Undisturbed(t)
  BY <1>1, QuietKernel
<1>3. CpuTypes' /\ ThreadTypes' /\ OtherTypes'
  BY <1>1, <1>2, Labels, Values DEF CpuTypes, ThreadTypes, OtherTypes
<1>4. Registers'
  BY <1>1, <1>2 DEF Kernel, At, L, Registers, ToUser
<1>5. Locks'
  BY <1>1, <1>2 DEF Kernel, At, L, Locks, LockedLabels, Registers
<1>6. Threads'
  BY <1>1, <1>2 DEF Kernel, At, L, Threads, TrapLabels, Undisturbed, ToUser
<1>7. Handler'
  BY <1>1, <1>2 DEF Kernel, At, L, Handler, Undisturbed
<1>8. Process'
  BY <1>1, <1>2 DEF Kernel, At, L, Process, ToUser, OfAsked, Undisturbed
<1> QED
  BY <1>3, <1>4, <1>5, <1>6, <1>7, <1>8 DEF CpuInvariant

(* ... and looks at the table again. *)
LEMMA schedulerScanKeeps ==
  ASSUME CpuInvariant, schedulerScan
  PROVE  CpuInvariant'
<1> USE DEF CpuInvariant
<1>1. /\ Kernel("scan")
      /\ cpu' = [cpu EXCEPT !.pc = At("scheduler")]
      /\ UNCHANGED <<mycpu, th, line, user, asked, halted>>
  BY DEF schedulerScan, Goto
<1>2. \A t : Undisturbed(t)
  BY <1>1, QuietKernel
<1>3. CpuTypes' /\ ThreadTypes' /\ OtherTypes'
  BY <1>1, <1>2, Labels, Values DEF CpuTypes, ThreadTypes, OtherTypes
<1>4. Registers'
  BY <1>1, <1>2 DEF Kernel, At, L, Registers, ToUser
<1>5. Locks'
  BY <1>1, <1>2 DEF Kernel, At, L, Locks, LockedLabels, Registers
<1>6. Threads'
  BY <1>1, <1>2 DEF Kernel, At, L, Threads, TrapLabels, Undisturbed, ToUser
<1>7. Handler'
  BY <1>1, <1>2 DEF Kernel, At, L, Handler, Undisturbed
<1>8. Process'
  BY <1>1, <1>2 DEF Kernel, At, L, Process, ToUser, OfAsked, Undisturbed
<1> QED
  BY <1>3, <1>4, <1>5, <1>6, <1>7, <1>8 DEF CpuInvariant

(* The scheduler runs a process. *)
LEMMA schedulerRunKeeps ==
  ASSUME CpuInvariant, NEW p \in Proc, schedulerRun(p)
  PROVE  CpuInvariant'
<1> USE DEF CpuInvariant
<1>1. Kernel("scan") /\ mycpu.noff = 0 /\ mycpu.proc = "none"
  BY DEF schedulerRun, Kernel, At, L, Locks, LockedLabels, Threads, OtherTypes
<1>2. SavedOK(p) /\ p # "scheduler"
  BY <1>1, Names DEF Kernel, At, L, Threads
<1>3. PICK c \in {"forkret", "slept", "yielded"} : c = th[p].context
  BY <1>2 DEF SavedOK
<1>4. PICK i \in BOOLEAN : i = cpu.sie
  BY DEF CpuTypes
<1>5. /\ mycpu' = [noff |-> 1, proc |-> p, intena |-> i]
      /\ cpu' = [cpu EXCEPT !.pc = At(c), !.sie = FALSE]
      /\ th' = [th EXCEPT ![p].state = "RUNNING", !["scheduler"].context = "switched"]
      /\ UNCHANGED <<line, user, asked, halted>>
  BY <1>1, <1>3, <1>4 DEF schedulerRun, Goto
<1> DEFINE r == [th[p] EXCEPT !.state = "RUNNING"]
           s == [th["scheduler"] EXCEPT !.context = "switched"]
<1>6. th[p] \in Thread /\ th["scheduler"] \in Thread
  BY DEF ThreadTypes
<1>7. /\ r \in Thread /\ r.state = "RUNNING" /\ r.context = th[p].context
      /\ r.intena = th[p].intena /\ r.tf = th[p].tf
      /\ r.back = th[p].back /\ r.frame = th[p].frame
  BY <1>6 DEF Thread, States
<1>8. s \in Thread /\ s.context = "switched"
  BY <1>6 DEF Thread, Contexts
<1>9. th' = [th EXCEPT ![p] = r, !["scheduler"] = s]
  BY <1>2, <1>5
<1> HIDE DEF r, s
<1>10. /\ ThreadTypes' /\ th'[p] = r /\ th'["scheduler"] = s
       /\ \A q \in Proc : q # p => th'[q] = th[q]
  BY <1>2, <1>7, <1>8, <1>9, Names DEF ThreadTypes
<1>11. \A q \in Proc : q # p => (SavedOK(q) => SavedOK(q)')
  BY <1>5, <1>10, SavedKept
<1>12. TfOK(p)'
  BY <1>2, <1>5, <1>7, <1>10, TfKept DEF SavedOK
<1>13. BackOK(p) => BackOK(p)'
  BY <1>5, <1>7, <1>10, BackKept
<1>14. Current' = p
  BY <1>5, Names DEF Current
<1>15. CpuTypes' /\ ThreadTypes' /\ OtherTypes'
  BY <1>3, <1>5, <1>10, Labels DEF CpuTypes, OtherTypes
<1>16. Registers'
  BY <1>1, <1>3, <1>5 DEF Kernel, At, L, Registers, ToUser
<1>17. Locks'
  BY <1>1, <1>3, <1>5 DEF Kernel, At, L, Locks, LockedLabels
<1>18. Threads'
  <2>1. mycpu'.proc = p /\ L' = c
    BY <1>5 DEF L, At, CpuTypes
  <2>2. L = "scan" /\ \A q \in Proc : SavedOK(q)
    BY <1>1, AtLabel, Names DEF Threads
  <2>3. c = "yielded" => ~th'[p].intena
    BY <1>2, <1>3, <1>7, <1>10 DEF SavedOK
  <2> QED
    BY <1>3, <1>7, <1>8, <1>10, <1>11, <2>1, <2>2, <2>3, ThreadsRun
<1>19. Handler'
  BY <1>2, <1>3, <1>5, <1>13, <1>14 DEF Kernel, At, L, Handler, SavedOK, CpuTypes
<1>20. Process'
  BY <1>2, <1>3, <1>5, <1>12 DEF Kernel, At, L, Process, ToUser, OfAsked, SavedOK, CpuTypes
<1> QED
  BY <1>15, <1>16, <1>17, <1>18, <1>19, <1>20 DEF CpuInvariant

(* A process came back to the scheduler. *)
LEMMA schedulerBackKeeps ==
  ASSUME CpuInvariant, schedulerBack
  PROVE  CpuInvariant'
<1> USE DEF CpuInvariant
<1>1. Kernel("switched") /\ ~PopPanics
  BY NoPopPanic DEF schedulerBack, Kernel, At, L, LockedLabels
<1>2. PopOff("scan", "none") /\ UNCHANGED <<th, line, user, asked, halted>>
  BY <1>1 DEF schedulerBack
<1>3. PICK s \in BOOLEAN :
      /\ mycpu.noff >= 1 /\ mycpu.noff - 1 \in Nat
      /\ mycpu' = [mycpu EXCEPT !.noff = mycpu.noff - 1, !.proc = "none"]
      /\ cpu' = [cpu EXCEPT !.pc = At("scan"), !.sie = s]
      /\ s => mycpu.noff = 1 /\ mycpu.intena
  BY <1>1, <1>2, PopOffFacts
<1>4. \A t : Undisturbed(t)
  BY <1>2, QuietKernel
<1>5. CpuTypes' /\ ThreadTypes' /\ OtherTypes'
  BY <1>1, <1>2, <1>3, <1>4, Labels, Values DEF CpuTypes, ThreadTypes, OtherTypes
<1>6. Registers'
  BY <1>1, <1>2, <1>3, <1>4 DEF Kernel, At, L, Registers, ToUser
<1>7. Locks'
  BY <1>1, <1>2, <1>3, <1>4 DEF Kernel, At, L, Locks, LockedLabels, Registers
<1>8. Threads'
  <2>1. mycpu'.proc = "none" /\ L = "switched" /\ L' = "scan"
    BY <1>1, <1>3, AtLabel DEF L, At, CpuTypes, OtherTypes
  <2>2. \A q \in Proc : SavedOK(q)'
    BY <1>4, <2>1 DEF Threads, Undisturbed
  <2> QED
    BY <2>1, <2>2, Names DEF Threads, ToUser
<1>9. Handler'
  BY <1>1, <1>2, <1>3, <1>4 DEF Kernel, At, L, Handler, Undisturbed
<1>10. Process'
  BY <1>1, <1>2, <1>3, <1>4, Names DEF Kernel, At, L, Process
<1> QED
  BY <1>5, <1>6, <1>7, <1>8, <1>9, <1>10 DEF CpuInvariant

(***************************************************************************)
(* The theorems.                                                           *)
(***************************************************************************)

(* The invariant holds when main() calls scheduler(). *)
LEMMA CpuInitHolds == CpuInit => CpuInvariant
<1> SUFFICES ASSUME CpuInit PROVE CpuInvariant
  OBVIOUS
<1> USE CpuAssumption DEF CpuInit, At, UserAt, L
<1>1. CpuTypes
  BY Labels, Values DEF CpuTypes
<1>2. ThreadTypes
  BY Labels, Values DEF ThreadTypes, Thread, NewThread, States, Contexts
<1>3. OtherTypes
  <2>1. 0 \in 0 .. Loop - 1
    OBVIOUS
  <2> QED
    BY <2>1 DEF OtherTypes
<1>4. Registers
  BY DEF Registers, ToUser
<1>5. Locks
  BY DEF Locks, LockedLabels
<1>6. Threads
  BY Names DEF Threads, SavedOK, TfOK, ToUser, NewThread, NoFrame
<1>7. Handler
  BY DEF Handler
<1>8. Process
  BY Names DEF Process
<1> QED
  BY <1>1, <1>2, <1>3, <1>4, <1>5, <1>6, <1>7, <1>8 DEF CpuInvariant

(* Every step keeps it. *)
LEMMA CpuStepKeeps ==
  ASSUME CpuInvariant, ~Coincide, [CpuNext]_machine
  PROVE  CpuInvariant'
<1>1. CASE Hardware
  BY <1>1, InterruptKeeps, TimerKeeps, DeviceKeeps, UserStepKeeps, EcallKeeps, sretKeeps
     DEF Hardware
<1>2. CASE Traps
  BY <1>2, uservecKeeps, usertrapKeeps, usertrapCauseKeeps, usertrapretKeeps, usertrapretSetKeeps,
     userretKeeps, kernelvecKeeps, kerneltrapReturnKeeps, devintrKeeps, w_sipKeeps DEF Traps
<1>3. CASE Calls
  BY <1>3, syscallKeeps, sys_returnKeeps, sys_acquireKeeps, sys_releaseKeeps, sys_sleepKeeps
     DEF Calls
<1>4. CASE Switch
  BY <1>4, yieldKeeps, schedReturnKeeps, unlockKeeps, relockKeeps, forkretKeeps, schedulerOnKeeps,
     schedulerScanKeeps, schedulerBackKeeps, schedulerRunKeeps DEF Switch
<1>5. CASE UNCHANGED machine
  BY <1>5 DEF machine, CpuInvariant, CpuTypes, ThreadTypes, OtherTypes, Registers, Locks, Threads,
     Handler, Process, SavedOK, BackOK, FrameOK, TfOK, Resumes, OfAsked, Current, L, ToUser
<1> QED
  BY <1>1, <1>2, <1>3, <1>4, <1>5 DEF CpuNext

(* Unmapped the coincidence of an interrupt with ECALL or SRET the invariant *)
(* holds in every reachable state.                                          *)
THEOREM CpuInvariantHolds == ASSUME ~Coincide PROVE CpuSpec => []CpuInvariant
<1>1. CpuInvariant /\ [CpuNext]_machine => CpuInvariant'
  BY CpuStepKeeps
<1> QED
  BY <1>1, CpuInitHolds, PTL DEF CpuSpec

(* The mode, the registers, the page table and the lock count have their types, *)
(* and a system call never holds more spin locks than MaxLocks and p->lock.      *)
THEOREM CpuTypesHold == ASSUME ~Coincide PROVE CpuSpec => []CpuTypeOK
<1>1. CpuInvariant => CpuTypeOK
  <2> SUFFICES ASSUME CpuInvariant PROVE CpuTypeOK
    OBVIOUS
  <2> USE DEF CpuInvariant
  <2>1. cpu.mode \in {"U", "S"} /\ cpu.satp \in Proc \cup {"kernel"}
    BY DEF CpuTypes
  <2>2. \A p \in Proc : th[p].state \in {"RUNNABLE", "RUNNING", "SLEEPING"}
    BY DEF ThreadTypes, Thread, States
  <2>3. mycpu.noff \in 0 .. MaxLocks + 1 /\ mycpu.proc \in Proc \cup {"none"}
    <3>1. mycpu.noff \in Nat /\ (mycpu.noff \in 1 .. MaxLocks \/ mycpu.noff \in {0, 1})
      BY DEF Locks, LockedLabels, OtherTypes
    <3> QED
      BY <3>1, CpuAssumption DEF OtherTypes
  <2>4. CASE cpu.satp = "kernel"
    BY <2>1, <2>2, <2>3, <2>4 DEF Registers, CpuTypeOK
  <2>5. CASE cpu.satp # "kernel"
    <3>1. L \in {"user", "uservec"} \/ ToUser
      BY <2>5 DEF Registers
    <3>2. PICK p \in Proc : p = mycpu.proc
      BY <2>1, <2>5, <3>1 DEF Registers
    <3>3. cpu.regs = user[p].regs
      BY <3>1, <3>2 DEF Process
    <3>4. cpu.regs \in 0 .. Loop - 1
      BY <3>3 DEF OtherTypes
    <3> QED
      BY <2>1, <2>2, <2>3, <3>4 DEF CpuTypeOK
  <2> QED
    BY <2>4, <2>5
<1> QED
  BY <1>1, CpuInvariantHolds, PTL

(* No panic of usertrap(), kerneltrap(), pop_off() or sched() is reached, no *)
(* trap has a cause nobody raised and no call is served that was not issued. *)
THEOREM TrapsNeverPanic == ASSUME ~Coincide PROVE CpuSpec => []NoTrapPanic
<1>1. CpuInvariant => NoTrapPanic
  BY DEF CpuInvariant, Registers, NoTrapPanic
<1> QED
  BY <1>1, CpuInvariantHolds, PTL

(* A process in user mode has its own registers and its own next instruction, *)
(* every call it issued has been served, and stvec, SIE and SPP are as the    *)
(* next trap needs them.                                                      *)
THEOREM ContextIsKept == ASSUME ~Coincide PROVE CpuSpec => []UserContext
<1>1. CpuInvariant => UserContext
  <2> SUFFICES ASSUME CpuInvariant, cpu.pc.at = "user" PROVE UserContext
    BY DEF UserContext
  <2> USE DEF CpuInvariant
  <2>1. PICK p \in Proc : p = mycpu.proc
    BY DEF L, Threads, TrapLabels, OtherTypes
  <2>2. cpu.satp = p /\ cpu.stvec = "uservec" /\ ~cpu.sie /\ ~cpu.spp /\ cpu.mode = "U"
    BY <2>1 DEF L, Registers, ToUser
  <2>3. th[p].state = "RUNNING"
    BY <2>1 DEF L, Threads
  <2>4. cpu.pc.n = user[p].pc /\ cpu.regs = user[p].regs /\ p \notin asked
    <3>1. cpu.pc = UserAt(user[p].pc) /\ cpu.regs = user[p].regs /\ p \notin asked
      BY <2>1 DEF L, Process
    <3> QED
      BY <3>1 DEF UserAt
  <2> QED
    BY <2>1, <2>2, <2>3, <2>4 DEF UserContext
<1> QED
  BY <1>1, CpuInvariantHolds, PTL

(* Interrupts are on only with no spin lock held, the kernel's vector and its *)
(* page table; kernel code runs on the kernel's registers.                    *)
THEOREM OnlySafeInterrupts == ASSUME ~Coincide PROVE CpuSpec => []InterruptedSafely
<1>1. CpuInvariant => InterruptedSafely
  <2> SUFFICES ASSUME CpuInvariant PROVE InterruptedSafely
    OBVIOUS
  <2> USE DEF CpuInvariant
  <2>1. cpu.sie => L \in {"scheduler", "scan", "syscall", "sys", "usertrapret"}
    BY DEF Registers
  <2>2. cpu.sie => mycpu.noff = 0
    BY <2>1 DEF Locks, LockedLabels
  <2>3. cpu.stvec \in {"uservec", "kernelvec"}
    BY DEF CpuTypes
  <2>4. cpu.sie => cpu.stvec = "kernelvec" /\ cpu.satp = "kernel"
    BY <2>1, <2>3 DEF Registers, ToUser
  <2>5. cpu.satp = "kernel" => cpu.regs = KernelRegs
    BY DEF Registers
  <2> QED
    BY <2>2, <2>4, <2>5 DEF InterruptedSafely
<1> QED
  BY <1>1, CpuInvariantHolds, PTL

(***************************************************************************)
(* The way to the memory.                                                  *)
(***************************************************************************)
Contents == [Frame -> [Index -> Words]]
Address == [page : Frame, word : Index]

\* The registers and the processor, each of its type.
Types ==
  /\ chip \in Contents /\ before \in Contents
  /\ vma \in [walk1 : BOOLEAN, walk2 : BOOLEAN, walk3 : BOOLEAN,
              stb1 : BOOLEAN, stb2 : BOOLEAN, stb3 : BOOLEAN, pte : [1 .. 4 -> Nat]]
  /\ req \in [busy : BOOLEAN, stb : BOOLEAN, we : SUBSET (1 .. 4), data : [1 .. 4 -> Nat],
              virtual : BOOLEAN, vpn1 : Frame, vpn0 : Frame, offset : Frame]
  /\ req.we # {} => req.data \in Words
  /\ req.busy => req.vpn1 \in Index /\ req.vpn0 \in Index /\ req.offset \in Index

\* Walk k is under way, 0 standing for none, and strobe s is high.
Walk(k, s) ==
  /\ (vma.walk1 <=> k = 1) /\ (vma.walk2 <=> k = 2) /\ (vma.walk3 <=> k = 3)
  /\ (vma.stb1 <=> s = 1) /\ (vma.stb2 <=> s = 2) /\ (vma.stb3 <=> s = 3)

\* The state x of the memory's controller, "none" in between accesses; it acknowledges in the last.
Control(x) ==
  /\ (sram.r1 <=> x = "r1") /\ (sram.w1 <=> x = "w1") /\ (sram.w2 <=> x = "w2")
  /\ (sram.w3 <=> x = "w3") /\ (sram.ack <=> x = "r1" \/ x = "w3")

\* What walk k has in pte, if it has come to there, and the word it is about.
Walked(k) ==
  /\ k = 2 => vma.pte = Entry(before) /\ Valid(Entry(before))
  /\ k = 3 => vma.pte = Leaf(before) /\ Valid(Entry(before)) /\ Valid(Leaf(before))
WordAt(k) ==
  CASE k = 0 -> [page |-> req.vpn0, word |-> req.offset]
    [] k = 1 -> [page |-> Root, word |-> req.vpn1]
    [] k = 2 -> [page |-> PPN(Entry(before)), word |-> req.vpn0]
    [] k = 3 -> [page |-> PPN(Leaf(before)), word |-> req.offset]
Old(k) == before[WordAt(k).page][WordAt(k).word]

\* The bytes of the word after the store.
New(k) == [n \in 1 .. 4 |-> IF n \in req.we THEN req.data[n] ELSE Old(k)[n]]
HalfStored(k) ==
  [before EXCEPT ![WordAt(k).page][WordAt(k).word] = <<New(k)[1], New(k)[2], Old(k)[3], Old(k)[4]>>]

\* The access itself, and not a step of the walk before it.
LastOne(k) == k = 0 \/ k = 3

\* The phases of an access: not begun, strobed, the high half being read, and
\* the three states of a store; and the end of a walk at an entry without V.
Idle == ~req.busy /\ ~req.stb /\ Walk(0, 0) /\ Control("none")
Started == req.busy /\ req.stb /\ Walk(0, 0) /\ Control("none") /\ chip = before
Going(k) == /\ req.busy /\ ~req.stb /\ (req.virtual <=> k # 0) /\ Walked(k)
Strobed(k) == Going(k) /\ k # 0 /\ Walk(k, k) /\ Control("none") /\ chip = before
Reading(k) ==
  /\ Going(k) /\ Walk(k, 0) /\ Control("r1") /\ chip = before
  /\ LastOne(k) => req.we = {}
  /\ sram.cache[1] = Old(k)[1] /\ sram.cache[2] = Old(k)[2]
Storing(k) == Going(k) /\ LastOne(k) /\ Walk(k, 0) /\ req.we # {}
StoreLow(k) ==
  /\ Storing(k) /\ Control("w1") /\ chip = before
  /\ sram.out[1] = New(k)[1] /\ sram.out[2] = New(k)[2]
StoreWait(k) == Storing(k) /\ Control("w2") /\ chip = HalfStored(k)
StoreHigh(k) ==
  /\ Storing(k) /\ Control("w3") /\ chip = HalfStored(k)
  /\ sram.out[1] = New(k)[3] /\ sram.out[2] = New(k)[4]
Faulted ==
  /\ req.busy /\ ~req.stb /\ req.virtual /\ ~Mapped(before)
  /\ Walk(0, 0) /\ Control("none") /\ chip = before

PathInv ==
  /\ Types
  /\ \/ Idle \/ Started \/ Faulted
     \/ \E k \in 0 .. 3 : \/ Strobed(k) \/ Reading(k)
                          \/ StoreLow(k) \/ StoreWait(k) \/ StoreHigh(k)

\* The word each walk is about is in the memory.
LEMMA AtIs ==
  ASSUME Types, req.busy, NEW k \in 0 .. 3
  PROVE  /\ WordAt(k).page \in Frame /\ WordAt(k).word \in Index
         /\ Old(k) \in Words /\ Old(k) \in [1 .. 4 -> Nat]
<1>1. \A p \in Frame, w \in Index : before[p][w] \in Words
  BY DEF Types, Contents
<1>2. Root \in Frame /\ Index \subseteq Frame
  BY MemoryPathAssumption
<1>3. req.vpn1 \in Index /\ req.vpn0 \in Index /\ req.offset \in Index
  BY DEF Types
<1>4. \A w \in Words : w \in [1 .. 4 -> Nat] /\ w[2] \in Frame
  BY DEF Words
<1>5. PPN(Entry(before)) \in Frame /\ PPN(Leaf(before)) \in Frame
  BY <1>1, <1>2, <1>3, <1>4 DEF Entry, Leaf, PPN
<1>6. WordAt(k).page \in Frame /\ WordAt(k).word \in Index
  BY <1>2, <1>3, <1>5 DEF WordAt
<1> QED
  BY <1>1, <1>4, <1>6 DEF Old

\* The wires of vma.v during walk k.
LEMMA WiresAre ==
  ASSUME Types, NEW k \in 0 .. 3, NEW s \in 0 .. 3, req.virtual <=> k # 0,
         Walk(k, s), Walked(k)
  PROVE  /\ p_addr.page = WordAt(k).page /\ p_addr.word = WordAt(k).word
         /\ LastOne(k) => p_we = req.we
         /\ ~LastOne(k) => p_we = {}
         /\ p_stb <=> IF k = 0 THEN req.stb ELSE s # 0
<1>1. CASE k = 0
  BY <1>1 DEF p_addr, p_we, p_stb, WordAt, LastOne
<1>2. CASE k = 1
  BY <1>2 DEF p_addr, p_we, p_stb, WordAt, Walk, LastOne
<1>3. CASE k = 2
  BY <1>3 DEF p_addr, p_we, p_stb, WordAt, Walk, Walked, LastOne
<1>4. CASE k = 3
  BY <1>4 DEF p_addr, p_we, p_stb, WordAt, Walk, Walked, LastOne
<1> QED
  BY <1>1, <1>2, <1>3, <1>4

\* The registers after a clock edge.
LEMMA ClockIs ==
  ASSUME Clock, Types
  PROVE  /\ sram'.r1 <=> rstrb /\ ~sram.r1
         /\ sram'.w1 <=> wstrb /\ ~sram.w1
         /\ sram'.w2 <=> sram.w1 /\ ~sram.w2
         /\ sram'.w3 <=> sram.w2 /\ ~sram.w3
         /\ sram'.ack <=> ~sram.ack /\ (rstrb \/ (sram.w2 /\ ~sram.w3))
         /\ sram'.out = IF wstrb THEN Merged(0) ELSE IF sram.w2 THEN Merged(2) ELSE sram.out
         /\ rstrb => sram'.cache = io_d
         /\ chip' = NextChip /\ before' = before /\ req.busy
         /\ req' = IF v_ack THEN NoAccess ELSE [req EXCEPT !.stb = FALSE]
BY DEF Clock, NextSram

\* The walks after a clock edge.
LEMMA WalksAre ==
  ASSUME Clock, Types, NEW k \in 0 .. 3, NEW s \in 0 .. 3, Walk(k, s)
  PROVE  /\ ~sram.ack /\ k = 0 /\ s = 0 /\ req.virtual /\ req.stb =>
              Walk(1, 1)' /\ vma'.pte = vma.pte
         /\ ~sram.ack /\ ~(req.virtual /\ req.stb) => Walk(k, 0)' /\ vma'.pte = vma.pte
         /\ sram.ack /\ ~LastOne(k) /\ ~Valid(dat_r) => vma' = NoWalk
         /\ sram.ack /\ ~LastOne(k) /\ Valid(dat_r) /\ s = 0 /\ ~req.stb =>
              Walk(k + 1, k + 1)' /\ vma'.pte = dat_r
         /\ sram.ack /\ LastOne(k) /\ ~(req.virtual /\ req.stb) =>
              Walk(0, 0)' /\ vma'.pte = vma.pte
<1> DEFINE invalid == (vma.walk1 \/ vma.walk2) /\ sram.ack /\ ~Valid(dat_r)
<1>1. /\ invalid => vma' = NoWalk
      /\ ~invalid =>
           /\ vma'.walk1 <=> (req.virtual /\ req.stb) \/ (vma.walk1 /\ ~sram.ack)
           /\ vma'.walk2 <=> (vma.walk1 /\ sram.ack) \/ (vma.walk2 /\ ~sram.ack)
           /\ vma'.walk3 <=> (vma.walk2 /\ sram.ack) \/ (vma.walk3 /\ ~sram.ack)
           /\ vma'.stb1 <=> req.virtual /\ req.stb /\ ~vma.stb1
           /\ vma'.stb2 <=> vma.walk1 /\ sram.ack /\ ~vma.stb2
           /\ vma'.stb3 <=> vma.walk2 /\ sram.ack /\ ~vma.stb3
           /\ vma'.pte = IF (vma.walk1 \/ vma.walk2) /\ sram.ack THEN dat_r ELSE vma.pte
  BY DEF Clock, NextVma
<1>2. /\ vma.walk1 <=> k = 1
      /\ vma.walk2 <=> k = 2
      /\ vma.walk3 <=> k = 3
      /\ vma.stb1 <=> s = 1
      /\ vma.stb2 <=> s = 2
      /\ vma.stb3 <=> s = 3
  BY DEF Walk
<1> HIDE DEF invalid
<1>3. invalid <=> ~LastOne(k) /\ sram.ack /\ ~Valid(dat_r)
  BY <1>2 DEF invalid, LastOne
<1>4. ASSUME ~sram.ack, k = 0, s = 0, req.virtual, req.stb
      PROVE  Walk(1, 1)' /\ vma'.pte = vma.pte
  BY <1>1, <1>2, <1>3, <1>4 DEF Walk
<1>5. ASSUME ~sram.ack, ~(req.virtual /\ req.stb)
      PROVE  Walk(k, 0)' /\ vma'.pte = vma.pte
  BY <1>1, <1>2, <1>3, <1>5 DEF Walk
<1>6. ASSUME sram.ack, ~LastOne(k), Valid(dat_r), s = 0, ~req.stb
      PROVE  Walk(k + 1, k + 1)' /\ vma'.pte = dat_r
  BY <1>1, <1>2, <1>3, <1>6 DEF Walk, LastOne
<1>7. ASSUME sram.ack, LastOne(k), ~(req.virtual /\ req.stb)
      PROVE  Walk(0, 0)' /\ vma'.pte = vma.pte
  BY <1>1, <1>2, <1>3, <1>7 DEF Walk, LastOne
<1> QED
  BY <1>1, <1>3, <1>4, <1>5, <1>6, <1>7

\* What an access is about does not change while it lasts.
LEMMA Lasts ==
  ASSUME Types, req' = [req EXCEPT !.stb = FALSE], before' = before, NEW k \in 0 .. 3
  PROVE  /\ WordAt(k)' = WordAt(k) /\ Old(k)' = Old(k) /\ New(k)' = New(k)
         /\ HalfStored(k)' = HalfStored(k)
         /\ Entry(before)' = Entry(before) /\ Leaf(before)' = Leaf(before)
         /\ (Mapped(before)' <=> Mapped(before))
         /\ req'.we = req.we /\ req'.data = req.data /\ (req'.virtual <=> req.virtual)
         /\ (req'.busy <=> req.busy) /\ ~req'.stb
         /\ req'.vpn1 = req.vpn1 /\ req'.vpn0 = req.vpn0 /\ req'.offset = req.offset
<1>1. /\ req'.we = req.we /\ req'.data = req.data /\ req'.virtual = req.virtual
      /\ req'.busy = req.busy /\ req'.stb = FALSE
      /\ req'.vpn1 = req.vpn1 /\ req'.vpn0 = req.vpn0 /\ req'.offset = req.offset
  BY DEF Types
<1>2. Entry(before)' = Entry(before)
  BY <1>1 DEF Entry
<1>3. Leaf(before)' = Leaf(before)
  BY <1>1, <1>2 DEF Leaf
<1>4. WordAt(k)' = WordAt(k)
  BY <1>1, <1>2, <1>3 DEF WordAt
<1>5. Old(k)' = Old(k)
  BY <1>4 DEF Old
<1>6. New(k)' = New(k)
  BY <1>1, <1>5 DEF New
<1>7. HalfStored(k)' = HalfStored(k)
  BY <1>4, <1>5, <1>6 DEF HalfStored
<1>8. Mapped(before)' <=> Mapped(before)
  BY <1>1, <1>2, <1>3 DEF Mapped
<1> QED
  BY <1>1, <1>2, <1>3, <1>4, <1>5, <1>6, <1>7, <1>8

\* The data lines, and what the two halves of a store write.
LEMMA DataIs ==
  /\ io_d[1] = chip[p_addr.page][p_addr.word][IF high THEN 3 ELSE 1]
  /\ io_d[2] = chip[p_addr.page][p_addr.word][IF high THEN 4 ELSE 2]
  /\ \A low \in {0, 2} :
       /\ Merged(low)[1] = IF low + 1 \in p_we THEN req.data[low + 1] ELSE io_d[1]
       /\ Merged(low)[2] = IF low + 2 \in p_we THEN req.data[low + 2] ELSE io_d[2]
<1>1. io_d = <<chip[p_addr.page][p_addr.word][IF high THEN 3 ELSE 1],
               chip[p_addr.page][p_addr.word][IF high THEN 4 ELSE 2]>>
  BY DEF io_d, Half
<1> QED
  BY <1>1 DEF Merged

\* The access goes on, and nothing of what it is about has changed.
LEMMA GoesOn ==
  ASSUME Clock, Types, NEW k \in 0 .. 3, req.virtual <=> k # 0, Walked(k),
         ~v_ack, vma'.pte = vma.pte
  PROVE  Going(k)'
<1>1. req' = [req EXCEPT !.stb = FALSE] /\ before' = before /\ req.busy
  BY ClockIs
<1>2. /\ Entry(before)' = Entry(before) /\ Leaf(before)' = Leaf(before)
      /\ (req'.virtual <=> req.virtual) /\ (req'.busy <=> req.busy) /\ ~req'.stb
  BY <1>1, Lasts
<1> QED
  BY <1>1, <1>2 DEF Going, Walked

\* The first cycle of an access to the memory.
LEMMA Begins ==
  ASSUME Clock, Types, NEW k \in 0 .. 3, NEW s \in 0 .. 3, req.virtual <=> k # 0,
         Walk(k, s), Walked(k), Control("none"), chip = before, p_stb,
         ~(req.virtual /\ req.stb)
  PROVE  /\ ~LastOne(k) \/ req.we = {} => Reading(k)'
         /\ LastOne(k) /\ req.we # {} => StoreLow(k)'
<1>1. /\ ~sram.r1 /\ ~sram.w1 /\ ~sram.w2 /\ ~sram.w3 /\ ~sram.ack
  BY DEF Control
<1>2. ~v_ack /\ ~high
  BY <1>1 DEF v_ack, high
<1>3. /\ p_addr.page = WordAt(k).page /\ p_addr.word = WordAt(k).word
      /\ LastOne(k) => p_we = req.we
      /\ ~LastOne(k) => p_we = {}
  BY WiresAre
<1>4. Walk(k, 0)' /\ vma'.pte = vma.pte
  BY <1>1, WalksAre
<1>5. Going(k)'
  BY <1>2, <1>4, GoesOn
<1>6. req' = [req EXCEPT !.stb = FALSE] /\ before' = before /\ chip' = chip
  BY <1>1, <1>2, ClockIs DEF NextChip
<1>7. /\ Old(k)' = Old(k) /\ New(k)' = New(k) /\ req'.we = req.we
  BY <1>6, Lasts
<1>8. io_d[1] = Old(k)[1] /\ io_d[2] = Old(k)[2]
  BY <1>2, <1>3, DataIs DEF Old
<1>9. ASSUME ~LastOne(k) \/ req.we = {} PROVE Reading(k)'
  <2>1. rstrb /\ ~wstrb
    <3>1. p_we = {}
      BY <1>3, <1>9
    <3> QED
      BY <3>1 DEF rstrb, wstrb
  <2>2. Control("r1")' /\ sram'.cache = io_d
    BY <1>1, <2>1, ClockIs DEF Control
  <2>3. sram'.cache[1] = Old(k)'[1] /\ sram'.cache[2] = Old(k)'[2]
    BY <1>7, <1>8, <2>2
  <2>4. LastOne(k) => req'.we = {}
    BY <1>7, <1>9
  <2> QED
    BY <1>4, <1>5, <1>6, <2>2, <2>3, <2>4 DEF Reading
<1>10. ASSUME LastOne(k), req.we # {} PROVE StoreLow(k)'
  <2>1. wstrb /\ ~rstrb /\ p_we = req.we
    BY <1>3, <1>10 DEF rstrb, wstrb
  <2>2. Control("w1")' /\ sram'.out = Merged(0)
    BY <1>1, <2>1, ClockIs DEF Control
  <2>3. Merged(0)[1] = New(k)[1] /\ Merged(0)[2] = New(k)[2]
    <3>1. /\ Merged(0)[1] = IF 1 \in req.we THEN req.data[1] ELSE Old(k)[1]
          /\ Merged(0)[2] = IF 2 \in req.we THEN req.data[2] ELSE Old(k)[2]
      <4>1. 0 \in {0, 2} /\ 0 + 1 = 1 /\ 0 + 2 = 2
        OBVIOUS
      <4>2. /\ Merged(0)[1] = IF 0 + 1 \in p_we THEN req.data[0 + 1] ELSE io_d[1]
            /\ Merged(0)[2] = IF 0 + 2 \in p_we THEN req.data[0 + 2] ELSE io_d[2]
        BY <4>1, DataIs
      <4> QED
        BY <1>8, <2>1, <4>1, <4>2
    <3> QED
      BY <3>1 DEF New
  <2>4. sram'.out[1] = New(k)'[1] /\ sram'.out[2] = New(k)'[2] /\ req'.we # {}
    BY <1>7, <1>10, <2>2, <2>3
  <2> QED
    BY <1>4, <1>5, <1>6, <1>10, <2>2, <2>4 DEF StoreLow, Storing
<1> QED
  BY <1>9, <1>10

\* A virtual access starts the first walk, a physical one goes to the memory.
LEMMA StartedStep ==
  ASSUME Clock, Types, Started
  PROVE  Strobed(1)' \/ Reading(0)' \/ StoreLow(0)'
<1>1. ~sram.ack /\ Walk(0, 0) /\ Control("none") /\ chip = before /\ req.stb
  BY DEF Started, Control
<1>2. CASE req.virtual
  <2>1. Walk(1, 1)' /\ vma'.pte = vma.pte
    <3>1. ~sram.ack /\ 0 \in 0 .. 3 /\ Walk(0, 0) /\ req.virtual /\ req.stb
      BY <1>1, <1>2
    <3> QED
      BY <3>1, WalksAre
  <2>2. ~rstrb /\ ~wstrb /\ ~v_ack
    <3>1. ~vma.stb1 /\ ~vma.stb2 /\ ~vma.stb3
      BY <1>1 DEF Walk
    <3>2. ~p_stb
      BY <1>2, <3>1 DEF p_stb
    <3> QED
      BY <1>1, <3>2 DEF rstrb, wstrb, v_ack
  <2>3. Control("none")' /\ chip' = chip /\ before' = before
    BY <1>1, <2>2, ClockIs DEF Control, NextChip
  <2>4. Going(1)'
    BY <1>2, <2>1, <2>2, GoesOn DEF Walked
  <2> QED
    BY <1>1, <2>1, <2>3, <2>4 DEF Strobed
<1>3. CASE ~req.virtual
  <2>1. p_stb /\ Walked(0)
    <3>1. Walked(0)
      BY DEF Walked
    <3> QED
      BY <1>1, <1>3, <3>1 DEF p_stb
  <2> QED
    BY <1>1, <1>3, <2>1, Begins
<1> QED
  BY <1>2, <1>3

\* Each walk, and the access in the end, goes to the memory.
LEMMA StrobedStep ==
  ASSUME Clock, Types, NEW k \in 0 .. 3, Strobed(k)
  PROVE  Reading(k)' \/ StoreLow(k)'
<1>1. /\ req.busy /\ ~req.stb /\ (req.virtual <=> k # 0) /\ Walked(k) /\ k # 0
      /\ Walk(k, k) /\ Control("none") /\ chip = before
  BY DEF Strobed, Going
<1>2. p_stb
  BY <1>1, WiresAre
<1> QED
  BY <1>1, <1>2, Begins

\* Once its strobe has gone, an access makes no other.
LEMMA Unstrobed ==
  ASSUME Types, NEW k \in 0 .. 3, Going(k), Walk(k, 0)
  PROVE  ~rstrb /\ ~wstrb
<1>1. ~p_stb
  BY WiresAre DEF Going
<1> QED
  BY <1>1 DEF rstrb, wstrb

\* The word a read has got.
LEMMA ReadIs ==
  ASSUME Types, NEW k \in 0 .. 3, Reading(k)
  PROVE  dat_r = Old(k)
<1>1. high
  BY DEF Reading, Control, high
<1>2. p_addr.page = WordAt(k).page /\ p_addr.word = WordAt(k).word
  BY WiresAre DEF Reading, Going
<1>3. io_d[1] = Old(k)[3] /\ io_d[2] = Old(k)[4]
  BY <1>1, <1>2, DataIs DEF Old, Reading
<1>4. dat_r = <<Old(k)[1], Old(k)[2], Old(k)[3], Old(k)[4]>>
  BY <1>3 DEF dat_r, Reading
<1>5. Old(k) \in [1 .. 4 -> Nat]
  BY AtIs DEF Reading, Going
<1> QED
  BY <1>4, <1>5

\* Whether the page of an access is mapped, and the word it is about.
LEMMA TargetIs ==
  ASSUME Types, NEW k \in 0 .. 3, Going(k)
  PROVE  /\ k = 1 => Old(k) = Entry(before)
         /\ k = 2 => Old(k) = Leaf(before) /\ Valid(Entry(before))
         /\ LastOne(k) => /\ Mapped(before)
                       /\ Target(before).page = WordAt(k).page
                       /\ Target(before).word = WordAt(k).word
<1>1. (req.virtual <=> k # 0) /\ Walked(k)
  BY DEF Going
<1>2. CASE k = 0
  BY <1>1, <1>2 DEF WordAt, Mapped, Target
<1>3. CASE k = 1
  BY <1>3 DEF WordAt, Old, Entry, LastOne
<1>4. CASE k = 2
  BY <1>1, <1>4 DEF WordAt, Old, Leaf, Walked, LastOne
<1>5. CASE k = 3
  BY <1>1, <1>5 DEF WordAt, Mapped, Target, Walked
<1> QED
  BY <1>2, <1>3, <1>4, <1>5

\* What AccessExact says of a step.
Exact ==
  req.busy =>
    IF req'.busy THEN ~Mapped(before) => chip' = before
    ELSE /\ Mapped(before)
         /\ req.we = {} => /\ dat_r = before[Target(before).page][Target(before).word]
                           /\ chip' = before
         /\ req.we # {} => chip' = Stored(before)

\* A read of the walk goes on to the next walk, or ends at an entry without V;
\* that of the access itself ends it with the word.
LEMMA ReadingStep ==
  ASSUME Clock, Types, NEW k \in 0 .. 3, Reading(k)
  PROVE  /\ ~LastOne(k) => Strobed(k + 1)' \/ Faulted'
         /\ LastOne(k) => Idle'
         /\ chip' = before /\ vma'.pte \in [1 .. 4 -> Nat] /\ Exact
<1>1. /\ Going(k) /\ Walk(k, 0) /\ Control("r1") /\ chip = before
      /\ LastOne(k) => req.we = {}
      /\ req.busy /\ ~req.stb /\ (req.virtual <=> k # 0) /\ Walked(k)
  BY DEF Reading, Going
<1>2. ~rstrb /\ ~wstrb
  BY <1>1, Unstrobed
<1>3. sram.ack /\ ~sram.w1 /\ ~sram.w2 /\ ~sram.w3
  BY <1>1 DEF Control
<1>4. Control("none")' /\ chip' = before /\ before' = before
  BY <1>1, <1>2, <1>3, ClockIs DEF Control, NextChip
<1>5. dat_r = Old(k) /\ Old(k) \in [1 .. 4 -> Nat]
  BY <1>1, ReadIs, AtIs
<1>6. v_ack <=> LastOne(k)
  BY <1>1, <1>3 DEF v_ack, Walk, LastOne
<1>7. CASE LastOne(k)
  <2>1. req' = NoAccess
    BY <1>6, <1>7, ClockIs
  <2>2. ~req'.busy /\ ~req'.stb
    BY <2>1 DEF NoAccess
  <2>3. Walk(0, 0)' /\ vma'.pte = vma.pte
    BY <1>1, <1>3, <1>7, WalksAre
  <2>4. Idle'
    BY <1>4, <2>2, <2>3 DEF Idle
  <2>5. Mapped(before) /\ Old(k) = before[Target(before).page][Target(before).word]
    BY <1>1, <1>7, TargetIs DEF Old
  <2>6. Exact
    BY <1>1, <1>4, <1>5, <1>7, <2>2, <2>5 DEF Exact
  <2>7. vma'.pte \in [1 .. 4 -> Nat]
    BY <2>3 DEF Types
  <2> QED
    BY <1>4, <1>7, <2>4, <2>6, <2>7
<1>8. CASE ~LastOne(k)
  <2>1. req' = [req EXCEPT !.stb = FALSE]
    BY <1>6, <1>8, ClockIs
  <2>2. /\ Entry(before)' = Entry(before) /\ Leaf(before)' = Leaf(before)
        /\ (Mapped(before)' <=> Mapped(before)) /\ (req'.virtual <=> req.virtual)
        /\ req'.busy /\ ~req'.stb
    BY <1>1, <1>4, <2>1, Lasts
  <2>3. Exact
    BY <1>4, <2>2 DEF Exact
  <2>4. k = 1 \/ k = 2
    BY <1>8 DEF LastOne
  <2>5. CASE Valid(dat_r)
    <3>1. Walk(k + 1, k + 1)' /\ vma'.pte = Old(k)
      BY <1>1, <1>3, <1>5, <1>8, <2>5, WalksAre
    <3>2. Walked(k + 1)'
      <4>1. CASE k = 1
        BY <1>1, <1>4, <1>5, <2>2, <2>5, <3>1, <4>1, TargetIs DEF Walked
      <4>2. CASE k = 2
        BY <1>1, <1>4, <1>5, <2>2, <2>5, <3>1, <4>2, TargetIs DEF Walked
      <4> QED
        BY <2>4, <4>1, <4>2
    <3>3. Going(k + 1)'
      BY <1>1, <2>2, <2>4, <3>2 DEF Going
    <3>4. Strobed(k + 1)'
      BY <1>4, <2>4, <3>1, <3>3 DEF Strobed
    <3> QED
      BY <1>4, <1>5, <1>8, <2>3, <3>1, <3>4
  <2>6. CASE ~Valid(dat_r)
    <3>1. vma' = NoWalk
      BY <1>1, <1>3, <1>8, <2>6, WalksAre
    <3>2. Walk(0, 0)' /\ vma'.pte \in [1 .. 4 -> Nat]
      BY <3>1 DEF NoWalk, Walk
    <3>3. req.virtual /\ ~Mapped(before)
      BY <1>1, <1>5, <2>4, <2>6, TargetIs DEF Mapped
    <3>4. Faulted'
      BY <1>4, <2>2, <3>2, <3>3 DEF Faulted
    <3> QED
      BY <1>4, <1>8, <2>3, <3>2, <3>4
  <2> QED
    BY <2>5, <2>6
<1> QED
  BY <1>7, <1>8

\* The word of a store, whole and half done, is a word.
LEMMA NewIs ==
  ASSUME Types, req.busy, req.we # {}, NEW k \in 0 .. 3
  PROVE  /\ New(k) \in Words /\ New(k) \in [1 .. 4 -> Nat]
         /\ HalfStored(k) \in Contents
         /\ HalfStored(k)[WordAt(k).page][WordAt(k).word]
              = <<New(k)[1], New(k)[2], Old(k)[3], Old(k)[4]>>
<1>1. /\ WordAt(k).page \in Frame /\ WordAt(k).word \in Index
      /\ Old(k) \in Words /\ Old(k) \in [1 .. 4 -> Nat]
  BY AtIs
<1>2. req.data \in Words /\ before \in Contents
  BY DEF Types
<1>3. \A w : w \in Words <=> w \in [1 .. 4 -> Nat] /\ w[2] \in Frame
  BY DEF Words
<1>4. /\ New(k) \in [1 .. 4 -> Nat]
      /\ \A n \in 1 .. 4 : New(k)[n] = IF n \in req.we THEN req.data[n] ELSE Old(k)[n]
  BY <1>1, <1>2, <1>3 DEF New
<1>5. New(k) \in Words
  BY <1>1, <1>2, <1>3, <1>4
<1>6. <<New(k)[1], New(k)[2], Old(k)[3], Old(k)[4]>> \in Words
  <2>1. /\ New(k)[1] \in Nat /\ New(k)[2] \in Nat /\ Old(k)[3] \in Nat /\ Old(k)[4] \in Nat
        /\ New(k)[2] \in Frame
    BY <1>1, <1>3, <1>4, <1>5
  <2> QED
    BY <1>3, <2>1
<1>7. HalfStored(k) \in Contents
  BY <1>1, <1>2, <1>6 DEF HalfStored, Contents
<1>8. HalfStored(k)[WordAt(k).page][WordAt(k).word]
        = <<New(k)[1], New(k)[2], Old(k)[3], Old(k)[4]>>
  BY <1>1, <1>2 DEF HalfStored, Contents
<1> QED
  BY <1>4, <1>5, <1>7, <1>8

\* The low half is written,
LEMMA StoreLowStep ==
  ASSUME Clock, Types, NEW k \in 0 .. 3, StoreLow(k)
  PROVE  StoreWait(k)' /\ chip' = HalfStored(k) /\ req'.busy
<1>1. /\ Going(k) /\ Walk(k, 0) /\ Control("w1") /\ chip = before /\ LastOne(k) /\ req.we # {}
      /\ req.busy /\ ~req.stb /\ (req.virtual <=> k # 0) /\ Walked(k)
      /\ sram.out[1] = New(k)[1] /\ sram.out[2] = New(k)[2]
  BY DEF StoreLow, Storing, Going
<1>2. ~rstrb /\ ~wstrb
  BY <1>1, Unstrobed
<1>3. ~sram.ack /\ ~sram.r1 /\ sram.w1 /\ ~sram.w2 /\ ~sram.w3
  BY <1>1 DEF Control
<1>4. ~v_ack /\ ~high
  BY <1>3 DEF v_ack, high
<1>5. Control("w2")' /\ req' = [req EXCEPT !.stb = FALSE] /\ before' = before
  BY <1>2, <1>3, <1>4, ClockIs DEF Control
<1>6. Walk(k, 0)' /\ vma'.pte = vma.pte
  BY <1>1, <1>3, WalksAre
<1>7. Going(k)'
  BY <1>1, <1>4, <1>6, GoesOn
<1>8. HalfStored(k)' = HalfStored(k) /\ req'.we = req.we /\ req'.busy
  BY <1>1, <1>5, Lasts
<1>9. p_addr.page = WordAt(k).page /\ p_addr.word = WordAt(k).word
  BY <1>1, WiresAre
<1>10. chip' = HalfStored(k)
  <2>1. chip' = [chip EXCEPT ![p_addr.page][p_addr.word] =
                   <<sram.out[1], sram.out[2], @[3], @[4]>>]
    BY <1>3, <1>4, ClockIs DEF NextChip
  <2>2. chip' = [before EXCEPT ![WordAt(k).page][WordAt(k).word] = <<New(k)[1], New(k)[2],
                   before[WordAt(k).page][WordAt(k).word][3], before[WordAt(k).page][WordAt(k).word][4]>>]
    BY <1>1, <1>9, <2>1
  <2> QED
    BY <2>2 DEF HalfStored, Old
<1> QED
  BY <1>1, <1>5, <1>6, <1>7, <1>8, <1>10 DEF StoreWait, Storing

\* the data of the high half are taken,
LEMMA StoreWaitStep ==
  ASSUME Clock, Types, NEW k \in 0 .. 3, StoreWait(k)
  PROVE  StoreHigh(k)' /\ chip' = chip /\ req'.busy
<1>1. /\ Going(k) /\ Walk(k, 0) /\ Control("w2") /\ LastOne(k) /\ req.we # {}
      /\ req.busy /\ ~req.stb /\ (req.virtual <=> k # 0) /\ Walked(k)
      /\ chip = HalfStored(k)
  BY DEF StoreWait, Storing, Going
<1>2. ~rstrb /\ ~wstrb
  BY <1>1, Unstrobed
<1>3. ~sram.ack /\ ~sram.r1 /\ ~sram.w1 /\ sram.w2 /\ ~sram.w3
  BY <1>1 DEF Control
<1>4. ~v_ack /\ high
  BY <1>3 DEF v_ack, high
<1>5. /\ Control("w3")' /\ req' = [req EXCEPT !.stb = FALSE] /\ before' = before
      /\ chip' = chip /\ sram'.out = Merged(2)
  BY <1>2, <1>3, <1>4, ClockIs DEF Control, NextChip
<1>6. Walk(k, 0)' /\ vma'.pte = vma.pte
  BY <1>1, <1>3, WalksAre
<1>7. Going(k)'
  BY <1>1, <1>4, <1>6, GoesOn
<1>8. /\ HalfStored(k)' = HalfStored(k) /\ New(k)' = New(k)
      /\ req'.we = req.we /\ req'.busy
  BY <1>1, <1>5, Lasts
<1>9. p_addr.page = WordAt(k).page /\ p_addr.word = WordAt(k).word /\ p_we = req.we
  BY <1>1, WiresAre
<1>10. Merged(2)[1] = New(k)[3] /\ Merged(2)[2] = New(k)[4]
  <2>1. io_d[1] = Old(k)[3] /\ io_d[2] = Old(k)[4]
    BY <1>1, <1>4, <1>9, DataIs, NewIs
  <2>2. 2 \in {0, 2} /\ 2 + 1 = 3 /\ 2 + 2 = 4
    OBVIOUS
  <2>3. /\ Merged(2)[1] = IF 3 \in req.we THEN req.data[3] ELSE Old(k)[3]
        /\ Merged(2)[2] = IF 4 \in req.we THEN req.data[4] ELSE Old(k)[4]
    BY <1>9, <2>1, <2>2, DataIs
  <2> QED
    BY <2>3 DEF New
<1> QED
  BY <1>1, <1>5, <1>6, <1>7, <1>8, <1>10 DEF StoreHigh, Storing

\* and the high half is written.
LEMMA StoreHighStep ==
  ASSUME Clock, Types, NEW k \in 0 .. 3, StoreHigh(k)
  PROVE  Idle' /\ chip' \in Contents /\ Exact
<1>1. /\ Going(k) /\ Walk(k, 0) /\ Control("w3") /\ LastOne(k) /\ req.we # {}
      /\ req.busy /\ ~req.stb /\ (req.virtual <=> k # 0) /\ Walked(k)
      /\ chip = HalfStored(k)
      /\ sram.out[1] = New(k)[3] /\ sram.out[2] = New(k)[4]
  BY DEF StoreHigh, Storing, Going
<1>2. ~rstrb /\ ~wstrb
  BY <1>1, Unstrobed
<1>3. sram.ack /\ ~sram.r1 /\ ~sram.w1 /\ ~sram.w2 /\ sram.w3
  BY <1>1 DEF Control
<1>4. v_ack /\ high
  BY <1>1, <1>3 DEF v_ack, high, LastOne, Walk
<1>5. Control("none")' /\ req' = NoAccess /\ before' = before
  BY <1>2, <1>3, <1>4, ClockIs DEF Control
<1>6. ~req'.busy /\ ~req'.stb
  BY <1>5 DEF NoAccess
<1>7. Walk(0, 0)'
  BY <1>1, <1>3, WalksAre
<1>8. p_addr.page = WordAt(k).page /\ p_addr.word = WordAt(k).word
  BY <1>1, WiresAre
<1>9. /\ WordAt(k).page \in Frame /\ WordAt(k).word \in Index
      /\ before \in Contents /\ New(k) \in Words /\ New(k) \in [1 .. 4 -> Nat]
  BY <1>1, AtIs, NewIs DEF Types
<1>10. chip' = [before EXCEPT ![WordAt(k).page][WordAt(k).word] = New(k)]
  <2>1. chip' = [chip EXCEPT ![WordAt(k).page][WordAt(k).word] =
                   <<@[1], @[2], sram.out[1], sram.out[2]>>]
    BY <1>3, <1>4, <1>8, ClockIs DEF NextChip
  <2>2. chip' = [chip EXCEPT ![WordAt(k).page][WordAt(k).word] =
                   <<New(k)[1], New(k)[2], New(k)[3], New(k)[4]>>]
    <3>1. /\ chip[WordAt(k).page][WordAt(k).word][1] = New(k)[1]
          /\ chip[WordAt(k).page][WordAt(k).word][2] = New(k)[2]
      BY <1>1, NewIs
    <3>2. chip' = [chip EXCEPT ![WordAt(k).page][WordAt(k).word] =
                     <<chip[WordAt(k).page][WordAt(k).word][1], chip[WordAt(k).page][WordAt(k).word][2],
                       sram.out[1], sram.out[2]>>]
      BY <2>1
    <3> QED
      BY <1>1, <3>1, <3>2
  <2>3. <<New(k)[1], New(k)[2], New(k)[3], New(k)[4]>> = New(k)
    BY <1>9
  <2>4. chip' = [HalfStored(k) EXCEPT ![WordAt(k).page][WordAt(k).word] = New(k)]
    BY <1>1, <2>2, <2>3
  <2> QED
    BY <1>9, <2>4 DEF HalfStored, Contents
<1>11. chip' \in Contents
  BY <1>9, <1>10 DEF Contents
<1>12. Mapped(before) /\ Target(before).page = WordAt(k).page /\ Target(before).word = WordAt(k).word
  BY <1>1, TargetIs
<1>13. chip' = Stored(before)
  BY <1>10, <1>12 DEF Stored, New, Old
<1> QED
  BY <1>1, <1>5, <1>6, <1>7, <1>11, <1>12, <1>13 DEF Idle, Exact

\* After an entry without V nothing moves.
LEMMA FaultedStep ==
  ASSUME Clock, Types, Faulted
  PROVE  Faulted'
<1>1. /\ req.busy /\ ~req.stb /\ req.virtual /\ ~Mapped(before)
      /\ Walk(0, 0) /\ Control("none") /\ chip = before
  BY DEF Faulted
<1>2. ~sram.ack /\ ~sram.r1 /\ ~sram.w1 /\ ~sram.w2 /\ ~sram.w3
  BY <1>1 DEF Control
<1>3. ~rstrb /\ ~wstrb /\ ~v_ack
  <2>1. ~vma.stb1 /\ ~vma.stb2 /\ ~vma.stb3
    BY <1>1 DEF Walk
  <2>2. ~p_stb
    BY <1>1, <2>1 DEF p_stb
  <2> QED
    BY <1>2, <2>2 DEF rstrb, wstrb, v_ack
<1>4. /\ Control("none")' /\ chip' = chip /\ before' = before
      /\ req' = [req EXCEPT !.stb = FALSE]
  BY <1>2, <1>3, ClockIs DEF Control, NextChip
<1>5. Walk(0, 0)'
  <2>1. 0 \in 0 .. 3
    OBVIOUS
  <2> QED
    BY <1>1, <1>2, <2>1, WalksAre
<1>6. /\ (Mapped(before)' <=> Mapped(before)) /\ (req'.virtual <=> req.virtual)
      /\ req'.busy /\ ~req'.stb
  <2>1. 0 \in 0 .. 3
    OBVIOUS
  <2> QED
    BY <1>1, <1>4, <2>1, Lasts
<1> QED
  BY <1>1, <1>4, <1>5, <1>6 DEF Faulted

\* The registers keep their types.
LEMMA TypesKept ==
  ASSUME Clock, Types, chip' \in Contents, vma'.pte \in [1 .. 4 -> Nat]
  PROVE  Types'
<1>1. before' = before /\ req' = IF v_ack THEN NoAccess ELSE [req EXCEPT !.stb = FALSE]
  BY ClockIs
<1>2. vma' \in [walk1 : BOOLEAN, walk2 : BOOLEAN, walk3 : BOOLEAN,
                stb1 : BOOLEAN, stb2 : BOOLEAN, stb3 : BOOLEAN, pte : [1 .. 4 -> Nat]]
  <2>1. CASE vma' = NoWalk
    BY <2>1 DEF NoWalk
  <2>2. CASE vma' # NoWalk
    <3> DEFINE w1 == (req.virtual /\ req.stb) \/ (vma.walk1 /\ ~sram.ack)
               w2 == IF vma.walk1 /\ sram.ack THEN TRUE ELSE vma.walk2 /\ ~sram.ack
               w3 == IF vma.walk2 /\ sram.ack THEN TRUE ELSE vma.walk3 /\ ~sram.ack
               s1 == req.virtual /\ req.stb /\ ~vma.stb1
               s2 == vma.walk1 /\ sram.ack /\ ~vma.stb2
               s3 == vma.walk2 /\ sram.ack /\ ~vma.stb3
               p == IF (vma.walk1 \/ vma.walk2) /\ sram.ack THEN dat_r ELSE vma.pte
    <3>1. vma' = [walk1 |-> w1, walk2 |-> w2, walk3 |-> w3,
                  stb1 |-> s1, stb2 |-> s2, stb3 |-> s3, pte |-> p]
      BY <2>2 DEF Clock, NextVma
    <3>2. /\ w1 \in BOOLEAN /\ w2 \in BOOLEAN /\ w3 \in BOOLEAN
          /\ s1 \in BOOLEAN /\ s2 \in BOOLEAN /\ s3 \in BOOLEAN
      BY Zenon
    <3> HIDE DEF w1, w2, w3, s1, s2, s3, p
    <3>3. p = vma'.pte
      BY <3>1
    <3> QED
      BY <3>1, <3>2, <3>3
  <2> QED
    BY <2>1, <2>2
<1>3. /\ req' \in [busy : BOOLEAN, stb : BOOLEAN, we : SUBSET (1 .. 4), data : [1 .. 4 -> Nat],
                   virtual : BOOLEAN, vpn1 : Frame, vpn0 : Frame, offset : Frame]
      /\ req'.we # {} => req'.data \in Words
      /\ req'.busy => req'.vpn1 \in Index /\ req'.vpn0 \in Index /\ req'.offset \in Index
  <2>1. CASE v_ack
    <3>1. req' = NoAccess /\ Root \in Frame
      BY <1>1, <2>1, MemoryPathAssumption
    <3> QED
      BY <3>1 DEF NoAccess
  <2>2. CASE ~v_ack
    <3>1. req' = [req EXCEPT !.stb = FALSE]
      BY <1>1, <2>2
    <3> QED
      BY <3>1 DEF Types
  <2> QED
    BY <2>1, <2>2
<1>4. before' \in Contents
  BY <1>1 DEF Types
<1> QED
  BY <1>2, <1>3, <1>4 DEF Types

\* A clock edge that is no acknowledge leaves pte as it was.
LEMMA PteStays ==
  ASSUME Clock, Types, ~sram.ack
  PROVE  vma'.pte \in [1 .. 4 -> Nat]
<1>1. vma'.pte = vma.pte
  BY DEF Clock, NextVma
<1> QED
  BY <1>1 DEF Types

\* A clock edge, in every phase of an access.
LEMMA ClockStep ==
  ASSUME Clock, PathInv
  PROVE  PathInv' /\ Exact
<1>1. Types /\ req.busy /\ before' = before /\ before \in Contents /\ chip \in Contents
  BY ClockIs DEF PathInv, Types
<1>2. Started \/ Faulted
      \/ \E k \in 0 .. 3 : \/ Strobed(k) \/ Reading(k)
                           \/ StoreLow(k) \/ StoreWait(k) \/ StoreHigh(k)
  BY <1>1 DEF PathInv, Idle
<1>3. 0 \in 0 .. 3 /\ 1 \in 0 .. 3
  OBVIOUS
<1>4. CASE Started
  <2>1. Strobed(1)' \/ Reading(0)' \/ StoreLow(0)'
    BY <1>1, <1>4, StartedStep
  <2>2. chip' = before /\ req'.busy
    BY <1>1, <2>1 DEF Strobed, Reading, StoreLow, Storing, Going
  <2>3. Types'
    BY <1>1, <1>4, <2>2, PteStays, TypesKept DEF Started, Control
  <2> QED
    BY <1>3, <2>1, <2>2, <2>3 DEF PathInv, Exact
<1>5. CASE Faulted
  <2>1. Faulted'
    BY <1>1, <1>5, FaultedStep
  <2>2. chip' = before /\ req'.busy
    BY <1>1, <2>1 DEF Faulted
  <2>3. Types'
    BY <1>1, <1>5, <2>2, PteStays, TypesKept DEF Faulted, Control
  <2> QED
    BY <2>1, <2>2, <2>3 DEF PathInv, Exact
<1>6. ASSUME NEW k \in 0 .. 3, Strobed(k) PROVE PathInv' /\ Exact
  <2>1. Reading(k)' \/ StoreLow(k)'
    BY <1>1, <1>6, StrobedStep
  <2>2. chip' = before /\ req'.busy
    BY <1>1, <2>1 DEF Reading, StoreLow, Storing, Going
  <2>3. Types'
    BY <1>1, <1>6, <2>2, PteStays, TypesKept DEF Strobed, Control
  <2> QED
    BY <2>1, <2>2, <2>3 DEF PathInv, Exact
<1>7. ASSUME NEW k \in 0 .. 3, Reading(k) PROVE PathInv' /\ Exact
  <2>1. /\ ~LastOne(k) => Strobed(k + 1)' \/ Faulted'
        /\ LastOne(k) => Idle'
        /\ chip' = before /\ vma'.pte \in [1 .. 4 -> Nat] /\ Exact
    BY <1>1, <1>7, ReadingStep
  <2>2. Types'
    BY <1>1, <2>1, TypesKept
  <2>3. ~LastOne(k) => k + 1 \in 0 .. 3
    BY DEF LastOne
  <2> QED
    BY <2>1, <2>2, <2>3 DEF PathInv
<1>8. ASSUME NEW k \in 0 .. 3, StoreLow(k) PROVE PathInv' /\ Exact
  <2>1. StoreWait(k)' /\ chip' = HalfStored(k) /\ req'.busy
    BY <1>1, <1>8, StoreLowStep
  <2>2. Going(k) /\ LastOne(k) /\ req.we # {} /\ ~sram.ack
    BY <1>8 DEF StoreLow, Storing, Control
  <2>3. chip' \in Contents /\ Mapped(before)
    BY <1>1, <2>1, <2>2, NewIs, TargetIs
  <2>4. Types'
    BY <1>1, <2>2, <2>3, PteStays, TypesKept
  <2> QED
    BY <2>1, <2>3, <2>4 DEF PathInv, Exact
<1>9. ASSUME NEW k \in 0 .. 3, StoreWait(k) PROVE PathInv' /\ Exact
  <2>1. StoreHigh(k)' /\ chip' = chip /\ req'.busy
    BY <1>1, <1>9, StoreWaitStep
  <2>2. Going(k) /\ LastOne(k) /\ ~sram.ack
    BY <1>9 DEF StoreWait, Storing, Control
  <2>3. Mapped(before)
    BY <1>1, <2>2, TargetIs
  <2>4. Types'
    BY <1>1, <2>1, <2>2, PteStays, TypesKept
  <2> QED
    BY <2>1, <2>3, <2>4 DEF PathInv, Exact
<1>10. ASSUME NEW k \in 0 .. 3, StoreHigh(k) PROVE PathInv' /\ Exact
  <2>1. Idle' /\ chip' \in Contents /\ Exact
    BY <1>1, <1>10, StoreHighStep
  <2>2. vma'.pte \in [1 .. 4 -> Nat]
    <3>1. LastOne(k) /\ Walk(k, 0) /\ ~(req.virtual /\ req.stb) /\ sram.ack
      BY <1>10 DEF StoreHigh, Storing, Going, Control
    <3>2. vma'.pte = vma.pte
      BY <1>1, <1>3, <3>1, WalksAre
    <3> QED
      BY <1>1, <3>2 DEF Types
  <2>3. Types'
    BY <1>1, <2>1, <2>2, TypesKept
  <2> QED
    BY <2>1, <2>3 DEF PathInv
<1> QED
  BY <1>2, <1>4, <1>5, <1>6, <1>7, <1>8, <1>9, <1>10

\* A new access finds the devices quiet.
LEMMA StartStep ==
  ASSUME PathInv, NEW virtual \in BOOLEAN,
         NEW vpn1 \in Index, NEW vpn0 \in Index, NEW offset \in Index,
         NEW we \in SUBSET (1 .. 4), NEW data \in [1 .. 4 -> Nat],
         we # {} => data \in Words,
         Start(virtual, vpn1, vpn0, offset, we, data)
  PROVE  PathInv'
<1>1. Types /\ Idle
  BY DEF PathInv, Start, Started, Faulted, Strobed, Reading, StoreLow, StoreWait, StoreHigh,
         Storing, Going
<1>2. /\ req' = [busy |-> TRUE, stb |-> TRUE, we |-> we, data |-> data, virtual |-> virtual,
                 vpn1 |-> vpn1, vpn0 |-> vpn0, offset |-> offset]
      /\ before' = chip /\ chip' = chip /\ vma' = vma /\ sram' = sram
  BY DEF Start
<1>3. /\ req' \in [busy : BOOLEAN, stb : BOOLEAN, we : SUBSET (1 .. 4), data : [1 .. 4 -> Nat],
                   virtual : BOOLEAN, vpn1 : Frame, vpn0 : Frame, offset : Frame]
      /\ req'.we # {} => req'.data \in Words
      /\ req'.vpn1 \in Index /\ req'.vpn0 \in Index /\ req'.offset \in Index
      /\ req'.busy /\ req'.stb
  BY <1>2, MemoryPathAssumption
<1>4. Types'
  BY <1>1, <1>2, <1>3 DEF Types
<1>5. Walk(0, 0)' /\ Control("none")'
  BY <1>1, <1>2 DEF Idle, Walk, Control
<1> QED
  BY <1>2, <1>3, <1>4, <1>5 DEF PathInv, Started

LEMMA PathStarts == PathInit => PathInv
<1> SUFFICES ASSUME PathInit PROVE PathInv
  OBVIOUS
<1>1. req = NoAccess /\ vma = NoWalk /\ sram = Quiet /\ chip \in Memory /\ before = chip
  BY DEF PathInit
<1>2. Root \in Frame /\ chip \in Contents
  BY <1>1, MemoryPathAssumption DEF Contents
<1>3. Types
  BY <1>1, <1>2 DEF Types, NoAccess, NoWalk
<1>4. Idle
  BY <1>1 DEF Idle, Walk, Control, NoAccess, NoWalk, Quiet
<1> QED
  BY <1>3, <1>4 DEF PathInv

LEMMA PathGoesOn ==
  ASSUME PathInv, [PathNext]_path
  PROVE  PathInv' /\ [Exact]_path
<1>1. CASE Clock
  BY <1>1, ClockStep
<1>2. ASSUME NEW virtual \in BOOLEAN,
             NEW vpn1 \in Index, NEW vpn0 \in Index, NEW offset \in Index,
             NEW we \in SUBSET (1 .. 4), NEW data \in [1 .. 4 -> Nat],
             we # {} => data \in Words,
             Start(virtual, vpn1, vpn0, offset, we, data)
      PROVE  PathInv' /\ [Exact]_path
  <2>1. PathInv'
    BY <1>2, StartStep
  <2>2. Exact
    BY <1>2 DEF Start, Exact
  <2> QED
    BY <2>1, <2>2
<1>3. CASE UNCHANGED path
  <2>1. req' = req /\ vma' = vma /\ sram' = sram /\ chip' = chip /\ before' = before
    BY <1>3 DEF path
  <2>2. Types' <=> Types
    BY <2>1 DEF Types
  <2>3. \A k, s : Walk(k, s)' <=> Walk(k, s)
    BY <2>1 DEF Walk
  <2>4. \A x : Control(x)' <=> Control(x)
    BY <2>1 DEF Control
  <2>5. Entry(before)' = Entry(before) /\ Leaf(before)' = Leaf(before)
    BY <2>1 DEF Entry, Leaf
  <2>6. \A k : Old(k)' = Old(k) /\ New(k)' = New(k) /\ HalfStored(k)' = HalfStored(k)
    BY <2>1 DEF WordAt, Old, New, HalfStored, Entry, Leaf
  <2>7. \A k : Going(k)' <=> Going(k)
    BY <2>1, <2>5 DEF Going, Walked
  <2>8. (Idle' <=> Idle) /\ (Started' <=> Started) /\ (Faulted' <=> Faulted)
    BY <2>1, <2>3, <2>4, <2>5 DEF Idle, Started, Faulted, Mapped
  <2>9. ASSUME NEW k \in 0 .. 3
        PROVE  /\ Strobed(k)' <=> Strobed(k)
               /\ Reading(k)' <=> Reading(k)
               /\ StoreLow(k)' <=> StoreLow(k)
               /\ StoreWait(k)' <=> StoreWait(k)
               /\ StoreHigh(k)' <=> StoreHigh(k)
    BY <2>1, <2>3, <2>4, <2>6, <2>7
       DEF Strobed, Reading, StoreLow, StoreWait, StoreHigh, Storing, LastOne
  <2>10. PathInv'
    BY <2>2, <2>8, <2>9 DEF PathInv
  <2> QED
    BY <1>3, <2>10
<1>4. NoAccess.data \in [1 .. 4 -> Nat] /\ {} \in SUBSET (1 .. 4)
  BY DEF NoAccess
<1>5. /\ \A we \in Lanes : we \in SUBSET (1 .. 4)
      /\ \A data \in Word : data \in Words /\ data \in [1 .. 4 -> Nat]
  BY MemoryPathAssumption DEF Words
<1>6. CASE \E virtual \in BOOLEAN, vpn1, vpn0, offset \in Index :
             \/ Start(virtual, vpn1, vpn0, offset, {}, NoAccess.data)
             \/ \E we \in Lanes, data \in Word : Start(virtual, vpn1, vpn0, offset, we, data)
  BY <1>2, <1>4, <1>5, <1>6
<1> QED
  BY <1>1, <1>3, <1>6 DEF PathNext

\* At every state of every access the registers are in one of its phases.
THEOREM PathInvHolds == PathSpec => []PathInv
<1>1. PathInv /\ [PathNext]_path => PathInv'
  BY PathGoesOn
<1> QED
  BY <1>1, PathStarts, PTL DEF PathSpec

\* The devices are quiet between two accesses.
THEOREM PathTypesHold == PathSpec => []PathTypeOK
<1>1. PathInv => PathTypeOK
  BY DEF PathInv, Types, PathTypeOK, Idle, Started, Faulted, Strobed, Reading, StoreLow,
         StoreWait, StoreHigh, Storing, Going, Walk, Control
<1> QED
  BY <1>1, PathInvHolds, PTL

\* An acknowledged access got, or changed, just the word its address stands
\* for, and one whose page is not mapped changes nothing and is not acknowledged.
THEOREM AccessIsExact == PathSpec => AccessExact
<1>1. PathInv /\ [PathNext]_path => [Exact]_path
  BY PathGoesOn
<1> QED
  BY <1>1, PathInvHolds, PTL DEF PathSpec, AccessExact, Exact

(*****************************************************************************)
(* Pages and address spaces.                                                 *)
(*****************************************************************************)

(*****************************************************************************)
(* Induction and recursion over the natural numbers.                         *)
(*****************************************************************************)

\* A set of natural numbers that is not empty has a least element.
LEMMA LeastOf ==
  ASSUME NEW T \in SUBSET Nat, T # {}
  PROVE  \E x \in T : \A y \in T : x <= y
<1>1. \E x \in T : \A y \in T : ~(<<y, x>> \in OpToRel(<, Nat))
  BY NatLessThanWellFounded, WFMin
<1>2. PICK x \in T : \A y \in T : ~(<<y, x>> \in OpToRel(<, Nat))
  BY <1>1
<1>3. \A y \in T : ~(y < x)
  BY <1>2 DEF OpToRel
<1>4. x \in Nat /\ \A y \in T : y \in Nat /\ (~(y < x) => x <= y)
  OBVIOUS
<1> QED
  BY <1>2, <1>3, <1>4

\* Induction, with the formula as a set of numbers.
LEMMA Induction ==
  ASSUME NEW S, 0 \in S, \A n \in Nat : n \in S => n + 1 \in S
  PROVE  Nat \subseteq S
<1> DEFINE T == Nat \ S
<1>1. SUFFICES ASSUME T # {} PROVE FALSE
  OBVIOUS
<1>2. PICK x \in T : \A y \in T : x <= y
  BY <1>1, LeastOf
<1>3. x \in Nat \ {0} /\ x - 1 \in Nat /\ x - 1 \notin T
  BY <1>2
<1> QED
  BY <1>2, <1>3

\* What every step of a run keeps holds at each point of it.
LEMMA Steps ==
  ASSUME NEW N \in Nat, NEW P, NEW f, f[0] \in P[0],
         \A n \in 1..N : f[n - 1] \in P[n - 1] => f[n] \in P[n]
  PROVE  \A n \in 0..N : f[n] \in P[n]
<1> DEFINE T == {n \in Nat : n <= N => f[n] \in P[n]}
<1>1. 0 \in T
  OBVIOUS
<1>2. ASSUME NEW n \in Nat, n \in T PROVE n + 1 \in T
  <2> SUFFICES ASSUME n + 1 <= N PROVE f[n + 1] \in P[n + 1]
    OBVIOUS
  <2>1. n + 1 \in 1..N /\ (n + 1) - 1 = n /\ f[n] \in P[n]
    BY <1>2
  <2>2. f[(n + 1) - 1] \in P[(n + 1) - 1] => f[n + 1] \in P[n + 1]
    BY <2>1
  <2> QED
    BY <2>1, <2>2
<1>3. Nat \subseteq T
  <2> HIDE DEF T
  <2> QED BY <1>1, <1>2, Induction
<1> QED
  BY <1>3

\* g has the states of S that the functions d lead to from x, one by one.
IsRun(g, S, x, N, d) ==
  g \in [0..N -> S] /\ g[0] = x /\ \A n \in 1..N : g[n] = d[n][g[n - 1]]
Transitions(S, N) == [1..N -> [S -> S]]

\* A loop of N steps has a run, so a recursive function a value.
LEMMA Iteration ==
  ASSUME NEW S, NEW x \in S, NEW N \in Nat, NEW d \in Transitions(S, N)
  PROVE  \E g : IsRun(g, S, x, N, d)
<1>0. d \in [1..N -> [S -> S]]
  BY DEF Transitions
<1> DEFINE Reached(m) == m <= N => \E g \in [0..m -> S] :
                        g[0] = x /\ \A n \in 1..m : g[n] = d[n][g[n - 1]]
           T == {m \in Nat : Reached(m)}
<1>1. 0 \in T
  <2>1. /\ [n \in 0..0 |-> x] \in [0..0 -> S] /\ [n \in 0..0 |-> x][0] = x
        /\ 1..0 = {}
    OBVIOUS
  <2> QED
    BY <2>1
<1>2. ASSUME NEW m \in Nat, m \in T PROVE m + 1 \in T
  <2> SUFFICES ASSUME m + 1 <= N
               PROVE  \E g \in [0..m + 1 -> S] :
                        g[0] = x /\ \A n \in 1..m + 1 : g[n] = d[n][g[n - 1]]
    OBVIOUS
  <2>1. PICK g \in [0..m -> S] : g[0] = x /\ \A n \in 1..m : g[n] = d[n][g[n - 1]]
    BY <1>2
  <2> DEFINE h == [n \in 0..m + 1 |-> IF n = m + 1 THEN d[n][g[m]] ELSE g[n]]
  <2>2. h \in [0..m + 1 -> S]
    BY <1>0, <2>1
  <2>3. h[0] = x
    BY <2>1
  <2>4. ASSUME NEW n \in 1..m + 1 PROVE h[n] = d[n][h[n - 1]]
    BY <2>1
  <2> QED
    BY <2>2, <2>3, <2>4
<1>3. Nat \subseteq T
  <2> HIDE DEF T
  <2> QED BY <1>1, <1>2, Induction
<1>4. N <= N => \E g \in [0..N -> S] : g[0] = x /\ \A n \in 1..N : g[n] = d[n][g[n - 1]]
  BY <1>3
<1>5. PICK g \in [0..N -> S] : g[0] = x /\ \A n \in 1..N : g[n] = d[n][g[n - 1]]
  BY <1>4
<1> QED
  BY <1>5 DEF IsRun

\* Functions that agree everywhere are equal.
LEMMA SameFunction ==
  ASSUME NEW D, NEW R, NEW f \in [D -> R], NEW g \in [D -> R], \A x \in D : f[x] = g[x]
  PROVE  f = g
<1>1. f = [x \in D |-> f[x]] /\ g = [x \in D |-> g[x]]
  OBVIOUS
<1> QED
  BY <1>1

(*****************************************************************************)
(* Pages, places and who holds what.                                         *)
(*****************************************************************************)

Spaces ==
  [root : Page \cup {0}, tabs : [Tab -> Page \cup {0}],
   leaf : [Vpn -> Page \cup {0, KernelText}],
   guard : SUBSET Vpn, tf : Page \cup {0}, sz : Nat]
Works ==
  [free : SUBSET Page, sp : Spaces, ok : BOOLEAN, bad : {""}, op : Int]

\* The pages of a space as a function of their places.
PagesOf(sp) == [x \in Place |-> PageIn(sp, x)]
Maps == [Place -> Page \cup {0, KernelText}]
Held(f) == {f[x] : x \in Place} \cap Page
Once(f) == \A x, y \in Place : f[x] \in Page /\ f[x] = f[y] => x = y

\* The call w has the pages T: free ones, and those that its space holds, each
\* in one place.
Owns(free, f, T) ==
  /\ free \subseteq Page /\ T \subseteq Page /\ Once(f)
  /\ \A pg \in Page : /\ pg \in T <=> (pg \in free \/ pg \in Held(f))
                      /\ ~(pg \in free /\ pg \in Held(f))
Good(w, T) == w \in Works /\ Owns(w.free, PagesOf(w.sp), T)

LEMMA Constants ==
  /\ Page \subseteq Nat \ {0} /\ 0 \notin Page /\ KernelText \notin Page
  /\ KernelText # 0 /\ MaxPages \in Nat /\ TrapFrame = MaxPages
  /\ Trampoline = MaxPages + 1 /\ TrapFrame \in Vpn /\ Trampoline \in Vpn
  /\ \A v \in Vpn : TabOf(v) \in Tab
  /\ TabOf(TrapFrame) = MaxPages /\ TabOf(Trampoline) = MaxPages
  /\ MaxPages \in Tab
  /\ Vpn = 0..MaxPages + 1
<1>1. /\ Page \subseteq Nat \ {0} /\ 0 \notin Page /\ KernelText \notin Page
      /\ KernelText # 0 /\ MaxPages \in Nat /\ TrapFrame = MaxPages
      /\ Trampoline = MaxPages + 1 /\ Vpn = 0..MaxPages + 1
  BY MemoryAssumption DEF KernelText, TrapFrame, Trampoline, Vpn
<1>2. TrapFrame \in Vpn /\ Trampoline \in Vpn
  BY <1>1
<1>3. TabOf(TrapFrame) = MaxPages /\ TabOf(Trampoline) = MaxPages
  BY <1>1 DEF TabOf
<1>4. \A v \in Vpn : TabOf(v) \in Tab
  BY DEF Tab
<1> QED
  BY <1>1, <1>2, <1>3, <1>4

LEMMA Places ==
  /\ <<"root", 0>> \in Place /\ <<"tf", 0>> \in Place
  /\ \A t \in Tab : <<"table", t>> \in Place
  /\ \A v \in Vpn \ {TrapFrame} : <<"leaf", v>> \in Place
  /\ \A x \in Place : \/ x = <<"root", 0>> \/ x = <<"tf", 0>>
                      \/ \E t \in Tab : x = <<"table", t>>
                      \/ \E v \in Vpn \ {TrapFrame} : x = <<"leaf", v>>
  BY DEF Place

\* What is in each place.
LEMMA PagesAre ==
  ASSUME NEW sp \in Spaces
  PROVE  /\ PagesOf(sp)[<<"root", 0>>] = sp.root /\ PagesOf(sp)[<<"tf", 0>>] = sp.tf
         /\ \A t \in Tab : PagesOf(sp)[<<"table", t>>] = sp.tabs[t]
         /\ \A v \in Vpn \ {TrapFrame} : PagesOf(sp)[<<"leaf", v>>] = sp.leaf[v]
<1>1. PagesOf(sp)[<<"root", 0>>] = sp.root /\ PagesOf(sp)[<<"tf", 0>>] = sp.tf
  BY Places DEF PagesOf, PageIn
<1>2. ASSUME NEW t \in Tab PROVE PagesOf(sp)[<<"table", t>>] = sp.tabs[t]
  BY Places DEF PagesOf, PageIn
<1>3. ASSUME NEW v \in Vpn \ {TrapFrame} PROVE PagesOf(sp)[<<"leaf", v>>] = sp.leaf[v]
  BY Places DEF PagesOf, PageIn
<1> QED
  BY <1>1, <1>2, <1>3

LEMMA SpaceIs ==
  ASSUME NEW sp \in Spaces
  PROVE  /\ sp.root \in Page \cup {0} /\ sp.tf \in Page \cup {0}
         /\ sp.tabs \in [Tab -> Page \cup {0}]
         /\ sp.leaf \in [Vpn -> Page \cup {0, KernelText}]
         /\ sp.guard \in SUBSET Vpn /\ sp.sz \in Nat
  BY DEF Spaces

LEMMA PagesTyped ==
  ASSUME NEW sp \in Spaces
  PROVE  PagesOf(sp) \in Maps
<1>1. ASSUME NEW x \in Place PROVE PagesOf(sp)[x] \in Page \cup {0, KernelText}
  <2>1. CASE x = <<"root", 0>>
    BY <2>1, PagesAre, SpaceIs
  <2>2. CASE x = <<"tf", 0>>
    BY <2>2, PagesAre, SpaceIs
  <2>3. CASE \E t \in Tab : x = <<"table", t>>
    <3>1. PICK t \in Tab : x = <<"table", t>>
      BY <2>3
    <3>2. PagesOf(sp)[x] = sp.tabs[t] /\ sp.tabs[t] \in Page \cup {0}
      BY <3>1, PagesAre, SpaceIs
    <3> QED
      BY <3>2
  <2>4. CASE \E v \in Vpn \ {TrapFrame} : x = <<"leaf", v>>
    <3>1. PICK v \in Vpn \ {TrapFrame} : x = <<"leaf", v>>
      BY <2>4
    <3>2. PagesOf(sp)[x] = sp.leaf[v] /\ sp.leaf[v] \in Page \cup {0, KernelText}
      BY <3>1, PagesAre, SpaceIs
    <3> QED
      BY <3>2
  <2> QED
    BY <2>1, <2>2, <2>3, <2>4, Places
<1>2. PagesOf(sp) = [x \in Place |-> PagesOf(sp)[x]]
  BY DEF PagesOf
<1> QED
  BY <1>1, <1>2 DEF Maps

\* A space with the fields given, each of its type.
LEMMA SpaceMade ==
  ASSUME NEW root \in Page \cup {0}, NEW tabs \in [Tab -> Page \cup {0}],
         NEW leaf \in [Vpn -> Page \cup {0, KernelText}], NEW guard \in SUBSET Vpn,
         NEW tf \in Page \cup {0}, NEW sz \in Nat
  PROVE  [root |-> root, tabs |-> tabs, leaf |-> leaf, guard |-> guard, tf |-> tf, sz |-> sz]
           \in Spaces
  BY DEF Spaces

LEMMA SpacesEqual ==
  ASSUME NEW sp \in Spaces, NEW sq \in Spaces,
         sp.root = sq.root, sp.tabs = sq.tabs, sp.leaf = sq.leaf, sp.guard = sq.guard,
         sp.tf = sq.tf, sp.sz = sq.sz
  PROVE  sp = sq
  BY DEF Spaces

\* Pages in a place of their own, and places that are emptied.
LEMMA PutIn ==
  ASSUME NEW f \in Maps, Once(f), NEW x \in Place, f[x] \notin Page,
         NEW pg \in Page, pg \notin Held(f)
  PROVE  LET g == [f EXCEPT ![x] = pg]
         IN g \in Maps /\ Once(g) /\ Held(g) = Held(f) \cup {pg}
<1> DEFINE g == [f EXCEPT ![x] = pg]
<1>1. g \in Maps /\ g[x] = pg /\ \A y \in Place : y # x => g[y] = f[y]
  BY DEF Maps
<1>2. Once(g)
  BY <1>1 DEF Once, Held
<1>3. Held(g) = Held(f) \cup {pg}
  BY <1>1 DEF Held
<1> QED
  BY <1>1, <1>2, <1>3

LEMMA PutNone ==
  ASSUME NEW f \in Maps, Once(f), NEW x \in Place, f[x] \notin Page,
         NEW k \in {0, KernelText}
  PROVE  LET g == [f EXCEPT ![x] = k]
         IN g \in Maps /\ Once(g) /\ Held(g) = Held(f)
<1> DEFINE g == [f EXCEPT ![x] = k]
<1>1. g \in Maps /\ g[x] = k /\ \A y \in Place : y # x => g[y] = f[y]
  BY DEF Maps
<1>2. Once(g)
  BY <1>1, Constants DEF Once, Held
<1>3. Held(g) = Held(f)
  BY <1>1, Constants DEF Held
<1> QED
  BY <1>1, <1>2, <1>3

LEMMA Emptied ==
  ASSUME NEW f \in Maps, Once(f), NEW X \in SUBSET Place, NEW g \in Maps,
         \A x \in Place : g[x] = IF x \in X THEN 0 ELSE f[x]
  PROVE  Once(g) /\ Held(g) = Held(f) \ {f[x] : x \in X}
<1>1. Once(g)
  BY Constants DEF Once
<1>2. ASSUME NEW pg \in Held(g) PROVE pg \in Held(f) /\ pg \notin {f[x] : x \in X}
  <2>1. PICK y \in Place : pg = g[y] /\ pg \in Page
    BY DEF Held
  <2>2. y \notin X /\ g[y] = f[y]
    BY <2>1, Constants
  <2>3. \A x \in X : f[x] = pg => x = y
    BY <2>1, <2>2 DEF Once
  <2> QED
    BY <2>1, <2>2, <2>3 DEF Held
<1>3. ASSUME NEW pg \in Held(f), pg \notin {f[x] : x \in X} PROVE pg \in Held(g)
  BY <1>3 DEF Held
<1> QED
  BY <1>1, <1>2, <1>3

\* A function with the right page in every place is that of the space.
LEMMA SamePages ==
  ASSUME NEW sp \in Spaces, NEW f \in Maps,
         f[<<"root", 0>>] = sp.root, f[<<"tf", 0>>] = sp.tf,
         \A t \in Tab : f[<<"table", t>>] = sp.tabs[t],
         \A v \in Vpn \ {TrapFrame} : f[<<"leaf", v>>] = sp.leaf[v]
  PROVE  PagesOf(sp) = f
<1>1. ASSUME NEW x \in Place PROVE PagesOf(sp)[x] = f[x]
  BY Places, PagesAre
<1>2. PagesOf(sp) \in Maps
  BY PagesTyped
<1> QED
  BY <1>1, <1>2, SameFunction DEF Maps

\* A page put into an empty place, or taken from one, place by place.
LEMMA RootPut ==
  ASSUME NEW sp \in Spaces, NEW pg \in Page \cup {0}
  PROVE  LET sq == [sp EXCEPT !.root = pg]
         IN /\ sq \in Spaces
            /\ PagesOf(sq) = [PagesOf(sp) EXCEPT ![<<"root", 0>>] = pg]
<1> DEFINE sq == [sp EXCEPT !.root = pg]
           f == [PagesOf(sp) EXCEPT ![<<"root", 0>>] = pg]
<1>1. /\ sq \in Spaces /\ sq.root = pg /\ sq.tabs = sp.tabs /\ sq.leaf = sp.leaf
      /\ sq.tf = sp.tf
  BY DEF Spaces
<1>2. /\ f \in Maps /\ f[<<"root", 0>>] = pg
      /\ \A x \in Place : x # <<"root", 0>> => f[x] = PagesOf(sp)[x]
  BY PagesTyped, Places DEF Maps
<1> HIDE DEF sq, f
<1>3. /\ f[<<"tf", 0>>] = sq.tf /\ \A t \in Tab : f[<<"table", t>>] = sq.tabs[t]
      /\ \A v \in Vpn \ {TrapFrame} : f[<<"leaf", v>>] = sq.leaf[v]
  BY <1>1, <1>2, PagesAre, Places
<1>4. PagesOf(sq) = f
  BY <1>1, <1>2, <1>3, SamePages
<1> QED
  BY <1>1, <1>4 DEF sq, f

LEMMA TfPut ==
  ASSUME NEW sp \in Spaces, NEW pg \in Page \cup {0}
  PROVE  LET sq == [sp EXCEPT !.tf = pg]
         IN /\ sq \in Spaces
            /\ PagesOf(sq) = [PagesOf(sp) EXCEPT ![<<"tf", 0>>] = pg]
<1> DEFINE sq == [sp EXCEPT !.tf = pg]
           f == [PagesOf(sp) EXCEPT ![<<"tf", 0>>] = pg]
<1>1. /\ sq \in Spaces /\ sq.root = sp.root /\ sq.tabs = sp.tabs /\ sq.leaf = sp.leaf
      /\ sq.tf = pg
  BY DEF Spaces
<1>2. /\ f \in Maps /\ f[<<"tf", 0>>] = pg
      /\ \A x \in Place : x # <<"tf", 0>> => f[x] = PagesOf(sp)[x]
  BY PagesTyped, Places DEF Maps
<1> HIDE DEF sq, f
<1>3. /\ f[<<"root", 0>>] = sq.root /\ \A t \in Tab : f[<<"table", t>>] = sq.tabs[t]
      /\ \A v \in Vpn \ {TrapFrame} : f[<<"leaf", v>>] = sq.leaf[v]
  BY <1>1, <1>2, PagesAre, Places
<1>4. PagesOf(sq) = f
  BY <1>1, <1>2, <1>3, SamePages
<1> QED
  BY <1>1, <1>4 DEF sq, f

LEMMA TablePut ==
  ASSUME NEW sp \in Spaces, NEW t \in Tab, NEW pg \in Page \cup {0}
  PROVE  LET sq == [sp EXCEPT !.tabs[t] = pg]
         IN /\ sq \in Spaces
            /\ PagesOf(sq) = [PagesOf(sp) EXCEPT ![<<"table", t>>] = pg]
<1> DEFINE sq == [sp EXCEPT !.tabs[t] = pg]
           f == [PagesOf(sp) EXCEPT ![<<"table", t>>] = pg]
<1>1. /\ sq \in Spaces /\ sq.root = sp.root /\ sq.tabs = [sp.tabs EXCEPT ![t] = pg]
      /\ sq.leaf = sp.leaf /\ sq.tf = sp.tf
  BY DEF Spaces
<1>2. /\ f \in Maps /\ f[<<"table", t>>] = pg
      /\ \A x \in Place : x # <<"table", t>> => f[x] = PagesOf(sp)[x]
  BY PagesTyped, Places DEF Maps
<1> HIDE DEF sq, f
<1>3. f[<<"root", 0>>] = sq.root /\ f[<<"tf", 0>>] = sq.tf
  BY <1>1, <1>2, PagesAre, Places
<1>4. ASSUME NEW u \in Tab PROVE f[<<"table", u>>] = sq.tabs[u]
  <2>1. sq.tabs[u] = IF u = t THEN pg ELSE sp.tabs[u]
    BY <1>1, SpaceIs
  <2> QED
    BY <1>2, <2>1, PagesAre, Places
<1>5. ASSUME NEW v \in Vpn \ {TrapFrame} PROVE f[<<"leaf", v>>] = sq.leaf[v]
  <2>1. <<"leaf", v>> \in Place /\ <<"leaf", v>> # <<"table", t>>
    BY Places
  <2> QED
    BY <1>1, <1>2, <2>1, PagesAre
<1>6. PagesOf(sq) = f
  BY <1>1, <1>2, <1>3, <1>4, <1>5, SamePages
<1> QED
  BY <1>1, <1>6 DEF sq, f

LEMMA LeafPut ==
  ASSUME NEW sp \in Spaces, NEW v \in Vpn \ {TrapFrame}, NEW pg \in Page \cup {0, KernelText}
  PROVE  LET sq == [sp EXCEPT !.leaf[v] = pg]
         IN /\ sq \in Spaces
            /\ PagesOf(sq) = [PagesOf(sp) EXCEPT ![<<"leaf", v>>] = pg]
<1> DEFINE sq == [sp EXCEPT !.leaf[v] = pg]
           f == [PagesOf(sp) EXCEPT ![<<"leaf", v>>] = pg]
<1>1. /\ sq \in Spaces /\ sq.root = sp.root /\ sq.tabs = sp.tabs
      /\ sq.leaf = [sp.leaf EXCEPT ![v] = pg] /\ sq.tf = sp.tf
  BY DEF Spaces
<1>2. /\ f \in Maps /\ f[<<"leaf", v>>] = pg
      /\ \A x \in Place : x # <<"leaf", v>> => f[x] = PagesOf(sp)[x]
  BY PagesTyped, Places DEF Maps
<1> HIDE DEF sq, f
<1>3. /\ f[<<"root", 0>>] = sq.root /\ f[<<"tf", 0>>] = sq.tf
      /\ \A t \in Tab : f[<<"table", t>>] = sq.tabs[t]
  BY <1>1, <1>2, PagesAre, Places
<1>4. ASSUME NEW u \in Vpn \ {TrapFrame} PROVE f[<<"leaf", u>>] = sq.leaf[u]
  <2>1. sq.leaf[u] = IF u = v THEN pg ELSE sp.leaf[u]
    BY <1>1, SpaceIs
  <2> QED
    BY <1>2, <2>1, PagesAre, Places
<1>6. PagesOf(sq) = f
  BY <1>1, <1>2, <1>3, <1>4, SamePages
<1> QED
  BY <1>1, <1>6 DEF sq, f

\* What does not count as a place: the leaf of the trapframe, the size and the
\* guard pages.
LEMMA NotAPlace ==
  ASSUME NEW sp \in Spaces, NEW sq \in Spaces,
         sq.root = sp.root, sq.tabs = sp.tabs, sq.tf = sp.tf,
         \A v \in Vpn \ {TrapFrame} : sq.leaf[v] = sp.leaf[v]
  PROVE  PagesOf(sq) = PagesOf(sp)
<1>1. PagesOf(sp) \in Maps
  BY PagesTyped
<1>2. /\ PagesOf(sp)[<<"root", 0>>] = sq.root /\ PagesOf(sp)[<<"tf", 0>>] = sq.tf
      /\ \A t \in Tab : PagesOf(sp)[<<"table", t>>] = sq.tabs[t]
      /\ \A v \in Vpn \ {TrapFrame} : PagesOf(sp)[<<"leaf", v>>] = sq.leaf[v]
  BY PagesAre
<1> QED
  BY <1>1, <1>2, SamePages

(*****************************************************************************)
(* kalloc() and kfree().                                                     *)
(*****************************************************************************)

LEMMA HeadIs ==
  ASSUME NEW free \in SUBSET Page
  PROVE  /\ free = {} => Head0(free) = 0
         /\ free # {} => Head0(free) \in free /\ Head0(free) # 0
<1>1. ASSUME free # {} PROVE Head0(free) \in free
  <2>1. free \in SUBSET Nat
    BY Constants
  <2>2. \E pg \in free : \A q \in free : pg <= q
    BY <1>1, <2>1, LeastOf
  <2> QED
    BY <1>1, <2>2 DEF Head0
<1> QED
  BY <1>1, Constants DEF Head0

\* The outcome of a call is not changed, nor the count of its transactions.
Same(x, w) == x.ok = w.ok /\ x.op = w.op

LEMMA GoodIs ==
  ASSUME NEW w, NEW T, Good(w, T)
  PROVE  /\ w \in Works /\ w.free \in SUBSET Page /\ w.sp \in Spaces /\ w.ok \in BOOLEAN
         /\ w.bad = "" /\ w.op \in Int /\ T \in SUBSET Page
         /\ PagesOf(w.sp) \in Maps /\ Owns(w.free, PagesOf(w.sp), T)
<1>1. w \in Works /\ Owns(w.free, PagesOf(w.sp), T)
  BY DEF Good
<1>2. /\ w.free \in SUBSET Page /\ w.sp \in Spaces /\ w.ok \in BOOLEAN /\ w.bad = ""
      /\ w.op \in Int
  BY <1>1 DEF Works
<1>3. PagesOf(w.sp) \in Maps
  BY <1>2, PagesTyped
<1> QED
  BY <1>1, <1>2, <1>3 DEF Owns

Work5(free, sp, ok, bad, op) == [free |-> free, sp |-> sp, ok |-> ok, bad |-> bad, op |-> op]

LEMMA GoodMade ==
  ASSUME NEW free, NEW sp \in Spaces, NEW ok \in BOOLEAN, NEW op \in Int,
         NEW T, Owns(free, PagesOf(sp), T), NEW x, x = Work5(free, sp, ok, "", op)
  PROVE  Good(x, T)
<1>1. x \in Works /\ x.free = free /\ x.sp = sp
  BY DEF Works, Work5, Owns
<1> QED
  BY <1>1 DEF Good

\* A record of a call with another field.
LEMMA Fields ==
  ASSUME NEW w \in Works, NEW y
  PROVE  /\ [w EXCEPT !.free = y] = Work5(y, w.sp, w.ok, "", w.op)
         /\ [w EXCEPT !.sp = y] = Work5(w.free, y, w.ok, "", w.op)
         /\ [w EXCEPT !.ok = y] = Work5(w.free, w.sp, y, "", w.op)
         /\ [w EXCEPT !.op = y] = Work5(w.free, w.sp, w.ok, "", y)
<1>1. w = [free |-> w.free, sp |-> w.sp, ok |-> w.ok, bad |-> w.bad, op |-> w.op] /\ w.bad = ""
  BY DEF Works
<1>2. PICK a, b, c, d, e : a = w.free /\ b = w.sp /\ c = w.ok /\ d = w.bad /\ e = w.op
  OBVIOUS
<1>3. w = [free |-> a, sp |-> b, ok |-> c, bad |-> d, op |-> e]
  BY <1>1, <1>2
<1>4. [w EXCEPT !.free = y] = [free |-> y, sp |-> b, ok |-> c, bad |-> d, op |-> e]
  BY ONLY <1>3
<1>6. [w EXCEPT !.sp = y] = [free |-> a, sp |-> y, ok |-> c, bad |-> d, op |-> e]
  BY ONLY <1>3
<1>7. [w EXCEPT !.ok = y] = [free |-> a, sp |-> b, ok |-> y, bad |-> d, op |-> e]
  BY ONLY <1>3
<1>8. [w EXCEPT !.op = y] = [free |-> a, sp |-> b, ok |-> c, bad |-> d, op |-> y]
  BY ONLY <1>3
<1>5. /\ [w EXCEPT !.free = y] = Work5(y, b, c, d, e)
      /\ [w EXCEPT !.sp = y] = Work5(a, y, c, d, e)
      /\ [w EXCEPT !.ok = y] = Work5(a, b, y, d, e)
      /\ [w EXCEPT !.op = y] = Work5(a, b, c, d, y)
  BY ONLY <1>4, <1>6, <1>7, <1>8 DEF Work5
<1> QED
  BY ONLY <1>1, <1>2, <1>5

\* A record of a call with another field of its space.
LEMMA RootField ==
  ASSUME NEW w \in Works, NEW y
  PROVE  [w EXCEPT !.sp.root = y] = Work5(w.free, [w.sp EXCEPT !.root = y], w.ok, "", w.op)
<1>1. w = [free |-> w.free, sp |-> w.sp, ok |-> w.ok, bad |-> w.bad, op |-> w.op] /\ w.bad = ""
  BY DEF Works
<1>2. PICK a, b, c, d, e : a = w.free /\ b = w.sp /\ c = w.ok /\ d = w.bad /\ e = w.op
  OBVIOUS
<1>3. w = [free |-> a, sp |-> b, ok |-> c, bad |-> d, op |-> e]
  BY <1>1, <1>2
<1>4. [w EXCEPT !.sp.root = y]
        = [free |-> a, sp |-> [b EXCEPT !.root = y], ok |-> c, bad |-> d, op |-> e]
  BY ONLY <1>3
<1>5. [w EXCEPT !.sp.root = y] = Work5(a, [b EXCEPT !.root = y], c, d, e)
  BY ONLY <1>4 DEF Work5
<1> QED
  BY ONLY <1>1, <1>2, <1>5

LEMMA TfField ==
  ASSUME NEW w \in Works, NEW y
  PROVE  [w EXCEPT !.sp.tf = y] = Work5(w.free, [w.sp EXCEPT !.tf = y], w.ok, "", w.op)
<1>1. w = [free |-> w.free, sp |-> w.sp, ok |-> w.ok, bad |-> w.bad, op |-> w.op] /\ w.bad = ""
  BY DEF Works
<1>2. PICK a, b, c, d, e : a = w.free /\ b = w.sp /\ c = w.ok /\ d = w.bad /\ e = w.op
  OBVIOUS
<1>3. w = [free |-> a, sp |-> b, ok |-> c, bad |-> d, op |-> e]
  BY <1>1, <1>2
<1>4. [w EXCEPT !.sp.tf = y]
        = [free |-> a, sp |-> [b EXCEPT !.tf = y], ok |-> c, bad |-> d, op |-> e]
  BY ONLY <1>3
<1>5. [w EXCEPT !.sp.tf = y] = Work5(a, [b EXCEPT !.tf = y], c, d, e)
  BY ONLY <1>4 DEF Work5
<1> QED
  BY ONLY <1>1, <1>2, <1>5

LEMMA SzField ==
  ASSUME NEW w \in Works, NEW y
  PROVE  [w EXCEPT !.sp.sz = y] = Work5(w.free, [w.sp EXCEPT !.sz = y], w.ok, "", w.op)
<1>1. w = [free |-> w.free, sp |-> w.sp, ok |-> w.ok, bad |-> w.bad, op |-> w.op] /\ w.bad = ""
  BY DEF Works
<1>2. PICK a, b, c, d, e : a = w.free /\ b = w.sp /\ c = w.ok /\ d = w.bad /\ e = w.op
  OBVIOUS
<1>3. w = [free |-> a, sp |-> b, ok |-> c, bad |-> d, op |-> e]
  BY <1>1, <1>2
<1>4. [w EXCEPT !.sp.sz = y]
        = [free |-> a, sp |-> [b EXCEPT !.sz = y], ok |-> c, bad |-> d, op |-> e]
  BY ONLY <1>3
<1>5. [w EXCEPT !.sp.sz = y] = Work5(a, [b EXCEPT !.sz = y], c, d, e)
  BY ONLY <1>4 DEF Work5
<1> QED
  BY ONLY <1>1, <1>2, <1>5

LEMMA GuardField ==
  ASSUME NEW w \in Works, NEW y
  PROVE  [w EXCEPT !.sp.guard = y] = Work5(w.free, [w.sp EXCEPT !.guard = y], w.ok, "", w.op)
<1>1. w = [free |-> w.free, sp |-> w.sp, ok |-> w.ok, bad |-> w.bad, op |-> w.op] /\ w.bad = ""
  BY DEF Works
<1>2. PICK a, b, c, d, e : a = w.free /\ b = w.sp /\ c = w.ok /\ d = w.bad /\ e = w.op
  OBVIOUS
<1>3. w = [free |-> a, sp |-> b, ok |-> c, bad |-> d, op |-> e]
  BY <1>1, <1>2
<1>4. [w EXCEPT !.sp.guard = y]
        = [free |-> a, sp |-> [b EXCEPT !.guard = y], ok |-> c, bad |-> d, op |-> e]
  BY ONLY <1>3
<1>5. [w EXCEPT !.sp.guard = y] = Work5(a, [b EXCEPT !.guard = y], c, d, e)
  BY ONLY <1>4 DEF Work5
<1> QED
  BY ONLY <1>1, <1>2, <1>5

LEMMA TabsField ==
  ASSUME NEW w \in Works, NEW t, NEW y
  PROVE  [w EXCEPT !.sp.tabs[t] = y] = Work5(w.free, [w.sp EXCEPT !.tabs[t] = y], w.ok, "", w.op)
<1>1. w = [free |-> w.free, sp |-> w.sp, ok |-> w.ok, bad |-> w.bad, op |-> w.op] /\ w.bad = ""
  BY DEF Works
<1>2. PICK a, b, c, d, e : a = w.free /\ b = w.sp /\ c = w.ok /\ d = w.bad /\ e = w.op
  OBVIOUS
<1>3. w = [free |-> a, sp |-> b, ok |-> c, bad |-> d, op |-> e]
  BY <1>1, <1>2
<1>4. [w EXCEPT !.sp.tabs[t] = y]
        = [free |-> a, sp |-> [b EXCEPT !.tabs[t] = y], ok |-> c, bad |-> d, op |-> e]
  BY ONLY <1>3
<1>5. [w EXCEPT !.sp.tabs[t] = y] = Work5(a, [b EXCEPT !.tabs[t] = y], c, d, e)
  BY ONLY <1>4 DEF Work5
<1> QED
  BY ONLY <1>1, <1>2, <1>5

LEMMA LeafField ==
  ASSUME NEW w \in Works, NEW v, NEW y
  PROVE  [w EXCEPT !.sp.leaf[v] = y] = Work5(w.free, [w.sp EXCEPT !.leaf[v] = y], w.ok, "", w.op)
<1>1. w = [free |-> w.free, sp |-> w.sp, ok |-> w.ok, bad |-> w.bad, op |-> w.op] /\ w.bad = ""
  BY DEF Works
<1>2. PICK a, b, c, d, e : a = w.free /\ b = w.sp /\ c = w.ok /\ d = w.bad /\ e = w.op
  OBVIOUS
<1>3. w = [free |-> a, sp |-> b, ok |-> c, bad |-> d, op |-> e]
  BY <1>1, <1>2
<1>4. [w EXCEPT !.sp.leaf[v] = y]
        = [free |-> a, sp |-> [b EXCEPT !.leaf[v] = y], ok |-> c, bad |-> d, op |-> e]
  BY ONLY <1>3
<1>5. [w EXCEPT !.sp.leaf[v] = y] = Work5(a, [b EXCEPT !.leaf[v] = y], c, d, e)
  BY ONLY <1>4 DEF Work5
<1> QED
  BY ONLY <1>1, <1>2, <1>5

\* Pages taken from the free ones and given to them.
LEMMA OwnsTake ==
  ASSUME NEW free, NEW f, NEW T, Owns(free, f, T), NEW pg \in free
  PROVE  Owns(free \ {pg}, f, T \ {pg}) /\ pg \in T /\ pg \notin Held(f)
  BY DEF Owns

LEMMA OwnsGive ==
  ASSUME NEW free, NEW f, NEW T, Owns(free, f, T), NEW pg \in Page, pg \notin T
  PROVE  Owns(free \cup {pg}, f, T \cup {pg}) /\ pg \notin free /\ pg \notin Held(f)
  BY DEF Owns

\* A page, or what is none, in a place where no page was; places emptied.
LEMMA OwnsPut ==
  ASSUME NEW free, NEW f \in Maps, NEW T, Owns(free, f, T),
         NEW x \in Place, f[x] \notin Page, NEW pg \in Page, pg \notin T
  PROVE  Owns(free, [f EXCEPT ![x] = pg], T \cup {pg})
<1>1. Once(f) /\ pg \notin Held(f)
  BY DEF Owns
<1>2. PICK g : g = [f EXCEPT ![x] = pg]
  OBVIOUS
<1>3. Once(g) /\ Held(g) = Held(f) \cup {pg}
  BY <1>1, <1>2, PutIn
<1>4. Owns(free, g, T \cup {pg})
  BY <1>3 DEF Owns
<1> QED
  BY <1>2, <1>4

LEMMA OwnsNone ==
  ASSUME NEW free, NEW f \in Maps, NEW T, Owns(free, f, T),
         NEW x \in Place, f[x] \notin Page, NEW k \in {0, KernelText}
  PROVE  Owns(free, [f EXCEPT ![x] = k], T)
<1>1. Once(f)
  BY DEF Owns
<1>2. PICK g : g = [f EXCEPT ![x] = k]
  OBVIOUS
<1>3. Once(g) /\ Held(g) = Held(f)
  BY <1>1, <1>2, PutNone
<1>4. Owns(free, g, T)
  BY <1>3 DEF Owns
<1> QED
  BY <1>2, <1>4

\* g is f without the pages in the places X.
PagesIn(f, X) == {f[x] : x \in X}
IsEmptied(g, f, X) ==
  /\ X \in SUBSET Place /\ \A x \in X : f[x] \in Page
  /\ g \in Maps /\ \A x \in Place : g[x] = IF x \in X THEN 0 ELSE f[x]

LEMMA OwnsEmptied ==
  ASSUME NEW free, NEW f \in Maps, NEW T, Owns(free, f, T),
         NEW X, NEW g, IsEmptied(g, f, X)
  PROVE  /\ PagesIn(f, X) \subseteq Page /\ PagesIn(f, X) \cap free = {}
         /\ Owns(free \cup PagesIn(f, X), g, T)
<1>1. Once(f)
  BY DEF Owns
<1>2. PICK pages : pages = PagesIn(f, X)
  OBVIOUS
<1>3. Once(g) /\ Held(g) = Held(f) \ pages
  BY <1>1, <1>2, Emptied DEF PagesIn, IsEmptied
<1>4. pages \subseteq Page /\ pages \subseteq Held(f)
  BY <1>2 DEF Held, PagesIn, IsEmptied
<1>5. pages \cap free = {}
  BY <1>4 DEF Owns
<1>6. Owns(free \cup pages, g, T)
  BY <1>3, <1>4 DEF Owns
<1> QED
  BY <1>2, <1>4, <1>5, <1>6

LEMMA KallocIs ==
  ASSUME NEW w, NEW T, Good(w, T), w.free # {}, NEW pg, pg = Head0(w.free),
         NEW x, x = Kalloc(w)
  PROVE  /\ pg \in T /\ pg \in Page /\ pg # 0 /\ pg \in w.free
         /\ Good(x, T \ {pg}) /\ x.sp = w.sp /\ Same(x, w) /\ x.free = w.free \ {pg}
<1>1. /\ w \in Works /\ w.free \in SUBSET Page /\ w.sp \in Spaces /\ w.ok \in BOOLEAN
      /\ w.op \in Int /\ T \in SUBSET Page /\ Owns(w.free, PagesOf(w.sp), T)
  BY GoodIs
<1>2. pg \in w.free /\ pg \in Page /\ pg # 0
  BY <1>1, HeadIs
<1>3. pg \in T /\ Owns(w.free \ {pg}, PagesOf(w.sp), T \ {pg})
  BY <1>1, <1>2, OwnsTake
<1>4. x = Work5(w.free \ {pg}, w.sp, w.ok, "", w.op)
  <2>1. x = [w EXCEPT !.free = w.free \ {pg}]
    BY DEF Kalloc
  <2> QED
    BY <1>1, <2>1, Fields
<1>5. Good(x, T \ {pg})
  <2>1. w.free \ {pg} \in SUBSET Page
    BY <1>1
  <2> QED
    BY ONLY <1>1, <1>3, <1>4, <2>1, GoodMade
<1>6. x.sp = w.sp /\ Same(x, w) /\ x.free = w.free \ {pg}
  BY ONLY <1>4 DEF Same, Work5
<1> QED
  BY <1>2, <1>3, <1>5, <1>6

LEMMA KfreeIs ==
  ASSUME NEW w, NEW T, Good(w, T), NEW pg \in Page, pg \notin T, NEW x, x = Kfree(w, pg)
  PROVE  /\ Good(x, T \cup {pg}) /\ x.sp = w.sp /\ Same(x, w)
         /\ x.free = w.free \cup {pg}
<1>1. /\ w \in Works /\ w.free \in SUBSET Page /\ w.sp \in Spaces /\ w.ok \in BOOLEAN
      /\ w.op \in Int /\ T \in SUBSET Page /\ Owns(w.free, PagesOf(w.sp), T)
  BY GoodIs
<1>2. Owns(w.free \cup {pg}, PagesOf(w.sp), T \cup {pg}) /\ pg \notin w.free
  BY <1>1, OwnsGive
<1>3. x = Work5(w.free \cup {pg}, w.sp, w.ok, "", w.op)
  <2>1. x = [w EXCEPT !.free = w.free \cup {pg}]
    BY <1>2 DEF Kfree
  <2> QED
    BY <1>1, <2>1, Fields
<1>4. Good(x, T \cup {pg})
  <2>1. w.free \cup {pg} \in SUBSET Page
    BY <1>1
  <2> QED
    BY ONLY <1>1, <1>2, <1>3, <2>1, GoodMade
<1>5. x.sp = w.sp /\ Same(x, w) /\ x.free = w.free \cup {pg}
  BY ONLY <1>3 DEF Same, Work5
<1> QED
  BY <1>4, <1>5

(*****************************************************************************)
(* The shape of an address space, and the functions of vm.c that grow it.    *)
(*****************************************************************************)

\* n pages are mapped from 0, and the two at the top.
Built(sp, n) ==
  /\ n \in 0..MaxPages /\ sp.root \in Page /\ sp.guard \subseteq 0..n - 1
  /\ sp.leaf[TrapFrame] \in Page /\ sp.leaf[Trampoline] = KernelText
  /\ sp.tabs[MaxPages] # 0
  /\ \A v \in 0..n - 1 : sp.leaf[v] \in Page /\ sp.tabs[TabOf(v)] # 0
  /\ \A v \in n..MaxPages - 1 : sp.leaf[v] = 0
Shape(sp, n) == Built(sp, n) /\ sp.leaf[TrapFrame] = sp.tf

\* What the growing of a space leaves as it was.
Kept(sq, sp) ==
  /\ sq.root = sp.root /\ sq.guard = sp.guard /\ sq.tf = sp.tf /\ sq.sz = sp.sz
  /\ \A t \in Tab : sp.tabs[t] # 0 => sq.tabs[t] # 0

LEMMA FailIs ==
  ASSUME NEW w, NEW T, Good(w, T), NEW x, x = Fail(w)
  PROVE  /\ Good(x, T) /\ x.sp = w.sp /\ x.free = w.free /\ x.op = w.op /\ ~x.ok
         /\ x = Work5(w.free, w.sp, FALSE, "", w.op)
<1>1. /\ w \in Works /\ w.free \in SUBSET Page /\ w.sp \in Spaces
      /\ w.op \in Int /\ Owns(w.free, PagesOf(w.sp), T)
  BY GoodIs
<1>2. x = Work5(w.free, w.sp, FALSE, "", w.op)
  BY <1>1, Fields DEF Fail
<1>3. Good(x, T)
  <2>1. FALSE \in BOOLEAN
    OBVIOUS
  <2> QED
    BY ONLY <1>1, <1>2, <2>1, GoodMade
<1>4. x.sp = w.sp /\ x.free = w.free /\ x.op = w.op /\ ~x.ok
  BY ONLY <1>2 DEF Work5
<1> QED
  BY <1>2, <1>3, <1>4

\* walk() that found a table or a page for one.
LEMMA WalkAllocIs ==
  ASSUME NEW w, NEW T, Good(w, T), NEW v \in Vpn, NEW x, x = WalkAlloc(w, v),
         x.sp.tabs[TabOf(v)] # 0
  PROVE  Good(x, T) /\ Same(x, w) /\ Kept(x.sp, w.sp) /\ x.sp.leaf = w.sp.leaf
<1> DEFINE t == TabOf(v)
<1>1. t \in Tab
  BY Constants
<1> HIDE DEF t
<1>2. CASE w.sp.tabs[t] # 0
  BY <1>2 DEF WalkAlloc, Same, Kept, t
<1>3. CASE w.sp.tabs[t] = 0
  <2>1. PICK pg, y : pg = Head0(w.free) /\ y = Kalloc(w)
    OBVIOUS
  <2>2. x = [y EXCEPT !.sp.tabs[t] = pg]
    BY <1>3, <2>1 DEF WalkAlloc, t
  <2>3. w \in Works /\ w.free \in SUBSET Page /\ w.sp \in Spaces
    BY GoodIs
  <2>4. y \in Works /\ y.sp = w.sp
    <3>1. y = Work5(w.free \ {pg}, w.sp, w.ok, "", w.op)
      BY <2>1, <2>3, Fields DEF Kalloc
    <3>2. w.free \ {pg} \in SUBSET Page /\ w.ok \in BOOLEAN /\ w.op \in Int
      BY <2>3, GoodIs
    <3> QED
      BY ONLY <2>3, <3>1, <3>2 DEF Works, Work5
  <2>5. PICK sq : sq = [w.sp EXCEPT !.tabs[t] = pg]
    OBVIOUS
  <2>6. x = Work5(y.free, sq, y.ok, "", y.op)
    <3>1. [y EXCEPT !.sp.tabs[t] = pg]
            = Work5(y.free, [y.sp EXCEPT !.tabs[t] = pg], y.ok, "", y.op)
      BY <2>4, TabsField
    <3> QED
      BY ONLY <2>2, <2>4, <2>5, <3>1
  <2>7. x.sp = sq /\ x.free = y.free /\ Same(x, y)
    BY ONLY <2>6 DEF Work5, Same
  <2>8. sq.tabs[t] = pg
    BY <1>1, <2>3, <2>5 DEF Spaces
  <2>9. w.free # {}
    <3>1. pg # 0
      BY <2>7, <2>8 DEF t
    <3> QED
      BY <2>1, <2>3, <3>1, HeadIs
  <2>10. pg \in T /\ pg \in Page /\ pg # 0 /\ Good(y, T \ {pg}) /\ Same(y, w)
    BY <2>1, <2>9, KallocIs
  <2>11. /\ sq \in Spaces /\ sq.root = w.sp.root /\ sq.guard = w.sp.guard
         /\ sq.tf = w.sp.tf /\ sq.sz = w.sp.sz /\ sq.leaf = w.sp.leaf
         /\ sq.tabs = [w.sp.tabs EXCEPT ![t] = pg]
    BY <1>1, <2>3, <2>5, <2>10 DEF Spaces
  <2>12. Kept(sq, w.sp)
    BY <1>1, <2>3, <2>10, <2>11, SpaceIs DEF Kept
  <2>13. Owns(y.free, PagesOf(sq), T)
    <3>1. /\ y.free \in SUBSET Page /\ PagesOf(w.sp) \in Maps
          /\ Owns(y.free, PagesOf(w.sp), T \ {pg})
      BY <2>4, <2>10, GoodIs
    <3>2. PagesOf(w.sp)[<<"table", t>>] \notin Page /\ <<"table", t>> \in Place
      BY <1>1, <1>3, <2>3, PagesAre, Places, Constants
    <3>3. PagesOf(sq) = [PagesOf(w.sp) EXCEPT ![<<"table", t>>] = pg]
      BY <1>1, <2>3, <2>5, <2>10, TablePut
    <3>4. pg \notin T \ {pg} /\ (T \ {pg}) \cup {pg} = T
      BY <2>10
    <3>5. Owns(y.free, [PagesOf(w.sp) EXCEPT ![<<"table", t>>] = pg], (T \ {pg}) \cup {pg})
      BY ONLY <2>10, <3>1, <3>2, <3>4, OwnsPut
    <3> QED
      BY <3>3, <3>4, <3>5
  <2>14. Good(x, T)
    <3>1. y.free \in SUBSET Page /\ y.ok \in BOOLEAN /\ y.op \in Int
      BY <2>10, GoodIs
    <3> QED
      BY ONLY <2>6, <2>11, <2>13, <3>1, GoodMade
  <2> QED
    BY <2>7, <2>10, <2>11, <2>12, <2>14 DEF Same
<1> QED
  BY <1>2, <1>3

LEMMA MappagesIs ==
  ASSUME NEW w, NEW T, Good(w, T), w.ok, NEW v \in Vpn, w.sp.leaf[v] = 0, NEW pg, NEW U,
         \/ v # TrapFrame /\ pg \in Page \ T /\ U = T \cup {pg}
         \/ v # TrapFrame /\ pg = KernelText /\ U = T
         \/ v = TrapFrame /\ pg \in Page /\ U = T,
         NEW x, x = Mappages(w, v, pg)
  PROVE  \/ x = Fail(w) /\ w.sp.tabs[TabOf(v)] = 0
         \/ /\ Good(x, U) /\ Same(x, w) /\ Kept(x.sp, w.sp)
            /\ x.sp.leaf = [w.sp.leaf EXCEPT ![v] = pg] /\ x.sp.tabs[TabOf(v)] # 0
<1>0. \/ v # TrapFrame /\ pg \in Page \ T /\ U = T \cup {pg}
      \/ v # TrapFrame /\ pg = KernelText /\ U = T
      \/ v = TrapFrame /\ pg \in Page /\ U = T
  OBVIOUS
<1>1. PICK y : y = WalkAlloc(w, v)
  OBVIOUS
<1>2. CASE y.sp.tabs[TabOf(v)] = 0
  <2>1. x = Fail(w)
    BY <1>1, <1>2 DEF Mappages
  <2>2. w.sp.tabs[TabOf(v)] = 0
    BY <1>1, <1>2 DEF WalkAlloc
  <2> QED
    BY <2>1, <2>2
<1>3. CASE y.sp.tabs[TabOf(v)] # 0
  <2>1. Good(y, T) /\ Same(y, w) /\ Kept(y.sp, w.sp) /\ y.sp.leaf = w.sp.leaf
    BY <1>1, <1>3, WalkAllocIs
  <2>2. /\ y \in Works /\ y.free \in SUBSET Page /\ y.sp \in Spaces /\ y.ok \in BOOLEAN
        /\ y.op \in Int /\ PagesOf(y.sp) \in Maps /\ Owns(y.free, PagesOf(y.sp), T)
    BY <2>1, GoodIs
  <2>3. x = [y EXCEPT !.sp.leaf[v] = pg]
    BY <1>1, <1>3, <2>1 DEF Mappages
  <2>4. PICK sq : sq = [y.sp EXCEPT !.leaf[v] = pg]
    OBVIOUS
  <2>5. x = Work5(y.free, sq, y.ok, "", y.op)
    <3>1. [y EXCEPT !.sp.leaf[v] = pg]
            = Work5(y.free, [y.sp EXCEPT !.leaf[v] = pg], y.ok, "", y.op)
      BY <2>2, LeafField
    <3> QED
      BY ONLY <2>3, <2>4, <3>1
  <2>6. x.sp = sq /\ Same(x, y)
    BY ONLY <2>5 DEF Work5, Same
  <2>7. pg \in Page \cup {0, KernelText}
    OBVIOUS
  <2>8. /\ sq \in Spaces /\ sq.root = y.sp.root /\ sq.guard = y.sp.guard
        /\ sq.tf = y.sp.tf /\ sq.sz = y.sp.sz /\ sq.tabs = y.sp.tabs
        /\ sq.leaf = [y.sp.leaf EXCEPT ![v] = pg]
    BY <2>2, <2>4, <2>7 DEF Spaces
  <2>9. Owns(y.free, PagesOf(sq), U)
    <3>1. CASE v = TrapFrame
      <4>1. \A u \in Vpn \ {TrapFrame} : sq.leaf[u] = y.sp.leaf[u]
        BY <2>2, <2>8, <3>1, SpaceIs
      <4>2. PagesOf(sq) = PagesOf(y.sp)
        BY <2>2, <2>8, <4>1, NotAPlace
      <4> QED
        BY <2>2, <3>1, <4>2
    <3>2. ASSUME v # TrapFrame PROVE Owns(y.free, PagesOf(sq), U)
      <4>1. PagesOf(sq) = [PagesOf(y.sp) EXCEPT ![<<"leaf", v>>] = pg]
        BY <2>2, <2>4, <2>7, <3>2, LeafPut
      <4>2. PagesOf(y.sp)[<<"leaf", v>>] \notin Page /\ <<"leaf", v>> \in Place
        BY <2>1, <2>2, <3>2, PagesAre, Places, Constants
      <4>3. CASE pg \in Page \ T /\ U = T \cup {pg}
        <5>1. pg \in Page /\ pg \notin T
          BY <4>3
        <5>2. PICK f, z : f = PagesOf(y.sp) /\ z = <<"leaf", v>>
          OBVIOUS
        <5>3. f \in Maps /\ Owns(y.free, f, T) /\ z \in Place /\ f[z] \notin Page
          BY <2>2, <4>2, <5>2
        <5>4. Owns(y.free, [f EXCEPT ![z] = pg], T \cup {pg})
          BY ONLY <5>1, <5>3, OwnsPut
        <5> QED
          BY <4>1, <4>3, <5>2, <5>4
      <4>4. CASE pg = KernelText /\ U = T
        <5>1. pg \in {0, KernelText}
          BY <4>4
        <5>2. Owns(y.free, [PagesOf(y.sp) EXCEPT ![<<"leaf", v>>] = pg], T)
          BY ONLY <2>2, <4>2, <5>1, OwnsNone
        <5> QED
          BY <4>1, <4>4, <5>2
      <4> QED
        BY <1>0, <3>2, <4>3, <4>4
    <3> QED
      BY <3>1, <3>2
  <2>10. Good(x, U)
    BY ONLY <2>2, <2>5, <2>8, <2>9, GoodMade
  <2>11. Kept(sq, w.sp)
    BY ONLY <2>1, <2>8 DEF Kept
  <2> QED
    BY <1>3, <2>1, <2>6, <2>8, <2>10, <2>11 DEF Same
<1> QED
  BY <1>2, <1>3

\* The trapframe's leaf, in a table that is there.
LEMMA MapTrapFrame ==
  ASSUME NEW w, NEW T, Good(w, T), w.ok, w.sp.leaf[TrapFrame] = 0,
         w.sp.tabs[TabOf(TrapFrame)] # 0, NEW pg \in Page,
         NEW x, x = Mappages(w, TrapFrame, pg)
  PROVE  /\ Good(x, T) /\ Same(x, w) /\ Kept(x.sp, w.sp)
         /\ x.sp.leaf = [w.sp.leaf EXCEPT ![TrapFrame] = pg]
         /\ x.sp.tabs[TabOf(TrapFrame)] # 0
<1>1. PICK v : v = TrapFrame
  OBVIOUS
<1>2. v \in Vpn /\ w.sp.leaf[v] = 0 /\ x = Mappages(w, v, pg)
  BY <1>1, Constants
<1>3. \/ v # TrapFrame /\ pg \in Page \ T /\ T = T \cup {pg}
      \/ v # TrapFrame /\ pg = KernelText /\ T = T
      \/ v = TrapFrame /\ pg \in Page /\ T = T
  BY <1>1
<1>4. \/ x = Fail(w) /\ w.sp.tabs[TabOf(v)] = 0
      \/ /\ Good(x, T) /\ Same(x, w) /\ Kept(x.sp, w.sp)
         /\ x.sp.leaf = [w.sp.leaf EXCEPT ![v] = pg] /\ x.sp.tabs[TabOf(v)] # 0
  BY <1>2, <1>3, MappagesIs
<1> QED
  BY <1>1, <1>4

\* A page that is free, and n of them in use: there is an address for it.
LEMMA Room ==
  ASSUME NEW w, NEW T, Good(w, T), NEW n, Built(w.sp, n), w.free # {}
  PROVE  n \in 0..MaxPages - 1
<1>1. /\ w.free \in SUBSET Page /\ w.sp \in Spaces /\ Owns(w.free, PagesOf(w.sp), T)
  BY GoodIs
<1>2. PICK pg : pg \in w.free /\ pg \in Page
  BY <1>1
<1>3. n \in 0..MaxPages /\ \A v \in 0..n - 1 : w.sp.leaf[v] \in Page
  BY DEF Built
<1>4. PICK leaf : leaf = w.sp.leaf
  OBVIOUS
<1>5. \A u, v \in 0..n - 1 : leaf[u] = leaf[v] => u = v
  <2> SUFFICES ASSUME NEW u \in 0..n - 1, NEW v \in 0..n - 1, leaf[u] = leaf[v] PROVE u = v
    OBVIOUS
  <2>1. u \in Vpn \ {TrapFrame} /\ v \in Vpn \ {TrapFrame}
    BY <1>3, Constants
  <2>2. /\ PagesOf(w.sp)[<<"leaf", u>>] = leaf[u] /\ PagesOf(w.sp)[<<"leaf", v>>] = leaf[v]
        /\ <<"leaf", u>> \in Place /\ <<"leaf", v>> \in Place
    BY <1>1, <1>4, <2>1, PagesAre, Places
  <2>3. <<"leaf", u>> = <<"leaf", v>>
    BY <1>1, <1>3, <1>4, <2>2 DEF Owns, Once
  <2> QED
    BY <2>3
<1>6. \A v \in 0..n - 1 : leaf[v] # pg
  <2> SUFFICES ASSUME NEW v \in 0..n - 1, leaf[v] = pg PROVE FALSE
    OBVIOUS
  <2>1. v \in Vpn \ {TrapFrame}
    BY <1>3, Constants
  <2>2. PagesOf(w.sp)[<<"leaf", v>>] = pg /\ <<"leaf", v>> \in Place
    BY <1>1, <1>4, <2>1, PagesAre, Places
  <2>3. pg \in Held(PagesOf(w.sp))
    BY <1>2, <2>2 DEF Held
  <2> QED
    BY <1>1, <1>2, <2>3 DEF Owns
<1>7. \A v \in 0..n - 1 : leaf[v] \in Page
  BY <1>3, <1>4
<1> DEFINE f == [i \in 0..n |-> IF i = n THEN pg ELSE leaf[i]]
<1>8. f \in Injection(0..n, Page)
  <2>1. f \in [0..n -> Page]
    BY <1>2, <1>3, <1>7
  <2>2. \A i, j \in 0..n : f[i] = f[j] => i = j
    BY <1>3, <1>5, <1>6
  <2> QED
    BY <2>1, <2>2 DEF Injection, IsInjective
<1>9. IsFiniteSet(Page) /\ Cardinality(Page) \in Nat /\ MaxPages >= Cardinality(Page)
  BY MemoryAssumption, FS_CardinalityType
<1>10. Cardinality(0..n) <= Cardinality(Page)
  BY <1>8, <1>9, FS_Injection
<1>11. Cardinality(0..n) = n + 1
  <2>1. 0 \in Int /\ n \in Int /\ ~(0 > n) /\ n - 0 + 1 = n + 1
    BY <1>3, Constants
  <2> QED
    BY ONLY <2>1, FS_Interval
<1> QED
  BY <1>3, <1>9, <1>10, <1>11, Constants

\* One more page on top of n.
LEMMA ShapeGrows ==
  ASSUME NEW sp \in Spaces, NEW n, Shape(sp, n), n \in 0..MaxPages - 1, NEW sq \in Spaces,
         NEW pg \in Page, Kept(sq, sp), sq.leaf = [sp.leaf EXCEPT ![n] = pg],
         sq.tabs[TabOf(n)] # 0
  PROVE  Shape(sq, n + 1)
<1>1. n \in Vpn /\ n # TrapFrame /\ n # Trampoline /\ MaxPages \in Nat
      /\ n \in 0..MaxPages - 1
  BY Constants
<1>2. /\ sp.root \in Page /\ sp.guard \subseteq 0..n - 1
      /\ sp.leaf[TrapFrame] \in Page /\ sp.leaf[Trampoline] = KernelText
      /\ sp.tabs[MaxPages] # 0 /\ sp.leaf[TrapFrame] = sp.tf
      /\ \A v \in 0..n - 1 : sp.leaf[v] \in Page /\ sp.tabs[TabOf(v)] # 0
      /\ \A v \in n..MaxPages - 1 : sp.leaf[v] = 0
  BY DEF Shape, Built
<1>3. \A v \in Vpn : sq.leaf[v] = IF v = n THEN pg ELSE sp.leaf[v]
  BY <1>1, SpaceIs
<1>4. /\ sq.root = sp.root /\ sq.guard = sp.guard /\ sq.tf = sp.tf
      /\ \A t \in Tab : sp.tabs[t] # 0 => sq.tabs[t] # 0
  BY DEF Kept
<1>5. /\ sq.leaf[TrapFrame] = sp.leaf[TrapFrame] /\ sq.leaf[Trampoline] = sp.leaf[Trampoline]
      /\ sq.tabs[MaxPages] # 0
  BY <1>1, <1>2, <1>3, <1>4, Constants
<1>6. ASSUME NEW v \in 0..(n + 1) - 1 PROVE sq.leaf[v] \in Page /\ sq.tabs[TabOf(v)] # 0
  <2>1. v \in Vpn /\ TabOf(v) \in Tab /\ (v = n \/ v \in 0..n - 1)
    BY <1>1, Constants
  <2> QED
    BY <1>2, <1>3, <1>4, <2>1
<1>7. ASSUME NEW v \in n + 1..MaxPages - 1 PROVE sq.leaf[v] = 0
  <2>1. v \in Vpn /\ v # n /\ v \in n..MaxPages - 1
    BY <1>1, Constants
  <2> QED
    BY <1>2, <1>3, <2>1
<1>8. n + 1 \in 0..MaxPages /\ sq.guard \subseteq 0..(n + 1) - 1
  BY <1>1, <1>2, <1>4
<1> QED
  BY <1>2, <1>4, <1>5, <1>6, <1>7, <1>8 DEF Shape, Built

LEMMA MapNewIs ==
  ASSUME NEW w, NEW T, Good(w, T), w.ok, NEW n, Shape(w.sp, n), NEW x, x = MapNew(w, n)
  PROVE  \/ x = Fail(w)
         \/ /\ Good(x, T) /\ Same(x, w) /\ Kept(x.sp, w.sp) /\ Shape(x.sp, n + 1)
            /\ n \in 0..MaxPages - 1
            /\ \A v \in Vpn : v # n => x.sp.leaf[v] = w.sp.leaf[v]
<1>1. PICK pg, y, z : pg = Head0(w.free) /\ y = Kalloc(w) /\ z = Mappages(y, n, pg)
  OBVIOUS
<1>2. w.free \in SUBSET Page /\ w.sp \in Spaces /\ w \in Works
  BY GoodIs
<1>3. CASE w.free = {}
  BY <1>1, <1>2, <1>3, HeadIs DEF MapNew
<1>4. CASE w.free # {}
  <2>1. /\ pg \in T /\ pg \in Page /\ pg # 0 /\ pg \in w.free
        /\ Good(y, T \ {pg}) /\ y.sp = w.sp /\ Same(y, w) /\ y.free = w.free \ {pg}
    BY <1>1, <1>4, KallocIs
  <2>2. n \in 0..MaxPages - 1 /\ n \in Vpn /\ n # TrapFrame /\ w.sp.leaf[n] = 0
    <3>1. n \in 0..MaxPages - 1
      BY <1>4, Room DEF Shape
    <3>2. n \in n..MaxPages - 1
      BY <3>1, Constants
    <3> QED
      BY <3>1, <3>2, Constants DEF Shape, Built
  <2>3. x = IF z.ok THEN z ELSE Kfree(z, pg)
    BY <1>1, <2>1 DEF MapNew
  <2>4. \/ z = Fail(y)
        \/ /\ Good(z, T) /\ Same(z, y) /\ Kept(z.sp, y.sp)
           /\ z.sp.leaf = [y.sp.leaf EXCEPT ![n] = pg] /\ z.sp.tabs[TabOf(n)] # 0
    <3>1. pg \in Page \ (T \ {pg}) /\ T = (T \ {pg}) \cup {pg}
      BY <2>1
    <3>2. y.ok /\ y.sp.leaf[n] = 0
      BY <2>1, <2>2 DEF Same
    <3> QED
      BY ONLY <1>1, <2>1, <2>2, <3>1, <3>2, MappagesIs
  <2>5. CASE z = Fail(y)
    <3>1. /\ Good(z, T \ {pg}) /\ ~z.ok
          /\ z = Work5(y.free, y.sp, FALSE, "", y.op)
      BY <2>1, <2>5, FailIs
    <3>2. x = Kfree(z, pg) /\ pg \notin z.free
      <4>1. z.free = y.free
        BY ONLY <3>1 DEF Work5
      <4> QED
        BY <2>1, <2>3, <3>1, <4>1
    <3>3. x = [z EXCEPT !.free = z.free \cup {pg}]
      BY <2>1, <3>2 DEF Kfree
    <3>4. z \in Works
      BY <3>1, GoodIs
    <3>5. x = Work5(z.free \cup {pg}, z.sp, z.ok, "", z.op)
      BY <3>3, <3>4, Fields
    <3>6. z.free = y.free /\ z.sp = y.sp /\ z.ok = FALSE /\ z.op = y.op
      BY ONLY <3>1 DEF Work5
    <3>7. (w.free \ {pg}) \cup {pg} = w.free
      BY <2>1
    <3>8. x = Work5(w.free, w.sp, FALSE, "", w.op)
      BY <2>1, <3>5, <3>6, <3>7 DEF Same
    <3> QED
      BY <1>2, <3>8, Fields DEF Fail
  <2>6. CASE /\ Good(z, T) /\ Same(z, y) /\ Kept(z.sp, y.sp)
             /\ z.sp.leaf = [y.sp.leaf EXCEPT ![n] = pg] /\ z.sp.tabs[TabOf(n)] # 0
    <3>1. x = z /\ Same(x, w)
      BY <2>1, <2>3, <2>6 DEF Same
    <3>2. Kept(x.sp, w.sp) /\ x.sp.leaf = [w.sp.leaf EXCEPT ![n] = pg]
      BY <2>1, <2>6, <3>1
    <3>3. x.sp \in Spaces
      BY <2>6, <3>1, GoodIs
    <3>4. Shape(x.sp, n + 1)
      BY <1>2, <2>1, <2>2, <2>6, <3>1, <3>2, <3>3, ShapeGrows
    <3>5. \A v \in Vpn : v # n => x.sp.leaf[v] = w.sp.leaf[v]
      BY <1>2, <3>2, SpaceIs
    <3> QED
      BY <2>2, <2>6, <3>1, <3>2, <3>4, <3>5
  <2> QED
    BY <2>4, <2>5, <2>6
<1> QED
  BY <1>3, <1>4

(*****************************************************************************)
(* Pages unmapped.                                                           *)
(*****************************************************************************)

LEMMA WithoutIs ==
  ASSUME NEW sp \in Spaces, NEW V \in SUBSET Vpn, NEW sq, sq = Unmapped(sp, V)
  PROVE  /\ sq \in Spaces /\ sq.root = sp.root /\ sq.tabs = sp.tabs
         /\ sq.guard = sp.guard \ V /\ sq.tf = sp.tf /\ sq.sz = sp.sz
         /\ sq.leaf = [v \in Vpn |-> IF v \in V THEN 0 ELSE sp.leaf[v]]
<1>1. /\ sq.root = sp.root /\ sq.tabs = sp.tabs
      /\ sq.guard = sp.guard \ V /\ sq.tf = sp.tf /\ sq.sz = sp.sz
      /\ sq.leaf = [v \in Vpn |-> IF v \in V THEN 0 ELSE sp.leaf[v]]
  BY DEF Spaces, Unmapped
<1>2. [v \in Vpn |-> IF v \in V THEN 0 ELSE sp.leaf[v]] \in [Vpn -> Page \cup {0, KernelText}]
  BY SpaceIs
<1>3. sq \in Spaces
  BY <1>2 DEF Spaces, Unmapped
<1> QED
  BY <1>1, <1>3

\* Pages that are freed with it, at addresses below the trapframe.
LEMMA UvmunmapIs ==
  ASSUME NEW w, NEW T, Good(w, T), NEW V \in SUBSET (0..MaxPages - 1),
         \A v \in V : w.sp.leaf[v] \in Page /\ w.sp.tabs[TabOf(v)] # 0,
         NEW x, x = Uvmunmap(w, V, TRUE)
  PROVE  Good(x, T) /\ Same(x, w) /\ x.sp = Unmapped(w.sp, V)
<1>1. /\ w \in Works /\ w.free \in SUBSET Page /\ w.sp \in Spaces /\ w.ok \in BOOLEAN
      /\ w.op \in Int /\ PagesOf(w.sp) \in Maps /\ Owns(w.free, PagesOf(w.sp), T)
  BY GoodIs
<1>2. V \in SUBSET Vpn /\ TrapFrame \notin V
  BY Constants
<1>3. PICK f, sq : f = [v \in V |-> w.sp.leaf[v]] /\ sq = Unmapped(w.sp, V)
  OBVIOUS
<1>4. /\ sq \in Spaces /\ sq.root = w.sp.root /\ sq.tabs = w.sp.tabs /\ sq.tf = w.sp.tf
      /\ sq.leaf = [v \in Vpn |-> IF v \in V THEN 0 ELSE w.sp.leaf[v]]
  BY <1>1, <1>2, <1>3, WithoutIs
<1>5. PICK X, pages : X = {<<"leaf", v>> : v \in V} /\ pages = {f[v] : v \in V}
  OBVIOUS
<1>6. X \in SUBSET Place /\ \A v \in V : PagesOf(w.sp)[<<"leaf", v>>] = f[v]
  BY <1>1, <1>2, <1>3, <1>5, PagesAre, Places
<1>7. (\A p \in X : PagesOf(w.sp)[p] \in Page) /\ pages = {PagesOf(w.sp)[p] : p \in X}
  <2>1. \A v \in V : f[v] \in Page
    BY <1>3
  <2>2. \A p \in X : PagesOf(w.sp)[p] \in Page
    BY <1>5, <1>6, <2>1
  <2>3. \A pg \in pages : pg \in {PagesOf(w.sp)[p] : p \in X}
    BY <1>5, <1>6
  <2>4. \A p \in X : PagesOf(w.sp)[p] \in pages
    BY <1>5, <1>6
  <2> QED
    BY <2>2, <2>3, <2>4
<1>8. PagesOf(sq) \in Maps /\ \A p \in Place : PagesOf(sq)[p] = IF p \in X THEN 0 ELSE PagesOf(w.sp)[p]
  <2>1. PagesOf(sq) \in Maps
    BY <1>4, PagesTyped
  <2>2. ASSUME NEW p \in Place PROVE PagesOf(sq)[p] = IF p \in X THEN 0 ELSE PagesOf(w.sp)[p]
    <3>1. CASE \E v \in Vpn \ {TrapFrame} : p = <<"leaf", v>>
      <4>1. PICK v \in Vpn \ {TrapFrame} : p = <<"leaf", v>>
        BY <3>1
      <4>2. /\ PagesOf(sq)[p] = sq.leaf[v] /\ PagesOf(w.sp)[p] = w.sp.leaf[v]
            /\ sq.leaf[v] = IF v \in V THEN 0 ELSE w.sp.leaf[v]
        BY <1>1, <1>4, <4>1, PagesAre
      <4>3. p \in X <=> v \in V
        BY <1>5, <4>1
      <4> QED
        BY <4>2, <4>3
    <3>2. ASSUME ~\E v \in Vpn \ {TrapFrame} : p = <<"leaf", v>>
          PROVE  PagesOf(sq)[p] = IF p \in X THEN 0 ELSE PagesOf(w.sp)[p]
      <4>1. p \notin X
        BY <1>2, <1>5, <3>2
      <4>2. PagesOf(sq)[p] = PagesOf(w.sp)[p]
        BY <1>1, <1>4, <3>2, PagesAre, Places
      <4> QED
        BY <4>1, <4>2
    <3> QED
      BY <3>1, <3>2
  <2> QED
    BY <2>1, <2>2
<1>9. pages \subseteq Page \ w.free /\ Owns(w.free \cup pages, PagesOf(sq), T)
  <2>1. IsEmptied(PagesOf(sq), PagesOf(w.sp), X) /\ pages = PagesIn(PagesOf(w.sp), X)
    BY <1>6, <1>7, <1>8 DEF IsEmptied, PagesIn
  <2>2. /\ PagesIn(PagesOf(w.sp), X) \subseteq Page /\ PagesIn(PagesOf(w.sp), X) \cap w.free = {}
        /\ Owns(w.free \cup PagesIn(PagesOf(w.sp), X), PagesOf(sq), T)
    BY ONLY <1>1, <2>1, OwnsEmptied
  <2> QED
    BY <2>1, <2>2
<1>10. IsInjective(f)
  <2>1. ASSUME NEW u \in V, NEW v \in V, f[u] = f[v] PROVE u = v
    <3>1. <<"leaf", u>> \in Place /\ <<"leaf", v>> \in Place /\ f[u] \in Page
      BY <1>3, <1>5, <1>6
    <3>2. <<"leaf", u>> = <<"leaf", v>>
      BY <1>1, <1>6, <2>1, <3>1 DEF Owns, Once
    <3> QED
      BY <3>2
  <2>2. DOMAIN f = V
    BY <1>3
  <2> QED
    BY <2>1, <2>2 DEF IsInjective
<1>11. PICK y : y = KfreeEach(w, f)
  OBVIOUS
<1>12. y = Work5(w.free \cup pages, w.sp, w.ok, "", w.op)
  <2>1. {f[v] : v \in DOMAIN f} = pages
    BY <1>3, <1>5
  <2>2. y = [w EXCEPT !.free = w.free \cup pages]
    BY <1>9, <1>10, <1>11, <2>1 DEF KfreeEach
  <2> QED
    BY <1>1, <2>2, Fields
<1>13. y \in Works /\ y.free = w.free \cup pages /\ y.sp = w.sp /\ Same(y, w)
  <2>1. w.free \cup pages \in SUBSET Page
    BY <1>1, <1>9
  <2> QED
    BY ONLY <1>1, <1>12, <2>1 DEF Works, Work5, Same
<1>14. x = [y EXCEPT !.sp = sq]
  BY <1>2, <1>3, <1>11, <1>13, Constants DEF Uvmunmap
<1>15. x = Work5(y.free, sq, y.ok, "", y.op)
  BY <1>13, <1>14, Fields
<1>16. x.sp = sq /\ Same(x, w)
  BY ONLY <1>13, <1>15 DEF Work5, Same
<1>17. Good(x, T)
  <2>1. y.free \in SUBSET Page /\ y.ok \in BOOLEAN /\ y.op \in Int
    BY <1>13 DEF Works
  <2> QED
    BY ONLY <1>4, <1>9, <1>13, <1>15, <2>1, GoodMade
<1> QED
  BY <1>3, <1>16, <1>17

\* The two pages at the top, which are not freed with it.
LEMMA UvmunmapTopIs ==
  ASSUME NEW w, NEW T, Good(w, T), NEW v \in {TrapFrame, Trampoline},
         w.sp.leaf[v] # 0, w.sp.tabs[MaxPages] # 0, v = Trampoline => w.sp.leaf[v] = KernelText,
         NEW x, x = Uvmunmap(w, {v}, FALSE)
  PROVE  Good(x, T) /\ Same(x, w) /\ x.sp = Unmapped(w.sp, {v})
<1>1. /\ w \in Works /\ w.free \in SUBSET Page /\ w.sp \in Spaces /\ w.ok \in BOOLEAN
      /\ w.op \in Int /\ PagesOf(w.sp) \in Maps /\ Owns(w.free, PagesOf(w.sp), T)
  BY GoodIs
<1>2. {v} \in SUBSET Vpn /\ v \in Vpn /\ TabOf(v) = MaxPages
  BY Constants
<1>3. PICK sq : sq = Unmapped(w.sp, {v})
  OBVIOUS
<1>4. /\ sq \in Spaces /\ sq.root = w.sp.root /\ sq.tabs = w.sp.tabs /\ sq.tf = w.sp.tf
      /\ sq.leaf = [u \in Vpn |-> IF u \in {v} THEN 0 ELSE w.sp.leaf[u]]
  BY <1>1, <1>2, <1>3, WithoutIs
<1>5. Owns(w.free, PagesOf(sq), T)
  <2>1. CASE v = TrapFrame
    <3>1. \A u \in Vpn \ {TrapFrame} : sq.leaf[u] = w.sp.leaf[u]
      BY <1>4, <2>1
    <3>2. PagesOf(sq) = PagesOf(w.sp)
      BY <1>1, <1>4, <3>1, NotAPlace
    <3> QED
      BY <1>1, <3>2
  <2>2. ASSUME v # TrapFrame PROVE Owns(w.free, PagesOf(sq), T)
    <3>1. v = Trampoline /\ w.sp.leaf[v] = KernelText /\ v \in Vpn \ {TrapFrame}
      BY <2>2, Constants
    <3>2. PICK sr : sr = [w.sp EXCEPT !.leaf[v] = 0]
      OBVIOUS
    <3>3. /\ sr \in Spaces /\ sr.root = w.sp.root /\ sr.tabs = w.sp.tabs /\ sr.tf = w.sp.tf
          /\ sr.leaf = [w.sp.leaf EXCEPT ![v] = 0]
      BY <1>1, <1>2, <3>2 DEF Spaces
    <3>4. \A u \in Vpn : sr.leaf[u] = sq.leaf[u]
      BY <1>1, <1>4, <3>3, SpaceIs
    <3>5. PagesOf(sq) = PagesOf(sr)
      BY <1>4, <3>3, <3>4, NotAPlace
    <3>6. PagesOf(sr) = [PagesOf(w.sp) EXCEPT ![<<"leaf", v>>] = 0]
      BY <1>1, <3>1, <3>2, LeafPut
    <3>7. PagesOf(w.sp)[<<"leaf", v>>] \notin Page /\ <<"leaf", v>> \in Place
      BY <1>1, <3>1, PagesAre, Places, Constants
    <3>8. 0 \in {0, KernelText}
      OBVIOUS
    <3>9. Owns(w.free, [PagesOf(w.sp) EXCEPT ![<<"leaf", v>>] = 0], T)
      BY ONLY <1>1, <3>7, <3>8, OwnsNone
    <3> QED
      BY <3>5, <3>6, <3>9
  <2> QED
    BY <2>1, <2>2
<1>6. x = [w EXCEPT !.sp = sq]
  BY <1>2, <1>3 DEF Uvmunmap
<1>7. x = Work5(w.free, sq, w.ok, "", w.op)
  BY <1>1, <1>6, Fields
<1>8. x.sp = sq /\ Same(x, w)
  BY ONLY <1>7 DEF Work5, Same
<1>9. Good(x, T)
  BY ONLY <1>1, <1>4, <1>5, <1>7, GoodMade
<1> QED
  BY <1>3, <1>8, <1>9

(*****************************************************************************)
(* A range of pages mapped, or none.                                         *)
(*****************************************************************************)

LEMMA ShapeKept ==
  ASSUME NEW sp \in Spaces, NEW n, Shape(sp, n), NEW sq, Kept(sq, sp), sq.leaf = sp.leaf
  PROVE  Shape(sq, n)
<1>1. n \in 0..MaxPages /\ MaxPages \in Tab /\ \A v \in 0..n - 1 : TabOf(v) \in Tab
  BY Constants DEF Shape, Built
<1> QED
  BY <1>1 DEF Shape, Built, Kept

LEMMA KeptTwice ==
  ASSUME NEW sp, NEW sq, NEW sr, Kept(sq, sp), Kept(sr, sq)
  PROVE  Kept(sr, sp)
  BY DEF Kept

LEMMA KeptSame ==
  ASSUME NEW sp
  PROVE  Kept(sp, sp)
  BY DEF Kept

\* The state x of the loop over the pages from.. of w after k turns.
InLoop(w, T, from, k, x) ==
  /\ Good(x, T) /\ x.op = w.op /\ Kept(x.sp, w.sp)
  /\ \E m \in 0..k : Shape(x.sp, from + m) /\ (x.ok => m = k)
  /\ \A v \in Vpn : v < from \/ v >= MaxPages => x.sp.leaf[v] = w.sp.leaf[v]

LEMMA MapNextIs ==
  ASSUME NEW w, NEW T, NEW from \in Nat, NEW k \in Nat, NEW x, InLoop(w, T, from, k, x),
         NEW y, y = MapNext(x, from + k)
  PROVE  InLoop(w, T, from, k + 1, y)
<1>1. /\ Good(x, T) /\ x.op = w.op /\ Kept(x.sp, w.sp)
      /\ \A v \in Vpn : v < from \/ v >= MaxPages => x.sp.leaf[v] = w.sp.leaf[v]
  BY DEF InLoop
<1>2. PICK m \in 0..k : Shape(x.sp, from + m) /\ (x.ok => m = k)
  BY DEF InLoop
<1>3. m \in 0..k + 1
  OBVIOUS
<1>4. CASE ~x.ok
  <2>1. y = x
    BY <1>4 DEF MapNext
  <2> QED
    BY <1>1, <1>2, <1>3, <1>4, <2>1 DEF InLoop
<1>5. CASE x.ok
  <2>1. y = MapNew(x, from + k) /\ Shape(x.sp, from + k) /\ m = k
    BY <1>2, <1>5 DEF MapNext
  <2>2. CASE y = Fail(x)
    <3>1. Good(y, T) /\ y.sp = x.sp /\ y.op = x.op /\ ~y.ok
      BY <1>1, <2>2, FailIs
    <3>2. \E l \in 0..k + 1 : Shape(y.sp, from + l) /\ (y.ok => l = k + 1)
      BY <1>2, <1>3, <3>1
    <3> QED
      BY <1>1, <3>1, <3>2 DEF InLoop
  <2>3. ASSUME y # Fail(x) PROVE InLoop(w, T, from, k + 1, y)
    <3>1. /\ Good(y, T) /\ Same(y, x) /\ Kept(y.sp, x.sp) /\ Shape(y.sp, (from + k) + 1)
          /\ from + k \in 0..MaxPages - 1
          /\ \A v \in Vpn : v # from + k => y.sp.leaf[v] = x.sp.leaf[v]
      BY <1>1, <1>5, <2>1, <2>3, MapNewIs
    <3>2. (from + k) + 1 = from + (k + 1) /\ k + 1 \in 0..k + 1
      OBVIOUS
    <3>3. \E l \in 0..k + 1 : Shape(y.sp, from + l) /\ (y.ok => l = k + 1)
      BY <3>1, <3>2
    <3>4. Kept(y.sp, w.sp)
      BY <1>1, <3>1, KeptTwice
    <3>5. \A v \in Vpn : v < from \/ v >= MaxPages => y.sp.leaf[v] = w.sp.leaf[v]
      BY <1>1, <3>1, Constants
    <3> QED
      BY <1>1, <3>1, <3>3, <3>4, <3>5 DEF InLoop, Same
  <2> QED
    BY <2>2, <2>3
<1> QED
  BY <1>4, <1>5

\* All the pages are mapped, or memory looks as before.
MapsTo(w, T, from, to, y) ==
  /\ Good(y, T) /\ y.op = w.op /\ Kept(y.sp, w.sp)
  /\ y.ok => Shape(y.sp, to)
  /\ ~y.ok => Shape(y.sp, from) /\ y.sp.leaf = w.sp.leaf

LEMMA MapOrUndoIs ==
  ASSUME NEW w, NEW T, Good(w, T), NEW from \in Nat, NEW to \in Nat, from <= to,
         Shape(w.sp, from), NEW x, InLoop(w, T, from, to - from, x),
         NEW y, y = MapOrUndo(x, from, to)
  PROVE  MapsTo(w, T, from, to, y)
<1>1. /\ Good(x, T) /\ x.op = w.op /\ Kept(x.sp, w.sp)
      /\ \A v \in Vpn : v < from \/ v >= MaxPages => x.sp.leaf[v] = w.sp.leaf[v]
  BY DEF InLoop
<1>2. PICK m \in 0..to - from : Shape(x.sp, from + m) /\ (x.ok => m = to - from)
  BY DEF InLoop
<1>3. w.sp \in Spaces /\ x.sp \in Spaces
  BY <1>1, GoodIs
<1>4. CASE x.ok
  <2>1. y = x /\ from + m = to
    BY <1>2, <1>4 DEF MapOrUndo
  <2> QED
    BY <1>1, <1>2, <1>4, <2>1 DEF MapsTo
<1>5. CASE ~x.ok
  <2> DEFINE V == {v \in Vpn : /\ from <= v /\ v < to /\ v < TrapFrame
                               /\ x.sp.leaf[v] # 0}
  <2>1. y = Uvmunmap(x, V, TRUE)
    BY <1>5 DEF MapOrUndo
  <2>2. from + m \in 0..MaxPages /\ MaxPages \in Nat /\ Vpn = 0..MaxPages + 1 /\ TrapFrame = MaxPages
    BY <1>2, Constants DEF Shape, Built
  <2>3. /\ \A v \in 0..(from + m) - 1 : x.sp.leaf[v] \in Page /\ x.sp.tabs[TabOf(v)] # 0
        /\ \A v \in from + m..MaxPages - 1 : x.sp.leaf[v] = 0
    BY <1>2 DEF Shape, Built
  <2>4. V = from..(from + m) - 1
    BY <2>2, <2>3, Constants
  <2> HIDE DEF V
  <2>5. /\ V \in SUBSET (0..MaxPages - 1) /\ V \in SUBSET Vpn
        /\ \A v \in V : x.sp.leaf[v] \in Page /\ x.sp.tabs[TabOf(v)] # 0
    BY <2>2, <2>3, <2>4
  <2>6. Good(y, T) /\ Same(y, x) /\ y.sp = Unmapped(x.sp, V)
    BY <1>1, <2>1, <2>5, UvmunmapIs
  <2>7. /\ y.sp \in Spaces /\ y.sp.root = x.sp.root /\ y.sp.tabs = x.sp.tabs
        /\ y.sp.guard = x.sp.guard \ V /\ y.sp.tf = x.sp.tf /\ y.sp.sz = x.sp.sz
        /\ y.sp.leaf = [v \in Vpn |-> IF v \in V THEN 0 ELSE x.sp.leaf[v]]
    BY <1>3, <2>5, <2>6, WithoutIs
  <2>8. w.sp.guard \subseteq 0..from - 1 /\ \A v \in from..MaxPages - 1 : w.sp.leaf[v] = 0
    BY DEF Shape, Built
  <2>9. y.sp.leaf = w.sp.leaf
    <3>1. ASSUME NEW v \in Vpn PROVE y.sp.leaf[v] = w.sp.leaf[v]
      <4>1. CASE v \in V
        BY <2>2, <2>4, <2>7, <2>8, <4>1
      <4>2. CASE v \notin V /\ v \in from..MaxPages - 1
        <5>1. v \in from + m..MaxPages - 1
          BY <2>2, <2>4, <4>2
        <5> QED
          BY <2>3, <2>7, <2>8, <4>2, <5>1
      <4>3. CASE v \notin V /\ v \notin from..MaxPages - 1
        <5>1. v < from \/ v >= MaxPages
          BY <2>2, <4>3
        <5> QED
          BY <1>1, <2>7, <4>3, <5>1
      <4> QED
        BY <4>1, <4>2, <4>3
    <3> QED
      BY <1>3, <2>7, <3>1, SpaceIs, SameFunction
  <2>10. Kept(y.sp, w.sp)
    <3>1. w.sp.guard \ V = w.sp.guard
      BY <2>2, <2>4, <2>8
    <3> QED
      BY <1>1, <2>7, <3>1 DEF Kept
  <2>11. Shape(y.sp, from)
    BY <1>3, <2>9, <2>10, ShapeKept
  <2> QED
    BY <1>1, <1>5, <2>6, <2>9, <2>10, <2>11 DEF MapsTo, Same
<1> QED
  BY <1>4, <1>5

LEMMA MapRangeIs ==
  ASSUME NEW w, NEW T, Good(w, T), w.ok, NEW from \in Nat, NEW to \in Nat, from <= to,
         Shape(w.sp, from)
  PROVE  MapsTo(w, T, from, to, MapRange(w, from, to))
<1> DEFINE N == to - from
           S == Works
           P == [n \in 0..N |-> {y \in S : InLoop(w, T, from, n, y)}]
           step(n, y) == MapNext(y, from + n - 1)
           d == [n \in 1..N |-> [y \in S |-> IF step(n, y) \in S THEN step(n, y) ELSE y]]
<1>0. N \in Nat
  OBVIOUS
<1>1. w \in S /\ w \in P[0]
  <2>1. w \in S
    BY GoodIs
  <2>2. 0 \in 0..0 /\ from + 0 = from
    OBVIOUS
  <2>3. InLoop(w, T, from, 0, w)
    BY <2>2, KeptSame DEF InLoop
  <2> QED
    BY <1>0, <2>1, <2>3
<1>2. ASSUME NEW n \in 1..N, NEW y \in P[n - 1]
      PROVE  step(n, y) \in P[n]
  <2>1. n \in 0..N /\ n - 1 \in 0..N /\ n - 1 \in Nat /\ (n - 1) + 1 = n
        /\ from + n - 1 = from + (n - 1)
    BY <1>0
  <2>2. InLoop(w, T, from, n - 1, y)
    BY <2>1
  <2>3. InLoop(w, T, from, n, step(n, y))
    BY <2>1, <2>2, MapNextIs
  <2>4. step(n, y) \in S
    BY <2>3, GoodIs DEF InLoop
  <2> QED
    BY <2>1, <2>3, <2>4
<1> HIDE DEF step, N
<1>3. PICK g \in [0..N -> S] : g[0] = w /\ \A n \in 1..N : g[n] = d[n][g[n - 1]]
  <2>1. d \in Transitions(S, N)
    BY DEF Transitions
  <2> HIDE DEF P, d, S
  <2>2. \E g : IsRun(g, S, w, N, d)
    BY <1>0, <1>1, <2>1, Iteration
  <2> QED
    BY <2>2 DEF IsRun
<1> HIDE DEF S
<1>4. ASSUME NEW n \in 1..N, g[n - 1] \in P[n - 1] PROVE g[n] = step(n, g[n - 1]) /\ g[n] \in P[n]
  <2>1. n \in 0..N /\ n - 1 \in 0..N /\ g[n - 1] \in S
    BY <1>0
  <2>2. step(n, g[n - 1]) \in P[n]
    BY <1>2, <1>4
  <2>3. step(n, g[n - 1]) \in S
    BY <2>1, <2>2
  <2>4. g[n] = step(n, g[n - 1])
    BY <1>3, <2>1, <2>3
  <2> QED
    BY <2>2, <2>4
<1>5. \A n \in 0..N : g[n] \in P[n]
  <2>1. \A n \in 1..N : g[n - 1] \in P[n - 1] => g[n] \in P[n]
    BY <1>4
  <2> HIDE DEF P
  <2> QED
    BY <1>0, <1>1, <1>3, <2>1, Steps
<1>6. \A n \in 1..N : g[n] = step(n, g[n - 1])
  <2>1. \A n \in 1..N : n - 1 \in 0..N
    BY <1>0
  <2>2. \A n \in 1..N : g[n - 1] \in P[n - 1]
    BY <1>5, <2>1
  <2> HIDE DEF P, d
  <2> QED
    BY <1>4, <2>2
<1> HIDE DEF P, d
<1>7. \E f : f = [n \in 0..N |-> IF n = 0 THEN w ELSE step(n, f[n - 1])]
  <2>1. g = [n \in 0..N |-> IF n = 0 THEN w ELSE step(n, g[n - 1])]
    BY <1>0, <1>3, <1>6
  <2> QED
    BY <2>1
<1> DEFINE run[n \in 0..N] == IF n = 0 THEN w ELSE step(n, run[n - 1])
<1>8. run = [n \in 0..N |-> IF n = 0 THEN w ELSE step(n, run[n - 1])]
  BY <1>7
<1>9. MapRange(w, from, to) = MapOrUndo(run[N], from, to)
  BY DEF MapRange, step, N
<1> HIDE DEF run
<1>10. run[0] = w /\ \A n \in 1..N : run[n] = step(n, run[n - 1])
  BY <1>0, <1>8
<1>11. run[N] \in P[N]
  <2>1. \A n \in 1..N : run[n - 1] \in P[n - 1] => run[n] \in P[n]
    BY <1>2, <1>10
  <2>2. N \in 0..N
    BY <1>0
  <2>3. \A n \in 0..N : run[n] \in P[n]
    BY <1>0, <1>1, <1>10, <2>1, Steps
  <2> QED
    BY <2>2, <2>3
<1>12. InLoop(w, T, from, to - from, run[N])
  <2>1. P[N] = {y \in S : InLoop(w, T, from, N, y)}
    BY <1>0 DEF P
  <2> QED
    BY <1>11, <2>1 DEF N
<1> QED
  BY <1>9, <1>12, MapOrUndoIs

(*****************************************************************************)
(* Page tables made and freed.                                               *)
(*****************************************************************************)

LEMMA DivMod ==
  ASSUME NEW S \in Nat \ {0}, NEW x \in Int
  PROVE  x % S \in 0 .. S - 1 /\ x \div S \in Int /\ x = S * (x \div S) + (x % S)
<1>1. x % S \in 0 .. S - 1
  OBVIOUS
<1>2. x \div S \in Int
  OBVIOUS
<1>3. x = S * (x \div S) + (x % S)
  OBVIOUS
<1> QED
  BY <1>1, <1>2, <1>3

\* The quotient is the only one with a remainder below S.
LEMMA DivIs ==
  ASSUME NEW S \in Nat \ {0}, NEW q \in Int, NEW r \in 0 .. S - 1
  PROVE  (S * q + r) \div S = q /\ (S * q + r) % S = r
<1>1. (S * q + r) \div S = q
  OBVIOUS
<1>2. (S * q + r) % S = r
  OBVIOUS
<1> QED
  BY <1>1, <1>2

LEMMA UpZero == Up(0) = 0
<1>1. PGSIZE \in Nat \ {0} /\ 0 \in Int /\ PGSIZE - 1 \in 0 .. PGSIZE - 1
  BY MemoryAssumption
<1>2. (PGSIZE * 0 + (PGSIZE - 1)) \div PGSIZE = 0
  BY <1>1, DivIs
<1>3. PGSIZE * 0 + (PGSIZE - 1) = 0 + PGSIZE - 1
  BY <1>1
<1> QED
  BY <1>2, <1>3 DEF Up

\* A space without page tables.
Bare(tf, sz) == [root |-> 0, tabs |-> [t \in Tab |-> 0], leaf |-> [v \in Vpn |-> 0],
                 guard |-> {}, tf |-> tf, sz |-> sz]

LEMMA BareIs ==
  ASSUME NEW tf \in Page \cup {0}, NEW sz \in Nat
  PROVE  /\ Bare(tf, sz) \in Spaces /\ Bare(tf, sz).root = 0
         /\ Bare(tf, sz).tabs = [t \in Tab |-> 0] /\ Bare(tf, sz).leaf = [v \in Vpn |-> 0]
         /\ Bare(tf, sz).guard = {} /\ Bare(tf, sz).tf = tf /\ Bare(tf, sz).sz = sz
  BY DEF Bare, Spaces

LEMMA BareEqual ==
  ASSUME NEW sp \in Spaces, sp.root = 0, sp.tabs = [t \in Tab |-> 0],
         sp.leaf = [v \in Vpn |-> 0], sp.guard = {}
  PROVE  sp = Bare(sp.tf, sp.sz)
<1>1. PICK tf, sz : tf = sp.tf /\ sz = sp.sz
  OBVIOUS
<1>2. tf \in Page \cup {0} /\ sz \in Nat
  BY <1>1, SpaceIs
<1>3. PICK sq : sq = Bare(tf, sz)
  OBVIOUS
<1>4. /\ sq \in Spaces /\ sq.root = 0 /\ sq.tabs = [t \in Tab |-> 0]
      /\ sq.leaf = [v \in Vpn |-> 0] /\ sq.guard = {} /\ sq.tf = tf /\ sq.sz = sz
  BY <1>2, <1>3 DEF Bare, Spaces
<1>5. sp = sq
  BY <1>1, <1>4, SpacesEqual
<1> QED
  BY <1>1, <1>3, <1>5

LEMMA KfreeEachIs ==
  ASSUME NEW w \in Works, NEW f, PagesIn(f, DOMAIN f) \subseteq Page,
         PagesIn(f, DOMAIN f) \cap w.free = {}, IsInjective(f)
  PROVE  KfreeEach(w, f) = Work5(w.free \cup PagesIn(f, DOMAIN f), w.sp, w.ok, "", w.op)
<1>1. PICK pages : pages = PagesIn(f, DOMAIN f)
  OBVIOUS
<1>2. {f[x] : x \in DOMAIN f} = pages /\ pages \subseteq Page \ w.free
  BY <1>1 DEF PagesIn
<1>3. KfreeEach(w, f) = [w EXCEPT !.free = w.free \cup pages]
  BY <1>2 DEF KfreeEach
<1> QED
  BY <1>1, <1>3, Fields

LEMMA FreewalkIs ==
  ASSUME NEW w, NEW T, Good(w, T), \A v \in Vpn : w.sp.leaf[v] = 0, w.sp.root \in Page,
         NEW x, x = Freewalk(w)
  PROVE  /\ Good(x, T) /\ Same(x, w) /\ x.sp \in Spaces
         /\ x.sp.root = 0 /\ x.sp.tabs = [t \in Tab |-> 0]
         /\ x.sp.leaf = w.sp.leaf /\ x.sp.guard = w.sp.guard
         /\ x.sp.tf = w.sp.tf /\ x.sp.sz = w.sp.sz
<1>1. /\ w \in Works /\ w.free \in SUBSET Page /\ w.sp \in Spaces /\ w.ok \in BOOLEAN
      /\ w.op \in Int /\ PagesOf(w.sp) \in Maps /\ Owns(w.free, PagesOf(w.sp), T)
  BY GoodIs
<1>2. PICK sp, root, m : sp = w.sp /\ root = w.sp.root /\ m = PagesOf(w.sp)
  OBVIOUS
<1>3. PICK U, f : U = {t \in Tab : sp.tabs[t] # 0} /\ f = [t \in U |-> sp.tabs[t]]
  OBVIOUS
<1>4. PICK pages, X : /\ pages = {f[t] : t \in U}
                      /\ X = {<<"table", t>> : t \in U} \cup {<<"root", 0>>}
  OBVIOUS
<1>5. \A t \in U : t \in Tab /\ f[t] = sp.tabs[t] /\ f[t] \in Page
  BY <1>1, <1>2, <1>3, SpaceIs
<1>6. /\ X \in SUBSET Place /\ m[<<"root", 0>>] = root /\ root \in Page
      /\ \A t \in U : m[<<"table", t>>] = f[t] /\ <<"table", t>> \in Place
  BY <1>1, <1>2, <1>4, <1>5, PagesAre, Places
<1>7. \A p \in X : m[p] \in Page
  BY <1>4, <1>5, <1>6
<1>8. PagesIn(m, X) = pages \cup {root}
  <2>1. \A p \in X : m[p] \in pages \cup {root}
    BY <1>4, <1>6
  <2>2. \A pg \in pages \cup {root} : \E p \in X : pg = m[p]
    BY <1>4, <1>6
  <2> QED
    BY <2>1, <2>2 DEF PagesIn
<1>9. PICK sq : sq = [sp EXCEPT !.root = 0, !.tabs = [t \in Tab |-> 0]]
  OBVIOUS
<1>10. /\ sq \in Spaces /\ sq.root = 0 /\ sq.tabs = [t \in Tab |-> 0] /\ sq.leaf = sp.leaf
       /\ sq.guard = sp.guard /\ sq.tf = sp.tf /\ sq.sz = sp.sz
  BY <1>1, <1>2, <1>9 DEF Spaces
<1>11. IsEmptied(PagesOf(sq), m, X)
  <2>1. PagesOf(sq) \in Maps
    BY <1>10, PagesTyped
  <2>2. ASSUME NEW p \in Place PROVE PagesOf(sq)[p] = IF p \in X THEN 0 ELSE m[p]
    <3>1. CASE p = <<"root", 0>>
      BY <1>4, <1>10, <3>1, PagesAre
    <3>2. CASE \E t \in Tab : p = <<"table", t>>
      <4>1. PICK t \in Tab : p = <<"table", t>>
        BY <3>2
      <4>2. PagesOf(sq)[p] = 0
        BY <1>10, <4>1, PagesAre
      <4>3. t \notin U => m[p] = 0
        BY <1>1, <1>2, <1>3, <4>1, PagesAre
      <4>4. t \in U => p \in X
        BY <1>4, <4>1
      <4>5. p \in X => t \in U
        BY <1>4, <4>1
      <4> QED
        BY <4>2, <4>3, <4>4, <4>5
    <3>3. CASE p = <<"tf", 0>>
      <4>1. p \notin X
        BY <1>4, <3>3
      <4> QED
        BY <1>1, <1>2, <1>10, <3>3, <4>1, PagesAre
    <3>4. CASE \E v \in Vpn \ {TrapFrame} : p = <<"leaf", v>>
      <4>1. p \notin X
        BY <1>4, <3>4
      <4> QED
        BY <1>1, <1>2, <1>10, <3>4, <4>1, PagesAre
    <3> QED
      BY <3>1, <3>2, <3>3, <3>4, Places
  <2> QED
    BY <1>6, <1>7, <2>1, <2>2 DEF IsEmptied
<1>12. /\ PagesIn(m, X) \subseteq Page /\ PagesIn(m, X) \cap w.free = {}
       /\ Owns(w.free \cup PagesIn(m, X), PagesOf(sq), T)
  BY ONLY <1>1, <1>2, <1>11, OwnsEmptied
<1>13. \A a, b \in U : f[a] = f[b] => a = b
  <2> SUFFICES ASSUME NEW a \in U, NEW b \in U, f[a] = f[b] PROVE a = b
    OBVIOUS
  <2>0. \A y, z \in Place : m[y] \in Page /\ m[y] = m[z] => y = z
    BY ONLY <1>1, <1>2 DEF Owns, Once
  <2>1. PICK p, q : p = <<"table", a>> /\ q = <<"table", b>>
    OBVIOUS
  <2>2. p \in Place /\ q \in Place /\ m[p] = f[a] /\ m[q] = f[b] /\ f[a] \in Page
    BY <1>5, <1>6, <2>1
  <2>3. p = q
    BY <2>0, <2>2
  <2> QED
    BY <2>1, <2>3
<1>14. root \notin pages
  <2> SUFFICES ASSUME NEW t \in U, f[t] = root PROVE FALSE
    BY <1>4
  <2>0. \A y, z \in Place : m[y] \in Page /\ m[y] = m[z] => y = z
    BY ONLY <1>1, <1>2 DEF Owns, Once
  <2>1. PICK p, q : p = <<"table", t>> /\ q = <<"root", 0>>
    OBVIOUS
  <2>2. p \in Place /\ q \in Place /\ m[p] = f[t] /\ m[q] = root /\ f[t] \in Page
    BY <1>5, <1>6, <2>1, Places
  <2>3. p = q
    BY <2>0, <2>2
  <2> QED
    BY <2>1, <2>3
<1>15. pages \subseteq Page /\ pages \cap w.free = {} /\ root \notin w.free
  BY <1>8, <1>12
<1>16. PICK y : y = KfreeEach(w, f)
  OBVIOUS
<1>17. y = Work5(w.free \cup pages, w.sp, w.ok, "", w.op)
  <2>1. DOMAIN f = U
    BY <1>3
  <2>2. PagesIn(f, DOMAIN f) = pages /\ IsInjective(f)
    BY <1>4, <1>13, <2>1 DEF PagesIn, IsInjective
  <2>3. PagesIn(f, DOMAIN f) \subseteq Page /\ PagesIn(f, DOMAIN f) \cap w.free = {}
    BY <1>15, <2>2
  <2>4. KfreeEach(w, f) = Work5(w.free \cup PagesIn(f, DOMAIN f), w.sp, w.ok, "", w.op)
    BY ONLY <1>1, <2>2, <2>3, KfreeEachIs
  <2> QED
    BY ONLY <1>16, <2>2, <2>4
<1>18. y \in Works /\ y.free = w.free \cup pages /\ y.sp = w.sp /\ y.ok = w.ok /\ y.op = w.op
  <2>1. w.free \cup pages \in SUBSET Page
    BY <1>1, <1>15
  <2> QED
    BY ONLY <1>1, <1>17, <2>1 DEF Works, Work5
<1>19. PICK z : z = Kfree(y, root)
  OBVIOUS
<1>20. z = Work5(y.free \cup {root}, y.sp, y.ok, "", y.op)
  <2>1. z = [y EXCEPT !.free = y.free \cup {root}]
    BY <1>6, <1>14, <1>15, <1>18, <1>19 DEF Kfree
  <2> QED
    BY <1>18, <2>1, Fields
<1>21. z \in Works /\ z.free = y.free \cup {root} /\ z.sp = w.sp /\ z.ok = w.ok /\ z.op = w.op
  <2>1. y.free \cup {root} \in SUBSET Page
    BY <1>1, <1>6, <1>15, <1>18
  <2> QED
    BY ONLY <1>1, <1>18, <1>20, <2>1 DEF Works, Work5
<1>22. x = [z EXCEPT !.sp = [@ EXCEPT !.root = 0, !.tabs = [t \in Tab |-> 0]]]
  <2>1. ~\E v \in Vpn : w.sp.leaf[v] # 0
    OBVIOUS
  <2> QED
    BY <1>2, <1>3, <1>16, <1>19, <2>1 DEF Freewalk
<1>23. x = [z EXCEPT !.sp = sq]
  BY <1>2, <1>9, <1>21, <1>22
<1>24. x = Work5(z.free, sq, w.ok, "", w.op)
  <2>1. x = Work5(z.free, sq, z.ok, "", z.op)
    BY ONLY <1>21, <1>23, Fields
  <2> QED
    BY ONLY <1>21, <2>1
<1>25. z.free = w.free \cup PagesIn(m, X)
  BY <1>8, <1>18, <1>21
<1>26. Good(x, T)
  BY ONLY <1>1, <1>10, <1>12, <1>24, <1>25, GoodMade
<1>27. x.sp = sq /\ Same(x, w)
  BY ONLY <1>24 DEF Work5, Same
<1> QED
  BY <1>2, <1>10, <1>26, <1>27

\* n pages from 0 are all that is mapped.
OnlyImage(sp, n) ==
  /\ n \in 0..MaxPages /\ sp.root \in Page /\ sp.guard \subseteq 0..n - 1
  /\ \A v \in 0..n - 1 : sp.leaf[v] \in Page /\ sp.tabs[TabOf(v)] # 0
  /\ \A v \in Vpn \ (0..n - 1) : sp.leaf[v] = 0

LEMMA UvmfreeIs ==
  ASSUME NEW w, NEW T, Good(w, T), NEW sz, OnlyImage(w.sp, Up(sz)), NEW x, x = Uvmfree(w, sz)
  PROVE  Good(x, T) /\ Same(x, w) /\ x.sp = Bare(w.sp.tf, w.sp.sz)
<1>1. PICK n, V, y : n = Up(sz) /\ V = 0..n - 1 /\ y = Uvmunmap(w, V, TRUE)
  OBVIOUS
<1>2. /\ n \in 0..MaxPages /\ w.sp.root \in Page /\ w.sp.guard \subseteq V
      /\ \A v \in V : w.sp.leaf[v] \in Page /\ w.sp.tabs[TabOf(v)] # 0
      /\ \A v \in Vpn \ V : w.sp.leaf[v] = 0
  BY <1>1 DEF OnlyImage
<1>3. V \in SUBSET (0..MaxPages - 1) /\ V \in SUBSET Vpn
  BY <1>1, <1>2, Constants
<1>4. Good(y, T) /\ Same(y, w) /\ y.sp = Unmapped(w.sp, V)
  BY <1>1, <1>2, <1>3, UvmunmapIs
<1>5. w.sp \in Spaces
  BY GoodIs
<1>6. /\ y.sp \in Spaces /\ y.sp.root = w.sp.root
      /\ y.sp.guard = w.sp.guard \ V /\ y.sp.tf = w.sp.tf /\ y.sp.sz = w.sp.sz
      /\ y.sp.leaf = [v \in Vpn |-> IF v \in V THEN 0 ELSE w.sp.leaf[v]]
  BY <1>3, <1>4, <1>5, WithoutIs
<1>7. (\A v \in Vpn : y.sp.leaf[v] = 0) /\ y.sp.guard = {} /\ y.sp.root \in Page
  BY <1>2, <1>6
<1>8. x = Freewalk(y)
  BY <1>1 DEF Uvmfree
<1>9. /\ Good(x, T) /\ Same(x, y) /\ x.sp \in Spaces
      /\ x.sp.root = 0 /\ x.sp.tabs = [t \in Tab |-> 0]
      /\ x.sp.leaf = y.sp.leaf /\ x.sp.guard = y.sp.guard
      /\ x.sp.tf = y.sp.tf /\ x.sp.sz = y.sp.sz
  BY <1>4, <1>7, <1>8, FreewalkIs
<1>10. x.sp.leaf = [v \in Vpn |-> 0]
  <2>1. x.sp.leaf \in [Vpn -> Page \cup {0, KernelText}]
    BY <1>9, SpaceIs
  <2>2. \A v \in Vpn : x.sp.leaf[v] = 0
    BY <1>7, <1>9
  <2> QED
    BY <2>1, <2>2
<1>11. x.sp = Bare(x.sp.tf, x.sp.sz)
  BY <1>7, <1>9, <1>10, BareEqual
<1> QED
  BY <1>4, <1>6, <1>9, <1>11 DEF Same

LEMMA ProcFreePagetableIs ==
  ASSUME NEW w, NEW T, Good(w, T), NEW sz, Built(w.sp, Up(sz)),
         NEW x, x = ProcFreePagetable(w, sz)
  PROVE  Good(x, T) /\ Same(x, w) /\ x.sp = Bare(w.sp.tf, w.sp.sz)
<1>1. PICK n, y, z : /\ n = Up(sz) /\ y = Uvmunmap(w, {Trampoline}, FALSE)
                     /\ z = Uvmunmap(y, {TrapFrame}, FALSE)
  OBVIOUS
<1>2. /\ n \in 0..MaxPages /\ w.sp.root \in Page /\ w.sp.guard \subseteq 0..n - 1
      /\ w.sp.leaf[TrapFrame] \in Page /\ w.sp.leaf[Trampoline] = KernelText
      /\ w.sp.tabs[MaxPages] # 0
      /\ \A v \in 0..n - 1 : w.sp.leaf[v] \in Page /\ w.sp.tabs[TabOf(v)] # 0
      /\ \A v \in n..MaxPages - 1 : w.sp.leaf[v] = 0
  BY <1>1 DEF Built
<1>3. /\ w.sp \in Spaces /\ {Trampoline} \in SUBSET Vpn /\ {TrapFrame} \in SUBSET Vpn
      /\ TrapFrame # Trampoline /\ TrapFrame \in Vpn
  <2>1. w.sp \in Spaces
    BY GoodIs
  <2>2. /\ {Trampoline} \in SUBSET Vpn /\ {TrapFrame} \in SUBSET Vpn
        /\ TrapFrame # Trampoline /\ TrapFrame \in Vpn
    BY Constants
  <2> QED
    BY <2>1, <2>2
<1>4. Good(y, T) /\ Same(y, w) /\ y.sp = Unmapped(w.sp, {Trampoline})
  BY <1>1, <1>2, UvmunmapTopIs, Constants
<1>5. /\ y.sp \in Spaces /\ y.sp.root = w.sp.root /\ y.sp.tabs = w.sp.tabs
      /\ y.sp.guard = w.sp.guard \ {Trampoline} /\ y.sp.tf = w.sp.tf /\ y.sp.sz = w.sp.sz
      /\ y.sp.leaf = [v \in Vpn |-> IF v \in {Trampoline} THEN 0 ELSE w.sp.leaf[v]]
  BY <1>3, <1>4, WithoutIs
<1>6. y.sp.leaf[TrapFrame] # 0 /\ y.sp.tabs[MaxPages] # 0
  BY <1>2, <1>3, <1>5, Constants
<1>7. Good(z, T) /\ Same(z, y) /\ z.sp = Unmapped(y.sp, {TrapFrame})
  BY <1>1, <1>3, <1>4, <1>6, UvmunmapTopIs
<1>8. /\ z.sp \in Spaces /\ z.sp.root = y.sp.root /\ z.sp.tabs = y.sp.tabs
      /\ z.sp.guard = y.sp.guard \ {TrapFrame} /\ z.sp.tf = y.sp.tf /\ z.sp.sz = y.sp.sz
      /\ z.sp.leaf = [v \in Vpn |-> IF v \in {TrapFrame} THEN 0 ELSE y.sp.leaf[v]]
  BY <1>3, <1>5, <1>7, WithoutIs
<1>9. /\ MaxPages \in Nat /\ Vpn = 0..MaxPages + 1 /\ TrapFrame = MaxPages
      /\ Trampoline = MaxPages + 1
  BY Constants
<1>10. OnlyImage(z.sp, Up(sz))
  <2>1. \A v \in Vpn : z.sp.leaf[v] = IF v \in {TrapFrame, Trampoline} THEN 0 ELSE w.sp.leaf[v]
    BY <1>5, <1>8
  <2>2. \A v \in 0..n - 1 : z.sp.leaf[v] \in Page /\ z.sp.tabs[TabOf(v)] # 0
    BY <1>2, <1>5, <1>8, <1>9, <2>1
  <2>3. ASSUME NEW v \in Vpn \ (0..n - 1) PROVE z.sp.leaf[v] = 0
    <3>1. v \in n..MaxPages - 1 \/ v \in {TrapFrame, Trampoline}
      BY <1>2, <1>9
    <3> QED
      BY <1>2, <2>1, <3>1
  <2>4. z.sp.root \in Page /\ z.sp.guard \subseteq 0..n - 1
    BY <1>2, <1>5, <1>8
  <2> QED
    BY <1>1, <1>2, <2>2, <2>3, <2>4 DEF OnlyImage
<1>11. x = Uvmfree(z, sz)
  BY <1>1 DEF ProcFreePagetable
<1>12. Good(x, T) /\ Same(x, z) /\ x.sp = Bare(z.sp.tf, z.sp.sz)
  BY <1>7, <1>10, <1>11, UvmfreeIs
<1> QED
  BY <1>4, <1>5, <1>7, <1>8, <1>12 DEF Same

(*****************************************************************************)
(* proc.c: a page table and a trapframe for a process.                       *)
(*****************************************************************************)

\* An empty space with the trapframe tf, or what there was.
Tabled(x, w, T, tf) ==
  /\ Good(x, T) /\ x.op = w.op
  /\ \/ ~x.ok /\ x.sp = w.sp
     \/ x.ok /\ Shape(x.sp, 0) /\ x.sp.tf = tf /\ x.sp.sz = 0 /\ x.sp.guard = {}

LEMMA ProcPagetableIs ==
  ASSUME NEW w, NEW T, Good(w, T), w.ok, NEW tf \in Page, w.sp = Bare(tf, 0),
         NEW x, x = ProcPagetable(w)
  PROVE  Tabled(x, w, T, tf)
<1> SUFFICES /\ Good(x, T) /\ x.op = w.op
             /\ \/ ~x.ok /\ x.sp = w.sp
                \/ x.ok /\ Shape(x.sp, 0) /\ x.sp.tf = tf /\ x.sp.sz = 0 /\ x.sp.guard = {}
  BY DEF Tabled
<1>1. PICK u, y, z : /\ u = Uvmcreate(w) /\ y = Mappages(u, Trampoline, KernelText)
                     /\ z = Mappages(y, TrapFrame, tf)
  OBVIOUS
<1>2. /\ w \in Works /\ w.free \in SUBSET Page /\ w.sp \in Spaces /\ w.ok \in BOOLEAN
      /\ w.op \in Int /\ PagesOf(w.sp) \in Maps /\ Owns(w.free, PagesOf(w.sp), T)
  BY GoodIs
<1>3. /\ w.sp.root = 0 /\ w.sp.tabs = [t \in Tab |-> 0] /\ w.sp.leaf = [v \in Vpn |-> 0]
      /\ w.sp.guard = {} /\ w.sp.tf = tf /\ w.sp.sz = 0
  BY DEF Bare
<1>4. x = IF ~u.ok THEN u ELSE IF ~y.ok THEN Uvmfree(y, 0)
          ELSE IF ~z.ok THEN Uvmfree(Uvmunmap(z, {Trampoline}, FALSE), 0) ELSE z
  BY <1>1, <1>3 DEF ProcPagetable
<1>5. CASE w.free = {}
  <2>1. u = Fail(w)
    BY <1>1, <1>5 DEF Uvmcreate
  <2>2. Good(u, T) /\ u.sp = w.sp /\ u.op = w.op /\ ~u.ok
    BY <2>1, FailIs
  <2> QED
    BY <1>4, <2>2
<1>6. CASE w.free # {}
  <2>1. PICK pg, q, sq : /\ pg = Head0(w.free) /\ q = Kalloc(w)
                         /\ sq = [w.sp EXCEPT !.root = pg]
    OBVIOUS
  <2>2. /\ pg \in T /\ pg \in Page /\ pg # 0 /\ pg \in w.free
        /\ Good(q, T \ {pg}) /\ q.sp = w.sp /\ Same(q, w)
    BY <1>6, <2>1, KallocIs
  <2>3. /\ q \in Works /\ q.free \in SUBSET Page /\ q.ok \in BOOLEAN
        /\ q.op \in Int /\ Owns(q.free, PagesOf(w.sp), T \ {pg})
    <3>1. /\ q \in Works /\ q.free \in SUBSET Page /\ q.ok \in BOOLEAN
          /\ q.op \in Int /\ Owns(q.free, PagesOf(q.sp), T \ {pg})
      BY <2>2, GoodIs
    <3> QED
      BY <2>2, <3>1
  <2>4. u = Work5(q.free, sq, q.ok, "", q.op)
    <3>1. u = [q EXCEPT !.sp.root = pg]
      BY <1>1, <1>6, <2>1 DEF Uvmcreate
    <3>2. [q EXCEPT !.sp.root = pg] = Work5(q.free, [q.sp EXCEPT !.root = pg], q.ok, "", q.op)
      BY <2>3, RootField
    <3> QED
      BY ONLY <2>1, <2>2, <3>1, <3>2
  <2>5. u.sp = sq /\ Same(u, q)
    BY ONLY <2>4 DEF Work5, Same
  <2>6. /\ sq \in Spaces /\ sq.root = pg /\ sq.tabs = [t \in Tab |-> 0]
        /\ sq.leaf = [v \in Vpn |-> 0] /\ sq.guard = {} /\ sq.tf = tf /\ sq.sz = 0
    BY <1>2, <1>3, <2>1, <2>2 DEF Spaces
  <2>7. Good(u, T)
    <3>1. PagesOf(sq) = [PagesOf(w.sp) EXCEPT ![<<"root", 0>>] = pg]
      BY <1>2, <2>1, <2>2, RootPut
    <3>2. PagesOf(w.sp)[<<"root", 0>>] \notin Page /\ <<"root", 0>> \in Place
      BY <1>2, <1>3, PagesAre, Places, Constants
    <3>3. pg \notin T \ {pg} /\ (T \ {pg}) \cup {pg} = T
      BY <2>2
    <3>4. Owns(q.free, [PagesOf(w.sp) EXCEPT ![<<"root", 0>>] = pg], (T \ {pg}) \cup {pg})
      BY ONLY <1>2, <2>2, <2>3, <3>2, <3>3, OwnsPut
    <3>5. Owns(q.free, PagesOf(sq), T)
      BY ONLY <3>1, <3>3, <3>4
    <3> QED
      BY ONLY <2>3, <2>4, <2>6, <3>5, GoodMade
  <2>8. /\ Trampoline \in Vpn /\ TrapFrame \in Vpn /\ Trampoline # TrapFrame
        /\ TabOf(Trampoline) = MaxPages /\ TabOf(TrapFrame) = MaxPages
        /\ MaxPages \in Nat /\ Vpn = 0..MaxPages + 1 /\ TrapFrame = MaxPages
        /\ Trampoline = MaxPages + 1 /\ MaxPages \in Tab
    BY Constants
  <2>9. u.ok /\ \A v \in Vpn : u.sp.leaf[v] = 0
    BY <2>2, <2>5, <2>6 DEF Same
  <2>10. \/ y = Fail(u)
         \/ /\ Good(y, T) /\ Same(y, u) /\ Kept(y.sp, u.sp)
            /\ y.sp.leaf = [u.sp.leaf EXCEPT ![Trampoline] = KernelText]
            /\ y.sp.tabs[TabOf(Trampoline)] # 0
    <3>1. PICK v, pg1 : v = Trampoline /\ pg1 = KernelText
      OBVIOUS
    <3>2. v \in Vpn /\ u.sp.leaf[v] = 0 /\ v # TrapFrame /\ y = Mappages(u, v, pg1)
      BY <1>1, <2>8, <2>9, <3>1
    <3>3. \/ v # TrapFrame /\ pg1 \in Page \ T /\ T = T \cup {pg1}
          \/ v # TrapFrame /\ pg1 = KernelText /\ T = T
          \/ v = TrapFrame /\ pg1 \in Page /\ T = T
      BY <3>1, <3>2
    <3>4. \/ y = Fail(u) /\ u.sp.tabs[TabOf(v)] = 0
          \/ /\ Good(y, T) /\ Same(y, u) /\ Kept(y.sp, u.sp)
             /\ y.sp.leaf = [u.sp.leaf EXCEPT ![v] = pg1] /\ y.sp.tabs[TabOf(v)] # 0
      BY ONLY <2>7, <2>9, <3>2, <3>3, MappagesIs
    <3> QED
      BY ONLY <3>1, <3>4
  <2>11. CASE y = Fail(u)
    <3>1. Good(y, T) /\ y.sp = u.sp /\ y.op = u.op /\ ~y.ok
      BY <2>7, <2>11, FailIs
    <3>2. x = Freewalk(Uvmunmap(y, 0..Up(0) - 1, TRUE))
      BY <1>4, <2>9, <3>1 DEF Uvmfree
    <3>3. x = Uvmfree(y, 0)
      BY <1>4, <2>9, <3>1
    <3>4. Up(0) = 0
      BY UpZero
    <3>5. OnlyImage(y.sp, Up(0))
      BY <2>2, <2>5, <2>6, <2>8, <2>9, <3>1, <3>4 DEF OnlyImage
    <3>6. Good(x, T) /\ Same(x, y) /\ x.sp = Bare(y.sp.tf, y.sp.sz)
      BY <3>1, <3>3, <3>5, UvmfreeIs
    <3>7. x.sp = w.sp /\ ~x.ok /\ x.op = w.op
      BY <2>2, <2>5, <2>6, <3>1, <3>6 DEF Same
    <3> QED
      BY <3>6, <3>7
  <2>12. ASSUME y # Fail(u)
         PROVE  Good(x, T) /\ x.op = w.op /\ x.ok /\ Shape(x.sp, 0) /\ x.sp.tf = tf
                /\ x.sp.sz = 0 /\ x.sp.guard = {}
    <3>1. /\ Good(y, T) /\ Same(y, u) /\ Kept(y.sp, u.sp)
          /\ y.sp.leaf = [u.sp.leaf EXCEPT ![Trampoline] = KernelText]
          /\ y.sp.tabs[MaxPages] # 0
      BY <2>8, <2>10, <2>12
    <3>2. \A v \in Vpn : y.sp.leaf[v] = IF v = Trampoline THEN KernelText ELSE 0
      BY <2>5, <2>6, <3>1
    <3>3. y.ok /\ y.sp.leaf[TrapFrame] = 0 /\ y.sp \in Spaces
      BY <2>8, <2>9, <3>1, <3>2, GoodIs DEF Same
    <3>4. /\ Good(z, T) /\ Same(z, y) /\ Kept(z.sp, y.sp)
          /\ z.sp.leaf = [y.sp.leaf EXCEPT ![TrapFrame] = tf] /\ z.sp.tabs[TabOf(TrapFrame)] # 0
      <4>1. z = Mappages(y, TrapFrame, tf) /\ y.sp.tabs[TabOf(TrapFrame)] # 0
        BY <1>1, <2>8, <3>1
      <4>2. Good(y, T) /\ y.ok /\ y.sp.leaf[TrapFrame] = 0
        BY <3>1, <3>3
      <4>3. tf \in Page
        OBVIOUS
      <4> QED
        BY ONLY <4>1, <4>2, <4>3, MapTrapFrame
    <3>5. \A v \in Vpn : z.sp.leaf[v] = IF v = TrapFrame THEN tf
                                        ELSE IF v = Trampoline THEN KernelText ELSE 0
      BY <3>2, <3>3, <3>4, SpaceIs
    <3>6. x = z /\ x.ok
      BY <1>4, <2>9, <3>3, <3>4 DEF Same
    <3>7. /\ z.sp.root = pg /\ z.sp.guard = {} /\ z.sp.tf = tf /\ z.sp.sz = 0
      BY <2>5, <2>6, <3>1, <3>4 DEF Kept
    <3>8. Shape(z.sp, 0)
      <4>1. \A v \in 0..MaxPages - 1 : z.sp.leaf[v] = 0
        BY <2>8, <3>5
      <4>2. 0 \in 0..MaxPages /\ \A v \in 0..0 - 1 : FALSE
        BY <2>8
      <4>3. z.sp.leaf[TrapFrame] = tf /\ z.sp.leaf[Trampoline] = KernelText
        BY <2>8, <3>5
      <4>4. z.sp.tabs[MaxPages] # 0
        BY <2>8, <3>4
      <4> QED
        BY <2>2, <3>7, <4>1, <4>2, <4>3, <4>4 DEF Shape, Built
    <3> QED
      BY <2>2, <2>5, <3>1, <3>4, <3>6, <3>7, <3>8 DEF Same
  <2> QED
    BY <2>11, <2>12
<1> QED
  BY <1>5, <1>6

(*****************************************************************************)
(* The number of pages below an address.                                     *)
(*****************************************************************************)

LEMMA Times ==
  ASSUME NEW S \in Nat \ {0}, NEW a \in Int, NEW b \in Int, a < b
  PROVE  S * a + S <= S * b
<1>1. PICK d \in Nat : b = (a + 1) + d
  BY b - (a + 1) \in Nat
<1>2. S * b = S * a + S + S * d
  BY <1>1
<1>3. S * d >= 0
  OBVIOUS
<1> QED
  BY <1>2, <1>3

LEMMA DivGrows ==
  ASSUME NEW S \in Nat \ {0}, NEW a \in Int, NEW b \in Int, a <= b
  PROVE  a \div S <= b \div S
<1>1. PICK q, r, t, u : /\ q = a \div S /\ r = a % S /\ t = b \div S /\ u = b % S
  OBVIOUS
<1>2. /\ r \in 0 .. S - 1 /\ q \in Int /\ a = S * q + r
      /\ u \in 0 .. S - 1 /\ t \in Int /\ b = S * t + u
  BY <1>1, DivMod
<1>3. t < q => S * t + S <= S * q
  BY <1>2, Times
<1>4. ~(t < q)
  BY <1>2, <1>3
<1> QED
  BY <1>1, <1>2, <1>4

LEMMA UpIs ==
  ASSUME NEW sz \in Nat
  PROVE  Up(sz) \in Nat /\ (sz + PGSIZE - 1) \div PGSIZE = Up(sz)
<1>1. PGSIZE \in Nat \ {0} /\ sz + PGSIZE - 1 \in Int /\ 0 \in Int /\ 0 <= sz + PGSIZE - 1
  BY MemoryAssumption
<1>2. 0 \div PGSIZE <= (sz + PGSIZE - 1) \div PGSIZE
  BY <1>1, DivGrows
<1>3. (PGSIZE * 0 + 0) \div PGSIZE = 0
  BY <1>1, DivIs
<1>4. PGSIZE * 0 + 0 = 0
  BY <1>1
<1>5. (sz + PGSIZE - 1) \div PGSIZE \in Int
  BY <1>1, DivMod
<1> QED
  BY <1>2, <1>3, <1>4, <1>5 DEF Up

LEMMA UpGrows ==
  ASSUME NEW a \in Nat, NEW b \in Nat, a <= b
  PROVE  Up(a) <= Up(b)
<1>1. PGSIZE \in Nat \ {0}
  BY MemoryAssumption
<1>2. a + PGSIZE - 1 \in Int /\ b + PGSIZE - 1 \in Int /\ a + PGSIZE - 1 <= b + PGSIZE - 1
  BY <1>1
<1>3. (a + PGSIZE - 1) \div PGSIZE <= (b + PGSIZE - 1) \div PGSIZE
  BY <1>1, <1>2, DivGrows
<1> QED
  BY <1>3 DEF Up

\* A number of pages is that of its bytes.
LEMMA UpPages ==
  ASSUME NEW n \in Nat
  PROVE  n * PGSIZE \in Nat /\ Up(n * PGSIZE) = n
<1>1. PGSIZE \in Nat \ {0} /\ PGSIZE - 1 \in 0 .. PGSIZE - 1 /\ n \in Int
  BY MemoryAssumption
<1>2. (PGSIZE * n + (PGSIZE - 1)) \div PGSIZE = n
  BY <1>1, DivIs
<1>3. PGSIZE * n + (PGSIZE - 1) = n * PGSIZE + PGSIZE - 1 /\ n * PGSIZE \in Nat
  BY <1>1
<1> QED
  BY <1>2, <1>3 DEF Up

LEMMA UpTwo ==
  ASSUME NEW n \in Nat
  PROVE  n * PGSIZE + 2 * PGSIZE \in Nat /\ Up(n * PGSIZE + 2 * PGSIZE) = n + 2
<1>1. PGSIZE \in Nat
  BY MemoryAssumption
<1>2. (n + 2) * PGSIZE = n * PGSIZE + 2 * PGSIZE
  BY <1>1
<1>3. n + 2 \in Nat
  OBVIOUS
<1> QED
  BY <1>2, <1>3, UpPages

\* The size and the guard pages of a space are nobody's pages.
Alike(sq, sp) ==
  /\ sq \in Spaces /\ sq.root = sp.root /\ sq.tabs = sp.tabs /\ sq.tf = sp.tf
  /\ \A v \in Vpn \ {TrapFrame} : sq.leaf[v] = sp.leaf[v]
Turned(x, w, sq) == x = Work5(w.free, sq, w.ok, "", w.op)

LEMMA NoPlace ==
  ASSUME NEW w, NEW T, Good(w, T), NEW sq, Alike(sq, w.sp), NEW x, Turned(x, w, sq)
  PROVE  Good(x, T) /\ Same(x, w) /\ x.free = w.free /\ x.sp = sq
<1>0. /\ sq \in Spaces /\ sq.root = w.sp.root /\ sq.tabs = w.sp.tabs /\ sq.tf = w.sp.tf
      /\ \A v \in Vpn \ {TrapFrame} : sq.leaf[v] = w.sp.leaf[v]
      /\ x = Work5(w.free, sq, w.ok, "", w.op)
  BY DEF Alike, Turned
<1>1. /\ w.free \in SUBSET Page /\ w.sp \in Spaces /\ w.ok \in BOOLEAN
      /\ w.op \in Int /\ Owns(w.free, PagesOf(w.sp), T)
  BY GoodIs
<1>2. PagesOf(sq) = PagesOf(w.sp)
  BY <1>0, <1>1, NotAPlace
<1>3. Owns(w.free, PagesOf(sq), T)
  BY <1>1, <1>2
<1>4. sq \in Spaces
  BY <1>0
<1>5. x = Work5(w.free, sq, w.ok, "", w.op)
  BY <1>0
<1>6. Good(x, T)
  BY ONLY <1>1, <1>3, <1>4, <1>5, GoodMade
<1>7. x.sp = sq /\ Same(x, w) /\ x.free = w.free
  BY ONLY <1>5 DEF Work5, Same
<1> QED
  BY <1>6, <1>7

\* A space that differs from another in its size and guard pages only.
Resized(sq, sp, sz, guard) ==
  /\ sq \in Spaces /\ sq.root = sp.root /\ sq.tabs = sp.tabs /\ sq.leaf = sp.leaf
  /\ sq.tf = sp.tf /\ sq.sz = sz /\ sq.guard = guard

LEMMA SzPut ==
  ASSUME NEW w, NEW T, Good(w, T), NEW n \in Nat, NEW x, x = [w EXCEPT !.sp.sz = n]
  PROVE  Good(x, T) /\ Same(x, w) /\ x.free = w.free /\ Resized(x.sp, w.sp, n, w.sp.guard)
<1>1. w \in Works /\ w.sp \in Spaces
  BY GoodIs
<1>2. PICK sq : sq = [w.sp EXCEPT !.sz = n]
  OBVIOUS
<1>3. Resized(sq, w.sp, n, w.sp.guard)
  BY <1>1, <1>2 DEF Spaces, Resized
<1>4. x = Work5(w.free, sq, w.ok, "", w.op)
  <2>1. [w EXCEPT !.sp.sz = n] = Work5(w.free, [w.sp EXCEPT !.sz = n], w.ok, "", w.op)
    BY <1>1, SzField
  <2> QED
    BY <1>2, <2>1
<1>5. Good(x, T) /\ Same(x, w) /\ x.free = w.free /\ x.sp = sq
  <2>1. Alike(sq, w.sp)
    BY <1>3 DEF Resized, Alike
  <2>2. Good(w, T) /\ Turned(x, w, sq)
    BY <1>4 DEF Turned
  <2> QED
    BY ONLY <2>1, <2>2, NoPlace
<1> QED
  BY <1>3, <1>5

LEMMA GuardPut ==
  ASSUME NEW w, NEW T, Good(w, T), NEW guard \in SUBSET Vpn, NEW x, x = [w EXCEPT !.sp.guard = guard]
  PROVE  Good(x, T) /\ Same(x, w) /\ x.free = w.free /\ Resized(x.sp, w.sp, w.sp.sz, guard)
<1>1. w \in Works /\ w.sp \in Spaces
  BY GoodIs
<1>2. PICK sq : sq = [w.sp EXCEPT !.guard = guard]
  OBVIOUS
<1>3. Resized(sq, w.sp, w.sp.sz, guard)
  BY <1>1, <1>2 DEF Spaces, Resized
<1>4. x = Work5(w.free, sq, w.ok, "", w.op)
  <2>1. [w EXCEPT !.sp.guard = guard] = Work5(w.free, [w.sp EXCEPT !.guard = guard], w.ok, "", w.op)
    BY <1>1, GuardField
  <2> QED
    BY <1>2, <2>1
<1>5. Good(x, T) /\ Same(x, w) /\ x.free = w.free /\ x.sp = sq
  <2>1. Alike(sq, w.sp)
    BY <1>3 DEF Resized, Alike
  <2>2. Good(w, T) /\ Turned(x, w, sq)
    BY <1>4 DEF Turned
  <2> QED
    BY ONLY <2>1, <2>2, NoPlace
<1> QED
  BY <1>3, <1>5

LEMMA ShapeResized ==
  ASSUME NEW sp, NEW sq, NEW sz, NEW guard, NEW n, Shape(sp, n), guard \subseteq 0..n - 1,
         Resized(sq, sp, sz, guard)
  PROVE  Shape(sq, n)
  BY DEF Shape, Built, Resized

\* A space without page tables holds its trapframe at most.
LEMMA BareHolds ==
  ASSUME NEW w, NEW T, Good(w, T), NEW tf \in Page \cup {0}, NEW sz \in Nat,
         w.sp = Bare(tf, sz)
  PROVE  w.free = T \ {tf} /\ (tf \in Page => tf \in T)
<1>1. /\ w.free \in SUBSET Page /\ w.sp \in Spaces /\ T \in SUBSET Page
      /\ Owns(w.free, PagesOf(w.sp), T)
  BY GoodIs
<1>2. PICK sp, f : sp = w.sp /\ f = PagesOf(sp)
  OBVIOUS
<1>3. /\ sp.root = 0 /\ sp.tabs = [t \in Tab |-> 0] /\ sp.leaf = [v \in Vpn |-> 0]
      /\ sp.tf = tf
  BY <1>2 DEF Bare
<1>4. \A x \in Place : x # <<"tf", 0>> => f[x] = 0
  <2> SUFFICES ASSUME NEW x \in Place, x # <<"tf", 0>> PROVE f[x] = 0
    OBVIOUS
  <2>1. CASE x = <<"root", 0>>
    BY <1>1, <1>2, <1>3, <2>1, PagesAre
  <2>2. CASE \E t \in Tab : x = <<"table", t>>
    <3>1. PICK t \in Tab : x = <<"table", t>>
      BY <2>2
    <3> QED
      BY <1>1, <1>2, <1>3, <3>1, PagesAre
  <2>3. CASE \E v \in Vpn \ {TrapFrame} : x = <<"leaf", v>>
    <3>1. PICK v \in Vpn \ {TrapFrame} : x = <<"leaf", v>>
      BY <2>3
    <3> QED
      BY <1>1, <1>2, <1>3, <3>1, PagesAre
  <2> QED
    BY <2>1, <2>2, <2>3, Places
<1>5. f[<<"tf", 0>>] = tf /\ <<"tf", 0>> \in Place
  BY <1>1, <1>2, <1>3, PagesAre, Places
<1>6. Held(f) = {tf} \cap Page
  BY <1>4, <1>5, Constants DEF Held
<1>7. Owns(w.free, f, T)
  BY <1>1, <1>2
<1> QED
  BY <1>1, <1>6, <1>7, Constants DEF Owns

\* freeproc(): everything is free again.
LEMMA FreeprocIs ==
  ASSUME NEW w, NEW T, Good(w, T), NEW tf \in Page, w.sp.tf = tf,
         w.sp = Bare(tf, 0) \/ Shape(w.sp, Up(w.sp.sz)), NEW x, x = Freeproc(w)
  PROVE  Good(x, T) /\ Same(x, w) /\ x.sp = NoSpace /\ x.free = T
<1>1. /\ w \in Works /\ w.free \in SUBSET Page /\ w.sp \in Spaces /\ w.ok \in BOOLEAN
      /\ w.op \in Int /\ T \in SUBSET Page /\ PagesOf(w.sp) \in Maps
      /\ Owns(w.free, PagesOf(w.sp), T)
  BY GoodIs
<1>2. tf # 0
  BY Constants
<1>3. PICK m, X, sq : /\ m = PagesOf(w.sp) /\ X = {<<"tf", 0>>}
                      /\ sq = [w.sp EXCEPT !.tf = 0]
  OBVIOUS
<1>4. sq \in Spaces /\ PagesOf(sq) = [m EXCEPT ![<<"tf", 0>>] = 0]
  BY <1>1, <1>3, TfPut
<1>5. /\ sq.root = w.sp.root /\ sq.tabs = w.sp.tabs /\ sq.leaf = w.sp.leaf
      /\ sq.guard = w.sp.guard /\ sq.tf = 0 /\ sq.sz = w.sp.sz
  BY <1>1, <1>3 DEF Spaces
<1>6. m[<<"tf", 0>>] = tf /\ <<"tf", 0>> \in Place
  BY <1>1, <1>3, PagesAre, Places
<1>7. IsEmptied(PagesOf(sq), m, X)
  <2>1. PagesOf(sq) \in Maps
    BY <1>4, PagesTyped
  <2>2. \A p \in Place : PagesOf(sq)[p] = IF p \in X THEN 0 ELSE m[p]
    BY <1>1, <1>3, <1>4, <1>6 DEF Maps
  <2> QED
    BY <1>3, <1>6, <2>1, <2>2 DEF IsEmptied
<1>8. PagesIn(m, X) = {tf}
  BY <1>3, <1>6 DEF PagesIn
<1>9. {tf} \cap w.free = {} /\ Owns(w.free \cup {tf}, PagesOf(sq), T)
  <2>0. PICK g, free : g = PagesOf(sq) /\ free = w.free
    OBVIOUS
  <2>1. m \in Maps /\ Owns(free, m, T) /\ IsEmptied(g, m, X)
    BY <1>1, <1>3, <1>7, <2>0
  <2>2. /\ PagesIn(m, X) \cap free = {}
        /\ Owns(free \cup PagesIn(m, X), g, T)
    BY ONLY <2>1, OwnsEmptied
  <2> QED
    BY <1>8, <2>0, <2>2
<1>10. PICK y, z : y = Kfree(w, tf) /\ z = [y EXCEPT !.sp.tf = 0]
  OBVIOUS
<1>11. y = Work5(w.free \cup {tf}, w.sp, w.ok, "", w.op)
  <2>1. y = [w EXCEPT !.free = w.free \cup {tf}]
    BY <1>9, <1>10 DEF Kfree
  <2> QED
    BY <1>1, <2>1, Fields
<1>12. y \in Works /\ y.free = w.free \cup {tf} /\ y.sp = w.sp /\ y.ok = w.ok /\ y.op = w.op
  <2>1. w.free \cup {tf} \in SUBSET Page
    BY <1>1
  <2> QED
    BY ONLY <1>1, <1>11, <2>1 DEF Works, Work5
<1>13. z = Work5(w.free \cup {tf}, sq, w.ok, "", w.op)
  <2>1. [y EXCEPT !.sp.tf = 0] = Work5(y.free, [y.sp EXCEPT !.tf = 0], y.ok, "", y.op)
    BY <1>12, TfField
  <2> QED
    BY ONLY <1>3, <1>10, <1>12, <2>1
<1>14. Good(z, T) /\ z.sp = sq /\ Same(z, w)
  <2>1. Good(z, T)
    BY ONLY <1>1, <1>4, <1>9, <1>13, GoodMade
  <2>2. z.sp = sq /\ Same(z, w)
    BY ONLY <1>13 DEF Work5, Same
  <2> QED
    BY <2>1, <2>2
<1>15. PICK u : u = IF w.sp.root = 0 THEN z ELSE ProcFreePagetable(z, w.sp.sz)
  OBVIOUS
<1>16. x = [u EXCEPT !.sp.sz = 0]
  BY <1>2, <1>10, <1>15 DEF Freeproc
<1>17. w.sp.sz \in Nat
  BY <1>1, SpaceIs
<1>18. Good(u, T) /\ Same(u, w) /\ u.sp = Bare(0, w.sp.sz)
  <2>1. CASE w.sp = Bare(tf, 0)
    <3>1. /\ w.sp.root = 0 /\ w.sp.tabs = [t \in Tab |-> 0] /\ w.sp.leaf = [v \in Vpn |-> 0]
          /\ w.sp.guard = {}
      BY <2>1 DEF Bare
    <3>2. u = z
      BY <1>15, <3>1
    <3>3. sq = Bare(sq.tf, sq.sz)
      BY <1>4, <1>5, <3>1, BareEqual
    <3> QED
      BY <1>5, <1>14, <3>2, <3>3
  <2>2. CASE Shape(w.sp, Up(w.sp.sz))
    <3>1. Built(sq, Up(w.sp.sz)) /\ w.sp.root # 0
      BY <1>5, <2>2, Constants DEF Shape, Built
    <3>2. u = ProcFreePagetable(z, w.sp.sz) /\ Built(z.sp, Up(w.sp.sz))
      BY <1>14, <1>15, <3>1
    <3>3. Good(u, T) /\ Same(u, z) /\ u.sp = Bare(z.sp.tf, z.sp.sz)
      BY ONLY <1>14, <3>2, ProcFreePagetableIs
    <3> QED
      BY <1>5, <1>14, <3>3 DEF Same
  <2> QED
    BY <2>1, <2>2
<1>19. Good(x, T) /\ Same(x, u) /\ Resized(x.sp, u.sp, 0, u.sp.guard)
  BY <1>16, <1>18, SzPut
<1>20. x.sp = NoSpace
  <2>1. PICK sp : sp = Bare(0, w.sp.sz)
    OBVIOUS
  <2>2. /\ sp.root = 0 /\ sp.tabs = [t \in Tab |-> 0] /\ sp.leaf = [v \in Vpn |-> 0]
        /\ sp.guard = {} /\ sp.tf = 0
    BY <2>1 DEF Bare
  <2>3. x.sp = Bare(x.sp.tf, x.sp.sz) /\ x.sp.tf = 0 /\ x.sp.sz = 0
    BY <1>18, <1>19, <2>1, <2>2, BareEqual DEF Resized
  <2> QED
    BY <2>3 DEF Bare, NoSpace
<1>21. x.free = T
  <2>1. NoSpace = Bare(0, 0) /\ 0 \in Page \cup {0} /\ 0 \in Nat
    BY DEF NoSpace, Bare
  <2>2. x.free = T \ {0}
    BY <1>19, <1>20, <2>1, BareHolds
  <2> QED
    BY <1>1, <2>2, Constants
<1> QED
  BY <1>18, <1>19, <1>20, <1>21 DEF Same

LEMMA AllocprocIs ==
  ASSUME NEW w, NEW T, Good(w, T), w.ok, w.sp = NoSpace, NEW x, x = Allocproc(w)
  PROVE  /\ Good(x, T) /\ x.op = w.op
         /\ \/ ~x.ok /\ x.sp = NoSpace
            \/ x.ok /\ Shape(x.sp, 0) /\ x.sp.tf \in Page /\ x.sp.sz = 0 /\ x.sp.guard = {}
<1>1. /\ w \in Works /\ w.free \in SUBSET Page /\ w.sp \in Spaces /\ w.ok \in BOOLEAN
      /\ w.op \in Int /\ PagesOf(w.sp) \in Maps /\ Owns(w.free, PagesOf(w.sp), T)
  BY GoodIs
<1>2. CASE w.free = {}
  <2>1. x = Fail(w)
    BY <1>2 DEF Allocproc
  <2>2. Good(x, T) /\ x.sp = w.sp /\ x.op = w.op /\ ~x.ok
    BY <2>1, FailIs
  <2> QED
    BY <2>2
<1>3. CASE w.free # {}
  <2>1. PICK pg, q, sq, u : /\ pg = Head0(w.free) /\ q = Kalloc(w)
                            /\ sq = [w.sp EXCEPT !.tf = pg] /\ u = [q EXCEPT !.sp.tf = pg]
    OBVIOUS
  <2>2. /\ pg \in T /\ pg \in Page /\ pg # 0 /\ pg \in w.free
        /\ Good(q, T \ {pg}) /\ q.sp = w.sp /\ Same(q, w)
    BY <1>3, <2>1, KallocIs
  <2>3. /\ q \in Works /\ q.free \in SUBSET Page /\ q.ok \in BOOLEAN
        /\ q.op \in Int /\ Owns(q.free, PagesOf(w.sp), T \ {pg})
    <3>1. /\ q \in Works /\ q.free \in SUBSET Page /\ q.ok \in BOOLEAN
          /\ q.op \in Int /\ Owns(q.free, PagesOf(q.sp), T \ {pg})
      BY <2>2, GoodIs
    <3> QED
      BY <2>2, <3>1
  <2>4. u = Work5(q.free, sq, q.ok, "", q.op)
    <3>1. [q EXCEPT !.sp.tf = pg] = Work5(q.free, [q.sp EXCEPT !.tf = pg], q.ok, "", q.op)
      BY <2>3, TfField
    <3> QED
      BY ONLY <2>1, <2>2, <3>1
  <2>5. u.sp = sq /\ Same(u, q)
    BY ONLY <2>4 DEF Work5, Same
  <2>6. sq = Bare(pg, 0)
    BY <2>1 DEF NoSpace, Bare
  <2>7. Good(u, T)
    <3>1. sq \in Spaces /\ PagesOf(sq) = [PagesOf(w.sp) EXCEPT ![<<"tf", 0>>] = pg]
      BY <1>1, <2>1, <2>2, TfPut
    <3>2. PagesOf(w.sp)[<<"tf", 0>>] \notin Page /\ <<"tf", 0>> \in Place
      <4>1. w.sp.tf = 0
        BY DEF NoSpace
      <4> QED
        BY <1>1, <4>1, PagesAre, Places, Constants
    <3>3. pg \notin T \ {pg} /\ (T \ {pg}) \cup {pg} = T
      BY <2>2
    <3>4. Owns(q.free, [PagesOf(w.sp) EXCEPT ![<<"tf", 0>>] = pg], (T \ {pg}) \cup {pg})
      BY ONLY <1>1, <2>2, <2>3, <3>2, <3>3, OwnsPut
    <3>5. Owns(q.free, PagesOf(sq), T)
      BY ONLY <3>1, <3>3, <3>4
    <3> QED
      BY ONLY <2>3, <2>4, <3>1, <3>5, GoodMade
  <2>8. PICK y : y = ProcPagetable(u)
    OBVIOUS
  <2>9. u.ok /\ u.op = w.op /\ u.sp = Bare(pg, 0)
    BY <2>2, <2>5, <2>6 DEF Same
  <2>10. /\ Good(y, T) /\ y.op = u.op
         /\ \/ ~y.ok /\ y.sp = u.sp
            \/ y.ok /\ Shape(y.sp, 0) /\ y.sp.tf = pg /\ y.sp.sz = 0 /\ y.sp.guard = {}
    <3>1. Tabled(y, u, T, pg)
      BY <2>2, <2>7, <2>8, <2>9, ProcPagetableIs
    <3> QED
      BY <3>1 DEF Tabled
  <2>11. x = OrFreeproc(y)
    BY <1>3, <2>1, <2>8 DEF Allocproc
  <2>12. CASE y.ok
    <3>1. x = y
      BY <2>11, <2>12 DEF OrFreeproc
    <3> QED
      BY <2>2, <2>9, <2>10, <2>12, <3>1
  <2>13. CASE ~y.ok
    <3>1. x = Freeproc(y) /\ y.sp = Bare(pg, 0) /\ y.sp.tf = pg
      BY <2>9, <2>10, <2>11, <2>13 DEF OrFreeproc, Bare
    <3>2. Good(x, T) /\ Same(x, y) /\ x.sp = NoSpace
      BY <2>2, <2>10, <3>1, FreeprocIs
    <3> QED
      BY <2>9, <2>10, <2>13, <3>2 DEF Same
  <2> QED
    BY <2>12, <2>13
<1> QED
  BY <1>2, <1>3

(*****************************************************************************)
(* The size of a process: growproc() and the copy that fork() makes.         *)
(*****************************************************************************)

LEMMA UvmallocIs ==
  ASSUME NEW w, NEW T, Good(w, T), w.ok, NEW old \in Nat, NEW new \in Nat,
         Shape(w.sp, Up(old)), NEW x, x = Uvmalloc(w, old, new)
  PROVE  MapsTo(w, T, Up(old), Up(Grown(old, new)), x)
<1>1. Up(old) \in Nat /\ Up(new) \in Nat
  BY UpIs
<1>2. CASE new < old
  <2>1. x = w /\ Grown(old, new) = old
    BY <1>2 DEF Uvmalloc, Grown
  <2> QED
    BY <2>1, KeptSame DEF MapsTo
<1>3. CASE ~(new < old) /\ new = 0
  <2>1. x = Fail(w)
    BY <1>3 DEF Uvmalloc
  <2>2. Good(x, T) /\ x.sp = w.sp /\ x.op = w.op /\ ~x.ok
    BY <2>1, FailIs
  <2> QED
    BY <2>2, KeptSame DEF MapsTo
<1>4. CASE ~(new < old) /\ new # 0
  <2>1. x = MapRange(w, Up(old), Up(new)) /\ Grown(old, new) = new
    BY <1>4 DEF Uvmalloc, Grown
  <2>2. Up(old) <= Up(new)
    BY <1>4, UpGrows
  <2>3. PICK a, b : a = Up(old) /\ b = Up(new) /\ a \in Nat /\ b \in Nat /\ a <= b
    BY <1>1, <2>2
  <2>4. Shape(w.sp, a) /\ Good(w, T) /\ w.ok
    BY <2>3
  <2>5. MapsTo(w, T, a, b, MapRange(w, a, b))
    BY ONLY <2>3, <2>4, MapRangeIs
  <2> QED
    BY <2>1, <2>3, <2>5
<1> QED
  BY <1>2, <1>3, <1>4

LEMMA UvmdeallocIs ==
  ASSUME NEW w, NEW T, Good(w, T), NEW old \in Nat, NEW new \in Nat,
         Shape(w.sp, Up(old)), NEW x, x = Uvmdealloc(w, old, new)
  PROVE  Good(x, T) /\ Same(x, w) /\ Shape(x.sp, Up(Shrunk(old, new)))
<1>1. Up(old) \in Nat /\ Up(new) \in Nat
  BY UpIs
<1>2. CASE new >= old
  <2>1. x = w /\ Shrunk(old, new) = old
    BY <1>2 DEF Uvmdealloc, Shrunk
  <2> QED
    BY <2>1 DEF Same
<1>3. CASE ~(new >= old)
  <2>1. PICK a, b, V : a = Up(new) /\ b = Up(old) /\ V = a..b - 1
    OBVIOUS
  <2>2. x = Uvmunmap(w, V, TRUE) /\ Shrunk(old, new) = new
    BY <1>3, <2>1 DEF Uvmdealloc, Shrunk
  <2>3. a <= b /\ a \in Nat /\ b \in Nat
    BY <1>1, <1>3, <2>1, UpGrows
  <2>4. /\ b \in 0..MaxPages /\ w.sp.root \in Page /\ w.sp.guard \subseteq 0..b - 1
        /\ w.sp.leaf[TrapFrame] \in Page /\ w.sp.leaf[Trampoline] = KernelText
        /\ w.sp.tabs[MaxPages] # 0
        /\ \A v \in 0..b - 1 : w.sp.leaf[v] \in Page /\ w.sp.tabs[TabOf(v)] # 0
        /\ \A v \in b..MaxPages - 1 : w.sp.leaf[v] = 0
        /\ w.sp.leaf[TrapFrame] = w.sp.tf
    BY <2>1 DEF Shape, Built
  <2>5. /\ MaxPages \in Nat /\ Vpn = 0..MaxPages + 1 /\ TrapFrame = MaxPages
        /\ Trampoline = MaxPages + 1
    BY Constants
  <2>6. /\ V \in SUBSET (0..MaxPages - 1) /\ V \in SUBSET Vpn
        /\ \A v \in V : w.sp.leaf[v] \in Page /\ w.sp.tabs[TabOf(v)] # 0
    BY <2>1, <2>3, <2>4, <2>5
  <2>7. Good(x, T) /\ Same(x, w) /\ x.sp = Unmapped(w.sp, V)
    BY <2>2, <2>6, UvmunmapIs
  <2>8. w.sp \in Spaces
    BY GoodIs
  <2>9. /\ x.sp \in Spaces /\ x.sp.root = w.sp.root /\ x.sp.tabs = w.sp.tabs
        /\ x.sp.guard = w.sp.guard \ V /\ x.sp.tf = w.sp.tf
        /\ x.sp.leaf = [v \in Vpn |-> IF v \in V THEN 0 ELSE w.sp.leaf[v]]
    BY <2>6, <2>7, <2>8, WithoutIs
  <2>10. Shape(x.sp, a)
    <3>1. \A v \in Vpn : x.sp.leaf[v] = IF v \in V THEN 0 ELSE w.sp.leaf[v]
      BY <2>9
    <3>2. x.sp.leaf[TrapFrame] = x.sp.tf /\ x.sp.leaf[TrapFrame] \in Page
          /\ x.sp.leaf[Trampoline] = KernelText
      BY <2>1, <2>3, <2>4, <2>5, <2>9, <3>1
    <3>3. \A v \in 0..a - 1 : x.sp.leaf[v] \in Page /\ x.sp.tabs[TabOf(v)] # 0
      BY <2>1, <2>3, <2>4, <2>5, <2>9, <3>1
    <3>4. \A v \in a..MaxPages - 1 : x.sp.leaf[v] = 0
      <4> SUFFICES ASSUME NEW v \in a..MaxPages - 1 PROVE x.sp.leaf[v] = 0
        OBVIOUS
      <4>1. v \in Vpn /\ (v \in V \/ v \in b..MaxPages - 1)
        BY <2>1, <2>3, <2>4, <2>5
      <4> QED
        BY <2>4, <3>1, <4>1
    <3>5. a \in 0..MaxPages /\ x.sp.guard \subseteq 0..a - 1
      BY <2>1, <2>3, <2>4, <2>5, <2>9
    <3> QED
      BY <2>4, <2>9, <3>2, <3>3, <3>4, <3>5 DEF Shape, Built
  <2> QED
    BY <2>1, <2>2, <2>7, <2>10
<1> QED
  BY <1>2, <1>3

\* growproc(): a process that gets no more memory keeps what it has.
LEMMA GrowprocIs ==
  ASSUME NEW w, NEW T, Good(w, T), w.ok, NEW n \in Int, NEW old, old = w.sp.sz,
         Shape(w.sp, Up(old)), NEW x, x = Growproc(w, old, n)
  PROVE  /\ Good(x, T) /\ x.op = w.op /\ Shape(x.sp, Up(x.sp.sz))
         /\ ~x.ok => x.sp.leaf = w.sp.leaf /\ x.sp.sz = old
<1>1. w.sp \in Spaces /\ old \in Nat
  <2>1. w.sp \in Spaces
    BY GoodIs
  <2> QED
    BY <2>1, SpaceIs
<1>2. CASE n > 0
  <2>1. PICK new, y : new = old + n /\ y = Uvmalloc(w, old, new) /\ new \in Nat
    BY <1>1, <1>2
  <2>2. x = GrownTo(y, Grown(old, new)) /\ Grown(old, new) = new
    BY <1>1, <1>2, <2>1 DEF Growproc, Grown
  <2>3. MapsTo(w, T, Up(old), Up(new), y)
    <3>1. MapsTo(w, T, Up(old), Up(Grown(old, new)), y)
      BY <1>1, <2>1, UvmallocIs
    <3> QED
      BY <2>2, <3>1
  <2>4. ~y.ok => Shape(y.sp, Up(old)) /\ y.sp.leaf = w.sp.leaf
    BY <2>3 DEF MapsTo, Kept
  <2>5. CASE ~y.ok
    <3>1. x = y
      BY <2>2, <2>5 DEF GrownTo
    <3>2. Good(y, T) /\ y.op = w.op /\ y.sp.sz = w.sp.sz
      BY <2>3 DEF MapsTo, Kept
    <3> QED
      BY <2>4, <2>5, <3>1, <3>2
  <2>6. CASE y.ok
    <3>1. x = [y EXCEPT !.sp.sz = new]
      BY <2>2, <2>6 DEF GrownTo
    <3>2. Good(y, T) /\ y.op = w.op /\ Shape(y.sp, Up(new))
      BY <2>3, <2>6 DEF MapsTo
    <3>3. Good(x, T) /\ Same(x, y) /\ Resized(x.sp, y.sp, new, y.sp.guard)
      <4>1. new \in Nat
        BY <2>1
      <4> QED
        BY ONLY <3>1, <3>2, <4>1, SzPut
    <3>4. y.sp.guard \subseteq 0..Up(new) - 1
      BY <3>2 DEF Shape, Built
    <3>5. Shape(x.sp, Up(new)) /\ x.sp.sz = new
      BY <3>2, <3>3, <3>4, ShapeResized DEF Resized
    <3> QED
      BY <2>6, <3>2, <3>3, <3>5 DEF Same
  <2> QED
    BY <2>5, <2>6
<1>3. CASE ~(n > 0) /\ (n = 0 \/ old + n < 0)
  <2>1. x = w
    BY <1>3 DEF Growproc
  <2> QED
    BY <2>1
<1>4. CASE ~(n > 0) /\ ~(n = 0 \/ old + n < 0)
  <2>1. PICK new, y, sz : /\ new = old + n /\ y = Uvmdealloc(w, old, new) /\ sz = Shrunk(old, new)
                          /\ new \in Nat
    BY <1>1, <1>4
  <2>2. x = [y EXCEPT !.sp.sz = sz] /\ sz \in Nat
    BY <1>1, <1>4, <2>1 DEF Growproc, Shrunk
  <2>3. Good(y, T) /\ Same(y, w) /\ Shape(y.sp, Up(sz))
    <3>1. Good(y, T) /\ Same(y, w) /\ Shape(y.sp, Up(Shrunk(old, new)))
      BY <1>1, <2>1, UvmdeallocIs
    <3> QED
      BY <2>1, <3>1
  <2>4. Good(x, T) /\ Same(x, y) /\ Resized(x.sp, y.sp, sz, y.sp.guard)
    BY <2>2, <2>3, SzPut
  <2>5. y.sp.guard \subseteq 0..Up(sz) - 1
    BY <2>3 DEF Shape, Built
  <2>6. Shape(x.sp, Up(sz)) /\ x.sp.sz = sz
    BY <2>3, <2>4, <2>5, ShapeResized DEF Resized
  <2> QED
    BY <2>3, <2>4, <2>6 DEF Same
<1> QED
  BY <1>2, <1>3, <1>4

\* The copy of a parent's memory: all of it, or nothing is left of it.
LEMMA UvmcopyIs ==
  ASSUME NEW w, NEW T, Good(w, T), w.ok, Shape(w.sp, 0), NEW old \in Spaces,
         Shape(old, Up(old.sz)), NEW x, x = Uvmcopy(w, old)
  PROVE  /\ Good(x, T) /\ x.op = w.op /\ x.sp.tf = w.sp.tf /\ x.sp.sz = w.sp.sz
         /\ x.ok => Shape(x.sp, Up(old.sz))
         /\ ~x.ok => Shape(x.sp, 0)
<1>1. PICK n, y, guard : /\ n = Up(old.sz) /\ y = MapRange(w, 0, n) /\ guard = old.guard
  OBVIOUS
<1>2. n \in Nat /\ 0 \in Nat /\ 0 <= n
  <2>1. old.sz \in Nat
    BY SpaceIs
  <2> QED
    BY <1>1, <2>1, UpIs
<1>3. /\ n \in 0..MaxPages /\ guard \subseteq 0..n - 1 /\ \A v \in 0..n - 1 : old.leaf[v] \in Page
  BY <1>1 DEF Shape, Built
<1>4. x = Guarded(y, guard)
  BY <1>1, <1>3, Constants DEF Uvmcopy
<1>5. MapsTo(w, T, 0, n, y)
  <2>1. Good(w, T) /\ w.ok /\ Shape(w.sp, 0)
    OBVIOUS
  <2>2. MapsTo(w, T, 0, n, MapRange(w, 0, n))
    BY ONLY <1>2, <2>1, MapRangeIs
  <2> QED
    BY <1>1, <2>2
<1>6. Good(y, T) /\ y.op = w.op /\ y.sp.tf = w.sp.tf /\ y.sp.sz = w.sp.sz
  BY <1>5 DEF MapsTo, Kept
<1>7. CASE ~y.ok
  <2>1. x = y /\ Shape(y.sp, 0)
    BY <1>4, <1>5, <1>7 DEF Guarded, MapsTo
  <2> QED
    BY <1>6, <1>7, <2>1
<1>8. CASE y.ok
  <2>1. x = [y EXCEPT !.sp.guard = guard] /\ Shape(y.sp, n)
    BY <1>4, <1>5, <1>8 DEF Guarded, MapsTo
  <2>2. guard \in SUBSET Vpn
    BY <1>1, SpaceIs
  <2>3. Good(x, T) /\ Same(x, y) /\ Resized(x.sp, y.sp, y.sp.sz, guard)
    BY <1>6, <2>1, <2>2, GuardPut
  <2>4. Shape(x.sp, n)
    BY <1>3, <2>1, <2>3, ShapeResized
  <2> QED
    BY <1>1, <1>6, <1>8, <2>3, <2>4 DEF Same, Resized
<1> QED
  BY <1>7, <1>8

LEMMA ForkCopyIs ==
  ASSUME NEW w, NEW T, Good(w, T), NEW old \in Spaces, Shape(old, Up(old.sz)),
         \/ ~w.ok /\ w.sp = NoSpace
         \/ w.ok /\ Shape(w.sp, 0) /\ w.sp.tf \in Page /\ w.sp.sz = 0,
         NEW x, x = ForkCopy(w, old)
  PROVE  /\ Good(x, T) /\ x.op = w.op
         /\ \/ ~x.ok /\ x.sp = NoSpace
            \/ x.ok /\ Shape(x.sp, Up(x.sp.sz)) /\ x.sp.sz = old.sz
<1>1. CASE ~w.ok
  <2>1. x = w
    BY <1>1 DEF ForkCopy
  <2> QED
    BY <1>1, <2>1
<1>2. CASE w.ok
  <2>0. Shape(w.sp, 0) /\ w.sp.tf \in Page /\ w.sp.sz = 0
    BY <1>2
  <2>1. PICK y : y = Uvmcopy(w, old)
    OBVIOUS
  <2>2. x = ForkCopied(y, old)
    BY <1>2, <2>1 DEF ForkCopy
  <2>3. /\ Good(y, T) /\ y.op = w.op /\ y.sp.tf = w.sp.tf /\ y.sp.sz = w.sp.sz
        /\ y.ok => Shape(y.sp, Up(old.sz))
        /\ ~y.ok => Shape(y.sp, 0)
    BY <1>2, <2>0, <2>1, UvmcopyIs
  <2>4. CASE ~y.ok
    <3>1. x = Freeproc(y) /\ Shape(y.sp, Up(y.sp.sz))
      BY <2>0, <2>2, <2>3, <2>4, UpZero DEF ForkCopied
    <3>2. PICK tf \in Page : y.sp.tf = tf
      BY <2>0, <2>3
    <3>3. Good(x, T) /\ Same(x, y) /\ x.sp = NoSpace
      BY <2>3, <3>1, <3>2, FreeprocIs
    <3> QED
      BY <2>3, <2>4, <3>3 DEF Same
  <2>5. CASE y.ok
    <3>1. PICK sz : sz = old.sz /\ sz \in Nat
      BY SpaceIs
    <3>2. x = [y EXCEPT !.sp.sz = sz] /\ Shape(y.sp, Up(sz))
      BY <2>2, <2>3, <2>5, <3>1 DEF ForkCopied
    <3>3. Good(x, T) /\ Same(x, y) /\ Resized(x.sp, y.sp, sz, y.sp.guard)
      BY <2>3, <3>1, <3>2, SzPut
    <3>4. y.sp.guard \subseteq 0..Up(sz) - 1
      BY <3>2 DEF Shape, Built
    <3>5. Shape(x.sp, Up(sz)) /\ x.sp.sz = sz
      BY <3>2, <3>3, <3>4, ShapeResized DEF Resized
    <3> QED
      BY <2>3, <2>5, <3>1, <3>3, <3>5 DEF Same
  <2> QED
    BY <2>4, <2>5
<1> QED
  BY <1>1, <1>2

(*****************************************************************************)
(* exec(): the new image, which has the trapframe in common with the old.    *)
(*****************************************************************************)

\* A new image of x, on the pages T: none yet, or one that is complete.
Begun(x, T, tf, op) ==
  /\ Good(x, T) /\ x.op = op /\ x.sp.tf = tf /\ x.sp.guard = {}
  /\ \/ Shape(x.sp, Up(x.sp.sz))
     \/ ~x.ok /\ x.sp = Bare(tf, 0)

LEMMA LoadedIs ==
  ASSUME NEW z, NEW T, Good(z, T), z.ok, NEW old \in Nat, NEW end \in Nat, z.sp.guard = {},
         Shape(z.sp, Up(Grown(old, end))), NEW y, y = Loaded(z, old, end)
  PROVE  /\ Good(y, T) /\ Same(y, z)
         /\ Resized(y.sp, z.sp, Grown(old, end), {})
<1>1. PICK a, b, sz : a = Up(old) /\ b = Up(end) /\ sz = Grown(old, end)
  OBVIOUS
<1>2. a \in Nat /\ b \in Nat /\ sz \in Nat
  BY <1>1, UpIs DEF Grown
<1>3. b <= a \/ sz = end
  <2>1. CASE end < old
    BY <1>1, <2>1, UpGrows
  <2>2. CASE ~(end < old)
    BY <1>1, <2>2 DEF Grown
  <2> QED
    BY <2>1, <2>2
<1>4. Up(sz) \in 0..MaxPages /\ \A v \in 0..Up(sz) - 1 : z.sp.leaf[v] \in Page
  BY <1>1 DEF Shape, Built
<1>5. ASSUME NEW v \in a..b - 1 PROVE Walkaddr(z.sp, v) # 0
  <2>1. v \in 0..Up(sz) - 1
    BY <1>1, <1>2, <1>3
  <2>2. v \in Vpn \ ({} \cup {TrapFrame, Trampoline})
    BY <1>4, <2>1, Constants
  <2>3. Walkaddr(z.sp, v) = z.sp.leaf[v]
    BY <2>2 DEF Walkaddr
  <2> QED
    BY <1>4, <2>1, <2>3, Constants
<1>6. Loadseg(z, a, b) = z
  BY <1>5 DEF Loadseg
<1>7. y = [z EXCEPT !.sp.sz = sz]
  BY <1>1, <1>6 DEF Loaded
<1>8. Good(y, T) /\ Same(y, z) /\ Resized(y.sp, z.sp, sz, z.sp.guard)
  BY <1>2, <1>7, SzPut
<1> QED
  BY <1>1, <1>8

LEMMA LoadSegmentIs ==
  ASSUME NEW x, NEW T, NEW tf, NEW op, Begun(x, T, tf, op), NEW end \in Nat,
         NEW y, y = LoadSegment(x, end)
  PROVE  Begun(y, T, tf, op)
<1>1. Good(x, T) /\ x.op = op /\ x.sp.tf = tf /\ x.sp.guard = {}
  BY DEF Begun
<1>2. CASE ~x.ok
  BY <1>2 DEF LoadSegment
<1>3. CASE x.ok
  <2>1. PICK old, z : old = x.sp.sz /\ z = Uvmalloc(x, old, end)
    OBVIOUS
  <2>2. y = Loaded(z, old, end) /\ Shape(x.sp, Up(old))
    BY <1>3, <2>1 DEF LoadSegment, Begun
  <2>3. old \in Nat
    <3>1. x.sp \in Spaces
      BY <1>1, GoodIs
    <3> QED
      BY <2>1, <3>1, SpaceIs
  <2>4. MapsTo(x, T, Up(old), Up(Grown(old, end)), z)
    BY <1>1, <1>3, <2>1, <2>2, <2>3, UvmallocIs
  <2>5. Good(z, T) /\ z.op = op /\ z.sp.tf = tf /\ z.sp.guard = {} /\ z.sp.sz = old
    BY <1>1, <2>1, <2>4 DEF MapsTo, Kept
  <2>6. CASE ~z.ok
    <3>1. y = z /\ Shape(z.sp, Up(old))
      BY <2>2, <2>4, <2>6 DEF Loaded, MapsTo
    <3> QED
      BY <2>5, <3>1 DEF Begun
  <2>7. CASE z.ok
    <3>1. Shape(z.sp, Up(Grown(old, end)))
      BY <2>4, <2>7 DEF MapsTo
    <3>2. PICK sz : sz = Grown(old, end)
      OBVIOUS
    <3>3. Good(y, T) /\ Same(y, z) /\ Resized(y.sp, z.sp, sz, {})
      <4>1. Good(y, T) /\ Same(y, z) /\ Resized(y.sp, z.sp, Grown(old, end), {})
        BY <2>2, <2>3, <2>5, <2>7, <3>1, LoadedIs
      <4> QED
        BY <3>2, <4>1
    <3>4. {} \subseteq 0..Up(sz) - 1 /\ Shape(z.sp, Up(sz))
      BY <3>1, <3>2
    <3>5. Shape(y.sp, Up(sz))
      BY ONLY <3>3, <3>4, ShapeResized
    <3>6. y.sp.sz = sz /\ y.sp.tf = tf /\ y.sp.guard = {} /\ y.op = op
      BY <2>5, <3>3 DEF Resized, Same
    <3> QED
      BY <3>3, <3>5, <3>6 DEF Begun
  <2> QED
    BY <2>6, <2>7
<1> QED
  BY <1>2, <1>3

LEMMA LoadSegmentsIs ==
  ASSUME NEW w, NEW T, NEW tf, NEW op, Begun(w, T, tf, op), NEW prog \in Seq(Nat),
         NEW loads \in 0..Len(prog)
  PROVE  Begun(LoadSegments(w, prog, loads), T, tf, op)
<1> DEFINE S == Works
           P == [n \in 0..loads |-> {y \in S : Begun(y, T, tf, op)}]
           step(n, y) == LoadSegment(y, prog[n])
           d == [n \in 1..loads |-> [y \in S |-> IF step(n, y) \in S THEN step(n, y) ELSE y]]
<1>0. loads \in Nat /\ \A n \in 1..loads : prog[n] \in Nat
  OBVIOUS
<1>1. w \in S /\ w \in P[0]
  <2>1. Good(w, T)
    BY DEF Begun
  <2>2. w \in S
    BY <2>1, GoodIs
  <2> QED
    BY <1>0, <2>2
<1>2. ASSUME NEW n \in 1..loads, NEW y \in P[n - 1]
      PROVE  step(n, y) \in P[n]
  <2>1. n \in 0..loads /\ n - 1 \in 0..loads
    BY <1>0
  <2>2. Begun(y, T, tf, op)
    BY <2>1
  <2>3. Begun(step(n, y), T, tf, op)
    BY <1>0, <2>2, LoadSegmentIs
  <2>4. Good(step(n, y), T)
    BY <2>3 DEF Begun
  <2>5. step(n, y) \in S
    BY <2>4, GoodIs
  <2> QED
    BY <2>1, <2>3, <2>5
<1> HIDE DEF step
<1>3. PICK g \in [0..loads -> S] : g[0] = w /\ \A n \in 1..loads : g[n] = d[n][g[n - 1]]
  <2>1. d \in Transitions(S, loads)
    BY DEF Transitions
  <2> HIDE DEF P, d, S
  <2>2. \E g : IsRun(g, S, w, loads, d)
    BY <1>0, <1>1, <2>1, Iteration
  <2> QED
    BY <2>2 DEF IsRun
<1> HIDE DEF S
<1>4. ASSUME NEW n \in 1..loads, g[n - 1] \in P[n - 1]
      PROVE  g[n] = step(n, g[n - 1]) /\ g[n] \in P[n]
  <2>1. n \in 0..loads /\ n - 1 \in 0..loads /\ g[n - 1] \in S
    BY <1>0
  <2>2. step(n, g[n - 1]) \in P[n]
    BY <1>2, <1>4
  <2>3. step(n, g[n - 1]) \in S
    BY <2>1, <2>2
  <2>4. g[n] = step(n, g[n - 1])
    BY <1>3, <2>1, <2>3
  <2> QED
    BY <2>2, <2>4
<1>5. \A n \in 0..loads : g[n] \in P[n]
  <2>1. \A n \in 1..loads : g[n - 1] \in P[n - 1] => g[n] \in P[n]
    BY <1>4
  <2> HIDE DEF P
  <2> QED
    BY <1>0, <1>1, <1>3, <2>1, Steps
<1>6. \A n \in 1..loads : g[n] = step(n, g[n - 1])
  <2>1. \A n \in 1..loads : n - 1 \in 0..loads
    BY <1>0
  <2>2. \A n \in 1..loads : g[n - 1] \in P[n - 1]
    BY <1>5, <2>1
  <2> HIDE DEF P, d
  <2> QED
    BY <1>4, <2>2
<1> HIDE DEF P, d
<1>7. \E f : f = [n \in 0..loads |-> IF n = 0 THEN w ELSE step(n, f[n - 1])]
  <2>1. g = [n \in 0..loads |-> IF n = 0 THEN w ELSE step(n, g[n - 1])]
    BY <1>0, <1>3, <1>6
  <2> QED
    BY <2>1
<1> DEFINE run[n \in 0..loads] == IF n = 0 THEN w ELSE step(n, run[n - 1])
<1>8. run = [n \in 0..loads |-> IF n = 0 THEN w ELSE step(n, run[n - 1])]
  BY <1>7
<1>9. LoadSegments(w, prog, loads) = run[loads]
  BY DEF LoadSegments, step
<1> HIDE DEF run
<1>10. run[0] = w /\ \A n \in 1..loads : run[n] = step(n, run[n - 1])
  BY <1>0, <1>8
<1>11. run[loads] \in P[loads]
  <2>1. \A n \in 1..loads : run[n - 1] \in P[n - 1] => run[n] \in P[n]
    BY <1>2, <1>10
  <2>2. loads \in 0..loads
    BY <1>0
  <2>3. \A n \in 0..loads : run[n] \in P[n]
    BY <1>0, <1>1, <1>10, <2>1, Steps
  <2> QED
    BY <2>2, <2>3
<1> QED
  BY <1>0, <1>9, <1>11 DEF P

(*****************************************************************************)
(* exec(): the new image replaces the old one, or nothing has changed.       *)
(*****************************************************************************)

\* The old image, on pages of its own; the others that exec() can get are free.
Whole(old) == old \in Spaces /\ Once(PagesOf(old)) /\ Shape(old, Up(old.sz))
Outer(free, tf, old) ==
  /\ free \subseteq Page /\ Whole(old) /\ tf \in Page /\ old.tf = tf
  /\ free \cap Held(PagesOf(old)) = {}

\* What exec() has come to.
Done(x, free, old, op) ==
  /\ Good(x, free \cup Held(PagesOf(old))) /\ x.op = op /\ Shape(x.sp, Up(x.sp.sz))
  /\ ~x.ok => x.free = free /\ x.sp = old

LEMMA OuterIs ==
  ASSUME NEW free, NEW tf, NEW old, Outer(free, tf, old)
  PROVE  /\ tf \in Held(PagesOf(old)) /\ tf \notin free
         /\ Owns(free, PagesOf(old), free \cup Held(PagesOf(old)))
<1>1. old \in Spaces /\ tf \in Page /\ old.tf = tf /\ free \cap Held(PagesOf(old)) = {}
  BY DEF Outer, Whole
<1>2. PagesOf(old)[<<"tf", 0>>] = tf /\ <<"tf", 0>> \in Place
  BY <1>1, PagesAre, Places
<1>3. tf \in Held(PagesOf(old))
  BY <1>1, <1>2 DEF Held
<1>4. Once(PagesOf(old)) /\ free \subseteq Page /\ Held(PagesOf(old)) \subseteq Page
  BY DEF Outer, Whole, Held
<1>5. Owns(free, PagesOf(old), free \cup Held(PagesOf(old)))
  BY <1>1, <1>4 DEF Owns
<1> QED
  BY <1>1, <1>3, <1>5

LEMMA ExecBadIs ==
  ASSUME NEW w, NEW free, NEW tf, NEW old, Outer(free, tf, old), Good(w, free \cup {tf}),
         w.sp.tf = tf, w.sp = Bare(tf, 0) \/ Shape(w.sp, Up(w.sp.sz)),
         NEW loaded \in BOOLEAN, NEW x, x = ExecBad(w, loaded, old)
  PROVE  Done(x, free, old, IF loaded THEN w.op ELSE w.op - 1)
<1>0. /\ tf \in Page /\ old \in Spaces /\ Shape(old, Up(old.sz))
  BY DEF Outer, Whole
<1>1. tf \notin free /\ Owns(free, PagesOf(old), free \cup Held(PagesOf(old)))
  BY OuterIs
<1>2. PICK T : T = free \cup {tf}
  OBVIOUS
<1>3. Good(w, T) /\ w.sp \in Spaces
  BY <1>2, GoodIs
<1>4. PICK y : y = IF w.sp.root = 0 THEN w ELSE ProcFreePagetable(w, w.sp.sz)
  OBVIOUS
<1>5. Good(y, T) /\ Same(y, w) /\ \E sz \in Nat : y.sp = Bare(tf, sz)
  <2>1. CASE w.sp = Bare(tf, 0)
    <3>1. y = w
      BY <1>4, <2>1 DEF Bare
    <3> QED
      BY <1>3, <2>1, <3>1 DEF Same
  <2>2. CASE Shape(w.sp, Up(w.sp.sz))
    <3>1. PICK sz : sz = w.sp.sz /\ sz \in Nat
      BY <1>3, SpaceIs
    <3>2. Built(w.sp, Up(sz)) /\ w.sp.root # 0
      BY <2>2, <3>1, Constants DEF Shape, Built
    <3>3. y = ProcFreePagetable(w, sz)
      BY <1>4, <3>1, <3>2
    <3>4. Good(y, T) /\ Same(y, w) /\ y.sp = Bare(w.sp.tf, w.sp.sz)
      BY ONLY <1>3, <3>2, <3>3, ProcFreePagetableIs
    <3> QED
      BY <3>1, <3>4
  <2> QED
    BY <2>1, <2>2
<1>6. y.free = free
  <2>1. PICK sz \in Nat : y.sp = Bare(tf, sz)
    BY <1>5
  <2>2. tf \in Page \cup {0}
    BY <1>0
  <2>3. y.free = T \ {tf}
    BY <1>5, <2>1, <2>2, BareHolds
  <2> QED
    BY <1>1, <1>2, <2>3
<1>7. y \in Works /\ y.ok = w.ok /\ y.op = w.op /\ y.op \in Int
  BY <1>5, GoodIs DEF Same
<1>8. PICK u, op : u = PutImage(y, loaded) /\ op = IF loaded THEN w.op ELSE w.op - 1
  OBVIOUS
<1>9. u \in Works /\ u.free = free /\ u.op = op /\ op \in Int
  <2>1. CASE loaded
    BY <1>6, <1>7, <1>8, <2>1 DEF PutImage
  <2>2. CASE ~loaded
    <3>1. u = [y EXCEPT !.op = y.op - 1]
      BY <1>8, <2>2 DEF PutImage, EndOp
    <3>2. u = Work5(y.free, y.sp, y.ok, "", y.op - 1)
      BY <1>7, <3>1, Fields
    <3>3. y.op - 1 = op /\ y.op - 1 \in Int
      BY <1>7, <1>8, <2>2
    <3>4. y.free \in SUBSET Page /\ y.sp \in Spaces /\ y.ok \in BOOLEAN
      BY <1>5, GoodIs
    <3> QED
      BY ONLY <1>6, <3>2, <3>3, <3>4 DEF Works, Work5
  <2> QED
    BY <2>1, <2>2
<1>10. PICK z : z = [u EXCEPT !.sp = old]
  OBVIOUS
<1>11. z = Work5(u.free, old, u.ok, "", u.op) /\ z \in Works
  <2>1. z = Work5(u.free, old, u.ok, "", u.op)
    BY <1>9, <1>10, Fields
  <2>2. u.free \in SUBSET Page /\ u.ok \in BOOLEAN /\ u.op \in Int
    BY <1>9 DEF Works
  <2> QED
    BY ONLY <1>0, <2>1, <2>2 DEF Works, Work5
<1>12. x = Work5(free, old, FALSE, "", op)
  <2>1. x = [z EXCEPT !.ok = FALSE]
    BY <1>4, <1>8, <1>10 DEF ExecBad, Fail
  <2>2. x = Work5(z.free, z.sp, FALSE, "", z.op)
    BY <1>11, <2>1, Fields
  <2>3. z.free = free /\ z.sp = old /\ z.op = op
    BY ONLY <1>9, <1>11 DEF Work5
  <2> QED
    BY ONLY <2>2, <2>3
<1>13. Good(x, free \cup Held(PagesOf(old)))
  <2>1. FALSE \in BOOLEAN
    OBVIOUS
  <2> QED
    BY ONLY <1>0, <1>1, <1>9, <1>12, <2>1, GoodMade
<1>14. x.free = free /\ x.sp = old /\ x.op = op /\ ~x.ok
  BY ONLY <1>12 DEF Work5
<1> QED
  BY <1>0, <1>8, <1>13, <1>14 DEF Done

LEMMA ExecCommitIs ==
  ASSUME NEW w, NEW free, NEW tf, NEW old, Outer(free, tf, old), Good(w, free \cup {tf}), w.ok,
         w.sp.tf = tf, Shape(w.sp, Up(w.sp.sz)), NEW x, x = ExecCommit(w, old)
  PROVE  Done(x, free, old, w.op)
<1>0. /\ tf \in Page /\ old \in Spaces /\ old.tf = tf /\ Once(PagesOf(old)) /\ Shape(old, Up(old.sz))
      /\ free \subseteq Page
  BY DEF Outer, Whole
<1>1. PICK H, T1, T2 : H = Held(PagesOf(old)) /\ T1 = free \cup {tf} /\ T2 = w.free \cup H
  OBVIOUS
<1>2. tf \in H /\ tf \notin free /\ free \cap H = {} /\ H \subseteq Page
  <2>1. tf \in H /\ tf \notin free
    BY <1>1, OuterIs
  <2>2. free \cap H = {}
    BY <1>1 DEF Outer
  <2>3. H \subseteq Page
    BY <1>1 DEF Held
  <2> QED
    BY <2>1, <2>2, <2>3
<1>3. /\ Good(w, T1) /\ w \in Works /\ w.free \in SUBSET Page /\ w.sp \in Spaces
      /\ w.ok \in BOOLEAN /\ w.op \in Int /\ Owns(w.free, PagesOf(w.sp), T1)
  BY <1>1, GoodIs
<1>4. tf \in Held(PagesOf(w.sp))
  <2>1. PagesOf(w.sp)[<<"tf", 0>>] = tf /\ <<"tf", 0>> \in Place
    BY <1>3, PagesAre, Places
  <2> QED
    BY <1>0, <2>1 DEF Held
<1>5. tf \notin w.free /\ w.free \subseteq free
  BY <1>0, <1>1, <1>3, <1>4 DEF Owns
<1>6. Owns(w.free, PagesOf(old), T2)
  BY <1>0, <1>1, <1>2, <1>3, <1>5 DEF Owns
<1>7. PICK y, z, sz : /\ y = [w EXCEPT !.sp = old] /\ sz = old.sz
                      /\ z = ProcFreePagetable(y, sz)
  OBVIOUS
<1>8. y = Work5(w.free, old, w.ok, "", w.op)
  BY <1>3, <1>7, Fields
<1>9. Good(y, T2)
  BY ONLY <1>0, <1>3, <1>6, <1>8, GoodMade
<1>10. y.sp = old /\ y.ok = w.ok /\ y.op = w.op
  BY ONLY <1>8 DEF Work5
<1>11. Good(z, T2) /\ Same(z, y) /\ z.sp = Bare(tf, sz)
  <2>1. Built(y.sp, Up(sz))
    BY <1>0, <1>7, <1>10 DEF Shape
  <2>2. z = ProcFreePagetable(y, sz)
    BY <1>7
  <2>3. Good(z, T2) /\ Same(z, y) /\ z.sp = Bare(y.sp.tf, y.sp.sz)
    BY ONLY <1>9, <2>1, <2>2, ProcFreePagetableIs
  <2> QED
    BY <1>0, <1>7, <1>10, <2>3
<1>12. z.free = T2 \ {tf}
  <2>1. tf \in Page \cup {0} /\ sz \in Nat
    BY <1>0, <1>7, SpaceIs
  <2> QED
    BY <1>11, <2>1, BareHolds
<1>13. z \in Works /\ z.ok = w.ok /\ z.op = w.op
  BY <1>10, <1>11, GoodIs DEF Same
<1>14. x = Work5(z.free, w.sp, w.ok, "", w.op)
  <2>1. x = [z EXCEPT !.sp = w.sp]
    BY <1>7 DEF ExecCommit
  <2>2. x = Work5(z.free, w.sp, z.ok, "", z.op)
    BY <1>13, <2>1, Fields
  <2> QED
    BY ONLY <1>13, <2>2
<1>15. Owns(z.free, PagesOf(w.sp), free \cup H)
  <2>1. PICK f : f = PagesOf(w.sp)
    OBVIOUS
  <2>2. /\ w.free \subseteq Page /\ T1 \subseteq Page /\ Once(f)
        /\ \A pg \in Page : /\ pg \in T1 <=> (pg \in w.free \/ pg \in Held(f))
                            /\ ~(pg \in w.free /\ pg \in Held(f))
    BY <1>3, <2>1 DEF Owns
  <2>3. tf \in Held(f)
    BY <1>4, <2>1
  <2>4. z.free \subseteq Page /\ free \cup H \subseteq Page
    BY <1>0, <1>1, <1>2, <1>12, <2>2
  <2>5. ASSUME NEW pg \in Page
        PROVE  /\ pg \in free \cup H <=> (pg \in z.free \/ pg \in Held(f))
               /\ ~(pg \in z.free /\ pg \in Held(f))
    BY <1>1, <1>2, <1>5, <1>12, <2>2, <2>3
  <2> QED
    BY <2>1, <2>2, <2>4, <2>5 DEF Owns
<1>16. Good(x, free \cup H)
  BY ONLY <1>3, <1>14, <1>15, GoodMade
<1>17. x.sp = w.sp /\ x.ok = w.ok /\ x.op = w.op
  BY ONLY <1>14 DEF Work5
<1> QED
  BY <1>1, <1>16, <1>17 DEF Done

\* The stack above n pages of the image.
LEMMA ExecStackIs ==
  ASSUME NEW y, NEW free, NEW tf, NEW old, Outer(free, tf, old), Good(y, free \cup {tf}),
         y.sp.tf = tf, NEW n \in Nat, NEW sz, sz = n * PGSIZE, y.ok => Shape(y.sp, n + 2),
         ~y.ok => Shape(y.sp, Up(y.sp.sz)),
         NEW args \in BOOLEAN, NEW x, x = ExecStack(y, sz, old, args)
  PROVE  Done(x, free, old, y.op)
<1>1. CASE ~y.ok
  <2>1. x = ExecBad(y, TRUE, old)
    BY <1>1 DEF ExecStack
  <2>2. Done(x, free, old, IF TRUE THEN y.op ELSE y.op - 1)
    BY <1>1, <2>1, ExecBadIs
  <2> QED
    BY <2>2
<1>2. CASE y.ok
  <2>1. y \in Works /\ y.sp \in Spaces
    BY GoodIs
  <2>2. PICK top, guard, sq, w : /\ top = sz + 2 * PGSIZE /\ guard = {Up(sz)}
                                 /\ sq = [y.sp EXCEPT !.sz = top, !.guard = guard]
                                 /\ w = [y EXCEPT !.sp = sq]
    OBVIOUS
  <2>3. top \in Nat /\ Up(top) = n + 2 /\ guard = {n}
    BY <2>2, UpPages, UpTwo
  <2>4. n + 2 \in 0..MaxPages
    BY <1>2 DEF Shape, Built
  <2>5. guard \in SUBSET Vpn /\ guard \subseteq 0..(n + 2) - 1
    BY <2>3, <2>4, Constants
  <2>6. Resized(sq, y.sp, top, guard)
    BY <2>1, <2>2, <2>3, <2>5 DEF Spaces, Resized
  <2>7. w = Work5(y.free, sq, y.ok, "", y.op)
    BY <2>1, <2>2, Fields
  <2>8. Good(w, free \cup {tf}) /\ Same(w, y) /\ w.sp = sq
    <3>1. Alike(sq, y.sp)
      BY <2>6 DEF Resized, Alike
    <3>2. Good(y, free \cup {tf}) /\ Turned(w, y, sq)
      BY <2>7 DEF Turned
    <3> QED
      BY ONLY <3>1, <3>2, NoPlace
  <2>9. Shape(sq, n + 2)
    BY <1>2, <2>5, <2>6, ShapeResized
  <2>10. Shape(w.sp, Up(w.sp.sz)) /\ w.sp.tf = tf /\ w.ok /\ w.op = y.op
    BY <1>2, <2>3, <2>6, <2>8, <2>9 DEF Resized, Same
  <2>11. x = IF args THEN ExecCommit(w, old) ELSE ExecBad(w, TRUE, old)
    BY <1>2, <2>2 DEF ExecStack
  <2>12. CASE args
    <3>1. x = ExecCommit(w, old)
      BY <2>11, <2>12
    <3>2. Done(x, free, old, w.op)
      BY <2>8, <2>10, <3>1, ExecCommitIs
    <3> QED
      BY <2>10, <3>2
  <2>13. CASE ~args
    <3>1. x = ExecBad(w, TRUE, old)
      BY <2>11, <2>13
    <3>2. Done(x, free, old, IF TRUE THEN w.op ELSE w.op - 1)
      BY <2>8, <2>10, <3>1, ExecBadIs
    <3> QED
      BY <2>10, <3>2
  <2> QED
    BY <2>12, <2>13
<1> QED
  BY <1>1, <1>2

LEMMA ExecImageIs ==
  ASSUME NEW w, NEW free, NEW tf, NEW old, Outer(free, tf, old),
         Begun(w, free \cup {tf}, tf, 1),
         NEW loaded \in BOOLEAN, NEW args \in BOOLEAN, NEW x, x = ExecImage(w, old, loaded, args)
  PROVE  Done(x, free, old, 0)
<1>1. /\ Good(w, free \cup {tf}) /\ w.op = 1 /\ w.sp.tf = tf
      /\ w.sp = Bare(tf, 0) \/ Shape(w.sp, Up(w.sp.sz))
      /\ w.ok => Shape(w.sp, Up(w.sp.sz))
  BY DEF Begun
<1>2. CASE ~(w.ok /\ loaded)
  <2>1. x = ExecBad(w, FALSE, old)
    BY <1>2 DEF ExecImage
  <2>2. Done(x, free, old, IF FALSE THEN w.op ELSE w.op - 1)
    BY <1>1, <2>1, ExecBadIs
  <2>3. w.op - 1 = 0
    BY <1>1
  <2> QED
    BY <2>2, <2>3
<1>3. CASE w.ok /\ loaded
  <2>1. PICK T, n, sz, y, z : /\ T = free \cup {tf} /\ n = Up(w.sp.sz) /\ sz = n * PGSIZE
                              /\ y = [w EXCEPT !.sp.sz = sz] /\ z = EndOp(y)
    OBVIOUS
  <2>2. w.sp \in Spaces /\ n \in Nat /\ sz \in Nat /\ Up(sz) = n
    <3>1. w.sp \in Spaces
      BY <1>1, GoodIs
    <3>2. n \in Nat
      BY <2>1, <3>1, SpaceIs, UpIs
    <3> QED
      BY <2>1, <3>1, <3>2, UpPages
  <2>3. x = ExecLoaded(z, old, args)
    BY <1>3, <2>1 DEF ExecImage
  <2>4. Good(w, T) /\ Shape(w.sp, n)
    BY <1>1, <1>3, <2>1
  <2>5. Good(y, T) /\ Same(y, w) /\ Resized(y.sp, w.sp, sz, w.sp.guard)
    <3>1. sz \in Nat /\ y = [w EXCEPT !.sp.sz = sz] /\ Good(w, T)
      BY <2>1, <2>2, <2>4
    <3> QED
      BY ONLY <3>1, SzPut
  <2>6. Shape(y.sp, n) /\ y.sp.sz = sz /\ y.sp.tf = tf
    <3>1. w.sp.guard \subseteq 0..n - 1
      BY <2>4 DEF Shape, Built
    <3> QED
      BY <1>1, <2>4, <2>5, <3>1, ShapeResized DEF Resized
  <2>7. /\ y \in Works /\ y.free \in SUBSET Page /\ y.sp \in Spaces /\ y.ok \in BOOLEAN
        /\ Owns(y.free, PagesOf(y.sp), T) /\ y.op = 1 /\ y.ok
    <3>1. /\ y \in Works /\ y.free \in SUBSET Page /\ y.sp \in Spaces /\ y.ok \in BOOLEAN
          /\ Owns(y.free, PagesOf(y.sp), T)
      BY <2>5, GoodIs
    <3> QED
      BY <1>1, <1>3, <2>5, <3>1 DEF Same
  <2>8. z = Work5(y.free, y.sp, y.ok, "", 0)
    <3>1. z = [y EXCEPT !.op = y.op - 1]
      BY <2>1 DEF EndOp
    <3>2. z = Work5(y.free, y.sp, y.ok, "", y.op - 1)
      BY <2>7, <3>1, Fields
    <3>3. y.op - 1 = 0
      BY <2>7
    <3> QED
      BY ONLY <3>2, <3>3
  <2>9. Good(z, T) /\ z.sp = y.sp /\ z.ok /\ z.op = 0
    <3>1. 0 \in Int
      OBVIOUS
    <3>2. Good(z, T)
      BY ONLY <2>7, <2>8, <3>1, GoodMade
    <3>3. z.sp = y.sp /\ z.ok = y.ok /\ z.op = 0
      BY ONLY <2>8 DEF Work5
    <3> QED
      BY <2>7, <3>2, <3>3
  <2>10. PICK top, u : top = sz + 2 * PGSIZE /\ u = Uvmalloc(z, sz, top)
    OBVIOUS
  <2>11. x = ExecStack(u, sz, old, args)
    BY <2>3, <2>6, <2>9, <2>10 DEF ExecLoaded
  <2>12. top \in Nat /\ Up(top) = n + 2 /\ Grown(sz, top) = top
    <3>1. top \in Nat /\ Up(top) = n + 2
      BY <2>1, <2>2, <2>10, UpTwo
    <3>2. PGSIZE \in Nat
      BY MemoryAssumption
    <3>3. ~(top < sz)
      BY <2>2, <2>10, <3>2
    <3> QED
      BY <3>1, <3>3 DEF Grown
  <2>13. MapsTo(z, T, Up(sz), Up(Grown(sz, top)), u)
    <3>1. Shape(z.sp, Up(sz)) /\ sz \in Nat /\ top \in Nat
      BY <2>2, <2>6, <2>9, <2>12
    <3> QED
      BY <2>9, <2>10, <3>1, UvmallocIs
  <2>14. MapsTo(z, T, n, n + 2, u)
    BY <2>2, <2>12, <2>13
  <2>15. Good(u, T) /\ u.op = 0 /\ u.sp.tf = tf /\ u.sp.sz = sz
    BY <2>6, <2>9, <2>14 DEF MapsTo, Kept
  <2>16. u.ok => Shape(u.sp, n + 2)
    BY <2>14 DEF MapsTo
  <2>17. ~u.ok => Shape(u.sp, Up(u.sp.sz))
    BY <2>2, <2>14, <2>15 DEF MapsTo
  <2>18. Done(x, free, old, u.op)
    <3>1. Good(u, free \cup {tf}) /\ sz = n * PGSIZE /\ n \in Nat
      BY <2>1, <2>2, <2>15
    <3> QED
      BY <2>11, <2>15, <2>16, <2>17, <3>1, ExecStackIs
  <2> QED
    BY <2>15, <2>18
<1> QED
  BY <1>2, <1>3

LEMMA ExecProgramIs ==
  ASSUME NEW free, NEW tf, NEW old, Outer(free, tf, old), inOp = 0,
         NEW prog \in Seq(Nat), NEW loads \in 0..Len(prog),
         NEW good \in BOOLEAN, NEW args \in BOOLEAN,
         NEW x, x = ExecProgram(free, old, prog, loads, good, args)
  PROVE  Done(x, free, old, 0)
<1>0. /\ tf \in Page /\ old \in Spaces /\ old.tf = tf /\ free \in SUBSET Page /\ tf \notin free
  BY OuterIs DEF Outer, Whole
<1>1. PICK T, sp, w : /\ T = free \cup {tf} /\ sp = [NoSpace EXCEPT !.tf = tf]
                      /\ w = [Work(free, sp) EXCEPT !.op = @ + 1]
  OBVIOUS
<1>2. sp = Bare(tf, 0)
  BY <1>1 DEF NoSpace, Bare
<1>3. sp \in Spaces /\ PagesOf(sp) \in Maps
  <2>1. sp \in Spaces
    BY <1>0, <1>2, BareIs
  <2> QED
    BY <2>1, PagesTyped
<1>4. w = Work5(free, sp, TRUE, "", 1)
  <2>1. Work(free, sp) = Work5(free, sp, TRUE, "", 0)
    BY DEF Work, Work5
  <2>2. [Work5(free, sp, TRUE, "", 0) EXCEPT !.op = @ + 1] = Work5(free, sp, TRUE, "", 0 + 1)
    <3>1. PICK y : y = Work5(free, sp, TRUE, "", 0)
      OBVIOUS
    <3>2. y \in Works
      <4>1. TRUE \in BOOLEAN /\ 0 \in Int
        OBVIOUS
      <4>2. \A ok \in BOOLEAN, op \in Int : Work5(free, sp, ok, "", op) \in Works
        BY <1>0, <1>3 DEF Works, Work5
      <4> QED
        BY ONLY <3>1, <4>1, <4>2, Zenon
    <3>3. y.free = free /\ y.sp = sp /\ y.ok = TRUE /\ y.op = 0
      BY ONLY <3>1 DEF Work5
    <3>4. [y EXCEPT !.op = y.op + 1] = Work5(y.free, y.sp, y.ok, "", y.op + 1)
      BY <3>2, Fields
    <3>5. [y EXCEPT !.op = @ + 1] = [y EXCEPT !.op = y.op + 1]
      OBVIOUS
    <3> QED
      BY ONLY <3>1, <3>3, <3>4, <3>5
  <2>3. 0 + 1 = 1
    OBVIOUS
  <2> QED
    BY ONLY <1>1, <2>1, <2>2, <2>3
<1>5. Owns(free, PagesOf(sp), T)
  <2>1. PICK f : f = PagesOf(sp)
    OBVIOUS
  <2>2. \A p \in Place : p # <<"tf", 0>> => f[p] = 0
    <3>1. /\ sp.root = 0 /\ sp.tabs = [t \in Tab |-> 0] /\ sp.leaf = [v \in Vpn |-> 0]
      BY <1>2 DEF Bare
    <3> SUFFICES ASSUME NEW p \in Place, p # <<"tf", 0>> PROVE f[p] = 0
      OBVIOUS
    <3>2. CASE p = <<"root", 0>>
      BY <1>3, <2>1, <3>1, <3>2, PagesAre
    <3>3. CASE \E t \in Tab : p = <<"table", t>>
      <4>1. PICK t \in Tab : p = <<"table", t>>
        BY <3>3
      <4> QED
        BY <1>3, <2>1, <3>1, <4>1, PagesAre
    <3>4. CASE \E v \in Vpn \ {TrapFrame} : p = <<"leaf", v>>
      <4>1. PICK v \in Vpn \ {TrapFrame} : p = <<"leaf", v>>
        BY <3>4
      <4> QED
        BY <1>3, <2>1, <3>1, <4>1, PagesAre
    <3> QED
      BY <3>2, <3>3, <3>4, Places
  <2>3. f[<<"tf", 0>>] = tf /\ <<"tf", 0>> \in Place
    <3>1. sp.tf = tf
      BY <1>2 DEF Bare
    <3> QED
      BY <1>3, <2>1, <3>1, PagesAre, Places
  <2>4. Held(f) = {tf} /\ Once(f)
    BY <1>0, <2>2, <2>3, Constants DEF Held, Once
  <2> QED
    BY <1>0, <1>1, <2>1, <2>4 DEF Owns
<1>6. Good(w, T)
  <2>1. TRUE \in BOOLEAN /\ 1 \in Int
    OBVIOUS
  <2> QED
    BY ONLY <1>3, <1>4, <1>5, <2>1, GoodMade
<1>7. w.ok /\ w.sp = Bare(tf, 0) /\ w.op = 1
  BY ONLY <1>2, <1>4 DEF Work5
<1>8. PICK y, z : y = ProcPagetable(w) /\ z = LoadSegments(y, prog, loads)
  OBVIOUS
<1>9. /\ Good(y, T) /\ y.op = w.op
      /\ \/ ~y.ok /\ y.sp = w.sp
         \/ y.ok /\ Shape(y.sp, 0) /\ y.sp.tf = tf /\ y.sp.sz = 0 /\ y.sp.guard = {}
  <2>1. Tabled(y, w, T, tf)
    BY <1>0, <1>6, <1>7, <1>8, ProcPagetableIs
  <2> QED
    BY <2>1 DEF Tabled
<1>10. Begun(y, T, tf, 1)
  <2>1. CASE ~y.ok /\ y.sp = w.sp
    <3>1. y.sp.tf = tf /\ y.sp.guard = {}
      BY <1>7, <2>1 DEF Bare
    <3> QED
      BY <1>7, <1>9, <2>1, <3>1 DEF Begun
  <2>2. CASE y.ok /\ Shape(y.sp, 0) /\ y.sp.tf = tf /\ y.sp.sz = 0 /\ y.sp.guard = {}
    BY <1>7, <1>9, <2>2, UpZero DEF Begun
  <2> QED
    BY <1>9, <2>1, <2>2
<1>11. Begun(z, T, tf, 1)
  BY <1>8, <1>10, LoadSegmentsIs
<1>12. x = ExecImage(z, old, good /\ loads = Len(prog), args)
  BY <1>0, <1>1, <1>8 DEF ExecProgram
<1>13. PICK loaded : loaded = (good /\ loads = Len(prog))
  OBVIOUS
<1>14. loaded \in BOOLEAN /\ x = ExecImage(z, old, loaded, args) /\ Begun(z, free \cup {tf}, tf, 1)
  BY <1>1, <1>11, <1>12, <1>13
<1> QED
  BY <1>14, ExecImageIs

(*****************************************************************************)
(* The invariant.                                                            *)
(*****************************************************************************)

Image(sp) == sp = NoSpace \/ Shape(sp, Up(sp.sz))
Accounted(free, spaces) ==
  /\ \A p \in Slot : /\ Once(PagesOf(spaces[p]))
                     /\ free \cap Held(PagesOf(spaces[p])) = {}
  /\ \A p, q \in Slot :
       p # q => Held(PagesOf(spaces[p])) \cap Held(PagesOf(spaces[q])) = {}
  /\ \A pg \in Page : pg \in free \/ \E p \in Slot : pg \in Held(PagesOf(spaces[p]))

\* Every space is torn down or complete, and every page is in one place.
MemInv ==
  /\ freelist \in SUBSET Page /\ space \in [Slot -> Spaces]
  /\ fault = "" /\ inOp = 0 /\ failed \in {"", "fork", "sbrk", "exec"}
  /\ \A p \in Slot : Image(space[p])
  /\ Accounted(freelist, space)

\* What FailedCallUndone says of a step.
Undone ==
  /\ inOp' = 0
  /\ failed' # "" =>
       /\ \A p \in Slot : /\ space'[p].leaf = space[p].leaf
                           /\ space'[p].sz = space[p].sz
       /\ failed' # "sbrk" => UNCHANGED <<freelist, space>>

\* What a call leaves behind when it has failed.
Restored(w, offer, p, call) ==
  /\ call \in {"fork", "sbrk", "exec"}
  /\ w.sp.leaf = space[p].leaf /\ w.sp.sz = space[p].sz
  /\ call # "sbrk" => w.free = offer /\ w.sp = space[p]

LEMMA AliveIs ==
  ASSUME MemInv, NEW p \in Slot
  PROVE  /\ space[p] \in Spaces
         /\ Alive(p) => Shape(space[p], Up(space[p].sz)) /\ space[p].tf \in Page
         /\ ~Alive(p) => space[p] = NoSpace
<1>1. space[p] \in Spaces /\ Image(space[p])
  BY DEF MemInv
<1>2. CASE space[p] = NoSpace
  <2>1. space[p].root = 0
    BY <1>2 DEF NoSpace
  <2> QED
    BY <1>1, <1>2, <2>1 DEF Alive
<1>3. CASE Shape(space[p], Up(space[p].sz))
  <2>1. space[p].root \in Page /\ space[p].tf \in Page
    BY <1>3 DEF Shape, Built
  <2> QED
    BY <1>1, <1>3, <2>1, Constants DEF Alive
<1> QED
  BY <1>1, <1>2, <1>3 DEF Image

LEMMA NothingHeld ==
  NoSpace \in Spaces /\ Held(PagesOf(NoSpace)) = {} /\ Once(PagesOf(NoSpace))
<1>1. PICK sp, f : sp = NoSpace /\ f = PagesOf(sp)
  OBVIOUS
<1>2. /\ sp.root = 0 /\ sp.tabs = [t \in Tab |-> 0] /\ sp.leaf = [v \in Vpn |-> 0]
      /\ sp.tf = 0
  BY <1>1 DEF NoSpace
<1>3. sp \in Spaces
  BY <1>1 DEF NoSpace, Spaces
<1>4. \A x \in Place : f[x] = 0
  <2> SUFFICES ASSUME NEW x \in Place PROVE f[x] = 0
    OBVIOUS
  <2>1. CASE x = <<"root", 0>>
    BY <1>1, <1>2, <1>3, <2>1, PagesAre
  <2>2. CASE x = <<"tf", 0>>
    BY <1>1, <1>2, <1>3, <2>2, PagesAre
  <2>3. CASE \E t \in Tab : x = <<"table", t>>
    <3>1. PICK t \in Tab : x = <<"table", t>>
      BY <2>3
    <3> QED
      BY <1>1, <1>2, <1>3, <3>1, PagesAre
  <2>4. CASE \E v \in Vpn \ {TrapFrame} : x = <<"leaf", v>>
    <3>1. PICK v \in Vpn \ {TrapFrame} : x = <<"leaf", v>>
      BY <2>4
    <3> QED
      BY <1>1, <1>2, <1>3, <3>1, PagesAre
  <2> QED
    BY <2>1, <2>2, <2>3, <2>4, Places
<1>5. Held(f) = {} /\ Once(f)
  BY <1>4, Constants DEF Held, Once
<1> QED
  BY <1>1, <1>3, <1>5

LEMMA WorkIs ==
  ASSUME NEW free, NEW sp \in Spaces, NEW T, Owns(free, PagesOf(sp), T), inOp = 0,
         NEW w, w = Work(free, sp)
  PROVE  Good(w, T) /\ w.free = free /\ w.sp = sp /\ w.ok /\ w.op = 0
<1>1. w = Work5(free, sp, TRUE, "", 0)
  BY DEF Work, Work5
<1>2. Good(w, T)
  <2>1. TRUE \in BOOLEAN /\ 0 \in Int
    OBVIOUS
  <2>2. sp \in Spaces /\ Owns(free, PagesOf(sp), T)
    OBVIOUS
  <2> QED
    BY ONLY <1>1, <2>1, <2>2, GoodMade
<1>3. w.free = free /\ w.sp = sp /\ w.ok /\ w.op = 0
  BY ONLY <1>1 DEF Work5
<1> QED
  BY <1>2, <1>3

\* What a call gets: the free pages it is offered, and those of its process.
LEMMA OfferedIs ==
  ASSUME MemInv, NEW p \in Slot, NEW offer \in SUBSET freelist
  PROVE  /\ Owns(offer, PagesOf(space[p]), offer \cup Held(PagesOf(space[p])))
         /\ offer \in SUBSET Page /\ offer \cap Held(PagesOf(space[p])) = {}
<1>1. PICK f : f = PagesOf(space[p])
  OBVIOUS
<1>2. freelist \in SUBSET Page /\ Once(f) /\ freelist \cap Held(f) = {}
  BY <1>1 DEF MemInv, Accounted
<1>3. Held(f) \subseteq Page
  BY DEF Held
<1>4. Owns(offer, f, offer \cup Held(f))
  BY <1>2, <1>3 DEF Owns
<1> QED
  BY <1>1, <1>2, <1>4

LEMMA SettleIs ==
  ASSUME MemInv, NEW p \in Slot, NEW offer \in SUBSET freelist, NEW w, NEW T,
         T = offer \cup Held(PagesOf(space[p])), Good(w, T), w.op = 0, Image(w.sp),
         NEW call, ~w.ok => Restored(w, offer, p, call), Settle(w, offer, p, call)
  PROVE  MemInv' /\ Undone
<1>1. /\ w.free \in SUBSET Page /\ w.sp \in Spaces /\ w.bad = "" /\ w.ok \in BOOLEAN
      /\ Owns(w.free, PagesOf(w.sp), T)
  BY GoodIs
<1>2. /\ freelist' = (freelist \ offer) \cup w.free /\ space' = [space EXCEPT ![p] = w.sp]
      /\ inOp' = 0 /\ failed' = (IF w.ok THEN "" ELSE call) /\ fault' = fault
  BY <1>1 DEF Settle
<1>3. /\ freelist \in SUBSET Page /\ space \in [Slot -> Spaces] /\ fault = ""
      /\ failed \in {"", "fork", "sbrk", "exec"} /\ \A q \in Slot : Image(space[q])
      /\ Accounted(freelist, space)
  BY DEF MemInv
<1>4. /\ space'[p] = w.sp /\ \A q \in Slot : q # p => space'[q] = space[q]
  BY <1>2, <1>3
<1>5. Accounted(freelist', space')
  <2> DEFINE H == Held(PagesOf(space[p]))
             K == Held(PagesOf(w.sp))
  <2>1. \A q \in Slot : /\ Once(PagesOf(space[q]))
                        /\ freelist \cap Held(PagesOf(space[q])) = {}
    BY <1>3 DEF Accounted
  <2>2. \A q, r \in Slot :
          q # r => Held(PagesOf(space[q])) \cap Held(PagesOf(space[r])) = {}
    BY <1>3 DEF Accounted
  <2>3. \A pg \in Page : pg \in freelist \/ \E q \in Slot : pg \in Held(PagesOf(space[q]))
    BY <1>3 DEF Accounted
  <2>4. /\ Once(PagesOf(w.sp)) /\ w.free \cap K = {} /\ w.free \cup K = offer \cup H
        /\ K \subseteq Page /\ H \subseteq Page
    <3>1. /\ w.free \subseteq Page /\ T \subseteq Page /\ Once(PagesOf(w.sp))
          /\ \A pg \in Page : /\ pg \in T <=> (pg \in w.free \/ pg \in K)
                              /\ ~(pg \in w.free /\ pg \in K)
      BY <1>1 DEF Owns
    <3>2. K \subseteq Page /\ H \subseteq Page
      BY DEF Held
    <3> HIDE DEF K, H
    <3>3. T = offer \cup H
      BY DEF H
    <3> QED
      BY <3>1, <3>2, <3>3
  <2>5. \A q \in Slot : q # p => /\ Held(PagesOf(space[q])) \cap H = {}
                                 /\ Held(PagesOf(space[q])) \cap freelist = {}
    BY <2>1, <2>2
  <2>6. H \cap freelist = {}
    BY <2>1
  <2> HIDE DEF H, K
  <2>7. K \cap (freelist \ offer) = {}
    BY <2>4, <2>6
  <2>8. \A q \in Slot : q # p => /\ Held(PagesOf(space[q])) \cap K = {}
                                 /\ Held(PagesOf(space[q])) \cap freelist' = {}
    BY <1>2, <2>4, <2>5
  <2>9. Held(PagesOf(space'[p])) = K /\ Once(PagesOf(space'[p]))
    BY <1>4, <2>4 DEF K
  <2>10. ASSUME NEW q \in Slot PROVE Once(PagesOf(space'[q])) /\ freelist' \cap Held(PagesOf(space'[q])) = {}
    <3>1. CASE q = p
      BY <1>2, <2>4, <2>7, <2>9, <3>1
    <3>2. CASE q # p
      BY <1>4, <2>1, <2>8, <3>2
    <3> QED
      BY <3>1, <3>2
  <2>11. ASSUME NEW q \in Slot, NEW r \in Slot, q # r
         PROVE  Held(PagesOf(space'[q])) \cap Held(PagesOf(space'[r])) = {}
    <3>1. CASE q = p
      BY <1>4, <2>8, <2>9, <2>11, <3>1
    <3>2. CASE r = p
      BY <1>4, <2>8, <2>9, <2>11, <3>2
    <3>3. CASE q # p /\ r # p
      BY <1>4, <2>2, <2>11, <3>3
    <3> QED
      BY <3>1, <3>2, <3>3
  <2>12. ASSUME NEW pg \in Page PROVE pg \in freelist' \/ \E q \in Slot : pg \in Held(PagesOf(space'[q]))
    <3>1. CASE pg \in freelist
      BY <1>2, <2>4, <2>9, <3>1
    <3>2. ASSUME NEW q \in Slot, pg \in Held(PagesOf(space[q]))
          PROVE  pg \in freelist' \/ \E r \in Slot : pg \in Held(PagesOf(space'[r]))
      <4>1. CASE q = p
        <5>1. pg \in H
          BY <3>2, <4>1 DEF H
        <5> QED
          BY <1>2, <2>4, <2>9, <5>1
      <4>2. CASE q # p
        BY <1>4, <3>2, <4>2
      <4> QED
        BY <4>1, <4>2
    <3> QED
      BY <2>3, <3>1, <3>2
  <2> QED
    BY <2>10, <2>11, <2>12 DEF Accounted
<1>6. freelist' \in SUBSET Page /\ space' \in [Slot -> Spaces]
  BY <1>1, <1>2, <1>3
<1>7. \A q \in Slot : Image(space'[q])
  BY <1>3, <1>4
<1>8. failed' \in {"", "fork", "sbrk", "exec"}
  BY <1>2 DEF Restored
<1>9. MemInv'
  BY <1>2, <1>3, <1>5, <1>6, <1>7, <1>8 DEF MemInv
<1>10. Undone
  <2>1. ASSUME failed' # "" PROVE Restored(w, offer, p, call) /\ failed' = call
    BY <1>2, <2>1
  <2>2. ASSUME failed' # ""
        PROVE  \A q \in Slot : space'[q].leaf = space[q].leaf /\ space'[q].sz = space[q].sz
    BY <1>4, <2>1, <2>2 DEF Restored
  <2>3. ASSUME failed' # "", failed' # "sbrk" PROVE freelist' = freelist /\ space' = space
    <3>1. w.free = offer /\ w.sp = space[p]
      BY <2>1, <2>3 DEF Restored
    <3> QED
      BY <1>2, <1>3, <3>1
  <2> QED
    BY <1>2, <2>2, <2>3 DEF Undone
<1> QED
  BY <1>9, <1>10

(*****************************************************************************)
(* Every call keeps it.                                                      *)
(*****************************************************************************)

LEMMA OffersAre ==
  ASSUME NEW offer \in Offers
  PROVE  offer \in SUBSET freelist
  BY DEF Offers

LEMMA ForkKeeps ==
  ASSUME MemInv, NEW p \in Slot, ForkMemory(p)
  PROVE  MemInv' /\ Undone
<1>1. PICK q, offer, w :
        /\ q \in Slot /\ offer \in Offers
        /\ Alive(p) /\ ~Alive(q)
        /\ w = ForkCopy(Allocproc(Work(offer, NoSpace)), space[p])
        /\ Settle(w, offer, q, "fork")
  BY DEF ForkMemory
<1>2. offer \in SUBSET freelist /\ inOp = 0 /\ q \in Slot
  BY <1>1, OffersAre DEF MemInv
<1>3. space[p] \in Spaces /\ Shape(space[p], Up(space[p].sz)) /\ space[q] = NoSpace
  BY <1>1, AliveIs
<1>4. PICK T : T = offer \cup Held(PagesOf(space[q]))
  OBVIOUS
<1>5. Owns(offer, PagesOf(NoSpace), T) /\ T = offer
  <2>1. Owns(offer, PagesOf(space[q]), offer \cup Held(PagesOf(space[q])))
    BY <1>2, OfferedIs
  <2> QED
    BY <1>3, <1>4, <2>1, NothingHeld
<1>6. PICK w0, x : w0 = Work(offer, NoSpace) /\ x = Allocproc(w0)
  OBVIOUS
<1>7. Good(w0, T) /\ w0.ok /\ w0.op = 0 /\ w0.sp = NoSpace
  BY <1>2, <1>5, <1>6, WorkIs, NothingHeld
<1>8. /\ Good(x, T) /\ x.op = 0
      /\ \/ ~x.ok /\ x.sp = NoSpace
         \/ x.ok /\ Shape(x.sp, 0) /\ x.sp.tf \in Page /\ x.sp.sz = 0 /\ x.sp.guard = {}
  BY <1>6, <1>7, AllocprocIs
<1>9. PICK old : old = space[p]
  OBVIOUS
<1>10. /\ Good(w, T) /\ w.op = 0
       /\ \/ ~w.ok /\ w.sp = NoSpace
          \/ w.ok /\ Shape(w.sp, Up(w.sp.sz))
  <2>1. old \in Spaces /\ Shape(old, Up(old.sz)) /\ w = ForkCopy(x, old)
    BY <1>1, <1>3, <1>6, <1>9
  <2>2. /\ Good(w, T) /\ w.op = x.op
        /\ \/ ~w.ok /\ w.sp = NoSpace
           \/ w.ok /\ Shape(w.sp, Up(w.sp.sz)) /\ w.sp.sz = old.sz
    BY <1>8, <2>1, ForkCopyIs
  <2> QED
    BY <1>8, <2>2
<1>11. Image(w.sp)
  BY <1>10 DEF Image
<1>12. ASSUME ~w.ok PROVE Restored(w, offer, q, "fork")
  <2>1. w.sp = NoSpace
    BY <1>10, <1>12
  <2>2. w.free = offer
    <3>1. NoSpace = Bare(0, 0) /\ 0 \in Page \cup {0} /\ 0 \in Nat
      BY DEF NoSpace, Bare
    <3>2. w.free = T \ {0}
      BY <1>10, <2>1, <3>1, BareHolds
    <3>3. 0 \notin T
      BY <1>10, GoodIs, Constants
    <3> QED
      BY <1>5, <3>2, <3>3
  <2> QED
    BY <1>3, <2>1, <2>2 DEF Restored
<1> QED
  BY <1>1, <1>2, <1>4, <1>10, <1>11, <1>12, SettleIs

LEMMA SbrkKeeps ==
  ASSUME MemInv, NEW p \in Slot, Sbrk(p)
  PROVE  MemInv' /\ Undone
<1>1. PICK n, offer, w :
        /\ n \in (0 - MaxBrk)..MaxBrk /\ offer \in Offers
        /\ Alive(p) /\ w = Growproc(Work(offer, space[p]), space[p].sz, n)
        /\ Settle(w, offer, p, "sbrk")
  BY DEF Sbrk
<1>2. offer \in SUBSET freelist /\ inOp = 0 /\ n \in Int
  <2>1. offer \in SUBSET freelist
    BY <1>1, OffersAre
  <2>2. n \in Int
    BY <1>1, MemoryAssumption
  <2> QED
    BY <2>1, <2>2 DEF MemInv
<1>3. space[p] \in Spaces /\ Shape(space[p], Up(space[p].sz))
  BY <1>1, AliveIs
<1>4. PICK T, old, sz, w0 : /\ T = offer \cup Held(PagesOf(space[p])) /\ old = space[p]
                            /\ sz = old.sz /\ w0 = Work(offer, old)
  OBVIOUS
<1>5. Owns(offer, PagesOf(old), T)
  BY <1>2, <1>4, OfferedIs
<1>6. Good(w0, T) /\ w0.ok /\ w0.op = 0 /\ w0.sp = old
  BY <1>2, <1>3, <1>4, <1>5, WorkIs
<1>7. /\ Good(w, T) /\ w.op = 0 /\ Shape(w.sp, Up(w.sp.sz))
      /\ ~w.ok => w.sp.leaf = old.leaf /\ w.sp.sz = sz
  <2>1. sz = w0.sp.sz /\ Shape(w0.sp, Up(sz)) /\ w = Growproc(w0, sz, n)
    BY <1>1, <1>3, <1>4, <1>6
  <2>2. /\ Good(w, T) /\ w.op = w0.op /\ Shape(w.sp, Up(w.sp.sz))
        /\ ~w.ok => w.sp.leaf = w0.sp.leaf /\ w.sp.sz = sz
    BY <1>2, <1>6, <2>1, GrowprocIs
  <2> QED
    BY <1>6, <2>2
<1>8. Image(w.sp)
  BY <1>7 DEF Image
<1>9. ~w.ok => Restored(w, offer, p, "sbrk")
  BY <1>4, <1>7 DEF Restored
<1> QED
  BY <1>1, <1>2, <1>4, <1>7, <1>8, <1>9, SettleIs

LEMMA FreeKeeps ==
  ASSUME MemInv, NEW p \in Slot, FreeMemory(p)
  PROVE  MemInv' /\ Undone
<1>1. PICK w : /\ Alive(p) /\ w = Freeproc(Work(freelist, space[p]))
               /\ Settle(w, freelist, p, "wait")
  BY DEF FreeMemory
<1>2. freelist \in SUBSET freelist /\ inOp = 0
  BY DEF MemInv
<1>3. space[p] \in Spaces /\ Shape(space[p], Up(space[p].sz)) /\ space[p].tf \in Page
  BY <1>1, AliveIs
<1>4. PICK T, old, tf, w0 : /\ T = freelist \cup Held(PagesOf(space[p])) /\ old = space[p]
                            /\ tf = old.tf /\ w0 = Work(freelist, old)
  OBVIOUS
<1>5. Owns(freelist, PagesOf(old), T)
  BY <1>2, <1>4, OfferedIs
<1>6. Good(w0, T) /\ w0.ok /\ w0.op = 0 /\ w0.sp = old
  BY <1>2, <1>3, <1>4, <1>5, WorkIs
<1>7. Good(w, T) /\ Same(w, w0) /\ w.sp = NoSpace
  <2>1. w0.sp.tf = tf /\ tf \in Page /\ Shape(w0.sp, Up(w0.sp.sz)) /\ w = Freeproc(w0)
    BY <1>1, <1>3, <1>4, <1>6
  <2> QED
    BY <1>6, <2>1, FreeprocIs
<1>8. Image(w.sp) /\ w.ok /\ w.op = 0
  BY <1>6, <1>7 DEF Image, Same
<1> QED
  BY <1>1, <1>2, <1>4, <1>7, <1>8, SettleIs

LEMMA OwnsGiveEach ==
  ASSUME NEW free, NEW f, NEW T, Owns(free, f, T), NEW S, S \subseteq Page, S \cap T = {}
  PROVE  Owns(free \cup S, f, T \cup S) /\ S \cap free = {}
  BY DEF Owns

\* The arguments' pages are given back.
LEMMA ArgumentsFreed ==
  ASSUME NEW x, NEW T, Good(x, T), NEW argv \in SUBSET Page, argv \cap T = {},
         NEW y, y = KfreeEach(x, [pg \in argv |-> pg])
  PROVE  Good(y, T \cup argv) /\ Same(y, x) /\ y.sp = x.sp /\ y.free = x.free \cup argv
<1>1. /\ x \in Works /\ x.free \in SUBSET Page /\ x.sp \in Spaces /\ x.ok \in BOOLEAN
      /\ x.op \in Int /\ Owns(x.free, PagesOf(x.sp), T)
  BY GoodIs
<1>2. Owns(x.free \cup argv, PagesOf(x.sp), T \cup argv) /\ argv \cap x.free = {}
  <2>1. PICK free, m, S : /\ free = x.free /\ m = PagesOf(x.sp) /\ S = argv
                          /\ Owns(free, m, T) /\ S \subseteq Page /\ S \cap T = {}
    BY <1>1
  <2>2. Owns(free \cup S, m, T \cup S) /\ S \cap free = {}
    BY ONLY <2>1, OwnsGiveEach
  <2> QED
    BY <2>1, <2>2
<1>3. PICK f : f = [pg \in argv |-> pg]
  OBVIOUS
<1>4. PagesIn(f, DOMAIN f) = argv /\ IsInjective(f)
  BY <1>3 DEF PagesIn, IsInjective
<1>5. y = Work5(x.free \cup argv, x.sp, x.ok, "", x.op)
  <2>1. PagesIn(f, DOMAIN f) \subseteq Page /\ PagesIn(f, DOMAIN f) \cap x.free = {}
    BY <1>2, <1>4
  <2>2. KfreeEach(x, f) = Work5(x.free \cup PagesIn(f, DOMAIN f), x.sp, x.ok, "", x.op)
    BY ONLY <1>1, <1>4, <2>1, KfreeEachIs
  <2> QED
    BY <1>3, <1>4, <2>2
<1>6. Good(y, T \cup argv)
  BY ONLY <1>1, <1>2, <1>5, GoodMade
<1>7. y.sp = x.sp /\ Same(y, x) /\ y.free = x.free \cup argv
  BY ONLY <1>5 DEF Work5, Same
<1> QED
  BY <1>6, <1>7

LEMMA ExecKeeps ==
  ASSUME MemInv, NEW p \in Slot, Exec(p)
  PROVE  MemInv' /\ Undone
<1>0. PICK prog, good, args, n, offer, loads, w :
        /\ prog \in Program /\ good \in BOOLEAN /\ args \in BOOLEAN
        /\ n \in 0..MaxArgs /\ offer \in Offers
        /\ Alive(p) /\ loads \in 0..Len(prog)
        /\ w = ExecCall(offer, n, space[p], prog, loads, good, args)
        /\ Settle(w, offer, p, "exec")
  BY DEF Exec
<1>1. PICK argv, enough, x :
        /\ argv = Argv(offer, n)
        /\ x = ExecProgram(offer \ argv, space[p], prog, loads, good, args)
        /\ w = IF enough THEN KfreeEach(x, [pg \in argv |-> pg])
               ELSE Fail(Work(offer, space[p]))
  BY <1>0 DEF ExecCall
<1>2. offer \in SUBSET freelist /\ inOp = 0 /\ prog \in Seq(Nat) /\ argv \subseteq offer
      /\ loads \in 0..Len(prog) /\ good \in BOOLEAN /\ args \in BOOLEAN
  <2>1. offer \in SUBSET freelist /\ inOp = 0
    BY <1>0, OffersAre DEF MemInv
  <2>2. prog \in Seq(Nat)
    BY <1>0, MemoryAssumption
  <2>3. argv \subseteq offer
    BY <1>1 DEF Argv
  <2> QED
    BY <1>0, <2>1, <2>2, <2>3
<1>3. space[p] \in Spaces /\ Shape(space[p], Up(space[p].sz)) /\ space[p].tf \in Page
  BY <1>0, AliveIs
<1>4. PICK old, H, T, tf, free : /\ old = space[p] /\ H = Held(PagesOf(old)) /\ T = offer \cup H
                                 /\ tf = old.tf /\ free = offer \ argv
  OBVIOUS
<1>5. Owns(offer, PagesOf(old), T) /\ offer \subseteq Page /\ offer \cap H = {}
  BY <1>2, <1>4, OfferedIs
<1>6. CASE ~enough
  <2>1. PICK w0 : w0 = Work(offer, old)
    OBVIOUS
  <2>2. Good(w0, T) /\ w0.free = offer /\ w0.op = 0 /\ w0.sp = old
    BY <1>2, <1>3, <1>4, <1>5, <2>1, WorkIs
  <2>3. w = Fail(w0)
    BY <1>1, <1>4, <1>6, <2>1
  <2>4. Good(w, T) /\ w.sp = old /\ w.free = offer /\ w.op = 0 /\ ~w.ok
    BY <2>2, <2>3, FailIs
  <2>5. Image(w.sp) /\ Restored(w, offer, p, "exec")
    BY <1>3, <1>4, <2>4 DEF Image, Restored
  <2> QED
    BY <1>0, <1>2, <1>4, <2>4, <2>5, SettleIs
<1>7. CASE enough
  <2>1. Outer(free, tf, old)
    <3>1. Once(PagesOf(old))
      BY <1>5 DEF Owns
    <3> QED
      BY <1>3, <1>4, <1>5, <3>1 DEF Outer, Whole
  <2>2. Done(x, free, old, 0)
    BY <1>1, <1>2, <1>4, <2>1, ExecProgramIs
  <2>3. /\ Good(x, free \cup H) /\ x.op = 0 /\ Shape(x.sp, Up(x.sp.sz))
        /\ ~x.ok => x.free = free /\ x.sp = old
    BY <1>4, <2>2 DEF Done
  <2>4. argv \in SUBSET Page /\ argv \cap (free \cup H) = {} /\ (free \cup H) \cup argv = T
        /\ free \cup argv = offer
    BY <1>2, <1>4, <1>5
  <2>5. w = KfreeEach(x, [pg \in argv |-> pg])
    BY <1>1, <1>7
  <2>6. /\ Good(w, (free \cup H) \cup argv) /\ Same(w, x) /\ w.sp = x.sp
        /\ w.free = x.free \cup argv
    BY <2>3, <2>4, <2>5, ArgumentsFreed
  <2>7. Good(w, T) /\ w.op = 0 /\ Image(w.sp)
    BY <2>3, <2>4, <2>6 DEF Same, Image
  <2>8. ~w.ok => Restored(w, offer, p, "exec")
    BY <1>4, <2>3, <2>4, <2>6 DEF Same, Restored
  <2> QED
    BY <1>0, <1>2, <1>4, <2>7, <2>8, SettleIs
<1> QED
  BY <1>6, <1>7

LEMMA NextKeeps ==
  ASSUME MemInv, MemNext
  PROVE  MemInv' /\ Undone
<1>1. PICK p \in Slot : ForkMemory(p) \/ Sbrk(p) \/ Exec(p) \/ FreeMemory(p)
  BY DEF MemNext
<1> QED
  BY <1>1, ForkKeeps, SbrkKeeps, ExecKeeps, FreeKeeps

(*****************************************************************************)
(* The first process.                                                        *)
(*****************************************************************************)

\* A call that has failed maps nothing.
LEMMA MapRangeFailed ==
  ASSUME NEW w, NEW T, Good(w, T), ~w.ok, w.sp = NoSpace
  PROVE  ~MapRange(w, 0, 1).ok
<1>1. \E f : f = [n \in 0..1 - 0 |-> IF n = 0 THEN w ELSE MapNext(f[n - 1], 0 + n - 1)]
  <2>1. PICK g : g = [n \in 0..1 - 0 |-> w]
    OBVIOUS
  <2>2. ASSUME NEW n \in 0..1 - 0
        PROVE  w = IF n = 0 THEN w ELSE MapNext(g[n - 1], 0 + n - 1)
    <3>1. CASE n = 0
      BY <3>1
    <3>2. CASE n # 0
      <4>1. n - 1 \in 0..1 - 0
        BY <3>2
      <4>2. g[n - 1] = w
        BY <2>1, <4>1
      <4> QED
        BY <3>2, <4>2 DEF MapNext
    <3> QED
      BY <3>1, <3>2
  <2>3. g = [n \in 0..1 - 0 |-> IF n = 0 THEN w ELSE MapNext(g[n - 1], 0 + n - 1)]
    BY <2>1, <2>2
  <2> QED
    BY <2>3
<1> DEFINE run[n \in 0..1 - 0] == IF n = 0 THEN w ELSE MapNext(run[n - 1], 0 + n - 1)
<1>2. run = [n \in 0..1 - 0 |-> IF n = 0 THEN w ELSE MapNext(run[n - 1], 0 + n - 1)]
  BY <1>1
<1>3. MapRange(w, 0, 1) = MapOrUndo(run[1 - 0], 0, 1)
  BY DEF MapRange
<1> HIDE DEF run
<1>4. run[1 - 0] = w
  <2>1. 0 \in 0..1 - 0 /\ 1 - 0 \in 0..1 - 0 /\ 1 - 0 # 0 /\ (1 - 0) - 1 = 0
    OBVIOUS
  <2>2. run[0] = w
    BY <1>2, <2>1
  <2>3. run[1 - 0] = MapNext(run[0], 0 + (1 - 0) - 1)
    BY <1>2, <2>1
  <2> QED
    BY <2>2, <2>3 DEF MapNext
<1> DEFINE V == {v \in Vpn : /\ 0 <= v /\ v < 1 /\ v < TrapFrame /\ w.sp.leaf[v] # 0}
<1>5. MapRange(w, 0, 1) = Uvmunmap(w, V, TRUE)
  BY <1>3, <1>4 DEF MapOrUndo
<1>6. V = {}
  <2>1. w.sp.leaf = [v \in Vpn |-> 0]
    BY DEF NoSpace
  <2> QED
    BY <2>1
<1> HIDE DEF V
<1>7. V \in SUBSET (0..MaxPages - 1) /\ \A v \in V : w.sp.leaf[v] \in Page /\ w.sp.tabs[TabOf(v)] # 0
  BY <1>6
<1>8. PICK x : x = Uvmunmap(w, V, TRUE)
  OBVIOUS
<1>9. Same(x, w)
  BY <1>7, <1>8, UvmunmapIs
<1> QED
  BY <1>5, <1>8, <1>9 DEF Same

LEMMA InitHolds == MemInit => MemInv
<1> SUFFICES ASSUME MemInit PROVE MemInv
  OBVIOUS
<1>1. PICK w, x, y : /\ w = [free |-> Page, sp |-> NoSpace, ok |-> TRUE, bad |-> "", op |-> 0]
                     /\ x = Allocproc(w) /\ y = MapRange(x, 0, 1)
  OBVIOUS
<1>2. y = FirstSpace /\ y.ok
  BY <1>1, MemoryBoots DEF FirstSpace
<1>3. w = Work5(Page, NoSpace, TRUE, "", 0)
  BY <1>1 DEF Work5
<1>4. Good(w, Page)
  <2>1. Owns(Page, PagesOf(NoSpace), Page)
    BY NothingHeld DEF Owns
  <2>2. TRUE \in BOOLEAN /\ 0 \in Int
    OBVIOUS
  <2> QED
    BY ONLY <1>3, <2>1, <2>2, NothingHeld, GoodMade
<1>5. w.ok /\ w.sp = NoSpace
  BY ONLY <1>3 DEF Work5
<1>6. /\ Good(x, Page)
      /\ \/ ~x.ok /\ x.sp = NoSpace
         \/ x.ok /\ Shape(x.sp, 0)
  BY <1>1, <1>4, <1>5, AllocprocIs
<1>7. x.ok /\ Shape(x.sp, 0)
  BY <1>1, <1>2, <1>6, MapRangeFailed
<1>8. MapsTo(x, Page, 0, 1, y)
  <2>1. 0 \in Nat /\ 1 \in Nat /\ 0 <= 1
    OBVIOUS
  <2>2. MapsTo(x, Page, 0, 1, MapRange(x, 0, 1))
    BY ONLY <1>6, <1>7, <2>1, MapRangeIs
  <2> QED
    BY <1>1, <2>2
<1>9. Good(y, Page) /\ Shape(y.sp, 1)
  BY <1>2, <1>8 DEF MapsTo
<1>10. /\ y.free \in SUBSET Page /\ y.sp \in Spaces /\ Owns(y.free, PagesOf(y.sp), Page)
  BY <1>9, GoodIs
<1>11. PICK sq : sq = [y.sp EXCEPT !.sz = PGSIZE]
  OBVIOUS
<1>12. PGSIZE \in Nat /\ Up(PGSIZE) = 1
  <2>1. PGSIZE \in Nat /\ 1 * PGSIZE = PGSIZE /\ 1 \in Nat
    BY MemoryAssumption
  <2>2. Up(1 * PGSIZE) = 1
    BY <2>1, UpPages
  <2> QED
    BY <2>1, <2>2
<1>13. Resized(sq, y.sp, PGSIZE, y.sp.guard)
  BY <1>10, <1>11, <1>12 DEF Spaces, Resized
<1>14. Shape(sq, 1)
  <2>1. y.sp.guard \subseteq 0..1 - 1
    BY <1>9 DEF Shape, Built
  <2> QED
    BY <1>9, <1>13, <2>1, ShapeResized
<1>15. PagesOf(sq) = PagesOf(y.sp)
  <2>1. /\ sq \in Spaces /\ sq.root = y.sp.root /\ sq.tabs = y.sp.tabs /\ sq.tf = y.sp.tf
        /\ \A v \in Vpn \ {TrapFrame} : sq.leaf[v] = y.sp.leaf[v]
    BY <1>13 DEF Resized
  <2> QED
    BY <1>10, <2>1, NotAPlace
<1>16. /\ freelist = y.free /\ fault = "" /\ inOp = 0 /\ failed = ""
       /\ space = [p \in Slot |-> IF p = First THEN sq ELSE NoSpace]
  BY <1>2, <1>11 DEF MemInit
<1>17. First \in Slot /\ space[First] = sq /\ \A p \in Slot : p # First => space[p] = NoSpace
  BY <1>16, MemoryAssumption
<1>18. space \in [Slot -> Spaces]
  <2>1. sq \in Spaces /\ NoSpace \in Spaces
    BY <1>13, NothingHeld DEF Resized
  <2> QED
    BY <1>16, <2>1
<1>19. \A p \in Slot : Image(space[p])
  <2>1. sq.sz = PGSIZE
    BY <1>13 DEF Resized
  <2> QED
    BY <1>12, <1>14, <1>17, <2>1 DEF Image
<1>20. Accounted(freelist, space)
  <2>1. PICK f : f = PagesOf(sq)
    OBVIOUS
  <2>2. /\ Once(f) /\ freelist \cap Held(f) = {}
        /\ \A pg \in Page : pg \in freelist \/ pg \in Held(f)
    BY <1>10, <1>15, <1>16, <2>1 DEF Owns
  <2>3. PagesOf(space[First]) = f
    BY <1>17, <2>1
  <2>4. \A p \in Slot : p # First => Held(PagesOf(space[p])) = {} /\ Once(PagesOf(space[p]))
    BY <1>17, NothingHeld
  <2>5. \A p \in Slot : /\ Once(PagesOf(space[p]))
                        /\ freelist \cap Held(PagesOf(space[p])) = {}
    BY <2>2, <2>3, <2>4
  <2>6. \A p, q \in Slot :
          p # q => Held(PagesOf(space[p])) \cap Held(PagesOf(space[q])) = {}
    BY <2>4
  <2>7. \A pg \in Page : pg \in freelist \/ \E p \in Slot : pg \in Held(PagesOf(space[p]))
    BY <1>17, <2>2, <2>3
  <2> QED
    BY <2>5, <2>6, <2>7 DEF Accounted
<1> QED
  BY <1>10, <1>16, <1>18, <1>19, <1>20 DEF MemInv

(*****************************************************************************)
(* The results.                                                              *)
(*****************************************************************************)

\* The inductive invariant: every address space is torn down or complete, and
\* every page is free or in one place of one of them.  Every call of exec(),
\* fork(), sbrk() and wait() keeps it, however few pages it finds free.
THEOREM MemInvHolds == MemSpec => []MemInv
<1>1. MemInit => MemInv
  BY InitHolds
<1>2. MemInv /\ [MemNext]_memVars => MemInv'
  <2> SUFFICES ASSUME MemInv, [MemNext]_memVars PROVE MemInv'
    OBVIOUS
  <2>1. CASE MemNext
    BY <2>1, NextKeeps
  <2>2. CASE UNCHANGED memVars
    BY <2>2 DEF memVars, MemInv, Accounted
  <2> QED
    BY <2>1, <2>2
<1> QED
  BY <1>1, <1>2, PTL DEF MemSpec

\* The types of the free list and of the address spaces.
THEOREM MemTypesHold == MemSpec => []MemTypeOK
<1>1. MemInv => MemTypeOK
  BY DEF MemInv, MemTypeOK, Spaces
<1> QED
  BY <1>1, MemInvHolds, PTL

\* uvmunmap(), uvmcopy(), mappages(), freewalk() and kfree() do not panic, and
\* the pages of a process are those from 0 to its size and the two at the top.
THEOREM ImagesAreMapped == MemSpec => []ImagesMapped
<1>1. MemInv => ImagesMapped
  <2> SUFFICES ASSUME MemInv, NEW p \in Slot, Alive(p)
               PROVE  /\ {v \in Vpn : space[p].leaf[v] # 0}
                           = 0..Up(space[p].sz) - 1 \cup {TrapFrame, Trampoline}
                      /\ space[p].leaf[TrapFrame] = space[p].tf
    BY DEF ImagesMapped, MemInv
  <2>1. PICK n, leaf : n = Up(space[p].sz) /\ leaf = space[p].leaf
    OBVIOUS
  <2>2. /\ n \in 0..MaxPages /\ leaf[TrapFrame] \in Page /\ leaf[Trampoline] = KernelText
        /\ \A v \in 0..n - 1 : leaf[v] \in Page
        /\ \A v \in n..MaxPages - 1 : leaf[v] = 0
        /\ leaf[TrapFrame] = space[p].tf
    BY <2>1, AliveIs DEF Shape, Built
  <2>3. /\ MaxPages \in Nat /\ Vpn = 0..MaxPages + 1 /\ TrapFrame = MaxPages
        /\ Trampoline = MaxPages + 1 /\ 0 \notin Page /\ KernelText # 0
    BY Constants
  <2>4. ASSUME NEW v \in Vpn PROVE leaf[v] # 0 <=> v \in 0..n - 1 \cup {TrapFrame, Trampoline}
    <3>1. v \in 0..n - 1 \/ v \in n..MaxPages - 1 \/ v = TrapFrame \/ v = Trampoline
      BY <2>2, <2>3
    <3> QED
      BY <2>2, <2>3, <3>1
  <2>5. 0..n - 1 \cup {TrapFrame, Trampoline} \subseteq Vpn
    BY <2>2, <2>3
  <2> QED
    BY <2>1, <2>2, <2>4, <2>5
<1> QED
  BY <1>1, MemInvHolds, PTL

\* No page is lost, in use and free, or in use twice: the pages in use are those
\* that the processes hold, and as many as there are places that hold one.
THEOREM PagesAreAccounted == MemSpec => []PagesAccounted
<1>1. MemInv => PagesAccounted
  <2> SUFFICES ASSUME MemInv PROVE PagesAccounted
    OBVIOUS
  <2> DEFINE used == Page \ freelist
             S == UNION {{p} \X Taken(p) : p \in Slot}
             m(p) == PagesOf(space[p])
  <2>1. /\ \A p \in Slot : Once(m(p)) /\ freelist \cap Held(m(p)) = {}
        /\ \A p, q \in Slot : p # q => Held(m(p)) \cap Held(m(q)) = {}
        /\ \A pg \in Page : pg \in freelist \/ \E p \in Slot : pg \in Held(m(p))
    BY DEF MemInv, Accounted
  <2>2. \A p \in Slot, x \in Place : m(p)[x] = PageAt(p, x)
    BY DEF PagesOf, PageAt
  <2>3. \A p \in Slot : {PageAt(p, x) : x \in Taken(p)} = Held(m(p))
    BY <2>2 DEF Taken, Held
  <2>4. \A p \in Slot : \A x \in Taken(p) :
        x \in Place /\ m(p)[x] = PageAt(p, x) /\ PageAt(p, x) \in Page
    BY <2>2 DEF Taken
  <2> HIDE DEF m
  <2>5. UNION {{PageAt(p, x) : x \in Taken(p)} : p \in Slot} = used
    <3>1. ASSUME NEW p \in Slot PROVE Held(m(p)) \subseteq used
      BY <2>1 DEF Held
    <3>2. ASSUME NEW pg \in used PROVE \E p \in Slot : pg \in Held(m(p))
      BY <2>1
    <3> QED
      BY <2>3, <3>1, <3>2
  <2> DEFINE g == [s \in S |-> PageAt(s[1], s[2])]
  <2>6. \A s \in S : s[1] \in Slot /\ s[2] \in Taken(s[1]) /\ s = <<s[1], s[2]>>
    OBVIOUS
  <2>7. \A p \in Slot : \A x \in Taken(p) : <<p, x>> \in S
    OBVIOUS
  <2> HIDE DEF S
  <2>8. g \in [S -> used]
    <3>1. ASSUME NEW s \in S PROVE PageAt(s[1], s[2]) \in used
      BY <2>3, <2>5, <2>6
    <3> QED
      BY <3>1
  <2>9. ASSUME NEW s \in S, NEW t \in S, g[s] = g[t] PROVE s = t
    <3>1. PICK p, q, x, y : p = s[1] /\ x = s[2] /\ q = t[1] /\ y = t[2]
      OBVIOUS
    <3>2. /\ p \in Slot /\ q \in Slot /\ x \in Taken(p) /\ y \in Taken(q)
          /\ s = <<p, x>> /\ t = <<q, y>> /\ PageAt(p, x) = PageAt(q, y)
      BY <2>6, <2>9, <3>1
    <3>3. /\ x \in Place /\ y \in Place /\ m(p)[x] = PageAt(p, x) /\ m(q)[y] = PageAt(q, y)
          /\ PageAt(p, x) \in Page
      BY <2>4, <3>2
    <3>4. p = q
      <4>1. PageAt(p, x) \in Held(m(p)) /\ PageAt(p, x) \in Held(m(q))
        BY <2>3, <3>2
      <4> QED
        BY <2>1, <3>2, <4>1
    <3>5. x = y
      BY <2>1, <3>2, <3>3, <3>4 DEF Once
    <3> QED
      BY <3>2, <3>4, <3>5
  <2>10. \A pg \in used : \E s \in S : g[s] = pg
    <3> SUFFICES ASSUME NEW pg \in used PROVE \E s \in S : g[s] = pg
      OBVIOUS
    <3>1. PICK p \in Slot : \E x \in Taken(p) : pg = PageAt(p, x)
      BY <2>5
    <3>1a. PICK x \in Taken(p) : pg = PageAt(p, x)
      BY <3>1
    <3>2. <<p, x>> \in S
      BY <2>7
    <3>3. g[<<p, x>>] = pg
      BY <3>1a, <3>2
    <3> QED
      BY <3>2, <3>3
  <2> HIDE DEF g
  <2>11. g \in Injection(S, used) /\ g \in Surjection(S, used)
    BY <2>8, <2>9, <2>10 DEF Injection, Surjection, IsInjective
  <2>12. IsFiniteSet(used)
    BY MemoryAssumption, FS_Subset
  <2> HIDE DEF used
  <2>13. Cardinality(S) = Cardinality(used)
    BY <2>11, <2>12, FS_Injection
  <2> QED
    BY <2>5, <2>13 DEF PagesAccounted, S, used
<1> QED
  BY <1>1, MemInvHolds, PTL

\* A call that fails changes nobody's memory, gives back every page it has
\* taken (but those of tables that sbrk() keeps) and leaves no transaction open.
THEOREM FailedCallsUndone == MemSpec => FailedCallUndone
<1>1. MemInv /\ [MemNext]_memVars => [Undone]_memVars
  BY NextKeeps
<1> QED
  BY <1>1, MemInvHolds, PTL DEF MemSpec, FailedCallUndone, Undone
(*****************************************************************************)
(* Copies between the kernel and a process.                                  *)
(*****************************************************************************)

\* The addresses below page n that the user may touch, and what each stands for.
Users(sp, n, a) == a < n * PGSIZE /\ a \div PGSIZE \notin sp.guard
Byte(sp, a) == <<sp.leaf[a \div PGSIZE], a % PGSIZE>>

LEMMA BelowPage ==
  ASSUME NEW a \in Nat, NEW n \in Nat
  PROVE  a < n * PGSIZE <=> a \div PGSIZE < n
<1>1. PGSIZE \in Nat \ {0} /\ a \in Int /\ n \in Int
  BY MemoryAssumption
<1>2. PICK q, r : q = a \div PGSIZE /\ r = a % PGSIZE
  OBVIOUS
<1>3. r \in 0..PGSIZE - 1 /\ q \in Int /\ a = PGSIZE * q + r
  BY <1>1, <1>2, DivMod
<1>4. n * PGSIZE = PGSIZE * n
  BY <1>1
<1>5. ASSUME q < n PROVE a < PGSIZE * n
  <2>1. PGSIZE * q + PGSIZE <= PGSIZE * n
    BY <1>1, <1>3, <1>5, Times
  <2> QED
    BY <1>1, <1>3, <2>1
<1>6. ASSUME n <= q PROVE ~(a < PGSIZE * n)
  <2>1. CASE n = q
    BY <1>1, <1>3, <2>1
  <2>2. CASE n < q
    <3>1. PGSIZE * n + PGSIZE <= PGSIZE * q
      BY <1>1, <1>3, <2>2, Times
    <3> QED
      BY <1>1, <1>3, <3>1
  <2> QED
    BY <1>1, <1>3, <1>6, <2>1, <2>2
<1> QED
  BY <1>1, <1>2, <1>3, <1>4, <1>5, <1>6

LEMMA PageNat ==
  ASSUME NEW a \in Nat
  PROVE  a \div PGSIZE \in Nat /\ a % PGSIZE \in 0..PGSIZE - 1
<1>1. PGSIZE \in Nat \ {0} /\ a \in Int /\ 0 \in Int /\ 0 <= a
  BY MemoryAssumption
<1>2. 0 \div PGSIZE <= a \div PGSIZE
  BY <1>1, DivGrows
<1>3. (PGSIZE * 0 + 0) \div PGSIZE = 0 /\ PGSIZE * 0 + 0 = 0
  <2>1. 0 \in 0..PGSIZE - 1
    BY <1>1
  <2> QED
    BY <1>1, <2>1, DivIs
<1>4. a \div PGSIZE \in Int /\ a % PGSIZE \in 0..PGSIZE - 1
  BY <1>1, DivMod
<1> QED
  BY <1>2, <1>3, <1>4

\* walkaddr() finds a page exactly where the user may touch one.
LEMMA WalkaddrIs ==
  ASSUME NEW sp \in Spaces, NEW n, Shape(sp, n), NEW a \in Nat
  PROVE  /\ Users(sp, n, a) => /\ Walkaddr(sp, a \div PGSIZE) = sp.leaf[a \div PGSIZE]
                               /\ sp.leaf[a \div PGSIZE] \in Page
         /\ ~Users(sp, n, a) => Walkaddr(sp, a \div PGSIZE) = 0
<1>1. PICK v, leaf, guard : v = a \div PGSIZE /\ leaf = sp.leaf /\ guard = sp.guard
  OBVIOUS
<1>2. v \in Nat
  BY <1>1, PageNat
<1>3. /\ n \in 0..MaxPages /\ \A x \in 0..n - 1 : leaf[x] \in Page
      /\ \A x \in n..MaxPages - 1 : leaf[x] = 0
      /\ guard \subseteq 0..n - 1
  BY <1>1 DEF Shape, Built
<1>4. /\ MaxPages \in Nat /\ Vpn = 0..MaxPages + 1 /\ TrapFrame = MaxPages
      /\ Trampoline = MaxPages + 1
  BY Constants
<1>5. Users(sp, n, a) <=> v < n /\ v \notin guard
  <2>1. n \in Nat
    BY <1>3, <1>4
  <2> QED
    BY <1>1, <2>1, BelowPage DEF Users
<1>6. Walkaddr(sp, v) = IF v \in Vpn \ (guard \cup {TrapFrame, Trampoline}) THEN leaf[v] ELSE 0
  BY <1>1 DEF Walkaddr
<1>7. ASSUME v < n, v \notin guard PROVE Walkaddr(sp, v) = leaf[v] /\ leaf[v] \in Page
  BY <1>2, <1>3, <1>4, <1>6, <1>7
<1>8. ASSUME ~(v < n /\ v \notin guard) PROVE Walkaddr(sp, v) = 0
  BY <1>2, <1>3, <1>4, <1>6, <1>8
<1> QED
  BY <1>1, <1>5, <1>7, <1>8

\* Addresses up to the end of the page of a are in it.
LEMMA InPage ==
  ASSUME NEW a \in Nat, NEW k \in 1..PGSIZE - (a % PGSIZE)
  PROVE  /\ a + k - 1 \in Nat
         /\ (a + k - 1) \div PGSIZE = a \div PGSIZE
         /\ (a + k - 1) % PGSIZE = (a % PGSIZE) + k - 1
<1>1. PGSIZE \in Nat \ {0} /\ a \in Int
  BY MemoryAssumption
<1>2. PICK q, r : q = a \div PGSIZE /\ r = a % PGSIZE
  OBVIOUS
<1>3. r \in 0..PGSIZE - 1 /\ q \in Int /\ a = PGSIZE * q + r
  BY <1>1, <1>2, DivMod
<1>4. PICK t : t = r + k - 1
  OBVIOUS
<1>5. t \in 0..PGSIZE - 1 /\ a + k - 1 = PGSIZE * q + t /\ k >= 1 /\ k \in Int
  <2>1. k \in 1..PGSIZE - r
    BY <1>2
  <2>2. PICK z : z = PGSIZE * q
    OBVIOUS
  <2>3. z \in Int /\ a = z + r
    BY <1>1, <1>3, <2>2
  <2>4. t \in 0..PGSIZE - 1 /\ a + k - 1 = z + t /\ k >= 1 /\ k \in Int
    BY ONLY <1>1, <1>3, <1>4, <2>1, <2>3
  <2> QED
    BY <2>2, <2>4
<1>6. (PGSIZE * q + t) \div PGSIZE = q /\ (PGSIZE * q + t) % PGSIZE = t
  BY <1>1, <1>3, <1>5, DivIs
<1> QED
  BY <1>2, <1>4, <1>5, <1>6

\* What joining two sequences puts where.
Joined(S, b, f, c) ==
  /\ c \in Seq(S) /\ Len(c) = Len(b) + Len(f)
  /\ \A k \in 1..Len(b) : c[k] = b[k]
  /\ \A k \in 1..Len(f) : c[Len(b) + k] = f[k]

LEMMA JoinedIs ==
  ASSUME NEW S, NEW b \in Seq(S), NEW f \in Seq(S)
  PROVE  Joined(S, b, f, b \o f)
<1>1. b \o f \in Seq(S)
  OBVIOUS
<1>2. Len(b \o f) = Len(b) + Len(f)
  OBVIOUS
<1>3. Len(b) \in Nat /\ Len(f) \in Nat
  OBVIOUS
<1>4. ASSUME NEW k \in 1..Len(b) PROVE (b \o f)[k] = b[k]
  BY <1>3
<1>5. ASSUME NEW k \in 1..Len(f) PROVE (b \o f)[Len(b) + k] = f[k]
  BY <1>3
<1> QED
  BY <1>1, <1>2, <1>4, <1>5 DEF Joined

LEMMA IsSeq ==
  ASSUME NEW S, NEW n \in Nat, NEW f \in [1..n -> S]
  PROVE  f \in Seq(S) /\ Len(f) = n
  OBVIOUS

\* c is what copying len bytes from va has come to after m turns.
Cursors == [va : Nat, max : Nat, ok : BOOLEAN, bytes : Seq(Page \X Nat)]
Copying(sp, n, va, len, m, c) ==
  /\ c \in Cursors /\ c.va \in va..va + len /\ c.max = va + len - c.va
  /\ Len(c.bytes) = c.va - va
  /\ \A k \in 1..c.va - va : Users(sp, n, va + k - 1) /\ c.bytes[k] = Byte(sp, va + k - 1)
  /\ c.ok => c.va = va + len \/ c.va >= va + m
  /\ ~c.ok => c.va < va + len /\ ~Users(sp, n, c.va)

LEMMA CopyTurnIs ==
  ASSUME NEW sp \in Spaces, NEW n, Shape(sp, n), NEW va \in Nat, NEW len \in Nat,
         NEW stop \in Nat, stop >= va + len, NEW m \in Nat, NEW c,
         Copying(sp, n, va, len, m, c)
  PROVE  Copying(sp, n, va, len, m + 1, CopyTurn(sp, c, stop))
<1>1. /\ c \in Cursors /\ c.va \in va..va + len /\ c.max = va + len - c.va
      /\ Len(c.bytes) = c.va - va
      /\ \A k \in 1..c.va - va : Users(sp, n, va + k - 1) /\ c.bytes[k] = Byte(sp, va + k - 1)
      /\ c.ok => c.va = va + len \/ c.va >= va + m
      /\ ~c.ok => c.va < va + len /\ ~Users(sp, n, c.va)
  BY DEF Copying
<1>2. c.va \in Nat /\ c.max \in Nat /\ c.bytes \in Seq(Page \X Nat)
  BY <1>1 DEF Cursors
<1>3. PICK a, b, at, pg, x : /\ a = c.va /\ b = c.bytes /\ at = a % PGSIZE
                             /\ pg = Walkaddr(sp, a \div PGSIZE) /\ x = CopyTurn(sp, c, stop)
  OBVIOUS
<1>4. a \in va..va + len /\ c.max = va + len - a /\ a \in Nat /\ b \in Seq(Page \X Nat)
      /\ Len(b) = a - va
  BY <1>1, <1>2, <1>3
<1>5. PGSIZE \in Nat \ {0} /\ at \in 0..PGSIZE - 1
  BY <1>3, <1>4, PageNat, MemoryAssumption
<1>6. CASE ~c.ok \/ a = va + len
  <2>1. ~c.ok \/ c.max = 0
    BY <1>4, <1>6
  <2>2. x = c
    BY <1>3, <2>1 DEF CopyTurn
  <2>3. c.ok => c.va = va + len \/ c.va >= va + (m + 1)
    BY <1>3, <1>6
  <2>4. Copying(sp, n, va, len, m + 1, c)
    BY <1>1, <2>3 DEF Copying
  <2> QED
    BY <1>3, <2>2, <2>4
<1>7. CASE c.ok /\ a # va + len /\ ~Users(sp, n, a)
  <2>1. pg = 0
    BY <1>3, <1>4, <1>7, WalkaddrIs
  <2>1a. ~(c.max = 0 \/ c.va >= stop)
    <3>1. PICK v, max : v = c.va /\ max = c.max
      OBVIOUS
    <3>2. v = a /\ max = va + len - a
      BY <1>3, <1>4, <3>1
    <3>3. a \in va..va + len /\ a # va + len
      BY <1>4, <1>7
    <3> QED
      BY <3>1, <3>2, <3>3
  <2>2. x = [c EXCEPT !.ok = FALSE]
    BY <1>3, <1>7, <2>1, <2>1a DEF CopyTurn
  <2>3. /\ x \in Cursors /\ x.va = c.va /\ x.max = c.max /\ x.bytes = c.bytes /\ x.ok = FALSE
    BY <1>1, <2>2 DEF Cursors
  <2>4. c.va < va + len /\ ~Users(sp, n, c.va)
    <3>1. a < va + len
      BY <1>4, <1>7
    <3> QED
      BY <1>3, <1>7, <3>1
  <2>5. Copying(sp, n, va, len, m + 1, x)
    BY <1>1, <2>3, <2>4 DEF Copying
  <2> QED
    BY <1>3, <2>5
<1>8. CASE c.ok /\ a # va + len /\ Users(sp, n, a)
  <2>1. pg \in Page /\ pg # 0 /\ pg = sp.leaf[a \div PGSIZE] /\ pg \in Int
    <3>1. pg \in Page /\ pg = sp.leaf[a \div PGSIZE]
      BY <1>3, <1>4, <1>8, WalkaddrIs
    <3>2. Page \subseteq Nat \ {0}
      BY MemoryAssumption
    <3> QED
      BY <3>1, <3>2
  <2>2. PICK z : z = IF va + len - a < PGSIZE - at THEN va + len - a ELSE PGSIZE - at
    OBVIOUS
  <2>3. z \in 1..PGSIZE - at /\ z \in 1..va + len - a /\ z \in Nat
    BY <1>4, <1>5, <1>8, <2>2
  <2>4. ~(~c.ok \/ c.max = 0 \/ c.va >= stop) /\ ~(stop - a < z)
    BY <1>3, <1>4, <1>8, <2>3
  <2>5. PICK f : f = [k \in 1..z |-> <<pg, at + k - 1>>]
    OBVIOUS
  <2>6. x = [c EXCEPT !.va = @ + z, !.max = @ - z, !.bytes = @ \o f]
    <3>1. z = IF c.max < PGSIZE - at THEN c.max ELSE PGSIZE - at
      BY <1>4, <2>2
    <3>2. z = IF stop - c.va < z THEN stop - c.va ELSE z
      BY <1>3, <2>4
    <3> QED
      BY <1>3, <2>1, <2>4, <2>5, <3>1, <3>2 DEF CopyTurn
  <2>7. f \in [1..z -> Page \X Nat]
    BY <1>5, <2>1, <2>3, <2>5
  <2>8. PICK g : g = b \o f
    OBVIOUS
  <2>9. /\ g \in Seq(Page \X Nat) /\ Len(g) = a - va + z
        /\ \A k \in 1..a - va : g[k] = b[k]
        /\ \A k \in 1..z : g[a - va + k] = f[k]
    <3>1. /\ g \in Seq(Page \X Nat) /\ Len(g) = Len(b) + z
          /\ \A k \in 1..Len(b) : g[k] = b[k]
          /\ \A k \in 1..z : g[Len(b) + k] = f[k]
      <4>1. f \in Seq(Page \X Nat) /\ Len(f) = z
        BY <2>3, <2>7, IsSeq
      <4>2. PICK S, h : S = Page \X Nat /\ h = f
        OBVIOUS
      <4>3. b \in Seq(S) /\ h \in Seq(S) /\ g = b \o h
        BY <1>4, <2>8, <4>1, <4>2
      <4>4. Joined(S, b, h, g)
        BY ONLY <4>3, JoinedIs
      <4> QED
        BY <4>1, <4>2, <4>4 DEF Joined
    <3>2. PICK l : l = Len(b)
      OBVIOUS
    <3>3. l = a - va
      BY <1>4, <3>2
    <3> QED
      BY <3>1, <3>2, <3>3
  <2>10. x.va = a + z /\ x.max = c.max - z /\ x.bytes = g /\ x.ok = TRUE /\ x \in Cursors
    <3>1. c.max - z \in Nat /\ a + z \in Nat
      BY <1>4, <2>3
    <3> QED
      BY <1>1, <1>3, <1>8, <2>6, <2>8, <2>9, <3>1 DEF Cursors
  <2>11. ASSUME NEW k \in 1..z
         PROVE  Users(sp, n, a + k - 1) /\ f[k] = Byte(sp, a + k - 1)
    <3>1. k \in 1..PGSIZE - at
      BY <1>5, <2>3
    <3>2. /\ a + k - 1 \in Nat /\ (a + k - 1) \div PGSIZE = a \div PGSIZE
          /\ (a + k - 1) % PGSIZE = at + k - 1
      <4>1. k \in 1..PGSIZE - (a % PGSIZE)
        BY <1>3, <3>1
      <4> QED
        BY <1>3, <1>4, <4>1, InPage
    <3>3. n \in Nat
      <4>1. n \in 0..MaxPages /\ MaxPages \in Nat
        BY Constants DEF Shape, Built
      <4> QED
        BY <4>1
    <3>4. Users(sp, n, a + k - 1)
      BY <1>4, <1>8, <3>2, <3>3, BelowPage DEF Users
    <3>5. Byte(sp, a + k - 1) = <<pg, at + k - 1>>
      BY <2>1, <3>2 DEF Byte
    <3> QED
      BY <2>5, <3>4, <3>5
  <2>12. ASSUME NEW k \in 1..x.va - va
         PROVE  Users(sp, n, va + k - 1) /\ g[k] = Byte(sp, va + k - 1)
    <3>1. CASE k <= a - va
      <4>1. k \in 1..a - va
        BY <1>4, <2>12, <3>1
      <4> QED
        BY <1>1, <1>3, <2>9, <4>1
    <3>2. CASE ~(k <= a - va)
      <4>1. PICK j : j = k - (a - va)
        OBVIOUS
      <4>2. j \in 1..z /\ k = a - va + j /\ a + j - 1 = va + k - 1
        BY <1>4, <2>3, <2>10, <2>12, <3>2, <4>1
      <4> QED
        BY <2>9, <2>11, <4>2
    <3> QED
      BY <3>1, <3>2
  <2>13. /\ x.va \in va..va + len /\ x.max = va + len - x.va /\ Len(x.bytes) = x.va - va
         /\ x.va = va + len \/ x.va >= va + (m + 1)
    <3>1. Len(x.bytes) = a - va + z /\ x.va = a + z /\ x.max = va + len - a - z
      <4>1. Len(x.bytes) = a - va + z
        BY <2>9, <2>10
      <4>2. PICK max, left : max = c.max /\ left = x.max
        OBVIOUS
      <4>3. left = max - z /\ max = va + len - a /\ x.va = a + z
        BY <1>4, <2>10, <4>2
      <4>4. left = va + len - a - z
        BY <1>4, <2>3, <4>3
      <4> QED
        BY <4>1, <4>2, <4>3, <4>4
    <3>2. a \in va..va + len /\ a \in Nat /\ z \in 1..va + len - a
      BY <1>4, <2>3
    <3>3. a >= va + m
      BY <1>1, <1>3, <1>8
    <3>4. PICK v, l, max : v = x.va /\ l = Len(x.bytes) /\ max = x.max
      OBVIOUS
    <3>5. /\ v \in va..va + len /\ max = va + len - v /\ l = v - va
          /\ v >= va + (m + 1)
      BY <3>1, <3>2, <3>3, <3>4
    <3> QED
      BY <3>4, <3>5
  <2>14. Copying(sp, n, va, len, m + 1, x)
    BY <2>10, <2>12, <2>13 DEF Copying
  <2> QED
    BY <1>3, <2>14
<1> QED
  BY <1>6, <1>7, <1>8

\* A copy stops at the first byte the user may not touch.
CopiedTo(sp, n, va, len, c) ==
  /\ c.ok \in BOOLEAN
  /\ c.ok <=> \A a \in va..va + len - 1 : Users(sp, n, a)
  /\ c.ok => Len(c.bytes) = len /\ c.va = va + len
  /\ c.va <= va + len /\ DOMAIN c.bytes = 1..Len(c.bytes)
  /\ \A k \in DOMAIN c.bytes : Users(sp, n, va + k - 1) /\ c.bytes[k] = Byte(sp, va + k - 1)
  /\ ~c.ok => ~Users(sp, n, va + Len(c.bytes))

LEMMA CopyingEnds ==
  ASSUME NEW sp, NEW n, NEW va \in Nat, NEW len \in Nat, NEW c, Copying(sp, n, va, len, len, c)
  PROVE  CopiedTo(sp, n, va, len, c)
<1>1. PICK d, b : d = c.va - va /\ b = c.bytes
  OBVIOUS
<1>2. /\ c \in Cursors /\ c.va \in va..va + len /\ Len(b) = d
      /\ \A k \in 1..d : Users(sp, n, va + k - 1) /\ b[k] = Byte(sp, va + k - 1)
      /\ c.ok => c.va = va + len \/ c.va >= va + len
      /\ ~c.ok => c.va < va + len /\ ~Users(sp, n, c.va)
  BY <1>1 DEF Copying
<1>3. d \in 0..len /\ c.va = va + d /\ c.ok \in BOOLEAN /\ b \in Seq(Page \X Nat)
  <2>1. PICK a : a = c.va
    OBVIOUS
  <2>2. a \in va..va + len /\ d = a - va
    BY <1>1, <1>2, <2>1
  <2>3. d \in 0..len /\ a = va + d
    BY <2>2
  <2>4. c.ok \in BOOLEAN /\ c.bytes \in Seq(Page \X Nat)
    BY <1>2 DEF Cursors
  <2> QED
    BY <1>1, <2>1, <2>3, <2>4
<1>4. DOMAIN b = 1..d
  BY <1>2, <1>3
<1>5. CASE c.ok
  <2>1. d = len
    BY <1>2, <1>3, <1>5
  <2>2. ASSUME NEW a \in va..va + len - 1 PROVE Users(sp, n, a)
    <3>1. PICK k : k = a - va + 1
      OBVIOUS
    <3>2. k \in 1..d /\ va + k - 1 = a
      BY <2>1, <2>2, <3>1
    <3> QED
      BY <1>2, <3>2
  <2>3. c.va = va + len /\ Len(b) = len /\ c.va <= va + len /\ DOMAIN b = 1..Len(b)
    BY <1>2, <1>3, <1>4, <2>1
  <2>4. \A k \in DOMAIN b : Users(sp, n, va + k - 1) /\ b[k] = Byte(sp, va + k - 1)
    BY <1>2, <1>4
  <2> QED
    BY <1>1, <1>3, <1>5, <2>2, <2>3, <2>4 DEF CopiedTo
<1>6. CASE ~c.ok
  <2>1. d < len /\ ~Users(sp, n, va + d)
    BY <1>2, <1>3, <1>6
  <2>2. va + d \in va..va + len - 1
    BY <1>3, <2>1
  <2>3. c.va <= va + len /\ DOMAIN b = 1..Len(b) /\ ~Users(sp, n, va + Len(b))
    BY <1>2, <1>3, <1>4, <2>1
  <2>4. \A k \in DOMAIN b : Users(sp, n, va + k - 1) /\ b[k] = Byte(sp, va + k - 1)
    BY <1>2, <1>4
  <2>5. ~\A a \in va..va + len - 1 : Users(sp, n, a)
    BY <2>1, <2>2
  <2> QED
    BY <1>1, <1>3, <1>6, <2>3, <2>4, <2>5 DEF CopiedTo
<1> QED
  BY <1>5, <1>6

\* copyin(), copyout() and copyinstr() as a loop.
LEMMA CopiedIs ==
  ASSUME NEW sp \in Spaces, NEW n, Shape(sp, n), NEW va \in Nat, NEW len \in Nat,
         NEW stop \in Nat, stop >= va + len
  PROVE  CopiedTo(sp, n, va, len, Copied(sp, va, len, stop))
<1> DEFINE S == Cursors
           P == [m \in 0..len |-> {y \in S : Copying(sp, n, va, len, m, y)}]
           step(y) == CopyTurn(sp, y, stop)
           d == [m \in 1..len |-> [y \in S |-> IF step(y) \in S THEN step(y) ELSE y]]
<1>1. PICK w : w = [va |-> va, max |-> len, ok |-> TRUE, bytes |-> <<>>]
  OBVIOUS
<1>2. w \in S /\ w \in P[0]
  <2>1. /\ w \in Cursors /\ w.va = va /\ w.max = len /\ w.ok = TRUE /\ Len(w.bytes) = 0
    BY <1>1 DEF Cursors
  <2>2. Copying(sp, n, va, len, 0, w)
    BY <2>1 DEF Copying
  <2> QED
    BY <2>1, <2>2
<1>3. ASSUME NEW m \in 1..len, NEW y \in P[m - 1]
      PROVE  step(y) \in P[m]
  <2>1. m \in 0..len /\ m - 1 \in 0..len /\ m - 1 \in Nat /\ (m - 1) + 1 = m
    OBVIOUS
  <2>2. Copying(sp, n, va, len, m - 1, y)
    BY <2>1
  <2>3. Copying(sp, n, va, len, m, step(y))
    BY <2>1, <2>2, CopyTurnIs
  <2>4. step(y) \in S
    BY <2>3 DEF Copying
  <2> QED
    BY <2>1, <2>3, <2>4
<1> HIDE DEF step
<1>4. PICK g \in [0..len -> S] : g[0] = w /\ \A m \in 1..len : g[m] = d[m][g[m - 1]]
  <2>1. d \in Transitions(S, len)
    BY DEF Transitions
  <2> HIDE DEF P, d, S
  <2>2. \E g : IsRun(g, S, w, len, d)
    BY <1>2, <2>1, Iteration
  <2> QED
    BY <2>2 DEF IsRun
<1> HIDE DEF S
<1>5. ASSUME NEW m \in 1..len, g[m - 1] \in P[m - 1]
      PROVE  g[m] = step(g[m - 1]) /\ g[m] \in P[m]
  <2>1. m \in 0..len /\ m - 1 \in 0..len /\ g[m - 1] \in S
    OBVIOUS
  <2>2. step(g[m - 1]) \in P[m]
    BY <1>3, <1>5
  <2>3. step(g[m - 1]) \in S
    BY <2>1, <2>2
  <2>4. g[m] = step(g[m - 1])
    BY <1>4, <2>1, <2>3
  <2> QED
    BY <2>2, <2>4
<1>6. \A m \in 0..len : g[m] \in P[m]
  <2>1. \A m \in 1..len : g[m - 1] \in P[m - 1] => g[m] \in P[m]
    BY <1>5
  <2> HIDE DEF P
  <2> QED
    BY <1>2, <1>4, <2>1, Steps
<1>7. \A m \in 1..len : g[m] = step(g[m - 1])
  <2>1. \A m \in 1..len : m - 1 \in 0..len
    OBVIOUS
  <2>2. \A m \in 1..len : g[m - 1] \in P[m - 1]
    BY <1>6, <2>1
  <2> HIDE DEF P, d
  <2> QED
    BY <1>5, <2>2
<1> HIDE DEF P, d
<1>8. \E f : f = [m \in 0..len |-> IF m = 0 THEN w ELSE step(f[m - 1])]
  <2>1. g = [m \in 0..len |-> IF m = 0 THEN w ELSE step(g[m - 1])]
    BY <1>4, <1>7
  <2> QED
    BY <2>1
<1> DEFINE run[m \in 0..len] == IF m = 0 THEN w ELSE step(run[m - 1])
<1>9. run = [m \in 0..len |-> IF m = 0 THEN w ELSE step(run[m - 1])]
  BY <1>8
<1>10. Copied(sp, va, len, stop) = run[len]
  BY <1>1 DEF Copied, step
<1> HIDE DEF run
<1>11. run[0] = w /\ \A m \in 1..len : run[m] = step(run[m - 1])
  BY <1>9
<1>12. run[len] \in P[len]
  <2>1. \A m \in 1..len : run[m - 1] \in P[m - 1] => run[m] \in P[m]
    BY <1>3, <1>11
  <2>2. len \in 0..len
    OBVIOUS
  <2>3. \A m \in 0..len : run[m] \in P[m]
    BY <1>2, <1>11, <2>1, Steps
  <2> QED
    BY <2>2, <2>3
<1>13. Copying(sp, n, va, len, len, run[len])
  <2>1. P[len] = {y \in S : Copying(sp, n, va, len, len, y)}
    BY DEF P
  <2> QED
    BY <1>12, <2>1
<1> QED
  BY <1>10, <1>13, CopyingEnds

(*****************************************************************************)
(* The whole memory.                                                         *)
(*****************************************************************************)

\* A copy to or from p touches what the addresses stand for.
LEMMA CopiesAreExact ==
  ASSUME MemInv, NEW p \in Slot, Alive(p)
  PROVE  CopiesExact(p)
<1>1. PICK sp, n, len : sp = space[p] /\ n = Up(sp.sz) /\ len = PGSIZE + 1
  OBVIOUS
<1>2. sp \in Spaces /\ Shape(sp, n) /\ sp.sz \in Nat
  BY <1>1, AliveIs DEF Spaces
<1>3. PGSIZE \in Nat \ {0} /\ len \in Nat \ {0} /\ n \in Nat
  <2>1. PGSIZE \in Nat \ {0}
    BY MemoryAssumption
  <2>2. n \in Nat
    BY <1>1, <1>2, UpIs
  <2> QED
    BY <1>1, <2>1, <2>2
<1> DEFINE users(a) == a < n * PGSIZE /\ a \div PGSIZE \notin sp.guard
           place(a) == <<sp.leaf[a \div PGSIZE], a % PGSIZE>>
           all(va) == \A a \in va..va + len - 1 : users(a)
           ExactCopy(va, c) ==
             /\ c.ok = all(va) /\ all(va) => Len(c.bytes) = len
             /\ \A k \in DOMAIN c.bytes : /\ users(va + k - 1)
                                           /\ c.bytes[k] = place(va + k - 1)
             /\ ~all(va) => ~users(va + Len(c.bytes))
<1>4. ASSUME NEW va \in Nat
      PROVE  /\ ExactCopy(va, Copyin(sp, va, len))
             /\ Copyinstr(sp, va, len, va + len - 1).ok = all(va)
             /\ ~Copyinstr(sp, va, len, va + len).ok
             /\ Fetchaddr(sp, va, len) = (all(va) /\ va + len <= sp.sz)
  <2>1. PICK c, e : c = Copied(sp, va, len, va + len) /\ e = Copied(sp, va, len, va + len + 1)
    OBVIOUS
  <2>2. /\ va + len \in Nat /\ va + len >= va + len
        /\ va + len + 1 \in Nat /\ va + len + 1 >= va + len
    BY <1>3
  <2>3. CopiedTo(sp, n, va, len, c) /\ CopiedTo(sp, n, va, len, e)
    BY <1>2, <1>3, <2>1, <2>2, CopiedIs
  <2>4. \A a : Users(sp, n, a) = users(a) /\ Byte(sp, a) = place(a)
    BY DEF Users, Byte
  <2> HIDE DEF users, place
  <2>5. c.ok \in BOOLEAN /\ c.ok = all(va)
    <3>1. c.ok \in BOOLEAN /\ (c.ok <=> \A a \in va..va + len - 1 : Users(sp, n, a))
      BY <2>3 DEF CopiedTo
    <3>2. c.ok <=> all(va)
      BY <2>4, <3>1
    <3>3. CASE c.ok = TRUE
      BY <3>2, <3>3
    <3>4. CASE c.ok = FALSE
      BY <3>2, <3>4
    <3> QED
      BY <3>1, <3>3, <3>4
  <2>6. Copyin(sp, va, len) = c
    BY <2>1 DEF Copyin
  <2>7. ExactCopy(va, c)
    BY <2>3, <2>4, <2>5 DEF CopiedTo
  <2>8. Copyinstr(sp, va, len, va + len - 1).ok = (c.ok /\ c.va = va + len)
    <3>1. va + len - 1 + 1 = va + len
      BY <1>3
    <3> QED
      BY <2>1, <3>1 DEF Copyinstr
  <2>9. c.ok => c.va = va + len
    BY <2>3 DEF CopiedTo
  <2>10. Copyinstr(sp, va, len, va + len).ok = (e.ok /\ e.va = va + len + 1)
    BY <2>1 DEF Copyinstr
  <2>11. e.va # va + len + 1
    BY <2>2, <2>3 DEF CopiedTo
  <2>12. Fetchaddr(sp, va, len) = (va < sp.sz /\ va + len <= sp.sz /\ c.ok)
    BY <2>6 DEF Fetchaddr
  <2>13. va + len <= sp.sz => va < sp.sz
    BY <1>2, <1>3
  <2> QED
    BY <2>5, <2>6, <2>7, <2>8, <2>9, <2>10, <2>11, <2>12, <2>13
<1>5. \A va \in 0..(n + 1) * PGSIZE - 1 : va \in Nat
  OBVIOUS
<1> QED
  BY <1>1, <1>4, <1>5 DEF CopiesExact

\* What the run checks: no page is lost, no address space torn, and the
\* kernel's copies respect them, for any pages, sizes and programs.
THEOREM MemoryStaysConsistent == MemSpec => []MemoryConsistent
<1>1. MemInv => \A p \in Slot : Alive(p) => CopiesExact(p)
  BY CopiesAreExact
<1>2. PagesAccounted /\ ImagesMapped /\ (\A p \in Slot : Alive(p) => CopiesExact(p))
        => MemoryConsistent
  BY DEF MemoryConsistent
<1> QED
  BY <1>1, <1>2, MemInvHolds, ImagesAreMapped, PagesAreAccounted, PTL

================================================================================
