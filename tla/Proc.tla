---------------------------------- MODULE Proc ----------------------------------
(***************************************************************************)
(* The process table of kernel/proc.c: fork, exit, wait, kill, sleep,      *)
(* wakeup, yield and the scheduler, at the grain of its spin locks.        *)
(*                                                                         *)
(* One action is what a CPU does from taking a lock up to the next lock it *)
(* takes.  Locks that stay held between two actions are variables: p->lock *)
(* across the switch to the scheduler, wait_lock across the loops of       *)
(* exit() and wait().  A CPU that holds a lock has its interrupts off, so  *)
(* a process is preempted only at a point where it holds none.             *)
(***************************************************************************)
EXTENDS Naturals

CONSTANTS
  CPU,    \* the harts
  NPROC,  \* param.h: slots of the process table
  None    \* no parent, no process, nobody holds the lock

ASSUME ConstAssumption ==
  /\ NPROC \in Nat \ {0}
  /\ CPU # {}
  /\ None \notin CPU \cup Nat

Slot == 0 .. NPROC - 1

(* userinit takes the first slot. *)
initproc == 0

VARIABLES
  state,   \* p->state
  parent,  \* p->parent
  chan,    \* p->chan: only wait() sleeps here, on the address of its own slot
  killed,  \* p->killed
  plock,   \* p->lock, where it stays held between two actions
  wlock,   \* wait_lock
  on,      \* c->proc, up to the release after the switch back to the scheduler
  pc,      \* where each process is
  child,   \* np of a fork in progress
  i        \* the slot a loop of wait() or wakeup() has reached, 0 outside them

vars == <<state, parent, chan, killed, plock, wlock, on, pc, child, i>>

Children(p) == {q \in Slot : parent[q] = p}

(* p runs on c; between a change of p->state and the release of p->lock in  *)
(* the scheduler it is still on c, but no longer runs.                      *)
Executes(c, p) == on[c] = p /\ state[p] = "RUNNING"

Goto(p, label) == pc' = [pc EXCEPT ![p] = label]

(* The places where a process holds no lock, so that interrupts are on. *)
Unlocked == {"user", "fork_parent", "fork_runnable", "exit", "wait"}

--------------------------------------------------------------------------------
(* main() has run userinit(). *)
Init ==
  /\ state = [p \in Slot |-> IF p = initproc THEN "RUNNABLE" ELSE "UNUSED"]
  /\ parent = [p \in Slot |-> None]
  /\ chan = [p \in Slot |-> None]
  /\ killed = [p \in Slot |-> FALSE]
  /\ plock = [p \in Slot |-> None]
  /\ wlock = None
  /\ on = [c \in CPU |-> None]
  /\ pc = [p \in Slot |-> "user"]
  /\ child = [p \in Slot |-> None]
  /\ i = [p \in Slot |-> 0]

--------------------------------------------------------------------------------
(* scheduler(), one slot that turns out to be runnable, up to the release   *)
(* of p->lock in forkret(), yield() or sleep().                             *)
Dispatch(c, p) ==
  /\ on[c] = None
  /\ plock[p] = None
  /\ state[p] = "RUNNABLE"
  /\ state' = [state EXCEPT ![p] = "RUNNING"]
  /\ on' = [on EXCEPT ![c] = p]
  /\ chan' = [chan EXCEPT ![p] = None]
  /\ UNCHANGED <<parent, killed, plock, wlock, pc, child, i>>

(* The process has switched to the scheduler, which lets go of its lock. *)
SwitchedOut(c, p) ==
  /\ on[c] = p
  /\ state[p] # "RUNNING"
  /\ on' = [on EXCEPT ![c] = None]
  /\ plock' = [plock EXCEPT ![p] = None]
  /\ UNCHANGED <<state, parent, chan, killed, wlock, pc, child, i>>

(* A timer interrupt: yield().  On the way there from user mode usertrap()  *)
(* makes a killed process exit.                                             *)
Yield(c, p) ==
  /\ Executes(c, p)
  /\ pc[p] \in Unlocked
  /\ pc[p] = "user" => ~killed[p]
  /\ plock[p] = None
  /\ plock' = [plock EXCEPT ![p] = c]
  /\ state' = [state EXCEPT ![p] = "RUNNABLE"]
  /\ UNCHANGED <<parent, chan, killed, wlock, on, pc, child, i>>

(* usertrap() starts a system call of a process that is not killed. *)
Syscall(c, p) == Executes(c, p) /\ pc[p] = "user" /\ ~killed[p]

--------------------------------------------------------------------------------
(* fork() *)

(* allocproc() and the copying, under np->lock.  The search for a free slot *)
(* is not atomic, slots may be freed behind it: it may find any of them.    *)
Fork(c, p, np) ==
  /\ Syscall(c, p)
  /\ plock[np] = None
  /\ state[np] = "UNUSED"
  /\ state' = [state EXCEPT ![np] = "USED"]
  /\ child' = [child EXCEPT ![p] = np]
  /\ Goto(p, "fork_parent")
  /\ UNCHANGED <<parent, chan, killed, plock, wlock, on, i>>

(* No memory for the trap frame, the page table or the copy: freeproc(np). *)
ForkFails(c, p, np) ==
  /\ Syscall(c, p)
  /\ plock[np] = None
  /\ state[np] = "UNUSED"
  /\ killed' = [killed EXCEPT ![np] = FALSE]
  /\ UNCHANGED <<state, parent, chan, plock, wlock, on, pc, child, i>>

ForkParent(c, p) ==
  /\ Executes(c, p)
  /\ pc[p] = "fork_parent"
  /\ wlock = None
  /\ parent' = [parent EXCEPT ![child[p]] = p]
  /\ Goto(p, "fork_runnable")
  /\ UNCHANGED <<state, chan, killed, plock, wlock, on, child, i>>

ForkRunnable(c, p) ==
  /\ Executes(c, p)
  /\ pc[p] = "fork_runnable"
  /\ plock[child[p]] = None
  /\ state' = [state EXCEPT ![child[p]] = "RUNNABLE"]
  /\ pc' = [pc EXCEPT ![child[p]] = "user", ![p] = "user"]
  /\ child' = [child EXCEPT ![p] = None]
  /\ UNCHANGED <<parent, chan, killed, plock, wlock, on, i>>

--------------------------------------------------------------------------------
(* exit() *)

(* By itself, or in usertrap() because it is killed.  Up to acquire of      *)
(* wait_lock it closes its files.  init never exits: that would be a panic. *)
Exit(c, p) ==
  /\ Executes(c, p)
  /\ pc[p] = "user"
  /\ p # initproc
  /\ Goto(p, "exit")
  /\ UNCHANGED <<state, parent, chan, killed, plock, wlock, on, child, i>>

ExitLock(c, p) ==
  /\ Executes(c, p)
  /\ pc[p] = "exit"
  /\ wlock = None
  /\ wlock' = c
  /\ Goto(p, "reparent")
  /\ UNCHANGED <<state, parent, chan, killed, plock, on, child, i>>

(* Slip: init is not woken for the children it gets. *)
ReparentSilently(c, p) ==
  /\ Executes(c, p)
  /\ pc[p] = "reparent"
  /\ \E q \in Children(p) : parent' = [parent EXCEPT ![q] = initproc]
  /\ UNCHANGED <<state, chan, killed, plock, wlock, on, pc, child, i>>

(* reparent(), one child; wakeup(initproc) follows. *)
Reparent(c, p) ==
  /\ Executes(c, p)
  /\ pc[p] = "reparent"
  /\ \E q \in Children(p) : parent' = [parent EXCEPT ![q] = initproc]
  /\ Goto(p, "wake_init")
  /\ UNCHANGED <<state, chan, killed, plock, wlock, on, child, i>>

(* Slip: exit() forgets some of the children. *)
ReparentSome(c, p) ==
  /\ Executes(c, p)
  /\ pc[p] = "reparent"
  /\ Goto(p, "wake_parent")
  /\ UNCHANGED <<state, parent, chan, killed, plock, wlock, on, child, i>>

ReparentDone(c, p) ==
  /\ Executes(c, p)
  /\ pc[p] = "reparent"
  /\ Children(p) = {}
  /\ Goto(p, "wake_parent")
  /\ UNCHANGED <<state, parent, chan, killed, plock, wlock, on, child, i>>

(* wakeup(ch), one slot; its loop ends where the process goes on to `next`. *)
Wakeup(p, ch, next) ==
  \/ /\ i[p] \in Slot
     /\ i[p] # p => plock[i[p]] = None
     /\ state' = IF i[p] # p /\ state[i[p]] = "SLEEPING" /\ chan[i[p]] = ch
                 THEN [state EXCEPT ![i[p]] = "RUNNABLE"]
                 ELSE state
     /\ i' = [i EXCEPT ![p] = @ + 1]
     /\ UNCHANGED pc
  \/ /\ i[p] = NPROC
     /\ i' = [i EXCEPT ![p] = 0]
     /\ Goto(p, next)
     /\ UNCHANGED state

WakeInit(c, p) ==
  /\ Executes(c, p)
  /\ pc[p] = "wake_init"
  /\ Wakeup(p, initproc, "reparent")
  /\ UNCHANGED <<parent, chan, killed, plock, wlock, on, child>>

(* Slip: exit() wakes its own channel. *)
WakeSelf(c, p) ==
  /\ Executes(c, p)
  /\ pc[p] = "wake_parent"
  /\ Wakeup(p, p, "zombie")
  /\ UNCHANGED <<parent, chan, killed, plock, wlock, on, child>>

WakeParent(c, p) ==
  /\ Executes(c, p)
  /\ pc[p] = "wake_parent"
  /\ Wakeup(p, parent[p], "zombie")
  /\ UNCHANGED <<parent, chan, killed, plock, wlock, on, child>>

(* Slip: exit() drops p->lock before it switches to the scheduler. *)
ZombieUnlocked(c, p) ==
  /\ Executes(c, p)
  /\ pc[p] = "zombie"
  /\ plock[p] = None
  /\ state' = [state EXCEPT ![p] = "ZOMBIE"]
  /\ wlock' = None
  /\ Goto(p, "dead")
  /\ UNCHANGED <<parent, chan, killed, plock, on, child, i>>

(* The state changes under both locks; p->lock is the scheduler's to drop. *)
Zombie(c, p) ==
  /\ Executes(c, p)
  /\ pc[p] = "zombie"
  /\ plock[p] = None
  /\ plock' = [plock EXCEPT ![p] = c]
  /\ state' = [state EXCEPT ![p] = "ZOMBIE"]
  /\ wlock' = None
  /\ Goto(p, "dead")
  /\ UNCHANGED <<parent, chan, killed, on, child, i>>

--------------------------------------------------------------------------------
(* wait() *)

Wait(c, p) ==
  /\ Syscall(c, p)
  /\ Goto(p, "wait")
  /\ UNCHANGED <<state, parent, chan, killed, plock, wlock, on, child, i>>

(* Also the end of sleep(), which takes wait_lock back. *)
WaitLock(c, p) ==
  /\ Executes(c, p)
  /\ pc[p] = "wait"
  /\ wlock = None
  /\ wlock' = c
  /\ Goto(p, "scan")
  /\ UNCHANGED <<state, parent, chan, killed, plock, on, child, i>>

(* Slip: "<=" for "<" in the loop over the table. *)
ScanPastTheEnd(c, p) ==
  /\ Executes(c, p)
  /\ pc[p] = "scan"
  /\ i[p] <= NPROC
  /\ i[p] \in Children(p) => plock[i[p]] = None /\ state[i[p]] # "ZOMBIE"
  /\ i' = [i EXCEPT ![p] = @ + 1]
  /\ UNCHANGED <<state, parent, chan, killed, plock, wlock, on, pc, child>>

(* One slot that is no child, or a child that has not exited. *)
ScanOn(c, p) ==
  /\ Executes(c, p)
  /\ pc[p] = "scan"
  /\ i[p] \in Slot
  /\ i[p] \in Children(p) => plock[i[p]] = None /\ state[i[p]] # "ZOMBIE"
  /\ i' = [i EXCEPT ![p] = @ + 1]
  /\ UNCHANGED <<state, parent, chan, killed, plock, wlock, on, pc, child>>

(* Slip: wait() takes any child for an exited one. *)
ReapAny(c, p) ==
  /\ Executes(c, p)
  /\ pc[p] = "scan"
  /\ i[p] \in Children(p)
  /\ plock[i[p]] = None
  /\ state' = [state EXCEPT ![i[p]] = "UNUSED"]
  /\ parent' = [parent EXCEPT ![i[p]] = None]
  /\ chan' = [chan EXCEPT ![i[p]] = None]
  /\ killed' = [killed EXCEPT ![i[p]] = FALSE]
  /\ wlock' = None
  /\ i' = [i EXCEPT ![p] = 0]
  /\ pc' = [pc EXCEPT ![p] = "user", ![i[p]] = "user"]
  /\ UNCHANGED <<plock, on, child>>

(* A child that has exited: copy its status out, freeproc(). *)
Reap(c, p) ==
  /\ Executes(c, p)
  /\ pc[p] = "scan"
  /\ i[p] \in Children(p)
  /\ plock[i[p]] = None
  /\ state[i[p]] = "ZOMBIE"
  /\ state' = [state EXCEPT ![i[p]] = "UNUSED"]
  /\ parent' = [parent EXCEPT ![i[p]] = None]
  /\ chan' = [chan EXCEPT ![i[p]] = None]
  /\ killed' = [killed EXCEPT ![i[p]] = FALSE]
  /\ wlock' = None
  /\ i' = [i EXCEPT ![p] = 0]
  /\ pc' = [pc EXCEPT ![p] = "user", ![i[p]] = "user"]
  /\ UNCHANGED <<plock, on, child>>

(* The address for the status is bad: wait() fails, the zombie stays. *)
ReapFails(c, p) ==
  /\ Executes(c, p)
  /\ pc[p] = "scan"
  /\ i[p] \in Children(p)
  /\ plock[i[p]] = None
  /\ state[i[p]] = "ZOMBIE"
  /\ wlock' = None
  /\ i' = [i EXCEPT ![p] = 0]
  /\ Goto(p, "user")
  /\ UNCHANGED <<state, parent, chan, killed, plock, on, child>>

(* Slip: wait_lock is released before sleep() holds p->lock. *)
ScanDoneUnlocks(c, p) ==
  /\ Executes(c, p)
  /\ pc[p] = "scan"
  /\ i[p] = NPROC
  /\ plock[p] = None
  /\ Goto(p, IF Children(p) = {} \/ killed[p] THEN "user" ELSE "sleep")
  /\ wlock' = None
  /\ i' = [i EXCEPT ![p] = 0]
  /\ UNCHANGED <<state, parent, chan, killed, plock, on, child>>

(* No children, or killed: wait() returns -1.  Otherwise go to sleep.       *)
ScanDone(c, p) ==
  /\ Executes(c, p)
  /\ pc[p] = "scan"
  /\ i[p] = NPROC
  /\ plock[p] = None
  /\ IF Children(p) = {} \/ killed[p]
     THEN wlock' = None /\ Goto(p, "user")
     ELSE wlock' = wlock /\ Goto(p, "sleep")
  /\ i' = [i EXCEPT ![p] = 0]
  /\ UNCHANGED <<state, parent, chan, killed, plock, on, child>>

(* sleep(p, &wait_lock), up to the switch to the scheduler. *)
Sleep(c, p) ==
  /\ Executes(c, p)
  /\ pc[p] = "sleep"
  /\ plock[p] = None
  /\ plock' = [plock EXCEPT ![p] = c]
  /\ wlock' = None
  /\ chan' = [chan EXCEPT ![p] = p]
  /\ state' = [state EXCEPT ![p] = "SLEEPING"]
  /\ Goto(p, "wait")
  /\ UNCHANGED <<parent, killed, on, child, i>>

--------------------------------------------------------------------------------
(* Slip: kill() leaves a sleeping process asleep. *)
KillSleeper(c, p, s) ==
  /\ Syscall(c, p)
  /\ s # initproc
  /\ plock[s] = None
  /\ killed' = [killed EXCEPT ![s] = TRUE]
  /\ UNCHANGED <<state, parent, chan, plock, wlock, on, pc, child, i>>

(* kill(pid): its loop comes to the slot s, which has that pid; an unused   *)
(* slot has pid 0.  A fault in user mode is a kill of oneself.  Nobody      *)
(* kills init: its exit would be a panic.                                   *)
Kill(c, p, s) ==
  /\ Syscall(c, p)
  /\ s # initproc
  /\ plock[s] = None
  /\ killed' = [killed EXCEPT ![s] = TRUE]
  /\ state' = IF state[s] = "SLEEPING" THEN [state EXCEPT ![s] = "RUNNABLE"] ELSE state
  /\ UNCHANGED <<parent, chan, plock, wlock, on, pc, child, i>>

--------------------------------------------------------------------------------
(* What a system call does once it has started. *)
Step(c, p) ==
  \/ ForkParent(c, p) \/ ForkRunnable(c, p)
  \/ ExitLock(c, p) \/ Reparent(c, p) \/ ReparentDone(c, p)
  \/ WakeInit(c, p) \/ WakeParent(c, p) \/ Zombie(c, p)
  \/ WaitLock(c, p) \/ ScanOn(c, p) \/ Reap(c, p) \/ ReapFails(c, p)
  \/ ScanDone(c, p) \/ Sleep(c, p)

Next ==
  \E c \in CPU, p \in Slot :
    \/ Dispatch(c, p) \/ SwitchedOut(c, p) \/ Yield(c, p)
    \/ Exit(c, p) \/ Wait(c, p) \/ Step(c, p)
    \/ \E q \in Slot : Fork(c, p, q) \/ ForkFails(c, p, q) \/ Kill(c, p, q)

Spec == Init /\ [][Next]_vars

(* The scheduler goes round the table, so it comes to every slot again; the *)
(* timer interrupts every process in user mode or at a point where it holds *)
(* no lock, and a time slice is enough for a step of a system call: hence   *)
(* strong fairness, because a process may be taken off the CPU in between.  *)
(* A process need not make any system call, nor exit unless it is killed.   *)
Fairness ==
  /\ \A c \in CPU, p \in Slot : WF_vars(SwitchedOut(c, p))
  /\ \A p \in Slot :
       /\ SF_vars(\E c \in CPU : Dispatch(c, p))
       /\ SF_vars(\E c \in CPU : Yield(c, p))
       /\ SF_vars(\E c \in CPU : Step(c, p))
       /\ WF_vars(\E c \in CPU : killed[p] /\ Exit(c, p))

FairSpec == Spec /\ Fairness

--------------------------------------------------------------------------------
(* Properties. *)

States == {"UNUSED", "USED", "SLEEPING", "RUNNABLE", "RUNNING", "ZOMBIE"}
Waiting == {"wait", "scan", "sleep"}
Labels == Waiting \cup {"user", "fork_parent", "fork_runnable", "exit", "reparent",
                        "wake_init", "wake_parent", "zombie", "dead"}

(* Every variable has its type. *)
TypeOK ==
  /\ state \in [Slot -> States]
  /\ parent \in [Slot -> Slot \cup {None}]
  /\ chan \in [Slot -> Slot \cup {None}]
  /\ killed \in [Slot -> BOOLEAN]
  /\ plock \in [Slot -> CPU \cup {None}]
  /\ wlock \in CPU \cup {None}
  /\ on \in [CPU -> Slot \cup {None}]
  /\ pc \in [Slot -> Labels]
  /\ child \in [Slot -> Slot \cup {None}]
  /\ i \in [Slot -> 0 .. NPROC]

(* No two CPUs are on the kernel stack of one process, and no slot is freed *)
(* or given to another process while a CPU is still on its stack: "make     *)
(* sure the child isn't still in exit() or swtch()" (proc.c:404).           *)
StackInUse ==
  /\ \A c, d \in CPU : on[c] # None /\ on[c] = on[d] => c = d
  /\ \A c \in CPU : on[c] # None => state[on[c]] \notin {"UNUSED", "USED"}

(* Every process has a parent that has not exited and can wait for it, also *)
(* while the parent is exiting and hands over its children.                 *)
Alive == {p \in Slot : state[p] \in {"RUNNABLE", "RUNNING", "SLEEPING"}}

ParentLives ==
  \A p \in Slot \ {initproc} :
    p \in Alive \/ state[p] = "ZOMBIE" => parent[p] \in Alive

(* A process asleep in wait() has no exited child: the exit woke it, also   *)
(* if the child became its child only by being handed to init.              *)
NoLostWakeup ==
  wlock = None =>
    \A p, q \in Slot : state[p] = "SLEEPING" /\ parent[q] = p => state[q] # "ZOMBIE"

(* With one CPU, as param.h has it, a killed process never sleeps: kill     *)
(* cannot come between the last look at p->killed and the sleep.            *)
KilledIsAwake ==
  (\A c, d \in CPU : c = d) => \A p \in Slot : killed[p] => state[p] # "SLEEPING"

(* fork, exit and wait are atomic operations on the tree of processes: the  *)
(* exit takes effect when the process takes wait_lock, although the state   *)
(* changes only after all children are handed over.                         *)
Exited == {p \in Slot : pc[p] \in {"reparent", "wake_init", "wake_parent", "zombie"}
                        \/ state[p] = "ZOMBIE"}

Tree == INSTANCE ProcTree WITH
          living <- {p \in Slot : /\ state[p] # "UNUSED"
                                  /\ p \notin Exited
                                  /\ state[p] = "USED" => parent[p] # None},
          exited <- Exited,
          parent <- [p \in Slot |-> IF parent[p] \in Exited THEN initproc ELSE parent[p]]

ImplementsProcTree == Tree!Spec

(* A process that waits and has an exited child returns from wait().        *)
WaiterIsServed ==
  \A p \in Slot :
    pc[p] \in Waiting /\ (\E q \in Children(p) : state[q] = "ZOMBIE") ~> pc[p] = "user"

(* A killed process exits, wherever it is: in user mode, on its way into a  *)
(* sleep, asleep, or not yet born.                                          *)
KilledExits ==
  \A p \in Slot : killed[p] /\ state[p] # "UNUSED" ~> state[p] \in {"ZOMBIE", "UNUSED"}

(* Only a process somebody has named to kill() is killed ("Kill the process *)
(* with the given pid", proc.c:582): a process that fork() creates is not.  *)
BornAlive ==
  [][\A p \in Slot : state[p] = "UNUSED" /\ state'[p] = "USED" => ~killed'[p]]_vars

--------------------------------------------------------------------------------
(* The inductive invariant behind the safety properties.                    *)

(* The places where a process holds wait_lock. *)
Locked == {"reparent", "wake_init", "wake_parent", "zombie", "scan", "sleep"}

(* CPUs, locks and states: p->lock is held from a change of p->state to the *)
(* scheduler's release, wait_lock by the process that is at a Locked label. *)
RunInv ==
  /\ \A c, d \in CPU : on[c] # None /\ on[c] = on[d] => c = d
  /\ \A c \in CPU : on[c] # None =>
       \/ state[on[c]] = "RUNNING"
       \/ state[on[c]] \in {"RUNNABLE", "SLEEPING", "ZOMBIE"} /\ plock[on[c]] = c
  /\ \A p \in Slot : plock[p] # None => on[plock[p]] = p /\ state[p] # "RUNNING"
  /\ \A p \in Slot : pc[p] \in Locked => state[p] = "RUNNING" /\ wlock # None /\ on[wlock] = p
  /\ wlock # None => on[wlock] # None /\ pc[on[wlock]] \in Locked

(* The label of a process that does not run, and when loop counters count.  *)
LabelInv ==
  /\ \A p \in Slot : state[p] \in {"UNUSED", "USED"} => pc[p] = "user"
  /\ \A p \in Slot : state[p] = "ZOMBIE" <=> pc[p] = "dead"
  /\ \A p \in Slot : state[p] = "SLEEPING" => pc[p] = "wait" /\ chan[p] = p
  /\ \A p \in Slot : pc[p] \notin {"wake_init", "wake_parent", "scan"} => i[p] = 0
  /\ initproc \in Alive
  /\ pc[initproc] \notin {"exit", "reparent", "wake_init", "wake_parent", "zombie"}

(* The child of a fork in progress belongs to that fork alone.              *)
ForkInv ==
  /\ \A p \in Slot : child[p] # None <=> pc[p] \in {"fork_parent", "fork_runnable"}
  /\ \A p \in Slot : child[p] # None => state[child[p]] = "USED"
  /\ \A p, q \in Slot : child[p] # None /\ child[p] = child[q] => p = q
  /\ \A p \in Slot : pc[p] = "fork_parent" => parent[child[p]] = None
  /\ \A p \in Slot : pc[p] = "fork_runnable" => parent[child[p]] = p

(* The tree: an exiting process has no children once reparent() is through. *)
TreeInv ==
  /\ ParentLives
  /\ \A p \in Slot : state[p] = "UNUSED" => parent[p] = None
  /\ parent[initproc] = None
  /\ \A p \in Slot : parent[p] # None => parent[p] \in Alive /\ parent[p] # p
  /\ \A p \in Slot : pc[p] \in {"wake_parent", "zombie"} => Children(p) = {}

(* How far a scan or a wakeup has come, and what that says about sleepers.  *)
WakeInv ==
  /\ \A p \in Slot : pc[p] = "scan" =>
       \A q \in Children(p) : q < i[p] => state[q] # "ZOMBIE"
  /\ \A p \in Slot : pc[p] = "sleep" => \A q \in Children(p) : state[q] # "ZOMBIE"
  /\ \A p \in Slot : pc[p] = "wake_parent" /\ parent[p] < i[p] => state[parent[p]] # "SLEEPING"
  /\ \A p \in Slot : pc[p] = "zombie" => state[parent[p]] # "SLEEPING"
  /\ \A p, q \in Slot : state[p] = "SLEEPING" /\ parent[q] = p /\ state[q] = "ZOMBIE" =>
       p = initproc /\ \E x \in Slot : pc[x] = "wake_init" /\ i[x] <= initproc

(* With one CPU nobody kills a process that is on its way into a sleep.     *)
KilledInv ==
  (\A c, d \in CPU : c = d) =>
    \A p \in Slot : killed[p] => state[p] # "SLEEPING" /\ pc[p] # "sleep"

IInv == TypeOK /\ RunInv /\ LabelInv /\ ForkInv /\ TreeInv /\ WakeInv
===============================================================================
