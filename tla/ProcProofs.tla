------------------------------- MODULE ProcProofs -------------------------------
(***************************************************************************)
(* Proofs about the process table for any number of CPUs and slots: the    *)
(* inductive invariant IInv, the safety properties that follow from it,    *)
(* and the refinement of ProcTree.                                         *)
(***************************************************************************)
EXTENDS Proc, TLAPS

(* The slots as numbers, and the marker None apart from them.               *)
LEMMA SlotFacts ==
  /\ initproc \in Slot /\ initproc = 0
  /\ None \notin Slot /\ None \notin CPU
  /\ Slot \subseteq Nat
  /\ \A n \in 0 .. NPROC : n \in Slot <=> n # NPROC
  /\ \A n \in Slot : n < NPROC /\ n + 1 \in 0 .. NPROC
  /\ NPROC \in Nat /\ 0 \in 0 .. NPROC
  BY ConstAssumption DEF Slot, initproc

(* Where a loop over the slots stands against a given slot. *)
LEMMA LoopFacts ==
  \A m \in Slot, n \in 0 .. NPROC : ~(m < 0) /\ (m < n + 1 => m < n \/ m = n)
  BY SlotFacts DEF Slot

(* The child of a fork in progress. *)
LEMMA ChildFacts ==
  ASSUME IInv, NEW p \in Slot, pc[p] \in {"fork_parent", "fork_runnable"}
  PROVE  /\ child[p] \in Slot /\ child[p] # p
         /\ state[child[p]] = "USED" /\ pc[child[p]] = "user" /\ child[child[p]] = None
         /\ pc[p] = "fork_parent" => parent[child[p]] = None
         /\ pc[p] = "fork_runnable" => parent[child[p]] = p
<1>1. child[p] # None /\ child[p] \in Slot
  BY SlotFacts DEF IInv, TypeOK, ForkInv
<1>2. state[child[p]] = "USED"
  BY <1>1 DEF IInv, ForkInv
<1>3. pc[child[p]] = "user"
  BY <1>1, <1>2 DEF IInv, LabelInv
<1>4. child[child[p]] = None
  BY <1>1, <1>3 DEF IInv, ForkInv
<1> QED
  BY <1>1, <1>2, <1>3, <1>4 DEF IInv, ForkInv

(* Every step keeps the types. *)
LEMMA TypeStep ==
  ASSUME IInv, [Next]_vars
  PROVE  TypeOK'
<1> USE SlotFacts DEF IInv, TypeOK, States, Waiting, Labels
<1>1. ASSUME NEW c \in CPU, NEW p \in Slot, Dispatch(c, p) PROVE TypeOK'
  BY <1>1 DEF Dispatch
<1>2. ASSUME NEW c \in CPU, NEW p \in Slot, SwitchedOut(c, p) PROVE TypeOK'
  BY <1>2 DEF SwitchedOut
<1>3. ASSUME NEW c \in CPU, NEW p \in Slot, Yield(c, p) PROVE TypeOK'
  BY <1>3 DEF Yield, Executes
<1>4. ASSUME NEW c \in CPU, NEW p \in Slot, Exit(c, p) PROVE TypeOK'
  BY <1>4 DEF Exit, Goto, Executes
<1>5. ASSUME NEW c \in CPU, NEW p \in Slot, Wait(c, p) PROVE TypeOK'
  BY <1>5 DEF Wait, Goto, Syscall, Executes
<1>6. ASSUME NEW c \in CPU, NEW p \in Slot, ForkParent(c, p) PROVE TypeOK'
  BY <1>6 DEF ForkParent, Goto, Executes
<1>7. ASSUME NEW c \in CPU, NEW p \in Slot, ForkRunnable(c, p) PROVE TypeOK'
  BY <1>7 DEF ForkRunnable, Goto, Executes
<1>8. ASSUME NEW c \in CPU, NEW p \in Slot, ExitLock(c, p) PROVE TypeOK'
  BY <1>8 DEF ExitLock, Goto, Executes
<1>9. ASSUME NEW c \in CPU, NEW p \in Slot, Reparent(c, p) PROVE TypeOK'
  BY <1>9 DEF Reparent, Goto, Executes, Children
<1>10. ASSUME NEW c \in CPU, NEW p \in Slot, ReparentDone(c, p) PROVE TypeOK'
  BY <1>10 DEF ReparentDone, Goto, Executes
<1>11. ASSUME NEW c \in CPU, NEW p \in Slot, WakeInit(c, p) PROVE TypeOK'
  BY <1>11 DEF WakeInit, Goto, Executes, Wakeup
<1>12. ASSUME NEW c \in CPU, NEW p \in Slot, WakeParent(c, p) PROVE TypeOK'
  BY <1>12 DEF WakeParent, Goto, Executes, Wakeup
<1>13. ASSUME NEW c \in CPU, NEW p \in Slot, Zombie(c, p) PROVE TypeOK'
  BY <1>13 DEF Zombie, Goto, Executes
<1>14. ASSUME NEW c \in CPU, NEW p \in Slot, WaitLock(c, p) PROVE TypeOK'
  BY <1>14 DEF WaitLock, Goto, Executes
<1>15. ASSUME NEW c \in CPU, NEW p \in Slot, ScanOn(c, p) PROVE TypeOK'
  BY <1>15 DEF ScanOn, Goto, Executes
<1>16. ASSUME NEW c \in CPU, NEW p \in Slot, Reap(c, p) PROVE TypeOK'
  BY <1>16 DEF Reap, Goto, Executes
<1>17. ASSUME NEW c \in CPU, NEW p \in Slot, ReapFails(c, p) PROVE TypeOK'
  BY <1>17 DEF ReapFails, Goto, Executes
<1>18. ASSUME NEW c \in CPU, NEW p \in Slot, ScanDone(c, p) PROVE TypeOK'
  BY <1>18 DEF ScanDone, Goto, Executes
<1>19. ASSUME NEW c \in CPU, NEW p \in Slot, Sleep(c, p) PROVE TypeOK'
  BY <1>19 DEF Sleep, Goto, Executes
<1>20. ASSUME NEW c \in CPU, NEW p \in Slot, NEW q \in Slot, Fork(c, p, q) PROVE TypeOK'
  BY <1>20 DEF Fork, Goto, Syscall, Executes
<1>21. ASSUME NEW c \in CPU, NEW p \in Slot, NEW q \in Slot, ForkFails(c, p, q) PROVE TypeOK'
  BY <1>21 DEF ForkFails, Syscall, Executes
<1>22. ASSUME NEW c \in CPU, NEW p \in Slot, NEW q \in Slot, Kill(c, p, q) PROVE TypeOK'
  BY <1>22 DEF Kill, Syscall, Executes
<1>23. CASE UNCHANGED vars
  BY <1>23 DEF vars
<1> QED
  BY <1>1, <1>2, <1>3, <1>4, <1>5, <1>6, <1>7, <1>8, <1>9, <1>10, <1>11, <1>12,
     <1>13, <1>14, <1>15, <1>16, <1>17, <1>18, <1>19, <1>20, <1>21, <1>22, <1>23
  DEF Next, Step

(* A lock that stays held belongs to the CPU and the process it was taken on. *)
LEMMA RunStep ==
  ASSUME IInv, TypeOK', [Next]_vars
  PROVE  RunInv'
<1>a. ASSUME NEW p \in Slot, pc[p] \in {"fork_parent", "fork_runnable"}
      PROVE  child[p] \in Slot /\ child[p] # p /\ state[child[p]] = "USED" /\ pc[child[p]] = "user"
  BY <1>a, ChildFacts
<1> USE SlotFacts DEF IInv, TypeOK, RunInv, Locked, Unlocked
<1>1. ASSUME NEW c \in CPU, NEW p \in Slot, Dispatch(c, p) PROVE RunInv'
  BY <1>1 DEF Dispatch
<1>2. ASSUME NEW c \in CPU, NEW p \in Slot, SwitchedOut(c, p) PROVE RunInv'
  BY <1>2 DEF SwitchedOut
<1>3. ASSUME NEW c \in CPU, NEW p \in Slot, Yield(c, p) PROVE RunInv'
  BY <1>3 DEF Yield, Executes
<1>4. ASSUME NEW c \in CPU, NEW p \in Slot, Exit(c, p) PROVE RunInv'
  BY <1>4 DEF Exit, Goto, Executes
<1>5. ASSUME NEW c \in CPU, NEW p \in Slot, Wait(c, p) PROVE RunInv'
  BY <1>5 DEF Wait, Goto, Syscall, Executes
<1>6. ASSUME NEW c \in CPU, NEW p \in Slot, ForkParent(c, p) PROVE RunInv'
  BY <1>6 DEF ForkParent, Goto, Executes
<1>7. ASSUME NEW c \in CPU, NEW p \in Slot, ForkRunnable(c, p) PROVE RunInv'
  <2>1. PICK q \in Slot : /\ q = child[p] /\ q # p
                       /\ state[q] = "USED" /\ pc[q] = "user" /\ pc[p] = "fork_runnable"
    BY <1>7, <1>a DEF ForkRunnable
  <2>2. /\ state' = [state EXCEPT ![q] = "RUNNABLE"]
        /\ pc' = [pc EXCEPT ![q] = "user", ![p] = "user"]
        /\ UNCHANGED <<parent, chan, killed, plock, wlock, on, i>>
        /\ plock[q] = None /\ state[p] = "RUNNING" /\ on[c] = p
    BY <1>7, <2>1 DEF ForkRunnable, Executes
  <2>3. \A x \in Slot : x # q => state'[x] = state[x]
    BY <2>2
  <2>4. \A x \in Slot : pc'[x] \in Locked => pc[x] \in Locked /\ x # q
    BY <2>1, <2>2
  <2>5. \A x \in Slot : pc[x] \in Locked => pc'[x] \in Locked
    BY <2>1, <2>2
  <2>6. \A d \in CPU : on[d] # q
    BY <2>1, <2>2
  <2>7. \A x \in Slot : pc'[x] \in Locked => state'[x] = "RUNNING" /\ wlock' # None /\ on'[wlock'] = x
    BY <2>2, <2>3, <2>4
  <2>8. wlock' # None => on'[wlock'] # None /\ pc'[on'[wlock']] \in Locked
    <3>1. wlock # None => wlock \in CPU /\ on[wlock] \in Slot /\ pc[on[wlock]] \in Locked
      OBVIOUS
    <3> QED
      BY <2>2, <2>5, <3>1
  <2>9. \A d \in CPU : on'[d] # None =>
          \/ state'[on'[d]] = "RUNNING"
          \/ state'[on'[d]] \in {"RUNNABLE", "SLEEPING", "ZOMBIE"} /\ plock'[on'[d]] = d
    BY <2>2, <2>3, <2>6
  <2>10. \A x \in Slot : plock'[x] # None => on'[plock'[x]] = x /\ state'[x] # "RUNNING"
    BY <2>2, <2>3, <2>6
  <2> QED
    BY <2>2, <2>7, <2>8, <2>9, <2>10
<1>8. ASSUME NEW c \in CPU, NEW p \in Slot, ExitLock(c, p) PROVE RunInv'
  BY <1>8 DEF ExitLock, Goto, Executes
<1>9. ASSUME NEW c \in CPU, NEW p \in Slot, Reparent(c, p) PROVE RunInv'
  BY <1>9 DEF Reparent, Goto, Executes
<1>10. ASSUME NEW c \in CPU, NEW p \in Slot, ReparentDone(c, p) PROVE RunInv'
  BY <1>10 DEF ReparentDone, Goto, Executes
<1>11. ASSUME NEW c \in CPU, NEW p \in Slot, WakeInit(c, p) PROVE RunInv'
  <2>1. UNCHANGED <<parent, chan, killed, plock, wlock, on, child>> /\ pc[p] = "wake_init" /\ on[c] = p
    BY <1>11 DEF WakeInit, Executes
  <2>2. CASE state' = state /\ pc' = pc /\ i' = [i EXCEPT ![p] = @ + 1]
    BY <2>1, <2>2
  <2>3. CASE /\ i[p] \in Slot /\ i[p] # p /\ state[i[p]] = "SLEEPING" /\ plock[i[p]] = None
             /\ state' = [state EXCEPT ![i[p]] = "RUNNABLE"]
             /\ pc' = pc /\ i' = [i EXCEPT ![p] = @ + 1]
    BY <2>1, <2>3
  <2>4. CASE state' = state /\ pc' = [pc EXCEPT ![p] = "reparent"] /\ i' = [i EXCEPT ![p] = 0]
    BY <2>1, <2>4
  <2> QED
    BY <2>2, <2>3, <2>4, <1>11 DEF WakeInit, Wakeup, Goto
<1>12. ASSUME NEW c \in CPU, NEW p \in Slot, WakeParent(c, p) PROVE RunInv'
  <2>1. UNCHANGED <<parent, chan, killed, plock, wlock, on, child>> /\ pc[p] = "wake_parent" /\ on[c] = p
    BY <1>12 DEF WakeParent, Executes
  <2>2. CASE state' = state /\ pc' = pc /\ i' = [i EXCEPT ![p] = @ + 1]
    BY <2>1, <2>2
  <2>3. CASE /\ i[p] \in Slot /\ i[p] # p /\ state[i[p]] = "SLEEPING" /\ plock[i[p]] = None
             /\ state' = [state EXCEPT ![i[p]] = "RUNNABLE"]
             /\ pc' = pc /\ i' = [i EXCEPT ![p] = @ + 1]
    BY <2>1, <2>3
  <2>4. CASE state' = state /\ pc' = [pc EXCEPT ![p] = "zombie"] /\ i' = [i EXCEPT ![p] = 0]
    BY <2>1, <2>4
  <2> QED
    BY <2>2, <2>3, <2>4, <1>12 DEF WakeParent, Wakeup, Goto
<1>13. ASSUME NEW c \in CPU, NEW p \in Slot, Zombie(c, p) PROVE RunInv'
  BY <1>13 DEF Zombie, Goto, Executes
<1>14. ASSUME NEW c \in CPU, NEW p \in Slot, WaitLock(c, p) PROVE RunInv'
  BY <1>14 DEF WaitLock, Goto, Executes
<1>15. ASSUME NEW c \in CPU, NEW p \in Slot, ScanOn(c, p) PROVE RunInv'
  BY <1>15 DEF ScanOn, Goto, Executes
<1>16. ASSUME NEW c \in CPU, NEW p \in Slot, Reap(c, p) PROVE RunInv'
  BY <1>16 DEF Reap, Goto, Executes
<1>17. ASSUME NEW c \in CPU, NEW p \in Slot, ReapFails(c, p) PROVE RunInv'
  BY <1>17 DEF ReapFails, Goto, Executes
<1>18. ASSUME NEW c \in CPU, NEW p \in Slot, ScanDone(c, p) PROVE RunInv'
  BY <1>18 DEF ScanDone, Goto, Executes
<1>19. ASSUME NEW c \in CPU, NEW p \in Slot, Sleep(c, p) PROVE RunInv'
  BY <1>19 DEF Sleep, Goto, Executes
<1>20. ASSUME NEW c \in CPU, NEW p \in Slot, NEW q \in Slot, Fork(c, p, q) PROVE RunInv'
  BY <1>20 DEF Fork, Goto, Syscall, Executes
<1>21. ASSUME NEW c \in CPU, NEW p \in Slot, NEW q \in Slot, ForkFails(c, p, q) PROVE RunInv'
  BY <1>21 DEF ForkFails, Syscall, Executes
<1>22. ASSUME NEW c \in CPU, NEW p \in Slot, NEW q \in Slot, Kill(c, p, q) PROVE RunInv'
  BY <1>22 DEF Kill, Syscall, Executes
<1>23. CASE UNCHANGED vars
  BY <1>23 DEF vars
<1> QED
  BY <1>1, <1>2, <1>3, <1>4, <1>5, <1>6, <1>7, <1>8, <1>9, <1>10, <1>11, <1>12,
     <1>13, <1>14, <1>15, <1>16, <1>17, <1>18, <1>19, <1>20, <1>21, <1>22, <1>23
  DEF Next, Step

(* A process changes its label only while it runs, and init stays alive.    *)
LEMMA LabelStep ==
  ASSUME IInv, TypeOK', [Next]_vars
  PROVE  LabelInv'
<1>a. ASSUME NEW p \in Slot, pc[p] \in {"fork_parent", "fork_runnable"}
      PROVE  child[p] \in Slot /\ child[p] # p /\ state[child[p]] = "USED" /\ pc[child[p]] = "user"
  BY <1>a, ChildFacts
<1> USE SlotFacts DEF IInv, TypeOK, RunInv, LabelInv, Locked, Unlocked, Alive
<1>1. ASSUME NEW c \in CPU, NEW p \in Slot, Dispatch(c, p) PROVE LabelInv'
  BY <1>1 DEF Dispatch
<1>2. ASSUME NEW c \in CPU, NEW p \in Slot, SwitchedOut(c, p) PROVE LabelInv'
  BY <1>2 DEF SwitchedOut
<1>3. ASSUME NEW c \in CPU, NEW p \in Slot, Yield(c, p) PROVE LabelInv'
  BY <1>3 DEF Yield, Executes
<1>4. ASSUME NEW c \in CPU, NEW p \in Slot, Exit(c, p) PROVE LabelInv'
  BY <1>4 DEF Exit, Goto, Executes
<1>5. ASSUME NEW c \in CPU, NEW p \in Slot, Wait(c, p) PROVE LabelInv'
  BY <1>5 DEF Wait, Goto, Syscall, Executes
<1>6. ASSUME NEW c \in CPU, NEW p \in Slot, ForkParent(c, p) PROVE LabelInv'
  BY <1>6 DEF ForkParent, Goto, Executes
<1>7. ASSUME NEW c \in CPU, NEW p \in Slot, ForkRunnable(c, p) PROVE LabelInv'
  <2>1. PICK q \in Slot : /\ q = child[p] /\ q # p
                       /\ state[q] = "USED" /\ pc[q] = "user" /\ pc[p] = "fork_runnable"
    BY <1>7, <1>a DEF ForkRunnable
  <2>2. /\ state' = [state EXCEPT ![q] = "RUNNABLE"]
        /\ pc' = [pc EXCEPT ![q] = "user", ![p] = "user"]
        /\ UNCHANGED <<parent, chan, killed, plock, wlock, on, i>>
        /\ plock[q] = None /\ state[p] = "RUNNING" /\ on[c] = p
    BY <1>7, <2>1 DEF ForkRunnable, Executes
  <2> QED
    BY <2>1, <2>2
<1>8. ASSUME NEW c \in CPU, NEW p \in Slot, ExitLock(c, p) PROVE LabelInv'
  BY <1>8 DEF ExitLock, Goto, Executes
<1>9. ASSUME NEW c \in CPU, NEW p \in Slot, Reparent(c, p) PROVE LabelInv'
  BY <1>9 DEF Reparent, Goto, Executes
<1>10. ASSUME NEW c \in CPU, NEW p \in Slot, ReparentDone(c, p) PROVE LabelInv'
  BY <1>10 DEF ReparentDone, Goto, Executes
<1>11. ASSUME NEW c \in CPU, NEW p \in Slot, WakeInit(c, p) PROVE LabelInv'
  BY <1>11 DEF WakeInit, Goto, Executes, Wakeup
<1>12. ASSUME NEW c \in CPU, NEW p \in Slot, WakeParent(c, p) PROVE LabelInv'
  BY <1>12 DEF WakeParent, Goto, Executes, Wakeup
<1>13. ASSUME NEW c \in CPU, NEW p \in Slot, Zombie(c, p) PROVE LabelInv'
  BY <1>13 DEF Zombie, Goto, Executes
<1>14. ASSUME NEW c \in CPU, NEW p \in Slot, WaitLock(c, p) PROVE LabelInv'
  BY <1>14 DEF WaitLock, Goto, Executes
<1>15. ASSUME NEW c \in CPU, NEW p \in Slot, ScanOn(c, p) PROVE LabelInv'
  BY <1>15 DEF ScanOn, Goto, Executes
<1>16. ASSUME NEW c \in CPU, NEW p \in Slot, Reap(c, p) PROVE LabelInv'
  BY <1>16 DEF Reap, Goto, Executes
<1>17. ASSUME NEW c \in CPU, NEW p \in Slot, ReapFails(c, p) PROVE LabelInv'
  BY <1>17 DEF ReapFails, Goto, Executes
<1>18. ASSUME NEW c \in CPU, NEW p \in Slot, ScanDone(c, p) PROVE LabelInv'
  BY <1>18 DEF ScanDone, Goto, Executes
<1>19. ASSUME NEW c \in CPU, NEW p \in Slot, Sleep(c, p) PROVE LabelInv'
  BY <1>19 DEF Sleep, Goto, Executes
<1>20. ASSUME NEW c \in CPU, NEW p \in Slot, NEW q \in Slot, Fork(c, p, q) PROVE LabelInv'
  BY <1>20 DEF Fork, Goto, Syscall, Executes
<1>21. ASSUME NEW c \in CPU, NEW p \in Slot, NEW q \in Slot, ForkFails(c, p, q) PROVE LabelInv'
  BY <1>21 DEF ForkFails, Syscall, Executes
<1>22. ASSUME NEW c \in CPU, NEW p \in Slot, NEW q \in Slot, Kill(c, p, q) PROVE LabelInv'
  BY <1>22 DEF Kill, Syscall, Executes
<1>23. CASE UNCHANGED vars
  BY <1>23 DEF vars
<1> QED
  BY <1>1, <1>2, <1>3, <1>4, <1>5, <1>6, <1>7, <1>8, <1>9, <1>10, <1>11, <1>12,
     <1>13, <1>14, <1>15, <1>16, <1>17, <1>18, <1>19, <1>20, <1>21, <1>22, <1>23
  DEF Next, Step

(* The child of a fork in progress is nobody else's until it is runnable.    *)
LEMMA ForkStep ==
  ASSUME IInv, TypeOK', [Next]_vars
  PROVE  ForkInv'
<1> USE SlotFacts DEF IInv, TypeOK, RunInv, LabelInv, ForkInv, Locked, Unlocked
<1>1. ASSUME NEW c \in CPU, NEW p \in Slot, Dispatch(c, p) PROVE ForkInv'
  BY <1>1 DEF Dispatch
<1>2. ASSUME NEW c \in CPU, NEW p \in Slot, SwitchedOut(c, p) PROVE ForkInv'
  BY <1>2 DEF SwitchedOut
<1>3. ASSUME NEW c \in CPU, NEW p \in Slot, Yield(c, p) PROVE ForkInv'
  BY <1>3 DEF Yield, Executes
<1>4. ASSUME NEW c \in CPU, NEW p \in Slot, Exit(c, p) PROVE ForkInv'
  BY <1>4 DEF Exit, Goto, Executes
<1>5. ASSUME NEW c \in CPU, NEW p \in Slot, Wait(c, p) PROVE ForkInv'
  BY <1>5 DEF Wait, Goto, Syscall, Executes
<1>6. ASSUME NEW c \in CPU, NEW p \in Slot, ForkParent(c, p) PROVE ForkInv'
  BY <1>6 DEF ForkParent, Goto, Executes
<1>7. ASSUME NEW c \in CPU, NEW p \in Slot, ForkRunnable(c, p) PROVE ForkInv'
  BY <1>7 DEF ForkRunnable, Goto, Executes
<1>8. ASSUME NEW c \in CPU, NEW p \in Slot, ExitLock(c, p) PROVE ForkInv'
  BY <1>8 DEF ExitLock, Goto, Executes
<1>9. ASSUME NEW c \in CPU, NEW p \in Slot, Reparent(c, p) PROVE ForkInv'
  BY <1>9 DEF Reparent, Goto, Executes, Children
<1>10. ASSUME NEW c \in CPU, NEW p \in Slot, ReparentDone(c, p) PROVE ForkInv'
  BY <1>10 DEF ReparentDone, Goto, Executes
<1>11. ASSUME NEW c \in CPU, NEW p \in Slot, WakeInit(c, p) PROVE ForkInv'
  <2>1. UNCHANGED <<parent, chan, killed, plock, wlock, on, child>> /\ pc[p] = "wake_init" /\ on[c] = p
    BY <1>11 DEF WakeInit, Executes
  <2>2. CASE state' = state /\ pc' = pc /\ i' = [i EXCEPT ![p] = @ + 1]
    BY <2>1, <2>2
  <2>3. CASE /\ i[p] \in Slot /\ i[p] # p /\ state[i[p]] = "SLEEPING" /\ plock[i[p]] = None
             /\ state' = [state EXCEPT ![i[p]] = "RUNNABLE"]
             /\ pc' = pc /\ i' = [i EXCEPT ![p] = @ + 1]
    BY <2>1, <2>3
  <2>4. CASE state' = state /\ pc' = [pc EXCEPT ![p] = "reparent"] /\ i' = [i EXCEPT ![p] = 0]
    BY <2>1, <2>4
  <2> QED
    BY <2>2, <2>3, <2>4, <1>11 DEF WakeInit, Wakeup, Goto
<1>12. ASSUME NEW c \in CPU, NEW p \in Slot, WakeParent(c, p) PROVE ForkInv'
  <2>1. UNCHANGED <<parent, chan, killed, plock, wlock, on, child>> /\ pc[p] = "wake_parent" /\ on[c] = p
    BY <1>12 DEF WakeParent, Executes
  <2>2. CASE state' = state /\ pc' = pc /\ i' = [i EXCEPT ![p] = @ + 1]
    BY <2>1, <2>2
  <2>3. CASE /\ i[p] \in Slot /\ i[p] # p /\ state[i[p]] = "SLEEPING" /\ plock[i[p]] = None
             /\ state' = [state EXCEPT ![i[p]] = "RUNNABLE"]
             /\ pc' = pc /\ i' = [i EXCEPT ![p] = @ + 1]
    BY <2>1, <2>3
  <2>4. CASE state' = state /\ pc' = [pc EXCEPT ![p] = "zombie"] /\ i' = [i EXCEPT ![p] = 0]
    BY <2>1, <2>4
  <2> QED
    BY <2>2, <2>3, <2>4, <1>12 DEF WakeParent, Wakeup, Goto
<1>13. ASSUME NEW c \in CPU, NEW p \in Slot, Zombie(c, p) PROVE ForkInv'
  BY <1>13 DEF Zombie, Goto, Executes
<1>14. ASSUME NEW c \in CPU, NEW p \in Slot, WaitLock(c, p) PROVE ForkInv'
  BY <1>14 DEF WaitLock, Goto, Executes
<1>15. ASSUME NEW c \in CPU, NEW p \in Slot, ScanOn(c, p) PROVE ForkInv'
  BY <1>15 DEF ScanOn, Goto, Executes
<1>16. ASSUME NEW c \in CPU, NEW p \in Slot, Reap(c, p) PROVE ForkInv'
  BY <1>16 DEF Reap, Goto, Executes
<1>17. ASSUME NEW c \in CPU, NEW p \in Slot, ReapFails(c, p) PROVE ForkInv'
  BY <1>17 DEF ReapFails, Goto, Executes
<1>18. ASSUME NEW c \in CPU, NEW p \in Slot, ScanDone(c, p) PROVE ForkInv'
  BY <1>18 DEF ScanDone, Goto, Executes
<1>19. ASSUME NEW c \in CPU, NEW p \in Slot, Sleep(c, p) PROVE ForkInv'
  BY <1>19 DEF Sleep, Goto, Executes
<1>20. ASSUME NEW c \in CPU, NEW p \in Slot, NEW q \in Slot, Fork(c, p, q) PROVE ForkInv'
  BY <1>20 DEF Fork, Goto, Syscall, Executes, TreeInv
<1>21. ASSUME NEW c \in CPU, NEW p \in Slot, NEW q \in Slot, ForkFails(c, p, q) PROVE ForkInv'
  BY <1>21 DEF ForkFails, Syscall, Executes
<1>22. ASSUME NEW c \in CPU, NEW p \in Slot, NEW q \in Slot, Kill(c, p, q) PROVE ForkInv'
  BY <1>22 DEF Kill, Syscall, Executes
<1>23. CASE UNCHANGED vars
  BY <1>23 DEF vars
<1> QED
  BY <1>1, <1>2, <1>3, <1>4, <1>5, <1>6, <1>7, <1>8, <1>9, <1>10, <1>11, <1>12,
     <1>13, <1>14, <1>15, <1>16, <1>17, <1>18, <1>19, <1>20, <1>21, <1>22, <1>23
  DEF Next, Step

(* Every process keeps a parent that is alive, through fork, exit and wait.  *)
LEMMA TreeStep ==
  ASSUME IInv, TypeOK', [Next]_vars
  PROVE  TreeInv'
<1> USE SlotFacts DEF IInv, TypeOK, RunInv, LabelInv, ForkInv, TreeInv, ParentLives, Alive, Children, Locked, Unlocked
<1>1. ASSUME NEW c \in CPU, NEW p \in Slot, Dispatch(c, p) PROVE TreeInv'
  BY <1>1 DEF Dispatch
<1>2. ASSUME NEW c \in CPU, NEW p \in Slot, SwitchedOut(c, p) PROVE TreeInv'
  BY <1>2 DEF SwitchedOut
<1>3. ASSUME NEW c \in CPU, NEW p \in Slot, Yield(c, p) PROVE TreeInv'
  BY <1>3 DEF Yield, Executes
<1>4. ASSUME NEW c \in CPU, NEW p \in Slot, Exit(c, p) PROVE TreeInv'
  BY <1>4 DEF Exit, Goto, Executes
<1>5. ASSUME NEW c \in CPU, NEW p \in Slot, Wait(c, p) PROVE TreeInv'
  BY <1>5 DEF Wait, Goto, Syscall, Executes
<1>6. ASSUME NEW c \in CPU, NEW p \in Slot, ForkParent(c, p) PROVE TreeInv'
  BY <1>6 DEF ForkParent, Goto, Executes
<1>7. ASSUME NEW c \in CPU, NEW p \in Slot, ForkRunnable(c, p) PROVE TreeInv'
  BY <1>7 DEF ForkRunnable, Goto, Executes
<1>8. ASSUME NEW c \in CPU, NEW p \in Slot, ExitLock(c, p) PROVE TreeInv'
  BY <1>8 DEF ExitLock, Goto, Executes
<1>9. ASSUME NEW c \in CPU, NEW p \in Slot, Reparent(c, p) PROVE TreeInv'
  BY <1>9 DEF Reparent, Goto, Executes
<1>10. ASSUME NEW c \in CPU, NEW p \in Slot, ReparentDone(c, p) PROVE TreeInv'
  BY <1>10 DEF ReparentDone, Goto, Executes
<1>11. ASSUME NEW c \in CPU, NEW p \in Slot, WakeInit(c, p) PROVE TreeInv'
  <2>1. UNCHANGED <<parent, chan, killed, plock, wlock, on, child>> /\ pc[p] = "wake_init" /\ on[c] = p
    BY <1>11 DEF WakeInit, Executes
  <2>2. CASE state' = state /\ pc' = pc /\ i' = [i EXCEPT ![p] = @ + 1]
    BY <2>1, <2>2
  <2>3. CASE /\ i[p] \in Slot /\ i[p] # p /\ state[i[p]] = "SLEEPING" /\ plock[i[p]] = None
             /\ state' = [state EXCEPT ![i[p]] = "RUNNABLE"]
             /\ pc' = pc /\ i' = [i EXCEPT ![p] = @ + 1]
    BY <2>1, <2>3
  <2>4. CASE state' = state /\ pc' = [pc EXCEPT ![p] = "reparent"] /\ i' = [i EXCEPT ![p] = 0]
    BY <2>1, <2>4
  <2> QED
    BY <2>2, <2>3, <2>4, <1>11 DEF WakeInit, Wakeup, Goto
<1>12. ASSUME NEW c \in CPU, NEW p \in Slot, WakeParent(c, p) PROVE TreeInv'
  <2>1. UNCHANGED <<parent, chan, killed, plock, wlock, on, child>> /\ pc[p] = "wake_parent" /\ on[c] = p
    BY <1>12 DEF WakeParent, Executes
  <2>2. CASE state' = state /\ pc' = pc /\ i' = [i EXCEPT ![p] = @ + 1]
    BY <2>1, <2>2
  <2>3. CASE /\ i[p] \in Slot /\ i[p] # p /\ state[i[p]] = "SLEEPING" /\ plock[i[p]] = None
             /\ state' = [state EXCEPT ![i[p]] = "RUNNABLE"]
             /\ pc' = pc /\ i' = [i EXCEPT ![p] = @ + 1]
    BY <2>1, <2>3
  <2>4. CASE state' = state /\ pc' = [pc EXCEPT ![p] = "zombie"] /\ i' = [i EXCEPT ![p] = 0]
    BY <2>1, <2>4
  <2> QED
    BY <2>2, <2>3, <2>4, <1>12 DEF WakeParent, Wakeup, Goto
<1>13. ASSUME NEW c \in CPU, NEW p \in Slot, Zombie(c, p) PROVE TreeInv'
  BY <1>13 DEF Zombie, Goto, Executes
<1>14. ASSUME NEW c \in CPU, NEW p \in Slot, WaitLock(c, p) PROVE TreeInv'
  BY <1>14 DEF WaitLock, Goto, Executes
<1>15. ASSUME NEW c \in CPU, NEW p \in Slot, ScanOn(c, p) PROVE TreeInv'
  BY <1>15 DEF ScanOn, Goto, Executes
<1>16. ASSUME NEW c \in CPU, NEW p \in Slot, Reap(c, p) PROVE TreeInv'
  BY <1>16 DEF Reap, Goto, Executes
<1>17. ASSUME NEW c \in CPU, NEW p \in Slot, ReapFails(c, p) PROVE TreeInv'
  BY <1>17 DEF ReapFails, Goto, Executes
<1>18. ASSUME NEW c \in CPU, NEW p \in Slot, ScanDone(c, p) PROVE TreeInv'
  BY <1>18 DEF ScanDone, Goto, Executes
<1>19. ASSUME NEW c \in CPU, NEW p \in Slot, Sleep(c, p) PROVE TreeInv'
  BY <1>19 DEF Sleep, Goto, Executes
<1>20. ASSUME NEW c \in CPU, NEW p \in Slot, NEW q \in Slot, Fork(c, p, q) PROVE TreeInv'
  BY <1>20 DEF Fork, Goto, Syscall, Executes
<1>21. ASSUME NEW c \in CPU, NEW p \in Slot, NEW q \in Slot, ForkFails(c, p, q) PROVE TreeInv'
  BY <1>21 DEF ForkFails, Syscall, Executes
<1>22. ASSUME NEW c \in CPU, NEW p \in Slot, NEW q \in Slot, Kill(c, p, q) PROVE TreeInv'
  BY <1>22 DEF Kill, Syscall, Executes
<1>23. CASE UNCHANGED vars
  BY <1>23 DEF vars
<1> QED
  BY <1>1, <1>2, <1>3, <1>4, <1>5, <1>6, <1>7, <1>8, <1>9, <1>10, <1>11, <1>12,
     <1>13, <1>14, <1>15, <1>16, <1>17, <1>18, <1>19, <1>20, <1>21, <1>22, <1>23
  DEF Next, Step

(* A scan that found no exited child, or a wakeup that is on its way, covers *)
(* every process that sleeps in wait().                                      *)
LEMMA WakeStep ==
  ASSUME IInv, TypeOK', [Next]_vars
  PROVE  WakeInv'
<1>a. \A m \in Slot, n \in 0 .. NPROC : m < n + 1 => m < n \/ m = n
  BY LoopFacts
<1> USE SlotFacts DEF IInv, TypeOK, RunInv, LabelInv, ForkInv, TreeInv, ParentLives, Alive, Children, WakeInv, Locked, Unlocked
<1>1. ASSUME NEW c \in CPU, NEW p \in Slot, Dispatch(c, p) PROVE WakeInv'
  BY <1>1 DEF Dispatch
<1>2. ASSUME NEW c \in CPU, NEW p \in Slot, SwitchedOut(c, p) PROVE WakeInv'
  BY <1>2 DEF SwitchedOut
<1>3. ASSUME NEW c \in CPU, NEW p \in Slot, Yield(c, p) PROVE WakeInv'
  BY <1>3 DEF Yield, Executes
<1>4. ASSUME NEW c \in CPU, NEW p \in Slot, Exit(c, p) PROVE WakeInv'
  BY <1>4 DEF Exit, Goto, Executes
<1>5. ASSUME NEW c \in CPU, NEW p \in Slot, Wait(c, p) PROVE WakeInv'
  BY <1>5 DEF Wait, Goto, Syscall, Executes
<1>6. ASSUME NEW c \in CPU, NEW p \in Slot, ForkParent(c, p) PROVE WakeInv'
  BY <1>6 DEF ForkParent, Goto, Executes
<1>7. ASSUME NEW c \in CPU, NEW p \in Slot, ForkRunnable(c, p) PROVE WakeInv'
  BY <1>7 DEF ForkRunnable, Goto, Executes
<1>8. ASSUME NEW c \in CPU, NEW p \in Slot, ExitLock(c, p) PROVE WakeInv'
  BY <1>8 DEF ExitLock, Goto, Executes
<1>9. ASSUME NEW c \in CPU, NEW p \in Slot, Reparent(c, p) PROVE WakeInv'
  BY <1>9 DEF Reparent, Goto, Executes
<1>10. ASSUME NEW c \in CPU, NEW p \in Slot, ReparentDone(c, p) PROVE WakeInv'
  <2>1. parent[p] \in Slot /\ i[p] = 0 /\ pc[p] = "reparent" /\ state[p] = "RUNNING"
    BY <1>10 DEF ReparentDone, Executes
  <2>2. ~(parent[p] < 0)
    BY <2>1, LoopFacts
  <2> QED
    BY <1>10, <2>1, <2>2 DEF ReparentDone, Goto, Executes
<1>11. ASSUME NEW c \in CPU, NEW p \in Slot, WakeInit(c, p) PROVE WakeInv'
  BY <1>11 DEF WakeInit, Goto, Executes, Wakeup
<1>12. ASSUME NEW c \in CPU, NEW p \in Slot, WakeParent(c, p) PROVE WakeInv'
  <2>1. /\ UNCHANGED <<parent, chan, killed, plock, wlock, on, child>>
        /\ pc[p] = "wake_parent" /\ on[c] = p /\ state[p] = "RUNNING"
        /\ parent[p] \in Slot /\ parent[p] # p
    BY <1>12 DEF WakeParent, Executes
  <2>2. CASE /\ i[p] \in Slot
             /\ state' = IF i[p] # p /\ state[i[p]] = "SLEEPING" /\ chan[i[p]] = parent[p]
                         THEN [state EXCEPT ![i[p]] = "RUNNABLE"] ELSE state
             /\ pc' = pc /\ i' = [i EXCEPT ![p] = @ + 1]
    <3>1. \A r \in Slot : state'[r] = state[r] \/ (state[r] = "SLEEPING" /\ state'[r] = "RUNNABLE")
      BY <2>2
    <3>2. state'[parent[p]] = "SLEEPING" => i[p] # parent[p]
      BY <2>1, <2>2
    <3>0. i[p] \in 0 .. NPROC /\ parent[p] \in Slot
      BY <2>1, <2>2
    <3>3. parent[p] < i[p] + 1 => parent[p] < i[p] \/ parent[p] = i[p]
      BY <3>0, <1>a
    <3>4. \A x \in Slot : pc[x] = "wake_init" => x # p
      BY <2>1
    <3>5. \A x \in Slot : pc[x] = "wake_parent" => x = p
      BY <2>1
    <3> QED
      BY <2>1, <2>2, <3>1, <3>2, <3>3, <3>4, <3>5
  <2>3. CASE state' = state /\ i[p] = NPROC /\ pc' = [pc EXCEPT ![p] = "zombie"] /\ i' = [i EXCEPT ![p] = 0]
    <3>1. parent[p] < i[p] /\ state[parent[p]] # "SLEEPING"
      BY <2>1, <2>3
    <3> QED
      BY <2>1, <2>3, <3>1
  <2> QED
    BY <2>2, <2>3, <1>12 DEF WakeParent, Wakeup, Goto
<1>13. ASSUME NEW c \in CPU, NEW p \in Slot, Zombie(c, p) PROVE WakeInv'
  BY <1>13 DEF Zombie, Goto, Executes
<1>14. ASSUME NEW c \in CPU, NEW p \in Slot, WaitLock(c, p) PROVE WakeInv'
  BY <1>14 DEF WaitLock, Goto, Executes
<1>15. ASSUME NEW c \in CPU, NEW p \in Slot, ScanOn(c, p) PROVE WakeInv'
  BY <1>15 DEF ScanOn, Goto, Executes
<1>16. ASSUME NEW c \in CPU, NEW p \in Slot, Reap(c, p) PROVE WakeInv'
  BY <1>16 DEF Reap, Goto, Executes
<1>17. ASSUME NEW c \in CPU, NEW p \in Slot, ReapFails(c, p) PROVE WakeInv'
  BY <1>17 DEF ReapFails, Goto, Executes
<1>18. ASSUME NEW c \in CPU, NEW p \in Slot, ScanDone(c, p) PROVE WakeInv'
  BY <1>18 DEF ScanDone, Goto, Executes
<1>19. ASSUME NEW c \in CPU, NEW p \in Slot, Sleep(c, p) PROVE WakeInv'
  BY <1>19 DEF Sleep, Goto, Executes
<1>20. ASSUME NEW c \in CPU, NEW p \in Slot, NEW q \in Slot, Fork(c, p, q) PROVE WakeInv'
  BY <1>20 DEF Fork, Goto, Syscall, Executes
<1>21. ASSUME NEW c \in CPU, NEW p \in Slot, NEW q \in Slot, ForkFails(c, p, q) PROVE WakeInv'
  BY <1>21 DEF ForkFails, Syscall, Executes
<1>22. ASSUME NEW c \in CPU, NEW p \in Slot, NEW q \in Slot, Kill(c, p, q) PROVE WakeInv'
  BY <1>22 DEF Kill, Syscall, Executes
<1>23. CASE UNCHANGED vars
  BY <1>23 DEF vars
<1> QED
  BY <1>1, <1>2, <1>3, <1>4, <1>5, <1>6, <1>7, <1>8, <1>9, <1>10, <1>11, <1>12,
     <1>13, <1>14, <1>15, <1>16, <1>17, <1>18, <1>19, <1>20, <1>21, <1>22, <1>23
  DEF Next, Step

(* With one CPU the process that kills is not the one about to sleep.       *)
LEMMA KilledStep ==
  ASSUME IInv, KilledInv, [Next]_vars
  PROVE  KilledInv'
<1> SUFFICES ASSUME \A c, d \in CPU : c = d
             PROVE  \A s \in Slot : killed'[s] => state'[s] # "SLEEPING" /\ pc'[s] # "sleep"
  BY DEF KilledInv
<1> DEFINE Safe(s) == killed[s] => state[s] # "SLEEPING" /\ pc[s] # "sleep"
<1>a. ASSUME NEW p \in Slot, pc[p] \in {"fork_parent", "fork_runnable"}
      PROVE  child[p] \in Slot /\ child[p] # p /\ state[child[p]] = "USED" /\ pc[child[p]] = "user"
  BY <1>a, ChildFacts
<1>b. \A s \in Slot : Safe(s)
  BY DEF KilledInv
<1>c. ASSUME NEW c \in CPU, NEW p \in Slot, NEW s \in Slot, Executes(c, p), pc[p] = "user"
      PROVE  pc[s] # "sleep"
  BY <1>c DEF IInv, TypeOK, RunInv, Locked, Executes
<1> USE SlotFacts DEF IInv, TypeOK
<1>1. ASSUME NEW c \in CPU, NEW p \in Slot, Dispatch(c, p) PROVE \A s \in Slot : Safe(s)'
  BY <1>1, <1>b DEF Dispatch
<1>2. ASSUME NEW c \in CPU, NEW p \in Slot, SwitchedOut(c, p) PROVE \A s \in Slot : Safe(s)'
  BY <1>2, <1>b DEF SwitchedOut
<1>3. ASSUME NEW c \in CPU, NEW p \in Slot, Yield(c, p) PROVE \A s \in Slot : Safe(s)'
  BY <1>3, <1>b DEF Yield, Executes
<1>4. ASSUME NEW c \in CPU, NEW p \in Slot, Exit(c, p) PROVE \A s \in Slot : Safe(s)'
  BY <1>4, <1>b DEF Exit, Goto, Executes
<1>5. ASSUME NEW c \in CPU, NEW p \in Slot, Wait(c, p) PROVE \A s \in Slot : Safe(s)'
  BY <1>5, <1>b DEF Wait, Goto, Syscall, Executes
<1>6. ASSUME NEW c \in CPU, NEW p \in Slot, ForkParent(c, p) PROVE \A s \in Slot : Safe(s)'
  BY <1>6, <1>b DEF ForkParent, Goto, Executes
<1>7. ASSUME NEW c \in CPU, NEW p \in Slot, ForkRunnable(c, p) PROVE \A s \in Slot : Safe(s)'
  BY <1>7, <1>b, <1>a DEF ForkRunnable, Goto, Executes
<1>8. ASSUME NEW c \in CPU, NEW p \in Slot, ExitLock(c, p) PROVE \A s \in Slot : Safe(s)'
  BY <1>8, <1>b DEF ExitLock, Goto, Executes
<1>9. ASSUME NEW c \in CPU, NEW p \in Slot, Reparent(c, p) PROVE \A s \in Slot : Safe(s)'
  BY <1>9, <1>b DEF Reparent, Goto, Executes
<1>10. ASSUME NEW c \in CPU, NEW p \in Slot, ReparentDone(c, p) PROVE \A s \in Slot : Safe(s)'
  BY <1>10, <1>b DEF ReparentDone, Goto, Executes
<1>11. ASSUME NEW c \in CPU, NEW p \in Slot, WakeInit(c, p) PROVE \A s \in Slot : Safe(s)'
  BY <1>11, <1>b DEF WakeInit, Goto, Executes, Wakeup
<1>12. ASSUME NEW c \in CPU, NEW p \in Slot, WakeParent(c, p) PROVE \A s \in Slot : Safe(s)'
  BY <1>12, <1>b DEF WakeParent, Goto, Executes, Wakeup
<1>13. ASSUME NEW c \in CPU, NEW p \in Slot, Zombie(c, p) PROVE \A s \in Slot : Safe(s)'
  BY <1>13, <1>b DEF Zombie, Goto, Executes
<1>14. ASSUME NEW c \in CPU, NEW p \in Slot, WaitLock(c, p) PROVE \A s \in Slot : Safe(s)'
  BY <1>14, <1>b DEF WaitLock, Goto, Executes
<1>15. ASSUME NEW c \in CPU, NEW p \in Slot, ScanOn(c, p) PROVE \A s \in Slot : Safe(s)'
  BY <1>15, <1>b DEF ScanOn, Goto, Executes
<1>16. ASSUME NEW c \in CPU, NEW p \in Slot, Reap(c, p) PROVE \A s \in Slot : Safe(s)'
  BY <1>16, <1>b DEF Reap, Goto, Executes, Children
<1>17. ASSUME NEW c \in CPU, NEW p \in Slot, ReapFails(c, p) PROVE \A s \in Slot : Safe(s)'
  BY <1>17, <1>b DEF ReapFails, Goto, Executes
<1>18. ASSUME NEW c \in CPU, NEW p \in Slot, ScanDone(c, p) PROVE \A s \in Slot : Safe(s)'
  BY <1>18, <1>b DEF ScanDone, Goto, Executes
<1>19. ASSUME NEW c \in CPU, NEW p \in Slot, Sleep(c, p) PROVE \A s \in Slot : Safe(s)'
  BY <1>19, <1>b DEF Sleep, Goto, Executes
<1>20. ASSUME NEW c \in CPU, NEW p \in Slot, NEW q \in Slot, Fork(c, p, q)
      PROVE  \A s \in Slot : Safe(s)'
  BY <1>20, <1>b DEF Fork, Goto, Syscall, Executes
<1>21. ASSUME NEW c \in CPU, NEW p \in Slot, NEW q \in Slot, ForkFails(c, p, q)
      PROVE  \A s \in Slot : Safe(s)'
  BY <1>21, <1>b DEF ForkFails, Syscall, Executes
<1>22. ASSUME NEW c \in CPU, NEW p \in Slot, NEW q \in Slot, Kill(c, p, q)
      PROVE  \A s \in Slot : Safe(s)'
  BY <1>22, <1>b, <1>c DEF Kill, Syscall
<1>23. CASE UNCHANGED vars
  BY <1>23, <1>b DEF vars
<1> QED
  BY <1>1, <1>2, <1>3, <1>4, <1>5, <1>6, <1>7, <1>8, <1>9, <1>10, <1>11, <1>12,
     <1>13, <1>14, <1>15, <1>16, <1>17, <1>18, <1>19, <1>20, <1>21, <1>22, <1>23
  DEF Next, Step

(* main() leaves the table in a state that satisfies the invariant.         *)
LEMMA InitInv == Init => IInv /\ KilledInv
<1> SUFFICES ASSUME Init PROVE IInv /\ KilledInv
  OBVIOUS
<1> USE SlotFacts DEF Init
<1>1. TypeOK
  BY DEF TypeOK, States, Labels
<1>2. RunInv
  BY DEF RunInv, Locked
<1>3. LabelInv
  BY DEF LabelInv, Alive
<1>4. ForkInv
  BY DEF ForkInv
<1>5. TreeInv
  BY DEF TreeInv, ParentLives, Alive, Children
<1>6. WakeInv
  BY DEF WakeInv
<1>7. KilledInv
  BY DEF KilledInv
<1> QED
  BY <1>1, <1>2, <1>3, <1>4, <1>5, <1>6, <1>7 DEF IInv

(* The inductive invariant holds for any number of CPUs and slots.          *)
THEOREM ProcInvariance == Spec => [](IInv /\ KilledInv)
<1>1. Init => IInv /\ KilledInv
  BY InitInv
<1>2. IInv /\ KilledInv /\ [Next]_vars => (IInv /\ KilledInv)'
  <2> SUFFICES ASSUME IInv, KilledInv, [Next]_vars PROVE (IInv /\ KilledInv)'
    OBVIOUS
  <2>1. TypeOK'
    BY TypeStep
  <2> QED
    BY <2>1, RunStep, LabelStep, ForkStep, TreeStep, WakeStep, KilledStep DEF IInv
<1> QED
  BY <1>1, <1>2, PTL DEF Spec

(* Every variable keeps its type, the counter of every loop included.       *)
THEOREM ProcTypes == Spec => []TypeOK
<1>1. IInv => TypeOK
  BY DEF IInv
<1> QED
  BY <1>1, ProcInvariance, PTL

(* No CPU is ever on the kernel stack of a process another CPU is on, or of *)
(* a slot that is free or being given to a new process.                     *)
THEOREM StacksAreSafe == Spec => []StackInUse
<1>1. IInv => StackInUse
  BY DEF IInv, RunInv, StackInUse
<1> QED
  BY <1>1, ProcInvariance, PTL

(* At every instant every process but init has a parent that can wait for   *)
(* it, whatever exits are under way.                                        *)
THEOREM ParentsLive == Spec => []ParentLives
<1>1. IInv => ParentLives
  BY DEF IInv, TreeInv
<1> QED
  BY <1>1, ProcInvariance, PTL

(* When wait_lock is free, no parent sleeps over an exited child.           *)
THEOREM NoWakeupIsLost == Spec => []NoLostWakeup
<1>1. IInv => NoLostWakeup
  <2> SUFFICES ASSUME IInv, wlock = None, NEW p \in Slot, NEW q \in Slot,
                      state[p] = "SLEEPING", parent[q] = p, state[q] = "ZOMBIE"
               PROVE  FALSE
    BY DEF NoLostWakeup
  <2>1. PICK x \in Slot : pc[x] = "wake_init"
    BY DEF IInv, WakeInv
  <2> QED
    BY <2>1 DEF IInv, RunInv, Locked
<1> QED
  BY <1>1, ProcInvariance, PTL

(* On the one CPU this kernel is built for, a killed process never sleeps.  *)
THEOREM KilledStaysAwake == Spec => []KilledIsAwake
<1>1. KilledInv => KilledIsAwake
  BY DEF KilledInv, KilledIsAwake
<1> QED
  BY <1>1, ProcInvariance, PTL


--------------------------------------------------------------------------------
(* fork, exit and wait implement the atomic operations of ProcTree, for    *)
(* any number of CPUs and slots.  Three steps are visible: fork() when it  *)
(* sets the parent, exit() when it has wait_lock, wait() when it frees the *)
(* slot.  Every other step leaves the tree as it is.                       *)

(* The state of the tree, as Proc maps it.                                  *)
Exiting(p) == pc[p] \in {"reparent", "wake_init", "wake_parent", "zombie"}
              \/ state[p] = "ZOMBIE"
Lives(p) == state[p] # "UNUSED" /\ ~Exiting(p) /\ (state[p] = "USED" => parent[p] # None)
Living == {p \in Slot : Lives(p)}
ParentOf(p) == IF parent[p] \in Exited THEN initproc ELSE parent[p]
Parents == [p \in Slot |-> ParentOf(p)]

(* A step is a stutter of the tree if it is one for every single slot.      *)
LEMMA Invisible ==
  ASSUME \A p \in Slot : Exiting(p)' = Exiting(p) /\ Lives(p)' = Lives(p),
         Exited' = Exited => \A p \in Slot : ParentOf(p)' = ParentOf(p)
  PROVE  [Tree!Next]_Tree!vars
<1>1. Exited' = Exited
  BY DEF Exited, Exiting
<1>2. Living' = Living
  BY DEF Living
<1>3. Parents' = Parents
  BY <1>1 DEF Parents
<1> QED
  BY <1>1, <1>2, <1>3 DEF Tree!vars, Living, Lives, Exiting, Exited, Parents, ParentOf

(* init is not exiting, a process that runs outside exit() is living, and a *)
(* process that has become a zombie has no children.                        *)
LEMMA TreeFacts ==
  ASSUME IInv
  PROVE  /\ initproc \in Slot /\ initproc \notin Exited
         /\ None \notin Exited /\ None \notin Slot
         /\ \A q \in Slot : state[q] = "ZOMBIE" => Children(q) = {}
         /\ \A q \in Slot : state[q] \in {"UNUSED", "USED"} => ~Exiting(q)
         /\ \A q \in Slot : Exiting(q) <=> q \in Exited
<1> USE SlotFacts DEF IInv
<1>1. initproc \notin Exited
  BY DEF Exited, LabelInv, Alive
<1>2. \A q \in Slot : state[q] = "ZOMBIE" => Children(q) = {}
  BY ZenonT(60) DEF TreeInv, Children, Alive
<1>3. \A q \in Slot : state[q] \in {"UNUSED", "USED"} => ~Exiting(q)
  BY DEF LabelInv, Exiting
<1> QED
  BY <1>1, <1>2, <1>3 DEF Exited, Exiting

(* main() leaves init alone in the tree.                                    *)
LEMMA InitRefines == Init => Tree!Init
<1> SUFFICES ASSUME Init PROVE Tree!Init
  OBVIOUS
<1>1. Exited = {}
  BY SlotFacts DEF Init, Exited
<1>2. Living = {initproc}
  BY SlotFacts DEF Init, Living, Lives, Exiting
<1>3. Parents = [p \in Slot |-> None]
  BY <1>1 DEF Init, Parents, ParentOf
<1> QED
  BY <1>1, <1>2, <1>3 DEF Tree!Init, Living, Lives, Exiting, Exited, Parents, ParentOf

(* The second lock of fork(): the child appears in the tree.                *)
LEMMA ForkIsAtomic ==
  ASSUME IInv, NEW c \in CPU, NEW p \in Slot, ForkParent(c, p)
  PROVE  Tree!Next
<1>1. PICK q \in Slot : /\ q = child[p] /\ q # p /\ state[q] = "USED"
                        /\ pc[q] = "user" /\ parent[q] = None
  BY ChildFacts DEF ForkParent
<1>2. /\ state[p] = "RUNNING" /\ pc[p] = "fork_parent"
      /\ parent' = [parent EXCEPT ![q] = p]
      /\ pc' = [pc EXCEPT ![p] = "fork_runnable"]
      /\ state' = state
  BY <1>1 DEF ForkParent, Goto, Executes
<1>3. Exited' = Exited
  BY <1>1, <1>2, SlotFacts DEF Exited, IInv, TypeOK
<1>4. p \notin Exited /\ q \notin Exited
  BY <1>1, <1>2 DEF Exited
<1>5. Living' = Living \cup {q} /\ p \in Living /\ q \notin Living
  BY <1>1, <1>2, SlotFacts DEF Living, Lives, Exiting, IInv, TypeOK
<1>6. Parents' = [Parents EXCEPT ![q] = p]
  BY <1>1, <1>2, <1>3, <1>4 DEF Parents, ParentOf, IInv, TypeOK
<1>7. Tree!Fork(p, q)
  BY <1>3, <1>4, <1>5, <1>6
  DEF Tree!Fork, Living, Lives, Exiting, Exited, Parents, ParentOf
<1> QED
  BY <1>7 DEF Tree!Next

(* exit() has wait_lock: the process leaves and init has all its children.  *)
LEMMA ExitIsAtomic ==
  ASSUME IInv, NEW c \in CPU, NEW p \in Slot, ExitLock(c, p)
  PROVE  Tree!Next
<1>1. /\ state[p] = "RUNNING" /\ pc[p] = "exit"
      /\ pc' = [pc EXCEPT ![p] = "reparent"]
      /\ state' = state /\ parent' = parent
  BY DEF ExitLock, Goto, Executes
<1>2. p # initproc
  BY <1>1 DEF IInv, LabelInv
<1>3. Exited' = Exited \cup {p} /\ p \notin Exited
  BY <1>1, SlotFacts DEF Exited, IInv, TypeOK
<1>4. Living' = Living \ {p} /\ p \in Living
  BY <1>1, SlotFacts DEF Living, Lives, Exiting, IInv, TypeOK
<1>5. Parents' = [q \in Slot |-> IF Parents[q] = p THEN initproc ELSE Parents[q]]
  BY <1>1, <1>2, <1>3 DEF Parents, ParentOf
<1>6. Tree!Exit(p)
  BY <1>2, <1>3, <1>4, <1>5
  DEF Tree!Exit, Living, Lives, Exiting, Exited, Parents, ParentOf
<1> QED
  BY <1>6 DEF Tree!Next

(* wait() frees the slot of an exited child: the child leaves the tree.     *)
LEMMA WaitIsAtomic ==
  ASSUME IInv, NEW c \in CPU, NEW p \in Slot, Reap(c, p)
  PROVE  Tree!Next
<1>1. PICK q \in Slot : q = i[p] /\ parent[q] = p /\ state[q] = "ZOMBIE"
  BY DEF Reap, Children
<1>2. /\ state[p] = "RUNNING" /\ pc[p] = "scan"
      /\ state' = [state EXCEPT ![q] = "UNUSED"]
      /\ parent' = [parent EXCEPT ![q] = None]
      /\ pc' = [pc EXCEPT ![p] = "user", ![q] = "user"]
  BY <1>1 DEF Reap, Executes
<1>3. p # q /\ Children(q) = {}
  BY <1>1, <1>2, TreeFacts
<1>4. Exited' = Exited \ {q} /\ q \in Exited /\ p \notin Exited
  BY <1>1, <1>2, <1>3, SlotFacts DEF Exited, IInv, TypeOK
<1>5. Living' = Living /\ p \in Living
  BY <1>1, <1>2, <1>3, SlotFacts DEF Living, Lives, Exiting, IInv, TypeOK
<1>6. Parents' = [Parents EXCEPT ![q] = None] /\ Parents[q] = p
  BY <1>1, <1>2, <1>3, <1>4, TreeFacts, ZenonT(60) DEF Parents, ParentOf, Children, IInv, TypeOK
<1>7. Tree!Wait(p, q)
  BY <1>4, <1>5, <1>6
  DEF Tree!Wait, Living, Lives, Exiting, Exited, Parents, ParentOf
<1> QED
  BY <1>7 DEF Tree!Next

(* Every step is one of those three or leaves the tree alone.               *)
LEMMA StepRefines ==
  ASSUME IInv, [Next]_vars
  PROVE  [Tree!Next]_Tree!vars
<1> DEFINE Same == /\ \A x \in Slot : Exiting(x)' = Exiting(x) /\ Lives(x)' = Lives(x)
                   /\ Exited' = Exited => \A x \in Slot : ParentOf(x)' = ParentOf(x)
<1>a. Same => [Tree!Next]_Tree!vars
  BY Invisible
<1>b. ASSUME NEW p \in Slot, pc[p] \in {"fork_parent", "fork_runnable"}
      PROVE  /\ child[p] \in Slot /\ child[p] # p /\ state[child[p]] = "USED"
             /\ pc[child[p]] = "user"
             /\ pc[p] = "fork_runnable" => parent[child[p]] = p
  BY <1>b, ChildFacts
<1>c. /\ initproc \notin Exited /\ \A q \in Slot : state[q] \in {"UNUSED", "USED"} => ~Exiting(q)
      /\ \A q \in Slot : Exiting(q) <=> q \in Exited
      /\ \A q \in Slot : state[q] = "UNUSED" => parent[q] = None
      /\ \A q \in Slot : state[q] = "SLEEPING" => pc[q] = "wait"
  BY TreeFacts DEF IInv, TreeInv, LabelInv
<1>t. TypeOK
  BY DEF IInv
<1> HIDE DEF Same
<1> USE <1>t, SlotFacts DEF TypeOK
<1>1. ASSUME NEW c \in CPU, NEW p \in Slot, Dispatch(c, p) PROVE Same
  BY <1>1, <1>c DEF Same, Exiting, Lives, ParentOf, Dispatch
<1>2. ASSUME NEW c \in CPU, NEW p \in Slot, SwitchedOut(c, p) PROVE Same
  BY <1>2, <1>c DEF Same, Exiting, Lives, ParentOf, SwitchedOut
<1>3. ASSUME NEW c \in CPU, NEW p \in Slot, Yield(c, p) PROVE Same
  BY <1>3, <1>c DEF Same, Exiting, Lives, ParentOf, Yield, Executes
<1>4. ASSUME NEW c \in CPU, NEW p \in Slot, Exit(c, p) PROVE Same
  BY <1>4, <1>c DEF Same, Exiting, Lives, ParentOf, Exit, Goto, Executes
<1>5. ASSUME NEW c \in CPU, NEW p \in Slot, Wait(c, p) PROVE Same
  BY <1>5, <1>c DEF Same, Exiting, Lives, ParentOf, Wait, Goto, Syscall, Executes
<1>6. ASSUME NEW c \in CPU, NEW p \in Slot, ForkRunnable(c, p) PROVE Same
  <2>1. PICK q \in Slot : /\ q = child[p] /\ q # p /\ state[q] = "USED"
                          /\ pc[q] = "user" /\ parent[q] = p
    BY <1>6, <1>b DEF ForkRunnable
  <2>2. /\ state' = [state EXCEPT ![q] = "RUNNABLE"]
        /\ pc' = [pc EXCEPT ![q] = "user", ![p] = "user"]
        /\ UNCHANGED parent /\ pc[p] = "fork_runnable" /\ state[p] = "RUNNING"
    BY <1>6, <2>1 DEF ForkRunnable, Executes
  <2> QED
    BY <2>1, <2>2 DEF Same, Exiting, Lives, ParentOf
<1>7. ASSUME NEW c \in CPU, NEW p \in Slot, Reparent(c, p) PROVE Same
  BY <1>7, <1>c DEF Same, Exiting, Lives, ParentOf, Reparent, Goto, Executes, Children
<1>8. ASSUME NEW c \in CPU, NEW p \in Slot, ReparentDone(c, p) PROVE Same
  BY <1>8, <1>c DEF Same, Exiting, Lives, ParentOf, ReparentDone, Goto, Executes
<1>9. ASSUME NEW c \in CPU, NEW p \in Slot, WakeInit(c, p) PROVE Same
  BY <1>9, <1>c DEF Same, Exiting, Lives, ParentOf, WakeInit, Goto, Executes, Wakeup
<1>10. ASSUME NEW c \in CPU, NEW p \in Slot, WakeParent(c, p) PROVE Same
  BY <1>10, <1>c DEF Same, Exiting, Lives, ParentOf, WakeParent, Goto, Executes, Wakeup
<1>11. ASSUME NEW c \in CPU, NEW p \in Slot, Zombie(c, p) PROVE Same
  BY <1>11, <1>c DEF Same, Exiting, Lives, ParentOf, Zombie, Goto, Executes
<1>12. ASSUME NEW c \in CPU, NEW p \in Slot, WaitLock(c, p) PROVE Same
  BY <1>12, <1>c DEF Same, Exiting, Lives, ParentOf, WaitLock, Goto, Executes
<1>13. ASSUME NEW c \in CPU, NEW p \in Slot, ScanOn(c, p) PROVE Same
  BY <1>13, <1>c DEF Same, Exiting, Lives, ParentOf, ScanOn, Goto, Executes
<1>14. ASSUME NEW c \in CPU, NEW p \in Slot, ReapFails(c, p) PROVE Same
  BY <1>14, <1>c DEF Same, Exiting, Lives, ParentOf, ReapFails, Goto, Executes
<1>15. ASSUME NEW c \in CPU, NEW p \in Slot, ScanDone(c, p) PROVE Same
  BY <1>15, <1>c DEF Same, Exiting, Lives, ParentOf, ScanDone, Goto, Executes
<1>16. ASSUME NEW c \in CPU, NEW p \in Slot, Sleep(c, p) PROVE Same
  BY <1>16, <1>c DEF Same, Exiting, Lives, ParentOf, Sleep, Goto, Executes
<1>17. ASSUME NEW c \in CPU, NEW p \in Slot, NEW q \in Slot, Fork(c, p, q) PROVE Same
  BY <1>17, <1>c DEF Same, Exiting, Lives, ParentOf, Fork, Goto, Syscall, Executes
<1>18. ASSUME NEW c \in CPU, NEW p \in Slot, NEW q \in Slot, ForkFails(c, p, q) PROVE Same
  BY <1>18, <1>c DEF Same, Exiting, Lives, ParentOf, ForkFails, Syscall, Executes
<1>19. ASSUME NEW c \in CPU, NEW p \in Slot, NEW q \in Slot, Kill(c, p, q) PROVE Same
  BY <1>19, <1>c DEF Same, Exiting, Lives, ParentOf, Kill, Syscall, Executes
<1>20. CASE UNCHANGED vars
  <2> Same
    BY <1>20 DEF Same, vars, Exiting, Lives, ParentOf
  <2> QED
    BY <1>a
<1> QED
  BY <1>a, ForkIsAtomic, ExitIsAtomic, WaitIsAtomic,
     <1>1, <1>2, <1>3, <1>4, <1>5, <1>6, <1>7, <1>8, <1>9, <1>10,
     <1>11, <1>12, <1>13, <1>14, <1>15, <1>16, <1>17, <1>18, <1>19, <1>20
  DEF Next, Step

(* fork, exit and wait are atomic on the tree of processes, although each   *)
(* takes several locks, one after the other, on any number of CPUs.         *)
THEOREM ProcImplementsTree == Spec => ImplementsProcTree
<1>1. Init => Tree!Init
  BY InitRefines
<1>2. IInv /\ [Next]_vars => [Tree!Next]_Tree!vars
  BY StepRefines
<1>3. Spec => []IInv
  BY ProcInvariance, PTL
<1> QED
  BY <1>1, <1>2, <1>3, PTL DEF Spec, ImplementsProcTree, Tree!Spec
================================================================================
