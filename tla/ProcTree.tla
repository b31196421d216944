-------------------------------- MODULE ProcTree --------------------------------
(***************************************************************************)
(* What fork, exit and wait (kernel/proc.c) promise together: a tree of    *)
(* processes.  A process and its place in the tree appear in one step, an  *)
(* exit hands all children to init in one step, and an exited process      *)
(* stays until the one parent it has at that moment has waited for it.     *)
(***************************************************************************)

CONSTANTS Slot,      \* entries of the process table
          initproc,  \* the process that inherits orphans
          None       \* no parent

VARIABLES living,  \* processes that have not exited
          exited,  \* exited processes nobody has waited for
          parent

vars == <<living, exited, parent>>

Init ==
  /\ living = {initproc}
  /\ exited = {}
  /\ parent = [p \in Slot |-> None]

Fork(p, q) ==
  /\ p \in living
  /\ q \in Slot \ (living \cup exited)
  /\ living' = living \cup {q}
  /\ parent' = [parent EXCEPT ![q] = p]
  /\ UNCHANGED exited

Exit(p) ==
  /\ p \in living \ {initproc}
  /\ living' = living \ {p}
  /\ exited' = exited \cup {p}
  /\ parent' = [q \in Slot |-> IF parent[q] = p THEN initproc ELSE parent[q]]

Wait(p, q) ==
  /\ p \in living
  /\ q \in exited
  /\ parent[q] = p
  /\ exited' = exited \ {q}
  /\ parent' = [parent EXCEPT ![q] = None]
  /\ UNCHANGED living

Next ==
  \/ \E p, q \in Slot : Fork(p, q) \/ Wait(p, q)
  \/ \E p \in Slot : Exit(p)

Spec == Init /\ [][Next]_vars
===============================================================================
