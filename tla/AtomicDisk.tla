------------------------------ MODULE AtomicDisk ------------------------------
(***************************************************************************)
(* What the logging layer (kernel/log.c) promises to the file system: a    *)
(* disk on which the writes of a group of operations become permanent in   *)
(* one step, at a moment when no operation is in progress, and on which a  *)
(* power failure loses exactly the writes that are not yet permanent.      *)
(***************************************************************************)

CONSTANTS Proc,   \* the processes that run file-system calls
          Block,  \* home blocks of the file system
          Data    \* block contents

VARIABLES stable,  \* the contents a power failure at this instant leaves
          current, \* the contents processes read and write
          open,    \* the processes between begin_op and end_op
          syncing  \* the last operation ended, its end_op has not returned

vars == <<stable, current, open, syncing>>

Init ==
  /\ stable \in [Block -> Data]
  /\ current = stable
  /\ open = {}
  /\ syncing = FALSE

Begin(p) ==
  /\ p \notin open
  /\ ~syncing
  /\ open' = open \cup {p}
  /\ UNCHANGED <<stable, current, syncing>>

Write(p, b, d) ==
  /\ p \in open
  /\ current' = [current EXCEPT ![b] = d]
  /\ UNCHANGED <<stable, open, syncing>>

(* The operation that leaves nobody behind has to make the group permanent. *)
End(p) ==
  /\ p \in open
  /\ open' = open \ {p}
  /\ syncing' = (open = {p})
  /\ UNCHANGED <<stable, current>>

Commit ==
  /\ syncing
  /\ stable' = current
  /\ UNCHANGED <<current, open, syncing>>

(* The last end_op returns only when everything is permanent. *)
Return ==
  /\ syncing
  /\ stable = current
  /\ syncing' = FALSE
  /\ UNCHANGED <<stable, current, open>>

PowerFailure ==
  /\ current' = stable
  /\ open' = {}
  /\ syncing' = FALSE
  /\ UNCHANGED stable

Next ==
  \/ \E p \in Proc : Begin(p) \/ End(p)
  \/ \E p \in Proc, b \in Block, d \in Data : Write(p, b, d)
  \/ Commit
  \/ Return
  \/ PowerFailure

Spec == Init /\ [][Next]_vars
===============================================================================
