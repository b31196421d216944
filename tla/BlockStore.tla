------------------------------- MODULE BlockStore -------------------------------
(***************************************************************************)
(* What the buffer cache (kernel/bio.c) promises its callers: a block has  *)
(* one contents, one process at a time uses it, and only that process      *)
(* changes it.  Buffers, their number and the SD card do not show.         *)
(***************************************************************************)
CONSTANTS Proc,   \* processes
          Block,  \* blocks of the SD card
          Data,   \* what a block may contain
          Free    \* not in use

VARIABLES contents,  \* of every block
          user       \* who uses a block

vars == <<contents, user>>

Init == contents \in [Block -> Data] /\ user = [b \in Block |-> Free]

Take(p, b) ==
  /\ user[b] = Free
  /\ user' = [user EXCEPT ![b] = p]
  /\ UNCHANGED contents

Change(p, b, v) ==
  /\ user[b] = p
  /\ contents' = [contents EXCEPT ![b] = v]
  /\ UNCHANGED user

Give(p, b) ==
  /\ user[b] = p
  /\ user' = [user EXCEPT ![b] = Free]
  /\ UNCHANGED contents

Next ==
  \E p \in Proc, b \in Block :
    \/ Take(p, b) \/ Give(p, b)
    \/ \E v \in Data : Change(p, b, v)

Spec == Init /\ [][Next]_vars
================================================================================
