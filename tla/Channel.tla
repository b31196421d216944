-------------------------------- MODULE Channel --------------------------------
(***************************************************************************)
(* What a pipe (kernel/pipe.c) promises: bytes come out in the order they  *)
(* went in, at most Size of them are under way, none goes in once nobody   *)
(* can read it, and a new pipe does not start with the bytes of an old one.*)
(***************************************************************************)
EXTENDS Naturals, Sequences

CONSTANTS Byte,  \* what is sent
          Size   \* how many bytes may be under way

VARIABLES bytes,  \* under way, oldest first
          ends    \* the ends that are open, of "read" and "write"

vars == <<bytes, ends>>

Init == bytes = <<>> /\ ends = {}

Open ==
  /\ ends = {}
  /\ ends' = {"read", "write"}
  /\ bytes' = <<>>

Send(b) ==
  /\ ends = {"read", "write"}
  /\ Len(bytes) < Size
  /\ bytes' = Append(bytes, b)
  /\ UNCHANGED ends

Receive ==
  /\ "read" \in ends
  /\ bytes # <<>>
  /\ bytes' = Tail(bytes)
  /\ UNCHANGED ends

Close(e) ==
  /\ e \in ends
  /\ ends' = ends \ {e}
  /\ UNCHANGED bytes

Next ==
  \/ Open \/ Receive
  \/ \E b \in Byte : Send(b)
  \/ \E e \in {"read", "write"} : Close(e)

Spec == Init /\ [][Next]_vars
================================================================================
