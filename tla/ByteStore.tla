------------------------------- MODULE ByteStore -------------------------------
(* What the files of xv6 promise: every file is a sequence of blocks, and an *)
(* open file a position in one.  A piece of a write() replaces or appends a  *)
(* prefix of what it was given and moves the position behind it; no other    *)
(* file changes.  How contents are kept on the disk does not show.           *)
EXTENDS Naturals, Sequences

CONSTANTS Inode, OpenFile, inodeOf, Val, MAXFILE

VARIABLES content,   \* content[i]: the blocks of file i
          pos        \* pos[f]: the position of open file f

storeVars == <<content, pos>>

\* seq with its elements from position at + 1 on replaced by vals.
Overwrite(seq, at, vals) ==
  [n \in 1..(IF at + Len(vals) > Len(seq) THEN at + Len(vals) ELSE Len(seq)) |->
     IF n > at /\ n <= at + Len(vals) THEN vals[n - at] ELSE seq[n]]

\* Any values may be written: a refinement decides which.
StoreWrite(f) ==
  LET i == inodeOf[f]
  IN \E m \in 0..MAXFILE :
       /\ pos' = [pos EXCEPT ![f] = @ + m]
       /\ pos[f] <= Len(content[i]) /\ pos[f] + m <= MAXFILE
       /\ \E vals \in [1..m -> Val] :
            content' = [content EXCEPT ![i] = Overwrite(@, pos[f], vals)]

StoreRead(f) ==
  \E m \in 1..MAXFILE :
    /\ pos[f] + m <= Len(content[inodeOf[f]])
    /\ pos' = [pos EXCEPT ![f] = @ + m]
    /\ UNCHANGED content

StoreTruncate(i) == content' = [content EXCEPT ![i] = <<>>] /\ UNCHANGED pos

\* Opened anew, or the machine restarted.
StoreRewind(F) ==
  pos' = [f \in OpenFile |-> IF f \in F THEN 0 ELSE pos[f]] /\ UNCHANGED content

StoreInit == /\ content \in [Inode -> Seq(Val)]
             /\ pos = [f \in OpenFile |-> 0]

StoreNext ==
  \/ \E f \in OpenFile : StoreWrite(f) \/ StoreRead(f) \/ StoreRewind({f})
  \/ \E i \in Inode : StoreTruncate(i)
  \/ StoreRewind(OpenFile)

StoreSpec == StoreInit /\ [][StoreNext]_storeVars
================================================================================
