-------------------------------- MODULE MCFiles --------------------------------
(* Instances of Files for TLC: the other constants are in the cfg files.    *)
EXTENDS Files

Rel(elems) == [abs |-> FALSE, elems |-> elems]
Abs(elems) == [abs |-> TRUE, elems |-> elems]
MCPath == {Rel(<<"a">>), Rel(<<"..">>), Abs(<<"a", "b">>)}

\* Bounds: descriptors in all processes, fileclose()s of descriptors that are
\* cleared, and inodes leaked by crashes; and open files that are not pipes
\* (beside those that fileclose() is working on).
MaxOpen == 2
MaxInodeFiles == 1
FewOpen ==
  /\ Cardinality({<<p, d>> \in Proc \X Fd : ofile[p][d] # 0})
       + Cardinality({p \in Proc : closing[p] # NotClosing /\ closing[p].fd = 0})
       + Cardinality(leaked) <= MaxOpen
  /\ Cardinality({f \in File : ftable[f].type = "inode"}) <= MaxInodeFiles
================================================================================
