--------------------------------- MODULE MCLog ---------------------------------
(* Instances of Log for TLC: the constants are in the cfg files.            *)
EXTENDS Log, TLC

(* Processes and contents are interchangeable (runs without liveness).      *)
Symmetry == Permutations(Proc) \cup Permutations(Data)
================================================================================
