--------------------------------- MODULE MCProc ---------------------------------
(* Instances of Proc for TLC: the constants are in the cfg files.           *)
EXTENDS Proc, TLC

(* CPUs are interchangeable (runs without liveness).                        *)
Symmetry == Permutations(CPU)
================================================================================
