-------------------------------- MODULE MCBcache --------------------------------
(* Instances of Bcache for TLC: the constants are in the cfg files.         *)
EXTENDS Bcache, TLC

(* Processes are alike, and so are the contents of blocks.                  *)
Perms == Permutations(Proc) \cup Permutations(Data)
================================================================================
