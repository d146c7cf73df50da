---- MODULE MCMemory ----
(* Instances of MemoryMiner for TLC. *)
EXTENDS MemoryMiner
FairSpec == MinerSpec /\ MinerFairness
====
