------------------------ MODULE MCCheckpointNaming ------------------------
(* A small instance of CheckpointNaming, and with it of DirLock, for TLC.  *)
EXTENDS CheckpointNaming, TLC

(* All but the rollback are alike.                                         *)
Symmetry == Permutations(Procs \ {Rollback})
=============================================================================
