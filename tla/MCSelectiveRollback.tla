------------------------- MODULE MCSelectiveRollback -------------------------
(* A small instance of SelectiveRollback for TLC.                          *)
EXTENDS SelectiveRollback
=============================================================================
