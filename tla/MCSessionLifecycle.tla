------------------------- MODULE MCSessionLifecycle -------------------------
(* A small instance of SessionLifecycle for TLC.                           *)
EXTENDS SessionLifecycle
=============================================================================
