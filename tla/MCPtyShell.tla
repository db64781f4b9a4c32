---------------------------- MODULE MCPtyShell ----------------------------
(* Small instances of PtyShell for TLC. *)
EXTENDS PtyShell
===========================================================================
