---------------------------- MODULE MCMcpServer ----------------------------
(* Small instances of McpServer for TLC. *)
EXTENDS McpServer
===========================================================================
