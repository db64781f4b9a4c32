------------------------------ MODULE AuditLog ------------------------------
(***************************************************************************)
(* The audit writer of the MCP server (mcp/src/audit.ts): one file handle, *)
(* and a chain of promises that appends one record after the other.  A     *)
(* record here is the call it is about; what it says is kept by the        *)
(* server.  Resolved promises run their continuations at once, so each     *)
(* action below goes as far as the next wait for the file system.          *)
(***************************************************************************)
EXTENDS SequencesExt

VARIABLES
  chain,     \* the records whose append is under way or waits for its turn
  poisoned,  \* an append has failed: the tail is a rejected promise
  handle,    \* the file: "none", "open", "closing" (close() waits), "closed"
  log        \* the records in the file

audit == <<chain, poisoned, handle, log>>

AuditInit == /\ chain = <<>>
             /\ poisoned = FALSE
             /\ handle = "none"
             /\ log = <<>>

\* openAuditLog succeeds.
Open == /\ handle' = "open"
        /\ UNCHANGED <<chain, poisoned, log>>

\* record() refuses a record after close() and after a failed append.
Accepts == handle = "open" /\ ~poisoned

\* record() puts the record of call r at the end of the chain.
Extend(r) == /\ chain' = Append(chain, r)
             /\ UNCHANGED <<poisoned, handle, log>>

\* The append at the head of the chain succeeds.
Appended == /\ chain # <<>>
            /\ log' = Append(log, Head(chain))
            /\ chain' = Tail(chain)
            /\ UNCHANGED <<poisoned, handle>>

\* It fails: the tail is rejected, and every record behind it is refused.
AppendFailed == /\ chain # <<>>
                /\ chain' = <<>>
                /\ poisoned' = TRUE
                /\ UNCHANGED <<handle, log>>

\* close() stops new records at once.
CloseBegins == /\ handle = "open"
               /\ handle' = "closing"
               /\ UNCHANGED <<chain, poisoned, log>>

\* Fault: the handle is closed without a wait for the tail.
FaultCloseEnds == /\ handle = "closing"
                  /\ handle' = "closed"
                  /\ UNCHANGED <<chain, poisoned, log>>

\* It closes the handle when the tail has settled, whatever became of it.
CloseEnds == /\ handle = "closing"
             /\ chain = <<>>
             /\ handle' = "closed"
             /\ UNCHANGED <<chain, poisoned, log>>

=============================================================================
