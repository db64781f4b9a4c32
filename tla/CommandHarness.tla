--------------------------- MODULE CommandHarness ---------------------------
(***************************************************************************)
(* runCommandInProcess (cli-commands/src/run-command-in-process.ts): the   *)
(* CLI's commands run inside the server's process, one at a time behind a  *)
(* first-in first-out lock, because each changes the working directory of  *)
(* the whole process and has to put it back.                               *)
(***************************************************************************)
EXTENDS SequencesExt

CONSTANT Requests

VARIABLES
  queue,  \* the calls that hold or await the lock, the holder first
  busy,   \* the calls whose command is running
  cwd,    \* the working directory of the process: the server's or the "repo"
  saved   \* the directory each call's command found and will put back

harness == <<queue, busy, cwd, saved>>

HarnessInit == /\ queue = <<>>
               /\ busy = {}
               /\ cwd = "server"
               /\ saved = [r \in Requests |-> "server"]

\* withRunCommandInProcessLock: a call takes its place behind the others.
Enqueue(r) == /\ queue' = Append(queue, r)
              /\ UNCHANGED <<busy, cwd, saved>>

\* Fault: the lock is not awaited.
FaultHolds(r) == r \in ToSet(queue) /\ r \notin busy

\* The lock is r's, and r's command has not begun.
Holds(r) == queue # <<>> /\ Head(queue) = r /\ r \notin busy

\* The command begins, in the repository.
CommandBegins(r) == /\ Holds(r)
                    /\ busy' = busy \cup {r}
                    /\ saved' = [saved EXCEPT ![r] = cwd]
                    /\ cwd' = "repo"
                    /\ UNCHANGED queue

\* chdir fails: the lock is released and nothing has changed.
CommandRefused(r) == /\ Holds(r)
                     /\ queue' = Tail(queue)
                     /\ UNCHANGED <<busy, cwd, saved>>

\* The command returns or throws: the directory is put back and the lock
\* released.
CommandEnds(r) == /\ r \in busy
                  /\ busy' = busy \ {r}
                  /\ cwd' = saved[r]
                  /\ queue' = Tail(queue)
                  /\ saved' = [saved EXCEPT ![r] = "server"]

=============================================================================
