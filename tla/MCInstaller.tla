----------------------------- MODULE MCInstaller -----------------------------
EXTENDS Installer

File(t, v, framed) == [text |-> t, managed |-> v, framed |-> framed]

ShippedAdapters ==
    [k \in Keys |-> CASE k = "direct-hook" -> "hook" [] k = "cursor" -> "json"
                      [] k = "husky" -> "husky" [] k = "github-action" -> "action"]
ShippedTargets == [k \in Keys |-> <<k>>]

(* The engine takes edits of several targets; no shipped adapter has them. *)
WideTargets ==
    [k \in Keys |-> IF k = "direct-hook" THEN <<"hook1", "hook2">> ELSE <<k>>]
WidePaths == {"hook1", "hook2", "husky"}

AbsentOrMine == {Absent, File("mine", Nothing, FALSE)}
FramedOrNot == AbsentOrMine \cup {File("mine", Nothing, TRUE)}
Edited == AbsentOrMine \cup {File("mine", "v1", TRUE)}
JustAbsent == {Absent}
=============================================================================
