----------------------------- MODULE VersionLoop ------------------------------
(***************************************************************************)
(* The loop of tools/testor.sh over the versions of a library, as whoever  *)
(* follows the link of the library gets to know it: linktarget() and run() *)
(* take turns, and each linktarget() is the step to the next version.      *)
(* LinkTarget implements it link by link, Control with an application.     *)
(***************************************************************************)
EXTENDS Naturals

CONSTANT NumVersions    \* versions named on the command line

VARIABLES
  turn,      \* whose turn it is, or "over"
  version    \* the version the library is linked to, 0 before the first

vars == <<turn, version>>

Init ==
  /\ turn = "linktarget"
  /\ version = 0

Link ==
  /\ turn = "linktarget"
  /\ turn' = "run"
  /\ version < NumVersions
  /\ version' = version + 1

Run ==
  /\ turn = "run"
  /\ turn' = IF version < NumVersions THEN "linktarget" ELSE "over"
  /\ UNCHANGED version

Next == Link \/ Run

Spec == Init /\ [][Next]_vars

===============================================================================
