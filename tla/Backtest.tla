------------------------------- MODULE Backtest -------------------------------
(***************************************************************************)
(* What the dynamic-update experiment promises about the test application, *)
(* without the control script, its status files and its time-outs.         *)
(*                                                                         *)
(* The versions of a library are published one after the other.  The       *)
(* running instance of the test application adopts a version, or fails an  *)
(* update, or crashes.  An instance is stopped only after a failed update, *)
(* or at the very end, and its replacement uses the version published      *)
(* last.                                                                   *)
(***************************************************************************)
EXTENDS Naturals

CONSTANT NumVersions    \* versions named on the command line

VARIABLES
  version,    \* the version the library links point to, 0 before the first
  instance,   \* the newest instance of the test application, 0 before the first
  status,     \* what has become of the newest instance
  uses        \* the version whose code the newest instance executes

vars == <<version, instance, status, uses>>

Statuses == {"none", "up", "failed", "crashed", "stopped"}

Init ==
  /\ version = 0
  /\ instance = 0
  /\ status = "none"
  /\ uses = 0

(* The links are switched to the next version.                             *)
Publish ==
  /\ version < NumVersions
  /\ version' = version + 1
  /\ UNCHANGED <<instance, status, uses>>

(* The instance changes to a published version while it is running.        *)
Adopt ==
  /\ status \in {"up", "failed"}
  /\ uses' \in (uses + 1) .. version
  /\ UNCHANGED <<version, instance, status>>

(* An update of the instance fails; it keeps running the code it has.      *)
Fail ==
  /\ status = "up"
  /\ status' = "failed"
  /\ UNCHANGED <<version, instance, uses>>

Crash ==
  /\ status \in {"up", "failed"}
  /\ status' = "crashed"
  /\ UNCHANGED <<version, instance, uses>>

(* Only a failed instance is stopped before the last version.              *)
Stop ==
  /\ \/ status = "failed"
     \/ status = "up" /\ version = NumVersions
  /\ status' = "stopped"
  /\ UNCHANGED <<version, instance, uses>>

(* A new instance takes the version published last.                        *)
Replace ==
  /\ status \in {"none", "crashed", "stopped"}
  /\ version > 0
  /\ instance < version
  /\ instance' = instance + 1
  /\ status' = "up"
  /\ uses' = version
  /\ UNCHANGED version

Next == Publish \/ Adopt \/ Fail \/ Crash \/ Stop \/ Replace

Spec == Init /\ [][Next]_vars

===============================================================================
