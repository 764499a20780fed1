------------------------------- MODULE Control --------------------------------
(***************************************************************************)
(* The control script of one dynamic-update run inside the container: the  *)
(* loop of tools/testor.sh with the run, restart and stop functions of     *)
(* <library>/run-test.sh, next to the test application running under Luci. *)
(*                                                                         *)
(* The script is one actor, every instance of the test application is      *)
(* another.  They share two files: Luci appends a line to status.info for  *)
(* every update it tried, the script greps that file for failures, copies  *)
(* it to status.log and empties it.  Nothing synchronises the two.         *)
(*                                                                         *)
(* The script runs under "set -e -o pipefail", so a command that fails     *)
(* outside of a condition ends it at once ("aborted").                     *)
(***************************************************************************)
EXTENDS Naturals, FiniteSets

CONSTANTS
  NumVersions,      \* versions named on the command line
  TruncatesInfo,    \* Luci empties an existing status.info when it starts
  AnnouncesLoad,    \* Luci writes a line about the library when it starts
  DetectsOutdated   \* LD_DETECT_OUTDATED: use of replaced code is reported

ASSUME ConfigAssumption ==
  /\ NumVersions \in Nat \ {0}
  /\ TruncatesInfo \in BOOLEAN
  /\ AnnouncesLoad \in BOOLEAN
  /\ DetectsOutdated \in BOOLEAN

VARIABLES
  pc,         \* the command the script executes next
  version,    \* the version the library links point to, 0 before the first
  pid,        \* PID: the instance started last, 0 before the first
  proc,       \* what has become of each instance
  loaded,     \* the version whose code each instance executes
  judged,     \* the last version each instance tried, or started with
  info,       \* the lines of status.info
  log,        \* the lines of status.log
  dup,        \* the lines that status.log holds more than once
  emitted     \* history: every line any instance has written

scriptVars == <<pc, version, pid>>
appVars    == <<loaded, judged, emitted>>
fileVars   == <<info, log, dup>>
vars       == <<pc, version, pid, proc, loaded, judged, info, log, dup, emitted>>

(***************************************************************************)
(* An instance is started at most once for each version, which numbers the *)
(* instances.  A line of status.info says what became of one version in    *)
(* one instance; REJECTED and OUTDATED are the two reasons for which Luci  *)
(* writes FAILED: the update was refused, or it was done and replaced code *)
(* was still executed afterwards.                                          *)
(***************************************************************************)
Versions  == 1 .. NumVersions
Instances == 1 .. NumVersions
Kinds     == {"LOADED", "SUCCESS", "IGNORED", "REJECTED", "OUTDATED"}
Lines     == [inst : Instances, ver : Versions, kind : Kinds]
Labels    == {"link", "check", "copy", "truncate", "kill", "save", "start",
              "delay", "stop", "show", "keep", "finished", "aborted"}
Fates     == {"unborn", "up", "crashed", "killed"}

Line(i, v, k) == [inst |-> i, ver |-> v, kind |-> k]
IsFailure(l)  == l.kind \in {"REJECTED", "OUTDATED"}
HasFailure(S) == \E l \in S : IsFailure(l)

Alive == pid # 0 /\ proc[pid] = "up"

Init ==
  /\ pc = "link"
  /\ version = 0
  /\ pid = 0
  /\ proc = [i \in Instances |-> "unborn"]
  /\ loaded = [i \in Instances |-> 0]
  /\ judged = [i \in Instances |-> 0]
  /\ info = {}
  /\ log = {}
  /\ dup = {}
  /\ emitted = {}

GoTo(from, to) == pc = from /\ pc' = to

-------------------------------------------------------------------------------
(* The loop of testor.sh                                                   *)

LinkTarget ==
  /\ version < NumVersions
  /\ GoTo("link", "check")
  /\ version' = version + 1
  /\ UNCHANGED <<pid, proc, appVars, fileVars>>

(* Mutant: a Delay that ends the loop one version early.                   *)
DelayOneShort ==
  /\ GoTo("delay", IF version + 1 < NumVersions THEN "link" ELSE "stop")
  /\ UNCHANGED <<version, pid, proc, appVars, fileVars>>

Delay ==
  /\ GoTo("delay", IF version < NumVersions THEN "link" ELSE "stop")
  /\ UNCHANGED <<version, pid, proc, appVars, fileVars>>

-------------------------------------------------------------------------------
(* run(): what the script does with the instance after a switch            *)

CheckFirst ==
  /\ pid = 0
  /\ GoTo("check", "save")
  /\ UNCHANGED <<version, pid, proc, appVars, fileVars>>

CheckCrashed ==
  /\ pid # 0
  /\ ~Alive
  /\ GoTo("check", "kill")
  /\ UNCHANGED <<version, pid, proc, appVars, fileVars>>

(* Mutant: a CheckFailed that takes every kind of line for a failure.      *)
CheckAnyLine ==
  /\ Alive
  /\ info # {}
  /\ GoTo("check", "copy")
  /\ UNCHANGED <<version, pid, proc, appVars, fileVars>>

CheckFailed ==
  /\ Alive
  /\ HasFailure(info)
  /\ GoTo("check", "copy")
  /\ UNCHANGED <<version, pid, proc, appVars, fileVars>>

CheckHealthy ==
  /\ Alive
  /\ ~HasFailure(info)
  /\ GoTo("check", "delay")
  /\ UNCHANGED <<version, pid, proc, appVars, fileVars>>

(* cat status.info >> status.log                                           *)
AppendInfoToLog ==
  /\ log' = log \union info
  /\ dup' = dup \union (log \intersect info)
  /\ UNCHANGED info

CopyFailed ==
  /\ GoTo("copy", "truncate")
  /\ AppendInfoToLog
  /\ UNCHANGED <<version, pid, proc, appVars>>

(* Mutant: a TruncateInfo that takes the failure as dealt with.            *)
TruncateAndGoOn ==
  /\ GoTo("truncate", "delay")
  /\ info' = {}
  /\ UNCHANGED <<version, pid, proc, appVars, log, dup>>

(* Mutant: a TruncateInfo that leaves the lines it has copied.             *)
TruncateNothing ==
  /\ GoTo("truncate", "kill")
  /\ UNCHANGED <<version, pid, proc, appVars, fileVars>>

(* echo > status.info, while the instance may still be writing to it       *)
TruncateInfo ==
  /\ GoTo("truncate", "kill")
  /\ info' = {}
  /\ UNCHANGED <<version, pid, proc, appVars, log, dup>>

-------------------------------------------------------------------------------
(* restart()                                                               *)

(* A failing kill is only logged: it is the condition of an if.            *)
KillForRestart ==
  /\ GoTo("kill", "save")
  /\ proc' = IF Alive THEN [proc EXCEPT ![pid] = "killed"] ELSE proc
  /\ UNCHANGED <<version, pid, appVars, fileVars>>

(* Mutant: a SaveInfo that relies on the copy made by run().               *)
SaveNothing ==
  /\ GoTo("save", "start")
  /\ UNCHANGED <<version, pid, proc, appVars, fileVars>>

SaveInfo ==
  /\ GoTo("save", "start")
  /\ AppendInfoToLog
  /\ UNCHANGED <<version, pid, proc, appVars>>

(* The new process takes the linked version; Luci opens status.info.       *)
StartApp ==
  /\ GoTo("start", "delay")
  /\ LET new  == pid + 1
         said == IF AnnouncesLoad THEN {Line(new, version, "LOADED")} ELSE {}
     IN /\ pid' = new
        /\ proc' = [proc EXCEPT ![new] = "up"]
        /\ loaded' = [loaded EXCEPT ![new] = version]
        /\ judged' = [judged EXCEPT ![new] = version]
        /\ emitted' = emitted \union said
        /\ info' = (IF TruncatesInfo THEN {} ELSE info) \union said
  /\ UNCHANGED <<version, log, dup>>

-------------------------------------------------------------------------------
(* stop(), then the end of testor.sh                                       *)

StopKill ==
  /\ Alive
  /\ GoTo("stop", "show")
  /\ proc' = [proc EXCEPT ![pid] = "killed"]
  /\ UNCHANGED <<version, pid, appVars, fileVars>>

(* kill of a process that is gone fails, and set -e ends the script.       *)
StopKillFails ==
  /\ ~Alive
  /\ GoTo("stop", "aborted")
  /\ UNCHANGED <<version, pid, proc, appVars, fileVars>>

(* Mutant: a ShowInfo that looks for failures only.                        *)
ShowFailures ==
  /\ GoTo("show", IF HasFailure(info) THEN "keep" ELSE "aborted")
  /\ UNCHANGED <<version, pid, proc, appVars, fileVars>>

(* sed | grep | testlog: under pipefail a grep without a match ends it too *)
ShowInfo ==
  /\ GoTo("show", IF info # {} THEN "keep" ELSE "aborted")
  /\ UNCHANGED <<version, pid, proc, appVars, fileVars>>

KeepInfo ==
  /\ GoTo("keep", "finished")
  /\ AppendInfoToLog
  /\ UNCHANGED <<version, pid, proc, appVars>>

-------------------------------------------------------------------------------
(* The test application under Luci                                         *)

Write(l) ==
  /\ emitted' = emitted \union {l}
  /\ info' = info \union {l}
  /\ UNCHANGED <<scriptVars, proc, log, dup>>

(* Luci found the new link target, updated to v or had nothing to change.  *)
UpdateTo(i, v, k) ==
  /\ proc[i] = "up"
  /\ v \in (judged[i] + 1) .. version
  /\ k \in {"SUCCESS", "IGNORED"}
  /\ judged' = [judged EXCEPT ![i] = v]
  /\ loaded' = [loaded EXCEPT ![i] = v]
  /\ Write(Line(i, v, k))

(* Luci refuses v; the instance keeps the code it has.                     *)
Reject(i, v) ==
  /\ proc[i] = "up"
  /\ v \in (judged[i] + 1) .. version
  /\ judged' = [judged EXCEPT ![i] = v]
  /\ Write(Line(i, v, "REJECTED"))
  /\ UNCHANGED loaded

(* After a successful update the instance runs into replaced code.         *)
UseOutdated(i) ==
  /\ DetectsOutdated
  /\ proc[i] = "up"
  /\ Line(i, loaded[i], "SUCCESS") \in emitted
  /\ Line(i, loaded[i], "OUTDATED") \notin emitted
  /\ Write(Line(i, loaded[i], "OUTDATED"))
  /\ UNCHANGED <<loaded, judged>>

Crash(i) ==
  /\ proc[i] = "up"
  /\ proc' = [proc EXCEPT ![i] = "crashed"]
  /\ UNCHANGED <<scriptVars, appVars, fileVars>>

-------------------------------------------------------------------------------

Script ==
  \/ LinkTarget \/ Delay
  \/ CheckFirst \/ CheckCrashed \/ CheckFailed \/ CheckHealthy
  \/ CopyFailed \/ TruncateInfo
  \/ KillForRestart \/ SaveInfo \/ StartApp
  \/ StopKill \/ StopKillFails \/ ShowInfo \/ KeepInfo

App(i) ==
  \/ \E v \in Versions, k \in Kinds : UpdateTo(i, v, k)
  \/ \E v \in Versions : Reject(i, v)
  \/ UseOutdated(i)
  \/ Crash(i)

Next == Script \/ \E i \in Instances : App(i)

(* The script always gets on: its commands end and its sleeps are finite.  *)
(* Nothing is assumed of the application, which may hang or crash.         *)
Spec == Init /\ [][Next]_vars /\ WF_vars(Script)

-------------------------------------------------------------------------------
(* Invariants                                                              *)

TypeOK ==
  /\ pc \in Labels
  /\ version \in 0 .. NumVersions
  /\ pid \in 0 .. NumVersions
  /\ proc \in [Instances -> Fates]
  /\ loaded \in [Instances -> 0 .. NumVersions]
  /\ judged \in [Instances -> 0 .. NumVersions]
  /\ info \subseteq Lines
  /\ log \subseteq Lines
  /\ dup \subseteq Lines
  /\ emitted \subseteq Lines

(* Two instances never run side by side, they would write into the same    *)
(* status.info and log files: restart() has got rid of the old one, killed *)
(* or crashed, before it starts the next (run-test.sh 88-94 and 106).      *)
OneRunning == \A i \in Instances : proc[i] = "up" => i = pid

(* A failed update of a running instance is never forgotten: its line is   *)
(* in status.info, where the next run() greps for it, until the script is  *)
(* about to kill that instance (run-test.sh 120-125).                      *)
FailureStaysVisible ==
  \A l \in emitted :
    IsFailure(l) /\ proc[l.inst] = "up" => l \in info \/ pc = "kill"

(* Lines are lost only between the cat and the echo of a failing instance  *)
(* (run-test.sh 123-124): a line that neither file holds was written by an *)
(* instance of which status.log reports a failure.                         *)
LostOnlyAfterFailure ==
  \A l \in emitted \ (info \union log) :
    \E f \in log : f.inst = l.inst /\ IsFailure(f)

(* No line reaches status.log twice: summary-distribution-package.sh       *)
(* counts its lines as updates.                                            *)
NoDoubleLogging == dup = {}

(* The lines that summary-distribution-package.sh counts as updates.       *)
Counted(S) == {l \in S : l.kind \in {"SUCCESS", "IGNORED"}}

(* The summary never reports more updates than versions that could have    *)
(* been updated to (the links made but the first), over all instances.     *)
AtMostAllUpdated ==
  Cardinality(Counted(log)) + Cardinality(Counted(dup)) <= NumVersions - 1

(* When the container ends regularly, status.log holds all that the last   *)
(* instance wrote: stop() kills it before it copies status.info.           *)
FinishedKeepsLast ==
  pc = "finished" => \A l \in emitted : l.inst = pid => l \in log

(* As long as no instance crashes, the script reaches its regular end.     *)
(* Needs a Luci that announces the library: otherwise the grep of stop()   *)
(* finds nothing if the last version needed a restart.                     *)
AbortsOnlyAfterCrash ==
  pc = "aborted" => \E i \in Instances : proc[i] = "crashed"

-------------------------------------------------------------------------------
(* Liveness                                                                *)

(* "In any case, the control script will continue ... until all versions   *)
(* have been checked": whatever the application does, the script publishes *)
(* every version and comes to an end.                                      *)
AllVersionsTried ==
  <>(version = NumVersions /\ pc \in {"finished", "aborted"})

FailedBeforeLast(i) ==
  /\ i = pid
  /\ version < NumVersions
  /\ \E l \in emitted : l.inst = i /\ IsFailure(l)

(* An instance with a failed update is replaced, provided that a later     *)
(* version is still to come: only the next run() looks at status.info.     *)
FailureLeadsToReplacement ==
  \A i \in Instances : FailedBeforeLast(i) ~> pid > i

-------------------------------------------------------------------------------
(* Progress, step by step                                                  *)

(* Commands of one turn of the loop, and of stop(), that are still to come.*)
CommandsOfTurn ==
  CASE pc = "check"  -> 11 [] pc = "copy" -> 10 [] pc = "truncate" -> 9
    [] pc = "kill"   -> 8  [] pc = "save" -> 7  [] pc = "start"    -> 6
    [] pc = "delay"  -> 5  [] pc = "link" -> 4  [] pc = "stop"     -> 3
    [] pc = "show"   -> 2  [] pc = "keep" -> 1  [] OTHER           -> 0

(* An upper bound for the commands that the whole script still executes.   *)
CommandsLeft == 8 * (NumVersions - version) + CommandsOfTurn

(* Every command brings the script nearer to its end, and nothing that the *)
(* application does sets it back: no failure is tried again with the same  *)
(* version (testor.sh 64-72, run-test.sh 114-127).                         *)
ScriptAdvances ==
  [][CommandsLeft' < CommandsLeft \/ UNCHANGED scriptVars]_vars

(* Nothing is left to do where AllVersionsTried says, and only there: the  *)
(* script has no way out before the last version (testor.sh 64-72).        *)
OverAtZero ==
  /\ CommandsLeft >= 0
  /\ CommandsLeft = 0 <=> pc \in {"finished", "aborted"}
  /\ pc \in {"finished", "aborted"} => version = NumVersions

(* An instance is kept for the next version only if it runs and none of    *)
(* its updates has failed (run-test.sh 116-127).                           *)
KeepsSoundOnly ==
  [][pc = "check" /\ pc' = "delay"
     => Alive /\ \A l \in emitted : l.inst = pid => ~IsFailure(l)]_vars

-------------------------------------------------------------------------------
(* The script implements the experiment, as long as Luci starts every      *)
(* instance with an empty status.info.                                     *)

Fate ==
  IF pid = 0 THEN "none"
  ELSE CASE proc[pid] = "crashed" -> "crashed"
         [] proc[pid] = "killed" -> "stopped"
         [] OTHER -> IF \E l \in emitted : l.inst = pid /\ IsFailure(l)
                     THEN "failed" ELSE "up"

Uses == IF pid = 0 THEN 0 ELSE loaded[pid]

Experiment == INSTANCE Backtest WITH
  instance <- pid,
  status   <- Fate,
  uses     <- Uses

(* Every step of script and application is a step of the experiment: in    *)
(* particular a running instance is stopped early only after an update of  *)
(* its own has failed, and its replacement uses the version linked last    *)
(* ("hence now using the current version").                                *)
ImplementsExperiment == Experiment!Spec

(* The commands of run() and stop(), by the place in the loop.             *)
Turn ==
  CASE pc = "link"                                                  -> "linktarget"
    [] pc \in {"stop", "show", "keep", "finished", "aborted"}       -> "over"
    [] OTHER                                                        -> "run"

Loop == INSTANCE VersionLoop WITH turn <- Turn

(* linktarget() and run() take turns, version by version, and the loop is  *)
(* left only after the last one, whatever the application does.            *)
ImplementsLoop == Loop!Spec

-------------------------------------------------------------------------------
(* Claims of the documentation that the script does not keep               *)

(* "Failures will be logged" (README.md).                                  *)
EveryFailureLogged ==
  pc = "finished" => \A l \in emitted : IsFailure(l) => l \in log

===============================================================================
