---------------------------- MODULE Control_proofs ----------------------------
(***************************************************************************)
(* Proofs about the control script for any number of versions.             *)
(***************************************************************************)
EXTENDS Control, FiniteSetTheorems, TLAPS

(***************************************************************************)
(* Typing.  PID is an index of the status functions only because run()     *)
(* starts at most one instance for each version: from the switch of the    *)
(* links to the start of the instance the script is one version ahead.     *)
(***************************************************************************)
Restarting == {"check", "copy", "truncate", "kill", "save", "start"}

PidBound ==
  /\ pid <= version
  /\ pc \in Restarting => pid < version

TypeInv == TypeOK /\ PidBound

(* The types hold before the first command.                                *)
LEMMA InitTypeInv == Init => TypeInv
  BY ConfigAssumption
     DEF Init, TypeInv, TypeOK, PidBound, Restarting, Labels, Instances, Fates

(* No step leaves the types; PID stays behind the number of the version.   *)
LEMMA NextTypeInv == TypeInv /\ [Next]_vars => TypeInv'
<1> SUFFICES ASSUME TypeInv, [Next]_vars PROVE TypeInv'
  OBVIOUS
<1> USE ConfigAssumption
    DEF TypeInv, TypeOK, PidBound, Restarting, Labels, Instances, Versions, Fates
<1>1. CASE LinkTarget
  BY <1>1 DEF LinkTarget, GoTo, appVars, fileVars
<1>2. CASE Delay
  BY <1>2 DEF Delay, GoTo, appVars, fileVars
<1>3. CASE CheckFirst
  BY <1>3 DEF CheckFirst, GoTo, appVars, fileVars
<1>4. CASE CheckCrashed
  BY <1>4 DEF CheckCrashed, GoTo, appVars, fileVars
<1>5. CASE CheckFailed
  BY <1>5 DEF CheckFailed, GoTo, appVars, fileVars
<1>6. CASE CheckHealthy
  BY <1>6 DEF CheckHealthy, GoTo, appVars, fileVars
<1>7. CASE CopyFailed
  BY <1>7 DEF CopyFailed, AppendInfoToLog, GoTo, appVars
<1>8. CASE TruncateInfo
  BY <1>8 DEF TruncateInfo, GoTo, appVars
<1>9. CASE KillForRestart
  BY <1>9 DEF KillForRestart, GoTo, appVars, fileVars
<1>10. CASE SaveInfo
  BY <1>10 DEF SaveInfo, AppendInfoToLog, GoTo, appVars
<1>11. CASE StartApp
  <2>1. Line(pid + 1, version, "LOADED") \in Lines
    BY <1>11 DEF StartApp, GoTo, Line, Lines, Kinds
  <2>2. emitted' \subseteq Lines /\ info' \subseteq Lines
    BY <1>11, <2>1 DEF StartApp
  <2>3. QED
    BY <1>11, <2>2 DEF StartApp, GoTo
<1>12. CASE StopKill
  BY <1>12 DEF StopKill, Alive, GoTo, appVars, fileVars
<1>13. CASE StopKillFails
  BY <1>13 DEF StopKillFails, GoTo, appVars, fileVars
<1>14. CASE ShowInfo
  BY <1>14 DEF ShowInfo, GoTo, appVars, fileVars
<1>15. CASE KeepInfo
  BY <1>15 DEF KeepInfo, AppendInfoToLog, GoTo, appVars
<1>16. ASSUME NEW i \in Instances, NEW v \in Versions, NEW k \in Kinds,
              UpdateTo(i, v, k)
       PROVE  TypeInv'
  <2>1. Line(i, v, k) \in Lines
    BY DEF Line, Lines
  <2>2. v \in 0 .. NumVersions
    OBVIOUS
  <2>3. /\ judged' \in [Instances -> 0 .. NumVersions]
        /\ loaded' \in [Instances -> 0 .. NumVersions]
    BY <1>16, <2>2 DEF UpdateTo
  <2>4. emitted' \subseteq Lines /\ info' \subseteq Lines
    BY <1>16, <2>1 DEF UpdateTo, Write
  <2>5. UNCHANGED <<pc, version, pid, proc, log, dup>>
    BY <1>16 DEF UpdateTo, Write, scriptVars
  <2>6. QED
    BY <2>3, <2>4, <2>5
<1>17. ASSUME NEW i \in Instances, NEW v \in Versions, Reject(i, v)
       PROVE  TypeInv'
  <2>1. Line(i, v, "REJECTED") \in Lines
    BY DEF Line, Lines, Kinds
  <2>2. v \in 0 .. NumVersions
    OBVIOUS
  <2>3. judged' \in [Instances -> 0 .. NumVersions]
    BY <1>17, <2>2 DEF Reject
  <2>4. emitted' \subseteq Lines /\ info' \subseteq Lines
    BY <1>17, <2>1 DEF Reject, Write
  <2>5. UNCHANGED <<pc, version, pid, proc, loaded, log, dup>>
    BY <1>17 DEF Reject, Write, scriptVars
  <2>6. QED
    BY <2>3, <2>4, <2>5
<1>18. ASSUME NEW i \in Instances, UseOutdated(i)
       PROVE  TypeInv'
  <2>1. Line(i, loaded[i], "SUCCESS") \in Lines
    BY <1>18 DEF UseOutdated
  <2>2. loaded[i] \in Versions
    BY <2>1 DEF Line, Lines
  <2>3. Line(i, loaded[i], "OUTDATED") \in Lines
    BY <2>2 DEF Line, Lines, Kinds
  <2>4. QED
    BY <1>18, <2>3 DEF UseOutdated, Write, scriptVars
<1>19. ASSUME NEW i \in Instances, Crash(i)
       PROVE  TypeInv'
  BY <1>19 DEF Crash, scriptVars, appVars, fileVars
<1>20. CASE UNCHANGED vars
  BY <1>20 DEF vars
<1>21. QED
  BY <1>1, <1>2, <1>3, <1>4, <1>5, <1>6, <1>7, <1>8, <1>9, <1>10, <1>11,
     <1>12, <1>13, <1>14, <1>15, <1>16, <1>17, <1>18, <1>19, <1>20
     DEF Next, Script, App

(* Every variable keeps its type, and PID never runs ahead of the links.   *)
THEOREM Typing == Spec => []TypeInv
<1>1. Init => TypeInv
  BY InitTypeInv
<1>2. TypeInv /\ [Next]_vars => TypeInv'
  BY NextTypeInv
<1>3. QED
  BY <1>1, <1>2, PTL DEF Spec

(* Every variable keeps its type, for any number of versions.              *)
THEOREM TypeOKHolds == Spec => []TypeOK
<1>1. TypeInv => TypeOK
  BY DEF TypeInv
<1>2. QED
  BY <1>1, Typing, PTL

-------------------------------------------------------------------------------
(***************************************************************************)
(* One running instance.  The strengthening says where in the script none  *)
(* runs at all: from the kill of restart() to the start, and in stop().    *)
(***************************************************************************)
Quiet == {"save", "start", "show", "keep", "finished", "aborted"}

NobodyRuns == pc \in Quiet => \A i \in Instances : proc[i] # "up"

RunInv == OneRunning /\ NobodyRuns

(* No step starts a second instance while another one is running.          *)
LEMMA NextRunInv == TypeInv /\ RunInv /\ [Next]_vars => RunInv'
<1> SUFFICES ASSUME TypeInv, RunInv, [Next]_vars PROVE RunInv'
  OBVIOUS
<1> USE ConfigAssumption
    DEF TypeInv, TypeOK, PidBound, Restarting, RunInv, OneRunning, NobodyRuns,
        Quiet, Instances, scriptVars, appVars, fileVars
<1>1. CASE LinkTarget
  BY <1>1 DEF LinkTarget, GoTo
<1>2. CASE Delay
  BY <1>2 DEF Delay, GoTo
<1>3. CASE CheckFirst
  BY <1>3 DEF CheckFirst, GoTo
<1>4. CASE CheckCrashed
  BY <1>4 DEF CheckCrashed, GoTo
<1>5. CASE CheckFailed
  BY <1>5 DEF CheckFailed, GoTo
<1>6. CASE CheckHealthy
  BY <1>6 DEF CheckHealthy, GoTo
<1>7. CASE CopyFailed
  BY <1>7 DEF CopyFailed, AppendInfoToLog, GoTo
<1>8. CASE TruncateInfo
  BY <1>8 DEF TruncateInfo, GoTo
<1>9. CASE KillForRestart
  BY <1>9 DEF KillForRestart, Alive, GoTo
<1>10. CASE SaveInfo
  BY <1>10 DEF SaveInfo, AppendInfoToLog, GoTo
<1>11. CASE StartApp
  BY <1>11 DEF StartApp, GoTo
<1>12. CASE StopKill
  BY <1>12 DEF StopKill, Alive, GoTo
<1>13. CASE StopKillFails
  BY <1>13 DEF StopKillFails, Alive, GoTo
<1>14. CASE ShowInfo
  BY <1>14 DEF ShowInfo, GoTo
<1>15. CASE KeepInfo
  BY <1>15 DEF KeepInfo, AppendInfoToLog, GoTo
<1>16. ASSUME NEW i \in Instances, NEW v \in Versions, NEW k \in Kinds,
              UpdateTo(i, v, k)
       PROVE  RunInv'
  BY <1>16 DEF UpdateTo, Write
<1>17. ASSUME NEW i \in Instances, NEW v \in Versions, Reject(i, v)
       PROVE  RunInv'
  BY <1>17 DEF Reject, Write
<1>18. ASSUME NEW i \in Instances, UseOutdated(i)
       PROVE  RunInv'
  BY <1>18 DEF UseOutdated, Write
<1>19. ASSUME NEW i \in Instances, Crash(i)
       PROVE  RunInv'
  BY <1>19 DEF Crash
<1>20. CASE UNCHANGED vars
  BY <1>20 DEF vars
<1>21. QED
  BY <1>1, <1>2, <1>3, <1>4, <1>5, <1>6, <1>7, <1>8, <1>9, <1>10, <1>11,
     <1>12, <1>13, <1>14, <1>15, <1>16, <1>17, <1>18, <1>19, <1>20
     DEF Next, Script, App

(* At most one instance of the test application runs, the one PID names.   *)
THEOREM OneRunningHolds == Spec => []OneRunning
<1>1. Init => RunInv
  BY DEF Init, RunInv, OneRunning, NobodyRuns, Quiet
<1>2. TypeInv /\ RunInv /\ [Next]_vars => RunInv'
  BY NextRunInv
<1>3. RunInv => OneRunning
  BY DEF RunInv
<1>4. QED
  BY <1>1, <1>2, <1>3, Typing, PTL DEF Spec

-------------------------------------------------------------------------------
(***************************************************************************)
(* The lines of the two files.  Only instances that have been started have *)
(* written lines, about versions they have judged; both files hold nothing *)
(* but such lines.                                                         *)
(***************************************************************************)
LineInv ==
  /\ \A l \in emitted : l.inst <= pid /\ l.ver <= judged[l.inst]
  /\ info \subseteq emitted
  /\ log \subseteq emitted

(* The fields of a line.                                                   *)
LEMMA LineFields ==
  /\ \A l \in Lines : l.inst \in Instances /\ l.ver \in Versions /\ l.kind \in Kinds
  /\ \A i, v, k : /\ Line(i, v, k).inst = i
                 /\ Line(i, v, k).ver = v
                 /\ Line(i, v, k).kind = k
  BY DEF Lines, Line

(* Lines stem from instances started so far and from versions they tried.  *)
LEMMA NextLineInv == TypeInv /\ RunInv /\ LineInv /\ [Next]_vars => LineInv'
<1> SUFFICES ASSUME TypeInv, RunInv, LineInv, [Next]_vars PROVE LineInv'
  OBVIOUS
<1> USE ConfigAssumption, LineFields
    DEF TypeInv, TypeOK, PidBound, Restarting, LineInv, Instances, Versions,
        scriptVars, appVars, fileVars
<1>1. CASE LinkTarget
  BY <1>1 DEF LinkTarget, GoTo
<1>2. CASE Delay
  BY <1>2 DEF Delay, GoTo
<1>3. CASE CheckFirst
  BY <1>3 DEF CheckFirst, GoTo
<1>4. CASE CheckCrashed
  BY <1>4 DEF CheckCrashed, GoTo
<1>5. CASE CheckFailed
  BY <1>5 DEF CheckFailed, GoTo
<1>6. CASE CheckHealthy
  BY <1>6 DEF CheckHealthy, GoTo
<1>7. CASE CopyFailed
  BY <1>7 DEF CopyFailed, AppendInfoToLog, GoTo
<1>8. CASE TruncateInfo
  BY <1>8 DEF TruncateInfo, GoTo
<1>9. CASE KillForRestart
  BY <1>9 DEF KillForRestart, Alive, GoTo
<1>10. CASE SaveInfo
  BY <1>10 DEF SaveInfo, AppendInfoToLog, GoTo
<1>11. CASE StartApp
  <2> DEFINE new  == pid + 1
             said == IF AnnouncesLoad THEN {Line(new, version, "LOADED")} ELSE {}
  <2>1. /\ pid' = new
        /\ judged' = [judged EXCEPT ![new] = version]
        /\ emitted' = emitted \union said
        /\ info' \subseteq info \union said
        /\ log' = log
    BY <1>11 DEF StartApp
  <2>2. \A l \in said : l.inst = new /\ l.ver = version
    OBVIOUS
  <2>3. new \in Instances
    BY <1>11 DEF StartApp, GoTo
  <2>4. \A l \in emitted : l.inst # new /\ l.inst \in Instances
    OBVIOUS
  <2>5. \A l \in emitted' : l.inst <= pid' /\ l.ver <= judged'[l.inst]
    BY <2>1, <2>2, <2>3, <2>4
  <2>6. QED
    BY <2>1, <2>5
<1>12. CASE StopKill
  BY <1>12 DEF StopKill, Alive, GoTo
<1>13. CASE StopKillFails
  BY <1>13 DEF StopKillFails, Alive, GoTo
<1>14. CASE ShowInfo
  BY <1>14 DEF ShowInfo, GoTo
<1>15. CASE KeepInfo
  BY <1>15 DEF KeepInfo, AppendInfoToLog, GoTo
<1>16. ASSUME NEW i \in Instances, NEW v \in Versions, NEW k \in Kinds,
              UpdateTo(i, v, k)
       PROVE  LineInv'
  <2>1. i = pid /\ judged[i] <= v
    BY <1>16 DEF UpdateTo, RunInv, OneRunning
  <2>2. judged' = [judged EXCEPT ![i] = v]
    BY <1>16 DEF UpdateTo
  <2>3. /\ emitted' = emitted \union {Line(i, v, k)}
        /\ info' = info \union {Line(i, v, k)}
        /\ pid' = pid /\ log' = log
    BY <1>16 DEF UpdateTo, Write
  <2>4. ASSUME NEW l \in emitted'
        PROVE  l.inst <= pid' /\ l.ver <= judged'[l.inst]
    <3>1. CASE l \in emitted
      <4>1. l.inst \in Instances /\ l.ver <= judged[l.inst]
        BY <3>1
      <4>2. QED
        BY <2>1, <2>2, <2>3, <3>1, <4>1
    <3>2. CASE l = Line(i, v, k)
      BY <2>1, <2>2, <2>3, <3>2
    <3>3. QED
      BY <2>3, <3>1, <3>2
  <2>5. QED
    BY <2>3, <2>4
<1>17. ASSUME NEW i \in Instances, NEW v \in Versions, Reject(i, v)
       PROVE  LineInv'
  <2>1. i = pid /\ judged[i] <= v
    BY <1>17 DEF Reject, RunInv, OneRunning
  <2>2. judged' = [judged EXCEPT ![i] = v]
    BY <1>17 DEF Reject
  <2>3. /\ emitted' = emitted \union {Line(i, v, "REJECTED")}
        /\ info' = info \union {Line(i, v, "REJECTED")}
        /\ pid' = pid /\ log' = log
    BY <1>17 DEF Reject, Write
  <2>4. \A l \in emitted' : l.inst <= pid' /\ l.ver <= judged'[l.inst]
    BY <2>1, <2>2, <2>3
  <2>5. QED
    BY <2>3, <2>4
<1>18. ASSUME NEW i \in Instances, UseOutdated(i)
       PROVE  LineInv'
  <2>1. i = pid /\ Line(i, loaded[i], "SUCCESS") \in emitted
    BY <1>18 DEF UseOutdated, RunInv, OneRunning
  <2>2. loaded[i] <= judged[i]
    BY <2>1
  <2>3. QED
    BY <1>18, <2>1, <2>2 DEF UseOutdated, Write
<1>19. ASSUME NEW i \in Instances, Crash(i)
       PROVE  LineInv'
  BY <1>19 DEF Crash
<1>20. CASE UNCHANGED vars
  BY <1>20 DEF vars
<1>21. QED
  BY <1>1, <1>2, <1>3, <1>4, <1>5, <1>6, <1>7, <1>8, <1>9, <1>10, <1>11,
     <1>12, <1>13, <1>14, <1>15, <1>16, <1>17, <1>18, <1>19, <1>20
     DEF Next, Script, App

-------------------------------------------------------------------------------
(***************************************************************************)
(* Failures of a running instance.  A start cannot hide one: the lines     *)
(* that are there belong to earlier instances, none of which runs.         *)
(***************************************************************************)
LEMMA NextFailureStaysVisible ==
  TypeInv /\ RunInv /\ LineInv /\ FailureStaysVisible /\ [Next]_vars
    => FailureStaysVisible'
<1> SUFFICES ASSUME TypeInv, RunInv, LineInv, FailureStaysVisible, [Next]_vars
             PROVE  FailureStaysVisible'
  OBVIOUS
<1> USE ConfigAssumption, LineFields
    DEF TypeInv, TypeOK, FailureStaysVisible, RunInv, OneRunning, NobodyRuns,
        Quiet, Instances, scriptVars, appVars, fileVars
<1>1. CASE LinkTarget
  BY <1>1 DEF LinkTarget, GoTo
<1>2. CASE Delay
  BY <1>2 DEF Delay, GoTo
<1>3. CASE CheckFirst
  BY <1>3 DEF CheckFirst, GoTo
<1>4. CASE CheckCrashed
  BY <1>4 DEF CheckCrashed, GoTo
<1>5. CASE CheckFailed
  BY <1>5 DEF CheckFailed, GoTo
<1>6. CASE CheckHealthy
  BY <1>6 DEF CheckHealthy, GoTo
<1>7. CASE CopyFailed
  BY <1>7 DEF CopyFailed, AppendInfoToLog, GoTo
<1>8. CASE TruncateInfo
  BY <1>8 DEF TruncateInfo, GoTo
<1>9. CASE KillForRestart
  BY <1>9 DEF KillForRestart, Alive, GoTo
<1>10. CASE SaveInfo
  BY <1>10 DEF SaveInfo, AppendInfoToLog, GoTo
<1>11. CASE StartApp
  <2> DEFINE new  == pid + 1
             said == IF AnnouncesLoad THEN {Line(new, version, "LOADED")} ELSE {}
  <2>1. /\ pc = "start"
        /\ proc' = [proc EXCEPT ![new] = "up"]
        /\ emitted' = emitted \union said
    BY <1>11 DEF StartApp, GoTo
  <2>2. \A l \in said : ~IsFailure(l)
    BY DEF IsFailure
  <2>3. \A l \in emitted : l.inst # new /\ proc[l.inst] # "up"
    BY <2>1 DEF LineInv
  <2>4. \A l \in emitted' : IsFailure(l) => proc'[l.inst] # "up"
    BY <2>1, <2>2, <2>3
  <2>5. QED
    BY <2>4
<1>12. CASE StopKill
  BY <1>12 DEF StopKill, Alive, GoTo
<1>13. CASE StopKillFails
  BY <1>13 DEF StopKillFails, Alive, GoTo
<1>14. CASE ShowInfo
  BY <1>14 DEF ShowInfo, GoTo
<1>15. CASE KeepInfo
  BY <1>15 DEF KeepInfo, AppendInfoToLog, GoTo
<1>16. ASSUME NEW i \in Instances, NEW v \in Versions, NEW k \in Kinds,
              UpdateTo(i, v, k)
       PROVE  FailureStaysVisible'
  BY <1>16 DEF UpdateTo, Write
<1>17. ASSUME NEW i \in Instances, NEW v \in Versions, Reject(i, v)
       PROVE  FailureStaysVisible'
  BY <1>17 DEF Reject, Write
<1>18. ASSUME NEW i \in Instances, UseOutdated(i)
       PROVE  FailureStaysVisible'
  BY <1>18 DEF UseOutdated, Write
<1>19. ASSUME NEW i \in Instances, Crash(i)
       PROVE  FailureStaysVisible'
  BY <1>19 DEF Crash
<1>20. CASE UNCHANGED vars
  BY <1>20 DEF vars
<1>21. QED
  BY <1>1, <1>2, <1>3, <1>4, <1>5, <1>6, <1>7, <1>8, <1>9, <1>10, <1>11,
     <1>12, <1>13, <1>14, <1>15, <1>16, <1>17, <1>18, <1>19, <1>20
     DEF Next, Script, App

(* A failed update of a running instance is in status.info until the       *)
(* script is about to kill that instance.                                  *)
THEOREM FailureStaysVisibleHolds == Spec => []FailureStaysVisible
<1> DEFINE IInv == RunInv /\ LineInv /\ FailureStaysVisible
<1>1. Init => IInv
  BY DEF Init, RunInv, OneRunning, NobodyRuns, Quiet, LineInv, FailureStaysVisible
<1>2. TypeInv /\ IInv /\ [Next]_vars => IInv'
  BY NextRunInv, NextLineInv, NextFailureStaysVisible
<1>3. IInv => FailureStaysVisible
  OBVIOUS
<1> HIDE DEF IInv
<1>4. QED
  BY <1>1, <1>2, <1>3, Typing, PTL DEF Spec

-------------------------------------------------------------------------------
(***************************************************************************)
(* What status.log keeps of the last instance.  Its lines are in one of the  *)
(* files except while a failing instance is being replaced.                *)
(***************************************************************************)
LastInv ==
  /\ pc \notin {"kill", "save", "start"} =>
       \A l \in emitted : l.inst = pid => l \in info \union log
  /\ FinishedKeepsLast

(* No step loses a line of the last instance, but for a restart.           *)
LEMMA NextLastInv ==
  TypeInv /\ RunInv /\ LineInv /\ LastInv /\ [Next]_vars => LastInv'
<1> SUFFICES ASSUME TypeInv, RunInv, LineInv, LastInv, [Next]_vars
             PROVE  LastInv'
  OBVIOUS
<1> USE ConfigAssumption, LineFields
    DEF TypeInv, TypeOK, LastInv, FinishedKeepsLast, RunInv, OneRunning, NobodyRuns,
        Quiet, Instances, scriptVars, appVars, fileVars
<1>1. CASE LinkTarget
  BY <1>1 DEF LinkTarget, GoTo
<1>2. CASE Delay
  BY <1>2 DEF Delay, GoTo
<1>3. CASE CheckFirst
  BY <1>3 DEF CheckFirst, GoTo
<1>4. CASE CheckCrashed
  BY <1>4 DEF CheckCrashed, GoTo
<1>5. CASE CheckFailed
  BY <1>5 DEF CheckFailed, GoTo
<1>6. CASE CheckHealthy
  BY <1>6 DEF CheckHealthy, GoTo
<1>7. CASE CopyFailed
  BY <1>7 DEF CopyFailed, AppendInfoToLog, GoTo
<1>8. CASE TruncateInfo
  BY <1>8 DEF TruncateInfo, GoTo
<1>9. CASE KillForRestart
  BY <1>9 DEF KillForRestart, Alive, GoTo
<1>10. CASE SaveInfo
  BY <1>10 DEF SaveInfo, AppendInfoToLog, GoTo
<1>11. CASE StartApp
  <2> DEFINE new  == pid + 1
             said == IF AnnouncesLoad THEN {Line(new, version, "LOADED")} ELSE {}
  <2>1. /\ pid' = new /\ pc' = "delay"
        /\ emitted' = emitted \union said
        /\ said \subseteq info'
    BY <1>11 DEF StartApp, GoTo
  <2>2. \A l \in emitted : l.inst # new
    BY DEF LineInv
  <2>3. QED
    BY <2>1, <2>2
<1>12. CASE StopKill
  BY <1>12 DEF StopKill, Alive, GoTo
<1>13. CASE StopKillFails
  BY <1>13 DEF StopKillFails, Alive, GoTo
<1>14. CASE ShowInfo
  BY <1>14 DEF ShowInfo, GoTo
<1>15. CASE KeepInfo
  BY <1>15 DEF KeepInfo, AppendInfoToLog, GoTo
<1>16. ASSUME NEW i \in Instances, NEW v \in Versions, NEW k \in Kinds,
              UpdateTo(i, v, k)
       PROVE  LastInv'
  BY <1>16 DEF UpdateTo, Write
<1>17. ASSUME NEW i \in Instances, NEW v \in Versions, Reject(i, v)
       PROVE  LastInv'
  BY <1>17 DEF Reject, Write
<1>18. ASSUME NEW i \in Instances, UseOutdated(i)
       PROVE  LastInv'
  BY <1>18 DEF UseOutdated, Write
<1>19. ASSUME NEW i \in Instances, Crash(i)
       PROVE  LastInv'
  BY <1>19 DEF Crash
<1>20. CASE UNCHANGED vars
  BY <1>20 DEF vars
<1>21. QED
  BY <1>1, <1>2, <1>3, <1>4, <1>5, <1>6, <1>7, <1>8, <1>9, <1>10, <1>11,
     <1>12, <1>13, <1>14, <1>15, <1>16, <1>17, <1>18, <1>19, <1>20
     DEF Next, Script, App

(* status.log of a container that ends regularly is complete as far as the *)
(* last instance is concerned, whatever Luci does with an old status.info. *)
THEOREM FinishedKeepsLastHolds == Spec => []FinishedKeepsLast
<1> DEFINE IInv == RunInv /\ LineInv /\ LastInv
<1>1. Init => IInv
  BY DEF Init, RunInv, OneRunning, NobodyRuns, Quiet, LineInv, LastInv,
         FinishedKeepsLast
<1>2. TypeInv /\ IInv /\ [Next]_vars => IInv'
  BY NextRunInv, NextLineInv, NextLastInv
<1>3. IInv => FinishedKeepsLast
  BY DEF LastInv
<1> HIDE DEF IInv
<1>4. QED
  BY <1>1, <1>2, <1>3, Typing, PTL DEF Spec

-------------------------------------------------------------------------------
(***************************************************************************)
(* The two files, for a Luci that starts with an empty status.info: the    *)
(* file then holds lines of the newest instance only.                      *)
(***************************************************************************)
FailedIn(S, i) == \E f \in S : f.inst = i /\ IsFailure(f)

FileInv ==
  /\ \A l \in info : l.inst = pid
  /\ pc \notin {"truncate", "start", "finished"} => log \intersect info = {}
  /\ pc \in {"start", "finished"} => info \subseteq log
  /\ pc = "copy" => FailedIn(info, pid)
  /\ pc = "truncate" => FailedIn(log, pid)
  /\ pc = "kill" /\ Alive => FailedIn(log, pid)
  /\ NoDoubleLogging
  /\ LostOnlyAfterFailure

(* What each step does to the two files, with a Luci that truncates.       *)
LEMMA NextFileInv ==
  ASSUME TruncatesInfo
  PROVE  TypeInv /\ RunInv /\ LineInv /\ FileInv /\ [Next]_vars => FileInv'
<1> SUFFICES ASSUME TypeInv, RunInv, LineInv, FileInv, [Next]_vars
             PROVE  FileInv'
  OBVIOUS
<1> USE ConfigAssumption, LineFields
    DEF TypeInv, TypeOK, FileInv, FailedIn, NoDoubleLogging, LostOnlyAfterFailure,
        RunInv, OneRunning, NobodyRuns, Quiet, Alive, Instances, scriptVars,
        appVars, fileVars
<1>1. CASE LinkTarget
  BY <1>1 DEF LinkTarget, GoTo
<1>2. CASE Delay
  BY <1>2 DEF Delay, GoTo
<1>3. CASE CheckFirst
  BY <1>3 DEF CheckFirst, GoTo
<1>4. CASE CheckCrashed
  BY <1>4 DEF CheckCrashed, GoTo
<1>5. CASE CheckFailed
  BY <1>5 DEF CheckFailed, GoTo, HasFailure
<1>6. CASE CheckHealthy
  BY <1>6 DEF CheckHealthy, GoTo
<1>7. CASE CopyFailed
  BY <1>7 DEF CopyFailed, AppendInfoToLog, GoTo
<1>8. CASE TruncateInfo
  BY <1>8 DEF TruncateInfo, GoTo
<1>9. CASE KillForRestart
  BY <1>9 DEF KillForRestart, Alive, GoTo
<1>10. CASE SaveInfo
  BY <1>10 DEF SaveInfo, AppendInfoToLog, GoTo
<1>11. CASE StartApp
  <2> DEFINE new  == pid + 1
             said == IF AnnouncesLoad THEN {Line(new, version, "LOADED")} ELSE {}
  <2>1. /\ pc = "start" /\ pc' = "delay"
        /\ pid' = new /\ log' = log /\ dup' = dup
        /\ emitted' = emitted \union said
        /\ info' = said
    BY <1>11 DEF StartApp, GoTo
  <2>2. \A l \in said : l.inst = new
    OBVIOUS
  <2>3. \A l \in log : l.inst # new
    BY DEF LineInv
  <2> HIDE DEF said
  <2>4. QED
    BY <2>1, <2>2, <2>3
<1>12. CASE StopKill
  BY <1>12 DEF StopKill, Alive, GoTo
<1>13. CASE StopKillFails
  BY <1>13 DEF StopKillFails, Alive, GoTo
<1>14. CASE ShowInfo
  BY <1>14 DEF ShowInfo, GoTo
<1>15. CASE KeepInfo
  BY <1>15 DEF KeepInfo, AppendInfoToLog, GoTo
<1>16. ASSUME NEW i \in Instances, NEW v \in Versions, NEW k \in Kinds,
              UpdateTo(i, v, k)
       PROVE  FileInv'
  <2> DEFINE l == Line(i, v, k)
  <2>1. /\ emitted' = emitted \union {l} /\ info' = info \union {l}
        /\ UNCHANGED <<pc, version, pid, proc, log, dup>>
    BY <1>16 DEF UpdateTo, Write
  <2>2. i = pid /\ pc \notin Quiet
    BY <1>16 DEF UpdateTo
  <2>3. l \notin emitted
    <3>1. judged[i] < v /\ judged[i] \in Nat /\ v \in Nat
      BY <1>16 DEF UpdateTo, Versions
    <3>2. l.inst = i /\ l.ver = v
      OBVIOUS
    <3>3. QED
      BY <3>1, <3>2 DEF LineInv
  <2>4. l.inst = pid /\ l \notin log
    BY <2>2, <2>3 DEF LineInv
  <2> HIDE DEF l
  <2>5. QED
    BY <2>1, <2>2, <2>4
<1>17. ASSUME NEW i \in Instances, NEW v \in Versions, Reject(i, v)
       PROVE  FileInv'
  <2> DEFINE l == Line(i, v, "REJECTED")
  <2>1. /\ emitted' = emitted \union {l} /\ info' = info \union {l}
        /\ UNCHANGED <<pc, version, pid, proc, log, dup>>
    BY <1>17 DEF Reject, Write
  <2>2. i = pid /\ pc \notin Quiet
    BY <1>17 DEF Reject
  <2>3. l \notin emitted
    <3>1. judged[i] < v /\ judged[i] \in Nat /\ v \in Nat
      BY <1>17 DEF Reject, Versions
    <3>2. l.inst = i /\ l.ver = v
      OBVIOUS
    <3>3. QED
      BY <3>1, <3>2 DEF LineInv
  <2>4. l.inst = pid /\ l \notin log
    BY <2>2, <2>3 DEF LineInv
  <2> HIDE DEF l
  <2>5. QED
    BY <2>1, <2>2, <2>4
<1>18. ASSUME NEW i \in Instances, UseOutdated(i)
       PROVE  FileInv'
  <2> DEFINE l == Line(i, loaded[i], "OUTDATED")
  <2>1. /\ emitted' = emitted \union {l} /\ info' = info \union {l}
        /\ UNCHANGED <<pc, version, pid, proc, log, dup>>
    BY <1>18 DEF UseOutdated, Write
  <2>2. i = pid /\ pc \notin Quiet
    BY <1>18 DEF UseOutdated
  <2>3. l \notin emitted
    BY <1>18 DEF UseOutdated
  <2>4. l.inst = pid /\ l \notin log
    BY <2>2, <2>3 DEF LineInv
  <2> HIDE DEF l
  <2>5. QED
    BY <2>1, <2>2, <2>4
<1>19. ASSUME NEW i \in Instances, Crash(i)
       PROVE  FileInv'
  BY <1>19 DEF Crash
<1>20. CASE UNCHANGED vars
  BY <1>20 DEF vars
<1>21. QED
  BY <1>1, <1>2, <1>3, <1>4, <1>5, <1>6, <1>7, <1>8, <1>9, <1>10, <1>11,
     <1>12, <1>13, <1>14, <1>15, <1>16, <1>17, <1>18, <1>19, <1>20
     DEF Next, Script, App

(* The two files in every reachable state, with a Luci that truncates.     *)
LEMMA FileInvHolds == ASSUME TruncatesInfo PROVE Spec => []FileInv
<1> DEFINE IInv == RunInv /\ LineInv /\ FileInv
<1>1. Init => IInv
  BY DEF Init, RunInv, OneRunning, NobodyRuns, Quiet, LineInv, FileInv,
         NoDoubleLogging, LostOnlyAfterFailure
<1>2. TypeInv /\ IInv /\ [Next]_vars => IInv'
  BY NextRunInv, NextLineInv, NextFileInv
<1>3. IInv => FileInv
  OBVIOUS
<1> HIDE DEF IInv
<1>4. QED
  BY <1>1, <1>2, <1>3, Typing, PTL DEF Spec

(* If Luci starts every instance with an empty status.info, no line is     *)
(* copied to status.log twice.                                             *)
THEOREM NoDoubleLoggingHolds == ASSUME TruncatesInfo PROVE Spec => []NoDoubleLogging
<1>1. FileInv => NoDoubleLogging
  BY DEF FileInv
<1>2. QED
  BY <1>1, FileInvHolds, PTL

(* If Luci starts every instance with an empty status.info, a line can get *)
(* lost only after a failure of the same instance has been logged.         *)
THEOREM LostOnlyAfterFailureHolds ==
  ASSUME TruncatesInfo PROVE Spec => []LostOnlyAfterFailure
<1>1. FileInv => LostOnlyAfterFailure
  BY DEF FileInv
<1>2. QED
  BY <1>1, FileInvHolds, PTL

-------------------------------------------------------------------------------
(***************************************************************************)
(* Refinement.  An instance that has been started has a fate, it never     *)
(* executes a version it has not judged, and stop() is reached with the    *)
(* last version.                                                           *)
(***************************************************************************)
Ending == {"stop", "show", "keep", "finished", "aborted"}

AuxInv ==
  /\ \A i \in Instances : i <= pid => proc[i] # "unborn"
  /\ \A i \in Instances : loaded[i] <= judged[i]
  /\ pc \in Ending => version = NumVersions

(* Versions loaded and judged stay in order; the script ends after the last *)
(* version.                                                                *)
LEMMA NextAuxInv == TypeInv /\ AuxInv /\ [Next]_vars => AuxInv'
<1> SUFFICES ASSUME TypeInv, AuxInv, [Next]_vars PROVE AuxInv'
  OBVIOUS
<1> USE ConfigAssumption
    DEF TypeInv, TypeOK, PidBound, Restarting, AuxInv, Ending, Instances, Versions,
        scriptVars, appVars, fileVars
<1>1. CASE LinkTarget
  BY <1>1 DEF LinkTarget, GoTo
<1>2. CASE Delay
  BY <1>2 DEF Delay, GoTo
<1>3. CASE CheckFirst
  BY <1>3 DEF CheckFirst, GoTo
<1>4. CASE CheckCrashed
  BY <1>4 DEF CheckCrashed, GoTo
<1>5. CASE CheckFailed
  BY <1>5 DEF CheckFailed, GoTo
<1>6. CASE CheckHealthy
  BY <1>6 DEF CheckHealthy, GoTo
<1>7. CASE CopyFailed
  BY <1>7 DEF CopyFailed, AppendInfoToLog, GoTo
<1>8. CASE TruncateInfo
  BY <1>8 DEF TruncateInfo, GoTo
<1>9. CASE KillForRestart
  BY <1>9 DEF KillForRestart, Alive, GoTo
<1>10. CASE SaveInfo
  BY <1>10 DEF SaveInfo, AppendInfoToLog, GoTo
<1>11. CASE StartApp
  BY <1>11 DEF StartApp, GoTo
<1>12. CASE StopKill
  BY <1>12 DEF StopKill, Alive, GoTo
<1>13. CASE StopKillFails
  BY <1>13 DEF StopKillFails, Alive, GoTo
<1>14. CASE ShowInfo
  BY <1>14 DEF ShowInfo, GoTo
<1>15. CASE KeepInfo
  BY <1>15 DEF KeepInfo, AppendInfoToLog, GoTo
<1>16. ASSUME NEW i \in Instances, NEW v \in Versions, NEW k \in Kinds,
              UpdateTo(i, v, k)
       PROVE  AuxInv'
  BY <1>16 DEF UpdateTo, Write
<1>17. ASSUME NEW i \in Instances, NEW v \in Versions, Reject(i, v)
       PROVE  AuxInv'
  BY <1>17 DEF Reject, Write
<1>18. ASSUME NEW i \in Instances, UseOutdated(i)
       PROVE  AuxInv'
  BY <1>18 DEF UseOutdated, Write
<1>19. ASSUME NEW i \in Instances, Crash(i)
       PROVE  AuxInv'
  BY <1>19 DEF Crash
<1>20. CASE UNCHANGED vars
  BY <1>20 DEF vars
<1>21. QED
  BY <1>1, <1>2, <1>3, <1>4, <1>5, <1>6, <1>7, <1>8, <1>9, <1>10, <1>11,
     <1>12, <1>13, <1>14, <1>15, <1>16, <1>17, <1>18, <1>19, <1>20
     DEF Next, Script, App

(* Every step under the invariants is a step of the experiment.            *)
FailedNow == FailedIn(emitted, pid)

(* The state of the experiment that a state of the script stands for.      *)
LEMMA FateValues ==
  /\ pid = 0 => Fate = "none"
  /\ pid # 0 /\ proc[pid] = "crashed" => Fate = "crashed"
  /\ pid # 0 /\ proc[pid] = "killed" => Fate = "stopped"
  /\ pid # 0 /\ proc[pid] = "up" /\ FailedNow => Fate = "failed"
  /\ pid # 0 /\ proc[pid] = "up" /\ ~FailedNow => Fate = "up"
  BY DEF Fate, FailedNow, FailedIn

(* The same of the state after a step.                                     *)
LEMMA FateValuesNext ==
  /\ pid' = 0 => Fate' = "none"
  /\ pid' # 0 /\ proc'[pid'] = "crashed" => Fate' = "crashed"
  /\ pid' # 0 /\ proc'[pid'] = "killed" => Fate' = "stopped"
  /\ pid' # 0 /\ proc'[pid'] = "up" /\ FailedNow' => Fate' = "failed"
  /\ pid' # 0 /\ proc'[pid'] = "up" /\ ~FailedNow' => Fate' = "up"
  BY DEF Fate, FailedNow, FailedIn

(* Each step of script and application is a step of the experiment or none. *)
LEMMA NextRefines ==
  ASSUME TruncatesInfo
  PROVE  /\ TypeInv /\ RunInv /\ LineInv /\ AuxInv /\ FileInv
         /\ [Next]_vars
         => [Experiment!Next]_(Experiment!vars)
<1> SUFFICES ASSUME TypeInv, RunInv, LineInv, AuxInv, FileInv, [Next]_vars
             PROVE  Experiment!Next \/ UNCHANGED <<version, pid, Fate, Uses>>
  BY DEF Experiment!vars, Uses
<1> DEFINE R == Experiment!Next \/ UNCHANGED <<version, pid, Fate, Uses>>
<1> SUFFICES R
  OBVIOUS
<1>1. CASE LinkTarget
  <2>1. /\ version < NumVersions /\ version' = version + 1
        /\ UNCHANGED <<pid, proc, loaded, emitted>>
    BY <1>1 DEF LinkTarget, appVars
  <2>2. UNCHANGED <<Fate, Uses>>
    BY <2>1 DEF Fate, Uses
  <2>3. Experiment!Publish
    BY <2>1, <2>2 DEF Experiment!Publish, Uses
  <2>4. QED
    BY <2>3 DEF Experiment!Next
<1>2. CASE Delay
  <2>1. UNCHANGED <<version, pid, proc, loaded, emitted>>
    BY <1>2 DEF Delay, GoTo, appVars, fileVars
  <2>2. QED
    BY <2>1 DEF Fate, Uses
<1>3. CASE CheckFirst
  <2>1. UNCHANGED <<version, pid, proc, loaded, emitted>>
    BY <1>3 DEF CheckFirst, GoTo, appVars, fileVars
  <2>2. QED
    BY <2>1 DEF Fate, Uses
<1>4. CASE CheckCrashed
  <2>1. UNCHANGED <<version, pid, proc, loaded, emitted>>
    BY <1>4 DEF CheckCrashed, GoTo, appVars, fileVars
  <2>2. QED
    BY <2>1 DEF Fate, Uses
<1>5. CASE CheckFailed
  <2>1. UNCHANGED <<version, pid, proc, loaded, emitted>>
    BY <1>5 DEF CheckFailed, GoTo, appVars, fileVars
  <2>2. QED
    BY <2>1 DEF Fate, Uses
<1>6. CASE CheckHealthy
  <2>1. UNCHANGED <<version, pid, proc, loaded, emitted>>
    BY <1>6 DEF CheckHealthy, GoTo, appVars, fileVars
  <2>2. QED
    BY <2>1 DEF Fate, Uses
<1>7. CASE CopyFailed
  <2>1. UNCHANGED <<version, pid, proc, loaded, emitted>>
    BY <1>7 DEF CopyFailed, AppendInfoToLog, GoTo, appVars, fileVars
  <2>2. QED
    BY <2>1 DEF Fate, Uses
<1>8. CASE TruncateInfo
  <2>1. UNCHANGED <<version, pid, proc, loaded, emitted>>
    BY <1>8 DEF TruncateInfo, GoTo, appVars, fileVars
  <2>2. QED
    BY <2>1 DEF Fate, Uses
<1>9. CASE KillForRestart
  <2>1. UNCHANGED <<version, pid, loaded, emitted>>
    BY <1>9 DEF KillForRestart, appVars
  <2>2. UNCHANGED Uses
    BY <2>1 DEF Uses
  <2>3. CASE ~Alive
    <3>1. proc' = proc
      BY <1>9, <2>3 DEF KillForRestart
    <3>2. QED
      BY <2>1, <2>2, <3>1 DEF Fate
  <2>4. CASE Alive
    <3>1. FailedNow
      BY <1>9, <2>4 DEF KillForRestart, GoTo, FileInv, FailedIn, FailedNow, LineInv
    <3>2. Fate = "failed"
      BY <2>4, <3>1, FateValues DEF Alive
    <3>3. pid \in Instances /\ proc'[pid'] = "killed"
      BY <1>9, <2>1, <2>4, ConfigAssumption
         DEF KillForRestart, Alive, TypeInv, TypeOK, Instances
    <3>4. Fate' = "stopped"
      BY <2>1, <2>4, <3>3, FateValuesNext DEF Alive
    <3>5. Experiment!Stop
      BY <2>1, <2>2, <3>2, <3>4 DEF Experiment!Stop, Uses
    <3>6. QED
      BY <3>5 DEF Experiment!Next
  <2>5. QED
    BY <2>3, <2>4
<1>10. CASE SaveInfo
  <2>1. UNCHANGED <<version, pid, proc, loaded, emitted>>
    BY <1>10 DEF SaveInfo, AppendInfoToLog, GoTo, appVars, fileVars
  <2>2. QED
    BY <2>1 DEF Fate, Uses
<1>11. CASE StartApp
  <2>1. /\ pid' = pid + 1 /\ version' = version /\ pid < version
        /\ proc' = [proc EXCEPT ![pid + 1] = "up"]
        /\ loaded' = [loaded EXCEPT ![pid + 1] = version]
        /\ pid + 1 \in Instances /\ pid \in Nat /\ version \in Nat
    BY <1>11, ConfigAssumption
       DEF StartApp, GoTo, TypeInv, TypeOK, PidBound, Restarting, Instances
  <2>2. proc'[pid'] = "up" /\ Uses' = version
    BY <2>1 DEF TypeInv, TypeOK, Uses
  <2>3. ~FailedNow'
    <3>1. \A f \in emitted : f.inst # pid'
      BY <2>1, LineFields DEF LineInv, TypeInv, TypeOK, Instances
    <3>2. \A f \in emitted' \ emitted : ~IsFailure(f)
      BY <1>11, LineFields DEF StartApp, IsFailure
    <3>3. QED
      BY <3>1, <3>2 DEF FailedNow, FailedIn
  <2>4. Fate' = "up"
    BY <2>1, <2>2, <2>3, FateValuesNext
  <2>5. Fate \in {"none", "crashed", "stopped"}
    <3>1. CASE pid = 0
      BY <3>1, FateValues
    <3>2. CASE pid # 0
      <4>1. pid \in Instances /\ proc[pid] \in Fates
        BY <2>1, <3>2, ConfigAssumption DEF TypeInv, TypeOK, Instances
      <4>2. proc[pid] # "up" /\ proc[pid] # "unborn"
        BY <1>11, <4>1 DEF StartApp, GoTo, RunInv, NobodyRuns, Quiet, AuxInv, Instances
      <4>3. QED
        BY <3>2, <4>1, <4>2, FateValues DEF Fates
    <3>3. QED
      BY <3>1, <3>2
  <2>6. Experiment!Replace
    BY <2>1, <2>2, <2>4, <2>5 DEF Experiment!Replace, Uses
  <2>7. QED
    BY <2>6 DEF Experiment!Next
<1>12. CASE StopKill
  <2>1. /\ UNCHANGED <<version, pid, loaded, emitted>>
        /\ Alive /\ version = NumVersions
    BY <1>12 DEF StopKill, GoTo, appVars, AuxInv, Ending
  <2>2. UNCHANGED Uses
    BY <2>1 DEF Uses
  <2>3. Fate \in {"up", "failed"}
    BY <2>1, FateValues DEF Alive
  <2>4. pid \in Instances /\ proc'[pid'] = "killed"
    BY <1>12, <2>1, ConfigAssumption DEF StopKill, Alive, TypeInv, TypeOK, Instances
  <2>5. Fate' = "stopped"
    BY <2>1, <2>4, FateValuesNext DEF Alive
  <2>6. Experiment!Stop
    BY <2>1, <2>2, <2>3, <2>5 DEF Experiment!Stop, Uses
  <2>7. QED
    BY <2>6 DEF Experiment!Next
<1>13. CASE StopKillFails
  <2>1. UNCHANGED <<version, pid, proc, loaded, emitted>>
    BY <1>13 DEF StopKillFails, Alive, GoTo, appVars, fileVars
  <2>2. QED
    BY <2>1 DEF Fate, Uses
<1>14. CASE ShowInfo
  <2>1. UNCHANGED <<version, pid, proc, loaded, emitted>>
    BY <1>14 DEF ShowInfo, GoTo, appVars, fileVars
  <2>2. QED
    BY <2>1 DEF Fate, Uses
<1>15. CASE KeepInfo
  <2>1. UNCHANGED <<version, pid, proc, loaded, emitted>>
    BY <1>15 DEF KeepInfo, AppendInfoToLog, GoTo, appVars, fileVars
  <2>2. QED
    BY <2>1 DEF Fate, Uses
<1>16. ASSUME NEW i \in Instances, NEW v \in Versions, NEW k \in Kinds,
              UpdateTo(i, v, k)
       PROVE  R
  <2> DEFINE l == Line(i, v, k)
  <2>1. /\ i = pid /\ proc[pid] = "up" /\ pid # 0
        /\ UNCHANGED <<version, pid, proc>>
        /\ emitted' = emitted \union {l}
        /\ loaded' = [loaded EXCEPT ![pid] = v]
    <3>1. proc[i] = "up" /\ loaded' = [loaded EXCEPT ![i] = v]
      BY <1>16 DEF UpdateTo
    <3>2. i = pid /\ i # 0
      BY <3>1, ConfigAssumption DEF RunInv, OneRunning, Instances
    <3>3. UNCHANGED <<version, pid, proc>> /\ emitted' = emitted \union {l}
      BY <1>16 DEF UpdateTo, Write, scriptVars
    <3>4. QED
      BY <3>1, <3>2, <3>3
  <2>2. ~IsFailure(l)
    BY <1>16, LineFields DEF UpdateTo, IsFailure
  <2>3. FailedNow' = FailedNow
    BY <2>1, <2>2 DEF FailedNow, FailedIn
  <2>4. Fate' = Fate /\ Fate \in {"up", "failed"}
    BY <2>1, <2>3, FateValues, FateValuesNext
  <2>5. Uses = loaded[pid] /\ Uses' = v
    BY <2>1 DEF TypeInv, TypeOK, Uses
  <2>6. Uses' \in (Uses + 1) .. version
    <3>1. /\ loaded[i] \in Nat /\ judged[i] \in Nat /\ v \in Nat /\ version \in Nat
          /\ loaded[i] <= judged[i]
      BY ConfigAssumption DEF TypeInv, TypeOK, AuxInv, Instances, Versions
    <3>2. judged[i] < v /\ v <= version
      BY <1>16, <3>1 DEF UpdateTo
    <3>3. QED
      BY <2>1, <2>5, <3>1, <3>2
  <2>7. Experiment!Adopt
    BY <2>1, <2>4, <2>6 DEF Experiment!Adopt, Uses
  <2>8. QED
    BY <2>7 DEF Experiment!Next
<1>17. ASSUME NEW i \in Instances, NEW v \in Versions, Reject(i, v)
       PROVE  R
  <2> DEFINE l == Line(i, v, "REJECTED")
  <2>1. /\ i = pid /\ proc[pid] = "up" /\ pid # 0
        /\ UNCHANGED <<version, pid, proc, loaded>>
        /\ emitted' = emitted \union {l}
    BY <1>17 DEF Reject, Write, scriptVars, RunInv, OneRunning, Instances
  <2>2. FailedNow'
    BY <2>1, LineFields DEF FailedNow, FailedIn, IsFailure
  <2>3. Fate' = "failed" /\ Uses' = Uses
    BY <2>1, <2>2, FateValuesNext DEF Uses
  <2>4. CASE FailedNow
    BY <2>1, <2>3, <2>4, FateValues
  <2>5. CASE ~FailedNow
    <3>1. Experiment!Fail
      BY <2>1, <2>3, <2>5, FateValues DEF Experiment!Fail, Uses
    <3>2. QED
      BY <3>1 DEF Experiment!Next
  <2>6. QED
    BY <2>4, <2>5
<1>18. ASSUME NEW i \in Instances, UseOutdated(i)
       PROVE  R
  <2> DEFINE l == Line(i, loaded[i], "OUTDATED")
  <2>1. /\ i = pid /\ proc[pid] = "up" /\ pid # 0
        /\ UNCHANGED <<version, pid, proc, loaded>>
        /\ emitted' = emitted \union {l}
    BY <1>18 DEF UseOutdated, Write, scriptVars, RunInv, OneRunning, Instances
  <2>2. FailedNow'
    BY <2>1, LineFields DEF FailedNow, FailedIn, IsFailure
  <2>3. Fate' = "failed" /\ Uses' = Uses
    BY <2>1, <2>2, FateValuesNext DEF Uses
  <2>4. CASE FailedNow
    BY <2>1, <2>3, <2>4, FateValues
  <2>5. CASE ~FailedNow
    <3>1. Experiment!Fail
      BY <2>1, <2>3, <2>5, FateValues DEF Experiment!Fail, Uses
    <3>2. QED
      BY <3>1 DEF Experiment!Next
  <2>6. QED
    BY <2>4, <2>5
<1>19. ASSUME NEW i \in Instances, Crash(i)
       PROVE  R
  <2>1. /\ i = pid /\ proc[pid] = "up" /\ pid # 0
        /\ UNCHANGED <<version, pid, loaded, emitted>>
        /\ proc'[pid'] = "crashed"
    BY <1>19 DEF Crash, scriptVars, appVars, RunInv, OneRunning, Instances, TypeInv,
                 TypeOK
  <2>2. Fate \in {"up", "failed"} /\ Fate' = "crashed" /\ Uses' = Uses
    BY <2>1, FateValues, FateValuesNext DEF Uses
  <2>3. Experiment!Crash
    BY <2>1, <2>2 DEF Experiment!Crash, Uses
  <2>4. QED
    BY <2>3 DEF Experiment!Next
<1>20. CASE UNCHANGED vars
  BY <1>20 DEF vars, Fate, Uses
<1>21. QED
  BY <1>1, <1>2, <1>3, <1>4, <1>5, <1>6, <1>7, <1>8, <1>9, <1>10, <1>11,
     <1>12, <1>13, <1>14, <1>15, <1>16, <1>17, <1>18, <1>19, <1>20
     DEF Next, Script, App

(* If Luci starts every instance with an empty status.info, the control    *)
(* script implements the experiment of module Backtest.                    *)
THEOREM Implementation == ASSUME TruncatesInfo PROVE Spec => ImplementsExperiment
<1> DEFINE IInv == RunInv /\ LineInv /\ AuxInv /\ FileInv
<1>1. Init => IInv
  BY DEF Init, RunInv, OneRunning, NobodyRuns, Quiet, LineInv, FileInv,
         NoDoubleLogging, LostOnlyAfterFailure, AuxInv, Ending, Instances, Alive
<1>2. TypeInv /\ IInv /\ [Next]_vars => IInv'
  BY NextRunInv, NextLineInv, NextAuxInv, NextFileInv
<1>3. Init => Experiment!Init
  BY DEF Init, Experiment!Init, Fate, Uses
<1>4. TypeInv /\ IInv /\ [Next]_vars => [Experiment!Next]_(Experiment!vars)
  BY NextRefines
<1> HIDE DEF IInv
<1>5. QED
  BY <1>1, <1>2, <1>3, <1>4, Typing, PTL DEF Spec, ImplementsExperiment, Experiment!Spec

-------------------------------------------------------------------------------
(***************************************************************************)
(* The loop.  linktarget() and the end of a delay are its steps, and all   *)
(* other commands belong to run() or stop().                               *)
(***************************************************************************)
LEMMA NextIsLoop == TypeInv /\ [Next]_vars => [Loop!Next]_(Loop!vars)
<1> SUFFICES ASSUME TypeInv, [Next]_vars
             PROVE  Loop!Next \/ UNCHANGED <<Turn, version>>
  BY DEF Loop!vars
<1>1. CASE LinkTarget
  <2>1. Loop!Link
    BY <1>1 DEF LinkTarget, GoTo, Turn, Loop!Link
  <2> QED
    BY <2>1 DEF Loop!Next
<1>2. CASE Delay
  <2>1. Loop!Run
    BY <1>2 DEF Delay, GoTo, Turn, Loop!Run
  <2> QED
    BY <2>1 DEF Loop!Next
<1>3. CASE CheckFirst \/ CheckCrashed \/ CheckFailed \/ CheckHealthy \/ CopyFailed
           \/ TruncateInfo \/ KillForRestart \/ SaveInfo \/ StartApp
  <2>1. /\ pc \in {"check", "copy", "truncate", "kill", "save", "start"}
        /\ pc' \in {"save", "kill", "copy", "delay", "truncate", "start"}
        /\ version' = version
    BY <1>3 DEF CheckFirst, CheckCrashed, CheckFailed, CheckHealthy, CopyFailed,
       TruncateInfo, KillForRestart, SaveInfo, StartApp, GoTo
  <2> QED
    BY <2>1 DEF Turn
<1>4. CASE StopKill \/ StopKillFails \/ ShowInfo \/ KeepInfo
  <2>1. /\ pc \in {"stop", "show", "keep"}
        /\ pc' \in {"show", "aborted", "keep", "finished"}
        /\ version' = version
    BY <1>4 DEF StopKill, StopKillFails, ShowInfo, KeepInfo, GoTo
  <2> QED
    BY <2>1 DEF Turn
<1>5. ASSUME NEW i \in Instances, App(i) PROVE UNCHANGED <<Turn, version>>
  <2>1. pc' = pc /\ version' = version
    BY <1>5 DEF App, UpdateTo, Reject, UseOutdated, Crash, Write, scriptVars
  <2> QED
    BY <2>1 DEF Turn
<1>6. CASE UNCHANGED vars
  BY <1>6 DEF vars, Turn
<1> QED
  BY <1>1, <1>2, <1>3, <1>4, <1>5, <1>6 DEF Next, Script

(* The control script is the same loop as that of LinkTarget, with any     *)
(* application and any Luci: what LinkTarget shows of linktarget() is the  *)
(* step that Control makes of it.                                          *)
THEOREM ControlImplementsLoop == Spec => ImplementsLoop
<1>1. Init => Loop!Init
  BY DEF Init, Loop!Init, Turn
<1>2. TypeInv /\ [Next]_vars => [Loop!Next]_(Loop!vars)
  BY NextIsLoop
<1> QED
  BY <1>1, <1>2, Typing, PTL DEF Spec, ImplementsLoop, Loop!Spec

-------------------------------------------------------------------------------
(***************************************************************************)
(* Ends.  Unless an instance has crashed, the one PID names runs whenever  *)
(* the script looks at it, and status.info holds at least the line about   *)
(* the library it was started with.                                        *)
(***************************************************************************)
Crashed == \E i \in Instances : proc[i] = "crashed"

Watching == {"link", "check", "copy", "truncate", "delay", "stop"}

AbortInv ==
  /\ pc \in {"copy", "truncate", "delay", "stop", "show"} => pid # 0
  /\ pc = "aborted" => Crashed
  /\ pc \in Watching /\ pid # 0 => proc[pid] = "up" \/ Crashed
  /\ pc \in {"link", "check", "copy", "truncate", "delay", "stop", "show"} /\ pid # 0
       => info # {} \/ pc = "truncate"

(* Only a crash ends an instance behind the back of the script.            *)
LEMMA NextAbortInv ==
  ASSUME AnnouncesLoad
  PROVE  TypeInv /\ AbortInv /\ [Next]_vars => AbortInv'
<1> SUFFICES ASSUME TypeInv, AbortInv, [Next]_vars PROVE AbortInv'
  OBVIOUS
<1> USE ConfigAssumption
    DEF TypeInv, TypeOK, PidBound, Restarting, AbortInv, Crashed, Watching, Instances,
        Versions, scriptVars, appVars, fileVars
<1>1. CASE LinkTarget
  BY <1>1 DEF LinkTarget, GoTo
<1>2. CASE Delay
  BY <1>2 DEF Delay, GoTo
<1>3. CASE CheckFirst
  BY <1>3 DEF CheckFirst, GoTo
<1>4. CASE CheckCrashed
  BY <1>4 DEF CheckCrashed, Alive, GoTo
<1>5. CASE CheckFailed
  BY <1>5 DEF CheckFailed, Alive, GoTo
<1>6. CASE CheckHealthy
  BY <1>6 DEF CheckHealthy, Alive, GoTo
<1>7. CASE CopyFailed
  BY <1>7 DEF CopyFailed, AppendInfoToLog, GoTo
<1>8. CASE TruncateInfo
  BY <1>8 DEF TruncateInfo, GoTo
<1>9. CASE KillForRestart
  BY <1>9 DEF KillForRestart, Alive, GoTo
<1>10. CASE SaveInfo
  BY <1>10 DEF SaveInfo, AppendInfoToLog, GoTo
<1>11. CASE StartApp
  BY <1>11 DEF StartApp, GoTo
<1>12. CASE StopKill
  BY <1>12 DEF StopKill, Alive, GoTo
<1>13. CASE StopKillFails
  BY <1>13 DEF StopKillFails, Alive, GoTo
<1>14. CASE ShowInfo
  BY <1>14 DEF ShowInfo, GoTo
<1>15. CASE KeepInfo
  BY <1>15 DEF KeepInfo, AppendInfoToLog, GoTo
<1>16. ASSUME NEW i \in Instances, NEW v \in Versions, NEW k \in Kinds,
              UpdateTo(i, v, k)
       PROVE  AbortInv'
  BY <1>16 DEF UpdateTo, Write
<1>17. ASSUME NEW i \in Instances, NEW v \in Versions, Reject(i, v)
       PROVE  AbortInv'
  BY <1>17 DEF Reject, Write
<1>18. ASSUME NEW i \in Instances, UseOutdated(i)
       PROVE  AbortInv'
  BY <1>18 DEF UseOutdated, Write
<1>19. ASSUME NEW i \in Instances, Crash(i)
       PROVE  AbortInv'
  BY <1>19 DEF Crash
<1>20. CASE UNCHANGED vars
  BY <1>20 DEF vars
<1>21. QED
  BY <1>1, <1>2, <1>3, <1>4, <1>5, <1>6, <1>7, <1>8, <1>9, <1>10, <1>11,
     <1>12, <1>13, <1>14, <1>15, <1>16, <1>17, <1>18, <1>19, <1>20
     DEF Next, Script, App

(* With a Luci that announces the library, the script is ended before its  *)
(* time by crashes only.                                                   *)
THEOREM AbortsOnlyAfterCrashHolds ==
  ASSUME AnnouncesLoad PROVE Spec => []AbortsOnlyAfterCrash
<1>1. Init => AbortInv
  BY DEF Init, AbortInv, Watching
<1>2. TypeInv /\ AbortInv /\ [Next]_vars => AbortInv'
  BY NextAbortInv
<1>3. AbortInv => AbortsOnlyAfterCrash
  BY DEF AbortInv, AbortsOnlyAfterCrash, Crashed
<1>4. QED
  BY <1>1, <1>2, <1>3, Typing, PTL DEF Spec

-------------------------------------------------------------------------------
(***************************************************************************)
(* Updates counted.  An instance begins with a version that no earlier one *)
(* has gone beyond, and goes from there to later ones only.  So the lines  *)
(* about updates, of all instances, are about different versions, none of  *)
(* which is the first.                                                     *)
(***************************************************************************)
CountInv ==
  /\ pid # 0 => judged[pid] \in 1 .. version
  /\ \A l \in Counted(emitted) : pid # 0 /\ 2 <= l.ver /\ l.ver <= judged[pid]
  /\ \A l, m \in Counted(emitted) : l.ver = m.ver => l = m

(* The versions of those lines are numbers up to the one judged last.      *)
LEMMA CountedVersions ==
  TypeInv /\ CountInv
  => \A l \in Counted(emitted) :
       /\ pid # 0
       /\ l.ver \in Nat /\ 2 <= l.ver /\ l.ver <= judged[pid]
<1> SUFFICES ASSUME TypeInv, CountInv, NEW l \in Counted(emitted)
             PROVE  pid # 0 /\ l.ver \in Nat /\ 2 <= l.ver /\ l.ver <= judged[pid]
  OBVIOUS
<1>1. l \in Lines
  BY DEF Counted, TypeInv, TypeOK
<1>2. l.ver \in Nat
  BY <1>1, LineFields, ConfigAssumption DEF Versions
<1>3. QED
  BY <1>2 DEF CountInv

(* A new line about an update is about a version that has none yet.        *)
LEMMA NextCountInv == TypeInv /\ RunInv /\ LineInv /\ CountInv /\ [Next]_vars => CountInv'
<1> SUFFICES ASSUME TypeInv, RunInv, LineInv, CountInv, [Next]_vars PROVE CountInv'
  OBVIOUS
<1> USE ConfigAssumption, LineFields
    DEF TypeInv, TypeOK, PidBound, Restarting, CountInv, Instances, Versions,
        scriptVars, appVars, fileVars
<1>1. CASE LinkTarget
  BY <1>1 DEF LinkTarget, GoTo
<1>2. CASE Delay
  BY <1>2 DEF Delay, GoTo
<1>3. CASE CheckFirst
  BY <1>3 DEF CheckFirst, GoTo
<1>4. CASE CheckCrashed
  BY <1>4 DEF CheckCrashed, Alive, GoTo
<1>5. CASE CheckFailed
  BY <1>5 DEF CheckFailed, Alive, GoTo
<1>6. CASE CheckHealthy
  BY <1>6 DEF CheckHealthy, Alive, GoTo
<1>7. CASE CopyFailed
  BY <1>7 DEF CopyFailed, AppendInfoToLog, GoTo
<1>8. CASE TruncateInfo
  BY <1>8 DEF TruncateInfo, GoTo
<1>9. CASE KillForRestart
  BY <1>9 DEF KillForRestart, Alive, GoTo
<1>10. CASE SaveInfo
  BY <1>10 DEF SaveInfo, AppendInfoToLog, GoTo
<1>11. CASE StartApp
  <2> DEFINE new  == pid + 1
             said == IF AnnouncesLoad THEN {Line(new, version, "LOADED")} ELSE {}
  <2>1. /\ pid' = new /\ version' = version /\ new \in Instances
        /\ judged' = [judged EXCEPT ![new] = version]
        /\ emitted' = emitted \union said
    BY <1>11 DEF StartApp, GoTo
  <2>2. Counted(emitted') = Counted(emitted)
    BY <2>1 DEF Counted
  <2>3. judged'[pid'] = version /\ version \in 1 .. version
    BY <1>11, <2>1 DEF StartApp, GoTo
  <2>4. \A l \in Counted(emitted) : 2 <= l.ver /\ l.ver <= version
    <3> SUFFICES ASSUME NEW l \in Counted(emitted)
                 PROVE  2 <= l.ver /\ l.ver <= version
      OBVIOUS
    <3>1. pid \in Instances /\ 2 <= l.ver /\ l.ver <= judged[pid] /\ judged[pid] <= version
      OBVIOUS
    <3>2. l \in Lines
      BY DEF Counted
    <3>3. QED
      BY <3>1, <3>2
  <2>5. /\ pid' # 0 => judged'[pid'] \in 1 .. version'
        /\ \A l \in Counted(emitted') : pid' # 0 /\ 2 <= l.ver /\ l.ver <= judged'[pid']
    BY <2>1, <2>2, <2>3, <2>4
  <2>6. \A l, m \in Counted(emitted') : l.ver = m.ver => l = m
    BY <2>2
  <2>7. QED
    BY <2>5, <2>6
<1>12. CASE StopKill
  BY <1>12 DEF StopKill, Alive, GoTo
<1>13. CASE StopKillFails
  BY <1>13 DEF StopKillFails, Alive, GoTo
<1>14. CASE ShowInfo
  BY <1>14 DEF ShowInfo, GoTo
<1>15. CASE KeepInfo
  BY <1>15 DEF KeepInfo, AppendInfoToLog, GoTo
<1>16. ASSUME NEW i \in Instances, NEW v \in Versions, NEW k \in Kinds,
              UpdateTo(i, v, k)
       PROVE  CountInv'
  <2>1. i = pid /\ judged[i] < v /\ v <= version
    BY <1>16 DEF UpdateTo, RunInv, OneRunning
  <2>2. judged' = [judged EXCEPT ![i] = v] /\ pid' = pid /\ version' = version
    BY <1>16 DEF UpdateTo, Write
  <2>3. Counted(emitted') \subseteq Counted(emitted) \union {Line(i, v, k)}
    BY <1>16 DEF UpdateTo, Write, Counted
  <2>4. judged[pid] \in 1 .. version /\ v \in Nat /\ judged'[pid'] = v
    BY <2>1, <2>2
  <2>5. \A l \in Counted(emitted) : 2 <= l.ver /\ l.ver < v
    <3> HIDE DEF CountInv, TypeInv
    <3>1. judged[pid] \in Nat /\ judged[pid] < v
      BY <2>1, <2>4
    <3>2. QED
      BY <2>4, <3>1, CountedVersions
  <2>6. /\ pid' # 0 => judged'[pid'] \in 1 .. version'
        /\ \A l \in Counted(emitted') : pid' # 0 /\ 2 <= l.ver /\ l.ver <= judged'[pid']
    <3>1. 2 <= v /\ Line(i, v, k).ver = v /\ pid' # 0
      BY <2>1, <2>2, <2>4
    <3>2. \A l \in Counted(emitted') : 2 <= l.ver /\ l.ver <= v
      <4> HIDE DEF CountInv, TypeInv
      <4>1. QED
        BY <2>3, <2>4, <2>5, <3>1, CountedVersions
    <3>3. judged'[pid'] \in 1 .. version'
      BY <2>1, <2>2, <2>4
    <3>4. QED
      BY <2>4, <3>1, <3>2, <3>3
  <2>7. \A l, m \in Counted(emitted') : l.ver = m.ver => l = m
    <3>1. \A l \in Counted(emitted) : l.ver # v
      <4> HIDE DEF CountInv
      <4>1. QED
        BY <2>4, <2>5
    <3>2. \A l, m \in Counted(emitted) : l.ver = m.ver => l = m
      OBVIOUS
    <3>3. Line(i, v, k).ver = v
      OBVIOUS
    <3>4. QED
      BY <2>3, <3>1, <3>2, <3>3
  <2>8. QED
    BY <2>6, <2>7
<1>17. ASSUME NEW i \in Instances, NEW v \in Versions, Reject(i, v)
       PROVE  CountInv'
  <2>1. i = pid /\ judged[i] < v /\ v <= version
    BY <1>17 DEF Reject, RunInv, OneRunning
  <2>2. judged' = [judged EXCEPT ![i] = v] /\ pid' = pid /\ version' = version
    BY <1>17 DEF Reject, Write
  <2>3. Counted(emitted') = Counted(emitted)
    BY <1>17 DEF Reject, Write, Counted
  <2>4. judged[pid] \in Nat /\ judged'[pid'] = v /\ v \in 1 .. version'
    BY <2>1, <2>2
  <2>5. pid' = pid /\ judged[pid] < v /\ v \in Nat
    BY <2>1, <2>2
  <2>6. \A l \in Counted(emitted') : pid' # 0 /\ 2 <= l.ver /\ l.ver <= judged'[pid']
    <3> HIDE DEF CountInv, TypeInv
    <3>1. QED
      BY <2>3, <2>4, <2>5, CountedVersions
  <2>7. QED
    BY <2>3, <2>4, <2>6
<1>18. ASSUME NEW i \in Instances, UseOutdated(i)
       PROVE  CountInv'
  <2>1. Counted(emitted') = Counted(emitted)
    BY <1>18 DEF UseOutdated, Write, Counted
  <2>2. QED
    BY <1>18, <2>1 DEF UseOutdated, Write
<1>19. ASSUME NEW i \in Instances, Crash(i)
       PROVE  CountInv'
  BY <1>19 DEF Crash
<1>20. CASE UNCHANGED vars
  BY <1>20 DEF vars
<1>21. QED
  BY <1>1, <1>2, <1>3, <1>4, <1>5, <1>6, <1>7, <1>8, <1>9, <1>10, <1>11,
     <1>12, <1>13, <1>14, <1>15, <1>16, <1>17, <1>18, <1>19, <1>20
     DEF Next, Script, App

(* Lines about updates are as many as there are versions after the first,  *)
(* at most, for each is about one of its own.                              *)
LEMMA CountBound ==
  TypeInv /\ LineInv /\ CountInv
  => /\ Cardinality(Counted(log)) \in Nat
     /\ Cardinality(Counted(log)) <= NumVersions - 1
<1> SUFFICES ASSUME TypeInv, LineInv, CountInv
             PROVE  /\ Cardinality(Counted(log)) \in Nat
                    /\ Cardinality(Counted(log)) <= NumVersions - 1
  OBVIOUS
<1> DEFINE C == Counted(log)
           T == 2 .. NumVersions
           f == [l \in C |-> l.ver]
<1>1. C \subseteq Counted(emitted) /\ C \subseteq Lines
  BY DEF LineInv, Counted, TypeInv, TypeOK
<1>2. \A l \in C : l.ver \in T
  BY <1>1, LineFields, ConfigAssumption DEF CountInv, Versions
<1>3. \A l, m \in C : l.ver = m.ver => l = m
  BY <1>1 DEF CountInv
<1>4. f \in Injection(C, T)
  BY <1>2, <1>3 DEF Injection, IsInjective
<1>5. IsFiniteSet(T) /\ Cardinality(T) = NumVersions - 1
  <2>1. 2 \in Int /\ NumVersions \in Int /\ NumVersions >= 1
    BY ConfigAssumption
  <2>2. QED
    BY <2>1, FS_Interval
<1> HIDE DEF C, T, f
<1>6. IsFiniteSet(C) /\ Cardinality(C) <= Cardinality(T)
  BY <1>4, <1>5, FS_Injection
<1>7. QED
  BY <1>5, <1>6, FS_CardinalityType DEF C

(* If Luci starts every instance with an empty status.info, the summary    *)
(* never counts more updates than there could have been.                   *)
THEOREM AtMostAllUpdatedHolds ==
  ASSUME TruncatesInfo PROVE Spec => []AtMostAllUpdated
<1> DEFINE IInv == RunInv /\ LineInv /\ CountInv
<1>1. Init => IInv
  BY DEF Init, RunInv, OneRunning, NobodyRuns, Quiet, LineInv, CountInv, Counted
<1>2. TypeInv /\ IInv /\ [Next]_vars => IInv'
  BY NextRunInv, NextLineInv, NextCountInv
<1>3. TypeInv /\ IInv /\ NoDoubleLogging => AtMostAllUpdated
  <2> SUFFICES ASSUME TypeInv, IInv, NoDoubleLogging PROVE AtMostAllUpdated
    OBVIOUS
  <2>1. /\ Cardinality(Counted(log)) \in Nat
        /\ Cardinality(Counted(log)) <= NumVersions - 1
    BY CountBound
  <2>2. Counted(dup) = {}
    BY DEF NoDoubleLogging, Counted
  <2>3. Cardinality(Counted(dup)) = 0
    BY <2>2, FS_EmptySet
  <2>4. QED
    BY ConfigAssumption, <2>1, <2>3 DEF AtMostAllUpdated
<1> HIDE DEF IInv
<1>4. QED
  BY <1>1, <1>2, <1>3, Typing, NoDoubleLoggingHolds, PTL DEF Spec

-------------------------------------------------------------------------------
(***************************************************************************)
(* Progress.  CommandsLeft is a natural number that no step raises and     *)
(* every command of the script lowers: what AllVersionsTried needs beside  *)
(* the fairness of the script.                                             *)
(***************************************************************************)

(* A turn has 11 commands at most, and a turn that is over has none.       *)
LEMMA TurnBound ==
  TypeOK => /\ CommandsOfTurn \in 0 .. 11
            /\ CommandsOfTurn = 0 <=> pc \in {"finished", "aborted"}
  BY DEF TypeOK, Labels, CommandsOfTurn

(* Commands lower the number, the application leaves it alone.             *)
LEMMA NextAdvances ==
  TypeInv /\ [Next]_vars => CommandsLeft' < CommandsLeft \/ UNCHANGED scriptVars
<1> SUFFICES ASSUME TypeInv, [Next]_vars
             PROVE  CommandsLeft' < CommandsLeft \/ UNCHANGED scriptVars
  OBVIOUS
<1>1. version \in Nat /\ NumVersions \in Nat
  BY ConfigAssumption DEF TypeInv, TypeOK
<1>0. ASSUME version' = version, NEW a \in 0 .. 11, NEW b \in 0 .. 11,
             CommandsOfTurn = a, CommandsOfTurn' = b, b < a
      PROVE  CommandsLeft' < CommandsLeft
  <2> DEFINE turns == 8 * (NumVersions - version)
  <2>1. turns \in Int
    BY <1>1
  <2>2. CommandsLeft = turns + a /\ CommandsLeft' = turns + b
    BY <1>0 DEF CommandsLeft
  <2> HIDE DEF turns
  <2>3. QED
    BY <1>0, <2>1, <2>2
<1>2. CASE LinkTarget
  <2>1. version' = version + 1 /\ CommandsOfTurn = 4 /\ CommandsOfTurn' = 11
    BY <1>2 DEF LinkTarget, GoTo, CommandsOfTurn
  <2>2. QED
    BY <1>1, <2>1 DEF CommandsLeft
<1>3. CASE Delay
  <2>1. version' = version /\ CommandsOfTurn = 5 /\ CommandsOfTurn' \in {3, 4}
    BY <1>3 DEF Delay, GoTo, CommandsOfTurn
  <2>2. QED
    BY <1>0, <2>1
<1>4. CASE CheckFirst \/ CheckCrashed \/ CheckFailed \/ CheckHealthy \/ CopyFailed
  <2>1. /\ version' = version
        /\ CommandsOfTurn \in {10, 11} /\ CommandsOfTurn' \in {5, 7, 8, 9, 10}
        /\ CommandsOfTurn' < CommandsOfTurn
    BY <1>4 DEF CheckFirst, CheckCrashed, CheckFailed, CheckHealthy, CopyFailed,
       GoTo, CommandsOfTurn
  <2>2. QED
    BY <1>0, <2>1
<1>5. CASE TruncateInfo \/ KillForRestart \/ SaveInfo \/ StartApp
  <2>1. /\ version' = version
        /\ CommandsOfTurn \in {6, 7, 8, 9} /\ CommandsOfTurn' = CommandsOfTurn - 1
    BY <1>5 DEF TruncateInfo, KillForRestart, SaveInfo, StartApp, GoTo, CommandsOfTurn
  <2>2. QED
    BY <1>0, <2>1
<1>6. CASE StopKill \/ StopKillFails \/ ShowInfo \/ KeepInfo
  <2>1. /\ version' = version
        /\ CommandsOfTurn \in {1, 2, 3} /\ CommandsOfTurn' \in {0, 1, 2}
        /\ CommandsOfTurn' < CommandsOfTurn
    BY <1>6 DEF StopKill, StopKillFails, ShowInfo, KeepInfo, GoTo, CommandsOfTurn
  <2>2. QED
    BY <1>0, <2>1
<1>7. ASSUME NEW i \in Instances, App(i) PROVE UNCHANGED scriptVars
  BY <1>7 DEF App, UpdateTo, Reject, UseOutdated, Crash, Write
<1>8. CASE UNCHANGED vars
  BY <1>8 DEF vars, scriptVars
<1> QED
  BY <1>2, <1>3, <1>4, <1>5, <1>6, <1>7, <1>8 DEF Next, Script

(* Every command brings the script nearer to its end, whatever the         *)
(* application does, for any number of versions.                           *)
THEOREM ScriptAdvancesHolds == Spec => ScriptAdvances
<1>1. TypeInv /\ [Next]_vars
      => [CommandsLeft' < CommandsLeft \/ UNCHANGED scriptVars]_vars
  BY NextAdvances
<1>2. QED
  BY <1>1, Typing, PTL DEF Spec, ScriptAdvances

(* The number is zero at the end of the script and nowhere else, and the   *)
(* end comes after the last version.                                       *)
THEOREM OverAtZeroHolds == Spec => []OverAtZero
<1>1. Init => AuxInv
  BY ConfigAssumption DEF Init, AuxInv, Ending, Instances
<1>2. TypeInv /\ AuxInv /\ [Next]_vars => AuxInv'
  BY NextAuxInv
<1>3. TypeInv /\ AuxInv => OverAtZero
  <2> SUFFICES ASSUME TypeInv, AuxInv PROVE OverAtZero
    OBVIOUS
  <2>1. /\ CommandsOfTurn \in 0 .. 11
        /\ CommandsOfTurn = 0 <=> pc \in {"finished", "aborted"}
    BY TurnBound DEF TypeInv
  <2>2. pc \in {"finished", "aborted"} => version = NumVersions
    BY DEF AuxInv, Ending
  <2>3. version \in 0 .. NumVersions /\ NumVersions \in Nat
    BY ConfigAssumption DEF TypeInv, TypeOK
  <2>4. QED
    BY <2>1, <2>2, <2>3 DEF OverAtZero, CommandsLeft
<1>4. QED
  BY <1>1, <1>2, <1>3, Typing, PTL DEF Spec

(* An instance that is kept runs and has no failed update behind it: the   *)
(* grep of run() sees every failure there has been, as the failures of a   *)
(* running instance are still in status.info.                              *)
THEOREM KeepsSoundOnlyHolds == Spec => KeepsSoundOnly
<1> DEFINE Sound == Alive /\ \A l \in emitted : l.inst = pid => ~IsFailure(l)
           Keep  == pc = "check" /\ pc' = "delay" => Sound
<1>1. TypeInv /\ FailureStaysVisible /\ [Next]_vars => [Keep]_vars
  <2> SUFFICES ASSUME FailureStaysVisible, [Next]_vars, pc = "check", pc' = "delay"
               PROVE  Sound
    OBVIOUS
  <2>1. CheckHealthy
    <3>1. ~UNCHANGED vars
      BY DEF vars
    <3>2. ASSUME NEW i \in Instances, App(i) PROVE FALSE
      BY <3>2 DEF App, UpdateTo, Reject, UseOutdated, Crash, Write, scriptVars
    <3>3. QED
      BY <3>1, <3>2 DEF Next, Script, LinkTarget, Delay, CheckFirst, CheckCrashed,
         CheckFailed, CopyFailed, TruncateInfo, KillForRestart, SaveInfo, StartApp,
         StopKill, StopKillFails, ShowInfo, KeepInfo, GoTo
  <2>2. Alive /\ \A l \in info : ~IsFailure(l)
    BY <2>1 DEF CheckHealthy, HasFailure
  <2>3. ASSUME NEW l \in emitted, l.inst = pid, IsFailure(l) PROVE FALSE
    BY <2>2, <2>3 DEF FailureStaysVisible, Alive
  <2>4. QED
    BY <2>2, <2>3
<1> HIDE DEF Keep
<1>2. Spec => [][Keep]_vars
  BY <1>1, Typing, FailureStaysVisibleHolds, PTL DEF Spec
<1>3. QED
  BY <1>2 DEF Keep, KeepsSoundOnly

===============================================================================
