----------------------------- MODULE Testor_proofs -----------------------------
(***************************************************************************)
(* Proofs about both branches of tools/testor.sh: the switching of the     *)
(* links inside of the container (LinkTarget), for any versions and files, *)
(* and the host's side of it (Host), for any number of runs.               *)
(***************************************************************************)
EXTENDS LinkTarget, Host, TLAPS

-------------------------------------------------------------------------------
(* Inside of the container                                                 *)

(***************************************************************************)
(* What each link is at each point of a change.  Between two changes there *)
(* is nothing but the current version; during a change a file that is not  *)
(* visited yet is as the previous change has left it.                      *)
(***************************************************************************)
Settled(v, n) == IF v > 0 /\ n \in Files[v] THEN v ELSE 0

Progress ==
  /\ pc = "link" =>
       /\ version > 0
       /\ todo \subseteq Files[version]
       /\ \A n \in Names :
            link[n] = IF n \in Files[version] \ todo THEN version
                      ELSE Settled(version - 1, n)
  /\ pc = "remove" =>
       /\ version > 0
       /\ \A n \in Names :
            IF n \in Files[version] THEN link[n] = version
                                    ELSE link[n] \in {0, version - 1}
  /\ pc \in {"next", "run", "stop"} =>
       \A n \in Names : link[n] = Settled(version, n)
  /\ pc \in {"run", "stop"} => version > 0

LinkInv == TypeOK /\ Progress

(* No step leaves a link in a state that Progress does not allow.          *)
LEMMA NextLinkInv == LinkInv /\ [Next]_vars => LinkInv'
<1> SUFFICES ASSUME LinkInv, [Next]_vars PROVE LinkInv'
  OBVIOUS
<1> USE FilesAssumption DEF LinkInv, TypeOK, Progress, Settled, Labels
<1>1. CASE Begin
  BY <1>1 DEF Begin
<1>2. CASE EndOfFiles
  BY <1>2 DEF EndOfFiles
<1>3. CASE EndOfRemoval
  <2>1. \A n \in Names : link[n] # 0 => link[n] = version
    BY <1>3 DEF EndOfRemoval, Stale, Linked
  <2>2. QED
    BY <1>3, <2>1 DEF EndOfRemoval
<1>4. CASE Run
  BY <1>4 DEF Run
<1>5. ASSUME NEW m \in Names, LinkFile(m) PROVE LinkInv'
  BY <1>5 DEF LinkFile
<1>6. ASSUME NEW m \in Names, RemoveStale(m) PROVE LinkInv'
  BY <1>6 DEF RemoveStale, Stale, Linked
<1>7. CASE UNCHANGED vars
  BY <1>7 DEF vars
<1>8. QED
  BY <1>1, <1>2, <1>3, <1>4, <1>5, <1>6, <1>7 DEF Next

(* The invariant holds of the script, whichever files the versions have.   *)
THEOREM LinkInvHolds == Spec => []LinkInv
<1>1. Init => LinkInv
  BY FilesAssumption DEF Init, LinkInv, TypeOK, Progress, Settled, Labels
<1>2. LinkInv /\ [Next]_vars => LinkInv'
  BY NextLinkInv
<1>3. QED
  BY <1>1, <1>2, PTL DEF Spec

(* Whenever run() is called there is exactly the current version.          *)
THEOREM RunSeesOneVersionHolds == Spec => []RunSeesOneVersion
<1>1. LinkInv => RunSeesOneVersion
  BY FilesAssumption DEF LinkInv, TypeOK, Progress, Settled, RunSeesOneVersion
<1>2. QED
  BY <1>1, LinkInvHolds, PTL

(* A file that two successive versions share is linked all the time.       *)
THEOREM SharedFilesStayHolds == Spec => []SharedFilesStay
<1>1. LinkInv => SharedFilesStay
  BY FilesAssumption
     DEF LinkInv, TypeOK, Progress, Settled, SharedFilesStay, Linked, Labels
<1>2. QED
  BY <1>1, LinkInvHolds, PTL

(* No link is ever left over from more than one change ago.                *)
THEOREM MixesTwoVersionsHolds == Spec => []MixesTwoVersions
<1>1. LinkInv => MixesTwoVersions
  BY FilesAssumption
     DEF LinkInv, TypeOK, Progress, Settled, MixesTwoVersions, Linked, Labels
<1>2. QED
  BY <1>1, LinkInvHolds, PTL

(* Seen from the library under test, linktarget() is a single step.        *)
THEOREM LibraryAdvancesHolds == Spec => LibraryAdvances
<1> DEFINE Advance == link'[Library] # link[Library]
                        => link'[Library] = link[Library] + 1
<1>1. LinkInv /\ [Next]_vars => [Advance]_vars
  <2> SUFFICES ASSUME LinkInv, [Next]_vars, link'[Library] # link[Library]
               PROVE link'[Library] = link[Library] + 1
    BY DEF vars
  <2> USE FilesAssumption DEF LinkInv, TypeOK, Progress, Settled, Labels
  <2>1. ASSUME NEW m \in Names, LinkFile(m) PROVE link'[Library] = link[Library] + 1
    <3>1. m = Library /\ link'[Library] = version
      BY <2>1 DEF LinkFile
    <3>2. link[Library] = Settled(version - 1, Library)
      BY <2>1, <3>1 DEF LinkFile
    <3>3. QED
      BY <2>1, <3>1, <3>2 DEF LinkFile
  <2>2. ASSUME NEW m \in Names, RemoveStale(m) PROVE FALSE
    BY <2>2 DEF RemoveStale, Stale, Linked
  <2>3. QED
    BY <2>1, <2>2 DEF Next, Begin, EndOfFiles, EndOfRemoval, Run, vars
<1>2. QED
  BY <1>1, LinkInvHolds, PTL DEF Spec, LibraryAdvances

(* Where the loop is, and what the library is linked to.                   *)
LEMMA LibraryLink ==
  ASSUME LinkInv
  PROVE  /\ Library \in Names
         /\ link[Library] = IF pc = "link" /\ Library \in todo THEN version - 1 ELSE version
         /\ pc \in {"link", "remove", "run", "stop"} => version > 0
<1> USE FilesAssumption DEF LinkInv, TypeOK, Progress, Settled, Labels
<1>1. Library \in Names
  BY 1 \in 1 .. NumVersions
<1>2. version > 0 => Library \in Files[version]
  OBVIOUS
<1>3. version > 1 => version - 1 > 0 /\ Library \in Files[version - 1]
  OBVIOUS
<1>4. CASE pc = "link"
  <2>1. version > 0
    BY <1>4
  <2>2. CASE Library \in todo
    <3>1. link[Library] = Settled(version - 1, Library)
      BY <1>1, <1>4, <2>2
    <3>2. CASE version = 1
      BY <1>1, <1>4, <2>1, <2>2, <3>1, <3>2
    <3>3. CASE version # 1
      BY <1>1, <1>3, <1>4, <2>1, <2>2, <3>1, <3>3
    <3> QED
      BY <3>2, <3>3
  <2>3. CASE Library \notin todo
    BY <1>1, <1>2, <1>4, <2>1, <2>3
  <2> QED
    BY <2>2, <2>3
<1>5. CASE pc = "remove"
  BY <1>1, <1>2, <1>5
<1>6. CASE pc \in {"next", "run", "stop"}
  BY <1>1, <1>2, <1>6
<1> QED
  BY <1>4, <1>5, <1>6

(* Linking the library is the step of the loop, a return of run() one, and *)
(* all others are steps of its parts.                                      *)
LEMMA NextIsLoop == LinkInv /\ [Next]_vars => [Loop!Next]_(Loop!vars)
<1> SUFFICES ASSUME LinkInv, [Next]_vars
             PROVE  Loop!Next \/ UNCHANGED <<Turn, link[Library]>>
  BY DEF Loop!vars
<1>0. LinkInv'
  BY NextLinkInv
<1>1. /\ Library \in Names
      /\ link[Library] = IF pc = "link" /\ Library \in todo THEN version - 1 ELSE version
      /\ pc \in {"link", "remove", "run", "stop"} => version > 0
  BY LibraryLink
<1>2. version \in 0 .. NumVersions /\ link \in [Names -> 0 .. NumVersions]
  BY DEF LinkInv, TypeOK
<1>3. CASE Begin
  <2>1. Library \in todo' /\ pc' = "link" /\ link' = link
    BY <1>2, <1>3, FilesAssumption DEF Begin
  <2> QED
    BY <1>3, <2>1 DEF Begin, Turn
<1>4. CASE EndOfFiles
  BY <1>4 DEF EndOfFiles, Turn
<1>5. CASE EndOfRemoval
  BY <1>5 DEF EndOfRemoval, Turn
<1>6. CASE Run
  <2>1. /\ Turn = "run"
        /\ Turn' = IF version < NumVersions THEN "linktarget" ELSE "over"
    BY <1>6 DEF Run, Turn
  <2>2. link[Library] = version /\ link'[Library] = link[Library]
    BY <1>1, <1>6 DEF Run
  <2>3. Loop!Run
    BY <2>1, <2>2 DEF Loop!Run
  <2> QED
    BY <2>3 DEF Loop!Next
<1>7. ASSUME NEW n \in Names, LinkFile(n)
      PROVE  Loop!Next \/ UNCHANGED <<Turn, link[Library]>>
  <2>1. CASE n = Library
    <3>1. Turn = "linktarget" /\ Turn' = "run"
      BY <1>7, <2>1 DEF LinkFile, Turn
    <3>2. link[Library] = version - 1 /\ link'[Library] = version /\ version > 0
      BY <1>1, <1>2, <1>7, <2>1 DEF LinkFile
    <3>3. link[Library] < NumVersions /\ link'[Library] = link[Library] + 1
      BY <1>2, <3>2, FilesAssumption
    <3>4. Loop!Link
      BY <3>1, <3>3 DEF Loop!Link
    <3> QED
      BY <3>4 DEF Loop!Next
  <2>2. CASE n # Library
    BY <1>1, <1>2, <1>7, <2>2 DEF LinkFile, Turn
  <2> QED
    BY <2>1, <2>2
<1>8. ASSUME NEW n \in Names, RemoveStale(n)
      PROVE  UNCHANGED <<Turn, link[Library]>>
  <2>1. n # Library
    BY <1>1, <1>8 DEF RemoveStale, Stale, Linked
  <2> QED
    BY <1>1, <1>2, <1>8, <2>1 DEF RemoveStale, Turn
<1>9. CASE UNCHANGED vars
  BY <1>9 DEF vars, Turn
<1> QED
  BY <1>3, <1>4, <1>5, <1>6, <1>7, <1>8, <1>9 DEF Next

(* Whichever files the versions have, and in whichever order find visits   *)
(* them, linktarget() is one step of the loop for whoever follows the link *)
(* of the library.                                                         *)
THEOREM LinkTargetImplementsLoop == Spec => ImplementsLoop
<1>1. Init /\ LinkInv => Loop!Init
  BY LibraryLink DEF Init, Loop!Init, Turn
<1>2. LinkInv /\ [Next]_vars => [Loop!Next]_(Loop!vars)
  BY NextIsLoop
<1> QED
  BY <1>1, <1>2, LinkInvHolds, PTL DEF Spec, ImplementsLoop, Loop!Spec

-------------------------------------------------------------------------------
(* Outside of the container                                                *)

(* Runs that are served by their own service, or were until it died.       *)
Serving == {"trap", "docker", "cleanup"}

(* The answer to whether run r has got its summary or an excuse.           *)
Accounted(r) ==
  \/ r \in summaries \/ r \in died \/ r \in Untranslatable
  \/ <<r, "cleanup">> \in cut \/ <<r, "summary">> \in cut

(* Where the script is, and which service is up.                           *)
ServiceInv ==
  /\ host_pc # "idle" => run \in Runs
  /\ host_pc \in {"cache", "service"} => run \in Vanilla
  /\ up = {port} \ {0}
  /\ port # 0 => port \in Vanilla /\ port <= run
  /\ port # 0 /\ (port < run \/ host_pc \notin Serving) => port \in Unguarded

(* Which tests have been started, and what has become of their services.   *)
SummaryInv ==
  /\ \A r \in tested : r <= run
  /\ run \in tested => host_pc \in {"docker", "cleanup", "summary", "idle"}
  /\ host_pc \in Serving /\ run \in Vanilla => port = run \/ run \in died
  /\ \A r \in tested : Over(r) => Accounted(r)

HostInv == HostTypeOK /\ ServiceInv /\ SummaryInv

(* The invariant holds at first.                                           *)
LEMMA InitHostInv == HostInit => HostInv
<1> SUFFICES ASSUME HostInit PROVE HostInv
  OBVIOUS
<1>1. HostTypeOK
  <2>1. cut \subseteq Runs \X HostLabels /\ up \subseteq Runs /\ summaries \subseteq Runs
        /\ tested \subseteq Runs /\ died \subseteq Runs
    BY DEF HostInit
  <2>2. host_pc \in HostLabels /\ ok \in BOOLEAN /\ linked \subseteq Runs /\ copied \subseteq linked
    BY DEF HostInit, HostLabels
  <2>3. run \in 0 .. NumRuns /\ port \in 0 .. NumRuns
    BY RunsAssumption DEF HostInit
  <2> QED
    BY <2>1, <2>2, <2>3 DEF HostTypeOK
<1>2. ServiceInv
  BY DEF HostInit, ServiceInv
<1>3. SummaryInv
  BY DEF HostInit, SummaryInv, Serving
<1> QED
  BY <1>1, <1>2, <1>3 DEF HostInv

(* Every command, interrupt and death of a service preserves it.           *)
LEMMA StepHostInv == HostInv /\ [HostNext]_hostVars => HostInv'
<1> SUFFICES ASSUME HostInv, [HostNext]_hostVars PROVE HostInv'
  OBVIOUS
<1> USE RunsAssumption DEF HostInv, HostTypeOK, ServiceInv, SummaryInv, HostLabels, Runs,
            Serving, Over, Accounted, Unguarded, Untranslatable, GoTo, history, logs
<1>1. CASE BeginRun
  <2>1. run' = run + 1 /\ run' \in Runs /\ host_pc = "idle" /\ host_pc' \in {"cache", "trap"}
    BY <1>1 DEF BeginRun
  <2>2. UNCHANGED <<up, port, cut, tested, died, linked, copied, summaries>> /\ ok' \in BOOLEAN
    BY <1>1 DEF BeginRun
  <2>3. HostTypeOK'
    BY <2>1, <2>2
  <2>4. host_pc' = "cache" => run' \in Vanilla
    BY <1>1 DEF BeginRun
  <2>5. host_pc' = "trap" => run' \notin Vanilla
    BY <1>1 DEF BeginRun
  <2>6. ServiceInv'
    BY <2>1, <2>2, <2>4
  <2>7. run' \notin tested
    BY <2>1
  <2>8. SummaryInv'
    BY <2>1, <2>2, <2>5, <2>7
  <2> QED
    BY <2>3, <2>6, <2>8
<1>2. CASE FillCache
  BY <1>2 DEF FillCache
<1>3. CASE StartService
  BY <1>3 DEF StartService
<1>4. CASE InstallTrap
  BY <1>4 DEF InstallTrap
<1>5. CASE DockerEnds
  BY <1>5 DEF DockerEnds
<1>6. CASE StopService
  BY <1>6 DEF StopService
<1>7. CASE Summarize
  BY <1>7 DEF Summarize
<1>8. CASE Interrupt
  BY <1>8 DEF Interrupt
<1>9. CASE LinkVersion
  BY <1>9 DEF LinkVersion
<1>10. CASE CopyStatus
  BY <1>10 DEF CopyStatus
<1>11. ASSUME NEW r \in Runs, ServiceDies(r) PROVE HostInv'
  BY <1>11 DEF ServiceDies
<1>12. CASE UNCHANGED hostVars
  BY <1>12 DEF hostVars
<1> QED
  BY <1>1, <1>2, <1>3, <1>4, <1>5, <1>6, <1>7, <1>8, <1>9, <1>10, <1>11, <1>12
  DEF HostNext, Script

(* It holds for ever.                                                      *)
THEOREM HostInvariant == HostSpec => []HostInv
BY InitHostInv, StepHostInv, PTL DEF HostSpec

(* A service outlives its run only after an interrupt in one of the gaps   *)
(* (preload() and cleanup() of run-test.sh).                               *)
THEOREM NoLeak == HostSpec => []LeaksOnlyUnguarded
<1>1. HostInv => LeaksOnlyUnguarded
  BY DEF HostInv, HostTypeOK, ServiceInv, LeaksOnlyUnguarded, Over, Serving
<1> QED
  BY <1>1, HostInvariant, PTL

(* The container of a run talks to its own service, to none, or to one     *)
(* left behind in a gap (the fixed port in preload()).                     *)
THEOREM NoForeignService == HostSpec => []ForeignServiceOnlyUnguarded
<1>1. HostInv => ForeignServiceOnlyUnguarded
  BY DEF HostInv, HostTypeOK, ServiceInv, ForeignServiceOnlyUnguarded, Serving
<1> QED
  BY <1>1, HostInvariant, PTL

(* A test gets its summary unless its service died, the trap itself was    *)
(* interrupted, or it was a backtest that ended before its first copy of   *)
(* status.info (trap cleanup EXIT under set -e).                           *)
THEOREM EverySummary == HostSpec => []SummaryUnlessServiceDied
<1>1. HostInv => SummaryUnlessServiceDied
  BY DEF HostInv, SummaryInv, SummaryUnlessServiceDied, Accounted
<1> QED
  BY <1>1, HostInvariant, PTL

================================================================================
