--------------------------------- MODULE Host ----------------------------------
(***************************************************************************)
(* The host's side of a dynamic-update run: the branch of tools/testor.sh  *)
(* outside of the container with preload() and cleanup() of run-test.sh,   *)
(* for the runs that run.sh makes one after the other.                     *)
(*                                                                         *)
(* preload() starts the hashing service bean-elfvarsd in the background,   *)
(* listening on a fixed port.  The script may be interrupted at any time;  *)
(* the service is not: a background job of a script ignores the interrupt. *)
(* The EXIT trap runs however the script ends, under set -e like the rest. *)
(*                                                                         *)
(* LinkTarget is about the other branch of the same script; the two share  *)
(* no names, so that a module can extend both.                             *)
(***************************************************************************)
EXTENDS Naturals

CONSTANTS
  NumRuns,      \* runs started, each with its own set of library versions
  Vanilla,      \* runs with debug symbols: NODEBUG is not set
  Backtests     \* runs with the packages of a distribution, below backtesting/

ASSUME RunsAssumption ==
  /\ NumRuns \in Nat
  /\ Vanilla \subseteq 1 .. NumRuns
  /\ Backtests \subseteq 1 .. NumRuns

VARIABLES
  host_pc,     \* the command of the current script executed next
  run,         \* the current run, 0 before the first
  up,          \* the runs whose service is running
  port,        \* the run whose service answers on the port, 0 for none
  linked,      \* the runs whose link.log names a version
  copied,      \* the runs with a status.log
  summaries,   \* the runs with a summary, below the heading of run-summary.txt
  ok,          \* docker and tee have succeeded
  tested,      \* history: the runs whose container has been started
  died,        \* history: the runs whose service has ended by itself
  cut          \* history: the runs interrupted, and where

history  == <<tested, died, cut>>
logs     == <<linked, copied>>
hostVars == <<host_pc, run, up, port, linked, copied, summaries, ok, tested, died, cut>>

Runs       == 1 .. NumRuns
HostLabels == {"idle", "cache", "service", "trap", "docker", "cleanup", "summary"}

HostInit ==
  /\ host_pc = "idle"
  /\ run = 0
  /\ up = {}
  /\ port = 0
  /\ linked = {}
  /\ copied = {}
  /\ summaries = {}
  /\ ok = FALSE
  /\ tested = {}
  /\ died = {}
  /\ cut = {}

GoTo(from, to) == host_pc = from /\ host_pc' = to

-------------------------------------------------------------------------------

(* The arguments are checked and the log directory is made.                *)
BeginRun ==
  /\ run < NumRuns
  /\ run' = run + 1
  /\ GoTo("idle", IF run + 1 \in Vanilla THEN "cache" ELSE "trap")
  /\ ok' = FALSE
  /\ UNCHANGED <<up, port, logs, summaries, history>>

(* bean-elfvarsd CACHE: set -e ends the script if it fails.                *)
FillCache ==
  /\ \E to \in {"service", "idle"} : GoTo("cache", to)
  /\ UNCHANGED <<run, up, port, logs, summaries, ok, history>>

(* The service is started in the background.  If another one occupies the  *)
(* port it ends, which the script does not notice.                         *)
StartService ==
  /\ GoTo("service", "trap")
  /\ up' = IF port = 0 THEN up \union {run} ELSE up
  /\ port' = IF port = 0 THEN run ELSE port
  /\ died' = IF port = 0 THEN died ELSE died \union {run}
  /\ UNCHANGED <<run, logs, summaries, ok, tested, cut>>

(* trap cleanup EXIT, and the start of the container                       *)
InstallTrap ==
  /\ GoTo("trap", "docker")
  /\ tested' = tested \union {run}
  /\ UNCHANGED <<run, up, port, logs, summaries, ok, died, cut>>

(* Mutant: a DockerEnds that skips the trap after a failure.               *)
DockerFailsWithoutTrap ==
  /\ host_pc = "docker"
  /\ \E b \in BOOLEAN : ok' = b /\ host_pc' = IF b THEN "cleanup" ELSE "idle"
  /\ UNCHANGED <<run, up, port, logs, summaries, history>>

(* docker run | tee: either way the trap is executed.                      *)
DockerEnds ==
  /\ GoTo("docker", "cleanup")
  /\ ok' \in BOOLEAN
  /\ UNCHANGED <<run, up, port, logs, summaries, history>>

(* Mutant: a StopService that leaves the service to the end of the shell.  *)
LeaveService ==
  /\ host_pc = "cleanup"
  /\ host_pc' = "summary"
  /\ UNCHANGED <<run, up, port, logs, summaries, ok, history>>

(* kill $ELFVARSD; when the service has ended before, the failing kill     *)
(* ends the trap under set -e.                                             *)
StopService ==
  /\ host_pc = "cleanup"
  /\ IF run \in Vanilla
     THEN /\ host_pc' = IF run \in up THEN "summary" ELSE "idle"
          /\ up' = up \ {run}
          /\ port' = IF port = run THEN 0 ELSE port
     ELSE host_pc' = "summary" /\ UNCHANGED <<up, port>>
  /\ UNCHANGED <<run, logs, summaries, ok, history>>

(* The backtests whose versions cannot be translated into packages:        *)
(* summary-runs.py -t, chosen if link.log names a version, needs a         *)
(* status.log.                                                             *)
Untranslatable == (Backtests \intersect linked) \ copied

(* Mutant: a Summarize for complete runs only.                             *)
SummarizeComplete ==
  /\ GoTo("summary", "idle")
  /\ summaries' = IF ok THEN summaries \union ({run} \ Untranslatable) ELSE summaries
  /\ UNCHANGED <<run, up, port, logs, ok, history>>

(* summary-runs.py, which fails if it cannot translate; that ends the      *)
(* trap.                                                                   *)
Summarize ==
  /\ GoTo("summary", "idle")
  /\ summaries' = summaries \union ({run} \ Untranslatable)
  /\ UNCHANGED <<run, up, port, logs, ok, history>>

-------------------------------------------------------------------------------

(* In the container: the first version is linked, which link.log records.  *)
LinkVersion ==
  /\ host_pc = "docker" /\ run \notin linked
  /\ linked' = linked \union {run}
  /\ UNCHANGED <<host_pc, run, up, port, copied, summaries, ok, history>>

(* In the container: status.info is copied for the first time.  The        *)
(* container may end before, for instance if the kill of stop() fails.     *)
CopyStatus ==
  /\ host_pc = "docker" /\ run \in linked \ copied
  /\ copied' = copied \union {run}
  /\ UNCHANGED <<host_pc, run, up, port, linked, summaries, ok, history>>

(* The script is interrupted: it just ends, but from the container it goes *)
(* to the trap.                                                            *)
Interrupt ==
  /\ host_pc # "idle"
  /\ host_pc' = IF host_pc = "docker" THEN "cleanup" ELSE "idle"
  /\ cut' = cut \union {<<run, host_pc>>}
  /\ UNCHANGED <<run, up, port, logs, summaries, ok, tested, died>>

(* The service ends by itself.                                             *)
ServiceDies(r) ==
  /\ r \in up
  /\ up' = up \ {r}
  /\ port' = 0
  /\ died' = died \union {r}
  /\ UNCHANGED <<host_pc, run, logs, summaries, ok, tested, cut>>

Script ==
  \/ BeginRun \/ FillCache \/ StartService \/ InstallTrap \/ DockerEnds
  \/ StopService \/ Summarize

HostNext ==
  \/ Script
  \/ LinkVersion \/ CopyStatus
  \/ Interrupt
  \/ \E r \in Runs : ServiceDies(r)

(* The commands of the script end by themselves.                           *)
HostSpec == HostInit /\ [][HostNext]_hostVars /\ WF_hostVars(Script)

-------------------------------------------------------------------------------

HostTypeOK ==
  /\ host_pc \in HostLabels
  /\ run \in 0 .. NumRuns
  /\ up \subseteq Runs
  /\ port \in 0 .. NumRuns
  /\ linked \subseteq Runs
  /\ copied \subseteq linked
  /\ summaries \subseteq Runs
  /\ ok \in BOOLEAN
  /\ tested \subseteq Runs
  /\ died \subseteq Runs
  /\ cut \subseteq Runs \X HostLabels

Over(r) == r < run \/ (r = run /\ host_pc = "idle")

(* The runs interrupted after the start of the service and before the trap *)
(* is installed, or inside the trap before it has stopped the service.     *)
Unguarded == {r \in Vanilla : <<r, "trap">> \in cut \/ <<r, "cleanup">> \in cut}

(* A service outlives its run only if the script was interrupted in one of *)
(* the two gaps; a failing container or an interrupt of it does not leak.  *)
LeaksOnlyUnguarded == \A r \in up : Over(r) => r \in Unguarded

(* The container of a run never talks to the service of another one, which *)
(* knows other versions, unless that one has been left over in such a gap. *)
ForeignServiceOnlyUnguarded ==
  host_pc = "docker" => port \in {0, run} \union Unguarded

(* Each test that has been started gets its summary if its service was     *)
(* alive, nobody interrupted the trap, and it was no backtest that ended   *)
(* between its first link and its first copy of status.info (cleanup() of  *)
(* run-test.sh under set -e).                                              *)
SummaryUnlessServiceDied ==
  \A r \in tested :
    Over(r) => \/ r \in summaries
               \/ r \in died
               \/ r \in Untranslatable
               \/ <<r, "cleanup">> \in cut
               \/ <<r, "summary">> \in cut

===============================================================================
