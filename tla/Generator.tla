------------------------------- MODULE Generator -------------------------------
(***************************************************************************)
(* Building one directory per library version: the container branch of     *)
(* tools/generator.sh with the build function of <library>/gen-lib.sh, and *)
(* <library>/gen-test.sh, which uses the same script and directories.      *)
(*                                                                         *)
(* The version directories and the build logs are on the host and survive  *)
(* the container; the source checkout and /tmp do not.  The container may  *)
(* be killed between any two commands, and gen-lib.sh be called again.     *)
(***************************************************************************)
EXTENDS Naturals

CONSTANTS
  NumCommits,      \* commits named on the command line, built in this order
  Broken,          \* commits whose sources do not build
  Flaky,           \* commits whose build or installation may fail
  InSourceDir,     \* build() copies the sources to a place git clean covers
  IgnoresInstallErrors,  \* make install || true
  TestSharesDir,   \* gen-test.sh works in the version directories as well
  MaxStarts        \* bound: how often gen-lib.sh is called

ASSUME GeneratorAssumption ==
  /\ NumCommits \in Nat
  /\ Broken \subseteq 1 .. NumCommits
  /\ Flaky \subseteq 1 .. NumCommits
  /\ InSourceDir \in BOOLEAN
  /\ IgnoresInstallErrors \in BOOLEAN
  /\ TestSharesDir \in BOOLEAN
  /\ MaxStarts \in Nat

VARIABLES
  pc,           \* the command executed next, "stopped" outside of the container
  H,            \* the commit the loop has reached
  scratch,      \* the commit whose sources are in the build copy, 0 for no copy
  dir,          \* the version directory of each commit
  logged,       \* the commits in the build logs
  starts,       \* bound: number of calls
  interrupted   \* history: directories of a killed container or of gen-test.sh

vars == <<pc, H, scratch, dir, logged, starts, interrupted>>

Commits == 1 .. NumCommits
Labels  == {"stopped", "next", "copy", "make", "install", "register", "discard",
            "clean"}

(* A version directory is absent, or holds files built from the sources of *)
(* some commit (0 as long as it is empty), all of them or not.             *)
Absent      == [source |-> 0, whole |-> TRUE]
Empty       == [source |-> 0, whole |-> FALSE]
Directories == [source : 0 .. NumCommits, whole : BOOLEAN]
Exists(c)   == dir[c] # Absent
Complete(c) == dir[c] = [source |-> c, whole |-> TRUE]

Init ==
  /\ pc = "stopped"
  /\ H = 0
  /\ scratch = 0
  /\ dir = [c \in Commits |-> Absent]
  /\ logged = {}
  /\ starts = 0
  /\ interrupted = {}

GoTo(from, to) == pc = from /\ pc' = to

-------------------------------------------------------------------------------
(* A new container, with a new clone of the repository and an empty /tmp.  *)
Start ==
  /\ starts < MaxStarts
  /\ GoTo("stopped", "next")
  /\ H' = 1
  /\ scratch' = 0
  /\ starts' = starts + 1
  /\ UNCHANGED <<dir, logged, interrupted>>

(* The directory exists already.                                           *)
Skip ==
  /\ H \in Commits
  /\ Exists(H)
  /\ GoTo("next", "next")
  /\ H' = H + 1
  /\ UNCHANGED <<scratch, dir, logged, starts, interrupted>>

(* Mutant: a Checkout that does not look for an existing directory.        *)
CheckoutAgain ==
  /\ H \in Commits
  /\ GoTo("next", "copy")
  /\ dir' = [dir EXCEPT ![H] = Empty]
  /\ UNCHANGED <<H, scratch, logged, starts, interrupted>>

(* git checkout, mkdir -p of the version directory                         *)
Checkout ==
  /\ H \in Commits
  /\ ~Exists(H)
  /\ GoTo("next", "copy")
  /\ dir' = [dir EXCEPT ![H] = Empty]
  /\ UNCHANGED <<H, scratch, logged, starts, interrupted>>

Finish ==
  /\ H > NumCommits
  /\ GoTo("next", "stopped")
  /\ H' = 0
  /\ scratch' = 0
  /\ UNCHANGED <<dir, logged, starts, interrupted>>

-------------------------------------------------------------------------------
(* build()                                                                 *)

(* cp -r into a directory that exists puts the sources below it, where the *)
(* build does not look: the old copy is built again.                       *)
CopySources ==
  /\ GoTo("copy", "make")
  /\ scratch' = IF scratch = 0 THEN H ELSE scratch
  /\ UNCHANGED <<H, dir, logged, starts, interrupted>>

(* configure and make, then make install begins to fill the directory.     *)
Make ==
  /\ scratch \notin Broken
  /\ GoTo("make", "install")
  /\ dir' = [dir EXCEPT ![H] = [source |-> scratch, whole |-> FALSE]]
  /\ UNCHANGED <<H, scratch, logged, starts, interrupted>>

MakeFails ==
  /\ scratch \in Broken \union Flaky
  /\ GoTo("make", "discard")
  /\ UNCHANGED <<H, scratch, dir, logged, starts, interrupted>>

(* make install is done, the copy of the sources is removed.               *)
Install ==
  /\ GoTo("install", "register")
  /\ dir' = [dir EXCEPT ![H] = [source |-> @.source, whole |-> TRUE]]
  /\ scratch' = 0
  /\ UNCHANGED <<H, logged, starts, interrupted>>

(* Without "|| true" the build has failed, with it the build goes on.      *)
InstallFails ==
  /\ scratch \in Flaky
  /\ GoTo("install", IF IgnoresInstallErrors THEN "register" ELSE "discard")
  /\ scratch' = IF IgnoresInstallErrors THEN 0 ELSE scratch
  /\ UNCHANGED <<H, dir, logged, starts, interrupted>>

-------------------------------------------------------------------------------

(* The commit goes to the build log.                                       *)
Register ==
  /\ GoTo("register", "clean")
  /\ logged' = logged \union {H}
  /\ UNCHANGED <<H, scratch, dir, starts, interrupted>>

(* Mutant: a Discard that leaves what the failed build has made.           *)
DiscardNothing ==
  /\ GoTo("discard", "clean")
  /\ UNCHANGED <<H, scratch, dir, logged, starts, interrupted>>

(* rm -rf of the version directory                                         *)
Discard ==
  /\ GoTo("discard", "clean")
  /\ dir' = [dir EXCEPT ![H] = Absent]
  /\ UNCHANGED <<H, scratch, logged, starts, interrupted>>

(* Mutant: a Clean that only resets the files under version control.       *)
CleanTracked ==
  /\ GoTo("clean", "next")
  /\ H' = H + 1
  /\ UNCHANGED <<scratch, dir, logged, starts, interrupted>>

(* git reset, git clean -fxd in the source directory                       *)
Clean ==
  /\ GoTo("clean", "next")
  /\ scratch' = IF InSourceDir THEN 0 ELSE scratch
  /\ H' = H + 1
  /\ UNCHANGED <<dir, logged, starts, interrupted>>

-------------------------------------------------------------------------------

(* The container is killed; with --rm all but the host's files is gone.    *)
Kill ==
  /\ pc # "stopped"
  /\ pc' = "stopped"
  /\ H' = 0
  /\ scratch' = 0
  /\ interrupted' = IF pc = "next" THEN interrupted ELSE interrupted \union {H}
  /\ UNCHANGED <<dir, logged, starts>>

(* gen-test.sh c: generator.sh does mkdir -p of the version directory the  *)
(* test application is to be linked against, and its build() cannot fail.  *)
BuildTest(c) ==
  /\ TestSharesDir
  /\ pc = "stopped"
  /\ dir' = [dir EXCEPT ![c] = IF Exists(c) THEN @ ELSE Empty]
  /\ interrupted' = IF Exists(c) THEN interrupted ELSE interrupted \union {c}
  /\ UNCHANGED <<pc, H, scratch, logged, starts>>

Container ==
  \/ Skip \/ Checkout \/ Finish
  \/ CopySources \/ Make \/ MakeFails \/ Install \/ InstallFails
  \/ Register \/ Discard \/ Clean

Next ==
  \/ Start
  \/ Container
  \/ Kill
  \/ \E c \in Commits : BuildTest(c)

(* The commands of the container end by themselves, nobody has to call the *)
(* scripts.                                                                *)
Spec == Init /\ [][Next]_vars /\ WF_vars(Container)

-------------------------------------------------------------------------------

TypeOK ==
  /\ pc \in Labels
  /\ H \in 0 .. NumCommits + 1
  /\ scratch \in 0 .. NumCommits
  /\ dir \in [Commits -> Directories]
  /\ logged \subseteq Commits
  /\ starts \in 0 .. MaxStarts
  /\ interrupted \subseteq Commits

(* A build uses the sources of its own commit, whatever builds have failed *)
(* before: "a subsequent build must not use any artifacts from a previous  *)
(* build".  It depends on where build() puts its copy of the sources.      *)
OwnSources == pc \in {"make", "install"} => scratch = H

(* make install || true: an installation that failed half way counts.      *)
Tolerated(c) ==
  IgnoresInstallErrors /\ c \in Flaky /\ dir[c].source = c

(* What a build log lists stays built from its own commit, and completely  *)
(* unless the installation failed without notice: no later call of the     *)
(* scripts, killed or not, and no failure of another commit spoils it.     *)
LoggedComplete == \A c \in logged : Complete(c) \/ Tolerated(c)

(* An incomplete directory is the one being worked on, or else a container *)
(* was killed while it was, or the test application was built before the   *)
(* library; a build that fails with notice leaves no directory.            *)
IncompleteOnlyIfInterrupted ==
  \A c \in Commits :
    Exists(c) /\ ~Complete(c) => c = H \/ c \in interrupted \/ Tolerated(c)

(* Once the loop has passed a commit that builds without fail, it is built *)
(* completely, however many others have failed before it.                  *)
SoundBuilt ==
  \A c \in Commits \ (Broken \union Flaky) :
    H > c => Complete(c) \/ c \in interrupted

(* Wherever build() puts its copy, a build uses the sources of another     *)
(* commit only if that is an earlier one whose build has failed.           *)
ForeignOnlyAfterFailure ==
  pc \in {"make", "install"} =>
    scratch = H \/ (scratch \in Broken \union Flaky /\ scratch < H)

(* Wherever it does, what a build log lists is built from the commit or    *)
(* from an earlier one that can both fail and succeed, and completely      *)
(* unless the installation failed without notice.                          *)
OwnOrFlaky(c) ==
  /\ dir[c].source = c \/ (dir[c].source \in Flaky \ Broken /\ dir[c].source < c)
  /\ dir[c].whole \/ (IgnoresInstallErrors /\ dir[c].source \in Flaky)
LoggedFromOwnOrFlaky == \A c \in logged : OwnOrFlaky(c)

(* Where git clean does not get, the sources of a commit that never builds *)
(* stay until the container ends, and it adds nothing to a build log any   *)
(* more, however sound the commits behind are.                             *)
BrokenCopyStays ==
  [][~InSourceDir /\ scratch \in Broken /\ pc' # "stopped"
       => UNCHANGED <<scratch, logged>>]_vars

(* The commands a container has left at most: those of the commit it is    *)
(* at, and 6 for each one behind.  Each command takes at least one of them *)
(* off, with whatever success, which is why a container ends.              *)
Behind == [next |-> 5, copy |-> 4, make |-> 3, install |-> 2, register |-> 1,
           discard |-> 1, clean |-> 0]
CommandsLeft == IF pc = "stopped" THEN 0 ELSE 1 + Behind[pc] + 6 * (NumCommits + 1 - H)
ContainerAdvances ==
  [][Container => CommandsLeft \in Nat /\ CommandsLeft' \in Nat
                  /\ CommandsLeft' < CommandsLeft]_vars

===============================================================================
