---------------------------- MODULE Generator_proofs ---------------------------
(***************************************************************************)
(* Proofs about the builds of a library, for any commits, any of which may *)
(* fail, and any number of calls, each of which may be killed: first for   *)
(* the libraries whose build() copies the sources to a directory that git  *)
(* clean covers, at the end for all of them.                               *)
(***************************************************************************)
EXTENDS Generator, TLAPS

(***************************************************************************)
(* The build copy: it is removed before the loop reaches the next commit,  *)
(* by build() itself after a success and by git clean after a failure.     *)
(***************************************************************************)
Working == {"copy", "make", "install", "register", "discard", "clean"}

CopyInv ==
  /\ pc \in Working => H \in Commits
  /\ pc = "stopped" => H = 0
  /\ pc = "next" => H \in 1 .. NumCommits + 1
  /\ pc \in {"stopped", "next", "copy", "register"} => scratch = 0
  /\ pc \in {"make", "install"} => scratch = H

BaseInv == TypeOK /\ CopyInv

(* What an entry that is replaced by d does to the version directories.    *)
LEMMA OneDirectory ==
  ASSUME BaseInv, H \in Commits, NEW d \in Directories,
         dir' = [dir EXCEPT ![H] = d]
  PROVE  /\ dir' \in [Commits -> Directories]
         /\ dir'[H] = d
         /\ \A c \in Commits : c # H => dir'[c] = dir[c]
  BY DEF BaseInv, TypeOK

(* The end of make install leaves the source of the directory alone.       *)
LEMMA InstallDirectory ==
  ASSUME BaseInv, Install
  PROVE  /\ H \in Commits
         /\ dir' \in [Commits -> Directories]
         /\ dir'[H] = [source |-> dir[H].source, whole |-> TRUE]
         /\ \A c \in Commits : c # H => dir'[c] = dir[c]
<1> DEFINE d == [source |-> dir[H].source, whole |-> TRUE]
<1>1. H \in Commits
  BY DEF BaseInv, CopyInv, Working, Install, GoTo
<1>2. dir \in [Commits -> Directories] /\ dir[H] \in Directories
  BY <1>1 DEF BaseInv, TypeOK
<1>3. d \in Directories
  BY <1>2 DEF Directories
<1>4. dir' = [dir EXCEPT ![H] = d]
  BY DEF Install
<1>5. QED
  BY <1>1, <1>3, <1>4, OneDirectory

(* No step leaves the types, and the copy of the sources is where CopyInv  *)
(* says, for the libraries whose copy is below the source directory.       *)
LEMMA NextBaseInv ==
  ASSUME InSourceDir PROVE BaseInv /\ [Next]_vars => BaseInv'
<1> SUFFICES ASSUME BaseInv, [Next]_vars PROVE BaseInv'
  OBVIOUS
<1> USE GeneratorAssumption
    DEF BaseInv, TypeOK, CopyInv, Working, Labels, Commits, Directories, Absent,
        Empty, GoTo
<1>1. CASE Start
  BY <1>1 DEF Start
<1>2. CASE Skip
  BY <1>2 DEF Skip
<1>3. CASE Checkout
  BY <1>3 DEF Checkout
<1>4. CASE Finish
  BY <1>4 DEF Finish
<1>5. CASE CopySources
  BY <1>5 DEF CopySources
<1>6. CASE Make
  BY <1>6 DEF Make
<1>7. CASE MakeFails
  BY <1>7 DEF MakeFails
<1>8. CASE Install
  BY <1>8, InstallDirectory DEF Install
<1>9. CASE InstallFails
  BY <1>9 DEF InstallFails
<1>10. CASE Register
  BY <1>10 DEF Register
<1>11. CASE Discard
  BY <1>11 DEF Discard
<1>12. CASE Clean
  BY <1>12 DEF Clean
<1>13. CASE Kill
  BY <1>13 DEF Kill
<1>14. ASSUME NEW c \in Commits, BuildTest(c) PROVE BaseInv'
  BY <1>14 DEF BuildTest
<1>15. CASE UNCHANGED vars
  BY <1>15 DEF vars
<1>16. QED
  BY <1>1, <1>2, <1>3, <1>4, <1>5, <1>6, <1>7, <1>8, <1>9, <1>10, <1>11,
     <1>12, <1>13, <1>14, <1>15 DEF Next, Container

(* Types, and where the copy of the sources is at each point of the loop.  *)
THEOREM BaseInvHolds == ASSUME InSourceDir PROVE Spec => []BaseInv
<1>1. Init => BaseInv
  BY GeneratorAssumption
     DEF Init, BaseInv, TypeOK, CopyInv, Working, Labels, Directories, Absent
<1>2. BaseInv /\ [Next]_vars => BaseInv'
  BY NextBaseInv
<1>3. QED
  BY <1>1, <1>2, PTL DEF Spec

(* No build uses the sources of another commit.                            *)
THEOREM OwnSourcesHolds == ASSUME InSourceDir PROVE Spec => []OwnSources
<1>1. BaseInv => OwnSources
  BY DEF BaseInv, CopyInv, OwnSources
<1>2. QED
  BY <1>1, BaseInvHolds, PTL

-------------------------------------------------------------------------------
(***************************************************************************)
(* The version directories.  The directory of the commit being built is    *)
(* not logged, every other one is as a former build has left it.           *)
(***************************************************************************)
Unfinished == {"copy", "make", "install", "discard"}

CurrentInv ==
  /\ pc \in Unfinished => H \notin logged
  /\ pc = "install" => dir[H] = [source |-> H, whole |-> FALSE]
  /\ pc = "register" => Complete(H) \/ Tolerated(H)
  /\ pc = "discard" => H \in Broken \union Flaky
  /\ pc = "clean" => Complete(H) \/ H \in Broken \union Flaky

Accounted(c) ==
  Exists(c) /\ ~Complete(c) =>
    \/ c = H /\ pc \in Unfinished
    \/ c \in interrupted
    \/ Tolerated(c)

DirInv ==
  /\ CurrentInv
  /\ LoggedComplete
  /\ \A c \in Commits : Accounted(c)
  /\ SoundBuilt

(* Only directories that exist are in a build log.                         *)
LEMMA LoggedExists ==
  ASSUME BaseInv, DirInv, NEW c \in logged PROVE Exists(c)
<1>1. c \in Commits /\ c \in Nat /\ c # 0
  BY GeneratorAssumption DEF BaseInv, TypeOK, Commits
<1>2. Complete(c) \/ Tolerated(c)
  BY DEF DirInv, LoggedComplete
<1>3. dir[c].source = c
  BY <1>2 DEF Complete, Tolerated
<1>4. Absent.source = 0
  BY DEF Absent
<1>5. QED
  BY <1>1, <1>3, <1>4 DEF Exists

(* A step that leaves the directories of all commits but H alone, and does *)
(* not reach another commit, needs a look at the one of H only.            *)
LEMMA OnlyTheCurrent ==
  ASSUME BaseInv, DirInv, H \in Commits, H' = H, interrupted' = interrupted,
         logged' \subseteq logged \union {H},
         \A c \in Commits : c # H => dir'[c] = dir[c],
         CurrentInv', Accounted(H)',
         H \in logged' => (Complete(H) \/ Tolerated(H))'
  PROVE  DirInv'
<1>1. LoggedComplete'
  <2> SUFFICES ASSUME NEW c \in logged', c # H
               PROVE  (Complete(c) \/ Tolerated(c))'
    BY DEF LoggedComplete
  <2>1. c \in logged /\ c \in Commits /\ dir'[c] = dir[c]
    BY DEF BaseInv, TypeOK
  <2>2. QED
    BY <2>1 DEF DirInv, LoggedComplete, Complete, Tolerated
<1>2. (\A c \in Commits : Accounted(c))'
  <2> SUFFICES ASSUME NEW c \in Commits, c # H PROVE Accounted(c)'
    BY DEF Commits
  <2>1. Accounted(c) /\ dir'[c] = dir[c]
    BY DEF DirInv
  <2>2. QED
    BY <2>1 DEF Accounted, Exists, Complete, Tolerated, Absent
<1>3. SoundBuilt'
  <2> SUFFICES ASSUME NEW c \in Commits \ (Broken \union Flaky), H > c
               PROVE  Complete(c)' \/ c \in interrupted
    BY DEF SoundBuilt, Commits
  <2>1. c # H /\ dir'[c] = dir[c]
    BY GeneratorAssumption DEF Commits
  <2>2. QED
    BY <2>1 DEF DirInv, SoundBuilt, Complete
<1>4. QED
  BY <1>1, <1>2, <1>3 DEF DirInv

(* A step that leaves the directories and the logs alone, and stays at the *)
(* commit it has reached, or stops, or is the first of a container.        *)
LEMMA SameDirectories ==
  ASSUME BaseInv, DirInv, dir' = dir, logged' = logged,
         interrupted \subseteq interrupted',
         \A c \in Commits : H' > c => H > c \/ Complete(c) \/ c \in interrupted
                                           \/ c \in Broken \union Flaky,
         CurrentInv',
         H \in Commits /\ pc \in Unfinished =>
           Complete(H) \/ Tolerated(H) \/ H \in interrupted' \/ ~Exists(H)
             \/ (H' = H /\ pc' \in Unfinished)
  PROVE  DirInv'
<1>1. LoggedComplete'
  BY DEF DirInv, LoggedComplete, Complete, Tolerated
<1>2. (\A c \in Commits : Accounted(c))'
  <2> SUFFICES ASSUME NEW c \in Commits PROVE Accounted(c)'
    BY DEF Commits
  <2>1. Accounted(c)
    BY DEF DirInv
  <2>2. QED
    BY <2>1 DEF Accounted, Exists, Complete, Tolerated, Absent
<1>3. SoundBuilt'
  <2> SUFFICES ASSUME NEW c \in Commits \ (Broken \union Flaky), H' > c
               PROVE  Complete(c)' \/ c \in interrupted'
    BY DEF SoundBuilt, Commits
  <2>1. Complete(c) \/ c \in interrupted
    BY DEF DirInv, SoundBuilt
  <2>2. QED
    BY <2>1 DEF Complete
<1>4. QED
  BY <1>1, <1>2, <1>3 DEF DirInv

(* The directories stay accounted for: one case per command of the script. *)
LEMMA NextDirInv ==
  ASSUME InSourceDir PROVE BaseInv /\ DirInv /\ [Next]_vars => DirInv'
<1> SUFFICES ASSUME BaseInv, DirInv, [Next]_vars PROVE DirInv'
  OBVIOUS
<1> USE DEF GoTo, Unfinished
<1>r. H \in 0 .. NumCommits + 1 /\ NumCommits \in Nat /\ Commits \subseteq Nat
  BY GeneratorAssumption DEF BaseInv, TypeOK, Commits
<1>w. pc \in Working => H \in Commits
  BY DEF BaseInv, CopyInv
<1>e. Absent # Empty /\ Absent \in Directories /\ Empty \in Directories
  BY GeneratorAssumption DEF Absent, Empty, Directories
<1>1. CASE Start
  <2>1. \A c \in Commits : ~ (H' > c)
    BY <1>1 DEF Start, Commits
  <2>2. CurrentInv'
    BY <1>1 DEF Start, CurrentInv
  <2>3. QED
    BY <1>1, <2>1, <2>2, SameDirectories DEF Start
<1>2. CASE Skip
  <2>1. Complete(H) \/ H \in interrupted \/ H \in Flaky
    BY <1>2 DEF Skip, DirInv, Accounted, Tolerated
  <2>2. \A c \in Commits : H' > c => H > c \/ c = H
    BY <1>2, <1>r DEF Skip
  <2>3. CurrentInv'
    BY <1>2 DEF Skip, CurrentInv
  <2>4. QED
    BY <1>2, <2>1, <2>2, <2>3, SameDirectories DEF Skip
<1>3. CASE Checkout
  <2>1. H \notin logged
    BY <1>3, LoggedExists DEF Checkout
  <2>2. H \in Commits /\ \A c \in Commits : c # H => dir'[c] = dir[c]
    BY <1>3, <1>e, OneDirectory DEF Checkout
  <2>3. CurrentInv' /\ Accounted(H)'
    BY <1>3, <2>1 DEF Checkout, CurrentInv, Accounted
  <2>4. QED
    BY <1>3, <2>1, <2>2, <2>3, OnlyTheCurrent DEF Checkout
<1>4. CASE Finish
  <2>1. CurrentInv'
    BY <1>4 DEF Finish, CurrentInv
  <2>2. \A c \in Commits : ~ (H' > c)
    BY <1>4 DEF Finish, Commits
  <2>3. QED
    BY <1>4, <2>1, <2>2, SameDirectories DEF Finish
<1>5. CASE CopySources
  <2>1. CurrentInv'
    BY <1>5 DEF CopySources, CurrentInv, DirInv
  <2>2. QED
    BY <1>5, <2>1, SameDirectories DEF CopySources
<1>6. CASE Make
  <2> DEFINE d == [source |-> scratch, whole |-> FALSE]
  <2>1. H \in Commits /\ scratch = H /\ H \notin logged
    BY <1>6 DEF Make, BaseInv, CopyInv, Working, DirInv, CurrentInv
  <2>2. d \in Directories
    BY DEF BaseInv, TypeOK, Directories
  <2>3. dir'[H] = d /\ \A c \in Commits : c # H => dir'[c] = dir[c]
    BY <1>6, <2>1, <2>2, OneDirectory DEF Make
  <2>4. CurrentInv' /\ Accounted(H)'
    BY <1>6, <2>1, <2>3 DEF Make, CurrentInv, Accounted
  <2>5. QED
    BY <1>6, <2>1, <2>3, <2>4, OnlyTheCurrent DEF Make
<1>7. CASE MakeFails
  <2>1. scratch = H
    BY <1>7 DEF MakeFails, BaseInv, CopyInv
  <2>2. CurrentInv'
    BY <1>7, <2>1 DEF MakeFails, CurrentInv, DirInv
  <2>3. QED
    BY <1>7, <2>2, SameDirectories DEF MakeFails
<1>8. CASE Install
  <2>1. H \in Commits /\ \A c \in Commits : c # H => dir'[c] = dir[c]
    BY <1>8, InstallDirectory
  <2>2. dir[H] = [source |-> H, whole |-> FALSE] /\ H \notin logged
    BY <1>8 DEF Install, DirInv, CurrentInv
  <2>3. dir'[H] = [source |-> H, whole |-> TRUE]
    BY <1>8, <2>2, InstallDirectory
  <2>4. CurrentInv' /\ Accounted(H)'
    BY <1>8, <2>3 DEF Install, CurrentInv, Accounted, Complete
  <2>5. QED
    BY <1>8, <2>1, <2>2, <2>4, OnlyTheCurrent DEF Install
<1>9. CASE InstallFails
  <2>1. scratch = H /\ dir[H].source = H
    BY <1>9 DEF InstallFails, BaseInv, CopyInv, DirInv, CurrentInv
  <2>2. H \in Flaky /\ (IgnoresInstallErrors => Tolerated(H))
    BY <1>9, <2>1 DEF InstallFails, Tolerated
  <2>3. CurrentInv'
    BY <1>9, <2>2 DEF InstallFails, CurrentInv, DirInv, Tolerated, Complete
  <2>4. QED
    BY <1>9, <2>2, <2>3, SameDirectories DEF InstallFails
<1>10. CASE Register
  <2>1. H \in Commits /\ (Complete(H) \/ Tolerated(H))
    BY <1>10, <1>w DEF Register, Working, DirInv, CurrentInv
  <2>2. (Complete(H) \/ Tolerated(H))'
    BY <1>10, <2>1 DEF Register, Complete, Tolerated
  <2>3. CurrentInv'
    BY <1>10, <2>2 DEF Register, CurrentInv, Tolerated
  <2>4. Accounted(H)'
    BY <2>2 DEF Accounted
  <2>5. QED
    BY <1>10, <2>1, <2>2, <2>3, <2>4, OnlyTheCurrent DEF Register
<1>11. CASE Discard
  <2>1. H \in Commits /\ H \notin logged /\ H \in Broken \union Flaky
    BY <1>11, <1>w DEF Discard, Working, DirInv, CurrentInv
  <2>2. dir'[H] = Absent /\ \A c \in Commits : c # H => dir'[c] = dir[c]
    BY <1>11, <1>e, <2>1, OneDirectory DEF Discard
  <2>3. CurrentInv' /\ Accounted(H)'
    BY <1>11, <2>1, <2>2
       DEF Discard, CurrentInv, Accounted, Exists, Absent
  <2>4. QED
    BY <1>11, <2>1, <2>2, <2>3, OnlyTheCurrent DEF Discard
<1>12. CASE Clean
  <2>1. H \in Commits /\ (Complete(H) \/ H \in Broken \union Flaky)
    BY <1>12, <1>w DEF Clean, Working, DirInv, CurrentInv
  <2>2. \A c \in Commits : H' > c => H > c \/ c = H
    BY <1>12, <1>r DEF Clean
  <2>3. CurrentInv'
    BY <1>12 DEF Clean, CurrentInv
  <2>4. QED
    BY <1>12, <2>1, <2>2, <2>3, SameDirectories DEF Clean
<1>13. CASE Kill
  <2>1. \A c \in Commits : ~ (H' > c)
    BY <1>13 DEF Kill, Commits
  <2>2. CurrentInv'
    BY <1>13 DEF Kill, CurrentInv
  <2>3. interrupted \subseteq interrupted' /\ (pc \in Unfinished => H \in interrupted')
    BY <1>13 DEF Kill
  <2>4. QED
    BY <1>13, <2>1, <2>2, <2>3, SameDirectories DEF Kill
<1>14. ASSUME NEW c \in Commits, BuildTest(c) PROVE DirInv'
  <2>1. CASE Exists(c)
    <3>1. dir' = dir
      BY <1>14, <2>1 DEF BuildTest, BaseInv, TypeOK
    <3>2. CurrentInv'
      BY <1>14 DEF BuildTest, CurrentInv
    <3>3. QED
      BY <1>14, <2>1, <3>1, <3>2, SameDirectories DEF BuildTest
  <2>2. CASE ~Exists(c)
    <3>1. c \notin logged /\ H = 0 /\ pc = "stopped" /\ pc' = pc /\ H' = H
          /\ logged' = logged /\ interrupted' = interrupted \union {c}
      BY <1>14, <2>2, LoggedExists DEF BuildTest, BaseInv, CopyInv
    <3>2. \A k \in Commits : k # c => dir'[k] = dir[k]
      BY <1>14 DEF BuildTest, BaseInv, TypeOK
    <3>3. CurrentInv'
      BY <3>1 DEF CurrentInv
    <3>4. LoggedComplete'
      BY <3>1, <3>2 DEF DirInv, LoggedComplete, Complete, Tolerated, BaseInv,
                        TypeOK
    <3>5. (\A k \in Commits : Accounted(k))'
      <4> SUFFICES ASSUME NEW k \in Commits, k # c PROVE Accounted(k)'
        BY <3>1 DEF Accounted, Commits
      <4>1. Accounted(k) /\ dir'[k] = dir[k]
        BY <3>2 DEF DirInv
      <4>2. QED
        BY <3>1, <4>1 DEF Accounted, Exists, Complete, Tolerated, Absent
    <3>6. SoundBuilt'
      BY <3>1 DEF SoundBuilt, Commits
    <3>7. QED
      BY <3>3, <3>4, <3>5, <3>6 DEF DirInv
  <2>3. QED
    BY <2>1, <2>2
<1>15. CASE UNCHANGED vars
  BY <1>15 DEF vars, DirInv, CurrentInv, LoggedComplete, Accounted, SoundBuilt,
               Complete, Tolerated, Exists, Absent
<1>16. QED
  BY <1>1, <1>2, <1>3, <1>4, <1>5, <1>6, <1>7, <1>8, <1>9, <1>10, <1>11,
     <1>12, <1>13, <1>14, <1>15 DEF Next, Container

(* What the build logs and directories hold between any two commands.      *)
LEMMA DirInvHolds == ASSUME InSourceDir PROVE Spec => []DirInv
<1>1. Init => DirInv
  BY GeneratorAssumption
     DEF Init, DirInv, CurrentInv, Unfinished, LoggedComplete, Accounted,
         SoundBuilt, Complete, Tolerated, Exists, Absent, Commits
<1>2. BaseInv /\ DirInv /\ [Next]_vars => DirInv'
  BY NextDirInv
<1>3. QED
  BY <1>1, <1>2, BaseInvHolds, PTL DEF Spec

(* Nothing spoils what a build log lists.                                  *)
THEOREM LoggedCompleteHolds ==
  ASSUME InSourceDir PROVE Spec => []LoggedComplete
<1>1. DirInv => LoggedComplete
  BY DEF DirInv
<1>2. QED
  BY <1>1, DirInvHolds, PTL

(* Only kills and early test builds leave incomplete directories behind.   *)
THEOREM IncompleteOnlyIfInterruptedHolds ==
  ASSUME InSourceDir PROVE Spec => []IncompleteOnlyIfInterrupted
<1>1. DirInv => IncompleteOnlyIfInterrupted
  BY DEF DirInv, Accounted, IncompleteOnlyIfInterrupted
<1>2. QED
  BY <1>1, DirInvHolds, PTL

(* Failures of other commits do not keep a sound commit from being built.  *)
THEOREM SoundBuiltHolds == ASSUME InSourceDir PROVE Spec => []SoundBuilt
<1>1. DirInv => SoundBuilt
  BY DEF DirInv
<1>2. QED
  BY <1>1, DirInvHolds, PTL

-------------------------------------------------------------------------------
(***************************************************************************)
(* What holds wherever build() puts its copy: a copy is left over only of  *)
(* an earlier commit that can fail.                                        *)
(***************************************************************************)
Failing == Broken \union Flaky

LeftoverInv ==
  /\ pc \in Working => H \in Commits
  /\ pc = "stopped" => H = 0 /\ scratch = 0
  /\ pc = "next" => H \in 1 .. NumCommits + 1
  /\ pc = "register" => scratch = 0
  /\ pc \in {"next", "copy"} => scratch < H
  /\ pc \in {"make", "install", "discard", "clean"} => scratch <= H
  /\ pc \in {"make", "install"} => scratch # 0 /\ (scratch = H \/ scratch \in Failing)
  /\ pc \notin {"make", "install"} => scratch = 0 \/ scratch \in Failing
  /\ pc = "install" => scratch \notin Broken /\ dir[H] = [source |-> scratch, whole |-> FALSE]

LogInv ==
  /\ pc \in Unfinished => H \notin logged
  /\ pc = "register" => OwnOrFlaky(H)
  /\ LoggedFromOwnOrFlaky

AnyInv == TypeOK /\ LeftoverInv /\ LogInv

(* A directory in a build log exists.                                      *)
LEMMA LoggedIsThere ==
  ASSUME AnyInv, NEW c \in logged
  PROVE  c \in Commits /\ Exists(c)
<1>1. c \in Commits /\ c # 0 /\ 0 \notin Flaky
  BY GeneratorAssumption DEF AnyInv, TypeOK, Commits
<1>2. dir[c].source # 0
  BY <1>1 DEF AnyInv, LogInv, LoggedFromOwnOrFlaky, OwnOrFlaky
<1>3. QED
  BY <1>1, <1>2 DEF Exists, Absent

(* A step that leaves alone what is in the logs and the directories they   *)
(* name, or adds the commit whose turn it is.                              *)
LEMMA LogsStay ==
  ASSUME AnyInv, logged' \subseteq logged \union {H},
         H \in logged' \ logged => H' = H /\ OwnOrFlaky(H)',
         \A c \in logged : dir'[c] = dir[c]
  PROVE  LoggedFromOwnOrFlaky'
  BY DEF AnyInv, LogInv, LoggedFromOwnOrFlaky, OwnOrFlaky

(* Every step keeps the invariant, for all libraries.                      *)
LEMMA NextAnyInv == AnyInv /\ [Next]_vars => AnyInv'
<1> SUFFICES ASSUME AnyInv, [Next]_vars PROVE AnyInv'
  OBVIOUS
<1>a. /\ NumCommits \in Nat /\ Commits \subseteq Nat \ {0}
      /\ Broken \subseteq Commits /\ Flaky \subseteq Commits
  BY GeneratorAssumption DEF Commits
<1>t. /\ pc \in Labels /\ H \in 0 .. NumCommits + 1 /\ scratch \in 0 .. NumCommits
      /\ dir \in [Commits -> Directories] /\ logged \subseteq Commits
      /\ starts \in 0 .. MaxStarts /\ interrupted \subseteq Commits /\ MaxStarts \in Nat
  BY GeneratorAssumption DEF AnyInv, TypeOK
<1>e. Absent \in Directories /\ Empty \in Directories
  BY <1>a DEF Absent, Empty, Directories
<1> USE DEF GoTo, Failing
<1>1. CASE Start \/ Skip \/ Finish \/ Kill \/ UNCHANGED vars
  <2>1. dir' = dir /\ logged' = logged
    BY <1>1 DEF Start, Skip, Finish, Kill, vars
  <2>2. TypeOK' /\ LeftoverInv'
    <3> USE DEF AnyInv, TypeOK, LeftoverInv, Working, Labels, Commits
    <3>1. CASE Start
      BY <1>a, <1>t, <2>1, <3>1 DEF Start
    <3>2. CASE Skip
      BY <1>a, <1>t, <2>1, <3>2 DEF Skip
    <3>3. CASE Finish
      BY <1>a, <1>t, <2>1, <3>3 DEF Finish
    <3>4. CASE Kill
      <4>1. pc' = "stopped" /\ H' = 0 /\ scratch' = 0 /\ interrupted' \subseteq Commits
        BY <1>t, <3>4 DEF Kill
      <4>2. QED
        BY <1>a, <1>t, <2>1, <3>4, <4>1 DEF Kill
    <3>5. CASE UNCHANGED vars
      BY <1>t, <2>1, <3>5 DEF vars
    <3>6. QED
      BY <1>1, <3>1, <3>2, <3>3, <3>4, <3>5
  <2>3. LogInv'
    <3>1. LoggedFromOwnOrFlaky'
      BY <2>1, LogsStay
    <3>2. QED
      BY <1>1, <2>1, <3>1
         DEF Start, Skip, Finish, Kill, vars, AnyInv, LogInv, Unfinished, OwnOrFlaky
  <2>4. QED
    BY <2>2, <2>3 DEF AnyInv
<1>2. CASE Checkout
  <2>1. H \in Commits /\ H \notin logged
    BY <1>2, LoggedIsThere DEF Checkout
  <2>2. dir' \in [Commits -> Directories] /\ \A c \in Commits : c # H => dir'[c] = dir[c]
    BY <1>2, <1>t, <1>e, <2>1 DEF Checkout
  <2>3. TypeOK' /\ LeftoverInv'
    BY <1>2, <1>a, <1>t, <2>1, <2>2 DEF Checkout, AnyInv, TypeOK, LeftoverInv, Working, Labels
  <2>4. LoggedFromOwnOrFlaky'
    BY <1>2, <1>t, <2>1, <2>2, LogsStay DEF Checkout
  <2>5. QED
    BY <1>2, <2>1, <2>3, <2>4 DEF Checkout, AnyInv, LogInv, Unfinished
<1>3. CASE CopySources \/ MakeFails
  <2>1. dir' = dir /\ logged' = logged /\ H' = H /\ pc \in Unfinished
        /\ pc' \in {"make", "discard"}
    BY <1>3 DEF CopySources, MakeFails, Unfinished
  <2>2. TypeOK' /\ LeftoverInv'
    <3> USE DEF AnyInv, TypeOK, LeftoverInv, Working, Labels, Commits
    <3>1. CASE CopySources
      BY <1>a, <1>t, <2>1, <3>1 DEF CopySources
    <3>2. CASE MakeFails
      BY <1>a, <1>t, <2>1, <3>2 DEF MakeFails
    <3>3. QED
      BY <1>3, <3>1, <3>2
  <2>3. LoggedFromOwnOrFlaky'
    BY <2>1, LogsStay
  <2>4. QED
    BY <2>1, <2>2, <2>3 DEF AnyInv, LogInv
<1>4. CASE Make
  <2> DEFINE d == [source |-> scratch, whole |-> FALSE]
  <2>1. H \in Commits /\ H \notin logged
    BY <1>4 DEF Make, AnyInv, LeftoverInv, Working, LogInv, Unfinished
  <2>2. d \in Directories
    BY <1>t DEF Directories
  <2>3. dir' \in [Commits -> Directories] /\ dir'[H] = d
        /\ \A c \in Commits : c # H => dir'[c] = dir[c]
    BY <1>4, <1>t, <2>1, <2>2 DEF Make
  <2>4. TypeOK' /\ LeftoverInv'
    BY <1>4, <1>t, <2>1, <2>3 DEF Make, AnyInv, TypeOK, LeftoverInv, Working, Labels
  <2>5. LoggedFromOwnOrFlaky'
    BY <1>4, <1>t, <2>1, <2>3, LogsStay DEF Make
  <2>6. QED
    BY <1>4, <2>1, <2>4, <2>5 DEF Make, AnyInv, LogInv, Unfinished
<1>5. CASE Install
  <2> DEFINE d == [source |-> scratch, whole |-> TRUE]
  <2>1. /\ H \in Commits /\ H \notin logged /\ dir[H].source = scratch
        /\ scratch = H \/ (scratch \in Flaky \ Broken /\ scratch < H)
    BY <1>5, <1>t DEF Install, AnyInv, LeftoverInv, Working, LogInv, Unfinished
  <2>2. d \in Directories
    BY <1>t DEF Directories
  <2>3. dir' \in [Commits -> Directories] /\ dir'[H] = d
        /\ \A c \in Commits : c # H => dir'[c] = dir[c]
    BY <1>5, <1>t, <2>1, <2>2 DEF Install
  <2>4. TypeOK' /\ LeftoverInv'
    BY <1>5, <1>a, <1>t, <2>1, <2>3 DEF Install, AnyInv, TypeOK, LeftoverInv, Working, Labels
  <2>5. LoggedFromOwnOrFlaky'
    BY <1>5, <1>t, <2>1, <2>3, LogsStay DEF Install
  <2>6. OwnOrFlaky(H)' /\ H' = H
    BY <1>5, <2>1, <2>3 DEF Install, OwnOrFlaky
  <2>7. QED
    BY <1>5, <2>4, <2>5, <2>6 DEF Install, AnyInv, LogInv, Unfinished
<1>6. CASE InstallFails
  <2>1. /\ H \in Commits /\ H \notin logged /\ dir[H].source = scratch
        /\ scratch = H \/ (scratch \in Flaky \ Broken /\ scratch < H)
    BY <1>6, <1>t DEF InstallFails, AnyInv, LeftoverInv, Working, LogInv, Unfinished
  <2>2. TypeOK' /\ LeftoverInv'
    BY <1>6, <1>a, <1>t, <2>1 DEF InstallFails, AnyInv, TypeOK, LeftoverInv, Working, Labels
  <2>3. LoggedFromOwnOrFlaky'
    BY <1>6, LogsStay DEF InstallFails
  <2>4. IgnoresInstallErrors => OwnOrFlaky(H)'
    BY <1>6, <2>1 DEF InstallFails, OwnOrFlaky
  <2>5. QED
    BY <1>6, <2>1, <2>2, <2>3, <2>4 DEF InstallFails, AnyInv, LogInv, Unfinished
<1>7. CASE Register
  <2>1. H \in Commits /\ OwnOrFlaky(H)
    BY <1>7 DEF Register, AnyInv, LeftoverInv, Working, LogInv
  <2>2. TypeOK' /\ LeftoverInv'
    BY <1>7, <1>a, <1>t, <2>1 DEF Register, AnyInv, TypeOK, LeftoverInv, Working, Labels
  <2>3. OwnOrFlaky(H)'
    BY <1>7, <2>1 DEF Register, OwnOrFlaky
  <2>4. LoggedFromOwnOrFlaky'
    BY <1>7, <2>3, LogsStay DEF Register
  <2>5. QED
    BY <1>7, <2>2, <2>4 DEF Register, AnyInv, LogInv, Unfinished
<1>8. CASE Discard
  <2>1. H \in Commits /\ H \notin logged
    BY <1>8 DEF Discard, AnyInv, LeftoverInv, Working, LogInv, Unfinished
  <2>2. dir' \in [Commits -> Directories] /\ \A c \in Commits : c # H => dir'[c] = dir[c]
    BY <1>8, <1>t, <1>e, <2>1 DEF Discard
  <2>3. TypeOK' /\ LeftoverInv'
    BY <1>8, <1>a, <1>t, <2>1, <2>2 DEF Discard, AnyInv, TypeOK, LeftoverInv, Working, Labels
  <2>4. LoggedFromOwnOrFlaky'
    BY <1>8, <1>t, <2>1, <2>2, LogsStay DEF Discard
  <2>5. QED
    BY <1>8, <2>3, <2>4 DEF Discard, AnyInv, LogInv, Unfinished
<1>9. CASE Clean
  <2>1. H \in Commits /\ H' = H + 1
    BY <1>9 DEF Clean, AnyInv, LeftoverInv, Working
  <2>2. TypeOK' /\ LeftoverInv'
    BY <1>9, <1>a, <1>t, <2>1 DEF Clean, AnyInv, TypeOK, LeftoverInv, Working, Labels, Commits
  <2>3. LoggedFromOwnOrFlaky'
    BY <1>9, LogsStay DEF Clean
  <2>4. QED
    BY <1>9, <2>2, <2>3 DEF Clean, AnyInv, LogInv, Unfinished
<1>10. ASSUME NEW c \in Commits, BuildTest(c) PROVE AnyInv'
  <2>1. dir' \in [Commits -> Directories] /\ \A k \in logged : dir'[k] = dir[k]
    BY <1>10, <1>t, <1>e, LoggedIsThere DEF BuildTest
  <2>2. TypeOK' /\ LeftoverInv'
    BY <1>10, <1>a, <1>t, <2>1 DEF BuildTest, AnyInv, TypeOK, LeftoverInv, Working
  <2>3. LoggedFromOwnOrFlaky'
    BY <1>10, <2>1, LogsStay DEF BuildTest
  <2>4. QED
    BY <1>10, <2>2, <2>3 DEF BuildTest, AnyInv, LogInv, Unfinished
<1>11. QED
  BY <1>1, <1>2, <1>3, <1>4, <1>5, <1>6, <1>7, <1>8, <1>9, <1>10 DEF Next, Container

(* The invariant of all libraries.                                         *)
THEOREM AnyInvHolds == Spec => []AnyInv
<1>1. Init => AnyInv
  BY GeneratorAssumption
     DEF Init, AnyInv, TypeOK, LeftoverInv, LogInv, LoggedFromOwnOrFlaky, Working, Unfinished,
         Labels, Directories, Absent
<1>2. QED
  BY <1>1, NextAnyInv, PTL DEF Spec

(* The sources of another commit are built only after its build failed.    *)
THEOREM ForeignOnlyAfterFailureHolds == Spec => []ForeignOnlyAfterFailure
<1>1. AnyInv => ForeignOnlyAfterFailure
  BY GeneratorAssumption DEF AnyInv, TypeOK, LeftoverInv, Failing, ForeignOnlyAfterFailure
<1>2. QED
  BY <1>1, AnyInvHolds, PTL

(* What the build logs list, for libraries that build outside of the       *)
(* source directory as well.                                               *)
THEOREM LoggedFromOwnOrFlakyHolds == Spec => []LoggedFromOwnOrFlaky
  BY AnyInvHolds, PTL DEF AnyInv, LogInv

(* One commit that never builds keeps all behind it from being built.      *)
THEOREM BrokenCopyStaysHolds == Spec => BrokenCopyStays
<1>1. AnyInv /\ [Next]_vars =>
        [~InSourceDir /\ scratch \in Broken /\ pc' # "stopped"
           => UNCHANGED <<scratch, logged>>]_vars
  <2> SUFFICES ASSUME AnyInv, Next, ~InSourceDir, scratch \in Broken, pc' # "stopped"
               PROVE  UNCHANGED <<scratch, logged>>
    OBVIOUS
  <2>1. scratch # 0 /\ pc \notin {"stopped", "install", "register"}
    BY GeneratorAssumption DEF AnyInv, LeftoverInv
  <2>2. QED
    BY <2>1
       DEF Next, Container, GoTo, Start, Skip, Checkout, Finish, CopySources, Make, MakeFails,
           Install, InstallFails, Register, Discard, Clean, Kill, BuildTest, vars
<1>2. QED
  BY <1>1, AnyInvHolds, PTL DEF Spec, BrokenCopyStays

(* Each command of the container takes one off those it has left.          *)
THEOREM ContainerAdvancesHolds == Spec => ContainerAdvances
<1>1. AnyInv /\ AnyInv' /\ [Next]_vars =>
        [Container => CommandsLeft \in Nat /\ CommandsLeft' \in Nat
                        /\ CommandsLeft' < CommandsLeft]_vars
  <2> SUFFICES ASSUME AnyInv, AnyInv', Container
               PROVE  CommandsLeft \in Nat /\ CommandsLeft' \in Nat
                        /\ CommandsLeft' < CommandsLeft
    OBVIOUS
  <2>1. /\ NumCommits \in Nat /\ H \in 0 .. NumCommits + 1 /\ H' \in 0 .. NumCommits + 1
        /\ pc \in Labels /\ pc' \in Labels
    BY GeneratorAssumption DEF AnyInv, TypeOK, Labels
  <2>2. CASE pc' = "stopped"
    <3>1. pc = "next" /\ H \in 1 .. NumCommits + 1
      BY <2>2 DEF AnyInv, LeftoverInv, Container, GoTo, Skip, Checkout, Finish, CopySources, Make,
                  MakeFails, Install, InstallFails, Register, Discard, Clean
    <3>2. QED
      BY <2>1, <2>2, <3>1 DEF CommandsLeft, Behind
  <2>3. CASE pc' # "stopped"
    <3>1. \/ /\ H' = H
             /\ \/ pc = "next" /\ pc' = "copy"
                \/ pc = "copy" /\ pc' = "make"
                \/ pc = "make" /\ pc' \in {"install", "discard"}
                \/ pc = "install" /\ pc' \in {"register", "discard"}
                \/ pc \in {"register", "discard"} /\ pc' = "clean"
          \/ H' = H + 1 /\ pc \in {"next", "clean"} /\ pc' = "next"
      BY <2>3 DEF Container, GoTo, Skip, Checkout, Finish, CopySources, Make, MakeFails, Install,
                  InstallFails, Register, Discard, Clean
    <3>2. QED
      BY <2>1, <2>3, <3>1 DEF CommandsLeft, Behind
  <2>4. QED
    BY <2>2, <2>3
<1>2. QED
  BY <1>1, AnyInvHolds, PTL DEF Spec, ContainerAdvances

===============================================================================
