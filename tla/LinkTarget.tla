------------------------------- MODULE LinkTarget ------------------------------
(***************************************************************************)
(* linktarget() of tools/testor.sh, link by link: what Luci, which watches *)
(* the links and may follow them at any moment, gets to see while the      *)
(* script changes from one version to the next.  Control takes the whole   *)
(* change as a single step.                                                *)
(*                                                                         *)
(* ln -sf replaces a link in one step.  Names stand for paths below the    *)
(* version directory; directories are real ones, made by mkdir -p.         *)
(***************************************************************************)
EXTENDS Naturals

CONSTANTS
  NumVersions,   \* versions named on the command line
  Names,         \* paths of files
  Files,         \* the paths each version has
  Library        \* the path of the library under test

ASSUME FilesAssumption ==
  /\ NumVersions \in Nat \ {0}
  /\ Files \in [1 .. NumVersions -> SUBSET Names]
  /\ \A v \in 1 .. NumVersions : Library \in Files[v]

VARIABLES
  pc,        \* the command executed next
  version,   \* the version being linked, 0 before the first
  todo,      \* files that find has still to visit
  link       \* the version each link points to, 0 for no link

vars == <<pc, version, todo, link>>

Versions == 1 .. NumVersions
Labels   == {"next", "link", "remove", "run", "stop"}

Linked == {n \in Names : link[n] # 0}
Stale  == {n \in Linked : link[n] # version}

Init ==
  /\ pc = "next"
  /\ version = 0
  /\ todo = {}
  /\ link = [n \in Names |-> 0]

-------------------------------------------------------------------------------

(* cd and mkdir -p, find begins to visit the files of the next version.    *)
Begin ==
  /\ pc = "next"
  /\ version < NumVersions
  /\ pc' = "link"
  /\ version' = version + 1
  /\ todo' = Files[version + 1]
  /\ UNCHANGED link

(* Mutant: a LinkFile that removes a link before it makes the new one.     *)
LinkFileInTwoSteps(n) ==
  /\ pc = "link"
  /\ n \in todo
  /\ IF link[n] \in {0, version}
     THEN link' = [link EXCEPT ![n] = version] /\ todo' = todo \ {n}
     ELSE link' = [link EXCEPT ![n] = 0] /\ UNCHANGED todo
  /\ UNCHANGED <<pc, version>>

(* ln -sf of one file, in the order in which find visits them              *)
LinkFile(n) ==
  /\ pc = "link"
  /\ n \in todo
  /\ link' = [link EXCEPT ![n] = version]
  /\ todo' = todo \ {n}
  /\ UNCHANGED <<pc, version>>

EndOfFiles ==
  /\ pc = "link"
  /\ todo = {}
  /\ pc' = "remove"
  /\ UNCHANGED <<version, todo, link>>

(* rm of one link that does not point into the directory of the version    *)
RemoveStale(n) ==
  /\ pc = "remove"
  /\ n \in Stale
  /\ link' = [link EXCEPT ![n] = 0]
  /\ UNCHANGED <<pc, version, todo>>

(* Mutant: an EndOfRemoval without any removal, as with KEEPLINKS.         *)
KeepLinks ==
  /\ pc = "remove"
  /\ pc' = "run"
  /\ UNCHANGED <<version, todo, link>>

EndOfRemoval ==
  /\ pc = "remove"
  /\ Stale = {}
  /\ pc' = "run"
  /\ UNCHANGED <<version, todo, link>>

(* run(), which may start an instance, and the delay                       *)
Run ==
  /\ pc = "run"
  /\ pc' = IF version < NumVersions THEN "next" ELSE "stop"
  /\ UNCHANGED <<version, todo, link>>

Next ==
  \/ Begin \/ EndOfFiles \/ EndOfRemoval \/ Run
  \/ \E n \in Names : LinkFile(n) \/ RemoveStale(n)

Spec == Init /\ [][Next]_vars /\ WF_vars(Next)

-------------------------------------------------------------------------------

TypeOK ==
  /\ pc \in Labels
  /\ version \in 0 .. NumVersions
  /\ todo \subseteq Names
  /\ link \in [Names -> 0 .. NumVersions]

(* An instance that run() starts finds the current version and nothing of  *)
(* an older one, whichever files the versions have.                        *)
RunSeesOneVersion ==
  pc \in {"run", "stop"} =>
    link = [n \in Names |-> IF n \in Files[version] THEN version ELSE 0]

(* A file that two successive versions share is there all the time, and so *)
(* is each file of a version while it is being replaced: Luci never misses *)
(* a library because of the change itself.                                 *)
SharedFilesStay ==
  version > 1 => Files[version - 1] \intersect Files[version] \subseteq Linked

(* In the middle of a change at most two versions are mixed, the old and   *)
(* the new one; a link is never left over from an earlier one.             *)
MixesTwoVersions == \A n \in Linked : link[n] \in {version - 1, version}

(* For Luci the library under test goes from each version directly to the  *)
(* next.                                                                   *)
LibraryAdvances ==
  [][link'[Library] # link[Library] => link'[Library] = link[Library] + 1]_vars

(* It is linktarget()'s turn until it has replaced the link of the library *)
(* and run()'s from then on: the rest is about other files.                *)
Turn ==
  CASE pc = "stop"                                          -> "over"
    [] pc = "next" \/ (pc = "link" /\ Library \in todo)     -> "linktarget"
    [] OTHER                                                -> "run"

Loop == INSTANCE VersionLoop WITH turn <- Turn, version <- link[Library]

(* Seen from the library the change is a single step, one between two      *)
(* calls of run() and none during a call (testor.sh 62-70): the step that  *)
(* Control makes of linktarget().                                          *)
ImplementsLoop == Loop!Spec

===============================================================================
