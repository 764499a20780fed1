--------------------------------- MODULE Fetch ---------------------------------
(***************************************************************************)
(* Retrieving the packages of a distribution: tools/snapshot-fetch.py -x   *)
(* as <library>/run.sh calls it, again and again, with <library>/cleanup.sh *)
(* in between, which removes what was extracted and keeps the archives.    *)
(*                                                                         *)
(* Each version has one binary package.  The snapshot service lists it     *)
(* under one or several names, in one or several archives, or not at all   *)
(* for the architecture; the script downloads the first that it can get    *)
(* and links the other names to it.                                        *)
(* What has been downloaded is trusted by later calls, but for its size.   *)
(***************************************************************************)
EXTENDS Naturals, Sequences

CONSTANTS
  NumVersions,   \* versions named on the command line
  Names,         \* file names of packages
  None,          \* no file name
  Entries,       \* the names under which the service lists each version
  MaxCalls       \* bound: how often the script is called

ASSUME EntriesAssumption ==
  /\ NumVersions \in Nat \ {0}
  /\ Entries \in [1 .. NumVersions -> Seq(Names)]
  /\ None \notin Names
  /\ {"absent", "part", "whole"} \intersect Names = {}
  /\ MaxCalls \in Nat

VARIABLES
  pc,         \* the statement executed next
  v,          \* the version the loop has reached
  entries,    \* the entries that the service has listed for it
  k,          \* the entry of the version the inner loop has reached
  force,      \* args.force
  file,       \* the name this version is stored under
  files,      \* the files of this version that have passed the size check
  disk,       \* what is stored under each name: nothing, an archive, or the
              \*   name of the archive it is linked to
  dir,        \* the extracted version directories
  calls,      \* bound: number of calls
  reported,   \* history: versions with an error message in this call
  unlisted,   \* history: versions of which the service listed nothing in this call
  torn,       \* history: archives whose download has ended too early
  spoiled     \* history: versions ever reported or unlisted, or interrupted while
              \*   extracted

loop    == <<v, entries, k, force, file, files>>
history == <<reported, unlisted, torn, spoiled>>
vars    == <<pc, v, entries, k, force, file, files, disk, dir, calls, history>>

Versions == 1 .. NumVersions
Ended    == {"idle", "done", "aborted"}
Labels   == Ended \union {"query", "entry", "download", "size", "unpack"}
Contents == {"absent", "part", "whole"}

Init ==
  /\ pc = "idle"
  /\ v = 0
  /\ entries = << >>
  /\ k = 0
  /\ force = FALSE
  /\ file = None
  /\ files = {}
  /\ disk = [n \in Names |-> "absent"]
  /\ dir = [x \in Versions |-> "absent"]
  /\ calls = 0
  /\ reported = {}
  /\ unlisted = {}
  /\ torn = {}
  /\ spoiled = {}

(* Path.resolve(): the file behind a name.                                 *)
Resolve(n) == IF disk[n] \in Names THEN disk[n] ELSE n
IsFile(n)  == disk[Resolve(n)] # "absent"

Name == entries[k]
AtEntry == pc = "entry" /\ k <= Len(entries)

(* An error message on standard error, after which the script goes on.     *)
Report == /\ reported' = reported \union {v}
          /\ spoiled' = spoiled \union {v}
          /\ UNCHANGED unlisted

-------------------------------------------------------------------------------
(* The main program                                                        *)

Call ==
  /\ calls < MaxCalls
  /\ pc \in Ended
  /\ pc' = "query"
  /\ v' = 1
  /\ force' \in BOOLEAN
  /\ calls' = calls + 1
  /\ reported' = {}
  /\ unlisted' = {}
  /\ UNCHANGED <<entries, k, file, files, disk, dir, torn, spoiled>>

(* getBinaryHash() and the list of entries for the hash.  If no package is *)
(* for the architecture, or the list is empty, nothing is said about it.   *)
Query ==
  /\ pc = "query"
  /\ pc' = "entry"
  /\ entries' \in {Entries[v], << >>}
  /\ k' = 1
  /\ file' = None
  /\ files' = {}
  /\ IF entries' # << >> THEN UNCHANGED <<unlisted, spoiled>>
     ELSE unlisted' = unlisted \union {v} /\ spoiled' = spoiled \union {v}
  /\ UNCHANGED <<v, force, disk, dir, calls, reported, torn>>

(* URLError in either of them: a message, and no files for this version.   *)
QueryFails ==
  /\ pc = "query"
  /\ pc' = "entry"
  /\ entries' = << >>
  /\ k' = 1
  /\ file' = None
  /\ files' = {}
  /\ Report
  /\ UNCHANGED <<v, force, disk, dir, calls, torn>>

-------------------------------------------------------------------------------
(* downloadFiles(): the loop over the entries of a hash                    *)

(* Mutant: a UseExisting that takes an archive on disk for a version done. *)
AlreadyThere ==
  /\ AtEntry
  /\ IsFile(Name) /\ ~force
  /\ file' = Name
  /\ k' = k + 1
  /\ UNCHANGED <<pc, v, entries, force, files, disk, dir, calls, history>>

UseExisting ==
  /\ AtEntry
  /\ IsFile(Name) /\ ~force
  /\ file' = Name
  /\ pc' = "size"
  /\ UNCHANGED <<v, entries, k, force, files, disk, dir, calls, history>>

(* Another name of a file that is there.  symlink_to() raises an error if  *)
(* something exists under that name.                                       *)
Alias ==
  /\ AtEntry
  /\ ~IsFile(Name) \/ force
  /\ file # None
  /\ IF file = Name THEN pc' = "size" /\ UNCHANGED disk
     ELSE IF disk[Name] # "absent" THEN pc' = "aborted" /\ UNCHANGED disk
     ELSE pc' = "size" /\ disk' = [disk EXCEPT ![Name] = Resolve(file)]
  /\ UNCHANGED <<v, entries, k, force, file, files, dir, calls, history>>

MayDownload ==
  /\ AtEntry
  /\ ~IsFile(Name) \/ force
  /\ file = None

(* urlretrieve() opens the file only when the server has answered.         *)
DownloadRefused ==
  /\ MayDownload
  /\ k' = k + 1
  /\ Report
  /\ UNCHANGED <<pc, v, entries, force, file, files, disk, dir, calls, torn>>

DownloadBegins ==
  /\ MayDownload
  /\ pc' = "download"
  /\ disk' = [disk EXCEPT ![Resolve(Name)] = "part"]
  /\ UNCHANGED <<loop, dir, calls, history>>

DownloadEnds ==
  /\ pc = "download"
  /\ pc' = "size"
  /\ disk' = [disk EXCEPT ![Resolve(Name)] = "whole"]
  /\ file' = Name
  /\ UNCHANGED <<v, entries, k, force, files, dir, calls, history>>

(* ContentTooShortError: what has arrived stays on disk.                   *)
DownloadShort ==
  /\ pc = "download"
  /\ pc' = "entry"
  /\ k' = k + 1
  /\ torn' = torn \union {Resolve(Name)}
  /\ Report
  /\ UNCHANGED <<v, entries, force, file, files, disk, dir, calls>>

(* Mutant: a SizeRight that is content with a file of any size.            *)
AnySize ==
  /\ pc = "size"
  /\ pc' = "entry"
  /\ k' = k + 1
  /\ files' = files \union {Resolve(Name)}
  /\ UNCHANGED <<v, entries, force, file, disk, dir, calls, history>>

(* assert target.stat().st_size == entry['size']                           *)
SizeRight ==
  /\ pc = "size"
  /\ disk[Resolve(Name)] = "whole"
  /\ pc' = "entry"
  /\ k' = k + 1
  /\ files' = files \union {Resolve(Name)}
  /\ UNCHANGED <<v, entries, force, file, disk, dir, calls, history>>

(* Mutant: a SizeWrong that ignores the file and goes on.                  *)
IgnoreFile ==
  /\ pc = "size"
  /\ disk[Resolve(Name)] # "whole"
  /\ pc' = "entry"
  /\ k' = k + 1
  /\ UNCHANGED <<v, entries, force, file, files, disk, dir, calls, history>>

SizeWrong ==
  /\ pc = "size"
  /\ disk[Resolve(Name)] # "whole"
  /\ pc' = "aborted"
  /\ UNCHANGED <<loop, disk, dir, calls, history>>

-------------------------------------------------------------------------------
(* extract()                                                               *)

NextVersion ==
  IF v < NumVersions THEN v' = v + 1 /\ pc' = "query"
                     ELSE UNCHANGED v /\ pc' = "done"

(* The version directory is made even if there is nothing to extract.      *)
MakeEmpty ==
  /\ pc = "entry"
  /\ k > Len(entries)
  /\ files = {}
  /\ dir' = [dir EXCEPT ![v] = IF @ = "absent" THEN "part" ELSE @]
  /\ NextVersion
  /\ UNCHANGED <<entries, k, force, file, files, disk, calls, history>>

(* dpkg-deb -x replaces the files of an earlier extraction one by one.     *)
Unpack ==
  /\ pc = "entry"
  /\ k > Len(entries)
  /\ files # {}
  /\ pc' = "unpack"
  /\ dir' = [dir EXCEPT ![v] = "part"]
  /\ UNCHANGED <<loop, disk, calls, history>>

UnpackEnds ==
  /\ pc = "unpack"
  /\ dir' = [dir EXCEPT ![v] = "whole"]
  /\ NextVersion
  /\ UNCHANGED <<entries, k, force, file, files, disk, calls, history>>

-------------------------------------------------------------------------------

(* The script is killed, or ends with an exception it does not handle,     *)
(* such as a connection that is reset.                                     *)
Interrupt ==
  /\ pc \notin Ended
  /\ pc' = "idle"
  /\ torn' = IF pc = "download" THEN torn \union {Resolve(Name)} ELSE torn
  /\ spoiled' = IF pc = "unpack" THEN spoiled \union {v} ELSE spoiled
  /\ UNCHANGED <<loop, disk, dir, calls, reported, unlisted>>

(* cleanup.sh removes the version directories only.                        *)
Cleanup ==
  /\ pc \in Ended
  /\ pc' = "idle"
  /\ dir' = [x \in Versions |-> "absent"]
  /\ UNCHANGED <<loop, disk, calls, history>>

Next ==
  \/ Call \/ Query \/ QueryFails
  \/ UseExisting \/ Alias
  \/ DownloadRefused \/ DownloadBegins \/ DownloadEnds \/ DownloadShort
  \/ SizeRight \/ SizeWrong
  \/ MakeEmpty \/ Unpack \/ UnpackEnds
  \/ Interrupt \/ Cleanup

Spec == Init /\ [][Next]_vars

-------------------------------------------------------------------------------

TypeOK ==
  /\ pc \in Labels
  /\ v \in 0 .. NumVersions
  /\ entries \in Seq(Names)
  /\ k \in Nat
  /\ force \in BOOLEAN
  /\ file \in Names \union {None}
  /\ files \subseteq Names
  /\ disk \in [Names -> Contents \union Names]
  /\ dir \in [Versions -> Contents]
  /\ calls \in 0 .. MaxCalls
  /\ reported \subseteq Versions
  /\ unlisted \subseteq Versions
  /\ torn \subseteq Names
  /\ spoiled \subseteq Versions

(* Nothing but complete archives is ever extracted, although archives of   *)
(* earlier calls are used again, under several names.                      *)
NoTornExtracted == pc = "unpack" => \A n \in files : disk[n] = "whole"

(* When a call ends regularly, each version is extracted completely, or    *)
(* the call has printed an error for it, or the service listed nothing of  *)
(* it in this call, which is the one way to miss a version silently:       *)
(* whatever earlier calls have left, and whatever cleanup.sh has removed.  *)
SuccessIsComplete ==
  pc = "done" => \A x \in Versions : dir[x] = "whole" \/ x \in reported \union unlisted

(* An incomplete version directory, which the backtest takes for a version *)
(* like any other, always goes back to an error message, an empty list or  *)
(* an interrupted extraction of that very version.                         *)
PartialExplained ==
  \A x \in Versions :
    dir[x] = "part" => x \in spoiled \/ (pc = "unpack" /\ v = x)

(* A call without --force fails its size check only on an archive of that  *)
(* version whose download has ended too early before: archives downloaded  *)
(* completely, and links to them, never stop a later call.                 *)
AbortsOnlyOnTorn ==
  pc = "aborted" /\ ~force =>
    \E j \in 1 .. Len(entries) : Resolve(entries[j]) \in torn

===============================================================================
