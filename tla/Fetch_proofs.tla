------------------------------ MODULE Fetch_proofs -----------------------------
(***************************************************************************)
(* Proofs about the retrieval of packages, for any versions, any names and *)
(* any number of calls, each with or without --force.                      *)
(***************************************************************************)
EXTENDS Fetch, TLAPS

(***************************************************************************)
(* Where the loops are.                                                    *)
(***************************************************************************)
LoopInv ==
  /\ pc \notin {"idle", "done"} => v \in Versions
  /\ pc = "entry" => k >= 1
  /\ pc \in {"download", "size"} => k \in 1 .. Len(entries)

BaseInv == TypeOK /\ LoopInv

(* The loop over the entries visits names only, and so do the links.       *)
LEMMA CurrentName ==
  ASSUME BaseInv, AtEntry \/ pc \in {"download", "size"}
  PROVE  Name \in Names /\ Resolve(Name) \in Names /\ v \in Versions
<1>1. entries \in Seq(Names) /\ k \in 1 .. Len(entries)
  BY DEF BaseInv, LoopInv, TypeOK, AtEntry
<1>2. Name \in Names
  BY <1>1 DEF Name
<1>3. QED
  BY <1>2 DEF Resolve, BaseInv, TypeOK, LoopInv, AtEntry

(* No statement leaves the types or the bounds of the loops.               *)
LEMMA NextBaseInv == BaseInv /\ [Next]_vars => BaseInv'
<1> SUFFICES ASSUME BaseInv, [Next]_vars PROVE BaseInv'
  OBVIOUS
<1>n. NumVersions \in Nat \ {0} /\ MaxCalls \in Nat
      /\ \A x \in Versions : Entries[x] \in Seq(Names)
  BY EntriesAssumption DEF Versions
<1> USE <1>n
    DEF BaseInv, TypeOK, LoopInv, Labels, Ended, Contents, Versions, loop, history
<1>1. CASE Call
  BY <1>1 DEF Call
<1>2. CASE Query
  <2>1. v \in Versions /\ Entries[v] \in Seq(Names) /\ << >> \in Seq(Names)
    BY <1>2 DEF Query
  <2>2. entries' \in Seq(Names) /\ pc' = "entry" /\ v' = v /\ k' = 1
    BY <1>2, <2>1 DEF Query
  <2>3. unlisted' \subseteq Versions /\ spoiled' \subseteq Versions
    BY <1>2, <2>1 DEF Query
  <2>4. QED
    BY <1>2, <2>1, <2>2, <2>3 DEF Query
<1>3. CASE QueryFails
  BY <1>3 DEF QueryFails, Report
<1>4. CASE UseExisting
  BY <1>4, CurrentName DEF UseExisting, AtEntry
<1>5. CASE Alias
  <2>1. Name \in Names /\ file \in Names /\ Resolve(file) \in Names
    BY <1>5, CurrentName DEF Alias, Resolve
  <2>2. disk' \in [Names -> Contents \union Names]
    BY <1>5, <2>1 DEF Alias
  <2>3. QED
    BY <1>5, <2>2 DEF Alias, AtEntry
<1>6. CASE DownloadRefused
  BY <1>6 DEF DownloadRefused, MayDownload, AtEntry, Report
<1>7. CASE DownloadBegins
  BY <1>7, CurrentName DEF DownloadBegins, MayDownload, AtEntry
<1>8. CASE DownloadEnds
  BY <1>8, CurrentName DEF DownloadEnds
<1>9. CASE DownloadShort
  BY <1>9, CurrentName DEF DownloadShort, Report
<1>10. CASE SizeRight
  BY <1>10, CurrentName DEF SizeRight
<1>11. CASE SizeWrong
  BY <1>11 DEF SizeWrong
<1>12. CASE MakeEmpty
  BY <1>12 DEF MakeEmpty, NextVersion
<1>13. CASE Unpack
  BY <1>13 DEF Unpack
<1>14. CASE UnpackEnds
  BY <1>14 DEF UnpackEnds, NextVersion
<1>15. CASE Interrupt
  BY <1>15, CurrentName DEF Interrupt
<1>16. CASE Cleanup
  BY <1>16 DEF Cleanup
<1>17. CASE UNCHANGED vars
  BY <1>17 DEF vars
<1>18. QED
  BY <1>1, <1>2, <1>3, <1>4, <1>5, <1>6, <1>7, <1>8, <1>9, <1>10, <1>11,
     <1>12, <1>13, <1>14, <1>15, <1>16, <1>17 DEF Next

(* Types and loops, whatever has been called before.                       *)
THEOREM BaseInvHolds == Spec => []BaseInv
<1>n. NumVersions \in Nat /\ MaxCalls \in Nat
  BY EntriesAssumption
<1>1. Init => BaseInv
  <2> SUFFICES ASSUME Init PROVE BaseInv
    OBVIOUS
  <2>1. disk \in [Names -> Contents \union Names] /\ dir \in [Versions -> Contents]
    BY DEF Init, Contents
  <2>2. pc \in Labels /\ force \in BOOLEAN /\ file \in Names \union {None}
    BY DEF Init, Labels, Ended
  <2>3. v \in 0 .. NumVersions /\ k \in Nat /\ calls \in 0 .. MaxCalls
    BY <1>n DEF Init
  <2>4. /\ entries \in Seq(Names) /\ files = {} /\ reported = {} /\ unlisted = {}
        /\ torn = {} /\ spoiled = {} /\ LoopInv
    BY DEF Init, LoopInv
  <2>5. QED
    BY <2>1, <2>2, <2>3, <2>4 DEF BaseInv, TypeOK
<1>2. QED
  BY <1>1, NextBaseInv, PTL DEF Spec

-------------------------------------------------------------------------------
(***************************************************************************)
(* What is on disk.  Links lead to archives.  An archive is complete, or   *)
(* being downloaded, or its download has ended too early.  The files that  *)
(* have passed the size check are not touched again by the same version.   *)
(***************************************************************************)
Active == {"entry", "download", "size", "unpack"}

LinkInv == \A n \in Names : disk[n] \in Names => disk[disk[n]] \in {"part", "whole"}

TornInv ==
  \A n \in Names :
    disk[n] = "part" => n \in torn \/ (pc = "download" /\ n = Resolve(Name))

FileInv ==
  pc \in Active =>
    /\ \A n \in files : disk[n] = "whole"
    /\ file = None => files = {}
    /\ file # None => disk[Resolve(file)] \in {"part", "whole"}
    /\ pc = "download" => file = None /\ disk[Resolve(Name)] = "part"
    /\ pc = "size" => file # None /\ disk[Resolve(Name)] \in {"part", "whole"}

DiskInv == LinkInv /\ TornInv /\ FileInv /\ AbortsOnlyOnTorn

(* Nothing is both the content of a file and the name of one.              *)
LEMMA ContentsAreNoNames ==
  /\ None \notin Names
  /\ "absent" \notin Names /\ "part" \notin Names /\ "whole" \notin Names
  BY EntriesAssumption

(* Every file behind a name is an archive or not there.                    *)
LEMMA ResolvedIsNoLink ==
  ASSUME BaseInv, LinkInv, NEW n \in Names
  PROVE  Resolve(n) \in Names /\ disk[Resolve(n)] \in Contents
  BY ContentsAreNoNames DEF BaseInv, TypeOK, LinkInv, Resolve, Contents

(* A step that leaves the archives alone, and is not about a file.         *)
LEMMA DiskStays ==
  ASSUME BaseInv, DiskInv, disk' = disk, torn' = torn,
         pc # "download", pc' \notin Active \union {"aborted"}
  PROVE  DiskInv'
  BY DEF DiskInv, LinkInv, TornInv, FileInv, AbortsOnlyOnTorn, Active, Resolve

(* Each statement keeps track of complete and torn archives.               *)
LEMMA NextDiskInv == BaseInv /\ DiskInv /\ [Next]_vars => DiskInv'
<1> SUFFICES ASSUME BaseInv, DiskInv, [Next]_vars PROVE DiskInv'
  OBVIOUS
<1> USE DEF Active, Ended, loop, history
<1>1. CASE Call
  BY <1>1, DiskStays DEF Call
<1>2. CASE Query
  BY <1>2 DEF Query, DiskInv, LinkInv, TornInv, FileInv, AbortsOnlyOnTorn, Resolve
<1>3. CASE QueryFails
  BY <1>3
     DEF QueryFails, Report, DiskInv, LinkInv, TornInv, FileInv, AbortsOnlyOnTorn,
         Resolve
<1>4. CASE UseExisting
  <2>1. Name \in Names /\ disk[Resolve(Name)] \in {"part", "whole"}
    BY <1>4, CurrentName, ResolvedIsNoLink
       DEF UseExisting, IsFile, DiskInv, Contents
  <2>2. Name' = Name /\ file' # None
    BY <1>4, <2>1, ContentsAreNoNames DEF UseExisting, Name
  <2>3. QED
    BY <1>4, <2>1, <2>2
       DEF UseExisting, AtEntry, DiskInv, LinkInv, TornInv, FileInv,
           AbortsOnlyOnTorn, Resolve
<1>5. CASE Alias
  <2>1. Name \in Names /\ file \in Names /\ Name' = Name
    BY <1>5, CurrentName DEF Alias, BaseInv, TypeOK, Name
  <2>2. Resolve(file) \in Names /\ disk[Resolve(file)] \in {"part", "whole"}
    BY <1>5, <2>1, ResolvedIsNoLink DEF Alias, AtEntry, DiskInv, FileInv
  <2>3. CASE file = Name
    BY <1>5, <2>1, <2>2, <2>3
       DEF Alias, AtEntry, DiskInv, LinkInv, TornInv, FileInv, AbortsOnlyOnTorn,
           Resolve
  <2>4. CASE file # Name /\ disk[Name] # "absent"
    <3>1. IsFile(Name)
      BY <2>1, <2>4 DEF IsFile, Resolve, DiskInv, LinkInv
    <3>2. force /\ force' /\ pc' = "aborted" /\ disk' = disk
      BY <1>5, <2>4, <3>1 DEF Alias
    <3>3. QED
      BY <1>5, <3>2
         DEF Alias, AtEntry, DiskInv, LinkInv, TornInv, FileInv, AbortsOnlyOnTorn
  <2>5. CASE file # Name /\ disk[Name] = "absent"
    <3>1. /\ pc = "entry" /\ pc' = "size" /\ torn' = torn
          /\ file' = file /\ files' = files
          /\ disk' = [disk EXCEPT ![Name] = Resolve(file)]
      BY <1>5, <2>5 DEF Alias, AtEntry
    <3>2. /\ disk'[Name] = Resolve(file) /\ Resolve(file) # Name
          /\ \A n \in Names : n # Name => disk'[n] = disk[n]
      BY <2>1, <2>2, <2>5, <3>1 DEF BaseInv, TypeOK
    <3>3. LinkInv'
      BY <2>2, <2>5, <3>2 DEF DiskInv, LinkInv
    <3>4. TornInv'
      BY <2>2, <3>1, <3>2, ContentsAreNoNames DEF DiskInv, TornInv
    <3>5. \A n \in files' : disk'[n] = "whole"
      BY <2>5, <3>1, <3>2 DEF DiskInv, FileInv, BaseInv, TypeOK
    <3>6. Resolve(file)' = Resolve(file) /\ Resolve(Name)' = Resolve(file)
      BY <2>1, <2>2, <2>5, <3>1, <3>2 DEF Resolve
    <3>7. FileInv'
      BY <1>5, <2>1, <2>2, <3>1, <3>2, <3>5, <3>6 DEF Alias, DiskInv, FileInv
    <3>8. QED
      BY <3>1, <3>3, <3>4, <3>7 DEF DiskInv, AbortsOnlyOnTorn
  <2>6. QED
    BY <2>3, <2>4, <2>5
<1>6. CASE DownloadRefused
  BY <1>6
     DEF DownloadRefused, MayDownload, AtEntry, Report, DiskInv, LinkInv, TornInv,
         FileInv, AbortsOnlyOnTorn, Resolve
<1>7. CASE DownloadBegins
  <2> DEFINE r == Resolve(Name)
  <2>1. r \in Names /\ disk[r] \in Contents /\ Name \in Names /\ Name' = Name
    BY <1>7, CurrentName, ResolvedIsNoLink
       DEF DownloadBegins, MayDownload, DiskInv, Name
  <2>2. /\ pc = "entry" /\ pc' = "download" /\ torn' = torn /\ file = None
        /\ file' = None /\ files' = {}
        /\ disk'[r] = "part" /\ \A n \in Names : n # r => disk'[n] = disk[n]
    BY <1>7, <2>1 DEF DownloadBegins, MayDownload, AtEntry, BaseInv, TypeOK, DiskInv,
                      FileInv
  <2>3. LinkInv'
    BY <2>1, <2>2, ContentsAreNoNames DEF DiskInv, LinkInv
  <2>4. Resolve(Name)' = r
    BY <2>1, <2>2, ContentsAreNoNames DEF Resolve
  <2>5. TornInv'
    BY <2>1, <2>2, <2>4 DEF DiskInv, TornInv
  <2>6. FileInv' /\ AbortsOnlyOnTorn'
    BY <2>2, <2>4 DEF FileInv, AbortsOnlyOnTorn
  <2>7. QED
    BY <2>3, <2>5, <2>6 DEF DiskInv
<1>8. CASE DownloadEnds
  <2> DEFINE r == Resolve(Name)
  <2>1. r \in Names /\ Name \in Names /\ Name' = Name /\ disk[r] = "part"
    BY <1>8, CurrentName DEF DownloadEnds, DiskInv, FileInv, Name
  <2>2. /\ pc = "download" /\ pc' = "size" /\ torn' = torn /\ file' = Name
        /\ files = {} /\ files' = {}
        /\ disk'[r] = "whole" /\ \A n \in Names : n # r => disk'[n] = disk[n]
    BY <1>8, <2>1 DEF DownloadEnds, BaseInv, TypeOK, DiskInv, FileInv
  <2>3. LinkInv'
    BY <2>1, <2>2, ContentsAreNoNames DEF DiskInv, LinkInv
  <2>4. Resolve(Name)' = r
    BY <2>1, <2>2, ContentsAreNoNames DEF Resolve
  <2>5. TornInv'
    BY <2>1, <2>2 DEF DiskInv, TornInv
  <2>6. Resolve(file)' = r
    BY <2>1, <2>2, ContentsAreNoNames DEF Resolve
  <2>7. FileInv' /\ AbortsOnlyOnTorn'
    BY <2>1, <2>2, <2>4, <2>6, ContentsAreNoNames DEF FileInv, AbortsOnlyOnTorn
  <2>8. QED
    BY <2>3, <2>5, <2>7 DEF DiskInv
<1>9. CASE DownloadShort
  BY <1>9
     DEF DownloadShort, Report, DiskInv, LinkInv, TornInv, FileInv,
         AbortsOnlyOnTorn, Resolve
<1>10. CASE SizeRight
  BY <1>10
     DEF SizeRight, DiskInv, LinkInv, TornInv, FileInv, AbortsOnlyOnTorn, Resolve
<1>11. CASE SizeWrong
  <2>1. Name \in Names /\ Resolve(Name) \in Names /\ v \in Versions
    BY <1>11, CurrentName DEF SizeWrong
  <2>2. disk[Resolve(Name)] = "part" /\ pc = "size"
    BY <1>11 DEF SizeWrong, DiskInv, FileInv
  <2>3. Resolve(Name) \in torn
    BY <2>1, <2>2 DEF DiskInv, TornInv
  <2>4. k \in 1 .. Len(entries)
    BY <2>2 DEF BaseInv, LoopInv
  <2>5. AbortsOnlyOnTorn'
    BY <1>11, <2>3, <2>4 DEF SizeWrong, AbortsOnlyOnTorn, Name, Resolve
  <2>6. QED
    BY <1>11, <2>5 DEF SizeWrong, DiskInv, LinkInv, TornInv, FileInv, Resolve
<1>12. CASE MakeEmpty
  BY <1>12, DiskStays DEF MakeEmpty, NextVersion
<1>13. CASE Unpack
  BY <1>13
     DEF Unpack, DiskInv, LinkInv, TornInv, FileInv, AbortsOnlyOnTorn, Resolve
<1>14. CASE UnpackEnds
  BY <1>14, DiskStays DEF UnpackEnds, NextVersion
<1>15. CASE Interrupt
  BY <1>15
     DEF Interrupt, DiskInv, LinkInv, TornInv, FileInv, AbortsOnlyOnTorn, Resolve
<1>16. CASE Cleanup
  BY <1>16, DiskStays DEF Cleanup
<1>17. CASE UNCHANGED vars
  BY <1>17
     DEF vars, DiskInv, LinkInv, TornInv, FileInv, AbortsOnlyOnTorn, Resolve, Name
<1>18. QED
  BY <1>1, <1>2, <1>3, <1>4, <1>5, <1>6, <1>7, <1>8, <1>9, <1>10, <1>11,
     <1>12, <1>13, <1>14, <1>15, <1>16, <1>17 DEF Next

(* The archives in every reachable state.                                  *)
LEMMA DiskInvHolds == Spec => []DiskInv
<1>1. Init => DiskInv
  BY ContentsAreNoNames
     DEF Init, DiskInv, LinkInv, TornInv, FileInv, AbortsOnlyOnTorn, Active
<1>2. QED
  BY <1>1, NextDiskInv, BaseInvHolds, PTL DEF Spec

(* Only complete archives are extracted, for any packages and calls.       *)
THEOREM NoTornExtractedHolds == Spec => []NoTornExtracted
<1>1. DiskInv => NoTornExtracted
  BY DEF DiskInv, FileInv, Active, NoTornExtracted
<1>2. QED
  BY <1>1, DiskInvHolds, PTL

(* Without --force only a torn archive can make the size check fail.       *)
THEOREM AbortsOnlyOnTornHolds == Spec => []AbortsOnlyOnTorn
<1>1. DiskInv => AbortsOnlyOnTorn
  BY DEF DiskInv
<1>2. QED
  BY <1>1, DiskInvHolds, PTL

-------------------------------------------------------------------------------
(***************************************************************************)
(* The version directories: the versions the loop has passed are complete, *)
(* reported or unlisted; there is no other way to get to the end of the    *)
(* entries without any file that passed the check.                         *)
(***************************************************************************)
Passed(x) == v > x \/ pc = "done"

DirInv ==
  /\ reported \union unlisted \subseteq spoiled
  /\ pc = "entry" /\ files = {} => k = 1 \/ v \in reported
  /\ pc = "entry" /\ entries = << >> => v \in reported \union unlisted
  /\ pc \notin {"idle", "aborted"} =>
       \A x \in Versions : Passed(x) => dir[x] = "whole" \/ x \in reported \union unlisted
  /\ PartialExplained

(* A step that leaves the directories and the version alone, and at most   *)
(* adds a message about this version.                                      *)
LEMMA DirsStay ==
  ASSUME BaseInv, DirInv, dir' = dir, v' = v, pc \in {"query", "entry", "download", "size"},
         pc' # "done", pc' # "unpack",
         UNCHANGED <<reported, unlisted, spoiled>> \/ Report,
         pc' = "entry" => entries' # << >> \/ v' \in reported',
         pc' = "entry" /\ files' = {} => k' = 1 \/ v' \in reported'
  PROVE  DirInv'
<1>1. /\ reported \subseteq reported' /\ unlisted' = unlisted /\ spoiled \subseteq spoiled'
      /\ (reported \union unlisted \subseteq spoiled)'
  BY DEF DirInv, Report
<1>2. pc \notin {"idle", "done", "aborted", "unpack"}
  OBVIOUS
<1>3. QED
  BY <1>1, <1>2 DEF DirInv, Passed, PartialExplained

(* The loop goes on to the next version, or the call is over.              *)
LEMMA VersionPassed ==
  ASSUME BaseInv, DirInv, NextVersion, pc \in {"entry", "unpack"},
         UNCHANGED <<reported, unlisted, spoiled>>,
         \A x \in Versions : x # v => dir'[x] = dir[x],
         dir'[v] = "whole" \/ v \in reported \union unlisted
  PROVE  DirInv'
<1>1. v \in Versions /\ NumVersions \in Nat /\ Versions \subseteq Nat
  BY EntriesAssumption DEF BaseInv, LoopInv, Versions
<1>2. pc' \in {"query", "done"}
  BY DEF NextVersion
<1>3. ASSUME NEW x \in Versions, Passed(x)'
      PROVE  dir'[x] = "whole" \/ x \in reported \union unlisted
  <2>1. x = v \/ v > x
    BY <1>1, <1>3 DEF NextVersion, Passed, Versions
  <2>2. QED
    BY <2>1 DEF DirInv, Passed
<1>4. ASSUME NEW x \in Versions, dir'[x] = "part" PROVE x \in spoiled
  BY <1>4 DEF DirInv, PartialExplained
<1>5. QED
  BY <1>2, <1>3, <1>4 DEF DirInv, PartialExplained

(* No statement leaves a gap in the version directories without a reason.  *)
LEMMA NextDirInv == BaseInv /\ DirInv /\ [Next]_vars => DirInv'
<1> SUFFICES ASSUME BaseInv, DirInv, [Next]_vars PROVE DirInv'
  OBVIOUS
<1> USE DEF Ended, loop, history
<1>1. CASE Call
  BY <1>1 DEF Call, DirInv, Passed, PartialExplained, Versions
<1>2. CASE Query
  <2>1. /\ unlisted \subseteq unlisted' /\ spoiled \subseteq spoiled' /\ reported' = reported
        /\ reported' \union unlisted' \subseteq spoiled' /\ (entries' = << >> => v \in unlisted')
    BY <1>2 DEF Query, DirInv
  <2>2. pc = "query" /\ pc' = "entry" /\ k' = 1 /\ v' = v /\ dir' = dir
    BY <1>2 DEF Query
  <2>3. QED
    BY <2>1, <2>2 DEF DirInv, Passed, PartialExplained
<1>3. CASE QueryFails
  BY <1>3, DirsStay DEF QueryFails, Report
<1>4. CASE UseExisting
  BY <1>4, DirsStay DEF UseExisting, AtEntry
<1>5. CASE Alias
  BY <1>5, DirsStay DEF Alias, AtEntry
<1>6. CASE DownloadRefused
  BY <1>6, DirsStay DEF DownloadRefused, MayDownload, AtEntry, Report
<1>7. CASE DownloadBegins
  BY <1>7, DirsStay DEF DownloadBegins, MayDownload, AtEntry
<1>8. CASE DownloadEnds
  BY <1>8, DirsStay DEF DownloadEnds
<1>9. CASE DownloadShort
  BY <1>9, DirsStay DEF DownloadShort, Report
<1>10. CASE SizeRight
  <2>1. entries # << >>
    BY <1>10 DEF SizeRight, BaseInv, LoopInv
  <2>2. QED
    BY <1>10, <2>1, DirsStay DEF SizeRight
<1>11. CASE SizeWrong
  BY <1>11, DirsStay DEF SizeWrong
<1>12. CASE MakeEmpty
  <2>1. v \in Versions /\ k \in Nat
    BY <1>12 DEF MakeEmpty, BaseInv, TypeOK, LoopInv
  <2>2. k = 1 => entries = << >>
    BY <1>12, <2>1 DEF MakeEmpty, BaseInv, TypeOK
  <2>3. v \in reported \union unlisted
    BY <1>12, <2>2 DEF MakeEmpty, DirInv
  <2>4. \A x \in Versions : x # v => dir'[x] = dir[x]
    BY <1>12 DEF MakeEmpty, BaseInv, TypeOK
  <2>5. QED
    BY <1>12, <2>3, <2>4, VersionPassed DEF MakeEmpty
<1>13. CASE Unpack
  BY <1>13 DEF Unpack, DirInv, Passed, PartialExplained, BaseInv, TypeOK
<1>14. CASE UnpackEnds
  BY <1>14, VersionPassed DEF UnpackEnds, BaseInv, TypeOK, LoopInv
<1>15. CASE Interrupt
  BY <1>15 DEF Interrupt, DirInv, PartialExplained
<1>16. CASE Cleanup
  BY <1>16 DEF Cleanup, DirInv, PartialExplained
<1>17. CASE UNCHANGED vars
  BY <1>17 DEF vars, DirInv, Passed, PartialExplained
<1>18. QED
  BY <1>1, <1>2, <1>3, <1>4, <1>5, <1>6, <1>7, <1>8, <1>9, <1>10, <1>11,
     <1>12, <1>13, <1>14, <1>15, <1>16, <1>17 DEF Next

(* The version directories in every reachable state.                       *)
LEMMA DirInvHolds == Spec => []DirInv
<1>1. Init => DirInv
  BY DEF Init, DirInv, PartialExplained
<1>2. QED
  BY <1>1, NextDirInv, BaseInvHolds, PTL DEF Spec

(* A call that ends regularly has extracted or reported each version, but  *)
(* for those of which the service has listed nothing.                      *)
THEOREM SuccessIsCompleteHolds == Spec => []SuccessIsComplete
<1>1. DirInv => SuccessIsComplete
  BY DEF DirInv, Passed, SuccessIsComplete
<1>2. QED
  BY <1>1, DirInvHolds, PTL

(* An incomplete version directory always has a reason.                    *)
THEOREM PartialExplainedHolds == Spec => []PartialExplained
<1>1. DirInv => PartialExplained
  BY DEF DirInv
<1>2. QED
  BY <1>1, DirInvHolds, PTL

===============================================================================
