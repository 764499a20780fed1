--------------------------- MODULE CryptTest_proofs ---------------------------
(***************************************************************************)
(* Proofs about CryptTest, for any number of tests and of runs.            *)
(*                                                                         *)
(* The argument for the hashes is about one thread: between the call of    *)
(* crypt() and the comparison nobody else writes to its struct.  The exit  *)
(* status needs the count of the tests that main() has been through, and   *)
(* that nothing changes for a thread once it has ended.                    *)
(***************************************************************************)
EXTENDS CryptTest, FiniteSetTheorems, TLAPS

(* How far a thread is, with a limited number of runs or not.              *)
Running(t) == pc[t] \in {"call", "compare"}

RunInv(t) ==
  /\ total < 0 => n[t] = 0 /\ won[t] = 0 /\ over[t] = 0
  /\ total >= 0 => /\ n[t] <= total
                   /\ n[t] = IF Running(t) THEN over[t] + 1 ELSE over[t]
                   /\ won[t] <= over[t]
  /\ pc[t] \notin {"none", "load", "ended"} => file[t] = "test"
  /\ pc[t] \in {"none", "load"} => n[t] = 0
  /\ at = "create" /\ t >= i => pc[t] = "none"

(* Without a fault every result that is looked at is the right one.        *)
HashInv(t) ==
  ~faulty => /\ won[t] = over[t]
             /\ pc[t] = "compare" => data[t] = t

(* A test that main() counts as a success.                                 *)
Good(t) == file[t] = "test" /\ total > 0 /\ won[t] = total

EndInv(t) ==
  pc[t] = "ended" => IF file[t] = "test" THEN total >= 0 /\ n[t] = total /\ val[t] = won[t]
                     ELSE val[t] < 0

Passed   == {t \in 1 .. i - 1 : Good(t)}
Unloaded == {t \in 1 .. i - 1 : file[t] # "test"}

(* What main() has counted, and that the exit status tells.                *)
JoinInv ==
  /\ at = "create" => load_failed = 0 /\ success = 0
  /\ at = "join" => /\ \A t \in 1 .. i - 1 : pc[t] = "ended"
                    /\ load_failed <= i - 1 /\ success <= i - 1
                    /\ success = Cardinality(Passed)
                    /\ load_failed = Cardinality(Unloaded)
  /\ ExitIsTruthful

(* Times that are kept are those of runs that are over.                    *)
Ended(r) == r = NoRun \/ (r[1] \in Threads /\ r[2] <= over[r[1]])

TimeInv(t) ==
  /\ Ended(stamp[t])
  /\ pc[t] \in {"none", "load"} => stamp[t] = NoRun
  /\ pc[t] = "print" /\ tm[1] = t => tm[2] = n[t]
  /\ stamp[t][1] = t => stamp[t][2] \in IF pc[t] \in {"loop", "ended"} THEN {n[t]}
                                        ELSE {n[t], n[t] - 1}

CryptInv ==
  /\ TypeOK
  /\ \A t \in Threads : RunInv(t) /\ HashInv(t) /\ EndInv(t) /\ TimeInv(t)
  /\ Ended(tm)
  /\ JoinInv

(* The bounds of the counters follow from the number of runs.              *)
LEMMA TypeStep ==
  ASSUME CryptInv, [Next]_vars
  PROVE  TypeOK'
<1>a. TypeOK
  BY DEF CryptInv
<1> USE CryptAssumption, <1>a DEF TypeOK, Places, At, GoTo, mainVars,
            threadVars, sharedVars, pastVars
<1>1. CASE Create
  <2>1. i' \in 1 .. NumTests + 1
    BY <1>1 DEF Create, Threads
  <2>2. pc' \in [Threads -> Places]
    BY <1>1 DEF Create
  <2> QED
    BY <1>1, <2>1, <2>2 DEF Create
<1>2. CASE CreateFails
  BY <1>2 DEF CreateFails, Exit
<1>3. CASE AllCreated
  BY <1>3 DEF AllCreated, Threads
<1>4. CASE Join
  <2>1. i' \in 1 .. NumTests + 1
    BY <1>4 DEF Join, Threads
  <2>2. val[i] \in Int
    BY <1>4 DEF Join
  <2>3. load_failed <= i - 1 /\ success <= i - 1 /\ i <= NumTests
    BY <1>4 DEF Join, Threads, CryptInv, JoinInv
  <2>4. load_failed' \in {load_failed, load_failed + 1} /\ success' \in {success, success + 1}
    BY <1>4, <2>2 DEF Join, Count
  <2>5. load_failed' \in 0 .. NumTests /\ success' \in 0 .. NumTests
    BY <2>3, <2>4
  <2> QED
    BY <1>4, <2>1, <2>5 DEF Join
<1>5. CASE AllJoined
  BY <1>5 DEF AllJoined, Exit
<1>6. CASE Update
  BY <1>6 DEF Update
<1>7. ASSUME NEW t \in Threads, LoadFails(t) PROVE TypeOK'
  BY <1>7 DEF LoadFails, Code, Files
<1>8. ASSUME NEW t \in Threads, Load(t) PROVE TypeOK'
  BY <1>8 DEF Load
<1>9. ASSUME NEW t \in Threads, Begin(t) PROVE TypeOK'
  BY <1>9 DEF Begin, CryptInv, RunInv
<1>10. ASSUME NEW t \in Threads, Call(t) PROVE TypeOK'
  <2>1. PICK hash \in {t} \union (IF works THEN {} ELSE {0}) : data' = [data EXCEPT ![t] = hash]
    BY <1>10 DEF Call, crypt
  <2>2. hash \in 0 .. NumTests
    <3>1. t \in 0 .. NumTests /\ 0 \in 0 .. NumTests
      BY DEF Threads
    <3>2. hash = t \/ hash = 0
      BY <2>1
    <3> QED
      BY <3>1, <3>2
  <2>3. data' \in [Threads -> 0 .. NumTests]
    BY <2>1, <2>2
  <2> QED
    BY <1>10, <2>3 DEF Call
<1>11. ASSUME NEW t \in Threads, Again(t) PROVE TypeOK'
  BY <1>11 DEF Again
<1>12. ASSUME NEW t \in Threads, Return(t) PROVE TypeOK'
  BY <1>12 DEF Return, CryptInv, RunInv, Running
<1>13. ASSUME NEW t \in Threads, gmtime(t) PROVE TypeOK'
  <2>1. tm' \in Runs
    <3>1. t \in 0 .. NumTests /\ n[t] \in 0 .. MaxTotal
      BY DEF Threads
    <3> QED
      BY <1>13, <3>1 DEF gmtime, Runs
  <2> QED
    BY <1>13, <2>1 DEF gmtime
<1>14. ASSUME NEW t \in Threads, PrintLine(t) PROVE TypeOK'
  BY <1>14 DEF PrintLine
<1>15. ASSUME NEW t \in Threads, End(t) PROVE TypeOK'
  BY <1>15 DEF End
<1>16. CASE UNCHANGED vars
  BY <1>16 DEF vars, mainVars, threadVars, sharedVars, pastVars
<1> QED
  BY <1>1, <1>2, <1>3, <1>4, <1>5, <1>6, <1>7, <1>8,
     <1>9, <1>10, <1>11, <1>12, <1>13, <1>14, <1>15, <1>16 DEF Next, Main, Thread

(* What thread u depends on stays as it is.                                *)
Same(u) ==
  /\ pc'[u] = pc[u] /\ n'[u] = n[u] /\ won'[u] = won[u] /\ val'[u] = val[u]
  /\ over'[u] = over[u] /\ data'[u] = data[u] /\ stamp'[u] = stamp[u]
  /\ total' = total /\ file' = file /\ (faulty => faulty')
  /\ at' = "create" /\ u >= i' => at = "create" /\ u >= i

OwnInv(u) == RunInv(u) /\ HashInv(u) /\ EndInv(u)

(* The invariant of a thread depends on its own variables only.            *)
LEMMA SameStep ==
  ASSUME TypeOK, NEW u \in Threads, OwnInv(u), Same(u)
  PROVE  OwnInv(u)'
BY DEF OwnInv, Same, RunInv, HashInv, EndInv, Running, TypeOK

(* The steps of a thread do not touch what the others depend on.           *)
LEMMA OthersSame ==
  ASSUME TypeOK, NEW t \in Threads, NEW u \in Threads \ {t}, Thread(t) \/ Again(t)
  PROVE  Same(u)
<1> USE DEF TypeOK, Same, At, GoTo, mainVars, threadVars, sharedVars, pastVars
<1>1. CASE LoadFails(t)
  BY <1>1 DEF LoadFails
<1>2. CASE Load(t)
  BY <1>2 DEF Load
<1>3. CASE Begin(t)
  BY <1>3 DEF Begin
<1>4. CASE Call(t)
  BY <1>4 DEF Call, crypt
<1>5. CASE Again(t)
  BY <1>5 DEF Again
<1>6. CASE Return(t)
  BY <1>6 DEF Return
<1>7. CASE gmtime(t)
  BY <1>7 DEF gmtime
<1>8. CASE PrintLine(t)
  BY <1>8 DEF PrintLine
<1>9. CASE End(t)
  BY <1>9 DEF End
<1> QED
  BY <1>1, <1>2, <1>3, <1>4, <1>5, <1>6, <1>7, <1>8, <1>9 DEF Thread

(* Neither do those of main() and of Luci, but to create a thread.         *)
LEMMA MainSame ==
  ASSUME TypeOK, NEW u \in Threads, Main \/ Update \/ UNCHANGED vars, ~(Create /\ u = i)
  PROVE  Same(u)
<1> USE CryptAssumption DEF TypeOK, Threads, Same, mainVars, threadVars, sharedVars, pastVars
<1>1. CASE Create
  BY <1>1 DEF Create, Exit
<1>2. CASE CreateFails
  BY <1>2 DEF CreateFails, Exit
<1>3. CASE AllCreated
  BY <1>3 DEF AllCreated, Exit
<1>4. CASE Join
  BY <1>4 DEF Join, Exit
<1>5. CASE AllJoined
  BY <1>5 DEF AllJoined, Exit
<1>6. CASE Update
  BY <1>6 DEF Update, Exit
<1>7. CASE UNCHANGED vars
  BY <1>7 DEF vars
<1> QED
  BY <1>1, <1>2, <1>3, <1>4, <1>5, <1>6, <1>7 DEF Main

(* The steps of the thread itself.                                         *)
LEMMA OwnStep ==
  ASSUME TypeOK, NEW t \in Threads, OwnInv(t), Thread(t) \/ Again(t)
  PROVE  OwnInv(t)'
<1> USE CryptAssumption DEF TypeOK, OwnInv, RunInv, HashInv, EndInv, Running, Files, Places,
       At, GoTo, mainVars, threadVars, sharedVars, pastVars
<1>1. CASE LoadFails(t)
  BY <1>1 DEF LoadFails, Code
<1>2. CASE Load(t)
  BY <1>2 DEF Load
<1>3. CASE Begin(t)
  BY <1>3 DEF Begin
<1>4. CASE Call(t)
  BY <1>4 DEF Call, crypt
<1>5. CASE Again(t)
  BY <1>5 DEF Again
<1>6. CASE Return(t)
  BY <1>6 DEF Return
<1>7. CASE gmtime(t)
  BY <1>7 DEF gmtime
<1>8. CASE PrintLine(t)
  BY <1>8 DEF PrintLine
<1>9. CASE End(t)
  BY <1>9 DEF End
<1> QED
  BY <1>1, <1>2, <1>3, <1>4, <1>5, <1>6, <1>7, <1>8, <1>9 DEF Thread

-------------------------------------------------------------------------------

(* A run that is over stays over.                                          *)
LEMMA OverGrows ==
  ASSUME TypeOK, NEW t \in Threads, OwnInv(t), Thread(t) \/ Again(t)
  PROVE  \A u \in Threads : over'[u] >= over[u]
<1>1. \A u \in Threads \ {t} : over'[u] = over[u]
  BY OthersSame DEF Same
<1>2. over'[t] >= over[t]
  <2>1. CASE Return(t)
    BY <2>1 DEF Return, TypeOK, OwnInv, RunInv, Running, At
  <2>2. CASE ~Return(t)
    BY <2>2 DEF Thread, LoadFails, Load, Begin, Call, Again, gmtime, PrintLine, End, TypeOK, pastVars
  <2> QED
    BY <2>1, <2>2
<1> QED
  BY <1>1, <1>2 DEF TypeOK

(* What was a run that is over stays one, for runs are not taken back.     *)
LEMMA EndedStays ==
  ASSUME NEW r \in Runs, Ended(r), TypeOK, TypeOK', \A u \in Threads : over'[u] >= over[u]
  PROVE  Ended(r)'
<1>1. CASE r = NoRun
  BY <1>1 DEF Ended
<1>2. CASE r # NoRun
  <2>1. r[1] \in Threads /\ r[2] <= over[r[1]] /\ over'[r[1]] >= over[r[1]]
    BY <1>2 DEF Ended
  <2>2. r[2] \in Int /\ over[r[1]] \in Int /\ over'[r[1]] \in Int
    BY <2>1, CryptAssumption DEF TypeOK, Runs
  <2> QED
    BY <2>1, <2>2 DEF Ended
<1> QED
  BY <1>1, <1>2

(* The times that are kept, after a step of any thread.                    *)
LEMMA TimeStep ==
  ASSUME CryptInv, TypeOK', NEW t \in Threads, Thread(t) \/ Again(t)
  PROVE  Ended(tm)' /\ \A u \in Threads : TimeInv(u)'
<1>1. \A u \in Threads : over'[u] >= over[u]
  BY OverGrows DEF CryptInv, OwnInv
<1>2. Ended(tm)'
  <2>1. CASE gmtime(t)
    <3>1. over'[t] = n[t] /\ tm' = <<t, n[t]>>
      BY <2>1 DEF gmtime, pastVars, CryptInv, RunInv, Running, TypeOK, At
    <3> QED
      BY <3>1 DEF Ended, CryptInv, TypeOK
  <2>2. CASE ~gmtime(t)
    <3>1. tm' = tm
      BY <2>2 DEF Thread, LoadFails, Load, Begin, Call, Again, Return, PrintLine, End, sharedVars
    <3> QED
      BY <3>1, <1>1, EndedStays DEF CryptInv, TypeOK, Ended
  <2> QED
    BY <2>1, <2>2
<1>3. ASSUME NEW u \in Threads \ {t} PROVE TimeInv(u)'
  <2>1. Same(u)
    BY <1>3, OthersSame DEF CryptInv
  <2>2. stamp'[u] = stamp[u] /\ pc'[u] = pc[u] /\ n'[u] = n[u]
    BY <2>1 DEF Same
  <2>3. Ended(stamp[u])'
    BY <1>1, <2>2, EndedStays DEF CryptInv, TypeOK, TimeInv, Ended
  <2>4. tm' = tm \/ tm' = <<t, n[t]>>
    BY DEF Thread, LoadFails, Load, Begin, Call, Again, Return, gmtime, PrintLine, End, sharedVars
  <2>5. TimeInv(u)
    BY DEF CryptInv
  <2> QED
    BY <2>2, <2>3, <2>4, <2>5 DEF TimeInv
<1>4. TimeInv(t)'
  <2>1. Ended(stamp[t])'
    <3>1. stamp'[t] = stamp[t] \/ stamp'[t] = tm
      BY DEF Thread, LoadFails, Load, Begin, Call, Again, Return, gmtime, PrintLine, End, pastVars,
             CryptInv, TypeOK
    <3>2. Ended(stamp[t]) /\ Ended(tm) /\ stamp[t] \in Runs /\ tm \in Runs
      BY DEF CryptInv, TypeOK, TimeInv
    <3> QED
      BY <1>1, <3>1, <3>2, EndedStays DEF CryptInv, Ended
  <2>2. TypeOK /\ TimeInv(t) /\ RunInv(t) /\ t # 0 /\ NoRun[1] = 0
    BY DEF CryptInv, NoRun, Threads
  <2> USE <2>1, <2>2 DEF TimeInv, RunInv, Running, TypeOK, At, GoTo, Places, sharedVars, pastVars
  <2>3. CASE LoadFails(t)
    BY <2>3 DEF LoadFails
  <2>4. CASE Load(t)
    BY <2>4 DEF Load
  <2>5. CASE Begin(t)
    BY <2>5 DEF Begin
  <2>6. CASE Call(t)
    BY <2>6 DEF Call
  <2>7. CASE Again(t)
    BY <2>7 DEF Again
  <2>8. CASE Return(t)
    BY <2>8 DEF Return
  <2>9. CASE gmtime(t)
    BY <2>9 DEF gmtime
  <2>10. CASE PrintLine(t)
    BY <2>10 DEF PrintLine
  <2>11. CASE End(t)
    BY <2>11 DEF End
  <2> QED
    BY <2>3, <2>4, <2>5, <2>6, <2>7, <2>8, <2>9, <2>10, <2>11 DEF Thread
<1> QED
  BY <1>2, <1>3, <1>4

-------------------------------------------------------------------------------

(* main() counts a test once it has ended.                                 *)
LEMMA JoinCounts ==
  ASSUME CryptInv, Join
  PROVE  JoinInv'
<1>1. /\ at = "join" /\ i \in Threads /\ pc[i] = "ended" /\ i' = i + 1 /\ at' = at
      /\ UNCHANGED <<total, file, pc, won, val, status>>
  BY DEF Join, threadVars
<1>2. RunInv(i) /\ EndInv(i) /\ JoinInv /\ TypeOK
  BY <1>1 DEF CryptInv
<1>3. i \in Int /\ 1 .. i = (1 .. i - 1) \union {i} /\ i \notin 1 .. i - 1
  BY <1>1 DEF Threads
<1>4. Good(i) <=> val[i] >= 0 /\ total > 0 /\ val[i] = total
  BY <1>1, <1>2 DEF Good, EndInv, TypeOK
<1>5. file[i] # "test" <=> val[i] < 0
  BY <1>1, <1>2 DEF EndInv, TypeOK
<1>6. Passed' = IF Good(i) THEN Passed \union {i} ELSE Passed
  BY <1>1, <1>3 DEF Passed, Good
<1>7. Unloaded' = IF file[i] # "test" THEN Unloaded \union {i} ELSE Unloaded
  BY <1>1, <1>3 DEF Unloaded
<1>8. /\ IsFiniteSet(Passed) /\ i \notin Passed
      /\ IsFiniteSet(Unloaded) /\ i \notin Unloaded
  <2>1. IsFiniteSet(1 .. i - 1)
    BY <1>3, FS_Interval
  <2> QED
    BY <2>1, <1>3, FS_Subset DEF Passed, Unloaded
<1>9. /\ Cardinality(Passed \union {i}) = Cardinality(Passed) + 1
      /\ Cardinality(Unloaded \union {i}) = Cardinality(Unloaded) + 1
  BY <1>8, FS_AddElement
<1>10. success' = Cardinality(Passed') /\ success' <= i
  BY <1>1, <1>2, <1>4, <1>6, <1>9 DEF Join, Count, JoinInv, TypeOK
<1>11. load_failed' = Cardinality(Unloaded') /\ load_failed' <= i
  BY <1>1, <1>2, <1>5, <1>7, <1>9 DEF Join, Count, JoinInv, TypeOK
<1>12. \A t \in 1 .. i' - 1 : pc'[t] = "ended"
  BY <1>1, <1>2, <1>3 DEF JoinInv
<1> QED
  BY <1>1, <1>3, <1>10, <1>11, <1>12 DEF JoinInv, ExitIsTruthful

(* The exit status tells whether all of them were successes.               *)
LEMMA StatusTells ==
  ASSUME CryptInv, AllJoined
  PROVE  JoinInv'
<1>1. /\ at = "join" /\ i = NumTests + 1 /\ at' = "exited"
      /\ status' = IF success = NumTests THEN 0 ELSE 1
      /\ UNCHANGED <<total, file, i, won, load_failed>>
  BY CryptAssumption DEF AllJoined, Exit, Threads, CryptInv, TypeOK, threadVars
<1>2. /\ success = Cardinality(Passed) /\ load_failed = Cardinality(Unloaded)
      /\ 1 .. i - 1 = Threads
  BY <1>1, CryptAssumption DEF CryptInv, JoinInv, Threads
<1>3. Unloaded = {t \in Threads : file[t] # "test"}
  BY <1>2 DEF Unloaded
<1>4. Passed \subseteq Threads /\ IsFiniteSet(Threads) /\ Cardinality(Threads) = NumTests
  <2>1. Passed \subseteq Threads
    BY <1>2 DEF Passed
  <2>2. IsFiniteSet(1 .. NumTests) /\ Cardinality(1 .. NumTests) = NumTests
    BY CryptAssumption, FS_Interval
  <2> QED
    BY <2>1, <2>2 DEF Threads
<1>5. Cardinality(Passed) = NumTests <=> Passed = Threads
  BY <1>4, FS_Subset
<1>6. Passed = Threads <=> \A t \in Threads : Good(t)
  BY <1>2 DEF Passed
<1>7. status' = 0 <=> \A t \in Threads : Good(t)
  BY <1>1, <1>2, <1>5, <1>6
<1>8. ExitIsTruthful'
  BY <1>1, <1>2, <1>3, <1>7 DEF ExitIsTruthful, Good
<1> QED
  BY <1>1, <1>8 DEF JoinInv

(* A thread that is still running has not been counted.                    *)
LEMMA JoinKept ==
  ASSUME CryptInv, NEW t \in Threads, Thread(t) \/ Again(t)
  PROVE  JoinInv'
<1>1. pc[t] # "ended" /\ at # "exited" /\ UNCHANGED mainVars
  BY DEF Thread, LoadFails, Load, Begin, Call, Again, Return, gmtime, PrintLine, End, At
<1>2. at = "join" => t \notin 1 .. i - 1
  BY <1>1 DEF CryptInv, JoinInv
<1>3. \A u \in Threads \ {t} : Same(u)
  BY OthersSame DEF CryptInv
<1>4. file' = file /\ total' = total
  BY DEF Thread, LoadFails, Load, Begin, Call, Again, Return, gmtime, PrintLine, End
<1>5. i - 1 <= NumTests /\ i \in Int
  BY CryptAssumption DEF CryptInv, TypeOK
<1>6. at = "join" => \A u \in 1 .. i - 1 : u \in Threads \ {t}
  BY <1>2, <1>5, CryptAssumption DEF Threads
<1>7. at = "join" => \A u \in 1 .. i - 1 : pc'[u] = pc[u] /\ won'[u] = won[u]
  BY <1>3, <1>6 DEF Same
<1>8. at = "join" => Passed' = Passed /\ Unloaded' = Unloaded
  BY <1>1, <1>4, <1>7 DEF Passed, Unloaded, Good, mainVars
<1> QED
  BY <1>1, <1>7, <1>8 DEF CryptInv, JoinInv, ExitIsTruthful, mainVars

(* The other steps of main() and those of Luci leave the counts alone.     *)
LEMMA JoinOther ==
  ASSUME CryptInv, Create \/ CreateFails \/ AllCreated \/ Update \/ UNCHANGED vars
  PROVE  JoinInv'
<1> USE CryptAssumption DEF CryptInv, JoinInv, ExitIsTruthful, TypeOK, threadVars, mainVars
<1>1. CASE Create
  BY <1>1 DEF Create
<1>2. CASE CreateFails
  BY <1>2 DEF CreateFails, Exit, Threads
<1>3. CASE AllCreated
  <2>1. Passed' = {} /\ Unloaded' = {} /\ 1 .. i' - 1 = {}
    BY <1>3 DEF AllCreated, Passed, Unloaded
  <2> QED
    BY <1>3, <2>1, FS_EmptySet DEF AllCreated
<1>4. CASE Update
  BY <1>4 DEF Update, Passed, Unloaded, Good
<1>5. CASE UNCHANGED vars
  BY <1>5 DEF vars, Passed, Unloaded, Good
<1> QED
  BY <1>1, <1>2, <1>3, <1>4, <1>5

-------------------------------------------------------------------------------

(* The invariant holds at first.                                           *)
LEMMA InitCryptInv == Init => CryptInv
<1> SUFFICES ASSUME Init PROVE CryptInv
  OBVIOUS
<1> USE CryptAssumption DEF Init
<1>1. 0 \in 0 .. NumTests /\ 0 \in 0 .. MaxTotal /\ 1 \in 1 .. NumTests + 1 /\ NoRun \in Runs
      /\ 0 \in -3 .. MaxTotal
  BY DEF NoRun, Runs
<1>2. TypeOK
  BY <1>1 DEF TypeOK, Places
<1>3. ASSUME NEW t \in Threads PROVE RunInv(t) /\ HashInv(t) /\ EndInv(t) /\ TimeInv(t)
  BY DEF RunInv, Running, HashInv, EndInv, TimeInv, Ended, NoRun, Threads
<1>4. Ended(tm) /\ JoinInv
  BY DEF Ended, JoinInv, ExitIsTruthful
<1> QED
  BY <1>2, <1>3, <1>4 DEF CryptInv

(* It is kept by every step of main(), of any thread and of Luci.          *)
LEMMA StepCryptInv == CryptInv /\ [Next]_vars => CryptInv'
<1> SUFFICES ASSUME CryptInv, [Next]_vars PROVE CryptInv'
  OBVIOUS
<1>1. TypeOK'
  BY TypeStep
<1>2. ASSUME NEW t \in Threads, Thread(t) \/ Again(t) PROVE CryptInv'
  <2>1. \A u \in Threads : OwnInv(u)'
    BY <1>2, OthersSame, SameStep, OwnStep DEF CryptInv, OwnInv
  <2> QED
    BY <1>1, <1>2, <2>1, TimeStep, JoinKept DEF CryptInv, OwnInv
<1>3. CASE Main \/ Update \/ UNCHANGED vars
  <2>1. JoinInv'
    BY <1>3, JoinCounts, StatusTells, JoinOther DEF Main
  <2>2. UNCHANGED <<tm, over, stamp, n>>
    BY <1>3 DEF Main, Create, CreateFails, AllCreated, Join, AllJoined, Update, vars, threadVars,
                sharedVars, pastVars
  <2>3. Ended(tm)'
    BY <2>2 DEF CryptInv, Ended
  <2>4. ASSUME NEW u \in Threads, ~(Create /\ u = i) PROVE OwnInv(u)' /\ TimeInv(u)'
    <3>1. Same(u)
      BY <1>3, <2>4, MainSame DEF CryptInv
    <3>2. OwnInv(u)'
      BY <3>1, SameStep DEF CryptInv, OwnInv
    <3> QED
      BY <2>2, <3>1, <3>2 DEF CryptInv, TimeInv, Ended, Same
  <2>5. ASSUME NEW u \in Threads, Create, u = i PROVE OwnInv(u)' /\ TimeInv(u)'
    <3>1. /\ pc[u] = "none" /\ pc'[u] = "load" /\ i' = u + 1
          /\ UNCHANGED <<total, file, at, n, won, val, over, stamp, tm, faulty>>
      BY <2>5 DEF Create, CryptInv, RunInv, TypeOK, sharedVars, pastVars
    <3>2. RunInv(u) /\ HashInv(u) /\ TimeInv(u)
      BY DEF CryptInv
    <3>3. TimeInv(u)'
      BY <3>1, <3>2 DEF TimeInv, Ended
    <3> QED
      BY <3>1, <3>2, <3>3 DEF OwnInv, RunInv, HashInv, EndInv, Running, Threads
  <2> QED
    BY <1>1, <2>1, <2>3, <2>4, <2>5 DEF CryptInv, OwnInv
<1> QED
  BY <1>2, <1>3 DEF Next

(* The invariant, whatever Luci does and however threads are scheduled.    *)
THEOREM CryptInvariant == Spec => []CryptInv
BY InitCryptInv, StepCryptInv, PTL DEF Spec

(* Each thread gets a result of its own from crypt(): a run fails only if  *)
(* a release that does not work has computed a hash.                       *)
THEOREM ThreadsHashApart == Spec => []FailsOnlyOnFaults
<1>1. CryptInv => FailsOnlyOnFaults
  BY DEF CryptInv, HashInv, FailsOnlyOnFaults, TypeOK
<1> QED
  BY <1>1, CryptInvariant, PTL

(* The exit status and the report of main() tell what has happened, for    *)
(* any number of tests that end in any order.                              *)
THEOREM StatusIsTruthful == Spec => []ExitIsTruthful
<1>1. CryptInv => ExitIsTruthful
  BY DEF CryptInv, JoinInv
<1> QED
  BY <1>1, CryptInvariant, PTL

(* The time printed for a run is never that of a run that still goes on,   *)
(* although all threads share the struct of gmtime().                      *)
THEOREM TimesAreOver == Spec => []TimesOfEndedRuns
<1>1. CryptInv => TimesOfEndedRuns
  BY DEF CryptInv, TimeInv, Ended, TimesOfEndedRuns
<1> QED
  BY <1>1, CryptInvariant, PTL

-------------------------------------------------------------------------------
(* What a thread has left is a natural number.                             *)
LEMMA LeftIsNatural ==
  ASSUME CryptInv, total >= 0, NEW t \in Threads
  PROVE  ThreadLeft(t) \in Nat /\ total \in Nat /\ n[t] \in 0 .. total /\ pc[t] \in Places
<1>1. total \in Nat /\ n[t] \in 0 .. total /\ pc[t] \in Places
  BY CryptAssumption DEF CryptInv, TypeOK, RunInv
<1> QED
  BY <1>1 DEF ThreadLeft, Ahead, Places

(* The steps of a thread leave it less, unless it hashes.                  *)
LEMMA ThreadComesNearer ==
  ASSUME CryptInv, CryptInv', total >= 0, NEW t \in Threads, Thread(t) \/ Again(t)
  PROVE  /\ ThreadLeft(t)' \in 0 .. ThreadLeft(t)
         /\ ThreadLeft(t)' < ThreadLeft(t) \/ Call(t) \/ Again(t)
<1>1. total' = total
  BY DEF Thread, LoadFails, Load, Begin, Call, Again, Return, gmtime, PrintLine, End
<1>2. /\ ThreadLeft(t) \in Nat /\ total \in Nat /\ n[t] \in 0 .. total
      /\ n'[t] \in 0 .. total
  BY <1>1, LeftIsNatural DEF CryptInv, TypeOK, RunInv
<1>3. TypeOK /\ RunInv(t)
  BY DEF CryptInv
<1>4. \/ pc[t] = "load" /\ pc'[t] = "loop" /\ n'[t] = n[t]
      \/ pc[t] \in {"load", "loop"} /\ pc'[t] = "ended"
      \/ pc[t] = "loop" /\ pc'[t] = "call" /\ n'[t] = n[t] + 1
      \/ pc[t] = "call" /\ pc'[t] = "compare" /\ n'[t] = n[t] /\ Call(t)
      \/ pc[t] = "compare" /\ pc'[t] = "call" /\ n'[t] = n[t] /\ Again(t)
      \/ pc[t] = "compare" /\ pc'[t] = "time" /\ n'[t] = n[t]
      \/ pc[t] = "time" /\ pc'[t] = "print" /\ n'[t] = n[t]
      \/ pc[t] = "print" /\ pc'[t] = "loop" /\ n'[t] = n[t]
  <2> USE <1>1, <1>2, <1>3 DEF TypeOK, At, GoTo
  <2>1. CASE LoadFails(t)
    BY <2>1 DEF LoadFails
  <2>2. CASE Load(t)
    BY <2>2 DEF Load
  <2>3. CASE Begin(t)
    BY <2>3 DEF Begin
  <2>4. CASE Call(t)
    BY <2>4 DEF Call
  <2>5. CASE Again(t)
    BY <2>5 DEF Again
  <2>6. CASE Return(t)
    BY <2>6 DEF Return
  <2>7. CASE gmtime(t)
    BY <2>7 DEF gmtime
  <2>8. CASE PrintLine(t)
    BY <2>8 DEF PrintLine
  <2>9. CASE End(t)
    BY <2>9 DEF End
  <2> QED
    BY <2>1, <2>2, <2>3, <2>4, <2>5, <2>6, <2>7, <2>8, <2>9 DEF Thread
<1> QED
  BY <1>1, <1>2, <1>4 DEF ThreadLeft, Ahead

(* What depends on the thread alone stays if all that does.                *)
LEMMA SameLeft ==
  ASSUME CryptInv, total >= 0, NEW u \in Threads, Same(u)
  PROVE  ThreadLeft(u)' \in 0 .. ThreadLeft(u)
<1>1. ThreadLeft(u)' = ThreadLeft(u)
  BY DEF ThreadLeft, Same
<1> QED
  BY <1>1, LeftIsNatural

(* The main thread goes on, or stays where it is.                          *)
LEMMA MainComesNearer ==
  ASSUME CryptInv, Main \/ UNCHANGED <<at, i>>
  PROVE  MainLeft' \in 0 .. MainLeft /\ (Main => MainLeft' < MainLeft)
<1>1. NumTests \in Nat /\ at \in {"create", "join", "exited"} /\ i \in 1 .. NumTests + 1
  BY CryptAssumption DEF CryptInv, TypeOK
<1>2. CASE Main
  <2>1. \/ i \in Threads /\ i' = i + 1 /\ at' = at /\ at # "exited"
        \/ at = "create" /\ at' = "join" /\ i' = 1
        \/ at # "exited" /\ at' = "exited" /\ i' = i
    BY <1>2 DEF Main, Create, CreateFails, AllCreated, Join, AllJoined, Exit
  <2> QED
    BY <1>1, <2>1 DEF MainLeft, Threads
<1>3. CASE ~Main /\ UNCHANGED <<at, i>>
  BY <1>1, <1>3 DEF MainLeft
<1> QED
  BY <1>2, <1>3

(* Every step but a hash or a replacement brings the end nearer, and none  *)
(* puts it off: what is left to show of Termination needs the fairness.    *)
THEOREM EveryStepEndsNearer == Spec => EndComesNearer
<1> DEFINE Nearer ==
      /\ \A t \in Threads : ThreadLeft(t)' \in 0 .. ThreadLeft(t)
      /\ MainLeft' \in 0 .. MainLeft
      /\ \/ MainLeft' < MainLeft
         \/ \E t \in Threads : ThreadLeft(t)' < ThreadLeft(t) \/ Call(t) \/ Again(t)
         \/ Update
<1>1. CryptInv /\ CryptInv' /\ [Next]_vars => [total >= 0 => Nearer]_vars
  <2> SUFFICES ASSUME CryptInv, CryptInv', Next, total >= 0
               PROVE  Nearer
    OBVIOUS
  <2>1. ASSUME NEW t \in Threads, Thread(t) \/ Again(t) PROVE Nearer
    <3>1. UNCHANGED <<at, i>>
      BY <2>1 DEF Thread, LoadFails, Load, Begin, Call, Again, Return, gmtime, PrintLine, End,
                  mainVars
    <3>2. MainLeft' \in 0 .. MainLeft
      BY <3>1, MainComesNearer
    <3>3. \A u \in Threads \ {t} : ThreadLeft(u)' \in 0 .. ThreadLeft(u)
      BY <2>1, OthersSame, SameLeft DEF CryptInv
    <3>4. /\ ThreadLeft(t)' \in 0 .. ThreadLeft(t)
          /\ ThreadLeft(t)' < ThreadLeft(t) \/ Call(t) \/ Again(t)
      BY <2>1, ThreadComesNearer
    <3> QED
      BY <3>2, <3>3, <3>4
  <2>2. CASE Main \/ Update
    <3>1. MainLeft' \in 0 .. MainLeft /\ (Main => MainLeft' < MainLeft)
      BY <2>2, MainComesNearer DEF Update, mainVars
    <3>2. ASSUME NEW u \in Threads, ~(Create /\ u = i)
          PROVE  ThreadLeft(u)' \in 0 .. ThreadLeft(u)
      BY <2>2, <3>2, MainSame, SameLeft DEF CryptInv
    <3>3. ASSUME NEW u \in Threads, Create, u = i
          PROVE  ThreadLeft(u)' \in 0 .. ThreadLeft(u)
      <4>1. /\ pc[u] = "none" /\ pc'[u] = "load" /\ n'[u] = n[u] /\ total' = total
        BY <3>3 DEF Create, CryptInv, RunInv, TypeOK
      <4> QED
        BY <4>1, LeftIsNatural DEF ThreadLeft, Ahead
    <3> QED
      BY <2>2, <3>1, <3>2, <3>3
  <2> QED
    BY <2>1, <2>2 DEF Next
<1> QED
  BY <1>1, CryptInvariant, PTL DEF Spec, EndComesNearer

===============================================================================
