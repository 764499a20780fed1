------------------------------ MODULE CryptTest ------------------------------
(***************************************************************************)
(* The test application for libxcrypt (main.c): a thread for each test     *)
(* library runs its main() again and again, the main thread waits for them *)
(* in the order of the arguments and adds up.  The wrappers of crypt() and *)
(* crypt_gensalt() give each thread a result of its own; gmtime() does     *)
(* not, and its result is used for the time of a line.                     *)
(*                                                                         *)
(* libxcrypt itself is external and replaced by Luci at any moment: it     *)
(* works and yields the hash it is asked for, or it yields anything.       *)
(***************************************************************************)
EXTENDS Integers, FiniteSets

CONSTANTS
  NumTests,   \* argc - 2
  MaxTotal    \* bound: runs per test, unless they are unlimited

ASSUME CryptAssumption == NumTests \in Nat \ {0} /\ MaxTotal \in Nat

Threads == 1 .. NumTests

VARIABLES
  total,      \* the first argument, -1 for any negative number
  file,       \* what is behind each of the others
  at, i,      \* main(): "create", "join" or "exited", the argument it is at
  load_failed, success, status,
  pc,         \* where each thread is
  n, won,     \* how many runs it has begun, and its variable success
  val,        \* what it has returned
  data,       \* the static struct of crypt(): whose hash it holds, per thread
  tm,         \* the static struct of gmtime(): the run it was computed for
  works,      \* the release in use does
  faulty,     \* history: one that does not has computed a hash
  over,       \* history: runs of each test that are over
  stamp       \* history: the run whose time is on the last line of each test

mainVars   == <<at, i, load_failed, success, status>>
threadVars == <<pc, n, won, val>>
sharedVars == <<data, tm>>
pastVars   == <<over, stamp>>
vars == <<total, file, mainVars, threadVars, sharedVars, works, faulty, pastVars>>

Files == {"missing", "broken", "nomain", "test"}

(* A run is named by its test and its number; the first one by 0.          *)
NoRun == <<0, 0>>

Init ==
  /\ total \in -1 .. MaxTotal
  /\ file \in [Threads -> Files]
  /\ at = "create" /\ i = 1
  /\ load_failed = 0 /\ success = 0 /\ status = -1
  /\ pc = [t \in Threads |-> "none"]
  /\ n = [t \in Threads |-> 0] /\ won = [t \in Threads |-> 0] /\ val = [t \in Threads |-> 0]
  /\ data = [t \in Threads |-> 0] /\ tm = NoRun
  /\ works \in BOOLEAN /\ faulty = FALSE
  /\ over = [t \in Threads |-> 0] /\ stamp = [t \in Threads |-> NoRun]

-------------------------------------------------------------------------------
(* main()                                                                  *)

Exit(s) == at' = "exited" /\ status' = s

Create ==
  /\ at = "create"
  /\ i \in Threads
  /\ pc' = [pc EXCEPT ![i] = "load"]
  /\ i' = i + 1
  /\ UNCHANGED <<total, file, at, load_failed, success, status, n, won, val, sharedVars,
                 works, faulty, pastVars>>

(* pthread_create() fails: main() returns and takes the others with it.    *)
CreateFails ==
  /\ at = "create"
  /\ i \in Threads
  /\ Exit(1)
  /\ UNCHANGED <<total, file, i, load_failed, success, threadVars, sharedVars, works, faulty,
                 pastVars>>

AllCreated ==
  /\ at = "create"
  /\ i \notin Threads
  /\ at' = "join" /\ i' = 1
  /\ UNCHANGED <<total, file, load_failed, success, status, threadVars, sharedVars, works,
                 faulty, pastVars>>

(* Mutant: every test that could be loaded counts.                         *)
CountLoaded(v) ==
  /\ load_failed' = load_failed + IF v < 0 THEN 1 ELSE 0
  /\ success' = success + IF v >= 0 THEN 1 ELSE 0

(* A test without runs is neither a failure to load nor a success.         *)
Count(v) ==
  /\ load_failed' = load_failed + IF v < 0 THEN 1 ELSE 0
  /\ success' = success + IF v >= 0 /\ total > 0 /\ v = total THEN 1 ELSE 0

Join ==
  /\ at = "join"
  /\ i \in Threads
  /\ pc[i] = "ended"
  /\ Count(val[i])
  /\ i' = i + 1
  /\ UNCHANGED <<total, file, at, status, threadVars, sharedVars, works, faulty, pastVars>>

AllJoined ==
  /\ at = "join"
  /\ i \notin Threads
  /\ Exit(IF success = NumTests THEN 0 ELSE 1)
  /\ UNCHANGED <<total, file, i, load_failed, success, threadVars, sharedVars, works, faulty,
                 pastVars>>

-------------------------------------------------------------------------------
(* runtest() in thread t.                                                  *)

At(t, p) == at # "exited" /\ pc[t] = p
GoTo(t, p) == pc' = [pc EXCEPT ![t] = p]

(* realpath(), dlopen() and dlsym() have codes of their own.               *)
Code(f) == CASE f = "missing" -> -1 [] f = "broken" -> -2 [] f = "nomain" -> -3

LoadFails(t) ==
  /\ At(t, "load")
  /\ file[t] # "test"
  /\ val' = [val EXCEPT ![t] = Code(file[t])]
  /\ GoTo(t, "ended")
  /\ UNCHANGED <<total, file, mainVars, n, won, sharedVars, works, faulty, pastVars>>

Load(t) ==
  /\ At(t, "load")
  /\ file[t] = "test"
  /\ GoTo(t, "loop")
  /\ UNCHANGED <<total, file, mainVars, n, won, val, sharedVars, works, faulty, pastVars>>

(* Mutant: the time is broken down when the run begins.                    *)
BeginWithTime(t) ==
  /\ At(t, "loop")
  /\ total < 0 \/ n[t] < total
  /\ n' = [n EXCEPT ![t] = IF total < 0 THEN 0 ELSE @ + 1]
  /\ tm' = <<t, n'[t]>>
  /\ GoTo(t, "call")
  /\ UNCHANGED <<total, file, mainVars, won, val, data, works, faulty, pastVars>>

(* Unlimited runs are not counted.                                         *)
Begin(t) ==
  /\ At(t, "loop")
  /\ total < 0 \/ n[t] < total
  /\ n' = [n EXCEPT ![t] = IF total < 0 THEN 0 ELSE @ + 1]
  /\ GoTo(t, "call")
  /\ UNCHANGED <<total, file, mainVars, won, val, sharedVars, works, faulty, pastVars>>

(* Mutant: crypt() with one result for all, as in the C library.           *)
CryptShared(t) ==
  \E hash \in {t} \union (IF works THEN {} ELSE {0}) : data' = [u \in Threads |-> hash]

(* crypt() puts its result where its caller will look for it.              *)
crypt(t) ==
  \E hash \in {t} \union (IF works THEN {} ELSE {0}) : data' = [data EXCEPT ![t] = hash]

Call(t) ==
  /\ At(t, "call")
  /\ crypt(t)
  /\ faulty' = (faulty \/ ~works)
  /\ GoTo(t, "compare")
  /\ UNCHANGED <<total, file, mainVars, n, won, val, tm, works, pastVars>>

(* The test looks at the result and may hash again; main() returns.        *)
Again(t) ==
  /\ At(t, "compare")
  /\ data[t] = t
  /\ GoTo(t, "call")
  /\ UNCHANGED <<total, file, mainVars, n, won, val, sharedVars, works, faulty, pastVars>>

Return(t) ==
  /\ At(t, "compare")
  /\ won' = [won EXCEPT ![t] = IF data[t] = t /\ total >= 0 THEN @ + 1 ELSE @]
  /\ over' = [over EXCEPT ![t] = n[t]]
  /\ GoTo(t, "time")
  /\ UNCHANGED <<total, file, mainVars, n, val, sharedVars, works, faulty, stamp>>

(* gmtime() of the start of this run, strftime() of what it returns.       *)
gmtime(t) ==
  /\ At(t, "time")
  /\ tm' = <<t, n[t]>>
  /\ GoTo(t, "print")
  /\ UNCHANGED <<total, file, mainVars, n, won, val, data, works, faulty, pastVars>>

PrintLine(t) ==
  /\ At(t, "print")
  /\ stamp' = [stamp EXCEPT ![t] = tm]
  /\ GoTo(t, "loop")
  /\ UNCHANGED <<total, file, mainVars, n, won, val, sharedVars, works, faulty, over>>

(* Mutant: no runs are taken for unlimited ones.                           *)
EndUnlessNone(t) ==
  /\ At(t, "loop")
  /\ total > 0 /\ n[t] >= total
  /\ val' = [val EXCEPT ![t] = won[t]]
  /\ GoTo(t, "ended")
  /\ UNCHANGED <<total, file, mainVars, n, won, sharedVars, works, faulty, pastVars>>

End(t) ==
  /\ At(t, "loop")
  /\ total >= 0 /\ n[t] >= total
  /\ val' = [val EXCEPT ![t] = won[t]]
  /\ GoTo(t, "ended")
  /\ UNCHANGED <<total, file, mainVars, n, won, sharedVars, works, faulty, pastVars>>

Main == Create \/ CreateFails \/ AllCreated \/ Join \/ AllJoined

Thread(t) ==
  LoadFails(t) \/ Load(t) \/ Begin(t) \/ Call(t) \/ Return(t) \/ gmtime(t) \/ PrintLine(t) \/ End(t)

(* Luci replaces the library.                                              *)
Update ==
  /\ at # "exited"
  /\ works' = ~works
  /\ UNCHANGED <<total, file, mainVars, threadVars, sharedVars, faulty, pastVars>>

Next == Main \/ Update \/ \E t \in Threads : Thread(t) \/ Again(t)

Spec == Init /\ [][Next]_vars

(* Threads are scheduled, and a test does not hash for ever.               *)
FairSpec ==
  /\ Spec
  /\ WF_vars(Main)
  /\ \A t \in Threads : WF_vars(Thread(t))
  /\ \A t \in Threads : SF_vars(Return(t))

-------------------------------------------------------------------------------

Places == {"none", "load", "loop", "call", "compare", "time", "print", "ended"}
Runs   == (0 .. NumTests) \X (0 .. MaxTotal)

TypeOK ==
  /\ total \in -1 .. MaxTotal
  /\ file \in [Threads -> Files]
  /\ at \in {"create", "join", "exited"}
  /\ i \in 1 .. NumTests + 1
  /\ load_failed \in 0 .. NumTests /\ success \in 0 .. NumTests /\ status \in {-1, 0, 1}
  /\ pc \in [Threads -> Places]
  /\ n \in [Threads -> 0 .. MaxTotal] /\ won \in [Threads -> 0 .. MaxTotal]
  /\ val \in [Threads -> -3 .. MaxTotal]
  /\ data \in [Threads -> 0 .. NumTests] /\ tm \in Runs
  /\ works \in BOOLEAN /\ faulty \in BOOLEAN
  /\ over \in [Threads -> 0 .. MaxTotal] /\ stamp \in [Threads -> Runs]

(* Threads hash at the same time, and a run fails nevertheless only if a   *)
(* release that does not work has computed a hash ("Wrapper for MT unsafe  *)
(* interface").                                                            *)
FailsOnlyOnFaults ==
  \A t \in Threads : won[t] < over[t] => faulty

(* The exit status is 0 if and only if every test could be loaded and all  *)
(* of its runs, at least one, have succeeded, in whatever order the        *)
(* threads have ended; what is reported then adds up.                      *)
ExitIsTruthful ==
  at = "exited" /\ i > NumTests /\ status # -1 =>
    /\ status = 0 <=> \A t \in Threads : file[t] = "test" /\ total > 0 /\ won[t] = total
    /\ load_failed = Cardinality({t \in Threads : file[t] # "test"})

(* The time of a line is the start of its run, unless another thread has   *)
(* ended a run of its own in between: then it may be the start of that     *)
(* one, and never that of a run that still goes on.                        *)
TimesOfEndedRuns ==
  \A t \in Threads : stamp[t] # NoRun =>
    stamp[t][2] <= over[stamp[t][1]] /\ (stamp[t][1] = t => stamp[t][2] \in {n[t], n[t] - 1})

(* The steps a thread has left at most, hashing again and again aside, and *)
(* those of the main thread.                                               *)
Ahead == [none |-> 2, load |-> 1, loop |-> 0, call |-> 3, compare |-> 3, time |-> 2,
          print |-> 1, ended |-> 0]
ThreadLeft(t) ==
  IF pc[t] = "ended" THEN 0 ELSE 1 + Ahead[pc[t]] + 4 * (total - n[t])
MainLeft ==
  CASE at = "create" -> NumTests + 4 + NumTests - i
    [] at = "join"   -> NumTests + 2 - i
    [] OTHER         -> 0

(* With a limited number of runs every step brings the end nearer, but for *)
(* the hashing itself and the replacements; none puts it off, be it one of *)
(* another thread.                                                         *)
EndComesNearer ==
  [][total >= 0 =>
       /\ \A t \in Threads : ThreadLeft(t)' \in 0 .. ThreadLeft(t)
       /\ MainLeft' \in 0 .. MainLeft
       /\ \/ MainLeft' < MainLeft
          \/ \E t \in Threads : ThreadLeft(t)' < ThreadLeft(t) \/ Call(t) \/ Again(t)
          \/ Update]_vars

(* With a limited number of runs the application ends.                     *)
Termination == total >= 0 ~> at = "exited"

===============================================================================
