------------------------------ MODULE Minicheck -------------------------------
(***************************************************************************)
(* The test runner of the expat test application (minicheck.c) and the     *)
(* endless loop around it (main() of runtests.c): each round builds a      *)
(* suite for the version it finds, runs every test of it and reports.      *)
(*                                                                         *)
(* A check that fails leaves its test by longjmp() into srunner_run_all(), *)
(* which goes on with the next test: there is no teardown for it.  What a  *)
(* fixture or a test does is left to the module that extends this one.     *)
(***************************************************************************)
EXTENDS Naturals, Sequences, FiniteSets, SequencesExt

CONSTANTS
  Versions,   \* the releases Luci can update to, <<major, minor, micro>>, in order
  Suites      \* the test cases make_suite() may add, each a sequence

(* The macro MIN_VERSION.                                                  *)
MIN_VERSION(v, w) ==
  \/ v[1] > w[1]
  \/ v[1] = w[1] /\ v[2] > w[2]
  \/ v[1] = w[1] /\ v[2] = w[2] /\ v[3] >= w[3]

ASSUME VersionAssumption ==
  /\ Versions \in Seq(Nat \X Nat \X Nat)
  /\ Versions # <<>>
  /\ \A k, l \in DOMAIN Versions : k <= l => MIN_VERSION(Versions[l], Versions[k])

VARIABLES
  suite,      \* the test cases of this program, in the order they are added
  version,    \* the index of the release in use
  checks,     \* the tests registered in this round, in the order they are run
  done,       \* how many of them are over
  phase,      \* what the runner does with the next one
  nchecks, nfailures,
  verdicts    \* history: what has been printed for each test

countVars  == <<done, nchecks, nfailures, verdicts>>
runnerVars == <<suite, version, checks, done, phase, nchecks, nfailures, verdicts>>

RunnerInit ==
  /\ suite \in Suites
  /\ version \in DOMAIN Versions
  /\ checks = <<>>
  /\ done = 0
  /\ phase = "make"
  /\ nchecks = 0
  /\ nfailures = 0
  /\ verdicts = <<>>

-------------------------------------------------------------------------------

(* A test and the first release it may be run with.                        *)
Since(v, tests) == [k \in DOMAIN tests |-> [test |-> tests[k], since |-> v]]

TestCase(setup, teardown, tests) ==
  [setup |-> setup, teardown |-> teardown, tests |-> tests]

(* Each test case is put in front of those added before.                   *)
suite_add_tcase(cases) == Reverse(cases)

(* Mutant: the guards of the tests are gone.                               *)
RegisteredUnguarded(v, tc) ==
  [k \in DOMAIN tc.tests |-> [setup |-> tc.setup, teardown |-> tc.teardown,
                              test |-> tc.tests[k].test, since |-> tc.tests[k].since]]

(* tcase_add_test() under the guards of make_suite().                      *)
Registered(v, tc) ==
  FlattenSeq([k \in DOMAIN tc.tests |->
    IF MIN_VERSION(v, tc.tests[k].since)
    THEN <<[setup |-> tc.setup, teardown |-> tc.teardown,
            test |-> tc.tests[k].test, since |-> tc.tests[k].since]>>
    ELSE <<>>])

(* A round begins: the version is read once, for all guards.               *)
MakeSuite ==
  /\ phase = "make"
  /\ LET cases == suite_add_tcase(suite)
     IN  checks' = FlattenSeq([c \in DOMAIN cases |-> Registered(Versions[version], cases[c])])
  /\ phase' = "setup"
  /\ done' = 0
  /\ nchecks' = 0
  /\ nfailures' = 0
  /\ verdicts' = <<>>
  /\ UNCHANGED <<suite, version>>

More    == phase = "setup" /\ done < Len(checks)
Current == checks[done + 1]

handle_failure ==
  /\ nfailures' = nfailures + 1
  /\ verdicts' = Append(verdicts, "FAIL")
  /\ done' = done + 1
  /\ phase' = "setup"

handle_success ==
  /\ verdicts' = Append(verdicts, "PASS")
  /\ done' = done + 1
  /\ phase' = "setup"
  /\ UNCHANGED nfailures

(* fail() within a setup: the test is not run.                             *)
SetupFails ==
  /\ More
  /\ nchecks' = nchecks + 1
  /\ handle_failure
  /\ UNCHANGED <<suite, version, checks>>

SetupReturns ==
  /\ More
  /\ nchecks' = nchecks + 1
  /\ phase' = "test"
  /\ UNCHANGED <<suite, version, checks, done, nfailures, verdicts>>

(* fail() within a test: the teardown is skipped.                          *)
TestFails ==
  /\ phase = "test"
  /\ handle_failure
  /\ UNCHANGED <<suite, version, checks, nchecks>>

TestReturns ==
  /\ phase = "test"
  /\ phase' = "teardown"
  /\ UNCHANGED <<suite, version, checks, countVars>>

(* No teardown of the suite can fail.                                      *)
TeardownReturns ==
  /\ phase = "teardown"
  /\ handle_success
  /\ UNCHANGED <<suite, version, checks, nchecks>>

(* The percentage is printed, the suite is freed, the next round begins.   *)
Report ==
  /\ phase = "setup"
  /\ done = Len(checks)
  /\ phase' = "make"
  /\ UNCHANGED <<suite, version, checks, countVars>>

(* Luci replaces the library by a later release, at any moment.            *)
LibraryUpdated ==
  /\ \E v \in DOMAIN Versions : v > version /\ version' = v
  /\ UNCHANGED <<suite, checks, phase, countVars>>

-------------------------------------------------------------------------------

Phases == {"make", "setup", "test", "teardown"}

RunnerTypeOK ==
  /\ version \in DOMAIN Versions
  /\ done \in 0 .. Len(checks)
  /\ phase \in Phases
  /\ phase \in {"test", "teardown"} => done < Len(checks)
  /\ nchecks \in Nat
  /\ nfailures \in Nat
  /\ verdicts \in Seq({"PASS", "FAIL"})

(* Whatever a test does, and wherever it is left, each registered test is  *)
(* counted once and has one verdict, and the failures of the report are    *)
(* those that were printed (srunner_run_all(): setjmp() and continue).     *)
CountsTruthful ==
  /\ Len(verdicts) = done
  /\ nchecks = done + IF phase \in {"test", "teardown"} THEN 1 ELSE 0
  /\ nfailures = Cardinality({k \in DOMAIN verdicts : verdicts[k] = "FAIL"})

(* A test that old releases crash in is never run on one of them, although *)
(* the release is read only when the suite is built (make_suite()).        *)
GuardsHold ==
  phase = "test" => MIN_VERSION(Versions[version], Current.since)

===============================================================================
