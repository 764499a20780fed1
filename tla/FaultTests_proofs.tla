--------------------------- MODULE FaultTests_proofs ---------------------------
(***************************************************************************)
(* Proofs about FaultTests, for any tests, any suites, any releases and    *)
(* any memory for the tracking allocator.                                  *)
(***************************************************************************)
EXTENDS FaultTests, FiniteSetTheorems, TLAPS

(***************************************************************************)
(* What a loop that ends well has seen: with releases that could each pass *)
(* it, the loop variable is only moved on by a refusal.                    *)
(***************************************************************************)
ExerciseInv ==
  /\ at # "none" => phase = "test"
  /\ at \in {"use", "free"} => Test.kind = "tracked"
  /\ phase = "test" /\ regular => works
  /\ phase = "test" /\ Looping /\ regular /\ (at = "error" \/ i # 0) => refused
  /\ PassMeansExercised

(* Nothing is counted and nothing is wrong at first.                       *)
LEMMA InitExerciseInv == Init => ExerciseInv
BY DEF Init, RunnerInit, ExerciseInv, PassMeansExercised

(* A release that could pass a test works.                                 *)
LEMMA PassesWorks == \A t, c, w : Passes(t, c, w) => w
BY DEF Passes

(* The loop variable is moved on by a refusal only, as long as the         *)
(* releases met could pass the test.                                       *)
LEMMA StepExerciseInv == ExerciseInv /\ [Next]_vars => ExerciseInv'
<1> SUFFICES ASSUME ExerciseInv, [Next]_vars PROVE ExerciseInv'
  OBVIOUS
<1> USE PassesWorks DEF ExerciseInv, PassMeansExercised, Test, Current, Looping, Step, More,
       handle_failure, handle_success,
       runnerVars, countVars, parserVars, counterVars, evidence, libVars, posVars, pastVars
<1>1. CASE RunnerStep
  BY <1>1 DEF RunnerStep, MakeSuite, Report, testVars
<1>2. CASE Setup
  BY <1>2 DEF Setup, SetupReturns, Start
<1>3. CASE SetupWithoutMemory
  BY <1>3 DEF SetupWithoutMemory, SetupFails
<1>4. CASE Teardown
  BY <1>4 DEF Teardown, TeardownReturns
<1>5. CASE First
  BY <1>5 DEF First
<1>6. CASE FirstFails
  BY <1>6 DEF FirstFails, Fail, JumpOut, TestFails
<1>7. CASE Attempt
  BY <1>7 DEF Attempt
<1>8. CASE Arm
  BY <1>8 DEF Arm
<1>9. CASE Granted
  BY <1>9 DEF Granted
<1>10. CASE Ignored
  BY <1>10 DEF Ignored, Fail, JumpOut, TestFails
<1>11. CASE Refused
  BY <1>11 DEF Refused, Refusal
<1>12. CASE RefusedFails
  BY <1>12 DEF RefusedFails, Refusal, Fail, JumpOut, TestFails
<1>13. CASE RefusedResets
  BY <1>13 DEF RefusedResets, Refusal
<1>14. CASE Parsed
  BY <1>14 DEF Parsed
<1>15. CASE Break
  BY <1>15 DEF Break
<1>16. CASE Recover
  BY <1>16 DEF Recover
<1>17. CASE Recreate
  BY <1>17 DEF Recreate
<1>18. CASE RecreateWithoutMemory
  BY <1>18 DEF RecreateWithoutMemory, TestFails
<1>19. CASE Exhausted
  BY <1>19 DEF Exhausted
<1>20. CASE FixedEnds
  BY <1>20 DEF FixedEnds
<1>21. CASE Accept
  BY <1>21 DEF Accept, Complaint, TestReturns
<1>22. CASE Reject
  BY <1>22 DEF Reject, Fail, JumpOut, TestFails
<1>23. CASE PlainPasses
  BY <1>23 DEF PlainPasses, Steady, TestReturns
<1>24. CASE PlainFails
  BY <1>24 DEF PlainFails, Steady, TestFails
<1>25. CASE TrackedCreate
  BY <1>25 DEF TrackedCreate, trackedUnchanged
<1>26. CASE TrackedUse
  BY <1>26 DEF TrackedUse, trackedUnchanged
<1>27. CASE TrackedParsed
  BY <1>27 DEF TrackedParsed, trackedUnchanged
<1>28. CASE TrackedParseFails
  BY <1>28 DEF TrackedParseFails, Fail, JumpOut, TestFails
<1>29. CASE TrackedFree
  BY <1>29 DEF TrackedFree, trackedUnchanged
<1>30. CASE TrackedReport
  BY <1>30 DEF TrackedReport, trackedUnchanged, TestFails, TestReturns
<1>31. CASE Update
  <2>1. UNCHANGED <<at, i, checks, done, phase, refused>>
    BY <1>31 DEF Update, LibraryUpdated
  <2>2. phase = "test" /\ regular' => regular /\ works'
    <3>1. Passes(Test, cost', works') => works'
      BY PassesWorks
    <3> QED
      BY <1>31, <3>1 DEF Update
  <2>3. phase # "test" => UNCHANGED <<regular, works>>
    BY <1>31 DEF Update
  <2> QED
    BY <2>1, <2>2, <2>3
<1>32. CASE UNCHANGED vars
  BY <1>32 DEF vars, testVars
<1> QED
  BY <1>1, <1>2, <1>3, <1>4, <1>5, <1>6, <1>7, <1>8, <1>9, <1>10,
     <1>11, <1>12, <1>13, <1>14, <1>15, <1>16, <1>17, <1>18, <1>19, <1>20,
     <1>21, <1>22, <1>23, <1>24, <1>25, <1>26, <1>27, <1>28, <1>29, <1>30,
     <1>31, <1>32
  DEF Next, Application, LoopStep, TrackedStep

(* A loop over failing allocations passes only if memory was refused.      *)
THEOREM LoopsAreExercised == Spec => []PassMeansExercised
<1>1. ExerciseInv => PassMeansExercised
  BY DEF ExerciseInv
<1> QED
  BY <1>1, InitExerciseInv, StepExerciseInv, PTL DEF Spec

(***************************************************************************)
(* The counters of the runner, whatever the tests do.                      *)
(***************************************************************************)
Failures == {k \in DOMAIN verdicts : verdicts[k] = "FAIL"}

CountInv ==
  /\ verdicts \in Seq({"PASS", "FAIL"}) /\ done \in Nat
  /\ CountsTruthful

(* A verdict more is one failure more, or none.                            *)
LEMMA AppendVerdict ==
  ASSUME verdicts \in Seq({"PASS", "FAIL"}), NEW x \in {"PASS", "FAIL"},
         verdicts' = Append(verdicts, x)
  PROVE  /\ verdicts' \in Seq({"PASS", "FAIL"}) /\ Len(verdicts') = Len(verdicts) + 1
         /\ Cardinality(Failures') = Cardinality(Failures) + IF x = "FAIL" THEN 1 ELSE 0
<1>1. Len(verdicts) \in Nat /\ Len(verdicts') = Len(verdicts) + 1
      /\ verdicts' \in Seq({"PASS", "FAIL"})
  OBVIOUS
<1>2. /\ \A k \in 1 .. Len(verdicts) : verdicts'[k] = verdicts[k]
      /\ verdicts'[Len(verdicts) + 1] = x
  OBVIOUS
<1>3. /\ DOMAIN verdicts = 1 .. Len(verdicts)
      /\ DOMAIN verdicts' = (1 .. Len(verdicts)) \union {Len(verdicts) + 1}
  BY <1>1
<1>4. Failures' = IF x = "FAIL" THEN Failures \union {Len(verdicts) + 1} ELSE Failures
  BY <1>2, <1>3 DEF Failures
<1>5. IsFiniteSet(Failures) /\ Len(verdicts) + 1 \notin Failures
  <2>1. IsFiniteSet(1 .. Len(verdicts))
    BY <1>1, FS_Interval
  <2> QED
    BY <1>1, <1>3, <2>1, FS_Subset DEF Failures
<1>6. /\ Cardinality(Failures \union {Len(verdicts) + 1}) = Cardinality(Failures) + 1
      /\ Cardinality(Failures) \in Nat
  BY <1>5, FS_AddElement, FS_CardinalityType
<1> QED
  BY <1>1, <1>4, <1>6

(* The steps of the runner: the tests leave its counters alone.            *)
RunnerNext ==
  \/ MakeSuite \/ SetupFails \/ SetupReturns \/ TestFails \/ TestReturns \/ TeardownReturns
  \/ Report \/ LibraryUpdated
  \/ UNCHANGED runnerVars

(* Each step of the application is one of the runner, or leaves its        *)
(* counters alone.                                                         *)
LEMMA NextIsRunners == [Next]_vars => RunnerNext
BY DEF Next, Application, LoopStep, TrackedStep, vars, testVars, RunnerNext,
       Accept, Arm, Attempt, Break, Exhausted, Fail, JumpOut, First, FirstFails, FixedEnds,
       Granted, Ignored, Parsed, PlainFails, PlainPasses, Recover, Recreate,
       RecreateWithoutMemory, Refused, RefusedFails, RefusedResets, Reject, RunnerStep,
       Setup, SetupWithoutMemory, Teardown, TrackedCreate, TrackedFree,
       TrackedParseFails, TrackedParsed, TrackedReport, TrackedUse, Update

(* The steps of the runner count what they append.                         *)
LEMMA RunnerCounts == CountInv /\ RunnerNext => CountInv'
<1> SUFFICES ASSUME CountInv, RunnerNext PROVE CountInv'
  OBVIOUS
<1>a. /\ nfailures = Cardinality(Failures) /\ Len(verdicts) = done /\ done \in Nat
      /\ nfailures' = Cardinality(Failures') /\ Len(verdicts') = done'
         /\ nchecks' = done' + (IF phase' \in {"test", "teardown"} THEN 1 ELSE 0)
         => CountsTruthful'
  BY DEF CountInv, CountsTruthful, Failures
<1>1. CASE MakeSuite
  <2>1. Failures' = {}
    BY <1>1 DEF MakeSuite, Failures
  <2> QED
    BY <1>1, <2>1, FS_EmptySet DEF MakeSuite, Failures, CountInv, CountsTruthful
<1>2. CASE SetupFails \/ TestFails
  <2>1. verdicts' = Append(verdicts, "FAIL") /\ done' = done + 1 /\ nfailures' = nfailures + 1
        /\ phase' = "setup" /\ nchecks' = done + 1
    BY <1>2 DEF SetupFails, TestFails, More, handle_failure, CountInv, CountsTruthful
  <2>2. verdicts' \in Seq({"PASS", "FAIL"}) /\ Len(verdicts') = Len(verdicts) + 1
        /\ Cardinality(Failures') = Cardinality(Failures) + 1
    BY <2>1, AppendVerdict DEF CountInv
  <2>3. CountsTruthful'
    BY <1>a, <2>1, <2>2
  <2> QED
    BY <2>1, <2>2, <2>3 DEF CountInv
<1>3. CASE TeardownReturns
  <2>1. verdicts' = Append(verdicts, "PASS") /\ done' = done + 1 /\ nfailures' = nfailures
        /\ phase' = "setup" /\ nchecks' = done + 1
    BY <1>3 DEF TeardownReturns, handle_success, CountInv, CountsTruthful
  <2>2. verdicts' \in Seq({"PASS", "FAIL"}) /\ Len(verdicts') = Len(verdicts) + 1
        /\ Cardinality(Failures') = Cardinality(Failures) + 0
    BY <2>1, AppendVerdict DEF CountInv
  <2>3. Cardinality(Failures') = Cardinality(Failures)
    <3>1. IsFiniteSet(DOMAIN verdicts)
      BY FS_Interval DEF CountInv
    <3> QED
      BY <2>2, <3>1, FS_Subset, FS_CardinalityType DEF Failures
  <2>4. CountsTruthful'
    BY <1>a, <2>1, <2>2, <2>3
  <2> QED
    BY <2>1, <2>2, <2>4 DEF CountInv
<1>4. CASE SetupReturns
  BY <1>4 DEF SetupReturns, More, CountInv, CountsTruthful
<1>5. CASE TestReturns
  BY <1>5 DEF TestReturns, countVars, CountInv, CountsTruthful
<1>6. CASE Report \/ LibraryUpdated \/ UNCHANGED runnerVars
  BY <1>6 DEF Report, LibraryUpdated, runnerVars, countVars, CountInv, CountsTruthful
<1> QED
  BY <1>1, <1>2, <1>3, <1>4, <1>5, <1>6 DEF RunnerNext

(* Each registered test is counted once and has one verdict, and the       *)
(* failures reported are those printed, although failing tests jump out of *)
(* their functions (srunner_run_all()).                                    *)
THEOREM RunnerCountsTruthfully == Spec => []CountsTruthful
<1>1. Init => CountInv
  <2>1. Init => Failures = {}
    BY DEF Init, RunnerInit, Failures
  <2> QED
    BY <2>1, FS_EmptySet DEF Init, RunnerInit, CountInv, CountsTruthful, Failures
<1>2. CountInv /\ [Next]_vars => CountInv'
  BY NextIsRunners, RunnerCounts
<1>3. CountInv => CountsTruthful
  BY DEF CountInv
<1> QED
  BY <1>1, <1>2, <1>3, PTL DEF Spec

(***************************************************************************)
(* Fixtures.                                                               *)
(***************************************************************************)

(* Whatever counters a test leaves, the next fixture gets its memory.      *)
THEOREM FixturesGetMemory == Spec => []FixtureNeverStarved
<1>1. Init => FixtureNeverStarved
  BY DEF Init, FixtureNeverStarved
<1>2. FixtureNeverStarved /\ [Next]_vars => FixtureNeverStarved'
  <2>1. \A setup : Creatable(setup)
    BY DEF Creatable, CountersAtSetup, Disarmed
  <2> QED
    BY <2>1 DEF Next, Application, LoopStep, TrackedStep, vars, testVars, FixtureNeverStarved,
       pastVars,
       Accept, Arm, Attempt, Break, Exhausted, Fail, JumpOut, First, FirstFails, FixedEnds,
       Granted, Ignored, Parsed, PlainFails, PlainPasses, Recover, Recreate,
       RecreateWithoutMemory, Refused, RefusedFails, RefusedResets, Reject, RunnerStep,
       Setup, SetupWithoutMemory, Teardown, TrackedCreate, TrackedFree,
       TrackedParseFails, TrackedParsed, TrackedReport, TrackedUse, Update,
       trackedUnchanged
<1> QED
  BY <1>1, <1>2, PTL DEF Spec

(***************************************************************************)
(* The list of the tracker, whose lemmas hold here as well: the test with  *)
(* the tracker has no foreign blocks, and Helpers adds nothing to it.      *)
(***************************************************************************)

Lists == INSTANCE Helpers_proofs WITH
  Foreign <- {}, MaxChars <- 1, MaxText <- 0, ExtensionCount <- 1, MaxItems <- 0, MaxBytes <- 0,
  unit <- "tracker", chars <- <<>>, text <- <<>>,
  items <- <<>>, max_count <- 0, room <- 0, overrun <- FALSE, disposed <- FALSE,
  H <- <<>>, hashed <- <<>>, bytes <- <<>>

(* The assumptions of Helpers, which a fact that is cited brings along.    *)
ListsApply ==
  /\ Lists!IsFiniteSet(Entries) /\ {} \subseteq Blocks /\ Null \notin Blocks \union Entries
  /\ {1, 1} \subseteq Nat \ {0} /\ {0, 0, 0} \subseteq Nat

(* The theorems about the tracker apply to the instance used here.         *)
LEMMA ListsDoApply == ListsApply
<1>1. Lists!IsFiniteSet(Entries) /\ {} \subseteq Blocks /\ Null \notin Blocks \union Entries
  BY MemoryAssumption DEF IsFiniteSet, Lists!IsFiniteSet
<1> QED
  BY <1>1 DEF ListsApply

(* Induction over the natural numbers.                                     *)
LEMMA Induction ==
  ASSUME NEW S, 0 \in S, \A n \in Nat : n \in S => n + 1 \in S
  PROVE  \A n \in Nat : n \in S
BY ListsDoApply, Lists!NatSetInduction DEF ListsApply

(***************************************************************************)
(* The tests that are registered: those of the suite which the release     *)
(* allowed when the round began, and still allows.                         *)
(***************************************************************************)

(* FlattenSeq() is a recursive function; its equations, and its type.      *)
LEMMA FlattenUnfolds ==
  ASSUME NEW ss, Len(ss) \in Nat, Len(ss) # 0
  PROVE  \E f : /\ \A k \in 1 .. Len(ss) : f[k] = IF k = 1 THEN ss[k] ELSE f[k - 1] \o ss[k]
                /\ FlattenSeq(ss) = f[Len(ss)]
<1> DEFINE Rec(n, f) == [k \in 1 .. n |-> IF k = 1 THEN ss[k] ELSE f[k - 1] \o ss[k]]
           S == {n \in Nat : \E f : f = Rec(n, f)}
<1>1. 0 \in S
  <2>1. <<>> = Rec(0, <<>>)
    OBVIOUS
  <2> QED
    BY <2>1
<1>2. ASSUME NEW n \in Nat, n \in S PROVE n + 1 \in S
  <2>1. PICK g : g = Rec(n, g)
    BY <1>2
  <2> DEFINE h == [k \in 1 .. n + 1 |-> IF k = n + 1 THEN IF k = 1 THEN ss[k] ELSE g[n] \o ss[k]
                                        ELSE g[k]]
  <2>2. ASSUME NEW k \in 1 .. n + 1
        PROVE  h[k] = IF k = 1 THEN ss[k] ELSE h[k - 1] \o ss[k]
    <3>1. CASE k = n + 1
      <4>1. k # 1 => k - 1 = n /\ h[k - 1] = g[k - 1]
        BY <3>1
      <4> QED
        BY <3>1, <4>1
    <3>2. CASE k # n + 1
      <4>1. k \in 1 .. n /\ h[k] = g[k] /\ (k # 1 => h[k - 1] = g[k - 1])
        BY <3>2
      <4>2. g[k] = IF k = 1 THEN ss[k] ELSE g[k - 1] \o ss[k]
        BY <2>1, <4>1
      <4> QED
        BY <4>1, <4>2
    <3> QED
      BY <3>1, <3>2
  <2>3. h = [k \in 1 .. n + 1 |-> h[k]]
    OBVIOUS
  <2>4. h = Rec(n + 1, h)
    <3> HIDE DEF h
    <3> QED
      BY <2>2, <2>3
  <2> HIDE DEF h
  <2>5. \E f : f = Rec(n + 1, f)
    BY <2>4
  <2> HIDE DEF Rec
  <2> QED
    BY <2>5
<1>3. Len(ss) \in S
  <2> HIDE DEF S
  <2> QED
    BY <1>1, <1>2, Induction
<1>4. PICK f : f = (CHOOSE g : g = Rec(Len(ss), g)) /\ f = Rec(Len(ss), f)
  <2>1. \E g : g = Rec(Len(ss), g)
    BY <1>3
  <2> HIDE DEF Rec
  <2> QED
    BY <2>1, Zenon
<1>5. FlattenSeq(ss) = f[Len(ss)]
  BY <1>4 DEF FlattenSeq
<1>6. \A k \in 1 .. Len(ss) : f[k] = IF k = 1 THEN ss[k] ELSE f[k - 1] \o ss[k]
  BY <1>4
<1> QED
  BY <1>5, <1>6

(* What is flattened from sequences over a set is a sequence over it.      *)
LEMMA FlattenType ==
  ASSUME NEW T, NEW ss \in Seq(Seq(T))
  PROVE  FlattenSeq(ss) \in Seq(T)
<1>1. CASE Len(ss) = 0
  BY <1>1 DEF FlattenSeq
<1>2. CASE Len(ss) # 0
  <2>1. Len(ss) \in Nat /\ \A k \in 1 .. Len(ss) : ss[k] \in Seq(T)
    OBVIOUS
  <2>2. PICK f : /\ \A k \in 1 .. Len(ss) : f[k] = IF k = 1 THEN ss[k] ELSE f[k - 1] \o ss[k]
                 /\ FlattenSeq(ss) = f[Len(ss)]
    BY <1>2, <2>1, FlattenUnfolds
  <2> DEFINE S == {n \in Nat : n \in 1 .. Len(ss) => f[n] \in Seq(T)}
  <2>3. 0 \in S
    OBVIOUS
  <2>4. ASSUME NEW n \in Nat, n \in S PROVE n + 1 \in S
    <3>1. CASE n + 1 \in 1 .. Len(ss)
      <4>1. f[n + 1] = IF n + 1 = 1 THEN ss[n + 1] ELSE f[n] \o ss[n + 1]
        <5>1. f[n + 1] = IF n + 1 = 1 THEN ss[n + 1] ELSE f[(n + 1) - 1] \o ss[n + 1]
          BY <2>2, <3>1
        <5> QED
          BY <5>1
      <4>2. n # 0 => f[n] \in Seq(T)
        BY <2>1, <2>4, <3>1
      <4>3. ss[n + 1] \in Seq(T)
        BY <2>1, <3>1
      <4>4. f[n + 1] \in Seq(T)
        BY <4>1, <4>2, <4>3
      <4> QED
        BY <4>4
    <3> QED
      BY <3>1
  <2>5. \A n \in Nat : n \in S
    <3> HIDE DEF S
    <3> QED
      BY <2>3, <2>4, Induction
  <2>6. f[Len(ss)] \in Seq(T)
    <3>1. Len(ss) \in S /\ Len(ss) \in 1 .. Len(ss)
      BY <1>2, <2>1, <2>5
    <3> QED
      BY <3>1
  <2> QED
    BY <2>2, <2>6
<1> QED
  BY <1>1, <1>2

(* The tests make_suite() may register: each with the fixtures of its      *)
(* case, and fit for them.                                                 *)
Checks ==
  {c \in [setup : {"none", "basic", "alloc"}, teardown : {"none", "basic"},
          test : Tests, since : Releases] :
     WellFormed(c.test) /\ Fits(c.setup, c.teardown, c.test)}

Allowed(v) == {c \in Checks : MIN_VERSION(v, c.since)}

(* The elements of a sequence over a set are in the set.                   *)
LEMMA ElementOf == \A R : \A q \in Seq(R) : \A k \in DOMAIN q : q[k] \in R
OBVIOUS

(* Only tests that are guarded are registered.                             *)
LEMMA RegisteredType ==
  ASSUME NEW v, NEW s \in Suites, NEW c \in DOMAIN s
  PROVE  Registered(v, s[c]) \in Seq(Allowed(v))
<1> DEFINE tc == s[c]
           ss == [k \in DOMAIN tc.tests |->
                    IF MIN_VERSION(v, tc.tests[k].since)
                    THEN <<[setup |-> tc.setup, teardown |-> tc.teardown,
                            test |-> tc.tests[k].test, since |-> tc.tests[k].since]>>
                    ELSE <<>>]
<1>1. tc \in [setup : {"none", "basic", "alloc"}, teardown : {"none", "basic"},
               tests : Seq([test : Tests, since : Releases])]
  <2>1. s \in Seq([setup : {"none", "basic", "alloc"}, teardown : {"none", "basic"},
                    tests : Seq([test : Tests, since : Releases])])
    BY SuiteAssumption
  <2> QED
    BY <2>1, ElementOf, Zenon
<1>2. \A k \in DOMAIN tc.tests :
        WellFormed(tc.tests[k].test) /\ Fits(tc.setup, tc.teardown, tc.tests[k].test)
  BY SuiteAssumption
<1>3. tc.tests \in Seq([test : Tests, since : Releases])
  BY <1>1
<1>4. ASSUME NEW k \in DOMAIN tc.tests PROVE ss[k] \in Seq(Allowed(v))
  <2> DEFINE r == [setup |-> tc.setup, teardown |-> tc.teardown,
                   test |-> tc.tests[k].test, since |-> tc.tests[k].since]
  <2>1. tc.tests[k] \in [test : Tests, since : Releases]
    BY <1>3, ElementOf, Zenon
  <2>2. r \in Checks
    BY <1>1, <1>2, <2>1 DEF Checks
  <2>3. MIN_VERSION(v, tc.tests[k].since) => r \in Allowed(v)
    BY <2>2 DEF Allowed
  <2>4. ss[k] = IF MIN_VERSION(v, tc.tests[k].since) THEN <<r>> ELSE <<>>
    OBVIOUS
  <2> HIDE DEF r, ss, tc
  <2> QED
    BY <2>3, <2>4
<1>5. ss \in Seq(Seq(Allowed(v)))
  <2>1. DOMAIN tc.tests = 1 .. Len(tc.tests) /\ Len(tc.tests) \in Nat
    BY <1>3
  <2>2. DOMAIN ss = 1 .. Len(tc.tests) /\ ss = [k \in 1 .. Len(tc.tests) |-> ss[k]]
    BY <2>1
  <2>3. \A k \in 1 .. Len(tc.tests) : ss[k] \in Seq(Allowed(v))
    BY <1>4, <2>1
  <2> HIDE DEF ss, tc
  <2>4. ss \in [1 .. Len(tc.tests) -> Seq(Allowed(v))]
    BY <2>2, <2>3
  <2> QED
    BY <2>1, <2>4
<1>6. Registered(v, s[c]) = FlattenSeq(ss)
  BY DEF Registered
<1> HIDE DEF ss
<1> QED
  BY <1>5, <1>6, FlattenType

(* A round has tests that the release allows, and one of them in progress. *)
CheckInv ==
  /\ suite \in Suites /\ version \in DOMAIN Versions
  /\ done \in Nat /\ (phase \in {"test", "teardown"} => done < Len(checks))
  /\ checks \in Seq(Allowed(Versions[version]))

(* The same for all cases of a suite (suite_add_tcase()).                  *)
LEMMA SuiteType ==
  ASSUME NEW v, NEW s \in Suites
  PROVE  LET cases == suite_add_tcase(s)
         IN  FlattenSeq([c \in DOMAIN cases |-> Registered(v, cases[c])]) \in Seq(Allowed(v))
<1> DEFINE cases == suite_add_tcase(s)
           ss == [c \in DOMAIN cases |-> Registered(v, cases[c])]
<1>1. DOMAIN s = 1 .. Len(s) /\ Len(s) \in Nat
  <2>1. s \in Seq([setup : {"none", "basic", "alloc"}, teardown : {"none", "basic"},
                    tests : Seq([test : Tests, since : Releases])])
    BY SuiteAssumption
  <2> QED
    BY <2>1
<1>2. cases = [c \in 1 .. Len(s) |-> s[(Len(s) - c) + 1]]
  BY DEF suite_add_tcase, Reverse
<1>3. ASSUME NEW c \in 1 .. Len(s) PROVE ss[c] \in Seq(Allowed(v))
  <2>1. (Len(s) - c) + 1 \in DOMAIN s
    BY <1>1
  <2>2. ss[c] = Registered(v, s[(Len(s) - c) + 1])
    BY <1>2
  <2> HIDE DEF ss
  <2> QED
    BY <2>1, <2>2, RegisteredType
<1>4. ss = [c \in 1 .. Len(s) |-> ss[c]]
  BY <1>2
<1>5. ss \in Seq(Seq(Allowed(v)))
  <2> HIDE DEF ss
  <2>1. ss \in [1 .. Len(s) -> Seq(Allowed(v))]
    BY <1>3, <1>4
  <2> QED
    BY <1>1, <2>1
<1>6. FlattenSeq(ss) \in Seq(Allowed(v))
  <2> HIDE DEF ss
  <2> QED
    BY <1>5, FlattenType
<1> QED
  BY <1>6

(* A later release satisfies the guards of an earlier one.                 *)
LEMMA GuardsCarryOver ==
  ASSUME NEW u \in Releases, NEW v \in Releases, NEW w \in Releases,
         MIN_VERSION(w, v), MIN_VERSION(v, u)
  PROVE  MIN_VERSION(w, u)
BY DEF Releases, MIN_VERSION

(* The tests of a round stay those that were registered for the release    *)
(* read.                                                                   *)
LEMMA CheckStep == CheckInv /\ RunnerNext => CheckInv'
<1> SUFFICES ASSUME CheckInv, RunnerNext PROVE CheckInv'
  OBVIOUS
<1>1. CASE MakeSuite
  <2>1. checks' \in Seq(Allowed(Versions[version]))
    BY <1>1, SuiteType DEF MakeSuite, CheckInv
  <2> QED
    BY <1>1, <2>1 DEF MakeSuite, CheckInv
<1>2. CASE LibraryUpdated
  <2>1. version' \in DOMAIN Versions /\ version' > version /\ version \in DOMAIN Versions
    BY <1>2 DEF LibraryUpdated, CheckInv
  <2>2. /\ Versions[version] \in Releases /\ Versions[version'] \in Releases
        /\ MIN_VERSION(Versions[version'], Versions[version])
    BY <2>1, VersionAssumption DEF Releases
  <2>3. Allowed(Versions[version]) \subseteq Allowed(Versions[version'])
    <3>1. \A c \in Checks : c.since \in Releases
      BY DEF Checks
    <3> QED
      BY <2>2, <3>1, GuardsCarryOver DEF Allowed
  <2>4. checks' \in Seq(Allowed(Versions[version']))
    <3>1. checks' = checks /\ checks \in Seq(Allowed(Versions[version]))
      BY <1>2 DEF LibraryUpdated, CheckInv
    <3> QED
      BY <2>3, <3>1
  <2> QED
    BY <1>2, <2>1, <2>4 DEF LibraryUpdated, CheckInv, countVars
<1>3. CASE SetupFails \/ TestFails \/ TeardownReturns
  <2>1. UNCHANGED <<suite, version, checks>> /\ done' = done + 1 /\ phase' = "setup"
    BY <1>3 DEF SetupFails, TestFails, TeardownReturns, handle_failure, handle_success
  <2> QED
    BY <2>1 DEF CheckInv
<1>4. CASE SetupReturns \/ TestReturns \/ Report \/ UNCHANGED runnerVars
  <2>1. /\ UNCHANGED <<suite, version, checks, done>>
        /\ phase' \in {"test", "teardown"} => done < Len(checks)
    BY <1>4 DEF SetupReturns, More, TestReturns, Report, runnerVars, countVars, CheckInv
  <2> QED
    BY <2>1 DEF CheckInv
<1> QED
  BY <1>1, <1>2, <1>3, <1>4 DEF RunnerNext

(* A test registered for a release suits it, which is all the guards ask.  *)
LEMMA CheckGuards == CheckInv => GuardsHold
<1> SUFFICES ASSUME CheckInv, phase = "test" PROVE MIN_VERSION(Versions[version], Current.since)
  BY DEF GuardsHold
<1>1. done + 1 \in 1 .. Len(checks) /\ checks \in Seq(Allowed(Versions[version]))
  BY DEF CheckInv
<1>2. Current \in Allowed(Versions[version])
  BY <1>1 DEF Current
<1> QED
  BY <1>2 DEF Allowed

(* The test in progress is one of make_suite().                            *)
LEMMA CurrentFits == CheckInv /\ done < Len(checks) => Current \in Checks
<1> SUFFICES ASSUME CheckInv, done < Len(checks) PROVE Current \in Checks
  OBVIOUS
<1>1. done + 1 \in 1 .. Len(checks) /\ checks \in Seq(Allowed(Versions[version]))
  BY DEF CheckInv
<1>2. Current \in Allowed(Versions[version])
  BY <1>1 DEF Current
<1> QED
  BY <1>2 DEF Allowed

(* What is assumed of such a test, for the steps below.                    *)
LEMMA TestFacts ==
  ASSUME NEW c \in Checks, NEW t, t = c.test
  PROVE  /\ t.kind \in {"loop", "paired", "fixed", "plain", "tracked"}
         /\ t.max \in Nat
         /\ t.kind \in {"loop", "paired"} => t.max > 0
         /\ t.kind \in {"plain", "tracked"} => t.max = 0
         /\ Len(t.stages) \in Nat /\ DOMAIN t.stages = 1 .. Len(t.stages)
         /\ WellFormed(t) /\ Fits(c.setup, c.teardown, t)
<1>1. /\ c \in [setup : {"none", "basic", "alloc"}, teardown : {"none", "basic"},
                test : Tests, since : Releases]
      /\ WellFormed(t) /\ Fits(c.setup, c.teardown, t)
  BY DEF Checks
<1>2. t \in Tests
  BY <1>1, Zenon
<1>3. /\ t.kind \in {"loop", "paired", "fixed", "plain", "tracked"}
      /\ t.max \in Nat
      /\ Len(t.stages) \in Nat /\ DOMAIN t.stages = 1 .. Len(t.stages)
  BY <1>2 DEF Tests
<1> QED
  BY <1>1, <1>3 DEF WellFormed

(***************************************************************************)
(* Where a test is, and the evidence its handlers have left.               *)
(***************************************************************************)

(* A test is only where its kind leads it.                                 *)
KindInv ==
  /\ i \in Nat
  /\ at # "none" => phase = "test"
  /\ at \in {"call", "ok", "error", "verdict"} => Test.kind \in {"loop", "paired", "fixed"}
  /\ at \in {"use", "free"} => Test.kind = "tracked"
  /\ at = "call" => stage \in 1 .. Len(Test.stages) + 1
  /\ at = "first" => i = 0

(* From the first attempt on, no evidence is older than the attempt: only  *)
(* a loop without an attempt could bring any to its checks.                *)
FreshInv ==
  at \in {"call", "ok", "error", "verdict"} \/ (at = "loop" /\ i > 0)
    => flags \subseteq {"last"} /\ storage \subseteq {"last"}

(* Each step takes a test to a place where one of its kind can be.         *)
LEMMA StepKindInv == CheckInv /\ KindInv /\ [Next]_vars => KindInv'
<1> SUFFICES ASSUME CheckInv, KindInv, [Next]_vars PROVE KindInv'
  OBVIOUS
<1> USE DEF KindInv, Test, Current, Looping, Step, More, handle_failure, handle_success,
            runnerVars, countVars, parserVars, counterVars, evidence, libVars, posVars, pastVars
<1>1. CASE RunnerStep \/ Teardown
  BY <1>1 DEF RunnerStep, MakeSuite, Report, testVars, Teardown, TeardownReturns
<1>2. CASE Setup
  BY <1>2 DEF Setup, SetupReturns, Start
<1>3. CASE SetupWithoutMemory
  BY <1>3 DEF SetupWithoutMemory, SetupFails
<1>4. CASE First
  BY <1>4 DEF First
<1>16. CASE Arm \/ Granted
  <2>1. /\ at = "call" /\ Call # "end" /\ at' = at /\ i' = i /\ stage' = stage + 1
        /\ UNCHANGED <<phase, done, checks>>
    BY <1>16 DEF Arm, Granted
  <2>2. DOMAIN Test.stages = 1 .. Len(Test.stages) /\ Len(Test.stages) \in Nat
    BY <2>1, CurrentFits, TestFacts DEF CheckInv
  <2>3. stage \in DOMAIN Test.stages
    BY <2>1 DEF Call
  <2>4. stage' \in 1 .. Len(Test.stages) + 1
    BY <2>1, <2>2, <2>3
  <2> QED
    BY <2>1, <2>4
<1>5. CASE FirstFails \/ Ignored \/ RefusedFails \/ Reject \/ TrackedParseFails
  BY <1>5 DEF FirstFails, Ignored, RefusedFails, Reject, TrackedParseFails, Fail, JumpOut, TestFails
<1>6. CASE Attempt
  <2>1. Current \in Checks
    BY <1>6, CurrentFits DEF Attempt, CheckInv
  <2>2. Test.kind \in {"loop", "paired", "fixed"}
    <3>1. /\ Test.kind \in {"loop", "paired", "fixed", "plain", "tracked"}
          /\ Test.kind \in {"plain", "tracked"} => Test.max = 0
      BY <2>1, TestFacts
    <3> QED
      BY <1>6, <3>1 DEF Attempt
  <2>3. 1 \in 1 .. Len(Test.stages) + 1
    <3>1. Len(Test.stages) \in Nat
      BY <2>1, TestFacts
    <3> QED
      BY <3>1
  <2> QED
    BY <1>6, <2>2, <2>3 DEF Attempt
<1>7. CASE Refused \/ RefusedResets
  BY <1>7 DEF Refused, RefusedResets, Refusal
<1>14. CASE Parsed \/ Break
  BY <1>14 DEF Parsed, Break
<1>15. CASE Recover \/ Recreate
  BY <1>15 DEF Recover, Recreate
<1>8. CASE RecreateWithoutMemory \/ PlainFails
  BY <1>8 DEF RecreateWithoutMemory, PlainFails, TestFails
<1>9. CASE Exhausted \/ FixedEnds
  BY <1>9 DEF Exhausted, FixedEnds
<1>10. CASE Accept \/ PlainPasses
  BY <1>10 DEF Accept, PlainPasses, TestReturns
<1>11. CASE TrackedCreate \/ TrackedUse \/ TrackedParsed \/ TrackedFree
  BY <1>11 DEF TrackedCreate, TrackedUse, TrackedParsed, TrackedFree, trackedUnchanged
<1>12. CASE TrackedReport
  BY <1>12 DEF TrackedReport, trackedUnchanged, TestFails, TestReturns
<1>13. CASE Update \/ UNCHANGED vars
  BY <1>13 DEF Update, LibraryUpdated, vars, testVars
<1> QED
  BY <1>1, <1>2, <1>3, <1>4, <1>5, <1>6, <1>7, <1>8, <1>9, <1>10, <1>11, <1>12, <1>13,
     <1>14, <1>15, <1>16
  DEF Next, Application, LoopStep, TrackedStep

(* Flags and texts are cleared with each attempt, and added to by the      *)
(* attempt only.                                                           *)
LEMMA StepFreshInv == CheckInv /\ KindInv /\ FreshInv /\ [Next]_vars => FreshInv'
<1> SUFFICES ASSUME CheckInv, KindInv, FreshInv, [Next]_vars PROVE FreshInv'
  OBVIOUS
<1> USE DEF KindInv, FreshInv, Test, Current, Looping, Step, evidence, posVars
<1>1. CASE RunnerStep \/ Teardown \/ SetupWithoutMemory
  BY <1>1 DEF RunnerStep, testVars, Teardown, SetupWithoutMemory
<1>2. CASE Setup
  BY <1>2 DEF Setup, Start
<1>3. CASE First \/ Arm \/ Granted
  BY <1>3 DEF First, Arm, Granted
<1>4. CASE FirstFails \/ Ignored \/ RefusedFails \/ Reject \/ TrackedParseFails
  BY <1>4 DEF FirstFails, Ignored, RefusedFails, Reject, TrackedParseFails, Fail, JumpOut
<1>5. CASE Attempt
  BY <1>5 DEF Attempt
<1>6. CASE Refused \/ RefusedResets \/ Break \/ FixedEnds
  BY <1>6 DEF Refused, RefusedResets, Refusal, Break, FixedEnds
<1>7. CASE Parsed \/ Recover \/ Recreate
  BY <1>7 DEF Parsed, Recover, Recreate, Fires
<1>8. CASE RecreateWithoutMemory \/ PlainFails \/ Accept \/ PlainPasses
  BY <1>8 DEF RecreateWithoutMemory, PlainFails, Accept, PlainPasses
<1>9. CASE Exhausted
  <2>1. Current \in Checks
    BY <1>9, CurrentFits DEF Exhausted, CheckInv
  <2>2. i > 0
    <3>1. Test.kind \in {"loop", "paired"} => Test.max > 0
      BY <2>1, TestFacts
    <3> QED
      BY <1>9, <3>1 DEF Exhausted
  <2> QED
    BY <1>9, <2>2 DEF Exhausted
<1>10. CASE TrackedCreate \/ TrackedUse \/ TrackedParsed \/ TrackedFree \/ TrackedReport
  BY <1>10 DEF TrackedCreate, TrackedUse, TrackedParsed, TrackedFree, TrackedReport,
               trackedUnchanged
<1>11. CASE Update \/ UNCHANGED vars
  BY <1>11 DEF Update, vars, testVars
<1> QED
  BY <1>1, <1>2, <1>3, <1>4, <1>5, <1>6, <1>7, <1>8, <1>9, <1>10, <1>11
  DEF Next, Application, LoopStep, TrackedStep

(***************************************************************************)
(* The local parser of an attempt is gone before the attempt is given up.  *)
(***************************************************************************)

(* It is alive in an attempt only, after a call that creates it and before *)
(* the one that frees it.                                                  *)
ExtInv ==
  /\ at \notin {"call", "ok", "verdict"} => ext = "NULL"
  /\ at = "call" /\ ext = "live" => Live(Test, stage)
  /\ ext \in {"NULL", "live"}

(* No call is the end of an attempt.                                       *)
LEMMA StagesNamed ==
  ASSUME NEW t \in Tests
  PROVE  \A k \in DOMAIN t.stages : t.stages[k] # "end"
<1> DEFINE S == {"arm", "parse", "must", "refused", "base", "create", "create_must", "encode",
                 "ext", "ext_disarm", "fault", "second", "parser", "external"}
<1>1. t.stages \in Seq(S)
  BY DEF Tests
<1>2. \A k \in DOMAIN t.stages : t.stages[k] \in S
  BY <1>1, ElementOf, Zenon
<1> QED
  BY <1>2

(* It stays so until the call that frees it.                               *)
LEMMA LiveGoesOn ==
  ASSUME NEW t, NEW k \in Nat \ {0},
         \/ t.stages[k] \in {"create", "create_must", "second"}
         \/ Live(t, k) /\ t.stages[k] \notin {"ext", "ext_disarm"}
  PROVE  Live(t, k + 1)
<1>1. CASE t.stages[k] \in {"create", "create_must", "second"}
  <2>1. k \in 1 .. (k + 1) - 1 /\ k + 1 .. (k + 1) - 1 = {}
    OBVIOUS
  <2> QED
    BY <1>1, <2>1 DEF Live
<1>2. CASE Live(t, k) /\ t.stages[k] \notin {"ext", "ext_disarm"}
  <2>1. PICK a \in 1 .. k - 1 : /\ t.stages[a] \in {"create", "create_must", "second"}
                                /\ \A b \in a + 1 .. k - 1 :
                                     t.stages[b] \notin {"ext", "ext_disarm"}
    BY <1>2 DEF Live
  <2>2. a \in 1 .. (k + 1) - 1
    OBVIOUS
  <2>3. \A b \in a + 1 .. (k + 1) - 1 : b \in a + 1 .. k - 1 \/ b = k
    OBVIOUS
  <2>4. \A b \in a + 1 .. (k + 1) - 1 : t.stages[b] \notin {"ext", "ext_disarm"}
    BY <1>2, <2>1, <2>3
  <2> QED
    BY <2>1, <2>2, <2>4 DEF Live
<1> QED
  BY <1>1, <1>2

(* The external parser lives between the call that creates it and the one  *)
(* that frees it.                                                          *)
LEMMA StepExtInv == CheckInv /\ KindInv /\ ExtInv /\ [Next]_vars => ExtInv'
<1> SUFFICES ASSUME CheckInv, KindInv, ExtInv, [Next]_vars PROVE ExtInv'
  OBVIOUS
<1> USE DEF ExtInv, Test, Current, Step, posVars, parserVars, runnerVars, countVars
<1>0. at = "call" =>
        /\ Current \in Checks /\ DOMAIN Test.stages = 1 .. Len(Test.stages)
        /\ Len(Test.stages) \in Nat /\ stage \in 1 .. Len(Test.stages) + 1
        /\ WellFormed(Test)
  BY CurrentFits, TestFacts DEF CheckInv, KindInv
<1>1. CASE RunnerStep \/ Teardown
  <2>1. at = "none" /\ UNCHANGED <<at, ext>>
    BY <1>1 DEF RunnerStep, testVars, Teardown, TeardownReturns, MakeSuite, Report, KindInv
  <2> QED
    BY <2>1
<1>2. CASE Setup \/ SetupWithoutMemory
  <2>1. at = "none" /\ ext' = ext /\ at' \in {"none", "first", "loop"}
    <3>1. CASE Setup
      BY <3>1 DEF Setup, SetupReturns, More, Start, KindInv
    <3>2. CASE SetupWithoutMemory
      BY <3>2 DEF SetupWithoutMemory, SetupFails, More, KindInv
    <3> QED
      BY <1>2, <3>1, <3>2
  <2> QED
    BY <2>1
<1>3. CASE First \/ Attempt
  BY <1>3 DEF First, Attempt
<1>4. CASE Arm \/ Granted
  <2>1. /\ at = "call" /\ Call # "end" /\ at' = at /\ stage' = stage + 1
        /\ UNCHANGED <<phase, done, checks>>
    BY <1>4 DEF Arm, Granted
  <2>2. stage \in DOMAIN Test.stages /\ Call = Test.stages[stage] /\ stage \in Nat \ {0}
    BY <1>0, <2>1 DEF Call
  <2>3. ext' = "live" => \/ Call \in {"create", "create_must", "second"}
                         \/ ext = "live" /\ Call \notin {"ext", "ext_disarm"}
    <3>1. CASE Arm
      BY <3>1 DEF Arm
    <3>2. CASE Granted
      BY <3>2 DEF Granted
    <3> QED
      BY <1>4, <3>1, <3>2
  <2>4. ext' = "live" => Live(Test, stage + 1)
    BY <2>1, <2>2, <2>3, LiveGoesOn
  <2>5. ext' \in {"NULL", "live"}
    <3>1. CASE Arm
      BY <3>1 DEF Arm
    <3>2. CASE Granted
      BY <3>2 DEF Granted
    <3> QED
      BY <1>4, <3>1, <3>2
  <2> QED
    BY <2>1, <2>4, <2>5 DEF Live
<1>5. CASE FirstFails \/ Ignored \/ RefusedFails \/ Reject \/ TrackedParseFails
  BY <1>5 DEF FirstFails, Ignored, RefusedFails, Reject, TrackedParseFails, Fail, JumpOut
<1>6. CASE Refused
  BY <1>6 DEF Refused
<1>7. CASE RefusedResets
  <2>1. at = "call" /\ Call = "base" /\ at' = "loop" /\ ext' = ext
    BY <1>7 DEF RefusedResets, Refusal
  <2>2. stage \in DOMAIN Test.stages /\ Test.stages[stage] = "base"
    BY <2>1 DEF Call
  <2>3. ~Live(Test, stage)
    BY <1>0, <2>1, <2>2 DEF WellFormed
  <2> QED
    BY <2>1, <2>3
<1>8. CASE Parsed
  <2>1. at = "call" /\ Call = "end" /\ at' \in {"ok", "error"} /\ ext' = ext
        /\ (at' = "error" => Last(Test.stages) = "parse")
    BY <1>8 DEF Parsed
  <2>2. stage \notin DOMAIN Test.stages
    <3>1. \A k \in DOMAIN Test.stages : Test.stages[k] # "end"
      <4>1. Test \in Tests
        BY <1>0, <2>1, Zenon DEF Checks
      <4> QED
        BY <4>1, StagesNamed
    <3> QED
      BY <2>1, <3>1 DEF Call
  <2>3. stage = Len(Test.stages) + 1
    BY <1>0, <2>1, <2>2
  <2>4. at' = "error" => ~Live(Test, stage)
    <3>1. CASE Len(Test.stages) = 0
      BY <2>3, <3>1 DEF Live
    <3>2. CASE Len(Test.stages) # 0
      <4>1. Len(Test.stages) \in DOMAIN Test.stages
        BY <1>0, <2>1, <3>2
      <4>2. at' = "error" => Test.stages[Len(Test.stages)] = "parse"
        BY <2>1 DEF Last
      <4> QED
        BY <1>0, <2>1, <2>3, <4>1, <4>2 DEF WellFormed
    <3> QED
      BY <3>1, <3>2
  <2> QED
    BY <2>1, <2>4
<1>9. CASE Break \/ Recover \/ Recreate \/ RecreateWithoutMemory
  BY <1>9 DEF Break, Recover, Recreate, RecreateWithoutMemory
<1>10. CASE Exhausted \/ FixedEnds \/ Accept
  BY <1>10 DEF Exhausted, FixedEnds, Accept
<1>11. CASE PlainPasses \/ PlainFails
  BY <1>11 DEF PlainPasses, PlainFails, Steady
<1>12. CASE TrackedCreate \/ TrackedUse \/ TrackedParsed \/ TrackedFree \/ TrackedReport
  BY <1>12 DEF TrackedCreate, TrackedUse, TrackedParsed, TrackedFree, TrackedReport,
               trackedUnchanged
<1>13. CASE Update \/ UNCHANGED vars
  BY <1>13 DEF Update, LibraryUpdated, vars, testVars, Live
<1> QED
  BY <1>1, <1>2, <1>3, <1>4, <1>5, <1>6, <1>7, <1>8, <1>9, <1>10, <1>11, <1>12, <1>13
  DEF Next, Application, LoopStep, TrackedStep

(***************************************************************************)
(* The parser of a fixture is never lost: who creates one, or forgets it,  *)
(* has none from a setup, and a test that passes gives it to a teardown.   *)
(***************************************************************************)

(* In a case without a setup the parser is the test's own: of the tracking *)
(* test, or of the last call of an attempt.                                *)
OwnInv ==
  /\ "own" \notin lost
  /\ phase \in {"make", "setup"} => g_parser # "own"
  /\ phase = "teardown" /\ Current.teardown = "none" => g_parser # "own"
  /\ phase = "test" /\ Current.setup = "none" /\ g_parser = "own"
     => \/ at \in {"use", "free"}
        \/ /\ Test.stages # <<>> /\ Last(Test.stages) = "parser"
           /\ at \in {"ok", "verdict"} \/ (at = "call" /\ stage = Len(Test.stages) + 1)

(* The global parser is lost with a failure only.                          *)
LEMMA StepOwnInv == CheckInv /\ KindInv /\ OwnInv /\ [Next]_vars => OwnInv'
<1> SUFFICES ASSUME CheckInv, KindInv, OwnInv, [Next]_vars PROVE OwnInv'
  OBVIOUS
<1> USE DEF OwnInv, Test, Current, Step, posVars, parserVars, runnerVars, countVars
<1>0. phase \in {"test", "teardown"} =>
        /\ Current \in Checks /\ DOMAIN Test.stages = 1 .. Len(Test.stages)
        /\ Len(Test.stages) \in Nat
        /\ WellFormed(Test) /\ Fits(Current.setup, Current.teardown, Test)
        /\ at = "call" => stage \in 1 .. Len(Test.stages) + 1
  BY CurrentFits, TestFacts DEF CheckInv, KindInv
<1>1. CASE RunnerStep
  BY <1>1 DEF RunnerStep, testVars, MakeSuite, Report
<1>2. CASE Teardown
  BY <1>2 DEF Teardown, TeardownReturns, handle_success
<1>3. CASE Setup
  <2>1. /\ phase = "setup" /\ phase' = "test" /\ UNCHANGED <<checks, done>>
        /\ lost' \subseteq lost \union {g_parser}
        /\ Current.setup = "none" => g_parser' = g_parser
    BY <1>3 DEF Setup, SetupReturns, More, Lose
  <2> QED
    BY <2>1
<1>4. CASE SetupWithoutMemory
  <2>1. /\ phase = "setup" /\ phase' = "setup"
        /\ lost' \subseteq lost \union {g_parser} /\ g_parser' = "NULL"
    BY <1>4 DEF SetupWithoutMemory, SetupFails, More, Lose, handle_failure
  <2> QED
    BY <2>1
<1>5. CASE First \/ Attempt
  BY <1>5 DEF First, Attempt
<1>6. CASE FirstFails \/ Ignored \/ RefusedFails \/ Reject \/ TrackedParseFails
  <2>1. JumpOut /\ lost' \subseteq lost \union {"local"}
    BY <1>6 DEF FirstFails, Ignored, RefusedFails, Reject, TrackedParseFails, Fail
  <2>2. phase' = "setup" /\ g_parser' # "own" /\ "own" \notin lost'
    BY <2>1 DEF JumpOut, TestFails, handle_failure
  <2> QED
    BY <2>2
<1>7. CASE Arm \/ Granted \/ Refused
  <2>1. /\ at = "call" /\ phase = "test" /\ Call # "end" /\ UNCHANGED <<phase, done, checks>>
        /\ (at' = "call" /\ stage' = stage + 1) \/ at' = "error"
        /\ IF Call = "parser" THEN /\ lost' \subseteq lost \union {g_parser}
                                   /\ at' = "error" => g_parser' # "own"
           ELSE UNCHANGED <<g_parser, lost>>
    BY <1>7 DEF Arm, Granted, Refused, Refusal, Lose
  <2>2. stage \in DOMAIN Test.stages /\ Call = Test.stages[stage]
    BY <2>1 DEF Call
  <2>3. Current.setup = "none" => g_parser # "own"
    BY <1>0, <2>1, <2>2
  <2>4. CASE Call = "parser"
    <3>1. stage = Len(Test.stages) /\ Last(Test.stages) = "parser" /\ Test.stages # <<>>
      <4>0. \A k \in DOMAIN Test.stages : Test.stages[k] = "parser" => k = Len(Test.stages)
        <5>1. WellFormed(Test)
          BY <1>0, <2>1
        <5> QED
          BY <5>1, Zenon DEF WellFormed
      <4>1. stage = Len(Test.stages) /\ Len(Test.stages) # 0
        <5>1. stage = Len(Test.stages)
          BY <2>2, <2>4, <4>0
        <5>2. DOMAIN Test.stages = 1 .. Len(Test.stages)
          BY <1>0, <2>1
        <5>3. stage \in 1 .. Len(Test.stages)
          BY <2>2, <5>2
        <5> QED
          BY <5>1, <5>3
      <4>2. Last(Test.stages) = "parser"
        BY <2>2, <2>4, <4>1 DEF Last
      <4>3. Test.stages # <<>>
        BY <4>1
      <4> QED
        BY <4>1, <4>2, <4>3
    <3>2. Current.setup = "none"
      BY <1>0, <2>1, <2>2, <2>4 DEF Fits
    <3> QED
      BY <2>1, <2>3, <2>4, <3>1, <3>2
  <2>5. CASE Call # "parser"
    BY <2>1, <2>3, <2>5
  <2> QED
    BY <2>4, <2>5
<1>8. CASE RefusedResets
  <2>1. /\ at = "call" /\ phase = "test" /\ Call = "base" /\ at' = "loop"
        /\ UNCHANGED <<phase, done, checks, g_parser, lost>>
    BY <1>8 DEF RefusedResets, Refusal
  <2>2. stage \in DOMAIN Test.stages
    BY <2>1 DEF Call
  <2>3. Current.setup = "none" => g_parser # "own"
    BY <1>0, <2>1, <2>2
  <2> QED
    BY <2>1, <2>3
<1>9. CASE Parsed
  <2>1. /\ at = "call" /\ phase = "test" /\ UNCHANGED <<phase, done, checks, g_parser, lost>>
        /\ at' = "ok" \/ (at' = "error" /\ Last(Test.stages) = "parse")
    BY <1>9 DEF Parsed
  <2> QED
    BY <2>1
<1>10. CASE Break \/ Exhausted
  BY <1>10 DEF Break, Exhausted
<1>11. CASE Recover \/ FixedEnds
  BY <1>11 DEF Recover, FixedEnds
<1>12. CASE Recreate
  <2>1. phase = "test" /\ Test.recover = "recreate" /\ UNCHANGED <<phase, done, checks, lost>>
    BY <1>12 DEF Recreate
  <2>2. Current.setup # "none"
    BY <1>0, <2>1 DEF Fits
  <2> QED
    BY <2>1, <2>2
<1>13. CASE RecreateWithoutMemory
  BY <1>13 DEF RecreateWithoutMemory, TestFails, handle_failure
<1>14. CASE Accept
  <2>1. /\ at = "verdict" /\ phase = "test" /\ phase' = "teardown"
        /\ UNCHANGED <<done, checks, g_parser, lost>>
    BY <1>14 DEF Accept, TestReturns
  <2>2. Current.teardown # "none"
    BY <1>0, <2>1 DEF KindInv, Fits
  <2> QED
    BY <2>1, <2>2
<1>15. CASE PlainPasses \/ PlainFails
  <2>2. at = "loop" /\ phase = "test"
    BY <1>15 DEF PlainPasses, PlainFails, Steady
  <2>3. Current.setup = "none" => g_parser # "own"
    BY <2>2
  <2>4. "own" \notin lost'
    <3>1. Test.recover \in {"create", "forget"} => Current.setup = "none"
      BY <1>0, <2>2 DEF Fits
    <3>2. CASE PlainPasses
      BY <2>3, <3>1, <3>2 DEF PlainPasses, Lose
    <3>3. CASE PlainFails
      BY <2>3, <3>1, <3>3 DEF PlainFails
    <3> QED
      BY <1>15, <3>2, <3>3
  <2>5. CASE PlainPasses
    <3>1. phase' = "teardown" /\ UNCHANGED <<done, checks>>
      BY <2>5 DEF PlainPasses, TestReturns
    <3>2. Current.teardown = "none" => Current.setup = "none" /\ Test.recover # "create"
      BY <1>0, <2>2 DEF Fits
    <3>3. Current.teardown = "none" => g_parser' # "own"
      BY <2>3, <2>5, <3>2 DEF PlainPasses
    <3> QED
      BY <2>4, <3>1, <3>3
  <2>6. CASE PlainFails
    <3>1. phase' = "setup" /\ g_parser' # "own"
      BY <2>6 DEF PlainFails, TestFails, handle_failure
    <3> QED
      BY <2>4, <3>1
  <2> QED
    BY <1>15, <2>5, <2>6
<1>16. CASE TrackedCreate
  <2>1. /\ at = "loop" /\ phase = "test" /\ Test.kind = "tracked" /\ at' = "use"
        /\ UNCHANGED <<phase, done, checks>> /\ lost' \subseteq lost \union {g_parser}
    BY <1>16 DEF TrackedCreate, Lose
  <2>2. Current.setup = "none"
    BY <1>0, <2>1 DEF Fits
  <2> QED
    BY <2>1, <2>2
<1>17. CASE TrackedUse \/ TrackedParsed \/ TrackedFree
  BY <1>17 DEF TrackedUse, TrackedParsed, TrackedFree
<1>18. CASE TrackedReport
  <2>1. g_parser' = "NULL" /\ lost' = lost
    BY <1>18 DEF TrackedReport
  <2> QED
    BY <2>1
<1>19. CASE Update \/ UNCHANGED vars
  BY <1>19 DEF Update, LibraryUpdated, vars, testVars
<1> QED
  BY <1>1, <1>2, <1>3, <1>4, <1>5, <1>6, <1>7, <1>8, <1>9, <1>10, <1>11, <1>12, <1>13,
     <1>14, <1>15, <1>16, <1>17, <1>18, <1>19
  DEF Next, Application, LoopStep, TrackedStep

(***************************************************************************)
(* The list, in the test of the tracking allocator.                        *)
(***************************************************************************)

(* The list of the tracker, and its operations, are those of Helpers.      *)
LEMMA SameList == Tracker!Listed = Lists!Listed
BY DEF Tracker!Listed, Lists!Listed, Tracker!Nth, Lists!Nth, Tracker!Cardinality,
       Lists!Cardinality, Cardinality

(* The tracker of the test and the one of the theorems find the same       *)
(* entry.                                                                  *)
LEMMA SameFind == \A b : Tracker!Find(b) = Lists!Find(b)
BY SameList DEF Tracker!Find, Lists!Find

(* Their operations are the same as well.                                  *)
LEMMA SameTracker ==
  /\ \A e, b : Tracker!Malloc(e, b) => Lists!Malloc(e, b)
  /\ \A b : Tracker!Free(b) => Lists!Free(b)
  /\ \A b, c : Tracker!Realloc(b, c) => Lists!Realloc(b, c)
<1>1. ASSUME NEW e, NEW b, Tracker!Malloc(e, b) PROVE Lists!Malloc(e, b)
  BY <1>1 DEF Tracker!Malloc, Lists!Malloc, Tracker!AddEntry, Lists!AddEntry,
              Tracker!Unused, Lists!Unused, Tracker!list, Lists!list
<1>2. ASSUME NEW b, Tracker!Free(b) PROVE Lists!Free(b)
  BY <1>2, SameFind DEF Tracker!Free, Lists!Free, Tracker!Unlink, Lists!Unlink
<1>3. ASSUME NEW b, NEW c, Tracker!Realloc(b, c) PROVE Lists!Realloc(b, c)
  BY <1>3, SameFind DEF Tracker!Realloc, Lists!Realloc
<1> QED
  BY <1>1, <1>2, <1>3

(* The list of the tracker is in order at first: it is empty.              *)
LEMMA InitListInv == Init => Lists!ListInv
<1> SUFFICES ASSUME Init PROVE Lists!ListInv
  OBVIOUS
<1>1. Lists!Init
  BY DEF Init, Tracker!Init, Lists!Init
<1> QED
  BY <1>1, ListsDoApply, Lists!InitList DEF ListsApply

(* All steps but those of the test with the tracker leave the list alone.  *)
LEMMA ListMoves ==
  ASSUME [Next]_vars
  PROVE  \/ UNCHANGED trackVars /\ (at' = "use" => at = "use")
         \/ ~crashed /\ (TrackedCreate \/ TrackedUse \/ TrackedFree)
<1> USE DEF posVars, trackedUnchanged
<1>1. CASE RunnerStep \/ Setup \/ SetupWithoutMemory \/ Teardown
  BY <1>1 DEF RunnerStep, testVars, Setup, Start, SetupWithoutMemory, Teardown
<1>2. CASE FirstFails \/ Ignored \/ RefusedFails \/ Reject \/ TrackedParseFails
  BY <1>2 DEF FirstFails, Ignored, RefusedFails, Reject, TrackedParseFails, Fail, JumpOut
<1>3. CASE First \/ Attempt \/ Arm \/ Granted
  BY <1>3 DEF First, Attempt, Arm, Granted
<1>4. CASE Refused \/ RefusedResets \/ Parsed \/ Break
  BY <1>4 DEF Refused, RefusedResets, Parsed, Break
<1>5. CASE Recover \/ Recreate \/ RecreateWithoutMemory
  BY <1>5 DEF Recover, Recreate, RecreateWithoutMemory
<1>6. CASE Exhausted \/ FixedEnds \/ Accept
  BY <1>6 DEF Exhausted, FixedEnds, Accept
<1>7. CASE PlainPasses \/ PlainFails
  BY <1>7 DEF PlainPasses, PlainFails
<1>8. CASE TrackedParsed \/ TrackedReport \/ Update \/ UNCHANGED vars
  BY <1>8 DEF TrackedParsed, TrackedReport, Update, vars, testVars
<1> QED
  BY <1>1, <1>2, <1>3, <1>4, <1>5, <1>6, <1>7, <1>8
  DEF Next, Application, LoopStep, TrackedStep

(* The list is in order, and the blocks of this round are on the heap.     *)
HeldInv == Lists!ListInv /\ held \subseteq heap

(* What the parser holds are blocks.                                       *)
LEMMA HeldBlocks == HeldInv => held \subseteq Blocks
BY DEF HeldInv, Lists!ListInv, Lists!TypeOK

(* The list stays in order, and holds what the parser does.                *)
LEMMA StepHeldInv == HeldInv /\ [Next]_vars => HeldInv'
<1> SUFFICES ASSUME HeldInv, [Next]_vars PROVE HeldInv'
  OBVIOUS
<1>1. Lists!ListInv /\ held \subseteq Blocks /\ held \subseteq heap
  BY HeldBlocks DEF HeldInv
<1>2. CASE UNCHANGED trackVars \/ TrackedCreate
  <2>1. UNCHANGED Lists!vars
    BY <1>2 DEF trackVars, listVars, TrackedCreate, Lists!vars
  <2>2. Lists!ListInv'
    BY <1>1, <2>1, ListsDoApply, Lists!ListUnchanged DEF ListsApply
  <2>3. held' \subseteq heap /\ heap' = heap
    BY <1>1, <1>2 DEF trackVars, listVars, TrackedCreate
  <2> QED
    BY <2>2, <2>3 DEF HeldInv
<1>3. ASSUME NEW b \in held, Tracker!Free(b), held' = held \ {b} PROVE HeldInv'
  <2>1. Lists!ListInv'
    BY <1>1, <1>3, SameTracker, ListsDoApply, Lists!FreeKeepsList DEF ListsApply
  <2>2. heap' = heap \ {b}
    BY <1>3 DEF Tracker!Free
  <2> QED
    BY <1>1, <1>3, <2>1, <2>2 DEF HeldInv
<1>4. ASSUME NEW e \in Entries, NEW b \in Blocks, Tracker!Malloc(e, b), held' = held \union {b}
      PROVE  HeldInv'
  <2>1. Lists!ListInv'
    BY <1>1, <1>4, SameTracker, ListsDoApply, Lists!MallocKeepsList DEF ListsApply
  <2>2. heap' = heap \union {b}
    BY <1>4 DEF Tracker!Malloc
  <2> QED
    BY <1>1, <1>4, <2>1, <2>2 DEF HeldInv
<1>5. ASSUME NEW b \in held, NEW c \in Blocks, Tracker!Realloc(b, c),
             held' = (held \ {b}) \union {c}
      PROVE  HeldInv'
  <2>1. Lists!ListInv'
    BY <1>1, <1>5, SameTracker, ListsDoApply, Lists!ReallocKeepsList DEF ListsApply
  <2>2. heap' = (heap \ {b}) \union {c}
    BY <1>5 DEF Tracker!Realloc
  <2> QED
    BY <1>1, <1>5, <2>1, <2>2 DEF HeldInv
<1> QED
  BY <1>2, <1>3, <1>4, <1>5, ListMoves DEF TrackedUse, TrackedFree

(* The list has lost its tail only behind a block that this round has not  *)
(* allocated: the next allocation crashes.                                 *)
CrashInv ==
  /\ CrashOnlyAfterLeak
  /\ at = "use" /\ alloc_head # Null /\ alloc_tail = Null => heap \ held # {}

(* Whatever is on the list at the beginning of a round was leaked.         *)
LEMMA EmptyHeap == HeldInv /\ ~crashed /\ alloc_head # Null => heap # {}
<1> SUFFICES ASSUME HeldInv, ~crashed, alloc_head # Null PROVE heap # {}
  OBVIOUS
<1>1. PICK n \in Nat : \E order \in [1 .. n -> Entries] : Lists!InOrder(n, order)
  BY DEF HeldInv, Lists!ListInv, Lists!Ordered
<1>2. PICK order \in [1 .. n -> Entries] : Lists!InOrder(n, order)
  BY <1>1
<1>3. n # 0 /\ heap = {allocation[order[k]] : k \in 1 .. n}
  BY <1>2 DEF Lists!InOrder
<1>4. 1 \in 1 .. n
  BY <1>3
<1>5. allocation[order[1]] \in heap
  BY <1>3, <1>4
<1> QED
  BY <1>5

(* A tail is lost only behind a block that an earlier round has leaked.    *)
LEMMA StepCrashInv == KindInv /\ HeldInv /\ CrashInv /\ [Next]_vars => CrashInv'
<1> SUFFICES ASSUME KindInv, HeldInv, CrashInv, [Next]_vars PROVE CrashInv'
  OBVIOUS
<1>1. held \subseteq Blocks /\ held \subseteq heap
  BY HeldBlocks DEF HeldInv
<1>2. CASE UNCHANGED trackVars /\ (at' = "use" => at = "use")
  BY <1>2 DEF CrashInv, CrashOnlyAfterLeak, trackVars, listVars
<1>3. CASE ~crashed /\ TrackedCreate
  BY <1>3, EmptyHeap DEF TrackedCreate, CrashInv, CrashOnlyAfterLeak, listVars
<1>4. ASSUME ~crashed, TrackedUse PROVE CrashInv'
  <2>0. at = "use" /\ at' = "use"
    BY <1>4 DEF TrackedUse, Step
  <2>1. ASSUME NEW e \in Entries, NEW b \in Blocks, Tracker!Malloc(e, b), held' = held \union {b}
        PROVE  CrashInv'
    <3>1. b \notin heap /\ heap' = heap \union {b} /\ heap' \ held' = heap \ held
      BY <1>1, <2>1 DEF Tracker!Malloc
    <3>2. CASE alloc_head # Null /\ alloc_tail = Null
      BY <2>0, <3>1, <3>2 DEF CrashInv, CrashOnlyAfterLeak
    <3>3. CASE ~(alloc_head # Null /\ alloc_tail = Null)
      <4>1. alloc_tail' = e /\ crashed' = crashed
        BY <2>1, <3>3 DEF Tracker!Malloc, Tracker!AddEntry
      <4>2. e # Null
        BY MemoryAssumption
      <4> QED
        BY <1>4, <4>1, <4>2 DEF CrashInv, CrashOnlyAfterLeak
    <3> QED
      BY <3>2, <3>3
  <2>2. ASSUME NEW b \in held, NEW c \in Blocks, Tracker!Realloc(b, c),
               held' = (held \ {b}) \union {c}
        PROVE  CrashInv'
    <3>1. c \notin heap \ {b} /\ heap' = (heap \ {b}) \union {c}
          /\ UNCHANGED <<alloc_head, alloc_tail, crashed>>
      BY <2>2 DEF Tracker!Realloc
    <3>2. heap \ held # {} => heap' \ held' # {}
      BY <1>1, <2>2, <3>1
    <3> QED
      BY <1>4, <2>0, <3>1, <3>2 DEF CrashInv, CrashOnlyAfterLeak
  <2>3. ASSUME NEW b \in held, alloc_tail # Null, b # allocation[alloc_tail], Tracker!Free(b),
               held' = held \ {b}
        PROVE  CrashInv'
    <3>1. PICK e \in Lists!Find(b) : Lists!Unlink(e)
      BY <2>3, SameTracker DEF Lists!Free
    <3>2. PICK n \in Nat : \E order \in [1 .. n -> Entries] : Lists!InOrder(n, order)
      BY <1>4 DEF HeldInv, Lists!ListInv, Lists!Ordered
    <3>3. PICK order \in [1 .. n -> Entries] : Lists!InOrder(n, order)
      BY <3>2
    <3>4. PICK j \in 1 .. n : e = order[j] /\ allocation[order[j]] = b
      BY <3>1, <3>3, ListsDoApply, Lists!FindsOne DEF ListsApply
    <3>5. next[e] # Null
      <4>1. alloc_tail = order[n]
        BY <2>3, <3>3 DEF Lists!InOrder
      <4>2. j # n
        BY <2>3, <3>4, <4>1
      <4>3. next[order[j]] = order[j + 1] /\ order[j + 1] \in Entries
        BY <3>3, <4>2 DEF Lists!InOrder
      <4> QED
        BY <3>4, <4>3, MemoryAssumption
    <3>6. alloc_tail' = alloc_tail
      BY <3>1, <3>5 DEF Lists!Unlink
    <3>7. crashed' = crashed
      BY <2>3 DEF Tracker!Free
    <3> QED
      BY <1>4, <2>3, <3>6, <3>7 DEF CrashInv, CrashOnlyAfterLeak
  <2> QED
    BY <1>4, <2>1, <2>2, <2>3 DEF TrackedUse
<1>5. CASE ~crashed /\ TrackedFree
  <2>1. crashed' = crashed /\ at' = "free"
    BY <1>5 DEF TrackedFree, Step, Tracker!Free
  <2> QED
    BY <1>5, <2>1 DEF CrashInv, CrashOnlyAfterLeak
<1> QED
  BY <1>2, <1>3, <1>4, <1>5, ListMoves

(* A report that finds nothing means that nothing is left.                 *)
LEMMA ReportIsRight == HeldInv /\ ~crashed /\ ~tracking_report => heap = {}
<1> SUFFICES ASSUME HeldInv, ~crashed, ~tracking_report PROVE heap = {}
  OBVIOUS
<1>1. Lists!Listed = {}
  BY SameList DEF tracking_report
<1>2. Lists!Tracked = {}
  BY <1>1 DEF Lists!Tracked
<1>3. Lists!TracksHeap
  BY ListsDoApply, Lists!ListTracksHeap DEF ListsApply, HeldInv
<1> QED
  BY <1>2, <1>3 DEF Lists!TracksHeap

(* A test that passes has reached its end; a teardown lasts one step.      *)
LEMMA TestsReturn ==
  ASSUME [Next]_vars, phase' = "teardown"
  PROVE  \/ ~crashed /\ (Accept \/ PlainPasses \/ TrackedReport)
         \/ UNCHANGED <<phase, checks, done, heap>>
<1> USE DEF Step, runnerVars, handle_failure, handle_success
<1>1. CASE RunnerStep \/ Setup \/ SetupWithoutMemory \/ Teardown
  BY <1>1 DEF RunnerStep, MakeSuite, Report, Setup, SetupReturns, SetupWithoutMemory, SetupFails,
              Teardown, TeardownReturns, More
<1>2. CASE FirstFails \/ Ignored \/ RefusedFails \/ Reject \/ TrackedParseFails
  BY <1>2 DEF FirstFails, Ignored, RefusedFails, Reject, TrackedParseFails, Fail, JumpOut, TestFails
<1>3. CASE First \/ Attempt \/ Arm \/ Granted
  BY <1>3 DEF First, Attempt, Arm, Granted
<1>4. CASE Refused \/ RefusedResets \/ Parsed \/ Break
  BY <1>4 DEF Refused, RefusedResets, Refusal, Parsed, Break
<1>5. CASE Recover \/ Recreate \/ RecreateWithoutMemory
  BY <1>5 DEF Recover, Recreate, RecreateWithoutMemory, TestFails
<1>6. CASE Exhausted \/ FixedEnds
  BY <1>6 DEF Exhausted, FixedEnds
<1>7. CASE PlainFails
  BY <1>7 DEF PlainFails, TestFails
<1>8. CASE TrackedCreate \/ TrackedUse \/ TrackedParsed \/ TrackedFree
  BY <1>8 DEF TrackedCreate, TrackedUse, TrackedParsed, TrackedFree
<1>9. CASE Update \/ UNCHANGED vars
  BY <1>9 DEF Update, LibraryUpdated, vars, testVars, trackVars, listVars, countVars
<1> QED
  BY <1>1, <1>2, <1>3, <1>4, <1>5, <1>6, <1>7, <1>8, <1>9
  DEF Next, Application, LoopStep, TrackedStep

(* The tracking test returns only from a report that finds nothing.        *)
LEMMA StepForgivesNoLeak ==
  KindInv /\ HeldInv /\ LeakNeverForgiven /\ [Next]_vars => LeakNeverForgiven'
<1> SUFFICES ASSUME KindInv, HeldInv, LeakNeverForgiven, [Next]_vars,
                    phase' = "teardown", Test'.kind = "tracked"
             PROVE  heap' = {}
  BY DEF LeakNeverForgiven
<1> USE DEF Test, Current
<1>1. CASE ~crashed /\ TrackedReport
  <2>1. ~tracking_report /\ heap' = heap
    BY <1>1 DEF TrackedReport, TestFails, handle_failure, trackVars, listVars
  <2> QED
    BY <1>1, <2>1, ReportIsRight
<1>2. CASE Accept
  BY <1>2 DEF Accept, TestReturns, countVars, Step, KindInv
<1>3. CASE PlainPasses
  BY <1>3 DEF PlainPasses, Steady, TestReturns, countVars, Step
<1>4. CASE UNCHANGED <<phase, checks, done, heap>>
  BY <1>4 DEF LeakNeverForgiven
<1> QED
  BY <1>1, <1>2, <1>3, <1>4, TestsReturn

(***************************************************************************)
(* All of it: the invariant from which the properties follow.              *)
(***************************************************************************)

FaultInv ==
  /\ CheckInv /\ KindInv /\ FreshInv /\ ExtInv /\ OwnInv
  /\ HeldInv /\ CrashInv /\ LeakNeverForgiven

(* All parts of the invariant hold at first.                               *)
LEMMA InitFaultInv == Init => FaultInv
<1> SUFFICES ASSUME Init PROVE FaultInv
  OBVIOUS
<1>1. CheckInv
  <2>1. Len(checks) \in Nat /\ checks \in Seq(Allowed(Versions[version]))
    BY DEF Init, RunnerInit
  <2> QED
    BY <2>1, VersionAssumption DEF Init, RunnerInit, CheckInv
<1>2. HeldInv
  BY InitListInv DEF Init, HeldInv
<1>3. CrashInv
  BY DEF Init, Tracker!Init, CrashInv, CrashOnlyAfterLeak
<1>4. KindInv /\ FreshInv /\ ExtInv /\ OwnInv /\ LeakNeverForgiven
  BY DEF Init, RunnerInit, KindInv, FreshInv, ExtInv, OwnInv, LeakNeverForgiven
<1> QED
  BY <1>1, <1>2, <1>3, <1>4 DEF FaultInv

(* All of them are kept by every step.                                     *)
LEMMA StepFaultInv == FaultInv /\ [Next]_vars => FaultInv'
BY CheckStep, NextIsRunners, StepKindInv, StepFreshInv, StepExtInv, StepOwnInv, StepHeldInv,
   StepCrashInv, StepForgivesNoLeak DEF FaultInv

(* They hold for ever.                                                     *)
LEMMA FaultInvHolds == Spec => []FaultInv
BY InitFaultInv, StepFaultInv, PTL DEF Spec

(***************************************************************************)
(* What the calls of an attempt cost.                                      *)
(***************************************************************************)

(* What the calls before the k-th have cost, for each k.                   *)
Sums(c, s) ==
  /\ s \in [0 .. Len(c) -> Nat]
  /\ s[0] = 0
  /\ \A k \in 1 .. Len(c) : s[k] = s[k - 1] + c[k]
  /\ s[Len(c)] = Total(c)

(* FoldLeft() sums up over the indices, the greatest first.                *)
LEMMA MaxOfInterval ==
  ASSUME NEW S, NEW m \in S, S \subseteq Nat, \A x \in S : x <= m
  PROVE  Max(S) = m
<1>1. m \in S /\ \A y \in S : m >= y
  OBVIOUS
<1>2. \A x \in S : (\A y \in S : x >= y) => x = m
  OBVIOUS
<1> QED
  BY <1>1, <1>2 DEF Max

(* There is such a function, for costs of any length.                      *)
LEMMA SumsExist ==
  ASSUME NEW n \in Nat, NEW c \in [1 .. n -> Nat]
  PROVE  \E s : Sums(c, s)
<1> DEFINE Rec(m, f) == [S \in SUBSET (1 .. m) |->
                           IF S = {} THEN 0 ELSE f[S \ {Max(S)}] + c[Max(S)]]
           E == {m \in Nat : m <= n => \E f : f = Rec(m, f)}
<1>1. 0 \in E
  <2>1. SUBSET (1 .. 0) = {{}}
    <3>1. 1 .. 0 = {}
      OBVIOUS
    <3> QED
      BY <3>1
  <2> DEFINE z == [S \in SUBSET (1 .. 0) |-> IF S = {} THEN 0 ELSE 1]
  <2>2. z = [S \in SUBSET (1 .. 0) |->
               IF S = {} THEN 0 ELSE z[S \ {Max(S)}] + c[Max(S)]]
    BY <2>1
  <2> HIDE DEF z
  <2>3. z = Rec(0, z)
    BY <2>2, Zenon
  <2>4. \E f : f = Rec(0, f)
    <3> HIDE DEF Rec
    <3> QED
      BY <2>3, Zenon
  <2> HIDE DEF Rec
  <2> SUFFICES \E f : f = Rec(0, f)
    OBVIOUS
  <2> QED
    BY <2>4
<1>2. ASSUME NEW m \in Nat, m \in E PROVE m + 1 \in E
  <2> HIDE DEF Rec
  <2> SUFFICES ASSUME m + 1 <= n PROVE \E f : f = Rec(m + 1, f)
    OBVIOUS
  <2>1. PICK g : g = Rec(m, g)
    <3>1. m <= n
      OBVIOUS
    <3>2. \E f : f = Rec(m, f)
      BY <1>2, <3>1
    <3> QED
      BY <3>2
  <2> USE DEF Rec
  <2> DEFINE h == [S \in SUBSET (1 .. m + 1) |->
                     IF m + 1 \in S THEN g[S \ {m + 1}] + c[m + 1] ELSE g[S]]
  <2>2. ASSUME NEW S \in SUBSET (1 .. m + 1)
        PROVE  h[S] = IF S = {} THEN 0 ELSE h[S \ {Max(S)}] + c[Max(S)]
    <3>1. CASE m + 1 \in S
      <4>1. Max(S) = m + 1
        <5>1. S \subseteq Nat /\ \A x \in S : x <= m + 1
          OBVIOUS
        <5> QED
          BY <3>1, <5>1, MaxOfInterval
      <4>2. S \ {m + 1} \in SUBSET (1 .. m + 1) /\ m + 1 \notin S \ {m + 1}
        OBVIOUS
      <4>3. h[S \ {m + 1}] = g[S \ {m + 1}]
        BY <4>2
      <4>4. h[S] = g[S \ {m + 1}] + c[m + 1]
        BY <3>1
      <4> HIDE DEF h
      <4> QED
        BY <3>1, <4>1, <4>3, <4>4
    <3>2. CASE m + 1 \notin S /\ S # {}
      <4>1. S \in SUBSET (1 .. m) /\ S \ {Max(S)} \in SUBSET (1 .. m + 1)
            /\ m + 1 \notin S \ {Max(S)}
        <5>1. \A x \in S : x \in 1 .. m
          BY <3>2
        <5> QED
          BY <3>2, <5>1
      <4>2. h[S] = g[S] /\ h[S \ {Max(S)}] = g[S \ {Max(S)}]
        BY <3>2, <4>1
      <4>3. g[S] = g[S \ {Max(S)}] + c[Max(S)]
        BY <2>1, <3>2, <4>1
      <4> HIDE DEF h
      <4> QED
        BY <3>2, <4>2, <4>3
    <3>3. CASE S = {}
      <4>1. h[S] = g[{}]
        BY <3>3
      <4>2. g[{}] = 0
        BY <2>1
      <4> HIDE DEF h
      <4> QED
        BY <3>3, <4>1, <4>2
    <3> QED
      BY <3>1, <3>2, <3>3
  <2>3. h = [S \in SUBSET (1 .. m + 1) |-> h[S]]
    OBVIOUS
  <2>4. h = Rec(m + 1, h)
    <3> HIDE DEF h
    <3> QED
      BY <2>2, <2>3
  <2> HIDE DEF h, Rec
  <2> QED
    BY <2>4
<1>3. n \in E
  <2> HIDE DEF E
  <2> QED
    BY <1>1, <1>2, Induction
<1>4. PICK f : f = (CHOOSE g : g = Rec(n, g)) /\ f = Rec(n, f)
  <2>1. \E g : g = Rec(n, g)
    <3>1. n <= n
      OBVIOUS
    <3> HIDE DEF Rec
    <3> QED
      BY <1>3, <3>1
  <2> HIDE DEF Rec
  <2> QED
    BY <2>1, Zenon
<1>a. \A S \in SUBSET (1 .. n) :
        f[S] = IF S = {} THEN 0 ELSE f[S \ {Max(S)}] + c[Max(S)]
  BY <1>4, Zenon
<1>5. DOMAIN c = 1 .. n /\ Len(c) = n
  OBVIOUS
<1>6. Total(c) = f[1 .. n]
  BY <1>4, <1>5 DEF Total, FoldLeft, MapThenFoldSet
<1> DEFINE s == [k \in 0 .. n |-> f[1 .. k]]
<1>7. s[0] = 0
  <2>1. 1 .. 0 = {} /\ {} \in SUBSET (1 .. n) /\ s[0] = f[1 .. 0]
    OBVIOUS
  <2>2. f[{}] = 0
    BY <1>a, <2>1
  <2> QED
    BY <2>1, <2>2, Zenon
<1>8. ASSUME NEW k \in 1 .. n PROVE s[k] = s[k - 1] + c[k]
  <2>1. Max(1 .. k) = k
    <3>1. k \in 1 .. k /\ 1 .. k \subseteq Nat /\ \A x \in 1 .. k : x <= k
      OBVIOUS
    <3> QED
      BY <3>1, MaxOfInterval
  <2>2. /\ (1 .. k) \ {k} = 1 .. k - 1 
        /\ 1 .. k \in SUBSET (1 .. n) 
        /\ 1 .. k # {}
    <3>1. k \in 1 .. k /\ \A x \in 1 .. k : x \in 1 .. n
      OBVIOUS
    <3>2. \A x : x \in (1 .. k) \ {k} <=> x \in 1 .. k - 1
      OBVIOUS
    <3> QED
      BY <3>1, <3>2
  <2>3. f[1 .. k] = f[(1 .. k) \ {k}] + c[k]
    BY <1>a, <2>1, <2>2
  <2>4. s[k] = f[1 .. k] /\ s[k - 1] = f[1 .. k - 1]
    OBVIOUS
  <2> HIDE DEF s
  <2> QED
    BY <2>2, <2>3, <2>4, Zenon
<1>9. \A k \in Nat : k \in {j \in Nat : j <= n => s[j] \in Nat}
  <2> DEFINE F == {j \in Nat : j <= n => s[j] \in Nat}
  <2>1. 0 \in F
    BY <1>7
  <2>2. ASSUME NEW k \in Nat, k \in F PROVE k + 1 \in F
    <3>1. CASE k + 1 <= n
      <4>1. s[k + 1] = s[k] + c[k + 1]
        <5>1. k + 1 \in 1 .. n /\ (k + 1) - 1 = k
          BY <3>1
        <5> HIDE DEF s
        <5>2. s[k + 1] = s[(k + 1) - 1] + c[k + 1]
          BY <1>8, <5>1
        <5> QED
          BY <5>1, <5>2
      <4> HIDE DEF s
      <4> QED
        BY <2>2, <3>1, <4>1
    <3>2. CASE ~(k + 1 <= n)
      BY <3>2
    <3> QED
      BY <3>1, <3>2
  <2> HIDE DEF F
  <2>3. \A k \in Nat : k \in F
    BY <2>1, <2>2, Induction
  <2> QED
    BY <2>3 DEF F
<1>10. s \in [0 .. n -> Nat] /\ s[n] = Total(c)
  <2>1. s = [k \in 0 .. n |-> s[k]] /\ s[n] = Total(c)
    BY <1>6
  <2> HIDE DEF s
  <2> QED
    BY <1>9, <2>1
<1>11. \E z : z = s /\ Sums(c, z)
  <2> HIDE DEF s
  <2> QED
    BY <1>5, <1>7, <1>8, <1>10 DEF Sums
<1> QED
  BY <1>11

(* More calls do not cost less.                                            *)
LEMMA SumsGrow ==
  ASSUME NEW n \in Nat, NEW s \in [0 .. n -> Nat], NEW c \in [1 .. n -> Nat],
         \A k \in 1 .. n : s[k] = s[k - 1] + c[k]
  PROVE  \A k \in 0 .. n : \A l \in k .. n : s[k] <= s[l]
<1> DEFINE S == {d \in Nat : \A k \in 0 .. n : k + d <= n => s[k] <= s[k + d]}
<1>1. 0 \in S
  OBVIOUS
<1>2. ASSUME NEW d \in Nat, d \in S PROVE d + 1 \in S
  <2> SUFFICES ASSUME NEW k \in 0 .. n, k + (d + 1) <= n PROVE s[k] <= s[k + (d + 1)]
    OBVIOUS
  <2>1. s[k] <= s[k + d] /\ k + (d + 1) \in 1 .. n /\ (k + (d + 1)) - 1 = k + d
    BY <1>2
  <2>2. s[k + (d + 1)] = s[k + d] + c[k + (d + 1)]
    BY <2>1
  <2> QED
    BY <2>1, <2>2
<1>3. \A d \in Nat : d \in S
  <2> HIDE DEF S
  <2> QED
    BY <1>1, <1>2, Induction
<1>4. ASSUME NEW k \in 0 .. n, NEW l \in k .. n PROVE s[k] <= s[l]
  <2>1. l - k \in Nat /\ k + (l - k) = l /\ l <= n
    OBVIOUS
  <2>2. l - k \in S
    BY <1>3, <2>1
  <2> QED
    BY <2>1, <2>2
<1> QED
  BY <1>4

Counters == {"alloc", "realloc"}

(* What is known of the test in progress.                                  *)
LEMMA InTest ==
  ASSUME CheckInv, phase = "test"
  PROVE  /\ Test \in Tests /\ WellFormed(Test)
         /\ Test.kind \in {"loop", "paired", "fixed", "plain", "tracked"}
         /\ Test.max \in Nat /\ Test.counter \in Counters
         /\ Len(Test.stages) \in Nat /\ DOMAIN Test.stages = 1 .. Len(Test.stages)
<1>1. Current \in Checks
  BY CurrentFits DEF CheckInv
<1>2. Test \in Tests /\ WellFormed(Test)
  BY <1>1, Zenon DEF Checks, Test
<1>3. Test.counter \in Counters
  BY <1>2 DEF Tests, Counters
<1> QED
  BY <1>1, <1>2, <1>3, TestFacts DEF Test

(* The library that is chosen decides what each call costs.                *)
LEMMA CostsType ==
  ASSUME NEW t \in Tests, WellFormed(t), NEW c \in Costs(t)
  PROVE  /\ c \in [1 .. Len(t.stages) -> Nat]
         /\ t.kind # "paired" => \A k \in DOMAIN c : k \notin Calls(t) => c[k] = 0
<1>1. DOMAIN t.stages = 1 .. Len(t.stages) /\ Len(t.stages) \in Nat /\ t.max \in Nat
  BY DEF Tests
<1>2. CASE t.kind = "paired"
  <2>1. Len(t.stages) = 2
    <3>1. t.stages = <<"arm", "second">>
      BY <1>2, Zenon DEF WellFormed
    <3> QED
      BY <3>1
  <2>2. c = <<3, 4>> \/ \E n \in Nat : c = <<1, n>>
    <3>1. c \in {<<1, n>> : n \in {0, 1, 2, t.max, t.max + 1}} \union {<<3, 4>>}
      <4>1. Costs(t) = {<<1, n>> : n \in {0, 1, 2, t.max, t.max + 1}} \union {<<3, 4>>}
        BY <1>2, SMT DEF Costs
      <4> QED
        BY <4>1
    <3>2. {0, 1, 2, t.max, t.max + 1} \subseteq Nat
      BY <1>1
    <3>3. c = <<3, 4>> \/ \E n \in {0, 1, 2, t.max, t.max + 1} : c = <<1, n>>
      BY <3>1
    <3> QED
      BY <3>2, <3>3
  <2>3. c \in [1 .. 2 -> Nat]
    BY <2>2
  <2> QED
    BY <1>2, <2>1, <2>3
<1>3. CASE t.kind # "paired"
  <2> DEFINE none == [k \in DOMAIN t.stages |-> 0]
  <2>1. \/ c = none
        \/ c = [k \in DOMAIN t.stages |-> IF k \in Calls(t) THEN 1 ELSE 0]
        \/ \E k \in Calls(t), n \in Nat : c = [none EXCEPT ![k] = n]
    BY <1>3 DEF Costs
  <2>2. Calls(t) \subseteq DOMAIN t.stages
    BY DEF Calls
  <2>3. c \in [DOMAIN t.stages -> Nat] /\ \A k \in DOMAIN c : k \notin Calls(t) => c[k] = 0
    BY <2>1, <2>2
  <2> QED
    BY <1>1, <2>3
<1> QED
  BY <1>2, <1>3

(***************************************************************************)
(* An attempt in which the library is not replaced, next to a release that *)
(* could pass the test: the counter tells how many allocations are left.   *)
(***************************************************************************)

Undisturbed == phase = "test" /\ regular /\ ~mixed

(* What the counter is set to in this attempt.                             *)
Base == IF Test.kind = "fixed" THEN Test.max ELSE callno + i

(* The counters, and the costs a library may have for this test: none      *)
(* before the counter is set, and those with which it could pass.          *)
CostInv ==
  /\ count \in [Counters -> Nat \union {-1}]
  /\ phase = "test" =>
       /\ cost \in [1 .. Len(Test.stages) -> Nat] /\ callno \in Nat
       /\ Test.kind # "paired" =>
            callno = 0 /\ \A k \in DOMAIN cost : k \notin Calls(Test) => cost[k] = 0
       /\ regular => Passes(Test, cost, works)
       /\ at \in {"call", "ok", "error"} /\ Looping => i < Test.max

(* Only a setup and an update choose a library.                            *)
LEMMA LibraryStays ==
  ASSUME [Next]_vars, phase' = "test"
  PROVE  \/ Setup \/ Update
         \/ UNCHANGED <<cost, works, phase, done, checks, regular>>
<1> USE DEF Step, runnerVars, countVars, handle_failure, handle_success, libVars, pastVars,
            trackedUnchanged
<1>1. CASE RunnerStep \/ SetupWithoutMemory \/ Teardown
  BY <1>1 DEF RunnerStep, MakeSuite, Report, SetupWithoutMemory, SetupFails,
              Teardown, TeardownReturns, More
<1>2. CASE FirstFails \/ Ignored \/ RefusedFails \/ Reject \/ TrackedParseFails
  BY <1>2 DEF FirstFails, Ignored, RefusedFails, Reject, TrackedParseFails, Fail, JumpOut, TestFails
<1>3. CASE First \/ Attempt \/ Arm \/ Granted
  BY <1>3 DEF First, Attempt, Arm, Granted
<1>4. CASE Refused \/ RefusedResets \/ Parsed \/ Break
  BY <1>4 DEF Refused, RefusedResets, Refusal, Parsed, Break
<1>5. CASE Recover \/ Recreate \/ RecreateWithoutMemory
  BY <1>5 DEF Recover, Recreate, RecreateWithoutMemory, TestFails
<1>6. CASE Exhausted \/ FixedEnds \/ Accept
  BY <1>6 DEF Exhausted, FixedEnds, Accept, TestReturns
<1>7. CASE PlainFails \/ PlainPasses
  BY <1>7 DEF PlainFails, PlainPasses, TestFails, TestReturns
<1>8. CASE TrackedCreate \/ TrackedUse \/ TrackedParsed \/ TrackedFree
  BY <1>8 DEF TrackedCreate, TrackedUse, TrackedParsed, TrackedFree
<1>9. CASE TrackedReport
  BY <1>9 DEF TrackedReport, TestFails, TestReturns
<1>10. CASE UNCHANGED vars
  BY <1>10 DEF vars, testVars
<1> QED
  BY <1>1, <1>2, <1>3, <1>4, <1>5, <1>6, <1>7, <1>8, <1>9, <1>10
  DEF Next, Application, LoopStep, TrackedStep

(* No counter falls below 0: a call that is served costs no more than is   *)
(* left.                                                                   *)
LEMMA CountStaysTyped ==
  ASSUME CheckInv, KindInv, CostInv, [Next]_vars
  PROVE  count' \in [Counters -> Nat \union {-1}]
<1> USE DEF CostInv, counterVars, Step
<1>0. \A n \in Nat \union {-1} : \A c \in Counters :
        [count EXCEPT ![c] = n] \in [Counters -> Nat \union {-1}]
  OBVIOUS
<1>a. at = "call" => /\ phase = "test" /\ Test.counter \in Counters
                     /\ stage \in DOMAIN Test.stages => cost[stage] \in Nat
  <2>1. at = "call" => phase = "test"
    BY DEF KindInv
  <2>2. phase = "test" =>
          Test.counter \in Counters /\ DOMAIN Test.stages = 1 .. Len(Test.stages)
    BY InTest
  <2> QED
    BY <2>1, <2>2
<1>b. \A when : phase = "test" => CountAtEnd(when) \in [Counters -> Nat \union {-1}]
  BY <1>0, InTest DEF CountAtEnd
<1>c. \A s : CountersAtSetup(s) \in [Counters -> Nat \union {-1}]
  BY DEF CountersAtSetup, Disarmed, Counters
<1>d. ASSUME at = "call", stage \in DOMAIN Test.stages, Served
      PROVE  Spent \in [Counters -> Nat \union {-1}]
  <2>1. count[Test.counter] # -1 => count[Test.counter] - cost[stage] \in Nat
    BY <1>a, <1>d DEF Served
  <2> QED
    BY <1>0, <1>a, <1>d, <2>1 DEF Spent
<1>1. CASE RunnerStep \/ Setup \/ SetupWithoutMemory \/ Teardown
  BY <1>1, <1>c DEF RunnerStep, testVars, Setup, SetupWithoutMemory, Teardown
<1>2. CASE FirstFails \/ TrackedParseFails
  BY <1>2 DEF FirstFails, TrackedParseFails, Fail, JumpOut
<1>3. CASE First
  <2>1. "alloc" \in Counters /\ -1 \in Nat \union {-1}
    BY DEF Counters
  <2> QED
    BY <1>0, <1>3, <2>1 DEF First
<1>4. CASE Arm
  <2>1. Test.max \in Nat /\ callno + i \in Nat
    BY <1>4, <1>a, InTest DEF Arm, KindInv
  <2> QED
    BY <1>0, <1>4, <1>a, <2>1 DEF Arm
<1>5. CASE Granted \/ Ignored
  <2>1. at = "call" /\ Served /\ Call # "end"
    BY <1>5 DEF Granted, Ignored
  <2>2. Spent \in [Counters -> Nat \union {-1}]
    BY <1>d, <2>1 DEF Call
  <2>3. count' = Spent \/ count' = [Spent EXCEPT ![Test.counter] = -1]
    BY <1>5 DEF Granted, Ignored
  <2> QED
    BY <1>a, <2>1, <2>2, <2>3
<1>6. CASE Refused \/ RefusedFails \/ RefusedResets
  <2>1. at = "call" /\ \E n \in {0, -1} : count' = [count EXCEPT ![Test.counter] = n]
    BY <1>6 DEF Refused, RefusedFails, RefusedResets, Refusal
  <2> QED
    BY <1>0, <1>a, <2>1
<1>7. CASE Attempt \/ Parsed \/ Break \/ Recover
  BY <1>7 DEF Attempt, Parsed, Break, Recover
<1>8. CASE Recreate \/ RecreateWithoutMemory
  BY <1>8, <1>c DEF Recreate, RecreateWithoutMemory
<1>9. CASE Exhausted \/ FixedEnds
  BY <1>9 DEF Exhausted, FixedEnds
<1>10. CASE Accept \/ Reject
  BY <1>10, <1>b DEF Accept, Reject
<1>11. CASE PlainPasses \/ PlainFails
  BY <1>11 DEF PlainPasses, PlainFails
<1>12. CASE TrackedCreate \/ TrackedUse \/ TrackedParsed \/ TrackedFree \/ TrackedReport
  BY <1>12 DEF TrackedCreate, TrackedUse, TrackedParsed, TrackedFree, TrackedReport,
               trackedUnchanged
<1>13. CASE Update \/ UNCHANGED vars
  BY <1>13 DEF Update, vars, testVars
<1> QED
  BY <1>1, <1>2, <1>3, <1>4, <1>5, <1>6, <1>7, <1>8, <1>9, <1>10, <1>11, <1>12, <1>13
  DEF Next, Application, LoopStep, TrackedStep

(* How a test goes on.                                                     *)
LEMMA TestMoves ==
  ASSUME KindInv, [Next]_vars, phase = "test", phase' = "test"
  PROVE  /\ callno' = callno \/ (Test.kind = "paired" /\ callno' = cost[1])
         /\ at' \in {"call", "ok", "error"} =>
              i' = i /\ (at \in {"call", "ok", "error"} \/ i < Test.max \/ Test.kind = "fixed")
<1> USE DEF Step, runnerVars, handle_failure, handle_success, posVars, counterVars,
            trackedUnchanged
<1>1. CASE RunnerStep \/ Setup \/ SetupWithoutMemory \/ Teardown
  BY <1>1 DEF RunnerStep, MakeSuite, Report, Setup, SetupReturns, SetupWithoutMemory, SetupFails,
              Teardown, TeardownReturns, More
<1>2. CASE FirstFails \/ Ignored \/ RefusedFails \/ Reject \/ TrackedParseFails
  BY <1>2 DEF FirstFails, Ignored, RefusedFails, Reject, TrackedParseFails, Fail, JumpOut
<1>3. CASE First \/ Attempt \/ Arm \/ Granted
  BY <1>3 DEF First, Attempt, Arm, Granted
<1>4. CASE Refused \/ RefusedResets \/ Parsed \/ Break
  BY <1>4 DEF Refused, RefusedResets, Refusal, Parsed, Break
<1>5. CASE Recover \/ Recreate \/ RecreateWithoutMemory
  BY <1>5 DEF Recover, Recreate, RecreateWithoutMemory
<1>6. CASE Exhausted \/ FixedEnds \/ Accept
  BY <1>6 DEF Exhausted, FixedEnds, Accept
<1>7. CASE PlainPasses \/ PlainFails
  BY <1>7 DEF PlainPasses, PlainFails
<1>8. CASE TrackedCreate \/ TrackedUse \/ TrackedParsed \/ TrackedFree \/ TrackedReport
  BY <1>8 DEF TrackedCreate, TrackedUse, TrackedParsed, TrackedFree, TrackedReport
<1>9. CASE Update \/ UNCHANGED vars
  BY <1>9 DEF Update, vars, testVars
<1> QED
  BY <1>1, <1>2, <1>3, <1>4, <1>5, <1>6, <1>7, <1>8, <1>9
  DEF Next, Application, LoopStep, TrackedStep

(* The costs of the calls stay natural numbers, and those of a release     *)
(* that could pass the test as long as no other has been met.              *)
LEMMA StepCostInv == CheckInv /\ KindInv /\ CostInv /\ [Next]_vars => CostInv'
<1> SUFFICES ASSUME CheckInv, KindInv, CostInv, [Next]_vars PROVE CostInv'
  OBVIOUS
<1>a. Setup \/ phase = "test" => Test \in Tests /\ WellFormed(Test)
  <2>1. Setup \/ phase = "test" => Current \in Checks
    BY CurrentFits DEF CheckInv, Setup, SetupReturns, More
  <2> QED
    BY <2>1, Zenon DEF Checks, Test
<1>1. count' \in [Counters -> Nat \union {-1}]
  BY CountStaysTyped
<1>2. CASE phase' # "test"
  BY <1>1, <1>2 DEF CostInv
<1>3. CASE Setup
  <2>1. /\ Test' = Test /\ cost' \in Costs(Test) /\ callno' = 0 /\ phase' = "test"
        /\ at' \notin {"call", "ok", "error"} /\ regular' = Passes(Test, cost', works')
    BY <1>3 DEF Setup, SetupReturns, Start, ChooseLibrary, Test, Current
  <2>2. /\ cost' \in [1 .. Len(Test.stages) -> Nat]
        /\ Test.kind # "paired" => \A k \in DOMAIN cost' : k \notin Calls(Test) => cost'[k] = 0
    BY <1>3, <1>a, <2>1, CostsType
  <2> QED
    BY <1>1, <2>1, <2>2 DEF CostInv
<1>4. CASE Update /\ phase' = "test"
  <2>1. /\ Test' = Test /\ cost' \in Costs(Test) /\ phase = "test"
        /\ UNCHANGED <<callno, at, i>>
        /\ regular' => Passes(Test, cost', works')
    BY <1>4 DEF Update, LibraryUpdated, ChooseLibrary, Test, Current, countVars, counterVars,
                posVars
  <2>2. /\ cost' \in [1 .. Len(Test.stages) -> Nat]
        /\ Test.kind # "paired" => \A k \in DOMAIN cost' : k \notin Calls(Test) => cost'[k] = 0
    BY <1>4, <1>a, <2>1, CostsType
  <2> QED
    BY <1>1, <2>1, <2>2 DEF CostInv, Looping
<1>5. CASE phase' = "test" /\ UNCHANGED <<cost, works, phase, done, checks, regular>>
  <2>1. Test' = Test /\ phase = "test"
    BY <1>5 DEF Test, Current
  <2>2. /\ callno' = callno \/ (Test.kind = "paired" /\ callno' = cost[1])
        /\ at' \in {"call", "ok", "error"} =>
             i' = i /\ (at \in {"call", "ok", "error"} \/ i < Test.max \/ Test.kind = "fixed")
    BY <1>5, <2>1, TestMoves
  <2>3. callno' \in Nat
    <3>1. CASE Test.kind = "paired"
      <4>1. Len(Test.stages) = 2
        <5>1. Test.stages = <<"arm", "second">>
          BY <1>a, <2>1, <3>1, Zenon DEF WellFormed
        <5> QED
          BY <5>1
      <4> QED
        BY <2>1, <2>2, <4>1 DEF CostInv
    <3>2. CASE Test.kind # "paired"
      BY <2>1, <2>2, <3>2 DEF CostInv
    <3> QED
      BY <3>1, <3>2
  <2> QED
    BY <1>1, <1>5, <2>1, <2>2, <2>3 DEF CostInv, Looping
<1> QED
  BY <1>2, <1>3, <1>4, <1>5, LibraryStays

(* The counter before each call: what it was set to less what the calls    *)
(* since have cost, which is not more.                                     *)
CallInv ==
  Undisturbed /\ at = "call" =>
    IF Test.kind = "paired"
    THEN /\ stage = 2 => count[Test.counter] = cost[1] + i
         /\ stage = 3 => cost[2] <= cost[1] + i
    ELSE \A s : Sums(cost, s) =>
           /\ s[stage - 1] <= Base
           /\ (\A a \in 1 .. stage - 1 : Test.stages[a] # "arm") => s[stage - 1] = 0
           /\ stage \in Calls(Test) => count[Test.counter] = Base - s[stage - 1]

(* An attempt that fails leaves the loop another one, and one that gets to *)
(* the end is neither the first nor beyond the last.                       *)
TallyInv ==
  Undisturbed =>
    /\ Test.kind = "paired" /\ at \in {"loop", "call", "ok", "error", "verdict"}
       => callno = cost[1]
    /\ Looping => /\ at = "loop" => i < Test.max
                  /\ at = "error" => i < Test.max - 1
                  /\ at \in {"ok", "verdict"} => i \in 1 .. Test.max - 1
    /\ at \in {"ok", "verdict"} => /\ Test.flags => "last" \in flags
                                   /\ Test.storage => "last" \in storage

(* The steps that lead to a call.                                          *)
LEMMA CallMoves ==
  ASSUME KindInv, [Next]_vars, Undisturbed', at' = "call"
  PROVE  \/ Attempt \/ Arm \/ Granted
         \/ UNCHANGED <<at, i, stage, count, callno, cost, phase, done, checks, mixed, regular>>
<1> USE DEF Step, runnerVars, countVars, handle_failure, handle_success, posVars, trackedUnchanged
<1>1. CASE RunnerStep \/ Setup \/ SetupWithoutMemory \/ Teardown
  BY <1>1 DEF RunnerStep, MakeSuite, Report, Setup, Start, SetupWithoutMemory, SetupFails,
              Teardown, TeardownReturns, More, Undisturbed
<1>2. CASE FirstFails \/ Ignored \/ RefusedFails \/ Reject \/ TrackedParseFails
  BY <1>2 DEF FirstFails, Ignored, RefusedFails, Reject, TrackedParseFails, Fail, JumpOut
<1>3. CASE First \/ Refused \/ RefusedResets \/ Parsed \/ Break
  BY <1>3 DEF First, Refused, RefusedResets, Parsed, Break
<1>4. CASE Recover \/ Recreate \/ RecreateWithoutMemory
  BY <1>4 DEF Recover, Recreate, RecreateWithoutMemory
<1>5. CASE Exhausted \/ FixedEnds \/ Accept
  BY <1>5 DEF Exhausted, FixedEnds, Accept
<1>6. CASE PlainPasses \/ PlainFails
  BY <1>6 DEF PlainPasses, PlainFails
<1>7. CASE TrackedCreate \/ TrackedUse \/ TrackedParsed \/ TrackedFree \/ TrackedReport
  BY <1>7 DEF TrackedCreate, TrackedUse, TrackedParsed, TrackedFree, TrackedReport
<1>8. CASE Update \/ UNCHANGED vars
  BY <1>8 DEF Update, LibraryUpdated, Undisturbed, vars, testVars, counterVars, libVars, pastVars,
              KindInv
<1> QED
  BY <1>1, <1>2, <1>3, <1>4, <1>5, <1>6, <1>7, <1>8
  DEF Next, Application, LoopStep, TrackedStep

(* The facts of CostInv in an attempt.                                     *)
LEMMA AttemptFacts ==
  ASSUME CheckInv, KindInv, CostInv, at = "call", NEW s, Sums(cost, s)
  PROVE  /\ stage \in 1 .. Len(Test.stages) + 1
         /\ Len(Test.stages) \in Nat /\ DOMAIN Test.stages = 1 .. Len(Test.stages)
         /\ cost \in [1 .. Len(Test.stages) -> Nat]
         /\ s \in [0 .. Len(Test.stages) -> Nat] /\ s[0] = 0
         /\ \A k \in 1 .. Len(Test.stages) : s[k] = s[k - 1] + cost[k]
         /\ s[Len(Test.stages)] = Total(cost)
         /\ Base \in Nat
<1>1. phase = "test"
  BY DEF KindInv
<1>2. cost \in [1 .. Len(Test.stages) -> Nat] /\ Len(Test.stages) \in Nat
  BY <1>1, InTest DEF CostInv
<1>3. Len(cost) = Len(Test.stages)
  BY <1>2
<1>4. /\ s \in [0 .. Len(Test.stages) -> Nat] /\ s[0] = 0
      /\ \A k \in 1 .. Len(Test.stages) : s[k] = s[k - 1] + cost[k]
      /\ s[Len(Test.stages)] = Total(cost)
  BY <1>3 DEF Sums
<1>5. Base \in Nat
  <2>1. Test.max \in Nat /\ callno \in Nat /\ i \in Nat
    BY <1>1, InTest DEF CostInv, KindInv
  <2> QED
    BY <2>1 DEF Base
<1>6. stage \in 1 .. Len(Test.stages) + 1 /\ DOMAIN Test.stages = 1 .. Len(Test.stages)
  BY <1>1, InTest DEF KindInv
<1> QED
  BY <1>2, <1>4, <1>5, <1>6

(* The counter follows the calls, also those before it is set and those    *)
(* after it is taken back (external_entity_reallocator()).                 *)
LEMMA StepCallInv ==
  CheckInv /\ KindInv /\ CostInv /\ CallInv /\ TallyInv /\ [Next]_vars => CallInv'
<1> SUFFICES ASSUME CheckInv, KindInv, CostInv, CallInv, TallyInv, [Next]_vars,
                    Undisturbed', at' = "call"
             PROVE  CallInv'
  BY DEF CallInv
<1>1. CASE Attempt
  <2>1. /\ phase = "test" /\ stage' = 1 /\ Test' = Test /\ i' = i /\ callno' = callno
        /\ cost' = cost /\ Base' = Base
    BY <1>1 DEF Attempt, Step, Test, Current, runnerVars, countVars, counterVars, libVars, Base
  <2>2. Base \in Nat
    BY <2>1, InTest DEF CostInv, KindInv, Base
  <2>3. 1 \notin Calls(Test) /\ stage' # 2 /\ stage' # 3 /\ 1 - 1 = 0
    BY <2>1 DEF Calls
  <2>4. \A s : Sums(cost, s) => s[0] = 0
    BY DEF Sums
  <2> QED
    BY <2>1, <2>2, <2>3, <2>4 DEF CallInv
<1>2. CASE Arm \/ Granted
  <2>1. /\ at = "call" /\ phase = "test" /\ Undisturbed /\ stage' = stage + 1 /\ Test' = Test
        /\ cost' = cost /\ Base' = Base /\ callno' = callno /\ i' = i
        /\ Call # "end" /\ Call \notin {"refused", "fault"}
    <3>1. /\ at = "call" /\ phase = "test" /\ stage' = stage + 1
          /\ UNCHANGED <<checks, done, phase, cost, callno, i, regular, mixed>>
          /\ Call # "end" /\ Call \notin {"refused", "fault"}
      <4>1. CASE Arm
        BY <4>1 DEF Arm, Step, runnerVars, countVars, libVars, pastVars
      <4>2. CASE Granted
        BY <4>2 DEF Granted, Step, runnerVars, countVars, libVars, pastVars
      <4> QED
        BY <1>2, <4>1, <4>2
    <3>2. Test' = Test
      BY <3>1 DEF Test, Current
    <3> QED
      BY <3>1, <3>2 DEF Undisturbed, Base
  <2>2. stage \in DOMAIN Test.stages /\ Call = Test.stages[stage]
    BY <2>1 DEF Call
  <2>3. WellFormed(Test) /\ Test.counter \in Counters
    BY <2>1, InTest
  <2>4. CASE Test.kind = "paired"
    <3>1. Test.stages = <<"arm", "second">>
      BY <2>3, <2>4, Zenon DEF WellFormed
    <3>2. (stage = 1 /\ Call = "arm") \/ (stage = 2 /\ Call = "second")
      BY <2>2, <3>1
    <3>3. CASE stage = 1
      <4>1. count' = [count EXCEPT ![Test.counter] = callno + i] /\ callno = cost[1]
        BY <1>2, <2>1, <2>4, <3>2, <3>3 DEF Arm, Granted, TallyInv
      <4> QED
        BY <2>1, <2>3, <2>4, <3>3, <4>1 DEF CallInv, CostInv
    <3>4. CASE stage = 2
      <4>1. count[Test.counter] = cost[1] + i
        BY <2>1, <2>4, <3>4 DEF CallInv
      <4>2. Served
        BY <1>2, <3>2, <3>4 DEF Arm, Granted
      <4>3. cost[1] \in Nat
        BY <2>1, <3>1 DEF CostInv
      <4>4. cost[2] <= cost[1] + i
        BY <3>4, <4>1, <4>2, <4>3 DEF Served, KindInv
      <4> QED
        BY <2>1, <2>4, <3>4, <4>4 DEF CallInv
    <3> QED
      BY <3>2, <3>3, <3>4
  <2>5. CASE Test.kind # "paired"
    <3> SUFFICES ASSUME NEW s, Sums(cost, s)
                 PROVE  /\ s[stage] <= Base
                        /\ (\A a \in 1 .. stage : Test.stages[a] # "arm") => s[stage] = 0
                        /\ stage + 1 \in Calls(Test) => count'[Test.counter] = Base - s[stage]
      <4>1. (stage + 1) - 1 = stage
        BY <2>1 DEF KindInv
      <4> QED
        BY <2>1, <2>5, <4>1 DEF CallInv
    <3>1. /\ stage \in 1 .. Len(Test.stages) /\ Len(Test.stages) \in Nat
          /\ cost \in [1 .. Len(Test.stages) -> Nat] /\ s \in [0 .. Len(Test.stages) -> Nat]
          /\ s[stage] = s[stage - 1] + cost[stage] /\ Base \in Nat
      BY <2>1, <2>2, AttemptFacts
    <3>2. s[stage - 1] \in Nat /\ cost[stage] \in Nat /\ s[stage] \in Nat
      BY <3>1
    <3>3. /\ s[stage - 1] <= Base
          /\ (\A a \in 1 .. stage - 1 : Test.stages[a] # "arm") => s[stage - 1] = 0
          /\ stage \in Calls(Test) => count[Test.counter] = Base - s[stage - 1]
      BY <2>1, <2>5 DEF CallInv
    <3>4. stage \notin Calls(Test) => cost[stage] = 0
      BY <2>1, <2>5, <3>1 DEF CostInv
    <3>5. stage + 1 \in Calls(Test) =>
            Call # "ext_disarm" /\ (Call = "arm" \/ stage \in Calls(Test))
      <4> SUFFICES ASSUME stage + 1 \in Calls(Test)
                   PROVE  Call # "ext_disarm" /\ (Call = "arm" \/ stage \in Calls(Test))
        OBVIOUS
      <4>1. PICK a \in 1 .. stage : Test.stages[a] = "arm"
        BY <3>1 DEF Calls
      <4>2. \A d \in 1 .. stage : Test.stages[d] # "ext_disarm"
        BY <3>1 DEF Calls
      <4>3. Call # "ext_disarm"
        BY <2>2, <3>1, <4>2
      <4>4. a # stage => stage \in Calls(Test)
        BY <2>2, <3>1, <4>1, <4>2 DEF Calls
      <4> QED
        BY <2>2, <4>1, <4>3, <4>4
    <3>6. CASE Call = "arm"
      <4>1. count' = [count EXCEPT ![Test.counter] = IF Test.kind = "fixed" THEN Test.max
                                                     ELSE callno + i]
        BY <1>2, <3>6 DEF Arm, Granted
      <4>2. count'[Test.counter] = Base
        BY <2>3, <4>1 DEF CostInv, Base
      <4>3. \A a \in 1 .. stage - 1 : Test.stages[a] # "arm"
        BY <2>2, <2>3, <3>6 DEF WellFormed
      <4>4. stage \notin Calls(Test)
        BY <4>3 DEF Calls
      <4>5. s[stage] = 0
        BY <3>1, <3>3, <3>4, <4>3, <4>4
      <4> QED
        BY <3>1, <4>2, <4>5
    <3>7. CASE Call # "arm" /\ stage \in Calls(Test)
      <4>1. count[Test.counter] = Base - s[stage - 1] /\ count[Test.counter] # -1
        BY <3>1, <3>2, <3>3, <3>7
      <4>2. Granted /\ Served
        BY <1>2, <3>7 DEF Arm, Granted
      <4>3. cost[stage] <= Base - s[stage - 1]
        BY <4>1, <4>2 DEF Served
      <4>4. stage + 1 \in Calls(Test) => count'[Test.counter] = count[Test.counter] - cost[stage]
        BY <2>3, <3>5, <4>1, <4>2 DEF Granted, Spent, CostInv
      <4>5. ~ \A a \in 1 .. stage : Test.stages[a] # "arm"
        BY <3>1, <3>7 DEF Calls
      <4> QED
        BY <3>1, <3>2, <4>1, <4>3, <4>4, <4>5
    <3>8. CASE Call # "arm" /\ stage \notin Calls(Test)
      <4>1. s[stage] = s[stage - 1]
        BY <3>1, <3>2, <3>4, <3>8
      <4>2. \A a \in 1 .. stage - 1 : a \in 1 .. stage
        BY <3>1
      <4> QED
        BY <3>3, <3>5, <3>8, <4>1, <4>2
    <3> QED
      BY <3>6, <3>7, <3>8
  <2> QED
    BY <2>4, <2>5
<1>3. CASE UNCHANGED <<at, i, stage, count, callno, cost, phase, done, checks, mixed, regular>>
  <2>1. Undisturbed /\ at = "call" /\ Test' = Test /\ Base' = Base
    BY <1>3 DEF Undisturbed, Test, Current, Base
  <2> QED
    BY <1>3, <2>1 DEF CallInv
<1> QED
  BY <1>1, <1>2, <1>3, CallMoves

(* A call that is refused memory in an attempt without a replacement.      *)
LEMMA RefusalMeans ==
  ASSUME CheckInv, KindInv, CostInv, CallInv, Undisturbed, Refusal
  PROVE  /\ Looping => i < Test.max - 1
         /\ Call \notin {"must", "create_must"}
<1> DEFINE n == Len(Test.stages)
<1>1. at = "call" /\ phase = "test" /\ Call \notin {"arm", "end"} /\ ~Served
  BY DEF Refusal, Step
<1>2. /\ stage \in 1 .. n /\ n \in Nat /\ Call = Test.stages[stage] /\ cost \in [1 .. n -> Nat]
      /\ WellFormed(Test) /\ Passes(Test, cost, works) /\ Test.max \in Nat /\ i \in Nat
      /\ Test.kind # "paired" => callno = 0
      /\ count[Test.counter] \in Nat \union {-1}
  BY <1>1, InTest DEF Call, CostInv, KindInv, Undisturbed
<1>3. count[Test.counter] \in Nat /\ cost[stage] > count[Test.counter] /\ cost[stage] \in Nat
  BY <1>1, <1>2 DEF Served
<1>4. CASE Test.kind = "paired"
  <2>1. Test.stages = <<"arm", "second">>
    BY <1>2, <1>4, Zenon DEF WellFormed
  <2>2. stage = 2 /\ Call = "second" /\ n = 2
    BY <1>1, <1>2, <2>1
  <2>3. count[Test.counter] = cost[1] + i /\ cost[1] \in Nat /\ cost[2] \in Nat
    BY <1>1, <1>2, <1>4, <2>2 DEF CallInv
  <2>4. cost[2] - cost[1] \in 1 .. Test.max - 1
    BY <1>2, <1>4 DEF Passes
  <2>5. i < Test.max - 1
    BY <1>2, <1>3, <2>2, <2>3, <2>4
  <2> QED
    BY <2>2, <2>5
<1>5. CASE Test.kind # "paired"
  <2>1. PICK s : Sums(cost, s)
    BY <1>2, SumsExist
  <2>2. /\ s \in [0 .. n -> Nat] /\ s[n] = Total(cost)
        /\ \A k \in 1 .. n : s[k] = s[k - 1] + cost[k]
    BY <1>1, <2>1, AttemptFacts
  <2>3. stage \in Calls(Test)
    BY <1>2, <1>3, <1>5 DEF CostInv, Undisturbed
  <2>4. count[Test.counter] = Base - s[stage - 1] /\ s[stage - 1] <= Base
    BY <1>1, <1>5, <2>1, <2>3 DEF CallInv
  <2>5. \A k \in 0 .. n : \A l \in k .. n : s[k] <= s[l]
    BY <1>2, <2>2, SumsGrow
  <2>6. /\ s[stage] = s[stage - 1] + cost[stage] /\ s[stage] <= s[n]
        /\ s[stage] \in Nat /\ s[stage - 1] \in Nat /\ s[n] \in Nat
    <3>1. stage \in 0 .. n /\ stage - 1 \in 0 .. n /\ n \in stage .. n /\ n \in 0 .. n
      BY <1>2
    <3>2. s[stage] <= s[n]
      BY <2>5, <3>1
    <3> HIDE DEF n
    <3> QED
      BY <1>2, <2>2, <3>1, <3>2
  <2>7. CASE Test.kind = "loop"
    <3>1. Base = i
      BY <1>2, <2>7 DEF Base
    <3>2. Total(cost) \in 1 .. Test.max - 1
      BY <1>2, <2>7 DEF Passes
    <3>3. i < Test.max - 1
      BY <1>2, <1>3, <2>2, <2>4, <2>6, <3>1, <3>2
    <3>4. Call \in {"must", "create_must"} => cost[stage] = 0
      BY <1>2, <2>3, <2>7 DEF Passes
    <3> QED
      BY <1>3, <3>3, <3>4
  <2>8. CASE Test.kind = "fixed"
    <3>1. n > 1 /\ Test.stages[n] \in {"refused", "fault"}
      BY <1>2, <2>8 DEF WellFormed
    <3>2. Len(cost) = n /\ cost[n] = Total(cost)
      BY <1>2, <2>8 DEF Passes
    <3>3. s[n - 1] = 0
      <4>1. n \in 1 .. n /\ n - 1 \in 0 .. n
        BY <1>2, <3>1
      <4>2. s[n] = s[n - 1] + cost[n] /\ s[n] = cost[n]
        BY <2>2, <3>2, <4>1
      <4>3. s[n - 1] \in Nat /\ cost[n] \in Nat
        BY <1>2, <2>2, <4>1
      <4> HIDE DEF n
      <4> QED
        BY <4>2, <4>3
    <3>4. stage # n => cost[stage] = 0
      <4>1. stage # n => n - 1 \in stage .. n /\ stage \in 0 .. n
        BY <1>2
      <4>2. stage # n => s[stage] <= s[n - 1]
        BY <2>5, <4>1
      <4> QED
        BY <1>3, <2>6, <3>3, <4>2
    <3>5. stage = n
      BY <1>3, <3>4
    <3> QED
      BY <1>2, <2>8, <3>1, <3>5 DEF Looping
  <2>9. Test.kind \in {"loop", "paired", "fixed"}
    BY <1>1 DEF KindInv
  <2> QED
    BY <1>5, <2>7, <2>8, <2>9
<1> QED
  BY <1>4, <1>5

(* A loop gets to the end of an attempt only with enough memory.           *)
LEMMA EndMeans ==
  ASSUME CheckInv, KindInv, CostInv, CallInv, Undisturbed, at = "call", Call = "end", Looping
  PROVE  i \in 1 .. Test.max - 1
<1> DEFINE n == Len(Test.stages)
<1>1. phase = "test"
  BY DEF Undisturbed
<1>2. /\ stage \in 1 .. n + 1 /\ n \in Nat /\ DOMAIN Test.stages = 1 .. n
      /\ cost \in [1 .. n -> Nat] /\ WellFormed(Test) /\ Test \in Tests
      /\ Passes(Test, cost, works) /\ Test.max \in Nat /\ i \in Nat /\ i < Test.max
      /\ Test.kind # "paired" => callno = 0
  BY <1>1, InTest DEF CostInv, KindInv, Undisturbed
<1>3. stage = n + 1
  <2>1. \A k \in DOMAIN Test.stages : Test.stages[k] # "end"
    BY <1>2, StagesNamed
  <2> QED
    BY <1>2, <2>1 DEF Call
<1>4. CASE Test.kind = "paired"
  <2>1. n = 2
    <3>1. Test.stages = <<"arm", "second">>
      BY <1>2, <1>4, Zenon DEF WellFormed
    <3> QED
      BY <3>1
  <2>2. cost[2] <= cost[1] + i /\ cost[1] \in Nat /\ cost[2] \in Nat
    BY <1>2, <1>3, <1>4, <2>1 DEF CallInv
  <2>3. cost[2] - cost[1] \in 1 .. Test.max - 1
    BY <1>2, <1>4 DEF Passes
  <2> QED
    BY <1>2, <2>2, <2>3
<1>5. CASE Test.kind = "loop"
  <2>1. PICK s : Sums(cost, s)
    BY <1>2, SumsExist
  <2>2. s[n] = Total(cost)
    BY <2>1, AttemptFacts
  <2>3. s[n] <= Base
    <3>1. stage - 1 = n
      BY <1>2, <1>3
    <3>2. s[stage - 1] <= Base
      BY <1>5, <2>1 DEF CallInv
    <3> QED
      BY <3>1, <3>2
  <2>4. Base = i /\ Total(cost) \in 1 .. Test.max - 1
    BY <1>2, <1>5 DEF Base, Passes
  <2> QED
    BY <1>2, <2>2, <2>3, <2>4
<1> QED
  BY <1>4, <1>5 DEF Looping

(* A call that has to fail in an attempt without a replacement does.       *)
LEMMA RefusedOnceEnough ==
  ASSUME CheckInv, KindInv, CostInv, CallInv, Undisturbed, at = "call",
         Call \in {"refused", "fault"}
  PROVE  ~Served
<1> DEFINE n == Len(Test.stages)
<1>1. /\ phase = "test" /\ stage \in 1 .. n /\ n \in Nat /\ DOMAIN Test.stages = 1 .. n
      /\ Call = Test.stages[stage] /\ cost \in [1 .. n -> Nat]
      /\ WellFormed(Test) /\ Passes(Test, cost, works) /\ Test.max \in Nat
  BY InTest DEF Call, CostInv, KindInv, Undisturbed
<1>2. Test.kind = "fixed" /\ stage = n
  BY <1>1 DEF WellFormed
<1>3. /\ n > 1 /\ Test.stages[1] = "arm"
      /\ \A k \in 1 .. n : Test.stages[k] # "ext_disarm"
  BY <1>1, <1>2 DEF WellFormed
<1>4. Len(cost) = n /\ cost[n] = Total(cost) /\ Total(cost) > Test.max
  BY <1>1, <1>2 DEF Passes
<1>5. n \in Calls(Test)
  BY <1>1, <1>3 DEF Calls
<1>6. PICK s : Sums(cost, s)
  BY <1>1, SumsExist
<1>7. count[Test.counter] = Test.max - s[n - 1] /\ s[n - 1] <= Test.max
  BY <1>2, <1>5, <1>6 DEF CallInv, Base
<1>8. s[n - 1] \in Nat
  <2>1. s \in [0 .. n -> Nat] /\ n - 1 \in 0 .. n
    BY <1>1, <1>3, <1>6, AttemptFacts
  <2> QED
    BY <2>1
<1> QED
  BY <1>1, <1>2, <1>4, <1>7, <1>8 DEF Served

(* A refusal lets the loop go on, the end of an attempt leaves it in time. *)
LEMMA StepTallyInv ==
  CheckInv /\ KindInv /\ CostInv /\ CallInv /\ TallyInv /\ [Next]_vars => TallyInv'
<1> SUFFICES ASSUME CheckInv, KindInv, CostInv, CallInv, TallyInv, [Next]_vars, Undisturbed'
             PROVE  TallyInv'
  BY DEF TallyInv
<1> USE DEF Step, runnerVars, countVars, posVars, counterVars, libVars, pastVars, evidence
<1>0. UNCHANGED <<phase, done, checks, regular, mixed>> => Test' = Test /\ Undisturbed
  BY DEF Undisturbed, Test, Current
<1>1. CASE RunnerStep \/ SetupWithoutMemory \/ Teardown
  BY <1>1 DEF RunnerStep, MakeSuite, Report, SetupWithoutMemory, SetupFails,
              Teardown, TeardownReturns, More, Undisturbed, handle_failure, handle_success
<1>2. CASE Setup
  <2>1. /\ at' \in {"first", "loop"} /\ (Test.kind = "paired" => at' = "first")
        /\ i' = 0 /\ Test' = Test
    BY <1>2 DEF Setup, SetupReturns, Start, Test, Current
  <2>2. Looping => Test.max > 0
    <3>1. Current \in Checks
      BY <1>2, CurrentFits DEF CheckInv, Setup, SetupReturns, More
    <3> QED
      BY <3>1, TestFacts DEF Looping, Test
  <2> QED
    BY <2>1, <2>2 DEF TallyInv, Looping
<1>3. CASE First
  <2>1. /\ phase = "test" /\ at' = "loop" /\ i' = 0 /\ Test' = Test
        /\ Test.kind = "paired" => callno' = cost'[1]
    BY <1>3 DEF First, Test, Current, KindInv
  <2>2. Looping => Test.max > 0
    BY <2>1, InTest DEF WellFormed, Looping
  <2> QED
    BY <2>1, <2>2 DEF TallyInv, Looping
<1>4. CASE FirstFails \/ Ignored \/ RefusedFails \/ Reject \/ TrackedParseFails
  BY <1>4 DEF FirstFails, Ignored, RefusedFails, Reject, TrackedParseFails,
     Fail, JumpOut, TestFails,
              handle_failure, Undisturbed
<1>5. CASE Attempt
  <2>1. /\ at = "loop" /\ at' = "call" /\ i' = i /\ Test' = Test /\ callno' = callno
        /\ cost' = cost /\ (Test.kind = "paired" => Undisturbed)
    BY <1>5 DEF Attempt, Test, Current, Undisturbed
  <2> QED
    BY <2>1 DEF TallyInv, Looping
<1>6. CASE Arm \/ Granted
  <2>1. /\ at = "call" /\ at' = "call" /\ i' = i /\ Test' = Test /\ callno' = callno
        /\ cost' = cost /\ Undisturbed
    <3>1. CASE Arm
      BY <1>0, <3>1 DEF Arm
    <3>2. CASE Granted
      BY <1>0, <3>2 DEF Granted
    <3> QED
      BY <1>6, <3>1, <3>2
  <2> QED
    BY <2>1 DEF TallyInv, Looping
<1>7. CASE Refused \/ RefusedResets
  <2>1. /\ at = "call" /\ Test' = Test /\ callno' = callno /\ cost' = cost /\ Undisturbed
        /\ Refusal
        /\ (at' = "error" /\ i' = i) \/ (at' = "loop" /\ i' = i + 1)
    <3>1. CASE Refused
      BY <1>0, <3>1 DEF Refused, Refusal
    <3>2. CASE RefusedResets
      BY <1>0, <3>2 DEF RefusedResets, Refusal
    <3> QED
      BY <1>7, <3>1, <3>2
  <2>2. Looping => i < Test.max - 1 /\ Test.max \in Nat /\ i \in Nat
    BY <2>1, RefusalMeans, InTest DEF Undisturbed, KindInv
  <2> QED
    BY <2>1, <2>2 DEF TallyInv, Looping
<1>8. CASE Parsed
  <2>1. /\ at = "call" /\ Test' = Test /\ callno' = callno /\ cost' = cost /\ Undisturbed
        /\ i' = i /\ Call = "end"
    BY <1>8 DEF Parsed, Test, Current, Undisturbed
  <2>2. works
    BY <2>1, PassesWorks DEF CostInv, Undisturbed
  <2>3. at' = "ok" /\ Fires(TRUE)
    BY <1>8, <2>2 DEF Parsed
  <2>4. (Test.flags => "last" \in flags') /\ (Test.storage => "last" \in storage')
    BY <2>3 DEF Fires
  <2>5. Looping => i \in 1 .. Test.max - 1
    BY <2>1, EndMeans
  <2> QED
    BY <2>1, <2>3, <2>4, <2>5 DEF TallyInv, Looping
<1>9. CASE Break
  <2>1. /\ at = "ok" /\ at' = "verdict" /\ Test' = Test /\ Undisturbed
        /\ UNCHANGED <<i, callno, cost, flags, storage>>
    BY <1>9 DEF Break, Test, Current, Undisturbed
  <2> QED
    BY <2>1 DEF TallyInv, Looping
<1>10. CASE Recover \/ Recreate
  <2>1. /\ at = "error" /\ at' = "loop" /\ Test' = Test /\ Undisturbed /\ i' = i + 1
        /\ UNCHANGED <<callno, cost>>
    <3>1. CASE Recover
      BY <1>0, <3>1 DEF Recover
    <3>2. CASE Recreate
      BY <1>0, <3>2 DEF Recreate
    <3> QED
      BY <1>10, <3>1, <3>2
  <2>2. Test.max \in Nat /\ i \in Nat
    BY <2>1, InTest DEF KindInv, Undisturbed
  <2> QED
    BY <2>1, <2>2 DEF TallyInv, Looping
<1>11. CASE RecreateWithoutMemory
  BY <1>11 DEF RecreateWithoutMemory, TestFails, handle_failure, Undisturbed
<1>12. CASE Exhausted
  <2>1. at = "loop" /\ i = Test.max /\ Looping /\ Undisturbed
    BY <1>12 DEF Exhausted, Undisturbed
  <2>2. i < Test.max /\ i \in Nat
    BY <2>1 DEF TallyInv, KindInv
  <2> QED
    BY <2>1, <2>2
<1>13. CASE FixedEnds
  <2>1. phase = "test" /\ Test.kind = "fixed" /\ Test' = Test
    BY <1>13 DEF FixedEnds, Test, Current
  <2>2. ~Test.flags /\ ~Test.storage
    BY <2>1, InTest DEF WellFormed
  <2> QED
    BY <2>1, <2>2 DEF TallyInv, Looping
<1>14. CASE Accept \/ PlainPasses \/ PlainFails \/ TrackedReport
  <2>1. at' = "none" /\ (phase' # "test")
    BY <1>14 DEF Accept, PlainPasses, PlainFails, TrackedReport, TestFails, TestReturns,
                 handle_failure
  <2> QED
    BY <2>1 DEF Undisturbed
<1>15. CASE TrackedCreate \/ TrackedUse \/ TrackedParsed \/ TrackedFree
  <2>1. at' \in {"use", "free"} /\ Test' = Test /\ Test.kind = "tracked"
    BY <1>15 DEF TrackedCreate, TrackedUse, TrackedParsed, TrackedFree, Test, Current, KindInv
  <2> QED
    BY <2>1 DEF TallyInv, Looping
<1>16. CASE Update
  BY <1>16 DEF Update, LibraryUpdated, Undisturbed
<1>17. CASE UNCHANGED vars
  BY <1>17 DEF vars, testVars, TallyInv, Undisturbed, Test, Current, Looping
<1> QED
  BY <1>1, <1>2, <1>3, <1>4, <1>5, <1>6, <1>7, <1>8, <1>9, <1>10,
     <1>11, <1>12, <1>13, <1>14, <1>15, <1>16, <1>17
  DEF Next, Application, LoopStep, TrackedStep

(* All of it.                                                              *)
CountingInv == FaultInv /\ CostInv /\ CallInv /\ TallyInv

(* Nothing is counted at first.                                            *)
LEMMA InitCountingInv == Init => CountingInv
<1>1. Init => CostInv /\ CallInv /\ TallyInv
  BY DEF Init, RunnerInit, CostInv, CallInv, TallyInv, Undisturbed, Counters
<1> QED
  BY <1>1, InitFaultInv DEF CountingInv

(* What an attempt counts stays the difference of two sums of costs.       *)
LEMMA StepCountingInv == CountingInv /\ [Next]_vars => CountingInv'
BY StepFaultInv, StepCostInv, StepCallInv, StepTallyInv DEF CountingInv, FaultInv

(* It does for ever.                                                       *)
LEMMA CountingInvHolds == Spec => []CountingInv
BY InitCountingInv, StepCountingInv, PTL DEF Spec

(* Each way a test can fail needs a release that cannot pass it, or a list *)
(* that is not empty.                                                      *)
LEMMA FailureIsExplained ==
  ASSUME CountingInv, [Next]_vars, phase = "test", phase' = "setup", regular', ~mixed
  PROVE  heap # {}
<1> USE DEF Step
<1>0. CheckInv /\ KindInv /\ FreshInv /\ CostInv /\ CallInv /\ TallyInv /\ HeldInv
  BY DEF CountingInv, FaultInv
<1>1. ASSUME regular PROVE Undisturbed /\ works
  BY <1>0, <1>1, PassesWorks DEF Undisturbed, CostInv
<1>2. CASE RunnerStep \/ Setup \/ SetupWithoutMemory \/ Teardown
  BY <1>2 DEF RunnerStep, MakeSuite, Report, Setup, SetupReturns, SetupWithoutMemory, SetupFails,
              Teardown, TeardownReturns, More
<1>3. CASE FirstFails \/ PlainFails \/ TrackedParseFails
  BY <1>1, <1>3 DEF FirstFails, PlainFails, TrackedParseFails, pastVars
<1>4. CASE Ignored
  BY <1>0, <1>1, <1>4, RefusedOnceEnough DEF Ignored, pastVars
<1>5. CASE RefusedFails
  BY <1>0, <1>1, <1>5, RefusalMeans DEF RefusedFails
<1>6. CASE Reject
  <2>1. at = "verdict" /\ Complaint /\ Undisturbed /\ works
    BY <1>1, <1>6 DEF Reject, pastVars
  <2>2. Looping => i \in 1 .. Test.max - 1 /\ Test.max \in Nat
    BY <1>0, <2>1, InTest DEF TallyInv, Undisturbed
  <2>3. /\ Test.flags => flags # {}
        /\ Test.storage => storage = {"last"}
    BY <1>0, <2>1 DEF TallyInv, FreshInv
  <2> QED
    BY <2>1, <2>2, <2>3 DEF Complaint
<1>7. CASE RecreateWithoutMemory
  BY <1>7 DEF RecreateWithoutMemory
<1>8. CASE TrackedReport /\ ~crashed
  <2>1. tracking_report
    BY <1>8 DEF TrackedReport, TestReturns
  <2>2. Lists!Listed # {}
    BY <2>1, SameList DEF tracking_report
  <2>3. Lists!Tracked # {}
    BY <2>2 DEF Lists!Tracked
  <2>4. Lists!TracksHeap
    BY <1>0, ListsDoApply, Lists!ListTracksHeap DEF ListsApply, HeldInv
  <2> QED
    BY <1>8, <2>3, <2>4 DEF Lists!TracksHeap
<1>9. CASE Accept \/ PlainPasses
  BY <1>9 DEF Accept, PlainPasses, TestReturns
<1>10. CASE First \/ Attempt \/ Arm \/ Granted
  BY <1>10 DEF First, Attempt, Arm, Granted, runnerVars
<1>11. CASE Refused \/ RefusedResets \/ Parsed \/ Break
  BY <1>11 DEF Refused, RefusedResets, Refusal, Parsed, Break, runnerVars
<1>12. CASE Recover \/ Recreate \/ Exhausted \/ FixedEnds
  BY <1>12 DEF Recover, Recreate, Exhausted, FixedEnds, runnerVars
<1>13. CASE TrackedCreate \/ TrackedUse \/ TrackedParsed \/ TrackedFree
  BY <1>13 DEF TrackedCreate, TrackedUse, TrackedParsed, TrackedFree, runnerVars
<1>14. CASE Update \/ UNCHANGED vars
  BY <1>14 DEF Update, LibraryUpdated, vars, runnerVars
<1> QED
  BY <1>2, <1>3, <1>4, <1>5, <1>6, <1>7, <1>8, <1>9, <1>10, <1>11, <1>12, <1>13, <1>14
  DEF Next, Application, LoopStep, TrackedStep

(***************************************************************************)
(* The types of the variables.                                             *)
(***************************************************************************)

(* The runner: it stops at the last test, and has one verdict of two.      *)
LEMMA StepRunnerType == CheckInv /\ RunnerTypeOK /\ RunnerNext => RunnerTypeOK'
<1> SUFFICES ASSUME CheckInv, RunnerTypeOK, RunnerNext PROVE RunnerTypeOK'
  OBVIOUS
<1> USE DEF RunnerTypeOK, Phases
<1>1. CASE MakeSuite
  <2>1. Len(checks') \in Nat
    BY CheckStep DEF CheckInv
  <2> QED
    BY <1>1, <2>1 DEF MakeSuite
<1>2. CASE SetupFails \/ TestFails \/ TeardownReturns
  <2>1. \E x \in {"PASS", "FAIL"} : verdicts' = Append(verdicts, x)
    BY <1>2 DEF SetupFails, TestFails, TeardownReturns, handle_failure, handle_success
  <2>2. verdicts' \in Seq({"PASS", "FAIL"})
    BY <2>1
  <2>3. /\ UNCHANGED <<version, checks>> /\ done' = done + 1 /\ phase' = "setup"
        /\ done < Len(checks) /\ nchecks' \in Nat /\ nfailures' \in Nat
    BY <1>2 DEF SetupFails, More, TestFails, TeardownReturns, handle_failure, handle_success
  <2> QED
    BY <2>2, <2>3
<1>3. CASE SetupReturns \/ TestReturns
  BY <1>3 DEF SetupReturns, More, TestReturns, countVars
<1>4. CASE Report \/ LibraryUpdated \/ UNCHANGED runnerVars
  BY <1>4 DEF Report, LibraryUpdated, runnerVars, countVars
<1> QED
  BY <1>1, <1>2, <1>3, <1>4 DEF RunnerNext

(* What no other invariant tells of the types.                             *)
PlainTypes ==
  /\ g_parser \in {"NULL", "own", "orphan"}
  /\ lost \subseteq {"own", "orphan", "local"}
  /\ flags \subseteq {"earlier", "last"}
  /\ storage \subseteq {"earlier", "last"}
  /\ at \in {"none", "first", "loop", "call", "ok", "error", "verdict", "use", "free"}

(* The variables that are not counted with keep their types.               *)
LEMMA StepPlainTypes == PlainTypes /\ [Next]_vars => PlainTypes'
<1> SUFFICES ASSUME PlainTypes, [Next]_vars PROVE PlainTypes'
  OBVIOUS
<1> USE DEF PlainTypes, posVars, parserVars, evidence, trackedUnchanged
<1>1. CASE RunnerStep \/ Setup \/ SetupWithoutMemory \/ Teardown
  BY <1>1 DEF RunnerStep, testVars, Setup, Start, SetupWithoutMemory, Teardown, Lose
<1>2. CASE FirstFails \/ Ignored \/ RefusedFails \/ Reject \/ TrackedParseFails
  BY <1>2 DEF FirstFails, Ignored, RefusedFails, Reject, TrackedParseFails, Fail, JumpOut
<1>3. CASE First \/ Attempt \/ Arm \/ Granted
  BY <1>3 DEF First, Attempt, Arm, Granted, Lose
<1>4. CASE Refused \/ RefusedResets \/ Parsed \/ Break
  BY <1>4 DEF Refused, RefusedResets, Parsed, Break, Lose, Fires
<1>5. CASE Recover \/ Recreate \/ RecreateWithoutMemory
  BY <1>5 DEF Recover, Recreate, RecreateWithoutMemory, Fires
<1>6. CASE Exhausted \/ FixedEnds \/ Accept
  BY <1>6 DEF Exhausted, FixedEnds, Accept
<1>7. CASE PlainPasses \/ PlainFails
  BY <1>7 DEF PlainPasses, PlainFails, Lose
<1>8. CASE TrackedCreate \/ TrackedUse \/ TrackedParsed \/ TrackedFree \/ TrackedReport
  BY <1>8 DEF TrackedCreate, TrackedUse, TrackedParsed, TrackedFree, TrackedReport, Lose, Step
<1>9. CASE Update \/ UNCHANGED vars
  BY <1>9 DEF Update, vars, testVars
<1> QED
  BY <1>1, <1>2, <1>3, <1>4, <1>5, <1>6, <1>7, <1>8, <1>9
  DEF Next, Application, LoopStep, TrackedStep

(***************************************************************************)
(* The properties of FaultTests, for any suite that is well formed.        *)
(***************************************************************************)

(* Whatever tests, library and runner do, each variable keeps its type: no *)
(* counter of the failing allocators falls below 0, and no more tests are  *)
(* done than there are.                                                    *)
THEOREM TypesAreCorrect == Spec => []TypeOK
<1> DEFINE Inv == CountingInv /\ RunnerTypeOK /\ PlainTypes
<1>1. Init => Inv
  <2>1. Init => CountingInv
    BY InitCountingInv
  <2>2. Init => RunnerTypeOK /\ PlainTypes
    BY VersionAssumption DEF Init, RunnerInit, RunnerTypeOK, Phases, PlainTypes
  <2> QED
    BY <2>1, <2>2
<1>2. Inv /\ [Next]_vars => Inv'
  <2> SUFFICES ASSUME Inv, [Next]_vars PROVE Inv'
    OBVIOUS
  <2>1. CountingInv'
    BY StepCountingInv
  <2>2. RunnerTypeOK'
    BY NextIsRunners, StepRunnerType DEF CountingInv, FaultInv
  <2>3. PlainTypes'
    BY StepPlainTypes
  <2> QED
    BY <2>1, <2>2, <2>3
<1>3. Inv => TypeOK
  BY DEF CountingInv, FaultInv, CostInv, Counters, KindInv, ExtInv, HeldInv, PlainTypes, TypeOK
<1> QED
  BY <1>1, <1>2, <1>3, PTL DEF Spec

(* No test runs with a release its guard excludes, although make_suite()   *)
(* reads the release once and Luci replaces the library at any moment: a   *)
(* later release satisfies the guards of the earlier one.                  *)
THEOREM GuardsAlwaysHold == Spec => []GuardsHold
<1>1. FaultInv => GuardsHold
  BY CheckGuards DEF FaultInv
<1> QED
  BY <1>1, FaultInvHolds, PTL

(* What the checks behind a loop look at stems from its last attempt: the  *)
(* flags and the character data are reset before each one.                 *)
THEOREM EvidenceIsFresh == Spec => []FreshEvidence
<1>1. FaultInv => FreshEvidence
  BY DEF FaultInv, FreshInv, FreshEvidence
<1> QED
  BY <1>1, FaultInvHolds, PTL

(* A test that passes leaks no parser: the external parser is freed before *)
(* an attempt is given up, and g_parser is overwritten only where no setup *)
(* has created it.                                                         *)
THEOREM PassingTestsKeepParsers == Spec => []OnlyFailuresLoseParsers
<1>1. FaultInv => OnlyFailuresLoseParsers
  BY DEF FaultInv, ExtInv, OwnInv, OnlyFailuresLoseParsers
<1> QED
  BY <1>1, FaultInvHolds, PTL

(* The test for leaks passes only with an empty heap: tracking_report()    *)
(* walks the list, which outlives the test.                                *)
THEOREM LeaksAreNeverForgiven == Spec => []LeakNeverForgiven
<1>1. FaultInv => LeakNeverForgiven
  BY DEF FaultInv
<1> QED
  BY <1>1, FaultInvHolds, PTL

(* The tracker dereferences its lost tail only if an earlier round has     *)
(* left a block on the list.                                               *)
THEOREM LeaksComeBeforeCrashes == Spec => []CrashOnlyAfterLeak
<1>1. FaultInv => CrashOnlyAfterLeak
  BY DEF FaultInv, CrashInv
<1> QED
  BY <1>1, FaultInvHolds, PTL

(* A test that meets only releases which could pass it, none of them       *)
(* during an attempt, fails only over blocks that an earlier round has     *)
(* leaked: each loop ends in time, and each check behind it holds.         *)
THEOREM FailuresAreExplained == Spec => FailuresExplained
<1>1. CountingInv /\ [Next]_vars
      => [phase = "test" /\ phase' = "setup" /\ regular' => mixed \/ heap # {}]_vars
  BY FailureIsExplained
<1> QED
  BY <1>1, CountingInvHolds, PTL DEF Spec, FailuresExplained

-------------------------------------------------------------------------------
(***************************************************************************)
(* Progress.  With each step a test gets to a later place of the attempt,  *)
(* to its next attempt, of which there is a last one, or to its end, and   *)
(* the round to its next test: what RoundsEnd needs beside the fairness of *)
(* the application.                                                        *)
(***************************************************************************)

(* An attempt goes on to a later place.                                    *)
LEMMA PlacesFollow ==
  ASSUME CheckInv, KindInv, CheckInv', KindInv', phase = "test", UNCHANGED <<done, checks>>,
         \/ at = "first" /\ at' = "loop"
         \/ at = "loop" /\ at' \in {"call", "use", "verdict"}
         \/ at = "call" /\ at' = "call" /\ stage' = stage + 1
         \/ at = "call" /\ at' \in {"ok", "error"}
         \/ at \in {"ok", "error", "use"} /\ at' \in {"verdict", "free"}
  PROVE  0 <= PlacesLeft' /\ PlacesLeft' < PlacesLeft
<1> DEFINE L == Len(Test.stages)
<1>1. L \in Nat /\ L' = L
  <2>1. Test' = Test
    BY DEF Test, Current
  <2>2. Len(Test.stages) \in Nat
    BY InTest
  <2> QED
    BY <2>1, <2>2
<1>2. /\ at = "call" => stage \in 1 .. L + 1
      /\ at' = "call" => stage' \in 1 .. L + 1
  BY <1>1 DEF KindInv
<1>3. PlacesLeft = CASE at = "first" -> L + 5
                     [] at = "loop" -> L + 4
                     [] at = "call" -> L + 4 - stage
                     [] at \in {"ok", "error", "use"} -> 2
                     [] at \in {"verdict", "free"} -> 1
                     [] OTHER -> 0
  BY DEF PlacesLeft
<1>4. PlacesLeft' = CASE at' = "first" -> L + 5
                      [] at' = "loop" -> L + 4
                      [] at' = "call" -> L + 4 - stage'
                      [] at' \in {"ok", "error", "use"} -> 2
                      [] at' \in {"verdict", "free"} -> 1
                      [] OTHER -> 0
  BY <1>1 DEF PlacesLeft
<1> HIDE DEF L
<1> QED
  BY <1>1, <1>2, <1>3, <1>4

(* Steps that end the test, or its setup, with a verdict.                  *)
LEMMA VerdictCounts ==
  ASSUME CheckInv,
         \/ SetupFails
         \/ TestFails
         \/ TeardownReturns
  PROVE  UNCHANGED checks /\ phase' = "setup" /\ done' = done + 1 /\ done' <= Len(checks)
<1>1. done \in Nat /\ Len(checks) \in Nat /\ done < Len(checks)
  BY DEF CheckInv, SetupFails, More, TestFails, TeardownReturns
<1>2. UNCHANGED checks /\ phase' = "setup" /\ done' = done + 1
  BY DEF SetupFails, TestFails, TeardownReturns, handle_failure, handle_success
<1> QED
  BY <1>1, <1>2

(* Each step is one of those that RoundAdvances allows.                    *)
LEMMA StepAdvances ==
  ASSUME CountingInv, CountingInv', [Next]_vars, vars' # vars, phase # "make"
  PROVE  \/ phase' = "make" /\ done = Len(checks)
         \/ /\ UNCHANGED checks
            /\ \/ phase' = "setup" /\ done' = done + 1 /\ done' <= Len(checks)
               \/ /\ UNCHANGED done
                  /\ \/ <<phase, phase'>> \in {<<"setup", "test">>, <<"test", "teardown">>}
                     \/ UNCHANGED phase /\ GoesOn
<1> USE DEF Step, runnerVars, countVars
<1>0. CheckInv /\ KindInv /\ CostInv /\ CheckInv' /\ KindInv'
  BY DEF CountingInv, FaultInv
<1>a. at # "none" => phase = "test"
  BY <1>0 DEF KindInv
<1>b. Looping /\ at \in {"call", "error"} => i \in Nat /\ i < Test.max /\ Test.max \in Nat
  BY <1>0, <1>a, InTest DEF CostInv, KindInv
<1>1. CASE RunnerStep
  BY <1>1 DEF RunnerStep, MakeSuite, Report
<1>2. CASE Setup \/ Accept \/ PlainPasses
  BY <1>2 DEF Setup, SetupReturns, More, Accept, PlainPasses, TestReturns
<1>3. CASE \/ SetupWithoutMemory \/ Teardown \/ FirstFails \/ Ignored \/ RefusedFails \/ Reject
           \/ TrackedParseFails \/ RecreateWithoutMemory \/ PlainFails
  <2>1. SetupFails \/ TestFails \/ TeardownReturns
    BY <1>3 DEF SetupWithoutMemory, Teardown, FirstFails, Ignored, RefusedFails, Reject,
                TrackedParseFails, RecreateWithoutMemory, PlainFails, Fail, JumpOut
  <2> QED
    BY <1>0, <2>1, VerdictCounts
<1>4. CASE TrackedReport
  <2>1. CASE TestFails
    BY <1>0, <2>1, VerdictCounts
  <2>2. CASE TestReturns
    BY <2>2 DEF TestReturns
  <2> QED
    BY <1>4, <2>1, <2>2 DEF TrackedReport
<1>5. ASSUME UNCHANGED <<phase, done, checks, i>>, phase = "test",
             \/ at = "first" /\ at' = "loop"
             \/ at = "loop" /\ at' \in {"call", "use", "verdict"}
             \/ at = "call" /\ at' = "call" /\ stage' = stage + 1
             \/ at = "call" /\ at' \in {"ok", "error"}
             \/ at \in {"ok", "error", "use"} /\ at' \in {"verdict", "free"}
      PROVE  UNCHANGED <<phase, done, checks>> /\ GoesOn
  <2>1. 0 <= PlacesLeft' /\ PlacesLeft' < PlacesLeft
    BY <1>0, <1>5, PlacesFollow
  <2> QED
    BY <1>5, <2>1 DEF GoesOn
<1>6. CASE First \/ Attempt \/ Exhausted \/ TrackedCreate
  <2>1. /\ UNCHANGED <<phase, done, checks, i>> /\ phase = "test"
        /\ \/ at = "first" /\ at' = "loop"
           \/ at = "loop" /\ at' \in {"call", "use", "verdict"}
    BY <1>6 DEF First, Attempt, Exhausted, TrackedCreate, trackedUnchanged
  <2> QED
    BY <1>5, <2>1
<1>7. CASE Arm \/ Granted \/ Refused \/ Parsed
  <2>1. /\ UNCHANGED <<phase, done, checks, i>> /\ phase = "test" /\ at = "call"
        /\ (at' = "call" /\ stage' = stage + 1) \/ at' \in {"ok", "error"}
    BY <1>7 DEF Arm, Granted, Refused, Refusal, Parsed
  <2> QED
    BY <1>5, <2>1
<1>8. CASE Break \/ FixedEnds \/ TrackedParsed
  <2>1. /\ UNCHANGED <<phase, done, checks, i>> /\ phase = "test"
        /\ at \in {"ok", "error", "use"} /\ at' \in {"verdict", "free"}
    BY <1>8 DEF Break, FixedEnds, TrackedParsed, trackedUnchanged
  <2> QED
    BY <1>5, <2>1
<1>9. CASE Recover \/ Recreate
  <2>1. /\ UNCHANGED <<phase, done, checks>> /\ at' = "loop" /\ i' = i + 1
        /\ at = "error" /\ Looping
    BY <1>9 DEF Recover, Recreate
  <2> QED
    BY <1>b, <2>1 DEF GoesOn
<1>10. CASE RefusedResets
  <2>1. /\ UNCHANGED <<phase, done, checks>> /\ at' = "loop" /\ i' = i + 1
        /\ at = "call" /\ Call = "base"
    BY <1>10 DEF RefusedResets, Refusal
  <2>2. stage \in DOMAIN Test.stages /\ Test.stages[stage] = "base"
    BY <2>1 DEF Call
  <2>3. Test.kind = "loop"
    BY <1>0, <1>a, <2>1, <2>2, InTest DEF WellFormed
  <2> QED
    BY <1>b, <2>1, <2>3 DEF GoesOn, Looping
<1>11. CASE TrackedUse
  BY <1>11 DEF TrackedUse, trackedUnchanged, GoesOn, posVars
<1>12. CASE TrackedFree
  <2>1. PICK b \in held : held' = held \ {b}
    BY <1>12 DEF TrackedFree
  <2>2. held' \subseteq held /\ held' # held
    BY <2>1
  <2> QED
    BY <1>12, <2>2 DEF TrackedFree, trackedUnchanged, GoesOn, posVars
<1>13. CASE Update
  BY <1>13 DEF Update, LibraryUpdated, GoesOn
<1> QED
  BY <1>1, <1>2, <1>3, <1>4, <1>6, <1>7, <1>8, <1>9, <1>10, <1>11, <1>12, <1>13
  DEF Next, Application, LoopStep, TrackedStep

(* No test is executed twice in a round and no loop goes beyond its last   *)
(* attempt, whatever Luci does to the library in between.                  *)
THEOREM RoundsAdvance == Spec => RoundAdvances
<1> DEFINE Advances == phase # "make" =>
             \/ phase' = "make" /\ done = Len(checks)
             \/ /\ UNCHANGED checks
                /\ \/ phase' = "setup" /\ done' = done + 1 /\ done' <= Len(checks)
                   \/ /\ UNCHANGED done
                      /\ \/ <<phase, phase'>> \in {<<"setup", "test">>, <<"test", "teardown">>}
                         \/ UNCHANGED phase /\ GoesOn
<1>1. CountingInv /\ CountingInv' /\ [Next]_vars => [Advances]_vars
  <2> SUFFICES ASSUME CountingInv, CountingInv', [Next]_vars, vars' # vars, phase # "make"
               PROVE  Advances
    BY DEF Advances
  <2> QED
    BY StepAdvances
<1> HIDE DEF Advances
<1>2. Spec => [][Advances]_vars
  BY <1>1, CountingInvHolds, PTL DEF Spec
<1> QED
  BY <1>2 DEF Advances, RoundAdvances

===============================================================================
