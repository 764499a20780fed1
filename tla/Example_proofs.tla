---------------------------- MODULE Example_proofs ----------------------------
(***************************************************************************)
(* The buffers and the stream of the zlib test application (Example).      *)
(*                                                                         *)
(* The application has no loop but that over its tests, and what its state *)
(* has to be at any step follows from the steps the test has done so far:  *)
(* Done.  A stream is open if the last step that opens or closes one has   *)
(* opened it (StreamInv), and as long as every call was served by a        *)
(* release that works, compr holds what the last step that writes it has   *)
(* written, or what the tests before this one have left (CleanTest).       *)
(***************************************************************************)
EXTENDS Example, TLAPS

(* The steps this test has done.                                           *)
Done == 1 .. stage - 1
Did(step) == \E j \in Done : Test.steps[j] = step

(* Of the steps that open or close, the last one done has opened.          *)
Opened ==
  \E j \in Done : /\ Test.steps[j] = "open"
                  /\ \A k \in Done : k > j => Test.steps[k] \notin {"close", "gzclose"}

(* What is in compr when a test starts, if all before it have passed, and  *)
(* what is in it after the steps the test has done since.                  *)
Left == <<"zero", "hello", "hello", "hello", "hello",
          "large", "large", "damaged", "damaged", "dict">>
Content == IF Did("produce") THEN Test.makes ELSE IF Did("part") THEN "torn" ELSE Left[n]

(* An open stream is one this test has opened.                             *)
StreamInv == stream = (phase = "tests" /\ Opened)

(* Outside of a round no test is under way, within one each test before    *)
(* this one has failed at most once.                                       *)
PlaceInv == (phase # "tests" => stage = 1) /\ (phase = "tests" => failed < n)

(* The last output in compr is that of this test, or, at a consumer whose  *)
(* producer has just passed, that of the producer.                         *)
OwnerInv ==
  phase = "tests" =>
    /\ Did("produce") => compr.by = n
    /\ n \in {4, 6, 8, 10} /\ verdict # "FAIL" => compr.by = n - 1

(* A test of a round without faults: the room is whole except from the end *)
(* of test_flush() to that of test_sync(), the dictionary is known when it *)
(* is asked for, compr holds what belongs there, and what was decompressed *)
(* is what was wanted.                                                     *)
CleanTest ==
  /\ comprLen = IF Did("length") \/ n = 8 THEN "used" ELSE "whole"
  /\ (n = 9 /\ Did("dictionary")) \/ n = 10 => dictId
  /\ compr.is = Content
  /\ Did("consume") => uncompr = "hello"
CleanInv ==
  ~faulty => (phase \in {"tests", "report"} => failed = 0) /\ (phase = "tests" => CleanTest)

(* The inductive invariant.                                                *)
ExampleInv ==
  /\ TypeOK /\ PlaceInv /\ StreamInv /\ OwnerInv /\ CleanInv
  /\ FailsOnlyOnFaults /\ LostOnlyByFailure

(* A step of one of the ten tests, or the end of it.                       *)
Here == n \in DOMAIN Tests /\ stage \in 1 .. Len(Test.steps) + 1

-------------------------------------------------------------------------------
(* What the ten tests have in common.  A stream is closed before a test    *)
(* returns, what it leaves in compr is what the next one may find, a       *)
(* consumer wants what is there when it consumes, the length is taken by   *)
(* test_flush() alone and after its output, and nothing is produced while  *)
(* the length is a short one.                                              *)
LEMMA TestsFit ==
  ASSUME Here
  PROVE  /\ n \in 1 .. 10 /\ Len(Tests) = 10
         /\ Step = "return" => ~Opened
         /\ Step = "return" /\ n \in {1, 3, 5, 7, 9} => Did("produce")
         /\ Step = "return" /\ n < 10 => Content = Left[n + 1]
         /\ Step = "return" => (n = 7 <=> Did("length"))
         /\ Step = "return" /\ n = 9 => Did("dictionary")
         /\ Step = "consume" => Content = Test.wants
         /\ Step = "consume" => /\ Test.wants \in {"hello", "large", "damaged", "dict"}
                                /\ Test.wants = "dict" <=> n = 10
         /\ Step = "compare" => Did("consume")
         /\ Step = "garbage" => ~Did("consume")
         /\ Step = "produce" => n # 8 /\ ~Did("length")
         /\ Step \in {"part", "produce"} => n \in {1, 3, 5, 7, 9}
         /\ Step = "part" => ~Did("produce")
         /\ Test.of = IF n = 1 THEN 1 ELSE IF n \in {4, 6, 8, 10} THEN n - 1 ELSE 0
         /\ Step = "produce" => Test.makes \in Contents
         /\ stage = Len(Test.steps) + 1 <=> Step = "return"
<1>0. n \in 1 .. 10 /\ Len(Tests) = 10
  BY DEF Here, Tests
<1> USE DEF Step, Opened, Did, Done, Content, Left, Contents
<1>1. CASE n = 1
  <2>1. Test = test_compress
    BY <1>1 DEF Tests, Test
  <2>2. /\ Test.makes = "hello" /\ Test.wants = "hello" /\ Test.of = 1
        /\ Len(Test.steps) = 4
        /\ Test.steps[1] = "produce" /\ Test.steps[2] = "garbage"
        /\ Test.steps[3] = "consume" /\ Test.steps[4] = "compare"
    BY <2>1 DEF test_compress, Producer, Consumer
  <2>3. stage \in 1 .. 5 /\ DOMAIN Test.steps = 1 .. 4
    BY <2>1, <2>2 DEF Here, test_compress, Producer, Consumer
  <2> HIDE DEF Test
  <2> QED
    BY <1>0, <1>1, <2>2, <2>3
<1>2. CASE n = 2
  <2>1. Test = test_gzio
    BY <1>2 DEF Tests, Test
  <2>2. /\ Test.makes = "nothing" /\ Test.wants = "nothing" /\ Test.of = 0
        /\ Len(Test.steps) = 10
        /\ Test.steps[1] = "open" /\ Test.steps[2] = "call"
        /\ Test.steps[3] = "call" /\ Test.steps[4] = "gzclose"
        /\ Test.steps[5] = "open" /\ Test.steps[6] = "garbage"
        /\ Test.steps[7] = "call" /\ Test.steps[8] = "call"
        /\ Test.steps[9] = "call" /\ Test.steps[10] = "gzclose"
    BY <2>1 DEF test_gzio, Producer, Consumer
  <2>3. stage \in 1 .. 11 /\ DOMAIN Test.steps = 1 .. 10
    BY <2>1, <2>2 DEF Here, test_gzio, Producer, Consumer
  <2> HIDE DEF Test
  <2> QED
    BY <1>0, <1>2, <2>2, <2>3
<1>3. CASE n = 3
  <2>1. Test = test_deflate
    BY <1>3 DEF Tests, Test
  <2>2. /\ Test.makes = "hello" /\ Test.wants = "nothing" /\ Test.of = 0
        /\ Len(Test.steps) = 4
        /\ Test.steps[1] = "open" /\ Test.steps[2] = "part"
        /\ Test.steps[3] = "produce" /\ Test.steps[4] = "close"
    BY <2>1 DEF test_deflate, Producer, Consumer
  <2>3. stage \in 1 .. 5 /\ DOMAIN Test.steps = 1 .. 4
    BY <2>1, <2>2 DEF Here, test_deflate, Producer, Consumer
  <2> HIDE DEF Test
  <2> QED
    BY <1>0, <1>3, <2>2, <2>3
<1>4. CASE n = 4
  <2>1. Test = test_inflate
    BY <1>4 DEF Tests, Test
  <2>2. /\ Test.makes = "nothing" /\ Test.wants = "hello" /\ Test.of = 3
        /\ Len(Test.steps) = 5
        /\ Test.steps[1] = "garbage" /\ Test.steps[2] = "open"
        /\ Test.steps[3] = "consume" /\ Test.steps[4] = "close"
        /\ Test.steps[5] = "compare"
    BY <2>1 DEF test_inflate, Producer, Consumer
  <2>3. stage \in 1 .. 6 /\ DOMAIN Test.steps = 1 .. 5
    BY <2>1, <2>2 DEF Here, test_inflate, Producer, Consumer
  <2> HIDE DEF Test
  <2> QED
    BY <1>0, <1>4, <2>2, <2>3
<1>5. CASE n = 5
  <2>1. Test = test_large_deflate
    BY <1>5 DEF Tests, Test
  <2>2. /\ Test.makes = "large" /\ Test.wants = "nothing" /\ Test.of = 0
        /\ Len(Test.steps) = 6
        /\ Test.steps[1] = "open" /\ Test.steps[2] = "part"
        /\ Test.steps[3] = "part" /\ Test.steps[4] = "part"
        /\ Test.steps[5] = "produce" /\ Test.steps[6] = "close"
    BY <2>1 DEF test_large_deflate, Producer, Consumer
  <2>3. stage \in 1 .. 7 /\ DOMAIN Test.steps = 1 .. 6
    BY <2>1, <2>2 DEF Here, test_large_deflate, Producer, Consumer
  <2> HIDE DEF Test
  <2> QED
    BY <1>0, <1>5, <2>2, <2>3
<1>6. CASE n = 6
  <2>1. Test = test_large_inflate
    BY <1>6 DEF Tests, Test
  <2>2. /\ Test.makes = "nothing" /\ Test.wants = "large" /\ Test.of = 5
        /\ Len(Test.steps) = 5
        /\ Test.steps[1] = "garbage" /\ Test.steps[2] = "open"
        /\ Test.steps[3] = "consume" /\ Test.steps[4] = "close"
        /\ Test.steps[5] = "compare"
    BY <2>1 DEF test_large_inflate, Producer, Consumer
  <2>3. stage \in 1 .. 6 /\ DOMAIN Test.steps = 1 .. 5
    BY <2>1, <2>2 DEF Here, test_large_inflate, Producer, Consumer
  <2> HIDE DEF Test
  <2> QED
    BY <1>0, <1>6, <2>2, <2>3
<1>7. CASE n = 7
  <2>1. Test = test_flush
    BY <1>7 DEF Tests, Test
  <2>2. /\ Test.makes = "damaged" /\ Test.wants = "nothing" /\ Test.of = 0
        /\ Len(Test.steps) = 5
        /\ Test.steps[1] = "open" /\ Test.steps[2] = "part"
        /\ Test.steps[3] = "produce" /\ Test.steps[4] = "close"
        /\ Test.steps[5] = "length"
    BY <2>1 DEF test_flush, Producer, Consumer
  <2>3. stage \in 1 .. 6 /\ DOMAIN Test.steps = 1 .. 5
    BY <2>1, <2>2 DEF Here, test_flush, Producer, Consumer
  <2> HIDE DEF Test
  <2> QED
    BY <1>0, <1>7, <2>2, <2>3
<1>8. CASE n = 8
  <2>1. Test = test_sync
    BY <1>8 DEF Tests, Test
  <2>2. /\ Test.makes = "nothing" /\ Test.wants = "damaged" /\ Test.of = 7
        /\ Len(Test.steps) = 6
        /\ Test.steps[1] = "garbage" /\ Test.steps[2] = "open"
        /\ Test.steps[3] = "call" /\ Test.steps[4] = "call"
        /\ Test.steps[5] = "consume" /\ Test.steps[6] = "close"
    BY <2>1 DEF test_sync, Producer, Consumer
  <2>3. stage \in 1 .. 7 /\ DOMAIN Test.steps = 1 .. 6
    BY <2>1, <2>2 DEF Here, test_sync, Producer, Consumer
  <2> HIDE DEF Test
  <2> QED
    BY <1>0, <1>8, <2>2, <2>3
<1>9. CASE n = 9
  <2>1. Test = test_dict_deflate
    BY <1>9 DEF Tests, Test
  <2>2. /\ Test.makes = "dict" /\ Test.wants = "nothing" /\ Test.of = 0
        /\ Len(Test.steps) = 4
        /\ Test.steps[1] = "open" /\ Test.steps[2] = "dictionary"
        /\ Test.steps[3] = "produce" /\ Test.steps[4] = "close"
    BY <2>1 DEF test_dict_deflate, Producer, Consumer
  <2>3. stage \in 1 .. 5 /\ DOMAIN Test.steps = 1 .. 4
    BY <2>1, <2>2 DEF Here, test_dict_deflate, Producer, Consumer
  <2> HIDE DEF Test
  <2> QED
    BY <1>0, <1>9, <2>2, <2>3
<1>10. CASE n = 10
  <2>1. Test = test_dict_inflate
    BY <1>10 DEF Tests, Test
  <2>2. /\ Test.makes = "nothing" /\ Test.wants = "dict" /\ Test.of = 9
        /\ Len(Test.steps) = 5
        /\ Test.steps[1] = "garbage" /\ Test.steps[2] = "open"
        /\ Test.steps[3] = "consume" /\ Test.steps[4] = "close"
        /\ Test.steps[5] = "compare"
    BY <2>1 DEF test_dict_inflate, Producer, Consumer
  <2>3. stage \in 1 .. 6 /\ DOMAIN Test.steps = 1 .. 5
    BY <2>1, <2>2 DEF Here, test_dict_inflate, Producer, Consumer
  <2> HIDE DEF Test
  <2> QED
    BY <1>0, <1>10, <2>2, <2>3
<1> QED
  BY <1>0, <1>1, <1>2, <1>3, <1>4, <1>5, <1>6, <1>7, <1>8, <1>9, <1>10

(* A step adds itself to those the test has done.                          *)
LEMMA GoingOn ==
  ASSUME Here, Step # "return", stage' = stage + 1, n' = n
  PROVE  /\ Here' /\ Test' = Test
         /\ Opened' = (Step = "open" \/ (Opened /\ Step \notin {"close", "gzclose"}))
         /\ \A step : Did(step)' = (Did(step) \/ Step = step)
<1>1. Test' = Test
  BY DEF Test, Tests
<1>2. Len(Test.steps) \in Nat /\ stage \in 1 .. Len(Test.steps)
  BY TestsFit DEF Here
<1>3. Here'
  BY <1>1, <1>2 DEF Here, Tests
<1>4. Step = Test.steps[stage]
  BY DEF Step
<1>5. stage \in Nat \ {0} /\ Done' = Done \union {stage} /\ Done \subseteq Nat /\ stage \notin Done
  BY <1>2 DEF Done
<1>6. ASSUME NEW step PROVE Did(step)' = (Did(step) \/ Step = step)
  BY <1>1, <1>4, <1>5 DEF Did
<1>7. Opened' = (Step = "open" \/ (Opened /\ Step \notin {"close", "gzclose"}))
  <2>1. ASSUME Opened' PROVE Step = "open" \/ (Opened /\ Step \notin {"close", "gzclose"})
    BY <1>1, <1>2, <1>4, <2>1 DEF Opened, Done
  <2>2. ASSUME Step = "open" PROVE Opened'
    <3>1. stage \in Done' /\ (\A k \in Done' : ~(k > stage)) /\ Test'.steps[stage] = "open"
      BY <1>1, <1>2, <1>4, <2>2 DEF Done
    <3> QED
      BY <3>1 DEF Opened
  <2>3. ASSUME Opened, Step \notin {"close", "gzclose"} PROVE Opened'
    BY <1>1, <1>2, <1>4, <2>3 DEF Opened, Done
  <2>4. Opened \in BOOLEAN /\ Opened' \in BOOLEAN
    BY DEF Opened
  <2> QED
    BY <2>1, <2>2, <2>3, <2>4
<1> QED
  BY <1>1, <1>3, <1>6, <1>7

(* A test starts with no step done and no stream opened.                   *)
LEMMA Starting ==
  ASSUME n' \in 1 .. 10, stage' = 1
  PROVE  Here' /\ ~Opened' /\ \A step : ~Did(step)'
<1>1. Done' = {}
  BY DEF Done
<1>2. Here'
  <2>1. n' \in DOMAIN Tests /\ Tests' = Tests
    BY DEF Tests
  <2>2. Len(Test.steps)' \in Nat
    BY <2>1 DEF Test, Tests, Producer, Consumer, test_compress, test_gzio, test_deflate,
       test_inflate, test_large_deflate, test_large_inflate, test_flush, test_sync,
       test_dict_deflate, test_dict_inflate
  <2> QED
    BY <2>1, <2>2 DEF Here
<1> QED
  BY <1>1, <1>2 DEF Opened, Did

(* What compr may hold.                                                    *)
Contained == [is : Contents, by : 0 .. 10]

(* A step within a test, whichever it is, keeps the invariant: it opens or *)
(* closes the stream, writes compr as the test it belongs to, and without  *)
(* a fault it does so as it should.                                        *)
LEMMA WithinTest ==
  ASSUME ExampleInv, phase = "tests", Step # "return", GoOn,
         works' \in BOOLEAN, faulty' \in BOOLEAN, stream' \in BOOLEAN, dictId' \in BOOLEAN,
         faulty => faulty',
         compr' \in Contained, uncompr' \in {"zero", "garbage", "hello", "other"},
         comprLen' \in {"whole", "used"},
         stream' = (Step = "open" \/ (stream /\ Step \notin {"close", "gzclose"})),
         IF Step \in {"part", "produce"} THEN compr'.by = n ELSE compr' = compr,
         Step = "dictionary" => dictId', dictId => dictId',
         comprLen' = IF Step = "length" THEN "used" ELSE comprLen,
         ~faulty' => /\ Step = "part" => compr'.is = "torn"
                     /\ Step = "produce" => compr'.is = Test.makes
                     /\ IF Step = "consume" THEN uncompr' = "hello"
                        ELSE Step = "garbage" \/ uncompr' = uncompr
  PROVE  ExampleInv'
<1>1. Here /\ n \in 1 .. 10 /\ n' = n /\ stage' = stage + 1 /\ phase' = phase
      /\ UNCHANGED <<failed, verdict, lost>>
  BY TestsFit DEF ExampleInv, TypeOK, Here, GoOn, roundVars
<1>2. /\ Here' /\ Test' = Test
      /\ Opened' = (Step = "open" \/ (Opened /\ Step \notin {"close", "gzclose"}))
      /\ \A step : Did(step)' = (Did(step) \/ Step = step)
  BY <1>1, GoingOn
<1>3. TypeOK'
  BY <1>1, <1>2 DEF ExampleInv, TypeOK, Here, Contained, Tests
<1>4. PlaceInv' /\ StreamInv' /\ FailsOnlyOnFaults' /\ LostOnlyByFailure'
  BY <1>1, <1>2 DEF ExampleInv, PlaceInv, StreamInv, FailsOnlyOnFaults, LostOnlyByFailure
<1>5. OwnerInv'
  <2>1. Did("produce")' => compr'.by = n
    BY <1>1, <1>2 DEF ExampleInv, OwnerInv
  <2>2. n \in {4, 6, 8, 10} /\ verdict # "FAIL" => compr'.by = n - 1
    BY <1>1, TestsFit DEF ExampleInv, OwnerInv
  <2> QED
    BY <1>1, <2>1, <2>2 DEF OwnerInv
<1>6. CleanInv'
  <2> SUFFICES ASSUME ~faulty' PROVE CleanTest' /\ failed' = 0
    BY <1>1 DEF CleanInv
  <2>1. ~faulty /\ CleanTest /\ failed = 0
    BY <1>1 DEF ExampleInv, CleanInv
  <2>2. Content' = IF Step = "produce" THEN Test.makes
                   ELSE IF Step = "part" THEN "torn" ELSE Content
    BY <1>1, <1>2, TestsFit DEF Content, Left
  <2>3. compr'.is = Content'
    BY <2>1, <2>2 DEF CleanTest
  <2>4. Did("consume")' => uncompr' = "hello"
    BY <1>1, <1>2, <2>1, TestsFit DEF CleanTest
  <2> QED
    BY <1>1, <1>2, <2>1, <2>3, <2>4 DEF CleanTest
<1> QED
  BY <1>3, <1>4, <1>5, <1>6 DEF ExampleInv

(* The end of a test keeps the invariant, if it fails on a fault only.     *)
LEMMA EndOfTest ==
  ASSUME ExampleInv, phase = "tests", NEW result \in {"PASS", "FAIL"}, Return(result),
         works' \in BOOLEAN, faulty' \in BOOLEAN, faulty => faulty', compr' \in Contained,
         IF result = "PASS" THEN Step = "return" /\ UNCHANGED compr ELSE faulty'
  PROVE  ExampleInv'
<1>1. Here /\ n \in 1 .. 10 /\ Len(Tests) = 10
  BY TestsFit DEF ExampleInv, TypeOK, Here
<1>2. /\ stage' = 1 /\ stream' = FALSE /\ verdict' = result /\ UNCHANGED <<uncompr, dictId>>
      /\ failed' = failed + IF result = "FAIL" THEN 1 ELSE 0
      /\ comprLen' = IF n = 8 THEN "whole" ELSE comprLen
      /\ IF n = 10 THEN n' = 1 /\ phase' = "report" ELSE n' = n + 1 /\ phase' = phase
  BY <1>1 DEF Return, LengthAfter
<1>3. n' \in 1 .. 10 /\ failed < n /\ failed \in 0 .. 10
  BY <1>1, <1>2 DEF ExampleInv, PlaceInv, TypeOK
<1>4. Here' /\ ~Opened' /\ \A step : ~Did(step)'
  BY <1>2, <1>3, Starting
<1>5. lost' \subseteq {"FAIL"}
  BY <1>1, TestsFit DEF ExampleInv, LostOnlyByFailure, StreamInv, Return
<1>6. TypeOK'
  <2>1. Len(Tests)' = 10 /\ failed' \in 0 .. 10 /\ phase' \in {"tests", "report"}
    BY <1>1, <1>2, <1>3 DEF Tests
  <2>2. comprLen' \in {"whole", "used"} /\ stream' \in BOOLEAN /\ dictId' \in BOOLEAN
        /\ uncompr' \in {"zero", "garbage", "hello", "other"}
    BY <1>2 DEF ExampleInv, TypeOK
  <2> QED
    BY <1>2, <1>4, <1>5, <2>1, <2>2 DEF TypeOK, Here, Contained
<1>7. PlaceInv' /\ StreamInv' /\ FailsOnlyOnFaults' /\ LostOnlyByFailure'
  <2>1. PlaceInv'
    BY <1>1, <1>2, <1>3 DEF PlaceInv
  <2>2. StreamInv'
    BY <1>2, <1>4 DEF StreamInv
  <2>3. FailsOnlyOnFaults'
    BY <1>2, <1>3 DEF ExampleInv, FailsOnlyOnFaults
  <2> QED
    BY <1>5, <2>1, <2>2, <2>3 DEF LostOnlyByFailure
<1>8. OwnerInv'
  BY <1>1, <1>2, <1>3, <1>4, TestsFit DEF ExampleInv, OwnerInv
<1>9. CleanInv'
  <2> SUFFICES ASSUME ~faulty' PROVE failed' = 0 /\ (phase' = "tests" => CleanTest')
    BY <1>2 DEF CleanInv
  <2>1. ~faulty /\ CleanTest /\ failed = 0 /\ result = "PASS" /\ Step = "return"
    BY DEF ExampleInv, CleanInv
  <2>2. ASSUME phase' = "tests" PROVE n < 10 /\ n' = n + 1 /\ compr'.is = Content'
    <3>1. n < 10 /\ n' = n + 1
      BY <1>1, <1>2, <2>2
    <3>2. Content' = Left[n + 1]
      BY <1>4, <3>1 DEF Content, Left
    <3> QED
      BY <1>1, <2>1, <3>1, <3>2, TestsFit DEF CleanTest
  <2>3. ASSUME phase' = "tests" PROVE CleanTest'
    BY <1>1, <1>2, <1>4, <2>1, <2>2, <2>3, TestsFit DEF CleanTest
  <2> QED
    BY <1>2, <1>3, <2>1, <2>3
<1> QED
  BY <1>6, <1>7, <1>8, <1>9 DEF ExampleInv

-------------------------------------------------------------------------------
(* Every step keeps the invariant.                                         *)
LEMMA StepExampleInv == ExampleInv /\ [Next]_vars => ExampleInv'
<1> SUFFICES ASSUME ExampleInv, [Next]_vars PROVE ExampleInv'
  OBVIOUS
<1> USE DEF At, Served
<1>0. /\ Here /\ n \in 1 .. 10 /\ TypeOK /\ compr \in Contained /\ compr.by \in 0 .. 10
      /\ works \in BOOLEAN /\ faulty \in BOOLEAN
  BY TestsFit DEF ExampleInv, TypeOK, Here, Contained
<1>1. CASE Allocate
  <2>1. Here' /\ ~Opened' /\ (\A step : ~Did(step)') /\ n' = 1 /\ stage' = 1
    BY <1>1, Starting DEF Allocate
  <2>2. Content' = "zero"
    BY <2>1 DEF Content, Left
  <2>3. TypeOK'
    <3>1. Len(Tests)' = 10 /\ compr' \in [is : Contents, by : 0 .. Len(Tests)']
      BY <1>0, <1>1, TestsFit DEF Allocate, Contents, Tests
    <3>2. /\ dictId' \in BOOLEAN /\ stream' \in BOOLEAN /\ works' \in BOOLEAN
          /\ lost' \subseteq {"PASS", "FAIL"}
      BY <1>0, <1>1 DEF Allocate, TypeOK
    <3> QED
      BY <1>1, <2>1, <3>1, <3>2 DEF Allocate, TypeOK, Here
  <2>4. ~stream'
    BY <1>1 DEF Allocate, ExampleInv, StreamInv
  <2> QED
    BY <1>1, <2>1, <2>2, <2>3, <2>4
       DEF Allocate, ExampleInv, PlaceInv, StreamInv, OwnerInv, CleanInv, CleanTest,
           FailsOnlyOnFaults, LostOnlyByFailure
<1>2. CASE OutOfMemory \/ Report \/ Update \/ UNCHANGED vars
  <2>1. /\ UNCHANGED <<n, stage, bufferVars, stream, faulty, roundVars, lost>>
        /\ works' \in BOOLEAN
        /\ \/ phase' = phase
           \/ phase = "allocate" /\ phase' = "exit"
           \/ phase = "report" /\ phase' = "allocate"
    BY <1>0, <1>2 DEF OutOfMemory, Report, Update, vars
  <2>2. Test' = Test /\ Done' = Done
    BY <2>1 DEF Test, Tests, Done
  <2>3. Opened' = Opened /\ (\A step : Did(step)' = Did(step)) /\ Content' = Content
    BY <2>1, <2>2 DEF Opened, Did, Content, Left
  <2>4. TypeOK'
    BY <1>0, <2>1, <2>2 DEF TypeOK, bufferVars, roundVars, Tests
  <2> QED
    BY <2>1, <2>3, <2>4
       DEF ExampleInv, PlaceInv, StreamInv, OwnerInv, CleanInv, CleanTest, bufferVars, roundVars,
           FailsOnlyOnFaults, LostOnlyByFailure
<1>3. CASE Open
  BY <1>0, <1>3, WithinTest DEF Open, bufferVars, TypeOK
<1>4. CASE Close
  BY <1>0, <1>4, WithinTest DEF Close, bufferVars, TypeOK
<1>5. CASE Call
  BY <1>0, <1>5, WithinTest DEF Call, bufferVars, TypeOK
<1>6. CASE Garbage
  BY <1>0, <1>6, WithinTest DEF Garbage, TypeOK
<1>7. CASE Part
  <2>1. compr' \in Contained /\ compr'.by = n /\ compr'.is = "torn"
    BY <1>0, <1>7 DEF Part, Torn, Contained, Contents
  <2> QED
    BY <1>0, <1>7, <2>1, WithinTest DEF Part, TypeOK
<1>8. CASE Produce
  <2>1. compr' \in Contained /\ compr'.by = n
    BY <1>0, <1>8, TestsFit DEF Produce, Torn, Contained, Contents
  <2>2. CASE comprLen = "whole"
    <3>1. works => compr'.is = Test.makes
      BY <1>8, <2>2 DEF Produce
    <3> QED
      BY <1>0, <1>8, <2>1, <2>2, <3>1, WithinTest DEF Produce, TypeOK
  <2>3. CASE comprLen # "whole"
    <3>1. faulty
      BY <1>8, <2>3, TestsFit, <1>0 DEF Produce, ExampleInv, CleanInv, CleanTest
    <3> QED
      BY <1>0, <1>8, <2>1, <2>3, <3>1, EndOfTest DEF Produce
  <2> QED
    BY <2>2, <2>3
<1>9. CASE Dictionary
  BY <1>0, <1>9, WithinTest DEF Dictionary, TypeOK
<1>10. CASE Length
  BY <1>0, <1>10, WithinTest DEF Length, TypeOK
<1>11. ASSUME phase = "tests", Step = "consume"
       PROVE  Yield \subseteq {"hello", "other", "error"} /\ (works /\ ~faulty => Yield = {"hello"})
  <2>1. works /\ ~faulty => ~(~works \/ compr.is = "torn") /\ ~(compr.is = "dict" /\ ~dictId)
                            /\ compr.is = Test.wants
    BY <1>0, <1>11, TestsFit DEF ExampleInv, CleanInv, CleanTest
  <2> QED
    BY <2>1 DEF Yield
<1>12. CASE Consume
  <2>1. uncompr' \in {"hello", "other"} /\ (works /\ ~faulty => uncompr' = "hello")
    BY <1>11, <1>12 DEF Consume
  <2> QED
    BY <1>0, <1>12, <2>1, WithinTest DEF Consume, TypeOK
<1>13. CASE ConsumeFails
  <2>1. faulty'
    BY <1>0, <1>11, <1>13 DEF ConsumeFails
  <2> QED
    BY <1>0, <1>13, <2>1, EndOfTest DEF ConsumeFails
<1>14. CASE Compare
  <2>1. CASE uncompr = "hello"
    BY <1>0, <1>14, <2>1, WithinTest DEF Compare, TypeOK, bufferVars
  <2>2. CASE uncompr # "hello"
    <3>1. faulty
      BY <1>0, <1>14, <2>2, TestsFit DEF Compare, ExampleInv, CleanInv, CleanTest
    <3> QED
      BY <1>0, <1>14, <2>2, <3>1, EndOfTest DEF Compare
  <2> QED
    BY <2>1, <2>2
<1>15. CASE CallFails
  <2>1. compr' \in Contained
    BY <1>0, <1>15 DEF CallFails, Torn, Contained, Contents
  <2> QED
    BY <1>0, <1>15, <2>1, EndOfTest DEF CallFails
<1>16. CASE Succeed
  BY <1>0, <1>16, EndOfTest DEF Succeed
<1> QED
  BY <1>1, <1>2, <1>3, <1>4, <1>5, <1>6, <1>7, <1>8, <1>9, <1>10, <1>12, <1>13, <1>14, <1>15,
     <1>16 DEF Next, Application

(* The invariant holds at the start.                                       *)
LEMMA InitExampleInv == Init => ExampleInv
<1> SUFFICES ASSUME Init PROVE ExampleInv
  OBVIOUS
<1>1. n = 1 /\ Len(Tests) = 10 /\ n \in DOMAIN Tests /\ stage \in 1 .. Len(Test.steps) + 1
  BY DEF Init, Tests, Test, test_compress, Producer
<1>2. TypeOK
  <2>1. compr \in [is : Contents, by : 0 .. Len(Tests)] /\ failed \in 0 .. Len(Tests)
    BY <1>1 DEF Init, Contents
  <2> QED
    BY <1>1, <2>1 DEF Init, TypeOK
<1>3. phase = "allocate" /\ failed = 0 /\ stage = 1 /\ stream = FALSE /\ lost = {}
  BY DEF Init
<1>4. StreamInv
  BY <1>3 DEF StreamInv
<1>5. PlaceInv /\ OwnerInv /\ CleanInv
  BY <1>3 DEF PlaceInv, OwnerInv, CleanInv
<1>6. FailsOnlyOnFaults /\ LostOnlyByFailure
  BY <1>3 DEF FailsOnlyOnFaults, LostOnlyByFailure
<1> QED
  BY <1>2, <1>4, <1>5, <1>6 DEF ExampleInv

(* The inductive invariant of the test application.                        *)
THEOREM ExampleInvHolds == Spec => []ExampleInv
  BY InitExampleInv, StepExampleInv, PTL DEF Spec

(* Every variable has its type, and the step is one of the test's.         *)
THEOREM TypeOKHolds == Spec => []TypeOK
  BY ExampleInvHolds, PTL DEF ExampleInv

(* No test fails in a round all of whose calls were served by releases     *)
(* that work, whatever earlier rounds have left in the static variables.   *)
THEOREM FailsOnlyOnFaultsHolds == Spec => []FailsOnlyOnFaults
  BY ExampleInvHolds, PTL DEF ExampleInv

(* A stream is lost by tests that fail only: one that returns 0 has closed *)
(* each stream it has opened.                                              *)
THEOREM LostOnlyByFailureHolds == Spec => []LostOnlyByFailure
  BY ExampleInvHolds, PTL DEF ExampleInv

(* A test passes on the output of its own counterpart, of the same round,  *)
(* unless the counterpart has failed.                                      *)
THEOREM StaleOnlyAfterFailureHolds == Spec => []StaleOnlyAfterFailure
<1>1. ExampleInv => StaleOnlyAfterFailure
  <2> SUFFICES ASSUME ExampleInv, phase = "tests", Step = "return", Test.of # 0, verdict # "FAIL"
               PROVE  compr.by = Test.of
    BY DEF StaleOnlyAfterFailure, At
  <2>1. Here
    BY DEF ExampleInv, TypeOK, Here
  <2> QED
    BY <2>1, TestsFit DEF ExampleInv, OwnerInv
<1> QED
  BY <1>1, ExampleInvHolds, PTL

===============================================================================
