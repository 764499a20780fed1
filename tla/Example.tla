------------------------------- MODULE Example -------------------------------
(***************************************************************************)
(* The test application for zlib (example.c).  Each round allocates two    *)
(* buffers and runs ten tests, one after the other, which communicate      *)
(* through the buffers: what test_deflate() leaves in compr is what        *)
(* test_inflate() reads.  A check that fails returns 1 at once: the stream *)
(* stays open, and the next test is run with the buffers as they are.      *)
(*                                                                         *)
(* zlib is external and replaced by Luci at any moment.  A release that    *)
(* works does what is asked of it with the input there is; one that does   *)
(* not may return any error or write anything.                             *)
(***************************************************************************)
EXTENDS Naturals, Sequences, SequencesExt

VARIABLES
  phase,      \* "allocate", "tests", "report" or "exit"
  n, stage,   \* the test of this round, the step it is at
  compr,      \* what is in the buffer, and the test that wrote it
  uncompr,    \* what the last decompression has left: "hello" or something else
  comprLen,   \* "whole" for the size of the buffer, or "used" by test_flush()
  dictId,     \* set by test_dict_deflate(), in this round or an earlier one
  stream,     \* a z_stream or gzFile of the test is open
  failed,
  works,      \* the release in use does
  verdict,    \* history: of the test before this one
  faulty,     \* history: a release that does not work has served this round
  lost        \* history: the verdicts of tests that have lost an open stream

bufferVars == <<compr, uncompr, comprLen, dictId>>
roundVars  == <<failed, verdict>>
vars == <<phase, n, stage, bufferVars, stream, works, faulty, roundVars, lost>>

-------------------------------------------------------------------------------
(* The tests.  The steps are                                               *)
(*   open, close    of a stream or file, checked                           *)
(*   gzclose        of a file, unchecked                                   *)
(*   call           of the library, checked                                *)
(*   garbage        strcpy() of something else to uncompr                  *)
(*   part, produce  some, or the last, of the output is written to compr   *)
(*   dictionary     is set, and its identifier kept                        *)
(*   length         comprLen becomes the length of the output              *)
(*   consume        compr, or the file, is decompressed to uncompr         *)
(*   compare        uncompr, or its length, with what it should be         *)

Producer(makes, steps) == [makes |-> makes, wants |-> "nothing", of |-> 0, steps |-> steps]
Consumer(wants, of, steps) == [makes |-> "nothing", wants |-> wants, of |-> of, steps |-> steps]

test_compress ==
  [Producer("hello", <<"produce", "garbage", "consume", "compare">>)
     EXCEPT !.wants = "hello", !.of = 1]

(* The file is written and read, which has nothing to do with compr.       *)
test_gzio == Producer("nothing",
  <<"open", "call", "call", "gzclose",
    "open", "garbage", "call", "call", "call", "gzclose">>)

test_deflate       == Producer("hello", <<"open", "part", "produce", "close">>)
test_inflate       == Consumer("hello", 3, <<"garbage", "open", "consume", "close", "compare">>)
test_large_deflate == Producer("large", <<"open", "part", "part", "part", "produce", "close">>)
test_large_inflate == Consumer("large", 5, <<"garbage", "open", "consume", "close", "compare">>)
test_flush         == Producer("damaged", <<"open", "part", "produce", "close", "length">>)

(* Mutant: the stream is not closed.                                       *)
test_sync_open     == Consumer("damaged", 7, <<"garbage", "open", "call", "call", "consume">>)

(* What comes out of it is printed, and not compared.                      *)
test_sync          == Consumer("damaged", 7, <<"garbage", "open", "call", "call", "consume", "close">>)

test_dict_deflate  == Producer("dict", <<"open", "dictionary", "produce", "close">>)
test_dict_inflate  == Consumer("dict", 9, <<"garbage", "open", "consume", "close", "compare">>)

(* Mutant: test_inflate() is called before test_deflate().                 *)
TestsSwapped == <<test_compress, test_gzio, test_inflate, test_deflate, test_large_deflate,
                  test_large_inflate, test_flush, test_sync, test_dict_deflate, test_dict_inflate>>

Tests == <<test_compress, test_gzio, test_deflate, test_inflate, test_large_deflate,
           test_large_inflate, test_flush, test_sync, test_dict_deflate, test_dict_inflate>>

Test == Tests[n]
Step == IF stage \in DOMAIN Test.steps THEN Test.steps[stage] ELSE "return"

Init ==
  /\ phase = "allocate"
  /\ n = 1 /\ stage = 1
  /\ compr = [is |-> "zero", by |-> 0] /\ uncompr = "zero"
  /\ comprLen = "whole" /\ dictId = FALSE
  /\ stream = FALSE
  /\ failed = 0 /\ verdict = "none"
  /\ works \in BOOLEAN /\ faulty = FALSE
  /\ lost = {}

-------------------------------------------------------------------------------
(* main()                                                                  *)

Allocate ==
  /\ phase = "allocate"
  /\ phase' = "tests" /\ n' = 1 /\ stage' = 1
  /\ compr' = [is |-> "zero", by |-> 0] /\ uncompr' = "zero"
  /\ comprLen' = "whole"
  /\ failed' = 0 /\ verdict' = "none"
  /\ faulty' = FALSE
  /\ UNCHANGED <<dictId, stream, works, lost>>

OutOfMemory ==
  /\ phase = "allocate"
  /\ phase' = "exit"
  /\ UNCHANGED <<n, stage, bufferVars, stream, works, faulty, roundVars, lost>>

(* Mutant: the length test_flush() has stored is kept.                     *)
KeepLength == comprLen

(* comprLen = uncomprLen after test_sync().                                *)
LengthAfter == IF n = 8 THEN "whole" ELSE comprLen

(* A test returns 0 or 1, and the next one is called.                      *)
Return(result) ==
  /\ verdict' = result
  /\ failed' = failed + IF result = "FAIL" THEN 1 ELSE 0
  /\ lost' = IF stream THEN lost \union {result} ELSE lost
  /\ stream' = FALSE
  /\ stage' = 1
  /\ comprLen' = LengthAfter
  /\ IF n = Len(Tests) THEN n' = 1 /\ phase' = "report" ELSE n' = n + 1 /\ UNCHANGED phase
  /\ UNCHANGED <<uncompr, dictId>>

(* The buffers are freed, the number of failed tests is printed.           *)
Report ==
  /\ phase = "report"
  /\ phase' = "allocate"
  /\ UNCHANGED <<n, stage, bufferVars, stream, works, faulty, roundVars, lost>>

-------------------------------------------------------------------------------
(* Steps of a test.                                                        *)

At(steps) == phase = "tests" /\ Step \in steps

GoOn == stage' = stage + 1 /\ UNCHANGED <<phase, n, roundVars, lost>>

(* The library is called; whether it works is noted.                       *)
Served == faulty' = (faulty \/ ~works) /\ UNCHANGED works

Open ==
  /\ At({"open"})
  /\ Served /\ GoOn
  /\ stream' = TRUE
  /\ UNCHANGED bufferVars

Close ==
  /\ At({"close", "gzclose"})
  /\ Served /\ GoOn
  /\ stream' = FALSE
  /\ UNCHANGED bufferVars

Call ==
  /\ At({"call"})
  /\ Served /\ GoOn
  /\ UNCHANGED <<bufferVars, stream>>

Garbage ==
  /\ At({"garbage"})
  /\ GoOn
  /\ uncompr' = "garbage"
  /\ UNCHANGED <<compr, comprLen, dictId, stream, works, faulty>>

Torn == [is |-> "torn", by |-> n]

Part ==
  /\ At({"part"})
  /\ Served /\ GoOn
  /\ compr' = Torn
  /\ UNCHANGED <<uncompr, comprLen, dictId, stream>>

(* The output is complete if there is room for it, or else the test fails. *)
Produce ==
  /\ At({"produce"})
  /\ Served
  /\ compr' \in (IF comprLen = "whole" THEN {[is |-> Test.makes, by |-> n]} ELSE {})
                 \union (IF works /\ comprLen = "whole" THEN {} ELSE {Torn})
  /\ IF comprLen = "whole"
     THEN GoOn /\ UNCHANGED <<uncompr, comprLen, dictId, stream>>
     ELSE Return("FAIL")

Dictionary ==
  /\ At({"dictionary"})
  /\ Served /\ GoOn
  /\ dictId' = TRUE
  /\ UNCHANGED <<compr, uncompr, comprLen, stream>>

Length ==
  /\ At({"length"})
  /\ GoOn
  /\ comprLen' = "used"
  /\ UNCHANGED <<compr, uncompr, dictId, stream, works, faulty>>

(* What becomes of the input: an error, or data that are right or wrong.   *)
(* A stream without a dictionary is fine for test_dict_inflate() as well,  *)
(* and the flushes in the large one may be what test_sync() looks for.     *)
Yield ==
  CASE ~works \/ compr.is = "torn"                 -> {"hello", "other", "error"}
    [] compr.is = "dict" /\ ~dictId                -> {"error"}
    [] compr.is = Test.wants                       -> {"hello"}
    [] compr.is = "hello" /\ Test.wants = "dict"   -> {"hello"}
    [] compr.is = "large" /\ Test.wants = "damaged" -> {"other", "error"}
    [] compr.is = "large" /\ Test.wants = "hello"  -> {"other"}
    [] OTHER                                       -> {"other", "error"}

Consume ==
  /\ At({"consume"})
  /\ Served /\ GoOn
  /\ uncompr' \in Yield \ {"error"}
  /\ UNCHANGED <<compr, comprLen, dictId, stream>>

ConsumeFails ==
  /\ At({"consume"})
  /\ "error" \in Yield
  /\ Served
  /\ Return("FAIL")
  /\ UNCHANGED compr

Compare ==
  /\ At({"compare"})
  /\ IF uncompr = "hello"
     THEN GoOn /\ UNCHANGED <<bufferVars, stream>>
     ELSE Return("FAIL") /\ UNCHANGED compr
  /\ UNCHANGED <<works, faulty>>

(* CHECK_ERR(), or another check of a result, after some output or none.   *)
CallFails ==
  /\ At({"open", "call", "part", "produce", "dictionary", "close"})
  /\ ~works
  /\ Served
  /\ compr' \in {compr} \union (IF Step \in {"part", "produce"} THEN {Torn} ELSE {})
  /\ Return("FAIL")

Succeed ==
  /\ At({"return"})
  /\ Return("PASS")
  /\ UNCHANGED <<compr, works, faulty>>

Application ==
  \/ Allocate \/ OutOfMemory \/ Report
  \/ Open \/ Close \/ Call \/ Garbage \/ Part \/ Produce \/ Dictionary
  \/ Length \/ Consume \/ ConsumeFails \/ Compare \/ CallFails \/ Succeed

(* Luci replaces the library.                                              *)
Update ==
  /\ phase # "exit"
  /\ works' = ~works
  /\ UNCHANGED <<phase, n, stage, bufferVars, stream, faulty, roundVars, lost>>

Next == Application \/ Update

Spec == Init /\ [][Next]_vars

-------------------------------------------------------------------------------

Contents == {"zero", "hello", "large", "damaged", "dict", "torn"}

TypeOK ==
  /\ phase \in {"allocate", "tests", "report", "exit"}
  /\ n \in DOMAIN Tests
  /\ stage \in 1 .. Len(Test.steps) + 1
  /\ compr \in [is : Contents, by : 0 .. Len(Tests)]
  /\ uncompr \in {"zero", "garbage", "hello", "other"}
  /\ comprLen \in {"whole", "used"}
  /\ dictId \in BOOLEAN /\ stream \in BOOLEAN /\ works \in BOOLEAN /\ faulty \in BOOLEAN
  /\ failed \in 0 .. Len(Tests)
  /\ verdict \in {"none", "PASS", "FAIL"}
  /\ lost \subseteq {"PASS", "FAIL"}

(* A round reports failures only if a release that does not work has       *)
(* served one of its calls: nothing an earlier round has left behind, no   *)
(* shortened length and no forgotten dictionary makes a test fail.         *)
FailsOnlyOnFaults == failed > 0 => faulty

(* A test that decompresses passes on what its counterpart has compressed  *)
(* in the same round.  Only after a failure of that it may pass on what an *)
(* earlier test has left in the buffer.                                    *)
StaleOnlyAfterFailure ==
  At({"return"}) /\ Test.of # 0 => compr.by = Test.of \/ verdict = "FAIL"

(* Streams and files are lost by tests that fail only, so that the memory  *)
(* of a process in its endless rounds is a matter of its failures.         *)
LostOnlyByFailure == lost \subseteq {"FAIL"}

===============================================================================
