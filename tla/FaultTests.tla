------------------------------ MODULE FaultTests ------------------------------
(***************************************************************************)
(* The tests of AllocTests executed by the runner of Minicheck, next to a  *)
(* library that Luci replaces at any moment and, for the one test with the *)
(* tracking allocator, on top of the list of Memcheck.                     *)
(*                                                                         *)
(* The library is external.  It needs a number of allocations for each     *)
(* call, the same one every time until it is replaced, reports an error if *)
(* one is refused and gives back what it has allocated.  A release that    *)
(* does not work may report errors without a reason, fail to call the      *)
(* handlers, or leak.                                                      *)
(***************************************************************************)
EXTENDS AllocTests, Integers, FiniteSets

CONSTANTS Blocks, Entries, Null   \* memory for the tracking allocator

ASSUME MemoryAssumption ==
  /\ IsFiniteSet(Entries)
  /\ Null \notin Blocks \union Entries

VARIABLES
  g_parser,   \* the global parser: "NULL", "own" of this test, or an "orphan"
              \* that a failed test has left behind
  ext,        \* the local new_parser or ext_parser: "NULL" or "live"
  count,      \* allocation_count and reallocation_count, -1 for no limit
  flags,      \* attempts in which dummy_handler_flags were raised since reset
  storage,    \* attempts that have added to the character data since reset
  at, i,      \* where the test is, its loop variable
  stage,      \* the call that comes next in this attempt
  callno,     \* allocations of the first creation (external_entity_dbl_handler)
  cost, works,            \* the library: allocations of each call, no defect
  alloc_head, alloc_tail, next, prev, allocation, heap, foreign, crashed,
  held,       \* history: blocks of the tracked parser of this round
  lost,       \* history: parsers that nobody refers to any more
  refused,    \* history: this test has been refused memory
  mixed,      \* history: a replacement of the library during this attempt
  regular,    \* history: each release this test has met could pass it alone
  starved     \* history: a fixture met a failing allocator

parserVars  == <<g_parser, ext, lost>>
counterVars == <<count, callno>>
evidence    == <<flags, storage>>
libVars     == <<cost, works>>
posVars     == <<at, i, stage>>
pastVars    == <<refused, mixed, regular, starved>>
listVars    == <<alloc_head, alloc_tail, next, prev, allocation, heap, foreign, crashed>>
trackVars   == <<listVars, held>>
testVars    == <<parserVars, counterVars, evidence, libVars, posVars, pastVars, trackVars>>
vars        == <<runnerVars, testVars>>

Tracker == INSTANCE Memcheck WITH Foreign <- {}

Test == Current.test

Init ==
  /\ RunnerInit
  /\ g_parser = "NULL" /\ ext = "NULL" /\ lost = {}
  /\ count = [alloc |-> -1, realloc |-> -1] /\ callno = 0
  /\ flags = {} /\ storage = {}
  /\ cost = <<>> /\ works = TRUE
  /\ at = "none" /\ i = 0 /\ stage = 0
  /\ refused = FALSE /\ mixed = FALSE /\ regular = TRUE /\ starved = FALSE
  /\ Tracker!Init /\ held = {}

-------------------------------------------------------------------------------
(* The library.                                                            *)

(* The calls of a test while the allocator is armed.                       *)
Calls(t) ==
  {k \in DOMAIN t.stages :
     /\ \E a \in 1 .. k - 1 : t.stages[a] = "arm"
     /\ \A d \in 1 .. k - 1 : t.stages[d] # "ext_disarm"}
Total(c) == FoldLeft(LAMBDA x, y : x + y, 0, c)

(* What the calls of a test may need: nothing; one allocation each; or all *)
(* in one call, the most a loop can cope with, or too many.  The creations *)
(* of external_entity_dbl_handler are a pair: the second may need less, as *)
(* much, more, or more than its loop reaches.                              *)
Costs(t) ==
  LET none == [k \in DOMAIN t.stages |-> 0] IN
  IF t.kind = "paired" THEN {<<1, n>> : n \in {0, 1, 2, t.max, t.max + 1}} \union {<<3, 4>>}
  ELSE {none, [k \in DOMAIN t.stages |-> IF k \in Calls(t) THEN 1 ELSE 0]} \union
       {[none EXCEPT ![k] = n] : k \in Calls(t), n \in {t.max - 1, t.max + 1} \intersect Nat}

(* A release that never changes passes the test: what must succeed needs   *)
(* nothing, what must fail needs enough, a loop neither nothing nor more   *)
(* than it reaches.                                                        *)
Passes(t, c, w) ==
  /\ w
  /\ t.kind = "loop" => /\ Total(c) \in 1 .. t.max - 1
                        /\ \A k \in Calls(t) : t.stages[k] \in {"must", "create_must"} => c[k] = 0
  /\ t.kind = "paired" => c[2] - c[1] \in 1 .. t.max - 1
  /\ t.kind = "fixed" => /\ Total(c) > t.max
                         /\ c[Len(c)] = Total(c)

ChooseLibrary(t) ==
  /\ cost' \in Costs(t)
  /\ works' \in {TRUE, Total(cost') # 0}

-------------------------------------------------------------------------------
(* Fixtures.                                                               *)

Disarmed == [alloc |-> -1, realloc |-> -1]

Lose == lost' = lost \union ({g_parser} \ {"NULL"})

(* Mutant: a setup that relies on the counters as they were left.          *)
ArmedSetup(setup) == count

(* alloc_setup() and nsalloc_setup() make the allocator work first;        *)
(* basic_setup() and namespace_setup() do not use it.                      *)
CountersAtSetup(setup) == IF setup = "alloc" THEN Disarmed ELSE count

(* XML_ParserCreate_MM() in a fixture needs at least one allocation.       *)
Creatable(setup) == setup = "alloc" => CountersAtSetup(setup).alloc # 0

Start(t) ==
  /\ at' = CASE t.kind = "paired" -> "first"
             [] t.recover = "reset" -> "first"
             [] OTHER -> "loop"
  /\ i' = 0 /\ stage' = 0 /\ callno' = 0
  /\ refused' = FALSE /\ mixed' = FALSE
  /\ ChooseLibrary(t)
  /\ regular' = Passes(t, cost', works')
  /\ flags' = IF t.flags THEN {"earlier"} ELSE {}
  /\ storage' = IF t.storage THEN {"earlier"} ELSE {}

(* What the previous test has left is lost, for a setup does not look.     *)
Setup ==
  /\ SetupReturns
  /\ Creatable(Current.setup)
  /\ count' = CountersAtSetup(Current.setup)
  /\ IF Current.setup = "none" THEN UNCHANGED <<g_parser, lost>>
     ELSE g_parser' = "own" /\ Lose
  /\ Start(Test)
  /\ UNCHANGED <<ext, starved, trackVars>>

(* The parser is not created, for want of memory or through a counter.     *)
SetupWithoutMemory ==
  /\ SetupFails
  /\ Current.setup # "none"
  /\ count' = CountersAtSetup(Current.setup)
  /\ g_parser' = "NULL" /\ Lose
  /\ starved' = (starved \/ ~Creatable(Current.setup))
  /\ UNCHANGED <<ext, callno, evidence, libVars, posVars, refused, mixed, regular, trackVars>>

(* basic_teardown(), which the others call.  tc_accounting has none.       *)
Teardown ==
  /\ TeardownReturns
  /\ g_parser' = IF Current.teardown = "none" THEN g_parser ELSE "NULL"
  /\ UNCHANGED <<ext, lost, counterVars, evidence, libVars, posVars, pastVars, trackVars>>

-------------------------------------------------------------------------------
(* Tests with failing allocations.                                         *)

(* fail(): what the test and its handlers hold stays behind.               *)
JumpOut ==
  /\ TestFails
  /\ g_parser' = IF g_parser = "own" THEN "orphan" ELSE g_parser
  /\ ext' = "NULL"
  /\ at' = "none"

Fail == JumpOut /\ lost' = lost \union (IF ext = "live" THEN {"local"} ELSE {})

Step(p) == phase = "test" /\ at = p

Looping == Test.kind \in {"loop", "paired"}

(* Mutant: the first creation is not counted.                              *)
FirstUncounted ==
  /\ Step("first")
  /\ works
  /\ at' = "loop"
  /\ mixed' = IF Test.kind = "paired" THEN FALSE ELSE mixed
  /\ UNCHANGED <<runnerVars, parserVars, counterVars, evidence, libVars, i, stage, refused,
                 regular, starved, trackVars>>

(* Before the loop: a parse that must succeed (realloc_binding_uri), or    *)
(* the first call of external_entity_dbl_handler, which counts.            *)
First ==
  /\ Step("first")
  /\ works
  /\ at' = "loop"
  /\ IF Test.kind = "paired"
     THEN /\ callno' = cost[1] /\ mixed' = FALSE
          /\ count' = [count EXCEPT !.alloc = -1]
     ELSE UNCHANGED <<callno, mixed, count>>
  /\ UNCHANGED <<runnerVars, parserVars, evidence, libVars, i, stage, refused, regular,
                 starved, trackVars>>

(* The handler may fail to parse its text with the parser it has created.  *)
FirstFails ==
  /\ Step("first")
  /\ ~works
  /\ JumpOut
  /\ lost' = lost \/ (Test.kind = "paired" /\ lost' = lost \union {"local"})
  /\ UNCHANGED <<counterVars, evidence, libVars, i, stage, pastVars, trackVars>>

(* Mutant: the evidence of failed attempts is not thrown away.             *)
AttemptKeepsEvidence ==
  /\ Step("loop")
  /\ i < Test.max \/ Test.kind = "fixed"
  /\ at' = "call" /\ stage' = 1
  /\ mixed' = IF Test.kind = "paired" THEN mixed ELSE FALSE
  /\ flags' = IF flags = {} THEN {} ELSE {"earlier"}
  /\ storage' = IF storage = {} THEN {} ELSE {"earlier"}
  /\ UNCHANGED <<runnerVars, parserVars, counterVars, libVars, i, refused, regular, starved,
                 trackVars>>

(* The body of the loop begins.  Evidence that is compared later is reset. *)
Attempt ==
  /\ Step("loop")
  /\ i < Test.max \/ Test.kind = "fixed"
  /\ at' = "call" /\ stage' = 1
  /\ mixed' = IF Test.kind = "paired" THEN mixed ELSE FALSE
  /\ flags' = {}
  /\ storage' = {}
  /\ UNCHANGED <<runnerVars, parserVars, counterVars, libVars, i, refused, regular, starved,
                 trackVars>>

Call == IF stage \in DOMAIN Test.stages THEN Test.stages[stage] ELSE "end"

Arm ==
  /\ Step("call") /\ Call = "arm"
  /\ count' = [count EXCEPT ![Test.counter] = IF Test.kind = "fixed" THEN Test.max
                                              ELSE callno + i]
  /\ stage' = stage + 1
  /\ UNCHANGED <<runnerVars, parserVars, callno, evidence, libVars, at, i, pastVars, trackVars>>

(* duff_allocator() and duff_reallocator().                                *)
Served == count[Test.counter] = -1 \/ cost[stage] <= count[Test.counter]
Spent  == IF count[Test.counter] = -1 THEN count
          ELSE [count EXCEPT ![Test.counter] = @ - cost[stage]]

(* A call of the library that gets all the memory it asks for.             *)
Granted ==
  /\ Step("call") /\ Call \notin {"arm", "end", "refused", "fault"}
  /\ Served
  /\ count' = IF Call = "ext_disarm" THEN [Spent EXCEPT ![Test.counter] = -1] ELSE Spent
  /\ ext' = CASE Call \in {"create", "create_must", "second"} -> "live"
              [] Call \in {"ext", "ext_disarm"} -> "NULL"
              [] OTHER -> ext
  /\ IF Call = "parser" THEN g_parser' = "own" /\ Lose ELSE UNCHANGED <<g_parser, lost>>
  /\ stage' = stage + 1
  /\ UNCHANGED <<runnerVars, callno, evidence, libVars, at, i, pastVars, trackVars>>

(* A call that was to fail gets its memory.                                *)
Ignored ==
  /\ Step("call") /\ Call \in {"refused", "fault"}
  /\ Served
  /\ Fail
  /\ count' = Spent
  /\ UNCHANGED <<callno, evidence, libVars, i, stage, pastVars, trackVars>>

Refusal ==
  /\ Step("call") /\ Call \notin {"arm", "end"}
  /\ ~Served
  /\ refused' = TRUE

(* Mutant: a handler that returns an error and keeps its parser.           *)
RefusedKeepsParser ==
  /\ Refusal
  /\ Call \notin {"must", "create_must", "base"}
  /\ count' = [count EXCEPT ![Test.counter] = IF Call = "ext_disarm" THEN -1 ELSE 0]
  /\ IF Call = "parser" THEN g_parser' = "NULL" /\ Lose ELSE UNCHANGED <<g_parser, lost>>
  /\ at' = "error"
  /\ UNCHANGED <<runnerVars, ext, callno, evidence, libVars, i, stage, mixed, regular, starved,
                 trackVars>>

(* The call reports the error; a handler frees the external parser first.  *)
Refused ==
  /\ Refusal
  /\ Call \notin {"must", "create_must", "base"}
  /\ count' = [count EXCEPT ![Test.counter] = IF Call = "ext_disarm" THEN -1 ELSE 0]
  /\ ext' = "NULL"
  /\ IF Call = "parser" THEN g_parser' = "NULL" /\ Lose ELSE UNCHANGED <<g_parser, lost>>
  /\ at' = "error"
  /\ UNCHANGED <<runnerVars, callno, evidence, libVars, i, stage, mixed, regular, starved,
                 trackVars>>

RefusedFails ==
  /\ Refusal
  /\ Call \in {"must", "create_must"}
  /\ Fail
  /\ count' = [count EXCEPT ![Test.counter] = 0]
  /\ UNCHANGED <<callno, evidence, libVars, i, stage, mixed, regular, starved, trackVars>>

(* test_alloc_long_base: XML_ParserReset() and continue.                   *)
RefusedResets ==
  /\ Refusal
  /\ Call = "base"
  /\ count' = [count EXCEPT ![Test.counter] = 0]
  /\ at' = "loop" /\ i' = i + 1
  /\ UNCHANGED <<runnerVars, parserVars, callno, evidence, libVars, stage, mixed, regular,
                 starved, trackVars>>

(* The handlers have run, or not.                                          *)
Fires(fired) ==
  /\ flags' = flags \union (IF fired /\ Test.flags THEN {"last"} ELSE {})
  /\ storage' = storage \union (IF fired /\ Test.storage THEN {"last"} ELSE {})

(* A parse may still go wrong for another reason than memory.              *)
Parsed ==
  /\ Step("call") /\ Call = "end"
  /\ IF works \/ Last(Test.stages) # "parse" THEN at' = "ok" /\ Fires(TRUE)
     ELSE at' \in {"ok", "error"} /\ \E f \in BOOLEAN : Fires(f)
  /\ UNCHANGED <<runnerVars, parserVars, counterVars, libVars, i, stage, pastVars, trackVars>>

(* break                                                                   *)
Break ==
  /\ Step("ok")
  /\ at' = "verdict"
  /\ UNCHANGED <<runnerVars, parserVars, counterVars, evidence, libVars, i, stage, pastVars,
                 trackVars>>

(* Mutant: the attempt is repeated with the same number of allocations.    *)
RecoverAgain ==
  /\ Step("error") /\ Looping
  /\ Test.recover # "recreate"
  /\ at' = "loop"
  /\ \E f \in BOOLEAN : Fires(f)
  /\ UNCHANGED <<runnerVars, parserVars, counterVars, libVars, i, stage, pastVars, trackVars>>

(* Evidence of a failed attempt may have been collected before the error.  *)
Recover ==
  /\ Step("error") /\ Looping
  /\ Test.recover # "recreate"
  /\ at' = "loop" /\ i' = i + 1
  /\ \E f \in BOOLEAN : Fires(f)
  /\ UNCHANGED <<runnerVars, parserVars, counterVars, libVars, stage, pastVars, trackVars>>

(* alloc_teardown() and alloc_setup(), or the same with namespaces.        *)
Recreate ==
  /\ Step("error") /\ Looping
  /\ Test.recover = "recreate"
  /\ Creatable("alloc")
  /\ count' = CountersAtSetup("alloc")
  /\ g_parser' = "own"
  /\ at' = "loop" /\ i' = i + 1
  /\ \E f \in BOOLEAN : Fires(f)
  /\ UNCHANGED <<runnerVars, ext, lost, callno, libVars, stage, pastVars, trackVars>>

RecreateWithoutMemory ==
  /\ Step("error") /\ Looping
  /\ Test.recover = "recreate"
  /\ TestFails
  /\ count' = CountersAtSetup("alloc")
  /\ g_parser' = "NULL"
  /\ at' = "none"
  /\ regular' = FALSE
  /\ starved' = (starved \/ ~Creatable("alloc"))
  /\ UNCHANGED <<ext, lost, callno, evidence, libVars, i, stage, refused, mixed, trackVars>>

Exhausted ==
  /\ Step("loop") /\ Looping /\ i = Test.max
  /\ at' = "verdict"
  /\ UNCHANGED <<runnerVars, parserVars, counterVars, evidence, libVars, i, stage, pastVars,
                 trackVars>>

(* The attempt of a test that wants an error.                              *)
FixedEnds ==
  /\ Step("error") /\ Test.kind = "fixed"
  /\ at' = "verdict"
  /\ UNCHANGED <<runnerVars, parserVars, counterVars, evidence, libVars, i, stage, pastVars,
                 trackVars>>

(* Mutant: a loop that has never failed goes unnoticed.                    *)
ComplaintAtLast ==
  \/ Looping /\ i = Test.max
  \/ Test.flags /\ flags = {}
  \/ Test.storage /\ storage # {"last"}
  \/ Test.kind \in {"paired", "fixed"} /\ ~works

(* The checks after the loop.                                              *)
Complaint ==
  \/ Looping /\ i \in {0, Test.max}
  \/ Test.flags /\ flags = {}
  \/ Test.storage /\ storage # {"last"}
  \/ Test.kind \in {"paired", "fixed"} /\ ~works

CountAtEnd(when) ==
  IF Test.disarm \in when THEN [count EXCEPT ![Test.counter] = -1] ELSE count

Accept ==
  /\ Step("verdict") /\ ~Complaint
  /\ TestReturns
  /\ count' = CountAtEnd({"first", "last"})
  /\ ext' = "NULL"
  /\ at' = "none"
  /\ UNCHANGED <<g_parser, lost, callno, evidence, libVars, i, stage, pastVars, trackVars>>

Reject ==
  /\ Step("verdict") /\ Complaint
  /\ Fail
  /\ count' = CountAtEnd({"first"})
  /\ UNCHANGED <<callno, evidence, libVars, i, stage, pastVars, trackVars>>

-------------------------------------------------------------------------------
(* Tests without failing allocations.                                      *)

Steady == Step("loop") /\ Test.kind = "plain"

(* g_parser is created by the test, forgotten by it, or left alone.        *)
PlainPasses ==
  /\ Steady
  /\ TestReturns
  /\ g_parser' = CASE Test.recover = "create" -> "own"
                   [] Test.recover = "forget" -> "NULL"
                   [] OTHER -> g_parser
  /\ IF g_parser' = g_parser THEN UNCHANGED lost ELSE Lose
  /\ at' = "none"
  /\ UNCHANGED <<ext, counterVars, evidence, libVars, i, stage, pastVars, trackVars>>

(* A parser of its own is lost when a check fails before it is freed.      *)
PlainFails ==
  /\ Steady /\ ~works
  /\ TestFails
  /\ g_parser' = CASE Test.recover = "forget" -> "NULL"
                   [] Test.recover = "create" \/ g_parser = "own" -> "orphan"
                   [] OTHER -> g_parser
  /\ lost' = lost \union (IF Test.recover = "local" THEN {"local"} ELSE {})
                  \union (IF Test.recover \in {"create", "forget"} THEN {g_parser} \ {"NULL"} ELSE {})
  /\ at' = "none"
  /\ UNCHANGED <<ext, counterVars, evidence, libVars, i, stage, pastVars, trackVars>>

-------------------------------------------------------------------------------
(* test_misc_attribute_leak: a parser on top of the tracking allocator.    *)

trackedUnchanged == <<counterVars, evidence, libVars, i, stage, pastVars, ext>>

TrackedCreate ==
  /\ Step("loop") /\ Test.kind = "tracked"
  /\ g_parser' = "own" /\ Lose
  /\ held' = {}
  /\ at' = "use"
  /\ UNCHANGED <<runnerVars, trackedUnchanged, listVars>>

(* The parser allocates, moves and frees blocks.  None of the releases     *)
(* frees the newest one before it is itself freed.                         *)
TrackedUse ==
  /\ Step("use")
  /\ \/ \E e \in Entries, b \in Blocks : Tracker!Malloc(e, b) /\ held' = held \union {b}
     \/ \E b \in held, c \in Blocks : Tracker!Realloc(b, c) /\ held' = (held \ {b}) \union {c}
     \/ \E b \in held : /\ alloc_tail # Null /\ b # allocation[alloc_tail]
                        /\ Tracker!Free(b)
                        /\ held' = held \ {b}
  /\ UNCHANGED <<runnerVars, trackedUnchanged, g_parser, lost, at>>

(* expect_failure() is satisfied.                                          *)
TrackedParsed ==
  /\ Step("use")
  /\ at' = "free"
  /\ UNCHANGED <<runnerVars, trackedUnchanged, g_parser, lost, trackVars>>

TrackedParseFails ==
  /\ Step("use") /\ ~works
  /\ Fail
  /\ UNCHANGED <<counterVars, evidence, libVars, i, stage, pastVars, trackVars>>

(* XML_ParserFree() of a parser, in any order.                             *)
TrackedFree ==
  /\ Step("free")
  /\ \E b \in held : Tracker!Free(b) /\ held' = held \ {b}
  /\ UNCHANGED <<runnerVars, trackedUnchanged, g_parser, lost, at>>

(* Mutant: only the blocks of this round are looked at.                    *)
UnlistedLeak == held # {}

(* tracking_report() goes through the list, which outlives the test.       *)
tracking_report == Tracker!Listed # {}

(* A release that leaks does not free everything.                          *)
TrackedReport ==
  /\ Step("free")
  /\ held = {} \/ ~works
  /\ IF tracking_report THEN TestFails ELSE TestReturns
  /\ g_parser' = "NULL"
  /\ at' = "none"
  /\ UNCHANGED <<trackedUnchanged, lost, trackVars>>

-------------------------------------------------------------------------------

(* Luci replaces the library, also in the middle of an attempt.            *)
Update ==
  /\ LibraryUpdated
  /\ IF phase = "test"
     THEN /\ ChooseLibrary(Test)
          /\ mixed' = TRUE
          /\ regular' = (regular /\ Passes(Test, cost', works'))
     ELSE UNCHANGED <<libVars, mixed, regular>>
  /\ UNCHANGED <<parserVars, counterVars, evidence, posVars, refused, starved, trackVars>>

RunnerStep == (MakeSuite \/ Report) /\ UNCHANGED testVars

LoopStep ==
  \/ First \/ FirstFails \/ Attempt \/ Arm \/ Granted \/ Ignored
  \/ Refused \/ RefusedFails \/ RefusedResets \/ Parsed \/ Break
  \/ Recover \/ Recreate \/ RecreateWithoutMemory \/ Exhausted \/ FixedEnds
  \/ Accept \/ Reject

TrackedStep ==
  TrackedCreate \/ TrackedParsed \/ TrackedParseFails \/ TrackedFree \/ TrackedReport

Application ==
  /\ ~crashed
  /\ \/ RunnerStep \/ Setup \/ SetupWithoutMemory \/ Teardown
     \/ LoopStep \/ PlainPasses \/ PlainFails \/ TrackedStep

Next == Application \/ (~crashed /\ (TrackedUse \/ Update))

Spec == Init /\ [][Next]_vars

(* The application has a thread of its own and calls of the library end.   *)
FairSpec == Spec /\ WF_vars(Application)

-------------------------------------------------------------------------------

TypeOK ==
  /\ RunnerTypeOK
  /\ g_parser \in {"NULL", "own", "orphan"}
  /\ ext \in {"NULL", "live"}
  /\ lost \subseteq {"own", "orphan", "local"}
  /\ DOMAIN count = {"alloc", "realloc"}
  /\ \A c \in DOMAIN count : count[c] \in Nat \union {-1}
  /\ flags \subseteq {"earlier", "last"}
  /\ storage \subseteq {"earlier", "last"}
  /\ at \in {"none", "first", "loop", "call", "ok", "error", "verdict", "use", "free"}
  /\ i \in Nat
  /\ held \subseteq heap

(* A fixture always gets its parser unless the machine is out of memory:   *)
(* the counters a test leaves behind never reach it (alloc_setup(), and    *)
(* the recovery in each loop).                                             *)
FixtureNeverStarved == ~starved

(* Parsers are lost by failing tests only, which longjmp() takes out of    *)
(* their handlers and past their teardown; a test that passes frees what   *)
(* it has created, in each attempt.                                        *)
OnlyFailuresLoseParsers ==
  /\ "own" \notin lost
  /\ at \in {"none", "loop", "error"} => ext = "NULL"

(* A loop passes only if memory has been refused: a release that does not  *)
(* allocate, or a counter that is not armed, is noticed.                   *)
PassMeansExercised ==
  phase = "teardown" /\ Looping /\ regular => refused

(* What is compared after a loop stems from its last attempt, and not from *)
(* one of the attempts that were cut short, or another test.               *)
FreshEvidence ==
  at = "verdict" => flags \subseteq {"last"} /\ storage \subseteq {"last"}

(* A test with releases that could each pass it fails only if the library  *)
(* is replaced within an attempt (or between the two creations whose       *)
(* allocations external_entity_dbl_handler compares), for want of memory,  *)
(* or because an earlier round has left blocks on the list.                *)
FailuresExplained ==
  [][phase = "test" /\ phase' = "setup" /\ regular' => mixed \/ heap # {}]_vars

(* Blocks an earlier round has leaked are never forgiven: the test for     *)
(* leaks cannot pass any more, whatever Luci does to the library.          *)
LeakNeverForgiven ==
  phase = "teardown" /\ Test.kind = "tracked" => heap = {}

(* The tracker crashes only in a later round than one with a leak ("this   *)
(* will result in a segfault at second run").                              *)
CrashOnlyAfterLeak == crashed => heap \ held # {}

(* The rounds go on for ever, one after the other, unless the application  *)
(* crashes: no loop of a test runs on for good.                            *)
RoundsEnd == []<>(phase = "make") \/ <>crashed

-------------------------------------------------------------------------------
(* Progress, step by step                                                  *)

(* How far the test is from the end of this attempt and of its checks.     *)
PlacesLeft ==
  CASE at = "first"                   -> Len(Test.stages) + 5
    [] at = "loop"                    -> Len(Test.stages) + 4
    [] at = "call"                    -> Len(Test.stages) + 4 - stage
    [] at \in {"ok", "error", "use"}  -> 2
    [] at \in {"verdict", "free"}     -> 1
    [] OTHER                          -> 0

(* The test in progress: a place further, in its next attempt, or waiting  *)
(* for the library, which parses, is replaced, or frees one block more.    *)
GoesOn ==
  \/ i' = i /\ 0 <= PlacesLeft' /\ PlacesLeft' < PlacesLeft
  \/ at' = "loop" /\ i' = i + 1 /\ Looping /\ i' <= Test.max
  \/ /\ UNCHANGED posVars
     /\ \/ LibraryUpdated
        \/ at = "use"
        \/ at = "free" /\ held' \subseteq held /\ held' # held

(* A round gets nearer to its end with each step, for no test is executed  *)
(* twice and no loop counter starts again, whether the attempt ends in     *)
(* time, by a jump out of a handler (fail()) or by "continue".             *)
RoundAdvances ==
  [][phase # "make" =>
       \/ phase' = "make" /\ done = Len(checks)
       \/ /\ UNCHANGED checks
          /\ \/ phase' = "setup" /\ done' = done + 1 /\ done' <= Len(checks)
             \/ /\ UNCHANGED done
                /\ \/ <<phase, phase'>> \in {<<"setup", "test">>, <<"test", "teardown">>}
                   \/ UNCHANGED phase /\ GoesOn]_vars

===============================================================================
