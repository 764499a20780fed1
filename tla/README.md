# A TLA+ model of the Luci backtests

The repository evaluates *Luci*, a dynamic linker that updates shared libraries
in running programs.  It builds a series of historic versions of a library,
starts one test application that uses the library, points the library's symbolic
links to one version after the other and watches whether Luci carries the running
application from version to version.  Luci itself is a submodule and not part of
the sources.  What is here is the machinery around it: shell scripts that build,
switch, watch, restart and count, and test applications in C.  The numbers of the
evaluation are right only if this machinery counts every outcome once, attributes
it to the right instance and version, and survives what the application does.

The modules in this directory describe that machinery.  They are written from the
source; documentation is only quoted where the code does something else.

- [Parts of the system](#parts-of-the-system)
- [Modules](#modules)
- [Runs](#runs)
- [Bounds](#bounds)
- [Fairness](#fairness)
- [Proofs](#proofs)
- [Where the code and its documentation differ](#where-the-code-and-its-documentation-differ)
- [What is not modelled](#what-is-not-modelled)
- [Plan](#plan)

Run a configuration with `tlc -config Control_truncate.cfg MC_Control.tla` and
check the proofs with `tlapm Control_proofs.tla`.

## Parts of the system

| part | state | operations | what makes it correct |
|---|---|---|---|
| control script of a dynamic-update run: the container branch of `tools/testor.sh` with `run`, `restart`, `stop` of `<library>/run-test.sh` | the version linked, `PID`, `status.info`, `status.log` | switch links, check, copy and empty the status, kill, save, start, stop | one instance at a time; no failure overlooked or counted for the wrong instance; no line lost or doubled; every version tried, whatever the application does |
| `linktarget()` in `tools/testor.sh` | one symbolic link for each file of a version | link, remove stale links | whoever follows the links at any moment finds the library, and never more than two versions mixed |
| host side of a run: the other branch of `tools/testor.sh` with `preload` and `cleanup` | the hashing service on its fixed port, the summary | start the service, install the trap, run the container, clean up | a service does not outlive its run and answers its own run only; each test has a summary |
| builds: `tools/generator.sh` with `<library>/gen-lib.sh`, `gen-test.sh` | the version directories, the build logs, the source checkout | checkout, build, register, discard, clean | each directory has the library of its own commit, completely; failures and kills do not spread |
| allocation tracker of the expat tests (`memcheck.c`) | a doubly linked list of blocks | malloc, realloc, free, report | the list describes the blocks in use |
| baseline runs (`run-baseline.sh`) | as the control script | restarts the application for each version | each version runs once |
| OpenSSL control scripts (`openssl/run-test-*.sh`) | server, client loop, kernel traces | as the control script | server and client end together |
| package retrieval (`tools/snapshot-fetch.py`, `tools/launchpad-fetch.sh`) | downloaded files, extracted packages | download, check, extract | an interrupted call does not spoil a later one |
| summaries (`summary-*.{py,sh}`) | none; they read the logs | count, attribute to versions | what is counted is what has happened |
| libxcrypt test application (`src-test/main.c`) | a thread for each test, its counters, the static structs of the C library | create, load, hash, print, join, add up | each thread gets its own results; each test is counted once and the exit status tells the truth; it ends |
| expat test framework (`minicheck.c`, `chardata.c`, `structdata.c`) | suites, counters, recorded data | register, set up, run, jump out, tear down, record, compare | a failing test does not disturb the next; each is counted once; a comparison fails if anything was lost |
| expat test application (`runtests.c`, `internal.c`, `siphash.h`) | the global parser, the counters of the failing allocators, the evidence of handlers | rounds of tests, in which each allocation of a call fails in turn | a loop that passes has seen a refusal; what is compared is of the last attempt; a failure has a cause in the library; rounds go on |
| zlib test application (`example.c`) | two buffers, a length, a dictionary identifier | ten tests that hand their results on | a test fails only if the library does; nothing of an earlier round or test is taken for the result of this one |
| stages of the evaluation, set-up and clean-up | | | |

The parts interact mostly through files.  The control script and the test
application share `status.info`: Luci appends a line for each update it has tried,
the script greps the file, copies it to `status.log` and empties it.  Nothing
synchronises the two.  The script steers Luci by changing the links, which Luci
watches.  The script on the host starts the hashing service and the container,
which talk to each other through a port.  Builds and control script share the
version directories, the build script of the library and that of the test
application share them as well.  The summary scripts read what is left.  The test applications know
nothing of all this: they run their tests in endless rounds, and the library may be
replaced between any two of its calls, by a release that has more functions,
allocates differently or does not work.

The hard behaviours are therefore: the interleaving of the script with an
application that may report, crash or do nothing at any moment; `set -e` and
`pipefail`, under which a failing command ends the script at places where nobody
expected it; kills and interrupts between any two commands, with files and
services that survive them; and repeated calls that trust what they find; in the applications, state that
survives a failing test or a round, tests that leave their functions by `longjmp`,
and a library that changes in the middle of a loop which counts its allocations.
`PROJECT.json` lists these hazards one by one with their lines.

## Modules

### Control: the control script and the application

`Control` is the core of the project.  Script and application are two actors in
one module, for they share their files.

| model | code (`expat/run-test.sh` unless named) |
|---|---|
| `pc` | the command executed next; a label for each place where the application may do something that matters |
| `version`, `pid`, `info`, `log` | the loop variable of `testor.sh`, `PID`, `status.info`, `status.log` |
| `LinkTarget`, `Delay` | the loop, `testor.sh` 62-83 |
| `CheckFirst`, `CheckCrashed`, `CheckFailed`, `CheckHealthy` | the branches of `run()`, 113-127 |
| `CopyFailed`, `TruncateInfo` | `cat >> status.log` and `echo > status.info`, 123-124 |
| `KillForRestart`, `SaveInfo`, `StartApp` | `restart()`, 86-109 |
| `StopKill`, `StopKillFails`, `ShowInfo`, `KeepInfo` | `stop()`, 131-142 |
| `UpdateTo`, `Reject`, `UseOutdated`, `Crash` | external: Luci and the application |

A line of `status.info` is a record of the instance that wrote it, the version it
is about and the outcome; the script sees only whether it says FAILED or ERROR.
The files are sets of lines.  `dup` holds the lines that `status.log` has more than
once and `emitted` every line ever written, so that the properties can speak of
lost and doubled lines.  An aborted script is a state of its own.  The three
libraries use the same functions with other delays; `DetectsOutdated` covers
`LD_DETECT_OUTDATED`, which libxcrypt turns off.

What Luci does with an existing `status.info` when it starts cannot be read from
the repository.  It is a parameter: `TruncatesInfo` (the file is emptied) and
`AnnouncesLoad` (a line about the library is written).  Some properties hold for
every Luci, others only for one that truncates; that difference is stated wherever
it matters.

`Backtest` is the abstract experiment: versions are published, the running
instance adopts some, fails or crashes, it is stopped only after a failed update
of its own or at the very end, and its replacement uses the version published
last.  There is no script, no file and no delay in it.  `Control` implements it
under the mapping `instance <- pid`, `uses <- loaded[pid]` and a `status` that is
computed from the fate of the instance and the failures it has written.

### LinkTarget: the links, one by one

`Control` switches all links in a single step.  `LinkTarget` is the code behind
that step: `ln -sf` for each file in the order of `find`, which is not determined,
then `rm` of each link that does not point to the current version
(`testor.sh` 10-31).  `link[n]` is the version to which the link of path `n`
leads.

`VersionLoop` is the loop of `testor.sh` without its parts: `linktarget()` and
`run()` take turns, and each `linktarget()` is the step to the next version.  Both
modules implement it.  `LinkTarget` does so under the mapping `version <-
link[Library]`, so whoever follows the link of the library sees one step, between
two calls of `run()`; `Control`, which makes it in one step, does so with its
`version`.  In both, `Turn` says at which commands it is whose turn.

### Host: services and traps

`Host` is the other branch of `testor.sh` for several runs one after the other:
`preload()` starts the hashing service, the EXIT trap is installed two commands
later, the container runs, the trap kills the service and writes the summary.  An
interrupt may come at any command and the service may die at any time.  Two facts
about bash matter: a background job of a script ignores the interrupt, and a
failing `kill` inside the trap ends the trap, for `set -e` is still in effect.

So does a failing `summary-runs.py`.  For a backtest, which `cleanup()` recognises by
the directories in `link.log`, it translates versions into packages and needs a
`status.log`.  That file exists only after the container has copied `status.info` for
the first time, and the container may end before: it is interrupted, or all instances
crash before Luci creates the file.  `linked` and `copied` are the
runs whose logs have got that far (`LinkVersion`, `CopyStatus`), `Untranslatable`
those for which the script fails.  What `Control` does in between is left out, and the
lines of `status.log` are taken to be well-formed.  The `summary-runs.py` of libxcrypt
needs the file for every run; such a run is like a backtest.  Names
that `LinkTarget` has as well carry the name of the module (`host_pc`, `HostNext`,
`HostSpec`), so that one module can hold the proofs about both halves of `testor.sh`.

### Generator: builds

`Generator` is the loop of `generator.sh` with the `build` function of a library:
skip a version whose directory exists, else check out, make the directory, copy
the sources, make, install, register or discard, clean.  A directory is absent or
holds files of some commit, all of them or not.  The container may be killed
between any two commands, which loses the checkout and `/tmp` but not the version
directories and the logs, and may be started again.  The libraries differ in three
parameters:

| | expat | zlib | libxcrypt | openssl |
|---|---|---|---|---|
| `InSourceDir`: the copy of the sources is where `git clean` gets | yes | no | no | yes |
| `IgnoresInstallErrors`: `make install \|\| true` | yes | no | no | no |
| `TestSharesDir`: `gen-test.sh` uses the version directories | yes | yes | no | no |

A build may be sound, certain to fail (`Broken`) or able to fail (`Flaky`).

### Fetch: packages of a distribution

`Fetch` is `snapshot-fetch.py -x`, as `run.sh` calls it, with `cleanup.sh` in
between.  The service lists each version under one or several names, or not at all:
if no package is for the architecture, or the list for its hash is empty, the script
prints nothing and goes on with no `entries`.  The inner
loop takes a file that is on disk, makes a link to one, or downloads.  Then the
size is checked and everything that passed is extracted.  `disk` says what is
stored under each name: nothing, part of an archive, all of it, or a link.  A link
to a link is modelled as one to the archive behind it, which is what
`Path.resolve()` and `stat()` see.  A download may be refused or end too early; the
script may be killed, or end with an exception it does not catch, at any statement.

With `--force` a second call aborts at the first version with two names:
`symlink_to()` (line 92) raises an error because the link is there already.

### Memcheck: the allocation tracker

`Memcheck` has the list of `memcheck.c` pointer by pointer, with the two ends, the
links and the removal as they are written, and a C library that may place a block
anywhere and may be out of memory.  Following NULL ends the process.  `heap` is
what the list should describe.

### Minicheck, AllocTests, FaultTests: the expat test application

Three modules, each of which extends the one before.

`Minicheck` is the runner.  `suite` is what `make_suite()` may build, `checks` the
tests that are registered for the release in use, `phase` the place in
`srunner_run_all()` and `done`, `nchecks`, `nfailures` its counters.  `fail()` is a
`longjmp` from wherever the test is into the runner: `SetupFails` and `TestFails`
skip what would have come next, `TestReturns` goes on to the teardown.  The version
is read once for each suite (`MakeSuite`), the library replaced at any moment
(`LibraryUpdated`).  Setups, tests and teardowns are left open.

`AllocTests` lists the tests of `runtests.c` that make allocations fail, with the
handlers they install, and the test cases of the suite.  Almost all of them are the
same loop with other documents: let allocation *i* fail, parse, start again with
the next *i* until it succeeds.  What distinguishes them is what goes wrong if it is
forgotten, and that is what a record keeps: the counter and its limit, the calls
the loop makes and which of them have to succeed or to fail, whether the attempt
recreates the parser, resets it or leaves it alone, whether the counter is put back
and when, and which evidence of handlers is compared afterwards.  The documents and
the counts of allocations belong to the library.  The basic and the namespace tests
do not touch an allocator; each is a parse with the parser of the fixture followed
by checks, one kind of test here (`Plain`), and the miscellaneous ones differ by
what they do with a parser of their own.

`FaultTests` executes the records, one attempt and one call at a time.

| model | code (`runtests.c`) |
|---|---|
| `g_parser`, `ext` | the global parser; the parser of an external entity that a handler holds |
| `count` | `allocation_count`, `reallocation_count` |
| `flags`, `storage` | `dummy_handler_flags`, the `CharData` of handlers, by the attempts that have contributed |
| `Setup`, `Teardown`, `SetupWithoutMemory` | `basic_setup`, `alloc_setup`, `nsalloc_setup` and their teardowns |
| `Attempt`, `Arm`, `Granted`, `Refused`, `RefusedFails`, `RefusedResets`, `Ignored` | the body of a loop, call by call; `duff_allocator`, `duff_reallocator` |
| `Recover`, `Recreate`, `Exhausted`, `Accept`, `Reject` | the end of an attempt, the checks after the loop |
| `First`, `FirstFails` | the first creation of `external_entity_dbl_handler`, whose allocations are counted |
| `TrackedCreate` ... `TrackedReport` | `test_misc_attribute_leak` on top of `Memcheck` |
| `cost`, `works`, `Update` | external: the library, and Luci |

The library needs a number of allocations for each call, the same until it is
replaced; a release that does not work may report errors, keep handlers from being
called, or leak.  In the one test with the tracking allocator the parser never frees
its newest block before it is freed itself; what happens otherwise is the finding
about `memcheck.c` below, and has a run of its own.

### Helpers, SipHash, Internal: what the expat tests compute with

`CharData`, `StructData`, the hash, and the two functions copied from libexpat,
each a state machine that `Helpers` runs alone.  In `SipHash` a 64-bit word is the
set of its bits, so that overflow is what it is in C; the reference values are those
the code has.  `Internal` has both functions byte by byte, and the properties state
what they are for, in terms of characters.

### Example: the zlib test application

Each of the ten tests is a sequence of steps, as far as they touch the buffers, the
length, the dictionary or a stream: open, call, produce, consume, compare, close.
`compr` says what kind of data is in the buffer and which test has put it there.
`CallFails` is the macro `CHECK_ERR`, which returns at once.  What becomes of an
input (`Yield`) is the library's: right for what it was made for, an error or
something else otherwise, and anything at all with a release that does not work.

### CryptTest: the libxcrypt test application

The main thread (`Create`, `Join`, `AllJoined`, and `CreateFails`, which returns
while threads are running) and the test threads (`Load` to `End`), which share the
static structs of `crypt()` and `gmtime()`.  The wrapper of `crypt()` gives each
thread a struct of its own; `gmtime()` has none.

The modules `MC_*` are what TLC runs; `*_proofs` hold theorems.  Definitions marked
*Mutant* are small faults of the action next to them that a version of the code
might have had; they are no part of any specification and show that each property
is able to fail.

## Runs

| run | states | question |
|---|---|---|
| `control_truncate` | 36 681 | Does the script keep its promises next to any application, with a Luci that truncates and announces? |
| `control_failure_lost` | refuted | Is every failure logged? |
| `linktarget` | 149 | What can be seen of the links during a change? |
| `host` | 53 043 | Which services and summaries are left over, and when? |
| `generator` | 9 180 | Do failures, kills and repeated calls keep the build logs right (expat)? |
| `generator_stale_sources` | refuted | Does every build use its own sources (zlib, libxcrypt)? |
| `fetch` | 310 846 | What can be missing in what has been extracted, after interrupted and repeated calls? |
| `memcheck_crashes` | refuted | Can the tracker crash? |
| `expat_helpers` | 21 034 | Do the helpers compute and record what the tests rely on, at the limits of their buffers? |
| `expat_tests` | 138 589 | What can fail, get lost or go unnoticed in the tests with failing allocations, round after round, while Luci replaces the library? |
| `zlib` | 31 788 | What does a test inherit from the one before it? |
| `crypt` | 35 504 | Do the threads disturb each other, does the application end with the right status? |

The properties, with the hazard behind each:

*Control.*  `LostOnlyAfterFailure`: copying and emptying are two commands, so lines
may get lost, but only of an instance whose failure has been logged.
`AtMostAllUpdated`: the summary counts lines, and must not count more updates than
there were versions to update to.  `AbortsOnlyAfterCrash`: `set -e` ends the script
early only if an instance has crashed.  `AllVersionsTried` and
`FailureLeadsToReplacement`: the script passes all versions, and replaces a failed
instance if another version is still to come.  `ImplementsExperiment`: all of this
together is the experiment of `Backtest`.  Proved for all constants, and not checked
again by a run: `OneRunning`, for a second instance would write into the files of the
first; `FailureStaysVisible`, the failure of a running instance is in `status.info`,
where the next check finds it, until the instance is about to be killed;
`NoDoubleLogging`; `FinishedKeepsLast`, nothing is written between the last copy and
the kill.

*LinkTarget.*  `RunSeesOneVersion`: an instance that is started finds one version.
`ImplementsLoop`: the link of the library goes from each version to the next, once
for each call of `run()` and never during one, in whatever order the files are
visited.  Proved only: `LibraryAdvances`, the part of it about the link alone;
`SharedFilesStay`, no library is missing during a change, unless one of the
two versions does not have it; `MixesTwoVersions`, no link is older than the
previous version.

*Host.*  `LeaksOnlyUnguarded`, `ForeignServiceOnlyUnguarded`: a service outlives
its run, or answers another one, only after an interrupt in one of two gaps, before
the trap is installed or inside the trap.  `SummaryUnlessServiceDied`: a test that
has been started gets a summary unless its service has died, the trap was interrupted,
or it was a backtest that ended before `status.info` was copied; a failing container
or an interrupt of it do not cost the summary otherwise.

*Generator.*  `OwnSources`: see above.  `LoggedComplete`: nothing spoils a version
that a build log lists.  `IncompleteOnlyIfInterrupted`: an incomplete directory,
which later calls take for a build, goes back to a kill, to an early call of
`gen-test.sh` or to an installation whose errors are ignored, and never to a build
that has failed.  `SoundBuilt`: failures of other commits do not keep a sound one from
being built.

*Fetch.*  `NoTornExtracted`: archives left by earlier calls are used again, but only
complete ones.  `SuccessIsComplete`: when a call ends regularly, a version that is not
complete has been reported, or the service listed nothing of it in this very call; no
leftover of an earlier call makes one missing silently.  `PartialExplained`: the
backtest takes every directory for a version, so an incomplete one must go back to a
message, an interrupted extraction or such an empty list, of that version.
Proved only: `AbortsOnlyOnTorn`, complete archives and links never stop a later call; a torn one
does, at every call, until somebody removes it.

*Helpers.*  `TracksHeap`: the list of the tracker describes the blocks in use, until
the step that crashes.  `ChecksWholeText`: a comparison of collected text succeeds if
and only if all of it fits; text that was clipped or has a gap is never taken for the
expected one.  `OverrunOnlyAfterDisposal`: records are written into memory, unless
they are added after a disposal, which forgets to reset `max_count`.
`PiecesHashAlike`: a hash does not depend on how a text is cut into pieces.
`TrimsToComplete`: the end of a cut text moves to the end of its last complete
character.  `PrintsApart`: no two bytes are printed alike.

*FaultTests.*  `GuardsHold`: a test is not run with a release older than its guard
says, although releases change between the registration and the test.
`FixtureNeverStarved`: counters that a test leaves behind do not reach a setup.
`OnlyFailuresLoseParsers`: a test that passes frees its parsers in each attempt,
however many of its calls have failed.  `PassMeansExercised`: a loop that passes has
been refused memory; a library that allocates no more is noticed.
`FreshEvidence`: what is compared after a loop is of its last attempt.
`FailuresExplained`: with releases that could each pass a test it fails only if the
library was replaced within an attempt, or leaked before.  `LeakNeverForgiven`,
`CrashOnlyAfterLeak`: the list of the tracker outlives the rounds; a leak is reported
for ever, and only then may the tracker crash.  `RoundsEnd`: no loop runs on for
good.

*Example.*  `FailsOnlyOnFaults`: nothing an earlier test or round has left makes a
test fail.  `StaleOnlyAfterFailure`: a test passes on data of its own counterpart in
this round, unless that has failed.  `LostOnlyByFailure`: streams are lost by failing
tests only.

*CryptTest.*  `FailsOnlyOnFaults`: threads get results of their own.
`ExitIsTruthful`: status and report of `main()`.  `TimesOfEndedRuns`: the shared
struct of `gmtime()` may yield the time of another thread's run, but of one that is
over.  `Termination`.

## Bounds

- `control_truncate`: four versions (two for the refuted claim) allow for three
  restarts and two failures of one instance; lost lines need two versions, stale
  lines three.  The number of instances needs no bound of its own, an instance is
  started at most once for each version.
- `linktarget`: five versions and six names.  Files appear, disappear, come back
  and are renamed, in one step and over several; an older link could survive for
  four changes if one did.
- `host`: three runs, the second a backtest without a service.  A leak needs one run,
  its effect another, and the run in between shows that it lasts.
- `generator`: four commits, one sound before, one broken, one flaky, one sound
  after; three calls (`MaxStarts`), so that a call finds what two killed ones have
  left.
- `fetch`: two versions, one listed twice under the same name, one under three names;
  three calls (`MaxCalls`), so that a call finds what an interrupted one and one
  after it have left.
- `expat_helpers`: three blocks, one of them foreign, and three records are enough
  for a removal at the head, in the middle and at the tail.  `MaxChars`,
  `ExtensionCount` stand for 2048 and 8: texts may be shorter, exactly as long or
  longer than the buffer, records need three extensions; the proofs cover the real
  sizes.  The hash gets all cuts of a message of 15 bytes (`SpecMessage`), a full
  buffer and the rest of one; a text of `MaxBytes` = 6 has every kind of byte before
  and after the longest character.
- `expat_tests`: the suite is run in windows, each test alone in round after round,
  and each pair of neighbours; what a test leaves behind reaches the next one, which
  starts from a setup of its own.  `MaxAttempts` = 3 shortens the loops: the first
  attempt, the last and one in between.  Calls need nothing, one allocation each, or
  one less or more than the loop reaches.  Two releases, on the two sides of most
  guards, and a replacement at any moment.  Two blocks and two records for the
  tracker, one of which a round may leak.
- `zlib`: no bound; the state space of the module is finite, the round number is not
  part of it.  `Example_proofs` shows why the properties hold.
- `crypt`: two threads, each of which may be a missing, broken or proper test, and up
  to two runs, or unlimited ones: the first and the last run of each thread with any
  run of the other one in between.  The proofs are for any number of both.

Deadlock is not checked where the system stops: a script ends, a crashed process
does nothing.

## Fairness

`WF_vars(Script)`, in `Generator` `WF_vars(Container)` and in `LinkTarget`
`WF_vars(Next)`, all for the same reason: the commands of a script are executed
one after the other, each of them ends by itself, and sleeps are finite.  A shell
that has a command to execute gets to it.  Nothing is assumed of the application
(it may hang, crash or never report), of Luci, of the service, of users who
interrupt, or of the number of times somebody calls `gen-lib.sh`.  The liveness
properties of `Control` and `LinkTarget` hold with that alone.  In `Host` and
`Generator` no liveness property is checked; their fairness states the same
assumption, and that a container comes to its end needs no more than the bound
`ContainerAdvances`. `Fetch`, `Memcheck`, `Helpers` and `Example`
state none.

In `FaultTests` it is `WF_vars(Application)`: the test application has a thread of
its own and calls of the library end.  Replacements by Luci and the parser's use of
the tracking allocator are not part of it.  In `CryptTest` the main thread and each
test thread are scheduled (`WF`), and a test does not hash for ever
(`SF_vars(Return(t))`): each of the ten programs makes a fixed number of calls, so
one that keeps getting to the comparison returns at last.

## Proofs

`tlapm` proves the theorems below for every value of the constants, that is for
any number of versions, files, commits and calls.

**Control_proofs.**  The invariants build on each other, each with a lemma that
goes through all actions:

1. `TypeInv`: `TypeOK` and a bound on `pid`, without which `StartApp` could leave
   the set of instances: `pid < version` whenever a restart is under way.
2. `RunInv`: `OneRunning`, and nobody runs between the kill of a restart and the
   start.  The second part makes the first inductive.
3. `LineInv`: every line stems from an instance started so far and a version that
   instance has tried, and both files hold lines that have been written.  It is
   why a new line differs from all old ones.
4. `FailureStaysVisible` from these; `LastInv`, which says where the lines of the
   last instance are before the end, for `FinishedKeepsLast`.
5. `FileInv`, under `TruncatesInfo`: which lines the two files may share at each
   label, for `NoDoubleLogging` and `LostOnlyAfterFailure`.
6. `AuxInv`: `loaded` never ahead of `judged`, nothing ahead of the links, the end
   only after the last version.  With all of the above each step of `Control` is
   a step of `Backtest` or a stutter (`NextRefines`), which gives
   `Implementation`: `Spec => ImplementsExperiment`.
7. `AbortInv`, under `AnnouncesLoad`: while the script looks at an instance, that one
   runs unless one has crashed, and `status.info` holds at least the line about the
   library it was started with.  So neither `kill` nor `grep` of `stop()` fails, which
   is `AbortsOnlyAfterCrash`.
8. `CountInv`: an instance begins with a version that no earlier one has gone beyond,
   so that lines about updates, of all instances, name different versions after the
   first.  `CountBound` maps the lines to their versions, an injection, and
   `NoDoubleLogging` excludes copies, which gives `AtMostAllUpdated`.
9. `NextIsLoop`: `LinkTarget` and `Delay` are the steps of `VersionLoop`, all others
   stutter, which gives `ControlImplementsLoop`.  With `LinkTargetImplementsLoop` it
   says in what sense `LinkTarget` is the step of that name.
10. `ScriptAdvances` and `OverAtZero` bound the commands the script has left: each
   command lowers the bound, the application never raises it, and it is zero at the end
   only, which is after the last version.  That is all of `AllVersionsTried` but the
   fairness of the script.
11. `KeepsSoundOnly`, an action property: an instance is kept for the next version only
   if it runs and has no failed update behind it.  It is the step of
   `FailureLeadsToReplacement` that could go wrong, and follows from
   `FailureStaysVisible`: the `grep` reads a file that `cat`, `echo` and a new Luci
   have been at, but finds every failure of the running instance there.

`TypeOK`, `OneRunning`, `FailureStaysVisible` and `FinishedKeepsLast` are proved
for every Luci; `AbortsOnlyAfterCrash` for one that announces the library;
`NoDoubleLogging`, `LostOnlyAfterFailure`, `AtMostAllUpdated` and the implementation
for one that truncates.  With one that appends, what `restart()` has copied stays in
`status.info` and is copied to the log again.

**Testor_proofs.**  Both halves of `testor.sh`.

*The links.*  `Progress` says for each label what every link is: during
the first loop a file not visited yet is as the previous change has left it,
during the second the files of the version are done and only older links remain.
With `TypeOK` it is inductive, and all safety properties of the module follow.
`LibraryLink` derives from it where the link of the library leads: to the version
before as long as the file is still to be visited, to the current one otherwise.
So linking that file is the step of `VersionLoop`, the return of `run()` is the
other one, and all else stutters (`NextIsLoop`): `Spec => ImplementsLoop`.
The only assumption on the files is that each version has the library.

*The services.*  `ServiceInv`: at most one service is up, it is the one on the
port, and unless the script is between its start and the `kill` it was left behind
in one of the gaps.  `SummaryInv`: the tests started, and for each that is over a
summary or the reason why there is none.  One of the reasons is `Untranslatable`, and
it lasts: only the current container changes the logs.  Together with `TypeOK`
inductive; the three properties of the run follow for any number of runs.

**Generator_proofs.**  For the libraries whose copy of the sources is where
`git clean` gets (`InSourceDir`): `CopyInv` says where that copy is at each
command, which gives `OwnSources`.  `DirInv` adds that the version being built is
not logged yet, that a failed build belongs to a commit that can fail, and that
each incomplete directory is accounted for.  Two lemmas split the steps into those
that change the directory of the current commit only (`OnlyTheCurrent`) and those
that change none (`SameDirectories`).  Without `InSourceDir` the run
`generator_stale_sources` refutes `OwnSources`.

What holds for all libraries, wherever the copy is, limits that finding.  `LeftoverInv`
says that a copy which is there when a commit is begun holds the sources of an earlier
one whose build has failed, `LogInv` what a logged directory is made from; with
`TypeOK` they are inductive (`AnyInv`).  So foreign sources come from a failed build only
(`ForeignOnlyAfterFailure`), a directory in a build log is made from those of a commit
that is able to build (`LoggedFromOwnOrFlaky`), and one commit that never builds keeps
all commits behind it out of the log until the container ends (`BrokenCopyStays`).
`ContainerAdvances`: each command, failed or not, lowers a bound on the commands that
are left, so a container comes to its end if its commands do.

**Fetch_proofs.**  `LoopInv` bounds the loops.  `DiskInv` says that links lead to
archives, that an incomplete archive is being downloaded or was torn, and that a file
which has passed the check is not touched again for the same version; it gives
`NoTornExtracted` and `AbortsOnlyOnTorn`.  `DirInv` says that versions passed are
complete, reported or unlisted, and gives the other two: the inner loop gets to its
end without a file only if each entry was refused, which is reported, or there was
none.

**CryptTest_proofs.**  `OwnInv` is about one thread: how many runs it has begun and
finished, that without a fault the struct it is about to look at holds its own hash,
and what it returns.  A step of one thread leaves all that the others depend on as it
is (`OthersSame`), which is the point of the wrapper.  `JoinInv` counts what `main()`
has been through by the cardinality of two sets of tests; a thread that can still
take a step has not been counted (`JoinKept`).  `TimeInv` keeps the times: the struct
of `gmtime()` holds that of a run that is over, or of the thread's own.
`EndComesNearer`: each step but the hashing itself lowers what the thread or `main()`
has left to do, and no step of one raises what another has, for the number of runs is
fixed before the first thread begins: `Termination` without the fairness.

**FaultTests_proofs.**  For any tests, suites, releases, blocks and records.
`SuiteAssumption` says what the tests of `make_suite()` have in common (`WellFormed`:
for instance that a call which frees the external parser comes after the one that
creates it; `Fits`: a test that creates `g_parser` has no setup that does), and
`MemoryAssumption` that the records are finite in number.  TLC evaluates both, for
the real suite.  The theorems need an induction over the calls of an attempt only
where costs are added up.

1. `ExerciseInv`: while all releases met could pass the test, the loop variable is
   moved on by a refusal only, since an error without one needs a release that does
   not work.  It gives `PassMeansExercised`.
2. `RunnerNext` are the steps of the runner; every step of the application is one of
   them or leaves its counters alone (`NextIsRunners`), which gives `CountsTruthful`,
   a property that no run repeats.  `FixtureNeverStarved` follows from what the setups
   do.
3. `FaultInv` has one part per property, each preserved by every step under the
   parts before it.  `CheckInv`: the round's tests are those registered for the
   release `make_suite()` has read, and the one in progress is among them
   (`GuardsHold`).  `KindInv`: where a test of each kind can be.  `FreshInv`: from the
   first attempt on no flag and no text is older than the attempt (`FreshEvidence`).
   `ExtInv`: the external parser lives between the call that creates it and the one
   that frees it, and `OwnInv`: `g_parser` is lost only by a test that has failed
   (`OnlyFailuresLoseParsers`).  `HeldInv` takes the invariant of the tracker's list
   from `Helpers_proofs`, as an instance; with it `LeakNeverForgiven` is inductive, for
   the verdict of the tracking test is about the list.  `CrashInv`: the list has lost
   its tail only behind a block of an earlier round (`CrashOnlyAfterLeak`).
4. `CountingInv` adds what an attempt counts.  `Sums(c, s)` says that `s[k]` is what the
   calls before the *k*-th cost; that there is such an `s` (`SumsExist`) is an induction.
   `CallInv`: between the call that arms the counter and now it went down by exactly the
   difference of two of the sums.  `TallyInv`: an attempt that fails was refused what
   the sums exceed its number by, so the next number is still in the loop; one that gets
   to the end is neither the first nor beyond the last.  `FailuresExplained`, an action
   property, follows: a step that fails a test needs counts that contradict these sums
   for a release that could pass it.
5. `TypeOK` in the end, since that the counters are natural numbers needs `CallInv`.
6. `RoundAdvances`: each step takes a test to a later place of its attempt, to its next
   attempt, of which there is a last one (`CostInv`), or to its verdict, and the round to
   its next test.  The proof needs that an attempt is given up with `continue` in a loop
   only, which `WellFormed` says: with a fixed number of allocations the same attempt
   would be made for ever.  It is `RoundsEnd` without the fairness.

**Helpers_proofs.**  `NatSetInduction` is induction over the natural numbers for the
elements of a set, from the least number outside of it; the provers do not instantiate
the library's rule, which is about an operator.  A recursive function `f` is a `CHOOSE`,
so before anything is known of it one has to show that a function with its equation
exists: by induction over the bound of the domain (`FeedsExist`, `WalksExist`,
`EndsUnfold`), or by giving it (`NthUnfolds`).

- *Tracker*, any blocks and records.  `InOrder(n, order)` numbers the records of the
  list along `next` and against `prev` and says that they describe the blocks of the
  heap, each of them once; the tail is the last record or lost.  `ListInv`: there is
  such a numbering.  Adding a record makes it longer by one (`AddKeepsOrder`), a removal
  moves up what comes behind (`UnlinkKeepsOrder`: at the head, in the middle, at the
  tail), and a `realloc()` that moves a block replaces it (`MoveKeepsOrder`).
- *Recorders*, any sizes.  `CharInv`: the buffer holds the whole text as long as that
  is shorter than the buffer, and is never filled.  `StructInv`: `max_count` says how
  much room there is until a disposal.
- *Hash*.  `sip24_update()` of two pieces one after the other is that of both together
  (`PiecesJoin`, for any pieces), so `HashInv`: the state is the one after the beginning
  of the message in one piece.  The theorem has a hypothesis, `sip24_valid`, the test of
  the code for messages in one piece: to evaluate 16 hashes is TLC's part, and
  `PiecesHashAlike` in the first step from the initial state is just that.
- *Printing*.  `Printed` reads an image back, which is the injection (`BytesPrintWell`).
- *Trimming*, for texts of any length.  `WalksOver`: from one lead byte back to the one
  before it the walk counts the bytes; `WalksToEnd`: started at the end of a character
  it stays there, with 0 or 1 byte walked.  The walk from an incomplete character gets
  to its lead byte with too few and goes on with 1 (`TrimsBeginnings`).

**Example_proofs.**  The module has no constants, but a proof says why its properties
hold where the run only finds that they do.  What the state has to be at a step
follows from the steps the test has done (`Done`): a stream is open if the last one
that opens or closes has opened it (`Opened`), and `compr` holds what the last one that
writes it has written, or what the tests before have left (`Content`).  `TestsFit` goes
through the ten tests once and says what they have in common.  `ExampleInv` has three
parts beside the types: `StreamInv`, `OwnerInv` (the last output in `compr` is that of
this test, or of the producer that has just passed) and `CleanInv` (in a round without
faults no test has failed, the buffers are those above, and the length is a short one
only from `test_flush()` to `test_sync()`).  A step within a test (`WithinTest`), the
end of one (`EndOfTest`) and the start of the next (`Starting`) keep them.

Some of the properties proved are repeated by no run: `CountsTruthful`, the bounds on
what is left (`ScriptAdvances` with `OverAtZero`, `ContainerAdvances`, `EndComesNearer`,
`RoundAdvances`), `KeepsSoundOnly`, and the three of `Generator` for all libraries.  They
hold on the instances of the runs as well.

Only model-checked: that the liveness properties follow from those bounds, which takes
fairness and `ENABLED` and is out of the prover's reach, and the hashes of the messages
in one piece.

## Where the code and its documentation differ

The first three have a run whose counterexample is the scenario.

1. `expat/run-test.sh:123-124`: a FAILED line written between `cat` and `echo` is
   in no file (`EveryFailureLogged`).  `README.md:209`: "Failures will be logged".
2. `expat/src-test/memcheck.c:116`: freeing the newest block sets the tail of the
   list to NULL; the next allocation dereferences it (`NeverCrashes`).
3. `zlib/gen-lib.sh:11`, `libxcrypt/gen-lib.sh:13`: after a failed build the copy in
   `/tmp` stays and is built in the name of the next version (`OwnSources`).
   `README.md:121`: "a subsequent build must not use any artifacts".
4. `expat/run-test.sh:133`: the plain `kill` of `stop()` fails if the application
   has crashed since the last check, and `set -e` ends the script before the last
   lines are saved.  `README.md:209`: the scripts "will restart the test application
   and continue".  `Control` has the step (`StopKillFails`); `AbortsOnlyAfterCrash`
   says that nothing else ends the script.
5. `tools/testor.sh:148`: an interrupt between the start of the service and the
   trap leaves it running, and it answers the next run.  `expat/run-test.sh:45`:
   "Starting elfvars service to provide hashes".  `ForeignServiceOnlyUnguarded` says
   that there is no other way to it.

Four more disagreements are states of the models without a run of their own.  A
version directory exists from `mkdir` on, so after a kill `generator.sh:67` skips a
version that has never been built (`IncompleteOnlyIfInterrupted` says that there is
no other cause).  `snapshot-fetch.py --force`, "Overwrite (re-)download existing
files" (line 171), does not overwrite links, see `Fetch`.  Without a package for the
architecture (lines 63-66) the same script makes an empty version directory (line 138)
and prints nothing, while every other failure has a message (`SuccessIsComplete`).  And
a backtest whose instances all crash before Luci creates `status.info` has no summary
(see `Host`, `SummaryUnlessServiceDied`), although `expat/README.md:39` says: "In the
end, the results of all individual tests [...] are stored".

## What is not modelled

- Luci: not in the sources.  Its lines in `status.info` are the environment of
  `Control`, with every outcome possible.
- What the basic, namespace and accounting tests of expat look at: each parses its
  own document and compares what libexpat reports.  The documents and the right
  answers are facts about XML, no state of this code; `AllocTests` lists the tests by
  their number and fixture.  `ascii.h` and `internal.h` hold names, `test_helper.h` a
  macro.
- A run of `Control` with a Luci that appends to an old `status.info`.  The model has
  it (`TruncatesInfo`), the proofs say which properties do not need a Luci that
  truncates, and the run is about one that does.
- Memory and descriptors that failing rounds have leaked never run out, in `Example`
  as in `FaultTests`.
- In `FaultTests` the checks a test makes once its loop is over, such as the last ones
  of `test_alloc_create_external_parser` (8305-8308), and the second parse of
  `external_entity_dbl_handler`: they fail with a release that does not work, and are
  part of `works`.
- The table of `unsignedCharToPrintable` is modelled by the rule its 256 cases follow;
  `PrintsApart` is about the rule, and a slip in one of the cases is out of its reach.
- In `FaultTests` a library whose number of allocations varies without a replacement;
  memory that the C library refuses on its own account within a loop.
- In `CryptTest` a failing `pthread_join()`, which the code only reports for threads
  that do not exist.
- `launchpad-fetch.sh`, and of `snapshot-fetch.py` the options for sources and debug
  symbols, which no script of the repository uses.
- Time.  Delays are steps that may take any time, so every order of reports and
  checks is possible, more than the real delays allow.  The attribution of updates
  to versions in `summary-runs.py`, which compares time stamps, is out of reach
  with that.
- The names of the log directories, by which two runs of the same minute meet.
- A path that is a directory in one version and a link to one in another, where
  `ln -sf` would follow the link.
- The wording of logs, argument parsing, the resolution of git references, fixes
  for single versions, `setup.sh`, `update.sh`, `cleanup.sh` and the stages that
  call the other scripts in a fixed order.
- `run-baseline.sh` and the scripts of OpenSSL.  The first restarts the application
  for each version without looking at it; the others are variants of `Control` with
  two processes, see the plan.

## Plan

Done: `Control`, `Backtest`, `LinkTarget`, `VersionLoop`, `Host`, `Generator`,
`Memcheck`, `Fetch`, `Minicheck`, `AllocTests`, `FaultTests`, `SipHash`, `Internal`,
`Helpers`, `Example` and `CryptTest`, with proofs for each component; every invariant and
every action property of the runs is proved, and the three refinements.

What could follow:

- **1** the OpenSSL scripts and `run-baseline.sh` as variants of `Control`: a client
  loop next to the server, and a script without Luci.
- **2** `launchpad-fetch.sh` next to `Fetch`: it does not check the size of a file it
  finds.  One specification of "fetched" for both to implement.
- **3** summaries: counts as functions of the logs that `Control` leaves, and a model
  of time for their attribution to versions.
- **4** the composition of `Control` with one of the test applications: `Control`
  knows an application only by its lines and its crashes.
