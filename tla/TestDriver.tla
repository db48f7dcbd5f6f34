----------------------------- MODULE TestDriver -----------------------------
(***************************************************************************)
(* The test driver, test_drv/TestOptCacheDrv.cpp: the system's thread, that *)
(* loads and unloads it; the master thread, that runs the suite; and the    *)
(* worker threads of the test that is running.                              *)
(*                                                                          *)
(* The cache is there or is not; what it answers is any answer (KmCacheSet  *)
(* has the operations).  Time is left out: a sleep ends at any moment.      *)
(***************************************************************************)
EXTENDS SampleSort

CONSTANTS
  Threads,           \* of a test that uses all: 1x, 3x or 4x the processors
  Contexts,          \* payload sizes the suite is run for: 3
  SamplesPerThread,  \* uSamplesPerThread
  Times,             \* latencies a sample may show
  WaitObjects        \* MAXIMUM_WAIT_OBJECTS

ASSUME ThreadsAssumption == Threads \in Nat \ {0}
ASSUME ContextsAssumption == Contexts \in Nat \ {0}
ASSUME SamplesAssumption == SamplesPerThread \in Nat \ {0}
ASSUME TimesAssumption == Times \subseteq Nat
ASSUME WaitObjectsAssumption == WaitObjects \in Nat \ {0}

VARIABLES
  sys,       \* where DriverEntry and DriverUnload are
  log,       \* g_pLogBuffer: "none", "live" or "freed"
  abort,     \* g_lAbortTests
  closed,    \* g_TestRundown gives no more protection
  master,    \* where RunBenchmarks is
  place,     \* the context size and the test of it that is running
  passed,    \* bTestsPassed
  verdict,   \* what the last line of the log says
  cache,     \* the test's cache is initialized
  team,      \* the TEST_THREAD_MANAGER and the WorkerCtx of the test
  threads,   \* the worker threads
  seen,      \* some worker ever found wrong data
  cut        \* the places that failed or ended after an abort

vars == <<sys, log, abort, closed, master, place, passed, verdict, cache, team,
          threads, samples, sort, seen, cut>>

system == <<sys, log, closed>>
suite  == <<place, passed, verdict, cut>>
sorting == <<samples, sort>>

Workers == 0 .. Threads - 1

(* pc; held, pThreads[w] is not NULL; taken, the samples it has stored. *)
NoThread == [pc |-> "none", held |-> FALSE, taken |-> 0]

NoTeam ==
  [live |-> FALSE, size |-> 0, next |-> 0, event |-> FALSE, start |-> FALSE,
   stop |-> FALSE, corrupt |-> FALSE, chunk |-> 0, waited |-> {}]
NoSamples == [k \in {} |-> 0]
-----------------------------------------------------------------------------
(***************************************************************************)
(* The tests: which worker they start (or none), whether the first round    *)
(* has one thread only, whether FALSE ends the suite.                       *)
(***************************************************************************)
Test(name, worker, sweeps, counts) ==
  [name |-> name, worker |-> worker, sweeps |-> sweeps, counts |-> counts]

(* Mutant of CorrectnessTest: what it returns is not looked at. *)
CorrectnessUnheeded == Test("correctness", "none", FALSE, FALSE)

CorrectnessTest == Test("correctness", "none", FALSE, TRUE)
EvictionTest == Test("eviction", "none", FALSE, TRUE)
(* Mutant of AbaTest: what it returns is not looked at. *)
AbaTestUnheeded == Test("aba", "aba", FALSE, FALSE)

AbaTest == Test("aba", "aba", FALSE, TRUE)
ComprehensiveTest == Test("comprehensive", "mixed", FALSE, TRUE)
OversubscribedTest == Test("oversubscribed", "mixed", FALSE, TRUE)
ConstantEvictionTest == Test("constant eviction", "eviction", FALSE, TRUE)
ScalingSweep == Test("scaling", "scaling", TRUE, FALSE)
TailLatencyTest == Test("tail latency", "tail", FALSE, TRUE)

(* RunTestsForContext; one sweep stands for the four. *)
Suite == <<CorrectnessTest, EvictionTest, AbaTest, ComprehensiveTest,
           OversubscribedTest, ConstantEvictionTest, ScalingSweep,
           TailLatencyTest>>

Current == Suite[place[2]]
LastPlace == <<Contexts, Len(Suite)>>

Next2(p) == IF p[2] < Len(Suite) THEN <<p[1], p[2] + 1>> ELSE <<p[1] + 1, 1>>

Init ==
  /\ sys = "entry"
  /\ log = "none"
  /\ abort = FALSE
  /\ closed = FALSE
  /\ master = "none"
  /\ place = <<1, 1>>
  /\ passed = TRUE
  /\ verdict = "none"
  /\ cache = FALSE
  /\ team = NoTeam
  /\ threads = [w \in Workers |-> NoThread]
  /\ samples = NoSamples
  /\ sort = NotSorting
  /\ seen = FALSE
  /\ cut = {}
-----------------------------------------------------------------------------
(***************************************************************************)
(* DriverEntry and DriverUnload.                                            *)
(***************************************************************************)
SystemOnly ==
  UNCHANGED <<place, passed, verdict, cache, team, threads, sorting, seen, cut>>

(* The log does without its buffer if it must. *)
AllocateLog ==
  /\ sys = "entry"
  /\ log' \in {"none", "live"}
  /\ sys' = "create"
  /\ UNCHANGED <<abort, closed, master>> /\ SystemOnly

(* The second disjunct: no thread, an error is returned and the image goes, *)
(* the buffer stays.                                                        *)
CreateMaster ==
  /\ sys = "create"
  /\ \/ sys' = "reference" /\ master' = "check"
     \/ sys' = "rejected" /\ UNCHANGED master
  /\ UNCHANGED <<log, abort, closed>> /\ SystemOnly

ReferenceMaster ==
  /\ sys = "reference"
  /\ \/ sys' = "loaded" /\ UNCHANGED abort
     \/ sys' = "entry wait" /\ abort' = TRUE
  /\ UNCHANGED <<log, closed, master>> /\ SystemOnly

(* The wait for the handle; the error is returned, the buffer stays. *)
Reject ==
  /\ sys = "entry wait"
  /\ master = "ended"
  /\ sys' = "rejected"
  /\ UNCHANGED <<log, abort, closed, master>> /\ SystemOnly

RequestUnload ==
  /\ sys = "loaded"
  /\ abort' = TRUE
  /\ sys' = "close"
  /\ UNCHANGED <<log, closed, master>> /\ SystemOnly

(* ExWaitForRundownProtectionRelease: from now on none is given ... *)
CloseRundown ==
  /\ sys = "close"
  /\ closed' = TRUE
  /\ sys' = "rundown"
  /\ UNCHANGED <<log, abort, master>> /\ SystemOnly

(* ... and it returns when what was given is released. *)
Protected == {w \in Workers : threads[w].pc \in {"spin", "loop"}}
AwaitRundown ==
  /\ sys = "rundown"
  /\ Protected = {}
  /\ sys' = "unload wait"
  /\ UNCHANGED <<log, abort, closed, master>> /\ SystemOnly

(* Mutant of AwaitMaster: rundown protection is believed to be enough. *)
SkipMaster ==
  /\ sys = "unload wait"
  /\ sys' = "free"
  /\ UNCHANGED <<log, abort, closed, master>> /\ SystemOnly

AwaitMaster ==
  /\ sys = "unload wait"
  /\ master = "ended"
  /\ sys' = "free"
  /\ UNCHANGED <<log, abort, closed, master>> /\ SystemOnly

FreeLog ==
  /\ sys = "free"
  /\ log' = IF log = "live" THEN "freed" ELSE log
  /\ sys' = "gone"
  /\ UNCHANGED <<abort, closed, master>> /\ SystemOnly

System ==
  \/ AllocateLog \/ CreateMaster \/ ReferenceMaster \/ Reject
  \/ CloseRundown \/ AwaitRundown \/ AwaitMaster \/ FreeLog
-----------------------------------------------------------------------------
(***************************************************************************)
(* RunBenchmarks and the tests, all in the master thread.                   *)
(***************************************************************************)
MasterOnly == UNCHANGED <<system, seen>>

(* The test returns; what it owns goes with its frame. *)
Return(ok) ==
  /\ cache' = FALSE
  /\ samples' = NoSamples
  /\ cut' = IF ok /\ ~abort THEN cut ELSE cut \cup {place}
  /\ IF ok \/ ~Current.counts
       THEN /\ place' = IF place = LastPlace THEN place ELSE Next2(place)
            /\ master' = IF place = LastPlace THEN "report" ELSE "check"
            /\ UNCHANGED passed
       ELSE master' = "report" /\ passed' = FALSE /\ UNCHANGED place
  /\ UNCHANGED verdict

(* ABORT_CHECK. *)
Check ==
  /\ master = "check"
  /\ IF abort THEN master' = "report" /\ passed' = FALSE
     ELSE master' = "initialize" /\ UNCHANGED passed
  /\ team' = [NoTeam EXCEPT !.size = IF Current.sweeps THEN 1 ELSE Threads]
  /\ UNCHANGED <<abort, place, verdict, cut, cache, threads, sorting>> /\ MasterOnly

(* The TEST_REQUIRE around Initialize, which may fail. *)
InitializeCache ==
  /\ master = "initialize"
  /\ \/ /\ ~abort
        /\ cache' = TRUE
        /\ master' = CASE Current.worker = "none" -> "alone"
                       [] Current.worker = "tail" -> "samples"
                       [] OTHER -> "manager"
        /\ UNCHANGED <<suite, samples>>
     \/ Return(FALSE)
  /\ UNCHANGED <<abort, team, threads, sort>> /\ MasterOnly

(* The tests without threads.  The eviction test looks at the abort flag   *)
(* only where it finds the last key.                                       *)
RunAlone ==
  /\ master = "alone"
  /\ \/ (Current = EvictionTest \/ ~abort) /\ Return(TRUE)
     \/ Return(FALSE)
  /\ UNCHANGED <<abort, team, threads, sort>> /\ MasterOnly

(* The samples of a thread that is never created stay zero. *)
AllocateSamples ==
  /\ master = "samples"
  /\ \/ /\ samples' = [k \in 0 .. Threads * SamplesPerThread - 1 |-> 0]
        /\ master' = "manager"
        /\ UNCHANGED <<suite, cache>>
     \/ Return(FALSE)
  /\ UNCHANGED <<abort, team, threads, sort>> /\ MasterOnly

AllocateManager ==
  /\ master = "manager"
  /\ \/ /\ team' = [NoTeam EXCEPT !.size = team.size, !.live = TRUE]
        /\ master' = "start"
        /\ UNCHANGED <<suite, cache, samples>>
     \/ Return(FALSE) /\ UNCHANGED team
  /\ UNCHANGED <<abort, threads, sort>> /\ MasterOnly

(* StartThreads, one thread: it is created and referenced; it cannot be     *)
(* created; or it cannot be referenced, and the tests are to be aborted.    *)
StartThread ==
  /\ master = "start"
  /\ team.next < team.size
  /\ \/ /\ threads' = [threads EXCEPT ![team.next].pc = "wait",
                                      ![team.next].held = TRUE]
        /\ team' = [team EXCEPT !.next = @ + 1]
        /\ UNCHANGED <<master, abort>>
     \/ team' = [team EXCEPT !.next = @ + 1] /\ UNCHANGED <<threads, master, abort>>
     \/ /\ threads' = [threads EXCEPT ![team.next].pc = "wait"]
        /\ team' = [team EXCEPT !.stop = TRUE, !.event = TRUE]
        /\ abort' = TRUE
        /\ master' = "unreferenced"
  /\ UNCHANGED <<suite, cache, sorting>> /\ MasterOnly

(* Mutant of AwaitUnreferenced: the handle is closed without a wait. *)
LeaveUnreferenced ==
  /\ master = "unreferenced"
  /\ team' = [team EXCEPT !.next = @ + 1]
  /\ master' = "start"
  /\ UNCHANGED <<abort, suite, cache, threads, sorting>> /\ MasterOnly

AwaitUnreferenced ==
  /\ master = "unreferenced"
  /\ threads[team.next].pc = "ended"
  /\ team' = [team EXCEPT !.next = @ + 1]
  /\ master' = "start"
  /\ UNCHANGED <<abort, suite, cache, threads, sorting>> /\ MasterOnly

(* Mutant of SetEvent: the workers are left waiting for their event. *)
SetNoEvent ==
  /\ master = "start"
  /\ team.next = team.size
  /\ master' = "go"
  /\ UNCHANGED <<abort, suite, cache, team, threads, sorting>> /\ MasterOnly

(* The event is set at the end of StartThreads, and then lStartFlag. *)
SetEvent ==
  /\ master = "start"
  /\ team.next = team.size
  /\ team' = [team EXCEPT !.event = TRUE]
  /\ master' = "go"
  /\ UNCHANGED <<abort, suite, cache, threads, sorting>> /\ MasterOnly

Go ==
  /\ master = "go"
  /\ team' = [team EXCEPT !.start = TRUE]
  /\ master' = "sleep"
  /\ UNCHANGED <<abort, suite, cache, threads, sorting>> /\ MasterOnly

(* Mutant of Stop: an abort ends the sleep and skips the stop flag. *)
StopOnTimeOnly ==
  /\ master = "sleep"
  /\ \E chunk \in {WaitObjects, 1} :
       team' = [team EXCEPT !.stop = ~abort, !.chunk = chunk]
  /\ master' = "wait"
  /\ UNCHANGED <<abort, suite, cache, threads, sorting>> /\ MasterOnly

(* StopAndWaitThreads: the sleep ends, by time or by abort, and the stop    *)
(* flag is set; without memory for the array the waits are single.          *)
Stop ==
  /\ master = "sleep"
  /\ \E chunk \in {WaitObjects, 1} :
       team' = [team EXCEPT !.stop = TRUE, !.chunk = chunk]
  /\ master' = "wait"
  /\ UNCHANGED <<abort, suite, cache, threads, sorting>> /\ MasterOnly

Unwaited == {w \in Workers : threads[w].held} \ team.waited

(* The next threads to wait for, as many as one wait takes. *)
Chunk == {w \in Unwaited :
            Cardinality({v \in Unwaited : v < w}) < team.chunk}

(* Mutant of AwaitThreads: only the first wait is made. *)
AwaitFirstChunk ==
  /\ master = "wait"
  /\ IF team.waited # {} \/ Unwaited = {} THEN master' = "clean" /\ UNCHANGED team
     ELSE /\ \A w \in Chunk : threads[w].pc = "ended"
          /\ team' = [team EXCEPT !.waited = @ \cup Chunk]
          /\ UNCHANGED master
  /\ UNCHANGED <<abort, suite, cache, threads, sorting>> /\ MasterOnly

AwaitThreads ==
  /\ master = "wait"
  /\ IF Unwaited = {} THEN master' = "clean" /\ UNCHANGED team
     ELSE /\ \A w \in Chunk : threads[w].pc = "ended"
          /\ team' = [team EXCEPT !.waited = @ \cup Chunk]
          /\ UNCHANGED master
  /\ UNCHANGED <<abort, suite, cache, threads, sorting>> /\ MasterOnly

(* What the threads have stored: each its own part of the array, which      *)
(* nobody reads before this.  What none has stored is zero.                 *)
Stored(k) ==
  LET w == k \div SamplesPerThread
  IN  IF k % SamplesPerThread < threads[w].taken THEN Times ELSE {0}

(* delete pMgr and Cleanup; the flags of WorkerCtx stay with the frame. *)
CleanUp ==
  /\ master = "clean"
  /\ threads' = [w \in Workers |->
       IF threads[w].pc = "ended" THEN NoThread ELSE threads[w]]
  /\ team' = [NoTeam EXCEPT !.size = team.size, !.corrupt = team.corrupt]
  /\ cache' = FALSE
  /\ IF Current.worker = "tail"
       THEN /\ master' = "sort"
            /\ samples' \in [DOMAIN samples -> Times \cup {0}]
            /\ \A k \in DOMAIN samples : samples'[k] \in Stored(k)
            /\ sort' = StartSort
       ELSE master' = "verify" /\ UNCHANGED sorting
  /\ UNCHANGED <<abort, suite>> /\ MasterOnly

Sort ==
  /\ master = "sort"
  /\ SortStep
  /\ UNCHANGED <<abort, master, suite, cache, team, threads>> /\ MasterOnly

(* The percentiles are logged, whatever the samples are. *)
LogPercentiles ==
  /\ master = "sort"
  /\ sort = NotSorting
  /\ Return(TRUE)
  /\ UNCHANGED <<abort, team, threads, sort>> /\ MasterOnly

(* The last TEST_REQUIRE of a test with threads. *)
Verify ==
  /\ master = "verify"
  /\ ~Current.sweeps
  /\ Return(~abort /\ ~team.corrupt)
  /\ UNCHANGED <<abort, team, threads, sort>> /\ MasterOnly

(* Mutant of Sweep: the doubled number is not capped. *)
SweepUncapped ==
  /\ master = "verify"
  /\ Current.sweeps
  /\ IF team.size >= Threads THEN Return(TRUE) /\ UNCHANGED team
     ELSE /\ team' = [NoTeam EXCEPT !.size = 2 * team.size]
          /\ master' = "initialize"
          /\ UNCHANGED <<suite, cache, samples>>
  /\ UNCHANGED <<abort, threads, sort>> /\ MasterOnly

(* A sweep doubles the threads up to the most there may be. *)
Sweep ==
  /\ master = "verify"
  /\ Current.sweeps
  /\ IF team.size >= Threads THEN Return(TRUE) /\ UNCHANGED team
     ELSE /\ team' = [NoTeam EXCEPT !.size =
               IF 2 * team.size > Threads THEN Threads ELSE 2 * team.size]
          /\ master' = "initialize"
          /\ UNCHANGED <<suite, cache, samples>>
  /\ UNCHANGED <<abort, threads, sort>> /\ MasterOnly

Report ==
  /\ master = "report"
  /\ verdict' = CASE passed -> "finished"
                  [] ~passed /\ abort -> "aborted"
                  [] OTHER -> "error"
  /\ master' = "flush"
  /\ UNCHANGED <<abort, place, passed, cut, cache, team, threads, sorting>>
  /\ MasterOnly

(* FlushLogToFile looks at the buffer, opens the file and then writes. *)
Flush ==
  /\ master = "flush"
  /\ master' = IF log = "live" THEN "write" ELSE "ended"
  /\ UNCHANGED <<abort, suite, cache, team, threads, sorting>> /\ MasterOnly

WriteLog ==
  /\ master = "write"
  /\ master' = "ended"
  /\ UNCHANGED <<abort, suite, cache, team, threads, sorting>> /\ MasterOnly

Master ==
  \/ Check \/ InitializeCache \/ RunAlone \/ AllocateSamples \/ AllocateManager
  \/ StartThread \/ AwaitUnreferenced \/ SetEvent \/ Go \/ Stop \/ AwaitThreads
  \/ CleanUp \/ Sort \/ LogPercentiles \/ Verify \/ Sweep
  \/ Report \/ Flush \/ WriteLog
-----------------------------------------------------------------------------
(***************************************************************************)
(* The workers.  All begin and end alike and differ in their loops.         *)
(***************************************************************************)
WorkerOnly == UNCHANGED <<system, abort, master, suite, cache, sort>>

MoveTo(w, pc) == threads' = [threads EXCEPT ![w].pc = pc]

(* The event, and then rundown protection: without it the thread ends (at   *)
(* "leave" a thread has no protection, or no longer, and touches nothing).  *)
Enter(w) ==
  /\ threads[w].pc = "wait"
  /\ team.event
  /\ MoveTo(w, IF closed THEN "leave" ELSE "spin")
  /\ UNCHANGED <<team, samples, seen>> /\ WorkerOnly

Spin(w) ==
  /\ threads[w].pc = "spin"
  /\ team.start
  /\ MoveTo(w, "loop")
  /\ UNCHANGED <<team, samples, seen>> /\ WorkerOnly

Loops(w, worker) == threads[w].pc = "loop" /\ Current.worker = worker

(* The stop flag is seen; protection is released. *)
LeaveWhenStopped(w) ==
  /\ team.stop
  /\ MoveTo(w, "leave")
  /\ UNCHANGED <<team, samples, seen>> /\ WorkerOnly

ReportCorruption(w) ==
  /\ ~team.stop
  /\ team' = [team EXCEPT !.corrupt = TRUE]
  /\ seen' = TRUE
  /\ UNCHANGED <<threads, samples>> /\ WorkerOnly

(* Even threads delete and insert one key, the odd ones look it up. *)
AbaWorker(w) ==
  /\ Loops(w, "aba")
  /\ LeaveWhenStopped(w) \/ (w % 2 = 1 /\ ReportCorruption(w))

MixedOpsWorker(w) ==
  /\ Loops(w, "mixed")
  /\ LeaveWhenStopped(w) \/ ReportCorruption(w)

ConstantEvictionWorker(w) ==
  /\ Loops(w, "eviction")
  /\ LeaveWhenStopped(w) \/ ReportCorruption(w)

ScalingWorker(w) == Loops(w, "scaling") /\ LeaveWhenStopped(w)

(* Mutant of TailLatencyWorker: it heeds the stop flag like the others. *)
TailUntilStopped(w) ==
  /\ Loops(w, "tail")
  /\ IF threads[w].taken = SamplesPerThread \/ team.stop
       THEN MoveTo(w, "leave")
       ELSE threads' = [threads EXCEPT ![w].taken = @ + 1]
  /\ UNCHANGED <<team, samples, seen>> /\ WorkerOnly

(* A step stores one sample: the rounds between, which only use the cache,  *)
(* change nothing.  It heeds an abort, not the stop flag.                   *)
TailLatencyWorker(w) ==
  /\ Loops(w, "tail")
  /\ IF threads[w].taken = SamplesPerThread \/ abort
       THEN MoveTo(w, "leave")
       ELSE threads' = [threads EXCEPT ![w].taken = @ + 1]
  /\ UNCHANGED <<team, samples, seen>> /\ WorkerOnly

(* PsTerminateSystemThread, with no protection any more. *)
Terminate(w) ==
  /\ threads[w].pc = "leave"
  /\ MoveTo(w, "ended")
  /\ UNCHANGED <<team, samples, seen>> /\ WorkerOnly

Worker(w) ==
  \/ Enter(w) \/ Spin(w) \/ Terminate(w)
  \/ AbaWorker(w) \/ MixedOpsWorker(w) \/ ConstantEvictionWorker(w)
  \/ ScalingWorker(w) \/ TailLatencyWorker(w)

Next == System \/ RequestUnload \/ Master \/ \E w \in Workers : Worker(w)

Spec == Init /\ [][Next]_vars

(* The kernel runs every thread that can run.  Nobody has to unload. *)
FairSpec ==
  /\ Spec
  /\ WF_vars(System)
  /\ WF_vars(Master)
  /\ \A w \in Workers : WF_vars(Worker(w))
-----------------------------------------------------------------------------
(***************************************************************************)
(* Properties.                                                              *)
(***************************************************************************)
(* The type invariant. *)
TypeOK ==
  /\ log \in {"none", "live", "freed"}
  /\ {abort, closed, passed, cache, seen} \subseteq BOOLEAN
  /\ place \in (1 .. Contexts) \X (1 .. Len(Suite))
  /\ team.size \in 0 .. Threads /\ team.next \in 0 .. team.size
  /\ threads \in [Workers -> [pc : {"none", "wait", "spin", "loop", "leave", "ended"},
                              held : BOOLEAN, taken : 0 .. SamplesPerThread]]
  /\ DOMAIN samples \in {{}, 0 .. Threads * SamplesPerThread - 1}

(* When the log buffer is freed, and when the driver's image goes, after an *)
(* unload or an entry that failed, no thread of the driver runs its code.   *)
Quiet ==
  /\ master \in {"none", "ended"}
  /\ \A w \in Workers : threads[w].pc \in {"none", "ended"}
NothingRunsWhenUnloaded ==
  log = "freed" \/ sys \in {"free", "gone", "rejected"} => Quiet

(* A worker that may touch its cache, its manager, its context or its       *)
(* samples finds them there.                                                *)
WorkersHaveTheirTest ==
  \A w \in Workers : threads[w].pc \in {"wait", "spin", "loop"} =>
    /\ team.live /\ cache
    /\ Current.worker = "tail" => samples # NoSamples

(* The samples are sorted when nobody writes them, and, unless the tests    *)
(* were aborted, a thread that was created has stored all of its own.       *)
SamplesAreComplete ==
  [][master = "clean" /\ master' = "sort" =>
       \A w \in Workers : threads[w].pc # "none" =>
         threads[w].pc = "ended" /\ (abort \/ threads[w].taken = SamplesPerThread)
    ]_vars

(* Wrong data found by a worker is never followed by the line that all      *)
(* tests finished successfully.                                             *)
CorruptionIsReported == seen => verdict # "finished"

(* That line is true, but for the sweeps, whose results are not looked at,  *)
(* and for the very last test, which succeeds when it is aborted.           *)
SuccessMeansSuccess ==
  verdict = "finished" =>
    \A p \in cut : p = LastPlace \/ Suite[p[2]].sweeps

(* A thread that could not be referenced waits for a start that its creator *)
(* gives only after it has ended.                                           *)
Stuck == master = "unreferenced" /\ threads[team.next].pc = "spin"

(* Unless it is stuck so, the driver always comes to rest: the suite ends   *)
(* by itself, and an entry or an unload that has begun comes to its end.    *)
AtRest == master \in {"none", "ended"} /\ sys \in {"loaded", "gone", "rejected"}
DriverComesToRest == []<>(AtRest \/ Stuck)
=============================================================================
