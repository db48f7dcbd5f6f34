-------------------------- MODULE TestDriverProofs --------------------------
(***************************************************************************)
(* What holds of the test driver for every number of threads, contexts and  *)
(* samples, wherever an allocation, a thread or a test fails and whenever   *)
(* an unload is requested.                                                  *)
(***************************************************************************)
EXTENDS TestDriver, TLAPS

Teams ==
  [live : BOOLEAN, size : 0 .. Threads, next : 0 .. Threads, event : BOOLEAN,
   start : BOOLEAN, stop : BOOLEAN, corrupt : BOOLEAN, chunk : Nat,
   waited : SUBSET Workers]

(* Where the master is while the workers of a test may be there, where they *)
(* may still have to be waited for, and where the suite is over.            *)
Gathering   == {"start", "unreferenced", "go", "sleep"}
TeamPhases  == Gathering \cup {"wait", "clean"}
TestPhases  == {"initialize", "alone", "samples", "manager", "sort", "verify"}
            \cup TeamPhases
EndPhases   == {"report", "flush", "write", "ended"}

Active == {"wait", "spin", "loop", "leave"}

(***************************************************************************)
(* The inductive invariant.                                                 *)
(***************************************************************************)
Typed ==
  /\ TypeOK
  /\ team \in Teams
  /\ master \in {"none", "check"} \cup TestPhases \cup EndPhases
  /\ master = "unreferenced" => team.next < team.size

(* How far the system's thread is says how far the master is. *)
Lifecycle ==
  /\ sys \in {"entry", "create"} => master = "none"
  /\ sys = "rejected" => master \in {"none", "ended"}
  /\ sys \in {"free", "gone"} => master = "ended"
  /\ log = "freed" => sys = "gone"
  /\ sys = "close" \/ closed => abort

(* What a test has set up when its threads start. *)
Ready ==
  /\ cache
  /\ Current.worker # "none"
  /\ Current.worker = "tail" => samples # NoSamples

(* A running worker is one the master will wait for, or is waiting for; a   *)
(* worker of the tail latency test ends with all its samples or an abort.   *)
Crew ==
  /\ master = "samples" => cache /\ Current.worker = "tail"
  /\ master \in {"manager"} \cup TeamPhases => Ready
  /\ master \in TeamPhases => team.live
  /\ master \notin TeamPhases => \A w \in Workers : threads[w].pc = "none"
  /\ master \in Gathering => team.waited = {}
  /\ master = "clean" => \A w \in Workers : threads[w].pc \in {"none", "ended"}
  /\ \A w \in Workers :
       /\ threads[w].pc \in Active =>
            threads[w].held \/ (master = "unreferenced" /\ w = team.next)
       /\ w \in team.waited => threads[w].pc = "ended"
       /\ threads[w].pc \in {"leave", "ended"} /\ Current.worker = "tail"
            => abort \/ threads[w].taken = SamplesPerThread

(* Wrong data is noted in the test, until the test fails and ends the suite. *)
Checks(test) == test.worker \in {"aba", "mixed", "eviction"}
Noted ==
  /\ verdict # "none" => master \in EndPhases
  /\ verdict = "finished" => passed
  /\ seen => \/ /\ master \in TeamPhases \cup {"verify"}
                /\ Checks(Current) /\ team.corrupt
             \/ master \in EndPhases /\ ~passed

(* A test that failed or was aborted has ended the suite, or will with the  *)
(* next look at the abort flag.                                             *)
Excused(p) == p = LastPlace \/ Suite[p[2]].sweeps
Counted ==
  passed => (\A p \in cut : Excused(p)) \/ (master = "check" /\ abort)

Driving == Typed /\ Lifecycle /\ Crew /\ Noted /\ Counted
-----------------------------------------------------------------------------
(* The suite: a test without sweeps counts, and so does one that checks its *)
(* data or measures tail latencies.                                         *)
LEMMA SuiteFacts ==
  /\ Len(Suite) = 8
  /\ \A i \in 1 .. Len(Suite) :
       /\ Suite[i].counts \in BOOLEAN /\ Suite[i].sweeps \in BOOLEAN
       /\ ~Suite[i].counts => Suite[i].sweeps
       /\ Suite[i].sweeps => Suite[i].worker = "scaling"
       /\ Suite[i].worker = "tail" \/ Checks(Suite[i]) => Suite[i].counts
<1>1. Len(Suite) = 8
  BY DEF Suite
<1>2. /\ Suite[1] = CorrectnessTest /\ Suite[2] = EvictionTest
      /\ Suite[3] = AbaTest /\ Suite[4] = ComprehensiveTest
      /\ Suite[5] = OversubscribedTest /\ Suite[6] = ConstantEvictionTest
      /\ Suite[7] = ScalingSweep /\ Suite[8] = TailLatencyTest
  BY DEF Suite
<1>3. \A i \in 1 .. Len(Suite) : i \in {1, 2, 3, 4, 5, 6, 7, 8}
  BY <1>1
<1> DEFINE Sound(test) ==
      /\ test.counts \in BOOLEAN /\ test.sweeps \in BOOLEAN
      /\ ~test.counts => test.sweeps
      /\ test.sweeps => test.worker = "scaling"
      /\ test.worker = "tail" \/ Checks(test) => test.counts
<1>4. /\ Sound(CorrectnessTest) /\ Sound(EvictionTest) /\ Sound(AbaTest)
      /\ Sound(ComprehensiveTest) /\ Sound(OversubscribedTest)
      /\ Sound(ConstantEvictionTest) /\ Sound(ScalingSweep)
      /\ Sound(TailLatencyTest)
  BY DEF CorrectnessTest, EvictionTest, AbaTest, ComprehensiveTest,
     OversubscribedTest, ConstantEvictionTest, ScalingSweep, TailLatencyTest,
     Test, Checks
<1>5. \A i \in 1 .. Len(Suite) : Sound(Suite[i])
  BY <1>2, <1>3, <1>4
<1> QED
  BY <1>1, <1>5

(* The same of the test that is running. *)
LEMMA CurrentFacts ==
  ASSUME Typed
  PROVE  /\ place[1] \in 1 .. Contexts /\ place[2] \in 1 .. Len(Suite)
         /\ place = <<place[1], place[2]>>
         /\ Current.counts \in BOOLEAN /\ Current.sweeps \in BOOLEAN
         /\ ~Current.counts => Current.sweeps
         /\ Current.sweeps => Current.worker = "scaling"
         /\ Current.worker = "tail" \/ Checks(Current) => Current.counts
<1>1. /\ place[1] \in 1 .. Contexts /\ place[2] \in 1 .. Len(Suite)
      /\ place = <<place[1], place[2]>>
  BY DEF Typed, TypeOK
<1> QED
  BY <1>1, SuiteFacts DEF Current

(* The next place, when there is one, is a place. *)
LEMMA NextPlace ==
  ASSUME Typed, place # LastPlace
  PROVE  Next2(place) \in (1 .. Contexts) \X (1 .. Len(Suite))
<1>1. /\ place[1] \in 1 .. Contexts /\ place[2] \in 1 .. 8
      /\ place = <<place[1], place[2]>> /\ Len(Suite) = 8
  BY CurrentFacts, SuiteFacts
<1>2. CASE place[2] < 8
  BY <1>1, <1>2, ContextsAssumption DEF Next2
<1>3. CASE place[2] = 8
  <2>1. place[1] # Contexts
    BY <1>1, <1>3 DEF LastPlace
  <2> QED
    BY <1>1, <1>3, <2>1, ContextsAssumption DEF Next2
<1> QED
  BY <1>1, <1>2, <1>3
-----------------------------------------------------------------------------
(***************************************************************************)
(* What each of the three parties leaves alone.                             *)
(***************************************************************************)
(* The system's thread touches no test; it starts the master, once, and     *)
(* takes no abort back.                                                     *)
LEMMA SystemFrame ==
  ASSUME System \/ RequestUnload
  PROVE  /\ UNCHANGED <<place, passed, verdict, cache, team, threads, samples,
                        sort, seen, cut>>
         /\ abort' = abort \/ abort' = TRUE
         /\ master' = master \/ (master' = "check" /\ sys = "create")
BY DEF System, RequestUnload, AllocateLog, CreateMaster, ReferenceMaster, Reject,
   CloseRundown, AwaitRundown, AwaitMaster, FreeLog, SystemOnly, sorting

(* The master touches neither the system's state nor what was seen, and     *)
(* moves only while it runs.                                                *)
LEMMA MasterFrame ==
  ASSUME Master
  PROVE  /\ UNCHANGED <<sys, log, closed, seen>>
         /\ abort' = abort \/ abort' = TRUE
         /\ master \notin {"none", "ended"} /\ master' # "none"
<1> USE DEF MasterOnly, system, Return
<1>1. CASE Check \/ InitializeCache \/ RunAlone \/ AllocateSamples \/ AllocateManager
  BY <1>1 DEF Check, InitializeCache, RunAlone, AllocateSamples, AllocateManager
<1>2. CASE StartThread \/ AwaitUnreferenced \/ SetEvent \/ Go \/ Stop
  BY <1>2 DEF StartThread, AwaitUnreferenced, SetEvent, Go, Stop
<1>3. CASE AwaitThreads \/ CleanUp \/ Sort
  BY <1>3 DEF AwaitThreads, CleanUp, Sort
<1>4. CASE LogPercentiles \/ Verify \/ Sweep
  BY <1>4 DEF LogPercentiles, Verify, Sweep
<1>5. CASE Report \/ Flush \/ WriteLog
  BY <1>5 DEF Report, Flush, WriteLog
<1> QED
  BY <1>1, <1>2, <1>3, <1>4, <1>5 DEF Master

(* A worker changes its own entry of threads, or notes wrong data. *)
Moves(w) ==
  /\ UNCHANGED <<team, seen>>
  /\ \E pc \in {"spin", "loop", "leave", "ended"}, taken \in 0 .. SamplesPerThread :
       /\ threads' = [threads EXCEPT ![w] =
                        [pc |-> pc, held |-> threads[w].held, taken |-> taken]]
       /\ pc \in {"leave", "ended"} /\ Current.worker = "tail" =>
            \/ abort \/ closed \/ taken = SamplesPerThread
            \/ threads[w].pc = "leave" /\ taken = threads[w].taken
Notes ==
  /\ Checks(Current)
  /\ team' = [team EXCEPT !.corrupt = TRUE]
  /\ seen' = TRUE
  /\ UNCHANGED threads

LEMMA WorkerFrame ==
  ASSUME Typed, NEW w \in Workers, Worker(w)
  PROVE  /\ UNCHANGED <<sys, log, closed, abort, master, place, passed, verdict,
                        cut, cache, samples, sort>>
         /\ threads[w].pc \in Active
         /\ Moves(w) \/ Notes
<1> DEFINE own == threads[w]
<1>1. /\ own.pc \in {"none", "wait", "spin", "loop", "leave", "ended"}
      /\ own.taken \in 0 .. SamplesPerThread
      /\ own = [pc |-> own.pc, held |-> own.held, taken |-> own.taken]
      /\ threads = [v \in Workers |-> threads[v]]
  BY DEF Typed, TypeOK
<1>2. \A pc : MoveTo(w, pc) => threads' = [threads EXCEPT ![w] =
                 [pc |-> pc, held |-> own.held, taken |-> own.taken]]
  BY <1>1 DEF MoveTo
<1> USE <1>1 DEF WorkerOnly, system, suite, Active, Moves, Notes, Checks
<1>3. CASE Enter(w)
  BY <1>2, <1>3 DEF Enter
<1>4. CASE Spin(w)
  BY <1>2, <1>4 DEF Spin
<1>5. CASE Terminate(w)
  BY <1>2, <1>5 DEF Terminate
<1>6. CASE AbaWorker(w)
  BY <1>2, <1>6 DEF AbaWorker, Loops, LeaveWhenStopped, ReportCorruption
<1>7. CASE MixedOpsWorker(w)
  BY <1>2, <1>7 DEF MixedOpsWorker, Loops, LeaveWhenStopped, ReportCorruption
<1>8. CASE ConstantEvictionWorker(w)
  BY <1>2, <1>8 DEF ConstantEvictionWorker, Loops, LeaveWhenStopped, ReportCorruption
<1>9. CASE ScalingWorker(w)
  BY <1>2, <1>9 DEF ScalingWorker, Loops, LeaveWhenStopped
<1>10. CASE TailLatencyWorker(w)
  BY <1>2, <1>10, SamplesAssumption DEF TailLatencyWorker, Loops
<1> QED
  BY <1>3, <1>4, <1>5, <1>6, <1>7, <1>8, <1>9, <1>10 DEF Worker
-----------------------------------------------------------------------------
(***************************************************************************)
(* Types.                                                                   *)
(***************************************************************************)
(* Wherever a test returns, the next place is a place. *)
LEMMA ReturnTypes ==
  ASSUME Typed, NEW ok \in BOOLEAN, Return(ok)
  PROVE  /\ place' \in (1 .. Contexts) \X (1 .. Len(Suite))
         /\ passed' \in BOOLEAN
         /\ cache' = FALSE /\ samples' = NoSamples
         /\ master' \in {"check", "report"}
<1>1. place \in (1 .. Contexts) \X (1 .. Len(Suite)) /\ passed \in BOOLEAN
  BY DEF Typed, TypeOK
<1> QED
  BY <1>1, NextPlace DEF Return

(* The types of what the master changes. *)
MasterTypes ==
  /\ abort \in BOOLEAN /\ passed \in BOOLEAN /\ cache \in BOOLEAN
  /\ place \in (1 .. Contexts) \X (1 .. Len(Suite))
  /\ team \in Teams /\ team.next <= team.size
  /\ threads \in [Workers -> [pc : {"none", "wait", "spin", "loop", "leave", "ended"},
                              held : BOOLEAN, taken : 0 .. SamplesPerThread]]
  /\ DOMAIN samples \in {{}, 0 .. Threads * SamplesPerThread - 1}
  /\ master \in {"none", "check"} \cup TestPhases \cup EndPhases
  /\ master = "unreferenced" => team.next < team.size

SystemTypes ==
  /\ log \in {"none", "live", "freed"}
  /\ closed \in BOOLEAN /\ seen \in BOOLEAN

(* Typed is these two, before a step and after it. *)
LEMMA TypesSplit ==
  /\ Typed => MasterTypes /\ SystemTypes
  /\ MasterTypes' /\ SystemTypes' => Typed'
<1>1. ASSUME Typed PROVE MasterTypes /\ SystemTypes
  BY <1>1, ThreadsAssumption DEF Typed, TypeOK, MasterTypes, SystemTypes, Teams
<1>2. ASSUME MasterTypes', SystemTypes' PROVE Typed'
  BY <1>2, ThreadsAssumption DEF Typed, TypeOK, MasterTypes, SystemTypes, Teams
<1> QED
  BY <1>1, <1>2

(* A fresh TEST_THREAD_MANAGER and WorkerCtx, for any number of threads. *)
LEMMA FreshTeam ==
  /\ NoTeam \in Teams
  /\ NoTeam.next = 0 /\ NoTeam.waited = {} /\ NoTeam.corrupt = FALSE
  /\ \A n \in 0 .. Threads :
       LET sized == [NoTeam EXCEPT !.size = n]
       IN  sized \in Teams /\ sized.next = 0 /\ sized.size = n
  /\ \A n \in 0 .. Threads :
       LET live == [NoTeam EXCEPT !.size = n, !.live = TRUE]
       IN  /\ live \in Teams /\ live.next = 0 /\ live.size = n
           /\ live.live = TRUE /\ live.waited = {}
  /\ \A n \in 0 .. Threads, corrupt \in BOOLEAN :
       LET over == [NoTeam EXCEPT !.size = n, !.corrupt = corrupt]
       IN  /\ over \in Teams /\ over.next = 0 /\ over.size = n
           /\ over.waited = {} /\ over.corrupt = corrupt
<1>1. {} \in SUBSET Workers /\ 0 \in 0 .. Threads /\ 0 \in Nat
  BY ThreadsAssumption
<1>2. NoTeam \in Teams
  BY <1>1, Zenon DEF Teams, NoTeam
<1>3. NoTeam.next = 0 /\ NoTeam.waited = {} /\ NoTeam.corrupt = FALSE
  BY DEF NoTeam
<1> QED
  BY <1>2, <1>3 DEF Teams

(* The master keeps the types of what it changes. *)
LEMMA MasterTyping ==
  ASSUME Typed, Master
  PROVE  MasterTypes'
<1>1. MasterTypes
  BY TypesSplit
<1>2. abort' \in BOOLEAN
  BY <1>1, MasterFrame DEF MasterTypes
<1>3. ASSUME NEW ok \in BOOLEAN, Return(ok), team' \in Teams, team'.next <= team'.size,
             UNCHANGED threads
      PROVE  MasterTypes'
  <2>1. DOMAIN NoSamples = {}
    BY DEF NoSamples
  <2> QED
    BY <1>1, <1>2, <1>3, <2>1, ReturnTypes DEF MasterTypes, TestPhases, EndPhases
<1> USE <1>1, <1>2 DEF MasterTypes, TestPhases, TeamPhases, Gathering, EndPhases,
        suite, sorting
<1>5. CASE Check
  <2>1. 1 \in 0 .. Threads /\ Threads \in 0 .. Threads
    BY ThreadsAssumption
  <2>2. PICK n \in 0 .. Threads : team' = [NoTeam EXCEPT !.size = n]
    BY <1>5, <2>1, Zenon DEF Check
  <2>3. team' \in Teams /\ team'.next = 0 /\ team'.size \in 0 .. Threads
    BY <2>2, FreshTeam, Zenon
  <2>4. team'.next <= team'.size
    BY <2>3, ThreadsAssumption
  <2>5. master' \in {"report", "initialize"} /\ passed' \in BOOLEAN
        /\ UNCHANGED <<abort, place, cache, threads, samples>>
    BY <1>5 DEF Check
  <2> QED
    BY <2>3, <2>4, <2>5
<1>6. CASE InitializeCache
  BY <1>3, <1>6 DEF InitializeCache
<1>7. CASE RunAlone
  BY <1>3, <1>7 DEF RunAlone
<1>8. CASE AllocateSamples
  BY <1>3, <1>8 DEF AllocateSamples
<1>9. CASE AllocateManager
  <2>1. team.size \in 0 .. Threads
    BY DEF Teams
  <2> QED
    <3>1. CASE Return(FALSE) /\ UNCHANGED team
      BY <1>3, <1>9, <3>1 DEF AllocateManager
    <3>2. CASE /\ team' = [NoTeam EXCEPT !.size = team.size, !.live = TRUE]
               /\ master' = "start"
               /\ UNCHANGED <<suite, cache, samples>>
      <4>1. team' \in Teams /\ team'.next = 0 /\ team'.size = team.size
        BY <2>1, <3>2, FreshTeam, Zenon
      <4> QED
        BY <1>9, <2>1, <3>2, <4>1, ThreadsAssumption DEF AllocateManager
    <3> QED
      BY <1>9, <3>1, <3>2 DEF AllocateManager
<1>10. CASE StartThread
  <2> DEFINE Entries == [pc : {"none", "wait", "spin", "loop", "leave", "ended"},
                         held : BOOLEAN, taken : 0 .. SamplesPerThread]
  <2>1. /\ team.next \in Workers /\ team.next < team.size
        /\ team.next \in Nat /\ team.size \in 0 .. Threads
    BY <1>10, ThreadsAssumption DEF StartThread, Teams, Workers
  <2>2. /\ [team EXCEPT !.next = @ + 1] \in Teams
        /\ [team EXCEPT !.next = @ + 1].next = team.next + 1
        /\ [team EXCEPT !.next = @ + 1].size = team.size
    BY <2>1, ThreadsAssumption DEF Teams
  <2>3. /\ [team EXCEPT !.stop = TRUE, !.event = TRUE] \in Teams
        /\ [team EXCEPT !.stop = TRUE, !.event = TRUE].next = team.next
        /\ [team EXCEPT !.stop = TRUE, !.event = TRUE].size = team.size
    BY DEF Teams
  <2>4. \A entry \in Entries : [threads EXCEPT ![team.next] = entry] \in [Workers -> Entries]
    BY <2>1
  <2>5. [threads[team.next] EXCEPT !.pc = "wait"] \in Entries
    BY <2>1
  <2>6. threads' \in [Workers -> Entries]
    <3>1. CASE UNCHANGED threads
      BY <3>1
    <3>2. CASE threads' = [threads EXCEPT ![team.next].pc = "wait"]
      BY <2>4, <2>5, <3>2
    <3>3. CASE threads' = [threads EXCEPT ![team.next].pc = "wait",
                                          ![team.next].held = TRUE]
      BY <2>1, <3>3
    <3> QED
      BY <1>10, <3>1, <3>2, <3>3 DEF StartThread
  <2>7. UNCHANGED <<place, passed, cache, samples>>
    BY <1>10 DEF StartThread
  <2>8. CASE team' = [team EXCEPT !.next = @ + 1] /\ UNCHANGED master
    BY <1>10, <2>1, <2>2, <2>6, <2>7, <2>8 DEF StartThread
  <2>9. CASE team' = [team EXCEPT !.stop = TRUE, !.event = TRUE] /\ master' = "unreferenced"
    BY <2>1, <2>3, <2>6, <2>7, <2>9
  <2> QED
    BY <1>10, <2>8, <2>9 DEF StartThread
<1>11. CASE AwaitUnreferenced
  BY <1>11, ThreadsAssumption DEF AwaitUnreferenced, Teams
<1>12. CASE SetEvent
  BY <1>12 DEF SetEvent, Teams
<1>13. CASE Go
  BY <1>13 DEF Go, Teams
<1>14. CASE Stop
  <2>1. PICK chunk \in Nat : team' = [team EXCEPT !.stop = TRUE, !.chunk = chunk]
    BY <1>14, WaitObjectsAssumption DEF Stop
  <2>2. team' \in Teams /\ team'.next = team.next /\ team'.size = team.size
    BY <2>1 DEF Teams
  <2> QED
    BY <1>14, <2>2 DEF Stop
<1>15. CASE AwaitThreads
  <2>1. team.waited \cup Chunk \subseteq Workers
    BY DEF Teams, Chunk, Unwaited
  <2>2. /\ [team EXCEPT !.waited = @ \cup Chunk] \in Teams
        /\ [team EXCEPT !.waited = @ \cup Chunk].next = team.next
        /\ [team EXCEPT !.waited = @ \cup Chunk].size = team.size
    BY <2>1 DEF Teams
  <2> QED
    BY <1>15, <2>2 DEF AwaitThreads
<1>16. CASE CleanUp
  <2>1. team' \in Teams /\ team'.next <= team'.size
    <3>1. team.size \in 0 .. Threads /\ team.corrupt \in BOOLEAN
      BY DEF Teams
    <3>2. team' \in Teams /\ team'.next = 0 /\ team'.size = team.size
      BY <1>16, <3>1, FreshTeam, Zenon DEF CleanUp
    <3> QED
      BY <3>1, <3>2, ThreadsAssumption
  <2>2. threads' \in [Workers -> [pc : {"none", "wait", "spin", "loop", "leave", "ended"},
                               held : BOOLEAN, taken : 0 .. SamplesPerThread]]
    BY <1>16, SamplesAssumption DEF CleanUp, NoThread
  <2>3. DOMAIN samples' = DOMAIN samples
    BY <1>16 DEF CleanUp
  <2> QED
    BY <1>16, <2>1, <2>2, <2>3 DEF CleanUp
<1>17. CASE Sort
  <2>1. DOMAIN samples' = DOMAIN samples
    BY <1>17 DEF Sort, SortStep, Pop, Swap, Split
  <2> QED
    BY <1>17, <2>1 DEF Sort
<1>18. CASE LogPercentiles
  BY <1>3, <1>18 DEF LogPercentiles
<1>19. CASE Verify
  <2>1. (~abort /\ ~team.corrupt) \in BOOLEAN
    OBVIOUS
  <2> QED
    BY <1>3, <1>19, <2>1 DEF Verify
<1>20. CASE Sweep
  <2>1. team.size \in 0 .. Threads
    BY DEF Teams
  <2>2. CASE team.size >= Threads
    BY <1>3, <1>20, <2>2 DEF Sweep
  <2>3. CASE ~(team.size >= Threads)
    <3> DEFINE n == IF 2 * team.size > Threads THEN Threads ELSE 2 * team.size
    <3>1. n \in 0 .. Threads
      BY <2>1, ThreadsAssumption
    <3>2. team' = [NoTeam EXCEPT !.size = n]
      BY <1>20, <2>3, Zenon DEF Sweep
    <3>3. team' \in Teams /\ team'.next = 0 /\ team'.size = n
      <4> HIDE DEF n
      <4> QED
        BY <3>1, <3>2, FreshTeam, Zenon
    <3>4. team'.next <= team'.size
      BY <3>1, <3>3, ThreadsAssumption
    <3>5. master' = "initialize"
          /\ UNCHANGED <<abort, place, passed, cache, threads, samples>>
      BY <1>20, <2>3 DEF Sweep
    <3> QED
      BY <3>3, <3>4, <3>5
  <2> QED
    BY <2>2, <2>3
<1>21. CASE Report \/ Flush \/ WriteLog
  BY <1>21 DEF Report, Flush, WriteLog
<1> QED
  BY <1>5, <1>6, <1>7, <1>8, <1>9, <1>10, <1>11, <1>12, <1>13, <1>14, <1>15,
     <1>16, <1>17, <1>18, <1>19, <1>20, <1>21 DEF Master

(* Every step keeps the types. *)
LEMMA TypedKept ==
  ASSUME Typed, [Next]_vars
  PROVE  Typed'
<1>1. MasterTypes /\ SystemTypes
  BY TypesSplit
<1>2. CASE System \/ RequestUnload
  <2>1. MasterTypes'
    BY <1>1, <1>2, SystemFrame DEF MasterTypes, TestPhases, EndPhases
  <2>2. SystemTypes'
    BY <1>1, <1>2 DEF SystemTypes, System, RequestUnload, AllocateLog, CreateMaster,
       ReferenceMaster, Reject, CloseRundown, AwaitRundown, AwaitMaster, FreeLog,
       SystemOnly
  <2> QED
    BY <2>1, <2>2, TypesSplit
<1>3. CASE Master
  BY <1>1, <1>3, MasterTyping, MasterFrame, TypesSplit DEF SystemTypes
<1>4. ASSUME NEW w \in Workers, Worker(w) PROVE Typed'
  <2>1. CASE Moves(w)
    BY <1>1, <1>4, <2>1, WorkerFrame, TypesSplit DEF MasterTypes, SystemTypes, Moves
  <2>2. CASE Notes
    BY <1>1, <1>4, <2>2, WorkerFrame, TypesSplit DEF MasterTypes, SystemTypes, Notes, Teams
  <2> QED
    BY <1>4, <2>1, <2>2, WorkerFrame
<1>5. CASE UNCHANGED vars
  BY <1>1, <1>5, TypesSplit DEF vars, MasterTypes, SystemTypes
<1> QED
  BY <1>2, <1>3, <1>4, <1>5 DEF Next
-----------------------------------------------------------------------------
(***************************************************************************)
(* The system's thread and the master.                                      *)
(***************************************************************************)
(* No step separates the system's thread from its master. *)
LEMMA LifecycleKept ==
  ASSUME Typed, Lifecycle, [Next]_vars
  PROVE  Lifecycle'
<1> USE DEF Lifecycle
<1>1. CASE System \/ RequestUnload
  <2> USE <1>1 DEF System, AllocateLog, CreateMaster, ReferenceMaster, Reject,
          RequestUnload, CloseRundown, AwaitRundown, AwaitMaster, FreeLog
  <2>1. (sys = "close" \/ closed => abort)'
    BY Zenon
  <2>2. /\ sys' \in {"entry", "create"} => master' = "none"
        /\ sys' = "rejected" => master' \in {"none", "ended"}
        /\ sys' \in {"free", "gone"} => master' = "ended"
        /\ log' = "freed" => sys' = "gone"
    OBVIOUS
  <2> QED
    BY <2>1, <2>2
<1>2. CASE Master
  <2>1. (sys = "close" \/ closed => abort)'
    BY <1>2, MasterFrame, Zenon
  <2>2. UNCHANGED <<sys, log>> /\ master \notin {"none", "ended"}
    BY <1>2, MasterFrame
  <2> QED
    BY <2>1, <2>2
<1>3. ASSUME NEW w \in Workers, Worker(w) PROVE Lifecycle'
  BY <1>3, WorkerFrame DEF Lifecycle
<1>4. CASE UNCHANGED vars
  BY <1>4 DEF Lifecycle, vars
<1> QED
  BY <1>1, <1>2, <1>3, <1>4 DEF Next
-----------------------------------------------------------------------------
(***************************************************************************)
(* What a step of the master does to the suite: the test returns, or the    *)
(* test or the end of the suite goes on.                                    *)
(***************************************************************************)
Returns ==
  /\ master \in TestPhases \ TeamPhases
  /\ UNCHANGED <<abort, team, threads>>
  /\ \E ok \in BOOLEAN :
       /\ Return(ok)
       /\ master = "verify" => Current.sweeps \/ (ok => ~team.corrupt)

Onward ==
  /\ UNCHANGED <<place, passed, verdict, cut>>
  /\ \/ master \in TestPhases /\ master' \in TestPhases
     \/ master \in {"flush", "write"} /\ master' \in {"write", "ended"}
  /\ master \in TeamPhases =>
       /\ team'.corrupt = team.corrupt
       /\ Current.worker # "tail" => master' \in TeamPhases \cup {"verify"}
  /\ master = "verify" => Current.sweeps

(* Every step of the master is one of four kinds. *)
LEMMA MasterSteps ==
  ASSUME Typed, Master
  PROVE  Returns \/ Onward \/ Check \/ Report
<1>1. team \in Teams
  BY DEF Typed
<1> USE <1>1 DEF Returns, Onward, TestPhases, TeamPhases, Gathering, suite, sorting
<1>2. CASE InitializeCache
  BY <1>2 DEF InitializeCache
<1>3. CASE RunAlone
  BY <1>3 DEF RunAlone
<1>4. CASE AllocateSamples \/ AllocateManager
  BY <1>4 DEF AllocateSamples, AllocateManager
<1>5. CASE StartThread
  BY <1>5 DEF StartThread, Teams
<1>6. CASE AwaitUnreferenced \/ SetEvent \/ Go \/ Stop
  BY <1>6 DEF AwaitUnreferenced, SetEvent, Go, Stop, Teams
<1>7. CASE AwaitThreads
  BY <1>7 DEF AwaitThreads, Teams
<1>8. CASE CleanUp
  <2>1. team'.corrupt = team.corrupt
    <3>1. team.size \in 0 .. Threads /\ team.corrupt \in BOOLEAN
      BY DEF Teams
    <3> QED
      BY <1>8, <3>1, FreshTeam, Zenon DEF CleanUp
  <2> QED
    BY <1>8, <2>1 DEF CleanUp
<1>9. CASE Sort
  BY <1>9 DEF Sort
<1>10. CASE LogPercentiles
  BY <1>10 DEF LogPercentiles
<1>11. CASE Verify
  <2>1. (~abort /\ ~team.corrupt) \in BOOLEAN
    OBVIOUS
  <2> QED
    BY <1>11, <2>1 DEF Verify
<1>12. CASE Sweep
  BY <1>12 DEF Sweep
<1>13. CASE Flush \/ WriteLog
  BY <1>13 DEF Flush, WriteLog
<1> QED
  BY <1>2, <1>3, <1>4, <1>5, <1>6, <1>7, <1>8, <1>9, <1>10, <1>11, <1>12, <1>13
  DEF Master

(* No step forgets a test that failed. *)
LEMMA CountedKept ==
  ASSUME Typed, Noted, Counted, [Next]_vars
  PROVE  Counted'
<1> USE DEF Counted, Excused, LastPlace
<1>1. CASE System \/ RequestUnload
  <2>1. master' = "check" /\ sys = "create" => master # "check" \/ master' = master
    OBVIOUS
  <2> QED
    BY <1>1, <2>1, SystemFrame
<1>2. CASE Master
  <2>1. CASE Returns
    <3>1. PICK ok \in BOOLEAN : Return(ok)
      BY <2>1 DEF Returns
    <3>2. master # "check" /\ abort' = abort
      BY <2>1 DEF Returns, TestPhases, TeamPhases, Gathering
    <3>3. CASE ok \/ ~Current.counts
      <4>1. cut' = cut \/ (cut' = cut \cup {place} /\ (abort \/ Suite[place[2]].sweeps))
        BY <3>1, <3>3, CurrentFacts DEF Return, Current
      <4>2. passed' = passed
        BY <3>1, <3>3 DEF Return
      <4>3. place = LastPlace \/ master' = "check"
        BY <3>1, <3>3 DEF Return
      <4> QED
        BY <3>2, <4>1, <4>2, <4>3
    <3>4. CASE ~(ok \/ ~Current.counts)
      BY <3>1, <3>4 DEF Return
    <3> QED
      BY <3>3, <3>4
  <2>2. CASE Onward
    BY <1>2, <2>2, MasterFrame DEF Onward, TestPhases, TeamPhases, Gathering
  <2>3. CASE Check
    BY <2>3 DEF Check
  <2>4. CASE Report
    BY <2>4 DEF Report
  <2> QED
    BY <1>2, <2>1, <2>2, <2>3, <2>4, MasterSteps
<1>3. ASSUME NEW w \in Workers, Worker(w) PROVE Counted'
  BY <1>3, WorkerFrame
<1>4. CASE UNCHANGED vars
  BY <1>4 DEF vars
<1> QED
  BY <1>1, <1>2, <1>3, <1>4 DEF Next

(* No step forgets wrong data. *)
LEMMA NotedKept ==
  ASSUME Typed, Lifecycle, Crew, Noted, [Next]_vars
  PROVE  Noted'
<1> USE DEF Noted
<1>1. CASE System \/ RequestUnload
  <2>1. master' = master \/ (master = "none" /\ master' = "check")
    BY <1>1, SystemFrame DEF Lifecycle
  <2>2. /\ UNCHANGED <<verdict, passed, seen, team>> /\ Current' = Current
    BY <1>1, SystemFrame DEF Current
  <2>3. "none" \notin TeamPhases \cup {"verify"} \cup EndPhases
    BY DEF TeamPhases, Gathering, EndPhases
  <2> QED
    BY <2>1, <2>2, <2>3
<1>2. CASE Master
  <2>1. UNCHANGED seen
    BY <1>2, MasterFrame
  <2>2. CASE Returns
    <3>1. PICK ok \in BOOLEAN :
            Return(ok) /\ (master = "verify" => Current.sweeps \/ (ok => ~team.corrupt))
      BY <2>2 DEF Returns
    <3>2. master \notin EndPhases /\ master \notin TeamPhases
      BY <2>2 DEF Returns, TestPhases, TeamPhases, Gathering, EndPhases
    <3>3. verdict = "none" /\ verdict' = verdict
      BY <3>1, <3>2 DEF Return
    <3>4. CASE seen
      <4>1. Checks(Current) /\ ~ok
        BY <3>1, <3>2, <3>4, CurrentFacts DEF Checks
      <4> QED
        BY <3>1, <3>3, <4>1, CurrentFacts DEF Return, EndPhases
    <3> QED
      BY <2>1, <3>3, <3>4
  <2>3. CASE Onward
    <3>1. Current' = Current
      BY <2>3 DEF Onward, Current
    <3>2. CASE master \in TeamPhases
      BY <2>1, <2>3, <3>1, <3>2 DEF Onward, TestPhases, TeamPhases, Gathering,
         EndPhases, Checks
    <3>3. CASE master = "verify"
      BY <2>1, <2>3, <3>3, CurrentFacts DEF Onward, TestPhases, TeamPhases, Gathering,
         EndPhases, Checks
    <3>4. CASE master \notin TeamPhases \cup {"verify"}
      BY <2>1, <2>3, <3>4 DEF Onward, TestPhases, TeamPhases, Gathering, EndPhases
    <3> QED
      BY <3>2, <3>3, <3>4
  <2>4. CASE Check
    BY <2>1, <2>4 DEF Check, TeamPhases, Gathering, EndPhases
  <2>5. CASE Report
    BY <2>1, <2>5 DEF Report, TeamPhases, Gathering, EndPhases
  <2> QED
    BY <1>2, <2>2, <2>3, <2>4, <2>5, MasterSteps
<1>3. ASSUME NEW w \in Workers, Worker(w) PROVE Noted'
  <2>1. Current' = Current
    BY <1>3, WorkerFrame DEF Current
  <2>2. CASE Moves(w)
    BY <1>3, <2>1, <2>2, WorkerFrame DEF Moves
  <2>3. CASE Notes
    <3>1. team'.corrupt = TRUE
      BY <2>3 DEF Notes, Typed, Teams
    <3>2. master \in TeamPhases
      BY <1>3, WorkerFrame DEF Crew, Active
    <3> QED
      BY <1>3, <2>1, <2>3, <3>1, <3>2, WorkerFrame DEF Notes
  <2> QED
    BY <1>3, <2>2, <2>3, WorkerFrame
<1>4. CASE UNCHANGED vars
  BY <1>4 DEF vars, Current
<1> QED
  BY <1>1, <1>2, <1>3, <1>4 DEF Next
-----------------------------------------------------------------------------
(***************************************************************************)
(* The workers and their master.                                            *)
(***************************************************************************)
(* The array of samples is never empty. *)
LEMMA SamplesExist == [k \in 0 .. Threads * SamplesPerThread - 1 |-> 0] # NoSamples
<1>1. Threads * SamplesPerThread \in Nat /\ Threads * SamplesPerThread >= 1
  BY ThreadsAssumption, SamplesAssumption
<1>2. 0 \in DOMAIN [k \in 0 .. Threads * SamplesPerThread - 1 |-> 0]
  BY <1>1
<1>3. DOMAIN NoSamples = {}
  BY DEF NoSamples
<1> QED
  BY <1>2, <1>3

(* Without threads there is nothing to keep. *)
LEMMA NobodyThere ==
  ASSUME master' \notin TeamPhases \cup {"samples", "manager"},
         \A w \in Workers : threads'[w].pc = "none",
         \A w \in Workers : w \notin team'.waited
  PROVE  Crew'
BY DEF Crew, TeamPhases, Gathering, Active

(* The master's steps around the threads of a test. *)
LEMMA GatheringKept ==
  ASSUME Typed, Crew,
         AwaitUnreferenced \/ SetEvent \/ Go \/ Stop \/ AwaitThreads
  PROVE  Crew'
<1>1. team \in Teams /\ UNCHANGED <<threads, place, cache, samples, abort>>
  BY DEF Typed, AwaitUnreferenced, SetEvent, Go, Stop, AwaitThreads, suite, sorting
<1>2. Current' = Current /\ Ready' = Ready
  BY <1>1 DEF Current, Ready
<1>3. master \in TeamPhases /\ master' \in TeamPhases \ {"unreferenced"}
  BY DEF AwaitUnreferenced, SetEvent, Go, Stop, AwaitThreads, TeamPhases, Gathering
<1>4. Ready /\ team.live
  BY <1>3 DEF Crew
<1>5. team'.live = team.live
  BY <1>1 DEF AwaitUnreferenced, SetEvent, Go, Stop, AwaitThreads, Teams
<1>6. \A w \in Workers : w \in team'.waited => threads[w].pc = "ended"
  <2>1. CASE AwaitThreads /\ Unwaited # {}
    <3>1. team'.waited = team.waited \cup Chunk
      BY <1>1, <2>1 DEF AwaitThreads, Teams
    <3> QED
      BY <2>1, <3>1 DEF AwaitThreads, Crew
  <2>2. CASE ~(AwaitThreads /\ Unwaited # {})
    <3>1. team'.waited = team.waited
      BY <1>1, <2>2 DEF AwaitUnreferenced, SetEvent, Go, Stop, AwaitThreads, Teams
    <3> QED
      BY <3>1 DEF Crew
  <2> QED
    BY <2>1, <2>2
<1>7. master' \in Gathering => team'.waited = {}
  BY <1>1 DEF AwaitUnreferenced, SetEvent, Go, Stop, AwaitThreads, Teams, Gathering, Crew
<1>8. \A w \in Workers : threads[w].pc \in Active => threads[w].held
  <2>1. CASE AwaitUnreferenced
    <3>1. threads[team.next].pc \notin Active
      BY <2>1 DEF AwaitUnreferenced, Active
    <3> QED
      BY <3>1 DEF Crew
  <2>2. CASE ~AwaitUnreferenced
    <3>1. master # "unreferenced"
      BY <2>2 DEF SetEvent, Go, Stop, AwaitThreads
    <3> QED
      BY <3>1 DEF Crew
  <2> QED
    BY <2>1, <2>2
<1>9. master' = "clean" => \A w \in Workers : threads[w].pc \in {"none", "ended"}
  <2> SUFFICES ASSUME master' = "clean", NEW w \in Workers
               PROVE  threads[w].pc \in {"none", "ended"}
    OBVIOUS
  <2>1. Unwaited = {}
    BY DEF AwaitUnreferenced, SetEvent, Go, Stop, AwaitThreads
  <2>2. threads[w].held => threads[w].pc = "ended"
    BY <2>1 DEF Unwaited, Crew
  <2>3. threads[w].pc \in {"none", "wait", "spin", "loop", "leave", "ended"}
    BY DEF Typed, TypeOK
  <2> QED
    BY <1>8, <2>2, <2>3 DEF Active
<1>10. "samples" \notin TeamPhases /\ "manager" \notin TeamPhases
  BY DEF TeamPhases, Gathering
<1> QED
  BY <1>1, <1>2, <1>3, <1>4, <1>5, <1>6, <1>7, <1>8, <1>9, <1>10 DEF Crew

(* StartThreads: the thread that cannot be referenced is the one waited for. *)
LEMMA StartKept ==
  ASSUME Typed, Crew, StartThread
  PROVE  Crew'
<1> DEFINE n == team.next
<1>1. /\ team \in Teams /\ master = "start" /\ team.waited = {} /\ Ready /\ team.live
      /\ UNCHANGED <<place, cache, samples>>
  BY DEF Typed, StartThread, Crew, TeamPhases, Gathering, suite, sorting
<1>2. Current' = Current /\ Ready'
  BY <1>1 DEF Current, Ready
<1>3. team'.waited = {} /\ team'.live /\ master' \in {"start", "unreferenced"}
  BY <1>1 DEF StartThread, Teams
<1>4. /\ n \in Workers
      /\ threads \in [Workers -> [pc : {"none", "wait", "spin", "loop", "leave", "ended"},
                                  held : BOOLEAN, taken : 0 .. SamplesPerThread]]
  BY <1>1, ThreadsAssumption DEF Typed, TypeOK, StartThread, Teams, Workers
<1>5. \A w \in Workers \ {n} : threads'[w] = threads[w]
  BY <1>4 DEF StartThread
<1>6. \/ threads' = threads /\ UNCHANGED <<master, abort>>
      \/ threads'[n].pc = "wait" /\ threads'[n].held /\ UNCHANGED <<master, abort>>
      \/ threads'[n].pc = "wait" /\ master' = "unreferenced" /\ team'.next = n
           /\ abort' = TRUE
  <2>1. CASE UNCHANGED <<threads, master, abort>>
    BY <2>1
  <2>2. CASE /\ threads' = [threads EXCEPT ![team.next].pc = "wait",
                                           ![team.next].held = TRUE]
             /\ UNCHANGED <<master, abort>>
    BY <1>4, <2>2
  <2>3. CASE /\ threads' = [threads EXCEPT ![team.next].pc = "wait"]
             /\ team' = [team EXCEPT !.stop = TRUE, !.event = TRUE]
             /\ abort' = TRUE
             /\ master' = "unreferenced"
    <3>1. team'.next = n
      BY <1>1, <2>3 DEF Teams
    <3> QED
      BY <1>4, <2>3, <3>1
  <2> QED
    BY <2>1, <2>2, <2>3 DEF StartThread
<1>7. \A w \in Workers : threads[w].pc \in Active => threads[w].held
  BY <1>1 DEF Crew
<1>8. ASSUME NEW w \in Workers
      PROVE  /\ threads'[w].pc \in Active =>
                   threads'[w].held \/ (master' = "unreferenced" /\ w = team'.next)
             /\ threads'[w].pc \in {"leave", "ended"} /\ Current'.worker = "tail"
                   => abort' \/ threads'[w].taken = SamplesPerThread
  <2>1. threads[w].pc \in {"leave", "ended"} /\ Current.worker = "tail"
          => abort \/ threads[w].taken = SamplesPerThread
    BY DEF Crew
  <2>2. CASE threads'[w] = threads[w] /\ UNCHANGED <<master, abort>>
    BY <1>2, <1>7, <2>1, <2>2
  <2>3. CASE threads'[w] = threads[w] /\ abort' = TRUE
    BY <1>7, <2>3
  <2>4. CASE w = n
    BY <1>6, <2>2, <2>4 DEF Active
  <2> QED
    BY <1>5, <1>6, <2>2, <2>3, <2>4
<1>9. master' \in Gathering /\ master' # "clean"
  BY <1>3 DEF Gathering
<1> QED
  BY <1>2, <1>3, <1>8, <1>9 DEF Crew, TeamPhases, Gathering

(* No step of the master leaves a worker behind. *)
LEMMA CrewKeptByMaster ==
  ASSUME Typed, Crew, Master
  PROVE  Crew'
<1>1. team \in Teams
  BY DEF Typed
<1>2. ASSUME master \notin TeamPhases, UNCHANGED <<team, threads>>
      PROVE  /\ \A w \in Workers : threads'[w].pc = "none"
             /\ \A w \in Workers : w \notin team'.waited
  BY <1>2 DEF Crew
<1>3. CASE Returns
  <2>1. master' \in {"check", "report"}
    BY <1>3 DEF Returns, Return
  <2>2. master \notin TeamPhases /\ UNCHANGED <<team, threads>>
    BY <1>3 DEF Returns
  <2> QED
    BY <1>2, <2>1, <2>2, NobodyThere DEF TeamPhases, Gathering
<1>4. CASE Check
  <2>1. team'.waited = {}
    <3>1. PICK n \in 0 .. Threads : team' = [NoTeam EXCEPT !.size = n]
      <4>1. 1 \in 0 .. Threads /\ Threads \in 0 .. Threads
        BY ThreadsAssumption
      <4> QED
        BY <1>4, <4>1, Zenon DEF Check
    <3> QED
      BY <3>1 DEF NoTeam
  <2>2. \A w \in Workers : threads'[w].pc = "none"
    BY <1>4 DEF Check, Crew, TeamPhases, Gathering
  <2>3. master' \in {"report", "initialize"}
    BY <1>4 DEF Check
  <2> QED
    BY <2>1, <2>2, <2>3, NobodyThere DEF TeamPhases, Gathering
<1>5. CASE InitializeCache /\ ~Returns
  <2>1. /\ UNCHANGED <<abort, team, threads, place, samples>> /\ cache' = TRUE
        /\ master = "initialize"
        /\ master' = CASE Current.worker = "none" -> "alone"
                       [] Current.worker = "tail" -> "samples"
                       [] OTHER -> "manager"
    BY <1>5 DEF InitializeCache, Returns, suite, TestPhases, TeamPhases, Gathering
  <2>2. Current' = Current
    BY <2>1 DEF Current
  <2>3. \A w \in Workers : threads'[w].pc = "none" /\ w \notin team'.waited
    BY <1>2, <2>1 DEF TeamPhases, Gathering
  <2> QED
    BY <2>1, <2>2, <2>3 DEF Crew, Ready, TeamPhases, Gathering, Active
<1>6. CASE AllocateSamples /\ ~Returns
  <2>1. /\ UNCHANGED <<abort, team, threads, place, cache>>
        /\ samples' = [k \in 0 .. Threads * SamplesPerThread - 1 |-> 0]
        /\ master = "samples" /\ master' = "manager"
    BY <1>6 DEF AllocateSamples, Returns, suite, TestPhases, TeamPhases, Gathering
  <2>2. Current' = Current
    BY <2>1 DEF Current
  <2>3. \A w \in Workers : threads'[w].pc = "none" /\ w \notin team'.waited
    BY <1>2, <2>1 DEF TeamPhases, Gathering
  <2>4. Ready'
    BY <2>1, <2>2, SamplesExist DEF Crew, Ready
  <2> QED
    BY <2>1, <2>3, <2>4 DEF Crew, TeamPhases, Gathering, Active
<1>7. CASE AllocateManager /\ ~Returns
  <2>1. /\ UNCHANGED <<abort, threads, place, cache, samples>>
        /\ team' = [NoTeam EXCEPT !.size = team.size, !.live = TRUE]
        /\ master = "manager" /\ master' = "start"
    BY <1>7 DEF AllocateManager, Returns, suite, TestPhases, TeamPhases, Gathering
  <2>2. Current' = Current
    BY <2>1 DEF Current
  <2>3. team'.waited = {} /\ team'.live = TRUE
    BY <2>1 DEF NoTeam
  <2>4. \A w \in Workers : threads'[w].pc = "none"
    BY <2>1 DEF Crew, TeamPhases, Gathering
  <2>5. Ready'
    BY <2>1, <2>2 DEF Crew, Ready
  <2> QED
    BY <2>1, <2>3, <2>4, <2>5 DEF Crew, TeamPhases, Gathering, Active
<1>8. CASE StartThread
  BY <1>8, StartKept
<1>9. CASE AwaitUnreferenced \/ SetEvent \/ Go \/ Stop \/ AwaitThreads
  BY <1>9, GatheringKept
<1>10. CASE CleanUp
  <2>1. \A w \in Workers : threads'[w].pc = "none"
    BY <1>10 DEF CleanUp, Crew, NoThread
  <2>2. team'.waited = {}
    BY <1>10 DEF CleanUp, NoTeam
  <2>3. master' \in {"sort", "verify"}
    BY <1>10 DEF CleanUp
  <2> QED
    BY <2>1, <2>2, <2>3, NobodyThere DEF TeamPhases, Gathering
<1>11. CASE Sort \/ Report \/ Flush \/ WriteLog
  <2>1. /\ UNCHANGED <<team, threads>> /\ master \notin TeamPhases
        /\ master' \in {"sort", "flush", "write", "ended"}
    BY <1>11 DEF Sort, Report, Flush, WriteLog, TeamPhases, Gathering
  <2> QED
    BY <1>2, <2>1, NobodyThere DEF TeamPhases, Gathering
<1>12. CASE Sweep /\ ~Returns
  <2>1. /\ UNCHANGED threads /\ master = "verify" /\ master' = "initialize"
        /\ team' = [NoTeam EXCEPT !.size =
             IF 2 * team.size > Threads THEN Threads ELSE 2 * team.size]
    BY <1>12 DEF Sweep, Returns, TestPhases, TeamPhases, Gathering
  <2>2. team'.waited = {}
    BY <2>1 DEF NoTeam
  <2>3. \A w \in Workers : threads'[w].pc = "none"
    BY <2>1 DEF Crew, TeamPhases, Gathering
  <2> QED
    BY <2>1, <2>2, <2>3, NobodyThere DEF TeamPhases, Gathering
<1>13. CASE (RunAlone \/ LogPercentiles) /\ ~Returns
  BY <1>13 DEF RunAlone, LogPercentiles, Returns, TestPhases, TeamPhases, Gathering
<1>14. CASE Verify /\ ~Returns
  <2>1. (~abort /\ ~team.corrupt) \in BOOLEAN
    OBVIOUS
  <2> QED
    BY <1>14, <2>1 DEF Verify, Returns, TestPhases, TeamPhases, Gathering
<1> QED
  BY <1>3, <1>4, <1>5, <1>6, <1>7, <1>8, <1>9, <1>10, <1>11, <1>12, <1>13, <1>14
  DEF Master

(* No worker runs away from its master. *)
LEMMA CrewKeptByWorkers ==
  ASSUME Typed, Lifecycle, Crew, NEW w \in Workers, Worker(w)
  PROVE  Crew'
<1>1. /\ UNCHANGED <<closed, abort, master, place, cache, samples>>
      /\ threads[w].pc \in Active
  BY WorkerFrame
<1>2. Current' = Current /\ Ready' = Ready
  BY <1>1 DEF Current, Ready
<1>3. CASE Moves(w)
  <2>1. PICK pc \in {"spin", "loop", "leave", "ended"}, taken \in 0 .. SamplesPerThread :
          /\ threads' = [threads EXCEPT ![w] =
                           [pc |-> pc, held |-> threads[w].held, taken |-> taken]]
          /\ pc \in {"leave", "ended"} /\ Current.worker = "tail" =>
               \/ abort \/ closed \/ taken = SamplesPerThread
               \/ threads[w].pc = "leave" /\ taken = threads[w].taken
    BY <1>3 DEF Moves
  <2>2. /\ threads'[w].pc = pc /\ threads'[w].held = threads[w].held
        /\ threads'[w].taken = taken
        /\ \A v \in Workers \ {w} : threads'[v] = threads[v]
    BY <2>1 DEF Typed, TypeOK
  <2>3. UNCHANGED team
    BY <1>3 DEF Moves
  <2>4. w \notin team.waited
    BY <1>1 DEF Crew, Active
  <2>5. master \in TeamPhases /\ master # "clean"
    BY <1>1 DEF Crew, Active
  <2>6. threads'[w].pc \in {"leave", "ended"} /\ Current.worker = "tail"
          => abort \/ threads'[w].taken = SamplesPerThread
    BY <2>1, <2>2 DEF Crew, Lifecycle
  <2> QED
    BY <1>1, <1>2, <2>2, <2>3, <2>4, <2>5, <2>6 DEF Crew
<1>4. CASE Notes
  <2>1. team'.waited = team.waited /\ team'.live = team.live /\ team'.next = team.next
        /\ UNCHANGED threads
    BY <1>4 DEF Notes, Typed, Teams
  <2> QED
    BY <1>1, <1>2, <2>1 DEF Crew
<1> QED
  BY <1>3, <1>4, WorkerFrame

(* Every step keeps workers and master together. *)
LEMMA CrewKept ==
  ASSUME Typed, Lifecycle, Crew, [Next]_vars
  PROVE  Crew'
<1>1. CASE System \/ RequestUnload
  <2>1. UNCHANGED <<place, cache, team, threads, samples>>
    BY <1>1, SystemFrame
  <2>2. Current' = Current /\ Ready' = Ready
    BY <2>1 DEF Current, Ready
  <2>3. abort => abort'
    BY <1>1, SystemFrame, Zenon
  <2>4. CASE master' = master
    BY <2>1, <2>2, <2>3, <2>4 DEF Crew
  <2>5. CASE master = "none" /\ master' = "check"
    BY <2>1, <2>5, NobodyThere DEF Crew, TeamPhases, Gathering
  <2> QED
    BY <1>1, <2>4, <2>5, SystemFrame DEF Lifecycle
<1>2. CASE Master
  BY <1>2, CrewKeptByMaster
<1>3. ASSUME NEW w \in Workers, Worker(w) PROVE Crew'
  BY <1>3, CrewKeptByWorkers
<1>4. CASE UNCHANGED vars
  BY <1>4 DEF vars, Crew, Ready, Current
<1> QED
  BY <1>1, <1>2, <1>3, <1>4 DEF Next
-----------------------------------------------------------------------------
(***************************************************************************)
(* The theorems.                                                            *)
(***************************************************************************)
(* The five parts hold together in every state. *)
LEMMA DrivingInvariant == Spec => []Driving
<1>1. Init => Driving
  <2> SUFFICES ASSUME Init PROVE Driving
    OBVIOUS
  <2> USE DEF Init
  <2>1. \A w \in Workers : threads[w].pc = "none"
    BY DEF NoThread
  <2>2. Typed
    <3>1. threads \in [Workers -> [pc : {"none", "wait", "spin", "loop", "leave", "ended"},
                                  held : BOOLEAN, taken : 0 .. SamplesPerThread]]
      BY SamplesAssumption DEF NoThread
    <3>2. place \in (1 .. Contexts) \X (1 .. Len(Suite))
      BY ContextsAssumption, SuiteFacts
    <3>3. DOMAIN samples = {}
      BY DEF NoSamples
    <3>4. NoTeam \in Teams /\ NoTeam.next = 0 /\ NoTeam.size = 0
      BY FreshTeam, Zenon DEF NoTeam
    <3>5. /\ team \in Teams /\ team.size \in 0 .. Threads
          /\ team.next \in 0 .. team.size
      BY <3>4, ThreadsAssumption
    <3>6. /\ log \in {"none", "live", "freed"}
          /\ {abort, closed, passed, cache, seen} \subseteq BOOLEAN
          /\ master \in {"none", "check"} /\ master # "unreferenced"
      OBVIOUS
    <3> QED
      BY <3>1, <3>2, <3>3, <3>5, <3>6 DEF Typed, TypeOK
  <2>3. Lifecycle
    BY DEF Lifecycle
  <2>4. Crew
    BY <2>1, FreshTeam DEF Crew, TeamPhases, Gathering, Active
  <2>5. Noted
    BY DEF Noted
  <2>6. Counted
    BY DEF Counted
  <2> QED
    BY <2>2, <2>3, <2>4, <2>5, <2>6 DEF Driving
<1>2. Driving /\ [Next]_vars => Driving'
  BY TypedKept, LifecycleKept, CrewKept, NotedKept, CountedKept DEF Driving
<1> QED
  BY <1>1, <1>2, PTL DEF Spec

(* Every variable of the driver keeps its type. *)
THEOREM DriverTyping == Spec => []TypeOK
<1>1. Driving => TypeOK
  BY DEF Driving, Typed
<1> QED
  BY <1>1, DrivingInvariant, PTL

(* DriverUnload, and a DriverEntry that fails, return and free the log when *)
(* no thread of the driver runs, whenever they are called and whichever     *)
(* thread could not be created or referenced.                               *)
THEOREM SafeUnload == Spec => []NothingRunsWhenUnloaded
<1>1. Driving => NothingRunsWhenUnloaded
  <2> SUFFICES ASSUME Driving, log = "freed" \/ sys \in {"free", "gone", "rejected"}
               PROVE  Quiet
    BY DEF NothingRunsWhenUnloaded
  <2>1. master \in {"none", "ended"}
    BY DEF Driving, Lifecycle
  <2>2. master \notin TeamPhases
    BY <2>1 DEF TeamPhases, Gathering
  <2> QED
    BY <2>1, <2>2 DEF Driving, Crew, Quiet
<1> QED
  BY <1>1, DrivingInvariant, PTL

(* The cache, the manager and the samples of a test outlive the threads     *)
(* that use them.                                                           *)
THEOREM TestsOutliveTheirWorkers == Spec => []WorkersHaveTheirTest
<1>1. Driving => WorkersHaveTheirTest
  BY DEF Driving, Crew, Ready, WorkersHaveTheirTest
<1> QED
  BY <1>1, DrivingInvariant, PTL

(* A worker's finding reaches the last line of the log. *)
THEOREM NoFindingIsLost == Spec => []CorruptionIsReported
<1>1. Driving => CorruptionIsReported
  BY DEF Driving, Noted, CorruptionIsReported, TestPhases, TeamPhases, Gathering,
     EndPhases
<1> QED
  BY <1>1, DrivingInvariant, PTL

(* "All tests finished" is said only of suites in which every test that     *)
(* counts succeeded, but for the last when it was aborted.                  *)
THEOREM SuccessIsTrue == Spec => []SuccessMeansSuccess
<1>1. Driving => SuccessMeansSuccess
  BY DEF Driving, Noted, Counted, Excused, SuccessMeansSuccess, EndPhases
<1> QED
  BY <1>1, DrivingInvariant, PTL

(* The samples are complete, and nobody's to write any more, when they are  *)
(* sorted.                                                                  *)
THEOREM CompleteSamples == Spec => SamplesAreComplete
<1> DEFINE Complete ==
      master = "clean" /\ master' = "sort" =>
        \A w \in Workers : threads[w].pc # "none" =>
          threads[w].pc = "ended" /\ (abort \/ threads[w].taken = SamplesPerThread)
<1>1. Driving /\ [Next]_vars => [Complete]_vars
  <2> SUFFICES ASSUME Driving, [Next]_vars, master = "clean", master' = "sort",
                      NEW w \in Workers, threads[w].pc # "none"
               PROVE  /\ threads[w].pc = "ended"
                      /\ abort \/ threads[w].taken = SamplesPerThread
    OBVIOUS
  <2>1. threads[w].pc = "ended"
    BY DEF Driving, Crew
  <2>2. Typed
    BY DEF Driving
  <2>3. CleanUp
    <3>1. Master
      BY <2>2, SystemFrame, WorkerFrame DEF Next, vars
    <3> QED
      BY <3>1 DEF Master, Check, InitializeCache, RunAlone, AllocateSamples,
         AllocateManager, StartThread, AwaitUnreferenced, SetEvent, Go, Stop,
         AwaitThreads, Sort, LogPercentiles, Verify, Sweep, Report, Flush, WriteLog
  <2>4. Current.worker = "tail"
    BY <2>3 DEF CleanUp
  <2> QED
    BY <2>1, <2>4 DEF Driving, Crew
<1>2. Spec => [][Complete]_vars
  BY <1>1, DrivingInvariant, PTL DEF Spec
<1> QED
  BY <1>2 DEF SamplesAreComplete
=============================================================================
