-------------------------- MODULE ApplyBenchProofs --------------------------
(***************************************************************************)
(* What MCApplyBench checks on a few threads, for every set of threads,    *)
(* processes and placement of the one in the other.                        *)
(*                                                                         *)
(* The argument. The mutex owner is the one thread in a state that owns it *)
(* (HolderOwns); the count is exact (CountIsExact). A bench that reads     *)
(* zero under the mutex therefore knows that no apply of its process is    *)
(* past counting, and an apply that takes the mutex in its probe knows     *)
(* that no bench is measuring. Neither fact is inductive without the       *)
(* other.                                                                  *)
(***************************************************************************)
EXTENDS ApplyBench, FiniteSetTheorems, TLAPS

Owning == {"probing", "locked", "measuring"}

\* A thread is in an owning state exactly when it owns the mutex.
HolderOwns == \A t \in Threads : pc[t] \in Owning <=> holder = t

\* A scheduler that already began its one step on a machine in use is in that
\* step or out of it, and in neither case past its guard.
StepSpent ==
    \A b \in Scheduled :
        /\ stepsInUse[b] <= 1
        /\ inUse /\ stepsInUse[b] = 1 => pc[b] \in {"idle", "measuring"}

\* A bench that never reads the count never stands where the count is read.
DirectNeverLocked == \A b \in Direct : pc[b] # "locked"

IInv ==
    /\ TypeOK
    /\ DirectNeverLocked
    /\ CountIsExact
    /\ HolderOwns
    /\ NoOverlapInProcess
    /\ StepSpent

-----------------------------------------------------------------------------
LEMMA ThreadFacts ==
    /\ Applies \subseteq Threads
    /\ Benches \subseteq Threads
    /\ Scheduled \subseteq Benches
    /\ Counted \subseteq Benches
    /\ \A t \in Threads : Home[t] \in Procs
    /\ Nobody \notin Threads
    /\ \A a \in Applies : a \notin Benches
BY ThreadsAssumption DEF Threads, Benches, Counted

LEMMA InFlightFinite ==
    ASSUME NEW p
    PROVE  IsFiniteSet(InFlightApplies(p))
<1>1. InFlightApplies(p) \subseteq Applies
  BY DEF InFlightApplies
<1> QED
  BY <1>1, FS_Subset, ThreadsAssumption

\* A step that neither moves an apply into nor out of flight, and leaves the
\* counts alone, leaves the counts exact.
LEMMA CountUndisturbed ==
    ASSUME CountIsExact, inFlight' = inFlight,
           \A p \in Procs : InFlightApplies(p)' = InFlightApplies(p)
    PROVE  CountIsExact'
BY DEF CountIsExact

\* An apply in flight shows in its process's count.
LEMMA CountSeesApply ==
    ASSUME CountIsExact, NEW p \in Procs, NEW a \in InFlightApplies(p)
    PROVE  inFlight[p] # 0
<1>1. InFlightApplies(p) # {}
  OBVIOUS
<1>2. Cardinality(InFlightApplies(p)) # 0
  BY <1>1, InFlightFinite, FS_EmptySet
<1> QED
  BY <1>2 DEF CountIsExact

-----------------------------------------------------------------------------
LEMMA InitEstablishes == Init => IInv
<1> SUFFICES ASSUME Init PROVE IInv
  OBVIOUS
<1> USE ThreadFacts
<1>1. TypeOK
  BY DEF Init, TypeOK, ApplyStates, BenchStates
<1>2. CountIsExact
  <2>1. \A p \in Procs : InFlightApplies(p) = {}
    BY DEF Init, InFlightApplies
  <2> QED
    BY <2>1, FS_EmptySet DEF Init, CountIsExact
<1>3. HolderOwns
  BY DEF Init, HolderOwns, Owning
<1>4. NoOverlapInProcess
  BY DEF Init, NoOverlapInProcess, Writing, Measuring
<1>5. StepSpent
  BY DEF Init, StepSpent
<1>6. DirectNeverLocked
  BY ThreadsAssumption DEF DirectNeverLocked, Init, Threads, Benches
<1> QED
  BY <1>1, <1>2, <1>3, <1>4, <1>5, <1>6 DEF IInv

-----------------------------------------------------------------------------
(* The steps of an apply.                                                  *)

LEMMA EnterInFlightKeeps ==
    ASSUME IInv, NEW a \in Applies, EnterInFlight(a)
    PROVE  IInv'
<1> USE ThreadFacts
<1> DEFINE p == Home[a]
<1>1. TypeOK'
  BY DEF IInv, TypeOK, EnterInFlight, ApplyStates
<1>2. CountIsExact'
  <2>1. a \notin InFlightApplies(p)
    BY DEF EnterInFlight, InFlightApplies
  <2>2. InFlightApplies(p)' = InFlightApplies(p) \cup {a}
    BY DEF IInv, TypeOK, EnterInFlight, InFlightApplies
  <2>3. Cardinality(InFlightApplies(p)') = Cardinality(InFlightApplies(p)) + 1
    BY <2>1, <2>2, InFlightFinite, FS_AddElement
  <2>4. \A q \in Procs \ {p} : InFlightApplies(q)' = InFlightApplies(q)
    BY DEF IInv, TypeOK, EnterInFlight, InFlightApplies
  <2> QED
    BY <2>3, <2>4 DEF IInv, TypeOK, CountIsExact, EnterInFlight
<1>3. HolderOwns'
  BY DEF IInv, TypeOK, HolderOwns, EnterInFlight, Owning
<1>4. NoOverlapInProcess'
  BY DEF IInv, TypeOK, NoOverlapInProcess, EnterInFlight, Writing, Measuring
<1>5. StepSpent'
  BY DEF IInv, TypeOK, StepSpent, EnterInFlight
<1>6. DirectNeverLocked'
  BY ThreadsAssumption DEF IInv, TypeOK, DirectNeverLocked, EnterInFlight, Threads, Benches
<1> QED
  BY <1>1, <1>2, <1>3, <1>4, <1>5, <1>6 DEF IInv

LEMMA ProbeTakeKeeps ==
    ASSUME IInv, NEW a \in Applies, ProbeTake(a)
    PROVE  IInv'
<1> USE ThreadFacts
<1>1. TypeOK'
  BY DEF IInv, TypeOK, ProbeTake, TryAcquire, ApplyStates
<1>2. CountIsExact'
  <2>1. \A q \in Procs : InFlightApplies(q)' = InFlightApplies(q)
    BY DEF IInv, TypeOK, ProbeTake, InFlightApplies
  <2> QED
    BY <2>1, CountUndisturbed DEF IInv, ProbeTake
<1>3. HolderOwns'
  BY DEF IInv, TypeOK, HolderOwns, ProbeTake, TryAcquire, Owning
<1>4. NoOverlapInProcess'
  BY DEF IInv, TypeOK, NoOverlapInProcess, ProbeTake, Writing, Measuring
<1>5. StepSpent'
  BY DEF IInv, TypeOK, StepSpent, ProbeTake
<1>6. DirectNeverLocked'
  BY ThreadsAssumption DEF IInv, TypeOK, DirectNeverLocked, ProbeTake, Threads, Benches
<1> QED
  BY <1>1, <1>2, <1>3, <1>4, <1>5, <1>6 DEF IInv

LEMMA ProbeReleaseKeeps ==
    ASSUME IInv, NEW a \in Applies, ProbeRelease(a)
    PROVE  IInv'
<1> USE ThreadFacts
<1>1. TypeOK'
  BY DEF IInv, TypeOK, ProbeRelease, Release, ApplyStates
<1>2. CountIsExact'
  <2>1. \A q \in Procs : InFlightApplies(q)' = InFlightApplies(q)
    BY DEF IInv, TypeOK, ProbeRelease, InFlightApplies
  <2> QED
    BY <2>1, CountUndisturbed DEF IInv, ProbeRelease
<1>3. HolderOwns'
  BY DEF IInv, TypeOK, HolderOwns, ProbeRelease, Release, Owning
<1>4. NoOverlapInProcess'
  \* a owns the mutex, so no bench is measuring anywhere.
  <2>1. Measuring = {}
    BY DEF IInv, TypeOK, HolderOwns, ProbeRelease, Release, Measuring, Owning
  <2>2. Measuring' = {}
    BY <2>1 DEF IInv, TypeOK, ProbeRelease, Measuring
  <2> QED
    BY <2>2 DEF NoOverlapInProcess
<1>5. StepSpent'
  BY DEF IInv, TypeOK, StepSpent, ProbeRelease
<1>6. DirectNeverLocked'
  BY ThreadsAssumption DEF IInv, TypeOK, DirectNeverLocked, ProbeRelease, Threads, Benches
<1> QED
  BY <1>1, <1>2, <1>3, <1>4, <1>5, <1>6 DEF IInv

LEMMA LeaveInFlightKeeps ==
    ASSUME IInv, NEW a \in Applies, LeaveInFlight(a)
    PROVE  IInv'
<1> USE ThreadFacts
<1> DEFINE p == Home[a]
<1>0. a \in InFlightApplies(p)
  BY DEF LeaveInFlight, InFlightApplies
<1>1. TypeOK'
  <2>1. inFlight[p] # 0
    BY <1>0, CountSeesApply DEF IInv
  <2> QED
    BY <2>1 DEF IInv, TypeOK, LeaveInFlight, ApplyStates
<1>2. CountIsExact'
  <2>1. InFlightApplies(p)' = InFlightApplies(p) \ {a}
    BY DEF IInv, TypeOK, LeaveInFlight, InFlightApplies
  <2>2. Cardinality(InFlightApplies(p)') = Cardinality(InFlightApplies(p)) - 1
    BY <1>0, <2>1, InFlightFinite, FS_RemoveElement
  <2>3. \A q \in Procs \ {p} : InFlightApplies(q)' = InFlightApplies(q)
    BY DEF IInv, TypeOK, LeaveInFlight, InFlightApplies
  <2> QED
    BY <2>2, <2>3 DEF IInv, TypeOK, CountIsExact, LeaveInFlight
<1>3. HolderOwns'
  BY DEF IInv, TypeOK, HolderOwns, LeaveInFlight, Owning
<1>4. NoOverlapInProcess'
  BY DEF IInv, TypeOK, NoOverlapInProcess, LeaveInFlight, Writing, Measuring
<1>5. StepSpent'
  BY DEF IInv, TypeOK, StepSpent, LeaveInFlight
<1>6. DirectNeverLocked'
  BY ThreadsAssumption DEF IInv, TypeOK, DirectNeverLocked, LeaveInFlight, Threads, Benches
<1> QED
  BY <1>1, <1>2, <1>3, <1>4, <1>5, <1>6 DEF IInv

LEMMA FinalizeKeeps ==
    ASSUME IInv, NEW a \in Applies, Finalize(a)
    PROVE  IInv'
<1> USE ThreadFacts
<1>1. TypeOK'
  BY DEF IInv, TypeOK, Finalize, ApplyStates
<1>2. CountIsExact'
  <2>1. \A q \in Procs : InFlightApplies(q)' = InFlightApplies(q)
    BY DEF IInv, TypeOK, Finalize, InFlightApplies
  <2> QED
    BY <2>1, CountUndisturbed DEF IInv, Finalize
<1>3. HolderOwns'
  BY DEF IInv, TypeOK, HolderOwns, Finalize, Owning
<1>4. NoOverlapInProcess'
  BY DEF IInv, TypeOK, NoOverlapInProcess, Finalize, Writing, Measuring
<1>5. StepSpent'
  BY DEF IInv, TypeOK, StepSpent, Finalize
<1>6. DirectNeverLocked'
  BY ThreadsAssumption DEF IInv, TypeOK, DirectNeverLocked, Finalize, Threads, Benches
<1> QED
  BY <1>1, <1>2, <1>3, <1>4, <1>5, <1>6 DEF IInv

-----------------------------------------------------------------------------
(* The steps of a bench. None touches an apply, so the count only has to   *)
(* be carried over; each moves one bench along its own states.             *)

LEMMA BenchLeavesCount ==
    ASSUME IInv, NEW b \in Benches, NEW v,
           inFlight' = inFlight, pc' = [pc EXCEPT ![b] = v]
    PROVE  CountIsExact'
<1>1. \A q \in Procs : InFlightApplies(q)' = InFlightApplies(q)
  BY ThreadFacts DEF IInv, TypeOK, InFlightApplies
<1> QED
  BY <1>1, CountUndisturbed DEF IInv

LEMMA BenchStepKeeps ==
    ASSUME IInv, NEW b \in Benches, BenchStep(b)
    PROVE  IInv'
<1> USE ThreadFacts
<1>1. CASE Tick(b)
  <2>1. TypeOK'
    BY <1>1 DEF IInv, TypeOK, Tick, BenchStates
  <2>2. CountIsExact'
    BY <1>1, BenchLeavesCount DEF Tick
  <2>3. HolderOwns'
    BY <1>1 DEF IInv, TypeOK, HolderOwns, Tick, Owning
  <2>4. NoOverlapInProcess'
    BY <1>1 DEF IInv, TypeOK, NoOverlapInProcess, Tick, Writing, Measuring
  <2>5. StepSpent'
    BY <1>1 DEF IInv, TypeOK, StepSpent, Tick, Guard
  <2>6. DirectNeverLocked'
    BY <1>1, ThreadsAssumption DEF IInv, TypeOK, DirectNeverLocked, Tick, Threads, Benches
  <2> QED
    BY <2>1, <2>2, <2>3, <2>4, <2>5, <2>6 DEF IInv
<1>2. CASE Request(b)
  <2>1. TypeOK'
    BY <1>2 DEF IInv, TypeOK, Request, BenchStates
  <2>2. CountIsExact'
    BY <1>2, BenchLeavesCount DEF Request
  <2>3. HolderOwns'
    BY <1>2 DEF IInv, TypeOK, HolderOwns, Request, Owning
  <2>4. NoOverlapInProcess'
    BY <1>2 DEF IInv, TypeOK, NoOverlapInProcess, Request, Writing, Measuring
  <2>5. StepSpent'
    BY <1>2, ThreadsAssumption DEF IInv, TypeOK, StepSpent, Request, Counted
  <2>6. DirectNeverLocked'
    BY <1>2, ThreadsAssumption DEF IInv, TypeOK, DirectNeverLocked, Request, Threads, Benches
  <2> QED
    BY <2>1, <2>2, <2>3, <2>4, <2>5, <2>6 DEF IInv
<1>3. CASE Busy(b)
  <2>1. TypeOK'
    BY <1>3 DEF IInv, TypeOK, Busy, BenchStates
  <2>2. CountIsExact'
    BY <1>3, BenchLeavesCount DEF Busy
  <2>3. HolderOwns'
    BY <1>3 DEF IInv, TypeOK, HolderOwns, Busy, Owning
  <2>4. NoOverlapInProcess'
    BY <1>3 DEF IInv, TypeOK, NoOverlapInProcess, Busy, Writing, Measuring
  <2>5. StepSpent'
    BY <1>3 DEF IInv, TypeOK, StepSpent, Busy
  <2>6. DirectNeverLocked'
    BY <1>3, ThreadsAssumption DEF IInv, TypeOK, DirectNeverLocked, Busy, Threads, Benches
  <2> QED
    BY <2>1, <2>2, <2>3, <2>4, <2>5, <2>6 DEF IInv
<1>4. CASE TakeLock(b)
  <2>1. TypeOK'
    BY <1>4 DEF IInv, TypeOK, TakeLock, TryAcquire, BenchStates
  <2>2. CountIsExact'
    BY <1>4, BenchLeavesCount DEF TakeLock
  <2>3. HolderOwns'
    BY <1>4 DEF IInv, TypeOK, HolderOwns, TakeLock, TryAcquire, Owning
  <2>4. NoOverlapInProcess'
    \* Only a bench that never reads the count starts to measure here.
    BY <1>4, ThreadsAssumption
    DEF IInv, TypeOK, NoOverlapInProcess, TakeLock, Writing, Measuring
  <2>5. StepSpent'
    BY <1>4, ThreadsAssumption DEF IInv, TypeOK, StepSpent, TakeLock, Counted
  <2>6. DirectNeverLocked'
    BY <1>4, ThreadsAssumption DEF IInv, TypeOK, DirectNeverLocked, TakeLock, Threads, Benches
  <2> QED
    BY <2>1, <2>2, <2>3, <2>4, <2>5, <2>6 DEF IInv
<1>5. CASE StandDown(b)
  <2>1. TypeOK'
    BY <1>5 DEF IInv, TypeOK, StandDown, Release, BenchStates
  <2>2. CountIsExact'
    BY <1>5, BenchLeavesCount DEF StandDown
  <2>3. HolderOwns'
    BY <1>5 DEF IInv, TypeOK, HolderOwns, StandDown, Release, Owning
  <2>4. NoOverlapInProcess'
    BY <1>5 DEF IInv, TypeOK, NoOverlapInProcess, StandDown, Writing, Measuring
  <2>5. StepSpent'
    BY <1>5 DEF IInv, TypeOK, StepSpent, StandDown
  <2>6. DirectNeverLocked'
    BY <1>5, ThreadsAssumption DEF IInv, TypeOK, DirectNeverLocked, StandDown, Threads, Benches
  <2> QED
    BY <2>1, <2>2, <2>3, <2>4, <2>5, <2>6 DEF IInv
<1>6. CASE BeginStep(b)
  <2>1. TypeOK'
    BY <1>6 DEF IInv, TypeOK, BeginStep, BenchStates
  <2>2. CountIsExact'
    BY <1>6, BenchLeavesCount DEF BeginStep
  <2>3. HolderOwns'
    BY <1>6 DEF IInv, TypeOK, HolderOwns, BeginStep, Owning
  <2>4. NoOverlapInProcess'
    \* b read zero under the mutex: no apply of its process is in flight.
    <3>1. \A a \in Writing : a \in InFlightApplies(Home[a])
      BY DEF Writing, InFlightApplies
    <3>2. \A a \in Writing : Home[a] # Home[b]
      BY <1>6, <3>1, CountSeesApply DEF IInv, TypeOK, BeginStep, AppliesCounted, Writing
    <3>3. Writing' = Writing /\ Measuring' = Measuring \cup {b}
      BY <1>6 DEF IInv, TypeOK, BeginStep, Writing, Measuring
    <3> QED
      BY <3>2, <3>3 DEF IInv, NoOverlapInProcess
  <2>5. StepSpent'
    BY <1>6 DEF IInv, TypeOK, StepSpent, BeginStep
  <2>6. DirectNeverLocked'
    BY <1>6, ThreadsAssumption DEF IInv, TypeOK, DirectNeverLocked, BeginStep, Threads, Benches
  <2> QED
    BY <2>1, <2>2, <2>3, <2>4, <2>5, <2>6 DEF IInv
<1>7. CASE EndStep(b)
  <2>1. TypeOK'
    BY <1>7 DEF IInv, TypeOK, EndStep, Release, BenchStates
  <2>2. CountIsExact'
    BY <1>7, BenchLeavesCount DEF EndStep
  <2>3. HolderOwns'
    BY <1>7 DEF IInv, TypeOK, HolderOwns, EndStep, Release, Owning
  <2>4. NoOverlapInProcess'
    BY <1>7 DEF IInv, TypeOK, NoOverlapInProcess, EndStep, Writing, Measuring
  <2>5. StepSpent'
    BY <1>7 DEF IInv, TypeOK, StepSpent, EndStep
  <2>6. DirectNeverLocked'
    BY <1>7, ThreadsAssumption DEF IInv, TypeOK, DirectNeverLocked, EndStep, Threads, Benches
  <2> QED
    BY <2>1, <2>2, <2>3, <2>4, <2>5, <2>6 DEF IInv
<1> QED
  BY <1>1, <1>2, <1>3, <1>4, <1>5, <1>6, <1>7 DEF BenchStep

-----------------------------------------------------------------------------
(* The world around.                                                       *)

LEMMA UserKeeps ==
    ASSUME IInv, UserArrives \/ UserLeaves
    PROVE  IInv'
<1> USE ThreadFacts
<1>1. TypeOK'
  <2>1. CASE UserArrives
    BY <2>1 DEF IInv, TypeOK, UserArrives
  <2>2. CASE UserLeaves
    BY <2>2 DEF IInv, TypeOK, UserLeaves
  <2> QED
    BY <2>1, <2>2
<1>2. CountIsExact'
  <2>1. \A q \in Procs : InFlightApplies(q)' = InFlightApplies(q)
    BY DEF UserArrives, UserLeaves, InFlightApplies
  <2> QED
    BY <2>1, CountUndisturbed DEF IInv, UserArrives, UserLeaves
<1>3. HolderOwns'
  BY DEF IInv, HolderOwns, UserArrives, UserLeaves
<1>4. NoOverlapInProcess'
  BY DEF IInv, NoOverlapInProcess, UserArrives, UserLeaves, Writing, Measuring
<1>5. StepSpent'
  BY DEF IInv, TypeOK, StepSpent, UserArrives, UserLeaves
<1>6. DirectNeverLocked'
  BY ThreadsAssumption DEF IInv, TypeOK, DirectNeverLocked, UserArrives, UserLeaves, Threads, Benches
<1> QED
  BY <1>1, <1>2, <1>3, <1>4, <1>5, <1>6 DEF IInv

LEMMA CrashKeeps ==
    ASSUME IInv, NEW p \in Procs, Crash(p)
    PROVE  IInv'
<1> USE ThreadFacts
<1>1. TypeOK'
  BY DEF IInv, TypeOK, Crash, ApplyStates, BenchStates
<1>2. CountIsExact'
  <2>1. InFlightApplies(p)' = {}
    BY DEF Crash, InFlightApplies
  <2>2. \A q \in Procs \ {p} : InFlightApplies(q)' = InFlightApplies(q)
    BY DEF Crash, InFlightApplies
  <2> QED
    BY <2>1, <2>2, FS_EmptySet DEF IInv, TypeOK, CountIsExact, Crash
<1>3. HolderOwns'
  BY DEF IInv, TypeOK, HolderOwns, Crash, Owning
<1>4. NoOverlapInProcess'
  BY DEF IInv, TypeOK, NoOverlapInProcess, Crash, Writing, Measuring
<1>5. StepSpent'
  BY DEF IInv, TypeOK, StepSpent, Crash
<1>6. DirectNeverLocked'
  BY ThreadsAssumption DEF IInv, TypeOK, DirectNeverLocked, Crash, Threads, Benches
<1> QED
  BY <1>1, <1>2, <1>3, <1>4, <1>5, <1>6 DEF IInv

-----------------------------------------------------------------------------
LEMMA NextKeeps == IInv /\ [Next]_vars => IInv'
<1> SUFFICES ASSUME IInv, [Next]_vars PROVE IInv'
  OBVIOUS
<1>1. ASSUME NEW a \in Applies, ApplyStep(a) PROVE IInv'
  BY <1>1, EnterInFlightKeeps, ProbeTakeKeeps, ProbeReleaseKeeps, LeaveInFlightKeeps,
     FinalizeKeeps DEF ApplyStep
<1>2. ASSUME NEW b \in Benches, BenchStep(b) PROVE IInv'
  BY <1>2, BenchStepKeeps
<1>3. CASE UserArrives \/ UserLeaves
  BY <1>3, UserKeeps
<1>4. ASSUME NEW p \in Procs, Crash(p) PROVE IInv'
  BY <1>4, CrashKeeps
<1>5. CASE UNCHANGED vars
  BY <1>5 DEF vars, IInv, TypeOK, DirectNeverLocked, CountIsExact, HolderOwns, NoOverlapInProcess, StepSpent,
              InFlightApplies, Writing, Measuring
<1> QED
  BY <1>1, <1>2, <1>3, <1>4, <1>5 DEF Next

\* The inductive invariant holds in every reachable state.
THEOREM InductiveInvariant == Spec => []IInv
<1>1. Init => IInv
  BY InitEstablishes
<1>2. IInv /\ [Next]_vars => IInv'
  BY NextKeeps
<1> QED
  BY <1>1, <1>2, PTL DEF Spec

\* Type correctness of the mutex, the counts and the threads.
THEOREM TypeCorrect == Spec => []TypeOK
<1>1. IInv => TypeOK
  BY DEF IInv
<1> QED
  BY <1>1, InductiveInvariant, PTL

\* No bench that reads the count under the mutex measures while an apply of its
\* process writes: the handshake of apply_state, _wait_for_bench, poll_once and
\* _run_locked, for any number of applies, benches and processes, with crashes.
THEOREM ApplyAndBenchExclude == Spec => []NoOverlapInProcess
<1>1. IInv => NoOverlapInProcess
  BY DEF IInv
<1> QED
  BY <1>1, InductiveInvariant, PTL

\* Two benches never measure at once, whatever process they run in.
THEOREM BenchesExclude == Spec => []OneBenchMeasures
<1>1. IInv => OneBenchMeasures
  BY ThreadFacts DEF IInv, HolderOwns, Owning, OneBenchMeasures, Measuring
<1> QED
  BY <1>1, InductiveInvariant, PTL

\* The count never leaks and never loses an apply.
THEOREM CountStaysExact == Spec => []CountIsExact
<1>1. IInv => CountIsExact
  BY DEF IInv
<1> QED
  BY <1>1, InductiveInvariant, PTL

\* At most one scheduled step begins on a machine that came into use.
THEOREM OneStepInUse == Spec => []AtMostOneStepInUse
<1>1. IInv => AtMostOneStepInUse
  BY DEF IInv, StepSpent, AtMostOneStepInUse
<1> QED
  BY <1>1, InductiveInvariant, PTL

-----------------------------------------------------------------------------
(* The handshake implements ExclusiveMachine: a probe's release begins a   *)
(* write, the second read of the count begins a measurement, and every     *)
(* other step ends one, kills a process, or stutters.                      *)

\* Writing and Measuring follow pc alone.
LEMMA StutterOnMachine ==
    ASSUME Writing' = Writing, (Measuring \cap Counted)' = Measuring \cap Counted
    PROVE  UNCHANGED Machine!machineVars
BY DEF Machine!machineVars

LEMMA ApplyStepMaps ==
    ASSUME IInv, NEW a \in Applies, ApplyStep(a)
    PROVE  [Machine!MachineNext]_(Machine!machineVars)
<1> USE ThreadFacts
<1> DEFINE M == Measuring \cap Counted
<1>0. M' = M
  BY DEF IInv, TypeOK, ApplyStep, EnterInFlight, ProbeTake, ProbeRelease, LeaveInFlight,
         Finalize, Measuring
<1>1. CASE EnterInFlight(a) \/ ProbeTake(a) \/ Finalize(a)
  <2>1. Writing' = Writing
    BY <1>1 DEF IInv, TypeOK, EnterInFlight, ProbeTake, Finalize, Writing
  <2> QED
    BY <1>0, <2>1, StutterOnMachine
<1>2. CASE ProbeRelease(a)
  <2>1. Writing' = Writing \cup {a} /\ a \notin Writing
    BY <1>2 DEF IInv, TypeOK, ProbeRelease, Writing
  <2>2. Measuring = {}
    BY <1>2 DEF IInv, TypeOK, HolderOwns, ProbeRelease, Release, Measuring, Owning
  <2>3. Machine!BeginWrite(a)
    BY <1>0, <2>1, <2>2 DEF Machine!BeginWrite
  <2> QED
    BY <2>3 DEF Machine!MachineNext
<1>3. CASE LeaveInFlight(a)
  <2>1. Writing' = Writing \ {a} /\ a \in Writing
    BY <1>3 DEF IInv, TypeOK, LeaveInFlight, Writing
  <2>2. Machine!EndWrite(a)
    BY <1>0, <2>1 DEF Machine!EndWrite
  <2> QED
    BY <2>2 DEF Machine!MachineNext
<1> QED
  BY <1>1, <1>2, <1>3 DEF ApplyStep

LEMMA BenchStepMaps ==
    ASSUME IInv, NEW b \in Benches, BenchStep(b)
    PROVE  [Machine!MachineNext]_(Machine!machineVars)
<1> USE ThreadFacts
<1> DEFINE M == Measuring \cap Counted
<1>0. Writing' = Writing
  BY DEF IInv, TypeOK, BenchStep, Tick, Request, Busy, TakeLock, StandDown, BeginStep,
         EndStep, Writing
<1>1. CASE Tick(b) \/ Request(b) \/ Busy(b) \/ StandDown(b)
  <2>1. M' = M
    BY <1>1 DEF IInv, TypeOK, Tick, Request, Busy, StandDown, Measuring
  <2> QED
    BY <1>0, <2>1, StutterOnMachine
<1>2. CASE TakeLock(b)
  <2>1. M' = M
    BY <1>2, ThreadsAssumption DEF IInv, TypeOK, TakeLock, Measuring
  <2> QED
    BY <1>0, <2>1, StutterOnMachine
<1>3. CASE BeginStep(b)
  <2>1. b \in Counted
    \* Only a bench that reads the count is ever in "locked".
    BY <1>3, ThreadsAssumption DEF IInv, DirectNeverLocked, BeginStep, Benches
  <2>2. Measuring = {}
    BY <1>3 DEF IInv, TypeOK, HolderOwns, BeginStep, Measuring, Owning
  <2>3. M' = {b}
    BY <1>3, <2>1, <2>2 DEF IInv, TypeOK, BeginStep, Measuring
  <2>4. \A a \in Writing : a \in InFlightApplies(Home[a])
    BY DEF Writing, InFlightApplies
  <2>5. \A a \in Writing : Home[a] # Home[b]
    BY <1>3, <2>4, CountSeesApply DEF IInv, TypeOK, BeginStep, AppliesCounted, Writing
  <2>6. Machine!BeginMeasure(b)
    BY <1>0, <2>2, <2>3, <2>5 DEF Machine!BeginMeasure
  <2> QED
    BY <2>1, <2>6 DEF Machine!MachineNext
<1>4. CASE EndStep(b)
  <2>1. M' = M \ {b}
    BY <1>4 DEF IInv, TypeOK, EndStep, Measuring
  <2>2. CASE b \in Counted
    <3>1. b \in M
      BY <1>4, <2>2 DEF EndStep, Measuring
    <3>2. Machine!EndMeasure(b)
      BY <1>0, <2>1, <3>1 DEF Machine!EndMeasure
    <3> QED
      BY <2>2, <3>2 DEF Machine!MachineNext
  <2>3. CASE b \notin Counted
    BY <1>0, <2>1, <2>3, StutterOnMachine
  <2> QED
    BY <2>2, <2>3
<1> QED
  BY <1>1, <1>2, <1>3, <1>4 DEF BenchStep

LEMMA NextMaps == IInv /\ [Next]_vars => [Machine!MachineNext]_(Machine!machineVars)
<1> SUFFICES ASSUME IInv, [Next]_vars
             PROVE  [Machine!MachineNext]_(Machine!machineVars)
  OBVIOUS
<1>1. ASSUME NEW a \in Applies, ApplyStep(a)
      PROVE  [Machine!MachineNext]_(Machine!machineVars)
  BY <1>1, ApplyStepMaps
<1>2. ASSUME NEW b \in Benches, BenchStep(b)
      PROVE  [Machine!MachineNext]_(Machine!machineVars)
  BY <1>2, BenchStepMaps
<1>3. CASE UserArrives \/ UserLeaves \/ UNCHANGED vars
  BY <1>3 DEF UserArrives, UserLeaves, vars, Machine!machineVars, Writing, Measuring
<1>4. ASSUME NEW p \in Procs, Crash(p)
      PROVE  [Machine!MachineNext]_(Machine!machineVars)
  <2>1. Writing' = {a \in Writing : Home[a] # p}
    BY <1>4, ThreadFacts DEF Crash, Writing
  <2>2. (Measuring \cap Counted)' = {b \in Measuring \cap Counted : Home[b] # p}
    BY <1>4, ThreadFacts DEF Crash, Measuring
  <2>3. Machine!Die(p)
    BY <2>1, <2>2 DEF Machine!Die
  <2> QED
    BY <2>3 DEF Machine!MachineNext
<1> QED
  BY <1>1, <1>2, <1>3, <1>4 DEF Next

\* The count and the mutex together implement the exclusion they stand for.
THEOREM Refinement == Spec => ImplementsMachine
<1>1. Init => Machine!MachineInit
  BY ThreadFacts DEF Init, Machine!MachineInit, Writing, Measuring
<1>2. IInv /\ [Next]_vars => [Machine!MachineNext]_(Machine!machineVars)
  BY NextMaps
<1> QED
  BY <1>1, <1>2, InductiveInvariant, PTL DEF Spec, ImplementsMachine, Machine!MachineSpec
=============================================================================
