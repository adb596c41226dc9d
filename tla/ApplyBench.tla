----------------------------- MODULE ApplyBench -----------------------------
(***************************************************************************)
(* How an apply and a bench keep out of each other's way.                  *)
(*                                                                         *)
(* An apply never holds the machine-wide mutex. It counts itself in its    *)
(* own process, then probes the mutex (take and release at once) until it  *)
(* was free, then runs its command. A bench takes the mutex, and only then *)
(* reads the count: with an apply counted it stands down. The count is a   *)
(* variable of one process, the mutex belongs to the whole machine.        *)
(*                                                                         *)
(* Source: settings/apply_state.py, api/routes/settings_apply.py,          *)
(* benchmark/operation_lock.py, benchmark/scheduler.py,                    *)
(* api/routes/benchmark_suite.py, settings/performance_headroom.py.        *)
(***************************************************************************)
EXTENDS Integers, FiniteSets

CONSTANTS
    Applies,      \* threads that run one apply at a time
    Scheduled,    \* the bench scheduler threads (at most one per process)
    Suite,        \* worker threads of the suite stream
    Direct,       \* threads that take the mutex and never read the count:
                  \* measure_now and _install_gpu_scene
    Procs,        \* processes on this machine
    Home,         \* Home[x] is the process thread x lives in
    Nobody        \* holder of a free mutex

Counted == Scheduled \cup Suite
Benches == Counted \cup Direct
Threads == Applies \cup Benches

ASSUME ThreadsAssumption ==
    /\ IsFiniteSet(Applies)
    /\ Applies \cap Benches = {}
    /\ Counted \cap Direct = {}
    /\ Scheduled \cap Suite = {}
    /\ Home \in [Threads -> Procs]
    /\ Nobody \notin Threads

VARIABLES
    pc,           \* where each thread stands
    holder,       \* owner of Global\fpstune-machine-operation
    inFlight,     \* apply_state._in_flight of each process
    inUse,        \* a known game runs, or the user touched the machine
    stepsInUse    \* history: bench steps each scheduler began since inUse rose

vars == <<pc, holder, inFlight, inUse, stepsInUse>>

ApplyStates == {"idle", "counted", "probing", "writing", "finalizing"}
BenchStates == {"idle", "ready", "locked", "measuring"}

Init ==
    /\ pc = [t \in Threads |-> "idle"]
    /\ holder = Nobody
    /\ inFlight = [p \in Procs |-> 0]
    /\ inUse = FALSE
    /\ stepsInUse = [b \in Scheduled |-> 0]

\* Mutant: a try that does not look whether the mutex is held.
TryAcquireBlindly(t) == holder' = t

(***************************************************************************)
(* The mutex. A try either takes it or learns it is held; nobody waits in  *)
(* a queue for it.                                                         *)
(***************************************************************************)
TryAcquire(t) == holder = Nobody /\ holder' = t
Release(t) == holder = t /\ holder' = Nobody

(***************************************************************************)
(* One apply.                                                              *)
(***************************************************************************)
EnterInFlight(a) ==
    /\ pc[a] = "idle"
    /\ inFlight' = [inFlight EXCEPT ![Home[a]] = @ + 1]
    /\ pc' = [pc EXCEPT ![a] = "counted"]
    /\ UNCHANGED <<holder, inUse, stepsInUse>>

(* is_free(): the first half takes the mutex. A probe that finds it held   *)
(* sleeps and asks again, which changes nothing.                           *)
ProbeTake(a) ==
    /\ pc[a] = "counted"
    /\ TryAcquire(a)
    /\ pc' = [pc EXCEPT ![a] = "probing"]
    /\ UNCHANGED <<inFlight, inUse, stepsInUse>>

(* is_free(): the second half gives it back, and the command starts.       *)
ProbeRelease(a) ==
    /\ pc[a] = "probing"
    /\ Release(a)
    /\ pc' = [pc EXCEPT ![a] = "writing"]
    /\ UNCHANGED <<inFlight, inUse, stepsInUse>>

\* Mutant: the count goes down only when the command returned.
LeaveInFlightOnSuccess(a) ==
    /\ pc[a] = "writing"
    /\ \E next \in {"finalizing", "idle"} :
         /\ pc' = [pc EXCEPT ![a] = next]
         /\ inFlight' = IF next = "finalizing"
                        THEN [inFlight EXCEPT ![Home[a]] = @ - 1]
                        ELSE inFlight
    /\ UNCHANGED <<holder, inUse, stepsInUse>>

\* Mutant: the count goes down twice, in the handler and in its finally.
LeaveInFlightTwice(a) ==
    /\ pc[a] = "writing"
    /\ inFlight' = [inFlight EXCEPT ![Home[a]] = @ - 2]
    /\ \E next \in {"finalizing", "idle"} : pc' = [pc EXCEPT ![a] = next]
    /\ UNCHANGED <<holder, inUse, stepsInUse>>

(* The command returned (then the setting is re-detected and verified) or  *)
(* raised. Either way the count goes down first.                           *)
LeaveInFlight(a) ==
    /\ pc[a] = "writing"
    /\ inFlight' = [inFlight EXCEPT ![Home[a]] = @ - 1]
    /\ \E next \in {"finalizing", "idle"} : pc' = [pc EXCEPT ![a] = next]
    /\ UNCHANGED <<holder, inUse, stepsInUse>>

Finalize(a) ==
    /\ pc[a] = "finalizing"
    /\ pc' = [pc EXCEPT ![a] = "idle"]
    /\ UNCHANGED <<holder, inFlight, inUse, stepsInUse>>

(***************************************************************************)
(* One bench step.                                                         *)
(***************************************************************************)
(* _guard(): what the scheduler asks before it goes for the mutex.         *)
Guard(b) == inFlight[Home[b]] = 0 /\ ~inUse

Tick(b) ==
    /\ b \in Scheduled
    /\ pc[b] = "idle"
    /\ Guard(b)
    /\ pc' = [pc EXCEPT ![b] = "ready"]
    /\ UNCHANGED <<holder, inFlight, inUse, stepsInUse>>

(* A suite step or a "measure now" has no such guard: the user asked.      *)
Request(b) ==
    /\ b \in Suite \cup Direct
    /\ pc[b] = "idle"
    /\ pc' = [pc EXCEPT ![b] = "ready"]
    /\ UNCHANGED <<holder, inFlight, inUse, stepsInUse>>

Busy(b) ==
    /\ pc[b] = "ready"
    /\ holder # Nobody
    /\ pc' = [pc EXCEPT ![b] = "idle"]
    /\ UNCHANGED <<holder, inFlight, inUse, stepsInUse>>

TakeLock(b) ==
    /\ pc[b] = "ready"
    /\ TryAcquire(b)
    /\ pc' = [pc EXCEPT ![b] = IF b \in Direct THEN "measuring" ELSE "locked"]
    /\ UNCHANGED <<inFlight, inUse, stepsInUse>>

\* Mutant: the count is not read again under the lock.
AppliesCountedUnread(b) == FALSE

(* The count, asked again under the lock.                                  *)
AppliesCounted(b) == inFlight[Home[b]] > 0

\* Mutant: standing down without giving the mutex back.
StandDownKeepingLock(b) ==
    /\ pc[b] = "locked"
    /\ AppliesCounted(b)
    /\ pc' = [pc EXCEPT ![b] = "idle"]
    /\ UNCHANGED <<holder, inFlight, inUse, stepsInUse>>

StandDown(b) ==
    /\ pc[b] = "locked"
    /\ AppliesCounted(b)
    /\ Release(b)
    /\ pc' = [pc EXCEPT ![b] = "idle"]
    /\ UNCHANGED <<inFlight, inUse, stepsInUse>>

BeginStep(b) ==
    /\ pc[b] = "locked"
    /\ ~AppliesCounted(b)
    /\ pc' = [pc EXCEPT ![b] = "measuring"]
    /\ stepsInUse' = IF inUse /\ b \in Scheduled
                     THEN [stepsInUse EXCEPT ![b] = @ + 1]
                     ELSE stepsInUse
    /\ UNCHANGED <<holder, inFlight, inUse>>

(* The bench returned, failed, or met its deadline.                        *)
EndStep(b) ==
    /\ pc[b] = "measuring"
    /\ Release(b)
    /\ pc' = [pc EXCEPT ![b] = "idle"]
    /\ UNCHANGED <<inFlight, inUse, stepsInUse>>

(***************************************************************************)
(* The world around.                                                       *)
(***************************************************************************)
UserArrives ==
    /\ ~inUse
    /\ inUse' = TRUE
    /\ stepsInUse' = [b \in Scheduled |-> 0]
    /\ UNCHANGED <<pc, holder, inFlight>>

UserLeaves ==
    /\ inUse
    /\ inUse' = FALSE
    /\ UNCHANGED <<pc, holder, inFlight, stepsInUse>>

(* Process p dies and is started again: its threads and its count are      *)
(* gone, and a mutex it held is abandoned, which the next try takes.       *)
Crash(p) ==
    /\ pc' = [t \in Threads |-> IF Home[t] = p THEN "idle" ELSE pc[t]]
    /\ holder' = IF holder # Nobody /\ Home[holder] = p THEN Nobody ELSE holder
    /\ inFlight' = [inFlight EXCEPT ![p] = 0]
    /\ UNCHANGED <<inUse, stepsInUse>>

ApplyStep(a) ==
    EnterInFlight(a) \/ ProbeTake(a) \/ ProbeRelease(a) \/ LeaveInFlight(a) \/ Finalize(a)

BenchStep(b) ==
    \/ Tick(b) \/ Request(b) \/ Busy(b) \/ TakeLock(b)
    \/ StandDown(b) \/ BeginStep(b) \/ EndStep(b)

Next ==
    \/ \E a \in Applies : ApplyStep(a)
    \/ \E b \in Benches : BenchStep(b)
    \/ UserArrives \/ UserLeaves
    \/ \E p \in Procs : Crash(p)

Spec == Init /\ [][Next]_vars

(***************************************************************************)
(* Fairness. A thread inside an operation keeps running. A bench step of a *)
(* suite ends because run_bench_with_deadline gives up on it; a scene      *)
(* measured by hand has no such deadline (performance_headroom.py:461) but *)
(* a budget of its own (gpu_scene.py, budget_seconds). The probe is a poll *)
(* every half second against a mutex that other probes and stand-downs     *)
(* hold for microseconds, so a mutex that keeps coming free is caught:     *)
(* strong fairness. Nobody has to start anything.                          *)
(***************************************************************************)
ApplyFairness(a) ==
    /\ SF_vars(ProbeTake(a))
    /\ WF_vars(ProbeRelease(a) \/ LeaveInFlight(a) \/ Finalize(a))

BenchFairness(b) ==
    WF_vars(Busy(b) \/ TakeLock(b) \/ StandDown(b) \/ BeginStep(b) \/ EndStep(b))

FairSpec ==
    /\ Spec
    /\ \A a \in Applies : ApplyFairness(a)
    /\ \A b \in Benches : BenchFairness(b)

-----------------------------------------------------------------------------
(***************************************************************************)
(* Properties.                                                             *)
(***************************************************************************)

\* Every variable stays in its type; the count of a process never leaves the
\* range its apply threads allow (apply_state.py).
TypeOK ==
    /\ pc \in [Threads -> ApplyStates \cup BenchStates]
    /\ \A a \in Applies : pc[a] \in ApplyStates
    /\ \A b \in Benches : pc[b] \in BenchStates
    /\ holder \in Threads \cup {Nobody}
    /\ inFlight \in [Procs -> Nat]
    /\ inUse \in BOOLEAN
    /\ stepsInUse \in [Scheduled -> Nat]

Writing == {a \in Applies : pc[a] = "writing"}
Measuring == {b \in Benches : pc[b] = "measuring"}

\* The threads of process p between the two lines of apply_in_flight().
InFlightApplies(p) ==
    {a \in Applies : Home[a] = p /\ pc[a] \in {"counted", "probing", "writing"}}

\* A bench that reads the count under the lock never measures while an apply
\* of its own process runs its command, although the apply holds no lock: the
\* window described in apply_state.apply_in_flight is closed.
NoOverlapInProcess ==
    \A a \in Writing, b \in Measuring \cap Counted : Home[a] # Home[b]

\* Two benches never measure at once, in whichever processes they run
\* (operation_lock.OPERATION_MUTEX: "Two benches must not overlap either").
OneBenchMeasures == \A b, c \in Measuring : b = c

\* The count is the number of applies in flight, through failed commands and
\* crashes: a leak would keep every bench out for good, a lost count would let
\* one in.
CountIsExact == \A p \in Procs : inFlight[p] = Cardinality(InFlightApplies(p))

\* However the guard, the mutex and the user race, at most one scheduled step
\* begins on a machine that came into use: the guards are asked again before
\* every step (scheduler.py, "One bench per tick").
AtMostOneStepInUse == \A b \in Scheduled : stepsInUse[b] <= 1

\* An apply waiting for a bench gets to run its command: no thread keeps the
\* mutex, and the count the apply raised keeps no one waiting for it in turn
\* (settings_apply._wait_for_bench has no deadline of its own).
ApplyLeavesWait == \A a \in Applies : pc[a] = "counted" ~> pc[a] # "counted"

\* fpstune keeps the promise of ExclusiveMachine.
Machine == INSTANCE ExclusiveMachine
               WITH writing <- Writing, measuring <- Measuring \cap Counted
ImplementsMachine == Machine!MachineSpec

-----------------------------------------------------------------------------
(***************************************************************************)
(* Claims the code does not keep.                                          *)
(***************************************************************************)

\* performance_headroom.measure_now: "overlapping it with a write to the
\* machine would measure something halfway between two states".
DirectNeverOverlapsWrite ==
    \A a \in Writing, b \in Measuring \cap Direct : Home[a] # Home[b]

\* operation_lock: "An apply, a cleanup and a benchmark must never overlap",
\* across "separate processes".
NoOverlapOnMachine == Writing = {} \/ Measuring \cap Counted = {}
=============================================================================
