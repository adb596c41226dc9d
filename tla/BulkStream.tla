----------------------------- MODULE BulkStream -----------------------------
(***************************************************************************)
(* POST /bulk/stream-apply: one run per request. A run reports the ids it  *)
(* does not know, then starts one task per lane of its plan. A lane goes   *)
(* through its settings in turn; each takes one of Slots slots and hands   *)
(* its write to a pool thread. Rows reach the client through one queue; an *)
(* end mark per lane tells the stream when the run is over. A client that  *)
(* leaves (Stop) cancels the tasks, which give their slots back at once; a *)
(* thread that writes goes on without one.                                 *)
(*                                                                         *)
(* Source: api/routes/settings_stream.py. The plan is LanePlan's; what a   *)
(* write does to the machine and how it waits for a bench is ApplyBench's. *)
(***************************************************************************)
EXTENDS Integers, Sequences, FiniteSets

CONSTANTS
    Runs,
    Settings,     \* every id a request may name
    Plans,        \* what a request comes to: [unknown: set, lanes: sequence]
    Key,          \* Key[s]: SettingExecutor.resource_key
    NoKey,
    After,        \* After[s]: SettingExecutor.apply_after
    Slots         \* asyncio.Semaphore(4)

InLanes(plan) == UNION {{plan.lanes[l][i] : i \in DOMAIN plan.lanes[l]} : l \in DOMAIN plan.lanes}

(* The settings that come before s in its lane.                            *)
Before(plan, s) ==
    UNION {{plan.lanes[l][i] : i \in {k \in DOMAIN plan.lanes[l] :
                \E j \in DOMAIN plan.lanes[l] : k < j /\ plan.lanes[l][j] = s}}
           : l \in DOMAIN plan.lanes}

LastOfLane(plan, s) == \A t \in InLanes(plan) : s \notin Before(plan, t)

Conflict(s, t) ==
    \/ Key[s] = Key[t] /\ Key[s] # NoKey
    \/ s \in After[t] \/ t \in After[s]

(* What plan_lanes returns (MCLanePlan): no setting stands in two lanes,   *)
(* conflicting ones stand in one, a setting behind everything it is to     *)
(* apply after.                                                            *)
IsPlan(plan) ==
    /\ plan.unknown \subseteq Settings
    /\ plan.lanes \in Seq(Seq(Settings \ plan.unknown))
    /\ \A l, m \in DOMAIN plan.lanes : \A i \in DOMAIN plan.lanes[l], j \in DOMAIN plan.lanes[m] :
          plan.lanes[l][i] = plan.lanes[m][j] => l = m
    /\ \A s, t \in InLanes(plan) :
         /\ s # t /\ Conflict(s, t) => s \in Before(plan, t) \/ t \in Before(plan, s)
         /\ s \in After[t] => s \in Before(plan, t)
         /\ s \in Before(plan, t) => t \notin Before(plan, s)

LaneEnd == "lane end"

ASSUME StreamAssumption ==
    /\ Slots \in Nat \ {0}
    /\ IsFiniteSet(Settings)
    /\ \A plan \in Plans : IsPlan(plan)
    /\ LaneEnd \notin Settings

VARIABLES
    phase,     \* where each run stands
    plan,      \* its plan
    row,       \* row[r][s]: how far setting s got in run r
    free,      \* free slots of the run's semaphore
    queue,     \* its event queue: ids with an outcome, and lane ends
    ends,      \* lane ends still to come (remaining)
    shown,     \* the ids whose outcome the client has seen
    done,      \* the tally of its done event
    sentinel   \* a bulk apply waits to be measured

vars == <<phase, plan, row, free, queue, ends, shown, done, sentinel>>

Phases == {"idle", "checking", "streaming", "done", "stopped"}
Occupying == {"pooled", "writing", "wrote", "broke"}
Finished == {"succeeded", "failed"}
Admitted == Occupying \cup {"dropped"}   \* left the wait for a slot, no outcome
Rows == {"none", "dropped"} \cup Occupying \cup Finished
NoTally == [succeeded |-> 0, failed |-> 0]
EmptyPlan == [unknown |-> {}, lanes |-> <<>>]

Init ==
    /\ phase = [r \in Runs |-> "idle"]
    /\ plan = [r \in Runs |-> EmptyPlan]
    /\ row = [r \in Runs |-> [s \in Settings |-> "none"]]
    /\ free = [r \in Runs |-> Slots]
    /\ queue = [r \in Runs |-> <<>>]
    /\ ends = [r \in Runs |-> 0]
    /\ shown = [r \in Runs |-> {}]
    /\ done = [r \in Runs |-> NoTally]
    /\ sentinel = FALSE

SetRow(r, s, state) == row' = [row EXCEPT ![r][s] = state]

InState(r, states) == {s \in Settings : row[r][s] \in states}

Request(r) ==
    /\ phase[r] = "idle"
    /\ \E p \in Plans : plan' = [plan EXCEPT ![r] = p]
    /\ phase' = [phase EXCEPT ![r] = "checking"]
    /\ UNCHANGED <<row, free, queue, ends, shown, done, sentinel>>

ReportUnknown(r, s) ==
    /\ phase[r] = "checking"
    /\ s \in plan[r].unknown /\ row[r][s] = "none"
    /\ SetRow(r, s, "failed")
    /\ shown' = [shown EXCEPT ![r] = @ \cup {s}]
    /\ UNCHANGED <<phase, plan, free, queue, ends, done, sentinel>>

(* The run is over: count, leave the sentinel if anything succeeded, done. *)
Conclude(r) ==
    LET succeeded == Cardinality(InState(r, {"succeeded"})) IN
    /\ phase' = [phase EXCEPT ![r] = "done"]
    /\ sentinel' = (sentinel \/ succeeded > 0)
    /\ done' = [done EXCEPT ![r] = [succeeded |-> succeeded,
                                    failed |-> Cardinality(InState(r, {"failed"}))]]

StartLanes(r) ==
    /\ phase[r] = "checking"
    /\ \A s \in plan[r].unknown : row[r][s] = "failed"
    /\ ends' = [ends EXCEPT ![r] = Len(plan[r].lanes)]
    /\ IF plan[r].lanes = <<>>
       THEN Conclude(r)
       ELSE phase' = [phase EXCEPT ![r] = "streaming"] /\ UNCHANGED <<done, sentinel>>
    /\ UNCHANGED <<plan, row, free, queue, shown>>

(* A lane's task takes a slot for its next setting and submits the write.  *)
Submit(r, s) ==
    /\ s \in InLanes(plan[r]) /\ row[r][s] = "none"
    /\ free[r] > 0
    /\ free' = [free EXCEPT ![r] = @ - 1]
    /\ SetRow(r, s, "pooled")
    /\ UNCHANGED <<phase, plan, queue, ends, shown, done, sentinel>>

\* Mutant: every setting is a task of its own.
StartUnordered(r, s) == phase[r] = "streaming" /\ Submit(r, s)

\* Mutant: a lane moves on once the earlier setting is under way.
StartBehindStarted(r, s) ==
    /\ phase[r] = "streaming"
    /\ \A t \in Before(plan[r], s) : row[r][t] # "none"
    /\ Submit(r, s)

\* Mutant: the tasks are not cancelled.
StartAfterStop(r, s) ==
    /\ phase[r] \in {"streaming", "stopped"}
    /\ \A t \in Before(plan[r], s) : row[r][t] \in Finished
    /\ Submit(r, s)

Start(r, s) ==
    /\ phase[r] = "streaming"
    /\ \A t \in Before(plan[r], s) : row[r][t] \in Finished
    /\ Submit(r, s)

Write(r, s) ==
    /\ row[r][s] = "pooled"
    /\ SetRow(r, s, "writing")
    /\ UNCHANGED <<phase, plan, free, queue, ends, shown, done, sentinel>>

(* The thread returns: applied, or failed, or raised.                      *)
WriteEnds(r, s) ==
    /\ row[r][s] = "writing"
    /\ \E outcome \in {"wrote", "broke"} : SetRow(r, s, outcome)
    /\ UNCHANGED <<phase, plan, free, queue, ends, shown, done, sentinel>>

(* The task learns of it: the outcome goes on the queue, the slot is given *)
(* back, and a lane with nothing left puts its end behind the outcome.     *)
Outcome(r, s, slots, events) ==
    /\ phase[r] = "streaming"
    /\ row[r][s] \in {"wrote", "broke"}
    /\ SetRow(r, s, IF row[r][s] = "wrote" THEN "succeeded" ELSE "failed")
    /\ free' = [free EXCEPT ![r] = @ + slots]
    /\ queue' = [queue EXCEPT ![r] = @ \o events]
    /\ UNCHANGED <<phase, plan, ends, shown, done, sentinel>>

Events(r, s) == IF LastOfLane(plan[r], s) THEN <<s, LaneEnd>> ELSE <<s>>

\* Mutant: a failure keeps its slot.
LearnKeepingSlot(r, s) ==
    Outcome(r, s, IF row[r][s] = "broke" THEN 0 ELSE 1, Events(r, s))

\* Mutant: the lane's end goes in front of its last outcome.
LearnEndFirst(r, s) ==
    Outcome(r, s, 1, IF LastOfLane(plan[r], s) THEN <<LaneEnd, s>> ELSE <<s>>)

Learn(r, s) == Outcome(r, s, 1, Events(r, s))

(* The stream takes the next event: a row for the client, or a lane end,   *)
(* the last of which concludes the run.                                    *)
Show(r) ==
    /\ phase[r] = "streaming"
    /\ queue[r] # <<>> /\ Head(queue[r]) # LaneEnd
    /\ shown' = [shown EXCEPT ![r] = @ \cup {Head(queue[r])}]
    /\ queue' = [queue EXCEPT ![r] = Tail(@)]
    /\ UNCHANGED <<phase, plan, row, free, ends, done, sentinel>>

TakeLaneEnd(r) ==
    /\ phase[r] = "streaming"
    /\ queue[r] # <<>> /\ Head(queue[r]) = LaneEnd
    /\ queue' = [queue EXCEPT ![r] = Tail(@)]
    /\ ends' = [ends EXCEPT ![r] = @ - 1]
    /\ IF ends[r] = 1 THEN Conclude(r) ELSE UNCHANGED <<phase, done, sentinel>>
    /\ UNCHANGED <<plan, row, free, shown>>

(* The client leaves: every task is cancelled, those that wait for a slot  *)
(* and those that wait for a thread. The latter leave the semaphore, so    *)
(* all slots are free again while their threads go on.                     *)
Stop(r) ==
    /\ phase[r] \in {"checking", "streaming"}
    /\ phase' = [phase EXCEPT ![r] = "stopped"]
    /\ free' = [free EXCEPT ![r] = Slots]
    /\ UNCHANGED <<plan, row, queue, ends, shown, done, sentinel>>

(* The cancelled future takes a write no thread has begun out of the pool. *)
Drop(r, s) ==
    /\ phase[r] = "stopped"
    /\ row[r][s] = "pooled"
    /\ SetRow(r, s, "dropped")
    /\ UNCHANGED <<phase, plan, free, queue, ends, shown, done, sentinel>>

SettingStep(r, s) ==
    ReportUnknown(r, s) \/ Start(r, s) \/ Write(r, s) \/ WriteEnds(r, s) \/ Learn(r, s)

StreamStep(r) == StartLanes(r) \/ Show(r) \/ TakeLaneEnd(r)

Next ==
    \E r \in Runs :
        \/ Request(r) \/ StreamStep(r) \/ Stop(r)
        \/ \E s \in Settings : SettingStep(r, s) \/ Drop(r, s)

Spec == Init /\ [][Next]_vars

(***************************************************************************)
(* Fairness: the event loop and the pool threads keep running, and a write *)
(* ends (a command that stalls is given up, utils/process_watch.py).       *)
(***************************************************************************)
FairSpec ==
    /\ Spec
    /\ \A r \in Runs :
         /\ WF_vars(StreamStep(r))
         /\ \A s \in Settings : WF_vars(SettingStep(r, s))

-----------------------------------------------------------------------------
\* Every variable stays in its type (the queue, the slots and the tally of
\* _stream_each).
TypeOK ==
    /\ phase \in [Runs -> Phases]
    /\ \A r \in Runs : IsPlan(plan[r])
    /\ row \in [Runs -> [Settings -> Rows]]
    /\ free \in [Runs -> 0..Slots]
    /\ queue \in [Runs -> Seq(Settings \cup {LaneEnd})]
    /\ ends \in [Runs -> Nat]
    /\ shown \in [Runs -> SUBSET Settings]
    /\ done \in [Runs -> [succeeded : Nat, failed : Nat]]
    /\ sentinel \in BOOLEAN

\* Settings of one run that share a resource or declare an order never write at
\* once, a write the client no longer waits for included (plan_lanes, _run_lane).
ConflictsNeverOverlap ==
    \A r \in Runs : \A s, t \in InLanes(plan[r]) :
        s # t /\ Conflict(s, t) => ~(row[r][s] = "writing" /\ row[r][t] = "writing")

\* A setting writes only after everything it is declared to apply after, and
\* that the run names, is through (SettingExecutor.apply_after).
OrderIsKept ==
    \A r \in Runs : \A s \in InLanes(plan[r]) :
        row[r][s] = "writing" =>
            \A t \in After[s] \cap InLanes(plan[r]) : row[r][t] \in Finished

\* At most Slots settings of a run write at once, before and after Stop
\* (_process_one holds the semaphore for the whole write, failures included).
SlotsHold == \A r \in Runs : Cardinality(InState(r, {"writing"})) <= Slots

\* The done event comes last and accounts for every id of the request:
\* "Failures do not abort the stream; all IDs are processed" (bulk_stream_apply).
DoneAccountsForAll ==
    \A r \in Runs : phase[r] = "done" =>
        /\ shown[r] = InLanes(plan[r]) \cup plan[r].unknown
        /\ done[r].succeeded + done[r].failed = Cardinality(shown[r])

\* What Stop leaves behind: "Settings still waiting for a slot are cancelled so
\* nothing is written after Stop; the at most four already writing finish their
\* one write" (_stream_each). Though the slots are free again while detached
\* threads still write, no more than Slots settings ever left the wait without
\* an outcome, and each is the only such one of its lane.
StopCutsLanes ==
    \A r \in Runs : phase[r] = "stopped" =>
        /\ Cardinality(InState(r, Admitted)) <= Slots
        /\ \A s \in InLanes(plan[r]) : row[r][s] # "none" =>
              \A t \in Before(plan[r], s) : row[r][t] \in Finished

\* A request is answered to the end, or its client leaves: no slot or lane end
\* is ever lost (_stream_each).
RunsEnd == \A r \in Runs : phase[r] = "checking" ~> phase[r] \in {"done", "stopped"}

-----------------------------------------------------------------------------
(***************************************************************************)
(* Claims the code does not keep.                                          *)
(***************************************************************************)

\* settings_stream: settings that share a resource or declare an order "never
\* overlap". Two requests, or one after a Stop, have a plan each.
ConflictsNeverOverlapAcrossRuns ==
    \A r, q \in Runs : \A s, t \in Settings :
        r # q /\ (s = t \/ Conflict(s, t)) => ~(row[r][s] = "writing" /\ row[q][t] = "writing")
=============================================================================
