-------------------------- MODULE BulkStreamProofs --------------------------
(***************************************************************************)
(* A bulk apply, for every number of runs, settings and slots and for a    *)
(* request of any length: the stream (BulkStream), then the planner        *)
(* (LanePlan, against MCLanePlan's definitions), then the two together.    *)
(*                                                                         *)
(* The stream. A setting that left its wait did so behind finished ones    *)
(* (Behind), and a finished setting stays finished, so of two settings in  *)
(* one lane the later one never writes before the earlier one is through.  *)
(* A slot that is not free is behind at most one setting (SlotsCounted);   *)
(* Stop frees them all and lets nobody else past.                          *)
(* The lane ends a run still waits for are at least the lanes at work plus *)
(* the ends in its queue, and an end comes behind its lane's outcomes; so  *)
(* when the last one is taken every outcome has been shown (Account).      *)
(*                                                                         *)
(* The planner. An order is greedy: at each turn the least position that   *)
(* waits for nothing ahead. What a greedy order leaves out is a knot, and  *)
(* no knot is ever in one. The roots of the union-find are the same across *)
(* a link and differ across what no link joins, so the settings of a root  *)
(* are a component; and what a greedy order has of one component is greedy *)
(* itself, so a lane is the order of its own settings.                     *)
(***************************************************************************)
EXTENDS BulkStream, MCLanePlan,
        FiniteSetTheorems, SequenceTheorems, WellFoundedInduction, TLAPS

\* The types the argument needs (the rest are Account's).
DataOK ==
    /\ phase \in [Runs -> Phases]
    /\ plan \in [Runs -> Plans \cup {EmptyPlan}]
    /\ row \in [Runs -> [Settings -> Rows]]
    /\ free \in [Runs -> Nat]

\* Nothing has happened in a run that nobody asked for.
IdleIsFresh == \A r \in Runs : phase[r] = "idle" => \A s \in Settings : row[r][s] = "none"

\* A setting that left its wait for a slot has only finished ones before it.
Behind ==
    \A r \in Runs : \A s \in InLanes(plan[r]) :
        row[r][s] # "none" => \A t \in Before(plan[r], s) : row[r][t] \in Finished

\* A setting between its slot and its outcome has a slot that is not free; Stop
\* frees the slots and leaves those settings as they are.
Counted(h, n, f) == IF h = "stopped" THEN n <= Slots /\ f = Slots ELSE n + f <= Slots
SlotsCounted ==
    \A r \in Runs : Counted(phase[r], Cardinality(InState(r, Admitted)), free[r])

IInv == DataOK /\ IdleIsFresh /\ Behind

-----------------------------------------------------------------------------
LEMMA EmptyPlanFacts == InLanes(EmptyPlan) = {} /\ IsPlan(EmptyPlan)
<1>1. EmptyPlan.unknown = {} /\ EmptyPlan.lanes = <<>>
  BY DEF EmptyPlan
<1>2. DOMAIN EmptyPlan.lanes = {}
  BY <1>1
<1>3. InLanes(EmptyPlan) = {}
  BY <1>2 DEF InLanes
<1>4. EmptyPlan.lanes \in Seq(Seq(Settings \ EmptyPlan.unknown))
  BY <1>1
<1> QED
  BY <1>1, <1>2, <1>3, <1>4 DEF IsPlan

LEMMA BeforeInLanes ==
    ASSUME NEW p, NEW s, NEW t \in Before(p, s)
    PROVE  t \in InLanes(p)
<1>1. PICK l \in DOMAIN p.lanes :
        t \in {p.lanes[l][i] : i \in {k \in DOMAIN p.lanes[l] :
                  \E j \in DOMAIN p.lanes[l] : k < j /\ p.lanes[l][j] = s}}
  BY DEF Before
<1>2. t \in {p.lanes[l][i] : i \in DOMAIN p.lanes[l]}
  BY <1>1
<1> QED
  BY <1>2 DEF InLanes

LEMMA PlanFacts ==
    ASSUME DataOK, NEW r \in Runs
    PROVE  IsPlan(plan[r])
BY EmptyPlanFacts, StreamAssumption DEF DataOK

LEMMA LaneFacts ==
    ASSUME NEW p, IsPlan(p), NEW s \in InLanes(p)
    PROVE  s \in Settings /\ s \notin p.unknown
<1>1. PICK l \in DOMAIN p.lanes : \E i \in DOMAIN p.lanes[l] : s = p.lanes[l][i]
  BY DEF InLanes
<1> QED
  BY <1>1 DEF IsPlan

-----------------------------------------------------------------------------
\* A row other than s does not move, and s may not move out of a finished state.
LEMMA BehindKept ==
    ASSUME IInv, plan' = plan, NEW r \in Runs, NEW s \in Settings,
           NEW to \in Rows \ {"none"},
           row' = [row EXCEPT ![r][s] = to],
           row[r][s] \notin Finished,
           s \in InLanes(plan[r]) /\ row[r][s] = "none" =>
               \A t \in Before(plan[r], s) : row[r][t] \in Finished
    PROVE  Behind'
<1> SUFFICES ASSUME NEW q \in Runs, NEW x \in InLanes(plan[q]), row'[q][x] # "none",
                    NEW t \in Before(plan[q], x)
             PROVE  row'[q][t] \in Finished
  BY DEF Behind
<1>1. x \in Settings /\ t \in InLanes(plan[q]) /\ t \in Settings
  BY BeforeInLanes, PlanFacts, LaneFacts DEF IInv
<1>2. row[q][t] \in Finished
  <2>1. CASE row[q][x] # "none"
    BY <2>1 DEF IInv, Behind
  <2>2. CASE row[q][x] = "none"
    <3>1. q = r /\ x = s
      BY <1>1, <2>2 DEF IInv, DataOK
    <3> QED
      BY <3>1, <2>2
  <2> QED
    BY <2>1, <2>2
<1>3. ~(q = r /\ t = s)
  BY <1>2
<1>4. row'[q][t] = row[q][t]
  BY <1>1, <1>3 DEF IInv, DataOK
<1> QED
  BY <1>2, <1>4

\* Actions that leave every row and every plan as it is.
LEMMA RowsUntouched ==
    ASSUME IInv, row' = row, plan' = plan
    PROVE  Behind'
BY DEF IInv, Behind, InLanes, Before

-----------------------------------------------------------------------------
LEMMA InitEstablishes == Init => IInv
<1> SUFFICES ASSUME Init PROVE IInv
  OBVIOUS
<1>1. DataOK
  BY StreamAssumption DEF Init, DataOK, Phases, Rows
<1>2. IdleIsFresh
  BY DEF Init, IdleIsFresh
<1>3. Behind
  BY EmptyPlanFacts DEF Init, Behind
<1> QED
  BY <1>1, <1>2, <1>3 DEF IInv

LEMMA ConcludeFacts ==
    ASSUME IInv, NEW r \in Runs, Conclude(r)
    PROVE  phase' \in [Runs -> Phases] /\ phase' = [phase EXCEPT ![r] = "done"]
BY DEF Conclude, IInv, DataOK, Phases

\* The actions that move one row.
LEMMA RowMoves ==
    ASSUME IInv, NEW r \in Runs, NEW s \in Settings,
           NEW to \in Rows \ {"none"},
           row' = [row EXCEPT ![r][s] = to],
           row[r][s] \notin Finished,
           s \in InLanes(plan[r]) /\ row[r][s] = "none" =>
               \A t \in Before(plan[r], s) : row[r][t] \in Finished,
           UNCHANGED <<phase, plan>>,
           free' \in [Runs -> Nat],
           phase[r] # "idle"
    PROVE  IInv'
<1>1. DataOK'
  BY DEF IInv, DataOK
<1>2. IdleIsFresh'
  BY DEF IInv, DataOK, IdleIsFresh
<1>3. Behind'
  BY BehindKept
<1> QED
  BY <1>1, <1>2, <1>3 DEF IInv

\* The actions that move no row.
LEMMA PhaseMoves ==
    ASSUME IInv, NEW r \in Runs, NEW to \in Phases \ {"idle"},
           phase' = [phase EXCEPT ![r] = to],
           UNCHANGED <<plan, row>>, free' \in [Runs -> Nat]
    PROVE  IInv'
<1>1. DataOK'
  BY DEF IInv, DataOK
<1>2. IdleIsFresh'
  BY DEF IInv, DataOK, IdleIsFresh
<1>3. Behind'
  BY RowsUntouched
<1> QED
  BY <1>1, <1>2, <1>3 DEF IInv

LEMMA NothingMoves ==
    ASSUME IInv, UNCHANGED <<phase, plan, row, free>>
    PROVE  IInv'
<1>1. DataOK' /\ IdleIsFresh'
  BY DEF IInv, DataOK, IdleIsFresh
<1> QED
  BY <1>1, RowsUntouched DEF IInv

LEMMA NextPreserves == IInv /\ [Next]_vars => IInv'
<1> SUFFICES ASSUME IInv, [Next]_vars PROVE IInv'
  OBVIOUS
<1>1. ASSUME NEW r \in Runs, Request(r) PROVE IInv'
  <2>1. PICK p \in Plans : plan' = [plan EXCEPT ![r] = p]
    BY <1>1 DEF Request
  <2>2. DataOK'
    BY <1>1, <2>1 DEF Request, IInv, DataOK, Phases
  <2>3. IdleIsFresh'
    BY <1>1 DEF Request, IInv, DataOK, IdleIsFresh
  <2>4. Behind'
    <3> SUFFICES ASSUME NEW q \in Runs, NEW s \in InLanes(plan'[q]), row'[q][s] # "none",
                        NEW t \in Before(plan'[q], s)
                 PROVE  row'[q][t] \in Finished
      BY DEF Behind
    <3>1. q # r
      <4> SUFFICES ASSUME q = r PROVE FALSE
        OBVIOUS
      <4>1. IsPlan(plan'[r])
        BY <2>1, StreamAssumption DEF IInv, DataOK
      <4>2. s \in Settings
        BY <4>1, LaneFacts
      <4> QED
        BY <1>1, <4>2 DEF Request, IInv, IdleIsFresh
    <3>2. plan'[q] = plan[q]
      BY <2>1, <3>1 DEF IInv, DataOK
    <3> QED
      BY <1>1, <3>2 DEF Request, IInv, Behind
  <2> QED
    BY <2>2, <2>3, <2>4 DEF IInv
<1>2. ASSUME NEW r \in Runs, StartLanes(r) PROVE IInv'
  <2>1. PICK to \in {"done", "streaming"} : phase' = [phase EXCEPT ![r] = to]
    BY <1>2, ConcludeFacts DEF StartLanes
  <2> QED
    BY <1>2, <2>1, PhaseMoves DEF StartLanes, Phases, IInv, DataOK
<1>3. ASSUME NEW r \in Runs, Show(r) PROVE IInv'
  BY <1>3, NothingMoves DEF Show
<1>4. ASSUME NEW r \in Runs, TakeLaneEnd(r) PROVE IInv'
  <2>1. CASE ends[r] = 1
    <3>1. phase' = [phase EXCEPT ![r] = "done"]
      BY <1>4, <2>1, ConcludeFacts DEF TakeLaneEnd
    <3> QED
      BY <1>4, <3>1, PhaseMoves DEF TakeLaneEnd, Phases, IInv, DataOK
  <2>2. CASE ends[r] # 1
    BY <1>4, <2>2, NothingMoves DEF TakeLaneEnd
  <2> QED
    BY <2>1, <2>2
<1>5. ASSUME NEW r \in Runs, Stop(r) PROVE IInv'
  BY <1>5, PhaseMoves, StreamAssumption DEF Stop, Phases, IInv, DataOK
<1>6. ASSUME NEW r \in Runs, NEW s \in Settings, ReportUnknown(r, s) PROVE IInv'
  <2>1. s \notin InLanes(plan[r])
    BY <1>6, PlanFacts, LaneFacts DEF ReportUnknown, IInv
  <2>2. "failed" \in Rows \ {"none"}
    BY DEF Rows, Finished
  <2>3. row' = [row EXCEPT ![r][s] = "failed"] /\ row[r][s] \notin Finished
    BY <1>6 DEF ReportUnknown, SetRow, Finished
  <2>4. UNCHANGED <<phase, plan>> /\ free' \in [Runs -> Nat] /\ phase[r] # "idle"
    BY <1>6 DEF ReportUnknown, IInv, DataOK
  <2> QED
    BY <2>1, <2>2, <2>3, <2>4, RowMoves
<1>7. ASSUME NEW r \in Runs, NEW s \in Settings, Start(r, s) PROVE IInv'
  <2>1. "pooled" \in Rows \ {"none"}
    BY DEF Rows, Occupying
  <2>2. row' = [row EXCEPT ![r][s] = "pooled"] /\ row[r][s] \notin Finished
    BY <1>7 DEF Start, Submit, SetRow, Finished
  <2>3. UNCHANGED <<phase, plan>> /\ phase[r] # "idle"
    BY <1>7 DEF Start, Submit
  <2>4. free' \in [Runs -> Nat]
    BY <1>7 DEF Start, Submit, IInv, DataOK
  <2>5. \A t \in Before(plan[r], s) : row[r][t] \in Finished
    BY <1>7 DEF Start
  <2> QED
    BY <2>1, <2>2, <2>3, <2>4, <2>5, RowMoves
<1>8. ASSUME NEW r \in Runs, NEW s \in Settings, Write(r, s) PROVE IInv'
  <2>1. "writing" \in Rows \ {"none"}
    BY DEF Rows, Occupying
  <2>2. row' = [row EXCEPT ![r][s] = "writing"] /\ row[r][s] \notin Finished \cup {"none"}
    BY <1>8 DEF Write, SetRow, Finished
  <2>3. UNCHANGED <<phase, plan>> /\ phase[r] # "idle" /\ free' \in [Runs -> Nat]
    BY <1>8 DEF Write, IInv, DataOK, IdleIsFresh
  <2> QED
    BY <2>1, <2>2, <2>3, RowMoves
<1>9. ASSUME NEW r \in Runs, NEW s \in Settings, WriteEnds(r, s) PROVE IInv'
  <2>1. PICK to \in {"wrote", "broke"} : row' = [row EXCEPT ![r][s] = to]
    BY <1>9 DEF WriteEnds, SetRow
  <2>2. to \in Rows \ {"none"}
    BY DEF Rows, Occupying
  <2>3. row[r][s] \notin Finished \cup {"none"}
    BY <1>9 DEF WriteEnds, Finished
  <2>4. UNCHANGED <<phase, plan>> /\ phase[r] # "idle" /\ free' \in [Runs -> Nat]
    BY <1>9 DEF WriteEnds, IInv, DataOK, IdleIsFresh
  <2> QED
    BY <2>1, <2>2, <2>3, <2>4, RowMoves
<1>10. ASSUME NEW r \in Runs, NEW s \in Settings, Learn(r, s) PROVE IInv'
  <2>1. PICK to \in Finished : row' = [row EXCEPT ![r][s] = to]
    BY <1>10 DEF Learn, Outcome, SetRow, Finished
  <2>2. to \in Rows \ {"none"}
    BY DEF Rows, Finished
  <2>3. row[r][s] \notin Finished \cup {"none"}
    BY <1>10 DEF Learn, Outcome, Finished
  <2>4. UNCHANGED <<phase, plan>> /\ phase[r] # "idle"
    BY <1>10 DEF Learn, Outcome
  <2>5. free' \in [Runs -> Nat]
    BY <1>10 DEF Learn, Outcome, IInv, DataOK
  <2> QED
    BY <2>1, <2>2, <2>3, <2>4, <2>5, RowMoves
<1>11. ASSUME NEW r \in Runs, NEW s \in Settings, Drop(r, s) PROVE IInv'
  <2>1. "dropped" \in Rows \ {"none"}
    BY DEF Rows
  <2>2. row' = [row EXCEPT ![r][s] = "dropped"] /\ row[r][s] \notin Finished \cup {"none"}
    BY <1>11 DEF Drop, SetRow, Finished
  <2>3. UNCHANGED <<phase, plan>> /\ phase[r] # "idle" /\ free' \in [Runs -> Nat]
    BY <1>11 DEF Drop, IInv, DataOK
  <2> QED
    BY <2>1, <2>2, <2>3, RowMoves
<1>12. CASE UNCHANGED vars
  BY <1>12, NothingMoves DEF vars
<1> QED
  BY <1>1, <1>2, <1>3, <1>4, <1>5, <1>6, <1>7, <1>8, <1>9, <1>10, <1>11, <1>12
     DEF Next, StreamStep, SettingStep

-----------------------------------------------------------------------------
(***************************************************************************)
(* The slots, on top of IInv.                                              *)
(***************************************************************************)
LEMMA AdmittedFinite ==
    ASSUME NEW r
    PROVE  /\ IsFiniteSet(InState(r, Admitted))
           /\ Cardinality(InState(r, Admitted)) \in Nat
<1>1. InState(r, Admitted) \subseteq Settings
  BY DEF InState
<1>2. IsFiniteSet(InState(r, Admitted))
  BY <1>1, FS_Subset, StreamAssumption
<1> QED
  BY <1>2, FS_CardinalityType

\* Who is admitted once one row has moved.
LEMMA AdmittedAfter ==
    ASSUME IInv, NEW r \in Runs, NEW s \in Settings, NEW to \in Rows,
           row' = [row EXCEPT ![r][s] = to]
    PROVE  /\ \A q \in Runs \ {r} : InState(q, Admitted)' = InState(q, Admitted)
           /\ InState(r, Admitted)' = IF to \in Admitted THEN InState(r, Admitted) \cup {s}
                                       ELSE InState(r, Admitted) \ {s}
<1>1. \A q \in Runs, x \in Settings :
        row'[q][x] = IF q = r /\ x = s THEN to ELSE row[q][x]
  BY DEF IInv, DataOK
<1>2. ASSUME NEW q \in Runs \ {r}
      PROVE  InState(q, Admitted)' = InState(q, Admitted)
  BY <1>1 DEF InState
<1>3. InState(r, Admitted)' = {x \in Settings : row'[r][x] \in Admitted}
  BY DEF InState
<1>4. CASE to \in Admitted
  BY <1>1, <1>3, <1>4 DEF InState
<1>5. CASE to \notin Admitted
  BY <1>1, <1>3, <1>5 DEF InState
<1> QED
  BY <1>2, <1>4, <1>5

\* A row that stays outside the slots, or stays inside, moves no slot.
LEMMA SlotsKept ==
    ASSUME IInv, SlotsCounted, NEW r \in Runs, NEW s \in Settings, NEW to \in Rows,
           row' = [row EXCEPT ![r][s] = to], free' = free, phase' = phase,
           to \in Admitted => row[r][s] \in Admitted
    PROVE  SlotsCounted'
<1> SUFFICES ASSUME NEW q \in Runs
             PROVE  Counted(phase[q], Cardinality(InState(q, Admitted)'), free[q])
  BY DEF SlotsCounted, Counted
<1>1. InState(q, Admitted)' \subseteq InState(q, Admitted)
  <2>1. CASE to \in Admitted
    <3>1. s \in InState(r, Admitted)
      BY <2>1 DEF InState
    <3> QED
      BY <2>1, <3>1, AdmittedAfter
  <2>2. CASE to \notin Admitted
    BY <2>2, AdmittedAfter
  <2> QED
    BY <2>1, <2>2
<1>2. Cardinality(InState(q, Admitted)') \in Nat
      /\ Cardinality(InState(q, Admitted)') <= Cardinality(InState(q, Admitted))
  <2>1. IsFiniteSet(InState(q, Admitted))
    BY AdmittedFinite
  <2> QED
    BY <1>1, <2>1, FS_Subset, FS_CardinalityType
<1>3. free[q] \in Nat /\ Cardinality(InState(q, Admitted)) \in Nat /\ Slots \in Nat
  BY AdmittedFinite, StreamAssumption DEF IInv, DataOK
<1>4. Counted(phase[q], Cardinality(InState(q, Admitted)), free[q])
  BY DEF SlotsCounted
<1> QED
  BY <1>2, <1>3, <1>4 DEF Counted

LEMMA SlotsPreserved == IInv /\ SlotsCounted /\ [Next]_vars => SlotsCounted'
<1> SUFFICES ASSUME IInv, SlotsCounted, [Next]_vars PROVE SlotsCounted'
  OBVIOUS
<1>0. \A q \in Runs : /\ Counted(phase[q], Cardinality(InState(q, Admitted)), free[q])
                      /\ free[q] \in Nat /\ Slots \in Nat
                      /\ Cardinality(InState(q, Admitted)) \in Nat
  BY AdmittedFinite, StreamAssumption DEF SlotsCounted, IInv, DataOK
<1>1. ASSUME NEW r \in Runs, NEW h, phase[r] # "stopped", h # "stopped",
             phase' = [phase EXCEPT ![r] = h], row' = row, free' = free
      PROVE  SlotsCounted'
  <2> SUFFICES ASSUME NEW q \in Runs
               PROVE  Counted(phase'[q], Cardinality(InState(q, Admitted)), free[q])
    BY <1>1 DEF SlotsCounted, Counted, InState
  <2>1. phase'[q] = IF q = r THEN h ELSE phase[q]
    BY <1>1 DEF IInv, DataOK
  <2> QED
    BY <1>0, <1>1, <2>1 DEF Counted
<1>2. ASSUME NEW r \in Runs, Request(r) \/ StreamStep(r) PROVE SlotsCounted'
  <2>1. phase[r] # "stopped" /\ row' = row /\ free' = free
    BY <1>2 DEF Request, StreamStep, StartLanes, Show, TakeLaneEnd
  <2>2. PICK h \in {"checking", "streaming", "done"} : phase' = [phase EXCEPT ![r] = h]
    <3>1. CASE Request(r)
      BY <3>1 DEF Request
    <3>2. CASE StartLanes(r)
      BY <3>2 DEF StartLanes, Conclude
    <3>3. CASE Show(r)
      BY <3>3 DEF Show, IInv, DataOK
    <3>4. CASE TakeLaneEnd(r)
      BY <3>4 DEF TakeLaneEnd, Conclude, IInv, DataOK
    <3> QED
      BY <1>2, <3>1, <3>2, <3>3, <3>4 DEF StreamStep
  <2> QED
    BY <1>1, <2>1, <2>2
<1>7. ASSUME NEW r \in Runs, Stop(r) PROVE SlotsCounted'
  <2> SUFFICES ASSUME NEW q \in Runs
               PROVE  Counted(phase'[q], Cardinality(InState(q, Admitted)), free'[q])
    BY <1>7 DEF Stop, SlotsCounted, Counted, InState
  <2>1. CASE q = r
    <3>1. phase'[r] = "stopped" /\ free'[r] = Slots /\ phase[r] # "stopped"
      BY <1>7 DEF Stop, IInv, DataOK
    <3> QED
      BY <1>0, <2>1, <3>1 DEF Counted
  <2>2. CASE q # r
    <3>1. phase'[q] = phase[q] /\ free'[q] = free[q]
      BY <1>7, <2>2 DEF Stop, IInv, DataOK
    <3> QED
      BY <1>0, <3>1
  <2> QED
    BY <2>1, <2>2
<1>3. ASSUME NEW r \in Runs, NEW s \in Settings, Start(r, s) PROVE SlotsCounted'
  <2>1. row' = [row EXCEPT ![r][s] = "pooled"] /\ "pooled" \in Rows /\ "pooled" \in Admitted
    BY <1>3 DEF Start, Submit, SetRow, Rows, Occupying, Admitted
  <2>2. s \notin InState(r, Admitted)
    BY <1>3 DEF Start, Submit, InState, Admitted, Occupying
  <2>3. Cardinality(InState(r, Admitted)') = Cardinality(InState(r, Admitted)) + 1
    <3>1. InState(r, Admitted)' = InState(r, Admitted) \cup {s}
      BY <2>1, AdmittedAfter
    <3> QED
      BY <2>2, <3>1, AdmittedFinite, FS_AddElement
  <2>4. free' = [free EXCEPT ![r] = @ - 1] /\ phase' = phase /\ phase[r] # "stopped"
    BY <1>3 DEF Start, Submit
  <2> SUFFICES ASSUME NEW q \in Runs
               PROVE  Counted(phase[q], Cardinality(InState(q, Admitted)'), free'[q])
    BY <2>4 DEF SlotsCounted, Counted
  <2>5. CASE q = r
    <3>1. free'[r] = free[r] - 1
      BY <2>4 DEF IInv, DataOK
    <3> QED
      BY <1>0, <2>3, <2>4, <2>5, <3>1 DEF Counted
  <2>6. CASE q # r
    <3>1. free'[q] = free[q]
      BY <2>4, <2>6 DEF IInv, DataOK
    <3>2. InState(q, Admitted)' = InState(q, Admitted)
      BY <2>1, <2>6, AdmittedAfter
    <3> QED
      BY <1>0, <3>1, <3>2
  <2> QED
    BY <2>5, <2>6
<1>4. ASSUME NEW r \in Runs, NEW s \in Settings, Learn(r, s) PROVE SlotsCounted'
  <2>1. PICK to \in Finished : row' = [row EXCEPT ![r][s] = to]
    BY <1>4 DEF Learn, Outcome, SetRow, Finished
  <2>2. to \in Rows /\ to \notin Admitted
    BY DEF Rows, Finished, Occupying, Admitted
  <2>3. s \in InState(r, Admitted)
    BY <1>4 DEF Learn, Outcome, InState, Admitted, Occupying
  <2>4. Cardinality(InState(r, Admitted)') = Cardinality(InState(r, Admitted)) - 1
    BY <2>1, <2>2, <2>3, AdmittedAfter, AdmittedFinite, FS_RemoveElement
  <2>5. free' = [free EXCEPT ![r] = @ + 1] /\ phase' = phase /\ phase[r] # "stopped"
    BY <1>4 DEF Learn, Outcome
  <2> SUFFICES ASSUME NEW q \in Runs
               PROVE  Counted(phase[q], Cardinality(InState(q, Admitted)'), free'[q])
    BY <2>5 DEF SlotsCounted, Counted
  <2>6. CASE q = r
    <3>1. free'[r] = free[r] + 1
      BY <2>5 DEF IInv, DataOK
    <3> QED
      BY <1>0, <2>4, <2>5, <2>6, <3>1 DEF Counted
  <2>7. CASE q # r
    <3>1. free'[q] = free[q]
      BY <2>5, <2>7 DEF IInv, DataOK
    <3>2. InState(q, Admitted)' = InState(q, Admitted)
      BY <2>1, <2>2, <2>7, AdmittedAfter
    <3> QED
      BY <1>0, <3>1, <3>2
  <2> QED
    BY <2>6, <2>7
<1>5. ASSUME NEW r \in Runs, NEW s \in Settings,
             ReportUnknown(r, s) \/ Write(r, s) \/ WriteEnds(r, s) \/ Drop(r, s)
      PROVE  SlotsCounted'
  <2> USE DEF Rows, Occupying, Admitted, Finished
  <2>1. PICK to \in Rows : /\ row' = [row EXCEPT ![r][s] = to]
                           /\ to \in Admitted => row[r][s] \in Admitted
    <3>1. CASE ReportUnknown(r, s)
      <4> WITNESS "failed" \in Rows
      <4> QED
        BY <3>1 DEF ReportUnknown, SetRow
    <3>2. CASE Write(r, s)
      <4> WITNESS "writing" \in Rows
      <4> QED
        BY <3>2 DEF Write, SetRow
    <3>3. CASE WriteEnds(r, s)
      <4>1. row[r][s] \in Admitted
        BY <3>3 DEF WriteEnds
      <4>2. PICK outcome \in {"wrote", "broke"} : row' = [row EXCEPT ![r][s] = outcome]
        BY <3>3 DEF WriteEnds, SetRow
      <4> WITNESS outcome \in Rows
      <4> QED
        BY <4>1, <4>2
    <3>4. CASE Drop(r, s)
      <4> WITNESS "dropped" \in Rows
      <4> QED
        BY <3>4 DEF Drop, SetRow
    <3> QED
      BY <1>5, <3>1, <3>2, <3>3, <3>4
  <2>2. free' = free /\ phase' = phase
    BY <1>5 DEF ReportUnknown, Write, WriteEnds, Drop
  <2> QED
    BY <2>1, <2>2, SlotsKept
<1>6. CASE UNCHANGED vars
  BY <1>6 DEF vars, SlotsCounted, Counted, InState
<1> QED
  BY <1>2, <1>3, <1>4, <1>5, <1>6, <1>7 DEF Next, SettingStep

LEMMA SlotsFromInit == Init => SlotsCounted
<1> SUFFICES ASSUME Init, NEW r \in Runs
             PROVE  Counted(phase[r], Cardinality(InState(r, Admitted)), free[r])
  BY DEF SlotsCounted
<1>1. InState(r, Admitted) = {}
  BY DEF Init, InState, Admitted, Occupying
<1>2. Cardinality(InState(r, Admitted)) = 0
  BY <1>1, FS_EmptySet
<1>3. phase[r] = "idle" /\ free[r] = Slots /\ Slots \in Nat
  BY StreamAssumption DEF Init
<1> QED
  BY <1>2, <1>3 DEF Counted

LEMMA InvariantHolds == Spec => []IInv
BY InitEstablishes, NextPreserves, PTL DEF Spec

-----------------------------------------------------------------------------
(***************************************************************************)
(* The account of one run, in its own values: phase h, plan p, rows w,     *)
(* queue q, lane ends to come e, shown ids v, tally d.                     *)
(***************************************************************************)
InRow(w, states) == {s \in Settings : w[s] \in states}

\* The lanes still at work, by their last settings; the lane ends in a queue.
Open(p, w) == {s \in InLanes(p) : LastOfLane(p, s) /\ w[s] \notin Finished}
Marks(q) == {i \in DOMAIN q : q[i] = LaneEnd}

\* Only settings of the request move; one nobody knows is only reported.
RowsFit(h, p, w) ==
    /\ \A s \in Settings : w[s] # "none" => s \in InLanes(p) \cup p.unknown
    /\ \A s \in p.unknown : w[s] \in {"none", "failed"}
    /\ h \in {"idle", "checking"} => \A s \in InLanes(p) : w[s] = "none"

\* An outcome in the queue is a finished setting's; the end of a lane that is
\* through comes behind all its outcomes.
QueueFits(h, p, w, q) ==
    /\ q \in Seq(Settings \cup {LaneEnd})
    /\ h \in {"idle", "checking"} => q = <<>>
    /\ \A i \in DOMAIN q : q[i] # LaneEnd => q[i] \in InLanes(p) /\ w[q[i]] \in Finished
    /\ \A i \in DOMAIN q, x \in InLanes(p) :
         LastOfLane(p, x) /\ w[x] \in Finished /\ (q[i] = x \/ q[i] \in Before(p, x))
            => \E j \in DOMAIN q : i < j /\ q[j] = LaneEnd

\* What is through has been shown or waits in the queue.
ShownFits(h, p, w, q, v) ==
    /\ v \subseteq InRow(w, Finished)
    /\ \A s \in p.unknown : w[s] # "none" => s \in v
    /\ h = "streaming" => p.unknown \subseteq v
    /\ h = "streaming" => \A s \in InLanes(p) :
         w[s] \in Finished => s \in v \/ \E i \in DOMAIN q : q[i] = s

EndsCover(h, p, w, q, e) ==
    h = "streaming" => Cardinality(Open(p, w)) + Cardinality(Marks(q)) <= e

Tallied(h, p, v, d) ==
    h = "done" => /\ v = InLanes(p) \cup p.unknown
                  /\ d.succeeded + d.failed = Cardinality(v)

Balanced(h, p, w, q, e, v, d) ==
    /\ RowsFit(h, p, w) /\ QueueFits(h, p, w, q) /\ ShownFits(h, p, w, q, v)
    /\ EndsCover(h, p, w, q, e) /\ Tallied(h, p, v, d)

Account ==
    /\ ends \in [Runs -> Int]
    /\ queue \in [Runs -> Seq(Settings \cup {LaneEnd})]
    /\ shown \in [Runs -> SUBSET Settings]
    /\ done \in [Runs -> [succeeded : Nat, failed : Nat]]
    /\ \A r \in Runs :
         Balanced(phase[r], plan[r], row[r], queue[r], ends[r], shown[r], done[r])

-----------------------------------------------------------------------------
(* Plans: every setting of a lane has that lane's last behind it or is it, *)
(* and there are no more last settings than lanes.                         *)

LEMMA LaneShape ==
    ASSUME NEW p, IsPlan(p)
    PROVE  /\ Len(p.lanes) \in Nat /\ DOMAIN p.lanes = 1..Len(p.lanes)
           /\ \A l \in DOMAIN p.lanes : /\ Len(p.lanes[l]) \in Nat
                                        /\ DOMAIN p.lanes[l] = 1..Len(p.lanes[l])
           /\ \A s \in InLanes(p) : \E l \in DOMAIN p.lanes : \E i \in DOMAIN p.lanes[l] :
                s = p.lanes[l][i]
           /\ \A l \in DOMAIN p.lanes : \A i \in DOMAIN p.lanes[l] : p.lanes[l][i] \in InLanes(p)
<1>1. p.lanes \in Seq(Seq(Settings \ p.unknown))
  BY DEF IsPlan
<1>2. /\ Len(p.lanes) \in Nat /\ DOMAIN p.lanes = 1..Len(p.lanes)
      /\ \A l \in DOMAIN p.lanes : p.lanes[l] \in Seq(Settings \ p.unknown)
  BY <1>1
<1>3. ASSUME NEW l \in DOMAIN p.lanes
      PROVE  Len(p.lanes[l]) \in Nat /\ DOMAIN p.lanes[l] = 1..Len(p.lanes[l])
  BY <1>2
<1> QED
  BY <1>2, <1>3 DEF InLanes

LEMMA BeforeFacts ==
    ASSUME NEW p, NEW s, NEW t
    PROVE  t \in Before(p, s) <=>
             \E l \in DOMAIN p.lanes : \E k, j \in DOMAIN p.lanes[l] :
                k < j /\ p.lanes[l][k] = t /\ p.lanes[l][j] = s
BY DEF Before

LEMMA LaneHasLast ==
    ASSUME NEW p, IsPlan(p), NEW s \in InLanes(p)
    PROVE  \E x \in InLanes(p) : LastOfLane(p, x) /\ (x = s \/ s \in Before(p, x))
<1>0. PICK l \in DOMAIN p.lanes : \E i \in DOMAIN p.lanes[l] : s = p.lanes[l][i]
  BY LaneShape
<1>1. PICK i \in DOMAIN p.lanes[l] : s = p.lanes[l][i]
  BY <1>0
<1> DEFINE n == Len(p.lanes[l])
           x == p.lanes[l][n]
<1>2. n \in Nat /\ DOMAIN p.lanes[l] = 1..n /\ i \in 1..n /\ n \in DOMAIN p.lanes[l]
  BY LaneShape
<1>3. x \in InLanes(p)
  BY <1>2, LaneShape
<1>4. x = s \/ s \in Before(p, x)
  <2>1. CASE i = n
    BY <1>1, <2>1
  <2>2. CASE i < n
    BY <1>1, <1>2, <2>2, BeforeFacts
  <2> QED
    BY <1>2, <2>1, <2>2
<1>5. LastOfLane(p, x)
  <2> SUFFICES ASSUME NEW t \in InLanes(p), x \in Before(p, t) PROVE FALSE
    BY DEF LastOfLane
  <2>0. PICK m \in DOMAIN p.lanes : \E k, j \in DOMAIN p.lanes[m] : k < j /\ p.lanes[m][k] = x
    BY BeforeFacts
  <2>1. PICK k \in DOMAIN p.lanes[m], j \in DOMAIN p.lanes[m] : k < j /\ p.lanes[m][k] = x
    BY <2>0
  <2>2. m = l
    BY <1>2, <2>1 DEF IsPlan
  <2>3. k < n
    BY <1>2, <2>1, <2>2
  <2>4. x \in Before(p, x)
    BY <1>2, <2>1, <2>2, <2>3, BeforeFacts
  <2> QED
    BY <1>3, <2>4 DEF IsPlan
<1> QED
  BY <1>3, <1>4, <1>5

LEMMA LastsFitLanes ==
    ASSUME NEW p, IsPlan(p), NEW S, S \subseteq {s \in InLanes(p) : LastOfLane(p, s)}
    PROVE  IsFiniteSet(S) /\ Cardinality(S) \in Nat /\ Cardinality(S) <= Len(p.lanes)
<1> DEFINE EndOf(s, l) ==
             l \in DOMAIN p.lanes /\ p.lanes[l] # <<>> /\ p.lanes[l][Len(p.lanes[l])] = s
           f == [s \in S |-> CHOOSE l \in 1..Len(p.lanes) : EndOf(s, l)]
<1>1. ASSUME NEW s \in S PROVE \E l \in 1..Len(p.lanes) : EndOf(s, l)
  <2>0. PICK l \in DOMAIN p.lanes : \E i \in DOMAIN p.lanes[l] : s = p.lanes[l][i]
    BY LaneShape
  <2>1. PICK i \in DOMAIN p.lanes[l] : s = p.lanes[l][i]
    BY <2>0
  <2>2. Len(p.lanes[l]) \in Nat /\ DOMAIN p.lanes[l] = 1..Len(p.lanes[l])
    BY LaneShape
  <2>3. i = Len(p.lanes[l])
    <3> SUFFICES ASSUME i < Len(p.lanes[l]) PROVE FALSE
      BY <2>2
    <3>1. p.lanes[l][Len(p.lanes[l])] \in InLanes(p)
      BY <2>2, LaneShape
    <3>2. s \in Before(p, p.lanes[l][Len(p.lanes[l])])
      BY <2>1, <2>2, BeforeFacts
    <3> QED
      BY <3>1, <3>2 DEF LastOfLane
  <2>4. EndOf(s, l) /\ l \in 1..Len(p.lanes)
    BY <2>1, <2>2, <2>3, LaneShape
  <2> QED
    BY <2>4
<1>2. \A s \in S : f[s] \in 1..Len(p.lanes) /\ EndOf(s, f[s])
  BY <1>1
<1> HIDE DEF f
<1>3. f \in Injection(S, 1..Len(p.lanes))
  <2>1. f \in [S -> 1..Len(p.lanes)]
    BY <1>2 DEF f
  <2>2. \A s, t \in S : f[s] = f[t] => s = t
    BY <1>2
  <2> QED
    BY <2>1, <2>2 DEF Injection, IsInjective
<1>4. IsFiniteSet(1..Len(p.lanes)) /\ Cardinality(1..Len(p.lanes)) = Len(p.lanes)
  BY LaneShape, FS_Interval
<1> QED
  BY <1>3, <1>4, FS_Injection, FS_CardinalityType

-----------------------------------------------------------------------------
(* Queues.                                                                 *)

LEMMA SettingFacts ==
    ASSUME NEW p, IsPlan(p)
    PROVE  /\ InLanes(p) \subseteq Settings \ p.unknown /\ p.unknown \subseteq Settings
           /\ LaneEnd \notin Settings /\ IsFiniteSet(Settings)
           /\ \A x : Before(p, x) \subseteq InLanes(p)
BY LaneFacts, BeforeInLanes, StreamAssumption DEF IsPlan

LEMMA MarksFinite ==
    ASSUME NEW T, NEW q \in Seq(T)
    PROVE  IsFiniteSet(Marks(q)) /\ Cardinality(Marks(q)) \in Nat
<1>1. IsFiniteSet(1..Len(q)) /\ Marks(q) \subseteq 1..Len(q)
  BY FS_Interval DEF Marks
<1> QED
  BY <1>1, FS_Subset, FS_CardinalityType

LEMMA TailFacts ==
    ASSUME NEW T, NEW q \in Seq(T), q # <<>>
    PROVE  /\ Tail(q) \in Seq(T) /\ Len(q) \in Nat /\ DOMAIN q = 1..Len(q) /\ 1 \in DOMAIN q
           /\ Head(q) = q[1]
           /\ DOMAIN Tail(q) = 1..(Len(q) - 1)
           /\ \A i \in DOMAIN Tail(q) : Tail(q)[i] = q[i + 1]
OBVIOUS

LEMMA TailMarks ==
    ASSUME NEW T, NEW q \in Seq(T), q # <<>>
    PROVE  Cardinality(Marks(Tail(q)))
             <= Cardinality(Marks(q)) - (IF Head(q) = LaneEnd THEN 1 ELSE 0)
<1> DEFINE S == Marks(q) \ {1}
           f == [i \in Marks(Tail(q)) |-> i + 1]
<1>1. f \in [Marks(Tail(q)) -> S]
  BY TailFacts DEF Marks
<1>2. \A i, j \in Marks(Tail(q)) : f[i] = f[j] => i = j
  BY TailFacts DEF Marks
<1>3. f \in Injection(Marks(Tail(q)), S)
  BY <1>1, <1>2 DEF Injection, IsInjective
<1> HIDE DEF f
<1>4. IsFiniteSet(S)
      /\ Cardinality(S) = Cardinality(Marks(q)) - (IF Head(q) = LaneEnd THEN 1 ELSE 0)
  <2>1. 1 \in Marks(q) <=> Head(q) = LaneEnd
    BY TailFacts DEF Marks
  <2> QED
    BY <2>1, MarksFinite, FS_RemoveElement
<1> QED
  BY <1>3, <1>4, FS_Injection

LEMMA TailFits ==
    ASSUME NEW p, IsPlan(p), NEW w, NEW q, q # <<>>, QueueFits("streaming", p, w, q),
           NEW h \in {"streaming", "done"}
    PROVE  QueueFits(h, p, w, Tail(q))
<1>1. q \in Seq(Settings \cup {LaneEnd})
  BY DEF QueueFits
<1> HIDE DEF LaneEnd
<1>2. /\ Tail(q) \in Seq(Settings \cup {LaneEnd}) /\ Len(q) \in Nat /\ DOMAIN q = 1..Len(q)
      /\ DOMAIN Tail(q) = 1..(Len(q) - 1)
      /\ \A i \in DOMAIN Tail(q) : Tail(q)[i] = q[i + 1] /\ i + 1 \in DOMAIN q
  BY <1>1, TailFacts
<1>3. ASSUME NEW i \in DOMAIN Tail(q), NEW x \in InLanes(p),
             LastOfLane(p, x), w[x] \in Finished,
             Tail(q)[i] = x \/ Tail(q)[i] \in Before(p, x)
      PROVE  \E j \in DOMAIN Tail(q) : i < j /\ Tail(q)[j] = LaneEnd
  <2>1. PICK j \in DOMAIN q : i + 1 < j /\ q[j] = LaneEnd
    BY <1>2, <1>3 DEF QueueFits
  <2>2. j - 1 \in DOMAIN Tail(q) /\ i < j - 1 /\ Tail(q)[j - 1] = LaneEnd
    BY <1>2, <2>1
  <2> QED
    BY <2>2
<1>4. \A i \in DOMAIN Tail(q) :
        Tail(q)[i] # LaneEnd => Tail(q)[i] \in InLanes(p) /\ w[Tail(q)[i]] \in Finished
  BY <1>2 DEF QueueFits
<1> QED
  BY <1>2, <1>3, <1>4 DEF QueueFits

\* Outcomes that go on the queue, with or without their lane's end.
LEMMA AppendFacts ==
    ASSUME NEW T, NEW q \in Seq(T), NEW a \in T, NEW b \in T
    PROVE  /\ q \o <<a>> \in Seq(T) /\ q \o <<a, b>> \in Seq(T)
           /\ Len(q) \in Nat /\ DOMAIN q = 1..Len(q)
           /\ DOMAIN (q \o <<a>>) = 1..(Len(q) + 1)
           /\ DOMAIN (q \o <<a, b>>) = 1..(Len(q) + 2)
           /\ \A i \in 1..Len(q) : (q \o <<a>>)[i] = q[i] /\ (q \o <<a, b>>)[i] = q[i]
           /\ (q \o <<a>>)[Len(q) + 1] = a
           /\ (q \o <<a, b>>)[Len(q) + 1] = a /\ (q \o <<a, b>>)[Len(q) + 2] = b
OBVIOUS

-----------------------------------------------------------------------------
(* What an action does to the account of its run.                          *)

\* A setting moves on and is not through yet.
LEMMA RowKeepsBalance ==
    ASSUME NEW h, h \notin {"idle", "checking"}, NEW p, IsPlan(p), NEW w \in [Settings -> Rows],
           NEW q, NEW e, NEW v, NEW d, Balanced(h, p, w, q, e, v, d),
           NEW s \in InLanes(p), w[s] \notin Finished,
           NEW to \in Rows \ (Finished \cup {"none"})
    PROVE  Balanced(h, p, [w EXCEPT ![s] = to], q, e, v, d)
<1> DEFINE u == [w EXCEPT ![s] = to]
<1>1. \A t \in Settings : /\ u[t] \in Finished <=> w[t] \in Finished
                          /\ t # s => u[t] = w[t]
  BY SettingFacts
<1>2. InRow(u, Finished) = InRow(w, Finished)
  BY <1>1 DEF InRow
<1>3. Open(p, u) = Open(p, w)
  BY <1>1, SettingFacts DEF Open
<1> HIDE DEF u
<1>4. RowsFit(h, p, u)
  BY <1>1, SettingFacts DEF Balanced, RowsFit
<1>5. QueueFits(h, p, u, q)
  BY <1>1, SettingFacts DEF Balanced, QueueFits
<1>6. ShownFits(h, p, u, q, v)
  BY <1>1, <1>2, SettingFacts DEF Balanced, ShownFits
<1>7. EndsCover(h, p, u, q, e)
  BY <1>3 DEF Balanced, EndsCover
<1> QED
  BY <1>4, <1>5, <1>6, <1>7 DEF Balanced, u

LEMMA ReportKeepsBalance ==
    ASSUME NEW p, IsPlan(p), NEW w \in [Settings -> Rows],
           NEW q, NEW e, NEW v, NEW d, Balanced("checking", p, w, q, e, v, d),
           NEW s \in p.unknown, w[s] = "none"
    PROVE  Balanced("checking", p, [w EXCEPT ![s] = "failed"], q, e, v \cup {s}, d)
<1> DEFINE u == [w EXCEPT ![s] = "failed"]
<1>1. \A t \in Settings : u[t] = IF t = s THEN "failed" ELSE w[t]
  OBVIOUS
<1>2. s \in Settings /\ s \notin InLanes(p) /\ u[s] = "failed"
  BY <1>1, SettingFacts
<1> HIDE DEF u
<1>3. RowsFit("checking", p, u)
  BY <1>1, <1>2, SettingFacts DEF Balanced, RowsFit
<1>4. QueueFits("checking", p, u, q)
  BY DEF Balanced, QueueFits
<1>5. ShownFits("checking", p, u, q, v \cup {s})
  BY <1>1, <1>2, SettingFacts DEF Balanced, ShownFits, InRow, Finished
<1> QED
  BY <1>3, <1>4, <1>5 DEF Balanced, EndsCover, Tallied, u

LEMMA LearnKeepsBalance ==
    ASSUME NEW p, IsPlan(p), NEW w \in [Settings -> Rows],
           NEW q, NEW e \in Int, NEW v, NEW d, Balanced("streaming", p, w, q, e, v, d),
           \A x \in InLanes(p) : w[x] # "none" => \A t \in Before(p, x) : w[t] \in Finished,
           NEW s \in InLanes(p), w[s] \in {"wrote", "broke"}, NEW to \in Finished
    PROVE  Balanced("streaming", p, [w EXCEPT ![s] = to],
                    q \o (IF LastOfLane(p, s) THEN <<s, LaneEnd>> ELSE <<s>>), e, v, d)
<1> DEFINE u == [w EXCEPT ![s] = to]
           z == q \o (IF LastOfLane(p, s) THEN <<s, LaneEnd>> ELSE <<s>>)
<1>1. \A t \in Settings : u[t] = IF t = s THEN to ELSE w[t]
  OBVIOUS
<1>2. s \in Settings /\ s \notin p.unknown /\ u[s] \in Finished /\ w[s] \notin Finished
  BY <1>1, SettingFacts DEF Finished
<1>3. q \in Seq(Settings \cup {LaneEnd})
  BY DEF Balanced, QueueFits
<1>4. /\ z \in Seq(Settings \cup {LaneEnd}) /\ Len(q) \in Nat /\ DOMAIN q = 1..Len(q)
      /\ DOMAIN z = 1..(IF LastOfLane(p, s) THEN Len(q) + 2 ELSE Len(q) + 1)
      /\ \A i \in 1..Len(q) : z[i] = q[i]
      /\ z[Len(q) + 1] = s
      /\ LastOfLane(p, s) => z[Len(q) + 2] = LaneEnd
  <2> HIDE DEF LaneEnd
  <2> DEFINE T == Settings \cup {LaneEnd}
  <2> HIDE DEF T
  <2>1. q \in Seq(T) /\ s \in T /\ LaneEnd \in T
    BY <1>2, <1>3 DEF T
  <2>2. CASE LastOfLane(p, s)
    <3>1. z = q \o <<s, LaneEnd>>
      BY <2>2
    <3> HIDE DEF z
    <3> QED
      BY <2>1, <2>2, <3>1, AppendFacts DEF T
  <2>3. CASE ~LastOfLane(p, s)
    <3>1. z = q \o <<s>>
      BY <2>3
    <3> HIDE DEF z
    <3> QED
      BY <2>1, <2>3, <3>1, AppendFacts DEF T
  <2> QED
    BY <2>2, <2>3
<1> HIDE DEF u, z, LaneEnd
<1>5. RowsFit("streaming", p, u)
  BY <1>1, <1>2, SettingFacts DEF Balanced, RowsFit
<1>6. QueueFits("streaming", p, u, z)
  <2>1. ASSUME NEW i \in DOMAIN z, z[i] # LaneEnd
        PROVE  z[i] \in InLanes(p) /\ u[z[i]] \in Finished
    <3>1. CASE i \in 1..Len(q)
      BY <1>1, <1>2, <1>4, <2>1, <3>1, SettingFacts DEF Balanced, QueueFits
    <3>2. CASE i = Len(q) + 1
      BY <1>2, <1>4, <3>2
    <3> QED
      BY <1>4, <2>1, <3>1, <3>2
  <2>2. ASSUME NEW i \in DOMAIN z, NEW x \in InLanes(p),
               LastOfLane(p, x), u[x] \in Finished, z[i] = x \/ z[i] \in Before(p, x)
        PROVE  \E j \in DOMAIN z : i < j /\ z[j] = LaneEnd
    <3>1. z[i] \in Settings /\ z[i] # LaneEnd
      BY <2>2, SettingFacts
    <3>2. i \in 1..Len(q) + 1
      BY <1>4, <3>1
    <3>3. CASE x = s
      BY <1>4, <2>2, <3>2, <3>3
    <3>4. CASE x # s
      <4>1. w[x] \in Finished /\ w[x] # "none"
        BY <1>1, <2>2, <3>4, SettingFacts DEF Finished
      <4>2. i # Len(q) + 1
        BY <1>2, <1>4, <2>2, <3>4, <4>1
      <4>3. PICK j \in DOMAIN q : i < j /\ q[j] = LaneEnd
        BY <1>4, <2>2, <3>2, <4>1, <4>2 DEF Balanced, QueueFits
      <4>4. j \in DOMAIN z /\ z[j] = LaneEnd
        BY <1>4, <4>3
      <4> QED
        BY <4>3, <4>4
    <3> QED
      BY <3>3, <3>4
  <2> QED
    BY <1>4, <2>1, <2>2 DEF QueueFits
<1>7. ShownFits("streaming", p, u, z, v)
  <2>1. InRow(w, Finished) \subseteq InRow(u, Finished)
    BY <1>1, <1>2 DEF InRow
  <2>2. ASSUME NEW t \in InLanes(p), u[t] \in Finished
        PROVE  t \in v \/ \E i \in DOMAIN z : z[i] = t
    <3>1. CASE t = s
      BY <1>4, <3>1
    <3>2. CASE t # s
      <4>1. t \in v \/ \E i \in DOMAIN q : q[i] = t
        BY <1>1, <2>2, <3>2, SettingFacts DEF Balanced, ShownFits
      <4> QED
        BY <1>4, <4>1
    <3> QED
      BY <3>1, <3>2
  <2>3. \A t \in p.unknown : u[t] # "none" => t \in v
    BY <1>1, <1>2, SettingFacts DEF Balanced, ShownFits
  <2> QED
    BY <2>1, <2>2, <2>3 DEF Balanced, ShownFits
<1>8. EndsCover("streaming", p, u, z, e)
  <2>1. /\ IsFiniteSet(Open(p, w)) /\ Cardinality(Open(p, w)) \in Nat
        /\ IsFiniteSet(Marks(q)) /\ Cardinality(Marks(q)) \in Nat
    BY <1>3, LastsFitLanes, MarksFinite DEF Open
  <2>2. Cardinality(Open(p, w)) + Cardinality(Marks(q)) <= e
    BY DEF Balanced, EndsCover
  <2>3. CASE LastOfLane(p, s)
    <3>1. Open(p, u) = Open(p, w) \ {s} /\ s \in Open(p, w)
      BY <1>1, <1>2, <2>3, SettingFacts DEF Open
    <3>2. Marks(z) = Marks(q) \cup {Len(q) + 2} /\ Len(q) + 2 \notin Marks(q)
      BY <1>2, <1>4, <2>3, SettingFacts DEF Marks
    <3>3. Cardinality(Open(p, u)) = Cardinality(Open(p, w)) - 1
      BY <2>1, <3>1, FS_RemoveElement
    <3>4. Cardinality(Marks(z)) = Cardinality(Marks(q)) + 1
      BY <2>1, <3>2, FS_AddElement
    <3> QED
      BY <2>1, <2>2, <3>3, <3>4 DEF EndsCover
  <2>4. CASE ~LastOfLane(p, s)
    <3>1. Open(p, u) = Open(p, w)
      BY <1>1, <2>4, SettingFacts DEF Open
    <3>2. Marks(z) = Marks(q)
      BY <1>2, <1>4, <2>4, SettingFacts DEF Marks
    <3> QED
      BY <2>2, <3>1, <3>2 DEF EndsCover
  <2> QED
    BY <2>3, <2>4
<1> QED
  BY <1>5, <1>6, <1>7, <1>8 DEF Balanced, Tallied, u, z

\* A run that is through and has shown everything counts what it has shown.
LEMMA TallyAddsUp ==
    ASSUME NEW h, NEW p, IsPlan(p), NEW w \in [Settings -> Rows], RowsFit(h, p, w),
           NEW v, v \subseteq InRow(w, Finished), InLanes(p) \cup p.unknown \subseteq v
    PROVE  /\ v = InLanes(p) \cup p.unknown
           /\ Cardinality(InRow(w, {"succeeded"})) + Cardinality(InRow(w, {"failed"}))
                = Cardinality(v)
           /\ Cardinality(InRow(w, {"succeeded"})) \in Nat
           /\ Cardinality(InRow(w, {"failed"})) \in Nat
<1> DEFINE S == InRow(w, {"succeeded"})
           F == InRow(w, {"failed"})
<1>1. InRow(w, Finished) \subseteq InLanes(p) \cup p.unknown
  BY DEF InRow, RowsFit, Finished
<1>2. v = InLanes(p) \cup p.unknown /\ v = S \cup F /\ S \cap F = {}
  BY <1>1 DEF InRow, Finished
<1>3. IsFiniteSet(S) /\ IsFiniteSet(F)
  BY SettingFacts, FS_Subset DEF InRow
<1>4. Cardinality(S \cup F) = Cardinality(S) + Cardinality(F) - Cardinality(S \cap F)
  BY <1>3, FS_Union
<1>5. Cardinality(S \cap F) = 0 /\ Cardinality(S) \in Nat /\ Cardinality(F) \in Nat
  BY <1>2, <1>3, FS_EmptySet, FS_CardinalityType
<1> HIDE DEF S, F
<1>6. Cardinality(v) = Cardinality(S \cup F)
  BY <1>2
<1>7. Cardinality(S) + Cardinality(F) = Cardinality(v)
  BY <1>4, <1>5, <1>6
<1> QED
  BY <1>2, <1>5, <1>7 DEF S, F

LEMMA ShowKeepsBalance ==
    ASSUME NEW p, IsPlan(p), NEW w \in [Settings -> Rows],
           NEW q, NEW e \in Int, NEW v, NEW d, Balanced("streaming", p, w, q, e, v, d),
           q # <<>>, Head(q) # LaneEnd
    PROVE  /\ Balanced("streaming", p, w, Tail(q), e, v \cup {Head(q)}, d)
           /\ Head(q) \in Settings
<1>1. q \in Seq(Settings \cup {LaneEnd})
  BY DEF Balanced, QueueFits
<1> HIDE DEF LaneEnd
<1>2. /\ Len(q) \in Nat /\ DOMAIN q = 1..Len(q) /\ 1 \in DOMAIN q /\ Head(q) = q[1]
      /\ DOMAIN Tail(q) = 1..(Len(q) - 1)
      /\ \A i \in DOMAIN Tail(q) : Tail(q)[i] = q[i + 1]
      /\ Tail(q) \in Seq(Settings \cup {LaneEnd})
  BY <1>1, TailFacts
<1>3. Head(q) \in InLanes(p) /\ Head(q) \in Settings /\ w[Head(q)] \in Finished
  BY <1>2, SettingFacts DEF Balanced, QueueFits
<1>4. QueueFits("streaming", p, w, Tail(q))
  BY TailFits DEF Balanced
<1>5. ShownFits("streaming", p, w, Tail(q), v \cup {Head(q)})
  <2>1. ASSUME NEW i \in DOMAIN q, q[i] # Head(q)
        PROVE  \E j \in DOMAIN Tail(q) : Tail(q)[j] = q[i]
    <3>1. i - 1 \in DOMAIN Tail(q) /\ Tail(q)[i - 1] = q[i]
      BY <1>2, <2>1
    <3> QED
      BY <3>1
  <2>2. v \cup {Head(q)} \subseteq InRow(w, Finished)
    BY <1>3 DEF InRow, Balanced, ShownFits
  <2> QED
    BY <2>1, <2>2 DEF Balanced, ShownFits
<1>6. EndsCover("streaming", p, w, Tail(q), e)
  <2>1. /\ Cardinality(Marks(Tail(q))) \in Nat /\ Cardinality(Marks(q)) \in Nat
        /\ Cardinality(Open(p, w)) \in Nat
    BY <1>1, <1>2, MarksFinite, LastsFitLanes DEF Open
  <2>2. Cardinality(Marks(Tail(q))) <= Cardinality(Marks(q))
    BY <1>1, <2>1, TailMarks
  <2> QED
    BY <2>1, <2>2 DEF Balanced, EndsCover
<1> QED
  BY <1>3, <1>4, <1>5, <1>6 DEF Balanced, Tallied

\* The last lane end comes behind every outcome.
LEMMA LastEndShowsAll ==
    ASSUME NEW p, IsPlan(p), NEW w \in [Settings -> Rows],
           NEW q, NEW v, NEW d, Balanced("streaming", p, w, q, 1, v, d),
           \A x \in InLanes(p) : w[x] # "none" => \A t \in Before(p, x) : w[t] \in Finished,
           q # <<>>, Head(q) = LaneEnd
    PROVE  InLanes(p) \cup p.unknown \subseteq v
<1>1. q \in Seq(Settings \cup {LaneEnd})
  BY DEF Balanced, QueueFits
<1> HIDE DEF LaneEnd
<1>2. /\ Len(q) \in Nat /\ DOMAIN q = 1..Len(q) /\ 1 \in DOMAIN q /\ q[1] = LaneEnd
  BY <1>1, TailFacts
<1>3. /\ IsFiniteSet(Open(p, w)) /\ Cardinality(Open(p, w)) \in Nat
      /\ IsFiniteSet(Marks(q)) /\ Cardinality(Marks(q)) \in Nat
  BY <1>1, LastsFitLanes, MarksFinite DEF Open
<1>4. 1 \in Marks(q) /\ Cardinality(Marks(q)) # 0
  <2>1. 1 \in Marks(q)
    BY <1>2 DEF Marks
  <2> QED
    BY <1>3, <2>1, FS_EmptySet
<1>5. Cardinality(Open(p, w)) = 0 /\ Cardinality(Marks(q)) = 1
  BY <1>3, <1>4 DEF Balanced, EndsCover
<1>6. Open(p, w) = {} /\ Marks(q) = {1}
  BY <1>3, <1>4, <1>5, FS_EmptySet, FS_Singleton
<1>7. ASSUME NEW s \in InLanes(p) PROVE s \in v
  <2>1. PICK x \in InLanes(p) : LastOfLane(p, x) /\ (x = s \/ s \in Before(p, x))
    BY LaneHasLast
  <2>2. w[x] \in Finished /\ w[s] \in Finished
    BY <1>6, <2>1 DEF Open, Finished
  <2>3. ASSUME NEW i \in DOMAIN q, q[i] = s PROVE FALSE
    <3>1. PICK j \in DOMAIN q : i < j /\ q[j] = LaneEnd
      BY <2>1, <2>2, <2>3 DEF Balanced, QueueFits
    <3> QED
      BY <1>2, <1>6, <3>1 DEF Marks
  <2> QED
    BY <2>2, <2>3 DEF Balanced, ShownFits
<1> QED
  BY <1>7 DEF Balanced, ShownFits

LEMMA EndKeepsBalance ==
    ASSUME NEW p, IsPlan(p), NEW w \in [Settings -> Rows],
           NEW q, NEW e \in Int, NEW v, NEW d, Balanced("streaming", p, w, q, e, v, d),
           q # <<>>, Head(q) = LaneEnd
    PROVE  Balanced("streaming", p, w, Tail(q), e - 1, v, d)
<1>1. q \in Seq(Settings \cup {LaneEnd})
  BY DEF Balanced, QueueFits
<1> HIDE DEF LaneEnd
<1>2. /\ Len(q) \in Nat /\ DOMAIN q = 1..Len(q) /\ 1 \in DOMAIN q /\ q[1] = LaneEnd
      /\ DOMAIN Tail(q) = 1..(Len(q) - 1)
      /\ \A i \in DOMAIN Tail(q) : Tail(q)[i] = q[i + 1]
      /\ Tail(q) \in Seq(Settings \cup {LaneEnd})
  BY <1>1, TailFacts
<1>3. QueueFits("streaming", p, w, Tail(q))
  BY TailFits DEF Balanced
<1>4. ShownFits("streaming", p, w, Tail(q), v)
  <2>1. ASSUME NEW s \in InLanes(p), NEW i \in DOMAIN q, q[i] = s
        PROVE  \E j \in DOMAIN Tail(q) : Tail(q)[j] = s
    <3>1. i # 1
      BY <1>2, <2>1, SettingFacts
    <3>2. i - 1 \in DOMAIN Tail(q) /\ Tail(q)[i - 1] = s
      BY <1>2, <2>1, <3>1
    <3> QED
      BY <3>2
  <2> QED
    BY <2>1 DEF Balanced, ShownFits
<1>5. EndsCover("streaming", p, w, Tail(q), e - 1)
  <2>1. Cardinality(Marks(Tail(q))) <= Cardinality(Marks(q)) - 1
    BY <1>1, TailMarks
  <2>2. /\ Cardinality(Marks(Tail(q))) \in Nat /\ Cardinality(Marks(q)) \in Nat
        /\ Cardinality(Open(p, w)) \in Nat
    BY <1>1, <1>2, MarksFinite, LastsFitLanes DEF Open
  <2> QED
    BY <2>1, <2>2 DEF Balanced, EndsCover
<1> QED
  BY <1>3, <1>4, <1>5 DEF Balanced, Tallied

\* The run concludes: whatever is left in the queue, everything has been shown.
LEMMA ConcludeKeepsBalance ==
    ASSUME NEW h \in {"checking", "streaming"}, NEW p, IsPlan(p), NEW w \in [Settings -> Rows],
           NEW q, NEW e, NEW v, NEW d, Balanced(h, p, w, q, e, v, d),
           InLanes(p) \cup p.unknown \subseteq v, NEW z, QueueFits("done", p, w, z), NEW f,
           NEW c, c = [succeeded |-> Cardinality(InRow(w, {"succeeded"})),
                       failed |-> Cardinality(InRow(w, {"failed"}))]
    PROVE  Balanced("done", p, w, z, f, v, c) /\ c \in [succeeded : Nat, failed : Nat]
<1>1. /\ v = InLanes(p) \cup p.unknown
      /\ Cardinality(InRow(w, {"succeeded"})) + Cardinality(InRow(w, {"failed"}))
           = Cardinality(v)
      /\ Cardinality(InRow(w, {"succeeded"})) \in Nat /\ Cardinality(InRow(w, {"failed"})) \in Nat
  BY TallyAddsUp DEF Balanced, ShownFits
<1>2. Tallied("done", p, v, c)
  BY <1>1 DEF Tallied
<1>3. RowsFit("done", p, w) /\ ShownFits("done", p, w, z, v)
  BY DEF Balanced, RowsFit, ShownFits
<1> QED
  BY <1>1, <1>2, <1>3 DEF Balanced, EndsCover

\* The lanes start: none has written, and each owes one end.
LEMMA LanesStartBalanced ==
    ASSUME NEW p, IsPlan(p), NEW w \in [Settings -> Rows],
           NEW q, NEW e, NEW v, NEW d, Balanced("checking", p, w, q, e, v, d),
           \A s \in p.unknown : w[s] = "failed"
    PROVE  /\ Balanced("streaming", p, w, q, Len(p.lanes), v, d)
           /\ p.lanes = <<>> => InLanes(p) \cup p.unknown \subseteq v /\ QueueFits("done", p, w, q)
<1>1. q = <<>> /\ p.unknown \subseteq v
  BY DEF Balanced, QueueFits, ShownFits
<1>2. \A s \in InLanes(p) : w[s] \notin Finished
  BY DEF Balanced, RowsFit, Finished
<1>3. Marks(q) = {} /\ Cardinality(Marks(q)) = 0
  BY <1>1, FS_EmptySet DEF Marks
<1>4. EndsCover("streaming", p, w, q, Len(p.lanes))
  <2>1. Cardinality(Open(p, w)) \in Nat /\ Cardinality(Open(p, w)) <= Len(p.lanes)
    BY LastsFitLanes DEF Open
  <2> QED
    BY <1>3, <2>1 DEF EndsCover
<1>5. \A h \in {"streaming", "done"} : QueueFits(h, p, w, q)
  BY DEF Balanced, QueueFits
<1>6. Balanced("streaming", p, w, q, Len(p.lanes), v, d)
  BY <1>1, <1>2, <1>4, <1>5 DEF Balanced, RowsFit, ShownFits, Tallied
<1>7. p.lanes = <<>> => InLanes(p) = {}
  BY LaneShape
<1> QED
  BY <1>1, <1>5, <1>6, <1>7

-----------------------------------------------------------------------------
(* Every step keeps the account of every run.                              *)

LEMMA AccountFromInit == Init => Account
<1> SUFFICES ASSUME Init PROVE Account
  OBVIOUS
<1>1. /\ ends \in [Runs -> Int] /\ queue \in [Runs -> Seq(Settings \cup {LaneEnd})]
      /\ shown \in [Runs -> SUBSET Settings]
      /\ done \in [Runs -> [succeeded : Nat, failed : Nat]]
  BY DEF Init, NoTally
<1>2. ASSUME NEW r \in Runs
      PROVE  Balanced(phase[r], plan[r], row[r], queue[r], ends[r], shown[r], done[r])
  <2>1. /\ phase[r] = "idle" /\ row[r] = [s \in Settings |-> "none"] /\ queue[r] = <<>>
        /\ shown[r] = {} /\ plan[r] = EmptyPlan
    BY <1>2 DEF Init
  <2>2. IsPlan(plan[r])
    BY <2>1, EmptyPlanFacts
  <2>3. RowsFit(phase[r], plan[r], row[r])
    BY <2>1, <2>2, SettingFacts DEF RowsFit
  <2>4. QueueFits(phase[r], plan[r], row[r], queue[r])
    BY <2>1 DEF QueueFits
  <2>5. ShownFits(phase[r], plan[r], row[r], queue[r], shown[r])
    BY <2>1, <2>2, SettingFacts DEF ShownFits
  <2> QED
    BY <2>1, <2>3, <2>4, <2>5 DEF Balanced, EndsCover, Tallied
<1> QED
  BY <1>1, <1>2 DEF Account

\* A step of run r leaves the values of the others alone.
LEMMA OneRunSteps ==
    ASSUME Account, NEW r \in Runs,
           ends' \in [Runs -> Int], queue' \in [Runs -> Seq(Settings \cup {LaneEnd})],
           shown' \in [Runs -> SUBSET Settings],
           done' \in [Runs -> [succeeded : Nat, failed : Nat]],
           \A q \in Runs \ {r} :
              /\ phase'[q] = phase[q] /\ plan'[q] = plan[q] /\ row'[q] = row[q]
              /\ queue'[q] = queue[q] /\ ends'[q] = ends[q] /\ shown'[q] = shown[q]
              /\ done'[q] = done[q],
           Balanced(phase'[r], plan'[r], row'[r], queue'[r], ends'[r], shown'[r], done'[r])
    PROVE  Account'
<1>1. ASSUME NEW q \in Runs
      PROVE  Balanced(phase'[q], plan'[q], row'[q], queue'[q], ends'[q], shown'[q], done'[q])
  BY DEF Account
<1> QED
  BY <1>1 DEF Account

\* One row moves, short of its outcome.
LEMMA OneRowMoves ==
    ASSUME IInv, Account, NEW r \in Runs, NEW s \in Settings,
           NEW to \in Rows \ (Finished \cup {"none"}), SetRow(r, s, to),
           row[r][s] \notin Finished, s \in InLanes(plan[r]), phase[r] \notin {"idle", "checking"},
           UNCHANGED <<phase, plan, queue, ends, shown, done>>
    PROVE  Account'
<1>1. row' \in [Runs -> [Settings -> Rows]] /\ row'[r] = [row[r] EXCEPT ![s] = to]
      /\ \A q \in Runs \ {r} : row'[q] = row[q]
  BY DEF IInv, DataOK, SetRow
<1>2. IsPlan(plan[r]) /\ row[r] \in [Settings -> Rows]
  BY PlanFacts DEF IInv, DataOK
<1>3. Balanced(phase[r], plan[r], row[r], queue[r], ends[r], shown[r], done[r])
  BY DEF Account
<1>4. Balanced(phase'[r], plan'[r], row'[r], queue'[r], ends'[r], shown'[r], done'[r])
  BY <1>1, <1>2, <1>3, RowKeepsBalance
<1> QED
  BY <1>1, <1>4, OneRunSteps DEF Account

\* A setting between its slot and its outcome is in a lane of a run that began.
LEMMA OccupiedFacts ==
    ASSUME IInv, Account, NEW r \in Runs, NEW s \in Settings, row[r][s] \in Occupying
    PROVE  /\ s \in InLanes(plan[r]) /\ phase[r] \notin {"idle", "checking"}
           /\ row[r][s] \notin Finished
<1>1. RowsFit(phase[r], plan[r], row[r])
  BY DEF Account, Balanced
<1>2. row[r][s] \notin Finished \cup {"none", "failed"}
  BY DEF Occupying, Finished
<1> QED
  BY <1>1, <1>2 DEF RowsFit

LEMMA SettingStepKeepsAccount ==
    ASSUME IInv, Account, NEW r \in Runs, NEW s \in Settings, SettingStep(r, s) \/ Drop(r, s)
    PROVE  Account'
<1>0. /\ IsPlan(plan[r]) /\ row[r] \in [Settings -> Rows]
      /\ Balanced(phase[r], plan[r], row[r], queue[r], ends[r], shown[r], done[r])
      /\ \A x \in InLanes(plan[r]) :
           row[r][x] # "none" => \A t \in Before(plan[r], x) : row[r][t] \in Finished
  BY PlanFacts DEF IInv, DataOK, Account, Behind
<1>1. CASE ReportUnknown(r, s)
  <2>1. /\ row'[r] = [row[r] EXCEPT ![s] = "failed"] /\ shown'[r] = shown[r] \cup {s}
        /\ \A q \in Runs \ {r} : row'[q] = row[q] /\ shown'[q] = shown[q]
        /\ shown' \in [Runs -> SUBSET Settings]
    BY <1>1 DEF ReportUnknown, SetRow, IInv, DataOK, Account
  <2>2. /\ phase[r] = "checking" /\ s \in plan[r].unknown /\ row[r][s] = "none"
        /\ UNCHANGED <<phase, plan, queue, ends, done>>
    BY <1>1 DEF ReportUnknown
  <2>3. Balanced("checking", plan[r], row'[r], queue[r], ends[r], shown'[r], done[r])
    BY <1>0, <2>1, <2>2, ReportKeepsBalance
  <2> QED
    BY <2>1, <2>2, <2>3, OneRunSteps DEF Account
<1>2. CASE Start(r, s)
  <2>1. SetRow(r, s, "pooled") /\ "pooled" \in Rows \ (Finished \cup {"none"})
    BY <1>2 DEF Start, Submit, Rows, Occupying, Finished
  <2>2. /\ row[r][s] \notin Finished /\ s \in InLanes(plan[r])
        /\ phase[r] \notin {"idle", "checking"}
        /\ UNCHANGED <<phase, plan, queue, ends, shown, done>>
    BY <1>2 DEF Start, Submit, Finished
  <2> QED
    BY <2>1, <2>2, OneRowMoves
<1>3. CASE Write(r, s) \/ WriteEnds(r, s) \/ Drop(r, s)
  <2>1. row[r][s] \in Occupying /\ UNCHANGED <<phase, plan, queue, ends, shown, done>>
    BY <1>3 DEF Write, WriteEnds, Drop, Occupying
  <2>2. \E to \in {"writing", "wrote", "broke", "dropped"} : SetRow(r, s, to)
    BY <1>3 DEF Write, WriteEnds, Drop
  <2>3. {"writing", "wrote", "broke", "dropped"} \subseteq Rows \ (Finished \cup {"none"})
    BY DEF Rows, Occupying, Finished
  <2> QED
    BY <2>1, <2>2, <2>3, OccupiedFacts, OneRowMoves
<1>4. CASE Learn(r, s)
  <2>1. /\ phase[r] = "streaming" /\ row[r][s] \in {"wrote", "broke"}
        /\ queue' = [queue EXCEPT ![r] = @ \o Events(r, s)]
        /\ UNCHANGED <<phase, plan, ends, shown, done>>
    BY <1>4 DEF Learn, Outcome
  <2>2. PICK to \in Finished : row' = [row EXCEPT ![r][s] = to]
    BY <1>4 DEF Learn, Outcome, SetRow, Finished
  <2>3. s \in InLanes(plan[r])
    BY <2>1, OccupiedFacts DEF Occupying
  <2>4. row'[r] = [row[r] EXCEPT ![s] = to] /\ \A q \in Runs \ {r} : row'[q] = row[q]
    BY <2>2 DEF IInv, DataOK
  <2>5. /\ queue'[r] = queue[r] \o Events(r, s)
        /\ \A q \in Runs \ {r} : queue'[q] = queue[q]
    BY <2>1 DEF Account
  <2>6. Events(r, s) = IF LastOfLane(plan[r], s) THEN <<s, LaneEnd>> ELSE <<s>>
    BY DEF Events
  <2>7. ends[r] \in Int
    BY DEF Account
  <2>8. Balanced("streaming", plan[r], row'[r], queue'[r], ends[r], shown[r], done[r])
    <3>1. Balanced("streaming", plan[r], [row[r] EXCEPT ![s] = to],
                   queue[r] \o (IF LastOfLane(plan[r], s) THEN <<s, LaneEnd>> ELSE <<s>>),
                   ends[r], shown[r], done[r])
      <4>1. Balanced("streaming", plan[r], row[r], queue[r], ends[r], shown[r], done[r])
        BY <1>0, <2>1
      <4> HIDE DEF LaneEnd
      <4> QED
        BY <1>0, <2>1, <2>3, <2>7, <4>1, LearnKeepsBalance
    <3> QED
      BY <2>4, <2>5, <2>6, <3>1
  <2>9. queue' \in [Runs -> Seq(Settings \cup {LaneEnd})]
    <3>1. queue'[r] \in Seq(Settings \cup {LaneEnd})
      BY <2>8 DEF Balanced, QueueFits
    <3> QED
      BY <2>1, <2>5, <3>1 DEF Account
  <2> QED
    BY <2>1, <2>4, <2>5, <2>8, <2>9, OneRunSteps DEF Account
<1> QED
  BY <1>1, <1>2, <1>3, <1>4 DEF SettingStep

LEMMA StreamStepKeepsAccount ==
    ASSUME IInv, Account, NEW r \in Runs, StreamStep(r)
    PROVE  Account'
<1>0. /\ IsPlan(plan[r]) /\ row[r] \in [Settings -> Rows] /\ ends[r] \in Int
      /\ Balanced(phase[r], plan[r], row[r], queue[r], ends[r], shown[r], done[r])
      /\ \A x \in InLanes(plan[r]) :
           row[r][x] # "none" => \A t \in Before(plan[r], x) : row[r][t] \in Finished
      /\ plan' = plan /\ row' = row
  BY PlanFacts DEF IInv, DataOK, Account, Behind, StreamStep, StartLanes, Show, TakeLaneEnd
<1> DEFINE Tally == [succeeded |-> Cardinality(InRow(row[r], {"succeeded"})),
                     failed |-> Cardinality(InRow(row[r], {"failed"}))]
<1>1. ASSUME Conclude(r)
      PROVE  /\ phase'[r] = "done" /\ \A q \in Runs \ {r} : phase'[q] = phase[q]
             /\ done' = [done EXCEPT ![r] = Tally]
  BY <1>1 DEF Conclude, InState, InRow, IInv, DataOK
<1> HIDE DEF Tally
<1>2. ASSUME NEW h \in {"checking", "streaming"}, NEW e, NEW q,
             Balanced(h, plan[r], row[r], q, e, shown[r], done[r]),
             InLanes(plan[r]) \cup plan[r].unknown \subseteq shown[r],
             QueueFits("done", plan[r], row[r], queue'[r]),
             Conclude(r), shown' = shown,
             ends' \in [Runs -> Int], queue' \in [Runs -> Seq(Settings \cup {LaneEnd})],
             \A k \in Runs \ {r} : queue'[k] = queue[k] /\ ends'[k] = ends[k]
      PROVE  Account'
  <2>1. Balanced("done", plan[r], row[r], queue'[r], ends'[r], shown[r], Tally)
        /\ Tally \in [succeeded : Nat, failed : Nat]
    BY <1>0, <1>2, ConcludeKeepsBalance DEF Tally
  <2>2. /\ done'[r] = Tally /\ \A k \in Runs \ {r} : done'[k] = done[k]
        /\ done' \in [Runs -> [succeeded : Nat, failed : Nat]]
    BY <1>1, <1>2, <2>1 DEF Account
  <2> QED
    BY <1>0, <1>1, <1>2, <2>1, <2>2, OneRunSteps DEF Account
<1>3. CASE StartLanes(r)
  <2>1. /\ phase[r] = "checking" /\ \A s \in plan[r].unknown : row[r][s] = "failed"
        /\ queue' = queue /\ shown' = shown
        /\ ends' = [ends EXCEPT ![r] = Len(plan[r].lanes)]
    BY <1>3 DEF StartLanes
  <2>2. /\ ends'[r] = Len(plan[r].lanes) /\ ends' \in [Runs -> Int]
        /\ \A q \in Runs \ {r} : ends'[q] = ends[q]
    BY <1>0, <2>1, LaneShape DEF Account
  <2>3. /\ Balanced("streaming", plan[r], row[r], queue[r], ends'[r], shown[r], done[r])
        /\ plan[r].lanes = <<>> =>
             /\ InLanes(plan[r]) \cup plan[r].unknown \subseteq shown[r]
             /\ QueueFits("done", plan[r], row[r], queue[r])
    BY <1>0, <2>1, <2>2, LanesStartBalanced
  <2>4. CASE plan[r].lanes = <<>>
    <3>1. Conclude(r)
      BY <1>3, <2>4 DEF StartLanes
    <3>2. queue' \in [Runs -> Seq(Settings \cup {LaneEnd})]
      BY <2>1 DEF Account
    <3> QED
      BY <1>2, <2>1, <2>2, <2>3, <2>4, <3>1, <3>2
  <2>5. CASE plan[r].lanes # <<>>
    <3>1. done' = done /\ phase' = [phase EXCEPT ![r] = "streaming"]
      BY <1>3, <2>5 DEF StartLanes
    <3>2. phase'[r] = "streaming" /\ \A q \in Runs \ {r} : phase'[q] = phase[q]
      BY <3>1 DEF IInv, DataOK
    <3>3. Balanced(phase'[r], plan'[r], row'[r], queue'[r], ends'[r], shown'[r], done'[r])
      BY <1>0, <2>1, <2>3, <3>1, <3>2
    <3> QED
      BY <1>0, <2>1, <2>2, <3>1, <3>2, <3>3, OneRunSteps DEF Account
  <2> QED
    BY <2>4, <2>5
<1>4. ASSUME queue' = [queue EXCEPT ![r] = Tail(@)], queue[r] # <<>>
      PROVE  /\ queue'[r] = Tail(queue[r]) /\ queue' \in [Runs -> Seq(Settings \cup {LaneEnd})]
             /\ \A q \in Runs \ {r} : queue'[q] = queue[q]
  <2> HIDE DEF LaneEnd
  <2>1. queue \in [Runs -> Seq(Settings \cup {LaneEnd})]
    BY DEF Account
  <2>2. Tail(queue[r]) \in Seq(Settings \cup {LaneEnd})
    BY <1>4, <2>1, TailFacts
  <2> QED
    BY <1>4, <2>1, <2>2
<1>5. CASE Show(r)
  <2>1. /\ phase[r] = "streaming" /\ queue[r] # <<>> /\ Head(queue[r]) # LaneEnd
        /\ queue' = [queue EXCEPT ![r] = Tail(@)]
        /\ shown' = [shown EXCEPT ![r] = @ \cup {Head(queue[r])}]
        /\ UNCHANGED <<phase, ends, done>>
    BY <1>5 DEF Show
  <2>2. Balanced("streaming", plan[r], row[r], Tail(queue[r]), ends[r],
                 shown[r] \cup {Head(queue[r])}, done[r])
        /\ Head(queue[r]) \in Settings
    BY <1>0, <2>1, ShowKeepsBalance
  <2>3. /\ shown'[r] = shown[r] \cup {Head(queue[r])}
        /\ shown' \in [Runs -> SUBSET Settings]
        /\ \A q \in Runs \ {r} : shown'[q] = shown[q]
    BY <2>1, <2>2 DEF Account
  <2>4. Balanced(phase'[r], plan'[r], row'[r], queue'[r], ends'[r], shown'[r], done'[r])
    BY <1>0, <1>4, <2>1, <2>2, <2>3
  <2> QED
    BY <1>0, <1>4, <2>1, <2>3, <2>4, OneRunSteps DEF Account
<1>6. CASE TakeLaneEnd(r)
  <2>1. /\ phase[r] = "streaming" /\ queue[r] # <<>> /\ Head(queue[r]) = LaneEnd
        /\ queue' = [queue EXCEPT ![r] = Tail(@)] /\ shown' = shown
        /\ ends' = [ends EXCEPT ![r] = @ - 1]
    BY <1>6 DEF TakeLaneEnd
  <2>2. /\ ends'[r] = ends[r] - 1 /\ ends' \in [Runs -> Int]
        /\ \A q \in Runs \ {r} : ends'[q] = ends[q]
    BY <1>0, <2>1 DEF Account
  <2>3. CASE ends[r] = 1
    <3>1. Balanced("streaming", plan[r], row[r], queue[r], 1, shown[r], done[r])
      BY <1>0, <2>1, <2>3
    <3>2. InLanes(plan[r]) \cup plan[r].unknown \subseteq shown[r]
      BY <1>0, <2>1, <3>1, LastEndShowsAll
    <3>3. QueueFits("done", plan[r], row[r], queue'[r])
      <4>1. QueueFits("streaming", plan[r], row[r], queue[r])
        BY <3>1 DEF Balanced
      <4> QED
        BY <1>0, <1>4, <2>1, <4>1, TailFits
    <3>4. Conclude(r)
      BY <1>6, <2>3 DEF TakeLaneEnd
    <3> QED
      BY <1>2, <1>4, <2>1, <2>2, <3>1, <3>2, <3>3, <3>4
  <2>4. CASE ends[r] # 1
    <3>1. UNCHANGED <<phase, done>>
      BY <1>6, <2>4 DEF TakeLaneEnd
    <3>2. Balanced("streaming", plan[r], row[r], Tail(queue[r]), ends[r] - 1, shown[r], done[r])
      BY <1>0, <2>1, EndKeepsBalance
    <3>3. Balanced(phase'[r], plan'[r], row'[r], queue'[r], ends'[r], shown'[r], done'[r])
      BY <1>0, <1>4, <2>1, <2>2, <3>1, <3>2
    <3> QED
      BY <1>0, <1>4, <2>1, <2>2, <3>1, <3>3, OneRunSteps DEF Account
  <2> QED
    BY <2>3, <2>4
<1> QED
  BY <1>3, <1>5, <1>6 DEF StreamStep

LEMMA NextKeepsAccount == IInv /\ Account /\ [Next]_vars => Account'
<1> SUFFICES ASSUME IInv, Account, [Next]_vars PROVE Account'
  OBVIOUS
<1>1. ASSUME NEW r \in Runs, Request(r) PROVE Account'
  <2>1. PICK p \in Plans : plan' = [plan EXCEPT ![r] = p]
    BY <1>1 DEF Request
  <2>2. /\ phase[r] = "idle" /\ phase'[r] = "checking" /\ plan'[r] = p
        /\ \A q \in Runs \ {r} : phase'[q] = phase[q] /\ plan'[q] = plan[q]
        /\ UNCHANGED <<row, queue, ends, shown, done>>
    BY <1>1, <2>1 DEF Request, IInv, DataOK
  <2>3. Balanced("idle", plan[r], row[r], queue[r], ends[r], shown[r], done[r])
    BY <2>2 DEF Account
  <2>4. IsPlan(p) /\ \A s \in Settings : row[r][s] = "none"
    BY <2>2, StreamAssumption DEF IInv, IdleIsFresh
  <2>5. RowsFit("checking", p, row[r])
    BY <2>4, SettingFacts DEF RowsFit
  <2>6. queue[r] = <<>> /\ shown[r] = {}
    BY <2>3, <2>4 DEF Balanced, QueueFits, ShownFits, InRow, Finished
  <2>7. queue[r] \in Seq(Settings \cup {LaneEnd})
    BY DEF Account
  <2>8. /\ QueueFits("checking", p, row[r], queue[r])
        /\ ShownFits("checking", p, row[r], queue[r], shown[r])
    BY <2>4, <2>6, <2>7, SettingFacts DEF QueueFits, ShownFits
  <2>9. Balanced(phase'[r], plan'[r], row'[r], queue'[r], ends'[r], shown'[r], done'[r])
    BY <2>2, <2>5, <2>8 DEF Balanced, EndsCover, Tallied
  <2> QED
    BY <2>2, <2>9, OneRunSteps DEF Account
<1>2. ASSUME NEW r \in Runs, Stop(r) PROVE Account'
  <2>1. /\ phase'[r] = "stopped" /\ \A q \in Runs \ {r} : phase'[q] = phase[q]
        /\ UNCHANGED <<plan, row, queue, ends, shown, done>>
    BY <1>2 DEF Stop, IInv, DataOK
  <2>2. Balanced(phase[r], plan[r], row[r], queue[r], ends[r], shown[r], done[r])
    BY DEF Account
  <2>3. Balanced("stopped", plan[r], row[r], queue[r], ends[r], shown[r], done[r])
    BY <2>2 DEF Balanced, RowsFit, QueueFits, ShownFits, EndsCover, Tallied
  <2>4. Balanced(phase'[r], plan'[r], row'[r], queue'[r], ends'[r], shown'[r], done'[r])
    BY <2>1, <2>3
  <2> QED
    BY <2>1, <2>4, OneRunSteps DEF Account
<1>3. CASE UNCHANGED vars
  BY <1>3 DEF vars, Account
<1> QED
  BY <1>1, <1>2, <1>3, SettingStepKeepsAccount, StreamStepKeepsAccount DEF Next

-----------------------------------------------------------------------------
(***************************************************************************)
(* The theorems.                                                           *)
(***************************************************************************)

\* Settings that share a resource or declare an order never write at once, in
\* any run, whatever fails and whenever the client leaves (_run_lane).
THEOREM LanesExclude == Spec => []ConflictsNeverOverlap
<1>1. IInv => ConflictsNeverOverlap
  <2> SUFFICES ASSUME IInv, NEW r \in Runs,
                      NEW s \in InLanes(plan[r]), NEW t \in InLanes(plan[r]),
                      s # t, Conflict(s, t),
                      row[r][s] = "writing", row[r][t] = "writing"
               PROVE  FALSE
    BY DEF ConflictsNeverOverlap
  <2>1. s \in Before(plan[r], t) \/ t \in Before(plan[r], s)
    BY PlanFacts DEF IInv, IsPlan
  <2>2. row[r][s] \in Finished \/ row[r][t] \in Finished
    BY <2>1 DEF IInv, Behind
  <2> QED
    BY <2>2 DEF Finished
<1> QED
  BY <1>1, InvariantHolds, PTL

\* A setting writes only when everything it applies after is through (_run_lane,
\* SettingExecutor.apply_after).
THEOREM LanesOrder == Spec => []OrderIsKept
<1>1. IInv => OrderIsKept
  <2> SUFFICES ASSUME IInv, NEW r \in Runs, NEW s \in InLanes(plan[r]),
                      row[r][s] = "writing",
                      NEW t \in After[s] \cap InLanes(plan[r])
               PROVE  row[r][t] \in Finished
    BY DEF OrderIsKept
  <2>1. t \in Before(plan[r], s)
    BY PlanFacts DEF IInv, IsPlan
  <2> QED
    BY <2>1 DEF IInv, Behind
<1> QED
  BY <1>1, InvariantHolds, PTL

\* At most Slots settings of a run write at once, before and after Stop, however
\* the writes end (_process_one).
THEOREM SlotsNeverExceeded == Spec => []SlotsHold
<1>1. IInv /\ SlotsCounted => SlotsHold
  <2> SUFFICES ASSUME IInv, SlotsCounted, NEW r \in Runs
               PROVE  Cardinality(InState(r, {"writing"})) <= Slots
    BY DEF SlotsHold
  <2>1. InState(r, {"writing"}) \subseteq InState(r, Admitted)
    BY DEF InState, Admitted, Occupying
  <2>2. Cardinality(InState(r, {"writing"})) <= Cardinality(InState(r, Admitted))
        /\ Cardinality(InState(r, {"writing"})) \in Nat
    BY <2>1, AdmittedFinite, FS_Subset, FS_CardinalityType
  <2>3. free[r] \in Nat /\ Cardinality(InState(r, Admitted)) \in Nat /\ Slots \in Nat
    BY AdmittedFinite, StreamAssumption DEF IInv, DataOK
  <2> QED
    BY <2>2, <2>3 DEF SlotsCounted, Counted
<1>2. Spec => []SlotsCounted
  BY SlotsFromInit, SlotsPreserved, InvariantHolds, PTL DEF Spec
<1> QED
  BY <1>1, <1>2, InvariantHolds, PTL

\* A run that says it is done has shown every id of its request, and its tally
\* adds up to them (_stream_each, _stream_grouped).
THEOREM DoneIsComplete == Spec => []DoneAccountsForAll
<1>1. Account => DoneAccountsForAll
  BY DEF Account, Balanced, Tallied, DoneAccountsForAll
<1>2. Spec => []Account
  BY AccountFromInit, NextKeepsAccount, InvariantHolds, PTL DEF Spec
<1> QED
  BY <1>1, <1>2, PTL

\* After Stop at most Slots settings are still under way or cut off on their way,
\* each the only such one of its lane, though the slots are free again and threads
\* nobody waits for still write (_stream_each).
THEOREM StopCuts == Spec => []StopCutsLanes
<1>1. IInv /\ SlotsCounted => StopCutsLanes
  BY DEF IInv, Behind, SlotsCounted, Counted, StopCutsLanes
<1>2. Spec => []SlotsCounted
  BY SlotsFromInit, SlotsPreserved, InvariantHolds, PTL DEF Spec
<1> QED
  BY <1>1, <1>2, InvariantHolds, PTL

\* Every variable stays in its type: no run has more slots than it began with, and a
\* run takes no more lane ends than it counted (_stream_each).
THEOREM TypeCorrect == Spec => []TypeOK
<1> DEFINE EndsOK == ends \in [Runs -> Nat] /\ sentinel \in BOOLEAN
<1>1. Init => EndsOK
  <2> SUFFICES ASSUME Init PROVE EndsOK
    OBVIOUS
  <2>1. ends \in [Runs -> Nat]
    BY DEF Init
  <2>2. sentinel \in BOOLEAN
    BY Zenon DEF Init
  <2> QED
    BY <2>1, <2>2
<1>2. ASSUME IInv, Account, EndsOK, [Next]_vars PROVE EndsOK'
  <2>0. ends \in [Runs -> Nat] /\ sentinel \in BOOLEAN
    BY <1>2
  <2>1. sentinel' \in BOOLEAN
    <3>1. ASSUME NEW r \in Runs, Conclude(r) PROVE sentinel' \in BOOLEAN
      BY <3>1, Zenon DEF Conclude
    <3>2. CASE sentinel' = sentinel
      BY <2>0, <3>2, Zenon
    <3>3. sentinel' = sentinel \/ \E r \in Runs : Conclude(r)
      BY <1>2 DEF Next, Request, StreamStep, StartLanes, Show, TakeLaneEnd, Stop, SettingStep,
           ReportUnknown, Start, Submit, Write, WriteEnds, Learn, Outcome, Drop, vars
    <3> QED
      BY <3>1, <3>2, <3>3
  <2>2. ASSUME NEW r \in Runs, StartLanes(r) PROVE ends' \in [Runs -> Nat]
    <3>1. Len(plan[r].lanes) \in Nat
      BY PlanFacts, LaneShape DEF IInv, DataOK
    <3> QED
      BY <1>2, <2>2, <3>1 DEF StartLanes
  <2>3. ASSUME NEW r \in Runs, TakeLaneEnd(r) PROVE ends' \in [Runs -> Nat]
    <3>1. /\ queue[r] \in Seq(Settings \cup {LaneEnd}) /\ queue[r] # <<>>
          /\ queue[r][1] = LaneEnd /\ phase[r] = "streaming"
      BY <1>2, <2>3 DEF TakeLaneEnd, Account
    <3>2. Cardinality(Open(plan[r], row[r])) + Cardinality(Marks(queue[r])) <= ends[r]
      BY <1>2, <3>1 DEF Account, Balanced, EndsCover
    <3>3. Cardinality(Open(plan[r], row[r])) \in Nat
      <4>1. Open(plan[r], row[r]) \subseteq Settings
        BY <1>2, PlanFacts, SettingFacts DEF Open, IInv, DataOK
      <4> QED
        BY <4>1, StreamAssumption, FS_Subset, FS_CardinalityType
    <3>4. Cardinality(Marks(queue[r])) \in Nat \ {0}
      <4>1. IsFiniteSet(Marks(queue[r])) /\ 1 \in Marks(queue[r])
        BY <3>1, MarksFinite DEF Marks
      <4> QED
        BY <4>1, FS_EmptySet, FS_CardinalityType
    <3>5. ends[r] \in Nat \ {0}
      BY <1>2, <3>2, <3>3, <3>4
    <3> QED
      BY <1>2, <2>3, <3>5 DEF TakeLaneEnd
  <2>4. ASSUME ends' = ends PROVE ends' \in [Runs -> Nat]
    BY <2>0, <2>4
  <2>5. ends' \in [Runs -> Nat]
    BY <1>2, <2>2, <2>3, <2>4 DEF Next, Request, StreamStep, Show, Stop, SettingStep,
         ReportUnknown, Start, Submit, Write, WriteEnds, Learn, Outcome, Drop, vars
  <2> QED
    BY <2>1, <2>5
<1>3. ASSUME IInv, Account, SlotsCounted, EndsOK PROVE TypeOK
  <2>1. \A r \in Runs : IsPlan(plan[r])
    BY <1>3, StreamAssumption, EmptyPlanFacts DEF IInv, DataOK
  <2>2. free \in [Runs -> 0..Slots]
    <3>1. ASSUME NEW r \in Runs PROVE free[r] \in 0..Slots
      <4>1. Cardinality(InState(r, Admitted)) \in Nat
        BY AdmittedFinite, FS_CardinalityType
      <4>2. free[r] \in Nat /\ Slots \in Nat
        BY <1>3, StreamAssumption DEF IInv, DataOK
      <4> QED
        BY <1>3, <4>1, <4>2 DEF SlotsCounted, Counted
    <3> QED
      BY <1>3, <3>1 DEF IInv, DataOK
  <2> QED
    BY <1>3, <2>1, <2>2 DEF IInv, DataOK, Account, TypeOK
<1>4. Spec => []Account
  BY AccountFromInit, NextKeepsAccount, InvariantHolds, PTL DEF Spec
<1>5. Spec => []SlotsCounted
  BY SlotsFromInit, SlotsPreserved, InvariantHolds, PTL DEF Spec
<1> QED
  BY <1>1, <1>2, <1>3, <1>4, <1>5, InvariantHolds, PTL DEF Spec

-----------------------------------------------------------------------------
(***************************************************************************)
(* The planner: what follows is about LanePlan and MCLanePlan, and about   *)
(* nothing above until the last theorem.                                   *)
(***************************************************************************)
-----------------------------------------------------------------------------
(* Counting. Induction is over a set of numbers, which is what the provers *)
(* can instantiate.                                                        *)

Less == {p \in Nat \X Nat : p[1] < p[2]}

LEMMA Least ==
    ASSUME NEW T, T \subseteq Nat, T # {}
    PROVE  \E x \in T : \A y \in T : x <= y
<1>1. IsWellFoundedOn(Less, Nat)
  BY NatLessThanWellFounded, Zenon DEF OpToRel, Less
<1>2. PICK x \in T : \A y \in T : <<y, x>> \notin Less
  BY <1>1, WFMin
<1>3. \A y \in T : ~(y < x)
  BY <1>2 DEF Less
<1> QED
  BY <1>3

LEMMA MinIsLeast ==
    ASSUME NEW T, T \subseteq Nat, T # {}
    PROVE  Min(T) \in T /\ \A y \in T : Min(T) <= y
<1>1. \E x \in T : \A y \in T : x <= y
  BY Least
<1> QED
  BY <1>1, Zenon DEF Min

LEMMA UpTo ==
    ASSUME NEW n \in Nat, NEW Q, 0 \in Q,
           \A k \in 0..n : k < n /\ k \in Q => k + 1 \in Q
    PROVE  \A k \in 0..n : k \in Q
<1> DEFINE T == (0..n) \ Q
<1> SUFFICES ASSUME T # {} PROVE FALSE
  OBVIOUS
<1>0. T \subseteq Nat
  OBVIOUS
<1>1. PICK m \in T : \A k \in T : m <= k
  <2> HIDE DEF T
  <2> QED
    BY <1>0, Least
<1>2. m # 0 /\ m - 1 \in 0..n /\ m - 1 < n
  OBVIOUS
<1>3. m - 1 \in Q
  BY <1>1, <1>2
<1>4. (m - 1) + 1 \in Q
  BY <1>2, <1>3
<1> QED
  BY <1>4

(* What is computed step by step exists: step k makes F[k][x] of x.        *)
Stepwise(n, S, F) == \A k \in 1..n, x \in S : F[k][x] \in S
Follows(n, b, F, g) == g[0] = b /\ \A k \in 1..n : g[k] = F[k][g[k - 1]]

LEMMA Iterates ==
    ASSUME NEW n \in Nat, NEW S, NEW b \in S, NEW F, Stepwise(n, S, F)
    PROVE  \E g \in [0..n -> S] : Follows(n, b, F, g)
<1> USE DEF Stepwise, Follows
<1> DEFINE Q == {m \in 0..n : \E g \in [0..m -> S] : Follows(m, b, F, g)}
<1>1. 0 \in Q
  <2> DEFINE g == [k \in 0..0 |-> b]
  <2>1. g \in [0..0 -> S] /\ Follows(0, b, F, g)
    OBVIOUS
  <2> HIDE DEF g
  <2> QED
    BY <2>1
<1>2. ASSUME NEW m \in 0..n, m < n, m \in Q PROVE m + 1 \in Q
  <2>1. PICK g \in [0..m -> S] : Follows(m, b, F, g)
    BY <1>2
  <2> DEFINE h == [k \in 0..(m + 1) |-> IF k <= m THEN g[k] ELSE F[m + 1][g[m]]]
  <2>2. F[m + 1][g[m]] \in S
    <3>1. m + 1 \in 1..n /\ g[m] \in S
      BY <1>2
    <3> QED
      BY <3>1
  <2>3. h \in [0..(m + 1) -> S]
    BY <2>2
  <2>4. Follows(m + 1, b, F, h)
    BY <2>1
  <2>5. m + 1 \in 0..n
    BY <1>2
  <2> HIDE DEF h
  <2> QED
    BY <2>3, <2>4, <2>5
<1>3. \A m \in 0..n : m \in Q
  <2> HIDE DEF Q
  <2>1. \A m \in 0..n : m < n /\ m \in Q => m + 1 \in Q
    BY <1>2
  <2> QED
    BY <1>1, <2>1, UpTo
<1>4. n \in Q
  BY <1>3
<1> QED
  BY <1>4

-----------------------------------------------------------------------------
(* Ordering.                                                               *)

(* The positions an order has taken before the p-th.                       *)
Sooner(o, p) == {o[q] : q \in 1..(p - 1)}

(* Each turn takes the least position of those that are ready.             *)
Greedy(E, o) ==
    /\ o \in Seq(DOMAIN E)
    /\ \A p \in DOMAIN o :
         /\ o[p] \notin Sooner(o, p) /\ E[o[p]] \subseteq Sooner(o, p)
         /\ \A i \in DOMAIN E : i \notin Sooner(o, p) /\ E[i] \subseteq Sooner(o, p) => o[p] <= i

LEMMA ReadyIsNat ==
    ASSUME NEW E, DOMAIN E \subseteq Nat, NEW o PROVE Ready(E, o) \subseteq Nat
BY DEF Ready

LEMMA TurnTakes ==
    ASSUME NEW E, DOMAIN E \subseteq Nat, NEW o \in Seq(DOMAIN E)
    PROVE  /\ Turn(E, o) \in Seq(DOMAIN E)
           /\ \/ Ready(E, o) = {} /\ Turn(E, o) = o
              \/ \E i \in Ready(E, o) : /\ Turn(E, o) = Append(o, i)
                                        /\ \A j \in Ready(E, o) : i <= j
<1>1. CASE Ready(E, o) = {}
  BY <1>1 DEF Turn
<1>2. CASE Ready(E, o) # {}
  <2>1. Min(Ready(E, o)) \in Ready(E, o) /\ \A j \in Ready(E, o) : Min(Ready(E, o)) <= j
    BY <1>2, ReadyIsNat, MinIsLeast
  <2>2. Turn(E, o) = Append(o, Min(Ready(E, o)))
    BY <1>2 DEF Turn
  <2>3. Ready(E, o) \subseteq DOMAIN E
    BY DEF Ready
  <2> QED
    BY <2>1, <2>2, <2>3
<1> QED
  BY <1>1, <1>2

LEMMA OrderByTurns ==
    ASSUME NEW E, DOMAIN E \subseteq Nat, IsFiniteSet(DOMAIN E)
    PROVE  \E t \in [0..Cardinality(DOMAIN E) -> Seq(DOMAIN E)] :
              /\ t[0] = <<>> /\ Order(E) = t[Cardinality(DOMAIN E)]
              /\ \A k \in 1..Cardinality(DOMAIN E) : t[k] = Turn(E, t[k - 1])
<1> DEFINE n == Cardinality(DOMAIN E)
           S == Seq(DOMAIN E)
           F == [k \in 1..n |-> [s \in S |-> Turn(E, s)]]
           none == <<>>
           B(f) == [k \in 0..n |-> IF k = 0 THEN <<>> ELSE Turn(E, f[k - 1])]
           t == CHOOSE f : f = B(f)
<1>1. n \in Nat
  BY FS_CardinalityType
<1>2. Stepwise(n, S, F)
  BY TurnTakes DEF Stepwise
<1>3. none \in S
  OBVIOUS
<1>4. PICK g \in [0..n -> S] : Follows(n, none, F, g)
  <2> HIDE DEF n, S, F, none
  <2> QED
    BY <1>1, <1>2, <1>3, Iterates
<1>5. \A k \in 1..n : g[k] = Turn(E, g[k - 1])
  <2> SUFFICES ASSUME NEW k \in 1..n PROVE g[k] = Turn(E, g[k - 1])
    OBVIOUS
  <2>1. g[k] = F[k][g[k - 1]]
    BY <1>4 DEF Follows
  <2>2. g[k - 1] \in S
    <3> HIDE DEF S, n
    <3> QED
      BY <1>1
  <2>3. F[k][g[k - 1]] = Turn(E, g[k - 1])
    <3> HIDE DEF S, n
    <3> QED
      BY <2>2
  <2> QED
    BY <2>1, <2>3
<1>6. g = B(g)
  <2>1. g[0] = <<>>
    BY <1>4 DEF Follows
  <2> HIDE DEF n, S, F
  <2> QED
    BY <1>1, <1>4, <1>5, <2>1
<1>7. t = B(t)
  BY <1>6, Zenon
<1>8. t = g
  <2> DEFINE Q == {k \in 0..n : t[k] = g[k]}
  <2> HIDE DEF n, t, S, F
  <2>1. 0 \in Q
    BY <1>1, <1>6, <1>7
  <2>2. \A k \in 0..n : k < n /\ k \in Q => k + 1 \in Q
    BY <1>1, <1>6, <1>7
  <2>3. \A k \in 0..n : k \in Q
    <3> HIDE DEF Q
    <3> QED
      BY <1>1, <2>1, <2>2, UpTo
  <2> QED
    BY <1>6, <1>7, <2>3
<1>9. Order(E) = t[n]
  BY Zenon DEF Order
<1> QED
  <2> HIDE DEF t
  <2> QED
    BY <1>4, <1>5, <1>8, <1>9 DEF Follows

LEMMA TurnIsGreedy ==
    ASSUME NEW E, DOMAIN E \subseteq Nat, NEW o, Greedy(E, o),
           NEW i \in Ready(E, o), \A j \in Ready(E, o) : i <= j
    PROVE  Greedy(E, Append(o, i)) /\ Len(Append(o, i)) = Len(o) + 1
<1> DEFINE n == Append(o, i)
<1>1. /\ o \in Seq(DOMAIN E) /\ Len(o) \in Nat /\ DOMAIN o = 1..Len(o)
      /\ i \in DOMAIN E /\ i \notin ToSet(o) /\ E[i] \subseteq ToSet(o)
  BY DEF Greedy, Ready
<1>2. /\ n \in Seq(DOMAIN E) /\ Len(n) = Len(o) + 1 /\ DOMAIN n = 1..(Len(o) + 1)
      /\ \A p \in 1..Len(o) : n[p] = o[p]
      /\ n[Len(o) + 1] = i
  BY <1>1
<1> HIDE DEF n
<1>3. \A p \in 1..Len(o) : Sooner(n, p) = Sooner(o, p)
  <2> SUFFICES ASSUME NEW p \in 1..Len(o) PROVE Sooner(n, p) = Sooner(o, p)
    OBVIOUS
  <2>1. \A q \in 1..(p - 1) : n[q] = o[q]
    BY <1>1, <1>2
  <2> QED
    BY <2>1 DEF Sooner
<1>4. Sooner(n, Len(o) + 1) = ToSet(o)
  <2>1. Sooner(n, Len(o) + 1) = {n[q] : q \in 1..Len(o)}
    BY <1>1 DEF Sooner
  <2>2. ToSet(o) = {o[q] : q \in 1..Len(o)}
    BY <1>1 DEF ToSet
  <2> QED
    BY <1>2, <2>1, <2>2
<1>5. \A j \in DOMAIN E : j \notin ToSet(o) /\ E[j] \subseteq ToSet(o) => i <= j
  BY DEF Ready
<1>6. ASSUME NEW p \in DOMAIN n
      PROVE  /\ n[p] \notin Sooner(n, p) /\ E[n[p]] \subseteq Sooner(n, p)
             /\ \A j \in DOMAIN E :
                   j \notin Sooner(n, p) /\ E[j] \subseteq Sooner(n, p) => n[p] <= j
  <2>1. CASE p \in 1..Len(o)
    BY <1>1, <1>2, <1>3, <2>1 DEF Greedy
  <2>2. CASE p = Len(o) + 1
    BY <1>1, <1>2, <1>4, <1>5, <2>2
  <2> QED
    BY <1>1, <1>2, <2>1, <2>2
<1>7. Greedy(E, n)
  BY <1>2, <1>6 DEF Greedy
<1> QED
  BY <1>2, <1>7 DEF n

LEMMA OrderIsGreedy ==
    ASSUME NEW E, DOMAIN E \subseteq Nat, IsFiniteSet(DOMAIN E)
    PROVE  /\ Greedy(E, Order(E))
           /\ Len(Order(E)) = Cardinality(DOMAIN E) \/ Ready(E, Order(E)) = {}
<1> DEFINE n == Cardinality(DOMAIN E)
           Good(k, o) == Greedy(E, o) /\ (Len(o) = k \/ Ready(E, o) = {})
<1>1. n \in Nat
  BY FS_CardinalityType
<1>2. PICK t \in [0..n -> Seq(DOMAIN E)] :
         t[0] = <<>> /\ Order(E) = t[n] /\ \A k \in 1..n : t[k] = Turn(E, t[k - 1])
  BY OrderByTurns
<1> DEFINE Q == {k \in 0..n : Good(k, t[k])}
<1>3. 0 \in Q
  BY <1>1, <1>2 DEF Greedy
<1>4. ASSUME NEW k \in 0..n, k < n, k \in Q PROVE k + 1 \in Q
  <2> DEFINE o == t[k]
  <2>1. k + 1 \in 0..n /\ t[k + 1] = Turn(E, o) /\ Good(k, o)
    <3>1. k + 1 \in 1..n /\ (k + 1) - 1 = k
      BY <1>1, <1>4
    <3> QED
      BY <1>2, <1>4, <3>1
  <2>2. o \in Seq(DOMAIN E)
    BY <2>1 DEF Greedy
  <2> HIDE DEF o
  <2>3. CASE Ready(E, o) = {}
    BY <2>1, <2>2, <2>3, TurnTakes
  <2>4. CASE Ready(E, o) # {}
    <3>1. PICK i \in Ready(E, o) : Turn(E, o) = Append(o, i) /\ \A j \in Ready(E, o) : i <= j
      BY <2>2, <2>4, TurnTakes
    <3>2. Greedy(E, Append(o, i)) /\ Len(Append(o, i)) = Len(o) + 1
      BY <2>1, <3>1, TurnIsGreedy
    <3> QED
      BY <2>1, <2>4, <3>1, <3>2
  <2> QED
    BY <2>3, <2>4
<1>5. \A k \in 0..n : k \in Q
  <2> HIDE DEF Q, n
  <2>1. \A k \in 0..n : k < n /\ k \in Q => k + 1 \in Q
    BY <1>4
  <2> QED
    BY <1>1, <1>3, <2>1, UpTo
<1> QED
  BY <1>1, <1>2, <1>5

LEMMA GreedyInjective ==
    ASSUME NEW E, NEW o, Greedy(E, o), NEW p \in DOMAIN o, NEW q \in DOMAIN o, o[p] = o[q]
    PROVE  p = q
<1>1. \A r, s \in DOMAIN o : r < s => o[r] \in Sooner(o, s) /\ r \in Nat /\ s \in Nat
  BY DEF Greedy, Sooner
<1>2. p \in Nat /\ q \in Nat
  BY DEF Greedy
<1> QED
  BY <1>1, <1>2 DEF Greedy

LEMMA GreedyLength ==
    ASSUME NEW E, IsFiniteSet(DOMAIN E), NEW o, Greedy(E, o)
    PROVE  /\ Len(o) \in Nat /\ DOMAIN o = 1..Len(o)
           /\ ToSet(o) \subseteq DOMAIN E
           /\ Cardinality(ToSet(o)) = Len(o)
           /\ Len(o) = Cardinality(DOMAIN E) <=> ToSet(o) = DOMAIN E
<1>1. Len(o) \in Nat /\ DOMAIN o = 1..Len(o) /\ o \in [1..Len(o) -> DOMAIN E]
  BY DEF Greedy
<1>2. ToSet(o) \subseteq DOMAIN E
  BY <1>1 DEF ToSet
<1>3. o \in Bijection(1..Len(o), ToSet(o))
  BY <1>1, GreedyInjective DEF Bijection, Injection, Surjection, IsInjective, ToSet
<1>4. IsFiniteSet(1..Len(o)) /\ Cardinality(1..Len(o)) = Len(o)
  <2>1. /\ IsFiniteSet(1..Len(o))
        /\ Cardinality(1..Len(o)) = IF 1 > Len(o) THEN 0 ELSE Len(o) - 1 + 1
    <3>1. 1 \in Int /\ Len(o) \in Int
      BY <1>1
    <3> QED
      BY <3>1, FS_Interval, Zenon
  <2> QED
    BY <1>1, <2>1
<1>5. Cardinality(ToSet(o)) = Len(o)
  BY <1>3, <1>4, FS_Bijection DEF ExistsBijection
<1> QED
  BY <1>1, <1>2, <1>5, FS_Subset

-----------------------------------------------------------------------------
(* What is refused.                                                        *)

(* A request in the client's order, or the registry in its own.            *)
IsList(its) == Len(its) \in Nat /\ DOMAIN its = 1..Len(its)

(* MCLanePlan's IsKnot, of any list.                                       *)
Knot(its, C) ==
    /\ C \subseteq DOMAIN its /\ C # {}
    /\ \A i \in C : \E j \in C : its[j].id \in its[i].after

LEMMA ListIsFinite ==
    ASSUME NEW its, IsList(its)
    PROVE  /\ DOMAIN its \subseteq Nat /\ IsFiniteSet(DOMAIN its)
           /\ Cardinality(DOMAIN its) = Len(its)
<1>1. /\ IsFiniteSet(1..Len(its))
      /\ Cardinality(1..Len(its)) = IF 1 > Len(its) THEN 0 ELSE Len(its) - 1 + 1
  <2>1. 1 \in Int /\ Len(its) \in Int
    BY DEF IsList
  <2> QED
    BY <2>1, FS_Interval, Zenon
<1> QED
  BY <1>1 DEF IsList

LEMMA EdgesAreInside ==
    ASSUME NEW its
    PROVE  /\ DOMAIN DependencyEdges(its) = DOMAIN its
           /\ \A i \in DOMAIN its : DependencyEdges(its)[i] \subseteq DOMAIN its
BY DEF DependencyEdges

LEMMA OrderOfList ==
    ASSUME NEW its, IsList(its)
    PROVE  /\ Greedy(DependencyEdges(its), Order(DependencyEdges(its)))
           /\ Plannable(its) <=> ToSet(Order(DependencyEdges(its))) = DOMAIN its
           /\ ~Plannable(its) => Ready(DependencyEdges(its), Order(DependencyEdges(its))) = {}
<1> DEFINE E == DependencyEdges(its)
<1>1. DOMAIN E = DOMAIN its /\ DOMAIN E \subseteq Nat /\ IsFiniteSet(DOMAIN E)
      /\ Cardinality(DOMAIN E) = Len(its)
  BY ListIsFinite, EdgesAreInside
<1>2. Plannable(its) <=> Len(Order(E)) = Len(its)
  BY DEF Plannable
<1> HIDE DEF E
<1>3. /\ Greedy(E, Order(E))
      /\ Len(Order(E)) = Len(its) \/ Ready(E, Order(E)) = {}
  BY <1>1, OrderIsGreedy
<1>4. Len(Order(E)) = Len(its) <=> ToSet(Order(E)) = DOMAIN its
  BY <1>1, <1>3, GreedyLength
<1> QED
  BY <1>2, <1>3, <1>4 DEF E

LEMMA KnotsAreLeft ==
    ASSUME NEW E, NEW o, Greedy(E, o), NEW C, \A i \in C : \E j \in C : j \in E[i]
    PROVE  C \cap ToSet(o) = {}
<1> DEFINE T == {p \in DOMAIN o : o[p] \in C}
<1> SUFFICES ASSUME T # {} PROVE FALSE
  BY DEF ToSet
<1>1. T \subseteq Nat /\ DOMAIN o = 1..Len(o) /\ Len(o) \in Nat
  BY DEF Greedy
<1>2. PICK p \in T : \A q \in T : p <= q
  <2> HIDE DEF T
  <2> QED
    BY <1>1, Least
<1>3. PICK j \in C : j \in E[o[p]]
  OBVIOUS
<1>4. PICK q \in 1..(p - 1) : o[q] = j
  BY <1>3 DEF Greedy, Sooner
<1>5. q \in T /\ q < p
  BY <1>1, <1>3, <1>4
<1> QED
  BY <1>1, <1>2, <1>5

LEMMA KnotsAreRefused ==
    ASSUME NEW its, IsList(its)
    PROVE  Plannable(its) <=> ~\E C \in SUBSET DOMAIN its : Knot(its, C)
<1> DEFINE E == DependencyEdges(its)
           o == Order(E)
           R == DOMAIN its \ ToSet(o)
<1>1. /\ Greedy(E, o)
      /\ Plannable(its) <=> ToSet(o) = DOMAIN its
      /\ ~Plannable(its) => Ready(E, o) = {}
  BY OrderOfList
<1>2. ToSet(o) \subseteq DOMAIN its
  BY <1>1, EdgesAreInside DEF Greedy, ToSet
<1>3. ASSUME NEW C, Knot(its, C) PROVE ~Plannable(its)
  <2>1. \A i \in C : \E j \in C : j \in E[i]
    BY <1>3 DEF Knot, DependencyEdges
  <2> HIDE DEF E
  <2>2. C \cap ToSet(o) = {}
    <3> HIDE DEF o
    <3> QED
      BY <1>1, <2>1, KnotsAreLeft
  <2> QED
    BY <1>1, <1>3, <2>2 DEF Knot
<1>4. ASSUME ~Plannable(its) PROVE Knot(its, R)
  <2>1. R # {} /\ R \subseteq DOMAIN its
    BY <1>1, <1>2, <1>4
  <2>2. ASSUME NEW i \in R PROVE \E j \in R : its[j].id \in its[i].after
    <3>1. ~(E[i] \subseteq ToSet(o))
      BY <1>1, <1>4, <2>2, EdgesAreInside DEF Ready
    <3>2. PICK j \in E[i] : j \notin ToSet(o)
      BY <3>1
    <3>3. j \in DOMAIN its /\ its[j].id \in its[i].after
      BY <2>2, <3>2 DEF DependencyEdges
    <3> QED
      BY <3>2, <3>3
  <2> QED
    BY <2>1, <2>2 DEF Knot
<1> QED
  BY <1>3, <1>4

(* A part of a list, in any order, has the knots of the list at most.      *)
LEMMA PartsPlan ==
    ASSUME NEW its, IsList(its), Plannable(its), NEW r, IsList(r),
           \A k \in DOMAIN r : r[k] \in DOMAIN its
    PROVE  Plannable([k \in DOMAIN r |-> its[r[k]]])
<1> DEFINE part == [k \in DOMAIN r |-> its[r[k]]]
<1>1. IsList(part) /\ DOMAIN part = DOMAIN r
  <2>1. part \in Seq({its[r[k]] : k \in DOMAIN r}) /\ Len(part) = Len(r)
    BY DEF IsList
  <2> QED
    BY <2>1 DEF IsList
<1>2. ASSUME NEW C, Knot(part, C) PROVE Knot(its, {r[k] : k \in C})
  BY <1>1, <1>2 DEF Knot
<1>3. ~\E C \in SUBSET DOMAIN its : Knot(its, C)
  BY KnotsAreRefused
<1>4. ~\E C \in SUBSET DOMAIN part : Knot(part, C)
  BY <1>2, <1>3 DEF Knot
<1> QED
  <2> HIDE DEF part
  <2>1. Plannable(part)
    BY <1>1, <1>4, KnotsAreRefused
  <2> QED
    BY <2>1 DEF part

(* Settings that all wait for one another hold a cycle, and a cycle is a   *)
(* knot: some walk from a setting to one it waits for comes back.          *)
Cycle(its, f, m) ==
    /\ m \in Nat \ {0} /\ f[0] = f[m]
    /\ \A k \in 1..m : its[f[k]].id \in its[f[k - 1]].after

LEMMA KnotsAreCycles ==
    ASSUME NEW its, IsList(its)
    PROVE  (\E C : Knot(its, C)) <=> \E m \in Nat : \E f \in [0..m -> DOMAIN its] : Cycle(its, f, m)
<1>1. ASSUME NEW m \in Nat, NEW f \in [0..m -> DOMAIN its], Cycle(its, f, m)
      PROVE  Knot(its, {f[k] : k \in 0..m})
  <2> DEFINE C == {f[k] : k \in 0..m}
  <2>1. C \subseteq DOMAIN its /\ f[0] \in C
    OBVIOUS
  <2>2. ASSUME NEW k \in 0..m PROVE \E j \in C : its[j].id \in its[f[k]].after
    <3>1. CASE k < m
      <4>1. k + 1 \in 1..m /\ (k + 1) - 1 = k
        BY <3>1
      <4>2. its[f[k + 1]].id \in its[f[(k + 1) - 1]].after
        BY <1>1, <4>1 DEF Cycle
      <4>3. f[k + 1] \in C
        BY <4>1
      <4> HIDE DEF C
      <4> QED
        BY <4>1, <4>2, <4>3
    <3>2. CASE k = m
      <4>1. 1 \in 1..m /\ 1 - 1 = 0
        BY <1>1 DEF Cycle
      <4>2. its[f[1]].id \in its[f[1 - 1]].after /\ f[0] = f[m]
        BY <1>1, <4>1 DEF Cycle
      <4>3. f[1] \in C
        BY <4>1
      <4> HIDE DEF C
      <4> QED
        BY <3>2, <4>1, <4>2, <4>3
    <3> QED
      BY <3>1, <3>2
  <2> QED
    BY <2>1, <2>2 DEF Knot
<1>2. ASSUME NEW C, Knot(its, C)
      PROVE  \E m \in Nat : \E f \in [0..m -> DOMAIN its] : Cycle(its, f, m)
  <2> DEFINE n == Cardinality(C)
             Next1 == [i \in C |-> CHOOSE j \in C : its[j].id \in its[i].after]
             F == [k \in 1..n |-> Next1]
  <2>1. IsFiniteSet(C) /\ n \in Nat /\ C \subseteq DOMAIN its
    BY <1>2, ListIsFinite, FS_Subset, FS_CardinalityType DEF Knot
  <2>2. PICK c : c \in C
    BY <1>2 DEF Knot
  <2>3. \A i \in C : Next1[i] \in C /\ its[Next1[i]].id \in its[i].after
    BY <1>2 DEF Knot
  <2>4. PICK g \in [0..n -> C] : Follows(n, c, F, g)
    <3>1. Stepwise(n, C, F)
      BY <2>3 DEF Stepwise
    <3> HIDE DEF n, F
    <3> QED
      BY <2>1, <2>2, <3>1, Iterates
  <2>5. \A k \in 1..n : g[k] = Next1[g[k - 1]]
    BY <2>4 DEF Follows
  <2> HIDE DEF n, Next1, F
  <2>6. PICK x \in 0..n, y \in 0..n : x < y /\ g[x] = g[y]
    <3>1. IsFiniteSet(0..n) /\ Cardinality(0..n) = n + 1
      <4>1. /\ IsFiniteSet(0..n)
            /\ Cardinality(0..n) = IF 0 > n THEN 0 ELSE n - 0 + 1
        <5>1. 0 \in Int /\ n \in Int
          BY <2>1
        <5> QED
          BY <5>1, FS_Interval, Zenon
      <4> QED
        BY <2>1, <4>1
    <3>2. \E x, y \in 0..n : x # y /\ g[x] = g[y]
      BY <2>1, <3>1, FS_PigeonHole DEF n
    <3> QED
      BY <2>1, <3>2
  <2> DEFINE m == y - x
             f == [k \in 0..m |-> g[x + k]]
  <2>7. m \in Nat \ {0} /\ f \in [0..m -> DOMAIN its]
    BY <2>1, <2>6
  <2>8. f[0] = f[m]
    BY <2>1, <2>6, <2>7
  <2>9. ASSUME NEW k \in 1..m PROVE its[f[k]].id \in its[f[k - 1]].after
    <3>1. x + k \in 1..n /\ (x + k) - 1 = x + (k - 1) /\ x + (k - 1) \in 0..n
      BY <2>1, <2>6
    <3>2. f[k] = g[x + k] /\ f[k - 1] = g[x + (k - 1)]
      BY <2>7
    <3>3. g[x + k] = Next1[g[x + (k - 1)]] /\ g[x + (k - 1)] \in C
      BY <2>5, <3>1
    <3> QED
      BY <2>3, <3>2, <3>3
  <2>10. Cycle(its, f, m)
    BY <2>7, <2>8, <2>9 DEF Cycle
  <2> HIDE DEF f, m
  <2> QED
    BY <2>7, <2>10
<1> QED
  BY <1>1, <1>2

\* A list is refused exactly when some setting waits for itself through the settings
\* it is declared to apply after (BulkPlanError: "apply_after forms a cycle").
THEOREM RefusedIsCyclic ==
    ASSUME NEW its, IsList(its)
    PROVE  ~Plannable(its) <=> \E m \in Nat : \E f \in [0..m -> DOMAIN its] : Cycle(its, f, m)
<1>1. (\E C \in SUBSET DOMAIN its : Knot(its, C)) <=> \E C : Knot(its, C)
  BY DEF Knot
<1> QED
  BY <1>1, KnotsAreRefused, KnotsAreCycles

-----------------------------------------------------------------------------
(* Union-find. Parents point backwards, so n steps up end at a root.       *)

Tree(p, n) == p \in [1..n -> 1..n] /\ \A i \in 1..n : p[i] <= i

LEMMA TreeLength ==
    ASSUME NEW n \in Nat, NEW p, Tree(p, n) PROVE Len(p) = n
<1>1. p \in Seq(1..n)
  BY DEF Tree
<1> QED
  BY <1>1 DEF Tree

(* The n steps up from i.                                                  *)
Climbs(p, n, i, u) ==
    /\ u \in [0..n -> 1..n] /\ u[0] = i
    /\ \A k \in 0..n : k < n => u[k + 1] = p[u[k]]

LEMMA FindClimbs ==
    ASSUME NEW n \in Nat, NEW p, Tree(p, n), NEW i \in 1..n
    PROVE  \E u : Climbs(p, n, i, u) /\ Find(p, i) = u[n]
<1> DEFINE F == [k \in 1..n |-> p]
           B(f) == [k \in 0..Len(p) |-> IF k = 0 THEN i ELSE p[f[k - 1]]]
           t == CHOOSE f : f = B(f)
<1>1. PICK u \in [0..n -> 1..n] : Follows(n, i, F, u)
  <2>1. Stepwise(n, 1..n, F)
    BY DEF Stepwise, Tree
  <2> HIDE DEF F
  <2> QED
    BY <2>1, Iterates
<1>2. u[0] = i /\ \A k \in 1..n : u[k] = p[u[k - 1]]
  BY <1>1 DEF Follows
<1>3. Len(p) = n
  BY TreeLength
<1>4. u = B(u)
  <2> HIDE DEF F
  <2> QED
    BY <1>2, <1>3
<1>5. t = B(t)
  BY <1>4, Zenon
<1>6. t = u
  <2> DEFINE Q == {k \in 0..n : t[k] = u[k]}
  <2> HIDE DEF t
  <2>1. 0 \in Q
    BY <1>3, <1>4, <1>5
  <2>2. \A k \in 0..n : k < n /\ k \in Q => k + 1 \in Q
    BY <1>3, <1>4, <1>5
  <2>3. \A k \in 0..n : k \in Q
    <3> HIDE DEF Q
    <3> QED
      BY <2>1, <2>2, UpTo
  <2> QED
    BY <1>3, <1>4, <1>5, <2>3
<1>7. Find(p, i) = t[Len(p)]
  BY Zenon DEF Find
<1>8. Climbs(p, n, i, u)
  <2> SUFFICES ASSUME NEW k \in 0..n, k < n PROVE u[k + 1] = p[u[k]]
    BY <1>2 DEF Climbs
  <2>1. k + 1 \in 1..n /\ (k + 1) - 1 = k
    OBVIOUS
  <2> QED
    BY <1>2, <2>1
<1> QED
  <2> HIDE DEF t
  <2> QED
    BY <1>3, <1>6, <1>7, <1>8

LEMMA ClimbStays ==
    ASSUME NEW n \in Nat, NEW p, NEW i, NEW u, Climbs(p, n, i, u),
           NEW Q, i \in Q, \A x \in 1..n : x \in Q => p[x] \in Q
    PROVE  u[n] \in Q
<1> DEFINE T == {k \in 0..n : u[k] \in Q}
<1>1. 0 \in T
  BY DEF Climbs
<1>2. ASSUME NEW k \in 0..n, k < n, k \in T PROVE k + 1 \in T
  <2>1. k + 1 \in 0..n /\ u[k + 1] = p[u[k]] /\ u[k] \in 1..n
    BY <1>2 DEF Climbs
  <2> QED
    BY <1>2, <2>1
<1>3. \A k \in 0..n : k \in T
  <2> HIDE DEF T
  <2>1. \A k \in 0..n : k < n /\ k \in T => k + 1 \in T
    BY <1>2
  <2> QED
    BY <1>1, <2>1, UpTo
<1> QED
  BY <1>3

LEMMA FindIsRoot ==
    ASSUME NEW n \in Nat, NEW p, Tree(p, n), NEW i \in 1..n
    PROVE  /\ Find(p, i) \in 1..n /\ p[Find(p, i)] = Find(p, i)
           /\ Find(p, p[i]) = Find(p, i)
           /\ p[i] = i => Find(p, i) = i
<1>1. PICK u : Climbs(p, n, i, u) /\ Find(p, i) = u[n]
  BY FindClimbs
<1>2. p[i] \in 1..n
  BY DEF Tree
<1>3. PICK v : Climbs(p, n, p[i], v) /\ Find(p, p[i]) = v[n]
  BY <1>2, FindClimbs
<1> DEFINE Down == {k \in 0..n : p[u[k]] = u[k] \/ u[k] + k <= i}
           Same == {k \in 0..n : v[k] = p[u[k]]}
<1>4. \A k \in 0..n : k \in Down
  <2>1. 0 \in Down
    BY <1>1 DEF Climbs
  <2>2. ASSUME NEW k \in 0..n, k < n, k \in Down PROVE k + 1 \in Down
    <3>1. k + 1 \in 0..n /\ u[k + 1] = p[u[k]] /\ u[k] \in 1..n
      BY <1>1, <2>2 DEF Climbs
    <3>2. p[u[k]] \in 1..n /\ p[u[k]] <= u[k]
      BY <3>1 DEF Tree
    <3> QED
      BY <2>2, <3>1, <3>2
  <2> HIDE DEF Down
  <2>3. \A k \in 0..n : k < n /\ k \in Down => k + 1 \in Down
    BY <2>2
  <2> QED
    BY <2>1, <2>3, UpTo
<1>5. \A k \in 0..n : k \in Same
  <2>1. 0 \in Same
    <3>1. u[0] = i
      BY <1>1 DEF Climbs
    <3>2. v[0] = p[i]
      BY <1>3 DEF Climbs
    <3> QED
      BY <3>1, <3>2
  <2>2. ASSUME NEW k \in 0..n, k < n, k \in Same PROVE k + 1 \in Same
    <3>1. k + 1 \in 0..n /\ u[k + 1] = p[u[k]]
      BY <1>1, <2>2 DEF Climbs
    <3>2. v[k + 1] = p[v[k]]
      BY <1>3, <2>2 DEF Climbs
    <3> QED
      BY <2>2, <3>1, <3>2
  <2> HIDE DEF Same
  <2>3. \A k \in 0..n : k < n /\ k \in Same => k + 1 \in Same
    BY <2>2
  <2> QED
    BY <2>1, <2>3, UpTo
<1>6. u[n] \in 1..n /\ n \in 0..n
  BY <1>1 DEF Climbs
<1>7. p[u[n]] = u[n] /\ v[n] = p[u[n]]
  BY <1>4, <1>5, <1>6
<1>8. ASSUME p[i] = i PROVE u[n] = i
  <2> DEFINE Q == {i}
  <2>1. i \in Q /\ \A x \in 1..n : x \in Q => p[x] \in Q
    BY <1>8
  <2>2. u[n] \in Q
    <3> HIDE DEF Q
    <3> QED
      BY <1>1, <2>1, ClimbStays
  <2> QED
    BY <2>2
<1> QED
  BY <1>1, <1>3, <1>6, <1>7, <1>8

(* What is the same one step up, and is itself at the roots, is Find.      *)
LEMMA FindIsOnly ==
    ASSUME NEW n \in Nat, NEW p, Tree(p, n), NEW G,
           \A i \in 1..n : G[p[i]] = G[i] /\ (p[i] = i => G[i] = i),
           NEW i \in 1..n
    PROVE  Find(p, i) = G[i]
<1>1. PICK u : Climbs(p, n, i, u) /\ Find(p, i) = u[n]
  BY FindClimbs
<1> DEFINE Q == {x \in 1..n : G[x] = G[i]}
<1>2. u[n] \in Q
  <2>1. i \in Q /\ \A x \in 1..n : x \in Q => p[x] \in Q
    BY DEF Tree
  <2> HIDE DEF Q
  <2> QED
    BY <1>1, <2>1, ClimbStays
<1>3. p[u[n]] = u[n]
  BY <1>1, FindIsRoot
<1> QED
  BY <1>1, <1>2, <1>3

LEMMA FindInside ==
    ASSUME NEW n \in Nat, NEW p, Tree(p, n), NEW C, \A i \in 1..n : i \in C <=> p[i] \in C,
           NEW i \in 1..n
    PROVE  Find(p, i) \in C <=> i \in C
<1>1. PICK u : Climbs(p, n, i, u) /\ Find(p, i) = u[n]
  BY FindClimbs
<1> DEFINE Q == {x \in 1..n : x \in C <=> i \in C}
<1>2. i \in Q /\ \A x \in 1..n : x \in Q => p[x] \in Q
  BY DEF Tree
<1>3. u[n] \in Q
  <2> HIDE DEF Q
  <2> QED
    BY <1>1, <1>2, ClimbStays
<1> QED
  BY <1>1, <1>3

LEMMA PairBounds ==
    ASSUME NEW a \in Nat, NEW b \in Nat, a < b
    PROVE  /\ Max({a, b}) = b /\ Min({a, b}) = a
           /\ Max({b, a}) = b /\ Min({b, a}) = a
<1>1. \E x \in {a, b} : \A y \in {a, b} : x >= y
  OBVIOUS
<1>2. Max({a, b}) \in {a, b} /\ \A y \in {a, b} : Max({a, b}) >= y
  BY <1>1, Zenon DEF Max
<1>3. Min({a, b}) \in {a, b} /\ \A y \in {a, b} : Min({a, b}) <= y
  BY MinIsLeast
<1>4. {b, a} = {a, b}
  OBVIOUS
<1> QED
  BY <1>2, <1>3, <1>4

(* Where a join leaves a root.                                             *)
Merged(p, a, b, i) ==
    LET ra == Find(p, a)
        rb == Find(p, b)
    IN  IF Find(p, i) \in {ra, rb} THEN (IF ra < rb THEN ra ELSE rb) ELSE Find(p, i)

Relinked(p, hi, lo) == [p EXCEPT ![hi] = lo]

LEMMA LinkMerges ==
    ASSUME NEW n \in Nat, NEW p, Tree(p, n), NEW lo \in 1..n, NEW hi \in 1..n, lo < hi,
           p[lo] = lo, p[hi] = hi
    PROVE  /\ Tree(Relinked(p, hi, lo), n)
           /\ \A i \in 1..n : Find(Relinked(p, hi, lo), i)
                                = IF Find(p, i) \in {lo, hi} THEN lo ELSE Find(p, i)
<1> DEFINE q == Relinked(p, hi, lo)
           G == [i \in 1..n |-> IF Find(p, i) \in {lo, hi} THEN lo ELSE Find(p, i)]
<1>1. q[hi] = lo /\ \A i \in 1..n : i # hi => q[i] = p[i]
  BY DEF Tree, Relinked
<1>2. Tree(q, n)
  BY DEF Tree, Relinked
<1>3. Find(p, lo) = lo /\ Find(p, hi) = hi
  BY FindIsRoot
<1>4. \A i \in 1..n : /\ p[i] \in 1..n /\ Find(p, i) \in 1..n
                      /\ Find(p, p[i]) = Find(p, i) /\ (p[i] = i => Find(p, i) = i)
  <2>1. \A i \in 1..n : p[i] \in 1..n
    BY DEF Tree
  <2> QED
    BY <2>1, FindIsRoot
<1> HIDE DEF q
<1>5. ASSUME NEW i \in 1..n PROVE G[q[i]] = G[i] /\ (q[i] = i => G[i] = i)
  <2>1. CASE i = hi
    BY <1>1, <1>3, <2>1
  <2>2. CASE i # hi
    BY <1>1, <1>3, <1>4, <2>2
  <2> QED
    BY <2>1, <2>2
<1>6. \A i \in 1..n : Find(q, i) = G[i]
  <2> HIDE DEF G
  <2> QED
    BY <1>2, <1>5, FindIsOnly
<1> QED
  BY <1>2, <1>6 DEF q

LEMMA JoinMerges ==
    ASSUME NEW n \in Nat, NEW p, Tree(p, n), NEW a \in 1..n, NEW b \in 1..n
    PROVE  /\ Tree(Join(p, a, b), n)
           /\ \A i \in 1..n : Find(Join(p, a, b), i) = Merged(p, a, b, i)
<1> DEFINE ra == Find(p, a)
           rb == Find(p, b)
<1>1. ra \in 1..n /\ rb \in 1..n /\ p[ra] = ra /\ p[rb] = rb
  BY FindIsRoot
<1>2. Join(p, a, b) = IF ra = rb THEN p ELSE Relinked(p, Max({ra, rb}), Min({ra, rb}))
  BY DEF Join, Relinked
<1>3. \A i : Merged(p, a, b, i) =
               IF Find(p, i) \in {ra, rb} THEN (IF ra < rb THEN ra ELSE rb) ELSE Find(p, i)
  BY DEF Merged
<1> HIDE DEF ra, rb
<1>4. ra \in Nat /\ rb \in Nat
  BY <1>1
<1>5. CASE ra = rb
  BY <1>1, <1>2, <1>3, <1>5
<1>6. CASE ra < rb
  <2> DEFINE q == Relinked(p, rb, ra)
  <2>1. Max({ra, rb}) = rb /\ Min({ra, rb}) = ra
    BY <1>4, <1>6, PairBounds
  <2>2. Join(p, a, b) = q
    BY <1>1, <1>2, <1>6, <2>1
  <2>3. /\ Tree(q, n)
        /\ \A i \in 1..n : Find(q, i) = IF Find(p, i) \in {ra, rb} THEN ra ELSE Find(p, i)
    BY <1>1, <1>6, LinkMerges
  <2> HIDE DEF q
  <2> QED
    BY <1>3, <1>6, <2>2, <2>3
<1>7. CASE rb < ra
  <2> DEFINE q == Relinked(p, ra, rb)
  <2>1. Max({ra, rb}) = ra /\ Min({ra, rb}) = rb
    BY <1>4, <1>7, PairBounds
  <2>2. Join(p, a, b) = q
    BY <1>1, <1>2, <1>7, <2>1
  <2>3. /\ Tree(q, n)
        /\ \A i \in 1..n : Find(q, i) = IF Find(p, i) \in {rb, ra} THEN rb ELSE Find(p, i)
    BY <1>1, <1>7, LinkMerges
  <2>4. ~(ra < rb)
    BY <1>4, <1>7
  <2> HIDE DEF q
  <2> QED
    BY <1>3, <2>2, <2>3, <2>4
<1> QED
  BY <1>4, <1>5, <1>6, <1>7

LEMMA JoinKeepsInside ==
    ASSUME NEW n \in Nat, NEW p, Tree(p, n), NEW a \in 1..n, NEW b \in 1..n,
           NEW C, \A i \in 1..n : i \in C <=> p[i] \in C, a \in C <=> b \in C
    PROVE  \A i \in 1..n : i \in C <=> Join(p, a, b)[i] \in C
<1> DEFINE ra == Find(p, a)
           rb == Find(p, b)
<1>1. ra \in 1..n /\ rb \in 1..n
  BY FindIsRoot
<1>2. ra \in C <=> rb \in C
  BY FindInside
<1>3. Join(p, a, b) = IF ra = rb THEN p ELSE Relinked(p, Max({ra, rb}), Min({ra, rb}))
  BY DEF Join, Relinked
<1>4. p \in [1..n -> 1..n]
  BY DEF Tree
<1> HIDE DEF ra, rb
<1>5. ra \in Nat /\ rb \in Nat
  BY <1>1
<1>6. ASSUME NEW lo \in 1..n, NEW hi \in 1..n, lo \in C <=> hi \in C
      PROVE  \A i \in 1..n : i \in C <=> Relinked(p, hi, lo)[i] \in C
  <2> SUFFICES ASSUME NEW i \in 1..n PROVE i \in C <=> Relinked(p, hi, lo)[i] \in C
    OBVIOUS
  <2>1. Relinked(p, hi, lo)[i] = IF i = hi THEN lo ELSE p[i]
    BY <1>4 DEF Relinked
  <2> QED
    BY <1>6, <2>1
<1>7. CASE ra = rb
  BY <1>3, <1>7
<1>8. CASE ra < rb
  <2>1. Max({ra, rb}) = rb /\ Min({ra, rb}) = ra
    BY <1>5, <1>8, PairBounds
  <2>2. Join(p, a, b) = Relinked(p, rb, ra)
    BY <1>5, <1>3, <1>8, <2>1
  <2> QED
    BY <1>1, <1>2, <1>6, <2>2
<1>9. CASE rb < ra
  <2>1. Max({ra, rb}) = ra /\ Min({ra, rb}) = rb
    BY <1>5, <1>9, PairBounds
  <2>2. Join(p, a, b) = Relinked(p, ra, rb)
    BY <1>5, <1>3, <1>9, <2>1
  <2> QED
    BY <1>1, <1>2, <1>6, <2>2
<1> QED
  BY <1>5, <1>7, <1>8, <1>9

-----------------------------------------------------------------------------
(* The links of a list, and what joining them comes to.                    *)

LEMMA SetToSeqLists ==
    ASSUME NEW S, IsFiniteSet(S)
    PROVE  SetToSeq(S) \in Seq(S) /\ ToSet(SetToSeq(S)) = S
<1> DEFINE n == Cardinality(S)
<1>1. n \in Nat /\ \E f : f \in Bijection(1..n, S)
  BY FS_CardinalityType DEF ExistsBijection
<1>2. \E f \in [1..n -> S] : IsInjective(f)
  BY <1>1 DEF Bijection, Injection, IsInjective
<1>3. SetToSeq(S) \in [1..n -> S] /\ IsInjective(SetToSeq(S))
  BY <1>2, Zenon DEF SetToSeq
<1>4. SetToSeq(S) \in Injection(1..n, S)
  BY <1>3 DEF Injection, IsInjective
<1>5. IsFiniteSet(1..n) /\ Cardinality(1..n) = n
  <2>1. IsFiniteSet(1..n) /\ Cardinality(1..n) = IF 1 > n THEN 0 ELSE n - 1 + 1
    <3>1. 1 \in Int /\ n \in Int
      BY <1>1
    <3> QED
      BY <3>1, FS_Interval, Zenon
  <2> QED
    BY <1>1, <2>1
<1>6. SetToSeq(S) \in Surjection(1..n, S)
  BY <1>4, <1>5, FS_Injection
<1> QED
  BY <1>1, <1>3, <1>6 DEF Surjection, ToSet

(* One resource, or one declared to apply after the other.                 *)
Tied(its, i, j) ==
    \/ its[i].id \in its[j].after
    \/ its[j].id \in its[i].after
    \/ its[i].key = its[j].key /\ its[i].key # NoResource

LEMMA HolderHolds ==
    ASSUME NEW its, IsList(its), NEW i \in DOMAIN its
    PROVE  /\ Holder(its, i) \in DOMAIN its
           /\ Holder(its, i) = i \/ Tied(its, i, Holder(its, i))
           /\ \A j \in DOMAIN its :
                its[i].key = its[j].key /\ its[i].key # NoResource => Holder(its, i) = Holder(its, j)
<1> DEFINE T == {j \in DOMAIN its : its[j].key = its[i].key}
<1>1. Min(T) \in T
  <2>1. T \subseteq Nat /\ T # {}
    BY DEF IsList
  <2> HIDE DEF T
  <2> QED
    BY <2>1, MinIsLeast
<1>2. Holder(its, i) = IF its[i].key = NoResource THEN i ELSE Min(T)
  BY DEF Holder
<1>3. \A j \in DOMAIN its :
         its[i].key = its[j].key /\ its[i].key # NoResource => Holder(its, i) = Holder(its, j)
  BY DEF Holder
<1> QED
  BY <1>1, <1>2, <1>3 DEF Tied

IsLink(its, i, j) ==
    i \in DOMAIN its /\ j \in DOMAIN its /\ (its[j].id \in its[i].after \/ j = Holder(its, i))

LEMMA LinksAreLinks ==
    ASSUME NEW its, IsList(its)
    PROVE  /\ Links(its) \in Seq((DOMAIN its) \X (DOMAIN its))
           /\ \A k \in DOMAIN Links(its) : IsLink(its, Links(its)[k][1], Links(its)[k][2])
           /\ \A i, j : IsLink(its, i, j) => \E k \in DOMAIN Links(its) : Links(its)[k] = <<i, j>>
<1> DEFINE D == DOMAIN its
           S == UNION {{<<i, j>> : j \in DependencyEdges(its)[i]} : i \in D}
           s == SetToSeq(S)
           h == [i \in D |-> <<i, Holder(its, i)>>]
<1>1. S \subseteq D \X D
  BY EdgesAreInside
<1>2. IsFiniteSet(S)
  <2> HIDE DEF S, D
  <2>1. IsFiniteSet(D \X D)
    BY ListIsFinite, FS_Product DEF D
  <2> QED
    BY <1>1, <2>1, FS_Subset
<1>3. s \in Seq(S) /\ ToSet(s) = S
  <2> HIDE DEF S
  <2> QED
    BY <1>2, SetToSeqLists
<1>4. h \in Seq(D \X D) /\ Len(h) = Len(its) /\ DOMAIN h = D
  BY HolderHolds DEF IsList
<1>5. Links(its) = s \o h
  BY DEF Links
<1>6. \A i, j : <<i, j>> \in S <=> i \in D /\ j \in D /\ its[j].id \in its[i].after
  BY DEF DependencyEdges
<1> HIDE DEF S, s, h, D
<1>7. s \in Seq(D \X D)
  BY <1>1, <1>3
<1>8. /\ s \o h \in Seq(D \X D) /\ Len(s \o h) = Len(s) + Len(h)
      /\ \A k \in 1..Len(s) : (s \o h)[k] = s[k]
      /\ \A k \in 1..Len(h) : (s \o h)[Len(s) + k] = h[k]
  <2>1. /\ s \o h \in Seq(D \X D) /\ Len(s \o h) = Len(s) + Len(h)
        /\ \A k \in 1..(Len(s) + Len(h)) :
              (s \o h)[k] = IF k <= Len(s) THEN s[k] ELSE h[k - Len(s)]
    BY <1>4, <1>7, ConcatProperties
  <2>2. Len(s) \in Nat /\ Len(h) \in Nat
    BY <1>4, <1>7
  <2>3. ASSUME NEW k \in 1..Len(h) PROVE (s \o h)[Len(s) + k] = h[k]
    <3>1. Len(s) + k \in 1..(Len(s) + Len(h)) /\ ~(Len(s) + k <= Len(s))
          /\ (Len(s) + k) - Len(s) = k
      BY <2>2
    <3> QED
      BY <2>1, <3>1
  <2>4. ASSUME NEW k \in 1..Len(s) PROVE (s \o h)[k] = s[k]
    <3>1. k \in 1..(Len(s) + Len(h)) /\ k <= Len(s)
      BY <2>2
    <3> QED
      BY <2>1, <3>1
  <2> QED
    BY <2>1, <2>3, <2>4
<1>9. ASSUME NEW k \in DOMAIN (s \o h) PROVE IsLink(its, (s \o h)[k][1], (s \o h)[k][2])
  <2>1. CASE k \in 1..Len(s)
    <3>1. s[k] \in S /\ (s \o h)[k] = s[k]
      BY <1>3, <1>8, <2>1
    <3>2. s[k] = <<s[k][1], s[k][2]>>
      BY <1>1, <3>1
    <3> QED
      BY <1>6, <3>1, <3>2 DEF IsLink, D
  <2>2. CASE k \notin 1..Len(s)
    <3>1. k - Len(s) \in 1..Len(h) /\ k = Len(s) + (k - Len(s))
      BY <1>4, <1>7, <1>8, <2>2
    <3>2. (s \o h)[k] = h[k - Len(s)] /\ k - Len(s) \in D
      BY <1>4, <1>8, <3>1 DEF D, IsList
    <3>3. h[k - Len(s)] = <<k - Len(s), Holder(its, k - Len(s))>>
      BY <3>2 DEF h
    <3> QED
      BY <3>2, <3>3, HolderHolds DEF IsLink, D
  <2> QED
    BY <2>1, <2>2
<1>10. ASSUME NEW i, NEW j, IsLink(its, i, j) PROVE \E k \in DOMAIN (s \o h) : (s \o h)[k] = <<i, j>>
  <2>1. CASE its[j].id \in its[i].after
    <3>1. <<i, j>> \in ToSet(s)
      BY <1>3, <1>6, <1>10, <2>1 DEF IsLink, D
    <3>2. PICK k \in DOMAIN s : s[k] = <<i, j>>
      BY <3>1 DEF ToSet
    <3>3. Len(s) \in Nat /\ Len(h) \in Nat /\ DOMAIN s = 1..Len(s)
      BY <1>4, <1>7
    <3>4. k \in DOMAIN (s \o h) /\ k \in 1..Len(s)
      BY <1>8, <3>2, <3>3
    <3> QED
      BY <1>8, <3>2, <3>4
  <2>2. CASE j = Holder(its, i)
    <3>1. i \in 1..Len(h) /\ h[i] = <<i, j>>
      BY <1>4, <1>10, <2>2 DEF IsLink, D, h, IsList
    <3>2. Len(s) \in Nat /\ Len(h) \in Nat
      BY <1>4, <1>7
    <3>3. Len(s) + i \in DOMAIN (s \o h) /\ (s \o h)[Len(s) + i] = h[i]
      BY <1>8, <3>1, <3>2
    <3> QED
      BY <3>1, <3>3
  <2> QED
    BY <1>10, <2>1, <2>2 DEF IsLink
<1>11. \A k \in DOMAIN (s \o h) : IsLink(its, (s \o h)[k][1], (s \o h)[k][2])
  BY <1>9
<1>12. \A i, j : IsLink(its, i, j) => \E k \in DOMAIN (s \o h) : (s \o h)[k] = <<i, j>>
  BY <1>10
<1>13. s \o h \in Seq((DOMAIN its) \X (DOMAIN its))
  <2>1. s \o h \in Seq(D \X D)
    BY <1>8
  <2> QED
    BY <2>1, Zenon DEF D
<1> QED
  <2> DEFINE l == s \o h
  <2> HIDE DEF l
  <2> QED
    BY <1>5, <1>11, <1>12, <1>13 DEF l

LEMMA ComponentsByJoins ==
    ASSUME NEW its, IsList(its)
    PROVE  \E g : /\ g[0] = [i \in DOMAIN its |-> i] /\ Components(its) = g[Len(Links(its))]
                  /\ \A k \in 0..Len(Links(its)) : Tree(g[k], Len(its))
                  /\ \A k \in 1..Len(Links(its)) :
                        g[k] = Join(g[k - 1], Links(its)[k][1], Links(its)[k][2])
<1> DEFINE n == Len(its)
           l == Links(its)
           m == Len(l)
           S == {p \in [1..n -> 1..n] : Tree(p, n)}
           b == [i \in DOMAIN its |-> i]
           F == [k \in 1..m |-> [p \in S |-> Join(p, l[k][1], l[k][2])]]
           B(f) == [k \in 0..m |-> IF k = 0 THEN b ELSE Join(f[k - 1], l[k][1], l[k][2])]
           t == CHOOSE f : f = B(f)
<1>1. n \in Nat /\ DOMAIN its = 1..n
  BY DEF IsList
<1>2. m \in Nat /\ DOMAIN l = 1..m /\ \A k \in 1..m : l[k][1] \in 1..n /\ l[k][2] \in 1..n
  <2>1. l \in Seq((DOMAIN its) \X (DOMAIN its))
    BY LinksAreLinks
  <2> HIDE DEF l
  <2> QED
    BY <1>1, <2>1
<1>3. b \in S
  BY <1>1 DEF Tree
<1> HIDE DEF l
<1>4. \A k \in 1..m, p \in S : Join(p, l[k][1], l[k][2]) \in S
  <2> SUFFICES ASSUME NEW k \in 1..m, NEW p \in S PROVE Join(p, l[k][1], l[k][2]) \in S
    OBVIOUS
  <2>1. Tree(Join(p, l[k][1], l[k][2]), n)
    <3> HIDE DEF n, m
    <3> QED
      BY <1>1, <1>2, JoinMerges
  <2> QED
    BY <2>1 DEF Tree
<1>5. Stepwise(m, S, F)
  BY <1>4 DEF Stepwise
<1>6. PICK g \in [0..m -> S] : Follows(m, b, F, g)
  <2> HIDE DEF n, m, S, b, F
  <2> QED
    BY <1>2, <1>3, <1>5, Iterates
<1>7. g[0] = b /\ \A k \in 1..m : g[k] = Join(g[k - 1], l[k][1], l[k][2])
  <2>1. g[0] = b
    BY <1>6 DEF Follows
  <2>2. ASSUME NEW k \in 1..m PROVE g[k] = Join(g[k - 1], l[k][1], l[k][2])
    <3>1. g[k] = F[k][g[k - 1]]
      BY <1>6 DEF Follows
    <3>2. g[k - 1] \in S
      <4> HIDE DEF S, m
      <4> QED
        BY <1>2
    <3> HIDE DEF S
    <3> QED
      BY <3>1, <3>2
  <2> QED
    BY <2>1, <2>2
<1>8. g = B(g)
  <2> HIDE DEF m, S, F, b
  <2> QED
    BY <1>2, <1>7
<1>9. t = B(t)
  BY <1>8, Zenon
<1>10. t = g
  <2> DEFINE Q == {k \in 0..m : t[k] = g[k]}
  <2> HIDE DEF t, m, b
  <2>1. 0 \in Q
    BY <1>2, <1>8, <1>9
  <2>2. \A k \in 0..m : k < m /\ k \in Q => k + 1 \in Q
    BY <1>2, <1>8, <1>9
  <2>3. \A k \in 0..m : k \in Q
    <3> HIDE DEF Q
    <3> QED
      BY <1>2, <2>1, <2>2, UpTo
  <2> QED
    BY <1>8, <1>9, <2>3
<1>11. Components(its) = t[m]
  BY Zenon DEF Components, l
<1>12. \A k \in 0..m : Tree(g[k], n)
  OBVIOUS
<1> QED
  <2> HIDE DEF t
  <2> QED
    BY <1>7, <1>10, <1>11, <1>12 DEF l

LEMMA ComponentsTie ==
    ASSUME NEW its, IsList(its)
    PROVE  /\ Tree(Components(its), Len(its))
           /\ \A i, j : IsLink(its, i, j) => Find(Components(its), i) = Find(Components(its), j)
<1> DEFINE n == Len(its)
           l == Links(its)
           m == Len(l)
<1>1. PICK g : /\ g[0] = [i \in DOMAIN its |-> i] /\ Components(its) = g[m]
               /\ \A k \in 0..m : Tree(g[k], n)
               /\ \A k \in 1..m : g[k] = Join(g[k - 1], l[k][1], l[k][2])
  BY ComponentsByJoins
<1>2. n \in Nat /\ DOMAIN its = 1..n
  BY DEF IsList
<1>3. m \in Nat /\ DOMAIN l = 1..m /\ \A k \in 1..m : l[k][1] \in 1..n /\ l[k][2] \in 1..n
  <2>1. l \in Seq((DOMAIN its) \X (DOMAIN its))
    BY LinksAreLinks
  <2> HIDE DEF l
  <2> QED
    BY <1>2, <2>1
<1> DEFINE Tied1(k) == \A j \in 1..k : Find(g[k], l[j][1]) = Find(g[k], l[j][2])
           Q == {k \in 0..m : Tied1(k)}
<1> HIDE DEF l, n, m
<1>4. 0 \in Q
  BY <1>3
<1>5. ASSUME NEW k \in 0..m, k < m, k \in Q PROVE k + 1 \in Q
  <2> DEFINE p == g[k]
             a == l[k + 1][1]
             b == l[k + 1][2]
             q == Join(p, a, b)
  <2>1. k + 1 \in 1..m /\ (k + 1) - 1 = k
    BY <1>3, <1>5
  <2>2. g[k + 1] = q /\ Tree(p, n) /\ a \in 1..n /\ b \in 1..n
    BY <1>1, <1>3, <2>1
  <2>3. \A j \in 1..k : Find(p, l[j][1]) = Find(p, l[j][2])
    BY <1>5
  <2> HIDE DEF p, a, b, q
  <2>4. \A i \in 1..n : Find(q, i) = Merged(p, a, b, i)
    BY <1>2, <2>2, JoinMerges DEF q
  <2>5. ASSUME NEW j \in 1..(k + 1) PROVE Find(q, l[j][1]) = Find(q, l[j][2])
    <3>1. l[j][1] \in 1..n /\ l[j][2] \in 1..n
      BY <1>3, <2>1
    <3>2. CASE j \in 1..k
      BY <2>3, <2>4, <3>1, <3>2 DEF Merged
    <3>3. CASE j = k + 1
      <4>1. l[j][1] = a /\ l[j][2] = b
        BY <3>3 DEF a, b
      <4> QED
        BY <2>2, <2>4, <4>1 DEF Merged
    <3> QED
      BY <3>2, <3>3
  <2> QED
    BY <2>1, <2>2, <2>5
<1>6. \A k \in 0..m : k \in Q
  <2> HIDE DEF Q
  <2>1. \A k \in 0..m : k < m /\ k \in Q => k + 1 \in Q
    BY <1>5
  <2> QED
    BY <1>3, <1>4, <2>1, UpTo
<1>7. \A k \in 1..m : Find(Components(its), l[k][1]) = Find(Components(its), l[k][2])
  BY <1>1, <1>3, <1>6
<1>8. ASSUME NEW i, NEW j, IsLink(its, i, j)
      PROVE  Find(Components(its), i) = Find(Components(its), j)
  <2>1. PICK k \in DOMAIN l : l[k] = <<i, j>>
    BY <1>8, LinksAreLinks DEF l
  <2> QED
    BY <1>3, <1>7, <2>1
<1>9. Tree(Components(its), n)
  BY <1>1, <1>3
<1> QED
  BY <1>8, <1>9 DEF n

LEMMA ComponentsStayInside ==
    ASSUME NEW its, IsList(its), NEW C,
           \A i, j : IsLink(its, i, j) => (i \in C <=> j \in C)
    PROVE  \A i \in DOMAIN its : Find(Components(its), i) \in C <=> i \in C
<1> DEFINE n == Len(its)
           l == Links(its)
           m == Len(l)
<1>1. PICK g : /\ g[0] = [i \in DOMAIN its |-> i] /\ Components(its) = g[m]
               /\ \A k \in 0..m : Tree(g[k], n)
               /\ \A k \in 1..m : g[k] = Join(g[k - 1], l[k][1], l[k][2])
  BY ComponentsByJoins
<1>2. n \in Nat /\ DOMAIN its = 1..n
  BY DEF IsList
<1>3. m \in Nat /\ DOMAIN l = 1..m /\ \A k \in 1..m : l[k][1] \in 1..n /\ l[k][2] \in 1..n
  <2>1. l \in Seq((DOMAIN its) \X (DOMAIN its))
    BY LinksAreLinks
  <2> HIDE DEF l
  <2> QED
    BY <1>2, <2>1
<1>4. ASSUME NEW k \in 1..m PROVE l[k][1] \in C <=> l[k][2] \in C
  <2>1. IsLink(its, l[k][1], l[k][2])
    <3>1. \A q \in DOMAIN l : IsLink(its, l[q][1], l[q][2])
      BY LinksAreLinks
    <3> HIDE DEF l
    <3> QED
      BY <1>3, <3>1
  <2> QED
    BY <2>1
<1> DEFINE Q == {k \in 0..m : \A i \in 1..n : i \in C <=> g[k][i] \in C}
<1> HIDE DEF l, n, m
<1>5. 0 \in Q
  BY <1>1, <1>2, <1>3
<1>6. ASSUME NEW k \in 0..m, k < m, k \in Q PROVE k + 1 \in Q
  <2> DEFINE p == g[k]
             a == l[k + 1][1]
             b == l[k + 1][2]
  <2>1. k + 1 \in 1..m /\ (k + 1) - 1 = k
    BY <1>3, <1>6
  <2>2. g[k + 1] = Join(p, a, b) /\ Tree(p, n) /\ a \in 1..n /\ b \in 1..n
    BY <1>1, <1>3, <2>1
  <2>3. /\ \A i \in 1..n : i \in C <=> p[i] \in C
        /\ a \in C <=> b \in C
    BY <1>4, <1>6, <2>1
  <2> HIDE DEF p, a, b
  <2>4. \A i \in 1..n : i \in C <=> Join(p, a, b)[i] \in C
    BY <1>2, <2>2, <2>3, JoinKeepsInside
  <2> QED
    BY <2>1, <2>2, <2>4
<1>7. \A k \in 0..m : k \in Q
  <2> HIDE DEF Q
  <2>1. \A k \in 0..m : k < m /\ k \in Q => k + 1 \in Q
    BY <1>6
  <2> QED
    BY <1>3, <1>5, <2>1, UpTo
<1>8. /\ Tree(Components(its), n)
      /\ \A i \in 1..n : i \in C <=> Components(its)[i] \in C
  BY <1>1, <1>3, <1>7
<1> QED
  BY <1>2, <1>8, FindInside

-----------------------------------------------------------------------------
(* What hangs together has one root, and one root only what hangs together.*)

(* MCLanePlan's Linked, Closed and IsComponent, of any list.               *)
Shut(its, C) == \A i \in C, j \in DOMAIN its : Tied(its, i, j) => j \in C

Part(its, C) ==
    /\ C # {} /\ Shut(its, C)
    /\ \A D \in SUBSET C : D # {} /\ Shut(its, D) => D = C

Root(its, i) == Find(Components(its), i)
Class(its, r) == {i \in DOMAIN its : Root(its, i) = r}

LEMMA TiedTogether ==
    ASSUME NEW its, IsList(its), NEW i \in DOMAIN its, NEW j \in DOMAIN its, Tied(its, i, j)
    PROVE  Root(its, i) = Root(its, j)
<1>1. \A a, b : IsLink(its, a, b) => Root(its, a) = Root(its, b)
  BY ComponentsTie DEF Root
<1>2. CASE its[i].id \in its[j].after
  BY <1>1, <1>2 DEF IsLink
<1>3. CASE its[j].id \in its[i].after
  BY <1>1, <1>3 DEF IsLink
<1>4. CASE its[i].key = its[j].key /\ its[i].key # NoResource
  <2>1. Holder(its, i) \in DOMAIN its /\ Holder(its, i) = Holder(its, j)
    BY <1>4, HolderHolds
  <2>2. IsLink(its, i, Holder(its, i)) /\ IsLink(its, j, Holder(its, j))
    BY <2>1 DEF IsLink
  <2> QED
    BY <1>1, <2>1, <2>2
<1> QED
  BY <1>2, <1>3, <1>4 DEF Tied

LEMMA RootInside ==
    ASSUME NEW its, IsList(its), NEW C, C \subseteq DOMAIN its, Shut(its, C),
           NEW i \in DOMAIN its
    PROVE  Root(its, i) \in C <=> i \in C
<1>1. ASSUME NEW a, NEW b, IsLink(its, a, b) PROVE a \in C <=> b \in C
  <2>1. a \in DOMAIN its /\ b \in DOMAIN its
    BY <1>1 DEF IsLink
  <2>2. a = b \/ (Tied(its, a, b) /\ Tied(its, b, a))
    BY <1>1, <2>1, HolderHolds DEF IsLink, Tied
  <2> QED
    BY <2>1, <2>2 DEF Shut
<1>2. \A a, b : IsLink(its, a, b) => (a \in C <=> b \in C)
  BY <1>1
<1> QED
  BY <1>2, ComponentsStayInside DEF Root

LEMMA RootIsRoot ==
    ASSUME NEW its, IsList(its), NEW i \in DOMAIN its
    PROVE  Root(its, i) \in DOMAIN its /\ Root(its, Root(its, i)) = Root(its, i)
<1>1. Tree(Components(its), Len(its)) /\ Len(its) \in Nat /\ DOMAIN its = 1..Len(its)
  BY ComponentsTie DEF IsList
<1> QED
  BY <1>1, FindIsRoot DEF Root

LEMMA ClassesAreParts ==
    ASSUME NEW its, IsList(its), NEW r, Class(its, r) # {}
    PROVE  Part(its, Class(its, r))
<1>1. Shut(its, Class(its, r))
  BY TiedTogether DEF Shut, Class
<1>2. ASSUME NEW D \in SUBSET Class(its, r), D # {}, Shut(its, D) PROVE D = Class(its, r)
  <2>1. D \subseteq DOMAIN its
    BY DEF Class
  <2>2. PICK i \in D : TRUE
    BY <1>2
  <2>3. r \in D
    BY <1>2, <2>1, <2>2, RootInside DEF Class
  <2>4. \A k \in Class(its, r) : k \in D
    BY <1>2, <2>1, <2>3, RootInside DEF Class
  <2> QED
    BY <2>4
<1> QED
  BY <1>1, <1>2 DEF Part

LEMMA PartsAreClasses ==
    ASSUME NEW its, IsList(its), NEW C, C \subseteq DOMAIN its, Part(its, C)
    PROVE  \E i \in C : C = Class(its, Root(its, i))
<1>1. PICK i \in C : TRUE
  BY DEF Part
<1>2. Shut(its, C)
  BY DEF Part
<1>3. Root(its, i) \in C
  BY <1>1, <1>2, RootInside
<1>4. \A k \in Class(its, Root(its, i)) : k \in C
  BY <1>2, <1>3, RootInside DEF Class
<1>5. i \in Class(its, Root(its, i))
  BY <1>1 DEF Class
<1>6. Part(its, Class(its, Root(its, i)))
  BY <1>5, ClassesAreParts
<1> QED
  BY <1>4, <1>5, <1>6 DEF Part

-----------------------------------------------------------------------------
(* The lanes as they fill up.                                              *)

Placed(its, i, lanes) == [lanes EXCEPT ![Root(its, i)] = Append(@, its[i].id)]

IdsOf(its) == {its[i].id : i \in DOMAIN its}

LEMMA FilledByTurns ==
    ASSUME NEW its, IsList(its)
    PROVE  LET o == Order(DependencyEdges(its))
           IN  \E g \in [0..Len(o) -> [DOMAIN its -> Seq(IdsOf(its))]] :
                  /\ g[0] = [root \in DOMAIN its |-> <<>>] /\ Filled(its) = g[Len(o)]
                  /\ \A k \in 1..Len(o) : g[k] = Placed(its, o[k], g[k - 1])
<1> DEFINE o == Order(DependencyEdges(its))
           m == Len(o)
           S == [DOMAIN its -> Seq(IdsOf(its))]
           b == [root \in DOMAIN its |-> <<>>]
           F == [k \in 1..m |-> [f \in S |-> Placed(its, o[k], f)]]
           B(f) == [k \in 0..m |-> IF k = 0 THEN b ELSE Placed(its, o[k], f[k - 1])]
           t == CHOOSE f : f = B(f)
<1>1. m \in Nat /\ \A k \in 1..m : o[k] \in DOMAIN its
  <2>1. Greedy(DependencyEdges(its), o)
    BY OrderOfList
  <2>2. o \in Seq(DOMAIN its)
    BY <2>1, EdgesAreInside DEF Greedy
  <2> HIDE DEF o
  <2> QED
    BY <2>2
<1> HIDE DEF o
<1>2. b \in S
  OBVIOUS
<1>3. \A k \in 1..m, f \in S : Placed(its, o[k], f) \in S
  <2> SUFFICES ASSUME NEW k \in 1..m, NEW f \in S PROVE Placed(its, o[k], f) \in S
    OBVIOUS
  <2>1. Root(its, o[k]) \in DOMAIN its
    BY <1>1, RootIsRoot
  <2>2. its[o[k]].id \in IdsOf(its)
    BY <1>1 DEF IdsOf
  <2>3. Append(f[Root(its, o[k])], its[o[k]].id) \in Seq(IdsOf(its))
    BY <2>1, <2>2
  <2> QED
    BY <2>1, <2>3 DEF Placed
<1>4. Stepwise(m, S, F)
  BY <1>3 DEF Stepwise
<1>5. PICK g \in [0..m -> S] : Follows(m, b, F, g)
  <2> HIDE DEF m, S, b, F
  <2> QED
    BY <1>1, <1>2, <1>4, Iterates
<1>6. g[0] = b /\ \A k \in 1..m : g[k] = Placed(its, o[k], g[k - 1])
  <2>1. g[0] = b
    BY <1>5 DEF Follows
  <2>2. ASSUME NEW k \in 1..m PROVE g[k] = Placed(its, o[k], g[k - 1])
    <3>1. g[k] = F[k][g[k - 1]]
      BY <1>5 DEF Follows
    <3>2. g[k - 1] \in S
      <4> HIDE DEF S, m
      <4> QED
        BY <1>1
    <3> HIDE DEF S
    <3> QED
      BY <3>1, <3>2
  <2> QED
    BY <2>1, <2>2
<1>7. g = B(g)
  <2> HIDE DEF m, S, F, b
  <2> QED
    BY <1>1, <1>6
<1>8. t = B(t)
  BY <1>7, Zenon
<1>9. t = g
  <2> DEFINE Q == {k \in 0..m : t[k] = g[k]}
  <2> HIDE DEF t, m, b
  <2>1. 0 \in Q
    BY <1>1, <1>7, <1>8
  <2>2. \A k \in 0..m : k < m /\ k \in Q => k + 1 \in Q
    BY <1>1, <1>7, <1>8
  <2>3. \A k \in 0..m : k \in Q
    <3> HIDE DEF Q
    <3> QED
      BY <1>1, <2>1, <2>2, UpTo
  <2> QED
    BY <1>7, <1>8, <2>3
<1>10. Filled(its) = t[m]
  BY Zenon DEF Filled, Placed, Root, o
<1> QED
  <2> HIDE DEF t
  <2> QED
    BY <1>6, <1>9, <1>10 DEF o

(* A lane threads the first k turns of an order: its settings are those of *)
(* one root, in the order's order.                                         *)
Threads(its, o, k, r, lane, s) ==
    /\ s \in Seq(1..k) /\ Len(lane) = Len(s)
    /\ \A x, y \in 1..Len(s) : x < y => s[x] < s[y]
    /\ \A x \in 1..Len(s) : Root(its, o[s[x]]) = r /\ lane[x] = its[o[s[x]]].id
    /\ \A q \in 1..k : Root(its, o[q]) = r => \E x \in 1..Len(s) : s[x] = q

Threaded(its, o, k, r, lane) == \E s : Threads(its, o, k, r, lane, s)

LEMMA ThreadGoesOn ==
    ASSUME NEW its, NEW o, NEW k \in Nat, NEW r, NEW S, NEW lane \in Seq(S),
           Threaded(its, o, k, r, lane)
    PROVE  /\ Root(its, o[k + 1]) # r => Threaded(its, o, k + 1, r, lane)
           /\ Root(its, o[k + 1]) = r => Threaded(its, o, k + 1, r, Append(lane, its[o[k + 1]].id))
<1>1. PICK s : Threads(its, o, k, r, lane, s)
  BY DEF Threaded
<1>2. s \in Seq(1..k) /\ Len(s) \in Nat /\ Len(lane) = Len(s) /\ s \in Seq(1..(k + 1))
      /\ \A x \in 1..Len(s) : s[x] \in 1..k
  BY <1>1 DEF Threads
<1>3. ASSUME Root(its, o[k + 1]) # r PROVE Threads(its, o, k + 1, r, lane, s)
  <2>1. \A q \in 1..(k + 1) : Root(its, o[q]) = r => q \in 1..k
    BY <1>3
  <2> QED
    BY <1>1, <1>2, <2>1 DEF Threads
<1>4. ASSUME Root(its, o[k + 1]) = r
      PROVE  Threads(its, o, k + 1, r, Append(lane, its[o[k + 1]].id), Append(s, k + 1))
  <2> DEFINE l == Append(lane, its[o[k + 1]].id)
             n == Append(s, k + 1)
             h == Len(s)
  <2>1. /\ n \in Seq(1..(k + 1)) /\ Len(n) = h + 1 /\ n[h + 1] = k + 1
        /\ \A x \in 1..h : n[x] = s[x]
    BY <1>2
  <2>2. Len(l) = h + 1 /\ l[h + 1] = its[o[k + 1]].id /\ \A x \in 1..h : l[x] = lane[x]
    BY <1>2
  <2> HIDE DEF l, n
  <2>3. h \in Nat /\ \A x \in 1..(h + 1) : x \in 1..h \/ x = h + 1
    BY <1>2
  <2>4. \A x, y \in 1..(h + 1) : x < y => n[x] < n[y]
    <3> SUFFICES ASSUME NEW x \in 1..(h + 1), NEW y \in 1..(h + 1), x < y PROVE n[x] < n[y]
      OBVIOUS
    <3>1. x \in 1..h /\ n[x] = s[x] /\ s[x] \in 1..k
      BY <1>2, <2>1, <2>3
    <3>2. CASE y \in 1..h
      BY <1>1, <2>1, <3>1, <3>2 DEF Threads
    <3>3. CASE y = h + 1
      BY <2>1, <3>1, <3>3
    <3> QED
      BY <2>3, <3>2, <3>3
  <2>5. \A x \in 1..(h + 1) : Root(its, o[n[x]]) = r /\ l[x] = its[o[n[x]]].id
    <3> SUFFICES ASSUME NEW x \in 1..(h + 1)
                 PROVE  Root(its, o[n[x]]) = r /\ l[x] = its[o[n[x]]].id
      OBVIOUS
    <3>1. CASE x \in 1..h
      BY <1>1, <2>1, <2>2, <3>1 DEF Threads
    <3>2. CASE x = h + 1
      BY <1>4, <2>1, <2>2, <3>2
    <3> QED
      BY <2>3, <3>1, <3>2
  <2>6. ASSUME NEW q \in 1..(k + 1), Root(its, o[q]) = r PROVE \E x \in 1..(h + 1) : n[x] = q
    <3>1. CASE q \in 1..k
      <4>1. PICK x \in 1..h : s[x] = q
        BY <1>1, <2>6, <3>1 DEF Threads
      <4> QED
        BY <2>1, <2>3, <4>1
    <3>2. CASE q = k + 1
      BY <2>1, <2>3, <3>2
    <3> QED
      BY <3>1, <3>2
  <2>7. Threads(its, o, k + 1, r, l, n)
    BY <2>1, <2>2, <2>4, <2>5, <2>6 DEF Threads
  <2> QED
    BY <2>7 DEF l, n
<1> QED
  BY <1>3, <1>4 DEF Threaded

LEMMA FilledThreads ==
    ASSUME NEW its, IsList(its)
    PROVE  LET o == Order(DependencyEdges(its))
           IN  /\ Filled(its) \in [DOMAIN its -> Seq(IdsOf(its))]
               /\ \A r \in DOMAIN its : Threaded(its, o, Len(o), r, Filled(its)[r])
<1> DEFINE o == Order(DependencyEdges(its))
           m == Len(o)
           D == DOMAIN its
           S == Seq(IdsOf(its))
<1>1. m \in Nat /\ \A k \in 1..m : o[k] \in D
  <2>1. Greedy(DependencyEdges(its), o)
    BY OrderOfList
  <2>2. o \in Seq(DOMAIN its)
    BY <2>1, EdgesAreInside DEF Greedy
  <2> HIDE DEF o
  <2> QED
    BY <2>2
<1>2. PICK g \in [0..m -> [D -> S]] :
         /\ g[0] = [root \in D |-> <<>>] /\ Filled(its) = g[m]
         /\ \A k \in 1..m : g[k] = Placed(its, o[k], g[k - 1])
  BY FilledByTurns
<1> HIDE DEF o
<1> DEFINE Q == {k \in 0..m : \A r \in D : Threaded(its, o, k, r, g[k][r])}
<1>3. 0 \in Q
  <2> SUFFICES ASSUME NEW r \in D PROVE Threaded(its, o, 0, r, g[0][r])
    BY <1>1
  <2>1. g[0][r] = <<>>
    BY <1>2
  <2>2. Threads(its, o, 0, r, <<>>, <<>>)
    BY DEF Threads
  <2> QED
    BY <2>1, <2>2 DEF Threaded
<1>4. ASSUME NEW k \in 0..m, k < m, k \in Q PROVE k + 1 \in Q
  <2>1. k \in Nat /\ k + 1 \in 0..m /\ k + 1 \in 1..m /\ (k + 1) - 1 = k
    BY <1>1, <1>4
  <2> SUFFICES ASSUME NEW r \in D PROVE Threaded(its, o, k + 1, r, g[k + 1][r])
    BY <2>1
  <2> DEFINE f == g[k]
  <2>2. f \in [D -> S] /\ f[r] \in Seq(IdsOf(its)) /\ Threaded(its, o, k, r, f[r])
    BY <1>2, <1>4
  <2>3. g[k + 1] = Placed(its, o[k + 1], f)
    BY <1>2, <2>1
  <2>4. Root(its, o[k + 1]) \in D
    BY <1>1, <2>1, RootIsRoot
  <2> HIDE DEF f, S
  <2>5. CASE Root(its, o[k + 1]) = r
    <3>1. g[k + 1][r] = Append(f[r], its[o[k + 1]].id)
      BY <2>2, <2>3, <2>4, <2>5 DEF Placed
    <3> QED
      BY <2>1, <2>2, <2>5, <3>1, ThreadGoesOn
  <2>6. CASE Root(its, o[k + 1]) # r
    <3>1. g[k + 1][r] = f[r]
      BY <2>2, <2>3, <2>4, <2>6 DEF Placed
    <3> QED
      BY <2>1, <2>2, <2>6, <3>1, ThreadGoesOn
  <2> QED
    BY <2>5, <2>6
<1>5. \A k \in 0..m : k \in Q
  <2> HIDE DEF Q, m
  <2>1. \A k \in 0..m : k < m /\ k \in Q => k + 1 \in Q
    BY <1>4
  <2> QED
    BY <1>1, <1>3, <2>1, UpTo
<1>6. Filled(its) \in [D -> S] /\ \A r \in D : Threaded(its, o, m, r, Filled(its)[r])
  BY <1>1, <1>2, <1>5
<1> QED
  BY <1>6 DEF o

(* The edges inside one class, and an order of it with the ids of a lane.  *)
Inner(its, C) == [i \in C |-> DependencyEdges(its)[i]]

Lists(its, c, lane) == Len(lane) = Len(c) /\ \A x \in 1..Len(c) : lane[x] = its[c[x]].id

LEMMA LaneIsGreedy ==
    ASSUME NEW its, IsList(its), Plannable(its), NEW r \in DOMAIN its
    PROVE  \E c : /\ Greedy(Inner(its, Class(its, r)), c)
                  /\ ToSet(c) = Class(its, r)
                  /\ Lists(its, c, Filled(its)[r])
<1> DEFINE E == DependencyEdges(its)
           o == Order(E)
           m == Len(o)
           C == Class(its, r)
           lane == Filled(its)[r]
<1>1. Greedy(E, o) /\ ToSet(o) = DOMAIN its /\ DOMAIN E = DOMAIN its
  BY OrderOfList, EdgesAreInside
<1>2. PICK s : Threads(its, o, m, r, lane, s)
  BY FilledThreads DEF Threaded
<1>3. /\ \A i \in C : i \in DOMAIN its
      /\ \A i \in DOMAIN its : i \in C <=> Root(its, i) = r
  BY DEF Class
<1>4. ASSUME NEW i \in C, NEW j \in E[i] PROVE j \in C
  <2>1. i \in DOMAIN its /\ j \in DOMAIN its /\ its[j].id \in its[i].after
    BY <1>3, <1>4 DEF DependencyEdges
  <2>2. Root(its, j) = Root(its, i)
    BY <2>1, TiedTogether DEF Tied
  <2> QED
    BY <1>3, <2>1, <2>2
<1>5. Inner(its, C) = [i \in C |-> E[i]]
  BY DEF Inner
<1> HIDE DEF E, o, C, lane
<1>6. m \in Nat /\ DOMAIN o = 1..m /\ \A q \in 1..m : o[q] \in DOMAIN its
  BY <1>1 DEF Greedy
<1> DEFINE h == Len(s)
           c == [x \in 1..h |-> o[s[x]]]
<1>7. h \in Nat /\ \A x \in 1..h : s[x] \in 1..m
  BY <1>2 DEF Threads
<1>8. /\ c \in Seq(C) /\ Len(c) = h /\ DOMAIN c = 1..h
      /\ \A x \in 1..h : c[x] = o[s[x]] /\ c[x] \in C
  <2>1. \A x \in 1..h : o[s[x]] \in C
    BY <1>2, <1>3, <1>6, <1>7 DEF Threads
  <2> QED
    BY <1>7, <2>1
<1> HIDE DEF c
<1>9. \A i \in C : \E x \in 1..h : i = c[x]
  <2> SUFFICES ASSUME NEW i \in C PROVE \E x \in 1..h : i = c[x]
    OBVIOUS
  <2>1. PICK q \in 1..m : o[q] = i
    BY <1>1, <1>3, <1>6 DEF ToSet
  <2>2. Root(its, o[q]) = r
    BY <1>3, <2>1
  <2>3. PICK x \in 1..h : s[x] = q
    BY <1>2, <2>2 DEF Threads
  <2> QED
    BY <1>8, <2>1, <2>3
<1>10. ToSet(c) = C
  BY <1>8, <1>9 DEF ToSet
<1>11. ASSUME NEW x \in 1..h, NEW i \in C PROVE i \in Sooner(o, s[x]) <=> i \in Sooner(c, x)
  <2>1. ASSUME i \in Sooner(c, x) PROVE i \in Sooner(o, s[x])
    <3>1. PICK y \in 1..(x - 1) : i = c[y]
      BY <2>1 DEF Sooner
    <3>2. y \in 1..h /\ y < x
      BY <1>7
    <3>3. s[y] < s[x] /\ s[y] \in 1..m /\ s[x] \in 1..m /\ c[y] = o[s[y]]
      BY <1>2, <1>7, <1>8, <3>2 DEF Threads
    <3>4. s[y] \in 1..(s[x] - 1)
      BY <3>3
    <3> QED
      BY <3>1, <3>3, <3>4 DEF Sooner
  <2>2. ASSUME i \in Sooner(o, s[x]) PROVE i \in Sooner(c, x)
    <3>1. PICK q \in 1..(s[x] - 1) : i = o[q]
      BY <2>2 DEF Sooner
    <3>2. q \in 1..m /\ q < s[x] /\ s[x] \in 1..m
      BY <1>6, <1>7
    <3>3. Root(its, o[q]) = r
      BY <1>3, <3>1
    <3>4. PICK y \in 1..h : s[y] = q
      BY <1>2, <3>2, <3>3 DEF Threads
    <3>5. y < x
      <4>1. \/ x < y
            \/ x = y
            \/ y < x
        BY <1>7
      <4>2. ~(s[x] < s[y]) /\ x # y
        BY <3>2, <3>4
      <4>3. ~(x < y)
        BY <1>2, <4>2 DEF Threads
      <4> QED
        BY <4>1, <4>2, <4>3
    <3>6. y \in 1..(x - 1) /\ c[y] = i
      BY <1>7, <1>8, <3>1, <3>4, <3>5
    <3> QED
      BY <3>6 DEF Sooner
  <2> QED
    BY <2>1, <2>2
<1>12. ASSUME NEW x \in 1..h
       PROVE  /\ c[x] \notin Sooner(c, x) /\ E[c[x]] \subseteq Sooner(c, x)
              /\ \A i \in C : i \notin Sooner(c, x) /\ E[i] \subseteq Sooner(c, x) => c[x] <= i
  <2>1. /\ c[x] \notin Sooner(o, s[x]) /\ E[c[x]] \subseteq Sooner(o, s[x])
        /\ \A i \in DOMAIN its :
              i \notin Sooner(o, s[x]) /\ E[i] \subseteq Sooner(o, s[x]) => c[x] <= i
    BY <1>1, <1>6, <1>7, <1>8 DEF Greedy
  <2>2. c[x] \in C
    BY <1>8
  <2>3. ASSUME NEW i \in C PROVE E[i] \subseteq Sooner(o, s[x]) <=> E[i] \subseteq Sooner(c, x)
    BY <1>4, <1>11
  <2>4. \A i \in C : i \in Sooner(o, s[x]) <=> i \in Sooner(c, x)
    BY <1>11
  <2> QED
    BY <1>3, <2>1, <2>2, <2>3, <2>4
<1>13. Greedy(Inner(its, C), c)
  <2>1. DOMAIN Inner(its, C) = C /\ \A i \in C : Inner(its, C)[i] = E[i]
    BY <1>5
  <2> QED
    BY <1>8, <1>12, <2>1 DEF Greedy
<1>14. Lists(its, c, lane)
  BY <1>2, <1>8 DEF Lists, Threads
<1> QED
  BY <1>10, <1>13, <1>14 DEF C, lane

(* The roots of a plan: each class that has a lane, once, in order.        *)
Roots(its, roots) ==
    /\ roots \in Seq(DOMAIN its)
    /\ \A i \in DOMAIN its : Root(its, i) \in ToSet(roots)
    /\ \A l \in DOMAIN roots : Class(its, roots[l]) # {}
    /\ \A l, k \in DOMAIN roots : l < k => roots[l] < roots[k]

LEMMA RootsOnce ==
    ASSUME NEW its, IsList(its), NEW roots, Roots(its, roots),
           NEW l \in DOMAIN roots, NEW k \in DOMAIN roots, roots[l] = roots[k]
    PROVE  l = k
<1>1. l \in Nat /\ k \in Nat /\ roots[l] \in Nat /\ roots[k] \in Nat
  BY DEF Roots, IsList
<1>2. ~(l < k) /\ ~(k < l)
  BY <1>1 DEF Roots
<1> QED
  BY <1>1, <1>2

LEMMA PlanByRoots ==
    ASSUME NEW its, IsList(its), Plannable(its)
    PROVE  \E roots : /\ Roots(its, roots)
                      /\ PlanLanes(its) = [l \in DOMAIN roots |-> Filled(its)[roots[l]]]
<1> DEFINE T == {r \in DOMAIN its : Filled(its)[r] # <<>>}
           E == [i \in T |-> {}]
           o == Order(E)
<1>1. \A r \in DOMAIN its : r \in T <=> Class(its, r) # {}
  <2> SUFFICES ASSUME NEW r \in DOMAIN its PROVE r \in T <=> Class(its, r) # {}
    OBVIOUS
  <2>1. PICK c : /\ Greedy(Inner(its, Class(its, r)), c)
                 /\ ToSet(c) = Class(its, r)
                 /\ Lists(its, c, Filled(its)[r])
    BY LaneIsGreedy
  <2>2. c \in Seq(Class(its, r))
    BY <2>1 DEF Greedy, Inner
  <2>3. Filled(its)[r] \in Seq(IdsOf(its))
    BY FilledThreads
  <2>4. Class(its, r) = {} <=> Len(c) = 0
    BY <2>1, <2>2 DEF ToSet
  <2>5. Filled(its)[r] = <<>> <=> Len(Filled(its)[r]) = 0
    BY <2>3
  <2> QED
    BY <2>1, <2>4, <2>5 DEF Lists
<1>2. DOMAIN E = T /\ T \subseteq DOMAIN its /\ T \subseteq Nat /\ IsFiniteSet(T)
  BY ListIsFinite, FS_Subset
<1> HIDE DEF T
<1>3. Greedy(E, o) /\ (Len(o) = Cardinality(T) \/ Ready(E, o) = {})
  <2> HIDE DEF E
  <2> QED
    BY <1>2, OrderIsGreedy
<1>4. ToSet(o) = T
  <2>1. ToSet(o) \subseteq T /\ (Len(o) = Cardinality(T) <=> ToSet(o) = T)
    <3> HIDE DEF E, o
    <3> QED
      BY <1>2, <1>3, GreedyLength
  <2>2. Ready(E, o) = T \ ToSet(o)
    <3> HIDE DEF o
    <3> QED
      BY DEF Ready
  <2> QED
    BY <1>3, <2>1, <2>2
<1>5. PlanLanes(its) = [l \in DOMAIN o |-> Filled(its)[o[l]]]
  BY Zenon DEF PlanLanes, T
<1> HIDE DEF o
<1>6. o \in Seq(T)
  <2> HIDE DEF E
  <2> QED
    BY <1>2, <1>3 DEF Greedy
<1>7. ASSUME NEW l \in DOMAIN o, NEW k \in DOMAIN o, l < k PROVE o[l] < o[k]
  <2>1. l \in Nat /\ k \in Nat /\ o[l] \in T /\ o[k] \in T
    BY <1>6
  <2>2. \A i \in T : i \notin Sooner(o, l) => o[l] <= i
    <3>1. \A i \in DOMAIN E : i \notin Sooner(o, l) /\ E[i] \subseteq Sooner(o, l) => o[l] <= i
      BY <1>3 DEF Greedy
    <3> QED
      BY <3>1
  <2>3. o[k] \notin Sooner(o, k)
    BY <1>3 DEF Greedy
  <2>4. Sooner(o, l) \subseteq Sooner(o, k) /\ o[l] \in Sooner(o, k)
    <3>1. 1..(l - 1) \subseteq 1..(k - 1) /\ l \in 1..(k - 1)
      BY <1>6, <1>7, <2>1
    <3> QED
      BY <3>1 DEF Sooner
  <2>5. o[l] <= o[k] /\ o[l] # o[k]
    BY <2>1, <2>2, <2>3, <2>4
  <2> QED
    BY <1>2, <2>1, <2>5
<1>8. Roots(its, o)
  <2>1. o \in Seq(DOMAIN its) /\ \A l \in DOMAIN o : o[l] \in T
    BY <1>2, <1>6
  <2>2. \A i \in DOMAIN its : Root(its, i) \in T
    BY <1>1, RootIsRoot DEF Class
  <2>3. \A l \in DOMAIN o : Class(its, o[l]) # {}
    BY <1>1, <1>2, <2>1
  <2> QED
    BY <1>4, <1>7, <2>1, <2>2, <2>3 DEF Roots
<1> QED
  BY <1>5, <1>8

LEMMA LanesOfPlan ==
    ASSUME NEW its, IsList(its), Plannable(its)
    PROVE  \E roots :
              /\ Roots(its, roots) /\ DOMAIN PlanLanes(its) = DOMAIN roots
              /\ Len(PlanLanes(its)) = Len(roots)
              /\ PlanLanes(its) \in Seq(Seq(IdsOf(its)))
              /\ \A l \in DOMAIN roots :
                    /\ PlanLanes(its)[l] \in Seq(IdsOf(its))
                    /\ \E c : /\ Greedy(Inner(its, Class(its, roots[l])), c)
                              /\ ToSet(c) = Class(its, roots[l])
                              /\ Lists(its, c, PlanLanes(its)[l])
<1>1. PICK roots : /\ Roots(its, roots)
                   /\ PlanLanes(its) = [l \in DOMAIN roots |-> Filled(its)[roots[l]]]
  BY PlanByRoots
<1>2. roots \in Seq(DOMAIN its) /\ \A l \in DOMAIN roots : roots[l] \in DOMAIN its
  BY <1>1 DEF Roots
<1>3. /\ DOMAIN PlanLanes(its) = DOMAIN roots
      /\ \A l \in DOMAIN roots : PlanLanes(its)[l] = Filled(its)[roots[l]]
  BY <1>1
<1>4. Len(PlanLanes(its)) = Len(roots)
  BY <1>1, <1>2
<1>5. \A l \in DOMAIN roots : Filled(its)[roots[l]] \in Seq(IdsOf(its))
  BY <1>2, FilledThreads
<1>6. ASSUME NEW l \in DOMAIN roots
      PROVE  \E c : /\ Greedy(Inner(its, Class(its, roots[l])), c)
                    /\ ToSet(c) = Class(its, roots[l])
                    /\ Lists(its, c, PlanLanes(its)[l])
  BY <1>2, <1>3, LaneIsGreedy
<1>7. PlanLanes(its) \in Seq(Seq(IdsOf(its)))
  <2> DEFINE S == Seq(IdsOf(its))
             L == [l \in DOMAIN roots |-> Filled(its)[roots[l]]]
  <2>1. DOMAIN roots = 1..Len(roots) /\ Len(roots) \in Nat
    BY <1>2
  <2>2. \A l \in 1..Len(roots) : Filled(its)[roots[l]] \in S
    BY <1>5, <2>1
  <2> HIDE DEF S
  <2>3. L \in Seq(S)
    BY <2>1, <2>2
  <2> QED
    BY <1>1, <2>3 DEF S
<1> QED
  BY <1>1, <1>3, <1>4, <1>5, <1>6, <1>7

-----------------------------------------------------------------------------
(* The planner's promises, over every list MCLanePlan declares.            *)

(* What MCLanePlan's behaviours declare: position i has the id i.          *)
Declared ==
    /\ items \in Seq([id : Nat, key : Keys \cup {NoResource}, after : SUBSET Ids])
    /\ \A i \in Positions : items[i].id = i

LEMMA DeclaredIsKept == Declarations => []Declared
<1>1. NothingDeclared => Declared
  BY DEF NothingDeclared, Declared, Positions
<1>2. Declared /\ [Declare]_items => Declared'
  <2> SUFFICES ASSUME Declared, [Declare]_items PROVE Declared'
    OBVIOUS
  <2>1. CASE Declare
    <3>1. PICK key \in Keys \cup {NoResource}, after \in SUBSET (Ids \ {Len(items) + 1}) :
             items' = Append(items, [id |-> Len(items) + 1, key |-> key, after |-> after])
      BY <2>1 DEF Declare
    <3> DEFINE new == [id |-> Len(items) + 1, key |-> key, after |-> after]
               S == [id : Nat, key : Keys \cup {NoResource}, after : SUBSET Ids]
    <3>2. items \in Seq(S) /\ Len(items) \in Nat /\ DOMAIN items = 1..Len(items)
      BY DEF Declared
    <3>3. new \in S /\ new.id = Len(items) + 1
      BY <3>2
    <3>6. items' = Append(items, new)
      BY <3>1
    <3> HIDE DEF new, S
    <3>4. /\ items' \in Seq(S) /\ DOMAIN items' = 1..(Len(items) + 1)
          /\ \A i \in 1..Len(items) : items'[i] = items[i]
          /\ items'[Len(items) + 1] = new
      <4>1. Append(items, new) \in Seq(S)
        BY <3>2, <3>3
      <4>2. DOMAIN Append(items, new) = 1..(Len(items) + 1)
        BY <3>2, <3>3
      <4>3. \A i \in 1..Len(items) : Append(items, new)[i] = items[i]
        BY <3>2, <3>3
      <4>4. Append(items, new)[Len(items) + 1] = new
        BY <3>2, <3>3
      <4> QED
        BY <3>6, <4>1, <4>2, <4>3, <4>4
    <3>5. ASSUME NEW i \in 1..(Len(items) + 1) PROVE items'[i].id = i
      <4>1. CASE i \in 1..Len(items)
        BY <3>2, <3>4, <4>1 DEF Declared, Positions
      <4>2. CASE i = Len(items) + 1
        BY <3>3, <3>4, <4>2
      <4> QED
        BY <3>2, <4>1, <4>2
    <3> QED
      BY <3>4, <3>5 DEF Declared, Positions, S
  <2>2. CASE UNCHANGED items
    BY <2>2 DEF Declared, Positions
  <2> QED
    BY <2>1, <2>2
<1> QED
  BY <1>1, <1>2, PTL DEF Declarations

LEMMA DeclaredIsList ==
    ASSUME Declared
    PROVE  /\ IsList(items) /\ Positions = DOMAIN items
           /\ \A i \in Positions : items[i].id = i /\ PosOf(i) = i
<1>1. IsList(items) /\ Positions = DOMAIN items
  BY DEF Declared, IsList, Positions
<1>2. ASSUME NEW i \in Positions PROVE PosOf(i) = i
  <2>1. i \in Positions /\ items[i].id = i /\ \A j \in Positions : items[j].id = i => j = i
    BY DEF Declared
  <2> QED
    BY <2>1 DEF PosOf
<1> QED
  BY <1>1, <1>2 DEF Declared

LEMMA SequencesOfSet ==
    ASSUME NEW S, IsFiniteSet(S), NEW s \in SetToSeqs(S)
    PROVE  /\ s \in Seq(S) /\ Len(s) = Cardinality(S) /\ DOMAIN s = 1..Cardinality(S)
           /\ Cardinality(S) \in Nat /\ ToSet(s) = S
           /\ \A i, j \in DOMAIN s : s[i] = s[j] => i = j
<1> DEFINE n == Cardinality(S)
<1>1. n \in Nat
  BY FS_CardinalityType
<1>2. s \in [1..n -> S] /\ \A i, j \in 1..n : i # j => s[i] # s[j]
  BY DEF SetToSeqs
<1>3. s \in Injection(1..n, S)
  BY <1>2 DEF Injection, IsInjective
<1>4. IsFiniteSet(1..n) /\ Cardinality(1..n) = n
  <2>1. IsFiniteSet(1..n) /\ Cardinality(1..n) = IF 1 > n THEN 0 ELSE n - 1 + 1
    <3>1. 1 \in Int /\ n \in Int
      BY <1>1
    <3> QED
      BY <3>1, FS_Interval, Zenon
  <2> QED
    BY <1>1, <2>1
<1>5. s \in Surjection(1..n, S)
  BY <1>3, <1>4, FS_Injection
<1> HIDE DEF n
<1>6. ToSet(s) = S
  BY <1>2, <1>5 DEF Surjection, ToSet
<1>7. s \in Seq(S) /\ Len(s) = n
  BY <1>1, <1>2
<1> QED
  BY <1>1, <1>2, <1>6, <1>7 DEF n

\* A list is refused exactly when it holds a cycle, and no request over a
\* registry that validated is refused, for lists of any length.
THEOREM RefusalsAreCycles == Declarations => []CyclesAreRefused
<1>1. ASSUME Declared PROVE CyclesAreRefused
  <2>1. IsList(items) /\ Positions = DOMAIN items
    BY <1>1, DeclaredIsList
  <2>2. RefusedExactlyOnCycle
    <3>1. \A C \in SUBSET Positions : IsKnot(C) <=> Knot(items, C)
      BY <2>1 DEF IsKnot, Knot
    <3> QED
      BY <2>1, <3>1, KnotsAreRefused DEF RefusedExactlyOnCycle
  <2>3. AcceptedDeclarationsPlan
    <3> SUFFICES ASSUME ValidDeclarations(items), NEW S \in SUBSET Positions,
                        NEW r \in SetToSeqs(S)
                 PROVE  Plannable([k \in DOMAIN r |-> items[r[k]]])
      BY Zenon DEF AcceptedDeclarationsPlan
    <3>1. IsFiniteSet(S)
      BY <2>1, ListIsFinite, FS_Subset
    <3>2. IsList(r) /\ \A k \in DOMAIN r : r[k] \in DOMAIN items
      <4>1. r \in Seq(S) /\ DOMAIN r = 1..Cardinality(S) /\ Len(r) = Cardinality(S)
            /\ Cardinality(S) \in Nat
        BY <3>1, SequencesOfSet
      <4> QED
        BY <2>1, <4>1 DEF IsList
    <3>3. Plannable(items)
      BY DEF ValidDeclarations
    <3> QED
      BY <2>1, <3>2, <3>3, PartsPlan
  <2> QED
    BY <2>2, <2>3 DEF CyclesAreRefused
<1> QED
  BY <1>1, DeclaredIsKept, PTL

LEMMA DeclaredLanes ==
    ASSUME Declared, Plannable(items)
    PROVE  \E roots :
              /\ Roots(items, roots) /\ DOMAIN PlanLanes(items) = DOMAIN roots
              /\ Len(PlanLanes(items)) = Len(roots)
              /\ \A l \in DOMAIN roots :
                    /\ Greedy(Inner(items, Class(items, roots[l])), PlanLanes(items)[l])
                    /\ ToSet(PlanLanes(items)[l]) = Class(items, roots[l])
<1>1. IsList(items) /\ \A i \in DOMAIN items : items[i].id = i
  BY DeclaredIsList
<1>2. PICK roots :
         /\ Roots(items, roots) /\ DOMAIN PlanLanes(items) = DOMAIN roots
         /\ Len(PlanLanes(items)) = Len(roots)
         /\ \A l \in DOMAIN roots :
               /\ PlanLanes(items)[l] \in Seq(IdsOf(items))
               /\ \E c : /\ Greedy(Inner(items, Class(items, roots[l])), c)
                         /\ ToSet(c) = Class(items, roots[l])
                         /\ Lists(items, c, PlanLanes(items)[l])
  BY <1>1, LanesOfPlan
<1>3. ASSUME NEW l \in DOMAIN roots
      PROVE  /\ Greedy(Inner(items, Class(items, roots[l])), PlanLanes(items)[l])
             /\ ToSet(PlanLanes(items)[l]) = Class(items, roots[l])
  <2> DEFINE lane == PlanLanes(items)[l]
             C == Class(items, roots[l])
  <2>1. PICK c : Greedy(Inner(items, C), c) /\ ToSet(c) = C /\ Lists(items, c, lane)
    BY <1>2
  <2>2. c \in Seq(C) /\ lane \in Seq(IdsOf(items))
    BY <1>2, <2>1 DEF Greedy, Inner
  <2>3. C \subseteq DOMAIN items
    BY DEF Class
  <2> HIDE DEF lane, C
  <2>4. Len(c) \in Nat /\ DOMAIN c = 1..Len(c) /\ \A x \in 1..Len(c) : c[x] \in DOMAIN items
    BY <2>2, <2>3
  <2>5. DOMAIN lane = DOMAIN c /\ \A x \in DOMAIN c : lane[x] = c[x]
    BY <1>1, <2>1, <2>2, <2>4 DEF Lists
  <2>6. lane = c
    BY <2>2, <2>5
  <2> QED
    BY <2>1, <2>6 DEF lane, C
<1> QED
  BY <1>2, <1>3

LEMMA DeclaredParts ==
    ASSUME Declared
    PROVE  /\ \A C \in SUBSET Positions : IsComponent(C) <=> Part(items, C)
           /\ \A C \in SUBSET Positions : {items[j].id : j \in C} = C
<1>1. Positions = DOMAIN items /\ \A i \in Positions : items[i].id = i
  BY DeclaredIsList
<1>2. \A i, j : Linked(i, j) <=> Tied(items, i, j)
  BY DEF Linked, Tied
<1>3. \A C : Closed(C) <=> Shut(items, C)
  BY <1>1, <1>2 DEF Closed, Shut
<1>4. \A C \in SUBSET Positions : IsComponent(C) <=> Part(items, C)
  BY <1>3 DEF IsComponent, Part
<1> QED
  BY <1>1, <1>4

LEMMA DeclaredLanesAreComponents ==
    ASSUME Declared PROVE LanesAreComponents
<1> SUFFICES ASSUME Plannable(items)
             PROVE  LET lanes == PlanLanes(items)
                    IN  /\ {ToSet(lanes[l]) : l \in DOMAIN lanes}
                             = {{items[j].id : j \in C} :
                                    C \in {D \in SUBSET Positions : IsComponent(D)}}
                        /\ \A l \in DOMAIN lanes : Len(lanes[l]) = Cardinality(ToSet(lanes[l]))
                        /\ Len(lanes) = Cardinality({ToSet(lanes[l]) : l \in DOMAIN lanes})
  BY Zenon DEF LanesAreComponents
<1> DEFINE lanes == PlanLanes(items)
           Sets == {ToSet(lanes[l]) : l \in DOMAIN lanes}
<1>1. IsList(items) /\ Positions = DOMAIN items
  BY DeclaredIsList
<1>2. PICK roots :
         /\ Roots(items, roots) /\ DOMAIN lanes = DOMAIN roots /\ Len(lanes) = Len(roots)
         /\ \A l \in DOMAIN roots :
               /\ Greedy(Inner(items, Class(items, roots[l])), lanes[l])
               /\ ToSet(lanes[l]) = Class(items, roots[l])
  BY DeclaredLanes
<1> HIDE DEF lanes
<1>3. \A l \in DOMAIN roots : Class(items, roots[l]) # {} /\ Class(items, roots[l]) \subseteq Positions
  BY <1>1, <1>2 DEF Roots, Class
<1>4. Sets = {{items[j].id : j \in C} : C \in {D \in SUBSET Positions : IsComponent(D)}}
  <2>1. ASSUME NEW l \in DOMAIN roots
        PROVE  /\ ToSet(lanes[l]) \in SUBSET Positions /\ IsComponent(ToSet(lanes[l]))
               /\ ToSet(lanes[l]) = {items[j].id : j \in ToSet(lanes[l])}
    <3>1. Part(items, Class(items, roots[l]))
      BY <1>1, <1>3, ClassesAreParts
    <3> QED
      BY <1>2, <1>3, <3>1, DeclaredParts
  <2>2. ASSUME NEW C \in SUBSET Positions, IsComponent(C)
        PROVE  \E l \in DOMAIN roots : ToSet(lanes[l]) = {items[j].id : j \in C}
    <3>1. PICK i \in C : C = Class(items, Root(items, i))
      BY <1>1, <2>2, DeclaredParts, PartsAreClasses
    <3>2. PICK l \in DOMAIN roots : roots[l] = Root(items, i)
      BY <1>1, <1>2, <3>1 DEF Roots, ToSet
    <3> QED
      BY <1>2, <3>1, <3>2, DeclaredParts
  <2> DEFINE IdsIn(C) == {items[j].id : j \in C}
             Comps == {D \in SUBSET Positions : IsComponent(D)}
  <2>3. ASSUME NEW l \in DOMAIN lanes
        PROVE  \E C \in Comps : ToSet(lanes[l]) = IdsIn(C)
    BY <1>2, <2>1
  <2>4. ASSUME NEW C \in Comps PROVE \E l \in DOMAIN lanes : ToSet(lanes[l]) = IdsIn(C)
    BY <1>2, <2>2
  <2>5. Sets = {IdsIn(C) : C \in Comps}
    <3> HIDE DEF Comps, IdsIn
    <3> QED
      BY <2>3, <2>4
  <2> QED
    BY <2>5
<1>5. ASSUME NEW l \in DOMAIN lanes PROVE Len(lanes[l]) = Cardinality(ToSet(lanes[l]))
  <2> DEFINE E == Inner(items, Class(items, roots[l]))
  <2>1. DOMAIN E \subseteq DOMAIN items
    BY DEF Inner, Class
  <2>2. IsFiniteSet(DOMAIN E) /\ Greedy(E, lanes[l])
    BY <1>1, <1>2, <1>5, <2>1, ListIsFinite, FS_Subset
  <2> QED
    BY <2>2, GreedyLength
<1>6. Len(lanes) = Cardinality(Sets)
  <2> DEFINE n == Len(lanes)
             f == [l \in 1..n |-> ToSet(lanes[l])]
  <2>1. n \in Nat /\ DOMAIN lanes = 1..n
    BY <1>2 DEF Roots
  <2>2. \A l, k \in 1..n : f[l] = f[k] => l = k
    <3> SUFFICES ASSUME NEW l \in 1..n, NEW k \in 1..n, f[l] = f[k] PROVE l = k
      OBVIOUS
    <3>1. Class(items, roots[l]) = Class(items, roots[k])
      BY <1>2, <2>1
    <3>2. roots[l] = roots[k]
      BY <1>2, <1>3, <2>1, <3>1 DEF Class
    <3> QED
      BY <1>1, <1>2, <2>1, <3>2, RootsOnce
  <2>3. f \in Bijection(1..n, Sets)
    <3> HIDE DEF n
    <3> QED
      BY <2>1, <2>2 DEF Bijection, Injection, Surjection, IsInjective
  <2>4. IsFiniteSet(1..n) /\ Cardinality(1..n) = n
    <3>1. IsFiniteSet(1..n) /\ Cardinality(1..n) = IF 1 > n THEN 0 ELSE n - 1 + 1
      <4>1. 1 \in Int /\ n \in Int
        BY <2>1
      <4> QED
        BY <4>1, FS_Interval, Zenon
    <3> QED
      BY <2>1, <3>1
  <2> HIDE DEF f, n, Sets
  <2> QED
    BY <2>3, <2>4, FS_Bijection DEF ExistsBijection, n
<1> QED
  BY <1>4, <1>5, <1>6 DEF lanes

LEMMA RootIsFirst ==
    ASSUME NEW its, IsList(its), NEW i \in DOMAIN its PROVE Root(its, i) <= i
<1>1. Tree(Components(its), Len(its)) /\ Len(its) \in Nat /\ DOMAIN its = 1..Len(its)
  BY ComponentsTie DEF IsList
<1>2. PICK u : Climbs(Components(its), Len(its), i, u) /\ Root(its, i) = u[Len(its)]
  BY <1>1, FindClimbs DEF Root
<1> DEFINE Q == {x \in DOMAIN its : x <= i}
<1>3. i \in Q /\ \A x \in 1..Len(its) : x \in Q => Components(its)[x] \in Q
  BY <1>1 DEF Tree
<1>4. u[Len(its)] \in Q
  <2> HIDE DEF Q
  <2> QED
    BY <1>1, <1>2, <1>3, ClimbStays
<1> QED
  BY <1>2, <1>4

LEMMA DeclaredLanesStandByFirst ==
    ASSUME Declared PROVE LanesStandByFirst
<1> SUFFICES ASSUME Plannable(items),
                    NEW l \in DOMAIN PlanLanes(items), NEW m \in DOMAIN PlanLanes(items), l < m
             PROVE  \E i \in ToSet(PlanLanes(items)[l]) :
                       \A j \in ToSet(PlanLanes(items)[m]) : PosOf(i) < PosOf(j)
  BY Zenon DEF LanesStandByFirst
<1>1. /\ IsList(items) /\ Positions = DOMAIN items /\ DOMAIN items \subseteq Nat
      /\ \A i \in Positions : PosOf(i) = i
  BY DeclaredIsList, ListIsFinite
<1>2. PICK roots :
         /\ Roots(items, roots) /\ DOMAIN PlanLanes(items) = DOMAIN roots
         /\ \A k \in DOMAIN roots : ToSet(PlanLanes(items)[k]) = Class(items, roots[k])
  BY DeclaredLanes
<1>3. roots[l] < roots[m] /\ Class(items, roots[l]) # {}
  BY <1>2 DEF Roots
<1>4. roots[l] \in Class(items, roots[l]) /\ roots[l] \in DOMAIN items
  BY <1>1, <1>3, RootIsRoot DEF Class
<1>5. ASSUME NEW j \in Class(items, roots[m]) PROVE roots[l] < j
  <2>1. j \in DOMAIN items /\ Root(items, j) = roots[m]
    BY DEF Class
  <2>2. roots[m] <= j /\ roots[m] \in DOMAIN items
    BY <1>1, <2>1, RootIsFirst, RootIsRoot
  <2> QED
    BY <1>1, <1>3, <1>4, <2>1, <2>2
<1>6. \A j \in Class(items, roots[m]) : j \in Positions
  BY <1>1 DEF Class
<1> QED
  BY <1>1, <1>2, <1>4, <1>5, <1>6

LEMMA DeclaredLanesKeepOrder ==
    ASSUME Declared PROVE LanesKeepOrder
<1> SUFFICES ASSUME Plannable(items), NEW lane \in ToSet(PlanLanes(items))
             PROVE  /\ Respects(lane)
                    /\ \A other \in SetToSeqs(ToSet(lane)) :
                          Respects(other) => ~Earlier(other, lane)
  BY Zenon DEF LanesKeepOrder
<1>1. /\ IsList(items) /\ Positions = DOMAIN items /\ DOMAIN items \subseteq Nat
      /\ \A i \in Positions : items[i].id = i /\ PosOf(i) = i
  BY DeclaredIsList, ListIsFinite
<1>2. PICK r : /\ Greedy(Inner(items, Class(items, r)), lane)
               /\ ToSet(lane) = Class(items, r)
  <2>1. PICK roots :
           /\ DOMAIN PlanLanes(items) = DOMAIN roots
           /\ \A l \in DOMAIN roots :
                 /\ Greedy(Inner(items, Class(items, roots[l])), PlanLanes(items)[l])
                 /\ ToSet(PlanLanes(items)[l]) = Class(items, roots[l])
    BY DeclaredLanes
  <2>2. PICK l \in DOMAIN roots : PlanLanes(items)[l] = lane
    BY <2>1 DEF ToSet
  <2> QED
    BY <2>1, <2>2
<1> DEFINE C == Class(items, r)
           E == Inner(items, C)
<1>3. /\ C \subseteq Positions /\ DOMAIN E = C /\ IsFiniteSet(C)
      /\ \A i \in C : E[i] = {j \in Positions : j \in items[i].after}
  <2>1. C \subseteq Positions
    BY <1>1 DEF Class
  <2>2. IsFiniteSet(C)
    BY <1>1, <2>1, ListIsFinite, FS_Subset
  <2> HIDE DEF C
  <2> QED
    BY <1>1, <2>1, <2>2 DEF Inner, DependencyEdges
<1>4. \A i \in C : \A j \in E[i] : j \in C
  <2> SUFFICES ASSUME NEW i \in C, NEW j \in E[i] PROVE j \in C
    OBVIOUS
  <2>1. i \in DOMAIN items /\ j \in DOMAIN items /\ items[j].id \in items[i].after
    BY <1>1, <1>3
  <2>2. Root(items, j) = Root(items, i)
    BY <1>1, <2>1, TiedTogether DEF Tied
  <2> QED
    BY <2>1, <2>2 DEF Class
<1> HIDE DEF C, E
<1>5. /\ lane \in Seq(C) /\ Len(lane) \in Nat /\ DOMAIN lane = 1..Len(lane)
      /\ Cardinality(C) = Len(lane)
      /\ \A i \in DOMAIN lane : lane[i] \in C
  <2>1. Greedy(E, lane) /\ ToSet(lane) = C
    BY <1>2 DEF C, E
  <2>2. lane \in Seq(C)
    BY <1>3, <2>1 DEF Greedy
  <2> QED
    BY <1>3, <2>1, <2>2, GreedyLength
<1>6. ASSUME NEW p \in DOMAIN lane
      PROVE  /\ lane[p] \notin Sooner(lane, p) /\ E[lane[p]] \subseteq Sooner(lane, p)
             /\ \A i \in C : i \notin Sooner(lane, p) /\ E[i] \subseteq Sooner(lane, p) => lane[p] <= i
  BY <1>2, <1>3 DEF Greedy, C, E
<1>7. ASSUME NEW i \in DOMAIN lane, NEW j \in DOMAIN lane,
             lane[j] \in items[PosOf(lane[i])].after
      PROVE  j < i
  <2>1. lane[i] \in C /\ lane[j] \in C /\ PosOf(lane[i]) = lane[i] /\ lane[j] \in Positions
    BY <1>1, <1>3, <1>5
  <2>2. lane[j] \in E[lane[i]]
    BY <1>3, <1>7, <2>1
  <2>3. PICK q \in 1..(i - 1) : lane[q] = lane[j]
    BY <1>6, <2>2 DEF Sooner
  <2>4. q \in DOMAIN lane
    BY <1>5
  <2>5. q = j
    <3>1. Greedy(E, lane)
      BY <1>2 DEF C, E
    <3> QED
      BY <2>3, <2>4, <3>1, GreedyInjective
  <2> QED
    BY <1>5, <2>3, <2>5
<1>8. ASSUME NEW other \in SetToSeqs(ToSet(lane)), Respects(other), Earlier(other, lane)
      PROVE  FALSE
  <2>1. PICK k \in DOMAIN other :
           PosOf(other[k]) < PosOf(lane[k]) /\ \A m \in 1..(k - 1) : other[m] = lane[m]
    BY <1>8 DEF Earlier
  <2>2. /\ other \in Seq(C) /\ DOMAIN other = DOMAIN lane /\ ToSet(other) = C
        /\ \A i, j \in DOMAIN other : other[i] = other[j] => i = j
    <3>1. ToSet(lane) = C
      BY <1>2 DEF C
    <3> QED
      BY <1>3, <1>5, <3>1, SequencesOfSet
  <2>3. k \in DOMAIN lane /\ k \in Nat /\ other[k] \in C /\ lane[k] \in C
    BY <1>5, <2>1, <2>2
  <2>4. other[k] < lane[k]
    BY <1>1, <1>3, <2>1, <2>3
  <2>5. Sooner(lane, k) = Sooner(other, k)
    BY <2>1 DEF Sooner
  <2>6. other[k] \notin Sooner(other, k)
    <3>1. \A q \in 1..(k - 1) : q \in DOMAIN other /\ q # k
      BY <1>5, <2>2, <2>3
    <3> QED
      BY <2>1, <2>2, <3>1 DEF Sooner
  <2>7. E[other[k]] \subseteq Sooner(other, k)
    <3> SUFFICES ASSUME NEW j \in E[other[k]] PROVE j \in Sooner(other, k)
      OBVIOUS
    <3>1. j \in C /\ j \in items[other[k]].after
      BY <1>3, <1>4, <2>3
    <3>2. PICK q \in DOMAIN other : other[q] = j
      BY <2>2, <3>1 DEF ToSet
    <3>3. PosOf(other[k]) = other[k]
      BY <1>1, <1>3, <2>3
    <3>4. q < k
      BY <1>8, <2>1, <3>1, <3>2, <3>3 DEF Respects
    <3>5. q \in 1..(k - 1)
      BY <1>5, <2>2, <2>3, <3>2, <3>4
    <3> QED
      BY <3>2, <3>5 DEF Sooner
  <2>8. lane[k] <= other[k]
    BY <1>6, <2>3, <2>5, <2>6, <2>7
  <2>9. lane[k] \in Nat /\ other[k] \in Nat
    BY <1>1, <1>3, <2>3
  <2> QED
    BY <2>4, <2>8, <2>9
<1> QED
  BY <1>7, <1>8 DEF Respects

\* The lanes of every request, of any length: they are what hangs together, and
\* in each one the dependencies go first and the client's order decides the rest.
THEOREM LanesAreRight == Declarations => []LanesAreOrderedComponents
<1>1. Declared => LanesAreOrderedComponents
  BY DeclaredLanesAreComponents, DeclaredLanesStandByFirst, DeclaredLanesKeepOrder
     DEF LanesAreOrderedComponents
<1> QED
  BY <1>1, DeclaredIsKept, PTL

-----------------------------------------------------------------------------
(* The planner and the stream.                                             *)

(* Where the positions of a list stand in its plan: c[l][x] is the one at  *)
(* the x-th place of lane l.                                               *)
Standing(its, lanes, c) ==
    /\ lanes \in Seq(Seq(IdsOf(its)))
    /\ \A l \in DOMAIN lanes :
         /\ lanes[l] \in Seq(IdsOf(its))
         /\ \A x \in DOMAIN lanes[l] : c[l][x] \in DOMAIN its /\ lanes[l][x] = its[c[l][x]].id
         /\ \A x, y \in DOMAIN lanes[l] : c[l][x] = c[l][y] => x = y
         /\ \A x \in DOMAIN lanes[l] : \A j \in DependencyEdges(its)[c[l][x]] :
               \E y \in DOMAIN lanes[l] : y < x /\ c[l][y] = j
    /\ \A l, m \in DOMAIN lanes : \A x \in DOMAIN lanes[l], y \in DOMAIN lanes[m] :
          Root(its, c[l][x]) = Root(its, c[m][y]) => l = m

LEMMA PlanStands ==
    ASSUME NEW its, IsList(its), Plannable(its)
    PROVE  \E c : Standing(its, PlanLanes(its), c)
<1> DEFINE lanes == PlanLanes(its)
           Good(r, lane, c) == /\ Greedy(Inner(its, Class(its, r)), c)
                               /\ ToSet(c) = Class(its, r)
                               /\ Lists(its, c, lane)
<1>1. PICK roots :
         /\ Roots(its, roots) /\ DOMAIN lanes = DOMAIN roots
         /\ lanes \in Seq(Seq(IdsOf(its)))
         /\ \A l \in DOMAIN roots :
               lanes[l] \in Seq(IdsOf(its)) /\ \E c : Good(roots[l], lanes[l], c)
  BY LanesOfPlan
<1> HIDE DEF lanes
<1> DEFINE c == [l \in DOMAIN lanes |-> CHOOSE d : Good(roots[l], lanes[l], d)]
<1>2. \A l \in DOMAIN lanes : Good(roots[l], lanes[l], c[l])
  <2> HIDE DEF Good
  <2> QED
    BY <1>1
<1> HIDE DEF c
<1>3. \A l, k \in DOMAIN roots : roots[l] = roots[k] => l = k
  BY <1>1, RootsOnce
<1>5. ASSUME NEW l \in DOMAIN lanes
      PROVE  /\ lanes[l] \in Seq(IdsOf(its)) /\ Len(c[l]) \in Nat
             /\ DOMAIN lanes[l] = 1..Len(c[l]) /\ DOMAIN c[l] = 1..Len(c[l])
             /\ \A x \in DOMAIN lanes[l] : /\ c[l][x] \in DOMAIN its
                                           /\ Root(its, c[l][x]) = roots[l]
                                           /\ lanes[l][x] = its[c[l][x]].id
  <2>1. lanes[l] \in Seq(IdsOf(its)) /\ Good(roots[l], lanes[l], c[l])
    BY <1>1, <1>2
  <2>2. c[l] \in Seq(Class(its, roots[l])) /\ Len(lanes[l]) = Len(c[l])
    BY <2>1 DEF Greedy, Inner, Lists
  <2>3. /\ Len(c[l]) \in Nat /\ DOMAIN c[l] = 1..Len(c[l])
        /\ \A x \in 1..Len(c[l]) : c[l][x] \in Class(its, roots[l])
    BY <2>2
  <2>4. DOMAIN lanes[l] = 1..Len(c[l])
    BY <2>1, <2>2
  <2>5. \A x \in 1..Len(c[l]) : lanes[l][x] = its[c[l][x]].id
    BY <2>1 DEF Lists
  <2>6. \A i \in Class(its, roots[l]) : i \in DOMAIN its /\ Root(its, i) = roots[l]
    BY DEF Class
  <2> QED
    BY <2>1, <2>3, <2>4, <2>5, <2>6
<1>6. ASSUME NEW l \in DOMAIN lanes, NEW x \in DOMAIN lanes[l], NEW y \in DOMAIN lanes[l],
             c[l][x] = c[l][y]
      PROVE  x = y
  BY <1>2, <1>5, <1>6, GreedyInjective
<1>7. ASSUME NEW l \in DOMAIN lanes, NEW x \in DOMAIN lanes[l],
             NEW j \in DependencyEdges(its)[c[l][x]]
      PROVE  \E y \in DOMAIN lanes[l] : y < x /\ c[l][y] = j
  <2>1. x \in DOMAIN c[l] /\ x \in 1..Len(c[l]) /\ Len(c[l]) \in Nat
    BY <1>5
  <2>2. Greedy(Inner(its, Class(its, roots[l])), c[l])
    BY <1>2
  <2>3. c[l][x] \in Class(its, roots[l])
    BY <1>5 DEF Class
  <2>4. Inner(its, Class(its, roots[l]))[c[l][x]] \subseteq Sooner(c[l], x)
    BY <2>1, <2>2 DEF Greedy
  <2>5. j \in Sooner(c[l], x)
    BY <1>7, <2>3, <2>4 DEF Inner
  <2>6. PICK y \in 1..(x - 1) : c[l][y] = j
    BY <2>5 DEF Sooner
  <2>7. y \in 1..Len(c[l]) /\ y < x
    BY <2>1
  <2> QED
    BY <1>5, <2>6, <2>7
<1>8. \A l, m \in DOMAIN lanes : \A x \in DOMAIN lanes[l], y \in DOMAIN lanes[m] :
         Root(its, c[l][x]) = Root(its, c[m][y]) => l = m
  BY <1>1, <1>3, <1>5
<1>9. Standing(its, lanes, c)
  BY <1>1, <1>5, <1>6, <1>7, <1>8 DEF Standing
<1> QED
  BY <1>9 DEF lanes

(* The list of a request: settings of the registry, each once.             *)
IsRequest(its) ==
    /\ IsList(its)
    /\ \A i \in DOMAIN its : /\ its[i].id \in Settings /\ its[i].key = Key[its[i].id]
                             /\ its[i].after = After[its[i].id]
    /\ \A i, j \in DOMAIN its : its[i].id = its[j].id => i = j

LEMMA PlannedIsPlan ==
    ASSUME NoResource = NoKey, NEW its, IsRequest(its), Plannable(its),
           NEW missing \in SUBSET Settings, \A i \in DOMAIN its : its[i].id \notin missing
    PROVE  IsPlan([unknown |-> missing, lanes |-> PlanLanes(its)])
<1> DEFINE p == [unknown |-> missing, lanes |-> PlanLanes(its)]
           L == PlanLanes(its)
<1>1. PICK c : Standing(its, L, c)
  BY PlanStands DEF IsRequest
<1>2. p.unknown = missing /\ p.lanes = L
  OBVIOUS
<1> HIDE DEF p, L
<1>3. L \in Seq(Seq(Settings \ missing))
  <2>1. IdsOf(its) \subseteq Settings \ missing
    BY DEF IdsOf, IsRequest
  <2>2. L \in Seq(Seq(IdsOf(its)))
    BY <1>1 DEF Standing
  <2>3. Seq(IdsOf(its)) \subseteq Seq(Settings \ missing)
    BY <2>1
  <2> DEFINE S == Seq(IdsOf(its))
             T == Seq(Settings \ missing)
  <2>4. L \in Seq(S) /\ S \subseteq T
    BY <2>2, <2>3
  <2>5. L \in Seq(T)
    <3> HIDE DEF S, T
    <3> QED
      BY <2>4
  <2> QED
    BY <2>5
(* Where a setting stands is one place.                                    *)
<1>4. ASSUME NEW l \in DOMAIN L, NEW m \in DOMAIN L,
             NEW x \in DOMAIN L[l], NEW y \in DOMAIN L[m], L[l][x] = L[m][y]
      PROVE  l = m /\ x = y
  <2>1. c[l][x] = c[m][y]
    BY <1>1, <1>4 DEF Standing, IsRequest
  <2>2. l = m
    BY <1>1, <2>1 DEF Standing
  <2> QED
    BY <1>1, <2>1, <2>2 DEF Standing
<1>5. ASSUME NEW l \in DOMAIN L, NEW x \in DOMAIN L[l] PROVE x \in Nat /\ L[l][x] \in InLanes(p)
  BY <1>1, <1>2 DEF Standing, InLanes
<1>6. ASSUME NEW s \in InLanes(p)
      PROVE  \E l \in DOMAIN L : \E x \in DOMAIN L[l] : s = L[l][x]
  BY <1>2 DEF InLanes
<1>7. ASSUME NEW l \in DOMAIN L, NEW x \in DOMAIN L[l], NEW y \in DOMAIN L[l], x < y
      PROVE  L[l][x] \in Before(p, L[l][y])
  BY <1>2, <1>7 DEF Before
<1>8. ASSUME NEW s, NEW t, s \in Before(p, t)
      PROVE  \E l \in DOMAIN L : \E x, y \in DOMAIN L[l] : x < y /\ s = L[l][x] /\ t = L[l][y]
  BY <1>2, <1>8 DEF Before
<1>9. ASSUME NEW s \in InLanes(p), NEW t \in InLanes(p)
      PROVE  /\ s # t /\ Conflict(s, t) => s \in Before(p, t) \/ t \in Before(p, s)
             /\ s \in After[t] => s \in Before(p, t)
             /\ s \in Before(p, t) => t \notin Before(p, s)
  <2>1. PICK l \in DOMAIN L : \E x \in DOMAIN L[l] : s = L[l][x]
    BY <1>6
  <2>2. PICK x \in DOMAIN L[l] : s = L[l][x]
    BY <2>1
  <2>3. PICK m \in DOMAIN L : \E y \in DOMAIN L[m] : t = L[m][y]
    BY <1>6
  <2>4. PICK y \in DOMAIN L[m] : t = L[m][y]
    BY <2>3
  <2> DEFINE i == c[l][x]
             j == c[m][y]
  <2>5. i \in DOMAIN its /\ j \in DOMAIN its /\ s = its[i].id /\ t = its[j].id
    BY <1>1, <2>2, <2>4 DEF Standing
  <2>6. /\ its[i].key = Key[s] /\ its[i].after = After[s]
        /\ its[j].key = Key[t] /\ its[j].after = After[t]
    BY <2>5 DEF IsRequest
  <2>7. ASSUME s # t, Conflict(s, t) PROVE s \in Before(p, t) \/ t \in Before(p, s)
    <3>1. Tied(its, i, j)
      BY <2>5, <2>6, <2>7 DEF Conflict, Tied
    <3>2. Root(its, i) = Root(its, j)
      BY <2>5, <3>1, TiedTogether DEF IsRequest
    <3>3. l = m
      BY <1>1, <3>2 DEF Standing
    <3>4. x # y /\ x \in Nat /\ y \in Nat
      BY <1>5, <2>2, <2>4, <2>7, <3>3
    <3>5. x < y \/ y < x
      BY <3>4
    <3> QED
      BY <1>7, <2>2, <2>4, <3>3, <3>5
  <2>8. ASSUME s \in After[t] PROVE s \in Before(p, t)
    <3>1. i \in DependencyEdges(its)[j]
      BY <2>5, <2>6, <2>8 DEF DependencyEdges
    <3> HIDE DEF i, j
    <3>4. \A a \in DependencyEdges(its)[j] : \E k \in DOMAIN L[m] : k < y /\ c[m][k] = a
      BY <1>1 DEF Standing, j
    <3>2. PICK k \in DOMAIN L[m] : k < y /\ c[m][k] = i
      BY <3>1, <3>4
    <3>3. L[m][k] = s
      BY <1>1, <2>5, <3>2 DEF Standing
    <3> QED
      BY <1>7, <2>4, <3>2, <3>3
  <2>9. ASSUME s \in Before(p, t), t \in Before(p, s) PROVE FALSE
    <3>1. PICK a \in DOMAIN L : \E u, v \in DOMAIN L[a] : u < v /\ s = L[a][u] /\ t = L[a][v]
      BY <1>8, <2>9
    <3>2. PICK u \in DOMAIN L[a], v \in DOMAIN L[a] : u < v /\ s = L[a][u] /\ t = L[a][v]
      BY <3>1
    <3>3. PICK b \in DOMAIN L : \E u2, v2 \in DOMAIN L[b] : u2 < v2 /\ t = L[b][u2] /\ s = L[b][v2]
      BY <1>8, <2>9
    <3>4. PICK u2 \in DOMAIN L[b], v2 \in DOMAIN L[b] : u2 < v2 /\ t = L[b][u2] /\ s = L[b][v2]
      BY <3>3
    <3>5. u = v2 /\ v = u2
      <4>1. L[a][u] = L[b][v2] /\ L[a][v] = L[b][u2]
        BY <3>2, <3>4
      <4>2. u = v2
        BY <1>4, <4>1
      <4>3. v = u2
        BY <1>4, <4>1
      <4> QED
        BY <4>2, <4>3
    <3>6. u \in Nat /\ v \in Nat
      BY <1>5, <3>2
    <3> QED
      BY <3>2, <3>4, <3>5, <3>6
  <2> QED
    BY <2>7, <2>8, <2>9
<1>10. \A l, m \in DOMAIN L : \A x \in DOMAIN L[l], y \in DOMAIN L[m] : L[l][x] = L[m][y] => l = m
  BY <1>4
<1>11. IsPlan(p)
  BY <1>2, <1>3, <1>9, <1>10 DEF IsPlan
<1> QED
  BY <1>11 DEF p, L

\* What the planner makes of a request, whatever of the registry it names and in
\* whatever order, is a plan as the stream's theorems assume it: conflicting settings
\* in one lane, in their declared order (validate_declarations, plan_lanes, and the
\* lanes _stream_each starts).
THEOREM RequestsGetPlans ==
    ASSUME NoResource = NoKey, NEW registry, IsRequest(registry), ValidDeclarations(registry),
           NEW request, IsList(request),
           \A k \in DOMAIN request : request[k] \in DOMAIN registry,
           \A j, k \in DOMAIN request : request[j] = request[k] => j = k,
           NEW missing \in SUBSET Settings,
           \A i \in DOMAIN registry : registry[i].id \notin missing
    PROVE  IsPlan([unknown |-> missing,
                   lanes |-> PlanLanes([k \in DOMAIN request |-> registry[request[k]]])])
<1> DEFINE its == [k \in DOMAIN request |-> registry[request[k]]]
<1>1. Plannable(its)
  BY PartsPlan DEF ValidDeclarations, IsRequest
<1>2. IsList(its)
  <2>1. its \in Seq({registry[request[k]] : k \in DOMAIN request}) /\ Len(its) = Len(request)
    BY DEF IsList
  <2> QED
    BY <2>1 DEF IsList
<1>3. \A k \in DOMAIN its : its[k] = registry[request[k]] /\ request[k] \in DOMAIN registry
  OBVIOUS
<1>4. DOMAIN its = DOMAIN request
  OBVIOUS
<1> HIDE DEF its
<1>5. IsRequest(its)
  BY <1>2, <1>3, <1>4 DEF IsRequest
<1>6. \A k \in DOMAIN its : its[k].id \notin missing
  BY <1>3
<1>7. IsPlan([unknown |-> missing, lanes |-> PlanLanes(its)])
  BY <1>1, <1>5, <1>6, PlannedIsPlan
<1> QED
  BY <1>7 DEF its
=============================================================================
