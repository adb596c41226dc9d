------------------------ MODULE AdapterRestartProofs ------------------------
(***************************************************************************)
(* What a burst of writes, the reads and the shutdown may rely on, for any *)
(* number of writes and reads.                                             *)
(*                                                                         *)
(* The argument. A timer goes through its states once (Unborn), so that a  *)
(* restart which is over stays over. A timer that waits is the one the     *)
(* dictionary holds, or the one the shutdown took (Waits), as long as      *)
(* nobody popped another's entry. While restarts do not overlap the one    *)
(* under way is the marked one, so a read that waits for the mark waits    *)
(* for all that ran when it asked (Reads). The shutdown's own restart      *)
(* stands for the timer it took, and what it owes was in the registry      *)
(* before that restart began (Flushes).                                    *)
(***************************************************************************)
EXTENDS AdapterRestart, TLAPS

Over == {x \in Restarts : timer[x] \in {"late", "ended"}}

Types ==
    /\ registry \in SUBSET Writes /\ asked \in SUBSET registry
    /\ loaded \in SUBSET registry /\ owed \in SUBSET registry
    /\ pending \in Writes \cup {None} /\ taken \in Writes \cup {None}
    /\ timer \in [Restarts -> TimerStates]
    /\ mark \in Restarts \cup {None}
    /\ reader \in [Readers -> {"idle", "waiting", "reading", "readingAnyway"}]
    /\ awaits \in [Readers -> Restarts \cup {None}]
    /\ running \in [Readers -> SUBSET Restarts]
    /\ stage \in Stages
    /\ refused \in BOOLEAN /\ robbed \in BOOLEAN /\ overlapped \in BOOLEAN

MarkIsUnderWay == mark \in Active \cup {None}

\* What has not been asked for has no timer yet.
Unborn ==
    /\ \A w \in Writes \ asked : timer[w] = "none"
    /\ stage \in {"serving", "cancelling"} => timer[Flush] = "none"

Waits ==
    /\ stage = "serving" => taken = None
    /\ BurstRestartsOnce

Reads ==
    /\ ~overlapped => Active \subseteq {mark}
    /\ \A r \in Readers :
         /\ running[r] \subseteq Active \cup Over
         /\ reader[r] = "waiting" /\ ~overlapped => running[r] \subseteq {awaits[r]}
         /\ reader[r] = "reading" /\ ~overlapped => running[r] \subseteq Over

Flushes ==
    /\ stage = "serving" => owed = {}
    /\ owed # {} => taken # None
    /\ stage \in {"flushing", "exited"} /\ taken # None => timer[Flush] # "none"
    /\ stage = "exited" => timer[Flush] \in {"none", "late", "ended"}
    /\ timer[Flush] = "up" => owed \subseteq loaded
    /\ timer[Flush] = "ended" /\ ~refused => owed \subseteq loaded

IInv == Types /\ MarkIsUnderWay /\ Unborn /\ Waits /\ Reads /\ Flushes

-----------------------------------------------------------------------------
LEMMA Distinct ==
    /\ Flush \in Restarts /\ Flush \notin Writes /\ None \notin Restarts
    /\ Writes \subseteq Restarts /\ Restarts = Writes \cup {Flush}
BY RestartAssumption DEF Restarts

LEMMA StepKeepsTypes == Types /\ [Next]_vars => Types'
<1> SUFFICES ASSUME Types, [Next]_vars PROVE Types'
  OBVIOUS
<1> USE Distinct DEF Types, writeVars, readVars, exitVars
<1>1. ASSUME NEW w \in Writes, WriteValue(w) PROVE Types'
  BY <1>1 DEF WriteValue
<1>2. ASSUME NEW w \in Writes, Schedule(w) PROVE Types'
  <2>1. timer' \in [Restarts -> TimerStates]
    BY <1>2 DEF Schedule, Cancelled, TimerStates, Waiting
  <2> QED
    BY <1>2, <2>1 DEF Schedule, Asks
<1>3. ASSUME NEW w \in Writes, Arm(w) \/ Fire(w) PROVE Types'
  BY <1>3 DEF Arm, Fire, Step, Move, TimerStates, Waiting
<1>4. ASSUME NEW x \in Restarts, Mark(x) PROVE Types'
  BY <1>4 DEF Mark, Move, TimerStates, InRestart
<1>5. ASSUME NEW x \in Restarts, Down(x) \/ Up(x) \/ UpLate(x) PROVE Types'
  BY <1>5 DEF Down, Up, UpLate, Step, Move, TimerStates, InRestart
<1>6. ASSUME NEW x \in Restarts, CommandFails(x) \/ Back(x) \/ GiveUp(x) PROVE Types'
  <2>1. \E from \in {{"marked"}, {"down"}, {"up"}}, to \in {"late", "ended"} :
            Leave(x, from, to)
    BY <1>6 DEF CommandFails, Back, GiveUp
  <2>2. refused' \in BOOLEAN
    BY <1>6 DEF CommandFails, Back, GiveUp
  <2>3. timer' \in [Restarts -> TimerStates]
    BY <2>1 DEF Leave, Move, TimerStates
  <2> QED
    BY <2>1, <2>2, <2>3 DEF Leave
<1>7. ASSUME NEW r \in Readers, Ask(r) \/ Released(r) \/ WaitTimesOut(r) PROVE Types'
  BY <1>7 DEF Ask, Released, WaitTimesOut, Resume, Active
<1>8. CASE FlushTake
  BY <1>8 DEF FlushTake, Take, Stages
<1>9. CASE FlushRestart
  <2>1. timer' \in [Restarts -> TimerStates]
    BY <1>9 DEF FlushRestart, Cancelled, TimerStates, Waiting
  <2> QED
    BY <1>9, <2>1 DEF FlushRestart, Stages
<1>10. CASE Exit
  BY <1>10 DEF Exit, Stages
<1>11. CASE UNCHANGED vars
  BY <1>11 DEF vars
<1> QED
  BY <1>1, <1>2, <1>3, <1>4, <1>5, <1>6, <1>7, <1>8, <1>9, <1>10, <1>11
     DEF Next, WriteStep, RestartStep

-----------------------------------------------------------------------------
(* How timers move.                                                        *)

LEMMA Moved ==
    ASSUME Types, NEW x \in Restarts, NEW from, NEW to, Move(x, from, to)
    PROVE  timer[x] \in from /\ \A y \in Restarts : timer'[y] = IF y = x THEN to ELSE timer[y]
BY DEF Types, Move

\* Asking for a restart, by a write or by the shutdown, disturbs none.
LEMMA Planned ==
    ASSUME Types, Unborn, (\E w \in Writes : Schedule(w)) \/ FlushRestart
    PROVE  /\ Active' = Active /\ Over' = Over
           /\ \A x \in Restarts : timer[x] # "none" => timer'[x] \in {timer[x], "cancelled"}
<1> USE Distinct DEF Types, Unborn, Active, Over, Cancelled, Waiting, InRestart
<1>1. ASSUME NEW w \in Writes, Schedule(w), NEW x \in Restarts
      PROVE  timer'[x] = timer[x]
                \/ (timer[x] = "none" /\ timer'[x] = "made")
                \/ (timer[x] \in Waiting /\ timer'[x] = "cancelled")
  BY <1>1 DEF Schedule, Asks
<1>2. ASSUME FlushRestart, NEW x \in Restarts
      PROVE  timer'[x] = timer[x]
                \/ (timer[x] = "none" /\ timer'[x] = "called")
                \/ (timer[x] \in Waiting /\ timer'[x] = "cancelled")
  BY <1>2 DEF FlushRestart
<1>3. \A x \in Restarts : timer'[x] = timer[x]
                \/ (timer[x] = "none" /\ timer'[x] \in {"made", "called"})
                \/ (timer[x] \in Waiting /\ timer'[x] = "cancelled")
  BY <1>1, <1>2
<1> QED
  BY <1>3

-----------------------------------------------------------------------------
LEMMA StepKeepsUnborn == Types /\ Unborn /\ [Next]_vars => Unborn'
<1> SUFFICES ASSUME Types, Unborn, [Next]_vars PROVE Unborn'
  OBVIOUS
<1> USE Distinct DEF Unborn, writeVars, exitVars
<1>1. ASSUME NEW x \in Restarts, NEW from, NEW to, Move(x, from, to), "none" \notin from,
             UNCHANGED <<asked, stage>>
      PROVE  Unborn'
  BY <1>1, Moved
<1>2. ASSUME NEW w \in Writes, WriteStep(w) PROVE Unborn'
  <2>1. CASE Schedule(w)
    BY <2>1 DEF Schedule, Asks, Cancelled, Waiting, Types
  <2>2. CASE Arm(w) \/ Fire(w)
    BY <1>1, <2>2 DEF Arm, Fire, Step
  <2> QED
    BY <1>2, <2>1, <2>2 DEF WriteStep
<1>3. ASSUME NEW x \in Restarts, RestartStep(x) PROVE Unborn'
  BY <1>1, <1>3 DEF RestartStep, Mark, Down, Up, CommandFails, Back, GiveUp, UpLate, Leave, Step
<1>4. CASE FlushRestart
  BY <1>4 DEF FlushRestart, Cancelled, Waiting, Types
<1>5. CASE FlushTake \/ Exit
  BY <1>5 DEF FlushTake, Take, Exit
<1>6. CASE UNCHANGED <<asked, stage, timer>>
  BY <1>6
<1> QED
  BY <1>2, <1>3, <1>4, <1>5, <1>6
     DEF Next, WriteValue, Ask, Released, WaitTimesOut, Resume, vars

LEMMA StepKeepsMark == Types /\ Unborn /\ MarkIsUnderWay /\ [Next]_vars => MarkIsUnderWay'
<1> SUFFICES ASSUME Types, Unborn, MarkIsUnderWay, [Next]_vars PROVE MarkIsUnderWay'
  OBVIOUS
<1> USE DEF MarkIsUnderWay
<1>1. ASSUME NEW x \in Restarts, NEW from, NEW to, Move(x, from, to), mark' = mark,
             to \in InRestart \/ from \cap InRestart = {}
      PROVE  MarkIsUnderWay'
  BY <1>1, Moved DEF Active
<1>2. ASSUME NEW w \in Writes, WriteStep(w) PROVE MarkIsUnderWay'
  <2>1. CASE Schedule(w)
    BY <2>1, Planned DEF Schedule
  <2>2. CASE Arm(w) \/ Fire(w)
    BY <1>1, <2>2, Distinct DEF Arm, Fire, Step, InRestart
  <2> QED
    BY <1>2, <2>1, <2>2 DEF WriteStep
<1>3. ASSUME NEW x \in Restarts, Mark(x) PROVE MarkIsUnderWay'
  BY <1>3, Moved DEF Mark, Active, InRestart
<1>4. ASSUME NEW x \in Restarts, Down(x) \/ Up(x) \/ UpLate(x) PROVE MarkIsUnderWay'
  BY <1>1, <1>4 DEF Down, Up, UpLate, Step, InRestart
<1>5. ASSUME NEW x \in Restarts, CommandFails(x) \/ Back(x) \/ GiveUp(x) PROVE MarkIsUnderWay'
  BY <1>5 DEF CommandFails, Back, GiveUp, Leave
<1>6. CASE FlushRestart
  BY <1>6, Planned DEF FlushRestart
<1>7. CASE UNCHANGED <<mark, timer>>
  BY <1>7 DEF Active
<1> QED
  BY <1>2, <1>3, <1>4, <1>5, <1>6, <1>7
     DEF Next, RestartStep, WriteValue, Ask, Released, WaitTimesOut, Resume, FlushTake, Take,
         Exit, vars

-----------------------------------------------------------------------------
\* A step that makes no timer wait, and drops no timer that does.
LEMMA WaitsStay ==
    ASSUME Waits, stage' = "serving" => stage = "serving",
           UNCHANGED <<pending, taken>>, robbed' = robbed,
           \A w \in Writes : timer'[w] \in Waiting => timer[w] \in Waiting
    PROVE  Waits'
BY DEF Waits, BurstRestartsOnce

LEMMA StepKeepsWaits == Types /\ Waits /\ [Next]_vars => Waits'
<1> SUFFICES ASSUME Types, Waits, [Next]_vars PROVE Waits'
  OBVIOUS
<1> USE Distinct DEF writeVars, exitVars
<1>1. ASSUME NEW x \in Restarts, NEW from, NEW to, Move(x, from, to),
             UNCHANGED <<stage, pending, taken, robbed>>,
             to \in Waiting => from \subseteq Waiting
      PROVE  Waits'
  BY <1>1, Moved, WaitsStay
<1>2. ASSUME NEW w \in Writes, Schedule(w) PROVE Waits'
  BY <1>2 DEF Schedule, Asks, Cancelled, Waits, BurstRestartsOnce, Types, Waiting
<1>3. ASSUME NEW w \in Writes, Arm(w) \/ Fire(w) PROVE Waits'
  BY <1>1, <1>3 DEF Arm, Fire, Step, Waiting
<1>4. ASSUME NEW x \in Restarts, Mark(x) PROVE Waits'
  <2>1. \A w \in Writes : timer'[w] \in Waiting => timer[w] \in Waiting /\ w # x
    BY <1>4, Moved DEF Mark, Waiting
  <2> QED
    BY <1>4, <2>1 DEF Mark, Waits, BurstRestartsOnce, Types
<1>5. ASSUME NEW x \in Restarts,
             Down(x) \/ Up(x) \/ UpLate(x) \/ CommandFails(x) \/ Back(x) \/ GiveUp(x)
      PROVE  Waits'
  BY <1>1, <1>5 DEF Down, Up, UpLate, CommandFails, Back, GiveUp, Leave, Step, Waiting
<1>6. CASE FlushTake
  BY <1>6 DEF FlushTake, Take, Waits, BurstRestartsOnce
<1>7. CASE FlushRestart
  <2>1. \A w \in Writes : timer'[w] \in Waiting => timer[w] \in Waiting
    BY <1>7 DEF FlushRestart, Cancelled, Waiting, Types
  <2> QED
    BY <1>7, <2>1, WaitsStay DEF FlushRestart
<1>8. CASE Exit
  BY <1>8, WaitsStay DEF Exit
<1>9. CASE UNCHANGED <<timer, pending, taken, robbed, stage>>
  BY <1>9, WaitsStay
<1> QED
  BY <1>2, <1>3, <1>4, <1>5, <1>6, <1>7, <1>8, <1>9
     DEF Next, WriteStep, RestartStep, WriteValue, Ask, Released, WaitTimesOut, Resume, vars

-----------------------------------------------------------------------------
\* A step nobody reads in, that forgets no restart.
LEMMA ReadsStay ==
    ASSUME Reads, Types, UNCHANGED <<reader, awaits, running>>, overlapped => overlapped',
           Active \cup Over \subseteq Active' \cup Over', Over \subseteq Over',
           ~overlapped' => Active' \subseteq {mark'}
    PROVE  Reads'
<1>1. ASSUME NEW r \in Readers
      PROVE  /\ running'[r] \subseteq Active' \cup Over'
             /\ reader'[r] = "waiting" /\ ~overlapped' => running'[r] \subseteq {awaits'[r]}
             /\ reader'[r] = "reading" /\ ~overlapped' => running'[r] \subseteq Over'
  BY DEF Reads
<1> QED
  BY <1>1 DEF Reads

LEMMA StepKeepsReads == Types /\ Unborn /\ MarkIsUnderWay /\ Reads /\ [Next]_vars => Reads'
<1> SUFFICES ASSUME Types, Unborn, MarkIsUnderWay, Reads, [Next]_vars PROVE Reads'
  OBVIOUS
<1> USE Distinct DEF readVars
<1>1. ASSUME Active' = Active, Over' = Over, UNCHANGED <<reader, awaits, running, mark, overlapped>>
      PROVE  Reads'
  BY <1>1, ReadsStay DEF Reads
<1>2. ASSUME NEW w \in Writes, WriteStep(w) PROVE Reads'
  <2>1. CASE Schedule(w)
    BY <1>1, <2>1, Planned DEF Schedule
  <2>2. CASE Arm(w) \/ Fire(w)
    <3>1. Active' = Active /\ Over' = Over
      BY <2>2, Moved DEF Arm, Fire, Step, Active, Over, InRestart
    <3> QED
      BY <1>1, <2>2, <3>1 DEF Arm, Fire, Step
  <2> QED
    BY <1>2, <2>1, <2>2 DEF WriteStep
<1>3. ASSUME NEW x \in Restarts, Mark(x) PROVE Reads'
  <2>1. Active' = Active \cup {x} /\ Over' = Over
    BY <1>3, Moved DEF Mark, Active, Over, InRestart
  <2> QED
    BY <1>3, <2>1, ReadsStay DEF Mark
<1>4. ASSUME NEW x \in Restarts, Down(x) \/ Up(x) \/ UpLate(x) PROVE Reads'
  <2>1. Active' = Active /\ Over' = Over
    BY <1>4, Moved DEF Down, Up, UpLate, Step, Active, Over, InRestart
  <2> QED
    BY <1>1, <1>4, <2>1 DEF Down, Up, UpLate, Step
<1>5. ASSUME NEW x \in Restarts, CommandFails(x) \/ Back(x) \/ GiveUp(x) PROVE Reads'
  <2>1. PICK from \in {{"marked"}, {"down"}, {"up"}}, to \in {"late", "ended"} : Leave(x, from, to)
    BY <1>5 DEF CommandFails, Back, GiveUp
  <2>2. x \in Active /\ Active' = Active \ {x} /\ Over' = Over \cup {x}
    BY <2>1, Moved DEF Leave, Active, Over, InRestart
  <2> QED
    BY <2>1, <2>2, ReadsStay DEF Leave, Reads
<1>6. ASSUME NEW r \in Readers, Ask(r) PROVE Reads'
  <2>1. /\ UNCHANGED <<mark, overlapped>> /\ Active' = Active /\ Over' = Over
        /\ reader' = [reader EXCEPT ![r] = IF mark = None THEN "reading" ELSE "waiting"]
        /\ awaits' = [awaits EXCEPT ![r] = mark] /\ running' = [running EXCEPT ![r] = Active]
    BY <1>6 DEF Ask, Active, Over
  <2>2. ~overlapped /\ mark = None => Active = {}
    BY DEF Reads, Active
  <2> QED
    BY <2>1, <2>2 DEF Reads, Types
<1>7. ASSUME NEW r \in Readers, Released(r) \/ WaitTimesOut(r) PROVE Reads'
  <2>1. /\ UNCHANGED <<mark, overlapped, awaits, running>> /\ Active' = Active /\ Over' = Over
        /\ reader[r] = "waiting"
    BY <1>7 DEF Released, WaitTimesOut, Resume, Active, Over
  <2>2. PICK to \in {"reading", "readingAnyway"} :
          /\ reader' = [reader EXCEPT ![r] = to]
          /\ to = "reading" => timer[awaits[r]] \in {"late", "ended"}
    BY <1>7 DEF Released, WaitTimesOut, Resume
  <2>3. to = "reading" /\ ~overlapped => running[r] \subseteq Over
    BY <2>1, <2>2 DEF Reads, Types, Over
  <2> QED
    BY <2>1, <2>2, <2>3 DEF Reads, Types
<1>8. CASE FlushRestart
  BY <1>1, <1>8, Planned DEF FlushRestart
<1>9. CASE UNCHANGED <<timer, reader, awaits, running, mark, overlapped>>
  BY <1>1, <1>9 DEF Active, Over
<1> QED
  BY <1>2, <1>3, <1>4, <1>5, <1>6, <1>7, <1>8, <1>9
     DEF Next, RestartStep, WriteValue, FlushTake, Take, Exit, vars

-----------------------------------------------------------------------------
\* A step in which the shutdown and its restart stand still.
LEMMA FlushesStay ==
    ASSUME Flushes, UNCHANGED <<stage, taken, owed>>, timer'[Flush] = timer[Flush],
           loaded \subseteq loaded', refused => refused'
    PROVE  Flushes'
BY DEF Flushes

LEMMA StepKeepsFlushes == Types /\ Unborn /\ Flushes /\ [Next]_vars => Flushes'
<1> SUFFICES ASSUME Types, Unborn, Flushes, [Next]_vars PROVE Flushes'
  OBVIOUS
<1> USE Distinct DEF exitVars
<1>1. ASSUME NEW w \in Writes, WriteStep(w) PROVE Flushes'
  <2>1. timer'[Flush] = timer[Flush] \/ (Schedule(w) /\ timer[Flush] \in Waiting)
    <3>1. CASE Schedule(w)
      BY <3>1 DEF Schedule, Asks, Cancelled, Types
    <3>2. CASE Arm(w) \/ Fire(w)
      BY <3>2, Moved DEF Arm, Fire, Step
    <3> QED
      BY <1>1, <3>1, <3>2 DEF WriteStep
  <2>2. timer'[Flush] = timer[Flush]
    BY <2>1 DEF Schedule, Asks, Types
  <2> QED
    BY <1>1, <2>2, FlushesStay DEF WriteStep, Schedule, Arm, Fire, Step
<1>2. ASSUME NEW x \in Restarts, RestartStep(x), x # Flush PROVE Flushes'
  <2>1. timer'[Flush] = timer[Flush]
    BY <1>2, Moved
       DEF RestartStep, Mark, Down, Up, UpLate, CommandFails, Back, GiveUp, Leave, Step
  <2>2. loaded \subseteq loaded' /\ (refused => refused')
    BY <1>2 DEF RestartStep, Mark, Down, Up, UpLate, CommandFails, Back, GiveUp, Leave, Step, Types
  <2>3. UNCHANGED <<stage, taken, owed>>
    BY <1>2 DEF RestartStep, Mark, Down, Up, UpLate, CommandFails, Back, GiveUp, Leave, Step
  <2> QED
    BY <2>1, <2>2, <2>3, FlushesStay
<1>3. CASE Mark(Flush)
  BY <1>3, Moved DEF Mark, Alive, Flushes
<1>4. CASE Down(Flush)
  BY <1>4, Moved DEF Down, Step, Alive, Flushes
<1>5. CASE Up(Flush) \/ UpLate(Flush)
  BY <1>5, Moved DEF Up, UpLate, Step, Flushes, Types
<1>6. CASE CommandFails(Flush) \/ Back(Flush) \/ GiveUp(Flush)
  BY <1>6, Moved DEF CommandFails, Back, GiveUp, Leave, Alive, Flushes
<1>7. CASE FlushTake
  BY <1>7 DEF FlushTake, Take, Flushes, Unborn, Types
<1>8. CASE FlushRestart
  <2>1. timer'[Flush] = IF taken # None THEN "called" ELSE "none"
    BY <1>8 DEF FlushRestart, Unborn, Types
  <2> QED
    BY <1>8, <2>1 DEF FlushRestart, Flushes
<1>9. CASE Exit
  BY <1>9 DEF Exit, Flushes
<1>10. CASE UNCHANGED <<stage, taken, owed, timer, loaded, refused>>
  BY <1>10, FlushesStay
<1> QED
  BY <1>1, <1>2, <1>3, <1>4, <1>5, <1>6, <1>7, <1>8, <1>9, <1>10
     DEF Next, RestartStep, WriteValue, Ask, Released, WaitTimesOut, Resume, vars

-----------------------------------------------------------------------------
LEMMA InitEstablishes == Init => IInv
<1> SUFFICES ASSUME Init PROVE IInv
  OBVIOUS
<1> USE Distinct DEF Init
<1>1. Types
  BY DEF Types, TimerStates, Stages
<1>2. Active = {} /\ Over = {}
  BY DEF Active, Over, InRestart
<1>3. MarkIsUnderWay /\ Unborn
  BY DEF MarkIsUnderWay, Unborn
<1>4. Waits
  BY DEF Waits, BurstRestartsOnce, Waiting
<1>5. Reads
  BY <1>2 DEF Reads
<1>6. Flushes
  BY DEF Flushes
<1> QED
  BY <1>1, <1>3, <1>4, <1>5, <1>6 DEF IInv

LEMMA AlwaysIInv == Spec => []IInv
<1>1. IInv /\ [Next]_vars => IInv'
  BY StepKeepsTypes, StepKeepsUnborn, StepKeepsMark, StepKeepsWaits, StepKeepsReads,
     StepKeepsFlushes DEF IInv
<1> QED
  BY <1>1, InitEstablishes, PTL DEF Spec

\* A burst of writes ends in one restart: at most one timer waits that the next
\* write would not find (schedule_adapter_restart).
THEOREM BurstsEndInOne == Spec => []BurstRestartsOnce
<1>1. IInv => BurstRestartsOnce
  BY DEF IInv, Waits
<1> QED
  BY <1>1, AlwaysIInv, PTL

\* A read let through by wait_for_restarts is not in the middle of a restart
\* that ran when it asked.
THEOREM ReadsWait == Spec => []ReadWaitsOutRestart
<1>1. IInv => ReadWaitsOutRestart
  BY DEF IInv, Reads, ReadWaitsOutRestart, Active, Over, InRestart
<1> QED
  BY <1>1, AlwaysIInv, PTL

\* What waited for a restart when flush_pending ran is loaded when it is gone.
THEOREM FlushLoads == Spec => []FlushedIsLoaded
<1>1. IInv => FlushedIsLoaded
  BY DEF IInv, Flushes, FlushedIsLoaded
<1> QED
  BY <1>1, AlwaysIInv, PTL

\* Every variable stays in its type, and the mark names a restart that is under way
\* or nothing, however restarts overlap and whatever fails (_restart_adapters).
THEOREM TypeCorrect == Spec => []TypeOK
<1>1. IInv => TypeOK
  BY DEF IInv, Types, MarkIsUnderWay, TypeOK
<1> QED
  BY <1>1, AlwaysIInv, PTL

=============================================================================
