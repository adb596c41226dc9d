--------------------------- MODULE AdapterRestart ---------------------------
(***************************************************************************)
(* One restart of a network adapter per burst of writes. A write leaves    *)
(* its value in the registry and asks for a restart, which waits on a      *)
(* timer; the next write of the burst replaces the timer. A restart marks  *)
(* the adapter so that reads wait for it. Shutdown runs the restart that   *)
(* still waits, then the process ends and its timers with it.              *)
(*                                                                         *)
(* One adapter: the dictionaries of the code hold one entry for each, and  *)
(* only a read's wait looks at more than one. Quiet and settle times are   *)
(* left out: a timer may fire, and a bounded wait end, at any moment.      *)
(*                                                                         *)
(* Source: settings/executors/adapter_restart.py.                          *)
(***************************************************************************)
EXTENDS Naturals

CONSTANTS
    Writes,     \* writes that succeed, each with the timer it makes
    Readers,    \* scans that read the adapter
    Flush,      \* the restart that flush_pending runs
    None

ASSUME RestartAssumption == Flush \notin Writes /\ None \notin Writes \cup {Flush}

Restarts == Writes \cup {Flush}

VARIABLES
    asked,       \* the writes whose timer has been made
    pending,     \* _pending: the timer that waits out its quiet period
    timer,       \* timer[x]: where x's timer, then its restart, stands
    mark,        \* _restarting: the restart whose end a read waits for
    registry,    \* the writes whose value is in the registry
    loaded,      \* the writes whose value the driver uses
    refused,     \* a restart command failed
    reader,      \* where each read stands
    awaits,      \* awaits[r]: the restart its event belongs to
    stage,       \* where the process stands
    taken,       \* the timer flush_pending took
    owed,        \* history: what was in the registry when flush took a timer
    robbed,      \* history: a restart took the place of a timer not its own
    overlapped,  \* history: a restart began before the last one was over
    running      \* history: the restarts that ran when a read asked

writeVars == <<asked, pending, registry, robbed>>
readVars == <<reader, awaits, running>>
exitVars == <<stage, taken, owed>>
vars == <<writeVars, timer, mark, loaded, refused, readVars, exitVars, overlapped>>

Waiting == {"made", "armed"}
InRestart == {"marked", "down", "up"}
TimerStates == {"none", "cancelled", "called", "late", "ended"} \cup Waiting \cup InRestart
Stages == {"serving", "cancelling", "flushing", "exited"}

Active == {x \in Restarts : timer[x] \in InRestart}
Alive == stage # "exited"

Init ==
    /\ asked = {} /\ pending = None
    /\ timer = [x \in Restarts |-> "none"]
    /\ mark = None
    /\ registry = {} /\ loaded = {} /\ refused = FALSE
    /\ reader = [r \in Readers |-> "idle"]
    /\ awaits = [r \in Readers |-> None]
    /\ running = [r \in Readers |-> {}]
    /\ stage = "serving" /\ taken = None /\ owed = {}
    /\ robbed = FALSE /\ overlapped = FALSE

Move(x, from, to) == timer[x] \in from /\ timer' = [timer EXCEPT ![x] = to]

(* The command of a write with -NoRestart is through.                      *)
WriteValue(w) ==
    /\ Alive
    /\ w \notin registry
    /\ registry' = registry \cup {w}
    /\ UNCHANGED <<asked, pending, robbed, timer, mark, loaded, refused, readVars, exitVars, overlapped>>

Cancelled(w) == IF timer[w] \in Waiting THEN "cancelled" ELSE timer[w]

Asks(w) == Alive /\ w \in registry \ asked /\ asked' = asked \cup {w} /\ pending' = w

\* Mutant: the timer that waited is forgotten, not cancelled.
ScheduleUncancelled(w) ==
    /\ Asks(w)
    /\ Move(w, {"none"}, "made")
    /\ UNCHANGED <<registry, robbed, mark, loaded, refused, readVars, exitVars, overlapped>>

\* Mutant: the restart that is running anyway will do.
ScheduleUnlessRestarting(w) ==
    /\ Alive /\ w \in registry \ asked
    /\ asked' = asked \cup {w}
    /\ IF mark = None
       THEN /\ pending' = w
            /\ timer' = [x \in Restarts |-> IF x = w THEN "made"
                                            ELSE IF x = pending THEN Cancelled(x) ELSE timer[x]]
       ELSE UNCHANGED <<pending, timer>>
    /\ UNCHANGED <<registry, robbed, mark, loaded, refused, readVars, exitVars, overlapped>>

(* schedule_adapter_restart, up to its start of the timer: a timer that    *)
(* has fired already cannot be cancelled.                                  *)
Schedule(w) ==
    /\ Asks(w)
    /\ timer' = [x \in Restarts |-> IF x = w THEN "made"
                                    ELSE IF x = pending THEN Cancelled(x) ELSE timer[x]]
    /\ UNCHANGED <<registry, robbed, mark, loaded, refused, readVars, exitVars, overlapped>>

Step(x, from, to) ==
    /\ Move(x, from, to)
    /\ UNCHANGED <<writeVars, mark, refused, readVars, exitVars, overlapped>>

Arm(w) == Alive /\ Step(w, {"made"}, "armed") /\ UNCHANGED loaded

Fire(w) == Alive /\ Step(w, {"armed"}, "called") /\ UNCHANGED loaded

(* _restart_now, up to its command: whatever timer waits is popped.        *)
Mark(x) ==
    /\ Alive
    /\ Move(x, {"called"}, "marked")
    /\ pending' = None
    /\ mark' = x
    /\ robbed' = (robbed \/ pending \notin {None, x})
    /\ overlapped' = (overlapped \/ Active # {})
    /\ UNCHANGED <<asked, registry, loaded, refused, readVars, exitVars>>

(* Restart-NetAdapter takes the adapter down, then up, in a process of its *)
(* own; the driver reads the registry as it comes up.                      *)
Down(x) == Alive /\ Step(x, {"marked"}, "down") /\ UNCHANGED loaded

Up(x) == Step(x, {"down"}, "up") /\ loaded' = registry

(* The restart leaves, clears the adapter's mark and sets its event.       *)
Leave(x, from, to) ==
    /\ Alive
    /\ Move(x, from, to)
    /\ mark' = None
    /\ UNCHANGED <<writeVars, loaded, readVars, exitVars, overlapped>>

CommandFails(x) == Leave(x, {"marked"}, "ended") /\ refused' = TRUE

(* wait_until_back sees the adapter Up, or Disconnected.                   *)
Back(x) == Leave(x, {"up"}, "ended") /\ UNCHANGED refused

(* wait_until_back gives up; the adapter comes up later.                   *)
GiveUp(x) == Leave(x, {"down"}, "late") /\ UNCHANGED refused

UpLate(x) == Step(x, {"late"}, "ended") /\ loaded' = registry

(* wait_for_restarts: the restart that runs, if any, is waited for. After  *)
(* its timeout a read starts all the same.                                 *)
Ask(r) ==
    /\ Alive
    /\ reader[r] = "idle"
    /\ reader' = [reader EXCEPT ![r] = IF mark = None THEN "reading" ELSE "waiting"]
    /\ awaits' = [awaits EXCEPT ![r] = mark]
    /\ running' = [running EXCEPT ![r] = Active]
    /\ UNCHANGED <<writeVars, timer, mark, loaded, refused, exitVars, overlapped>>

Resume(r, to) ==
    /\ Alive
    /\ reader[r] = "waiting"
    /\ reader' = [reader EXCEPT ![r] = to]
    /\ UNCHANGED <<writeVars, timer, mark, loaded, refused, awaits, running, exitVars, overlapped>>

\* Mutant: all restarts set one event, which nobody clears.
ReleasedByAny(r) ==
    Resume(r, "reading") /\ \E x \in Restarts : timer[x] \in {"late", "ended"}

\* Mutant: the event is set where the command succeeded, not in the finally.
ReleasedOnSuccess(r) == Resume(r, "reading") /\ timer[awaits[r]] = "ended" /\ ~refused

Released(r) == Resume(r, "reading") /\ timer[awaits[r]] \in {"late", "ended"}

WaitTimesOut(r) == Resume(r, "readingAnyway")

(* flush_pending: the timer that waits is taken under the lock, cancelled  *)
(* behind it, and its restart run by the shutdown handler.                 *)
Take(waiting) ==
    /\ stage = "serving"
    /\ stage' = "cancelling"
    /\ taken' = waiting
    /\ pending' = None
    /\ owed' = IF pending = None THEN {} ELSE registry
    /\ UNCHANGED <<asked, registry, robbed, timer, mark, loaded, refused, readVars, overlapped>>

\* Mutant: an adapter that is restarting is not restarted again.
FlushTakeUnlessRestarting == Take(IF mark = None THEN pending ELSE None)

FlushTake == Take(pending)

FlushRestart ==
    /\ stage = "cancelling"
    /\ stage' = "flushing"
    /\ timer' = [x \in Restarts |-> IF x = taken THEN Cancelled(x)
                                    ELSE IF x = Flush /\ taken # None THEN "called" ELSE timer[x]]
    /\ UNCHANGED <<writeVars, mark, loaded, refused, readVars, taken, owed, overlapped>>

(* The timers are daemon threads: they die with the process. A command it  *)
(* has started runs on.                                                    *)
Exit ==
    /\ stage = "flushing"
    /\ timer[Flush] \in {"none", "late", "ended"}
    /\ stage' = "exited"
    /\ UNCHANGED <<writeVars, timer, mark, loaded, refused, readVars, taken, owed, overlapped>>

WriteStep(w) == Schedule(w) \/ Arm(w) \/ Fire(w)

RestartStep(x) ==
    Mark(x) \/ Down(x) \/ Up(x) \/ CommandFails(x) \/ Back(x) \/ GiveUp(x) \/ UpLate(x)

Next ==
    \/ \E w \in Writes : WriteValue(w) \/ WriteStep(w)
    \/ \E x \in Restarts : RestartStep(x)
    \/ \E r \in Readers : Ask(r) \/ Released(r) \/ WaitTimesOut(r)
    \/ FlushTake \/ FlushRestart \/ Exit

Spec == Init /\ [][Next]_vars

(***************************************************************************)
(* Fairness: threads go on, quiet periods end, a command returns or is     *)
(* given up. Nothing makes a write, a read or the shutdown happen, and a   *)
(* read is not relied on to time out.                                      *)
(***************************************************************************)
FairSpec ==
    /\ Spec
    /\ \A w \in Writes : WF_vars(WriteStep(w))
    /\ \A x \in Restarts : WF_vars(RestartStep(x))
    /\ \A r \in Readers : WF_vars(Released(r))

-----------------------------------------------------------------------------
\* Every variable stays in its type, and a restart the adapter is marked with is
\* under way, so that no read waits for one that is over (_restart_now).
TypeOK ==
    /\ registry \in SUBSET Writes /\ asked \in SUBSET registry
    /\ loaded \in SUBSET registry /\ owed \in SUBSET registry
    /\ pending \in Writes \cup {None} /\ taken \in Writes \cup {None}
    /\ timer \in [Restarts -> TimerStates]
    /\ mark \in Active \cup {None}
    /\ reader \in [Readers -> {"idle", "waiting", "reading", "readingAnyway"}]
    /\ awaits \in [Readers -> Restarts \cup {None}]
    /\ running \in [Readers -> SUBSET Restarts]
    /\ stage \in Stages
    /\ {refused, robbed, overlapped} \subseteq BOOLEAN

\* "A burst of writes ends in exactly one restart" (schedule_adapter_restart):
\* one timer waits, and it is the one the next write will find. It may fail only
\* once a timer that had fired has popped its successor's entry.
BurstRestartsOnce ==
    ~robbed => {w \in Writes : timer[w] \in Waiting} \subseteq {pending, taken}

\* A read that was let through has not started in the middle of a restart that
\* was running when it asked (wait_for_restarts), unless restarts overlapped.
ReadWaitsOutRestart ==
    \A r \in Readers :
        reader[r] = "reading" /\ ~overlapped => running[r] \cap Active = {}

\* What waited for its restart when fpstune shut down is in the driver by the
\* time it is gone (flush_pending), unless the restart failed or never came back.
FlushedIsLoaded ==
    stage = "exited" /\ ~refused /\ timer[Flush] # "late" => owed \subseteq loaded

\* While fpstune runs, every value a write left in the registry gets loaded: no
\* timer is cancelled without another restart to stand in for it
\* (schedule_adapter_restart).
WritesGetLoaded ==
    \A w \in Writes : w \in registry ~> w \in loaded \/ refused \/ stage # "serving"

\* A read that waits is let through by the end of the restart, whichever way the
\* restart ends and whatever restart follows it (_restart_now's finally).
ReadersGetThrough ==
    \A r \in Readers : reader[r] = "waiting" ~> reader[r] # "waiting" \/ stage = "exited"
=============================================================================
