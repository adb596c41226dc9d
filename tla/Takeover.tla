------------------------------ MODULE Takeover ------------------------------
(***************************************************************************)
(* One fpstune serves; a newer start takes its place. A start that finds   *)
(* the lock port taken asks every instance that answers to stop, waits for *)
(* the port, and last looks up who holds it and ends that process. An      *)
(* instance that was asked lets a bench finish, within a bound, then drains *)
(* its requests, removes the PID file and frees the lock.                  *)
(*                                                                         *)
(* Times are left out but for one: who was promised a stop waits 70 s, and *)
(* the promise is kept, or given up, within 60. A process tree is one      *)
(* process; whether a process is fpstune is known.                         *)
(*                                                                         *)
(* Source: cli.py, utils/instances.py, utils/instance_reclaim.py,          *)
(* api/shutdown.py, api/serving.py, api/main.py.                           *)
(***************************************************************************)
EXTENDS Naturals, FiniteSets

CONSTANTS
    Starts,      \* fpstune processes started to serve, each once
    Far,         \* those with a --port far from the default
    Mute,        \* those of a release whose lock socket does not listen
    Stranger,    \* another program on the lock's port
    Nobody,
    MaxFaults    \* bound: crashes and hung servers

ASSUME TakeoverAssumption ==
    /\ Far \subseteq Starts /\ Mute \subseteq Starts
    /\ Stranger \notin Starts /\ Nobody \notin Starts /\ Stranger # Nobody
    /\ MaxFaults \in Nat

VARIABLES
    pc,          \* where each start stands
    lock,        \* who has bound the lock port
    pidFile,     \* whose PID and port the file names
    written,     \* the starts whose write of it worked
    found,       \* found[p]: the instances that answered p's health probe
    asked,       \* asked[p]: those that accepted p's stop request
    targets,     \* targets[p]: the processes p has yet to end
    denied,      \* the starts that could not end a process
    stop,        \* stop[p]: none, asked for, or should_exit set
    work,        \* work[p]: what p's API is at
    hung,        \* servers that answer nothing and finish nothing
    faults       \* history: faults so far

claimVars == <<found, asked, targets, denied>>
fileVars == <<pidFile, written>>
serverVars == <<stop, work, hung>>
vars == <<pc, lock, fileVars, claimVars, serverVars, faults>>

Claiming == {"looking", "asking", "waiting", "reclaiming", "ending", "rewaiting"}
Owning == {"held", "starting", "serving", "cleaning", "releasing"}
Ended == {"failed", "gone"}
Alive(p) == pc[p] \in Claiming \cup Owning

Init ==
    /\ pc = [p \in Starts |-> "off"]
    /\ lock \in {Nobody, Stranger}
    /\ pidFile = Nobody /\ written = {}
    /\ found = [p \in Starts |-> {}] /\ asked = [p \in Starts |-> {}]
    /\ targets = [p \in Starts |-> {}] /\ denied = {}
    /\ stop = [p \in Starts |-> "none"] /\ work = [p \in Starts |-> "idle"]
    /\ hung = {} /\ faults = 0

Move(p, from, to) == pc[p] = from /\ pc' = [pc EXCEPT ![p] = to]

-----------------------------------------------------------------------------
(* Claiming the single instance.                                           *)

\* Mutant: the socket is bound with SO_REUSEADDR.
LockShared == lock # Stranger

LockFree == lock = Nobody

(* _acquire_instance_lock: the port is bound, or it is taken.              *)
Acquire(p, from) ==
    /\ LockFree
    /\ Move(p, from, "held")
    /\ lock' = p
    /\ UNCHANGED <<fileVars, claimVars, serverVars, faults>>

Begin(p) ==
    \/ Acquire(p, "off")
    \/ /\ ~LockFree
       /\ Move(p, "off", "looking")
       /\ UNCHANGED <<lock, fileVars, claimVars, serverVars, faults>>

(* /health answers while the server serves and is not told to exit.        *)
Answers(q) == pc[q] = "serving" /\ q \notin hung /\ stop[q] # "exiting"

(* The ports of p's own range, and the one the PID file names.             *)
Probed(p) == {q \in Starts : (q \in Far <=> p \in Far) \/ pidFile = q}

Find(p) ==
    /\ Move(p, "looking", "asking")
    /\ found' = [found EXCEPT ![p] = {q \in Probed(p) : Answers(q)}]
    /\ UNCHANGED <<lock, fileVars, asked, targets, denied, serverVars, faults>>

(* stop_instances, request_shutdown: a second request is accepted too, and *)
(* is not another stop.                                                    *)
Ask(p) ==
    LET accepted == {q \in found[p] : Answers(q)}
    IN  /\ Move(p, "asking", "waiting")
        /\ asked' = [asked EXCEPT ![p] = accepted]
        /\ stop' = [q \in Starts |-> IF q \in accepted THEN "asked" ELSE stop[q]]
        /\ UNCHANGED <<lock, fileVars, found, targets, denied, work, hung, faults>>

(* _wait_for_lock polls for 20 s, 70 s if a stop was accepted: what was    *)
(* promised is settled by then, unless the server hung meanwhile.          *)
Promised(p) == \E q \in asked[p] : stop[q] = "asked" /\ q \notin hung

GiveUpWaiting(p) ==
    /\ ~LockFree
    /\ ~Promised(p)
    /\ Move(p, "waiting", "reclaiming")
    /\ UNCHANGED <<lock, fileVars, claimVars, serverVars, faults>>

TakeFreed(p) == Acquire(p, "waiting") \/ Acquire(p, "rewaiting")

(* reclaim_lock_holder up to its first _end. The socket table names the    *)
(* owner of a socket that listens; with no owner named, every process that *)
(* looks started to serve is to go. An owner that is no fpstune is left    *)
(* alone, and with nothing to end the start gives up: neither outcome is   *)
(* followed by another look at the lock.                                   *)
Owners == {lock} \ ({Nobody} \cup Mute)
Servers(p) == {q \in Starts : Alive(q)} \ {p}

\* Mutant: who owns the port is ended, whatever it is.
ReclaimAny(p) ==
    LET ends == IF Owners # {} THEN Owners ELSE Servers(p)
    IN  /\ Move(p, "reclaiming", "ending")
        /\ targets' = [targets EXCEPT ![p] = ends]
        /\ UNCHANGED <<lock, fileVars, found, asked, denied, serverVars, faults>>

Reclaim(p) ==
    LET ends == IF Owners # {} THEN Owners ELSE Servers(p)
    IN  /\ pc[p] = "reclaiming"
        /\ IF Stranger \in ends \/ ends = {}
           THEN pc' = [pc EXCEPT ![p] = "failed"] /\ UNCHANGED targets
           ELSE pc' = [pc EXCEPT ![p] = "ending"] /\ targets' = [targets EXCEPT ![p] = ends]
        /\ UNCHANGED <<lock, fileVars, found, asked, denied, serverVars, faults>>

(* A process ends: its sockets close, its file stays.                      *)
Without(q) == IF lock = q THEN Nobody ELSE lock

(* _end: terminated, already gone, or denied.                              *)
EndTarget(p) ==
    \E q \in targets[p] :
        /\ pc[p] = "ending"
        /\ targets' = [targets EXCEPT ![p] = @ \ {q}]
        /\ \/ /\ Alive(q)
              /\ pc' = [pc EXCEPT ![q] = "gone"]
              /\ lock' = Without(q)
              /\ stop' = [stop EXCEPT ![q] = "none"]
              /\ work' = [work EXCEPT ![q] = "idle"]
              /\ UNCHANGED denied
           \/ /\ Alive(q)
              /\ denied' = denied \cup {p}
              /\ UNCHANGED <<pc, lock, stop, work>>
           \/ /\ ~Alive(q)
              /\ UNCHANGED <<pc, lock, denied, stop, work>>
        /\ UNCHANGED <<fileVars, found, asked, hung, faults>>

Reclaimed(p) ==
    /\ targets[p] = {}
    /\ Move(p, "ending", IF p \in denied THEN "failed" ELSE "rewaiting")
    /\ UNCHANGED <<lock, fileVars, claimVars, serverVars, faults>>

GiveUp(p) ==
    /\ ~LockFree
    /\ Move(p, "rewaiting", "failed")
    /\ UNCHANGED <<lock, fileVars, claimVars, serverVars, faults>>

-----------------------------------------------------------------------------
(* Serving, and the way out.                                               *)

(* _write_pid_file; a failed write is suppressed.                          *)
WritePid(p) ==
    /\ Move(p, "held", "starting")
    /\ \/ pidFile' = p /\ written' = written \cup {p}
       \/ UNCHANGED fileVars
    /\ UNCHANGED <<lock, claimVars, serverVars, faults>>

(* No free port; or not elevated, or no UI: serve ends without a cleanup.  *)
LeaveEarly(p) ==
    /\ pc[p] \in {"held", "starting"}
    /\ pc' = [pc EXCEPT ![p] = "gone"]
    /\ lock' = Nobody
    /\ UNCHANGED <<fileVars, claimVars, serverVars, faults>>

(* run_api: the server starts, or never does.                              *)
Listen(p) ==
    /\ Move(p, "starting", "serving") \/ Move(p, "starting", "cleaning")
    /\ UNCHANGED <<lock, fileVars, claimVars, serverVars, faults>>

(* A request that changes the machine, or a bench with the operation lock. *)
BeginWork(p) ==
    /\ Answers(p)
    /\ work[p] = "idle"
    /\ \E w \in {"apply", "bench"} : work' = [work EXCEPT ![p] = w]
    /\ UNCHANGED <<pc, lock, fileVars, claimVars, stop, hung, faults>>

EndWork(p) ==
    /\ work[p] # "idle" /\ p \notin hung
    /\ work' = [work EXCEPT ![p] = "idle"]
    /\ UNCHANGED <<pc, lock, fileVars, claimVars, stop, hung, faults>>

\* Mutant: the wait for the bench has no bound.
StopServerWhenIdle(p) ==
    /\ pc[p] = "serving" /\ p \notin hung /\ stop[p] # "exiting" /\ work[p] # "bench"
    /\ stop' = [stop EXCEPT ![p] = "exiting"]
    /\ UNCHANGED <<pc, lock, fileVars, claimVars, work, hung, faults>>

(* stop_when_idle after its wait for the operation lock, which 60 s bound; *)
(* or Ctrl+C.                                                              *)
StopServer(p) ==
    /\ pc[p] = "serving" /\ p \notin hung /\ stop[p] # "exiting"
    /\ stop' = [stop EXCEPT ![p] = "exiting"]
    /\ UNCHANGED <<pc, lock, fileVars, claimVars, work, hung, faults>>

(* The server lets its requests finish; the lifespan's exit ends a bench.  *)
Drain(p) ==
    /\ stop[p] = "exiting" /\ work[p] # "apply" /\ p \notin hung
    /\ Move(p, "serving", "cleaning")
    /\ work' = [work EXCEPT ![p] = "idle"]
    /\ UNCHANGED <<lock, fileVars, claimVars, stop, hung, faults>>

\* Mutant: the lock is freed first.
CleanupLockFirst(p) ==
    /\ \/ Move(p, "cleaning", "releasing") /\ lock' = Nobody /\ UNCHANGED pidFile
       \/ Move(p, "releasing", "gone") /\ pidFile' = Nobody /\ UNCHANGED lock
    /\ UNCHANGED <<written, claimVars, serverVars, faults>>

(* _shutdown_cleanup: the PID file goes, whoever it names, then the lock.  *)
Cleanup(p) ==
    /\ \/ Move(p, "cleaning", "releasing") /\ pidFile' = Nobody /\ UNCHANGED lock
       \/ Move(p, "releasing", "gone") /\ lock' = Nobody /\ UNCHANGED pidFile
    /\ UNCHANGED <<written, claimVars, serverVars, faults>>

-----------------------------------------------------------------------------
Fault == faults < MaxFaults /\ faults' = faults + 1

Crash(p) ==
    /\ Fault
    /\ Alive(p)
    /\ pc' = [pc EXCEPT ![p] = "gone"]
    /\ lock' = Without(p)
    /\ stop' = [stop EXCEPT ![p] = "none"]
    /\ work' = [work EXCEPT ![p] = "idle"]
    /\ UNCHANGED <<fileVars, claimVars, hung>>

Hang(p) ==
    /\ Fault
    /\ pc[p] = "serving" /\ p \notin hung
    /\ hung' = hung \cup {p}
    /\ UNCHANGED <<pc, lock, fileVars, claimVars, stop, work>>

StrangerLeaves ==
    /\ lock = Stranger
    /\ lock' = Nobody
    /\ UNCHANGED <<pc, fileVars, claimVars, serverVars, faults>>

Claim(p) ==
    \/ Find(p) \/ Ask(p) \/ TakeFreed(p) \/ GiveUpWaiting(p)
    \/ Reclaim(p) \/ EndTarget(p) \/ Reclaimed(p) \/ GiveUp(p)

Next ==
    \/ \E p \in Starts :
        \/ Begin(p) \/ Claim(p)
        \/ WritePid(p) \/ LeaveEarly(p) \/ Listen(p)
        \/ BeginWork(p) \/ EndWork(p) \/ StopServer(p) \/ Drain(p) \/ Cleanup(p)
        \/ Crash(p) \/ Hang(p)
    \/ StrangerLeaves

Spec == Init /\ [][Next]_vars

(* A start's own loop goes on, and the wait of stop_when_idle is bounded.  *)
Fairness ==
    \A p \in Starts :
        /\ WF_vars(Claim(p))
        /\ WF_vars(WritePid(p) \/ Listen(p) \/ Cleanup(p))
        /\ WF_vars(stop[p] = "asked" /\ StopServer(p))

FairSpec == Spec /\ Fairness

-----------------------------------------------------------------------------
(* Properties.                                                             *)

TypeOK ==
    /\ pc \in [Starts -> {"off"} \cup Claiming \cup Owning \cup Ended]
    /\ lock \in Starts \cup {Nobody, Stranger}
    /\ pidFile \in Starts \cup {Nobody} /\ written \subseteq Starts
    /\ found \in [Starts -> SUBSET Starts] /\ asked \in [Starts -> SUBSET Starts]
    /\ targets \in [Starts -> SUBSET Starts] /\ denied \subseteq Starts
    /\ stop \in [Starts -> {"none", "asked", "exiting"}]
    /\ work \in [Starts -> {"idle", "apply", "bench"}]
    /\ hung \subseteq Starts /\ faults \in 0..MaxFaults

(* The file a newer start looks for the running instance with is that      *)
(* instance's own, from its write to its cleanup: nobody who stops, dies   *)
(* or fails removes or overwrites it (cli.py, _shutdown_cleanup).          *)
PidFileIsServers ==
    \A p \in written : pc[p] \in {"starting", "serving", "cleaning"} => pidFile = p

(* One instance, and only with the lock, however starts, stops and forced  *)
(* ends interleave: SoleInstance (cli.py, _claim_single_instance).         *)
Sole == INSTANCE SoleInstance
            WITH owner <- lock, serving <- {p \in Starts : pc[p] = "serving"}

ImplementsSole == Sole!SoleSpec

(* A start that found the lock taken serves in the end, or says why not:   *)
(* no wait for another process is for ever (cli.py, _claim_single_instance *)
(* and _wait_for_lock).                                                    *)
StartsSettle ==
    \A p \in Starts : pc[p] \in Claiming ~> pc[p] \in {"serving"} \cup Ended

(* Only a process that answers no /health is ended: the module text of     *)
(* utils/instance_reclaim.py, and the reason it logs.                      *)
OnlySilentEnded ==
    [][\A q \in Starts : Answers(q) /\ faults' = faults => pc'[q] # "gone"]_vars
=============================================================================
