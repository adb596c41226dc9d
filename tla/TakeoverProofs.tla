--------------------------- MODULE TakeoverProofs ---------------------------
(***************************************************************************)
(* What Takeover's run checks on three starts, for any number of them, any *)
(* ports, any mixture of releases and any number of crashes.               *)
(*                                                                         *)
(* The argument. A process stands between its claim and its end exactly    *)
(* when the lock is its own (OwnersHoldLock): every way out of those       *)
(* states gives the lock up in the same step, forced ends included. So     *)
(* whoever writes or removes the PID file is the only process whose file   *)
(* it can be, and whoever begins to serve serves alone.                    *)
(***************************************************************************)
EXTENDS Takeover, TLAPS

\* A process is between its claim and its end exactly when it has the lock.
OwnersHoldLock == \A p \in Starts : pc[p] \in Owning <=> lock = p

\* A process wrote its file after it claimed.
WrittenAfterClaim == \A p \in written : pc[p] \notin {"off", "held"} \cup Claiming

IInv == TypeOK /\ OwnersHoldLock /\ WrittenAfterClaim /\ PidFileIsServers


LEMMA InitEstablishes == Init => IInv
BY TakeoverAssumption
   DEF Init, IInv, TypeOK, OwnersHoldLock, WrittenAfterClaim, PidFileIsServers,
       Claiming, Owning, Ended

-----------------------------------------------------------------------------
(* Type correctness.                                                       *)

LEMMA ClaimKeepsType ==
    ASSUME TypeOK, NEW p \in Starts, Claim(p)
    PROVE  TypeOK'
<1> USE TakeoverAssumption DEF TypeOK, Move, claimVars, fileVars, serverVars, Claiming, Owning, Ended
<1>1. CASE Find(p)
  BY <1>1 DEF Find, Probed
<1>2. CASE Ask(p)
  <2>1. found[p] \subseteq Starts
    OBVIOUS
  <2> QED
    BY <1>2, <2>1 DEF Ask
<1>3. CASE TakeFreed(p)
  BY <1>3 DEF TakeFreed, Acquire
<1>4. CASE GiveUpWaiting(p)
  BY <1>4 DEF GiveUpWaiting
<1>5. CASE Reclaim(p)
  <2> DEFINE ends == IF Owners # {} THEN Owners ELSE Servers(p)
  <2>1. Stranger \in ends \/ ends \subseteq Starts
    BY DEF Owners, Servers
  <2> QED
    BY <1>5, <2>1 DEF Reclaim
<1>6. CASE EndTarget(p)
  BY <1>6 DEF EndTarget, Without
<1>7. CASE Reclaimed(p)
  BY <1>7 DEF Reclaimed
<1>8. CASE GiveUp(p)
  BY <1>8 DEF GiveUp
<1> QED
  BY <1>1, <1>2, <1>3, <1>4, <1>5, <1>6, <1>7, <1>8 DEF Claim

LEMMA NextKeepsType == TypeOK /\ [Next]_vars => TypeOK'
<1> SUFFICES ASSUME TypeOK, [Next]_vars PROVE TypeOK'
  OBVIOUS
<1> USE TakeoverAssumption DEF TypeOK, Move, claimVars, fileVars, serverVars, Claiming, Owning, Ended
<1>1. ASSUME NEW p \in Starts, Begin(p) PROVE TypeOK'
  BY <1>1 DEF Begin, Acquire
<1>2. ASSUME NEW p \in Starts, Claim(p) PROVE TypeOK'
  BY <1>2, ClaimKeepsType
<1>3. ASSUME NEW p \in Starts, WritePid(p) \/ LeaveEarly(p) \/ Listen(p) PROVE TypeOK'
  BY <1>3 DEF WritePid, LeaveEarly, Listen
<1>4. ASSUME NEW p \in Starts, BeginWork(p) \/ EndWork(p) PROVE TypeOK'
  BY <1>4 DEF BeginWork, EndWork
<1>5. ASSUME NEW p \in Starts, StopServer(p) \/ Drain(p) PROVE TypeOK'
  BY <1>5 DEF StopServer, Drain
<1>6. ASSUME NEW p \in Starts, Cleanup(p) PROVE TypeOK'
  BY <1>6 DEF Cleanup
<1>7. ASSUME NEW p \in Starts, Crash(p) \/ Hang(p) PROVE TypeOK'
  BY <1>7 DEF Crash, Hang, Fault, Without
<1>8. CASE StrangerLeaves
  BY <1>8 DEF StrangerLeaves
<1>9. CASE UNCHANGED vars
  BY <1>9 DEF vars
<1> QED
  BY <1>1, <1>2, <1>3, <1>4, <1>5, <1>6, <1>7, <1>8, <1>9 DEF Next

-----------------------------------------------------------------------------
(* The lock and the file.                                                  *)

Rest == OwnersHoldLock /\ WrittenAfterClaim /\ PidFileIsServers

LEMMA ClaimKeepsRest ==
    ASSUME IInv, NEW p \in Starts, Claim(p)
    PROVE  Rest'
<1> USE TakeoverAssumption
    DEF IInv, Rest, TypeOK, OwnersHoldLock, WrittenAfterClaim, PidFileIsServers,
        Move, claimVars, fileVars, serverVars, Claiming, Owning, Ended
<1>1. CASE Find(p) \/ Ask(p)
  BY <1>1 DEF Find, Ask
<1>2. CASE TakeFreed(p)
  BY <1>2 DEF TakeFreed, Acquire, LockFree
<1>3. CASE GiveUpWaiting(p) \/ GiveUp(p) \/ Reclaimed(p)
  BY <1>3 DEF GiveUpWaiting, GiveUp, Reclaimed
<1>4. CASE Reclaim(p)
  BY <1>4 DEF Reclaim
<1>5. CASE EndTarget(p)
  BY <1>5 DEF EndTarget, Without
<1> QED
  BY <1>1, <1>2, <1>3, <1>4, <1>5 DEF Claim

LEMMA NextKeepsRest == IInv /\ [Next]_vars => Rest'
<1> SUFFICES ASSUME IInv, [Next]_vars PROVE Rest'
  OBVIOUS
<1> USE TakeoverAssumption
    DEF IInv, Rest, TypeOK, OwnersHoldLock, WrittenAfterClaim, PidFileIsServers,
        Move, claimVars, fileVars, serverVars, Claiming, Owning, Ended
<1>1. ASSUME NEW p \in Starts, Begin(p) PROVE Rest'
  BY <1>1 DEF Begin, Acquire, LockFree
<1>2. ASSUME NEW p \in Starts, Claim(p) PROVE Rest'
  BY <1>2, ClaimKeepsRest
<1>3. ASSUME NEW p \in Starts, WritePid(p) PROVE Rest'
  BY <1>3 DEF WritePid
<1>4. ASSUME NEW p \in Starts, LeaveEarly(p) \/ Listen(p) PROVE Rest'
  BY <1>4 DEF LeaveEarly, Listen
<1>5. ASSUME NEW p \in Starts, BeginWork(p) \/ EndWork(p) \/ StopServer(p) \/ Drain(p) PROVE Rest'
  BY <1>5 DEF BeginWork, EndWork, StopServer, Drain
<1>6. ASSUME NEW p \in Starts, Cleanup(p) PROVE Rest'
  BY <1>6 DEF Cleanup
<1>7. ASSUME NEW p \in Starts, Crash(p) \/ Hang(p) PROVE Rest'
  BY <1>7 DEF Crash, Hang, Without, Alive
<1>8. CASE StrangerLeaves
  BY <1>8 DEF StrangerLeaves
<1>9. CASE UNCHANGED vars
  BY <1>9 DEF vars
<1> QED
  BY <1>1, <1>2, <1>3, <1>4, <1>5, <1>6, <1>7, <1>8, <1>9 DEF Next

LEMMA Inductive == IInv /\ [Next]_vars => IInv'
BY NextKeepsType, NextKeepsRest DEF IInv, Rest

\* The variables of the takeover never leave their types.
THEOREM TypeCorrect == Spec => []TypeOK
<1>1. IInv => TypeOK
  BY DEF IInv
<1> QED
  BY <1>1, InitEstablishes, Inductive, PTL DEF Spec

\* The PID file of a process that serves is its own, however many starts,
\* stops, forced ends and crashes meet (cli.py, _shutdown_cleanup).
THEOREM PidFileNamesServer == Spec => []PidFileIsServers
<1>1. IInv => PidFileIsServers
  BY DEF IInv
<1> QED
  BY <1>1, InitEstablishes, Inductive, PTL DEF Spec

-----------------------------------------------------------------------------
(* The takeover implements SoleInstance.                                   *)

Serving == {p \in Starts : pc[p] = "serving"}

LEMMA OwnerServesAlone ==
    ASSUME IInv, NEW p \in Starts, lock = p
    PROVE  Serving \subseteq {p}
BY DEF IInv, OwnersHoldLock, Serving, Owning

\* A process that is gone takes its lock and its service with it.
LEMMA GoneIsRelease ==
    ASSUME IInv, NEW q \in Starts, pc' = [pc EXCEPT ![q] = "gone"], lock' = Without(q)
    PROVE  Sole!Release(q) \/ UNCHANGED Sole!soleVars
<1>1. CASE lock = q
  <2>1. Serving' = {}
    BY <1>1, OwnerServesAlone DEF IInv, TypeOK, Serving
  <2> QED
    BY <1>1, <2>1 DEF Without, Sole!Release, Serving
<1>2. CASE lock # q
  <2>1. pc[q] # "serving"
    BY <1>2 DEF IInv, OwnersHoldLock, Owning
  <2>2. Serving' = Serving
    BY <2>1 DEF IInv, TypeOK, Serving
  <2> QED
    BY <1>2, <2>2 DEF Without, Sole!soleVars, Serving
<1> QED
  BY <1>1, <1>2

\* A step that moves one process between states in which it does not serve,
\* and leaves the lock alone, is none of SoleInstance's business.
LEMMA QuietMove ==
    ASSUME IInv, NEW p \in Starts, NEW to, to # "serving", pc[p] # "serving",
           pc' = [pc EXCEPT ![p] = to]
    PROVE  Serving' = Serving
BY DEF IInv, TypeOK, Serving

LEMMA ClaimRefines ==
    ASSUME IInv, NEW p \in Starts, Claim(p)
    PROVE  [Sole!SoleNext]_Sole!soleVars
<1> USE DEF Move, claimVars, fileVars, serverVars
<1>1. CASE Find(p) \/ Ask(p) \/ GiveUpWaiting(p) \/ GiveUp(p)
  <2>1. Serving' = Serving
    BY <1>1, QuietMove DEF Find, Ask, GiveUpWaiting, GiveUp
  <2> QED
    BY <1>1, <2>1 DEF Find, Ask, GiveUpWaiting, GiveUp, Sole!soleVars, Serving
<1>2. CASE TakeFreed(p)
  <2>1. Serving' = Serving
    BY <1>2, QuietMove DEF TakeFreed, Acquire
  <2>2. Sole!Take(p)
    BY <1>2, <2>1 DEF TakeFreed, Acquire, LockFree, Sole!Take, Serving
  <2> QED
    BY <2>2 DEF Sole!SoleNext
<1>3. CASE Reclaim(p)
  <2>1. Serving' = Serving
    BY <1>3, QuietMove DEF Reclaim
  <2> QED
    BY <1>3, <2>1 DEF Reclaim, Sole!soleVars, Serving
<1>4. CASE Reclaimed(p)
  <2>1. Serving' = Serving
    BY <1>4, QuietMove DEF Reclaimed
  <2> QED
    BY <1>4, <2>1 DEF Reclaimed, Sole!soleVars, Serving
<1>5. CASE EndTarget(p)
  <2>1. PICK q \in targets[p] :
            \/ pc' = [pc EXCEPT ![q] = "gone"] /\ lock' = Without(q)
            \/ UNCHANGED <<pc, lock>>
    BY <1>5 DEF EndTarget
  <2>2. q \in Starts
    BY DEF IInv, TypeOK
  <2> QED
    BY <2>1, <2>2, GoneIsRelease DEF Sole!SoleNext, Sole!soleVars
<1> QED
  BY <1>1, <1>2, <1>3, <1>4, <1>5 DEF Claim

LEMMA StepRefines == IInv /\ [Next]_vars => [Sole!SoleNext]_Sole!soleVars
<1> SUFFICES ASSUME IInv, [Next]_vars PROVE [Sole!SoleNext]_Sole!soleVars
  OBVIOUS
<1> USE DEF Move, claimVars, fileVars, serverVars
<1>1. ASSUME NEW p \in Starts, Begin(p) PROVE [Sole!SoleNext]_Sole!soleVars
  <2>1. Serving' = Serving
    BY <1>1, QuietMove DEF Begin, Acquire
  <2>2. Sole!Take(p) \/ UNCHANGED Sole!soleVars
    BY <1>1, <2>1 DEF Begin, Acquire, LockFree, Sole!Take, Sole!soleVars, Serving
  <2> QED
    BY <2>2 DEF Sole!SoleNext
<1>2. ASSUME NEW p \in Starts, Claim(p) PROVE [Sole!SoleNext]_Sole!soleVars
  BY <1>2, ClaimRefines
<1>3. ASSUME NEW p \in Starts, WritePid(p) PROVE [Sole!SoleNext]_Sole!soleVars
  <2>1. Serving' = Serving
    BY <1>3, QuietMove DEF WritePid
  <2> QED
    BY <1>3, <2>1 DEF WritePid, Sole!soleVars, Serving
<1>4. ASSUME NEW p \in Starts, LeaveEarly(p) PROVE [Sole!SoleNext]_Sole!soleVars
  <2>1. lock = p
    BY <1>4 DEF LeaveEarly, IInv, OwnersHoldLock, Owning
  <2>2. Serving' = {}
    BY <1>4, <2>1, OwnerServesAlone DEF LeaveEarly, IInv, TypeOK, Serving
  <2>3. Sole!Release(p)
    BY <1>4, <2>1, <2>2 DEF LeaveEarly, Sole!Release, Serving
  <2> QED
    BY <2>3 DEF Sole!SoleNext
<1>5. ASSUME NEW p \in Starts, Listen(p) PROVE [Sole!SoleNext]_Sole!soleVars
  <2>1. lock = p /\ lock' = p
    BY <1>5 DEF Listen, IInv, OwnersHoldLock, Owning
  <2>2. Serving' = Serving \/ Serving' = {p}
    BY <1>5, <2>1, OwnerServesAlone DEF Listen, IInv, TypeOK, Serving
  <2> QED
    BY <2>1, <2>2 DEF Sole!Serve, Sole!SoleNext, Sole!soleVars, Serving
<1>6. ASSUME NEW p \in Starts, BeginWork(p) \/ EndWork(p) \/ StopServer(p) \/ Hang(p)
      PROVE  [Sole!SoleNext]_Sole!soleVars
  BY <1>6 DEF BeginWork, EndWork, StopServer, Hang, Sole!soleVars
<1>7. ASSUME NEW p \in Starts, Drain(p) PROVE [Sole!SoleNext]_Sole!soleVars
  <2>1. lock = p /\ lock' = p
    BY <1>7 DEF Drain, IInv, OwnersHoldLock, Owning
  <2>2. Serving' = {}
    BY <1>7, <2>1, OwnerServesAlone DEF Drain, IInv, TypeOK, Serving
  <2>3. Sole!Rest(p)
    BY <2>1, <2>2 DEF Sole!Rest, Serving
  <2> QED
    BY <2>3 DEF Sole!SoleNext
<1>8. ASSUME NEW p \in Starts, Cleanup(p) PROVE [Sole!SoleNext]_Sole!soleVars
  <2>1. lock = p
    BY <1>8 DEF Cleanup, IInv, OwnersHoldLock, Owning
  <2>2. Serving = {} /\ Serving' = {}
    BY <1>8, <2>1, OwnerServesAlone DEF Cleanup, IInv, TypeOK, Serving
  <2>3. Sole!Release(p) \/ UNCHANGED Sole!soleVars
    BY <1>8, <2>1, <2>2 DEF Cleanup, Sole!Release, Sole!soleVars, Serving
  <2> QED
    BY <2>3 DEF Sole!SoleNext
<1>9. ASSUME NEW p \in Starts, Crash(p) PROVE [Sole!SoleNext]_Sole!soleVars
  BY <1>9, GoneIsRelease DEF Crash, Sole!SoleNext
<1>10. CASE StrangerLeaves
  <2>1. Sole!StrangerLeaves
    BY <1>10 DEF StrangerLeaves, Sole!StrangerLeaves
  <2> QED
    BY <2>1 DEF Sole!SoleNext
<1>11. CASE UNCHANGED vars
  BY <1>11 DEF vars, Sole!soleVars
<1> QED
  BY <1>1, <1>2, <1>3, <1>4, <1>5, <1>6, <1>7, <1>8, <1>9, <1>10, <1>11 DEF Next

\* Whatever the interleaving of starts, stops, forced ends and crashes, one
\* process at a time serves, and only with the lock.
THEOREM OneInstanceServes == Spec => ImplementsSole
<1>1. Init => Sole!SoleInit
  BY DEF Init, Sole!SoleInit
<1> QED
  BY <1>1, InitEstablishes, Inductive, StepRefines, PTL DEF Spec, ImplementsSole, Sole!SoleSpec
=============================================================================
