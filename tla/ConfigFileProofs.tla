-------------------------- MODULE ConfigFileProofs --------------------------
(***************************************************************************)
(* Proofs about ConfigFile, for any writers, processes and settings.       *)
(***************************************************************************)
EXTENDS ConfigFile, TLAPS

(***************************************************************************)
(* Why what was read back stays. A writer nobody races is the only one of  *)
(* its setting, has its lock to itself and sees no game; so no text read   *)
(* before its lines were written is still about when they are read back,   *)
(* neither in a writer's hands nor in a game's memory.                     *)
(***************************************************************************)
HoldersRace ==
    \A w, u \in Writers : w # u /\ HasFile(w) /\ HasFile(u) => w \in raced

PlayersRace == \A w \in Writers : game.on /\ Busy(w) => w \in raced

RivalsRace ==
    \A w, u \in Writers : w # u /\ Busy(w) /\ Busy(u) /\ job[w].s = job[u].s => w \in raced

NothingOwedYet == \A w \in Writers : Busy(w) => owed[job[w].s] = Nothing

(* A text holds all that is owed.                                          *)
Keeps(text) ==
    \A s \in Settings : owed[s] # Nothing => \A n \in Lines(s) : text[s][n] = owed[s][n]

MemoryKeeps == game.on => Keeps(game.memory)

CopiesKeep == \A w \in Writers : pc[w] = "replace" => Keeps(copy[w])

(* The lines a writer is done with.                                        *)
Through(w) == {n \in Lines(job[w].s) : pc[w] = "verify" \/ n < job[w].line}

(* What a copy says of them is what the file says.                         *)
CopiesAgree ==
    \A w, u \in Writers :
        /\ pc[w] = "replace" /\ Busy(u) /\ u \notin raced /\ job[u].s # job[w].s
        => \A n \in Through(u) : copy[w][job[u].s][n] = file[job[u].s][n]

Histories == HoldersRace /\ PlayersRace /\ RivalsRace /\ NothingOwedYet

IInv == TypeOK /\ Histories /\ VerifiedIsKept /\ MemoryKeeps /\ CopiesKeep /\ CopiesAgree
-----------------------------------------------------------------------------
(* The initial predicate gives the invariant.                              *)
LEMMA InitIInv == Init => IInv
  <1> SUFFICES ASSUME Init PROVE IInv
    OBVIOUS
  <1>1. Text \in Content
    BY DEF Text, Content, Values
  <1>2. TypeOK
    BY <1>1, ConfigAssumption DEF Init, TypeOK, Off, NoJob, Busy, HasFile
  <1> QED
    BY <1>2 DEF Init, IInv, Histories, HoldersRace, PlayersRace, RivalsRace,
      NothingOwedYet, VerifiedIsKept, MemoryKeeps, CopiesKeep, CopiesAgree, Off,
      Busy, HasFile

LEMMA TextIsContent == Text \in Content
  BY DEF Text, Content, Values

(* A writer's lock is the named mutex or its process's own, before and     *)
(* after Windows was asked.                                                *)
LocksFit == /\ lock \in [Writers -> Procs \cup {"named"}]
            /\ \A u \in Writers : lock[u] \in {"named", where[u]}

LEMMA Asked ==
  ASSUME LocksFit, where \in [Writers -> Procs], UNCHANGED where, NEW w \in Writers,
         AskForMutex(w) \/ UNCHANGED lock
  PROVE  LocksFit' /\ \A u \in Writers \ {w} : lock'[u] = lock[u]
  <1>1. CASE UNCHANGED lock
    BY <1>1 DEF LocksFit
  <1>2. CASE AskForMutex(w)
    <2>1. PICK l \in {"named", where[w]} : lock' = [lock EXCEPT ![w] = l]
      BY <1>2 DEF AskForMutex
    <2>2. l \in Procs \cup {"named"}
      BY <2>1
    <2> QED
      BY <2>1, <2>2 DEF LocksFit
  <1> QED
    BY <1>1, <1>2

(* A writer that is done with a line gives its lock back and goes on to    *)
(* the next one, to reading back, or out.                                  *)
WentOn(w) ==
    /\ copy' \in [Writers -> Content]
    /\ holder' \in [Procs \cup {"named"} -> Writers \cup {Nobody}]
    /\ pc' \in [Writers -> {"idle", "lock", "read", "replace", "verify"}]
    /\ job' \in [Writers -> [s : Settings \cup {"none"}, v : Values \cup {"none"},
                             line : 0..2]]
    /\ pc'[w] \in {"idle", "lock", "verify"}
    /\ \A u \in Writers \ {w} :
         pc'[u] = pc[u] /\ job'[u] = job[u] /\ copy'[u] = copy[u]
    /\ wrote' \cup raced' \subseteq {u \in Writers : Busy(u)'}
    /\ raced' \subseteq raced /\ \A u \in raced : Busy(u)' => u \in raced'
    /\ Busy(w)' =>
         /\ job'[w].s = job[w].s /\ job'[w].v = job[w].v
         /\ job'[w].line \in Lines(job[w].s)
         /\ Through(w)' \subseteq Through(w) \cup {job[w].line}
    /\ lock' \in [Writers -> Procs \cup {"named"}]
    /\ \A u \in Writers : lock'[u] \in {"named", where[u]}
    /\ \A u \in Writers : HasFile(u)' => holder'[lock'[u]] = u

LEMMA LineDone ==
  ASSUME TypeOK, NEW w \in Writers, HasFile(w), Release(w), NextLine(w),
         wrote' \in {wrote, wrote \cup {w}}, UNCHANGED where
  PROVE  WentOn(w)
  <1> USE DEF TypeOK, HasFile, Busy
  <1>1. /\ copy' \in [Writers -> Content]
        /\ \A u \in Writers \ {w} : copy'[u] = copy[u]
    BY TextIsContent DEF Release
  <1>2. /\ holder' \in [Procs \cup {"named"} -> Writers \cup {Nobody}]
        /\ \A u \in Writers \ {w} : HasFile(u) => holder'[lock[u]] = u
    BY DEF Release
  <1>6. /\ lock' \in [Writers -> Procs \cup {"named"}]
        /\ \A u \in Writers : lock'[u] \in {"named", where[u]}
        /\ \A u \in Writers \ {w} : lock'[u] = lock[u]
    <2>1. AskForMutex(w) \/ UNCHANGED lock
      BY DEF NextLine
    <2>2. LocksFit
      BY DEF LocksFit
    <2> QED
      BY <2>1, <2>2, Asked DEF LocksFit
  <1>3. job[w] \in [s : Settings, v : Values, line : 1..2] /\ job[w].line \in Lines(job[w].s)
    BY DEF Lines
  <1>4. CASE job[w].line + 1 \in Lines(job[w].s)
    <2>1. /\ pc' = [pc EXCEPT ![w] = "lock"] /\ raced' = raced
          /\ job' = [job EXCEPT ![w] = [s |-> job[w].s, v |-> job[w].v,
                                       line |-> job[w].line + 1]]
      BY <1>4 DEF NextLine
    <2>2. job[w].line = 1 /\ 2 \in Lines(job[w].s)
      BY <1>3, <1>4 DEF Lines
    <2>3. job'[w] = [s |-> job[w].s, v |-> job[w].v, line |-> 2]
      BY <2>1, <2>2
    <2>4. Through(w)' \subseteq Through(w) \cup {job[w].line}
      BY <2>1, <2>2, <2>3 DEF Through, Lines
    <2> QED
      BY <1>1, <1>2, <1>3, <1>6, <2>1, <2>2, <2>3, <2>4 DEF WentOn, Lines
  <1>5. CASE job[w].line + 1 \notin Lines(job[w].s) /\ w \in wrote'
    <2>1. pc' = [pc EXCEPT ![w] = "verify"] /\ job' = job /\ raced' = raced
      BY <1>5 DEF NextLine
    <2>2. Through(w)' \subseteq Through(w) \cup {job[w].line}
      BY <1>3, <1>5, <2>1 DEF Through, Lines
    <2> QED
      BY <1>1, <1>2, <1>3, <1>6, <2>1, <2>2 DEF WentOn
  <1>7. CASE job[w].line + 1 \notin Lines(job[w].s) /\ w \notin wrote'
    <2>1. /\ pc' = [pc EXCEPT ![w] = "idle"] /\ job' = [job EXCEPT ![w] = NoJob]
          /\ raced' = raced \ {w}
      BY <1>7 DEF NextLine
    <2>2. NoJob \in [s : Settings \cup {"none"}, v : Values \cup {"none"}, line : 0..2]
      BY DEF NoJob
    <2> QED
      BY <1>1, <1>2, <1>3, <1>6, <1>7, <2>1, <2>2 DEF WentOn
  <1> QED
    BY <1>4, <1>5, <1>7 DEF WentOn

(* A writer takes its copy of the file.                                    *)
Copies(w) ==
    /\ pc[w] = "read" /\ pc' = [pc EXCEPT ![w] = "replace"]
    /\ copy' = [copy EXCEPT ![w] = file]
    /\ UNCHANGED <<where, file, game, list, left, owed, wrote, lock, holder, job, raced>>

LEMMA ReadKinds ==
  ASSUME TypeOK, NEW w \in Writers, Read(w)
  PROVE  Copies(w) \/ (WentOn(w) /\ HasFile(w))
  <1>1. CASE file[job[w].s][job[w].line] = job[w].v
    BY <1>1, LineDone DEF Read, HasFile
  <1>2. CASE file[job[w].s][job[w].line] # job[w].v
    BY <1>2 DEF Read, Copies
  <1> QED
    BY <1>1, <1>2

(* A step is an apply, a writer that goes on, or the world around them.    *)
LEMMA TypeStep == TypeOK /\ [Next]_vars => TypeOK'
  <1> SUFFICES ASSUME TypeOK, [Next]_vars PROVE TypeOK'
    OBVIOUS
  <1>1. ASSUME NEW w \in Writers, NEW s \in Settings, NEW v \in Values, Apply(w, s, v)
        PROVE  TypeOK'
    <2>1. PICK seen \in {"on", "off", "empty"} :
             /\ list' = [list EXCEPT ![where[w]] = seen]
             /\ IF seen = "on"
                THEN UNCHANGED <<pc, job, lock, raced, owed>>
                ELSE /\ pc' = [pc EXCEPT ![w] = "lock"]
                     /\ AskForMutex(w)
                     /\ job' = [job EXCEPT ![w] = [s |-> s, v |-> v, line |-> 1]]
                     /\ raced' \subseteq raced \cup {u \in Writers : Busy(u)} \cup {w}
                     /\ owed' = [owed EXCEPT ![s] = Nothing]
      <3>1. Listed(where[w]) \subseteq {"on", "off", "empty"}
        BY DEF Listed, TypeOK
      <3>2. Rivals(w, s) \subseteq {u \in Writers : Busy(u)} \cup {w}
        BY DEF Rivals
      <3> QED
        BY <1>1, <3>1, <3>2 DEF Apply
    <2>2. 1 \in Lines(s) /\ w \notin raced /\ pc[w] = "idle"
      BY <1>1 DEF Apply, Lines, TypeOK, Busy
    <2>3. CASE seen = "on"
      <3>1. UNCHANGED <<where, file, game, pc, job, copy, wrote, lock, holder, raced, owed>>
        BY <1>1, <2>1, <2>3 DEF Apply
      <3> QED
        BY <1>1, <2>1, <3>1, ConfigAssumption DEF Apply, TypeOK, Busy, HasFile
    <2>4. CASE seen # "on"
      <3>1. /\ UNCHANGED <<where, file, game, copy, wrote, holder>>
            /\ AskForMutex(w)
            /\ pc' = [pc EXCEPT ![w] = "lock"]
            /\ job' = [job EXCEPT ![w] = [s |-> s, v |-> v, line |-> 1]]
            /\ raced' \subseteq raced \cup {u \in Writers : Busy(u)} \cup {w}
            /\ owed' = [owed EXCEPT ![s] = Nothing]
        BY <1>1, <2>1, <2>4 DEF Apply
      <3>2. [s |-> s, v |-> v, line |-> 1]
              \in [s : Settings \cup {"none"}, v : Values \cup {"none"}, line : 0..2]
        OBVIOUS
      <3>3. wrote' \cup raced' \subseteq {u \in Writers : Busy(u)'}
        BY <2>2, <3>1 DEF TypeOK, Busy
      <3>6. /\ lock' \in [Writers -> Procs \cup {"named"}]
            /\ \A u \in Writers : lock'[u] \in {"named", where[u]}
            /\ \A u \in Writers \ {w} : lock'[u] = lock[u]
        BY <3>1, Asked DEF LocksFit, TypeOK
      <3>4. \A u \in Writers : HasFile(u)' => HasFile(u) /\ lock'[u] = lock[u]
        BY <2>2, <3>1, <3>6 DEF TypeOK, HasFile
      <3>5. \A u \in Writers : Busy(u)' => /\ job'[u].s \in Settings /\ job'[u].v \in Values
                                          /\ job'[u].line \in Lines(job'[u].s)
        BY <2>2, <3>1 DEF TypeOK, Busy
      <3>7. /\ list' \in [Procs -> {"none", "on", "off", "empty"}]
            /\ left' \in 0..MaxWrites
        BY <1>1, <2>1, ConfigAssumption DEF Apply, TypeOK
      <3>8. /\ pc' \in [Writers -> {"idle", "lock", "read", "replace", "verify"}]
            /\ job' \in [Writers -> [s : Settings \cup {"none"}, v : Values \cup {"none"},
                                     line : 0..2]]
            /\ owed' \in [Settings -> [1..2 -> Values] \cup {Nothing}]
        BY <3>1, <3>2 DEF TypeOK
      <3>9. \A u \in Writers : HasFile(u)' => holder'[lock'[u]] = u
        BY <3>1, <3>4 DEF TypeOK
      <3> QED
        BY <3>1, <3>3, <3>5, <3>6, <3>7, <3>8, <3>9 DEF TypeOK
    <2> QED
      BY <2>3, <2>4
  <1>2. ASSUME NEW p \in Procs, Expire(p) PROVE TypeOK'
    BY <1>2, ConfigAssumption DEF TypeOK, Busy, HasFile, Lines, Nobody, Expire, NoJob, Content,
       Text, Values
  <1>3. ASSUME NEW w \in Writers, Lock(w) PROVE TypeOK'
    BY <1>3, ConfigAssumption DEF TypeOK, Busy, HasFile, Lines, Nobody, Lock, Move, Overlap,
       NoJob, Content, Text, Values
  <1>4. ASSUME NEW w \in Writers, LockTimeout(w) PROVE TypeOK'
    BY <1>4, ConfigAssumption DEF TypeOK, Busy, HasFile, Lines, Nobody, LockTimeout, Move,
       Leaves, NoJob, Content, Text, Values
  <1>5. ASSUME NEW w \in Writers, Reject(w) PROVE TypeOK'
    BY <1>5, ConfigAssumption DEF TypeOK, Busy, HasFile, Lines, Nobody, Reject, Move, Leaves,
       NoJob, Content, Text, Values
  <1>6. ASSUME NEW w \in Writers, Read(w) PROVE TypeOK'
    <2>1. CASE WentOn(w)
      BY <1>6, <2>1 DEF Read, WentOn, TypeOK, Busy
    <2>2. CASE Copies(w)
      <3>1. \A u \in Writers : HasFile(u)' <=> HasFile(u)
        BY <2>2 DEF Copies, HasFile, TypeOK
      <3> QED
        BY <2>2, <3>1 DEF Copies, TypeOK, Busy
    <2> QED
      BY <1>6, <2>1, <2>2, ReadKinds
  <1>7. ASSUME NEW w \in Writers, ReadFails(w) PROVE TypeOK'
    <2>1. WentOn(w)
      BY <1>7, LineDone DEF ReadFails, HasFile
    <2> QED
      BY <1>7, <2>1 DEF ReadFails, WentOn, TypeOK, Busy
  <1>8. ASSUME NEW w \in Writers, Replace(w) PROVE TypeOK'
    <2>1. file' \in Content
      <3>1. /\ file' = [copy[w] EXCEPT ![job[w].s][job[w].line] = job[w].v]
            /\ copy[w] \in Content /\ job[w].s \in Settings /\ job[w].v \in Values
            /\ job[w].line \in 1..2
        BY <1>8 DEF Replace, TypeOK, Busy, Lines
      <3> QED
        BY <3>1 DEF Content
    <2>2. WentOn(w)
      BY <1>8, LineDone DEF Replace, HasFile
    <2> QED
      BY <1>8, <2>1, <2>2 DEF Replace, WentOn, TypeOK, Busy
  <1>9. ASSUME NEW w \in Writers, ReplaceFails(w) PROVE TypeOK'
    BY <1>9, ConfigAssumption DEF TypeOK, Busy, HasFile, Lines, Nobody, ReplaceFails, Move,
       Leaves, Release, NoJob, Content, Text, Values
  <1>10. ASSUME NEW w \in Writers, Verify(w) PROVE TypeOK'
    BY <1>10, ConfigAssumption DEF TypeOK, Busy, HasFile, Lines, Nobody, Verify, Move, Leaves,
       NoJob, Content, Text, Values
  <1>11. ASSUME NEW p \in Procs, Die(p) PROVE TypeOK'
    BY <1>11, ConfigAssumption DEF TypeOK, Busy, HasFile, Lines, Nobody, Die, NoJob, Content,
       Text, Values
  <1>12. CASE GameStarts
    BY <1>12, ConfigAssumption DEF TypeOK, Busy, HasFile, Lines, Nobody, GameStarts
  <1>13. CASE GameEnds
    BY <1>13, ConfigAssumption DEF TypeOK, Busy, HasFile, Lines, Nobody, GameEnds, Off, Text,
       Content, Values
  <1>14. CASE UNCHANGED vars
    BY <1>14 DEF vars, TypeOK, Busy, HasFile
  <1> QED
    BY <1>1, <1>2, <1>3, <1>4, <1>5, <1>6, <1>7, <1>8, <1>9, <1>10, <1>11, <1>12, <1>13, <1>14
       DEF Next, Goes

(* What becomes of the others when a writer leaves, and of all when it     *)
(* goes on.                                                                *)
LEMMA HistoriesStep == TypeOK /\ Histories /\ [Next]_vars => Histories'
  <1> SUFFICES ASSUME TypeOK, Histories, [Next]_vars PROVE Histories'
    OBVIOUS
  <1> USE DEF Histories, HoldersRace, PlayersRace, RivalsRace, NothingOwedYet, HasFile, Busy
  <1>1. ASSUME NEW w \in Writers, NEW s \in Settings, NEW v \in Values, Apply(w, s, v)
        PROVE  Histories'
    <2>1. /\ pc[w] = "idle" /\ UNCHANGED game
          /\ \/ UNCHANGED <<pc, job, raced, owed>>
             \/ /\ pc' = [pc EXCEPT ![w] = "lock"]
                /\ job' = [job EXCEPT ![w] = [s |-> s, v |-> v, line |-> 1]]
                /\ owed' = [owed EXCEPT ![s] = Nothing]
                /\ raced \cup Rivals(w, s) \subseteq raced'
                /\ game.on => w \in raced'
      <3> HIDE DEF Histories
      <3>1. PICK seen \in Listed(where[w]) :
              IF seen = "on"
              THEN UNCHANGED <<pc, job, lock, raced, owed>>
              ELSE /\ pc' = [pc EXCEPT ![w] = "lock"] /\ AskForMutex(w)
                   /\ job' = [job EXCEPT ![w] = [s |-> s, v |-> v, line |-> 1]]
                   /\ raced' = raced \cup Rivals(w, s) \cup
                        (IF game.on /\ (list[where[w]] = "off" \/ seen = "empty")
                         THEN {w} ELSE {})
                   /\ owed' = [owed EXCEPT ![s] = Nothing]
        BY <1>1 DEF Apply
      <3>2. game.on /\ seen # "on" => list[where[w]] = "off" \/ seen = "empty"
        BY <3>1 DEF Listed, TypeOK
      <3>3. pc[w] = "idle" /\ UNCHANGED game
        BY <1>1 DEF Apply
      <3>4. CASE seen = "on"
        BY <3>1, <3>3, <3>4
      <3>5. CASE seen # "on"
        BY <3>1, <3>2, <3>3, <3>5
      <3> QED
        BY <3>4, <3>5
    <2>2. CASE UNCHANGED <<pc, job, raced, owed>>
      BY <2>1, <2>2
    <2>3. CASE pc' = [pc EXCEPT ![w] = "lock"]
      <3>1. /\ pc'[w] = "lock" /\ \A u \in Writers \ {w} : pc'[u] = pc[u]
            /\ pc[w] = "idle"
        BY <2>1, <2>3 DEF TypeOK
      <3>2. /\ job'[w].s = s /\ \A u \in Writers \ {w} : job'[u] = job[u]
            /\ owed' = [owed EXCEPT ![s] = Nothing]
            /\ raced \cup Rivals(w, s) \subseteq raced'
            /\ game.on => w \in raced'
        BY <2>1, <3>1 DEF TypeOK
      <3>3. HoldersRace'
        BY <3>1, <3>2
      <3>4. PlayersRace'
        BY <2>1, <3>1, <3>2
      <3>5. \A u \in Writers \ {w} : Busy(u) /\ job[u].s = s => {u, w} \subseteq raced'
        BY <3>2 DEF Rivals
      <3>6. RivalsRace'
        BY <3>1, <3>2, <3>5
      <3>7. NothingOwedYet'
        BY <3>1, <3>2 DEF TypeOK
      <3> QED
        BY <3>3, <3>4, <3>6, <3>7
    <2> QED
      BY <2>1, <2>2, <2>3
  <1>2. ASSUME NEW p \in Procs, Expire(p) PROVE Histories'
    BY <1>2 DEF Expire
  <1>3. ASSUME NEW w \in Writers, Lock(w) PROVE Histories'
    <2>1. \A u \in Writers : HasFile(u) => lock[u] # lock[w]
      BY <1>3, ConfigAssumption DEF Lock, TypeOK, Nobody
    <2>2. /\ pc' = [pc EXCEPT ![w] = "read"] /\ pc[w] = "lock"
          /\ UNCHANGED <<game, job, owed>> /\ raced \subseteq raced'
      BY <1>3 DEF Lock, Move
    <2>3. \A u \in Writers \ {w} : HasFile(u) => {u, w} \subseteq raced'
      BY <1>3, <2>1 DEF Lock, Overlap
    <2> QED
      BY <2>2, <2>3 DEF TypeOK
  <1>4. ASSUME NEW w \in Writers, LockTimeout(w) PROVE Histories'
    BY <1>4 DEF LockTimeout, Move, Leaves, TypeOK
  <1>5. ASSUME NEW w \in Writers, Reject(w) PROVE Histories'
    BY <1>5 DEF Reject, Move, Leaves, TypeOK
  <1>6. ASSUME NEW w \in Writers, WentOn(w), HasFile(w), UNCHANGED <<game, owed>> PROVE Histories'
    <2>1. \A u \in Writers : Busy(u)' => Busy(u) /\ job'[u].s = job[u].s
      BY <1>6 DEF WentOn
    <2>2. \A u \in Writers : HasFile(u)' => HasFile(u)
      BY <1>6 DEF WentOn
    <2>3. \A u \in Writers : u \in raced /\ Busy(u)' => u \in raced'
      BY <1>6 DEF WentOn
    <2> QED
      BY <1>6, <2>1, <2>2, <2>3
  <1>7. ASSUME NEW w \in Writers, ReplaceFails(w) PROVE Histories'
    BY <1>7 DEF ReplaceFails, Move, Leaves, TypeOK
  <1>8. ASSUME NEW w \in Writers, Verify(w) PROVE Histories'
    BY <1>8 DEF Verify, Move, Leaves, TypeOK
  <1>9. ASSUME NEW p \in Procs, Die(p) PROVE Histories'
    BY <1>9 DEF Die, TypeOK
  <1>10. CASE GameStarts
    BY <1>10 DEF GameStarts, TypeOK
  <1>11. CASE GameEnds
    BY <1>11 DEF GameEnds, Off
  <1>12. CASE UNCHANGED vars
    BY <1>12 DEF vars
  <1>13. ASSUME NEW w \in Writers, Copies(w) PROVE Histories'
    BY <1>13 DEF Copies, TypeOK
  <1> QED
    <2>1. ASSUME NEW w \in Writers, Read(w) PROVE Histories'
      BY <1>6, <1>13, <2>1, ReadKinds DEF Read
    <2>2. ASSUME NEW w \in Writers, ReadFails(w) PROVE Histories'
      BY <1>6, <2>2, LineDone DEF ReadFails
    <2>3. ASSUME NEW w \in Writers, Replace(w) PROVE Histories'
      BY <1>6, <2>3, LineDone DEF Replace
    <2> QED
      BY <1>1, <1>2, <1>3, <1>4, <1>5, <1>7, <1>8, <1>9, <1>10, <1>11, <1>12, <2>1, <2>2,
         <2>3 DEF Next, Goes

Kept == VerifiedIsKept /\ MemoryKeeps /\ CopiesKeep /\ CopiesAgree

(* A step that changes no text and promises nothing new.                   *)
LEMMA NothingNew ==
  ASSUME TypeOK, Kept, UNCHANGED <<file, game>>,
         \A s \in Settings : owed'[s] \in {owed[s], Nothing},
         \A w \in Writers : pc'[w] = "replace" =>
             pc[w] = "replace" /\ copy'[w] = copy[w] /\ job'[w] = job[w],
         \A u \in Writers : Busy(u)' /\ u \notin raced' /\ Through(u)' # {} =>
             /\ Busy(u) /\ u \notin raced
             /\ job'[u].s = job[u].s /\ Through(u)' \subseteq Through(u)
  PROVE  Kept'
  <1>1. VerifiedIsKept'
    BY DEF Kept, VerifiedIsKept
  <1>2. MemoryKeeps'
    BY DEF Kept, MemoryKeeps, Keeps
  <1>3. CopiesKeep'
    BY DEF Kept, CopiesKeep, Keeps
  <1>4. CopiesAgree'
    BY DEF Kept, CopiesAgree
  <1> QED
    BY <1>1, <1>2, <1>3, <1>4 DEF Kept

(* The file, the game's memory and every copy go on holding what is owed,  *)
(* and the copies agree with the file on the lines that are done.          *)
LEMMA KeptStep == TypeOK /\ Histories /\ Kept /\ [Next]_vars => Kept'
  <1> SUFFICES ASSUME TypeOK, Histories, Kept, [Next]_vars PROVE Kept'
    OBVIOUS
  <1>1. ASSUME NEW w \in Writers, NEW s \in Settings, NEW v \in Values, Apply(w, s, v)
        PROVE  Kept'
    <2>1. /\ \A x \in Settings : owed'[x] \in {owed[x], Nothing}
          /\ UNCHANGED <<file, game, copy>>
      BY <1>1 DEF Apply, TypeOK
    <2>2. \A u \in Writers \ {w} : pc'[u] = pc[u] /\ job'[u] = job[u] /\ (u \in raced => u \in raced')
      BY <1>1 DEF Apply, TypeOK
    <2>3. pc[w] = "idle" /\ pc'[w] \in {"idle", "lock"}
          /\ (pc'[w] = "lock" => job'[w].line = 1)
      BY <1>1 DEF Apply, TypeOK
    <2>4. Busy(w)' => Through(w)' = {}
      BY <2>3 DEF Through, Busy, Lines
    <2>5. \A u \in Writers \ {w} : Through(u)' = Through(u) /\ (Busy(u)' <=> Busy(u))
      BY <2>2 DEF Through, Busy
    <2> QED
      BY <2>1, <2>2, <2>3, <2>4, <2>5, NothingNew
  <1>2. ASSUME NEW p \in Procs, Expire(p) PROVE Kept'
    BY <1>2, NothingNew DEF Expire, Through, Busy
  <1>3. ASSUME NEW w \in Writers, Lock(w) PROVE Kept'
    <2>1. \A u \in Writers : Through(u)' = Through(u)
      BY <1>3 DEF Lock, Move, Through, TypeOK
    <2> QED
      BY <1>3, <2>1, NothingNew DEF Lock, Move, Busy, TypeOK
  <1>4. ASSUME NEW w \in Writers, pc' = [pc EXCEPT ![w] = "idle"], Leaves(w),
               copy' \in {copy, [copy EXCEPT ![w] = Text]}, UNCHANGED <<file, game, owed>>
        PROVE  Kept'
    <2>1. \A u \in Writers \ {w} : /\ pc'[u] = pc[u] /\ job'[u] = job[u] /\ copy'[u] = copy[u]
                                   /\ (u \in raced <=> u \in raced')
                                   /\ Through(u)' = Through(u)
      BY <1>4 DEF Leaves, Through, TypeOK
    <2>2. ~Busy(w)' /\ pc'[w] # "replace"
      BY <1>4 DEF Busy, TypeOK
    <2> QED
      BY <1>4, <2>1, <2>2, NothingNew DEF Busy
  <1>5. ASSUME NEW w \in Writers, LockTimeout(w) \/ Reject(w) \/ ReplaceFails(w) PROVE Kept'
    BY <1>4, <1>5 DEF LockTimeout, Reject, ReplaceFails, Move, Release
  <1>6. ASSUME NEW w \in Writers, WentOn(w), HasFile(w), UNCHANGED <<file, game, owed>>
        PROVE  Kept'
    <2>1. \A u \in Writers \ {w} :
            /\ pc'[u] = pc[u] /\ job'[u] = job[u] /\ copy'[u] = copy[u]
            /\ Through(u)' = Through(u) /\ (Busy(u)' <=> Busy(u))
      BY <1>6 DEF WentOn, Through, Busy
    <2>2. VerifiedIsKept' /\ MemoryKeeps'
      BY <1>6 DEF Kept, VerifiedIsKept, MemoryKeeps, Keeps
    <2>3. pc'[w] # "replace" /\ \A u \in raced : Busy(u)' => u \in raced'
      BY <1>6 DEF WentOn
    <2>4. CopiesKeep'
      BY <1>6, <2>1, <2>3 DEF Kept, CopiesKeep, Keeps
    <2>5. \A x \in Writers : pc'[x] = "replace" => x # w /\ HasFile(x) /\ w \in raced
      BY <1>6, <2>1, <2>3 DEF HasFile, Histories, HoldersRace
    <2>6. CopiesAgree'
      BY <1>6, <2>1, <2>3, <2>5 DEF Kept, CopiesAgree
    <2> QED
      BY <2>2, <2>4, <2>6 DEF Kept
  <1>7. ASSUME NEW w \in Writers, Copies(w) PROVE Kept'
    <2>1. /\ UNCHANGED <<file, game, owed, job, raced>>
          /\ copy'[w] = file /\ pc'[w] = "replace" /\ pc[w] = "read"
          /\ \A u \in Writers \ {w} : pc'[u] = pc[u] /\ copy'[u] = copy[u]
      BY <1>7 DEF Copies, TypeOK
    <2>2. \A u \in Writers : Through(u)' = Through(u) /\ (Busy(u)' <=> Busy(u))
      BY <2>1 DEF Through, Busy
    <2>3. VerifiedIsKept' /\ MemoryKeeps'
      BY <2>1 DEF Kept, VerifiedIsKept, MemoryKeeps, Keeps
    <2>4. CopiesKeep'
      BY <2>1 DEF Kept, VerifiedIsKept, CopiesKeep, Keeps
    <2>5. CopiesAgree'
      BY <2>1, <2>2 DEF Kept, CopiesAgree
    <2> QED
      BY <2>3, <2>4, <2>5 DEF Kept
  <1>8. ASSUME NEW w \in Writers, Replace(w) PROVE Kept'
    <2>1. WentOn(w) /\ HasFile(w)
      BY <1>8, LineDone DEF Replace, HasFile
    <2>2. \A u \in Writers \ {w} :
            /\ pc'[u] = pc[u] /\ job'[u] = job[u] /\ copy'[u] = copy[u]
            /\ Through(u)' = Through(u) /\ (Busy(u)' <=> Busy(u))
      BY <2>1 DEF WentOn, Through, Busy
    <2>3. pc'[w] # "replace" /\ \A u \in raced : Busy(u)' => u \in raced'
      BY <2>1 DEF WentOn
    <2>4. /\ UNCHANGED <<game, owed>> /\ pc[w] = "replace" /\ Busy(w)
          /\ \A s \in Settings : s # job[w].s => file'[s] = copy[w][s]
      BY <1>8 DEF Replace, Busy, TypeOK, Content
    <2>5. owed[job[w].s] = Nothing
      BY <2>4 DEF Histories, NothingOwedYet
    <2>6. VerifiedIsKept' /\ MemoryKeeps'
      BY <2>4, <2>5 DEF Kept, VerifiedIsKept, MemoryKeeps, CopiesKeep, Keeps
    <2>7. CopiesKeep'
      BY <2>2, <2>3, <2>4 DEF Kept, CopiesKeep, Keeps
    <2>8. ASSUME NEW x \in Writers, NEW u \in Writers, pc'[x] = "replace", Busy(u)',
                 u \notin raced', job'[u].s # job'[x].s, NEW n \in Through(u)'
          PROVE  copy'[x][job'[u].s][n] = file'[job'[u].s][n]
      <3>1. x # w /\ pc[x] = "replace" /\ job'[x] = job[x] /\ copy'[x] = copy[x] /\ w \in raced
        BY <2>1, <2>2, <2>3, <2>8 DEF HasFile, Histories, HoldersRace
      <3>2. u # w /\ u \notin raced /\ Busy(u) /\ job'[u] = job[u] /\ n \in Through(u)
        BY <2>2, <2>3, <2>8, <3>1
      <3>3. job[u].s # job[w].s /\ job[u].s \in Settings
        BY <2>4, <3>2 DEF Histories, RivalsRace, TypeOK
      <3>4. copy[w][job[u].s][n] = file[job[u].s][n] /\ copy[x][job[u].s][n] = file[job[u].s][n]
        BY <2>4, <2>8, <3>1, <3>2, <3>3 DEF Kept, CopiesAgree
      <3> QED
        BY <2>4, <3>1, <3>2, <3>3, <3>4
    <2>9. CopiesAgree'
      BY <2>8 DEF CopiesAgree
    <2> QED
      BY <2>6, <2>7, <2>9 DEF Kept
  <1>9. ASSUME NEW w \in Writers, Verify(w) PROVE Kept'
    <2> DEFINE s == job[w].s
    <2>1. /\ UNCHANGED <<file, game, copy>> /\ Busy(w) /\ ~Busy(w)' /\ pc[w] = "verify"
          /\ \A u \in Writers \ {w} : /\ pc'[u] = pc[u] /\ job'[u] = job[u]
                                     /\ (u \in raced <=> u \in raced')
      BY <1>9 DEF Verify, Move, Leaves, Busy, TypeOK
    <2>2. \A u \in Writers \ {w} : Through(u)' = Through(u) /\ (Busy(u)' <=> Busy(u))
      BY <2>1 DEF Through, Busy
    <2>3. CASE owed' = owed
      BY <2>1, <2>2, <2>3, NothingNew DEF Busy
    <2>4. CASE owed' = [owed EXCEPT ![s] = file[s]] /\ w \notin raced
      <3>1. s \in Settings /\ ~game.on
        BY <2>1, <2>4 DEF Histories, PlayersRace, TypeOK
      <3>2. owed'[s] = file[s] /\ \A r \in Settings \ {s} : owed'[r] = owed[r]
        BY <2>4, <3>1 DEF TypeOK
      <3>3. VerifiedIsKept' /\ MemoryKeeps'
        BY <2>1, <2>4, <3>1, <3>2 DEF Kept, VerifiedIsKept, MemoryKeeps
      <3>4. ASSUME NEW x \in Writers, pc'[x] = "replace", NEW n \in Lines(s)
            PROVE  copy[x][s][n] = file[s][n]
        <4>1. x # w /\ pc[x] = "replace" /\ Busy(x)
          BY <2>1, <3>4 DEF Busy
        <4>2. job[x].s # s
          BY <2>1, <2>4, <4>1 DEF Histories, RivalsRace
        <4>3. n \in Through(w)
          BY <2>1, <3>4 DEF Through
        <4> QED
          BY <2>1, <2>4, <4>1, <4>2, <4>3 DEF Kept, CopiesAgree
      <3>5. CopiesKeep'
        <4> SUFFICES ASSUME NEW x \in Writers, pc'[x] = "replace", NEW r \in Settings,
                            owed'[r] # Nothing, NEW n \in Lines(r)
                     PROVE  copy[x][r][n] = owed'[r][n]
          BY <2>1 DEF CopiesKeep, Keeps
        <4>1. pc[x] = "replace"
          BY <2>1 DEF Busy
        <4> QED
          BY <3>2, <3>4, <4>1 DEF Kept, CopiesKeep, Keeps
      <3>6. CopiesAgree'
        BY <2>1, <2>2 DEF Kept, CopiesAgree, Busy
      <3> QED
        BY <3>3, <3>5, <3>6 DEF Kept
    <2>5. owed' = (IF Agreed(s) = job[w].v /\ w \notin raced
                   THEN [owed EXCEPT ![s] = file[s]] ELSE owed)
      BY <1>9 DEF Verify
    <2> QED
      BY <2>3, <2>4, <2>5
  <1>10. ASSUME NEW p \in Procs, Die(p) PROVE Kept'
    <2>1. \A u \in Writers :
            \/ pc'[u] = "idle"
            \/ /\ pc'[u] = pc[u] /\ job'[u] = job[u] /\ copy'[u] = copy[u]
               /\ (u \in raced <=> u \in raced') /\ Through(u)' = Through(u)
      BY <1>10 DEF Die, Through
    <2> QED
      <3>1. UNCHANGED <<file, game, owed>>
        BY <1>10 DEF Die
      <3> QED
        BY <2>1, <3>1, NothingNew DEF Busy
  <1>11. CASE GameStarts
    BY <1>11 DEF GameStarts, Kept, VerifiedIsKept, MemoryKeeps, CopiesKeep, CopiesAgree, Keeps,
      Busy
  <1>12. CASE GameEnds
    <2>1. /\ game.on /\ ~game'.on /\ Keeps(file')
          /\ UNCHANGED <<pc, job, copy, raced, owed>>
      BY <1>12 DEF GameEnds, Off, Kept, VerifiedIsKept, MemoryKeeps, Keeps
    <2>2. VerifiedIsKept' /\ MemoryKeeps' /\ CopiesKeep'
      BY <2>1 DEF Kept, VerifiedIsKept, MemoryKeeps, CopiesKeep, Keeps
    <2>3. CopiesAgree'
      BY <2>1 DEF CopiesAgree, Histories, PlayersRace, Busy
    <2> QED
      BY <2>2, <2>3 DEF Kept
  <1>13. CASE UNCHANGED vars
    BY <1>13, NothingNew DEF vars, Through, Busy
  <1> QED
    <2>1. ASSUME NEW w \in Writers, Read(w) PROVE Kept'
      BY <1>6, <1>7, <2>1, ReadKinds DEF Read
    <2>2. ASSUME NEW w \in Writers, ReadFails(w) PROVE Kept'
      BY <1>6, <2>2, LineDone DEF ReadFails, HasFile
    <2> QED
      BY <1>1, <1>2, <1>3, <1>5, <1>8, <1>9, <1>10, <1>11, <1>12, <1>13, <2>1, <2>2
         DEF Next, Goes

-----------------------------------------------------------------------------
(* The variables have their types, a writer that has the file open holds   *)
(* its lock, and only a writer under way has written or been raced.        *)
THEOREM TypeCorrect == Spec => []TypeOK
  <1>1. Init => TypeOK
    BY InitIInv DEF IInv
  <1> QED
    BY <1>1, TypeStep, PTL DEF Spec

(* Two writers have the file open at once only if Windows refused one of   *)
(* them the mutex for this line, and never two of one process that were    *)
(* both refused it (file_lock): whoever has the file open holds its lock.  *)
THEOREM WritersExclude == Spec => []WritersTakeTurns
  <1>1. TypeOK => WritersTakeTurns
    <2> SUFFICES ASSUME TypeOK, NEW w \in Writers, NEW u \in Writers, w # u,
                        HasFile(w), HasFile(u)
                 PROVE  /\ {lock[w], lock[u]} # {"named"}
                        /\ where[w] = where[u] => "named" \in {lock[w], lock[u]}
      BY DEF WritersTakeTurns
    <2>1. lock[w] # lock[u]
      BY DEF TypeOK
    <2>2. lock[w] \in {"named", where[w]} /\ lock[u] \in {"named", where[u]}
      BY DEF TypeOK
    <2> QED
      BY <2>1, <2>2
  <1> QED
    BY <1>1, TypeCorrect, PTL

(* What was read back as applied stays, line by line, until its setting is *)
(* applied again, whoever else writes, whichever game saves and whichever  *)
(* process dies between (write_config_line, refuse_if_game_is_running).    *)
THEOREM VerifiedStays == Spec => []VerifiedIsKept
  <1>1. Init => IInv
    BY InitIInv
  <1>2. IInv /\ [Next]_vars => IInv'
    BY TypeStep, HistoriesStep, KeptStep DEF IInv, Kept
  <1>3. IInv => VerifiedIsKept
    BY DEF IInv
  <1> QED
    BY <1>1, <1>2, <1>3, PTL DEF Spec
=============================================================================
