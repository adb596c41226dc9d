----------------------------- MODULE ConfigFile -----------------------------
(***************************************************************************)
(* One game's config file and the writers that change it. A setting is a   *)
(* line of the file, or two lines that are one setting between them; each  *)
(* line is read, changed and replaced whole under a lock named after the   *)
(* file, and the setting is read back when all its lines are done. A game  *)
(* reads the file when it starts and writes its memory back when it exits, *)
(* so a write asks first whether the game is running, of a list of process *)
(* names that is kept for a moment.                                        *)
(*                                                                         *)
(* A line is the value it holds, and how long a list is kept is left out:  *)
(* it may expire at any time. A setting whose lines lie in two files goes  *)
(* line by line as well.                                                   *)
(*                                                                         *)
(* Source: settings/executors/game_config_writer.py, game_processes.py,    *)
(* mw4_config.py, game_ini.py, powershell.py, api/routes/settings.py.      *)
(***************************************************************************)
EXTENDS Naturals, FiniteSets

CONSTANTS
    Writers,     \* threads that apply settings
    Procs,       \* processes they may be in
    Api,         \* the process of the API
    Threads,     \* the writers that are threads of it
    Settings,    \* settings of the file
    Compound,    \* those of two lines
    MaxWrites    \* bound: settings applied altogether

ASSUME ConfigAssumption ==
    /\ Compound \subseteq Settings
    /\ MaxWrites \in Nat
    /\ Threads \subseteq Writers /\ Api \in Procs
    /\ "named" \notin Procs /\ "nobody" \notin Writers

Values == {"old", "new"}
Lines(s) == IF s \in Compound THEN 1..2 ELSE 1..1
Content == [Settings -> [1..2 -> Values]]

VARIABLES
    where,       \* the process each writer is in
    file,        \* the file on disk
    game,        \* is the game running, and what it has in memory
    list,        \* _cache: each process's list of process names
    pc, job,     \* where a writer stands, and the line it is to write
    copy,        \* the text it has read
    wrote,       \* some line of its setting is in the file
    lock,        \* the lock a writer takes for its line
    holder,      \* who holds each lock
    left,        \* settings still to be applied
    raced,       \* history: writers the check and the lock could not keep from
                 \* the game, another process, or one of the same setting
    owed         \* history: the lines of a setting when they were last answered for

vars == <<where, file, game, list, pc, job, copy, wrote, lock, holder,
          left, raced, owed>>

Nobody == "nobody"
Nothing == <<>>
NoJob == [s |-> "none", v |-> "none", line |-> 0]
Text == [s \in Settings |-> [n \in 1..2 |-> "old"]]
Off == [on |-> FALSE, memory |-> Text]

Init ==
    /\ where \in [Writers -> Procs] /\ \A w \in Threads : where[w] = Api
    /\ file = Text
    /\ game = Off
    /\ list = [p \in Procs |-> "none"]
    /\ pc = [w \in Writers |-> "idle"]
    /\ job = [w \in Writers |-> NoJob]
    /\ copy = [w \in Writers |-> Text]
    /\ wrote = {}
    /\ lock = [w \in Writers |-> "named"]
    /\ holder = [l \in Procs \cup {"named"} |-> Nobody]
    /\ left = MaxWrites
    /\ raced = {}
    /\ owed = [s \in Settings |-> Nothing]

Busy(w) == pc[w] # "idle"
Move(w, from, to) == pc[w] = from /\ pc' = [pc EXCEPT ![w] = to]

(* For each line Windows is asked for the named mutex anew, and may refuse: *)
(* then it is a lock of the process.                                       *)
AskForMutex(w) == \E l \in {"named", where[w]} : lock' = [lock EXCEPT ![w] = l]

(* The writer is done with its setting and has no more to say.             *)
Leaves(w) ==
    /\ job' = [job EXCEPT ![w] = NoJob]
    /\ wrote' = wrote \ {w} /\ raced' = raced \ {w}

-----------------------------------------------------------------------------
(* The running-game check.                                                 *)

(* What a process's list says of the game: a list that is kept, or a new   *)
(* one. One that cannot be taken is empty, and kept like the others.       *)
Listed(p) ==
    IF list[p] # "none" THEN {list[p]}
    ELSE {"empty", IF game.on THEN "on" ELSE "off"}

Expire(p) ==
    /\ list[p] # "none"
    /\ list' = [list EXCEPT ![p] = "none"]
    /\ UNCHANGED <<where, file, game, pc, job, copy, wrote, lock, holder,
                   left, raced, owed>>

(* Writers that apply the same setting at the same time, w among them.     *)
Rivals(w, s) ==
    LET others == {u \in Writers : Busy(u) /\ job[u].s = s}
    IN  IF others = {} THEN {} ELSE others \cup {w}

(* An apply of a value: refused while the game is listed. A writer races   *)
(* the game when the list is older than the game, or empty.                *)
Apply(w, s, v) ==
    /\ left > 0 /\ left' = left - 1
    /\ pc[w] = "idle"
    /\ \E seen \in Listed(where[w]) :
        /\ list' = [list EXCEPT ![where[w]] = seen]
        /\ IF seen = "on"
           THEN UNCHANGED <<pc, job, lock, raced, owed>>
           ELSE /\ pc' = [pc EXCEPT ![w] = "lock"] /\ AskForMutex(w)
                /\ job' = [job EXCEPT ![w] = [s |-> s, v |-> v, line |-> 1]]
                /\ raced' = raced \cup Rivals(w, s) \cup
                     (IF game.on /\ (list[where[w]] = "off" \/ seen = "empty")
                      THEN {w} ELSE {})
                /\ owed' = [owed EXCEPT ![s] = Nothing]
    /\ UNCHANGED <<where, file, game, copy, wrote, holder>>

-----------------------------------------------------------------------------
(* file_lock and the rewrite of one line.                                  *)

HasFile(w) == pc[w] \in {"read", "replace"}

(* Writers with different locks that have the file open at the same time.  *)
Overlap(w) ==
    LET others == {u \in Writers : HasFile(u) /\ lock[u] # lock[w]}
    IN  IF others = {} THEN {} ELSE others \cup {w}

(* Mutant: a wait that timed out goes on as one that ended.                *)
LockAfterWait(w) ==
    /\ Move(w, "lock", "read")
    /\ holder' = [holder EXCEPT ![lock[w]] = w]
    /\ raced' = raced \cup Overlap(w)
    /\ UNCHANGED <<where, file, game, list, job, copy, wrote, lock,
                   left, owed>>

Lock(w) ==
    /\ Move(w, "lock", "read")
    /\ holder[lock[w]] = Nobody
    /\ holder' = [holder EXCEPT ![lock[w]] = w]
    /\ raced' = raced \cup Overlap(w)
    /\ UNCHANGED <<where, file, game, list, job, copy, wrote, lock,
                   left, owed>>

(* Only the named mutex is waited for with a deadline.                     *)
LockTimeout(w) ==
    /\ Move(w, "lock", "idle")
    /\ lock[w] = "named" /\ holder["named"] # Nobody
    /\ Leaves(w)
    /\ UNCHANGED <<where, file, game, list, copy, lock, holder, left, owed>>

(* The value is not one the file takes: the lines of a compound are all    *)
(* asked before the first is written.                                      *)
Reject(w) ==
    /\ Move(w, "lock", "idle") /\ job[w].line = 1
    /\ Leaves(w)
    /\ UNCHANGED <<where, file, game, list, copy, lock, holder, left, owed>>

(* Mutant: the error path keeps the lock.                                  *)
ReleaseUnlessFailed(w) ==
    /\ holder' = [holder EXCEPT ![lock[w]] = IF @ = w /\ w \in wrote'
                                               THEN Nobody ELSE @]
    /\ copy' = [copy EXCEPT ![w] = Text]

Release(w) ==
    /\ holder' = [holder EXCEPT ![lock[w]] = IF @ = w THEN Nobody ELSE @]
    /\ copy' = [copy EXCEPT ![w] = Text]

(* On to the next line, or to reading the setting back; a setting no line  *)
(* of which was found is answered as not there.                            *)
NextLine(w) ==
    IF job[w].line + 1 \in Lines(job[w].s)
    THEN /\ pc' = [pc EXCEPT ![w] = "lock"]
         /\ job' = [job EXCEPT ![w] = [s |-> @.s, v |-> @.v, line |-> @.line + 1]]
         /\ AskForMutex(w) /\ UNCHANGED raced
    ELSE IF w \in wrote'
    THEN pc' = [pc EXCEPT ![w] = "verify"] /\ UNCHANGED <<job, lock, raced>>
    ELSE /\ UNCHANGED lock
         /\ pc' = [pc EXCEPT ![w] = "idle"]
         /\ job' = [job EXCEPT ![w] = NoJob] /\ raced' = raced \ {w}

(* Mutant: the lock is held for the read alone.                            *)
ReadAndRelease(w) ==
    /\ pc[w] = "read"
    /\ IF file[job[w].s][job[w].line] = job[w].v
       THEN wrote' = wrote \cup {w} /\ Release(w) /\ NextLine(w)
       ELSE /\ copy' = [copy EXCEPT ![w] = file]
            /\ pc' = [pc EXCEPT ![w] = "replace"]
            /\ holder' = [holder EXCEPT ![lock[w]] = Nobody]
            /\ UNCHANGED <<wrote, job, lock, raced>>
    /\ UNCHANGED <<where, file, game, list, left, owed>>

(* A line that holds the value already is left alone.                      *)
Read(w) ==
    /\ pc[w] = "read"
    /\ IF file[job[w].s][job[w].line] = job[w].v
       THEN wrote' = wrote \cup {w} /\ Release(w) /\ NextLine(w)
       ELSE /\ copy' = [copy EXCEPT ![w] = file]
            /\ pc' = [pc EXCEPT ![w] = "replace"]
            /\ UNCHANGED <<wrote, holder, job, lock, raced>>
    /\ UNCHANGED <<where, file, game, list, left, owed>>

(* A file that cannot be read counts as a line that is not there.          *)
ReadFails(w) ==
    /\ pc[w] = "read"
    /\ UNCHANGED wrote /\ Release(w) /\ NextLine(w)
    /\ UNCHANGED <<where, file, game, list, left, owed>>

(* _write_atomically, the retries included.                                *)
Replace(w) ==
    /\ pc[w] = "replace"
    /\ file' = [copy[w] EXCEPT ![job[w].s][job[w].line] = job[w].v]
    /\ wrote' = wrote \cup {w} /\ Release(w) /\ NextLine(w)
    /\ UNCHANGED <<where, game, list, left, owed>>

(* Another program has held the file through every attempt.                *)
ReplaceFails(w) ==
    /\ Move(w, "replace", "idle")
    /\ Leaves(w) /\ Release(w)
    /\ UNCHANGED <<where, file, game, list, lock, left, owed>>

(* _agreed: lines that disagree are answered for by the last of them.      *)
Agreed(s) == file[s][IF s \in Compound THEN 2 ELSE 1]

(* The setting is read back, and answered as applied if that is its value. *)
Verify(w) ==
    /\ Move(w, "verify", "idle")
    /\ LET s == job[w].s
       IN  owed' = IF Agreed(s) = job[w].v /\ w \notin raced
                   THEN [owed EXCEPT ![s] = file[s]] ELSE owed
    /\ Leaves(w)
    /\ UNCHANGED <<where, file, game, list, copy, lock, holder, left>>

-----------------------------------------------------------------------------
(* The game, and a process that dies.                                      *)

GameStarts ==
    /\ ~game.on
    /\ game' = [on |-> TRUE, memory |-> file]
    /\ raced' = {w \in Writers : Busy(w)}
    /\ UNCHANGED <<where, file, list, pc, job, copy, wrote, lock, holder,
                   left, owed>>

GameEnds ==
    /\ game.on /\ game' = Off
    /\ file' \in {file, game.memory}      \* written back, or it has crashed
    /\ UNCHANGED <<where, list, pc, job, copy, wrote, lock, holder, left,
                   raced, owed>>

(* A lock whose holder has died is the next writer's.                      *)
Die(p) ==
    LET dead == {w \in Writers : where[w] = p}
    IN  /\ \E w \in dead : Busy(w)
        /\ pc' = [w \in Writers |-> IF w \in dead THEN "idle" ELSE pc[w]]
        /\ job' = [w \in Writers |-> IF w \in dead THEN NoJob ELSE job[w]]
        /\ copy' = [w \in Writers |-> IF w \in dead THEN Text ELSE copy[w]]
        /\ wrote' = wrote \ dead /\ raced' = raced \ dead
        /\ holder' = [l \in DOMAIN holder |->
                        IF holder[l] \in dead THEN Nobody ELSE holder[l]]
        /\ list' = [list EXCEPT ![p] = "none"]
        /\ UNCHANGED <<where, file, game, lock, left, owed>>

-----------------------------------------------------------------------------
Goes(w) == Lock(w) \/ LockTimeout(w) \/ Read(w) \/ Replace(w) \/ Verify(w)

Next ==
    \/ \E w \in Writers, s \in Settings, v \in Values : Apply(w, s, v)
    \/ \E w \in Writers : Goes(w) \/ Reject(w) \/ ReadFails(w) \/ ReplaceFails(w)
    \/ \E p \in Procs : Expire(p) \/ Die(p)
    \/ GameStarts \/ GameEnds

Spec == Init /\ [][Next]_vars

(* A thread that can go on does; nothing is assumed of the game.           *)
FairSpec == Spec /\ \A w \in Writers : WF_vars(Goes(w))

-----------------------------------------------------------------------------
\* The variables stay in their types, and a writer that has the file open holds
\* the lock it was given for its line (file_lock).
TypeOK ==
    /\ where \in [Writers -> Procs]
    /\ file \in Content
    /\ game \in [on : BOOLEAN, memory : Content]
    /\ list \in [Procs -> {"none", "on", "off", "empty"}]
    /\ pc \in [Writers -> {"idle", "lock", "read", "replace", "verify"}]
    /\ job \in [Writers -> [s : Settings \cup {"none"}, v : Values \cup {"none"},
                            line : 0..2]]
    /\ copy \in [Writers -> Content]
    /\ lock \in [Writers -> Procs \cup {"named"}]
    /\ holder \in [Procs \cup {"named"} -> Writers \cup {Nobody}]
    /\ left \in 0..MaxWrites
    /\ owed \in [Settings -> [1..2 -> Values] \cup {Nothing}]
    /\ wrote \cup raced \subseteq {w \in Writers : Busy(w)}
    /\ \A w \in Writers :
         /\ Busy(w) => /\ job[w].s \in Settings /\ job[w].v \in Values
                       /\ job[w].line \in Lines(job[w].s)
         /\ lock[w] \in {"named", where[w]}
         /\ HasFile(w) => holder[lock[w]] = w

(* Two writers have the file open at once only if Windows refused one of   *)
(* them the named mutex for this very line, and never two of one process   *)
(* that were both refused it: a lock that is broken, abandoned or timed    *)
(* out never lets a second one in (file_lock).                             *)
WritersTakeTurns ==
    \A w, u \in Writers : w # u /\ HasFile(w) /\ HasFile(u) =>
        /\ {lock[w], lock[u]} # {"named"}
        /\ where[w] = where[u] => "named" \in {lock[w], lock[u]}

(* The lines of a setting that was read back and answered as applied stay  *)
(* as they were read until it is applied again: no writer of another line  *)
(* puts back a text from before, and no game does, but one that started    *)
(* after the list of processes the check went by; and no writer whose file *)
(* was open beside another's, each with a lock of its own, counts          *)
(* (write_config_line; refuse_if_game_is_running).                         *)
VerifiedIsKept ==
    \A s \in Settings : owed[s] # Nothing => \A n \in Lines(s) : file[s][n] = owed[s][n]

(* Every write ends, whoever dies holding the file.                        *)
WritesEnd == \A w \in Writers : Busy(w) ~> ~Busy(w)

-----------------------------------------------------------------------------
(***************************************************************************)
(* Claims the code does not keep.                                          *)
(***************************************************************************)

(* powershell.py says of a compound that "every one of them gets the value *)
(* or none of them does": a write that ends leaves its lines alike.        *)
EveryLineOrNone ==
    [][ \/ \E p \in Procs : Die(p)
        \/ \A w \in Writers : Busy(w) /\ ~Busy(w)' /\ job[w].s \in Compound =>
             file'[job[w].s][1] = file'[job[w].s][2] ]_vars

(* game_config_cache.py says that a compound "is only at a value when      *)
(* every key is"; it is answered for by its last line.                     *)
VerifiedIsWhole ==
    \A s \in Compound : owed[s] # Nothing => owed[s][1] = owed[s][2]

(* game_config_writer.py: without the mutex a lock of the process covers   *)
(* "the exposure bulk apply actually has", two writers of one process.     *)
ProcessTakesTurns ==
    \A w, u \in Writers :
        w # u /\ where[w] = where[u] => ~(HasFile(w) /\ HasFile(u))
=============================================================================
