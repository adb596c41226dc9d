---------------------------- MODULE CleanupSizes ----------------------------
(***************************************************************************)
(* How much each cleanup has to clean, as the page shows it. A detection   *)
(* sizes every cleanup the cache does not know in one background batch; a  *)
(* row the batch did not cover is walked in place or gets a worker of its  *)
(* own; a cleanup that ran measures what it left and stores that. They all *)
(* write one cache, whose claims end with the worker that made them.       *)
(*                                                                         *)
(* A size is the number of cleanups that had changed it when it was read;  *)
(* how long an entry lasts is left out, so that a look may find any entry  *)
(* expired that can expire. not_installed, which never does, is left out.  *)
(*                                                                         *)
(* Source: settings/cleanup_cache.py, settings/cleanup_measure.py,         *)
(* settings/executors/powershell.py, api/routes/settings_apply.py,         *)
(* api/routes/settings.py.                                                 *)
(***************************************************************************)
EXTENDS Integers, FiniteSets

CONSTANTS
    Walked,      \* cleanups whose target is a list of folders
    Scripted,    \* those PowerShell has to size
    Docker,      \* the scripted ones that read the same figure
    Scans,       \* batches and row readings, each once
    Cleanups,    \* cleanups that are run, each once
    ScanLimit    \* _CLEANUP_SCAN_LIMIT

Keys == Walked \cup Scripted
Actors == Scans \cup Cleanups

ASSUME CleanupAssumption ==
    /\ Walked \cap Scripted = {} /\ Docker \subseteq Scripted
    /\ Scans \cap Cleanups = {}
    /\ IsFiniteSet(Cleanups)
    /\ ScanLimit \in Nat \ {0}

VARIABLES
    entry,       \* the cache: what it says of each cleanup, and by whom
    size,        \* the machine: the cleanups that have changed each target
    batchRunning,\* _cleanup_batch_running
    pc,          \* where each scan and each run stands
    keys,        \* what it is about
    seen,        \* what it has read and not stored yet
    overtaken,   \* history: readings a cleanup made wrong before their store
    halfDone     \* history: targets last changed by a cleanup that failed

sizeVars == <<entry, size, batchRunning, pc, keys, seen, overtaken, halfDone>>

Unread == -1     \* an error, or no size in the answer

None == [status |-> "none", size |-> Unread, by |-> {}]
Unavailable == [status |-> "unavailable", size |-> Unread, by |-> {}]

Shares(k) == IF k \in Docker THEN Docker ELSE {k}

SizesInit ==
    /\ entry = [k \in Keys |-> None]
    /\ size = [k \in Keys |-> 0]
    /\ batchRunning = FALSE
    /\ pc = [a \in Actors |-> "off"]
    /\ keys = [a \in Actors |-> {}]
    /\ seen = [a \in Actors |-> [k \in Keys |-> Unread]]
    /\ overtaken = {} /\ halfDone = {}

Move(a, from, to) == pc[a] = from /\ pc' = [pc EXCEPT ![a] = to]

-----------------------------------------------------------------------------
(* CleanupSizeCache.                                                       *)

\* Mutant: a claim is believed for the life of the process.
NeverSettled(k) == entry[k]

(* _settle_calculating: the claim of a worker that ended is given up.      *)
Settled(k) ==
    IF entry[k].status = "calculating" /\ \E a \in entry[k].by : pc[a] = "ended"
    THEN Unavailable ELSE entry[k]

(* get on each of K: too old is missing.                                   *)
Look(K) ==
    \E old \in SUBSET {k \in K : entry[k].status \in {"ready", "unavailable"}} :
        entry' = [k \in Keys |-> IF k \in old THEN None
                                 ELSE IF k \in K THEN Settled(k) ELSE entry[k]]

Missing(K) == {k \in K : entry'[k] = None}

(* mark_calculating: the first claim stays.                                *)
MarkCalculating(a, K) ==
    entry' = [k \in Keys |->
                IF k \in K /\ entry[k].status # "calculating"
                THEN [status |-> "calculating", size |-> Unread, by |-> {a}]
                ELSE entry[k]]

(* store_measurement, store_cleanup_reading: whatever the entry says now.  *)
Stored(a, k) ==
    IF seen[a][k] >= 0
    THEN [status |-> "ready", size |-> seen[a][k], by |-> {a}]
    ELSE Unavailable

Store(a, K) == entry' = [k \in Keys |-> IF k \in K THEN Stored(a, k) ELSE entry[k]]

(* measure_cleanup_size with remember: no reading drops the entry, while   *)
(* a service that does not run is an answer.                               *)
Remember(a, k) ==
    \/ entry' = [entry EXCEPT ![k] = Stored(a, k)]
    \/ seen[a][k] = Unread /\ entry' = [entry EXCEPT ![k] = None]

(* measure_cleanup_type, size_types, _fetch_cleanup_sizes, run_powershell. *)
Read(a, K) ==
    \E lost \in SUBSET K :
        seen' = [seen EXCEPT ![a] = [k \in Keys |-> IF k \in K \ lost THEN size[k] ELSE Unread]]

Forget(a) == seen' = [seen EXCEPT ![a] = [k \in Keys |-> Unread]]

(* GET /cleanup-sizes, every 3 s while the page shows a calculating row.   *)
Poll ==
    /\ entry' = [k \in Keys |-> Settled(k)]
    /\ UNCHANGED <<size, batchRunning, pc, keys, seen, overtaken, halfDone>>

-----------------------------------------------------------------------------
(* start_cleanup_size_batch.                                               *)

(* _pending_cleanup_ids.                                                   *)
BatchLook(s) ==
    /\ pc[s] = "off"
    /\ Look(Keys)
    /\ keys' = [keys EXCEPT ![s] = Missing(Keys)]
    /\ pc' = [pc EXCEPT ![s] = IF Missing(Keys) = {} THEN "ended" ELSE "pending"]
    /\ UNCHANGED <<size, batchRunning, seen, overtaken, halfDone>>

BatchRaise(s) ==
    /\ Move(s, "pending", IF batchRunning THEN "ended" ELSE "raised")
    /\ batchRunning' = TRUE
    /\ UNCHANGED <<entry, size, keys, seen, overtaken, halfDone>>

BatchClaim(s) ==
    /\ Move(s, "raised", "starting")
    /\ MarkCalculating(s, keys[s])
    /\ UNCHANGED <<size, batchRunning, keys, seen, overtaken, halfDone>>

(* The thread cannot be started: flag and claims are handed back.          *)
BatchNotStarted(s) ==
    /\ Move(s, "starting", "ended")
    /\ batchRunning' = FALSE
    /\ entry' = [k \in Keys |-> IF k \in keys[s] THEN Unavailable ELSE entry[k]]
    /\ UNCHANGED <<size, keys, seen, overtaken, halfDone>>

(* _settle_all: the walks, which fail together or as a folder each.        *)
BatchWalk(s) ==
    /\ Move(s, "starting", "walked")
    /\ Read(s, keys[s] \cap Walked)
    /\ UNCHANGED <<entry, size, batchRunning, keys, overtaken, halfDone>>

BatchStoreWalked(s) ==
    /\ Move(s, "walked", "fetching")
    /\ Store(s, keys[s] \cap Walked)
    /\ Forget(s)
    /\ UNCHANGED <<size, batchRunning, keys, overtaken, halfDone>>

BatchFetch(s) ==
    /\ Move(s, "fetching", "fetched")
    /\ Read(s, keys[s] \cap Scripted)
    /\ UNCHANGED <<entry, size, batchRunning, keys, overtaken, halfDone>>

\* Mutant: the flag comes down only where a reading came back.
BatchLowerIfRead(s) ==
    /\ Move(s, "fetched", "lowered")
    /\ batchRunning' = (\A k \in keys[s] \cap Scripted : seen[s][k] = Unread)
    /\ UNCHANGED <<entry, size, keys, seen, overtaken, halfDone>>

BatchLower(s) ==
    /\ Move(s, "fetched", "lowered")
    /\ batchRunning' = FALSE
    /\ UNCHANGED <<entry, size, keys, seen, overtaken, halfDone>>

(* The last loop stores one id after another; an error there ends the      *)
(* worker, and done is set all the same.                                   *)
BatchStoreRest(s) ==
    /\ Move(s, "lowered", "ended")
    /\ \E K \in SUBSET (keys[s] \cap Scripted) : Store(s, K)
    /\ Forget(s)
    /\ UNCHANGED <<size, batchRunning, keys, overtaken, halfDone>>

-----------------------------------------------------------------------------
(* _cleanup_status_reading: one row the cache does not know.               *)

RowLook(s, k) ==
    /\ pc[s] = "off"
    /\ Look({k})
    /\ entry'[k] = None
    /\ keys' = [keys EXCEPT ![s] = {k}]
    /\ pc' = [pc EXCEPT ![s] = "missed"]
    /\ UNCHANGED <<size, batchRunning, seen, overtaken, halfDone>>

(* A folder is walked here and now.                                        *)
RowWalk(s) ==
    /\ keys[s] \subseteq Walked
    /\ Move(s, "missed", "measured")
    /\ Read(s, keys[s])
    /\ UNCHANGED <<entry, size, batchRunning, keys, overtaken, halfDone>>

RowRemember(s) ==
    /\ Move(s, "measured", "ended")
    /\ \E k \in keys[s] : Remember(s, k)
    /\ Forget(s)
    /\ UNCHANGED <<size, batchRunning, keys, overtaken, halfDone>>

(* Anything else is claimed, whoever claimed it since the look.            *)
RowClaim(s) ==
    /\ keys[s] \subseteq Scripted
    /\ Move(s, "missed", "queued")
    /\ MarkCalculating(s, keys[s])
    /\ UNCHANGED <<size, batchRunning, keys, seen, overtaken, halfDone>>

(* The command is refused, or the thread cannot be started.                *)
RowNotStarted(s) ==
    /\ Move(s, "queued", "ended")
    /\ entry' = [k \in Keys |-> IF k \in keys[s] THEN Unavailable ELSE entry[k]]
    /\ UNCHANGED <<size, batchRunning, keys, seen, overtaken, halfDone>>

(* _compute, with a place of the semaphore.                                *)
RowScan(s) ==
    /\ Cardinality({t \in Scans : pc[t] = "scanned"}) < ScanLimit
    /\ Move(s, "queued", "scanned")
    /\ Read(s, keys[s])
    /\ UNCHANGED <<entry, size, batchRunning, keys, overtaken, halfDone>>

RowStore(s) ==
    /\ Move(s, "scanned", "ended")
    /\ Store(s, keys[s])
    /\ Forget(s)
    /\ UNCHANGED <<size, batchRunning, keys, overtaken, halfDone>>

-----------------------------------------------------------------------------
(* apply_and_finalize on a cleanup.                                        *)

(* The command changes its target, and the figure a sibling reads. It can  *)
(* fail having done so, and is then not measured.                          *)
RunCommand(c, k) ==
    LET changed == Shares(k)
    IN  /\ pc[c] = "off"
        /\ size' = [j \in Keys |-> IF j \in changed THEN size[j] + 1 ELSE size[j]]
        /\ overtaken' = overtaken \cup
               {p \in Actors \X changed : seen[p[1]][p[2]] >= 0}
        /\ keys' = [keys EXCEPT ![c] = {k}]
        /\ \/ pc' = [pc EXCEPT ![c] = "ran"] /\ halfDone' = halfDone \ changed
           \/ pc' = [pc EXCEPT ![c] = "ended"] /\ halfDone' = halfDone \cup changed
        /\ UNCHANGED <<entry, batchRunning, seen>>

(* freed_after_cleanup: measured, remembered, and the sibling dropped.     *)
RunMeasure(c) ==
    /\ Move(c, "ran", "after")
    /\ Read(c, keys[c])
    /\ UNCHANGED <<entry, size, batchRunning, keys, overtaken, halfDone>>

RunRemember(c) ==
    /\ Move(c, "after", "remembered")
    /\ \E k \in keys[c] : Remember(c, k)
    /\ Forget(c)
    /\ UNCHANGED <<size, batchRunning, keys, overtaken, halfDone>>

\* Mutant: the sibling keeps its figure.
RunKeepSibling(c) ==
    /\ Move(c, "remembered", "ended")
    /\ UNCHANGED <<entry, size, batchRunning, keys, seen, overtaken, halfDone>>

RunDropSibling(c) ==
    /\ Move(c, "remembered", "ended")
    /\ entry' = [k \in Keys |->
                    IF \E j \in keys[c] : k \in Shares(j) \ {j} THEN None ELSE entry[k]]
    /\ UNCHANGED <<size, batchRunning, keys, seen, overtaken, halfDone>>

-----------------------------------------------------------------------------
BatchStep(s) ==
    \/ BatchRaise(s) \/ BatchClaim(s) \/ BatchNotStarted(s) \/ BatchWalk(s)
    \/ BatchStoreWalked(s) \/ BatchFetch(s) \/ BatchLower(s) \/ BatchStoreRest(s)

RowStep(s) ==
    \/ RowWalk(s) \/ RowRemember(s)
    \/ RowClaim(s) \/ RowNotStarted(s) \/ RowScan(s) \/ RowStore(s)

RunStep(c) == RunMeasure(c) \/ RunRemember(c) \/ RunDropSibling(c)

SizesNext ==
    \/ \E s \in Scans : BatchLook(s) \/ BatchStep(s) \/ RowStep(s)
    \/ \E s \in Scans, k \in Keys : RowLook(s, k)
    \/ \E c \in Cleanups : RunStep(c)
    \/ \E c \in Cleanups, k \in Keys : RunCommand(c, k)
    \/ Poll

SizesSpec == SizesInit /\ [][SizesNext]_sizeVars

(* What was started goes on (a stuck process is ended by its stall rule),  *)
(* and the page polls while a row is calculating.                          *)
SizesFairness ==
    /\ \A s \in Scans : WF_sizeVars(BatchStep(s) \/ RowStep(s))
    /\ WF_sizeVars(Poll)

FairSizesSpec == SizesSpec /\ SizesFairness

-----------------------------------------------------------------------------
(* Properties.                                                             *)

Statuses == {"none", "calculating", "ready", "unavailable"}
Places ==
    {"off", "pending", "raised", "starting", "walked", "fetching", "fetched",
     "lowered", "missed", "measured", "queued", "scanned", "ran", "after",
     "remembered", "ended"}

SizesTypeOK ==
    /\ entry \in [Keys -> [status : Statuses, size : Nat \cup {Unread}, by : SUBSET Actors]]
    /\ \A k \in Keys : entry[k].status = "calculating" <=> entry[k].by \cap Scans # {}
                                                           /\ entry[k].size = Unread
    /\ size \in [Keys -> Nat] /\ batchRunning \in BOOLEAN
    /\ pc \in [Actors -> Places] /\ keys \in [Actors -> SUBSET Keys]
    /\ seen \in [Actors -> [Keys -> Nat \cup {Unread}]]
    /\ overtaken \subseteq Actors \X Keys /\ halfDone \subseteq Keys

(* A size the page shows is what is there now, siblings included, once the *)
(* cleanups of it are over. Only a reading that was already taken when one *)
(* ran, or a cleanup that failed half way, leaves an older size             *)
(* (settings/cleanup_measure.py, freed_after_cleanup).                     *)
Cleaning(k) == \E c \in Cleanups : pc[c] \in {"ran", "after", "remembered"} /\ k \in UNION {Shares(j) : j \in keys[c]}

OldOnlyIfOvertaken ==
    \A k \in Keys :
        entry[k].status = "ready" /\ entry[k].size # size[k] =>
            Cleaning(k) \/ k \in halfDone \/ \E a \in entry[k].by : <<a, k>> \in overtaken

(* No row spins for ever, whatever fails and whoever claims                *)
(* (settings/cleanup_cache.py, _settle_calculating).                       *)
SpinnersEnd ==
    \A k \in Keys : entry[k].status = "calculating" ~> entry[k].status # "calculating"

(* A batch that failed anywhere does not block the next one                *)
(* (settings/executors/powershell.py, start_cleanup_size_batch).           *)
BatchesGoOn == batchRunning ~> ~batchRunning
=============================================================================
