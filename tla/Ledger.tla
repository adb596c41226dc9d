------------------------------- MODULE Ledger -------------------------------
(***************************************************************************)
(* The benchmark ledger on disk, the scheduler thread that works through   *)
(* it, and the requests that ask it for a measurement.                     *)
(*                                                                         *)
(* On disk: one job (ledger.json), one run file per job, and the sentinel  *)
(* a bulk apply leaves. The scheduler keeps a copy of the job across a     *)
(* whole poll, and a result reaches the disk in two writes: the run file,  *)
(* then the job. A process may die, and a write may fail, between any two. *)
(*                                                                         *)
(* Time is left out: a poll that a guard, the back-off or the mutex sends  *)
(* home is Defer. Job 0 stands for a ledger copied from another machine.   *)
(*                                                                         *)
(* Source: benchmark/ledger.py, benchmark/scheduler.py,                    *)
(* api/routes/benchmark_ledger.py.                                         *)
(***************************************************************************)
EXTENDS Integers, Sequences, FiniteSets, SequencesExt

CONSTANTS
    Steps,          \* benches in the plan
    MaxAttempts,    \* ledger.MAX_ATTEMPTS
    Requests,       \* requests of POST /ledger/run
    FlakyReads,     \* may a file that is there fail to open?
    ForeignLedger,  \* was ~/.fpstune copied from another machine?
    Outcomes,       \* bound: how a bench may end, of "ran", "failed" and "absent"
    MaxJobs,        \* bound: jobs opened
    MaxApplies,     \* bound: bulk applies
    MaxFaults       \* bound: crashes and failed writes

ASSUME BoundsAssumption ==
    /\ Steps \in Nat \ {0}
    /\ MaxAttempts \in Nat \ {0}
    /\ MaxJobs \in Nat /\ MaxApplies \in Nat /\ MaxFaults \in Nat
    /\ FlakyReads \in BOOLEAN /\ ForeignLedger \in BOOLEAN

Plan == 1..Steps
JobIds == 0..MaxJobs
Foreign == 0
Labels == {"baseline", "after"}
OpenStatuses == {"queued", "running"}
Missing == -3              \* no result of this bench in the run file
Failed == -2               \* a result that says why it did not run
Absent == -1               \* a result that says this machine has no such thing
Gens == 0..MaxApplies      \* how many bulk applies the machine has seen
Values == Gens \cup {Failed, Absent}

Record(id, label, step, status, attempts) ==
    [id |-> id, label |-> label, step |-> step, status |-> status, attempts |-> attempts]
NoAttempts == [b \in Plan |-> 0]
NoJob == Record(-1, "after", 0, "none", NoAttempts)

VARIABLES
    ledger,     \* ledger.json: a job, or NoJob when there is no file
    results,    \* results[id][b]: what the run file of job id says of bench b
    files,      \* the ids whose run file exists, oldest write first
    labels,     \* labels[id]: the label in that file's name
    sentinel,   \* bulk-apply-finished.json exists
    nextId,     \* uuid4: a fresh id
    gen,        \* bulk applies the machine has been through
    marking,    \* a bulk apply has written and may yet leave its sentinel
    marked,     \* history: gen at the last bulk apply that left one
    lost,       \* history: jobs another job was written over, benches to do
    writeLock,  \* ledger._write_lock is held by the scheduler
    spc,        \* where the scheduler's poll stands
    job,        \* the job the poll holds in memory
    value,      \* the result the poll is about to record
    rpc,        \* where each request stands
    faults

diskVars == <<ledger, results, files, labels, sentinel, nextId, lost>>
pollVars == <<spc, job, value, writeLock>>
applyVars == <<gen, marking, marked>>
vars == <<diskVars, pollVars, applyVars, rpc, faults>>

PollStates == {"idle", "archiving", "trigger", "openBaseline", "openAfter", "holding",
               "failing", "recording", "counting", "closing"}
RequestStates == {"idle", "archiving", "labelling", "baseline", "after", "answered"}
Jobs == [id : JobIds, label : Labels, step : 0..Steps,
         status : OpenStatuses \cup {"done", "archived"}, attempts : [Plan -> Nat]]

NoResults == [b \in Plan |-> Missing]

ForeignJob == Record(Foreign, "baseline", Steps, "done", NoAttempts)

Init ==
    /\ \E copied \in IF ForeignLedger THEN BOOLEAN ELSE {FALSE} :
         /\ ledger = IF copied THEN ForeignJob ELSE NoJob
         /\ results = [id \in JobIds |->
                         IF copied /\ id = Foreign THEN [b \in Plan |-> 0] ELSE NoResults]
         /\ files = IF copied THEN <<Foreign>> ELSE <<>>
    /\ labels = [id \in JobIds |-> "baseline"]
    /\ sentinel = FALSE
    /\ nextId = 1
    /\ gen = 0
    /\ marking = FALSE /\ marked = 0
    /\ lost = {}
    /\ writeLock = FALSE
    /\ spc = "idle"
    /\ job = NoJob
    /\ value = Failed
    /\ rpc = [r \in Requests |-> "idle"]
    /\ faults = 0

(***************************************************************************)
(* Reading. A file that cannot be opened reads like one that is not there. *)
(***************************************************************************)
ReadOutcomes == IF FlakyReads THEN {TRUE, FALSE} ELSE {TRUE}

ReadJob(ok) == IF ok THEN ledger ELSE NoJob

IsOpen(j) == j.id > Foreign /\ j.status \in OpenStatuses
NeedsArchiving(j) == j.id = Foreign /\ j.status # "archived"

\* Mutant: the run of the job under way is on offer like any other.
OfferedInFlight(label, ok) ==
    LET candidates == {i \in DOMAIN files : labels[files[i]] = label}
    IN  IF ReadJob(ok).id <= Foreign \/ candidates = {} THEN {}
        ELSE {files[CHOOSE i \in candidates : \A k \in candidates : k <= i]}

(* _newest_complete: the run of the job in the ledger is left out while    *)
(* that job is unfinished; a ledger that is not ours hides every run.      *)
Offered(label, ok) ==
    LET j == ReadJob(ok)
        candidates ==
            {i \in DOMAIN files : /\ labels[files[i]] = label
                                  /\ ~(files[i] = j.id /\ j.step < Steps)}
    IN  IF j.id <= Foreign \/ candidates = {} THEN {}
        ELSE {files[CHOOSE i \in candidates : \A k \in candidates : k <= i]}

(***************************************************************************)
(* Writing.                                                                *)
(***************************************************************************)
Unfinished(j) == j.id > Foreign /\ j.step < Steps

(* Whoever writes the ledger writes a whole job, over whatever is there.   *)
WriteLedger(j) ==
    /\ ledger' = j
    /\ lost' = IF Unfinished(ledger) /\ ledger.id # j.id THEN lost \cup {ledger.id} ELSE lost

(* The bound on jobs: nobody sets out to open one that would exceed it.    *)
Opening ==
    Cardinality({r \in Requests : rpc[r] \in Labels})
        + IF spc \in {"openBaseline", "openAfter"} THEN 1 ELSE 0
RoomForJob == nextId + Opening <= MaxJobs

NewJob(label) == Record(nextId, label, 0, "queued", NoAttempts)

WriteNewJob(label) ==
    /\ ~writeLock
    /\ nextId <= MaxJobs
    /\ WriteLedger(NewJob(label))
    /\ labels' = [labels EXCEPT ![nextId] = label]
    /\ nextId' = nextId + 1

Archived(j) == Record(j.id, j.label, j.step, "archived", j.attempts)

(***************************************************************************)
(* One poll of the scheduler.                                              *)
(***************************************************************************)
Poll ==
    /\ spc = "idle"
    /\ \E ok \in ReadOutcomes :
         LET j == ReadJob(ok) IN
         /\ job' = IF IsOpen(j) \/ NeedsArchiving(j) THEN j ELSE NoJob
         /\ spc' = CASE IsOpen(j) -> "holding"
                     [] NeedsArchiving(j) -> "archiving"
                     [] OTHER -> "trigger"
    /\ UNCHANGED <<diskVars, value, writeLock, applyVars, rpc, faults>>

(* current_job(), on its way past a job of another machine: no lock taken. *)
Archive ==
    /\ spc = "archiving"
    /\ WriteLedger(Archived(job))
    /\ spc' = "trigger"
    /\ job' = NoJob
    /\ UNCHANGED <<results, files, labels, sentinel, nextId, value, writeLock,
                   applyVars, rpc, faults>>

(* poll_once returns: the job it held in memory is gone.                   *)
Return == spc' = "idle" /\ job' = NoJob /\ value' = Failed

(* A guard refuses, the back-off is pending, or the mutex is taken.        *)
Defer ==
    /\ spc \in {"trigger", "holding"}
    /\ Return
    /\ UNCHANGED <<diskVars, writeLock, applyVars, rpc, faults>>

(* _job_for_trigger                                                        *)
TriggerBaseline ==
    /\ spc = "trigger"
    /\ RoomForJob
    /\ \E ok \in ReadOutcomes : Offered("baseline", ok) = {}
    /\ spc' = "openBaseline"
    /\ UNCHANGED <<diskVars, job, value, writeLock, applyVars, rpc, faults>>

\* Mutant: the sentinel is consumed before the guards had their say.
TriggerAfterUnguarded ==
    /\ spc = "trigger"
    /\ RoomForJob
    /\ \E ok \in ReadOutcomes : Offered("baseline", ok) # {}
    /\ sentinel
    /\ sentinel' = FALSE
    /\ spc' \in {"openAfter", "idle"}
    /\ UNCHANGED <<ledger, lost, results, files, labels, nextId, job, value, writeLock,
                   applyVars, rpc, faults>>

TriggerAfter ==
    /\ spc = "trigger"
    /\ RoomForJob
    /\ \E ok \in ReadOutcomes : Offered("baseline", ok) # {}
    /\ sentinel
    /\ sentinel' = FALSE
    /\ spc' = "openAfter"
    /\ UNCHANGED <<ledger, lost, results, files, labels, nextId, job, value, writeLock,
                   applyVars, rpc, faults>>

OpenJob(label, state) ==
    /\ spc = state
    /\ WriteNewJob(label)
    /\ job' = NewJob(label)
    /\ spc' = "holding"
    /\ UNCHANGED <<results, files, sentinel, value, writeLock, applyVars, rpc, faults>>

Bench == job.step + 1

(* _run_step up to its first write: the bench ran, cannot run here, or     *)
(* failed and may be tried again.                                          *)
Measure ==
    /\ spc = "holding"
    /\ \E outcome \in Outcomes :
         /\ value' = CASE outcome = "ran" -> gen [] outcome = "absent" -> Absent
                       [] OTHER -> Failed
         /\ spc' = IF outcome = "failed" THEN "failing" ELSE "recording"
    /\ UNCHANGED <<diskVars, job, writeLock, applyVars, rpc, faults>>

Attempted ==
    Record(job.id, job.label, job.step, job.status, [job.attempts EXCEPT ![Bench] = @ + 1])
\* Mutant: one attempt too many before giving up.
ExhaustedLate(j) == j.attempts[Bench] > MaxAttempts

Exhausted(j) == j.attempts[Bench] >= MaxAttempts

RecordAttempt ==
    /\ spc = "failing"
    /\ ~writeLock
    /\ WriteLedger(Attempted)
    /\ IF Exhausted(Attempted)
       THEN job' = Attempted /\ spc' = "recording" /\ UNCHANGED value
       ELSE Return
    /\ UNCHANGED <<results, files, labels, sentinel, nextId, writeLock,
                   applyVars, rpc, faults>>

\* Mutant: every result starts a new run file.
RunSoFarFresh(ok) == NoResults

(* What record_step finds in the run file before it adds to it.            *)
RunSoFar(ok) == IF ok THEN results[job.id] ELSE NoResults

\* Mutant: the job is written first; the result of a crash in between is lost.
WriteRunLast ==
    /\ spc = "recording"
    /\ ~writeLock
    /\ writeLock' = TRUE
    /\ WriteLedger(Record(job.id, job.label, Bench, "running", job.attempts))
    /\ spc' = "counting"
    /\ UNCHANGED <<results, files, labels, sentinel, nextId, job, value, applyVars,
                   rpc, faults>>

(* The run files by the time of their last write, id's just written.       *)
Rewritten(id) ==
    IF \E k \in DOMAIN files : files[k] = id
    THEN Append(RemoveAt(files, CHOOSE k \in DOMAIN files : files[k] = id), id)
    ELSE Append(files, id)

(* record_step: the run file first ...                                     *)
WriteRun ==
    /\ spc = "recording"
    /\ ~writeLock
    /\ writeLock' = TRUE
    /\ \E ok \in ReadOutcomes :
         results' = [results EXCEPT ![job.id] = [RunSoFar(ok) EXCEPT ![Bench] = value]]
    /\ files' = Rewritten(job.id)
    /\ spc' = "counting"
    /\ UNCHANGED <<ledger, lost, labels, sentinel, nextId, job, value, applyVars, rpc, faults>>

Advanced ==
    Record(job.id, job.label, Bench, IF Bench = Steps THEN "done" ELSE "running", job.attempts)

(* ... and the ledger second. A finished plan is written once more by      *)
(* finish_job, unless its last bench cannot run here.                      *)
WriteStep ==
    /\ spc = "counting"
    /\ WriteLedger(Advanced)
    /\ writeLock' = FALSE
    /\ IF Bench = Steps /\ value # Absent
       THEN job' = Advanced /\ spc' = "closing" /\ UNCHANGED value
       ELSE Return
    /\ UNCHANGED <<results, files, labels, sentinel, nextId, applyVars, rpc, faults>>

FinishJob ==
    /\ spc = "closing"
    /\ ~writeLock
    /\ WriteLedger(Record(job.id, job.label, job.step, "done", job.attempts))
    /\ Return
    /\ UNCHANGED <<results, files, labels, sentinel, nextId, writeLock,
                   applyVars, rpc, faults>>

(***************************************************************************)
(* _enqueue, in a thread of its own: current_job, then open_job, with no   *)
(* lock around the two.                                                    *)
(***************************************************************************)
RequestCheck(r) ==
    /\ rpc[r] = "idle"
    /\ \E ok \in ReadOutcomes :
         LET j == ReadJob(ok) IN
         rpc' = [rpc EXCEPT ![r] = IF IsOpen(j) THEN "answered"
                                   ELSE IF NeedsArchiving(j) THEN "archiving"
                                   ELSE "labelling"]
    /\ UNCHANGED <<diskVars, pollVars, applyVars, faults>>

RequestArchive(r) ==
    /\ rpc[r] = "archiving"
    /\ WriteLedger(Archived(ForeignJob))
    /\ rpc' = [rpc EXCEPT ![r] = "labelling"]
    /\ UNCHANGED <<results, files, labels, sentinel, nextId, pollVars, applyVars, faults>>

(* _label_for(MANUAL): whichever half is missing, asked before the lock.   *)
RequestLabel(r) ==
    /\ rpc[r] = "labelling"
    /\ RoomForJob
    /\ \E ok \in ReadOutcomes :
         rpc' = [rpc EXCEPT ![r] = IF Offered("baseline", ok) # {} THEN "after" ELSE "baseline"]
    /\ UNCHANGED <<diskVars, pollVars, applyVars, faults>>

RequestOpen(r) ==
    /\ rpc[r] \in Labels
    /\ WriteNewJob(rpc[r])
    /\ rpc' = [rpc EXCEPT ![r] = "answered"]
    /\ UNCHANGED <<results, files, sentinel, pollVars, applyVars, faults>>

(***************************************************************************)
(* Bulk applies, and what goes wrong.                                      *)
(***************************************************************************)
BulkApplyWrites ==
    /\ gen < MaxApplies
    /\ ~marking
    /\ gen' = gen + 1
    /\ marking' = TRUE
    /\ UNCHANGED <<diskVars, pollVars, marked, rpc, faults>>

MarkBulkApplyFinished ==
    /\ marking
    /\ sentinel' = TRUE
    /\ marking' = FALSE /\ marked' = gen
    /\ UNCHANGED <<ledger, lost, results, files, labels, nextId, pollVars, gen, rpc, faults>>

(* The client's Stop closes the stream before it gets to the sentinel, or  *)
(* no setting of the run counts as a success.                              *)
EndUnmarked ==
    /\ marking
    /\ marking' = FALSE
    /\ UNCHANGED <<diskVars, pollVars, gen, marked, rpc, faults>>

Fault == faults < MaxFaults /\ faults' = faults + 1

(* A write that keeps failing raises; the poll loop logs it and goes on.   *)
WriteFails ==
    /\ Fault
    /\ spc \in {"archiving", "openBaseline", "openAfter", "failing", "recording", "counting",
                "closing"}
    /\ Return
    /\ writeLock' = FALSE
    /\ UNCHANGED <<diskVars, applyVars, rpc>>

(* The sentinel's own write failed, which is suppressed.                   *)
MarkFails ==
    /\ Fault
    /\ marking
    /\ marking' = FALSE
    /\ UNCHANGED <<diskVars, pollVars, gen, marked, rpc>>

(* The process dies; the poll, the requests and an unmarked apply with it. *)
Crash ==
    /\ Fault
    /\ Return
    /\ writeLock' = FALSE
    /\ marking' = FALSE
    /\ rpc' = [r \in Requests |-> IF rpc[r] = "idle" THEN "idle" ELSE "answered"]
    /\ UNCHANGED <<diskVars, gen, marked>>

PollStep ==
    \/ Poll \/ Archive \/ Defer \/ TriggerBaseline \/ TriggerAfter
    \/ OpenJob("baseline", "openBaseline") \/ OpenJob("after", "openAfter")
    \/ Measure \/ RecordAttempt \/ WriteRun \/ WriteStep \/ FinishJob

RequestStep(r) ==
    RequestCheck(r) \/ RequestArchive(r) \/ RequestLabel(r) \/ RequestOpen(r)

Next ==
    \/ PollStep
    \/ \E r \in Requests : RequestStep(r)
    \/ BulkApplyWrites \/ MarkBulkApplyFinished \/ EndUnmarked
    \/ WriteFails \/ MarkFails \/ Crash

Spec == Init /\ [][Next]_vars

(***************************************************************************)
(* Fairness. The daemon polls every minute and a poll under way goes on.   *)
(* That the guards let a poll through is the user's doing: the machine is  *)
(* left alone at some tick again and again, hence strong fairness of the   *)
(* two steps a guard may refuse.                                           *)
(***************************************************************************)
PollFairness ==
    /\ WF_vars(Poll \/ Archive \/ RecordAttempt \/ WriteRun \/ WriteStep \/ FinishJob)
    /\ WF_vars(OpenJob("baseline", "openBaseline") \/ OpenJob("after", "openAfter"))
    /\ SF_vars(TriggerBaseline \/ TriggerAfter)
    /\ SF_vars(Measure)

FairSpec ==
    /\ Spec
    /\ PollFairness
    /\ WF_vars(MarkBulkApplyFinished \/ EndUnmarked)
    /\ \A r \in Requests :
         WF_vars(RequestArchive(r) \/ RequestLabel(r) \/ RequestOpen(r))

-----------------------------------------------------------------------------
(***************************************************************************)
(* Properties.                                                             *)
(***************************************************************************)

\* Every variable stays in its type (the fields of ledger.Job).
TypeOK ==
    /\ ledger \in Jobs \cup {NoJob}
    /\ results \in [JobIds -> [Plan -> Values \cup {Missing}]]
    /\ files \in Seq(JobIds)
    /\ labels \in [JobIds -> Labels]
    /\ sentinel \in BOOLEAN
    /\ nextId \in 1..(MaxJobs + 1)
    /\ gen \in Gens
    /\ marking \in BOOLEAN /\ marked \in Gens
    /\ lost \subseteq JobIds
    /\ writeLock \in BOOLEAN
    /\ spc \in PollStates
    /\ job \in Jobs \cup {NoJob}
    /\ value \in Values
    /\ rpc \in [Requests -> RequestStates]
    /\ faults \in 0..MaxFaults

HasResult(id, b) == results[id][b] # Missing
IsComplete(id) == \A b \in Plan : HasResult(id, b)

\* Job.step_index: "How many of `plan` have their result on disk. Never more
\* than that." Crash, failed write and give-up included.
StepHasResult == \A b \in Plan : b <= ledger.step => HasResult(ledger.id, b)

\* baseline() and latest_after() never hand out a run with a bench missing, unless
\* its job was written over by another's record with benches still to do
\* (ledger._newest_complete leaves out the run of the job in the ledger, and knows
\* of no other).
OfferedRunIsComplete ==
    \A label \in Labels : \A id \in Offered(label, TRUE) : IsComplete(id) \/ id \in lost

\* A result that reached a run file stays in it, whatever is recorded next
\* (ledger.record_step).
ResultsKept ==
    [][\A id \in JobIds, b \in Plan : HasResult(id, b) => HasResult(id, b)']_vars

\* A bench is given up after MaxAttempts failures; a failure the disk counted
\* and the job did not act on, because the process died, buys one more try.
AttemptsBounded == \A b \in Plan : ledger.attempts[b] <= MaxAttempts + faults

MeasuredSince(id, g) == \A b \in Plan : results[id][b] \in g..gen \cup {Failed, Absent}

\* Every bulk apply that left its sentinel ends up measured: once applies stop, the
\* after run on offer was measured no earlier than the last of them (a sentinel is
\* not spent on a refused tick). Only a process that dies, a write that fails, or a
\* job written over by another's record may lose it. An apply that ends without a
\* sentinel, because its client stopped it, waits for the next that leaves one.
AppliesEndUpMeasured ==
    <>[](\/ marked = 0 \/ faults > 0 \/ lost # {}
         \/ \E id \in Offered("after", TRUE) : MeasuredSince(id, marked))

-----------------------------------------------------------------------------
(***************************************************************************)
(* Claims the code does not keep.                                          *)
(***************************************************************************)

\* ledger._newest_complete: "The newest run under this label that belongs to a
\* finished job."
EveryOfferIsComplete == \A label \in Labels : \A id \in Offered(label, TRUE) : IsComplete(id)

\* ledger._runs_are_ours: "a run whose machine cannot be established is not
\* offered as half of a comparison".
OfferedRunIsOurs == \A label \in Labels : Foreign \notin Offered(label, TRUE)

\* benchmark_ledger._enqueue: "Two open jobs would write two runs under one
\* label and race each other for it."
OpenJobNotOverwritten == [][IsOpen(ledger) => ledger'.id = ledger.id]_vars
=============================================================================
