---------------------------- MODULE LedgerProofs ----------------------------
(***************************************************************************)
(* What a crash, a failed write or a second opener can and cannot do to    *)
(* the ledger, for every plan length, number of requests and bound.        *)
(*                                                                         *)
(* The argument for StepHasResult. The ledger, and the copy the poll holds *)
(* in memory, both have a result on disk for every bench they count        *)
(* (Backed); while the poll is between the two writes of record_step, so   *)
(* has the bench it is about to count. Results only ever get added, as     *)
(* long as reading the run file back does not fail, so every later copy    *)
(* stays backed, whoever overwrites the ledger with what.                  *)
(*                                                                         *)
(* Then what a bench is tried (Tries), what is on offer (Whole), and, for  *)
(* files that may fail to open too, the types (Typed).                     *)
(***************************************************************************)
EXTENDS Ledger, SequenceTheorems, WellFoundedInduction, TLAPS

\* What bulk applies change, spelled out in every proof.
USE DEF applyVars

\* The types the argument needs (files is left to TypeOK and the runs).
DataOK ==
    /\ ledger \in Jobs \cup {NoJob}
    /\ job \in Jobs \cup {NoJob}
    /\ results \in [JobIds -> [Plan -> Values \cup {Missing}]]
    /\ nextId \in Nat \ {0}
    /\ gen \in Gens
    /\ value \in Values
    /\ faults \in Nat
    /\ rpc \in [Requests -> RequestStates]
    /\ spc \in PollStates

Working == {"holding", "failing", "recording", "counting"}

\* A poll at work holds a real job with a bench left to do.
HoldsJob ==
    /\ spc \in Working => job \in Jobs /\ job.step < Steps
    /\ spc \in {"archiving", "closing"} => job \in Jobs
    /\ ledger.status \in OpenStatuses => ledger.step < Steps

\* Every bench the job counts has its result in res.
Backed(res, j) == \A b \in Plan : b <= j.step => res[j.id][b] # Missing

Progress ==
    /\ Backed(results, ledger)
    /\ Backed(results, job)
    /\ spc = "counting" => results[job.id][Bench] # Missing

\* Whoever is about to archive the copied ledger has its run on disk.
CopyIsWhole ==
    (ledger.id = Foreign \/ job.id = Foreign \/ \E r \in Requests : rpc[r] = "archiving")
        => Backed(results, ForeignJob)

IInv == DataOK /\ HoldsJob /\ Progress /\ CopyIsWhole

\* A run file only gains results.
Gains ==
    \A id \in JobIds, b \in Plan : results[id][b] # Missing => results'[id][b] # Missing

-----------------------------------------------------------------------------
LEMMA RecordFacts ==
    ASSUME NEW id \in JobIds, NEW label \in Labels, NEW step \in 0..Steps,
           NEW status \in OpenStatuses \cup {"done", "archived"},
           NEW attempts \in [Plan -> Nat]
    PROVE  /\ Record(id, label, step, status, attempts) \in Jobs
           /\ Record(id, label, step, status, attempts).id = id
           /\ Record(id, label, step, status, attempts).step = step
           /\ Record(id, label, step, status, attempts).attempts = attempts
BY DEF Record, Jobs

LEMMA FieldFacts ==
    ASSUME NEW j \in Jobs
    PROVE  /\ j.id \in JobIds /\ j.label \in Labels /\ j.step \in 0..Steps
           /\ j.status \in OpenStatuses \cup {"done", "archived"}
           /\ j.attempts \in [Plan -> Nat]
BY DEF Jobs

LEMMA NoJobFacts ==
    /\ NoJob.id = -1 /\ NoJob.step = 0 /\ NoJob.status = "none"
    /\ NoJob \notin Jobs
    /\ NoJob.attempts = NoAttempts
    /\ NoAttempts \in [Plan -> Nat]
<1>1. NoJob.id = -1 /\ NoJob.step = 0 /\ NoJob.status = "none"
      /\ NoJob.attempts = NoAttempts
  BY DEF NoJob, Record
<1>2. NoAttempts \in [Plan -> Nat]
  BY DEF NoAttempts
<1>3. NoJob \notin Jobs
  BY <1>1, FieldFacts, BoundsAssumption DEF JobIds
<1> QED
  BY <1>1, <1>2, <1>3

LEMMA ForeignFacts ==
    /\ ForeignJob \in Jobs /\ ForeignJob.id = Foreign /\ ForeignJob.step = Steps
    /\ ForeignJob.attempts = NoAttempts
<1>1. Foreign \in JobIds /\ Steps \in 0..Steps
  BY BoundsAssumption DEF Foreign, JobIds
<1> QED
  BY <1>1, RecordFacts, NoJobFacts DEF ForeignJob, Labels

LEMMA ArchivedFacts ==
    ASSUME NEW j \in Jobs
    PROVE  /\ Archived(j) \in Jobs /\ Archived(j).id = j.id /\ Archived(j).step = j.step
           /\ Archived(j).attempts = j.attempts
<1>1. /\ j.id \in JobIds /\ j.label \in Labels /\ j.step \in 0..Steps
      /\ j.attempts \in [Plan -> Nat]
  BY FieldFacts
<1>2. "archived" \in OpenStatuses \cup {"done", "archived"}
  OBVIOUS
<1>3. Archived(j) = Record(j.id, j.label, j.step, "archived", j.attempts)
  BY DEF Archived
<1> QED
  BY <1>1, <1>2, <1>3 DEF Record, Jobs

LEMMA NewJobFacts ==
    ASSUME DataOK, NEW label \in Labels, nextId <= MaxJobs
    PROVE  /\ NewJob(label) \in Jobs /\ NewJob(label).id = nextId
           /\ NewJob(label).step = 0 /\ NewJob(label).attempts = NoAttempts
<1>1. nextId \in JobIds /\ 0 \in 0..Steps
  BY BoundsAssumption DEF DataOK, JobIds
<1> QED
  BY <1>1, RecordFacts, NoJobFacts DEF NewJob, OpenStatuses

LEMMA BenchFacts ==
    ASSUME NEW j \in Jobs, j = job, job.step < Steps
    PROVE  /\ Bench \in Plan
           /\ Attempted \in Jobs /\ Attempted.step = job.step /\ Attempted.id = job.id
           /\ Attempted.attempts = [job.attempts EXCEPT ![Bench] = @ + 1]
           /\ Advanced \in Jobs /\ Advanced.step = Bench /\ Advanced.id = job.id
           /\ Advanced.attempts = job.attempts
<1>1. Bench \in Plan /\ Bench \in 0..Steps
  BY FieldFacts, BoundsAssumption DEF Bench, Plan
<1>2. [job.attempts EXCEPT ![Bench] = @ + 1] \in [Plan -> Nat]
  BY <1>1, FieldFacts
<1>3. (IF Bench = Steps THEN "done" ELSE "running") \in OpenStatuses \cup {"done", "archived"}
  BY DEF OpenStatuses
<1>4. /\ job.id \in JobIds /\ job.label \in Labels /\ job.step \in 0..Steps
      /\ job.status \in OpenStatuses \cup {"done", "archived"}
      /\ job.attempts \in [Plan -> Nat]
  BY FieldFacts
<1>5. /\ Attempted \in Jobs /\ Attempted.step = job.step /\ Attempted.id = job.id
      /\ Attempted.attempts = [job.attempts EXCEPT ![Bench] = @ + 1]
  BY <1>2, <1>4, RecordFacts DEF Attempted
<1>6. /\ Advanced \in Jobs /\ Advanced.step = Bench /\ Advanced.id = job.id
      /\ Advanced.attempts = job.attempts
  BY <1>1, <1>3, <1>4 DEF Advanced, Record, Jobs
<1> QED
  BY <1>1, <1>5, <1>6

LEMMA MissingFacts == Missing \notin Values /\ Missing # 0
BY BoundsAssumption DEF Missing, Values, Gens, Failed, Absent

\* A copy of the job that was backed stays so while run files only gain.
LEMMA StaysBacked ==
    ASSUME NEW j \in Jobs \cup {NoJob}, Backed(results, j), Gains
    PROVE  Backed(results', j)
<1>1. CASE j = NoJob
  BY <1>1, NoJobFacts DEF Backed, Plan
<1>2. CASE j \in Jobs
  BY <1>2, FieldFacts DEF Backed, Gains
<1> QED
  BY <1>1, <1>2

-----------------------------------------------------------------------------
\* The argument starts from either kind of first launch.
THEOREM InitEstablishes == Init => IInv
<1> SUFFICES ASSUME Init PROVE IInv
  OBVIOUS
<1>1. /\ ledger \in Jobs \cup {NoJob} /\ Foreign \in JobIds
      /\ 0 \in Values /\ NoResults \in [Plan -> Values \cup {Missing}]
  BY ForeignFacts, BoundsAssumption
     DEF Init, JobIds, Foreign, Values, Gens, NoResults
<1>2. results \in [JobIds -> [Plan -> Values \cup {Missing}]]
  BY <1>1 DEF Init, Foreign
<1>3. DataOK
  BY <1>1, <1>2, BoundsAssumption
     DEF Init, DataOK, Gens, Values, Failed, RequestStates, PollStates
<1>4. HoldsJob
  BY NoJobFacts DEF Init, HoldsJob, Working, ForeignJob, Record, OpenStatuses
<1>5. Backed(results, NoJob)
  BY NoJobFacts DEF Backed, Plan
<1>6. ledger = ForeignJob => Backed(results, ForeignJob)
  <2>1. ledger = ForeignJob => results[Foreign] = [b \in Plan |-> 0]
    BY <1>1, ForeignFacts, NoJobFacts, FieldFacts DEF Init
  <2> QED
    BY <2>1, ForeignFacts, MissingFacts DEF Backed
<1>7. ledger = ForeignJob \/ ledger = NoJob
  BY DEF Init
<1>8. Progress
  BY <1>5, <1>6, <1>7 DEF Progress, Init
<1>9. CopyIsWhole
  BY <1>6, <1>7, NoJobFacts DEF CopyIsWhole, Init, Foreign
<1> QED
  BY <1>3, <1>4, <1>8, <1>9 DEF IInv

-----------------------------------------------------------------------------
\* With files that open, a run file only gains results.
LEMMA GainsStep ==
    ASSUME IInv, FlakyReads = FALSE, [Next]_vars
    PROVE  Gains
<1>1. CASE WriteRun
  <2>1. job \in Jobs /\ job.step < Steps
    BY <1>1 DEF IInv, HoldsJob, Working, WriteRun
  <2>2. Bench \in Plan /\ job.id \in JobIds
    BY <2>1, BenchFacts, FieldFacts
  <2>3. results' = [results EXCEPT ![job.id] = [results[job.id] EXCEPT ![Bench] = value]]
    BY <1>1 DEF WriteRun, ReadOutcomes, RunSoFar
  <2>4. value # Missing
    BY MissingFacts DEF IInv, DataOK
  <2> QED
    BY <2>2, <2>3, <2>4 DEF Gains, IInv, DataOK
<1>2. CASE ~WriteRun
  <2>1. results' = results
    BY <1>2 DEF Next, PollStep, RequestStep, vars, diskVars, Poll, Archive, WriteLedger, Defer,
      TriggerBaseline, TriggerAfter, OpenJob, Measure, RecordAttempt, WriteStep, FinishJob,
      RequestCheck, RequestArchive, RequestLabel, RequestOpen, BulkApplyWrites,
      MarkBulkApplyFinished, EndUnmarked, WriteFails, MarkFails, Crash
  <2> QED
    BY <2>1 DEF Gains
<1> QED
  BY <1>1, <1>2

\* What is left to show of a step once both copies of the job are known to be
\* backed by the results on disk before it.
LEMMA Carried ==
    ASSUME IInv, Gains, DataOK', HoldsJob',
           Backed(results, ledger'), Backed(results, job'),
           spc' = "counting" => results'[job'.id][job'.step + 1] # Missing,
           (ledger'.id = Foreign \/ job'.id = Foreign \/ \E r \in Requests : rpc'[r] = "archiving")
               => Backed(results, ForeignJob)
    PROVE  IInv'
<1>1. ledger' \in Jobs \cup {NoJob} /\ job' \in Jobs \cup {NoJob}
  BY DEF DataOK, Jobs, JobIds, Labels, OpenStatuses, Plan
<1>2. Backed(results', ledger') /\ Backed(results', job')
  BY <1>1, StaysBacked
<1>3. Backed(results, ForeignJob) => Backed(results', ForeignJob)
  BY ForeignFacts, StaysBacked
<1>4. Progress'
  BY <1>2 DEF Progress, Backed, Bench, Plan
<1>5. CopyIsWhole'
  BY <1>3 DEF CopyIsWhole, Backed, Plan, ForeignJob, Foreign, Record, NoAttempts
<1> QED
  BY <1>4, <1>5 DEF IInv

-----------------------------------------------------------------------------
(***************************************************************************)
(* One lemma per action, or per group of actions that move the same state. *)
(***************************************************************************)
LEMMA ReturnFacts ==
    ASSUME IInv, Gains, Return, UNCHANGED <<results, nextId, gen>>, faults' \in Nat,
           rpc' \in [Requests -> RequestStates],
           \A r \in Requests : rpc'[r] = "archiving" => rpc[r] = "archiving",
           ledger' \in Jobs \cup {NoJob}, Backed(results, ledger'),
           ledger'.status \in OpenStatuses => ledger'.step < Steps,
           ledger'.id = ledger.id \/ ledger'.id = job.id
    PROVE  IInv'
<1>1. /\ DataOK'
  BY DEF IInv, DataOK, Return, PollStates, Values, Failed, Jobs, NoJob, Record, NoAttempts,
     JobIds, Labels, OpenStatuses, Plan, Gens, RequestStates
<1>2. HoldsJob'
  BY DEF HoldsJob, Return, Working
<1>3. Backed(results, job')
  BY NoJobFacts DEF Return, Backed, Plan
<1>4. job'.id # Foreign
  BY NoJobFacts DEF Return, Foreign
<1>5. (ledger'.id = Foreign \/ job'.id = Foreign \/ \E r \in Requests : rpc'[r] = "archiving")
        => Backed(results, ForeignJob)
  BY <1>4 DEF IInv, CopyIsWhole
<1> QED
  BY <1>1, <1>2, <1>3, <1>5, Carried DEF Return

LEMMA PollStepOK ==
    ASSUME IInv, Gains, Poll
    PROVE  IInv'
<1>1. job' \in {ledger, NoJob} /\ spc' \in {"holding", "archiving", "trigger"}
  BY DEF Poll, ReadJob
<1>2. spc' \in {"holding", "archiving"} => job' \in Jobs
  BY NoJobFacts DEF Poll, ReadJob, IInv, DataOK, IsOpen, NeedsArchiving, Foreign
<1>3. spc' = "holding" => job'.step < Steps
  BY NoJobFacts DEF Poll, ReadJob, IInv, HoldsJob, IsOpen, NeedsArchiving, Foreign
<1>4. DataOK'
  BY <1>1 DEF IInv, DataOK, Poll, PollStates, diskVars, Jobs, JobIds, Labels, OpenStatuses,
     Plan, NoJob, Record, NoAttempts, Values, Gens, RequestStates
<1>5. HoldsJob'
  BY <1>1, <1>2, <1>3 DEF HoldsJob, Working, IInv, Poll, diskVars, Jobs, JobIds, Labels,
     OpenStatuses, Plan
<1>6. Backed(results, ledger') /\ Backed(results, job')
  BY <1>1, NoJobFacts DEF IInv, Progress, Poll, diskVars, Backed, Plan
<1>7. (ledger'.id = Foreign \/ job'.id = Foreign \/ \E r \in Requests : rpc'[r] = "archiving")
        => Backed(results, ForeignJob)
  BY <1>1, NoJobFacts DEF IInv, CopyIsWhole, Poll, diskVars, Foreign
<1> QED
  BY <1>1, <1>4, <1>5, <1>6, <1>7, Carried

LEMMA ArchiveOK ==
    ASSUME IInv, Gains, Archive
    PROVE  IInv'
<1>1. job \in Jobs /\ Archived(job) \in Jobs /\ Archived(job).id = job.id
      /\ Archived(job).step = job.step /\ Archived(job).status = "archived"
  BY ArchivedFacts DEF IInv, HoldsJob, Archive, WriteLedger, Archived, Record
<1>2. ledger' = Archived(job) /\ job' = NoJob /\ spc' = "trigger"
  BY DEF Archive, WriteLedger
<1>3. DataOK'
  BY <1>1, <1>2 DEF IInv, DataOK, Archive, WriteLedger, PollStates, Jobs, JobIds, Labels,
     OpenStatuses,
     Plan, NoJob, Record, NoAttempts, Values, Gens, RequestStates
<1>4. HoldsJob'
  BY <1>1, <1>2 DEF HoldsJob, Working, OpenStatuses
<1>5. Backed(results, ledger') /\ Backed(results, job')
  BY <1>1, <1>2, NoJobFacts DEF IInv, Progress, Backed, Plan
<1>6. (ledger'.id = Foreign \/ job'.id = Foreign \/ \E r \in Requests : rpc'[r] = "archiving")
        => Backed(results, ForeignJob)
  BY <1>1, <1>2, NoJobFacts DEF IInv, CopyIsWhole, Archive, WriteLedger, Foreign
<1> QED
  BY <1>2, <1>3, <1>4, <1>5, <1>6, Carried

\* Steps of the poll that touch neither the ledger nor the job in memory.
LEMMA TriggerOK ==
    ASSUME IInv, Gains, TriggerBaseline \/ TriggerAfter
    PROVE  IInv'
<1>1. /\ UNCHANGED <<ledger, results, nextId, job, value, gen, rpc, faults>>
      /\ spc' \in {"openBaseline", "openAfter"}
  BY DEF TriggerBaseline, TriggerAfter, diskVars
<1>2. DataOK'
  BY <1>1 DEF IInv, DataOK, PollStates, Jobs, JobIds, Labels, OpenStatuses,
     Plan, NoJob, Record, NoAttempts, Values, Gens, RequestStates
<1>3. HoldsJob'
  BY <1>1 DEF IInv, HoldsJob, Working, OpenStatuses
<1>4. Backed(results, ledger') /\ Backed(results, job')
  BY <1>1 DEF IInv, Progress
<1>5. (ledger'.id = Foreign \/ job'.id = Foreign \/ \E r \in Requests : rpc'[r] = "archiving")
        => Backed(results, ForeignJob)
  BY <1>1 DEF IInv, CopyIsWhole
<1> QED
  BY <1>1, <1>2, <1>3, <1>4, <1>5, Carried

LEMMA OpenJobOK ==
    ASSUME IInv, Gains, NEW label \in Labels, NEW state, OpenJob(label, state)
    PROVE  IInv'
<1>1. /\ NewJob(label) \in Jobs /\ NewJob(label).id = nextId /\ NewJob(label).step = 0
  BY NewJobFacts DEF IInv, OpenJob, WriteNewJob, WriteLedger
<1>2. /\ ledger' = NewJob(label) /\ job' = NewJob(label) /\ spc' = "holding"
      /\ nextId' = nextId + 1 /\ UNCHANGED <<results, value, gen, rpc, faults>>
  BY DEF OpenJob, WriteNewJob, WriteLedger
<1>3. DataOK'
  BY <1>1, <1>2 DEF IInv, DataOK, PollStates, Jobs, JobIds, Labels, OpenStatuses,
     Plan, NoJob, Record, NoAttempts, Values, Gens, RequestStates
<1>4. HoldsJob'
  BY <1>1, <1>2, BoundsAssumption DEF HoldsJob, Working, Jobs, JobIds, Labels, OpenStatuses,
     Plan
<1>5. Backed(results, ledger') /\ Backed(results, job')
  BY <1>1, <1>2 DEF Backed, Plan
<1>6. (ledger'.id = Foreign \/ job'.id = Foreign \/ \E r \in Requests : rpc'[r] = "archiving")
        => Backed(results, ForeignJob)
  BY <1>1, <1>2 DEF IInv, DataOK, CopyIsWhole, Foreign
<1> QED
  BY <1>2, <1>3, <1>4, <1>5, <1>6, Carried

LEMMA MeasureOK ==
    ASSUME IInv, Gains, Measure
    PROVE  IInv'
<1>1. /\ UNCHANGED <<ledger, results, nextId, job, gen, rpc, faults>>
      /\ spc = "holding" /\ spc' \in {"recording", "failing"}
      /\ value' \in {gen, Absent, Failed}
  BY DEF Measure, diskVars
<1>2. DataOK'
  BY <1>1 DEF IInv, DataOK, PollStates, Jobs, JobIds, Labels, OpenStatuses,
     Plan, NoJob, Record, NoAttempts, Values, Gens, RequestStates
<1>3. HoldsJob'
  BY <1>1 DEF IInv, HoldsJob, Working, OpenStatuses, Jobs, JobIds, Labels, Plan
<1>4. Backed(results, ledger') /\ Backed(results, job')
  BY <1>1 DEF IInv, Progress
<1>5. (ledger'.id = Foreign \/ job'.id = Foreign \/ \E r \in Requests : rpc'[r] = "archiving")
        => Backed(results, ForeignJob)
  BY <1>1 DEF IInv, CopyIsWhole
<1> QED
  BY <1>1, <1>2, <1>3, <1>4, <1>5, Carried

LEMMA RecordAttemptOK ==
    ASSUME IInv, Gains, RecordAttempt
    PROVE  IInv'
<1>1. job \in Jobs /\ job.step < Steps
  BY DEF IInv, HoldsJob, Working, RecordAttempt, WriteLedger
<1>2. /\ Attempted \in Jobs /\ Attempted.step = job.step /\ Attempted.id = job.id
  BY <1>1, BenchFacts
<1>3. ledger' = Attempted /\ UNCHANGED <<results, nextId, gen, rpc, faults>>
  BY DEF RecordAttempt, WriteLedger
<1>4. Backed(results, Attempted)
  BY <1>2 DEF IInv, Progress, Backed
<1>5. CASE Return
  BY <1>1, <1>2, <1>3, <1>4, <1>5, ReturnFacts DEF IInv, DataOK
<1>6. CASE job' = Attempted /\ spc' = "recording" /\ UNCHANGED value
  <2>1. DataOK'
    BY <1>2, <1>3, <1>6 DEF IInv, DataOK, PollStates, Jobs, JobIds, Labels, OpenStatuses,
     Plan, NoJob, Record, NoAttempts, Values, Gens, RequestStates
  <2>2. HoldsJob'
    BY <1>1, <1>2, <1>3, <1>6 DEF HoldsJob, Working, Jobs, JobIds, Labels, OpenStatuses, Plan
  <2>3. (ledger'.id = Foreign \/ job'.id = Foreign \/ \E r \in Requests : rpc'[r] = "archiving")
        => Backed(results, ForeignJob)
    BY <1>2, <1>3, <1>6 DEF IInv, CopyIsWhole
  <2> QED
    BY <1>3, <1>4, <1>6, <2>1, <2>2, <2>3, Carried
<1> QED
  BY <1>5, <1>6 DEF RecordAttempt, WriteLedger

LEMMA WriteRunOK ==
    ASSUME IInv, FlakyReads = FALSE, Gains, WriteRun
    PROVE  IInv'
<1>1. job \in Jobs /\ job.step < Steps /\ Bench \in Plan /\ job.id \in JobIds
  BY BenchFacts, FieldFacts DEF IInv, HoldsJob, Working, WriteRun
<1>2. /\ UNCHANGED <<ledger, nextId, job, value, gen, rpc, faults>> /\ spc' = "counting"
      /\ results' = [results EXCEPT ![job.id] = [results[job.id] EXCEPT ![Bench] = value]]
  BY DEF WriteRun, ReadOutcomes, RunSoFar
<1>3. DataOK'
  BY <1>1, <1>2 DEF IInv, DataOK, PollStates, Jobs, JobIds, Labels, OpenStatuses,
     Plan, NoJob, Record, NoAttempts, Values, Gens, RequestStates
<1>4. HoldsJob'
  BY <1>1, <1>2 DEF IInv, HoldsJob, Working, OpenStatuses, Jobs, JobIds, Labels, Plan
<1>5. results'[job'.id][job'.step + 1] # Missing
  BY <1>1, <1>2, MissingFacts DEF IInv, DataOK, Bench
<1>6. Backed(results, ledger') /\ Backed(results, job')
  BY <1>2 DEF IInv, Progress
<1>7. (ledger'.id = Foreign \/ job'.id = Foreign \/ \E r \in Requests : rpc'[r] = "archiving")
        => Backed(results, ForeignJob)
  BY <1>2 DEF IInv, CopyIsWhole
<1> QED
  BY <1>3, <1>4, <1>5, <1>6, <1>7, Carried

LEMMA WriteStepOK ==
    ASSUME IInv, Gains, WriteStep
    PROVE  IInv'
<1>1. job \in Jobs /\ job.step < Steps
  BY DEF IInv, HoldsJob, Working, WriteStep, WriteLedger
<1>2. /\ Advanced \in Jobs /\ Advanced.step = Bench /\ Advanced.id = job.id /\ Bench \in Plan
  BY <1>1, BenchFacts
<1>3. ledger' = Advanced /\ UNCHANGED <<results, nextId, gen, rpc, faults>>
  BY DEF WriteStep, WriteLedger
<1>4. Backed(results, Advanced)
  BY <1>1, <1>2, FieldFacts DEF IInv, Progress, Backed, WriteStep, WriteLedger, Bench, Plan
<1>5. Advanced.status \in OpenStatuses => Advanced.step < Steps
  <2>1. Bench = Steps \/ Bench < Steps
    BY <1>2, BoundsAssumption DEF Plan
  <2>2. Bench = Steps => Advanced.status = "done"
    BY DEF Advanced, Record
  <2> QED
    BY <1>2, <2>1, <2>2 DEF OpenStatuses
<1>6. CASE Return
  BY <1>2, <1>3, <1>4, <1>5, <1>6, ReturnFacts DEF IInv, DataOK
<1>7. CASE job' = Advanced /\ spc' = "closing" /\ UNCHANGED value
  <2>1. DataOK'
    BY <1>2, <1>3, <1>7 DEF IInv, DataOK, PollStates, Jobs, JobIds, Labels, OpenStatuses,
     Plan, NoJob, Record, NoAttempts, Values, Gens, RequestStates
  <2>2. HoldsJob'
    BY <1>2, <1>3, <1>5, <1>7
       DEF HoldsJob, Working, Jobs, JobIds, Labels, OpenStatuses, Plan
  <2>3. (ledger'.id = Foreign \/ job'.id = Foreign \/ \E r \in Requests : rpc'[r] = "archiving")
        => Backed(results, ForeignJob)
    BY <1>2, <1>3, <1>7 DEF IInv, CopyIsWhole
  <2> QED
    BY <1>3, <1>4, <1>7, <2>1, <2>2, <2>3, Carried
<1> QED
  BY <1>6, <1>7 DEF WriteStep, WriteLedger

LEMMA FinishJobOK ==
    ASSUME IInv, Gains, FinishJob
    PROVE  IInv'
<1>1. job \in Jobs
  BY DEF IInv, HoldsJob, FinishJob, WriteLedger
<1>2. /\ ledger' = Record(job.id, job.label, job.step, "done", job.attempts) /\ Return
      /\ UNCHANGED <<results, nextId, gen, rpc, faults>>
  BY DEF FinishJob, WriteLedger
<1>3. /\ ledger' \in Jobs /\ ledger'.id = job.id /\ ledger'.step = job.step
      /\ ledger'.status = "done"
  BY <1>1, <1>2, FieldFacts DEF Record, Jobs
<1>4. Backed(results, ledger')
  BY <1>3 DEF IInv, Progress, Backed
<1> QED
  BY <1>2, <1>3, <1>4, ReturnFacts DEF IInv, DataOK, OpenStatuses

LEMMA RequestOK ==
    ASSUME IInv, Gains, NEW r \in Requests, RequestStep(r)
    PROVE  IInv'
<1>1. UNCHANGED <<results, job, value, gen, faults, spc>>
  BY DEF RequestStep, RequestCheck, RequestArchive, WriteLedger, RequestLabel, RequestOpen,
     diskVars, pollVars
<1>2. rpc' \in [Requests -> RequestStates]
  BY DEF IInv, DataOK, RequestStep, RequestCheck, RequestArchive, WriteLedger, RequestLabel,
     RequestOpen,
     RequestStates
<1>3. /\ ledger' \in Jobs \cup {NoJob} /\ nextId' \in Nat \ {0} /\ Backed(results, ledger')
      /\ ledger'.status \in OpenStatuses => ledger'.step < Steps
  <2>1. CASE RequestCheck(r) \/ RequestLabel(r)
    BY <2>1 DEF RequestCheck, RequestLabel, IInv, DataOK, Progress, HoldsJob, diskVars
  <2>2. CASE RequestArchive(r)
    <3>1. /\ Archived(ForeignJob) \in Jobs /\ Archived(ForeignJob).id = Foreign
          /\ Archived(ForeignJob).step = Steps /\ Archived(ForeignJob).status = "archived"
      BY ForeignFacts, ArchivedFacts DEF Archived, Record
    <3>2. Backed(results, ForeignJob)
      BY <2>2 DEF IInv, CopyIsWhole, RequestArchive, WriteLedger
    <3> QED
      BY <2>2, <3>1, <3>2, ForeignFacts
         DEF RequestArchive, WriteLedger, IInv, DataOK, Backed, OpenStatuses
  <2>3. CASE RequestOpen(r)
    <3>1. rpc[r] \in Labels /\ ledger' = NewJob(rpc[r]) /\ nextId' = nextId + 1
      BY <2>3 DEF RequestOpen, WriteNewJob, WriteLedger
    <3>2. NewJob(rpc[r]) \in Jobs /\ NewJob(rpc[r]).step = 0
      BY <2>3, <3>1, NewJobFacts DEF RequestOpen, WriteNewJob, WriteLedger, IInv
    <3> QED
      BY <3>1, <3>2, BoundsAssumption DEF IInv, DataOK, Backed, Plan
  <2> QED
    BY <2>1, <2>2, <2>3 DEF RequestStep
<1>4. DataOK'
  BY <1>1, <1>2, <1>3 DEF IInv, DataOK, PollStates, Jobs, JobIds, Labels, OpenStatuses,
     Plan, NoJob, Record, NoAttempts, Values, Gens, RequestStates
<1>5. HoldsJob'
  BY <1>1, <1>3 DEF IInv, HoldsJob, Working, OpenStatuses, Jobs, JobIds, Labels, Plan
<1>6. (ledger'.id = Foreign \/ job'.id = Foreign \/ \E q \in Requests : rpc'[q] = "archiving")
        => Backed(results, ForeignJob)
  <2>1. CASE RequestCheck(r)
    <3>1. /\ UNCHANGED <<ledger, job>>
          /\ \A q \in Requests :
               rpc'[q] = "archiving" => rpc[q] = "archiving" \/ ledger.id = Foreign
      BY <2>1, NoJobFacts
         DEF RequestCheck, ReadJob, NeedsArchiving, IInv, DataOK, diskVars, pollVars, Foreign
    <3> QED
      BY <3>1 DEF IInv, CopyIsWhole
  <2>2. CASE RequestArchive(r)
    BY <2>2, <1>1 DEF RequestArchive, WriteLedger, IInv, DataOK, CopyIsWhole
  <2>3. CASE RequestLabel(r)
    BY <2>3, <1>1 DEF RequestLabel, IInv, DataOK, CopyIsWhole, diskVars
  <2>4. CASE RequestOpen(r)
    <3>1. ledger' = NewJob(rpc[r]) /\ NewJob(rpc[r]).id = nextId
      BY <2>4, NewJobFacts DEF RequestOpen, WriteNewJob, WriteLedger, IInv
    <3> QED
      BY <2>4, <1>1, <3>1 DEF RequestOpen, IInv, DataOK, CopyIsWhole, Foreign
  <2> QED
    BY <2>1, <2>2, <2>3, <2>4 DEF RequestStep
<1>7. spc' = "counting" => results'[job'.id][job'.step + 1] # Missing
  BY <1>1 DEF IInv, Progress, Bench
<1>8. Backed(results, job')
  BY <1>1 DEF IInv, Progress
<1> QED
  BY <1>3, <1>4, <1>5, <1>6, <1>7, <1>8, Carried

\* Steps that leave the poll, the requests and the ledger where they are.
LEMMA ApplyOK ==
    ASSUME IInv, Gains, BulkApplyWrites \/ MarkBulkApplyFinished \/ EndUnmarked \/ MarkFails
    PROVE  IInv'
<1>1. /\ UNCHANGED <<ledger, results, nextId, spc, job, value, rpc>>
      /\ gen' \in Gens /\ faults' \in Nat
  BY BoundsAssumption DEF BulkApplyWrites, MarkBulkApplyFinished, EndUnmarked, MarkFails,
     Fault, diskVars,
     pollVars, Gens, IInv, DataOK
<1>2. DataOK'
  BY <1>1 DEF IInv, DataOK, PollStates, Jobs, JobIds, Labels, OpenStatuses,
     Plan, NoJob, Record, NoAttempts, Values, Gens, RequestStates
<1>3. HoldsJob'
  BY <1>1 DEF IInv, HoldsJob, Working, OpenStatuses, Jobs, JobIds, Labels, Plan
<1>4. Backed(results, ledger') /\ Backed(results, job')
  BY <1>1 DEF IInv, Progress
<1>5. spc' = "counting" => results'[job'.id][job'.step + 1] # Missing
  BY <1>1 DEF IInv, Progress, Bench
<1>6. (ledger'.id = Foreign \/ job'.id = Foreign \/ \E q \in Requests : rpc'[q] = "archiving")
        => Backed(results, ForeignJob)
  BY <1>1 DEF IInv, CopyIsWhole
<1> QED
  BY <1>1, <1>2, <1>3, <1>4, <1>5, <1>6, Carried

\* Steps that end the poll and write nothing.
LEMMA AbandonOK ==
    ASSUME IInv, Gains, Defer \/ WriteFails \/ Crash
    PROVE  IInv'
<1>1. /\ Return /\ UNCHANGED <<ledger, results, nextId, gen>> /\ faults' \in Nat
  BY DEF Defer, WriteFails, Crash, Fault, diskVars, IInv, DataOK
<1>2. /\ rpc' \in [Requests -> RequestStates]
      /\ \A r \in Requests : rpc'[r] = "archiving" => rpc[r] = "archiving"
  BY DEF Defer, WriteFails, Crash, IInv, DataOK, RequestStates
<1>3. /\ ledger' \in Jobs \cup {NoJob} /\ Backed(results, ledger')
      /\ ledger'.status \in OpenStatuses => ledger'.step < Steps
  BY <1>1 DEF IInv, DataOK, Progress, HoldsJob
<1> QED
  BY <1>1, <1>2, <1>3, ReturnFacts

-----------------------------------------------------------------------------
\* Every step, and every stutter, keeps the invariant.
THEOREM StepKeeps ==
    ASSUME FlakyReads = FALSE, IInv, [Next]_vars
    PROVE  IInv'
<1>1. Gains
  BY GainsStep
<1>2. CASE UNCHANGED vars
  BY <1>2 DEF vars, diskVars, pollVars, IInv, DataOK, HoldsJob, Progress, CopyIsWhole, Backed,
     Bench, Working, ForeignJob, Foreign, PollStates, Jobs, JobIds, Labels, OpenStatuses,
     Plan, NoJob, Record, NoAttempts, Values, Gens, RequestStates
<1>3. CASE PollStep
  <2>1. CASE Poll \/ Archive
    BY <1>1, <2>1, PollStepOK, ArchiveOK
  <2>2. CASE Defer
    BY <1>1, <2>2, AbandonOK
  <2>3. CASE TriggerBaseline \/ TriggerAfter
    BY <1>1, <2>3, TriggerOK
  <2>4. CASE OpenJob("baseline", "openBaseline") \/ OpenJob("after", "openAfter")
    BY <1>1, <2>4, OpenJobOK DEF Labels
  <2>5. CASE Measure \/ RecordAttempt
    BY <1>1, <2>5, MeasureOK, RecordAttemptOK
  <2>6. CASE WriteRun \/ WriteStep \/ FinishJob
    BY <1>1, <2>6, WriteRunOK, WriteStepOK, FinishJobOK
  <2> QED
    BY <1>3, <2>1, <2>2, <2>3, <2>4, <2>5, <2>6 DEF PollStep
<1>4. CASE \E r \in Requests : RequestStep(r)
  BY <1>1, <1>4, RequestOK
<1>5. CASE BulkApplyWrites \/ MarkBulkApplyFinished \/ EndUnmarked \/ MarkFails
  BY <1>1, <1>5, ApplyOK
<1>6. CASE WriteFails \/ Crash
  BY <1>1, <1>6, AbandonOK
<1> QED
  BY <1>2, <1>3, <1>4, <1>5, <1>6 DEF Next

THEOREM InductiveInvariant == ASSUME FlakyReads = FALSE PROVE Spec => []IInv
<1>1. Init => IInv
  BY InitEstablishes
<1>2. IInv /\ [Next]_vars => IInv'
  BY StepKeeps
<1> QED
  BY <1>1, <1>2, PTL DEF Spec

\* As long as files that are there can be opened, the ledger never counts a
\* bench whose result is not in the run file (ledger.record_step), whatever
\* crashes, failed writes and rival openers come in between.
THEOREM CountedResultsExist == ASSUME FlakyReads = FALSE PROVE Spec => []StepHasResult
<1>1. IInv => StepHasResult
  BY DEF IInv, Progress, Backed, StepHasResult, HasResult
<1> QED
  BY <1>1, InductiveInvariant, PTL

\* As long as files that are there can be opened, a result once on disk stays
\* in its run file (ledger.record_step).
THEOREM ResultsAreKept == ASSUME FlakyReads = FALSE PROVE Spec => ResultsKept
<1>1. IInv /\ [Next]_vars
        => [\A id \in JobIds, b \in Plan : HasResult(id, b) => HasResult(id, b)']_vars
  BY GainsStep DEF Gains, HasResult
<1> QED
  BY <1>1, InductiveInvariant, PTL DEF Spec, ResultsKept
-----------------------------------------------------------------------------
(***************************************************************************)
(* How often a bench is tried. A copy of the job has room when every bench *)
(* past the first n may fail once more within the bound. The ledger, and   *)
(* the copy in memory, have room for the next bench; while the poll is on  *)
(* its way to record a bench it gave up, for the one after. Only a fault   *)
(* turns back from there, and the fault raises the bound.                  *)
(***************************************************************************)
Bound == MaxAttempts + faults
Room(j, n, bound) ==
    \A b \in Plan : j.attempts[b] <= bound /\ (b > n => j.attempts[b] < bound)
GivingUp == spc \in {"recording", "counting"}

JobHasRoom == Room(job, IF GivingUp THEN job.step + 1 ELSE job.step, Bound)
LedgerHasRoom ==
    Room(ledger, ledger.step, Bound) \/ (GivingUp /\ Room(ledger, ledger.step + 1, Bound))
Tries == JobHasRoom /\ LedgerHasRoom

LEMMA CopiesAreTyped ==
    DataOK => /\ ledger.attempts \in [Plan -> Nat] /\ ledger.step \in 0..Steps
              /\ job.attempts \in [Plan -> Nat] /\ job.step \in 0..Steps
BY FieldFacts, NoJobFacts, BoundsAssumption DEF DataOK

LEMMA BoundIsPositive == faults \in Nat => Bound \in Nat /\ 0 < Bound
BY BoundsAssumption DEF Bound

\* Counting a bench, and a fault, leave room.
LEMMA RoomWidens ==
    ASSUME NEW j, j.attempts \in [Plan -> Nat], NEW m \in Int, NEW n \in Int,
           NEW b1 \in Nat, NEW b2 \in Nat, Room(j, m, b1),
           (m <= n /\ b1 <= b2) \/ b1 < b2
    PROVE  Room(j, n, b2)
<1> SUFFICES ASSUME NEW b \in Plan
             PROVE  j.attempts[b] <= b2 /\ (b > n => j.attempts[b] < b2)
  BY DEF Room
<1>1. j.attempts[b] \in Nat /\ b \in Int
  BY BoundsAssumption DEF Plan
<1>2. j.attempts[b] <= b1 /\ (b > m => j.attempts[b] < b1)
  BY DEF Room
<1> QED
  BY <1>1, <1>2

LEMMA FreshHasRoom ==
    ASSUME NEW j, j.attempts = NoAttempts, NEW n, NEW b \in Nat, 0 < b
    PROVE  Room(j, n, b)
BY DEF Room, NoAttempts

\* What a step that is no fault, and leaves no bench given up, has to show.
LEMMA TriesCarried ==
    ASSUME faults' = faults, Room(ledger', ledger'.step, Bound), Room(job', job'.step, Bound),
           ~GivingUp'
    PROVE  Tries'
<1>1. Bound' = Bound
  BY DEF Bound
<1>2. JobHasRoom'
  BY <1>1 DEF JobHasRoom, Room
<1>3. Room(ledger, ledger.step, Bound)'
  BY <1>1 DEF Room
<1>4. LedgerHasRoom'
  BY <1>3 DEF LedgerHasRoom
<1> QED
  BY <1>2, <1>4 DEF Tries

LEMMA InitTries == Init => Tries
<1> SUFFICES ASSUME Init PROVE Tries
  OBVIOUS
<1>1. Bound \in Nat /\ 0 < Bound
  BY BoundIsPositive DEF Init
<1>2. ledger.attempts = NoAttempts /\ job.attempts = NoAttempts
  BY NoJobFacts, ForeignFacts DEF Init
<1> QED
  BY <1>1, <1>2, FreshHasRoom DEF Tries, JobHasRoom, LedgerHasRoom

LEMMA PollTries ==
    ASSUME IInv, Tries, Poll \/ Archive \/ Defer \/ TriggerBaseline \/ TriggerAfter
    PROVE  Tries'
<1>1. /\ faults' = faults /\ ~GivingUp /\ ~GivingUp'
  BY DEF GivingUp, Poll, Archive, WriteLedger, Defer, Return, TriggerBaseline, TriggerAfter
<1>2. Room(NoJob, NoJob.step, Bound)
  BY NoJobFacts, FreshHasRoom, BoundIsPositive DEF IInv, DataOK
<1>3. Room(ledger, ledger.step, Bound) /\ Room(job, job.step, Bound)
  BY <1>1 DEF Tries, JobHasRoom, LedgerHasRoom
<1>4. CASE Archive
  <2>1. ledger' = Archived(job) /\ job' = NoJob /\ job \in Jobs
    BY <1>4 DEF Archive, WriteLedger, IInv, HoldsJob
  <2>2. ledger'.attempts = job.attempts /\ ledger'.step = job.step
    BY <2>1, ArchivedFacts
  <2>3. Room(ledger', ledger'.step, Bound)
    BY <1>3, <2>2 DEF Room
  <2> QED
    BY <1>1, <1>2, <2>1, <2>3, TriesCarried
<1>5. CASE ~Archive
  <2>1. ledger' = ledger /\ job' \in {ledger, job, NoJob}
    BY <1>5 DEF Poll, ReadJob, Defer, Return, TriggerBaseline, TriggerAfter, diskVars
  <2> QED
    BY <1>1, <1>2, <1>3, <2>1, TriesCarried
<1> QED
  BY <1>4, <1>5

LEMMA OpenTries ==
    ASSUME IInv, Tries, NEW label \in Labels, NEW state, OpenJob(label, state)
    PROVE  Tries'
<1>1. /\ ledger' = NewJob(label) /\ job' = NewJob(label) /\ faults' = faults
      /\ NewJob(label).attempts = NoAttempts /\ ~GivingUp'
  BY NewJobFacts DEF OpenJob, WriteNewJob, WriteLedger, IInv, GivingUp
<1>2. \A n : Room(NewJob(label), n, Bound)
  BY <1>1, FreshHasRoom, BoundIsPositive DEF IInv, DataOK
<1> QED
  BY <1>1, <1>2, TriesCarried

\* A bench that ran, or is given up, has used its last try.
LEMMA MeasureTries ==
    ASSUME IInv, Tries, Measure \/ WriteRun
    PROVE  Tries'
<1>1. /\ UNCHANGED <<ledger, job, faults>> /\ (GivingUp => GivingUp')
  BY DEF Measure, WriteRun, GivingUp, diskVars
<1>2. Bound' = Bound /\ Bound \in Nat
  BY <1>1, BoundIsPositive DEF Bound, IInv, DataOK
<1>3. /\ Room(ledger, ledger.step, Bound) => Room(ledger, ledger.step + 1, Bound)
      /\ Room(job, job.step, Bound) => Room(job, job.step + 1, Bound)
  <2>1. /\ ledger.attempts \in [Plan -> Nat] /\ job.attempts \in [Plan -> Nat]
        /\ ledger.step \in Int /\ ledger.step + 1 \in Int /\ ledger.step <= ledger.step + 1
        /\ job.step \in Int /\ job.step + 1 \in Int /\ job.step <= job.step + 1
    BY CopiesAreTyped, BoundsAssumption DEF IInv
  <2>2. Bound <= Bound
    BY <1>2
  <2>3. Room(ledger, ledger.step, Bound) => Room(ledger, ledger.step + 1, Bound)
    BY <1>2, <2>1, <2>2, RoomWidens
  <2>4. Room(job, job.step, Bound) => Room(job, job.step + 1, Bound)
    BY <1>2, <2>1, <2>2, RoomWidens
  <2> QED
    BY <2>3, <2>4
<1>4. JobHasRoom'
  BY <1>1, <1>2, <1>3 DEF Tries, JobHasRoom, Room
<1>5. LedgerHasRoom'
  BY <1>1, <1>2, <1>3 DEF Tries, LedgerHasRoom, Room
<1> QED
  BY <1>4, <1>5 DEF Tries

LEMMA RecordAttemptTries ==
    ASSUME IInv, Tries, RecordAttempt
    PROVE  Tries'
<1>1. job \in Jobs /\ job.step < Steps /\ job.attempts \in [Plan -> Nat] /\ job.step \in Nat
  BY CopiesAreTyped DEF IInv, HoldsJob, Working, RecordAttempt, WriteLedger
<1>2. /\ Bench \in Plan /\ Bench = job.step + 1 /\ Attempted.step = job.step
      /\ Attempted.attempts = [job.attempts EXCEPT ![Bench] = @ + 1]
  BY <1>1, BenchFacts DEF Bench
<1>3. /\ ledger' = Attempted /\ faults' = faults /\ Bound' = Bound /\ Bound \in Nat
      /\ MaxAttempts \in Nat /\ faults \in Nat /\ Bound = MaxAttempts + faults
  BY BoundIsPositive, BoundsAssumption DEF RecordAttempt, WriteLedger, Bound, IInv, DataOK
<1>4. Room(job, job.step, Bound)
  BY DEF Tries, JobHasRoom, RecordAttempt, WriteLedger, GivingUp
<1>5. Room(Attempted, Attempted.step + 1, Bound)
  <2> SUFFICES ASSUME NEW b \in Plan
               PROVE  /\ Attempted.attempts[b] <= Bound
                      /\ b > job.step + 1 => Attempted.attempts[b] < Bound
    BY <1>2 DEF Room
  <2>1. /\ b \in Nat /\ job.attempts[b] \in Nat /\ job.attempts[b] <= Bound
        /\ b > job.step => job.attempts[b] < Bound
    BY <1>1, <1>4, BoundsAssumption DEF Room, Plan
  <2>2. Attempted.attempts[b] = IF b = Bench THEN job.attempts[b] + 1 ELSE job.attempts[b]
    BY <1>1, <1>2
  <2> QED
    BY <1>1, <1>2, <1>3, <2>1, <2>2
<1>6. CASE Exhausted(Attempted)
  <2>1. job' = Attempted /\ GivingUp'
    BY <1>6 DEF RecordAttempt, WriteLedger, GivingUp
  <2>2. JobHasRoom'
    BY <1>3, <1>5, <2>1 DEF JobHasRoom, Room
  <2>3. LedgerHasRoom'
    BY <1>3, <1>5, <2>1 DEF LedgerHasRoom, Room
  <2> QED
    BY <2>2, <2>3 DEF Tries
<1>7. CASE ~Exhausted(Attempted)
  <2>1. Attempted.attempts[Bench] < Bound
    <3>1. Attempted.attempts[Bench] = job.attempts[Bench] + 1 /\ job.attempts[Bench] \in Nat
      BY <1>1, <1>2
    <3>2. ~(Attempted.attempts[Bench] >= MaxAttempts)
      BY <1>7, <1>2 DEF Exhausted, Bench
    <3> QED
      BY <1>3, <3>1, <3>2
  <2>2. Room(Attempted, Attempted.step, Bound)
    <3> SUFFICES ASSUME NEW b \in Plan
                 PROVE  /\ Attempted.attempts[b] <= Bound
                        /\ b > job.step => Attempted.attempts[b] < Bound
      BY <1>2 DEF Room
    <3>1. /\ Attempted.attempts[b] <= Bound /\ b \in Nat
          /\ b > job.step + 1 => Attempted.attempts[b] < Bound
      BY <1>2, <1>5 DEF Room, Plan
    <3> QED
      BY <1>1, <1>2, <2>1, <3>1
  <2>3. Return
    BY <1>7 DEF RecordAttempt, WriteLedger
  <2>4. job' = NoJob /\ ~GivingUp'
    BY <2>3 DEF Return, GivingUp
  <2>5. Room(NoJob, NoJob.step, Bound)
    BY <1>3, NoJobFacts, FreshHasRoom, BoundIsPositive
  <2> QED
    BY <1>3, <2>2, <2>4, <2>5, TriesCarried
<1> QED
  BY <1>6, <1>7

LEMMA WriteStepTries ==
    ASSUME IInv, Tries, WriteStep
    PROVE  Tries'
<1>1. job \in Jobs /\ job.step < Steps /\ job.step \in Nat
  BY CopiesAreTyped DEF IInv, HoldsJob, Working, WriteStep, WriteLedger
<1>2. /\ Advanced.step = job.step + 1 /\ Advanced.attempts = job.attempts
  BY <1>1, BenchFacts DEF Bench
<1>3. Room(job, job.step + 1, Bound)
  BY DEF Tries, JobHasRoom, WriteStep, WriteLedger, GivingUp
<1>4. Room(Advanced, Advanced.step, Bound)
  BY <1>2, <1>3 DEF Room
<1>5. Room(NoJob, NoJob.step, Bound)
  BY NoJobFacts, FreshHasRoom, BoundIsPositive DEF IInv, DataOK
<1>6. ledger' = Advanced /\ job' \in {Advanced, NoJob} /\ faults' = faults /\ ~GivingUp'
  BY DEF WriteStep, WriteLedger, Return, GivingUp
<1> QED
  BY <1>4, <1>5, <1>6, TriesCarried

LEMMA FinishTries ==
    ASSUME IInv, Tries, FinishJob
    PROVE  Tries'
<1>1. /\ ledger' = Record(job.id, job.label, job.step, "done", job.attempts)
      /\ job' = NoJob /\ faults' = faults /\ ~GivingUp /\ ~GivingUp'
  BY DEF FinishJob, WriteLedger, Return, GivingUp
<1>2. ledger'.attempts = job.attempts /\ ledger'.step = job.step
  BY <1>1 DEF Record
<1>3. Room(ledger', ledger'.step, Bound)
  BY <1>1, <1>2 DEF Tries, JobHasRoom, Room
<1>4. Room(NoJob, NoJob.step, Bound)
  BY NoJobFacts, FreshHasRoom, BoundIsPositive DEF IInv, DataOK
<1> QED
  BY <1>1, <1>3, <1>4, TriesCarried

\* A rival opener, or nobody, wrote the ledger; the poll stands where it was.
LEMMA RequestTries ==
    ASSUME IInv, Tries, NEW r \in Requests, RequestStep(r)
    PROVE  Tries'
<1>1. /\ UNCHANGED <<job, spc, faults>> /\ Bound' = Bound /\ GivingUp' = GivingUp
      /\ Bound \in Nat /\ 0 < Bound
  BY BoundIsPositive DEF RequestStep, RequestCheck, RequestArchive, WriteLedger, RequestLabel,
     RequestOpen,
     pollVars, Bound, GivingUp, IInv, DataOK
<1>2. JobHasRoom'
  BY <1>1 DEF Tries, JobHasRoom, Room
<1>3. ledger' = ledger \/ ledger'.attempts = NoAttempts
  <2>1. CASE RequestCheck(r) \/ RequestLabel(r)
    BY <2>1 DEF RequestCheck, RequestLabel, diskVars
  <2>2. CASE RequestArchive(r)
    BY <2>2, ForeignFacts, ArchivedFacts DEF RequestArchive, WriteLedger
  <2>3. CASE RequestOpen(r)
    BY <2>3, NewJobFacts DEF RequestOpen, WriteNewJob, WriteLedger, IInv
  <2> QED
    BY <2>1, <2>2, <2>3 DEF RequestStep
<1>4. CASE ledger' = ledger
  <2>1. Room(ledger, ledger.step, Bound) => Room(ledger, ledger.step, Bound)'
    BY <1>1, <1>4 DEF Room
  <2>2. Room(ledger, ledger.step + 1, Bound) => Room(ledger, ledger.step + 1, Bound)'
    BY <1>1, <1>4 DEF Room
  <2>3. LedgerHasRoom'
    BY <1>1, <2>1, <2>2 DEF Tries, LedgerHasRoom
  <2> QED
    BY <1>2, <2>3 DEF Tries
<1>5. CASE ledger'.attempts = NoAttempts
  <2>1. Room(ledger', ledger'.step, Bound)
    BY <1>1, <1>5, FreshHasRoom
  <2>2. Room(ledger, ledger.step, Bound)'
    BY <1>1, <2>1 DEF Room
  <2>3. LedgerHasRoom'
    BY <2>2 DEF LedgerHasRoom
  <2> QED
    BY <1>2, <2>3 DEF Tries
<1> QED
  BY <1>3, <1>4, <1>5

\* A bench that was given up and not recorded costs the fault one more try.
LEMMA FaultTries ==
    ASSUME IInv, Tries, WriteFails \/ MarkFails \/ Crash
    PROVE  Tries'
<1>1. /\ ledger' = ledger /\ faults \in Nat /\ faults' = faults + 1
      /\ (job' = NoJob /\ ~GivingUp') \/ (job' = job /\ spc' = spc)
  BY DEF WriteFails, MarkFails, Crash, Fault, Return, GivingUp, diskVars, pollVars, IInv, DataOK
<1>2. Bound \in Nat /\ Bound' \in Nat /\ Bound < Bound'
  BY <1>1, BoundsAssumption DEF Bound
<1>3. \A n \in Int : Room(ledger, n, Bound') /\ Room(job, n, Bound')
  <2>1. /\ ledger.attempts \in [Plan -> Nat] /\ job.attempts \in [Plan -> Nat]
        /\ ledger.step \in Int /\ ledger.step + 1 \in Int
        /\ job.step \in Int /\ job.step + 1 \in Int
    BY CopiesAreTyped DEF IInv
  <2>2. \E m \in Int : Room(ledger, m, Bound)
    BY <2>1 DEF Tries, LedgerHasRoom
  <2>3. \E m \in Int : Room(job, m, Bound)
    BY <2>1 DEF Tries, JobHasRoom
  <2> QED
    BY <1>2, <2>1, <2>2, <2>3, RoomWidens
<1>4. Room(NoJob, NoJob.step, Bound')
  BY <1>2, NoJobFacts, FreshHasRoom
<1>5. LedgerHasRoom'
  BY <1>1, <1>3, CopiesAreTyped DEF LedgerHasRoom, Room, IInv
<1>6. JobHasRoom'
  <2>1. CASE job' = NoJob /\ ~GivingUp'
    BY <1>4, <2>1 DEF JobHasRoom, Room
  <2>2. CASE job' = job /\ spc' = spc
    <3>1. /\ Room(job, job.step, Bound') /\ Room(job, job.step + 1, Bound')
      BY <1>3, CopiesAreTyped DEF IInv
    <3> QED
      BY <2>2, <3>1 DEF JobHasRoom, Room
  <2> QED
    BY <1>1, <2>1, <2>2
<1> QED
  BY <1>5, <1>6 DEF Tries

LEMMA StepTries == IInv /\ Tries /\ [Next]_vars => Tries'
<1> SUFFICES ASSUME IInv, Tries, [Next]_vars PROVE Tries'
  OBVIOUS
<1>1. CASE UNCHANGED <<ledger, job, spc, faults>>
  BY <1>1 DEF Tries, JobHasRoom, LedgerHasRoom, Room, GivingUp, Bound
<1>2. CASE UNCHANGED vars \/ BulkApplyWrites \/ MarkBulkApplyFinished \/ EndUnmarked
  <2>1. UNCHANGED <<ledger, job, spc, faults>>
    BY <1>2 DEF vars, diskVars, pollVars, BulkApplyWrites, MarkBulkApplyFinished, EndUnmarked
  <2> QED
    BY <1>1, <2>1
<1>3. CASE PollStep
  BY <1>3, PollTries, OpenTries, MeasureTries, RecordAttemptTries, WriteStepTries, FinishTries
     DEF PollStep, Labels
<1>4. CASE \E r \in Requests : RequestStep(r)
  BY <1>4, RequestTries
<1>5. CASE WriteFails \/ MarkFails \/ Crash
  BY <1>5, FaultTries
<1> QED
  BY <1>2, <1>3, <1>4, <1>5 DEF Next

\* A bench is tried MaxAttempts times, and once more for every fault, whoever
\* overwrites the ledger in between (scheduler._run_step, ledger.record_attempt).
THEOREM TriesAreBounded == ASSUME FlakyReads = FALSE PROVE Spec => []AttemptsBounded
<1>1. IInv /\ Tries => AttemptsBounded
  BY DEF Tries, LedgerHasRoom, Room, Bound, AttemptsBounded
<1>2. Init => Tries
  BY InitTries
<1>3. IInv /\ Tries /\ [Next]_vars => Tries'
  BY StepTries
<1> QED
  BY <1>1, <1>2, <1>3, InductiveInvariant, PTL DEF Spec
-----------------------------------------------------------------------------
(***************************************************************************)
(* What is on offer. A run file with a bench missing is that of the job in *)
(* the ledger, or of one that was written over: a poll at work holds the   *)
(* ledger's job, as far along as it is there, until another job's record   *)
(* is written in its place.                                                *)
(***************************************************************************)
Fresh == ledger.id < nextId /\ job.id < nextId

Holds ==
    spc \in Working =>
        /\ job.id > Foreign
        /\ job.id \in lost \/ (ledger.id = job.id /\ ledger.step = job.step)

FilesAreWhole ==
    /\ files \in Seq(JobIds)
    /\ \A i \in DOMAIN files : \/ IsComplete(files[i]) \/ files[i] \in lost
                               \/ files[i] = ledger.id /\ Unfinished(ledger)

Whole == Fresh /\ Holds /\ FilesAreWhole

Less == {pair \in Nat \X Nat : pair[1] < pair[2]}

\* Some element of a set of numbers is the least.
LEMMA Least ==
    ASSUME NEW T, T \subseteq Nat, T # {}
    PROVE  \E x \in T : \A y \in T : x <= y
<1>1. IsWellFoundedOn(Less, Nat)
  BY NatLessThanWellFounded, Zenon DEF OpToRel, Less
<1>2. PICK x \in T : \A y \in T : <<y, x>> \notin Less
  BY <1>1, WFMin
<1>3. \A y \in T : ~(y < x)
  BY <1>2 DEF Less
<1> QED
  BY <1>3

\* What is offered is a candidate.
LEMMA OfferedIsCandidate ==
    ASSUME DataOK, files \in Seq(JobIds), NEW label, NEW id \in Offered(label, TRUE)
    PROVE  /\ ledger.id > Foreign
           /\ \E i \in DOMAIN files :
                 files[i] = id /\ ~(files[i] = ledger.id /\ ledger.step < Steps)
<1> DEFINE candidates ==
      {i \in DOMAIN files : /\ labels[files[i]] = label
                            /\ ~(files[i] = ledger.id /\ ledger.step < Steps)}
           newest == CHOOSE i \in candidates : \A k \in candidates : k <= i
           left == {Len(files) - i : i \in candidates}
<1>1. /\ ~(ledger.id <= Foreign) /\ candidates # {} /\ id = files[newest]
  BY DEF Offered, ReadJob
<1>2. candidates \subseteq 1..Len(files) /\ Len(files) \in Nat
  OBVIOUS
<1>3. left \subseteq Nat /\ left # {}
  BY <1>1, <1>2
<1>4. PICK x \in left : \A y \in left : x <= y
  BY <1>3, Least
<1>5. \E i \in candidates : \A k \in candidates : k <= i
  <2>1. PICK i \in candidates : x = Len(files) - i
    OBVIOUS
  <2>2. \A k \in candidates : Len(files) - k \in left
    OBVIOUS
  <2> HIDE DEF candidates, left
  <2> QED
    BY <1>2, <1>4, <2>1, <2>2
<1>6. newest \in candidates
  BY <1>5, Zenon
<1>7. newest \in DOMAIN files /\ ~(files[newest] = ledger.id /\ ledger.step < Steps)
  BY <1>6, Zenon
<1>8. ledger.id > Foreign
  <2>1. ledger.id \in Int
    BY FieldFacts, NoJobFacts, BoundsAssumption DEF DataOK, JobIds
  <2> QED
    BY <1>1, <2>1 DEF Foreign
<1> QED
  BY <1>1, <1>7, <1>8, Zenon

LEMMA IdsAreInts ==
    DataOK => /\ ledger.id \in Int /\ job.id \in Int /\ nextId \in Int
              /\ ledger.step \in Int /\ job.step \in Int /\ Steps \in Int
BY FieldFacts, NoJobFacts, BoundsAssumption DEF DataOK, JobIds

LEMMA FilesCarried ==
    ASSUME FilesAreWhole, Gains, UNCHANGED <<files, ledger, lost>>
    PROVE  FilesAreWhole'
<1>1. ASSUME NEW i \in DOMAIN files, IsComplete(files[i])
      PROVE  \A b \in Plan : results'[files[i]][b] # Missing
  BY <1>1 DEF FilesAreWhole, Gains, IsComplete, HasResult
<1> QED
  BY <1>1 DEF FilesAreWhole, IsComplete, HasResult, Unfinished, Foreign, JobIds, Plan

\* Whatever is written over the ledger, no run file is forgotten: the job it was of
\* is finished, or lost, or the one that is written.
LEMMA FilesWrittenOver ==
    ASSUME DataOK, FilesAreWhole, Gains, UNCHANGED files,
           NEW j \in Jobs, WriteLedger(j), Backed(results, j)
    PROVE  FilesAreWhole'
<1>1. /\ ledger' = j /\ lost \subseteq lost'
      /\ Unfinished(ledger) /\ ledger.id # j.id => ledger.id \in lost'
  BY DEF WriteLedger
<1>2. ASSUME NEW i \in DOMAIN files
      PROVE  \/ \A b \in Plan : results'[files[i]][b] # Missing
             \/ files[i] \in lost'
             \/ files[i] = ledger'.id /\ ledger'.id > Foreign /\ ledger'.step < Steps
  <2>1. CASE IsComplete(files[i])
    BY <2>1 DEF FilesAreWhole, Gains, IsComplete, HasResult
  <2>2. CASE files[i] \in lost
    BY <1>1, <2>2
  <2>3. CASE files[i] = ledger.id /\ Unfinished(ledger)
    <3>1. CASE ledger.id # j.id
      BY <1>1, <2>3, <3>1
    <3>2. CASE ledger.id = j.id /\ j.step < Steps
      BY <1>1, <2>3, <3>2 DEF Unfinished
    <3>3. CASE ledger.id = j.id /\ ~(j.step < Steps)
      <4>1. j.step = Steps /\ j.id \in JobIds
        BY <3>3, FieldFacts, BoundsAssumption
      <4>2. \A b \in Plan : results[j.id][b] # Missing
        BY <4>1 DEF Backed, Plan
      <4> QED
        BY <2>3, <3>3, <4>1, <4>2 DEF Gains
    <3> QED
      BY <3>1, <3>2, <3>3
  <2> QED
    BY <2>1, <2>2, <2>3 DEF FilesAreWhole
<1> QED
  BY <1>2 DEF FilesAreWhole, IsComplete, HasResult, Unfinished, Foreign, JobIds, Plan

LEMMA InitWhole == Init => Whole
<1> SUFFICES ASSUME Init PROVE Whole
  OBVIOUS
<1>1. Fresh /\ Holds
  BY NoJobFacts, ForeignFacts DEF Init, Fresh, Holds, Working, Foreign
<1>2. \/ files = <<>>
      \/ files = <<Foreign>> /\ results[Foreign] = [b \in Plan |-> 0]
  BY ForeignFacts, NoJobFacts, FieldFacts DEF Init
<1>3. Foreign \in JobIds
  BY ForeignFacts, FieldFacts
<1>4. CASE files = <<>>
  BY <1>1, <1>4 DEF Whole, FilesAreWhole
<1>5. CASE files = <<Foreign>> /\ results[Foreign] = [b \in Plan |-> 0]
  <2>1. files \in Seq(JobIds) /\ \A i \in DOMAIN files : files[i] = Foreign
    BY <1>3, <1>5
  <2>2. IsComplete(Foreign)
    BY <1>5, MissingFacts DEF IsComplete, HasResult
  <2> QED
    BY <1>1, <2>1, <2>2 DEF Whole, FilesAreWhole
<1> QED
  BY <1>2, <1>4, <1>5

\* Steps that write neither the ledger nor a run file.
LEMMA AsideWhole ==
    ASSUME IInv, Whole, Gains,
           \/ Poll \/ Defer \/ TriggerBaseline \/ TriggerAfter \/ Measure
           \/ BulkApplyWrites \/ MarkBulkApplyFinished \/ EndUnmarked \/ MarkFails
           \/ WriteFails \/ Crash \/ UNCHANGED vars
    PROVE  Whole'
<1>1. UNCHANGED <<files, ledger, lost, nextId>>
  BY DEF Poll, Defer, TriggerBaseline, TriggerAfter, Measure, BulkApplyWrites,
     MarkBulkApplyFinished, EndUnmarked, MarkFails, WriteFails, Crash, vars, diskVars
<1>2. \/ spc' \notin Working /\ job' \in {job, ledger, NoJob}
      \/ spc' \in Working /\ spc \in Working /\ job' = job
      \/ IsOpen(ledger) /\ job' = ledger
  <2>1. CASE Poll
    <3>1. PICK ok \in ReadOutcomes :
             /\ job' = IF IsOpen(ReadJob(ok)) \/ NeedsArchiving(ReadJob(ok))
                       THEN ReadJob(ok) ELSE NoJob
             /\ spc' = CASE IsOpen(ReadJob(ok)) -> "holding"
                         [] NeedsArchiving(ReadJob(ok)) -> "archiving"
                         [] OTHER -> "trigger"
      BY <2>1 DEF Poll
    <3>2. ReadJob(ok) = ledger \/ ReadJob(ok) = NoJob
      BY DEF ReadJob
    <3>3. ~IsOpen(NoJob) /\ ~NeedsArchiving(NoJob)
      BY NoJobFacts DEF IsOpen, NeedsArchiving, Foreign
    <3>4. CASE IsOpen(ReadJob(ok))
      BY <3>1, <3>2, <3>3, <3>4
    <3>5. CASE ~IsOpen(ReadJob(ok))
      <4>1. spc' \in {"archiving", "trigger"}
        BY <3>1, <3>5
      <4> QED
        BY <3>1, <3>2, <4>1 DEF Working
    <3> QED
      BY <3>4, <3>5
  <2>2. CASE Measure
    BY <2>2 DEF Measure, Working
  <2>3. CASE Defer \/ WriteFails \/ Crash
    BY <2>3 DEF Defer, WriteFails, Crash, Return, Working
  <2>4. CASE TriggerBaseline \/ TriggerAfter
    BY <2>4 DEF TriggerBaseline, TriggerAfter, Working
  <2>5. CASE BulkApplyWrites \/ MarkBulkApplyFinished \/ EndUnmarked \/ MarkFails
             \/ UNCHANGED vars
    BY <2>5 DEF BulkApplyWrites, MarkBulkApplyFinished, EndUnmarked, MarkFails, vars, pollVars
  <2> QED
    BY <2>1, <2>2, <2>3, <2>4, <2>5
<1>3. Fresh'
  BY <1>1, <1>2, NoJobFacts DEF IInv, DataOK, Whole, Fresh
<1>4. Holds'
  BY <1>1, <1>2 DEF Whole, Holds, IsOpen, Foreign
<1> QED
  BY <1>1, <1>3, <1>4, FilesCarried DEF Whole

\* The poll writes the ledger: the job it holds, one step on or one attempt worse,
\* or a new one.
LEMMA PollWritesWhole ==
    ASSUME IInv, Whole, Gains, UNCHANGED files, NEW j \in Jobs, WriteLedger(j),
           Backed(results, j), j.id < nextId', job'.id < nextId',
           spc' \in Working => job' = j /\ j.id > Foreign
    PROVE  Whole'
<1>1. FilesAreWhole'
  BY FilesWrittenOver DEF IInv, Whole
<1>2. Fresh' /\ Holds'
  BY DEF WriteLedger, Fresh, Holds, Foreign
<1> QED
  BY <1>1, <1>2 DEF Whole

LEMMA OpenWhole ==
    ASSUME IInv, Whole, Gains, NEW label \in Labels, NEW state, OpenJob(label, state)
    PROVE  Whole'
<1>1. /\ NewJob(label) \in Jobs /\ NewJob(label).id = nextId /\ NewJob(label).step = 0
  BY NewJobFacts DEF IInv, OpenJob, WriteNewJob
<1>2. /\ WriteLedger(NewJob(label)) /\ job' = NewJob(label) /\ nextId' = nextId + 1
      /\ UNCHANGED files
  BY DEF OpenJob, WriteNewJob
<1>3. nextId \in Nat \ {0}
  BY DEF IInv, DataOK
<1>4. Backed(results, NewJob(label))
  BY <1>1 DEF Backed, Plan
<1> QED
  BY <1>1, <1>2, <1>3, <1>4, PollWritesWhole DEF Foreign

LEMMA RecordWhole ==
    ASSUME IInv, Whole, Gains, Archive \/ RecordAttempt \/ WriteStep \/ FinishJob
    PROVE  Whole'
<1>1. job \in Jobs /\ job.id < nextId /\ -1 < nextId
  BY DEF IInv, DataOK, HoldsJob, Working, Whole, Fresh, Archive, RecordAttempt, WriteStep,
     FinishJob
<1>2. CASE Archive
  <2>1. Archived(job) \in Jobs /\ Archived(job).id = job.id /\ Archived(job).step = job.step
    BY <1>1, ArchivedFacts
  <2>2. Backed(results, Archived(job))
    BY <2>1 DEF IInv, Progress, Backed
  <2>3. /\ WriteLedger(Archived(job)) /\ job' = NoJob /\ spc' = "trigger"
        /\ UNCHANGED <<files, nextId>>
    BY <1>2 DEF Archive
  <2>4. NoJob.id < nextId /\ spc' \notin Working
    BY <1>1, <2>3, NoJobFacts DEF Working
  <2> QED
    BY <1>1, <2>1, <2>2, <2>3, <2>4, PollWritesWhole
<1>3. CASE RecordAttempt
  <2>1. job.step < Steps /\ job.id > Foreign
    BY <1>3 DEF RecordAttempt, IInv, HoldsJob, Working, Whole, Holds
  <2>2. Attempted \in Jobs /\ Attempted.id = job.id /\ Attempted.step = job.step
    BY <1>1, <2>1, BenchFacts
  <2>3. Backed(results, Attempted)
    BY <2>2 DEF IInv, Progress, Backed
  <2>4. /\ WriteLedger(Attempted) /\ UNCHANGED <<files, nextId>>
        /\ job' = Attempted \/ (job' = NoJob /\ spc' = "idle")
    BY <1>3 DEF RecordAttempt, Return
  <2>5. job'.id < nextId' /\ (spc' \in Working => job' = Attempted)
    BY <1>1, <2>2, <2>4, NoJobFacts DEF Working
  <2> QED
    BY <1>1, <2>1, <2>2, <2>3, <2>4, <2>5, PollWritesWhole
<1>4. CASE WriteStep
  <2>1. job.step < Steps
    BY <1>4 DEF WriteStep, IInv, HoldsJob, Working
  <2>2. /\ Advanced \in Jobs /\ Advanced.id = job.id /\ Advanced.step = Bench /\ Bench \in Plan
    BY <1>1, <2>1, BenchFacts
  <2>3. Backed(results, Advanced)
    BY <1>1, <1>4, <2>2, FieldFacts DEF IInv, Progress, Backed, WriteStep, Bench, Plan
  <2>4. /\ WriteLedger(Advanced) /\ UNCHANGED <<files, nextId>>
        /\ job' \in {Advanced, NoJob} /\ spc' \in {"idle", "closing"}
    BY <1>4 DEF WriteStep, Return
  <2>5. job'.id < nextId' /\ spc' \notin Working
    BY <1>1, <2>2, <2>4, NoJobFacts DEF Working
  <2> QED
    BY <1>1, <2>2, <2>3, <2>4, <2>5, PollWritesWhole
<1>5. CASE FinishJob
  <2> DEFINE j == Record(job.id, job.label, job.step, "done", job.attempts)
  <2>1. j \in Jobs /\ j.id = job.id /\ j.step = job.step
    BY <1>1, FieldFacts DEF Record, Jobs
  <2>2. Backed(results, j)
    BY <2>1 DEF IInv, Progress, Backed
  <2>3. /\ WriteLedger(j) /\ UNCHANGED <<files, nextId>> /\ job' = NoJob /\ spc' = "idle"
    BY <1>5 DEF FinishJob, Return
  <2>4. NoJob.id < nextId /\ spc' \notin Working
    BY <1>1, <2>3, NoJobFacts DEF Working
  <2> HIDE DEF j
  <2> QED
    BY <1>1, <2>1, <2>2, <2>3, <2>4, PollWritesWhole
<1> QED
  BY <1>2, <1>3, <1>4, <1>5

LEMMA RewrittenFacts ==
    ASSUME files \in Seq(JobIds), NEW id \in JobIds
    PROVE  /\ Rewritten(id) \in Seq(JobIds)
           /\ \A i \in DOMAIN Rewritten(id) :
                 Rewritten(id)[i] = id \/ \E k \in DOMAIN files : Rewritten(id)[i] = files[k]
<1>1. ASSUME NEW q \in Seq(JobIds), \A i \in DOMAIN q : \E k \in DOMAIN files : q[i] = files[k]
      PROVE  /\ Append(q, id) \in Seq(JobIds)
             /\ \A i \in DOMAIN Append(q, id) :
                   Append(q, id)[i] = id \/ \E k \in DOMAIN files : Append(q, id)[i] = files[k]
  BY <1>1
<1>2. CASE \E k \in DOMAIN files : files[k] = id
  <2> DEFINE n == CHOOSE k \in DOMAIN files : files[k] = id
  <2>1. n \in DOMAIN files
    BY <1>2, Zenon
  <2>2. n \in 1..Len(files) /\ Len(files) \in Nat
    BY <2>1
  <2> HIDE DEF n
  <2> DEFINE front == SubSeq(files, 1, n - 1)
             back == SubSeq(files, n + 1, Len(files))
  <2>3. /\ front \in Seq(JobIds) /\ Len(front) = n - 1
        /\ \A i \in 1..(n - 1) : front[i] = files[i]
    BY <2>2
  <2>4. /\ back \in Seq(JobIds) /\ Len(back) = Len(files) - n
        /\ \A i \in 1..(Len(files) - n) : back[i] = files[n + i]
    BY <2>2
  <2>5. Rewritten(id) = Append(front \o back, id)
    BY <1>2 DEF Rewritten, RemoveAt, n
  <2> HIDE DEF front, back
  <2> DEFINE q == front \o back
  <2>6. /\ q \in Seq(JobIds) /\ Len(q) = Len(front) + Len(back)
        /\ \A i \in 1..(Len(front) + Len(back)) :
              q[i] = IF i <= Len(front) THEN front[i] ELSE back[i - Len(front)]
    BY <2>3, <2>4, ConcatProperties
  <2> HIDE DEF q
  <2>7. DOMAIN q = 1..(Len(files) - 1)
    BY <2>2, <2>3, <2>4, <2>6
  <2>8. ASSUME NEW i \in DOMAIN q
        PROVE  \E k \in DOMAIN files : q[i] = files[k]
    <3>1. i \in 1..(Len(files) - 1)
      BY <2>7
    <3>2. CASE i <= n - 1
      <4>1. i \in 1..(n - 1) /\ i \in 1..(Len(front) + Len(back)) /\ i \in DOMAIN files
        BY <2>2, <2>3, <2>4, <3>1, <3>2
      <4>2. q[i] = front[i]
        BY <2>3, <2>6, <3>2, <4>1
      <4> QED
        BY <2>3, <4>1, <4>2
    <3>3. CASE ~(i <= n - 1)
      <4>1. i - (n - 1) \in 1..(Len(files) - n) /\ i \in 1..(Len(front) + Len(back))
        BY <2>2, <2>3, <2>4, <3>1, <3>3
      <4>2. q[i] = back[i - (n - 1)]
        BY <2>3, <2>6, <3>3, <4>1
      <4>3. q[i] = files[n + (i - (n - 1))] /\ n + (i - (n - 1)) \in DOMAIN files
        BY <2>2, <2>4, <3>1, <4>1, <4>2
      <4> QED
        BY <4>3
    <3> QED
      BY <3>2, <3>3
  <2>9. Rewritten(id) = Append(q, id)
    BY <2>5 DEF q
  <2> QED
    BY <1>1, <2>6, <2>8, <2>9
<1>3. CASE ~\E k \in DOMAIN files : files[k] = id
  BY <1>1, <1>3 DEF Rewritten
<1> QED
  BY <1>2, <1>3

LEMMA WriteRunWhole ==
    ASSUME IInv, Whole, Gains, WriteRun
    PROVE  Whole'
<1>1. /\ job \in Jobs /\ job.id \in JobIds /\ job.step < Steps /\ job.id > Foreign
      /\ job.id \in lost \/ (ledger.id = job.id /\ ledger.step = job.step)
  BY FieldFacts DEF Whole, Holds, Working, WriteRun, IInv, HoldsJob
<1>2. /\ UNCHANGED <<ledger, lost, job, nextId>> /\ spc = "recording" /\ spc' = "counting"
      /\ files' = Rewritten(job.id)
  BY DEF WriteRun
<1>3. Fresh' /\ Holds'
  BY <1>1, <1>2 DEF Whole, Fresh, Holds, Working, Foreign
<1>4. /\ files' \in Seq(JobIds)
      /\ \A i \in DOMAIN files' : files'[i] = job.id \/ \E k \in DOMAIN files : files'[i] = files[k]
  BY <1>1, <1>2, RewrittenFacts DEF Whole, FilesAreWhole
<1>5. ASSUME NEW i \in DOMAIN files'
      PROVE  \/ \A b \in Plan : results'[files'[i]][b] # Missing
             \/ files'[i] \in lost
             \/ files'[i] = ledger.id /\ Unfinished(ledger)
  <2>1. CASE files'[i] = job.id
    BY <1>1, <2>1 DEF Unfinished
  <2>2. ASSUME NEW k \in DOMAIN files, files'[i] = files[k] PROVE <1>5!2
    <3>1. files[k] \in JobIds
      BY DEF Whole, FilesAreWhole
    <3> QED
      BY <2>2, <3>1 DEF Whole, FilesAreWhole, Gains, IsComplete, HasResult
  <2> QED
    BY <1>4, <2>1, <2>2
<1>6. FilesAreWhole'
  BY <1>2, <1>4, <1>5 DEF FilesAreWhole, IsComplete, HasResult, Unfinished, Foreign, JobIds,
     Plan
<1> QED
  BY <1>3, <1>6 DEF Whole

\* A request writes another job over the one the poll is at, which is lost then.
LEMMA RequestWhole ==
    ASSUME IInv, Whole, Gains, NEW r \in Requests, RequestStep(r)
    PROVE  Whole'
<1>1. UNCHANGED <<files, spc, job>>
  BY DEF RequestStep, RequestCheck, RequestArchive, RequestLabel, RequestOpen, diskVars,
     pollVars
<1>2. ASSUME NEW j \in Jobs, WriteLedger(j), Backed(results, j), j.id = Foreign \/ j.id = nextId,
             j.id < nextId', nextId' \in {nextId, nextId + 1}
      PROVE  Whole'
  <2>1. FilesAreWhole'
    BY <1>1, <1>2, FilesWrittenOver DEF IInv, Whole
  <2>2. Fresh'
    <3>1. job.id < nextId /\ job.id \in Int /\ nextId \in Int
      BY IdsAreInts DEF Whole, Fresh, IInv
    <3>2. job.id < nextId'
      BY <1>2, <3>1
    <3> QED
      BY <1>1, <1>2, <3>2 DEF WriteLedger, Fresh
  <2>3. Holds'
    <3> SUFFICES ASSUME spc \in Working
                 PROVE  /\ job.id > Foreign
                        /\ job.id \in lost' \/ (ledger'.id = job.id /\ ledger'.step = job.step)
      BY <1>1 DEF Holds, Foreign
    <3>1. /\ job.id > Foreign /\ job.step < Steps
          /\ job.id \in lost \/ (ledger.id = job.id /\ ledger.step = job.step)
      BY DEF Whole, Holds, IInv, HoldsJob
    <3>2. CASE job.id \in lost
      BY <1>2, <3>1, <3>2 DEF WriteLedger
    <3>3. CASE ledger.id = job.id /\ ledger.step = job.step
      <4>1. Unfinished(ledger) /\ ledger.id # j.id
        BY <1>2, <3>1, <3>3, IdsAreInts DEF Unfinished, Whole, Fresh, IInv, Foreign
      <4> QED
        BY <1>2, <3>1, <3>3, <4>1 DEF WriteLedger
    <3> QED
      BY <3>1, <3>2, <3>3
  <2> QED
    BY <2>1, <2>2, <2>3 DEF Whole
<1>3. CASE RequestCheck(r) \/ RequestLabel(r)
  <2>1. UNCHANGED <<files, ledger, lost, nextId>>
    BY <1>3 DEF RequestCheck, RequestLabel, diskVars
  <2>2. Fresh' /\ Holds'
    BY <1>1, <2>1 DEF Whole, Fresh, Holds, Foreign, Working
  <2> QED
    BY <2>1, <2>2, FilesCarried DEF Whole
<1>4. CASE RequestArchive(r)
  <2>1. /\ Archived(ForeignJob) \in Jobs /\ Archived(ForeignJob).id = Foreign
        /\ Archived(ForeignJob).step = Steps
    BY ForeignFacts, ArchivedFacts
  <2>2. Backed(results, Archived(ForeignJob))
    BY <1>4, <2>1, ForeignFacts DEF IInv, CopyIsWhole, RequestArchive, Backed
  <2>3. WriteLedger(Archived(ForeignJob)) /\ nextId' = nextId /\ nextId \in Nat \ {0}
    BY <1>4 DEF RequestArchive, IInv, DataOK
  <2> QED
    BY <1>2, <2>1, <2>2, <2>3 DEF Foreign
<1>5. CASE RequestOpen(r)
  <2>1. /\ rpc[r] \in Labels /\ nextId <= MaxJobs /\ WriteLedger(NewJob(rpc[r]))
        /\ nextId' = nextId + 1 /\ nextId \in Nat
    BY <1>5 DEF RequestOpen, WriteNewJob, IInv, DataOK
  <2>2. NewJob(rpc[r]) \in Jobs /\ NewJob(rpc[r]).id = nextId /\ NewJob(rpc[r]).step = 0
    BY <2>1, NewJobFacts DEF IInv
  <2>3. Backed(results, NewJob(rpc[r]))
    BY <2>2 DEF Backed, Plan
  <2> QED
    BY <1>2, <2>1, <2>2, <2>3
<1> QED
  BY <1>3, <1>4, <1>5 DEF RequestStep

LEMMA StepWhole ==
    ASSUME FlakyReads = FALSE, IInv, Whole, [Next]_vars
    PROVE  Whole'
<1>1. Gains
  BY GainsStep
<1>2. CASE PollStep
  BY <1>1, <1>2, AsideWhole, OpenWhole, RecordWhole, WriteRunWhole DEF PollStep, Labels
<1>3. CASE \E r \in Requests : RequestStep(r)
  BY <1>1, <1>3, RequestWhole
<1>4. CASE ~PollStep /\ ~\E r \in Requests : RequestStep(r)
  BY <1>1, <1>4, AsideWhole DEF Next
<1> QED
  BY <1>2, <1>3, <1>4

\* As long as files that are there can be opened, a run that is offered as half of
\* a comparison has a result of every bench, or another job's record was written
\* over its own (ledger._newest_complete), whatever request, crash or failed write
\* came in between.
THEOREM OffersAreComplete == ASSUME FlakyReads = FALSE PROVE Spec => []OfferedRunIsComplete
<1>1. IInv /\ Whole => OfferedRunIsComplete
  <2> SUFFICES ASSUME IInv, Whole, NEW label \in Labels, NEW id \in Offered(label, TRUE)
               PROVE  IsComplete(id) \/ id \in lost
    BY DEF OfferedRunIsComplete
  <2>1. PICK i \in DOMAIN files :
           files[i] = id /\ ~(files[i] = ledger.id /\ ledger.step < Steps)
    BY OfferedIsCandidate DEF IInv, Whole, FilesAreWhole
  <2> QED
    BY <2>1 DEF Whole, FilesAreWhole, Unfinished
<1>2. Init => Whole
  BY InitWhole
<1>3. IInv /\ Whole /\ [Next]_vars => Whole'
  BY StepWhole
<1> QED
  BY <1>1, <1>2, <1>3, InductiveInvariant, PTL DEF Spec

-----------------------------------------------------------------------------
(***************************************************************************)
(* Types. Unlike the rest, they need no file to open: a read that fails is *)
(* a read of NoJob, which no step works on.                                *)
(***************************************************************************)
RestOK ==
    /\ files \in Seq(JobIds)
    /\ labels \in [JobIds -> Labels]
    /\ sentinel \in BOOLEAN /\ marking \in BOOLEAN /\ writeLock \in BOOLEAN
    /\ marked \in Gens /\ lost \subseteq JobIds
    /\ nextId <= MaxJobs + 1
    /\ faults <= MaxFaults

Typed == DataOK /\ HoldsJob /\ RestOK

LEMMA LostTyped ==
    ASSUME Typed, NEW j, WriteLedger(j)
    PROVE  lost' \subseteq JobIds /\ ledger' = j
<1>1. Unfinished(ledger) => ledger.id \in JobIds
  BY FieldFacts, NoJobFacts DEF Typed, DataOK, Unfinished, Foreign
<1> QED
  BY <1>1 DEF Typed, RestOK, WriteLedger

LEMMA PollTyped ==
    ASSUME Typed, Poll \/ Archive \/ Defer \/ TriggerBaseline \/ TriggerAfter \/ Measure
    PROVE  Typed'
<1> USE DEF Typed
<1>1. CASE Poll
  <2>1. PICK ok \in ReadOutcomes :
           /\ job' = IF IsOpen(ReadJob(ok)) \/ NeedsArchiving(ReadJob(ok))
                     THEN ReadJob(ok) ELSE NoJob
           /\ spc' = CASE IsOpen(ReadJob(ok)) -> "holding"
                       [] NeedsArchiving(ReadJob(ok)) -> "archiving"
                       [] OTHER -> "trigger"
    BY <1>1 DEF Poll
  <2>2. ReadJob(ok) = ledger \/ ReadJob(ok) = NoJob
    BY DEF ReadJob
  <2>3. ~IsOpen(NoJob) /\ ~NeedsArchiving(NoJob)
    BY NoJobFacts DEF IsOpen, NeedsArchiving, Foreign
  <2>4. UNCHANGED <<diskVars, value, writeLock, applyVars, rpc, faults>>
    BY <1>1 DEF Poll
  <2>5. \/ /\ job' = ledger /\ ledger \in Jobs /\ IsOpen(ledger) /\ spc' = "holding"
        \/ /\ job' = ledger /\ ledger \in Jobs /\ spc' = "archiving"
        \/ /\ job' = NoJob /\ spc' = "trigger"
    <3>1. ledger \in Jobs \/ ledger = NoJob
      BY DEF DataOK
    <3>2. CASE ReadJob(ok) = NoJob
      BY <2>1, <2>3, <3>2
    <3>3. CASE ReadJob(ok) = ledger /\ IsOpen(ledger)
      BY <2>1, <2>3, <3>1, <3>3
    <3>4. CASE ReadJob(ok) = ledger /\ ~IsOpen(ledger) /\ NeedsArchiving(ledger)
      BY <2>1, <2>3, <3>1, <3>4
    <3>5. CASE ReadJob(ok) = ledger /\ ~IsOpen(ledger) /\ ~NeedsArchiving(ledger)
      BY <2>1, <3>5
    <3> QED
      BY <2>2, <3>2, <3>3, <3>4, <3>5
  <2>6. IsOpen(ledger) => ledger.step < Steps
    BY DEF IsOpen, HoldsJob
  <2>7. HoldsJob'
    BY <2>4, <2>5, <2>6 DEF HoldsJob, Working, diskVars
  <2>8. DataOK' /\ RestOK'
    BY <2>4, <2>5 DEF DataOK, RestOK, diskVars, PollStates
  <2> QED
    BY <2>7, <2>8
<1>2. CASE Archive
  <2>1. job \in Jobs
    BY <1>2 DEF Archive, WriteLedger, HoldsJob
  <2>2. Archived(job) \in Jobs /\ Archived(job).status = "archived"
    BY <2>1, ArchivedFacts DEF Archived, Record
  <2>3. HoldsJob'
    BY <1>2, <2>2 DEF Archive, WriteLedger, HoldsJob, Working, OpenStatuses
  <2>4. lost' \subseteq JobIds /\ ledger' = Archived(job)
    BY <1>2, LostTyped DEF Archive
  <2>5. DataOK'
    BY <1>2, <2>2, <2>4 DEF Archive, DataOK, PollStates
  <2>6. RestOK'
    BY <1>2, <2>4 DEF Archive, RestOK
  <2> QED
    BY <2>3, <2>5, <2>6
<1>3. CASE Defer
  <2>1. DataOK' /\ RestOK'
    BY <1>3 DEF Defer, Return, DataOK, RestOK, diskVars, PollStates, Values
  <2>2. HoldsJob'
    BY <1>3 DEF Defer, Return, HoldsJob, Working, diskVars
  <2> QED
    BY <2>1, <2>2
<1>4. CASE TriggerBaseline
  <2>1. DataOK' /\ RestOK'
    BY <1>4 DEF TriggerBaseline, DataOK, RestOK, diskVars, PollStates
  <2>2. HoldsJob'
    BY <1>4 DEF TriggerBaseline, HoldsJob, Working, diskVars
  <2> QED
    BY <2>1, <2>2
<1>5. CASE TriggerAfter
  <2>1. DataOK' /\ RestOK'
    BY <1>5 DEF TriggerAfter, DataOK, RestOK, diskVars, PollStates
  <2>2. HoldsJob'
    BY <1>5 DEF TriggerAfter, HoldsJob, Working
  <2> QED
    BY <2>1, <2>2
<1>6. CASE Measure
  <2>1. value' \in Values
    BY <1>6 DEF Measure, Values, DataOK
  <2>2. DataOK' /\ RestOK'
    BY <1>6, <2>1 DEF Measure, DataOK, RestOK, diskVars, PollStates
  <2>3. HoldsJob'
    BY <1>6 DEF Measure, HoldsJob, Working, diskVars
  <2> QED
    BY <2>2, <2>3
<1> QED
  BY <1>1, <1>2, <1>3, <1>4, <1>5, <1>6

LEMMA NewJobTyped ==
    ASSUME Typed, NEW label \in Labels, WriteNewJob(label)
    PROVE  /\ ledger' = NewJob(label) /\ NewJob(label) \in Jobs
           /\ NewJob(label).step < Steps
           /\ labels' \in [JobIds -> Labels]
           /\ nextId' \in Nat \ {0} /\ nextId' <= MaxJobs + 1
<1>1. NewJob(label) \in Jobs /\ NewJob(label).step = 0
  BY NewJobFacts DEF Typed, WriteNewJob, WriteLedger
<1>2. NewJob(label).step < Steps
  BY <1>1, BoundsAssumption
<1>3. labels' \in [JobIds -> Labels]
  BY DEF Typed, RestOK, WriteNewJob, WriteLedger
<1>4. nextId' \in Nat \ {0} /\ nextId' <= MaxJobs + 1
  BY BoundsAssumption DEF Typed, DataOK, WriteNewJob, WriteLedger
<1> QED
  BY <1>1, <1>2, <1>3, <1>4 DEF WriteNewJob, WriteLedger

LEMMA RecordTyped ==
    ASSUME Typed,
           \/ OpenJob("baseline", "openBaseline") \/ OpenJob("after", "openAfter")
           \/ RecordAttempt \/ WriteRun \/ WriteStep \/ FinishJob
    PROVE  Typed'
<1> USE DEF Typed
<1>1. ASSUME NEW label \in Labels, NEW state, OpenJob(label, state) PROVE Typed'
  <2>1. /\ ledger' = NewJob(label) /\ NewJob(label) \in Jobs /\ NewJob(label).step < Steps
        /\ labels' \in [JobIds -> Labels] /\ nextId' \in Nat \ {0} /\ nextId' <= MaxJobs + 1
    BY <1>1, NewJobTyped DEF OpenJob
  <2>2. lost' \subseteq JobIds
    BY <1>1, LostTyped DEF OpenJob, WriteNewJob
  <2>3. HoldsJob'
    BY <1>1, <2>1 DEF OpenJob, HoldsJob, Working
  <2>4. DataOK'
    BY <1>1, <2>1 DEF OpenJob, DataOK, PollStates
  <2>5. RestOK'
    BY <1>1, <2>1, <2>2 DEF OpenJob, RestOK
  <2> QED
    BY <2>3, <2>4, <2>5
<1>2. ASSUME spc \in Working
      PROVE  /\ Bench \in Plan /\ Attempted \in Jobs /\ Advanced \in Jobs
             /\ Attempted.step = job.step /\ Advanced.step = Bench /\ job \in Jobs
             /\ job.step < Steps /\ job.id \in JobIds
             /\ Advanced.status \in OpenStatuses => Advanced.step < Steps
  <2>1. job \in Jobs /\ job.step < Steps
    BY <1>2 DEF HoldsJob
  <2>2. /\ Bench \in Plan /\ Attempted \in Jobs /\ Advanced \in Jobs
        /\ Attempted.step = job.step /\ Advanced.step = Bench /\ job.id \in JobIds
    BY <2>1, BenchFacts, FieldFacts
  <2>3. Advanced.status = IF Bench = Steps THEN "done" ELSE "running"
    BY DEF Advanced, Record
  <2> QED
    BY <2>1, <2>2, <2>3, BoundsAssumption DEF Plan, OpenStatuses
<1>3. CASE RecordAttempt
  <2>1. /\ Attempted \in Jobs /\ Attempted.step = job.step /\ job.step < Steps
        /\ ledger' = Attempted
        /\ \/ job' = Attempted /\ spc' = "recording" /\ value' = value
           \/ Return
    BY <1>2, <1>3 DEF RecordAttempt, WriteLedger, Working
  <2>2. HoldsJob'
    BY <2>1 DEF Return, HoldsJob, Working
  <2>3. lost' \subseteq JobIds
    BY <1>3, LostTyped DEF RecordAttempt
  <2>4. DataOK'
    BY <1>3, <2>1 DEF RecordAttempt, Return, DataOK, PollStates, Values
  <2>5. RestOK'
    BY <1>3, <2>3 DEF RecordAttempt, RestOK
  <2> QED
    BY <2>2, <2>4, <2>5
<1>4. CASE WriteRun
  <2>1. Bench \in Plan /\ job \in Jobs /\ job.step < Steps /\ job.id \in JobIds
    BY <1>2, <1>4 DEF WriteRun, Working
  <2>2. results' \in [JobIds -> [Plan -> Values \cup {Missing}]]
    <3>1. PICK ok \in ReadOutcomes :
             results' = [results EXCEPT ![job.id] = [RunSoFar(ok) EXCEPT ![Bench] = value]]
      BY <1>4 DEF WriteRun
    <3>2. RunSoFar(ok) \in [Plan -> Values \cup {Missing}]
      BY <2>1 DEF RunSoFar, NoResults, DataOK
    <3>3. [RunSoFar(ok) EXCEPT ![Bench] = value] \in [Plan -> Values \cup {Missing}]
      BY <2>1, <3>2 DEF DataOK
    <3> QED
      BY <3>1, <3>3 DEF DataOK
  <2>3. files' \in Seq(JobIds)
    BY <1>4, <2>1, RewrittenFacts DEF WriteRun, RestOK
  <2>4. DataOK' /\ RestOK'
    BY <1>4, <2>2, <2>3 DEF WriteRun, DataOK, RestOK, PollStates
  <2>5. HoldsJob'
    BY <1>4, <2>1 DEF WriteRun, HoldsJob, Working
  <2> QED
    BY <2>4, <2>5
<1>5. CASE WriteStep
  <2>1. /\ Advanced \in Jobs /\ ledger' = Advanced
        /\ Advanced.status \in OpenStatuses => Advanced.step < Steps
        /\ \/ job' = Advanced /\ spc' = "closing" /\ value' = value
           \/ Return
    BY <1>2, <1>5 DEF WriteStep, WriteLedger, Working
  <2>2. HoldsJob'
    BY <2>1 DEF Return, HoldsJob, Working
  <2>3. lost' \subseteq JobIds
    BY <1>5, LostTyped DEF WriteStep
  <2>4. DataOK'
    BY <1>5, <2>1 DEF WriteStep, Return, DataOK, PollStates, Values
  <2>5. RestOK'
    BY <1>5, <2>3 DEF WriteStep, RestOK
  <2> QED
    BY <2>2, <2>4, <2>5
<1>6. CASE FinishJob
  <2>1. job \in Jobs
    BY <1>6 DEF FinishJob, WriteLedger, HoldsJob
  <2>2. /\ ledger' = Record(job.id, job.label, job.step, "done", job.attempts)
        /\ ledger' \in Jobs /\ ledger'.status = "done"
    BY <1>6, <2>1, FieldFacts DEF FinishJob, WriteLedger, Record, Jobs
  <2>3. HoldsJob'
    BY <1>6, <2>2 DEF FinishJob, WriteLedger, Return, HoldsJob, Working, OpenStatuses
  <2>4. lost' \subseteq JobIds
    BY <1>6, LostTyped DEF FinishJob
  <2>5. DataOK'
    BY <1>6, <2>2 DEF FinishJob, Return, DataOK, PollStates, Values
  <2>6. RestOK'
    BY <1>6, <2>4 DEF FinishJob, Return, RestOK
  <2> QED
    BY <2>3, <2>5, <2>6
<1> QED
  BY <1>1, <1>3, <1>4, <1>5, <1>6 DEF Labels

LEMMA AsideTyped ==
    ASSUME Typed,
           \/ \E r \in Requests : RequestStep(r)
           \/ BulkApplyWrites \/ MarkBulkApplyFinished \/ EndUnmarked \/ WriteFails \/ MarkFails \/ Crash
    PROVE  Typed'
<1> USE DEF Typed
<1>1. ASSUME NEW r \in Requests, RequestCheck(r) \/ RequestLabel(r) PROVE Typed'
  <2>1. rpc' \in [Requests -> RequestStates]
    <3>1. CASE RequestCheck(r)
      <4>1. PICK ok \in ReadOutcomes :
               rpc' = [rpc EXCEPT ![r] = IF IsOpen(ReadJob(ok)) THEN "answered"
                                         ELSE IF NeedsArchiving(ReadJob(ok)) THEN "archiving"
                                         ELSE "labelling"]
        BY <3>1 DEF RequestCheck
      <4> QED
        BY <4>1 DEF DataOK, RequestStates
    <3>2. CASE RequestLabel(r)
      BY <3>2 DEF RequestLabel, DataOK, RequestStates
    <3> QED
      BY <1>1, <3>1, <3>2
  <2>2. UNCHANGED <<diskVars, pollVars, applyVars, faults>>
    BY <1>1 DEF RequestCheck, RequestLabel
  <2> QED
    BY <2>1, <2>2 DEF DataOK, RestOK, HoldsJob, diskVars, pollVars
<1>2. ASSUME NEW r \in Requests, RequestArchive(r) PROVE Typed'
  <2>1. Archived(ForeignJob) \in Jobs /\ Archived(ForeignJob).status = "archived"
    BY ForeignFacts, ArchivedFacts DEF Archived, Record
  <2>2. rpc' \in [Requests -> RequestStates]
    BY <1>2 DEF RequestArchive, WriteLedger, DataOK, RequestStates
  <2>3. HoldsJob'
    BY <1>2, <2>1 DEF RequestArchive, WriteLedger, HoldsJob, pollVars, OpenStatuses
  <2>4. lost' \subseteq JobIds /\ ledger' = Archived(ForeignJob)
    BY <1>2, LostTyped DEF RequestArchive
  <2>5. DataOK'
    BY <1>2, <2>1, <2>2, <2>4 DEF RequestArchive, DataOK, pollVars
  <2>6. RestOK'
    BY <1>2, <2>4 DEF RequestArchive, RestOK, pollVars
  <2> QED
    BY <2>3, <2>5, <2>6
<1>3. ASSUME NEW r \in Requests, RequestOpen(r) PROVE Typed'
  <2>1. /\ ledger' = NewJob(rpc[r]) /\ NewJob(rpc[r]) \in Jobs /\ NewJob(rpc[r]).step < Steps
        /\ labels' \in [JobIds -> Labels] /\ nextId' \in Nat \ {0} /\ nextId' <= MaxJobs + 1
    BY <1>3, NewJobTyped DEF RequestOpen
  <2>2. rpc' \in [Requests -> RequestStates]
    BY <1>3 DEF RequestOpen, DataOK, RequestStates
  <2>3. HoldsJob'
    BY <1>3, <2>1 DEF RequestOpen, HoldsJob, pollVars
  <2>4. lost' \subseteq JobIds
    BY <1>3, LostTyped DEF RequestOpen, WriteNewJob
  <2>5. DataOK'
    BY <1>3, <2>1, <2>2 DEF RequestOpen, DataOK, pollVars
  <2>6. RestOK'
    BY <1>3, <2>1, <2>4 DEF RequestOpen, RestOK, pollVars
  <2> QED
    BY <2>3, <2>5, <2>6
<1>4. CASE BulkApplyWrites \/ MarkBulkApplyFinished \/ EndUnmarked
  <2>1. gen' \in Gens
    BY <1>4, BoundsAssumption DEF BulkApplyWrites, MarkBulkApplyFinished, EndUnmarked, DataOK,
       Gens
  <2>2. DataOK' /\ RestOK'
    BY <1>4, <2>1 DEF BulkApplyWrites, MarkBulkApplyFinished, EndUnmarked, DataOK, RestOK,
       diskVars, pollVars
  <2>3. HoldsJob'
    BY <1>4 DEF BulkApplyWrites, MarkBulkApplyFinished, EndUnmarked, HoldsJob, diskVars,
       pollVars
  <2> QED
    BY <2>2, <2>3
<1>5. ASSUME Fault PROVE faults' \in Nat /\ faults' <= MaxFaults
  BY <1>5, BoundsAssumption DEF Fault, DataOK
<1>6. CASE MarkFails
  BY <1>5, <1>6 DEF MarkFails, DataOK, RestOK, HoldsJob, diskVars, pollVars
<1>7. CASE WriteFails \/ Crash
  <2>1. rpc' \in [Requests -> RequestStates]
    BY <1>7 DEF WriteFails, Crash, DataOK, RequestStates
  <2>2. Return /\ UNCHANGED <<diskVars, gen>> /\ writeLock' = FALSE /\ marking' \in BOOLEAN
    BY <1>7 DEF WriteFails, Crash, RestOK
  <2>3. DataOK' /\ RestOK'
    BY <1>5, <1>7, <2>1, <2>2
       DEF WriteFails, Crash, Return, DataOK, RestOK, diskVars, PollStates, Values
  <2>4. HoldsJob'
    BY <2>2 DEF Return, HoldsJob, Working, diskVars
  <2> QED
    BY <2>3, <2>4
<1> QED
  BY <1>1, <1>2, <1>3, <1>4, <1>6, <1>7 DEF RequestStep

\* Every variable stays in its type, whatever crashes, fails to open or to be written,
\* and a poll at work holds a job with a bench left to do (poll_once).
THEOREM TypeCorrect == Spec => [](TypeOK /\ HoldsJob)
<1>1. Init => Typed
  <2> SUFFICES ASSUME Init PROVE Typed
    OBVIOUS
  <2>1. DataOK /\ HoldsJob
    BY InitEstablishes DEF IInv
  <2>2. files \in Seq(JobIds)
    <3>1. Foreign \in JobIds
      BY BoundsAssumption DEF Foreign, JobIds
    <3>2. files = <<>> \/ files = <<Foreign>>
      BY DEF Init
    <3>3. <<>> \in Seq(JobIds) /\ <<Foreign>> \in Seq(JobIds)
      BY <3>1
    <3> QED
      BY <3>2, <3>3, Zenon
  <2>3. labels \in [JobIds -> Labels]
    BY DEF Init, Labels
  <2>4. nextId <= MaxJobs + 1 /\ faults <= MaxFaults
    BY BoundsAssumption DEF Init
  <2>5. /\ sentinel \in BOOLEAN /\ marking \in BOOLEAN /\ writeLock \in BOOLEAN
        /\ marked \in Gens /\ lost \subseteq JobIds
    <3>1. 0 \in Gens
      BY BoundsAssumption DEF Gens
    <3>2. sentinel = FALSE /\ marking = FALSE /\ writeLock = FALSE /\ marked = 0 /\ lost = {}
      BY DEF Init
    <3> QED
      BY <3>1, <3>2
  <2>6. RestOK
    BY <2>2, <2>3, <2>4, <2>5 DEF RestOK
  <2> QED
    BY <2>1, <2>6 DEF Typed
<1>2. Typed /\ [Next]_vars => Typed'
  <2> SUFFICES ASSUME Typed, [Next]_vars PROVE Typed'
    OBVIOUS
  <2>1. CASE PollStep
    BY <2>1, PollTyped, RecordTyped DEF PollStep
  <2>2. CASE Next /\ ~PollStep
    BY <2>2, AsideTyped DEF Next
  <2>3. CASE UNCHANGED vars
    BY <2>3 DEF vars, diskVars, pollVars, Typed, DataOK, HoldsJob, RestOK
  <2> QED
    BY <2>1, <2>2, <2>3
<1>3. Typed => TypeOK /\ HoldsJob
  BY BoundsAssumption DEF Typed, DataOK, RestOK, TypeOK
<1> QED
  BY <1>1, <1>2, <1>3, PTL DEF Spec

=============================================================================
