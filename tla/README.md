# fpstune: specifications, model checking and proofs

fpstune reads and changes Windows settings and measures what the changes did.
Its core is a Python API (`src/src/fpstune/`) with a browser page
(`src/frontend/`) in front of it. These modules model the parts of that core in which
several threads, requests or processes meet, or in which something has to survive
a crash. Paths below are relative to `src/src/fpstune/` unless they begin
with `src/`.

1. Inventory: the system and what is hard about it
2. The modules and how they correspond to the code
3. The runs: what each checks, its bounds, what it shows
4. Fairness
5. The proofs
6. Where the code does not do what it says
7. What the models leave out
8. Plan

`PROJECT.json` lists every component, run, hazard and theorem, and for every
definition the lines it stands for.

## 1. Inventory

### Modelled

**Apply and bench handshake** (`settings/apply_state.py`,
`api/routes/settings_apply.py`, `benchmark/operation_lock.py`).
*State:* a counter of applies in flight, per process; a named mutex,
`Global\fpstune-machine-operation`, per machine. *Operations:* `apply_in_flight`
raises the counter, `_wait_for_bench` polls the mutex until it was free once, the
command runs, the counter goes down; a bench takes the mutex, reads the
counter and measures or stands down. *Hard:* two variables read and written in
opposite orders by threads that share neither; a process that dies with
the mutex; commands that raise. *Correct when* a write and a measurement never
overlap, two measurements never do, the counter is exact, and nobody waits for
ever.

**Benchmark ledger and scheduler** (`benchmark/ledger.py`,
`benchmark/scheduler.py`, `api/routes/benchmark_ledger.py`).
*State, on disk:* one open job in `ledger.json`, one run file per job, the
sentinel a bulk apply leaves. *Operations:* one daemon thread polls once a minute and
does at most one bench of the job per poll; `record_step` writes the run and then
the job; a request opens a job by hand; a bulk apply leaves the
sentinel; the comparison page asks for the newest complete baseline and after run.
*Hard:* a job that is read at the beginning of a poll and written at its end; a
process that dies, or a write that fails, between two writes; a ledger copied
from another machine; files that cannot be opened for a moment. *Correct when* no
result is counted that is not on disk, none is lost, a failing bench is given up,
what is offered for comparison is whole, and what a bulk apply changed ends up measured.

**Lane planner** (`settings/bulk_plan.py`). A pure function from the settings of a
request to lanes: settings that share a resource or declare an order share a lane.
*Correct when* the lanes are the connected components, each in dependency order with
the client's order breaking ties, and exactly the cyclic declarations are refused.

**Bulk apply stream** (`api/routes/settings_stream.py`). *State:* per request, a
task per lane, a semaphore of four, a thread pool, an event queue. *Operations:* a lane
awaits a slot, hands its write to a thread, puts the outcome on the queue; the
stream takes events until every lane ended; a client that leaves cancels the
tasks while threads go on. *Hard:* four writes at once; failures; a Stop at any
moment. *Correct when* conflicting writes never overlap, the order holds, `done`
accounts for every id, and after a Stop only what was already under way goes on.

**Adapter restart** (`settings/executors/adapter_restart.py`). *State:* a debounce
timer per adapter, a mark per adapter under restart. *Operations:* a write replaces
the timer; a timer that fires restarts the adapter and waits until it is
back; a scan waits for restarts; shutdown flushes what waits. *Hard:* a timer that
fires while it is replaced, restarts that overlap, an exit in between, an adapter
that does not come back. *Correct when* every value gets loaded, a burst restarts
once, and a scan does not read an adapter that is down.

**Single instance and takeover** (`cli.py`, `utils/instances.py`,
`utils/instance_reclaim.py`, `api/routes/system.py`), with the **lifespan and
shutdown** of the API (`api/main.py`, `api/serving.py`, `api/shutdown.py`).
*State:* a lock port, a PID file, per server a stop request and what it works
at. *Operations:* a start that finds the port taken probes for instances, asks
them to stop, waits, and last looks up the owner of the port and ends it; a
server that is asked waits for a bench with a bound, drains its requests, removes
the PID file and frees the port. *Hard:* several newer starts at once; servers
that hang or die at any step; owners the socket table does not list. *Correct
when* one instance serves, its PID file stays its own, and every start serves or
says why not.

**Cleanup sizes** (`settings/cleanup_cache.py`, `settings/cleanup_measure.py`,
`settings/executors/powershell.py`). *State:* a cache of sizes with claims, a flag
for the batch. *Operations:* one batch sizes what the cache does not know, a
row the batch missed is walked in place or gets a worker; a cleanup that ran
measures what is left. *Hard:* workers that fail half-way or never start;
claims of two workers on one row; a reading that a cleanup overtakes. *Correct
when* no row spins for ever, no batch blocks the next, and a size is old only where
a reading was overtaken.

**Frontend runs and detection** (`src/frontend/src/store`, `hooks/useApply.ts`,
`lib/api.ts`). *State:* rows with their values and states, the requests in flight,
the run, a busy count. *Operations:* the scan of a category, a re-detection
that callers share, a single write, a bulk run with its stream, its end and its
Stop. *Hard:* answers in any order and without a version; a stream that dies; a
Stop while the server writes. *Correct when* the page shows the machine once everything
came back, and never stays busy.

**Game configuration writers** (`settings/executors/game_config_writer.py`,
`game_processes.py`, and the writers per game). *State:* a file that belongs to a
game, a named mutex per file (and a lock per process for when Windows refuses the mutex),
a short-lived list of processes. *Operations:*
refuse if the game runs, then for each line of the setting take the mutex, read,
rewrite, replace; read back. *Hard:* writers in two processes; games that start
and write back; replaces that are refused; processes that die with the mutex.
*Correct when* writers take turns and what was read back stays as it was read.

**Updates** (`utils/updates.py`, `api/routes/updates.py`). *State:* three files:
the executable, the staged release, the copy moved aside. *Operations:* stage,
clear, move aside, move in or undo; the next start sweeps. *Hard:* a kill between
two renames; two installs of one server, which nothing keeps apart; renames that
fail, and their undoing too. *Correct when* a whole build is under the name, and
the answers agree with it.

### How the components interact

```
 page ── POST /apply ───────────────▶ apply ──── command ──▶ machine
 page ── POST /bulk/stream-apply ──▶ lanes ── (each write is an apply)
                                        │            │
                                        │            └─ -NoRestart writes ──▶ adapter restart
                                        └─ sentinel ──▶ ledger ◀── scheduler ── bench ──▶ mutex, counter
 page ── POST /ledger/run ─────────────────────────▶ ledger
 page ── GET  /ledger … ─────────── newest complete runs
 a newer start ── POST /shutdown ──▶ lifespan exit ──▶ flush, stop threads, free the lock
```

The calls are function calls in one process except three: the mutex (machine),
the files under `~/.fpstune` (across restarts), and HTTP (page, newer start).

### Not modelled

| component | state | what is hard, and what would make it correct |
| --- | --- | --- |
| bench suite (`benchmark/suite.py`, `gpu_scene.py`) | the scenes that run | a bench past its deadline goes on in its thread |
| restore points (`safety/restore.py`) | the outcome of the session | the point must exist before the first write |
| hardware manager (`utils/hardware_manager.py`) | a cache, a poller | the poller empties what others read |
| process watch (`utils/process_watch.py`) | reader threads | slow against stalled; output that arrives after the outcome |
| detection engine, executors, setting definitions, health pages, results, driver bindings, other routes and commands, PowerShell runtime, tooling | none, or one file of one writer | sequential; their tests reach them |

`PROJECT.json` names the sources of each and says why it is left out.

## 2. The modules

| module | what it is |
| --- | --- |
| `ExclusiveMachine` | abstract: writes and measurements of one process never overlap, two measurements never do. No lock, counter or poll |
| `ApplyBench` | the handshake, shown to implement `ExclusiveMachine` |
| `ApplyBenchProofs` | its theorems |
| `Ledger` | the ledger's files, the poll, the requests, bulk applies, faults |
| `LedgerProofs` | its theorems |
| `LanePlan` | the planner, as operators |
| `BulkStream` | the stream of one or more requests; a plan is a constant that satisfies `IsPlan` |
| `BulkStreamProofs` | its theorems, those about the planner, and that the planner's lanes are plans as the stream assumes them |
| `AdapterRestart` | timers, restarts, scans and the flush of one adapter |
| `AdapterRestartProofs` | its theorems |
| `SoleInstance` | abstract: one instance serves, and only with the lock |
| `Takeover` | starts, the lock port, the PID file, stops and forced ends; shown to implement `SoleInstance` |
| `TakeoverProofs` | its theorems |
| `CleanupSizes` | the cache, the batch, the workers and the cleanups |
| `DetectionPage` | the page's requests and its copy of the machine, and the server's side of each |
| `DetectionPageProofs` | its theorems, and those of `CleanupSizes`, whose sizes the page's rows show |
| `ConfigFile` | one game's file, its writers and the game |
| `ConfigFileProofs` | its theorems |
| `UpdateInstall` | installs, sweeps and the three files of the self-update |
| `UpdateInstallProofs` | its theorems |
| `MCApplyBench`, `MCLanePlan`, `MCBulkStream` | small instances; `MCBulkStream` composes `BulkStream` with the plans `LanePlan` makes |

Definitions that a comment calls a *mutant* are not part of the models: each
is a plausible mistake in one definition, kept to show that a property
notices it. `PROJECT.json` pairs them with the property.

**`ApplyBench`.** `pc[t]` is where a thread stands, `holder` the owner of the mutex,
`inFlight[p]` the counter of process `p`, `inUse` what the scheduler's guards ask
(a game runs, the user is there), `stepsInUse` a history variable. `Applies` are
the threads that run `apply_and_verify`; `Scheduled`, `Suite` and `Direct` are the
three ways into a bench: the scheduler (guards first, counter under the lock), the suite
stream (counter under the lock), and `measure_now`/`_install_gpu_scene`, which
take the mutex and never look at the counter. `ProbeTake` and `ProbeRelease` are
the two halves of `is_free`, which takes the mutex to see whether it could. `Crash`
is the death of a process: its counter and threads vanish, its mutex is abandoned
and the next try gets it.

**`Ledger`.** `ledger`, `results`, `files`, `labels` and `sentinel` are the disk;
`spc`, `job`, `value` are the poll and what it holds in memory; `rpc` is a request
between its steps. One action per file operation, so that a crash or a failed
write (`Crash`, `WriteFails`, `MarkFails`) fits between any two. `record_step` is
`WriteRun` then `WriteStep` under `writeLock`. `gen` counts the bulk applies the
machine has been through; a result is the generation it was measured in, which is how
`AppliesEndUpMeasured` tells a stale comparison from a current one. A bulk apply that has written
either leaves its sentinel (`MarkBulkApplyFinished`) or ends without one, because its client
stopped it or nothing succeeded (`EndUnmarked`). `marked` is the last generation whose sentinel was
left and `lost` the jobs that another record was written over with benches still to do; both are
histories. `Offered` is `_newest_complete`. Job 0 is a job that came with a copied `~/.fpstune`.

**`LanePlan`.** `Order` is the heap-driven topological order, one `Turn` of the heap
(`Ready`) after the other; `Find`/`Join` the union-find, `Links` the pairs the planner
joins (a dependent and its dependency, a setting and the first `Holder` of its
resource), `Filled` the lane of each root, `PlanLanes` the result,
`ValidDeclarations` what the registry checks at its start. `NoResource` stands for the
key of a setting that shares nothing. `Find` is without path compression, which
changes no root. `MCLanePlan` declares one setting after the other (`Declarations`) and
says what the lanes should be without an algorithm: a component is a least set that is
closed under sharing and declared order, a cycle is a set each of whose settings waits
for one of its own (`IsKnot`).

**`BulkStream`.** `row[r][s]` is how far setting `s` is in run `r`: `none` (waits
for its lane or a slot), `pooled`, `writing`, `wrote`/`broke` (the thread returned
and the task has not heard), `succeeded`/`failed`, `dropped` (taken out of the
pool by the cancel). `queue` holds outcomes and lane ends in the order the tasks
put them. After `Stop` the tasks are gone, the threads are not: `Write` and
`WriteEnds` stay possible, `Learn` does not; and every slot is free again, since a cancelled task
leaves the semaphore however far its thread is. `Admitted` rows have left the wait and have no
outcome.

**`AdapterRestart`.** `timer[x]` follows a timer from its making through its firing to
the end of the restart it runs; `pending` and `mark` are the module's two
dictionaries, for one adapter; `registry` and `loaded` are what the writes
left and what the driver read when it last came up. `Schedule` and `Arm` are apart
because the timer is started outside the lock. `GiveUp` and `UpLate` are an adapter
that misses the wait and comes up later. `robbed`, `overlapped`, `running` and `owed`
are history variables that only properties read.

**`Takeover`.** `pc[p]` follows a start from its claim (`Claiming`) through its serving
to its end; `lock` and `pidFile` are the machine's; `found`, `asked`, `targets` and
`denied` are what a start knows of the others; `stop`, `work` and `hung` are the
server's side. `Find` is one look at the candidate ports, done once as in the
code. `Reclaim` and `EndTarget` are the two halves of `reclaim_lock_holder`, so that
an owner may end in between. `Far` and `Mute` starts and `Stranger` are the three
ways a start may hold the port, or serve, without being found.

**`CleanupSizes`.** `entry[k]` is the cache's answer for a cleanup and who gave or
claimed it; `size[k]` counts the cleanups that changed the target, so that a reading
is old exactly when the numbers differ. A scan is a batch or the reading of one
row; `BatchLook` to `BatchStoreRest` are the steps of `start_cleanup_size_batch` and
its worker, `RowLook` to `RowStore` those of one row, `RunCommand` to
`RunDropSibling` those of a cleanup (`Cleanups`; its names are `SizesSpec`, `SizesInit` and so on, so
that its proofs can stand beside the page's). `Settled` is the `finally` that ends the claims of a
worker.

**`DetectionPage`.** `fresh` is the set of rows whose shown value is the machine's;
each answer in flight carries the rows that were fresh when the server read them.
`request[q]` is the one re-detection of the rows `q` that callers share;
`job`, `events` are the server's side of a run and what its stream has yet to
deliver; `write` and `served` are the two sides of a single write. `Redetect`,
`Answer` and `Resume` are the promise callers wait on.

**`ConfigFile`.** `file` is the disk, `game` what the game has in memory, `list` each
process's cached list of processes, `copy` the text between a read and its
replace. A writer goes `lock`, `read`, `replace` for every line and then `verify`.
`lock[w]` is the lock it takes for its line: the named mutex, or the process's own lock where
Windows refuses the mutex, asked anew for each line (`AskForMutex`). `Verify` reads the setting
back as `_agreed` does: where two lines disagree, the last one answers. `GameStarts` and `GameEnds` may come between any two steps;
`Die` abandons the mutexes of a process. `raced` and `owed` are histories;
`owed[s]` is what the lines of a setting held when it was last answered for.

**`UpdateInstall`.** `target`, `staged` and `previous` are the three files, each
absent, partly written, the current build or the release; `image[p]` is what a
process runs, which Windows neither removes nor replaces (`Running`). An
install goes through its file operations one by one, each with the way it fails; `MoveIn` is the
second rename and `Answer` what the caller is then told, with room for a kill between the two.
`cut`, `untold` and `spoiled` are histories.
`StartProcess` and `Sweep` are a start and its removal of the copy moved aside, apart.

## 3. The runs

Passing runs:

| run | distinct states | bounds | what it shows |
| --- | --- | --- | --- |
| `apply_bench` | 29,400 | 3 applies, 2 schedulers, a suite and a direct bench over 2 processes | safety and refinement of the handshake with crashes at any point, and that an apply leaves its wait |
| `ledger_faults` | 2,708,038 | plan of 2, 2 jobs, 1 request, 1 bulk apply, 2 faults, benches that run, fail or are absent, a copied ledger | no result is counted that is not on disk, none is lost, attempts are bounded, and what is offered is whole but where its job was written over |
| `ledger_applies` | 649,596 | plan of 2, 4 jobs, 1 request, 2 bulk applies, no faults | every bulk apply that leaves its sentinel ends up measured, beside those a Stop leaves without one and a request at any step, unless a job was written over |
| `lane_plan` | 204,205 | every list of up to 4 settings over 2 resources with up to 2 declared orders each | the planner's lanes against the components, their order by first member, each lane against all orders of its settings; what is refused against cycles |
| `bulk_stream` | 492,725 | every request of up to 4 of 6 ids in every order, 2 slots | exclusion, order, `done`, what a Stop leaves under way, termination |
| `adapter_restart` | 226,540 | 2 writes, 1 scan, 1 shutdown | the promises of the debounce, with late timers, failures and an exit anywhere |
| `takeover` | 387,295 | 3 starts, one on a far port, one that does not listen, a stranger, 1 crash or hang | one instance serves, its PID file stays its own, every start settles |
| `cleanup_sizes` | 400,486 | 3 cleanups, two of them siblings, 2 scans, 1 run | spinners end, batches go on, a size is old only where a reading was overtaken |
| `detection_page` | 364,131 | 2 rows, 1 bulk run, 1 single write | the page catches up but in four named cases; it never stays busy |
| `config_files` | 258,391 | 2 writers in one process or two, a setting of 2 lines and one of 1, 2 writes | writers take turns, what was read back stays, every write ends |
| `update_install` | 586,978 | 3 processes, 2 of them servers with 2 installs each, 2 faults | what is under the name and whether the answers agree with it |

One run ends in a violation: `takeover_ends_healthy` (section 6).

Why the bounds are enough. *Handshake:* its safety is pairwise (a write and a
bench, two benches), the third apply makes the counter of a process exceed one
while a thread of the other process comes and goes; the theorems cover every other number.
*Ledger:* two benches are a first, which leaves a job half done, and a last, which
finishes it; two jobs are one that finishes and one that overwrites or follows it;
two after runs need a third job, and a request that opens one of its own a fourth. Two faults let
a fault hit the recovery from another; `MaxAttempts` is 3 as in the code where attempts are
counted, and 2 in `ledger_applies`, where only that they end matters. A bench that is absent
differs from one that was given up in how soon it ends, so `Outcomes` leaves it out there
and has all three in `ledger_faults`. *Planner:* four
positions allow two components to meet late, a diamond and every small cycle.
*Stream:* six ids hold one of each kind (a pair on one adapter, a declared pair, one
on its own, one that is no setting any more), two slots and three lanes make
lanes wait. A request of `adapter2` without `adapter1` behaves like one of
`adapter1` and is left out. *Adapter:* two writes are the timer that is replaced and the one that
replaces it; with the flush there are three restarts that may overlap.
*Takeover:* three starts are an old instance and two that race to replace it, or
two takeovers in a row; the theorems cover every other number. *Cleanup:* a batch and
a row, or two batches, over a folder and two figures that are one; the run is the
cleanup that overtakes either. *Page:* two rows are one of the run and one beside it, or
two whose answers cross; every kind of request is in flight beside every other.
*Config:* two writers of one file meet in every step, and two lines make a
setting that is half done; the theorems cover the rest. *Update:* two installs share a
process and a third one comes from another; the third process only starts. Two
faults are a failed rename and its failed undoing, or a failure and a kill.

`CHECK_DEADLOCK FALSE` stands where the system may really stop: a list that is full
(`lane_plan`), a run that is over (`bulk_stream`), a process that is gone
(`adapter_restart`), starts that all served or ended (`takeover`), scans, requests
and installs that are each made once (`cleanup_sizes`, `detection_page`, `update_install`).

Named bounds in guards: `MaxJobs` (nobody sets out to open a job that would exceed
it: `RoomForJob`), `MaxApplies`, `MaxFaults`, `Outcomes`, `MaxWrites`, `PerServer`; `MaxItems`, `MaxAfter`, `MaxRequest`
bound inputs.

## 4. Fairness

*Handshake.* A thread inside an operation goes on (weak fairness). A bench step of a suite ends
because `run_bench_with_deadline` gives up on it. What is started by hand has no such deadline
(`performance_headroom.py:461`): a scene keeps a budget of its own (`gpu_scene.py`,
`budget_seconds`) and its installation is watched for a stall (`process_watch`). The probe is a poll every half second
against a mutex that other probes and stand-downs hold for microseconds: strong fairness
of `ProbeTake`. Nobody has to start anything.

*Ledger.* The daemon polls and a poll goes on (weak). A guard may refuse any
tick; that the machine is left alone at some tick again and again is what the user does,
hence strong fairness of the two steps a guard may refuse, `TriggerBaseline \/
TriggerAfter` and `Measure`. The claim is conditional on that, as the feature is. A bulk apply
ends, with its sentinel or without: weak fairness of the two together, which promises neither.

*Stream.* The event loop and the pool threads run, and a write ends (a command that
stalls is given up by `utils/process_watch.py`). No client has to stay.

*Adapter.* Threads run, quiet periods end, the restart command returns or is given
up. No write, read or shutdown has to happen, and a waiting read is not relied on to
time out, so that `ReadersGetThrough` is about the mark being cleared.

*Takeover.* A start's own loop goes on, and `stop_when_idle` waits with a bound. Nothing is
assumed of the drain of a server's requests or of its work: a start settles though
the old instance never ends by itself.

*Cleanup.* A worker that was started goes on (a stuck process is ended by its stall
rule), and the page polls while a row spins.

*Page.* A request is answered or lost, the server goes on with a run, the events of a
stream are delivered and it ends.

*Config.* A writer that can go on does. A lock is waited for with a time-out, so nothing
is assumed of its holder, and nothing of the game.

*Updates.* None: only safety is stated.

## 5. The proofs

Every theorem holds for every value of the constants that satisfies the named assumptions.

**`ApplyBenchProofs`** (assumption `ThreadsAssumption`: the kinds of threads are disjoint,
applies are finite, every thread has a home). `TypeCorrect`, `ApplyAndBenchExclude`,
`BenchesExclude`, `CountStaysExact`, `OneStepInUse`, `Refinement`. The inductive
invariant joins three facts none of which is inductive alone: a thread is in an
owning state exactly when it owns the mutex (`HolderOwns`), the counter is the
number of applies between its two lines (`CountIsExact`), and the exclusion
itself. A bench that reads zero under the mutex knows that no apply of its process
is past counting; an apply that gets the mutex in its probe knows that nobody
measures. `StepSpent` says a scheduler that began a step on a machine in use is
in it or back at its guard. `Refinement` maps every step to a step or a stutter of
`ExclusiveMachine`, with the writing applies and the counted benches that measure
as its two sets.

**`LedgerProofs`** (assumptions `BoundsAssumption`, and `FlakyReads = FALSE`, stated
in the theorems that need it). `CountedResultsExist`: `step` never counts a result that is not on
disk. `ResultsAreKept`: a result stays in its file. The invariant says that
the ledger and the copy in memory are both backed by results, and that between the two
writes of `record_step` the bench about to be counted has its result; since
results only get added, every stale copy that is written back is backed too.
`CopyIsWhole` is the same for the copied ledger. The assumption is needed: with
`FlakyReads = TRUE` TLC refutes `StepHasResult` (section 6). `TriesAreBounded`: no bench
is tried more often than `MaxAttempts + faults`. The bound alone is not inductive; both
copies of the job have *room* (`Room`): every bench after the next one may still fail
once. Between the failure that gives a bench up and the write that says so, the room
is only beyond that bench (`GivingUp`); the one way back from there is a fault, which
raises the bound. `OffersAreComplete`: a run on offer has a result of every
bench, or its job was written over half done. Whoever opens a job writes it over whatever is in
the ledger, so the argument is not about who opens one but about what is lost by it: the run
file of every job but the one in the ledger has all its results or is in `lost`
(`FilesAreWhole`), a step that puts another record there adds what it wrote over
(`FilesWrittenOver`), and the job a poll works on is the one in the ledger, at the same
step, or is in `lost` (`Holds`). The run of the job in the ledger is skipped
until it is over. `Offered` picks its run
by `SelectSeq` over the files; `OfferedIsCandidate` gets what it picks from its index, the
greatest of a finite set of numbers. `TypeCorrect` holds for files that fail to open
too: what fails to open reads as no job, and no step works on that.

**`BulkStreamProofs`** (assumption `StreamAssumption`: a positive number of slots, finitely many
settings, every plan satisfies `IsPlan`). `LanesExclude`, `LanesOrder`: a setting that left
its wait did so behind finished ones, and finished settings stay finished
(`Behind`). `SlotsNeverExceeded`: settings between slot and outcome plus free slots
never exceed `Slots`, until a Stop frees the slots and leaves those settings as they are
(`SlotsCounted`). `StopCuts`: what is left under way is what had a slot at the Stop, and in each
lane it is the one behind finished settings; both halves are needed, as the slots
themselves no longer keep anybody out. `DoneIsComplete`:
the lane ends a run still waits for are at least the lanes at work plus the ends in its
queue (`EndsCover`), and a lane's end comes behind all its outcomes (`QueueFits`); so the
last end to be taken finds every lane through, no outcome left in the queue, and every id
shown. It needs that no setting stands in two lanes, which `IsPlan` says. `TypeCorrect`:
no run has more slots than it began with or takes more lane ends than it counted.

*The planner* (no assumption: a list of any length, any keys, any declarations).
`RefusalsAreCycles`, `RefusedIsCyclic`, `LanesAreRight`, `RequestsGetPlans`. An order is *greedy*:
each entry is the least position that is not in it yet and waits for nothing ahead, and
nothing could be added at its end (`OrderIsGreedy`). What a greedy order leaves out
waits for something left out, so it is a knot; and the first of a knot to stand in
an order would wait for something behind it, so no knot ever does (`KnotsAreRefused`). In a knot
a walk along declared orders must return to where it was, since the positions are
finitely many (`KnotsAreCycles`). The union-find keeps parents below their
children, so as many steps as there are positions end at a root (`FindIsRoot`); a link
makes two roots one and no link parts them, and what no chain of links joins keeps two roots; so
the settings of one root are a least closed set. What a greedy order has of one
component is greedy itself, as nothing in it waits for anything outside; and a greedy
order respects the dependencies and at the first place where another such order
differs has the smaller position. `RequestsGetPlans` ties the two halves together:
for a registry that validated, whatever ids a request names and in whatever order, what
`PlanLanes` returns satisfies `IsPlan`, which is what `StreamAssumption` says of every
plan. So the exclusion and the order of `LanesExclude` and `LanesOrder` rest on the
declarations alone.

**`TakeoverProofs`** (assumption `TakeoverAssumption`: the stranger and nobody are no starts).
`TypeCorrect`, `PidFileNamesServer`, `OneInstanceServes`. A start is between its
claim and its end exactly when the lock is its own (`OwnersHoldLock`): every way out
of those states gives the lock up in the same step, forced ends included. So
whoever writes or removes the PID file is the only process whose file it can be, and
whoever begins to serve serves alone, which is `SoleInstance`.

**`ConfigFileProofs`** (assumption `ConfigAssumption`). `TypeCorrect`, `WritersExclude`,
`VerifiedStays`. Two writers have the file open at once only with different locks: one asked
for the named mutex and was refused (`TypeOK`: every writer in the file holds the lock it was
given for this line). A writer nobody races is the only one of its setting, meets no other with
the file open and sees no game (`Histories`); what is owed is in the file, in
the memory of a running game and in every copy that is still to be written; and a
copy agrees with the file on the lines an unraced writer is through with
(`CopiesAgree`). So no text read before the lines were read back is still about
when they are. What is owed is what was read, not the value asked for: a line that failed is
answered for by the last one, and TLC refutes `VerifiedIsWhole` (section 6).

**`UpdateInstallProofs`** (assumption `InstallAssumption`). `NameStays`, `BuildsAreWhole`,
`AnswersStay`, `TypeCorrect`. The argument is the running image: who installs
runs the old build (`InstallersAreOld`), an image is always under the name or beside it
(`ImagesStay`) and cannot be removed, so an install that finds the old build moved
aside already gives up, and at most one is between its renames (`OneBetween`). A
staged file that is not whole has a writer, or nobody relies on it, or a write
failed under another install (`PartIsWatched`). Between the second rename and the answer the
release is under the name and nobody was told; `AnswersStay` says that this is all the difference
there is, for good only where the install was killed there (`untold`).

**`DetectionPageProofs`** (assumption `PageAssumption`). `BusyPairs`, `PageIsCurrent`. A row
that is neither current nor excused has something under way that will correct it: a
request that has yet to read it or has read its last change (`Asking`), the run it
belongs to (`Running`), or a write of its own (`Writing`). Every step that ends one of
these shows the row, hands it to the next or excuses it (`RowsAreSeenTo`); when nothing
is under way no such row is left. The busy mark is a count of a finite set of writes, plus
the run; `PageAssumption` says that the writes are finitely many. `RowsComeToRest`: a row that
waits or turns belongs to a run the server is not through with, or its outcome is on
its way to the page; the end of the stream is delivered after every outcome. `TypeCorrect`
adds that the count of operations never goes below none.

`SizesAreTyped`, `SizesAreCurrent` are about `CleanupSizes` (assumption `CleanupAssumption`). A reading
that is not stored yet is the size or is marked as overtaken (`OldReadings`). An entry
that differs from the size was given by such a reading, or its target was last
changed by a cleanup that failed, or by one that has yet to measure it or to drop it
(`OldEntries`). Every step that stores a reading, drops an entry or ends a claim
keeps this entry by entry (`NextEntry`); a cleanup that changes the target marks every
reading of it that is on its way.

**`AdapterRestartProofs`** (assumption `RestartAssumption`: the flush and nobody are no writes).
`BurstsEndInOne`, `ReadsWait`, `FlushLoads`, `TypeCorrect`. A timer goes through its states once, so
a restart that is over stays over (`Unborn`). A timer that waits is the pending one or
the one the shutdown took, until a restart pops another's entry (`Waits`). While restarts
do not overlap the one under way is the marked one, so a read that waits for the mark
waits for all that ran when it asked (`Reads`). The shutdown's restart exists from the
moment the timer it took is given up, and what it owes was in the registry before it
began (`Flushes`).

*Induction.* The library's induction theorems take a predicate as a parameter, which the
provers cannot instantiate. Where a proof needs induction over numbers (the turns of an order, the
steps of a `Find`, the links joined so far) it takes a set of numbers that has 0 and,
with each number, the next (`UpTo`), or the least number of a set (`Least`).
A recursive function in a `LET` is first shown to be an iteration (`Iterates`).

Only model-checked: the liveness properties, since fairness and `ENABLED` are out of the
prover's reach. They are `ApplyLeavesWait`, `AppliesEndUpMeasured`, `RunsEnd`,
`WritesGetLoaded`, `ReadersGetThrough`, `StartsSettle`, `SpinnersEnd`, `BatchesGoOn`,
`PageGoesIdle`, `WritesEnd`. Every other property of a passing run is a theorem, for
all values of the constants under the assumptions above. The violation of section 6 is TLC's.

## 6. Where the code does not do what it says

The run `takeover_ends_healthy` ends in a counterexample: the instances to ask are
probed for once, before a wait of 20 s. One that held the port and was still
starting is not found, serves by the time the wait is over, and is ended by force,
an apply under way or not, with the reason "owns the lock port and answers no
/health" (`utils/instance_reclaim.py:372`).

Ten more sentences of the repository are stated in the modules and refuted by TLC
with the constants given; they are not among the runs.

| property | constants | the sentence, and what happens |
| --- | --- | --- |
| `MCApplyBench!DirectNeverOverlapsWrite` | one process, `Applies = {a1}`, `Direct = {d1}` | `performance_headroom.py:450`, "the same mutex an apply, a cleanup and a bench share": `measure_now` takes the mutex to keep clear of applies, which hold none, and never reads the counter |
| `MCApplyBench!NoOverlapOnMachine` | as `apply_bench`, a suite in the second process | `benchmark/operation_lock.py:42`, "the one name every mutating or measuring operation takes": the counter belongs to a process, so an apply and a bench of two processes overlap |
| `Ledger!StepHasResult` | `FlakyReads = TRUE`, no faults | `benchmark/ledger.py:224`, "how many of `plan` have their result on disk. Never more than that": a run file that fails to open once is replaced by one with a single result |
| `Ledger!OfferedRunIsOurs` | `ForeignLedger = TRUE` | `benchmark/ledger.py:605`, no ledger means no provenance: opening a job makes the ledger this machine's, and with it the run files of a copied directory |
| `Ledger!EveryOfferIsComplete` | `Requests = {r1}`, no faults | `benchmark/ledger.py:623`, "Unfinished jobs are skipped rather than returned partial": only the job in the ledger is skipped, so the run of a job that was written over half done is offered. `OfferedRunIsComplete` excepts exactly those (`lost`) |
| `Ledger!OpenJobNotOverwritten` | `Requests = {r1}` | `api/routes/benchmark_ledger.py:433`, two open jobs would race: `current_job` and `open_job` are two steps, so one open job is written over another |
| `BulkStream!ConflictsNeverOverlapAcrossRuns` | `Runs = {r1, r2}` | `settings/base.py:751`, "two with one key never overlap": the plan belongs to a request |
| `ConfigFile!EveryLineOrNone` | one writer, one process | `settings/executors/powershell.py:556`, "every one of them gets the value or none of them does": the lines are written one by one, and nothing takes the first back when the second fails |
| `ConfigFile!VerifiedIsWhole` | one writer, one process | `settings/executors/game_config_cache.py:514`, "the concept is only at a value when every key is": of lines that disagree `_agreed` returns the last, so a setting whose first line was not written is answered as applied when its second one was |
| `ConfigFile!ProcessTakesTurns` | two writers of one process | `settings/executors/game_config_writer.py:122`, the fallback is "same process only, which is the exposure bulk apply actually has": Windows is asked for the mutex anew for each line; a writer it refuses and one it does not have the file open at once |

Observed while modelling and kept out of the runs:

- A ledger that fails to open for one tick lets the scheduler open a second baseline on a
  machine that is tuned already (`benchmark/scheduler.py:251`).
- A run measured over several ticks may straddle an apply, in the words of
  `benchmark/scheduler.py:32`.
- A crash between consuming the sentinel and opening the job loses the trigger
  (`benchmark/ledger.py:140`); `AppliesEndUpMeasured` excepts faults for this.
- A bulk run the client stops leaves no sentinel, though its writes were made
  (`api/routes/settings_stream.py:255` returns before `:293`). It is a step of `Ledger`
  (`EndUnmarked`); `AppliesEndUpMeasured` is about the applies that left one, and what a stopped
  one wrote is measured with the next.
- *Takeover.* A start that may not end a process, or finds no owner, fails without
  another look at the port. An unelevated start closes the running instance before
  its elevation may be declined. `stop_when_idle` waits for the operation lock only:
  an apply holds none, its write is let finish by the drain of the requests, and
  a start ends an instance whose write outlasts 70 s, though `api/shutdown.py:17` calls
  cutting a write off the one thing a shutdown must never do.
- *Cleanup.* A scan that began before a cleanup stores the old size over the reading
  taken after it, against `settings/cleanup_measure.py:147`; a cleanup that fails half-way
  leaves the size from before; two scans may start for one row between the look and the
  claim (`settings/executors/powershell.py:121`).
- *Page.* A re-detection that is joined may have read before the write of who joins it,
  against `useApply.ts:162`; the re-reading of a Stop may be over while the server's last
  write still lands; rows a Stop cuts off stay "running" until the next run; `detectAll` says
  it is done even where a category failed; effects on rows outside a run are not read again.
- *Config.* A crash between the temporary file and its replace leaves the temporary file. A
  list of processes that cannot be read lets the write through, deliberately. The
  writers that are PowerShell commands do not expect an abandoned mutex
  (`settings/executors/powershell_actions.py:1576`).
- *Updates.* Nothing keeps two installs of one server apart. With a write that
  fails under another install (a full disk) the part it wrote is moved in as the
  verified release; a kill between the second rename and the answer leaves the release in with
  nobody told; a kill between the renames, or an undoing that fails, leaves nothing under
  the name, only the copies beside it. A start that takes over sweeps while the old
  build still runs, so the copy moved aside stays until the start after it.
- An adapter restart pops whatever waits for its adapter, its successor's entry too. The successor
  then fires uncancelled (two restarts for a burst), their marks overlap, and a
  write next to the exit may go without its restart. The properties of
  `AdapterRestart` say how far the promises hold: up to `robbed` and `overlapped`.

## 7. What the models leave out

- *Time.* The back-off, the tick, quiet and settle times and timeouts: a refused poll is
  `Defer`, a timer may fire and a bounded wait may end at any moment.
- *Data.* What a setting or a bench is, what it reads or writes; a result is the
  generation it was measured in, or one of two reasons why there is none.
- *Ledger.* Files that do not parse and are set aside; the branch for a job without a current
  bench, which `poll_once` never reaches with an open job; the archiving that a page's
  read of `current_job` may cause (the poll and the request have it); each `Offered` uses one read of
  the ledger although the code reads it twice.
- *Stream.* Output lines and progress; the children of a command that is killed.
- *Adapter.* More than one adapter: the dictionaries have independent entries; only a
  scan looks at several.
- *Handshake.* A bench ends with its step; the thread of one that missed its deadline
  (`benchmark/suite.py:381`) goes on beside the next operation, which the code accepts.
- *Takeover.* The development mode, which serves from children; the process tree behind an
  owner; the middleware and the warming of caches at the start.
- *Cleanup.* How a folder is walked, the status `not_installed`, the lengths of the lifetimes: an
  entry that can expire may expire at any look.
- *Page.* The selection, the notifications, the action log, a second category.
- *Config.* The text formats, the search for the file, the writers that are
  PowerShell commands, and settings whose lines lie in two files.
- *Updates.* The network, and a second release while the first is being installed.
- *Setting definitions, driver bindings, the PowerShell runtime.* Most of the source by its
  lines: tables of what each setting reads and writes, foreign interfaces, and a
  sequential runner. They have no state that outlives a call, and a model of
  them would repeat the table.

## 8. Plan

What is left to model, in this order, each small: `RestorePoint` (one lock round the
session's restore point, before the first write), `ProcessWatch` (a stalled child against a
slow one, output that arrives after the outcome), `SuiteDeadline` (the thread a missed deadline
abandons, composed with `ApplyBench`), the poller of the hardware manager.

What is left to prove: of what the runs check, nothing but liveness. Worth proving next are the
sentences of section 6 in the part of their range where they do hold (one process for
`NoOverlapOnMachine`, one run for `ConflictsNeverOverlapAcrossRuns` is `LanesExclude`), a
refinement of `ConfigFile` to a file that changes setting by setting where no writer races, and
the theorems of the modules above.
