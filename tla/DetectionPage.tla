--------------------------- MODULE DetectionPage ---------------------------
(***************************************************************************)
(* The page's copy of the machine. A category scan fills it; a single write *)
(* answers with the row it re-read; a bulk run streams each row's outcome   *)
(* and ends in one re-detection of all its rows, and so does its Stop. No   *)
(* answer carries a version: each overwrites what the page showed. Two      *)
(* re-detections of the same rows share one request.                        *)
(*                                                                         *)
(* A value is left out but for one thing: whether it is still what the     *)
(* machine has. Lanes and slots of the run are BulkStream's; here its rows  *)
(* are written in any order. How a row ended matters only in that a        *)
(* verified one brings its reading; a warning counts as that.              *)
(*                                                                         *)
(* Source: frontend/src/store/detection-manager.ts, store/settings.ts,     *)
(* store/index.ts, hooks/useApply.ts, lib/api.ts,                          *)
(* src/fpstune/api/routes/settings_stream.py, settings.py.                 *)
(***************************************************************************)
EXTENDS Naturals, FiniteSets

CONSTANTS
    Ids,         \* settings, all in one category
    Selections,  \* bound: the selections a bulk run is started on
    Runs,        \* bulk runs started from this page, each once
    Writes,      \* single writes, each once
    NoRun

ASSUME PageAssumption ==
    /\ Selections \subseteq SUBSET Ids \ {{}}
    /\ NoRun \notin Runs /\ IsFiniteSet(Writes)

VARIABLES
    fresh,       \* the rows of the page that show what the machine has
    category,    \* categoryDetectionStatus of the one category
    request,     \* request[q]: the detect request of the rows q
    run,         \* bulkRun
    status,      \* operationStatus; "over": verified, failed or skipped
    busy,        \* busyOperations
    job,         \* job[r][i]: where the server is with row i of run r
    events,      \* what the stream has yet to deliver
    write,       \* write[w]: the page's side of a single write
    served,      \* served[w]: the server's side of it
    excused,     \* history: rows left behind in a way the code accepts
    stopped      \* history: rows a Stop left at "running"

pageVars == <<fresh, category, run, status, busy, write>>
serverVars == <<job, events, served>>
vars == <<pageVars, request, serverVars, excused, stopped>>

NoRequest == [at |-> "none", fresh |-> {}]
NoWrite == [id |-> {}, at |-> "none"]
NotServed == [at |-> "none", fresh |-> {}, ok |-> FALSE]

(* redetectSettings asks nothing of no rows; that key is the scan's.       *)
Requests == SUBSET Ids
Scan == {}
Asked(q) == IF q = Scan THEN Ids ELSE q

(* detectAll has sent its request of the category.                         *)
Init ==
    /\ fresh = {} /\ category = "loading"
    /\ request = [q \in Requests |-> IF q = Scan THEN [at |-> "sent", fresh |-> {}] ELSE NoRequest]
    /\ run = NoRun /\ status = [i \in Ids |-> "none"] /\ busy = 0
    /\ job = [r \in Runs |-> [i \in Ids |-> "none"]] /\ events = {}
    /\ write = [w \in Writes |-> NoWrite] /\ served = [w \in Writes |-> NotServed]
    /\ excused = {} /\ stopped = {}

RowsOf(r) == {i \in Ids : job[r][i] # "none"}

-----------------------------------------------------------------------------
(* Writing into the store, and asking again.                               *)

(* finalizeDetection: the answer K, current on `good`, overwrites. A row   *)
(* that had the machine's value and is given an older one is excused.      *)
Shown(K, good) ==
    /\ fresh' = (fresh \ K) \cup (K \cap good)
    /\ excused' = (excused \ (K \cap good)) \cup ((K \ good) \cap fresh)

(* redetectSettings: a request of the same rows that is under way is       *)
(* shared, though it may have read them already.                           *)
Redetect(q) ==
    IF request[q].at = "none"
    THEN /\ request' = [request EXCEPT ![q].at = "sent"]
         /\ UNCHANGED excused
    ELSE /\ excused' = IF request[q].at = "read" THEN excused \cup (q \ request[q].fresh) ELSE excused
         /\ UNCHANGED request

(* The server's detection of the request's rows.                           *)
Detect(q) ==
    /\ request[q].at = "sent"
    /\ request' = [request EXCEPT ![q] = [at |-> "read", fresh |-> Asked(q)]]
    /\ UNCHANGED <<pageVars, serverVars, excused, stopped>>

\* Mutant: the shared promise never settles.
ResumeNobody(q) == UNCHANGED <<write, busy>>

(* Who awaited the request goes on: its single write ends.                 *)
Resume(q) ==
    LET waiting == {w \in Writes : write[w].at = "rereading" /\ write[w].id = q}
    IN  /\ write' = [w \in Writes |->
                        IF w \in waiting THEN [write[w] EXCEPT !.at = "ended"] ELSE write[w]]
        /\ busy' = busy - Cardinality(waiting)

(* _doRedetectSettings, detectAll: the answer, or its failure, logged. One *)
(* lost before it was read is one lost after.                              *)
Answer(q) ==
    /\ request[q].at = "read"
    /\ Shown(Asked(q), request[q].fresh)
    /\ category' = IF q = Scan THEN "done" ELSE category
    /\ Resume(q)
    /\ request' = [request EXCEPT ![q] = NoRequest]
    /\ UNCHANGED <<run, status, serverVars, stopped>>

AnswerLost(q) ==
    /\ request[q].at = "read"
    /\ excused' = excused \cup (Asked(q) \ fresh)
    /\ category' = IF q = Scan THEN "error" ELSE category
    /\ Resume(q)
    /\ request' = [request EXCEPT ![q] = NoRequest]
    /\ UNCHANGED <<fresh, run, status, serverVars, stopped>>

(* The machine changes on K: nothing read before is current any more.      *)
Changed(K) ==
    /\ fresh' = fresh \ K
    /\ request' = [q \in Requests |-> [request[q] EXCEPT !.fresh = @ \ K]]

-----------------------------------------------------------------------------
(* useApply.run, stop, and the stream between them.                        *)

StartRun(r, K) ==
    /\ run = NoRun
    /\ RowsOf(r) = {}
    /\ run' = r
    /\ status' = [i \in Ids |-> IF i \in K THEN "queued" ELSE "none"]
    /\ stopped' = {}
    /\ busy' = busy + 1
    /\ job' = [job EXCEPT ![r] = [i \in Ids |-> IF i \in K THEN "todo" ELSE "none"]]
    /\ UNCHANGED <<fresh, category, request, events, write, served, excused>>

(* What a run nobody listens to sends is gone.                             *)
Send(r, e) == events' = IF run = r THEN events \cup {e} ELSE events

(* _process_one: the row starts; after a Stop, until the server hears it.  *)
ServeRow(r, i) ==
    /\ job[r][i] = "todo"
    /\ job' = [job EXCEPT ![r][i] = "writing"]
    /\ Send(r, [kind |-> "started", id |-> i, fresh |-> {}])
    /\ UNCHANGED <<pageVars, request, served, excused, stopped>>

(* Its command changes it, all or in part, and maybe rows written beside   *)
(* it, or nothing. A run nobody listens to is read again by no one.        *)
WriteRow(r, i) ==
    /\ job[r][i] = "writing"
    /\ job' = [job EXCEPT ![r][i] = "written"]
    /\ \E K \in SUBSET RowsOf(r) :
        /\ i \in K \/ K = {}
        /\ Changed(K)
        /\ events' = {[e EXCEPT !.fresh = @ \ K] : e \in events}
        /\ served' = [w \in Writes |-> [served[w] EXCEPT !.fresh = @ \ K]]
        /\ excused' = IF run = r THEN excused ELSE excused \cup K
    /\ UNCHANGED <<category, run, status, busy, write, stopped>>

(* _outcome_events: verified with the row's reading, or failed. Verified    *)
(* with none changes the page as failed does, but for the mark.            *)
AnswerRow(r, i) ==
    /\ job[r][i] = "written"
    /\ job' = [job EXCEPT ![r][i] = "done"]
    /\ \E kind \in {"verified", "failed"} :
        Send(r, [kind |-> kind, id |-> i, fresh |-> {i}])
    /\ UNCHANGED <<pageVars, request, served, excused, stopped>>

(* The server's generator is closed: rows that wait are not written.       *)
Disconnect(r) ==
    /\ run # r
    /\ \E i \in Ids : job[r][i] = "todo"
    /\ job' = [job EXCEPT ![r] = [i \in Ids |-> IF @[i] = "todo" THEN "done" ELSE @[i]]]
    /\ UNCHANGED <<pageVars, request, events, served, excused, stopped>>

(* onEvent, a row's events in their order.                                 *)
Event(e) ==
    /\ e \in events
    /\ e.kind = "started" \/ [kind |-> "started", id |-> e.id, fresh |-> {}] \notin events
    /\ events' = events \ {e}
    /\ status' = [status EXCEPT ![e.id] =
                                    IF e.kind = "started" THEN "running" ELSE "over"]
    /\ IF e.kind = "verified" THEN Shown({e.id}, e.fresh) ELSE UNCHANGED <<fresh, excused>>
    /\ UNCHANGED <<category, run, busy, write, request, job, served, stopped>>

(* finish: the run is over, and every row of it is read again.             *)
Finish ==
    /\ Redetect(RowsOf(run))
    /\ run' = NoRun
    /\ busy' = busy - 1

StreamDone ==
    /\ run # NoRun
    /\ \A i \in RowsOf(run) : job[run][i] = "done"
    /\ events = {}
    /\ Finish
    /\ UNCHANGED <<fresh, category, status, write, serverVars, stopped>>

\* Mutant: only the rows that never started failed.
StreamDiesQueuedOnly ==
    /\ run # NoRun
    /\ status' = [i \in Ids |-> IF status[i] = "queued" THEN "over" ELSE status[i]]
    /\ events' = {}
    /\ Finish
    /\ UNCHANGED <<fresh, category, write, job, served, stopped>>

(* onError: what the stream had not reached failed.                        *)
StreamDies ==
    /\ run # NoRun
    /\ status' = [i \in Ids |->
                    IF status[i] \in {"queued", "running"} THEN "over" ELSE status[i]]
    /\ events' = {}
    /\ Finish
    /\ UNCHANGED <<fresh, category, write, job, served, stopped>>

\* Mutant: a Stop reads nothing again.
StopWithoutReading ==
    /\ run # NoRun
    /\ status' = [i \in Ids |-> IF status[i] = "queued" THEN "over" ELSE status[i]]
    /\ stopped' = {i \in Ids : status[i] = "running"}
    /\ events' = {}
    /\ run' = NoRun /\ busy' = busy - 1
    /\ UNCHANGED <<fresh, category, request, write, job, served, excused>>

(* stop: rows keep where they got to, and are read again at once.          *)
Stop ==
    /\ run # NoRun
    /\ status' = [i \in Ids |-> IF status[i] = "queued" THEN "over" ELSE status[i]]
    /\ stopped' = {i \in Ids : status[i] = "running"}
    /\ events' = {}
    /\ Finish
    /\ UNCHANGED <<fresh, category, write, job, served>>

-----------------------------------------------------------------------------
(* useApply.write: one row.                                                *)

StartWrite(w, i) ==
    /\ write[w].at = "none"
    /\ write' = [write EXCEPT ![w] = [id |-> {i}, at |-> "sent"]]
    /\ served' = [served EXCEPT ![w].at = "sent"]
    /\ busy' = busy + 1
    /\ UNCHANGED <<fresh, category, run, status, request, job, events, excused, stopped>>

(* The command, and the re-detection that answers the request.             *)
ServeWrite(w) ==
    LET K == write[w].id
    IN  /\ served[w].at = "sent"
        /\ Changed(K)
        /\ events' = {[e EXCEPT !.fresh = @ \ K] : e \in events}
        /\ \E ok \in BOOLEAN :
            served' = [v \in Writes |->
                IF v = w THEN [at |-> "read", fresh |-> K, ok |-> ok]
                ELSE [served[v] EXCEPT !.fresh = @ \ K]]
        /\ excused' = IF write[w].at = "sent" THEN excused ELSE excused \cup K
        /\ UNCHANGED <<category, run, status, busy, write, job, stopped>>

(* The answer carries the row, and the write is over.                      *)
WriteAnswered(w) ==
    /\ served[w].at = "read" /\ served[w].ok
    /\ write[w].at = "sent"
    /\ Shown(write[w].id, served[w].fresh)
    /\ write' = [write EXCEPT ![w].at = "ended"]
    /\ busy' = busy - 1
    /\ UNCHANGED <<category, run, status, request, serverVars, stopped>>

\* Mutant: the write ends where its re-detection begins.
WriteFailedEnded(w) ==
    /\ write[w].at = "sent"
    /\ Redetect(write[w].id)
    /\ write' = [write EXCEPT ![w].at = "rereading"]
    /\ busy' = busy - 1
    /\ UNCHANGED <<fresh, category, run, status, serverVars, stopped>>

(* It failed, answered with no row, or was lost on its way: the row is     *)
(* read again, and the write is over when that is.                         *)
WriteFailed(w) ==
    /\ write[w].at = "sent"
    /\ Redetect(write[w].id)
    /\ write' = [write EXCEPT ![w].at = "rereading"]
    /\ UNCHANGED <<fresh, category, run, status, busy, serverVars, stopped>>

-----------------------------------------------------------------------------
Request(q) == Detect(q) \/ Answer(q) \/ AnswerLost(q)

Serve(r) ==
    \/ \E i \in Ids : ServeRow(r, i) \/ WriteRow(r, i) \/ AnswerRow(r, i)
    \/ Disconnect(r)

Next ==
    \/ \E q \in Requests : Request(q)
    \/ \E r \in Runs : Serve(r) \/ \E K \in Selections : StartRun(r, K)
    \/ \E e \in events : Event(e)
    \/ StreamDone \/ StreamDies \/ Stop
    \/ \E w \in Writes :
        \/ ServeWrite(w) \/ WriteAnswered(w) \/ WriteFailed(w)
        \/ \E i \in Ids : StartWrite(w, i)

Spec == Init /\ [][Next]_vars

(* Requests end, and so does a stream: by its last event or by its death.  *)
Fairness ==
    /\ \A q \in Requests : WF_vars(Request(q))
    /\ \A r \in Runs : WF_vars(Serve(r))
    /\ WF_vars(\E e \in events : Event(e))
    /\ WF_vars(StreamDone)
    /\ \A w \in Writes : WF_vars(ServeWrite(w)) /\ WF_vars(WriteAnswered(w) \/ WriteFailed(w))

FairSpec == Spec /\ Fairness

-----------------------------------------------------------------------------
(* Properties.                                                             *)

Kinds == {"started", "verified", "failed"}

TypeOK ==
    /\ fresh \subseteq Ids /\ excused \subseteq Ids /\ stopped \subseteq Ids
    /\ category \in {"loading", "done", "error"}
    /\ request \in [Requests -> [at : {"none", "sent", "read"}, fresh : SUBSET Ids]]
    /\ \A q \in Requests : request[q].fresh \subseteq Asked(q)
    /\ run \in Runs \cup {NoRun} /\ busy \in Nat
    /\ status \in [Ids -> {"none", "queued", "running", "over"}]
    /\ job \in [Runs -> [Ids -> {"none", "todo", "writing", "written", "done"}]]
    /\ events \subseteq [kind : Kinds, id : Ids, fresh : SUBSET Ids]
    /\ write \in [Writes -> [id : SUBSET Ids, at : {"none", "sent", "rereading", "ended"}]]
    /\ served \in [Writes -> [at : {"none", "sent", "read"}, fresh : SUBSET Ids, ok : BOOLEAN]]

(* When everything the page asked for has come back, every row shows what  *)
(* the machine has. It does not in four cases, all of them accepted by the *)
(* code: an older answer came last; a re-detection was shared that had     *)
(* read before the write; a request was lost; the server wrote for a page  *)
(* that no longer listened (useApply.ts, finish and stop).                 *)
Quiet == run = NoRun /\ busy = 0 /\ \A q \in Requests : request[q].at = "none"

PageCatchesUp == Quiet => Ids \subseteq fresh \cup excused

(* The hardware re-read on window focus is off exactly while the page      *)
(* changes the machine: begins and ends pair up through Stop, a dead        *)
(* stream and a failed write (store/index.ts, endOperation).               *)
BusyIsBalanced ==
    busy = Cardinality({w \in Writes : write[w].at \in {"sent", "rereading"}})
           + IF run = NoRun THEN 0 ELSE 1

(* Outside a run no row waits or turns, but for those its Stop cut off     *)
(* (useApply.ts, run and stop).                                            *)
RowsSettle ==
    \A i \in Ids : status[i] \in {"queued", "running"} => run # NoRun \/ i \in stopped

(* The page is not busy for the rest of the session, however a stream      *)
(* ends (lib/api.ts, postEventStream).                                     *)
PageGoesIdle == busy > 0 ~> busy = 0
=============================================================================
