------------------------- MODULE DetectionPageProofs ------------------------
(***************************************************************************)
(* What DetectionPage promises, for any rows, selections, runs and writes: *)
(* begins and ends of work pair up, the rows of a run come to rest, and no *)
(* row is left behind but in the ways the code accepts; and, at the end,   *)
(* that the sizes its cleanup rows show (CleanupSizes) are old only where  *)
(* a reading was overtaken.                                                *)
(*                                                                         *)
(* The argument. A row that does not show what the machine has, and is not *)
(* excused, has something under way that will correct it: a request that   *)
(* has yet to read it or has read its last change, the run it belongs to,  *)
(* or a write of its own. Every step that ends one of these shows the row, *)
(* hands it to the next, or excuses it. When nothing is under way, no such *)
(* row is left.                                                            *)
(***************************************************************************)
EXTENDS DetectionPage, CleanupSizes, FiniteSetTheorems, TLAPS

(* What will correct a row.                                                *)
Asking(i) ==
    \E q \in Requests : /\ i \in Asked(q)
                        /\ \/ request[q].at = "sent"
                           \/ request[q].at = "read" /\ i \in request[q].fresh
Running(i) == run # NoRun /\ i \in RowsOf(run)
Writing(i) ==
    \E w \in Writes : /\ write[w].at = "sent" /\ i \in write[w].id
                      /\ served[w].at = "sent" \/ i \in served[w].fresh

RowsAreSeenTo ==
    \A i \in Ids : i \in fresh \cup excused \/ Asking(i) \/ Running(i) \/ Writing(i)

UnderWay == {w \in Writes : write[w].at \in {"sent", "rereading"}}


-----------------------------------------------------------------------------
(* Types, one group of variables at a time.                                *)

RequestOK ==
    /\ request \in [Requests -> [at : {"none", "sent", "read"}, fresh : SUBSET Ids]]
    /\ \A q \in Requests : request[q].fresh \subseteq Asked(q)

WriteOK == write \in [Writes -> [id : SUBSET Ids, at : {"none", "sent", "rereading", "ended"}]]
ServedOK ==
    served \in [Writes -> [at : {"none", "sent", "read"}, fresh : SUBSET Ids, ok : BOOLEAN]]
JobOK == job \in [Runs -> [Ids -> {"none", "todo", "writing", "written", "done"}]]
Types == RequestOK /\ WriteOK /\ ServedOK /\ JobOK /\ run \in Runs \cup {NoRun}

LEMMA AskedIsIds == \A q \in Requests : Asked(q) \subseteq Ids
BY DEF Requests, Asked

LEMMA RedetectKeepsRequests ==
    ASSUME RequestOK, NEW q \in Requests, Redetect(q) PROVE RequestOK'
BY DEF RequestOK, Redetect

LEMMA ChangedKeepsRequests ==
    ASSUME RequestOK, NEW K, Changed(K) PROVE RequestOK'
BY DEF RequestOK, Changed

LEMMA RowsAreRequests ==
    ASSUME NEW r PROVE RowsOf(r) \in Requests
BY DEF RowsOf, Requests

LEMMA StepKeepsRequests == RequestOK /\ WriteOK /\ [Next]_vars => RequestOK'
<1> SUFFICES ASSUME RequestOK, WriteOK, [Next]_vars PROVE RequestOK'
  OBVIOUS
<1>1. ASSUME NEW q \in Requests, Request(q) PROVE RequestOK'
  BY <1>1, AskedIsIds DEF Request, Detect, Answer, AnswerLost, NoRequest, RequestOK
<1>2. ASSUME NEW r \in Runs, Serve(r) PROVE RequestOK'
  <2>1. CASE \E i \in Ids : WriteRow(r, i)
    BY <2>1, ChangedKeepsRequests DEF WriteRow
  <2>2. CASE request' = request
    BY <2>2 DEF RequestOK
  <2> QED
    BY <1>2, <2>1, <2>2 DEF Serve, ServeRow, AnswerRow, Disconnect
<1>3. CASE StreamDone \/ StreamDies \/ Stop
  BY <1>3, RedetectKeepsRequests, RowsAreRequests DEF StreamDone, StreamDies, Stop, Finish
<1>4. ASSUME NEW w \in Writes, ServeWrite(w) PROVE RequestOK'
  BY <1>4, ChangedKeepsRequests DEF ServeWrite
<1>5. ASSUME NEW w \in Writes, WriteFailed(w) PROVE RequestOK'
  <2>1. write[w].id \in Requests
    BY DEF WriteOK, Requests
  <2> QED
    BY <1>5, <2>1, RedetectKeepsRequests DEF WriteFailed
<1>6. CASE request' = request
  BY <1>6 DEF RequestOK
<1> QED
  BY <1>1, <1>2, <1>3, <1>4, <1>5, <1>6
     DEF Next, StartRun, Event, WriteAnswered, StartWrite, vars

LEMMA StepKeepsWrites == WriteOK /\ [Next]_vars => WriteOK'
<1> SUFFICES ASSUME WriteOK, [Next]_vars PROVE WriteOK'
  OBVIOUS
<1> USE DEF WriteOK
<1>1. ASSUME NEW q \in Requests, Answer(q) \/ AnswerLost(q) PROVE WriteOK'
  BY <1>1 DEF Answer, AnswerLost, Resume
<1>2. ASSUME NEW w \in Writes, NEW i \in Ids, StartWrite(w, i) PROVE WriteOK'
  BY <1>2 DEF StartWrite
<1>3. ASSUME NEW w \in Writes, WriteAnswered(w) \/ WriteFailed(w) PROVE WriteOK'
  BY <1>3 DEF WriteAnswered, WriteFailed
<1>4. CASE write' = write
  BY <1>4
<1> QED
  BY <1>1, <1>2, <1>3, <1>4
     DEF Next, Request, Detect, Serve, ServeRow, WriteRow, AnswerRow, Disconnect, StartRun,
         Event, StreamDone, StreamDies, Stop, ServeWrite, vars, pageVars

LEMMA StepKeepsServed == ServedOK /\ WriteOK /\ [Next]_vars => ServedOK'
<1> SUFFICES ASSUME ServedOK, WriteOK, [Next]_vars PROVE ServedOK'
  OBVIOUS
<1> USE DEF ServedOK
<1>1. ASSUME NEW r \in Runs, NEW i \in Ids, WriteRow(r, i) PROVE ServedOK'
  <2>1. PICK K \in SUBSET Ids :
          served' = [w \in Writes |-> [served[w] EXCEPT !.fresh = @ \ K]]
    BY <1>1 DEF WriteRow, RowsOf
  <2> QED
    BY <2>1
<1>2. ASSUME NEW w \in Writes, NEW i \in Ids, StartWrite(w, i) PROVE ServedOK'
  BY <1>2 DEF StartWrite
<1>3. ASSUME NEW w \in Writes, ServeWrite(w) PROVE ServedOK'
  <2>1. write[w].id \in SUBSET Ids
    BY DEF WriteOK
  <2> QED
    BY <1>3, <2>1 DEF ServeWrite
<1>4. CASE served' = served
  BY <1>4
<1> QED
  BY <1>1, <1>2, <1>3, <1>4
     DEF Next, Request, Detect, Answer, AnswerLost, Serve, ServeRow, AnswerRow, Disconnect,
         StartRun, Event, StreamDone, StreamDies, Stop, WriteAnswered, WriteFailed,
         vars, serverVars

LEMMA StepKeepsJobs == JobOK /\ [Next]_vars => JobOK'
<1> SUFFICES ASSUME JobOK, [Next]_vars PROVE JobOK'
  OBVIOUS
<1> USE DEF JobOK
<1>1. ASSUME NEW r \in Runs, Serve(r) PROVE JobOK'
  <2>1. ASSUME NEW i \in Ids, ServeRow(r, i) \/ WriteRow(r, i) \/ AnswerRow(r, i) PROVE JobOK'
    BY <2>1 DEF ServeRow, WriteRow, AnswerRow
  <2>2. CASE Disconnect(r)
    BY <2>2 DEF Disconnect
  <2> QED
    BY <1>1, <2>1, <2>2 DEF Serve
<1>2. ASSUME NEW r \in Runs, NEW K \in Selections, StartRun(r, K) PROVE JobOK'
  BY <1>2 DEF StartRun
<1>3. CASE job' = job
  BY <1>3
<1> QED
  BY <1>1, <1>2, <1>3
     DEF Next, Request, Detect, Answer, AnswerLost, Event, StreamDone, StreamDies, Stop,
         StartWrite, ServeWrite, WriteAnswered, WriteFailed, vars, serverVars

LEMMA StepKeepsTypes == Types /\ [Next]_vars => Types'
<1> SUFFICES ASSUME Types, [Next]_vars PROVE Types'
  OBVIOUS
<1>1. run' \in Runs \cup {NoRun}
  BY DEF Types, Next, Request, Detect, Answer, AnswerLost, Serve, ServeRow, WriteRow, AnswerRow,
         Disconnect, StartRun, Event, StreamDone, StreamDies, Stop, Finish, StartWrite,
         ServeWrite, WriteAnswered, WriteFailed, vars, pageVars
<1> QED
  BY <1>1, StepKeepsRequests, StepKeepsWrites, StepKeepsServed, StepKeepsJobs DEF Types

-----------------------------------------------------------------------------
(* The busy mark.                                                          *)

BusyCounts == busy = Cardinality(UnderWay) + IF run = NoRun THEN 0 ELSE 1

LEMMA UnderWayIsFinite == IsFiniteSet(UnderWay) /\ IsFiniteSet(UnderWay')
BY PageAssumption, FS_Subset DEF UnderWay

LEMMA StepKeepsBusy ==
    ASSUME WriteOK, run \in Runs \cup {NoRun}, BusyCounts, [Next]_vars
    PROVE  BusyCounts'
<1> USE DEF WriteOK
<1> DEFINE n == Cardinality(UnderWay)
<1>0. n \in Nat
  BY UnderWayIsFinite, FS_CardinalityType
<1>1. ASSUME NEW q \in Requests, Answer(q) \/ AnswerLost(q) PROVE BusyCounts'
  <2> DEFINE waiting == {w \in Writes : write[w].at = "rereading" /\ write[w].id = q}
  <2>1. UnderWay' = UnderWay \ waiting /\ waiting \subseteq UnderWay
    BY <1>1 DEF Answer, AnswerLost, Resume, UnderWay
  <2>2. Cardinality(UnderWay') = n - Cardinality(waiting)
    <3>1. UnderWay \cap waiting = waiting
      BY <2>1
    <3>2. Cardinality(UnderWay \ waiting) = n - Cardinality(UnderWay \cap waiting)
      <4> HIDE DEF waiting
      <4> QED
        BY UnderWayIsFinite, FS_Difference
    <3> QED
      BY <2>1, <3>1, <3>2
  <2>3. Cardinality(waiting) \in Nat
    BY <2>1, UnderWayIsFinite, FS_Subset, FS_CardinalityType
  <2>4. busy' = busy - Cardinality(waiting) /\ run' = run
    BY <1>1 DEF Answer, AnswerLost, Resume
  <2> QED
    BY <1>0, <2>2, <2>3, <2>4 DEF BusyCounts
<1>2. ASSUME NEW w \in Writes, NEW i \in Ids, StartWrite(w, i) PROVE BusyCounts'
  <2>1. UnderWay' = UnderWay \cup {w} /\ w \notin UnderWay
    BY <1>2 DEF StartWrite, UnderWay
  <2>2. Cardinality(UnderWay') = n + 1
    BY <2>1, UnderWayIsFinite, FS_AddElement
  <2> QED
    BY <1>0, <1>2, <2>2 DEF StartWrite, BusyCounts
<1>3. ASSUME NEW w \in Writes, WriteAnswered(w) PROVE BusyCounts'
  <2>1. UnderWay' = UnderWay \ {w} /\ w \in UnderWay
    BY <1>3 DEF WriteAnswered, UnderWay
  <2>2. Cardinality(UnderWay') = n - 1
    BY <2>1, UnderWayIsFinite, FS_RemoveElement
  <2> QED
    BY <1>0, <1>3, <2>2 DEF WriteAnswered, BusyCounts
<1>4. ASSUME NEW w \in Writes, WriteFailed(w) PROVE BusyCounts'
  <2>1. UnderWay' = UnderWay
    BY <1>4 DEF WriteFailed, UnderWay
  <2> QED
    BY <1>4, <2>1 DEF WriteFailed, BusyCounts
<1>5. ASSUME write' = write PROVE UnderWay' = UnderWay
  BY <1>5 DEF UnderWay
<1>6. ASSUME NEW r \in Runs, NEW K \in Selections, StartRun(r, K) PROVE BusyCounts'
  <2>1. run' # NoRun
    BY <1>6, PageAssumption DEF StartRun
  <2> QED
    BY <1>0, <1>5, <1>6, <2>1 DEF StartRun, BusyCounts
<1>7. CASE StreamDone \/ StreamDies \/ Stop
  BY <1>0, <1>5, <1>7 DEF StreamDone, StreamDies, Stop, Finish, BusyCounts
<1>8. ASSUME UNCHANGED <<write, busy, run>> PROVE BusyCounts'
  BY <1>5, <1>8 DEF BusyCounts
<1> QED
  BY <1>1, <1>2, <1>3, <1>4, <1>6, <1>7, <1>8
     DEF Next, Request, Detect, Serve, ServeRow, WriteRow, AnswerRow, Disconnect,
         Event, ServeWrite, vars, pageVars

-----------------------------------------------------------------------------
(* The rows.                                                               *)

(* Asking again gives every row of the request to it, or excuses it.       *)
LEMMA RedetectSeesTo ==
    ASSUME RequestOK, NEW q \in Requests, q # Scan, Redetect(q)
    PROVE  /\ \A i \in q : Asking(i)' \/ i \in excused'
           /\ \A i \in Ids : Asking(i) => Asking(i)'
           /\ excused \subseteq excused'
<1> USE DEF RequestOK, Redetect, Asking, Asked
<1>1. excused \subseteq excused'
  OBVIOUS
<1>2. ASSUME NEW i \in Ids, Asking(i) PROVE Asking(i)'
  BY <1>2
<1>3. ASSUME NEW i \in q PROVE Asking(i)' \/ i \in excused'
  <2>1. CASE request[q].at = "none"
    BY <2>1, <1>3
  <2>2. CASE request[q].at = "sent"
    BY <2>2, <1>3
  <2>3. CASE request[q].at = "read"
    BY <2>3, <1>3
  <2> QED
    BY <2>1, <2>2, <2>3
<1> QED
  BY <1>1, <1>2, <1>3

(* An answer shows its rows, or leaves them to what sees to them.          *)
LEMMA ShownKeeps ==
    ASSUME NEW K, NEW good, Shown(K, good), NEW i
    PROVE  /\ i \in fresh \cup excused => i \in fresh' \cup excused'
           /\ i \in K \cap good => i \in fresh'
BY DEF Shown

(* A change takes its own rows away from everything, and no others.        *)
LEMMA ChangedKeeps ==
    ASSUME RequestOK, NEW K, Changed(K), NEW i \in Ids \ K
    PROVE  /\ i \in fresh => i \in fresh'
           /\ Asking(i) => Asking(i)'
BY DEF RequestOK, Changed, Asking

LEMMA RequestKeepsRows ==
    ASSUME Types, RowsAreSeenTo, NEW q \in Requests, Request(q)
    PROVE  RowsAreSeenTo'
<1> USE DEF Types, RowsAreSeenTo, Request
<1> SUFFICES ASSUME NEW i \in Ids
             PROVE  i \in fresh' \cup excused' \/ Asking(i)' \/ Running(i)' \/ Writing(i)'
  OBVIOUS
<1>1. CASE Detect(q)
  BY <1>1 DEF Detect, RequestOK, Asking, Running, RowsOf, Writing, pageVars, serverVars
<1>2. CASE Answer(q)
  <2>1. Running(i) => Running(i)'
    BY <1>2 DEF Answer, Running, RowsOf, serverVars
  <2>2. Writing(i) => Writing(i)'
    BY <1>2 DEF Answer, Resume, Writing, WriteOK, serverVars
  <2>3. Asking(i) => Asking(i)' \/ i \in fresh'
    BY <1>2 DEF Answer, Shown, Asking, RequestOK, NoRequest
  <2> QED
    BY <1>2, <2>1, <2>2, <2>3, ShownKeeps DEF Answer
<1>3. CASE AnswerLost(q)
  <2>1. Running(i) => Running(i)'
    BY <1>3 DEF AnswerLost, Running, RowsOf, serverVars
  <2>2. Writing(i) => Writing(i)'
    BY <1>3 DEF AnswerLost, Resume, Writing, WriteOK, serverVars
  <2>3. Asking(i) => Asking(i)' \/ i \in fresh' \cup excused'
    BY <1>3 DEF AnswerLost, Asking, RequestOK, NoRequest
  <2> QED
    BY <1>3, <2>1, <2>2, <2>3 DEF AnswerLost
<1> QED
  BY <1>1, <1>2, <1>3

LEMMA RunKeepsRows ==
    ASSUME Types, RowsAreSeenTo, NEW r \in Runs, Serve(r) \/ \E K \in Selections : StartRun(r, K)
    PROVE  RowsAreSeenTo'
<1> USE DEF Types, RowsAreSeenTo
<1> SUFFICES ASSUME NEW i \in Ids
             PROVE  i \in fresh' \cup excused' \/ Asking(i)' \/ Running(i)' \/ Writing(i)'
  OBVIOUS
<1>1. ASSUME NEW j \in Ids, ServeRow(r, j) \/ AnswerRow(r, j) \/ WriteRow(r, j)
      PROVE  Running(i) => Running(i)'
  BY <1>1 DEF ServeRow, AnswerRow, WriteRow, Running, RowsOf, JobOK, pageVars
<1>2. ASSUME Disconnect(r) PROVE Running(i) => Running(i)'
  BY <1>2 DEF Disconnect, Running, RowsOf, JobOK, pageVars
<1>3. ASSUME UNCHANGED <<request, write, served>> PROVE (Asking(i) => Asking(i)') /\ (Writing(i) => Writing(i)')
  BY <1>3 DEF Asking, Writing
<1>4. ASSUME NEW j \in Ids, ServeRow(r, j) \/ AnswerRow(r, j)
      PROVE  i \in fresh' \cup excused' \/ Asking(i)' \/ Running(i)' \/ Writing(i)'
  BY <1>1, <1>3, <1>4 DEF ServeRow, AnswerRow, pageVars
<1>5. ASSUME NEW j \in Ids, WriteRow(r, j)
      PROVE  i \in fresh' \cup excused' \/ Asking(i)' \/ Running(i)' \/ Writing(i)'
  <2>1. PICK K \in SUBSET RowsOf(r) :
          /\ Changed(K)
          /\ served' = [w \in Writes |-> [served[w] EXCEPT !.fresh = @ \ K]]
          /\ excused' = IF run = r THEN excused ELSE excused \cup K
    BY <1>5 DEF WriteRow
  <2>2. CASE i \in K
    <3>1. CASE run = r
      <4>1. Running(i)
        BY <2>1, <2>2, <3>1, PageAssumption DEF Running
      <4> QED
        BY <1>1, <1>5, <4>1
    <3> QED
      BY <2>1, <2>2, <3>1
  <2>3. CASE i \notin K
    <3>1. Writing(i) => Writing(i)'
      BY <1>5, <2>1, <2>3 DEF WriteRow, Writing, ServedOK
    <3> QED
      BY <1>1, <1>5, <2>1, <2>3, <3>1, ChangedKeeps
  <2> QED
    BY <2>2, <2>3
<1>6. ASSUME NEW K \in Selections, StartRun(r, K)
      PROVE  i \in fresh' \cup excused' \/ Asking(i)' \/ Running(i)' \/ Writing(i)'
  BY <1>3, <1>6 DEF StartRun, Running
<1>7. ASSUME Disconnect(r)
      PROVE  i \in fresh' \cup excused' \/ Asking(i)' \/ Running(i)' \/ Writing(i)'
  BY <1>2, <1>3, <1>7 DEF Disconnect, pageVars
<1> QED
  BY <1>4, <1>5, <1>6, <1>7 DEF Serve

LEMMA StreamKeepsRows ==
    ASSUME Types, RowsAreSeenTo, StreamDone \/ StreamDies \/ Stop \/ \E e \in events : Event(e)
    PROVE  RowsAreSeenTo'
<1> USE DEF Types, RowsAreSeenTo
<1> SUFFICES ASSUME NEW i \in Ids
             PROVE  i \in fresh' \cup excused' \/ Asking(i)' \/ Running(i)' \/ Writing(i)'
  OBVIOUS
<1>1. ASSUME UNCHANGED <<write, served>> PROVE Writing(i) => Writing(i)'
  BY <1>1 DEF Writing
<1>2. CASE StreamDone \/ StreamDies \/ Stop
  <2>1. /\ Redetect(RowsOf(run)) /\ UNCHANGED <<fresh, write, served>>
    BY <1>2 DEF StreamDone, StreamDies, Stop, Finish, serverVars
  <2>2. CASE RowsOf(run) = Scan
    <3>1. ~Running(i)
      BY <2>2 DEF Running, Scan
    <3>2. (Asking(i) => Asking(i)') /\ excused \subseteq excused'
      BY <2>1, RowsAreRequests DEF Redetect, Asking, RequestOK
    <3> QED
      BY <1>1, <2>1, <3>1, <3>2
  <2>3. CASE RowsOf(run) # Scan
    <3>1. /\ \A j \in RowsOf(run) : Asking(j)' \/ j \in excused'
          /\ Asking(i) => Asking(i)'
          /\ excused \subseteq excused'
      BY <2>1, <2>3, RedetectSeesTo, RowsAreRequests
    <3> QED
      BY <1>1, <2>1, <3>1 DEF Running
  <2> QED
    BY <2>2, <2>3
<1>3. ASSUME NEW e \in events, Event(e)
      PROVE  i \in fresh' \cup excused' \/ Asking(i)' \/ Running(i)' \/ Writing(i)'
  <2>1. UNCHANGED <<request, run, job, write, served>>
    BY <1>3 DEF Event
  <2>2. (Asking(i) => Asking(i)') /\ (Running(i) => Running(i)')
    BY <2>1 DEF Asking, Running, RowsOf
  <2>3. i \in fresh \cup excused => i \in fresh' \cup excused'
    BY <1>3, ShownKeeps DEF Event
  <2> QED
    BY <1>1, <2>1, <2>2, <2>3
<1> QED
  BY <1>2, <1>3

LEMMA WriteKeepsRows ==
    ASSUME Types, RowsAreSeenTo, NEW w \in Writes,
           ServeWrite(w) \/ WriteAnswered(w) \/ WriteFailed(w) \/ \E i \in Ids : StartWrite(w, i)
    PROVE  RowsAreSeenTo'
<1> USE DEF Types, RowsAreSeenTo
<1> SUFFICES ASSUME NEW i \in Ids
             PROVE  i \in fresh' \cup excused' \/ Asking(i)' \/ Running(i)' \/ Writing(i)'
  OBVIOUS
<1>1. ASSUME UNCHANGED <<run, job>> PROVE Running(i) => Running(i)'
  BY <1>1 DEF Running, RowsOf
<1>2. CASE ServeWrite(w)
  <2> DEFINE K == write[w].id
  <2>1. PICK ok \in BOOLEAN :
          served' = [v \in Writes |->
              IF v = w THEN [at |-> "read", fresh |-> K, ok |-> ok]
              ELSE [served[v] EXCEPT !.fresh = @ \ K]]
    BY <1>2 DEF ServeWrite
  <2>2. /\ Changed(K) /\ UNCHANGED <<run, write, job>>
        /\ excused' = IF write[w].at = "sent" THEN excused ELSE excused \cup K
    BY <1>2 DEF ServeWrite
  <2>3. CASE i \in K
    <3>1. CASE write[w].at = "sent"
      BY <2>1, <2>2, <2>3, <3>1 DEF Writing
    <3>2. CASE write[w].at # "sent"
      BY <2>2, <2>3, <3>2
    <3> QED
      BY <3>1, <3>2
  <2>4. CASE i \notin K
    <3>1. Writing(i) => Writing(i)'
      BY <2>1, <2>2, <2>4 DEF Writing, ServedOK
    <3>2. (Asking(i) => Asking(i)') /\ (i \in fresh => i \in fresh')
      BY <2>2, <2>4, ChangedKeeps
    <3> QED
      BY <1>1, <2>2, <3>1, <3>2
  <2> QED
    BY <2>3, <2>4
<1>3. CASE WriteAnswered(w)
  <2>1. UNCHANGED <<request, run, job, served>> /\ Shown(write[w].id, served[w].fresh)
    BY <1>3 DEF WriteAnswered, serverVars
  <2>2. Asking(i) => Asking(i)'
    BY <2>1 DEF Asking
  <2>3. Writing(i) => Writing(i)' \/ i \in fresh'
    <3>1. \A v \in Writes \ {w} : write'[v] = write[v]
      BY <1>3 DEF WriteAnswered, WriteOK
    <3>2. i \in write[w].id /\ i \in served[w].fresh => i \in fresh'
      BY <2>1 DEF Shown
    <3> QED
      BY <1>3, <2>1, <3>1, <3>2 DEF Writing, WriteAnswered
  <2> QED
    BY <1>1, <2>1, <2>2, <2>3, ShownKeeps
<1>4. CASE WriteFailed(w)
  <2>1. UNCHANGED <<fresh, run, job, served>> /\ Redetect(write[w].id) /\ write[w].id \in Requests
    BY <1>4 DEF WriteFailed, serverVars, WriteOK, Requests
  <2>2. /\ Asking(i) => Asking(i)'
        /\ excused \subseteq excused'
        /\ i \in write[w].id => Asking(i)' \/ i \in excused'
    <3>1. CASE write[w].id = Scan
      BY <2>1, <3>1 DEF Redetect, Asking, RequestOK, Scan
    <3>2. CASE write[w].id # Scan
      BY <2>1, <3>2, RedetectSeesTo
    <3> QED
      BY <3>1, <3>2
  <2>3. Writing(i) => Writing(i)' \/ i \in write[w].id
    BY <1>4, <2>1 DEF WriteFailed, Writing, WriteOK
  <2> QED
    BY <1>1, <2>1, <2>2, <2>3
<1>5. ASSUME NEW j \in Ids, StartWrite(w, j)
      PROVE  i \in fresh' \cup excused' \/ Asking(i)' \/ Running(i)' \/ Writing(i)'
  <2>1. UNCHANGED <<fresh, excused, request, run, job>>
    BY <1>5 DEF StartWrite
  <2>2. Asking(i) => Asking(i)'
    BY <2>1 DEF Asking
  <2>3. Writing(i) => Writing(i)'
    BY <1>5 DEF StartWrite, Writing, WriteOK, ServedOK
  <2> QED
    BY <1>1, <2>1, <2>2, <2>3
<1> QED
  BY <1>2, <1>3, <1>4, <1>5

-----------------------------------------------------------------------------

IInv == Types /\ BusyCounts /\ RowsAreSeenTo

LEMMA InitEstablishes == Init => IInv
<1> SUFFICES ASSUME Init PROVE IInv
  OBVIOUS
<1> USE DEF Init
<1>1. RequestOK
  BY DEF RequestOK, NoRequest, Requests, Asked, Scan
<1>2. WriteOK /\ JobOK /\ run \in Runs \cup {NoRun}
  BY DEF WriteOK, NoWrite, JobOK
<1>3. ServedOK
  BY DEF ServedOK, NotServed
<1>4. BusyCounts
  <2>1. UnderWay = {}
    BY DEF UnderWay, NoWrite
  <2> QED
    BY <2>1, FS_EmptySet DEF BusyCounts
<1>5. RowsAreSeenTo
  <2>1. Scan \in Requests /\ request[Scan].at = "sent" /\ Asked(Scan) = Ids
    BY DEF Scan, Requests, Asked
  <2> QED
    BY <2>1 DEF RowsAreSeenTo, Asking
<1> QED
  BY <1>1, <1>2, <1>3, <1>4, <1>5 DEF IInv, Types

LEMMA StepKeepsIInv == IInv /\ [Next]_vars => IInv'
<1> SUFFICES ASSUME IInv, [Next]_vars PROVE IInv'
  OBVIOUS
<1>1. Types'
  BY StepKeepsTypes DEF IInv
<1>2. BusyCounts'
  BY StepKeepsBusy DEF IInv, Types
<1>3. RowsAreSeenTo'
  <2>1. CASE UNCHANGED vars
    BY <2>1 DEF vars, pageVars, serverVars, IInv, RowsAreSeenTo, Asking, Running, RowsOf, Writing
  <2> QED
    BY <2>1, RequestKeepsRows, RunKeepsRows, StreamKeepsRows, WriteKeepsRows DEF IInv, Next
<1> QED
  BY <1>1, <1>2, <1>3 DEF IInv

LEMMA AlwaysIInv == Spec => []IInv
<1>1. IInv /\ [Next]_vars => IInv'
  BY StepKeepsIInv
<1> QED
  BY <1>1, InitEstablishes, PTL DEF Spec

(* Begins and ends of work pair up, whatever ends it.                      *)
THEOREM BusyPairs == Spec => []BusyIsBalanced
<1>1. IInv => BusyIsBalanced
  BY DEF IInv, BusyCounts, BusyIsBalanced, UnderWay
<1> QED
  BY <1>1, AlwaysIInv, PTL

(* Once everything has come back, a row that does not show what the machine *)
(* has was left behind in one of the four ways the code accepts.           *)
THEOREM PageIsCurrent == Spec => []PageCatchesUp
<1>1. IInv => PageCatchesUp
  <2> SUFFICES ASSUME IInv, Quiet PROVE Ids \subseteq fresh \cup excused
    BY DEF PageCatchesUp
  <2>1. UnderWay = {}
    BY UnderWayIsFinite, FS_EmptySet, FS_CardinalityType DEF IInv, BusyCounts, Quiet
  <2>2. ASSUME NEW i \in Ids PROVE ~Asking(i) /\ ~Running(i) /\ ~Writing(i)
    BY <2>1 DEF Quiet, Asking, Running, Writing, UnderWay
  <2> QED
    BY <2>2 DEF IInv, RowsAreSeenTo
<1> QED
  BY <1>1, AlwaysIInv, PTL
-----------------------------------------------------------------------------
(***************************************************************************)
(* The rows of a run come to rest. While the page listens, a row that      *)
(* waits or turns, or is about to turn, is one the server is not through   *)
(* with, or one whose outcome is on its way; so a stream that ends by its  *)
(* last event leaves none, and the other ends settle every row themselves. *)
(***************************************************************************)
StartedOf(i) == [kind |-> "started", id |-> i, fresh |-> {}]

EventsOK ==
    /\ events \subseteq [kind : Kinds, id : Ids, fresh : SUBSET Ids]
    /\ \A e \in events : e.kind = "started" => e = StartedOf(e.id)
    /\ run = NoRun => events = {}
    /\ status \in [Ids -> {"none", "queued", "running", "over"}]

Unfinished(i) == job[run][i] \in {"todo", "writing", "written"}
OutcomeComes(i) == \E e \in events : e.id = i /\ e.kind \in {"verified", "failed"}

RowsGoOn ==
    run # NoRun =>
        \A i \in Ids : status[i] \in {"queued", "running"} \/ StartedOf(i) \in events
                            => Unfinished(i) \/ OutcomeComes(i)

Settling == EventsOK /\ RowsGoOn /\ RowsSettle

LEMMA StartedFacts ==
    ASSUME NEW i \in Ids
    PROVE  /\ StartedOf(i) \in [kind : Kinds, id : Ids, fresh : SUBSET Ids]
           /\ StartedOf(i).kind = "started" /\ StartedOf(i).id = i /\ StartedOf(i).fresh = {}
BY DEF StartedOf, Kinds

\* A step that leaves the run, its rows and its events alone.
LEMMA SettlingStays ==
    ASSUME Settling, UNCHANGED <<run, status, stopped, events>>,
           run # NoRun => job'[run] = job[run]
    PROVE  Settling'
BY DEF Settling, EventsOK, RowsGoOn, RowsSettle, Unfinished, OutcomeComes

\* A change of the machine makes the readings under way older, and no more.
LEMMA OutdatedKeepsEvents ==
    ASSUME EventsOK, UNCHANGED <<run, status>>, NEW K,
           events' = {[e EXCEPT !.fresh = @ \ K] : e \in events}
    PROVE  /\ EventsOK'
           /\ \A i \in Ids : /\ StartedOf(i) \in events' => StartedOf(i) \in events
                             /\ OutcomeComes(i) => OutcomeComes(i)'
<1> DEFINE Older(e) == [e EXCEPT !.fresh = @ \ K]
<1>1. ASSUME NEW e \in events
      PROVE  /\ Older(e).kind = e.kind /\ Older(e).id = e.id
             /\ Older(e) \in [kind : Kinds, id : Ids, fresh : SUBSET Ids]
             /\ e.kind = "started" => Older(e) = e /\ e = StartedOf(e.id)
  <2>1. e \in [kind : Kinds, id : Ids, fresh : SUBSET Ids]
    BY DEF EventsOK
  <2>2. e.kind = "started" => e = StartedOf(e.id)
    BY DEF EventsOK
  <2>3. e.kind = "started" => Older(e) = e
    BY <2>2 DEF StartedOf
  <2> QED
    BY <2>1, <2>2, <2>3
<1>2. events' = {Older(e) : e \in events}
  OBVIOUS
<1> HIDE DEF Older
<1>3. EventsOK'
  BY <1>1, <1>2 DEF EventsOK
<1>4. ASSUME NEW i \in Ids, StartedOf(i) \in events' PROVE StartedOf(i) \in events
  <2>1. PICK e \in events : StartedOf(i) = Older(e)
    BY <1>2, <1>4
  <2> QED
    BY <1>1, <2>1, StartedFacts
<1>5. ASSUME NEW i \in Ids, OutcomeComes(i) PROVE OutcomeComes(i)'
  <2>1. PICK e \in events : e.id = i /\ e.kind \in {"verified", "failed"}
    BY <1>5 DEF OutcomeComes
  <2>2. Older(e) \in events' /\ Older(e).id = i /\ Older(e).kind \in {"verified", "failed"}
    BY <1>1, <1>2, <2>1
  <2> QED
    BY <2>2 DEF OutcomeComes
<1> QED
  BY <1>3, <1>4, <1>5

\* What the server sends, or changes, while the page listens.
LEMMA ServeKeepsSettling ==
    ASSUME Types, Settling, NEW r \in Runs, Serve(r)
    PROVE  Settling'
<1> USE PageAssumption DEF Types, JobOK
<1>1. UNCHANGED <<run, status, stopped>>
  BY DEF Serve, ServeRow, WriteRow, AnswerRow, Disconnect, pageVars
<1>2. RowsSettle'
  BY <1>1 DEF Settling, RowsSettle
<1>3. ASSUME events' = events, r # run PROVE Settling'
  <2>1. run # NoRun => job'[run] = job[run]
    BY <1>3 DEF Serve, ServeRow, WriteRow, AnswerRow, Disconnect
  <2> QED
    BY <1>1, <1>3, <2>1, SettlingStays
<1>4. ASSUME NEW i \in Ids, ServeRow(r, i) PROVE Settling'
  <2>1. CASE r # run
    BY <1>3, <1>4, <2>1 DEF ServeRow, Send
  <2>2. CASE r = run
    <3>1. events' = events \cup {StartedOf(i)}
      BY <1>4, <2>2 DEF ServeRow, Send, StartedOf
    <3>2. EventsOK'
      BY <1>1, <2>2, <3>1, StartedFacts DEF Settling, EventsOK
    <3>3. job' = [job EXCEPT ![r][i] = "writing"] /\ job[r][i] = "todo"
      BY <1>4 DEF ServeRow
    <3>4. \A j \in Ids : /\ StartedOf(j) \in events' => StartedOf(j) \in events \/ j = i
                         /\ Unfinished(j) => Unfinished(j)'
                         /\ Unfinished(i)'
                         /\ OutcomeComes(j) => OutcomeComes(j)'
      BY <1>1, <2>2, <3>1, <3>3, StartedFacts DEF Unfinished, OutcomeComes
    <3>5. RowsGoOn'
      BY <1>1, <3>4 DEF Settling, RowsGoOn
    <3> QED
      BY <1>2, <3>2, <3>5 DEF Settling
  <2> QED
    BY <2>1, <2>2
<1>5. ASSUME NEW i \in Ids, WriteRow(r, i) PROVE Settling'
  <2>1. PICK K \in SUBSET RowsOf(r) : events' = {[e EXCEPT !.fresh = @ \ K] : e \in events}
    BY <1>5 DEF WriteRow
  <2>2. job' = [job EXCEPT ![r][i] = "written"] /\ job[r][i] = "writing"
    BY <1>5 DEF WriteRow
  <2>3. /\ EventsOK'
        /\ \A j \in Ids : /\ StartedOf(j) \in events' => StartedOf(j) \in events
                          /\ OutcomeComes(j) => OutcomeComes(j)'
    BY <1>1, <2>1, OutdatedKeepsEvents DEF Settling
  <2>4. \A j \in Ids : run # NoRun /\ Unfinished(j) => Unfinished(j)'
    BY <1>1, <2>2 DEF Unfinished
  <2>5. RowsGoOn'
    BY <1>1, <2>3, <2>4 DEF Settling, RowsGoOn
  <2> QED
    BY <1>2, <2>3, <2>5 DEF Settling
<1>6. ASSUME NEW i \in Ids, AnswerRow(r, i) PROVE Settling'
  <2>1. CASE r # run
    BY <1>3, <1>6, <2>1 DEF AnswerRow, Send
  <2>2. CASE r = run
    <3>1. PICK kind \in {"verified", "failed"} :
            events' = events \cup {[kind |-> kind, id |-> i, fresh |-> {i}]}
      BY <1>6, <2>2 DEF AnswerRow, Send
    <3>2. EventsOK'
      BY <1>1, <2>2, <3>1 DEF Settling, EventsOK, Kinds
    <3>3. job' = [job EXCEPT ![r][i] = "done"]
      BY <1>6 DEF AnswerRow
    <3>4. OutcomeComes(i)'
      <4> DEFINE e == [kind |-> kind, id |-> i, fresh |-> {i}]
      <4>1. e \in events' /\ e.id = i /\ e.kind \in {"verified", "failed"}
        BY <3>1
      <4> HIDE DEF e
      <4> QED
        BY <4>1 DEF OutcomeComes
    <3>5. \A j \in Ids : /\ StartedOf(j) \in events' => StartedOf(j) \in events
                         /\ j # i /\ Unfinished(j) => Unfinished(j)'
                         /\ OutcomeComes(j) => OutcomeComes(j)'
      BY <1>1, <2>2, <3>1, <3>3, StartedFacts DEF Unfinished, OutcomeComes
    <3>6. RowsGoOn'
      BY <1>1, <3>4, <3>5 DEF Settling, RowsGoOn
    <3> QED
      BY <1>2, <3>2, <3>6 DEF Settling
  <2> QED
    BY <2>1, <2>2
<1>7. CASE Disconnect(r)
  BY <1>3, <1>7 DEF Disconnect
<1> QED
  BY <1>4, <1>5, <1>6, <1>7 DEF Serve

LEMMA EventKeepsSettling ==
    ASSUME Types, Settling, NEW e \in events, Event(e)
    PROVE  Settling'
<1>1. /\ run # NoRun /\ UNCHANGED <<run, job, stopped>> /\ events' = events \ {e}
      /\ status' = [status EXCEPT ![e.id] = IF e.kind = "started" THEN "running" ELSE "over"]
      /\ e.kind = "started" \/ StartedOf(e.id) \notin events
  BY DEF Event, Settling, EventsOK, StartedOf
<1>2. e.id \in Ids /\ (e.kind = "started" => e = StartedOf(e.id))
  BY DEF Settling, EventsOK
<1>3. EventsOK'
  BY <1>1, <1>2 DEF Settling, EventsOK
<1>4. ASSUME NEW i \in Ids, status'[i] \in {"queued", "running"} \/ StartedOf(i) \in events'
      PROVE  Unfinished(i)' \/ OutcomeComes(i)'
  <2>1. Unfinished(i) => Unfinished(i)'
    BY <1>1 DEF Unfinished
  <2>2. CASE e.kind = "started"
    <3>1. OutcomeComes(i) => OutcomeComes(i)'
      BY <1>1, <2>2 DEF OutcomeComes
    <3>2. status[i] \in {"queued", "running"} \/ StartedOf(i) \in events
      BY <1>1, <1>2, <1>4, <2>2 DEF Settling, EventsOK
    <3> QED
      BY <1>1, <2>1, <3>1, <3>2 DEF Settling, RowsGoOn
  <2>3. CASE e.kind # "started"
    <3>1. i # e.id
      BY <1>1, <1>2, <1>4, <2>3 DEF Settling, EventsOK
    <3>2. OutcomeComes(i) => OutcomeComes(i)'
      BY <1>1, <3>1 DEF OutcomeComes
    <3>3. status[i] \in {"queued", "running"} \/ StartedOf(i) \in events
      BY <1>1, <1>2, <1>4, <3>1 DEF Settling, EventsOK
    <3> QED
      BY <1>1, <2>1, <3>2, <3>3 DEF Settling, RowsGoOn
  <2> QED
    BY <2>2, <2>3
<1>5. RowsGoOn'
  BY <1>4 DEF RowsGoOn
<1>6. RowsSettle'
  BY <1>1 DEF RowsSettle
<1> QED
  BY <1>3, <1>5, <1>6 DEF Settling

LEMMA EndKeepsSettling ==
    ASSUME Types, Settling, StreamDone \/ StreamDies \/ Stop
    PROVE  Settling'
<1>1. run' = NoRun /\ events' = {}
  BY DEF StreamDone, StreamDies, Stop, Finish, serverVars
<1>2. EventsOK' /\ RowsGoOn'
  BY <1>1 DEF StreamDone, StreamDies, Stop, Settling, EventsOK, RowsGoOn
<1>3. CASE StreamDone
  <2>1. \A i \in Ids : ~Unfinished(i) /\ ~OutcomeComes(i)
    BY <1>3 DEF StreamDone, RowsOf, Unfinished, OutcomeComes
  <2>2. \A i \in Ids : status'[i] \notin {"queued", "running"}
    BY <1>3, <2>1 DEF StreamDone, Settling, RowsGoOn
  <2> QED
    BY <1>2, <2>2 DEF Settling, RowsSettle
<1>4. CASE StreamDies
  BY <1>2, <1>4 DEF StreamDies, Settling, EventsOK, RowsSettle
<1>5. CASE Stop
  BY <1>2, <1>5 DEF Stop, Settling, EventsOK, RowsSettle
<1> QED
  BY <1>3, <1>4, <1>5

LEMMA StepKeepsSettling == Types /\ Settling /\ [Next]_vars => Settling'
<1> SUFFICES ASSUME Types, Settling, [Next]_vars PROVE Settling'
  OBVIOUS
<1>1. ASSUME NEW r \in Runs, NEW K \in Selections, StartRun(r, K) PROVE Settling'
  <2>1. /\ run' = r /\ r # NoRun /\ events' = {} /\ K \subseteq Ids
        /\ status' = [i \in Ids |-> IF i \in K THEN "queued" ELSE "none"]
    BY <1>1, PageAssumption DEF StartRun, Settling, EventsOK
  <2>2. \A i \in K : job'[r][i] = "todo"
    BY <1>1, <2>1 DEF StartRun, Types, JobOK
  <2>3. EventsOK'
    BY <2>1 DEF EventsOK
  <2>4. RowsGoOn'
    BY <2>1, <2>2 DEF RowsGoOn, Unfinished
  <2>5. RowsSettle'
    BY <2>1 DEF RowsSettle
  <2> QED
    BY <2>3, <2>4, <2>5 DEF Settling
<1>2. ASSUME NEW q \in Requests, Request(q) PROVE Settling'
  BY <1>2, SettlingStays DEF Request, Detect, Answer, AnswerLost, pageVars, serverVars
<1>3. ASSUME NEW w \in Writes, WriteAnswered(w) \/ WriteFailed(w) \/ \E i \in Ids : StartWrite(w, i)
      PROVE  Settling'
  BY <1>3, SettlingStays DEF WriteAnswered, WriteFailed, StartWrite, serverVars
<1>4. ASSUME NEW w \in Writes, ServeWrite(w) PROVE Settling'
  <2>1. UNCHANGED <<run, status, stopped, job>>
    BY <1>4 DEF ServeWrite
  <2>2. \E K : events' = {[e EXCEPT !.fresh = @ \ K] : e \in events}
    BY <1>4 DEF ServeWrite
  <2>3. /\ EventsOK'
        /\ \A i \in Ids : /\ StartedOf(i) \in events' => StartedOf(i) \in events
                          /\ OutcomeComes(i) => OutcomeComes(i)'
    BY <2>1, <2>2, OutdatedKeepsEvents DEF Settling
  <2>4. \A i \in Ids : Unfinished(i) => Unfinished(i)'
    BY <2>1 DEF Unfinished
  <2>5. RowsGoOn'
    BY <2>1, <2>3, <2>4 DEF Settling, RowsGoOn
  <2>6. RowsSettle'
    BY <2>1 DEF Settling, RowsSettle
  <2> QED
    BY <2>3, <2>5, <2>6 DEF Settling
<1>5. CASE UNCHANGED vars
  BY <1>5, SettlingStays DEF vars, pageVars, serverVars
<1> QED
  BY <1>1, <1>2, <1>3, <1>4, <1>5, ServeKeepsSettling, EventKeepsSettling, EndKeepsSettling DEF Next


LEMMA InitSettling == Init => Settling
BY PageAssumption DEF Init, Settling, EventsOK, RowsGoOn, RowsSettle

(* No row waits or turns outside a run, but those its Stop cut off: a run  *)
(* that ends by its last event has had the outcome of every row.           *)
THEOREM RowsComeToRest == Spec => []RowsSettle
<1>1. Init => Types /\ Settling
  BY InitEstablishes, InitSettling DEF IInv
<1>2. Types /\ Settling /\ [Next]_vars => (Types /\ Settling)'
  BY StepKeepsTypes, StepKeepsSettling
<1>3. Settling => RowsSettle
  BY DEF Settling
<1> QED
  BY <1>1, <1>2, <1>3, PTL DEF Spec

-----------------------------------------------------------------------------
(* The sets of rows the page keeps, and the mark of its category.          *)

RowSetsOK ==
    /\ fresh \subseteq Ids /\ excused \subseteq Ids /\ stopped \subseteq Ids
    /\ category \in {"loading", "done", "error"}

LEMMA ShownIsRows ==
    ASSUME RowSetsOK, NEW K \in SUBSET Ids, NEW good, Shown(K, good)
    PROVE  fresh' \subseteq Ids /\ excused' \subseteq Ids
BY DEF RowSetsOK, Shown

LEMMA RedetectIsRows ==
    ASSUME RowSetsOK, NEW q \in Requests, Redetect(q)
    PROVE  excused' \subseteq Ids
BY DEF RowSetsOK, Redetect, Requests

LEMMA StepKeepsRowSets == Types /\ EventsOK /\ RowSetsOK /\ [Next]_vars => RowSetsOK'
<1> SUFFICES ASSUME Types, EventsOK, RowSetsOK, [Next]_vars PROVE RowSetsOK'
  OBVIOUS
<1>1. ASSUME NEW q \in Requests, Request(q) PROVE RowSetsOK'
  <2>1. CASE Detect(q)
    BY <2>1 DEF Detect, RowSetsOK, pageVars
  <2>2. CASE Answer(q)
    <3>1. fresh' \subseteq Ids /\ excused' \subseteq Ids
      BY <2>2, AskedIsIds, ShownIsRows DEF Answer
    <3> QED
      BY <2>2, <3>1 DEF Answer, RowSetsOK
  <2>3. CASE AnswerLost(q)
    BY <2>3, AskedIsIds DEF AnswerLost, RowSetsOK
  <2> QED
    BY <1>1, <2>1, <2>2, <2>3 DEF Request
<1>2. ASSUME NEW r \in Runs, Serve(r) PROVE RowSetsOK'
  <2>1. ASSUME NEW i \in Ids, WriteRow(r, i) PROVE RowSetsOK'
    <3>1. PICK K \in SUBSET RowsOf(r) :
            /\ Changed(K) /\ excused' = IF run = r THEN excused ELSE excused \cup K
      BY <2>1 DEF WriteRow
    <3>2. fresh' \subseteq Ids /\ excused' \subseteq Ids
      BY <3>1 DEF Changed, RowsOf, RowSetsOK
    <3> QED
      BY <2>1, <3>2 DEF WriteRow, RowSetsOK
  <2>2. ASSUME UNCHANGED <<pageVars, excused, stopped>> PROVE RowSetsOK'
    BY <2>2 DEF pageVars, RowSetsOK
  <2> QED
    BY <1>2, <2>1, <2>2 DEF Serve, ServeRow, AnswerRow, Disconnect
<1>3. ASSUME NEW r \in Runs, NEW K \in Selections, StartRun(r, K) PROVE RowSetsOK'
  BY <1>3 DEF StartRun, RowSetsOK
<1>4. ASSUME NEW e \in events, Event(e) PROVE RowSetsOK'
  <2>1. {e.id} \subseteq Ids
    BY DEF EventsOK
  <2>2. fresh' \subseteq Ids /\ excused' \subseteq Ids
    BY <1>4, <2>1, ShownIsRows DEF Event, RowSetsOK
  <2> QED
    BY <1>4, <2>2 DEF Event, RowSetsOK
<1>5. CASE StreamDone \/ StreamDies \/ Stop
  <2>1. excused' \subseteq Ids
    BY <1>5, RowsAreRequests, RedetectIsRows DEF StreamDone, StreamDies, Stop, Finish
  <2>2. UNCHANGED <<fresh, category>> /\ stopped' \subseteq Ids
    BY <1>5 DEF StreamDone, StreamDies, Stop, RowSetsOK
  <2> QED
    BY <2>1, <2>2 DEF RowSetsOK
<1>6. ASSUME NEW w \in Writes, ServeWrite(w) \/ WriteAnswered(w) \/ WriteFailed(w) PROVE RowSetsOK'
  <2>1. write[w].id \in SUBSET Ids
    BY DEF Types, WriteOK
  <2>2. CASE ServeWrite(w)
    <3>1. fresh' \subseteq Ids /\ excused' \subseteq Ids
      BY <2>1, <2>2 DEF ServeWrite, Changed, RowSetsOK
    <3> QED
      BY <2>2, <3>1 DEF ServeWrite, RowSetsOK
  <2>3. CASE WriteAnswered(w)
    <3>1. fresh' \subseteq Ids /\ excused' \subseteq Ids
      BY <2>1, <2>3, ShownIsRows DEF WriteAnswered
    <3> QED
      BY <2>3, <3>1 DEF WriteAnswered, RowSetsOK
  <2>4. CASE WriteFailed(w)
    <3>1. excused' \subseteq Ids
      BY <2>1, <2>4, RedetectIsRows DEF WriteFailed, Requests
    <3> QED
      BY <2>4, <3>1 DEF WriteFailed, RowSetsOK
  <2> QED
    BY <1>6, <2>2, <2>3, <2>4
<1>7. ASSUME NEW w \in Writes, NEW i \in Ids, StartWrite(w, i) PROVE RowSetsOK'
  BY <1>7 DEF StartWrite, RowSetsOK
<1>8. CASE UNCHANGED vars
  BY <1>8 DEF vars, pageVars, RowSetsOK
<1> QED
  BY <1>1, <1>2, <1>3, <1>4, <1>5, <1>6, <1>7, <1>8 DEF Next

\* Every variable stays in its type: the count of operations never goes below none,
\* and a request's answer is current on no row it did not ask for.
THEOREM TypeCorrect == Spec => []TypeOK
<1>1. Init => Settling /\ RowSetsOK
  BY InitSettling DEF Init, RowSetsOK
<1>2. Types /\ Settling /\ RowSetsOK /\ [Next]_vars => (Settling /\ RowSetsOK)'
  BY StepKeepsSettling, StepKeepsRowSets DEF Settling
<1>3. IInv /\ Settling /\ RowSetsOK => TypeOK
  <2> SUFFICES ASSUME IInv, Settling, RowSetsOK PROVE TypeOK
    OBVIOUS
  <2>1. busy \in Nat
    BY UnderWayIsFinite, FS_CardinalityType DEF IInv, BusyCounts
  <2>2. Types /\ EventsOK
    BY DEF IInv, Settling
  <2> QED
    BY <2>1, <2>2 DEF Types, RequestOK, WriteOK, ServedOK, JobOK, EventsOK, RowSetsOK, TypeOK
<1>4. IInv => Types
  BY DEF IInv
<1> QED
  BY <1>1, <1>2, <1>3, <1>4, AlwaysIInv, PTL DEF Spec

-----------------------------------------------------------------------------
(***************************************************************************)
(* The sizes of the cleanups. A reading that is not stored yet and differs *)
(* from what is there was overtaken; an entry that does was stored from    *)
(* such a reading, or its target was last changed by a cleanup that failed *)
(* or by one that has yet to measure it or to drop it.                     *)
(***************************************************************************)
EntryOK ==
    entry \in [Keys -> [status : Statuses, size : Nat \cup {Unread}, by : SUBSET Actors]]
SeenOK == seen \in [Actors -> [Keys -> Nat \cup {Unread}]]
SizeTypes ==
    /\ EntryOK /\ SeenOK
    /\ size \in [Keys -> Nat] /\ batchRunning \in BOOLEAN
    /\ pc \in [Actors -> Places] /\ keys \in [Actors -> SUBSET Keys]
    /\ overtaken \subseteq Actors \X Keys /\ halfDone \subseteq Keys

(* Only a scan claims a row, and who claims has no size to show.           *)
Claimed(e) == e.status = "calculating" <=> e.by \cap Scans # {} /\ e.size = Unread
ClaimsOK == \A k \in Keys : Claimed(entry[k])

OneTarget ==
    \A c \in Cleanups : pc[c] \in {"ran", "after", "remembered"} =>
        \E j \in Keys : keys[c] = {j}

OldReadings ==
    \A a \in Actors, k \in Keys :
        seen[a][k] >= 0 /\ seen[a][k] # size[k] => <<a, k>> \in overtaken

Corrects(c, k) ==
    \E j \in keys[c] : \/ pc[c] \in {"ran", "after"} /\ k \in Shares(j)
                       \/ pc[c] = "remembered" /\ k \in Shares(j) \ {j}

Accounted(k) ==
    \/ \E a \in entry[k].by : <<a, k>> \in overtaken
    \/ k \in halfDone
    \/ \E c \in Cleanups : Corrects(c, k)

OldEntries ==
    \A k \in Keys : entry[k].status = "ready" /\ entry[k].size # size[k] => Accounted(k)

SizesInv == SizeTypes /\ ClaimsOK /\ OneTarget /\ OldReadings /\ OldEntries

(* What a step may make of an entry: keep it, have nothing to show, or     *)
(* show what an actor has read.                                            *)
ReadBy(a, k) ==
    /\ seen[a][k] >= 0
    /\ entry'[k] = [status |-> "ready", size |-> seen[a][k], by |-> {a}]
NextEntry(k) ==
    \/ entry'[k] = entry[k]
    \/ entry'[k].status # "ready"
    \/ \E a \in Actors : ReadBy(a, k)
EntriesStep == EntryOK' /\ ClaimsOK' /\ \A k \in Keys : NextEntry(k)

LEMMA NoEntry ==
    /\ None \in [status : Statuses, size : Nat \cup {Unread}, by : SUBSET Actors]
    /\ Unavailable \in [status : Statuses, size : Nat \cup {Unread}, by : SUBSET Actors]
    /\ None.status # "ready" /\ Unavailable.status # "ready"
    /\ Claimed(None) /\ Claimed(Unavailable)
BY DEF None, Unavailable, Statuses, Claimed, Unread

LEMMA StoredIsEntry ==
    ASSUME SeenOK, NEW a \in Actors, NEW k \in Keys
    PROVE  /\ Stored(a, k) \in [status : Statuses, size : Nat \cup {Unread}, by : SUBSET Actors]
           /\ Claimed(Stored(a, k))
           /\ \/ Stored(a, k).status # "ready"
              \/ /\ seen[a][k] >= 0
                 /\ Stored(a, k) = [status |-> "ready", size |-> seen[a][k], by |-> {a}]
<1>1. CASE seen[a][k] >= 0
  <2>1. seen[a][k] \in Nat
    BY <1>1 DEF SeenOK, Unread
  <2>2. Stored(a, k) = [status |-> "ready", size |-> seen[a][k], by |-> {a}]
    BY <1>1 DEF Stored
  <2> QED
    BY <1>1, <2>1, <2>2 DEF Statuses, Claimed, Unread
<1>2. CASE ~(seen[a][k] >= 0)
  BY <1>2, NoEntry DEF Stored
<1> QED
  BY <1>1, <1>2

LEMMA EntriesLook ==
    ASSUME EntryOK, ClaimsOK, NEW K, Look(K) PROVE EntriesStep
<1>1. \A k \in Keys : entry'[k] \in {entry[k], None, Unavailable}
  BY DEF Look, Settled
<1>2. \A k \in Keys : entry[k] \in [status : Statuses, size : Nat \cup {Unread}, by : SUBSET Actors]
  BY DEF EntryOK
<1>3. EntryOK'
  BY <1>1, <1>2, NoEntry DEF EntryOK, Look
<1>4. ClaimsOK'
  BY <1>1, NoEntry DEF ClaimsOK
<1> QED
  BY <1>1, <1>3, <1>4, NoEntry DEF EntriesStep, NextEntry

LEMMA EntriesPoll ==
    ASSUME EntryOK, ClaimsOK, Poll PROVE EntriesStep
<1>1. \A k \in Keys : entry'[k] \in {entry[k], Unavailable}
  BY DEF Poll, Settled
<1>2. \A k \in Keys : entry[k] \in [status : Statuses, size : Nat \cup {Unread}, by : SUBSET Actors]
  BY DEF EntryOK
<1>3. EntryOK'
  BY <1>1, <1>2, NoEntry DEF EntryOK, Poll
<1>4. ClaimsOK'
  BY <1>1, NoEntry DEF ClaimsOK
<1> QED
  BY <1>1, <1>3, <1>4, NoEntry DEF EntriesStep, NextEntry

LEMMA EntriesClaim ==
    ASSUME EntryOK, ClaimsOK, NEW s \in Scans, NEW K, MarkCalculating(s, K) PROVE EntriesStep
<1> DEFINE claim == [status |-> "calculating", size |-> Unread, by |-> {s}]
<1>1. \A k \in Keys : entry'[k] \in {entry[k], claim}
  BY DEF MarkCalculating
<1>2. /\ claim \in [status : Statuses, size : Nat \cup {Unread}, by : SUBSET Actors]
      /\ Claimed(claim) /\ claim.status # "ready"
  BY DEF Statuses, Claimed, Unread, Actors
<1>3. \A k \in Keys : entry[k] \in [status : Statuses, size : Nat \cup {Unread}, by : SUBSET Actors]
  BY DEF EntryOK
<1> HIDE DEF claim
<1>4. EntryOK'
  BY <1>1, <1>2, <1>3 DEF EntryOK, MarkCalculating
<1>5. ClaimsOK'
  BY <1>1, <1>2 DEF ClaimsOK
<1> QED
  BY <1>1, <1>2, <1>4, <1>5 DEF EntriesStep, NextEntry

LEMMA EntriesDrop ==
    ASSUME EntryOK, ClaimsOK, NEW K, NEW e \in {None, Unavailable},
           entry' = [k \in Keys |-> IF k \in K THEN e ELSE entry[k]]
    PROVE  EntriesStep
<1>1. \A k \in Keys : entry'[k] \in {entry[k], e}
  OBVIOUS
<1>2. \A k \in Keys : entry[k] \in [status : Statuses, size : Nat \cup {Unread}, by : SUBSET Actors]
  BY DEF EntryOK
<1>3. EntryOK'
  BY <1>1, <1>2, NoEntry DEF EntryOK
<1>4. ClaimsOK'
  BY <1>1, NoEntry DEF ClaimsOK
<1> QED
  BY <1>1, <1>3, <1>4, NoEntry DEF EntriesStep, NextEntry

LEMMA EntriesStore ==
    ASSUME EntryOK, ClaimsOK, SeenOK, NEW a \in Actors, NEW K, Store(a, K) PROVE EntriesStep
<1>1. \A k \in Keys : entry'[k] \in {entry[k], Stored(a, k)}
  BY DEF Store
<1>2. \A k \in Keys : entry[k] \in [status : Statuses, size : Nat \cup {Unread}, by : SUBSET Actors]
  BY DEF EntryOK
<1>3. EntryOK'
  BY <1>1, <1>2, StoredIsEntry DEF EntryOK, Store
<1>4. ClaimsOK'
  BY <1>1, StoredIsEntry DEF ClaimsOK
<1>5. \A k \in Keys : NextEntry(k)
  BY <1>1, StoredIsEntry DEF NextEntry, ReadBy
<1> QED
  BY <1>3, <1>4, <1>5 DEF EntriesStep

LEMMA EntriesRemember ==
    ASSUME EntryOK, ClaimsOK, SeenOK, NEW a \in Actors, NEW k \in Keys, Remember(a, k)
    PROVE  EntriesStep
<1>1. entry' = [entry EXCEPT ![k] = entry'[k]] /\ entry'[k] \in {None, Stored(a, k)}
  BY DEF Remember, EntryOK
<1>2. \A j \in Keys : entry[j] \in [status : Statuses, size : Nat \cup {Unread}, by : SUBSET Actors]
  BY DEF EntryOK
<1>3. \A j \in Keys : entry'[j] \in {entry[j], None, Stored(a, j)}
  BY <1>1 DEF EntryOK
<1>4. EntryOK'
  BY <1>1, <1>2, <1>3, StoredIsEntry, NoEntry DEF EntryOK
<1>5. ClaimsOK'
  BY <1>3, StoredIsEntry, NoEntry DEF ClaimsOK
<1>6. \A j \in Keys : NextEntry(j)
  BY <1>3, StoredIsEntry, NoEntry DEF NextEntry, ReadBy
<1> QED
  BY <1>4, <1>5, <1>6 DEF EntriesStep

LEMMA EntriesKept ==
    ASSUME EntryOK, ClaimsOK, entry' = entry PROVE EntriesStep
BY DEF EntryOK, ClaimsOK, EntriesStep, NextEntry

(* What every step of a scan, and the measuring of a cleanup, leave alone. *)
MachineKept == size' = size /\ overtaken' = overtaken /\ halfDone' = halfDone

SeenStep(a) == seen' = seen \/ Forget(a) \/ \E K \in SUBSET Keys : Read(a, K)

LEMMA ReadingsStep ==
    ASSUME SizeTypes, OldReadings, NEW a \in Actors, MachineKept, SeenStep(a)
    PROVE  SeenOK' /\ OldReadings'
<1>1. CASE seen' = seen
  BY <1>1 DEF SizeTypes, SeenOK, OldReadings, MachineKept
<1>2. CASE Forget(a)
  <2>1. SeenOK'
    BY <1>2 DEF SizeTypes, SeenOK, Forget
  <2>2. \A b \in Actors, k \in Keys : seen'[b][k] = seen[b][k] \/ seen'[b][k] = Unread
    BY <1>2 DEF SizeTypes, SeenOK, Forget
  <2> QED
    BY <2>1, <2>2 DEF OldReadings, MachineKept, Unread
<1>3. ASSUME NEW K \in SUBSET Keys, Read(a, K) PROVE SeenOK' /\ OldReadings'
  <2>1. SeenOK'
    BY <1>3 DEF SizeTypes, SeenOK, Read
  <2>2. \A b \in Actors, k \in Keys : seen'[b][k] \in {seen[b][k], Unread, size[k]}
    BY <1>3 DEF SizeTypes, SeenOK, Read
  <2> QED
    BY <2>1, <2>2 DEF OldReadings, MachineKept, Unread
<1> QED
  BY <1>1, <1>2, <1>3 DEF SeenStep

(* An entry just read is accounted for, and so is one that was, while no   *)
(* cleanup that has its row to correct is through with it.                 *)
LEMMA EntriesStayAccounted ==
    ASSUME SizeTypes, OldReadings, OldEntries, EntriesStep, MachineKept,
           NEW k \in Keys,
           (\E a \in Actors : ReadBy(a, k)) \/ \A c \in Cleanups : Corrects(c, k) => Corrects(c, k)',
           entry'[k].status = "ready", entry'[k].size # size[k]
    PROVE  Accounted(k)'
<1>1. CASE entry'[k] = entry[k] /\ ~\E a \in Actors : ReadBy(a, k)
  BY <1>1 DEF OldEntries, Accounted, MachineKept
<1>2. ASSUME NEW a \in Actors, ReadBy(a, k) PROVE Accounted(k)'
  <2>1. <<a, k>> \in overtaken
    BY <1>2 DEF ReadBy, OldReadings
  <2>2. a \in entry'[k].by
    BY <1>2 DEF ReadBy
  <2> QED
    BY <2>1, <2>2 DEF Accounted, MachineKept
<1> QED
  BY <1>1, <1>2 DEF EntriesStep, NextEntry

-----------------------------------------------------------------------------
(* The scans.                                                              *)

ScanEffect(s) ==
    /\ EntriesStep /\ MachineKept /\ SeenStep(s)
    /\ batchRunning' \in BOOLEAN
    /\ \E p \in Places : pc' = [pc EXCEPT ![s] = p]
    /\ keys' = keys \/ \E K \in SUBSET Keys : keys' = [keys EXCEPT ![s] = K]

LEMMA ScanKeeps ==
    ASSUME SizesInv, NEW s \in Scans, ScanEffect(s) PROVE SizesInv'
<1> USE DEF SizesInv
<1>1. SeenOK' /\ OldReadings'
  BY ReadingsStep DEF ScanEffect, Actors
<1>2. SizeTypes'
  BY <1>1 DEF ScanEffect, SizeTypes, EntriesStep, MachineKept
<1>3. \A c \in Cleanups : pc'[c] = pc[c] /\ keys'[c] = keys[c]
  BY CleanupAssumption DEF ScanEffect, SizeTypes, Actors
<1>4. OneTarget'
  BY <1>3 DEF OneTarget
<1>5. \A k \in Keys : \A c \in Cleanups : Corrects(c, k) => Corrects(c, k)'
  BY <1>3 DEF Corrects
<1>6. OldEntries'
  <2> SUFFICES ASSUME NEW k \in Keys, entry'[k].status = "ready", entry'[k].size # size[k]
               PROVE  Accounted(k)'
    BY DEF OldEntries, ScanEffect, MachineKept
  <2> QED
    BY <1>5, EntriesStayAccounted DEF ScanEffect
<1> QED
  BY <1>1, <1>2, <1>4, <1>6 DEF ScanEffect, EntriesStep

LEMMA BatchEffect ==
    ASSUME SizesInv, NEW s \in Scans, BatchLook(s) \/ BatchStep(s) PROVE ScanEffect(s)
<1> USE DEF SizesInv, SizeTypes, MachineKept, SeenStep
<1>0. s \in Actors
  BY DEF Actors
<1>1. CASE BatchLook(s)
  <2>1. EntriesStep
    BY <1>1, EntriesLook DEF BatchLook
  <2>2. Missing(Keys) \in SUBSET Keys
    BY DEF Missing
  <2> QED
    BY <1>1, <2>1, <2>2 DEF BatchLook, ScanEffect, Places
<1>2. CASE BatchRaise(s)
  BY <1>2, EntriesKept DEF BatchRaise, Move, ScanEffect, Places
<1>3. CASE BatchClaim(s)
  BY <1>3, EntriesClaim DEF BatchClaim, Move, ScanEffect, Places
<1>4. CASE BatchNotStarted(s)
  BY <1>4, EntriesDrop DEF BatchNotStarted, Move, ScanEffect, Places
<1>5. CASE BatchWalk(s)
  <2>1. EntriesStep
    BY <1>5, EntriesKept DEF BatchWalk
  <2>2. keys[s] \cap Walked \in SUBSET Keys
    BY DEF Keys
  <2> QED
    BY <1>5, <2>1, <2>2 DEF BatchWalk, Move, ScanEffect, Places
<1>6. CASE BatchStoreWalked(s)
  BY <1>0, <1>6, EntriesStore DEF BatchStoreWalked, Move, ScanEffect, Places
<1>7. CASE BatchFetch(s)
  <2>1. EntriesStep
    BY <1>7, EntriesKept DEF BatchFetch
  <2>2. keys[s] \cap Scripted \in SUBSET Keys
    BY DEF Keys
  <2> QED
    BY <1>7, <2>1, <2>2 DEF BatchFetch, Move, ScanEffect, Places
<1>8. CASE BatchLower(s)
  BY <1>8, EntriesKept DEF BatchLower, Move, ScanEffect, Places
<1>9. CASE BatchStoreRest(s)
  <2>1. EntriesStep
    BY <1>0, <1>9, EntriesStore DEF BatchStoreRest
  <2> QED
    BY <1>9, <2>1 DEF BatchStoreRest, Move, ScanEffect, Places
<1> QED
  BY <1>1, <1>2, <1>3, <1>4, <1>5, <1>6, <1>7, <1>8, <1>9 DEF BatchStep

LEMMA RowEffect ==
    ASSUME SizesInv, NEW s \in Scans, RowStep(s) \/ \E k \in Keys : RowLook(s, k)
    PROVE  ScanEffect(s)
<1> USE DEF SizesInv, SizeTypes, MachineKept, SeenStep
<1>0. s \in Actors /\ keys[s] \in SUBSET Keys
  BY DEF Actors
<1>1. ASSUME NEW k \in Keys, RowLook(s, k) PROVE ScanEffect(s)
  <2>1. EntriesStep
    BY <1>1, EntriesLook DEF RowLook
  <2> QED
    BY <1>1, <2>1 DEF RowLook, ScanEffect, Places
<1>2. CASE RowWalk(s)
  <2>1. EntriesStep
    BY <1>2, EntriesKept DEF RowWalk
  <2> QED
    BY <1>0, <1>2, <2>1 DEF RowWalk, Move, ScanEffect, Places
<1>3. CASE RowRemember(s)
  <2>1. EntriesStep
    BY <1>0, <1>3, EntriesRemember DEF RowRemember
  <2> QED
    BY <1>3, <2>1 DEF RowRemember, Move, ScanEffect, Places
<1>4. CASE RowClaim(s)
  BY <1>4, EntriesClaim DEF RowClaim, Move, ScanEffect, Places
<1>5. CASE RowNotStarted(s)
  BY <1>5, EntriesDrop DEF RowNotStarted, Move, ScanEffect, Places
<1>6. CASE RowScan(s)
  <2>1. EntriesStep
    BY <1>6, EntriesKept DEF RowScan
  <2> QED
    BY <1>0, <1>6, <2>1 DEF RowScan, Move, ScanEffect, Places
<1>7. CASE RowStore(s)
  BY <1>0, <1>7, EntriesStore DEF RowStore, Move, ScanEffect, Places
<1> QED
  BY <1>1, <1>2, <1>3, <1>4, <1>5, <1>6, <1>7 DEF RowStep

-----------------------------------------------------------------------------
(* The cleanups.                                                           *)

LEMMA SharesAreKeys == \A k \in Keys : Shares(k) \in SUBSET Keys /\ k \in Shares(k)
BY CleanupAssumption DEF Shares, Keys

LEMMA CommandKeepsTypes ==
    ASSUME SizeTypes, NEW c \in Cleanups, NEW k \in Keys, RunCommand(c, k)
    PROVE  SizeTypes'
<1>1. c \in Actors
  BY DEF Actors
<1>2. size' \in [Keys -> Nat]
  BY DEF SizeTypes, RunCommand
<1>3. pc' \in [Actors -> Places] /\ keys' \in [Actors -> SUBSET Keys]
  BY <1>1 DEF SizeTypes, RunCommand, Places
<1>4. overtaken' \subseteq Actors \X Keys /\ halfDone' \subseteq Keys
  BY SharesAreKeys DEF SizeTypes, RunCommand
<1> QED
  BY <1>2, <1>3, <1>4 DEF SizeTypes, RunCommand, EntryOK, SeenOK

LEMMA CommandKeeps ==
    ASSUME SizesInv, NEW c \in Cleanups, NEW k \in Keys, RunCommand(c, k)
    PROVE  SizesInv'
<1> USE DEF SizesInv
<1>0. c \in Actors /\ pc[c] = "off"
  BY DEF Actors, RunCommand
<1>1. SizeTypes'
  BY CommandKeepsTypes
<1>2. ClaimsOK'
  BY DEF ClaimsOK, RunCommand
<1>3. /\ \A d \in Cleanups : d # c => pc'[d] = pc[d] /\ keys'[d] = keys[d]
      /\ pc'[c] \in {"ran", "ended"} /\ keys'[c] = {k}
  BY <1>0 DEF SizeTypes, RunCommand, Actors
<1>4. OneTarget'
  BY <1>3 DEF OneTarget
<1>5. \A j \in Keys \ Shares(k) : size'[j] = size[j]
  BY DEF RunCommand
<1>6. OldReadings'
  <2> SUFFICES ASSUME NEW a \in Actors, NEW j \in Keys, seen[a][j] >= 0, seen[a][j] # size'[j]
               PROVE  <<a, j>> \in overtaken'
    BY DEF OldReadings, RunCommand
  <2>1. CASE j \in Shares(k)
    BY <2>1 DEF RunCommand
  <2>2. CASE j \notin Shares(k)
    BY <1>5, <2>2 DEF OldReadings, RunCommand
  <2> QED
    BY <2>1, <2>2
<1>7. OldEntries'
  <2> SUFFICES ASSUME NEW j \in Keys, entry[j].status = "ready", entry[j].size # size'[j]
               PROVE  Accounted(j)'
    BY DEF OldEntries, RunCommand
  <2>1. CASE j \in Shares(k) /\ pc'[c] = "ran"
    <3>1. Corrects(c, j)'
      BY <1>3, <2>1 DEF Corrects
    <3> QED
      BY <3>1 DEF Accounted
  <2>2. CASE j \in Shares(k) /\ pc'[c] # "ran"
    <3>1. j \in halfDone'
      BY <1>0, <2>2 DEF RunCommand, SizeTypes
    <3> QED
      BY <3>1 DEF Accounted
  <2>3. CASE j \notin Shares(k)
    <3>1. Accounted(j)
      BY <1>5, <2>3 DEF OldEntries
    <3>2. CASE \E a \in entry[j].by : <<a, j>> \in overtaken
      BY <3>2 DEF Accounted, RunCommand
    <3>3. CASE j \in halfDone
      BY <2>3, <3>3 DEF Accounted, RunCommand
    <3>4. ASSUME NEW d \in Cleanups, Corrects(d, j) PROVE Accounted(j)'
      <4>1. d # c
        BY <1>0, <3>4 DEF Corrects
      <4>2. Corrects(d, j)'
        BY <1>3, <3>4, <4>1 DEF Corrects
      <4> QED
        BY <4>2 DEF Accounted
    <3> QED
      BY <3>1, <3>2, <3>3, <3>4 DEF Accounted
  <2> QED
    BY <2>1, <2>2, <2>3
<1> QED
  BY <1>1, <1>2, <1>4, <1>6, <1>7

(* A cleanup that ran goes on to measure, to remember and to drop.         *)
LEMMA AfterCommandTypes ==
    ASSUME SizesInv, NEW c \in Cleanups, RunStep(c)
    PROVE  /\ EntriesStep /\ MachineKept /\ SeenStep(c)
           /\ SizeTypes' /\ OldReadings' /\ OneTarget'
<1> USE DEF SizesInv
<1>1. c \in Actors /\ keys[c] \in SUBSET Keys /\ EntryOK /\ SeenOK
  BY DEF SizeTypes, Actors
<1>2. EntriesStep
  <2>1. CASE RunMeasure(c)
    BY <1>1, <2>1, EntriesKept DEF RunMeasure
  <2>2. CASE RunRemember(c)
    BY <1>1, <2>2, EntriesRemember DEF RunRemember
  <2>3. CASE RunDropSibling(c)
    <3>1. entry' = [k \in Keys |-> IF k \in UNION {Shares(j) \ {j} : j \in keys[c]}
                                   THEN None ELSE entry[k]]
      BY <2>3 DEF RunDropSibling
    <3> QED
      BY <1>1, <3>1, EntriesDrop
  <2> QED
    BY <2>1, <2>2, <2>3 DEF RunStep
<1>3. MachineKept /\ SeenStep(c)
  BY <1>1 DEF RunStep, RunMeasure, RunRemember, RunDropSibling, MachineKept, SeenStep
<1>4. SeenOK' /\ OldReadings'
  BY <1>1, <1>3, ReadingsStep
<1>5. \E p \in {"after", "remembered", "ended"} : pc' = [pc EXCEPT ![c] = p]
  BY DEF RunStep, RunMeasure, RunRemember, RunDropSibling, Move
<1>6. keys' = keys /\ batchRunning' = batchRunning
  BY DEF RunStep, RunMeasure, RunRemember, RunDropSibling
<1>7. SizeTypes'
  BY <1>2, <1>3, <1>4, <1>5, <1>6 DEF SizeTypes, EntriesStep, MachineKept, Places
<1>8. pc[c] \in {"ran", "after", "remembered"}
  BY DEF RunStep, RunMeasure, RunRemember, RunDropSibling, Move
<1>9. OneTarget'
  BY <1>1, <1>5, <1>6, <1>8 DEF OneTarget, SizeTypes
<1> QED
  BY <1>2, <1>3, <1>4, <1>7, <1>9

LEMMA AfterCommandKeeps ==
    ASSUME SizesInv, NEW c \in Cleanups, RunStep(c) PROVE SizesInv'
<1> USE DEF SizesInv
<1>1. /\ EntriesStep /\ MachineKept /\ SizeTypes' /\ OldReadings' /\ OneTarget'
  BY AfterCommandTypes
<1>2. c \in Actors /\ pc \in [Actors -> Places]
  BY DEF SizeTypes, Actors
<1>3. OldEntries'
  <2> SUFFICES ASSUME NEW k \in Keys, entry'[k].status = "ready", entry'[k].size # size[k]
               PROVE  Accounted(k)'
    BY <1>1 DEF OldEntries, MachineKept
  <2>0. keys' = keys /\ \E p \in Places : pc' = [pc EXCEPT ![c] = p]
    BY DEF RunStep, RunMeasure, RunRemember, RunDropSibling, Move, Places
  <2>1. keys' = keys /\ \A d \in Cleanups : d # c => pc'[d] = pc[d]
    BY <1>2, <2>0 DEF Actors
  <2>2. \A d \in Cleanups : d # c => (Corrects(d, k) => Corrects(d, k)')
    BY <2>1 DEF Corrects
  <2>3. \/ \E a \in Actors : ReadBy(a, k)
        \/ Corrects(c, k) => Corrects(c, k)'
    <3>1. CASE RunMeasure(c)
      BY <1>2, <2>1, <3>1 DEF RunMeasure, Move, Corrects
    <3>2. CASE RunRemember(c)
      <4>1. PICK j \in Keys : keys[c] = {j}
        BY <3>2 DEF RunRemember, Move, OneTarget
      <4>2. Remember(c, j) /\ pc'[c] = "remembered" /\ pc[c] = "after"
        BY <1>2, <3>2, <4>1 DEF RunRemember, Move
      <4>3. CASE k = j
        <5>1. entry'[k] \in {None, Stored(c, k)}
          BY <4>2, <4>3 DEF Remember, SizeTypes, EntryOK
        <5>2. ReadBy(c, k)
          BY <1>2, <5>1, StoredIsEntry, NoEntry DEF ReadBy, SizeTypes
        <5> QED
          BY <1>2, <5>2
      <4>4. CASE k # j
        BY <2>1, <4>1, <4>2, <4>4 DEF Corrects
      <4> QED
        BY <4>3, <4>4
    <3>3. CASE RunDropSibling(c)
      <4>1. ~\E j \in keys[c] : k \in Shares(j) \ {j}
        BY <3>3, NoEntry DEF RunDropSibling
      <4>2. pc[c] = "remembered"
        BY <3>3 DEF RunDropSibling, Move
      <4> QED
        BY <4>1, <4>2 DEF Corrects
    <3> QED
      BY <3>1, <3>2, <3>3 DEF RunStep
  <2> QED
    BY <1>1, <2>2, <2>3, EntriesStayAccounted
<1> QED
  BY <1>1, <1>3 DEF EntriesStep

-----------------------------------------------------------------------------
LEMMA SizesInitInv == SizesInit => SizesInv
<1> SUFFICES ASSUME SizesInit PROVE SizesInv
  OBVIOUS
<1>1. SizeTypes
  BY NoEntry DEF SizesInit, SizeTypes, EntryOK, SeenOK, Places
<1>2. ClaimsOK
  BY NoEntry DEF SizesInit, ClaimsOK
<1>3. OneTarget
  BY DEF SizesInit, OneTarget, Actors
<1>4. OldReadings
  BY DEF SizesInit, OldReadings, Unread
<1>5. OldEntries
  BY NoEntry DEF SizesInit, OldEntries
<1> QED
  BY <1>1, <1>2, <1>3, <1>4, <1>5 DEF SizesInv

LEMMA PollKeeps == SizesInv /\ Poll => SizesInv'
<1> SUFFICES ASSUME SizesInv, Poll PROVE SizesInv'
  OBVIOUS
<1> USE DEF SizesInv
<1>1. EntriesStep
  BY EntriesPoll DEF SizeTypes
<1>2. MachineKept /\ seen' = seen /\ pc' = pc /\ keys' = keys /\ batchRunning' = batchRunning
  BY DEF Poll, MachineKept
<1>3. SizeTypes'
  BY <1>1, <1>2 DEF SizeTypes, EntriesStep, MachineKept, SeenOK
<1>4. OneTarget' /\ OldReadings'
  BY <1>2 DEF OneTarget, OldReadings, MachineKept
<1>5. \A k \in Keys, c \in Cleanups : Corrects(c, k) => Corrects(c, k)'
  BY <1>2 DEF Corrects
<1>6. OldEntries'
  BY <1>1, <1>2, <1>5, EntriesStayAccounted DEF OldEntries, MachineKept
<1> QED
  BY <1>1, <1>3, <1>4, <1>6 DEF EntriesStep

LEMMA SizesStepInv == SizesInv /\ [SizesNext]_sizeVars => SizesInv'
<1>1. SizesInv /\ UNCHANGED sizeVars => SizesInv'
  BY DEF sizeVars, SizesInv, SizeTypes, EntryOK, SeenOK, ClaimsOK, Claimed, OneTarget,
         OldReadings, OldEntries, Accounted, Corrects
<1> QED
  BY <1>1, BatchEffect, RowEffect, ScanKeeps, CommandKeeps, AfterCommandKeeps, PollKeeps
     DEF SizesNext

\* The entries of the cache, the claims of their workers and what is read and not
\* stored stay in their types, for any cleanups, siblings, scans and limit: a row
\* that spins always names a scan that can end it (mark_calculating).
THEOREM SizesAreTyped == SizesSpec => []SizesTypeOK
<1>1. SizesInv => SizesTypeOK
  BY DEF SizesInv, SizeTypes, EntryOK, SeenOK, ClaimsOK, Claimed, SizesTypeOK
<1> QED
  BY <1>1, SizesInitInv, SizesStepInv, PTL DEF SizesSpec

\* An old size is shown only where a reading was overtaken, a cleanup failed half
\* way, or one is not through yet (freed_after_cleanup), for any cleanups,
\* siblings, scans and limit.
THEOREM SizesAreCurrent == SizesSpec => []OldOnlyIfOvertaken
<1>1. SizesInv => OldOnlyIfOvertaken
  <2> SUFFICES ASSUME SizesInv, NEW k \in Keys,
                      entry[k].status = "ready", entry[k].size # size[k]
               PROVE  Cleaning(k) \/ k \in halfDone \/ \E a \in entry[k].by : <<a, k>> \in overtaken
    BY DEF OldOnlyIfOvertaken
  <2>1. Accounted(k)
    BY DEF SizesInv, OldEntries
  <2>2. ASSUME NEW c \in Cleanups, Corrects(c, k) PROVE Cleaning(k)
    <3>1. pc[c] \in {"ran", "after", "remembered"} /\ \E j \in keys[c] : k \in Shares(j)
      BY <2>2 DEF Corrects
    <3>2. k \in UNION {Shares(j) : j \in keys[c]}
      BY <3>1
    <3> QED
      BY <3>1, <3>2 DEF Cleaning
  <2> QED
    BY <2>1, <2>2 DEF Accounted
<1> QED
  BY <1>1, SizesInitInv, SizesStepInv, PTL DEF SizesSpec
=============================================================================
