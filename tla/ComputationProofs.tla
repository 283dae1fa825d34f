-------------------------- MODULE ComputationProofs --------------------------
(***************************************************************************)
(* Theorems about the analysis of results, for any queries, tables, plans  *)
(* of transforms and bounds.                                               *)
(*                                                                         *)
(* The parts of the invariant are operators on the port m, the worker w,   *)
(* the responses rs, the jobs js, the actions d that wait and the registry *)
(* c, because a step of a job does several things in a row: it takes the   *)
(* answer, moves on, deletes a frame and posts the next task.  Each of     *)
(* these is shown to preserve the invariant by itself.                     *)
(***************************************************************************)
EXTENDS Computation, TLAPS

-----------------------------------------------------------------------------
(***************************************************************************)
(* Shapes.  What tables, plans and summaries are does not matter.          *)
(***************************************************************************)
IsSeq(s) == \E S : s \in Seq(S)

Transforming == {"summarize", "precompute", "column", "sort"}
ReadingAt == {"read_summary", "read_metadata", "read_column", "read_sorted"}
\* The analysis has no frame in the registry yet
Early == {"ingest", "write", "finish"}
\* The analysis has a frame with its table
Later == {"summarize", "read_summary", "precompute", "read_metadata", "column", "read_column"}
Awaiting == Early \cup Transforming \cup ReadingAt
Ended == {"done", "failed", "stuck"}

TaskOf(at) ==
  IF at = "ingest" THEN "DATAFRAME_FROM_INGEST"
  ELSE IF at = "write" THEN "DATAFRAME_INGEST_WRITE"
  ELSE IF at = "finish" THEN "DATAFRAME_INGEST_FINISH"
  ELSE IF at \in Transforming THEN "DATAFRAME_TRANSFORM" ELSE "DATAFRAME_SCAN"

MainShape(m) ==
  m = [nextMessageId |-> m.nextMessageId, pendingRequests |-> m.pendingRequests,
       nextScanId |-> m.nextScanId, activeScans |-> m.activeScans, requests |-> m.requests]
WorkerShape(w) ==
  w = [module |-> w.module, nextFrameId |-> w.nextFrameId, frameBuilders |-> w.frameBuilders,
       frames |-> w.frames, transforms |-> w.transforms]
JobShape(job) ==
  job = [kind |-> job.kind, query |-> job.query, table |-> job.table, at |-> job.at,
         frame |-> job.frame, stats |-> job.stats, out |-> job.out, column |-> job.column,
         ordering |-> job.ordering, data |-> job.data, failure |-> job.failure]
ScanShape(scan) == scan = [owner |-> scan.owner, messageData |-> scan.messageData]
StateShape(state) ==
  state = [dataTable |-> state.dataTable, tableFrame |-> state.tableFrame,
           dataFrame |-> state.dataFrame, ordering |-> state.ordering,
           orderingStatus |-> state.orderingStatus, columnGroups |-> state.columnGroups,
           columnStatus |-> state.columnStatus, columnSummaries |-> state.columnSummaries,
           summaryStatus |-> state.summaryStatus, summary |-> state.summary,
           precomputationStatus |-> state.precomputationStatus]
ViewShape(v) ==
  v = [query |-> v.query, layout |-> v.layout, frame |-> v.frame, stale |-> v.stale,
       reused |-> v.reused, rendered |-> v.rendered]

-----------------------------------------------------------------------------
(***************************************************************************)
(* The port: numbers are given once.                                       *)
(***************************************************************************)
MessageIds(m) == 0..(m.nextMessageId - 1)
ScanIds(m) == 0..(m.nextScanId - 1)
FrameIds(w) == 0..(w.nextFrameId - 1)

RequestOK(m, w, r) ==
  /\ r.messageId \in MessageIds(m)
  /\ r.type = "DATAFRAME_SCAN" => r.data.scan \in ScanIds(m)
  /\ r.type \in {"DATAFRAME_INGEST_WRITE", "DATAFRAME_INGEST_FINISH", "DATAFRAME_DELETE"} =>
       r.data.frame \in FrameIds(w)
IsScanMessage(a, s) == a.type = "DATAFRAME_SCAN_MESSAGE" /\ a.data.scan = s
IsScanFinish(a, s) == a.type = "DATAFRAME_SCAN_FINISH" /\ a.data.scan = s
ResponseOK(m, a) ==
  /\ a.type \in {"OK", "DATAFRAME_ID"} => a.requestId \in MessageIds(m)
  /\ a.type \in {"DATAFRAME_SCAN_MESSAGE", "DATAFRAME_SCAN_FINISH"} => a.data.scan \in ScanIds(m)

ShapesOK(m, w) ==
  /\ MainShape(m) /\ WorkerShape(w)
  /\ m.nextMessageId \in Nat \ {0} /\ m.nextScanId \in Nat /\ w.nextFrameId \in Nat
  /\ DOMAIN w.frames \subseteq FrameIds(w) /\ DOMAIN w.frameBuilders \subseteq FrameIds(w)
  /\ \A t \in w.transforms : t.request.messageId \in MessageIds(m) /\ t.id \in FrameIds(w)
QueuesOK(m, w, rs) ==
  /\ IsSeq(m.requests) /\ \A i \in DOMAIN m.requests : RequestOK(m, w, m.requests[i])
  /\ IsSeq(rs) /\ \A i \in DOMAIN rs : ResponseOK(m, rs[i])
PendingOK(m, js) ==
  /\ \A n \in DOMAIN m.pendingRequests :
       n \in MessageIds(m) /\ m.pendingRequests[n].owner \in DOMAIN js \cup {Nobody, Provider}
  /\ 0 \in DOMAIN m.pendingRequests => m.pendingRequests[0].owner = Provider
  /\ \A s \in DOMAIN m.activeScans : s \in ScanIds(m) /\ ScanShape(m.activeScans[s])

-----------------------------------------------------------------------------
(***************************************************************************)
(* Frames.                                                                 *)
(***************************************************************************)
Deletes(r, f) == r.type = "DATAFRAME_DELETE" /\ r.data.frame = f
Doomed(m, f) == \E i \in DOMAIN m.requests : Deletes(m.requests[i], f)
Living(m, w, f) == f \in DOMAIN w.frames /\ ~Doomed(m, f)
Unborn(m, w, f) == f \in FrameIds(w) /\ f \notin DOMAIN w.frames /\ ~Doomed(m, f)

FinishOf(r, f) == r.type = "DATAFRAME_INGEST_FINISH" /\ r.data.frame = f
Finishes(m, f) == \E i \in DOMAIN m.requests : FinishOf(m.requests[i], f)
WriteOf(r, f) == r.type = "DATAFRAME_INGEST_WRITE" /\ r.data.frame = f
Written(m, f) == \E i \in DOMAIN m.requests : WriteOf(m.requests[i], f)
\* What the worker writes into the builder f is the table
WritesOnly(m, f, table) ==
  \A i \in DOMAIN m.requests : WriteOf(m.requests[i], f) => m.requests[i].data.table = table
Transformed(w, f) == \E t \in w.transforms : t.id = f

\* Frames that do not exist yet have one maker
BirthsOK(m, w) ==
  /\ \A t \in w.transforms : Unborn(m, w, t.id) /\ ~Finishes(m, t.id)
  /\ \A t, u \in w.transforms : t.id = u.id => t = u
  /\ \A i \in DOMAIN m.requests : \A f : FinishOf(m.requests[i], f) => Unborn(m, w, f)
  /\ \A i, k \in DOMAIN m.requests : \A f :
       FinishOf(m.requests[i], f) /\ FinishOf(m.requests[k], f) => i = k

\* When the worker comes to a request, the frames it reads are there
ReadsOK(m, w) ==
  \A i \in DOMAIN m.requests : \A f \in ReadBy(m.requests[i]) :
    f \in DOMAIN w.frames /\ \A k \in 1..(i - 1) : ~Deletes(m.requests[k], f)

-----------------------------------------------------------------------------
(***************************************************************************)
(* The jobs and what they await.                                           *)
(***************************************************************************)
Awaits(m, n, j) == n \in DOMAIN m.pendingRequests /\ m.pendingRequests[n].owner = j

JobOK(job) ==
  /\ JobShape(job)
  /\ job.query \in Queries
  /\ \/ job.kind = "analyze" /\ job.at \in Early \cup Later \cup Ended
     \/ job.kind = "sort" /\ job.at \in Ended \cup {"sort", "read_sorted"}

JobsOK(m, js) ==
  /\ IsSeq(js) /\ \A j \in DOMAIN js : JobOK(js[j])
  /\ \A j \in DOMAIN js : \A n : Awaits(m, n, j) =>
       js[j].at \in Awaiting /\ m.pendingRequests[n].type = TaskOf(js[j].at)
  /\ \A j \in DOMAIN js : \A n, k : Awaits(m, n, j) /\ Awaits(m, k, j) => n = k

\* The request that a job awaits
Asks(m, j, job, r) ==
  /\ r.type = TaskOf(job.at)
  /\ job.at = "write" => r.data.frame = job.frame /\ r.data.table = job.table
  /\ job.at = "finish" => r.data.frame = job.frame
  /\ job.at = "sort" => r.data.transform = createOrderByTransform(job.ordering)
  /\ job.at \in ReadingAt =>
       /\ r.data.frame = job.out
       /\ r.data.scan \in DOMAIN m.activeScans /\ m.activeScans[r.data.scan].owner = j
RequestsOK(m, js) ==
  \A i \in DOMAIN m.requests, j \in DOMAIN js :
    Awaits(m, m.requests[i].messageId, j) => Asks(m, j, js[j], m.requests[i])

Ordered(table, job) == job.ordering # Null => table.order = job.ordering
Made(t, job) ==
  /\ job.at \in Transforming
  /\ job.at = "sort" /\ t.result # <<>> => Ordered(t.result[1], job)
TransformsOK(m, w, js) ==
  \A t \in w.transforms, j \in DOMAIN js : Awaits(m, t.request.messageId, j) => Made(t, js[j])

Ingested(table) == [fields |-> table, order |-> Null]

\* The frame that a job is given
Given(m, w, job, f) ==
  /\ job.at \in {"ingest"} \cup Transforming
  /\ job.at = "ingest" =>
       Unborn(m, w, f) /\ ~Finishes(m, f) /\ ~Transformed(w, f) /\ ~Written(m, f)
  /\ job.at \in Transforming => Living(m, w, f)
  /\ job.at = "sort" => Ordered(w.frames[f], job)
\* The scan of job j was read before the i-th response
ScanRead(m, w, rs, js, j, i) ==
  \/ /\ js[j].data = <<w.frames[js[j].out]>>
     /\ \A s \in DOMAIN m.activeScans : m.activeScans[s].owner # j
  \/ \E b \in 1..(i - 1) : \E s \in DOMAIN m.activeScans :
       IsScanFinish(rs[b], s) /\ m.activeScans[s].owner = j
AnsweredOK(m, w, rs, js, j, i) ==
  /\ js[j].at = "write" =>
       js[j].frame \in DOMAIN w.frameBuilders /\ w.frameBuilders[js[j].frame] = js[j].table
  /\ js[j].at = "finish" => js[j].frame \in DOMAIN w.frames
  /\ js[j].at \in ReadingAt => ScanRead(m, w, rs, js, j, i)
AnswersOK(m, w, rs, js) ==
  \A i \in DOMAIN rs, j \in DOMAIN js : Awaits(m, rs[i].requestId, j) =>
    /\ rs[i].type = "DATAFRAME_ID" => Given(m, w, js[j], rs[i].data.frame)
    /\ rs[i].type = "OK" => AnsweredOK(m, w, rs, js, j, i)

\* The frames of one job
JobFrames(m, w, job) ==
  /\ job.at = "write" =>
       /\ Unborn(m, w, job.frame) /\ ~Finishes(m, job.frame) /\ ~Transformed(w, job.frame)
       /\ WritesOnly(m, job.frame, job.table)
  /\ job.at = "finish" =>
       /\ job.frame \in DOMAIN w.frameBuilders /\ w.frameBuilders[job.frame] = job.table
       /\ WritesOnly(m, job.frame, job.table)
       /\ ~Transformed(w, job.frame) /\ ~Doomed(m, job.frame)
       /\ job.frame \in DOMAIN w.frames => w.frames[job.frame] = Ingested(job.table)
  /\ job.at \in Early => job.stats = NoFrame
  /\ job.at \in Later =>
       /\ Living(m, w, job.frame) /\ job.stats # job.frame
       /\ job.stats # NoFrame => Living(m, w, job.stats)
  /\ job.at \in ReadingAt => Living(m, w, job.out)
  /\ job.at = "read_sorted" => Ordered(w.frames[job.out], job)
  /\ job.at \in ReadingAt /\ job.at # "read_sorted" => job.out # job.frame /\ job.out # job.stats
JobFramesOK(m, w, js) == \A j \in DOMAIN js : JobFrames(m, w, js[j])

\* What a job has a frame for, or will be given
Owns(job, f) ==
  \/ job.at \in {"write", "finish"} \cup Later /\ f = job.frame
  \/ job.at \in Later /\ f = job.stats /\ f # NoFrame
  \/ job.at \in ReadingAt /\ f = job.out
Incoming(m, w, rs, j, f) ==
  \/ \E t \in w.transforms : Awaits(m, t.request.messageId, j) /\ t.id = f
  \/ \E i \in DOMAIN rs :
       rs[i].type = "DATAFRAME_ID" /\ Awaits(m, rs[i].requestId, j) /\ rs[i].data.frame = f
Holds(m, w, rs, js, j, f) == Owns(js[j], f) \/ Incoming(m, w, rs, j, f)

HoldsOK(m, w, rs, js) ==
  /\ \A j, k \in DOMAIN js : \A f : Holds(m, w, rs, js, j, f) /\ Holds(m, w, rs, js, k, f) => j = k
  /\ \A j \in DOMAIN js : \A f : Owns(js[j], f) => f \in FrameIds(w) /\ ~Incoming(m, w, rs, j, f)

-----------------------------------------------------------------------------
(***************************************************************************)
(* Scans.                                                                  *)
(***************************************************************************)
Scanned(w, js, scan) == w.frames[js[scan.owner].out]
ScanOwnersOK(m, w, js) ==
  /\ \A s \in DOMAIN m.activeScans :
       /\ m.activeScans[s].owner \in DOMAIN js /\ js[m.activeScans[s].owner].at \in ReadingAt
       /\ m.activeScans[s].messageData \in {<<>>, <<Scanned(w, js, m.activeScans[s])>>}
  /\ \A s, u \in DOMAIN m.activeScans : m.activeScans[s].owner = m.activeScans[u].owner => s = u

IsScan(r, s) == r.type = "DATAFRAME_SCAN" /\ r.data.scan = s
ScanRequestsOK(m, rs, js) ==
  \A i \in DOMAIN m.requests : \A s : IsScan(m.requests[i], s) =>
    /\ \A k \in DOMAIN m.requests : IsScan(m.requests[k], s) => k = i
    /\ \A a \in DOMAIN rs : ~IsScanMessage(rs[a], s) /\ ~IsScanFinish(rs[a], s)
    /\ s \in DOMAIN m.activeScans =>
         /\ m.activeScans[s].messageData = <<>>
         /\ m.requests[i].data.frame = js[m.activeScans[s].owner].out

ScanMessagesOK(m, w, rs, js) ==
  \A s \in DOMAIN m.activeScans :
    /\ \A a, b \in DOMAIN rs : IsScanMessage(rs[a], s) /\ IsScanMessage(rs[b], s) => a = b
    /\ \A a \in DOMAIN rs : IsScanMessage(rs[a], s) =>
         /\ m.activeScans[s].messageData = <<>>
         /\ rs[a].data.buffer = Scanned(w, js, m.activeScans[s])
    /\ \A b \in DOMAIN rs : IsScanFinish(rs[b], s) =>
         \/ m.activeScans[s].messageData # <<>>
         \/ \E a \in 1..(b - 1) : IsScanMessage(rs[a], s)

\* The jobs, the port and the worker
CoreOK(m, w, rs, js) ==
  /\ ShapesOK(m, w) /\ QueuesOK(m, w, rs) /\ PendingOK(m, js)
  /\ BirthsOK(m, w) /\ ReadsOK(m, w)
  /\ JobsOK(m, js) /\ RequestsOK(m, js) /\ TransformsOK(m, w, js) /\ AnswersOK(m, w, rs, js)
  /\ JobFramesOK(m, w, js) /\ HoldsOK(m, w, rs, js)
  /\ ScanOwnersOK(m, w, js) /\ ScanRequestsOK(m, rs, js) /\ ScanMessagesOK(m, w, rs, js)

-----------------------------------------------------------------------------
(***************************************************************************)
(* The registry and what waits for it.                                     *)
(***************************************************************************)
OrderingTypes == {"TABLE_ORDERING_TASK_RUNNING", "TABLE_ORDERING_TASK_SUCCEEDED"}
SetsFrame(a) ==
  a.type \in {"CREATED_DATA_FRAME", "PRECOMPUTATION_TASK_SUCCEEDED", "TABLE_ORDERING_TASK_SUCCEEDED"}
FrameOf(a) == IF a.type = "CREATED_DATA_FRAME" THEN a.value ELSE a.value.frame

StateOK(m, w, state) ==
  /\ StateShape(state)
  /\ state.tableFrame \in {NoFrame, state.dataFrame}
  /\ state.dataFrame # NoFrame =>
       Living(m, w, state.dataFrame) /\ w.frames[state.dataFrame] = state.dataTable
  /\ state.ordering # Null => state.dataTable.order = state.ordering
ActionOK(m, w, a) ==
  /\ a.query \in Queries
  /\ SetsFrame(a) => Living(m, w, FrameOf(a))
  /\ SetsFrame(a) /\ a.type # "CREATED_DATA_FRAME" => w.frames[FrameOf(a)] = a.value.table
  /\ a.type = "TABLE_ORDERING_TASK_SUCCEEDED" /\ a.value.ordering # Null =>
       a.value.table.order = a.value.ordering
RegistryOK(m, w, d, c) ==
  /\ \A q \in DOMAIN c : q \in Queries /\ StateOK(m, w, c[q])
  /\ IsSeq(d) /\ \A i \in DOMAIN d : ActionOK(m, w, d[i])

Shows(c, q, f) == q \in DOMAIN c /\ c[q].dataFrame = f /\ f # NoFrame
Brings(a, f) == SetsFrame(a) /\ FrameOf(a) = f
UniqueOK(d, c) ==
  /\ \A q, r : \A f : Shows(c, q, f) /\ Shows(c, r, f) => q = r
  /\ \A i, k \in DOMAIN d : \A f : Brings(d[i], f) /\ Brings(d[k], f) => i = k
  /\ \A i \in DOMAIN d : \A f, q : ~(Brings(d[i], f) /\ Shows(c, q, f))

\* A frame that a job holds is known as the table of its analysis only
Known(d, c, q, f) == Shows(c, q, f) \/ \E i \in DOMAIN d : Brings(d[i], f) /\ d[i].query = q
HeldBy(m, w, rs, js, d, c, j) ==
  \A q, f : Holds(m, w, rs, js, j, f) /\ Known(d, c, q, f) =>
    js[j].at \in Later /\ js[j].query = q /\ f = js[j].frame
HeldOK(m, w, rs, js, d, c) == \A j \in DOMAIN js : HeldBy(m, w, rs, js, d, c, j)

IsAnalysis(job, q) == job.kind = "analyze" /\ job.query = q
Analysed(js, q) == \E j \in DOMAIN js : IsAnalysis(js[j], q)
HasSort(js, q) == \E j \in DOMAIN js : js[j].kind = "sort" /\ js[j].query = q
\* A query can be sorted when its analysis is done
SettledOK(js, d, c, q) ==
  /\ q \in DOMAIN c
  /\ \E j \in DOMAIN js : IsAnalysis(js[j], q) /\ js[j].at = "done"
  /\ \A i \in DOMAIN d : d[i].query = q => d[i].type \in OrderingTypes
OpenOK(js, d, c, v) ==
  /\ \A j, k \in DOMAIN js : \A q : IsAnalysis(js[j], q) /\ IsAnalysis(js[k], q) => j = k
  /\ \A q \in Queries : v.query = q \/ HasSort(js, q) => SettledOK(js, d, c, q)
  /\ \A i \in DOMAIN d : d[i].type \in OrderingTypes => HasSort(js, d[i].query)
  /\ \A i \in DOMAIN d : Analysed(js, d[i].query)
  /\ \A q \in DOMAIN c : Analysed(js, q)
  /\ \A q \in DOMAIN c : c[q].ordering # Null => HasSort(js, q)

\* The table of the query q is the result T when i actions are reduced
Pristine(d, c, q, T, i) ==
  /\ \A k \in 1..i : d[k].query = q =>
       d[k].type = "COMPUTATION_FROM_QUERY_RESULT" /\ d[k].value.table = T
  /\ \/ \E k \in 1..i : d[k].query = q
     \/ /\ q \in DOMAIN c
        /\ c[q].dataTable = Ingested(T) /\ c[q].ordering = Null /\ c[q].tableFrame = NoFrame
CreatedOK(w, js, d, c) ==
  /\ \A i \in DOMAIN d : d[i].type = "CREATED_DATA_FRAME" =>
       \E T : w.frames[d[i].value] = Ingested(T) /\ Pristine(d, c, d[i].query, T, i - 1)
  /\ \A j \in DOMAIN js : js[j].at \in Early => Pristine(d, c, js[j].query, js[j].table, Len(d))

\* The page has the frame of the table that it shows
Follows(state, old) ==
  \/ state.dataFrame = old.dataFrame /\ state.tableFrame = old.tableFrame
  \/ state.dataFrame # old.dataFrame /\ state.tableFrame = state.dataFrame /\ state.dataFrame # NoFrame
ShownOK(d, c, r, v) ==
  /\ v.query \in Queries
  /\ v.frame = v.rendered.dataFrame
  /\ v.rendered.tableFrame \in {NoFrame, v.rendered.dataFrame}
  /\ ~r => v.rendered = c[v.query]
  /\ Follows(c[v.query], v.rendered)
  /\ \A i \in DOMAIN d : ~Brings(d[i], v.rendered.dataFrame)
ViewOK(d, c, r, v) ==
  /\ ViewShape(v) /\ r \in BOOLEAN
  /\ v.query = NoQuery => ~v.stale
  /\ v.query # NoQuery => ShownOK(d, c, r, v)

TablesOK(m, w, rs, js, d, c, v) ==
  /\ RegistryOK(m, w, d, c) /\ UniqueOK(d, c) /\ HeldOK(m, w, rs, js, d, c)
  /\ OpenOK(js, d, c, v) /\ CreatedOK(w, js, d, c)

InvOK(m, w, rs, js, d, c, r, v) ==
  CoreOK(m, w, rs, js) /\ TablesOK(m, w, rs, js, d, c, v) /\ ViewOK(d, c, r, v)

ComputationInv == InvOK(main, worker, responses, jobs, dispatched, computations, rendering, view)

-----------------------------------------------------------------------------
(***************************************************************************)
(* Sequences and maps.                                                     *)
(***************************************************************************)
LEMMA SeqDomain ==
  ASSUME NEW s, IsSeq(s)
  PROVE  Len(s) \in Nat /\ DOMAIN s = 1..Len(s)
BY DEF IsSeq

LEMMA SeqAppend ==
  ASSUME NEW s, IsSeq(s), NEW x
  PROVE  /\ IsSeq(Append(s, x)) /\ Len(Append(s, x)) = Len(s) + 1
         /\ DOMAIN Append(s, x) = DOMAIN s \cup {Len(s) + 1} /\ Len(s) + 1 \notin DOMAIN s
         /\ \A i \in DOMAIN s : Append(s, x)[i] = s[i]
         /\ Append(s, x)[Len(s) + 1] = x
<1>1. PICK S : s \in Seq(S)
  BY DEF IsSeq
<1>2. Append(s, x) \in Seq(S \cup {x})
  BY <1>1
<1> QED
  BY <1>1, <1>2 DEF IsSeq

LEMMA SeqTail ==
  ASSUME NEW s, IsSeq(s), s # <<>>
  PROVE  /\ IsSeq(Tail(s)) /\ Len(Tail(s)) = Len(s) - 1
         /\ 1 \in DOMAIN s /\ Head(s) = s[1]
         /\ \A i \in DOMAIN Tail(s) : i + 1 \in DOMAIN s /\ Tail(s)[i] = s[i + 1]
<1>1. PICK S : s \in Seq(S)
  BY DEF IsSeq
<1>2. Tail(s) \in Seq(S)
  BY <1>1
<1> QED
  BY <1>1, <1>2 DEF IsSeq

LEMMA SeqExcept ==
  ASSUME NEW s, IsSeq(s), NEW j \in DOMAIN s, NEW x
  PROVE  /\ IsSeq([s EXCEPT ![j] = x]) /\ DOMAIN [s EXCEPT ![j] = x] = DOMAIN s
         /\ Len([s EXCEPT ![j] = x]) = Len(s)
<1>1. PICK S : s \in Seq(S)
  BY DEF IsSeq
<1>2. [s EXCEPT ![j] = x] \in Seq(S \cup {x})
  BY <1>1
<1> QED
  BY <1>1, <1>2 DEF IsSeq

LEMMA SeqConcat ==
  ASSUME NEW s, IsSeq(s), NEW t, IsSeq(t)
  PROVE  /\ IsSeq(s \o t) /\ Len(s \o t) = Len(s) + Len(t)
         /\ \A i \in 1..Len(s) : (s \o t)[i] = s[i]
         /\ \A i \in 1..Len(t) : (s \o t)[Len(s) + i] = t[i]
<1>1. PICK S : s \in Seq(S)
  BY DEF IsSeq
<1>2. PICK T : t \in Seq(T)
  BY DEF IsSeq
<1>3. s \in Seq(S \cup T) /\ t \in Seq(S \cup T)
  BY <1>1, <1>2
<1>4. s \o t \in Seq(S \cup T)
  BY <1>3
<1> QED
  BY <1>3, <1>4 DEF IsSeq

LEMMA SeqEmpty == IsSeq(<<>>) /\ DOMAIN <<>> = {} /\ Len(<<>>) = 0
<1>1. <<>> \in Seq({})
  OBVIOUS
<1> QED
  BY <1>1 DEF IsSeq

\* One element and two elements at the end of a sequence
LEMMA SeqOne ==
  ASSUME NEW s, IsSeq(s), NEW x
  PROVE  s \o <<x>> = Append(s, x)
<1>1. PICK S : s \in Seq(S)
  BY DEF IsSeq
<1> QED
  BY <1>1

LEMMA SeqTwo ==
  ASSUME NEW s, IsSeq(s), NEW x, NEW y
  PROVE  s \o <<x, y>> = Append(Append(s, x), y)
<1>1. PICK S : s \in Seq(S)
  BY DEF IsSeq
<1>2. s \in Seq(S \cup {x, y})
  BY <1>1
<1> QED
  BY <1>2

LEMMA SeqThree ==
  ASSUME NEW s, IsSeq(s), NEW x, NEW y, NEW z
  PROVE  s \o <<x, y, z>> = Append(Append(Append(s, x), y), z)
<1>1. PICK S : s \in Seq(S)
  BY DEF IsSeq
<1>2. s \in Seq(S \cup {x, y, z})
  BY <1>1
<1> QED
  BY <1>2

-----------------------------------------------------------------------------
(***************************************************************************)
(* Changes of the port and of the jobs, one at a time.                     *)
(***************************************************************************)
SameRequests(m, n) ==
  /\ MainShape(n)
  /\ n.requests = m.requests /\ n.nextMessageId = m.nextMessageId

LEMMA SameDoomed ==
  ASSUME NEW m, NEW n, SameRequests(m, n), NEW w
  PROVE  /\ \A f : Doomed(n, f) <=> Doomed(m, f)
         /\ \A f : Finishes(n, f) <=> Finishes(m, f)
         /\ \A f : Written(n, f) <=> Written(m, f)
         /\ \A f, T : WritesOnly(n, f, T) <=> WritesOnly(m, f, T)
         /\ \A f : Living(n, w, f) <=> Living(m, w, f)
         /\ \A f : Unborn(n, w, f) <=> Unborn(m, w, f)
         /\ \A job : JobFrames(n, w, job) <=> JobFrames(m, w, job)
         /\ \A job, f : Given(n, w, job, f) <=> Given(m, w, job, f)
<1>1. n.requests = m.requests
  BY DEF SameRequests
<1>2. /\ \A f : Doomed(n, f) <=> Doomed(m, f)
      /\ \A f : Finishes(n, f) <=> Finishes(m, f)
      /\ \A f : Written(n, f) <=> Written(m, f)
      /\ \A f, T : WritesOnly(n, f, T) <=> WritesOnly(m, f, T)
  BY <1>1 DEF Doomed, Finishes, Written, WritesOnly
<1>3. /\ \A f : Living(n, w, f) <=> Living(m, w, f)
      /\ \A f : Unborn(n, w, f) <=> Unborn(m, w, f)
  BY <1>2 DEF Living, Unborn
<1>4. \A job : JobFrames(n, w, job) <=> JobFrames(m, w, job)
  BY <1>2, <1>3 DEF JobFrames
<1>5. \A job, f : Given(n, w, job, f) <=> Given(m, w, job, f)
  BY <1>2, <1>3 DEF Given
<1> QED
  BY <1>2, <1>3, <1>4, <1>5

LEMMA SameReads ==
  ASSUME NEW m, NEW n, SameRequests(m, n), NEW w
  PROVE  /\ BirthsOK(m, w) => BirthsOK(n, w)
         /\ ReadsOK(m, w) => ReadsOK(n, w)
<1>1. n.requests = m.requests
  BY DEF SameRequests
<1>2. BirthsOK(m, w) => BirthsOK(n, w)
  BY <1>1, SameDoomed DEF BirthsOK
<1>3. ReadsOK(m, w) => ReadsOK(n, w)
  BY <1>1 DEF ReadsOK
<1> QED
  BY <1>2, <1>3

\* Nobody waits for the answers to some of the tasks any more, and some of the
\* scans of jobs that wait for nothing are gone.
Fewer(m, n) ==
  /\ SameRequests(m, n) /\ n.nextScanId = m.nextScanId
  /\ DOMAIN n.pendingRequests \subseteq DOMAIN m.pendingRequests
  /\ \A k \in DOMAIN n.pendingRequests : n.pendingRequests[k] = m.pendingRequests[k]
  /\ DOMAIN n.activeScans \subseteq DOMAIN m.activeScans
  /\ \A s \in DOMAIN n.activeScans : n.activeScans[s] = m.activeScans[s]
  /\ \A s \in DOMAIN m.activeScans \ DOMAIN n.activeScans : \A k : ~Awaits(n, k, m.activeScans[s].owner)

LEMMA FewerAwaits ==
  ASSUME NEW m, NEW n, Fewer(m, n), NEW w, NEW rs, NEW js
  PROVE  /\ \A k, j : Awaits(n, k, j) => Awaits(m, k, j)
         /\ \A j, f : Incoming(n, w, rs, j, f) => Incoming(m, w, rs, j, f)
         /\ \A j, f : Holds(n, w, rs, js, j, f) => Holds(m, w, rs, js, j, f)
<1>1. \A k, j : Awaits(n, k, j) => Awaits(m, k, j)
  BY DEF Fewer, Awaits
<1>2. \A j, f : Incoming(n, w, rs, j, f) => Incoming(m, w, rs, j, f)
  BY <1>1 DEF Incoming
<1> QED
  BY <1>1, <1>2 DEF Holds

LEMMA FewerKeeps ==
  ASSUME NEW m, NEW n, Fewer(m, n), NEW w, NEW rs, NEW js, CoreOK(m, w, rs, js)
  PROVE  CoreOK(n, w, rs, js)
<1>1. SameRequests(m, n) /\ n.requests = m.requests /\ n.nextMessageId = m.nextMessageId
      /\ n.nextScanId = m.nextScanId
  BY DEF Fewer, SameRequests
<1>2. MessageIds(n) = MessageIds(m) /\ ScanIds(n) = ScanIds(m)
  BY <1>1 DEF MessageIds, ScanIds
<1>3. ShapesOK(n, w)
  BY <1>1, <1>2 DEF CoreOK, ShapesOK, SameRequests
<1>4. QueuesOK(n, w, rs)
  BY <1>1, <1>2 DEF CoreOK, QueuesOK, RequestOK, ResponseOK
<1>5. PendingOK(n, js)
  BY <1>2 DEF CoreOK, PendingOK, Fewer
<1>6. BirthsOK(n, w) /\ ReadsOK(n, w)
  BY <1>1, SameReads DEF CoreOK
<1>7. JobsOK(n, js)
  BY FewerAwaits DEF CoreOK, JobsOK, Fewer, Awaits
<1>8. RequestsOK(n, js)
  <2> SUFFICES ASSUME NEW i \in DOMAIN n.requests, NEW j \in DOMAIN js,
                      Awaits(n, n.requests[i].messageId, j)
               PROVE  Asks(n, j, js[j], n.requests[i])
    BY DEF RequestsOK
  <2>1. Asks(m, j, js[j], m.requests[i])
    BY <1>1, FewerAwaits DEF CoreOK, RequestsOK
  <2> QED
    BY <1>1, <2>1 DEF Asks, Fewer
<1>9. TransformsOK(n, w, js)
  BY FewerAwaits DEF CoreOK, TransformsOK
<1>10. AnswersOK(n, w, rs, js)
  <2> SUFFICES ASSUME NEW i \in DOMAIN rs, NEW j \in DOMAIN js, Awaits(n, rs[i].requestId, j)
               PROVE  /\ rs[i].type = "DATAFRAME_ID" => Given(n, w, js[j], rs[i].data.frame)
                      /\ rs[i].type = "OK" => AnsweredOK(n, w, rs, js, j, i)
    BY DEF AnswersOK
  <2>1. /\ rs[i].type = "DATAFRAME_ID" => Given(m, w, js[j], rs[i].data.frame)
        /\ rs[i].type = "OK" => AnsweredOK(m, w, rs, js, j, i)
    BY FewerAwaits DEF CoreOK, AnswersOK
  <2>2. ScanRead(m, w, rs, js, j, i) => ScanRead(n, w, rs, js, j, i)
    BY DEF ScanRead, Fewer
  <2> QED
    BY <1>1, <2>1, <2>2, SameDoomed DEF AnsweredOK
<1>11. JobFramesOK(n, w, js)
  BY <1>1, SameDoomed DEF CoreOK, JobFramesOK
<1>12. HoldsOK(n, w, rs, js)
  BY FewerAwaits DEF CoreOK, HoldsOK
<1>13. ScanOwnersOK(n, w, js)
  BY DEF CoreOK, ScanOwnersOK, Fewer, Scanned
<1>14. ScanRequestsOK(n, rs, js)
  BY <1>1 DEF CoreOK, ScanRequestsOK, Fewer
<1>15. ScanMessagesOK(n, w, rs, js)
  BY DEF CoreOK, ScanMessagesOK, Fewer, Scanned
<1> QED
  BY <1>3, <1>4, <1>5, <1>6, <1>7, <1>8, <1>9, <1>10, <1>11, <1>12, <1>13, <1>14, <1>15 DEF CoreOK

\* Job j awaits nothing
Idle(m, j) ==
  /\ \A n : ~Awaits(m, n, j)
  /\ \A s \in DOMAIN m.activeScans : m.activeScans[s].owner # j

\* A job that awaits nothing moves on.
LEMMA SetJobKeeps ==
  ASSUME NEW m, NEW w, NEW rs, NEW js, CoreOK(m, w, rs, js),
         NEW j \in DOMAIN js, Idle(m, j), NEW job, JobOK(job), JobFrames(m, w, job),
         \A f : Owns(job, f) =>
           \/ Owns(js[j], f)
           \/ f \in FrameIds(w) /\ \A k \in DOMAIN js : ~Holds(m, w, rs, js, k, f)
  PROVE  CoreOK(m, w, rs, [js EXCEPT ![j] = job])
<1> DEFINE ks == [js EXCEPT ![j] = job]
<1>1. IsSeq(js) /\ IsSeq(ks) /\ DOMAIN ks = DOMAIN js
  BY SeqExcept DEF CoreOK, JobsOK
<1>2. ks[j] = job /\ \A k \in DOMAIN js : k # j => ks[k] = js[k]
  BY <1>1
<1> HIDE DEF ks
<1>3. PendingOK(m, ks)
  BY <1>1 DEF CoreOK, PendingOK
<1>4. JobsOK(m, ks)
  BY <1>1, <1>2 DEF CoreOK, JobsOK, Idle
<1>5. RequestsOK(m, ks)
  BY <1>1, <1>2 DEF CoreOK, RequestsOK, Idle
<1>6. TransformsOK(m, w, ks)
  BY <1>1, <1>2 DEF CoreOK, TransformsOK, Idle
<1>7. AnswersOK(m, w, rs, ks)
  BY <1>1, <1>2 DEF CoreOK, AnswersOK, AnsweredOK, ScanRead, Idle
<1>8. JobFramesOK(m, w, ks)
  BY <1>1, <1>2 DEF CoreOK, JobFramesOK
<1>9. \A f : ~Incoming(m, w, rs, j, f)
  BY DEF Incoming, Idle
<1>10. \A k \in DOMAIN js : \A f : Holds(m, w, rs, ks, k, f) =>
         \/ Holds(m, w, rs, js, k, f)
         \/ /\ k = j /\ f \in FrameIds(w)
            /\ \A l \in DOMAIN js : ~Holds(m, w, rs, js, l, f)
  BY <1>2, <1>9 DEF Holds
<1>11. HoldsOK(m, w, rs, ks)
  <2>1. ASSUME NEW i \in DOMAIN ks, NEW k \in DOMAIN ks, NEW f,
               Holds(m, w, rs, ks, i, f), Holds(m, w, rs, ks, k, f)
        PROVE  i = k
    BY <1>1, <1>10, <2>1 DEF CoreOK, HoldsOK
  <2>2. ASSUME NEW k \in DOMAIN ks, NEW f, Owns(ks[k], f)
        PROVE  f \in FrameIds(w) /\ ~Incoming(m, w, rs, k, f)
    BY <1>1, <1>2, <1>9, <2>2 DEF CoreOK, HoldsOK
  <2> QED
    BY <2>1, <2>2 DEF HoldsOK
<1>12. ScanOwnersOK(m, w, ks)
  BY <1>1, <1>2 DEF CoreOK, ScanOwnersOK, Scanned, Idle
<1>13. ScanRequestsOK(m, rs, ks)
  BY <1>1, <1>2 DEF CoreOK, ScanRequestsOK, ScanOwnersOK, Idle
<1>14. ScanMessagesOK(m, w, rs, ks)
  BY <1>1, <1>2 DEF CoreOK, ScanMessagesOK, ScanOwnersOK, Scanned, Idle
<1> QED
  BY <1>3, <1>4, <1>5, <1>6, <1>7, <1>8, <1>11, <1>12, <1>13, <1>14 DEF CoreOK, ks

\* The number of the next job is free.
LEMMA NextJobIdle ==
  ASSUME NEW m, NEW w, NEW rs, NEW js, CoreOK(m, w, rs, js)
  PROVE  Len(js) + 1 \notin DOMAIN js /\ Len(js) \in Nat /\ Idle(m, Len(js) + 1)
<1>1. Len(js) \in Nat /\ DOMAIN js = 1..Len(js)
  BY SeqDomain DEF CoreOK, JobsOK
<1>2. \A n : ~Awaits(m, n, Len(js) + 1)
  BY <1>1, OwnerAssumption DEF CoreOK, PendingOK, Awaits
<1>3. \A s \in DOMAIN m.activeScans : m.activeScans[s].owner # Len(js) + 1
  BY <1>1 DEF CoreOK, ScanOwnersOK
<1> QED
  BY <1>1, <1>2, <1>3 DEF Idle

LEMMA AddJobKeeps ==
  ASSUME NEW m, NEW w, NEW rs, NEW js, CoreOK(m, w, rs, js),
         NEW job, JobOK(job), JobFrames(m, w, job), \A f : ~Owns(job, f)
  PROVE  CoreOK(m, w, rs, Append(js, job))
<1> DEFINE ks == Append(js, job)
           j == Len(js) + 1
<1>1. /\ IsSeq(js) /\ IsSeq(ks) /\ DOMAIN ks = DOMAIN js \cup {j} /\ j \notin DOMAIN js
      /\ ks[j] = job /\ \A k \in DOMAIN js : ks[k] = js[k]
  BY SeqAppend DEF CoreOK, JobsOK
<1>2. Idle(m, j)
  BY NextJobIdle
<1> HIDE DEF ks, j
<1>3. PendingOK(m, ks)
  BY <1>1 DEF CoreOK, PendingOK
<1>4. JobsOK(m, ks)
  BY <1>1, <1>2 DEF CoreOK, JobsOK, Idle
<1>5. RequestsOK(m, ks)
  BY <1>1, <1>2 DEF CoreOK, RequestsOK, Idle
<1>6. TransformsOK(m, w, ks)
  BY <1>1, <1>2 DEF CoreOK, TransformsOK, Idle
<1>7. AnswersOK(m, w, rs, ks)
  BY <1>1, <1>2 DEF CoreOK, AnswersOK, AnsweredOK, ScanRead, Idle
<1>8. JobFramesOK(m, w, ks)
  BY <1>1 DEF CoreOK, JobFramesOK
<1>9. \A f : ~Incoming(m, w, rs, j, f)
  BY <1>2 DEF Incoming, Idle
<1>10. \A k \in DOMAIN ks : \A f : Holds(m, w, rs, ks, k, f) => k \in DOMAIN js /\ Holds(m, w, rs, js, k, f)
  BY <1>1, <1>9 DEF Holds
<1>11. HoldsOK(m, w, rs, ks)
  <2>1. ASSUME NEW i \in DOMAIN ks, NEW k \in DOMAIN ks, NEW f,
               Holds(m, w, rs, ks, i, f), Holds(m, w, rs, ks, k, f)
        PROVE  i = k
    BY <1>10, <2>1 DEF CoreOK, HoldsOK
  <2>2. ASSUME NEW k \in DOMAIN ks, NEW f, Owns(ks[k], f)
        PROVE  f \in FrameIds(w) /\ ~Incoming(m, w, rs, k, f)
    BY <1>1, <2>2 DEF CoreOK, HoldsOK
  <2> QED
    BY <2>1, <2>2 DEF HoldsOK
<1>12. ScanOwnersOK(m, w, ks)
  BY <1>1 DEF CoreOK, ScanOwnersOK, Scanned
<1>13. ScanRequestsOK(m, rs, ks)
  BY <1>1 DEF CoreOK, ScanRequestsOK, ScanOwnersOK
<1>14. ScanMessagesOK(m, w, rs, ks)
  BY <1>1 DEF CoreOK, ScanMessagesOK, Scanned, ScanOwnersOK
<1> QED
  BY <1>3, <1>4, <1>5, <1>6, <1>7, <1>8, <1>11, <1>12, <1>13, <1>14 DEF CoreOK, ks

-----------------------------------------------------------------------------
(***************************************************************************)
(* A task is posted.                                                       *)
(***************************************************************************)
Posted(m, n, owner, r) ==
  /\ MainShape(n)
  /\ r.messageId = m.nextMessageId /\ n.nextMessageId = m.nextMessageId + 1
  /\ n.pendingRequests = With(m.pendingRequests, m.nextMessageId, ComputeWorkerTask(r.type, owner))
  /\ n.requests = Append(m.requests, r)
  /\ n.nextScanId = m.nextScanId /\ n.activeScans = m.activeScans

LEMMA PostTask ==
  ASSUME NEW m, MainShape(m), NEW owner, NEW type, NEW data, NEW n, n = postTask(m, owner, type, data)
  PROVE  Posted(m, n, owner, Request(m.nextMessageId, type, data))
<1>1. /\ MainShape(n)
      /\ n.nextMessageId = m.nextMessageId + 1
      /\ n.pendingRequests = With(m.pendingRequests, m.nextMessageId, ComputeWorkerTask(type, owner))
      /\ n.requests = Append(m.requests, Request(m.nextMessageId, type, data))
      /\ n.nextScanId = m.nextScanId /\ n.activeScans = m.activeScans
  BY DEF MainShape, postTask
<1> QED
  BY <1>1 DEF Posted, Request

PostedQueue(m, n, r) ==
  /\ IsSeq(n.requests)
  /\ Len(m.requests) + 1 \notin DOMAIN m.requests
  /\ DOMAIN n.requests = DOMAIN m.requests \cup {Len(m.requests) + 1}
  /\ n.requests[Len(m.requests) + 1] = r
  /\ \A i \in DOMAIN m.requests : n.requests[i] = m.requests[i]
PostedFates(m, n, w, r) ==
  /\ \A f : Doomed(n, f) <=> Doomed(m, f) \/ Deletes(r, f)
  /\ \A f : Finishes(n, f) <=> Finishes(m, f) \/ FinishOf(r, f)
  /\ \A f : Written(n, f) <=> Written(m, f) \/ WriteOf(r, f)
  /\ \A f, T : WritesOnly(n, f, T) <=>
       WritesOnly(m, f, T) /\ (WriteOf(r, f) => r.data.table = T)
  /\ \A f : Living(n, w, f) <=> Living(m, w, f) /\ ~Deletes(r, f)
  /\ \A f : Unborn(n, w, f) <=> Unborn(m, w, f) /\ ~Deletes(r, f)

LEMMA PostedRequests ==
  ASSUME NEW m, NEW n, NEW owner, NEW r, Posted(m, n, owner, r), IsSeq(m.requests), NEW w
  PROVE  PostedQueue(m, n, r) /\ PostedFates(m, n, w, r)
<1>1. /\ IsSeq(n.requests)
      /\ Len(m.requests) + 1 \notin DOMAIN m.requests
      /\ DOMAIN n.requests = DOMAIN m.requests \cup {Len(m.requests) + 1}
      /\ n.requests[Len(m.requests) + 1] = r
      /\ \A i \in DOMAIN m.requests : n.requests[i] = m.requests[i]
  BY SeqAppend DEF Posted
<1>2. \A f : Doomed(n, f) <=> Doomed(m, f) \/ Deletes(r, f)
  BY <1>1 DEF Doomed
<1>3. \A f : Finishes(n, f) <=> Finishes(m, f) \/ FinishOf(r, f)
  BY <1>1 DEF Finishes
<1>4. \A f : Written(n, f) <=> Written(m, f) \/ WriteOf(r, f)
  BY <1>1 DEF Written
<1>5. \A f, T : WritesOnly(n, f, T) <=>
        WritesOnly(m, f, T) /\ (WriteOf(r, f) => r.data.table = T)
  BY <1>1 DEF WritesOnly
<1>6. /\ \A f : Living(n, w, f) <=> Living(m, w, f) /\ ~Deletes(r, f)
      /\ \A f : Unborn(n, w, f) <=> Unborn(m, w, f) /\ ~Deletes(r, f)
  BY <1>2 DEF Living, Unborn
<1> QED
  BY <1>1, <1>2, <1>3, <1>4, <1>5, <1>6 DEF PostedQueue, PostedFates

\* Nobody has asked for, or answered, the next message
LEMMA PostedAwaits ==
  ASSUME NEW m, NEW n, NEW owner, NEW r, Posted(m, n, owner, r),
         NEW w, NEW rs, NEW js, CoreOK(m, w, rs, js)
  PROVE  /\ \A k, j : Awaits(n, k, j) <=> Awaits(m, k, j) \/ (k = m.nextMessageId /\ j = owner)
         /\ m.nextMessageId \notin MessageIds(m) /\ MessageIds(m) \subseteq MessageIds(n)
         /\ \A i \in DOMAIN m.requests : \A j : Awaits(n, m.requests[i].messageId, j) =>
              Awaits(m, m.requests[i].messageId, j)
         /\ \A t \in w.transforms : \A j : Awaits(n, t.request.messageId, j) =>
              Awaits(m, t.request.messageId, j)
         /\ \A i \in DOMAIN rs : \A j : rs[i].type \in {"OK", "DATAFRAME_ID"} =>
              (Awaits(n, rs[i].requestId, j) => Awaits(m, rs[i].requestId, j))
         /\ \A j, f : Incoming(n, w, rs, j, f) => Incoming(m, w, rs, j, f)
         /\ \A j, f : Holds(n, w, rs, js, j, f) => Holds(m, w, rs, js, j, f)
<1>1. m.nextMessageId \notin MessageIds(m) /\ MessageIds(m) \subseteq MessageIds(n)
  BY DEF CoreOK, ShapesOK, MessageIds, Posted
<1>2. \A k, j : Awaits(n, k, j) <=> Awaits(m, k, j) \/ (k = m.nextMessageId /\ j = owner)
  BY <1>1 DEF CoreOK, PendingOK, Posted, Awaits, With, ComputeWorkerTask
<1>3. \A i \in DOMAIN m.requests : \A j : Awaits(n, m.requests[i].messageId, j) =>
        Awaits(m, m.requests[i].messageId, j)
  BY <1>1, <1>2 DEF CoreOK, QueuesOK, RequestOK
<1>4. \A t \in w.transforms : \A j : Awaits(n, t.request.messageId, j) => Awaits(m, t.request.messageId, j)
  BY <1>1, <1>2 DEF CoreOK, ShapesOK
<1>5. \A i \in DOMAIN rs : \A j : rs[i].type \in {"OK", "DATAFRAME_ID"} =>
        (Awaits(n, rs[i].requestId, j) => Awaits(m, rs[i].requestId, j))
  BY <1>1, <1>2 DEF CoreOK, QueuesOK, ResponseOK
<1>6. \A j, f : Incoming(n, w, rs, j, f) => Incoming(m, w, rs, j, f)
  BY <1>4, <1>5 DEF Incoming
<1>7. \A j, f : Holds(n, w, rs, js, j, f) => Holds(m, w, rs, js, j, f)
  BY <1>6 DEF Holds
<1> QED
  BY <1>1, <1>2, <1>3, <1>4, <1>5, <1>6, <1>7

\* What may be posted
Posts(m, w, rs, js, owner, r) ==
  /\ \/ owner = Nobody
     \/ /\ owner \in DOMAIN js /\ (\A n : ~Awaits(m, n, owner))
        /\ js[owner].at \in Awaiting /\ Asks(m, owner, js[owner], r)
  /\ r.messageId = m.nextMessageId
  /\ \A f : Deletes(r, f) => f \in DOMAIN w.frames /\ \A j \in DOMAIN js : ~Holds(m, w, rs, js, j, f)
  /\ \A f : FinishOf(r, f) =>
       /\ Unborn(m, w, f) /\ ~Finishes(m, f) /\ ~Transformed(w, f)
       /\ owner \in DOMAIN js /\ js[owner].at = "finish" /\ js[owner].frame = f
  /\ \A f : WriteOf(r, f) =>
       owner \in DOMAIN js /\ js[owner].at = "write" /\ js[owner].frame = f /\ js[owner].table = r.data.table
  /\ \A f \in ReadBy(r) : Living(m, w, f)
  /\ r.type = "DATAFRAME_SCAN" => r.data.scan \in ScanIds(m)
  /\ \A s : IsScan(r, s) =>
       /\ \A k \in DOMAIN m.requests : ~IsScan(m.requests[k], s)
       /\ \A a \in DOMAIN rs : ~IsScanMessage(rs[a], s) /\ ~IsScanFinish(rs[a], s)
       /\ s \in DOMAIN m.activeScans =>
            m.activeScans[s].messageData = <<>> /\ r.data.frame = js[m.activeScans[s].owner].out

LEMMA PostedShapes ==
  ASSUME NEW m, NEW n, NEW owner, NEW r, Posted(m, n, owner, r),
         NEW w, NEW rs, NEW js, CoreOK(m, w, rs, js), Posts(m, w, rs, js, owner, r)
  PROVE  ShapesOK(n, w) /\ QueuesOK(n, w, rs) /\ PendingOK(n, js)
<1>1. /\ m.nextMessageId \notin MessageIds(m) /\ MessageIds(m) \subseteq MessageIds(n)
      /\ m.nextMessageId \in MessageIds(n) /\ ScanIds(n) = ScanIds(m)
  BY DEF CoreOK, ShapesOK, MessageIds, ScanIds, Posted
<1>2. ShapesOK(n, w)
  BY <1>1 DEF CoreOK, ShapesOK, Posted
<1>3. RequestOK(n, w, r)
  <2>1. \A f : (Deletes(r, f) \/ FinishOf(r, f) \/ WriteOf(r, f)) => f \in FrameIds(w)
    BY DEF Posts, CoreOK, ShapesOK, HoldsOK, Owns, Unborn
  <2> QED
    BY <1>1, <2>1 DEF Posts, RequestOK, Deletes, FinishOf, WriteOf
<1>4. QueuesOK(n, w, rs)
  <2>1. IsSeq(m.requests) /\ PostedQueue(m, n, r)
    BY PostedRequests DEF CoreOK, QueuesOK
  <2>2. \A i \in DOMAIN m.requests : RequestOK(n, w, m.requests[i])
    BY <1>1 DEF CoreOK, QueuesOK, RequestOK
  <2>3. \A i \in DOMAIN n.requests : RequestOK(n, w, n.requests[i])
    BY <1>3, <2>1, <2>2 DEF PostedQueue
  <2>4. \A i \in DOMAIN rs : ResponseOK(n, rs[i])
    BY <1>1 DEF CoreOK, QueuesOK, ResponseOK
  <2> QED
    BY <2>1, <2>3, <2>4 DEF CoreOK, QueuesOK, PostedQueue
<1>5. PendingOK(n, js)
  BY <1>1 DEF CoreOK, ShapesOK, PendingOK, Posted, Posts, With, ComputeWorkerTask
<1> QED
  BY <1>2, <1>4, <1>5

LEMMA PostedFrames ==
  ASSUME NEW m, NEW n, NEW owner, NEW r, Posted(m, n, owner, r),
         NEW w, NEW rs, NEW js, CoreOK(m, w, rs, js), Posts(m, w, rs, js, owner, r)
  PROVE  BirthsOK(n, w) /\ ReadsOK(n, w) /\ JobFramesOK(n, w, js) /\ HoldsOK(n, w, rs, js)
<1>1. IsSeq(m.requests) /\ PostedQueue(m, n, r) /\ PostedFates(m, n, w, r)
  BY PostedRequests DEF CoreOK, QueuesOK
<1>2. BirthsOK(n, w)
  <2>1. \A t \in w.transforms : Unborn(n, w, t.id) /\ ~Finishes(n, t.id)
    BY <1>1 DEF PostedQueue, PostedFates, CoreOK, BirthsOK, Posts, Unborn, Transformed
  <2>2. \A i \in DOMAIN n.requests : \A f : FinishOf(n.requests[i], f) => Unborn(n, w, f)
    BY <1>1 DEF PostedQueue, PostedFates, CoreOK, BirthsOK, Posts, Unborn, Deletes, FinishOf
  <2>3. \A i, k \in DOMAIN n.requests : \A f :
          FinishOf(n.requests[i], f) /\ FinishOf(n.requests[k], f) => i = k
    BY <1>1 DEF PostedQueue, PostedFates, CoreOK, BirthsOK, Posts, Finishes
  <2> QED
    BY <2>1, <2>2, <2>3 DEF CoreOK, BirthsOK
<1>3. ReadsOK(n, w)
  <2> SUFFICES ASSUME NEW i \in DOMAIN n.requests, NEW f \in ReadBy(n.requests[i])
               PROVE  f \in DOMAIN w.frames /\ \A k \in 1..(i - 1) : ~Deletes(n.requests[k], f)
    BY DEF ReadsOK
  <2>1. Len(m.requests) \in Nat /\ DOMAIN m.requests = 1..Len(m.requests)
    BY <1>1, SeqDomain
  <2>2. CASE i \in DOMAIN m.requests
    <3>1. n.requests[i] = m.requests[i] /\ \A k \in 1..(i - 1) : n.requests[k] = m.requests[k]
      BY <1>1, <2>1, <2>2 DEF PostedQueue
    <3>2. f \in DOMAIN w.frames /\ \A k \in 1..(i - 1) : ~Deletes(m.requests[k], f)
      BY <2>2, <3>1 DEF CoreOK, ReadsOK
    <3> QED
      BY <3>1, <3>2
  <2>3. CASE i = Len(m.requests) + 1
    BY <1>1, <2>1, <2>3 DEF PostedQueue, PostedFates, Posts, Living, Doomed
  <2> QED
    BY <1>1, <2>2, <2>3 DEF PostedQueue
<1>4. JobFramesOK(n, w, js)
  <2> SUFFICES ASSUME NEW j \in DOMAIN js
               PROVE  JobFrames(n, w, js[j])
    BY DEF JobFramesOK
  <2>1. JobFrames(m, w, js[j])
    BY DEF CoreOK, JobFramesOK
  <2>2. \A f : Owns(js[j], f) => ~Deletes(r, f)
    BY DEF Posts, Holds
  <2>3. js[j].at = "write" => ~FinishOf(r, js[j].frame)
    BY DEF CoreOK, Posts, HoldsOK, Holds, Owns
  <2>4. js[j].at \in {"write", "finish"} /\ WriteOf(r, js[j].frame) => js[j].table = r.data.table
    BY DEF CoreOK, Posts, HoldsOK, Holds, Owns
  <2> QED
    BY <1>1, <2>1, <2>2, <2>3, <2>4 DEF PostedQueue, PostedFates, JobFrames, Owns
<1>5. HoldsOK(n, w, rs, js)
  BY PostedAwaits DEF CoreOK, HoldsOK
<1> QED
  BY <1>2, <1>3, <1>4, <1>5

LEMMA PostedJobs ==
  ASSUME NEW m, NEW n, NEW owner, NEW r, Posted(m, n, owner, r),
         NEW w, NEW rs, NEW js, CoreOK(m, w, rs, js), Posts(m, w, rs, js, owner, r)
  PROVE  JobsOK(n, js) /\ RequestsOK(n, js) /\ TransformsOK(n, w, js) /\ AnswersOK(n, w, rs, js)
<1>1. /\ IsSeq(m.requests) /\ IsSeq(js) /\ DOMAIN js = 1..Len(js)
      /\ PostedQueue(m, n, r) /\ PostedFates(m, n, w, r)
  BY PostedRequests, SeqDomain DEF CoreOK, QueuesOK, JobsOK
<1>2. Nobody \notin DOMAIN js
  BY <1>1, OwnerAssumption
<1>3. \A k, j : Awaits(n, k, j) <=> Awaits(m, k, j) \/ (k = m.nextMessageId /\ j = owner)
  BY PostedAwaits
<1>4. JobsOK(n, js)
  <2>1. ASSUME NEW j \in DOMAIN js, NEW k, Awaits(n, k, j)
        PROVE  js[j].at \in Awaiting /\ n.pendingRequests[k].type = TaskOf(js[j].at)
    <3>1. CASE k = m.nextMessageId
      <4>1. j = owner /\ n.pendingRequests[k].type = r.type
        BY <2>1, <3>1 DEF Awaits, Posted, With, ComputeWorkerTask
      <4> QED
        BY <1>2, <4>1 DEF Posts, Asks
    <3>2. CASE k # m.nextMessageId
      <4>1. Awaits(m, k, j)
        BY <1>3, <2>1, <3>2
      <4>2. n.pendingRequests[k] = m.pendingRequests[k]
        BY <3>2, <4>1 DEF Awaits, Posted, With
      <4> QED
        BY <4>1, <4>2 DEF CoreOK, JobsOK
    <3> QED
      BY <3>1, <3>2
  <2>2. ASSUME NEW j \in DOMAIN js, NEW k, NEW l, Awaits(n, k, j), Awaits(n, l, j)
        PROVE  k = l
    BY <1>2, <1>3, <2>2 DEF CoreOK, JobsOK, Posts
  <2> QED
    BY <2>1, <2>2 DEF CoreOK, JobsOK
<1>5. RequestsOK(n, js)
  <2> SUFFICES ASSUME NEW i \in DOMAIN n.requests, NEW j \in DOMAIN js,
                      Awaits(n, n.requests[i].messageId, j)
               PROVE  Asks(m, j, js[j], n.requests[i])
    BY DEF RequestsOK, Asks, Posted
  <2>1. CASE i \in DOMAIN m.requests
    <3>1. n.requests[i] = m.requests[i]
      BY <1>1, <2>1 DEF PostedQueue
    <3>2. Awaits(m, m.requests[i].messageId, j)
      BY <2>1, <3>1, PostedAwaits
    <3> QED
      BY <2>1, <3>1, <3>2 DEF CoreOK, RequestsOK
  <2>2. CASE i = Len(m.requests) + 1
    <3>1. n.requests[i] = r
      BY <1>1, <2>2 DEF PostedQueue
    <3>2. m.nextMessageId \notin DOMAIN m.pendingRequests
      BY DEF CoreOK, ShapesOK, PendingOK, MessageIds
    <3>3. j = owner
      BY <1>3, <3>1, <3>2 DEF Posts, Awaits
    <3> QED
      BY <1>2, <3>1, <3>3 DEF Posts
  <2> QED
    BY <1>1, <2>1, <2>2 DEF PostedQueue
<1>6. TransformsOK(n, w, js)
  BY PostedAwaits DEF CoreOK, TransformsOK
<1>7. AnswersOK(n, w, rs, js)
  <2> SUFFICES ASSUME NEW i \in DOMAIN rs, NEW j \in DOMAIN js, Awaits(n, rs[i].requestId, j)
               PROVE  /\ rs[i].type = "DATAFRAME_ID" => Given(n, w, js[j], rs[i].data.frame)
                      /\ rs[i].type = "OK" => AnsweredOK(n, w, rs, js, j, i)
    BY DEF AnswersOK
  <2>1. ASSUME rs[i].type = "DATAFRAME_ID"
        PROVE  Given(n, w, js[j], rs[i].data.frame)
    <3> DEFINE f == rs[i].data.frame
    <3>1. Awaits(m, rs[i].requestId, j)
      BY <2>1, PostedAwaits
    <3>2. Given(m, w, js[j], f) /\ Holds(m, w, rs, js, j, f)
      BY <2>1, <3>1 DEF CoreOK, AnswersOK, Holds, Incoming
    <3>3. ~Deletes(r, f)
      BY <3>2 DEF Posts
    <3>4. ~Owns(js[j], f)
      BY <2>1, <3>1 DEF CoreOK, HoldsOK, Incoming
    <3>5. \A k \in DOMAIN js : ~Owns(js[k], f)
      BY <3>2, <3>4 DEF CoreOK, HoldsOK, Holds
    <3>6. ~FinishOf(r, f) /\ ~WriteOf(r, f)
      BY <3>5 DEF Posts, Owns
    <3> QED
      BY <1>1, <3>2, <3>3, <3>6 DEF PostedQueue, PostedFates, Given
  <2>2. ASSUME rs[i].type = "OK"
        PROVE  AnsweredOK(n, w, rs, js, j, i)
    <3>1. AnsweredOK(m, w, rs, js, j, i)
      BY <2>2, PostedAwaits DEF CoreOK, AnswersOK
    <3> QED
      BY <3>1 DEF AnsweredOK, ScanRead, Posted
  <2> QED
    BY <2>1, <2>2
<1> QED
  BY <1>4, <1>5, <1>6, <1>7

LEMMA PostedKeeps ==
  ASSUME NEW m, NEW n, NEW owner, NEW r, Posted(m, n, owner, r),
         NEW w, NEW rs, NEW js, CoreOK(m, w, rs, js), Posts(m, w, rs, js, owner, r)
  PROVE  CoreOK(n, w, rs, js)
<1>1. IsSeq(m.requests) /\ PostedQueue(m, n, r) /\ PostedFates(m, n, w, r)
  BY PostedRequests DEF CoreOK, QueuesOK
<1>2. ScanOwnersOK(n, w, js)
  BY DEF CoreOK, ScanOwnersOK, Posted, Scanned
<1>3. ScanRequestsOK(n, rs, js)
  <2> SUFFICES ASSUME NEW i \in DOMAIN n.requests, NEW s, IsScan(n.requests[i], s)
               PROVE  /\ \A k \in DOMAIN n.requests : IsScan(n.requests[k], s) => k = i
                      /\ \A a \in DOMAIN rs : ~IsScanMessage(rs[a], s) /\ ~IsScanFinish(rs[a], s)
                      /\ s \in DOMAIN m.activeScans =>
                           /\ m.activeScans[s].messageData = <<>>
                           /\ n.requests[i].data.frame = js[m.activeScans[s].owner].out
    BY DEF ScanRequestsOK, Posted
  <2>1. CASE i \in DOMAIN m.requests
    <3>1. n.requests[i] = m.requests[i] /\ IsScan(m.requests[i], s)
      BY <1>1, <2>1 DEF PostedQueue
    <3>2. ~IsScan(r, s)
      BY <2>1, <3>1 DEF Posts
    <3>3. \A k \in DOMAIN n.requests : IsScan(n.requests[k], s) => k = i
      BY <1>1, <2>1, <3>1, <3>2 DEF PostedQueue, CoreOK, ScanRequestsOK
    <3> QED
      BY <2>1, <3>1, <3>3 DEF CoreOK, ScanRequestsOK
  <2>2. CASE i = Len(m.requests) + 1
    BY <1>1, <2>2 DEF PostedQueue, PostedFates, Posts
  <2> QED
    BY <1>1, <2>1, <2>2 DEF PostedQueue
<1>4. ScanMessagesOK(n, w, rs, js)
  BY DEF CoreOK, ScanMessagesOK, Posted, Scanned
<1> QED
  BY <1>2, <1>3, <1>4, PostedShapes, PostedFrames, PostedJobs DEF CoreOK

-----------------------------------------------------------------------------
(***************************************************************************)
(* A scan begins, and the messages of the worker are taken.                *)
(***************************************************************************)
AddsScan(m, n, j) ==
  /\ SameRequests(m, n) /\ n.pendingRequests = m.pendingRequests
  /\ n.nextScanId = m.nextScanId + 1
  /\ n.activeScans = With(m.activeScans, m.nextScanId, AsyncDataFrameScan(j))

LEMMA SamePending ==
  ASSUME NEW m, NEW n, n.pendingRequests = m.pendingRequests, NEW w, NEW rs, NEW js
  PROVE  /\ \A k, j : Awaits(n, k, j) <=> Awaits(m, k, j)
         /\ \A j, f : Incoming(n, w, rs, j, f) <=> Incoming(m, w, rs, j, f)
         /\ \A j, f : Holds(n, w, rs, js, j, f) <=> Holds(m, w, rs, js, j, f)
<1>1. \A k, j : Awaits(n, k, j) <=> Awaits(m, k, j)
  BY DEF Awaits
<1>2. \A j, f : Incoming(n, w, rs, j, f) <=> Incoming(m, w, rs, j, f)
  BY <1>1 DEF Incoming
<1> QED
  BY <1>1, <1>2 DEF Holds

LEMMA AddScanKeeps ==
  ASSUME NEW m, NEW n, NEW w, NEW rs, NEW js, CoreOK(m, w, rs, js),
         NEW j \in DOMAIN js, js[j].at \in ReadingAt, Idle(m, j), AddsScan(m, n, j)
  PROVE  CoreOK(n, w, rs, js)
<1> DEFINE u == m.nextScanId
<1>1. /\ SameRequests(m, n) /\ n.requests = m.requests /\ n.nextMessageId = m.nextMessageId
      /\ n.pendingRequests = m.pendingRequests
  BY DEF AddsScan, SameRequests
<1>2. /\ MessageIds(n) = MessageIds(m) /\ ScanIds(m) \subseteq ScanIds(n)
      /\ u \in ScanIds(n) /\ u \notin ScanIds(m) /\ u \notin DOMAIN m.activeScans
  BY <1>1 DEF MessageIds, ScanIds, AddsScan, CoreOK, ShapesOK, PendingOK
<1>3. /\ DOMAIN n.activeScans = DOMAIN m.activeScans \cup {u}
      /\ n.activeScans[u].owner = j /\ n.activeScans[u].messageData = <<>>
      /\ ScanShape(n.activeScans[u])
      /\ \A s \in DOMAIN m.activeScans : n.activeScans[s] = m.activeScans[s]
  BY <1>2 DEF AddsScan, With, AsyncDataFrameScan, ScanShape
<1>4. /\ \A i \in DOMAIN m.requests : ~IsScan(m.requests[i], u)
      /\ \A a \in DOMAIN rs : ~IsScanMessage(rs[a], u) /\ ~IsScanFinish(rs[a], u)
  BY <1>2 DEF CoreOK, QueuesOK, RequestOK, ResponseOK, IsScan, IsScanMessage, IsScanFinish
<1>5. \A k, l : Awaits(n, k, l) <=> Awaits(m, k, l)
  BY <1>1, SamePending
<1> HIDE DEF u
<1>6. ShapesOK(n, w)
  BY <1>1, <1>2 DEF CoreOK, ShapesOK, SameRequests, AddsScan
<1>7. QueuesOK(n, w, rs)
  BY <1>1, <1>2 DEF CoreOK, QueuesOK, RequestOK, ResponseOK
<1>8. PendingOK(n, js)
  BY <1>1, <1>2, <1>3 DEF CoreOK, PendingOK
<1>9. BirthsOK(n, w) /\ ReadsOK(n, w)
  BY <1>1, SameReads DEF CoreOK
<1>10. JobsOK(n, js)
  BY <1>1, <1>5 DEF CoreOK, JobsOK
<1>11. RequestsOK(n, js)
  BY <1>1, <1>3, <1>5 DEF CoreOK, RequestsOK, Asks
<1>12. TransformsOK(n, w, js)
  BY <1>5 DEF CoreOK, TransformsOK
<1>13. AnswersOK(n, w, rs, js)
  <2> SUFFICES ASSUME NEW i \in DOMAIN rs, NEW l \in DOMAIN js, Awaits(n, rs[i].requestId, l)
               PROVE  /\ rs[i].type = "DATAFRAME_ID" => Given(n, w, js[l], rs[i].data.frame)
                      /\ rs[i].type = "OK" => AnsweredOK(n, w, rs, js, l, i)
    BY DEF AnswersOK
  <2>1. /\ rs[i].type = "DATAFRAME_ID" => Given(m, w, js[l], rs[i].data.frame)
        /\ rs[i].type = "OK" => AnsweredOK(m, w, rs, js, l, i)
    BY <1>5 DEF CoreOK, AnswersOK
  <2>2. l # j
    BY <1>5 DEF Idle
  <2>3. ScanRead(m, w, rs, js, l, i) => ScanRead(n, w, rs, js, l, i)
    BY <1>3, <2>2 DEF ScanRead
  <2> QED
    BY <1>1, <2>1, <2>3, SameDoomed DEF AnsweredOK
<1>14. JobFramesOK(n, w, js)
  BY <1>1, SameDoomed DEF CoreOK, JobFramesOK
<1>15. HoldsOK(n, w, rs, js)
  BY <1>1, SamePending DEF CoreOK, HoldsOK
<1>16. ScanOwnersOK(n, w, js)
  BY <1>3 DEF CoreOK, ScanOwnersOK, Scanned, Idle
<1>17. ScanRequestsOK(n, rs, js)
  BY <1>1, <1>3, <1>4 DEF CoreOK, ScanRequestsOK
<1>18. ScanMessagesOK(n, w, rs, js)
  BY <1>3, <1>4 DEF CoreOK, ScanMessagesOK, Scanned
<1> QED
  BY <1>6, <1>7, <1>8, <1>9, <1>10, <1>11, <1>12, <1>13, <1>14, <1>15, <1>16, <1>17, <1>18 DEF CoreOK

\* What is known of the responses after the first
Popped(rs, ts) ==
  /\ IsSeq(ts) /\ 1 \in DOMAIN rs
  /\ \A i \in DOMAIN ts : i \in Nat \ {0} /\ i + 1 \in DOMAIN rs /\ ts[i] = rs[i + 1]
  /\ \A i \in DOMAIN rs : i # 1 => i \in Nat /\ i - 1 \in DOMAIN ts /\ rs[i] = ts[i - 1]

LEMMA PopSeq ==
  ASSUME NEW rs, IsSeq(rs), rs # <<>>
  PROVE  Popped(rs, Tail(rs)) /\ Head(rs) = rs[1]
<1>1. IsSeq(Tail(rs)) /\ DOMAIN Tail(rs) = 1..Len(Tail(rs)) /\ DOMAIN rs = 1..Len(rs) /\ Len(rs) \in Nat
  BY SeqTail, SeqDomain
<1> QED
  BY <1>1, SeqTail DEF Popped

LEMMA PopAnswers ==
  ASSUME NEW m, NEW w, NEW rs, NEW js, CoreOK(m, w, rs, js), NEW ts, Popped(rs, ts)
  PROVE  /\ QueuesOK(m, w, ts) /\ HoldsOK(m, w, ts, js)
         /\ \A j, f : Incoming(m, w, ts, j, f) => Incoming(m, w, rs, j, f)
         /\ \A j, f : Holds(m, w, ts, js, j, f) => Holds(m, w, rs, js, j, f)
<1>1. QueuesOK(m, w, ts)
  BY DEF CoreOK, QueuesOK, Popped
<1>2. \A j, f : Incoming(m, w, ts, j, f) => Incoming(m, w, rs, j, f)
  BY DEF Incoming, Popped
<1>3. \A j, f : Holds(m, w, ts, js, j, f) => Holds(m, w, rs, js, j, f)
  BY <1>2 DEF Holds
<1>4. HoldsOK(m, w, ts, js)
  BY <1>2, <1>3 DEF CoreOK, HoldsOK
<1> QED
  BY <1>1, <1>2, <1>3, <1>4

LEMMA PopScanRead ==
  ASSUME NEW m, NEW w, NEW rs, NEW js, CoreOK(m, w, rs, js), NEW ts, Popped(rs, ts),
         \A s \in DOMAIN m.activeScans : ~IsScanFinish(rs[1], s)
  PROVE  AnswersOK(m, w, ts, js)
<1> SUFFICES ASSUME NEW i \in DOMAIN ts, NEW j \in DOMAIN js, Awaits(m, ts[i].requestId, j)
             PROVE  /\ ts[i].type = "DATAFRAME_ID" => Given(m, w, js[j], ts[i].data.frame)
                    /\ ts[i].type = "OK" => AnsweredOK(m, w, ts, js, j, i)
  BY DEF AnswersOK
<1>1. i \in Nat \ {0} /\ i + 1 \in DOMAIN rs /\ ts[i] = rs[i + 1]
  BY DEF Popped
<1>2. /\ ts[i].type = "DATAFRAME_ID" => Given(m, w, js[j], ts[i].data.frame)
      /\ ts[i].type = "OK" => AnsweredOK(m, w, rs, js, j, i + 1)
  BY <1>1 DEF CoreOK, AnswersOK
<1>3. DOMAIN rs = 1..Len(rs) /\ Len(rs) \in Nat
  BY SeqDomain DEF CoreOK, QueuesOK
<1>4. ASSUME ScanRead(m, w, rs, js, j, i + 1)
      PROVE  ScanRead(m, w, ts, js, j, i)
  <2>1. CASE /\ js[j].data = <<w.frames[js[j].out]>>
             /\ \A s \in DOMAIN m.activeScans : m.activeScans[s].owner # j
    BY <2>1 DEF ScanRead
  <2>2. CASE \E b \in 1..i : \E s \in DOMAIN m.activeScans :
               IsScanFinish(rs[b], s) /\ m.activeScans[s].owner = j
    <3>1. PICK b \in 1..i, s \in DOMAIN m.activeScans :
            IsScanFinish(rs[b], s) /\ m.activeScans[s].owner = j
      BY <2>2
    <3>2. b # 1 /\ b \in DOMAIN rs
      BY <1>1, <1>3, <3>1
    <3>3. b - 1 \in 1..(i - 1) /\ rs[b] = ts[b - 1]
      BY <1>1, <3>2 DEF Popped
    <3> QED
      BY <3>1, <3>3 DEF ScanRead
  <2> QED
    BY <1>1, <1>4, <2>1, <2>2 DEF ScanRead
<1> QED
  BY <1>2, <1>4 DEF AnsweredOK

LEMMA PopScanMessages ==
  ASSUME NEW m, NEW w, NEW rs, NEW js, CoreOK(m, w, rs, js), NEW ts, Popped(rs, ts),
         NEW s \in DOMAIN m.activeScans, ~IsScanMessage(rs[1], s)
  PROVE  /\ \A a, b \in DOMAIN ts : IsScanMessage(ts[a], s) /\ IsScanMessage(ts[b], s) => a = b
         /\ \A a \in DOMAIN ts : IsScanMessage(ts[a], s) =>
              /\ m.activeScans[s].messageData = <<>>
              /\ ts[a].data.buffer = Scanned(w, js, m.activeScans[s])
         /\ \A b \in DOMAIN ts : IsScanFinish(ts[b], s) =>
              \/ m.activeScans[s].messageData # <<>>
              \/ \E a \in 1..(b - 1) : IsScanMessage(ts[a], s)
<1>1. \A a, b \in DOMAIN ts : IsScanMessage(ts[a], s) /\ IsScanMessage(ts[b], s) => a = b
  <2> SUFFICES ASSUME NEW a \in DOMAIN ts, NEW b \in DOMAIN ts, IsScanMessage(ts[a], s), IsScanMessage(ts[b], s)
               PROVE  a = b
    OBVIOUS
  <2>1. /\ a \in Nat /\ a + 1 \in DOMAIN rs /\ IsScanMessage(rs[a + 1], s)
        /\ b \in Nat /\ b + 1 \in DOMAIN rs /\ IsScanMessage(rs[b + 1], s)
    BY DEF Popped
  <2>2. a + 1 = b + 1
    BY <2>1 DEF CoreOK, ScanMessagesOK
  <2> QED
    BY <2>1, <2>2
<1>2. \A a \in DOMAIN ts : IsScanMessage(ts[a], s) =>
        /\ m.activeScans[s].messageData = <<>>
        /\ ts[a].data.buffer = Scanned(w, js, m.activeScans[s])
  BY DEF CoreOK, ScanMessagesOK, Popped
<1>3. ASSUME NEW b \in DOMAIN ts, IsScanFinish(ts[b], s)
      PROVE  \/ m.activeScans[s].messageData # <<>>
             \/ \E a \in 1..(b - 1) : IsScanMessage(ts[a], s)
  <2>1. b \in Nat \ {0} /\ b + 1 \in DOMAIN rs /\ IsScanFinish(rs[b + 1], s)
    BY <1>3 DEF Popped
  <2>2. \/ m.activeScans[s].messageData # <<>>
        \/ \E a \in 1..((b + 1) - 1) : IsScanMessage(rs[a], s)
    BY <2>1 DEF CoreOK, ScanMessagesOK
  <2>3. DOMAIN rs = 1..Len(rs) /\ Len(rs) \in Nat
    BY SeqDomain DEF CoreOK, QueuesOK
  <2>4. ASSUME NEW a \in 1..b, IsScanMessage(rs[a], s)
        PROVE  \E c \in 1..(b - 1) : IsScanMessage(ts[c], s)
    <3>1. a # 1 /\ a \in DOMAIN rs
      BY <2>1, <2>3, <2>4
    <3>2. a - 1 \in 1..(b - 1) /\ IsScanMessage(ts[a - 1], s)
      BY <2>1, <2>4, <3>1 DEF Popped
    <3> QED
      BY <3>2
  <2> QED
    BY <2>1, <2>2, <2>4
<1> QED
  BY <1>1, <1>2, <1>3

\* A message that is about no scan under way is taken.
LEMMA PopKeeps ==
  ASSUME NEW m, NEW w, NEW rs, NEW js, CoreOK(m, w, rs, js), NEW ts, Popped(rs, ts),
         \A s \in DOMAIN m.activeScans : ~IsScanMessage(rs[1], s) /\ ~IsScanFinish(rs[1], s)
  PROVE  CoreOK(m, w, ts, js)
<1>1. AnswersOK(m, w, ts, js)
  BY PopScanRead
<1>2. ScanRequestsOK(m, ts, js)
  BY DEF CoreOK, ScanRequestsOK, Popped
<1>3. ScanMessagesOK(m, w, ts, js)
  BY PopScanMessages DEF ScanMessagesOK
<1> QED
  BY <1>1, <1>2, <1>3, PopAnswers DEF CoreOK

\* A message of a scan under way
TakesBuffer(m, n, s, buffer) ==
  /\ SameRequests(m, n) /\ n.pendingRequests = m.pendingRequests /\ n.nextScanId = m.nextScanId
  /\ s \in DOMAIN m.activeScans
  /\ n.activeScans = [m.activeScans EXCEPT ![s].messageData = Append(m.activeScans[s].messageData, buffer)]

LEMMA TakeBufferKeeps ==
  ASSUME NEW m, NEW n, NEW w, NEW rs, NEW js, CoreOK(m, w, rs, js), NEW ts, Popped(rs, ts),
         NEW s, IsScanMessage(rs[1], s), TakesBuffer(m, n, s, rs[1].data.buffer)
  PROVE  CoreOK(n, w, ts, js)
<1>1. /\ SameRequests(m, n) /\ n.requests = m.requests /\ n.nextMessageId = m.nextMessageId
      /\ n.pendingRequests = m.pendingRequests /\ n.nextScanId = m.nextScanId
      /\ s \in DOMAIN m.activeScans
  BY DEF TakesBuffer, SameRequests
<1>2. 1 \in DOMAIN rs
  BY DEF Popped
<1>3. m.activeScans[s].messageData = <<>> /\ rs[1].data.buffer = Scanned(w, js, m.activeScans[s])
  BY <1>1, <1>2 DEF CoreOK, ScanMessagesOK
<1>4. n.activeScans = [m.activeScans EXCEPT ![s].messageData = <<rs[1].data.buffer>>]
  BY <1>3 DEF TakesBuffer
<1>5. ScanShape(m.activeScans[s])
  BY <1>1 DEF CoreOK, PendingOK
<1>6. /\ DOMAIN n.activeScans = DOMAIN m.activeScans
      /\ \A u \in DOMAIN m.activeScans : u # s => n.activeScans[u] = m.activeScans[u]
      /\ n.activeScans[s] = [m.activeScans[s] EXCEPT !.messageData = <<rs[1].data.buffer>>]
  BY <1>1, <1>4
<1>7. /\ ScanShape(n.activeScans[s])
      /\ n.activeScans[s].owner = m.activeScans[s].owner
      /\ n.activeScans[s].messageData = <<rs[1].data.buffer>>
  BY <1>5, <1>6 DEF ScanShape
<1>8. \A u \in DOMAIN m.activeScans : n.activeScans[u].owner = m.activeScans[u].owner
  BY <1>6, <1>7
<1>9. \A k, l : Awaits(n, k, l) <=> Awaits(m, k, l)
  BY <1>1, SamePending
<1>10. ShapesOK(n, w)
  BY <1>1 DEF CoreOK, ShapesOK, SameRequests, MessageIds
<1>11. QueuesOK(n, w, ts)
  BY <1>1, PopAnswers DEF QueuesOK, RequestOK, ResponseOK, MessageIds, ScanIds
<1>12. PendingOK(n, js)
  BY <1>1, <1>6, <1>7 DEF CoreOK, PendingOK, MessageIds, ScanIds
<1>13. BirthsOK(n, w) /\ ReadsOK(n, w)
  BY <1>1, SameReads DEF CoreOK
<1>14. JobsOK(n, js)
  BY <1>1, <1>9 DEF CoreOK, JobsOK
<1>15. RequestsOK(n, js)
  BY <1>1, <1>6, <1>8, <1>9 DEF CoreOK, RequestsOK, Asks
<1>16. TransformsOK(n, w, js)
  BY <1>9 DEF CoreOK, TransformsOK
<1>17. AnswersOK(n, w, ts, js)
  <2>1. \A u \in DOMAIN m.activeScans : ~IsScanFinish(rs[1], u)
    BY DEF IsScanMessage, IsScanFinish
  <2>2. AnswersOK(m, w, ts, js)
    BY <2>1, PopScanRead
  <2>3. \A j, i : ScanRead(m, w, ts, js, j, i) => ScanRead(n, w, ts, js, j, i)
    BY <1>6, <1>8 DEF ScanRead
  <2> QED
    BY <1>1, <1>9, <2>2, <2>3, SameDoomed DEF AnswersOK, AnsweredOK
<1>18. JobFramesOK(n, w, js)
  BY <1>1, SameDoomed DEF CoreOK, JobFramesOK
<1>19. HoldsOK(n, w, ts, js)
  <2>1. HoldsOK(m, w, ts, js)
    BY PopAnswers
  <2>2. n.pendingRequests = m.pendingRequests
    BY <1>1
  <2>3. /\ \A j, f : Incoming(n, w, ts, j, f) <=> Incoming(m, w, ts, j, f)
        /\ \A j, f : Holds(n, w, ts, js, j, f) <=> Holds(m, w, ts, js, j, f)
    BY <2>2, SamePending
  <2> QED
    BY <2>1, <2>3 DEF HoldsOK
<1>20. ScanOwnersOK(n, w, js)
  BY <1>3, <1>6, <1>7, <1>8 DEF CoreOK, ScanOwnersOK, Scanned
<1>21. ScanRequestsOK(n, ts, js)
  <2>1. \A i \in DOMAIN m.requests : ~IsScan(m.requests[i], s)
    BY <1>2 DEF CoreOK, ScanRequestsOK
  <2> SUFFICES ASSUME NEW i \in DOMAIN m.requests, NEW u, IsScan(m.requests[i], u)
               PROVE  /\ \A k \in DOMAIN m.requests : IsScan(m.requests[k], u) => k = i
                      /\ \A a \in DOMAIN ts : ~IsScanMessage(ts[a], u) /\ ~IsScanFinish(ts[a], u)
                      /\ u \in DOMAIN n.activeScans =>
                           /\ n.activeScans[u].messageData = <<>>
                           /\ m.requests[i].data.frame = js[n.activeScans[u].owner].out
    <3>1. n.requests = m.requests
      BY <1>1
    <3> QED
      BY <3>1 DEF ScanRequestsOK
  <2>2. /\ \A k \in DOMAIN m.requests : IsScan(m.requests[k], u) => k = i
        /\ \A a \in DOMAIN rs : ~IsScanMessage(rs[a], u) /\ ~IsScanFinish(rs[a], u)
        /\ u \in DOMAIN m.activeScans =>
             /\ m.activeScans[u].messageData = <<>>
             /\ m.requests[i].data.frame = js[m.activeScans[u].owner].out
    BY DEF CoreOK, ScanRequestsOK
  <2>3. u # s
    BY <2>1
  <2>4. \A a \in DOMAIN ts : ~IsScanMessage(ts[a], u) /\ ~IsScanFinish(ts[a], u)
    BY <2>2 DEF Popped
  <2>5. u \in DOMAIN n.activeScans => u \in DOMAIN m.activeScans /\ n.activeScans[u] = m.activeScans[u]
    BY <1>6, <2>3
  <2> QED
    BY <2>2, <2>4, <2>5
<1>22. ScanMessagesOK(n, w, ts, js)
  <2>1. \A a \in DOMAIN ts : ~IsScanMessage(ts[a], s)
    <3> SUFFICES ASSUME NEW a \in DOMAIN ts, IsScanMessage(ts[a], s)
                 PROVE  FALSE
      OBVIOUS
    <3>1. a \in Nat \ {0} /\ a + 1 \in DOMAIN rs /\ IsScanMessage(rs[a + 1], s)
      BY DEF Popped
    <3>2. a + 1 = 1
      BY <1>1, <1>2, <3>1 DEF CoreOK, ScanMessagesOK
    <3> QED
      BY <3>1, <3>2
  <2>2. n.activeScans[s].messageData # <<>>
    BY <1>7
  <2>3. ASSUME NEW u \in DOMAIN m.activeScans, u # s
        PROVE  /\ \A a, b \in DOMAIN ts : IsScanMessage(ts[a], u) /\ IsScanMessage(ts[b], u) => a = b
               /\ \A a \in DOMAIN ts : IsScanMessage(ts[a], u) =>
                    /\ m.activeScans[u].messageData = <<>>
                    /\ ts[a].data.buffer = Scanned(w, js, m.activeScans[u])
               /\ \A b \in DOMAIN ts : IsScanFinish(ts[b], u) =>
                    \/ m.activeScans[u].messageData # <<>>
                    \/ \E a \in 1..(b - 1) : IsScanMessage(ts[a], u)
    BY <2>3, PopScanMessages DEF IsScanMessage
  <2> SUFFICES ASSUME NEW u \in DOMAIN m.activeScans
               PROVE  /\ \A a, b \in DOMAIN ts : IsScanMessage(ts[a], u) /\ IsScanMessage(ts[b], u) => a = b
                      /\ \A a \in DOMAIN ts : IsScanMessage(ts[a], u) =>
                           /\ n.activeScans[u].messageData = <<>>
                           /\ ts[a].data.buffer = Scanned(w, js, n.activeScans[u])
                      /\ \A b \in DOMAIN ts : IsScanFinish(ts[b], u) =>
                           \/ n.activeScans[u].messageData # <<>>
                           \/ \E a \in 1..(b - 1) : IsScanMessage(ts[a], u)
    BY <1>6 DEF ScanMessagesOK
  <2>4. CASE u = s
    BY <2>1, <2>2, <2>4
  <2>5. CASE u # s
    BY <1>6, <2>3, <2>5
  <2> QED
    BY <2>4, <2>5
<1> QED
  BY <1>10, <1>11, <1>12, <1>13, <1>14, <1>15, <1>16, <1>17, <1>18, <1>19, <1>20, <1>21, <1>22 DEF CoreOK

\* The end of a scan under way
EndsScan(m, n, s) ==
  /\ SameRequests(m, n) /\ n.pendingRequests = m.pendingRequests /\ n.nextScanId = m.nextScanId
  /\ s \in DOMAIN m.activeScans
  /\ DOMAIN n.activeScans = DOMAIN m.activeScans \ {s}
  /\ \A u \in DOMAIN n.activeScans : n.activeScans[u] = m.activeScans[u]

HasData(m, n, w, rs, ts, js, ks) ==
  /\ CoreOK(n, w, ts, ks)
  /\ DOMAIN ks = DOMAIN js
  /\ \A k \in DOMAIN js :
       /\ ks[k].kind = js[k].kind /\ ks[k].query = js[k].query /\ ks[k].at = js[k].at
       /\ ks[k].frame = js[k].frame /\ ks[k].table = js[k].table
  /\ \A k \in DOMAIN js : \A f : Holds(n, w, ts, ks, k, f) => Holds(m, w, rs, js, k, f)

LEMMA EndScanKeeps ==
  ASSUME NEW m, NEW n, NEW w, NEW rs, NEW js, CoreOK(m, w, rs, js), NEW ts, Popped(rs, ts),
         NEW s, IsScanFinish(rs[1], s), EndsScan(m, n, s),
         NEW ks, ks = [js EXCEPT ![m.activeScans[s].owner].data = m.activeScans[s].messageData]
  PROVE  HasData(m, n, w, rs, ts, js, ks)
<1> DEFINE j == m.activeScans[s].owner
<1>1. /\ SameRequests(m, n) /\ n.requests = m.requests /\ n.nextMessageId = m.nextMessageId
      /\ n.pendingRequests = m.pendingRequests /\ n.nextScanId = m.nextScanId
      /\ s \in DOMAIN m.activeScans /\ 1 \in DOMAIN rs
  BY DEF EndsScan, SameRequests, Popped
<1>2. j \in DOMAIN js /\ js[j].at \in ReadingAt
  BY <1>1 DEF CoreOK, ScanOwnersOK
<1>3. m.activeScans[s].messageData = <<Scanned(w, js, m.activeScans[s])>>
  <2>1. m.activeScans[s].messageData # <<>>
    BY <1>1 DEF CoreOK, ScanMessagesOK
  <2> QED
    BY <1>1, <2>1 DEF CoreOK, ScanOwnersOK
<1> DEFINE job == [js[j] EXCEPT !.data = m.activeScans[s].messageData]
<1>4. ks = [js EXCEPT ![j] = job]
  OBVIOUS
<1>5. IsSeq(js) /\ IsSeq(ks) /\ DOMAIN ks = DOMAIN js
  <2>1. IsSeq(js)
    BY DEF CoreOK, JobsOK
  <2> HIDE DEF job, j
  <2>2. IsSeq([js EXCEPT ![j] = job]) /\ DOMAIN [js EXCEPT ![j] = job] = DOMAIN js
    BY <1>2, <2>1, SeqExcept
  <2> QED
    BY <1>4, <2>1, <2>2
<1>6. JobShape(js[j])
  BY <1>2 DEF CoreOK, JobsOK, JobOK
<1>7. ks[j] = job /\ \A k \in DOMAIN js : k # j => ks[k] = js[k]
  BY <1>2, <1>4
<1>8. /\ JobShape(job)
      /\ job.kind = js[j].kind /\ job.query = js[j].query /\ job.table = js[j].table
      /\ job.at = js[j].at /\ job.frame = js[j].frame /\ job.stats = js[j].stats
      /\ job.out = js[j].out /\ job.column = js[j].column /\ job.ordering = js[j].ordering
      /\ job.failure = js[j].failure /\ job.data = m.activeScans[s].messageData
  BY <1>6 DEF JobShape
<1> HIDE DEF job, j
<1>9. \A k \in DOMAIN js :
        /\ ks[k].kind = js[k].kind /\ ks[k].query = js[k].query /\ ks[k].at = js[k].at
        /\ ks[k].frame = js[k].frame /\ ks[k].table = js[k].table /\ ks[k].stats = js[k].stats
        /\ ks[k].out = js[k].out /\ ks[k].ordering = js[k].ordering
  BY <1>7, <1>8
<1>10. \A k \in DOMAIN js : JobShape(ks[k])
  BY <1>7, <1>8 DEF CoreOK, JobsOK, JobOK
<1>11. \A u \in DOMAIN n.activeScans : u \in DOMAIN m.activeScans /\ u # s /\ n.activeScans[u] = m.activeScans[u]
  BY DEF EndsScan
<1>12. \A u \in DOMAIN n.activeScans : n.activeScans[u].owner # j
  BY <1>1, <1>11 DEF CoreOK, ScanOwnersOK, j
<1>13. \A k, l : Awaits(n, k, l) <=> Awaits(m, k, l)
  BY <1>1, SamePending
<1>14. \A k \in DOMAIN js : \A f : Owns(ks[k], f) <=> Owns(js[k], f)
  BY <1>9 DEF Owns
<1>15. \A k, f : Incoming(n, w, ts, k, f) => Incoming(m, w, rs, k, f)
  BY <1>1, SamePending, PopAnswers
<1>16. \A k \in DOMAIN js : \A f : Holds(n, w, ts, ks, k, f) => Holds(m, w, rs, js, k, f)
  BY <1>14, <1>15 DEF Holds
<1>17. ShapesOK(n, w)
  BY <1>1 DEF CoreOK, ShapesOK, SameRequests, MessageIds
<1>18. QueuesOK(n, w, ts)
  BY <1>1, PopAnswers DEF QueuesOK, RequestOK, ResponseOK, MessageIds, ScanIds
<1>19. PendingOK(n, ks)
  BY <1>1, <1>5, <1>11 DEF CoreOK, PendingOK, MessageIds, ScanIds
<1>20. BirthsOK(n, w) /\ ReadsOK(n, w)
  BY <1>1, SameReads DEF CoreOK
<1>21. JobsOK(n, ks)
  <2>1. \A k \in DOMAIN ks : JobOK(ks[k])
    <3> SUFFICES ASSUME NEW k \in DOMAIN js
                 PROVE  JobOK(ks[k])
      BY <1>5
    <3>1. JobOK(js[k]) /\ JobShape(ks[k])
      BY <1>10 DEF CoreOK, JobsOK
    <3>2. ks[k].kind = js[k].kind /\ ks[k].query = js[k].query /\ ks[k].at = js[k].at
      BY <1>9
    <3> QED
      BY <3>1, <3>2 DEF JobOK
  <2>2. \A k \in DOMAIN ks : \A l : Awaits(n, l, k) =>
          ks[k].at \in Awaiting /\ n.pendingRequests[l].type = TaskOf(ks[k].at)
    BY <1>1, <1>5, <1>9, <1>13 DEF CoreOK, JobsOK
  <2> QED
    BY <1>5, <1>13, <2>1, <2>2 DEF CoreOK, JobsOK
<1>22. RequestsOK(n, ks)
  <2> SUFFICES ASSUME NEW i \in DOMAIN n.requests, NEW k \in DOMAIN js,
                      Awaits(n, n.requests[i].messageId, k)
               PROVE  Asks(n, k, ks[k], n.requests[i])
    BY <1>5 DEF RequestsOK
  <2>1. Asks(m, k, js[k], m.requests[i]) /\ n.requests[i] = m.requests[i]
    BY <1>1, <1>13 DEF CoreOK, RequestsOK
  <2>2. ASSUME js[k].at \in ReadingAt
        PROVE  m.requests[i].data.scan \in DOMAIN n.activeScans
    <3>1. IsScan(m.requests[i], m.requests[i].data.scan)
      BY <2>1, <2>2 DEF Asks, TaskOf, IsScan, ReadingAt, Transforming
    <3>2. m.requests[i].data.scan # s
      BY <1>1, <3>1 DEF CoreOK, ScanRequestsOK
    <3> QED
      BY <2>1, <2>2, <3>2 DEF Asks, EndsScan
  <2> QED
    BY <1>9, <1>11, <2>1, <2>2 DEF Asks
<1>23. TransformsOK(n, w, ks)
  <2> SUFFICES ASSUME NEW t \in w.transforms, NEW k \in DOMAIN js, Awaits(n, t.request.messageId, k)
               PROVE  Made(t, ks[k])
    BY <1>5 DEF TransformsOK
  <2>1. Made(t, js[k])
    BY <1>13 DEF CoreOK, TransformsOK
  <2>2. ks[k].at = js[k].at /\ ks[k].ordering = js[k].ordering
    BY <1>9
  <2> QED
    BY <2>1, <2>2 DEF Made, Ordered
<1>24. AnswersOK(n, w, ts, ks)
  <2> SUFFICES ASSUME NEW i \in DOMAIN ts, NEW k \in DOMAIN js, Awaits(m, ts[i].requestId, k)
               PROVE  /\ ts[i].type = "DATAFRAME_ID" => Given(n, w, ks[k], ts[i].data.frame)
                      /\ ts[i].type = "OK" => AnsweredOK(n, w, ts, ks, k, i)
    BY <1>5, <1>13 DEF AnswersOK
  <2>1. i \in Nat \ {0} /\ i + 1 \in DOMAIN rs /\ ts[i] = rs[i + 1]
    BY DEF Popped
  <2>2. /\ ts[i].type = "DATAFRAME_ID" => Given(m, w, js[k], ts[i].data.frame)
        /\ ts[i].type = "OK" => AnsweredOK(m, w, rs, js, k, i + 1)
    BY <2>1 DEF CoreOK, AnswersOK
  <2>3. \A f : Given(m, w, js[k], f) => Given(n, w, ks[k], f)
    BY <1>1, <1>9, SameDoomed DEF Given, Ordered
  <2>4. ASSUME ScanRead(m, w, rs, js, k, i + 1)
        PROVE  ScanRead(n, w, ts, ks, k, i)
    <3>1. CASE k = j
      <4>1. ks[k].data = <<w.frames[ks[k].out]>>
        BY <1>2, <1>3, <1>7, <1>8, <3>1 DEF Scanned, j
      <4> QED
        BY <1>12, <3>1, <4>1 DEF ScanRead
    <3>2. CASE k # j
      <4>1. ks[k] = js[k]
        BY <1>7, <3>2
      <4>2. CASE /\ js[k].data = <<w.frames[js[k].out]>>
                 /\ \A u \in DOMAIN m.activeScans : m.activeScans[u].owner # k
        BY <1>11, <4>1, <4>2 DEF ScanRead
      <4>3. CASE \E b \in 1..i : \E u \in DOMAIN m.activeScans :
                   IsScanFinish(rs[b], u) /\ m.activeScans[u].owner = k
        <5>1. PICK b \in 1..i, u \in DOMAIN m.activeScans :
                IsScanFinish(rs[b], u) /\ m.activeScans[u].owner = k
          BY <4>3
        <5>2. u # s
          BY <3>2, <5>1 DEF j
        <5>3. b # 1
          BY <5>1, <5>2 DEF IsScanFinish
        <5>4. DOMAIN rs = 1..Len(rs) /\ Len(rs) \in Nat
          BY SeqDomain DEF CoreOK, QueuesOK
        <5>5. b \in DOMAIN rs
          BY <2>1, <5>1, <5>4
        <5>6. b - 1 \in 1..(i - 1) /\ rs[b] = ts[b - 1]
          BY <2>1, <5>1, <5>3, <5>5 DEF Popped
        <5>7. u \in DOMAIN n.activeScans /\ n.activeScans[u].owner = k
          BY <1>11, <5>1, <5>2 DEF EndsScan
        <5> QED
          BY <5>1, <5>6, <5>7 DEF ScanRead
      <4> QED
        BY <2>1, <2>4, <4>2, <4>3 DEF ScanRead
    <3> QED
      BY <3>1, <3>2
  <2> QED
    BY <1>9, <2>2, <2>3, <2>4 DEF AnsweredOK
<1>25. JobFramesOK(n, w, ks)
  <2>1. ASSUME NEW k \in DOMAIN js, JobFrames(m, w, js[k])
        PROVE  JobFrames(m, w, ks[k])
    <3>1. /\ ks[k].at = js[k].at /\ ks[k].frame = js[k].frame /\ ks[k].table = js[k].table
          /\ ks[k].stats = js[k].stats /\ ks[k].out = js[k].out /\ ks[k].ordering = js[k].ordering
      BY <1>9
    <3> QED
      BY <2>1, <3>1 DEF JobFrames, Ordered
  <2>2. \A k \in DOMAIN js : JobFrames(m, w, ks[k])
    BY <2>1 DEF CoreOK, JobFramesOK
  <2>3. \A b : JobFrames(n, w, b) <=> JobFrames(m, w, b)
    BY <1>1, SameDoomed
  <2> QED
    BY <1>5, <2>2, <2>3 DEF JobFramesOK
<1>26. HoldsOK(n, w, ts, ks)
  BY <1>5, <1>14, <1>15, <1>16 DEF CoreOK, HoldsOK
<1>27. ScanOwnersOK(n, w, ks)
  <2>1. \A u \in DOMAIN n.activeScans :
          /\ n.activeScans[u].owner \in DOMAIN js
          /\ Scanned(w, ks, n.activeScans[u]) = Scanned(w, js, m.activeScans[u])
    BY <1>9, <1>11 DEF CoreOK, ScanOwnersOK, Scanned
  <2>2. ASSUME NEW u \in DOMAIN n.activeScans
        PROVE  /\ n.activeScans[u].owner \in DOMAIN ks /\ ks[n.activeScans[u].owner].at \in ReadingAt
               /\ n.activeScans[u].messageData \in {<<>>, <<Scanned(w, ks, n.activeScans[u])>>}
    <3>1. /\ m.activeScans[u].owner \in DOMAIN js /\ js[m.activeScans[u].owner].at \in ReadingAt
          /\ m.activeScans[u].messageData \in {<<>>, <<Scanned(w, js, m.activeScans[u])>>}
      BY <1>11 DEF CoreOK, ScanOwnersOK
    <3>2. n.activeScans[u] = m.activeScans[u]
      BY <1>11
    <3>3. ks[m.activeScans[u].owner].at = js[m.activeScans[u].owner].at
      BY <1>9, <3>1
    <3>4. Scanned(w, ks, n.activeScans[u]) = Scanned(w, js, m.activeScans[u])
      BY <2>1
    <3> QED
      BY <1>5, <3>1, <3>2, <3>3, <3>4
  <2>3. \A u, v \in DOMAIN n.activeScans : n.activeScans[u].owner = n.activeScans[v].owner => u = v
    BY <1>11 DEF CoreOK, ScanOwnersOK
  <2> QED
    BY <2>2, <2>3 DEF ScanOwnersOK
<1>28. ScanRequestsOK(n, ts, ks)
  <2>1. \A i \in DOMAIN m.requests, u \in DOMAIN n.activeScans : IsScan(m.requests[i], u) =>
          /\ m.activeScans[u].messageData = <<>>
          /\ m.requests[i].data.frame = ks[m.activeScans[u].owner].out
    BY <1>9, <1>11 DEF CoreOK, ScanRequestsOK, ScanOwnersOK
  <2>2. \A i \in DOMAIN m.requests : \A u : IsScan(m.requests[i], u) =>
          /\ \A k \in DOMAIN m.requests : IsScan(m.requests[k], u) => k = i
          /\ \A a \in DOMAIN ts : ~IsScanMessage(ts[a], u) /\ ~IsScanFinish(ts[a], u)
    BY DEF CoreOK, ScanRequestsOK, Popped
  <2>3. \A u \in DOMAIN n.activeScans :
          n.activeScans[u].messageData = m.activeScans[u].messageData
            /\ n.activeScans[u].owner = m.activeScans[u].owner
    BY <1>11
  <2> SUFFICES ASSUME NEW i \in DOMAIN n.requests, NEW u, IsScan(n.requests[i], u)
               PROVE  /\ \A k \in DOMAIN n.requests : IsScan(n.requests[k], u) => k = i
                      /\ \A a \in DOMAIN ts : ~IsScanMessage(ts[a], u) /\ ~IsScanFinish(ts[a], u)
                      /\ u \in DOMAIN n.activeScans =>
                           /\ n.activeScans[u].messageData = <<>>
                           /\ n.requests[i].data.frame = ks[n.activeScans[u].owner].out
    BY DEF ScanRequestsOK
  <2>4. i \in DOMAIN m.requests /\ IsScan(m.requests[i], u)
    BY <1>1
  <2>5. /\ \A k \in DOMAIN n.requests : IsScan(n.requests[k], u) => k = i
        /\ \A a \in DOMAIN ts : ~IsScanMessage(ts[a], u) /\ ~IsScanFinish(ts[a], u)
    BY <1>1, <2>2, <2>4
  <2>6. ASSUME u \in DOMAIN n.activeScans
        PROVE  /\ n.activeScans[u].messageData = <<>>
               /\ n.requests[i].data.frame = ks[n.activeScans[u].owner].out
    <3>1. /\ m.activeScans[u].messageData = <<>>
          /\ m.requests[i].data.frame = ks[m.activeScans[u].owner].out
      BY <2>1, <2>4, <2>6
    <3>2. n.activeScans[u] = m.activeScans[u] /\ n.requests = m.requests
      BY <1>1, <1>11, <2>6
    <3> QED
      BY <3>1, <3>2
  <2> QED
    BY <2>5, <2>6
<1>29. ScanMessagesOK(n, w, ts, ks)
  <2> SUFFICES ASSUME NEW u \in DOMAIN n.activeScans
               PROVE  /\ \A a, b \in DOMAIN ts : IsScanMessage(ts[a], u) /\ IsScanMessage(ts[b], u) => a = b
                      /\ \A a \in DOMAIN ts : IsScanMessage(ts[a], u) =>
                           /\ n.activeScans[u].messageData = <<>>
                           /\ ts[a].data.buffer = Scanned(w, ks, n.activeScans[u])
                      /\ \A b \in DOMAIN ts : IsScanFinish(ts[b], u) =>
                           \/ n.activeScans[u].messageData # <<>>
                           \/ \E a \in 1..(b - 1) : IsScanMessage(ts[a], u)
    BY DEF ScanMessagesOK
  <2>1. ~IsScanMessage(rs[1], u)
    BY DEF IsScanMessage, IsScanFinish
  <2>2. Scanned(w, ks, n.activeScans[u]) = Scanned(w, js, m.activeScans[u])
    BY <1>9, <1>11 DEF CoreOK, ScanOwnersOK, Scanned
  <2> QED
    BY <1>11, <2>1, <2>2, PopScanMessages
<1> QED
  BY <1>5, <1>9, <1>16, <1>17, <1>18, <1>19, <1>20, <1>21, <1>22, <1>23, <1>24, <1>25, <1>26,
     <1>27, <1>28, <1>29 DEF CoreOK, HasData

-----------------------------------------------------------------------------
(***************************************************************************)
(* Changes of the worker, one at a time.                                   *)
(***************************************************************************)
Drops(m, n) ==
  /\ MainShape(n)
  /\ m.requests # <<>> /\ n.requests = Tail(m.requests)
  /\ n.nextMessageId = m.nextMessageId /\ n.nextScanId = m.nextScanId
  /\ n.pendingRequests = m.pendingRequests /\ n.activeScans = m.activeScans

LEMMA DropTask ==
  ASSUME NEW m, MainShape(m), m.requests # <<>>, NEW n, n = [m EXCEPT !.requests = Tail(m.requests)]
  PROVE  Drops(m, n)
<1>1. /\ MainShape(n) /\ n.requests = Tail(m.requests)
      /\ n.nextMessageId = m.nextMessageId /\ n.nextScanId = m.nextScanId
      /\ n.pendingRequests = m.pendingRequests /\ n.activeScans = m.activeScans
  BY DEF MainShape
<1> QED
  BY <1>1 DEF Drops

LEMMA DropFates ==
  ASSUME NEW m, NEW n, Drops(m, n), IsSeq(m.requests), NEW w
  PROVE  /\ Popped(m.requests, n.requests)
         /\ \A f : Doomed(n, f) => Doomed(m, f)
         /\ \A f : Finishes(n, f) => Finishes(m, f)
         /\ \A f : Written(n, f) => Written(m, f)
         /\ \A f, T : WritesOnly(m, f, T) => WritesOnly(n, f, T)
         /\ \A f : Living(m, w, f) => Living(n, w, f)
         /\ \A f : Unborn(m, w, f) => Unborn(n, w, f)
<1>1. Popped(m.requests, n.requests)
  BY PopSeq DEF Drops
<1>2. /\ \A f : Doomed(n, f) => Doomed(m, f)
      /\ \A f : Finishes(n, f) => Finishes(m, f)
      /\ \A f : Written(n, f) => Written(m, f)
      /\ \A f, T : WritesOnly(m, f, T) => WritesOnly(n, f, T)
  BY <1>1 DEF Popped, Doomed, Finishes, Written, WritesOnly
<1> QED
  BY <1>1, <1>2 DEF Living, Unborn

LEMMA DropKeeps ==
  ASSUME NEW m, NEW n, Drops(m, n), NEW w, NEW rs, NEW js, CoreOK(m, w, rs, js)
  PROVE  /\ CoreOK(n, w, rs, js)
         /\ \A j, f : Holds(n, w, rs, js, j, f) <=> Holds(m, w, rs, js, j, f)
<1> DEFINE q == m.requests
           z == n.requests
<1>1. /\ n.nextMessageId = m.nextMessageId /\ n.nextScanId = m.nextScanId
      /\ n.pendingRequests = m.pendingRequests /\ n.activeScans = m.activeScans
      /\ MainShape(n) /\ IsSeq(q)
  BY DEF Drops, CoreOK, QueuesOK
<1>2. /\ Popped(q, z)
      /\ \A f : Doomed(n, f) => Doomed(m, f)
      /\ \A f : Finishes(n, f) => Finishes(m, f)
      /\ \A f : Written(n, f) => Written(m, f)
      /\ \A f, T : WritesOnly(m, f, T) => WritesOnly(n, f, T)
      /\ \A f : Living(m, w, f) => Living(n, w, f)
      /\ \A f : Unborn(m, w, f) => Unborn(n, w, f)
  BY <1>1, DropFates
<1>3. MessageIds(n) = MessageIds(m) /\ ScanIds(n) = ScanIds(m)
  BY <1>1 DEF MessageIds, ScanIds
<1>4. /\ \A k, l : Awaits(n, k, l) <=> Awaits(m, k, l)
      /\ \A j, f : Incoming(n, w, rs, j, f) <=> Incoming(m, w, rs, j, f)
      /\ \A j, f : Holds(n, w, rs, js, j, f) <=> Holds(m, w, rs, js, j, f)
  BY <1>1, SamePending
<1>5. \A i \in DOMAIN z : i \in Nat \ {0} /\ i + 1 \in DOMAIN q /\ z[i] = q[i + 1]
  BY <1>2 DEF Popped
<1> HIDE DEF q, z
<1>6. ShapesOK(n, w)
  BY <1>1, <1>3 DEF CoreOK, ShapesOK
<1>7. QueuesOK(n, w, rs)
  BY <1>2, <1>3, <1>5 DEF CoreOK, QueuesOK, RequestOK, ResponseOK, Popped, q, z
<1>8. PendingOK(n, js)
  BY <1>1, <1>3 DEF CoreOK, PendingOK
<1>9. BirthsOK(n, w)
  <2>1. ASSUME NEW i \in DOMAIN z, NEW k \in DOMAIN z, NEW f, FinishOf(z[i], f), FinishOf(z[k], f)
        PROVE  i = k
    <3>1. i + 1 = k + 1
      BY <1>5, <2>1 DEF CoreOK, BirthsOK, q
    <3> QED
      BY <1>5, <3>1
  <2>2. \A i \in DOMAIN z : \A f : FinishOf(z[i], f) => Unborn(n, w, f)
    BY <1>2, <1>5 DEF CoreOK, BirthsOK, q
  <2>3. \A t \in w.transforms : Unborn(n, w, t.id) /\ ~Finishes(n, t.id)
    BY <1>2 DEF CoreOK, BirthsOK
  <2> QED
    BY <2>1, <2>2, <2>3 DEF CoreOK, BirthsOK, z
<1>10. ReadsOK(n, w)
  <2> SUFFICES ASSUME NEW i \in DOMAIN z, NEW f \in ReadBy(z[i])
               PROVE  f \in DOMAIN w.frames /\ \A k \in 1..(i - 1) : ~Deletes(z[k], f)
    BY DEF ReadsOK, z
  <2>1. i \in Nat \ {0} /\ i + 1 \in DOMAIN q /\ f \in ReadBy(q[i + 1])
    BY <1>5
  <2>2. f \in DOMAIN w.frames /\ \A k \in 1..i : ~Deletes(q[k], f)
    BY <2>1 DEF CoreOK, ReadsOK, q
  <2>3. DOMAIN z = 1..Len(z) /\ Len(z) \in Nat
    BY <1>2, SeqDomain DEF Popped, z
  <2>4. ASSUME NEW k \in 1..(i - 1)
        PROVE  ~Deletes(z[k], f)
    <3>1. k \in DOMAIN z
      BY <2>1, <2>3
    <3>2. z[k] = q[k + 1] /\ k + 1 \in 1..i
      BY <1>5, <2>1, <3>1
    <3> QED
      BY <2>2, <3>2
  <2> QED
    BY <2>2, <2>4
<1>11. JobsOK(n, js)
  BY <1>1, <1>4 DEF CoreOK, JobsOK
<1>12. RequestsOK(n, js)
  BY <1>1, <1>4, <1>5 DEF CoreOK, RequestsOK, Asks, q, z
<1>13. TransformsOK(n, w, js)
  BY <1>4 DEF CoreOK, TransformsOK
<1>14. AnswersOK(n, w, rs, js)
  <2>1. \A job, f : Given(m, w, job, f) => Given(n, w, job, f)
    BY <1>2 DEF Given
  <2>2. \A j, i : AnsweredOK(m, w, rs, js, j, i) => AnsweredOK(n, w, rs, js, j, i)
    BY <1>1 DEF AnsweredOK, ScanRead
  <2> QED
    BY <1>4, <2>1, <2>2 DEF CoreOK, AnswersOK
<1>15. JobFramesOK(n, w, js)
  <2>1. \A job : JobFrames(m, w, job) => JobFrames(n, w, job)
    BY <1>2 DEF JobFrames
  <2> QED
    BY <2>1 DEF CoreOK, JobFramesOK
<1>16. HoldsOK(n, w, rs, js)
  BY <1>4 DEF CoreOK, HoldsOK
<1>17. ScanOwnersOK(n, w, js)
  BY <1>1 DEF CoreOK, ScanOwnersOK, Scanned
<1>18. ScanRequestsOK(n, rs, js)
  <2> SUFFICES ASSUME NEW i \in DOMAIN z, NEW s, IsScan(z[i], s)
               PROVE  /\ \A k \in DOMAIN z : IsScan(z[k], s) => k = i
                      /\ \A a \in DOMAIN rs : ~IsScanMessage(rs[a], s) /\ ~IsScanFinish(rs[a], s)
                      /\ s \in DOMAIN m.activeScans =>
                           /\ m.activeScans[s].messageData = <<>>
                           /\ z[i].data.frame = js[m.activeScans[s].owner].out
    BY <1>1 DEF ScanRequestsOK, z
  <2>1. i + 1 \in DOMAIN q /\ IsScan(q[i + 1], s) /\ z[i] = q[i + 1]
    BY <1>5
  <2>2. ASSUME NEW k \in DOMAIN z, IsScan(z[k], s)
        PROVE  k = i
    <3>1. k + 1 = i + 1
      BY <1>5, <2>1, <2>2 DEF CoreOK, ScanRequestsOK, q
    <3> QED
      BY <1>5, <3>1
  <2> QED
    BY <2>1, <2>2 DEF CoreOK, ScanRequestsOK, q
<1>19. ScanMessagesOK(n, w, rs, js)
  BY <1>1 DEF CoreOK, ScanMessagesOK, Scanned
<1> QED
  BY <1>4, <1>6, <1>7, <1>8, <1>9, <1>10, <1>11, <1>12, <1>13, <1>14, <1>15, <1>16, <1>17, <1>18, <1>19
     DEF CoreOK

\* What a job will be given has been numbered.
LEMMA IncomingIds ==
  ASSUME NEW m, NEW w, NEW rs, NEW js, CoreOK(m, w, rs, js), NEW j \in DOMAIN js, NEW f,
         Holds(m, w, rs, js, j, f)
  PROVE  f \in FrameIds(w)
<1>1. \A g : Given(m, w, js[j], g) => g \in FrameIds(w)
  BY DEF CoreOK, ShapesOK, Given, Unborn, Living
<1>2. Incoming(m, w, rs, j, f) => f \in FrameIds(w)
  BY <1>1 DEF CoreOK, ShapesOK, AnswersOK, Incoming
<1>3. Owns(js[j], f) => f \in FrameIds(w)
  BY DEF CoreOK, HoldsOK
<1> QED
  BY <1>2, <1>3 DEF Holds

\* The worker answers.
Answers(m, w, rs, js, a) ==
  /\ ResponseOK(m, a)
  /\ \A j \in DOMAIN js : Awaits(m, a.requestId, j) =>
       /\ a.type = "DATAFRAME_ID" =>
            /\ Given(m, w, js[j], a.data.frame) /\ ~Owns(js[j], a.data.frame)
            /\ \A k \in DOMAIN js : k # j => ~Holds(m, w, rs, js, k, a.data.frame)
       /\ a.type = "OK" => AnsweredOK(m, w, rs, js, j, Len(rs) + 1)
  /\ \A s : IsScanMessage(a, s) \/ IsScanFinish(a, s) =>
       \A i \in DOMAIN m.requests : ~IsScan(m.requests[i], s)
  /\ \A s \in DOMAIN m.activeScans : IsScanMessage(a, s) =>
       /\ \A b \in DOMAIN rs : ~IsScanMessage(rs[b], s)
       /\ m.activeScans[s].messageData = <<>>
       /\ a.data.buffer = Scanned(w, js, m.activeScans[s])
  /\ \A s \in DOMAIN m.activeScans : IsScanFinish(a, s) =>
       m.activeScans[s].messageData # <<>> \/ \E b \in DOMAIN rs : IsScanMessage(rs[b], s)

\* A job comes to hold the frame that is answered.
Gives(m, w, rs, ts, js, a) ==
  /\ CoreOK(m, w, ts, js)
  /\ \A j, f : Holds(m, w, ts, js, j, f) =>
       \/ Holds(m, w, rs, js, j, f)
       \/ a.type = "DATAFRAME_ID" /\ Awaits(m, a.requestId, j) /\ f = a.data.frame

LEMMA AnswerKeeps ==
  ASSUME NEW m, NEW w, NEW rs, NEW js, CoreOK(m, w, rs, js), NEW a, Answers(m, w, rs, js, a),
         NEW ts, ts = Append(rs, a)
  PROVE  Gives(m, w, rs, ts, js, a)
<1> DEFINE e == Len(rs) + 1
<1>1. /\ IsSeq(ts) /\ DOMAIN ts = DOMAIN rs \cup {e} /\ e \notin DOMAIN rs /\ ts[e] = a
      /\ \A i \in DOMAIN rs : ts[i] = rs[i]
      /\ DOMAIN rs = 1..Len(rs) /\ Len(rs) \in Nat
  BY SeqAppend, SeqDomain DEF CoreOK, QueuesOK
<1>2. QueuesOK(m, w, ts)
  BY <1>1 DEF CoreOK, QueuesOK, Answers
<1>3. \A j, f : Incoming(m, w, ts, j, f) =>
        \/ Incoming(m, w, rs, j, f)
        \/ a.type = "DATAFRAME_ID" /\ Awaits(m, a.requestId, j) /\ f = a.data.frame
  BY <1>1 DEF Incoming
<1>4. \A j, f : Holds(m, w, ts, js, j, f) =>
        \/ Holds(m, w, rs, js, j, f)
        \/ a.type = "DATAFRAME_ID" /\ Awaits(m, a.requestId, j) /\ f = a.data.frame
  BY <1>3 DEF Holds
<1> HIDE DEF e
<1>5. HoldsOK(m, w, ts, js)
  <2>1. ASSUME NEW i \in DOMAIN js, NEW k \in DOMAIN js, NEW f,
               Holds(m, w, ts, js, i, f), Holds(m, w, ts, js, k, f)
        PROVE  i = k
    <3>1. \A l \in DOMAIN js : (a.type = "DATAFRAME_ID" /\ Awaits(m, a.requestId, l)) =>
            \A g \in DOMAIN js : g # l => ~Holds(m, w, rs, js, g, a.data.frame)
      BY DEF Answers
    <3>2. \A l, g : Awaits(m, a.requestId, l) /\ Awaits(m, a.requestId, g) => l = g
      BY DEF Awaits
    <3> QED
      BY <1>4, <2>1, <3>1, <3>2 DEF CoreOK, HoldsOK
  <2>2. ASSUME NEW k \in DOMAIN js, NEW f, Owns(js[k], f)
        PROVE  f \in FrameIds(w) /\ ~Incoming(m, w, ts, k, f)
    BY <1>3, <2>2 DEF CoreOK, HoldsOK, Answers
  <2> QED
    BY <2>1, <2>2 DEF HoldsOK
<1>6. AnswersOK(m, w, ts, js)
  <2> SUFFICES ASSUME NEW i \in DOMAIN ts, NEW j \in DOMAIN js, Awaits(m, ts[i].requestId, j)
               PROVE  /\ ts[i].type = "DATAFRAME_ID" => Given(m, w, js[j], ts[i].data.frame)
                      /\ ts[i].type = "OK" => AnsweredOK(m, w, ts, js, j, i)
    BY DEF AnswersOK
  <2>1. ASSUME AnsweredOK(m, w, rs, js, j, i)
        PROVE  AnsweredOK(m, w, ts, js, j, i)
    <3>1. \A b \in 1..(i - 1) : b \in DOMAIN rs
      BY <1>1 DEF e
    <3>2. ScanRead(m, w, rs, js, j, i) => ScanRead(m, w, ts, js, j, i)
      BY <1>1, <3>1 DEF ScanRead
    <3> QED
      BY <2>1, <3>2 DEF AnsweredOK
  <2>2. CASE i \in DOMAIN rs
    BY <1>1, <2>1, <2>2 DEF CoreOK, AnswersOK
  <2>3. CASE i = e
    BY <1>1, <2>1, <2>3 DEF Answers, e
  <2> QED
    BY <1>1, <2>2, <2>3
<1>7. ScanRequestsOK(m, ts, js)
  <2>1. \A i \in DOMAIN m.requests : \A s : IsScan(m.requests[i], s) =>
          ~IsScanMessage(a, s) /\ ~IsScanFinish(a, s)
    BY DEF Answers
  <2>2. ASSUME NEW i \in DOMAIN m.requests, NEW s, IsScan(m.requests[i], s), NEW b \in DOMAIN ts
        PROVE  ~IsScanMessage(ts[b], s) /\ ~IsScanFinish(ts[b], s)
    <3>1. CASE b \in DOMAIN rs
      <4>1. \A k \in DOMAIN rs : ~IsScanMessage(rs[k], s) /\ ~IsScanFinish(rs[k], s)
        BY <2>2 DEF CoreOK, ScanRequestsOK
      <4> QED
        BY <1>1, <3>1, <4>1
    <3>2. CASE b = e
      BY <1>1, <2>1, <2>2, <3>2
    <3> QED
      BY <1>1, <3>1, <3>2
  <2> QED
    BY <2>2 DEF CoreOK, ScanRequestsOK
<1>8. ScanMessagesOK(m, w, ts, js)
  <2> SUFFICES ASSUME NEW s \in DOMAIN m.activeScans
               PROVE  /\ \A b, c \in DOMAIN ts : IsScanMessage(ts[b], s) /\ IsScanMessage(ts[c], s) => b = c
                      /\ \A b \in DOMAIN ts : IsScanMessage(ts[b], s) =>
                           /\ m.activeScans[s].messageData = <<>>
                           /\ ts[b].data.buffer = Scanned(w, js, m.activeScans[s])
                      /\ \A b \in DOMAIN ts : IsScanFinish(ts[b], s) =>
                           \/ m.activeScans[s].messageData # <<>>
                           \/ \E c \in 1..(b - 1) : IsScanMessage(ts[c], s)
    BY DEF ScanMessagesOK
  <2>1. \A b, c \in DOMAIN ts : IsScanMessage(ts[b], s) /\ IsScanMessage(ts[c], s) => b = c
    BY <1>1 DEF CoreOK, ScanMessagesOK, Answers
  <2>2. \A b \in DOMAIN ts : IsScanMessage(ts[b], s) =>
          /\ m.activeScans[s].messageData = <<>>
          /\ ts[b].data.buffer = Scanned(w, js, m.activeScans[s])
    BY <1>1 DEF CoreOK, ScanMessagesOK, Answers
  <2>3. ASSUME NEW b \in DOMAIN ts, IsScanFinish(ts[b], s)
        PROVE  \/ m.activeScans[s].messageData # <<>>
               \/ \E c \in 1..(b - 1) : IsScanMessage(ts[c], s)
    <3>1. \A c \in 1..(b - 1) : c \in DOMAIN rs
      BY <1>1 DEF e
    <3>2. CASE b \in DOMAIN rs
      <4>1. \/ m.activeScans[s].messageData # <<>>
            \/ \E c \in 1..(b - 1) : IsScanMessage(rs[c], s)
        BY <1>1, <2>3, <3>2 DEF CoreOK, ScanMessagesOK
      <4> QED
        BY <1>1, <3>1, <4>1
    <3>3. CASE b = e
      <4>1. m.activeScans[s].messageData # <<>> \/ \E c \in DOMAIN rs : IsScanMessage(rs[c], s)
        BY <1>1, <2>3, <3>3 DEF Answers
      <4>2. \A c \in DOMAIN rs : c \in 1..(b - 1)
        BY <1>1, <3>3 DEF e
      <4> QED
        BY <1>1, <4>1, <4>2
    <3> QED
      BY <1>1, <3>2, <3>3
  <2> QED
    BY <2>1, <2>2, <2>3
<1>9. CoreOK(m, w, ts, js)
  BY <1>2, <1>5, <1>6, <1>7, <1>8 DEF CoreOK
<1> QED
  BY <1>4, <1>9 DEF Gives

\* The worker makes or loses frames that nobody knows.
Alters(m, w, x, rs, js) ==
  /\ ShapesOK(m, x) /\ FrameIds(w) \subseteq FrameIds(x)
  /\ \A f : Living(m, w, f) => Living(m, x, f) /\ x.frames[f] = w.frames[f]
  /\ BirthsOK(m, x) /\ ReadsOK(m, x) /\ TransformsOK(m, x, js)
  /\ \A j \in DOMAIN js : js[j].at \in {"write", "finish"} => JobFrames(m, x, js[j])
  /\ \A j \in DOMAIN js : \A f : js[j].at = "ingest" /\ Incoming(m, w, rs, j, f) /\ Given(m, w, js[j], f) =>
       Unborn(m, x, f) /\ ~Transformed(x, f)
  /\ \A j \in DOMAIN js : js[j].at = "finish" /\ js[j].frame \in DOMAIN w.frames =>
       js[j].frame \in DOMAIN x.frames
  /\ \A j \in DOMAIN js :
       js[j].at = "write" /\ js[j].frame \in DOMAIN w.frameBuilders
           /\ w.frameBuilders[js[j].frame] = js[j].table =>
         js[j].frame \in DOMAIN x.frameBuilders /\ x.frameBuilders[js[j].frame] = js[j].table
  /\ \A j \in DOMAIN js : \A f : Incoming(m, x, rs, j, f) =>
       Incoming(m, w, rs, j, f) \/ (f \notin FrameIds(w) /\ \A k \in DOMAIN js : Incoming(m, x, rs, k, f) => k = j)

LEMMA AlterKeeps ==
  ASSUME NEW m, NEW w, NEW rs, NEW js, CoreOK(m, w, rs, js), NEW x, Alters(m, w, x, rs, js)
  PROVE  /\ CoreOK(m, x, rs, js)
         /\ \A j \in DOMAIN js : \A f : Holds(m, x, rs, js, j, f) =>
              Holds(m, w, rs, js, j, f) \/ f \notin FrameIds(w)
<1>1. /\ ShapesOK(m, x) /\ FrameIds(w) \subseteq FrameIds(x)
      /\ \A f : Living(m, w, f) => Living(m, x, f) /\ x.frames[f] = w.frames[f]
  BY DEF Alters
<1>2. \A j \in DOMAIN js : \A f : Incoming(m, x, rs, j, f) =>
       Incoming(m, w, rs, j, f) \/ (f \notin FrameIds(w) /\ \A k \in DOMAIN js : Incoming(m, x, rs, k, f) => k = j)
  BY DEF Alters
<1>3. QueuesOK(m, x, rs)
  BY <1>1 DEF CoreOK, QueuesOK, RequestOK
<1>4. AnswersOK(m, x, rs, js)
  <2> SUFFICES ASSUME NEW i \in DOMAIN rs, NEW j \in DOMAIN js, Awaits(m, rs[i].requestId, j)
               PROVE  /\ rs[i].type = "DATAFRAME_ID" => Given(m, x, js[j], rs[i].data.frame)
                      /\ rs[i].type = "OK" => AnsweredOK(m, x, rs, js, j, i)
    BY DEF AnswersOK
  <2>1. ASSUME rs[i].type = "DATAFRAME_ID"
        PROVE  Given(m, x, js[j], rs[i].data.frame)
    <3>1. Given(m, w, js[j], rs[i].data.frame) /\ Incoming(m, w, rs, j, rs[i].data.frame)
      BY <2>1 DEF CoreOK, AnswersOK, Incoming
    <3>2. js[j].at = "ingest" => Unborn(m, x, rs[i].data.frame) /\ ~Transformed(x, rs[i].data.frame)
      BY <3>1 DEF Alters
    <3>3. js[j].at \in Transforming =>
            Living(m, x, rs[i].data.frame) /\ x.frames[rs[i].data.frame] = w.frames[rs[i].data.frame]
      BY <1>1, <3>1 DEF Given
    <3> QED
      BY <3>1, <3>2, <3>3 DEF Given, Transforming
  <2>2. ASSUME rs[i].type = "OK"
        PROVE  AnsweredOK(m, x, rs, js, j, i)
    <3>1. AnsweredOK(m, w, rs, js, j, i)
      BY <2>2 DEF CoreOK, AnswersOK
    <3>2. js[j].at \in ReadingAt => x.frames[js[j].out] = w.frames[js[j].out]
      BY <1>1 DEF CoreOK, JobFramesOK, JobFrames
    <3>3. js[j].at \in ReadingAt => (ScanRead(m, w, rs, js, j, i) => ScanRead(m, x, rs, js, j, i))
      BY <3>2 DEF ScanRead
    <3>4. js[j].at = "finish" => js[j].frame \in DOMAIN x.frames
      BY <3>1 DEF AnsweredOK, Alters
    <3>5. js[j].at = "write" =>
            js[j].frame \in DOMAIN x.frameBuilders /\ x.frameBuilders[js[j].frame] = js[j].table
      BY <3>1 DEF AnsweredOK, Alters
    <3> QED
      BY <3>1, <3>3, <3>4, <3>5 DEF AnsweredOK
  <2> QED
    BY <2>1, <2>2
<1>5. JobFramesOK(m, x, js)
  <2> SUFFICES ASSUME NEW j \in DOMAIN js
               PROVE  JobFrames(m, x, js[j])
    BY DEF JobFramesOK
  <2>1. CASE js[j].at \in {"write", "finish"}
    BY <2>1 DEF Alters
  <2>2. CASE js[j].at \notin {"write", "finish"}
    <3>1. JobFrames(m, w, js[j])
      BY DEF CoreOK, JobFramesOK
    <3> QED
      BY <1>1, <2>2, <3>1 DEF JobFrames, ReadingAt
  <2> QED
    BY <2>1, <2>2
<1>6. \A j \in DOMAIN js : \A f : Holds(m, x, rs, js, j, f) =>
        Holds(m, w, rs, js, j, f) \/ f \notin FrameIds(w)
  BY <1>2 DEF Holds
<1>7. HoldsOK(m, x, rs, js)
  <2>1. ASSUME NEW i \in DOMAIN js, NEW k \in DOMAIN js, NEW f,
               Holds(m, x, rs, js, i, f), Holds(m, x, rs, js, k, f)
        PROVE  i = k
    <3>1. CASE f \in FrameIds(w)
      BY <1>6, <2>1, <3>1 DEF CoreOK, HoldsOK
    <3>2. CASE f \notin FrameIds(w)
      <4>1. ~Owns(js[i], f) /\ ~Owns(js[k], f)
        BY <3>2 DEF CoreOK, HoldsOK
      <4>2. ~Incoming(m, w, rs, i, f)
        BY <3>2, IncomingIds DEF Holds
      <4> QED
        BY <1>2, <2>1, <4>1, <4>2 DEF Holds
    <3> QED
      BY <3>1, <3>2
  <2>2. ASSUME NEW k \in DOMAIN js, NEW f, Owns(js[k], f)
        PROVE  f \in FrameIds(x) /\ ~Incoming(m, x, rs, k, f)
    BY <1>1, <1>2, <2>2 DEF CoreOK, HoldsOK
  <2> QED
    BY <2>1, <2>2 DEF HoldsOK
<1>8. \A s \in DOMAIN m.activeScans : Scanned(x, js, m.activeScans[s]) = Scanned(w, js, m.activeScans[s])
  BY <1>1 DEF CoreOK, ScanOwnersOK, JobFramesOK, JobFrames, Scanned
<1>9. ScanOwnersOK(m, x, js)
  BY <1>8 DEF CoreOK, ScanOwnersOK
<1>10. ScanMessagesOK(m, x, rs, js)
  BY <1>8 DEF CoreOK, ScanMessagesOK
<1> QED
  BY <1>1, <1>3, <1>4, <1>5, <1>6, <1>7, <1>9, <1>10 DEF CoreOK, Alters

\* Frame numbers are used up, builders are added.
Numbers(w, x) ==
  /\ WorkerShape(x) /\ x.frames = w.frames /\ x.transforms = w.transforms
  /\ x.nextFrameId \in Nat /\ x.nextFrameId >= w.nextFrameId
  /\ DOMAIN w.frameBuilders \subseteq DOMAIN x.frameBuilders
  /\ DOMAIN x.frameBuilders \subseteq FrameIds(x)
  /\ \A f \in DOMAIN w.frameBuilders : x.frameBuilders[f] = w.frameBuilders[f]

LEMMA NumberKeeps ==
  ASSUME NEW m, NEW w, NEW rs, NEW js, CoreOK(m, w, rs, js), NEW x, Numbers(w, x)
  PROVE  /\ CoreOK(m, x, rs, js)
         /\ \A f : Living(m, w, f) => Living(m, x, f) /\ x.frames[f] = w.frames[f]
         /\ \A j \in DOMAIN js : \A f : Holds(m, x, rs, js, j, f) => Holds(m, w, rs, js, j, f)
<1>1. /\ WorkerShape(x) /\ x.frames = w.frames /\ x.transforms = w.transforms
      /\ x.nextFrameId \in Nat /\ DOMAIN x.frameBuilders \subseteq FrameIds(x)
  BY DEF Numbers
<1>2. FrameIds(w) \subseteq FrameIds(x)
  BY DEF Numbers, FrameIds, CoreOK, ShapesOK
<1>3. \A f : Living(m, w, f) => Living(m, x, f) /\ x.frames[f] = w.frames[f]
  BY <1>1 DEF Living
<1>4. \A f : Unborn(m, w, f) => Unborn(m, x, f)
  BY <1>1, <1>2 DEF Unborn
<1>5. \A f : Transformed(x, f) <=> Transformed(w, f)
  BY <1>1 DEF Transformed
<1>6. \A j, f : Incoming(m, x, rs, j, f) <=> Incoming(m, w, rs, j, f)
  BY <1>1 DEF Incoming
<1>7. ShapesOK(m, x)
  BY <1>1, <1>2 DEF CoreOK, ShapesOK
<1>8. BirthsOK(m, x)
  BY <1>1, <1>4 DEF CoreOK, BirthsOK
<1>9. ReadsOK(m, x)
  BY <1>1 DEF CoreOK, ReadsOK
<1>10. TransformsOK(m, x, js)
  BY <1>1 DEF CoreOK, TransformsOK
<1>11. \A j \in DOMAIN js : js[j].at \in {"write", "finish"} => JobFrames(m, x, js[j])
  <2> SUFFICES ASSUME NEW j \in DOMAIN js, js[j].at \in {"write", "finish"}
               PROVE  JobFrames(m, x, js[j])
    OBVIOUS
  <2>1. JobFrames(m, w, js[j])
    BY DEF CoreOK, JobFramesOK
  <2>2. js[j].frame \in DOMAIN w.frameBuilders =>
          js[j].frame \in DOMAIN x.frameBuilders /\ x.frameBuilders[js[j].frame] = w.frameBuilders[js[j].frame]
    BY DEF Numbers
  <2> QED
    BY <1>1, <1>4, <1>5, <2>1, <2>2 DEF JobFrames, Later, ReadingAt
<1>12. \A j \in DOMAIN js : \A f : js[j].at = "ingest" /\ Incoming(m, w, rs, j, f) /\ Given(m, w, js[j], f) =>
         Unborn(m, x, f) /\ ~Transformed(x, f)
  BY <1>4, <1>5 DEF Given
<1>13. Alters(m, w, x, rs, js)
  BY <1>1, <1>2, <1>3, <1>6, <1>7, <1>8, <1>9, <1>10, <1>11, <1>12 DEF Alters, Numbers
<1>14. \A j \in DOMAIN js : \A f : Holds(m, x, rs, js, j, f) => Holds(m, w, rs, js, j, f)
  BY <1>6 DEF Holds
<1> QED
  BY <1>3, <1>13, <1>14, AlterKeeps

\* A builder is written.
WritesBuilder(m, w, x, f, table) ==
  /\ WorkerShape(x) /\ x.frames = w.frames /\ x.transforms = w.transforms
  /\ x.nextFrameId = w.nextFrameId
  /\ f \in DOMAIN w.frameBuilders /\ x.frameBuilders = [w.frameBuilders EXCEPT ![f] = table]
  /\ \E i \in DOMAIN m.requests : WriteOf(m.requests[i], f) /\ m.requests[i].data.table = table

LEMMA WriteKeeps ==
  ASSUME NEW m, NEW w, NEW rs, NEW js, CoreOK(m, w, rs, js),
         NEW x, NEW f, NEW table, WritesBuilder(m, w, x, f, table)
  PROVE  /\ CoreOK(m, x, rs, js)
         /\ \A g : Living(m, w, g) => Living(m, x, g) /\ x.frames[g] = w.frames[g]
         /\ \A j \in DOMAIN js : \A g : Holds(m, x, rs, js, j, g) => Holds(m, w, rs, js, j, g)
<1>1. /\ WorkerShape(x) /\ x.frames = w.frames /\ x.transforms = w.transforms
      /\ x.nextFrameId = w.nextFrameId /\ DOMAIN x.frameBuilders = DOMAIN w.frameBuilders
      /\ x.frameBuilders[f] = table
      /\ \A g \in DOMAIN w.frameBuilders : g # f => x.frameBuilders[g] = w.frameBuilders[g]
  BY DEF WritesBuilder
<1>2. FrameIds(w) = FrameIds(x)
  BY <1>1 DEF FrameIds
<1>3. \A g : Living(m, w, g) => Living(m, x, g) /\ x.frames[g] = w.frames[g]
  BY <1>1 DEF Living
<1>4. \A g : Unborn(m, w, g) => Unborn(m, x, g)
  BY <1>1, <1>2 DEF Unborn
<1>5. \A g : Transformed(x, g) <=> Transformed(w, g)
  BY <1>1 DEF Transformed
<1>6. \A j, g : Incoming(m, x, rs, j, g) <=> Incoming(m, w, rs, j, g)
  BY <1>1 DEF Incoming
<1>7. ShapesOK(m, x)
  BY <1>1, <1>2 DEF CoreOK, ShapesOK
<1>8. BirthsOK(m, x)
  BY <1>1, <1>4 DEF CoreOK, BirthsOK
<1>9. ReadsOK(m, x)
  BY <1>1 DEF CoreOK, ReadsOK
<1>10. TransformsOK(m, x, js)
  BY <1>1 DEF CoreOK, TransformsOK
<1>11. \A j \in DOMAIN js : js[j].at \in {"write", "finish"} /\ js[j].frame = f => js[j].table = table
  <2> SUFFICES ASSUME NEW j \in DOMAIN js, js[j].at \in {"write", "finish"}, js[j].frame = f
               PROVE  js[j].table = table
    OBVIOUS
  <2>1. WritesOnly(m, f, js[j].table)
    BY DEF CoreOK, JobFramesOK, JobFrames
  <2> QED
    BY <2>1 DEF WritesOnly, WritesBuilder
<1>12. \A j \in DOMAIN js : js[j].at \in {"write", "finish"} /\ js[j].frame \in DOMAIN w.frameBuilders
           /\ w.frameBuilders[js[j].frame] = js[j].table =>
         js[j].frame \in DOMAIN x.frameBuilders /\ x.frameBuilders[js[j].frame] = js[j].table
  BY <1>1, <1>11
<1>13. \A j \in DOMAIN js : js[j].at \in {"write", "finish"} => JobFrames(m, x, js[j])
  <2> SUFFICES ASSUME NEW j \in DOMAIN js, js[j].at \in {"write", "finish"}
               PROVE  JobFrames(m, x, js[j])
    OBVIOUS
  <2>1. JobFrames(m, w, js[j])
    BY DEF CoreOK, JobFramesOK
  <2> QED
    BY <1>1, <1>4, <1>5, <1>12, <2>1 DEF JobFrames, Later, ReadingAt
<1>14. \A j \in DOMAIN js : \A g : js[j].at = "ingest" /\ Incoming(m, w, rs, j, g) /\ Given(m, w, js[j], g) =>
         Unborn(m, x, g) /\ ~Transformed(x, g)
  BY <1>4, <1>5 DEF Given
<1>15. Alters(m, w, x, rs, js)
  BY <1>1, <1>2, <1>3, <1>6, <1>7, <1>8, <1>9, <1>10, <1>12, <1>13, <1>14 DEF Alters
<1>16. \A j \in DOMAIN js : \A g : Holds(m, x, rs, js, j, g) => Holds(m, w, rs, js, j, g)
  BY <1>6 DEF Holds
<1> QED
  BY <1>3, <1>15, <1>16, AlterKeeps

\* A transform begins.
StartsTransform(m, w, x, js, t) ==
  /\ WorkerShape(x) /\ x.frames = w.frames /\ x.frameBuilders = w.frameBuilders
  /\ x.nextFrameId = w.nextFrameId + 1 /\ x.transforms = w.transforms \cup {t}
  /\ t.id = w.nextFrameId /\ t.request.messageId \in MessageIds(m)
  /\ \A j \in DOMAIN js : Awaits(m, t.request.messageId, j) => Made(t, js[j])

LEMMA StartKeeps ==
  ASSUME NEW m, NEW w, NEW rs, NEW js, CoreOK(m, w, rs, js), NEW x, NEW t,
         StartsTransform(m, w, x, js, t)
  PROVE  Alters(m, w, x, rs, js)
<1> DEFINE e == w.nextFrameId
<1>1. /\ WorkerShape(x) /\ x.frames = w.frames /\ x.frameBuilders = w.frameBuilders
      /\ x.nextFrameId = e + 1 /\ x.transforms = w.transforms \cup {t} /\ t.id = e
      /\ t.request.messageId \in MessageIds(m)
  BY DEF StartsTransform
<1>2. FrameIds(w) \subseteq FrameIds(x) /\ e \notin FrameIds(w) /\ e \in FrameIds(x) /\ e \in Nat
  BY <1>1 DEF FrameIds, CoreOK, ShapesOK
<1> HIDE DEF e
<1>3. \A f : Living(m, w, f) => Living(m, x, f) /\ x.frames[f] = w.frames[f]
  BY <1>1 DEF Living
<1>4. \A f : Unborn(m, w, f) => Unborn(m, x, f) /\ f # e
  BY <1>1, <1>2 DEF Unborn
<1>5. \A i \in DOMAIN m.requests : ~Deletes(m.requests[i], e) /\ ~FinishOf(m.requests[i], e)
  BY <1>2 DEF CoreOK, QueuesOK, RequestOK, Deletes, FinishOf
<1>6. Unborn(m, x, e) /\ ~Finishes(m, e)
  BY <1>1, <1>2, <1>5 DEF Unborn, Doomed, Finishes, CoreOK, ShapesOK
<1>7. \A f : Transformed(x, f) => Transformed(w, f) \/ f = e
  BY <1>1 DEF Transformed
<1>8. \A u \in w.transforms : u.id # e
  BY <1>2 DEF CoreOK, ShapesOK
<1>9. ShapesOK(m, x)
  BY <1>1, <1>2 DEF CoreOK, ShapesOK
<1>10. BirthsOK(m, x)
  <2>1. \A u \in x.transforms : Unborn(m, x, u.id) /\ ~Finishes(m, u.id)
    BY <1>1, <1>4, <1>6 DEF CoreOK, BirthsOK
  <2>2. \A u, v \in x.transforms : u.id = v.id => u = v
    BY <1>1, <1>8 DEF CoreOK, BirthsOK
  <2> QED
    BY <1>4, <2>1, <2>2 DEF CoreOK, BirthsOK
<1>11. ReadsOK(m, x)
  BY <1>1 DEF CoreOK, ReadsOK
<1>12. TransformsOK(m, x, js)
  BY <1>1 DEF CoreOK, TransformsOK, StartsTransform
<1>13. \A j \in DOMAIN js : js[j].at \in {"write", "finish"} => JobFrames(m, x, js[j])
  <2> SUFFICES ASSUME NEW j \in DOMAIN js, js[j].at \in {"write", "finish"}
               PROVE  JobFrames(m, x, js[j])
    OBVIOUS
  <2>1. JobFrames(m, w, js[j])
    BY DEF CoreOK, JobFramesOK
  <2>2. js[j].frame # e
    BY <1>2, <1>4, <2>1 DEF JobFrames, CoreOK, ShapesOK
  <2> QED
    BY <1>1, <1>4, <1>7, <2>1, <2>2 DEF JobFrames, Later, ReadingAt
<1>14. \A j \in DOMAIN js : \A f : js[j].at = "ingest" /\ Incoming(m, w, rs, j, f) /\ Given(m, w, js[j], f) =>
         Unborn(m, x, f) /\ ~Transformed(x, f)
  BY <1>4, <1>7 DEF Given
<1>15. ASSUME NEW j \in DOMAIN js, NEW f, Incoming(m, x, rs, j, f)
       PROVE  Incoming(m, w, rs, j, f)
                \/ (f \notin FrameIds(w) /\ \A k \in DOMAIN js : Incoming(m, x, rs, k, f) => k = j)
  <2>1. \A k \in DOMAIN js : ~Incoming(m, w, rs, k, e)
    BY <1>2, IncomingIds DEF Holds
  <2>2. \A k, g : Incoming(m, x, rs, k, g) =>
          Incoming(m, w, rs, k, g) \/ (g = e /\ Awaits(m, t.request.messageId, k))
    BY <1>1 DEF Incoming
  <2>3. \A k, l : Awaits(m, t.request.messageId, k) /\ Awaits(m, t.request.messageId, l) => k = l
    BY DEF Awaits
  <2> QED
    BY <1>2, <1>15, <2>1, <2>2, <2>3
<1> QED
  BY <1>1, <1>2, <1>3, <1>9, <1>10, <1>11, <1>12, <1>13, <1>14, <1>15 DEF Alters

\* A transform ends.
EndsTransform(w, x, t) ==
  /\ WorkerShape(x) /\ x.frames = w.frames /\ x.frameBuilders = w.frameBuilders
  /\ x.nextFrameId = w.nextFrameId /\ x.transforms = w.transforms \ {t}

LEMMA EndKeeps ==
  ASSUME NEW m, NEW w, NEW rs, NEW js, CoreOK(m, w, rs, js), NEW x, NEW t, EndsTransform(w, x, t)
  PROVE  Alters(m, w, x, rs, js)
<1>1. /\ WorkerShape(x) /\ x.frames = w.frames /\ x.frameBuilders = w.frameBuilders
      /\ x.nextFrameId = w.nextFrameId /\ x.transforms \subseteq w.transforms
  BY DEF EndsTransform
<1>2. FrameIds(w) = FrameIds(x)
  BY <1>1 DEF FrameIds
<1>3. \A f : Living(m, w, f) => Living(m, x, f) /\ x.frames[f] = w.frames[f]
  BY <1>1 DEF Living
<1>4. \A f : Unborn(m, w, f) => Unborn(m, x, f)
  BY <1>1, <1>2 DEF Unborn
<1>5. \A f : Transformed(x, f) => Transformed(w, f)
  BY <1>1 DEF Transformed
<1>6. \A j, f : Incoming(m, x, rs, j, f) => Incoming(m, w, rs, j, f)
  BY <1>1 DEF Incoming
<1>7. ShapesOK(m, x)
  BY <1>1, <1>2 DEF CoreOK, ShapesOK
<1>8. BirthsOK(m, x)
  BY <1>1, <1>4 DEF CoreOK, BirthsOK
<1>9. ReadsOK(m, x)
  BY <1>1 DEF CoreOK, ReadsOK
<1>10. TransformsOK(m, x, js)
  BY <1>1 DEF CoreOK, TransformsOK
<1>11. \A j \in DOMAIN js : js[j].at \in {"write", "finish"} => JobFrames(m, x, js[j])
  <2> SUFFICES ASSUME NEW j \in DOMAIN js, js[j].at \in {"write", "finish"}
               PROVE  JobFrames(m, x, js[j])
    OBVIOUS
  <2>1. JobFrames(m, w, js[j])
    BY DEF CoreOK, JobFramesOK
  <2> QED
    BY <1>1, <1>4, <1>5, <2>1 DEF JobFrames, Later, ReadingAt
<1>12. \A j \in DOMAIN js : \A f : js[j].at = "ingest" /\ Incoming(m, w, rs, j, f) /\ Given(m, w, js[j], f) =>
         Unborn(m, x, f) /\ ~Transformed(x, f)
  BY <1>4, <1>5 DEF Given
<1> QED
  BY <1>1, <1>2, <1>3, <1>6, <1>7, <1>8, <1>9, <1>10, <1>11, <1>12 DEF Alters

\* A frame is made.
Makes(m, w, x, rs, js, f, value) ==
  /\ WorkerShape(x) /\ x.frameBuilders = w.frameBuilders /\ x.transforms = w.transforms
  /\ x.nextFrameId = w.nextFrameId /\ x.frames = With(w.frames, f, value)
  /\ f \in FrameIds(w) /\ f \notin DOMAIN w.frames /\ ~Finishes(m, f) /\ ~Transformed(w, f)
  /\ \A j \in DOMAIN js : js[j].at = "write" => js[j].frame # f
  /\ \A j \in DOMAIN js : js[j].at = "finish" /\ js[j].frame = f => value = Ingested(js[j].table)
  /\ \A j \in DOMAIN js : js[j].at = "ingest" => ~Incoming(m, w, rs, j, f)

LEMMA MakeKeeps ==
  ASSUME NEW m, NEW w, NEW rs, NEW js, CoreOK(m, w, rs, js),
         NEW x, NEW f, NEW value, Makes(m, w, x, rs, js, f, value)
  PROVE  Alters(m, w, x, rs, js) /\ f \in DOMAIN x.frames /\ x.frames[f] = value
<1>1. /\ WorkerShape(x) /\ x.frameBuilders = w.frameBuilders /\ x.transforms = w.transforms
      /\ x.nextFrameId = w.nextFrameId /\ f \in FrameIds(w) /\ f \notin DOMAIN w.frames
      /\ DOMAIN x.frames = DOMAIN w.frames \cup {f} /\ x.frames[f] = value
      /\ \A g \in DOMAIN w.frames : x.frames[g] = w.frames[g]
  BY DEF Makes, With
<1>2. FrameIds(w) = FrameIds(x)
  BY <1>1 DEF FrameIds
<1>3. \A g : Living(m, w, g) => Living(m, x, g) /\ x.frames[g] = w.frames[g]
  BY <1>1 DEF Living
<1>4. \A g : Unborn(m, w, g) /\ g # f => Unborn(m, x, g)
  BY <1>1, <1>2 DEF Unborn
<1>5. \A g : Transformed(x, g) => Transformed(w, g)
  BY <1>1 DEF Transformed
<1>6. \A j, g : Incoming(m, x, rs, j, g) => Incoming(m, w, rs, j, g)
  BY <1>1 DEF Incoming
<1>7. ShapesOK(m, x)
  BY <1>1, <1>2 DEF CoreOK, ShapesOK
<1>8. BirthsOK(m, x)
  <2>1. \A t \in w.transforms : t.id # f
    BY DEF Makes, Transformed
  <2>2. \A i \in DOMAIN m.requests : ~FinishOf(m.requests[i], f)
    BY DEF Makes, Finishes
  <2> QED
    BY <1>1, <1>4, <2>1, <2>2 DEF CoreOK, BirthsOK
<1>9. ReadsOK(m, x)
  BY <1>1 DEF CoreOK, ReadsOK
<1>10. TransformsOK(m, x, js)
  BY <1>1 DEF CoreOK, TransformsOK
<1>11. \A j \in DOMAIN js : js[j].at \in {"write", "finish"} => JobFrames(m, x, js[j])
  <2> SUFFICES ASSUME NEW j \in DOMAIN js, js[j].at \in {"write", "finish"}
               PROVE  JobFrames(m, x, js[j])
    OBVIOUS
  <2>1. JobFrames(m, w, js[j])
    BY DEF CoreOK, JobFramesOK
  <2>2. js[j].at = "write" => js[j].frame # f
    BY DEF Makes
  <2>3. js[j].at = "finish" /\ js[j].frame = f => value = Ingested(js[j].table)
    BY DEF Makes
  <2>4. js[j].at = "write" => Unborn(m, x, js[j].frame)
    BY <1>4, <2>1, <2>2 DEF JobFrames
  <2> QED
    BY <1>1, <1>5, <2>1, <2>3, <2>4 DEF JobFrames, Later, ReadingAt
<1>12. \A j \in DOMAIN js : \A g : js[j].at = "ingest" /\ Incoming(m, w, rs, j, g) /\ Given(m, w, js[j], g) =>
         Unborn(m, x, g) /\ ~Transformed(x, g)
  BY <1>4, <1>5 DEF Given, Makes
<1> QED
  BY <1>1, <1>2, <1>3, <1>6, <1>7, <1>8, <1>9, <1>10, <1>11, <1>12 DEF Alters

\* A frame is freed when the worker comes to its deletion.
Frees(m, w, x, f) ==
  /\ WorkerShape(x) /\ x.frameBuilders = w.frameBuilders /\ x.transforms = w.transforms
  /\ x.nextFrameId = w.nextFrameId
  /\ DOMAIN x.frames = DOMAIN w.frames \ {f} /\ \A g \in DOMAIN x.frames : x.frames[g] = w.frames[g]
  /\ 1 \in DOMAIN m.requests /\ Deletes(m.requests[1], f)

LEMMA FreeKeeps ==
  ASSUME NEW m, NEW w, NEW rs, NEW js, CoreOK(m, w, rs, js), NEW x, NEW f, Frees(m, w, x, f)
  PROVE  Alters(m, w, x, rs, js)
<1>1. /\ WorkerShape(x) /\ x.frameBuilders = w.frameBuilders /\ x.transforms = w.transforms
      /\ x.nextFrameId = w.nextFrameId
      /\ DOMAIN x.frames = DOMAIN w.frames \ {f} /\ \A g \in DOMAIN x.frames : x.frames[g] = w.frames[g]
      /\ 1 \in DOMAIN m.requests /\ Deletes(m.requests[1], f) /\ Doomed(m, f)
  BY DEF Frees, Doomed
<1>2. FrameIds(w) = FrameIds(x)
  BY <1>1 DEF FrameIds
<1>3. \A g : Living(m, w, g) => Living(m, x, g) /\ x.frames[g] = w.frames[g]
  BY <1>1 DEF Living
<1>4. \A g : Unborn(m, w, g) => Unborn(m, x, g)
  BY <1>1, <1>2 DEF Unborn
<1>5. \A g : Transformed(x, g) <=> Transformed(w, g)
  BY <1>1 DEF Transformed
<1>6. \A j, g : Incoming(m, x, rs, j, g) => Incoming(m, w, rs, j, g)
  BY <1>1 DEF Incoming
<1>7. ShapesOK(m, x)
  BY <1>1, <1>2 DEF CoreOK, ShapesOK
<1>8. BirthsOK(m, x)
  BY <1>1, <1>4 DEF CoreOK, BirthsOK
<1>9. ReadsOK(m, x)
  <2> SUFFICES ASSUME NEW i \in DOMAIN m.requests, NEW g \in ReadBy(m.requests[i])
               PROVE  g \in DOMAIN x.frames /\ \A k \in 1..(i - 1) : ~Deletes(m.requests[k], g)
    BY DEF ReadsOK
  <2>1. g \in DOMAIN w.frames /\ \A k \in 1..(i - 1) : ~Deletes(m.requests[k], g)
    BY DEF CoreOK, ReadsOK
  <2>2. i # 1
    BY <1>1 DEF Deletes, ReadBy
  <2>3. DOMAIN m.requests = 1..Len(m.requests) /\ Len(m.requests) \in Nat
    BY SeqDomain DEF CoreOK, QueuesOK
  <2>4. 1 \in 1..(i - 1)
    BY <2>2, <2>3
  <2>5. g # f
    BY <1>1, <2>1, <2>4
  <2> QED
    BY <1>1, <2>1, <2>5
<1>10. TransformsOK(m, x, js)
  BY <1>1 DEF CoreOK, TransformsOK
<1>11. \A j \in DOMAIN js : js[j].at \in {"write", "finish"} => JobFrames(m, x, js[j])
  <2> SUFFICES ASSUME NEW j \in DOMAIN js, js[j].at \in {"write", "finish"}
               PROVE  JobFrames(m, x, js[j])
    OBVIOUS
  <2>1. JobFrames(m, w, js[j])
    BY DEF CoreOK, JobFramesOK
  <2> QED
    BY <1>1, <1>4, <1>5, <2>1 DEF JobFrames, Later, ReadingAt
<1>12. \A j \in DOMAIN js : \A g : js[j].at = "ingest" /\ Incoming(m, w, rs, j, g) /\ Given(m, w, js[j], g) =>
         Unborn(m, x, g) /\ ~Transformed(x, g)
  BY <1>4, <1>5 DEF Given
<1>13. \A j \in DOMAIN js : js[j].at = "finish" /\ js[j].frame \in DOMAIN w.frames =>
         js[j].frame \in DOMAIN x.frames
  BY <1>1 DEF CoreOK, JobFramesOK, JobFrames
<1> QED
  BY <1>1, <1>2, <1>3, <1>6, <1>7, <1>8, <1>9, <1>10, <1>11, <1>12, <1>13 DEF Alters

-----------------------------------------------------------------------------
(***************************************************************************)
(* Steps of the worker.  The frames that are in the worker, and are not    *)
(* about to be deleted, stay as they are, and jobs come to hold only       *)
(* frames that are new.                                                    *)
(***************************************************************************)
Spares(m, w, rs, n, x, ts, js) ==
  /\ FrameIds(w) \subseteq FrameIds(x)
  /\ \A f : Living(m, w, f) => Living(n, x, f) /\ x.frames[f] = w.frames[f]
  /\ \A j \in DOMAIN js : \A f : Holds(n, x, ts, js, j, f) => Holds(m, w, rs, js, j, f) \/ f \notin FrameIds(w)
Goes(m, w, rs, n, x, ts, js) == CoreOK(n, x, ts, js) /\ Spares(m, w, rs, n, x, ts, js)

LEMMA SparesTrans ==
  ASSUME NEW m, NEW w, NEW rs, NEW n, NEW x, NEW ts, NEW js, Goes(m, w, rs, n, x, ts, js),
         NEW l, NEW y, NEW us, Goes(n, x, ts, l, y, us, js)
  PROVE  Goes(m, w, rs, l, y, us, js)
<1>1. FrameIds(w) \subseteq FrameIds(x) /\ FrameIds(x) \subseteq FrameIds(y)
  BY DEF Goes, Spares
<1>2. \A f : Living(m, w, f) => Living(l, y, f) /\ y.frames[f] = w.frames[f]
  BY DEF Goes, Spares
<1>3. \A j \in DOMAIN js : \A f : Holds(l, y, us, js, j, f) => Holds(m, w, rs, js, j, f) \/ f \notin FrameIds(w)
  BY <1>1 DEF Goes, Spares
<1> QED
  BY <1>1, <1>2, <1>3 DEF Goes, Spares

LEMMA AlterGoes ==
  ASSUME NEW m, NEW w, NEW rs, NEW js, CoreOK(m, w, rs, js), NEW x, Alters(m, w, x, rs, js)
  PROVE  Goes(m, w, rs, m, x, rs, js)
<1>1. /\ CoreOK(m, x, rs, js)
      /\ \A j \in DOMAIN js : \A f : Holds(m, x, rs, js, j, f) =>
           Holds(m, w, rs, js, j, f) \/ f \notin FrameIds(w)
  BY AlterKeeps
<1>2. /\ FrameIds(w) \subseteq FrameIds(x)
      /\ \A f : Living(m, w, f) => Living(m, x, f) /\ x.frames[f] = w.frames[f]
  BY DEF Alters
<1> QED
  BY <1>1, <1>2 DEF Goes, Spares

LEMMA NumberGoes ==
  ASSUME NEW m, NEW w, NEW rs, NEW js, CoreOK(m, w, rs, js), NEW x, Numbers(w, x)
  PROVE  Goes(m, w, rs, m, x, rs, js)
<1>1. /\ CoreOK(m, x, rs, js)
      /\ \A f : Living(m, w, f) => Living(m, x, f) /\ x.frames[f] = w.frames[f]
      /\ \A j \in DOMAIN js : \A f : Holds(m, x, rs, js, j, f) => Holds(m, w, rs, js, j, f)
  BY NumberKeeps
<1>2. FrameIds(w) \subseteq FrameIds(x)
  BY DEF Numbers, FrameIds, CoreOK, ShapesOK
<1> QED
  BY <1>1, <1>2 DEF Goes, Spares

LEMMA WriteGoes ==
  ASSUME NEW m, NEW w, NEW rs, NEW js, CoreOK(m, w, rs, js),
         NEW x, NEW f, NEW table, WritesBuilder(m, w, x, f, table)
  PROVE  Goes(m, w, rs, m, x, rs, js)
<1>1. /\ CoreOK(m, x, rs, js)
      /\ \A g : Living(m, w, g) => Living(m, x, g) /\ x.frames[g] = w.frames[g]
      /\ \A j \in DOMAIN js : \A g : Holds(m, x, rs, js, j, g) => Holds(m, w, rs, js, j, g)
  BY WriteKeeps
<1>2. FrameIds(w) \subseteq FrameIds(x)
  BY DEF WritesBuilder, FrameIds
<1> QED
  BY <1>1, <1>2 DEF Goes, Spares

LEMMA DropGoes ==
  ASSUME NEW m, NEW n, Drops(m, n), NEW w, NEW rs, NEW js, CoreOK(m, w, rs, js)
  PROVE  Goes(m, w, rs, n, w, rs, js)
<1>1. /\ CoreOK(n, w, rs, js)
      /\ \A j, f : Holds(n, w, rs, js, j, f) <=> Holds(m, w, rs, js, j, f)
  BY DropKeeps
<1>2. \A f : Living(m, w, f) => Living(n, w, f)
  BY DropFates DEF CoreOK, QueuesOK
<1> QED
  BY <1>1, <1>2 DEF Goes, Spares

\* An answer with no frame
LEMMA AnswerGoes ==
  ASSUME NEW m, NEW w, NEW rs, NEW js, CoreOK(m, w, rs, js), NEW a, Answers(m, w, rs, js, a),
         NEW ts, ts = Append(rs, a), a.type # "DATAFRAME_ID"
  PROVE  Goes(m, w, rs, m, w, ts, js)
<1>1. Gives(m, w, rs, ts, js, a)
  BY AnswerKeeps
<1> QED
  BY <1>1 DEF Goes, Spares, Gives

LEMMA ErrorGoes ==
  ASSUME NEW m, NEW w, NEW rs, NEW js, CoreOK(m, w, rs, js), NEW a, a.type = "ERROR" \/ a.type = "error",
         NEW ts, ts = Append(rs, a)
  PROVE  Goes(m, w, rs, m, w, ts, js)
<1>1. Answers(m, w, rs, js, a)
  BY DEF Answers, ResponseOK, IsScanMessage, IsScanFinish
<1> QED
  BY <1>1, AnswerGoes

\* An answer without data
LEMMA OKGoes ==
  ASSUME NEW m, NEW w, NEW rs, NEW js, CoreOK(m, w, rs, js), NEW a, a.type = "OK",
         a.requestId \in MessageIds(m),
         \A j \in DOMAIN js : Awaits(m, a.requestId, j) => AnsweredOK(m, w, rs, js, j, Len(rs) + 1),
         NEW ts, ts = Append(rs, a)
  PROVE  Goes(m, w, rs, m, w, ts, js)
<1>1. Answers(m, w, rs, js, a)
  BY DEF Answers, ResponseOK, IsScanMessage, IsScanFinish
<1> QED
  BY <1>1, AnswerGoes

\* What is known when the worker takes the request r
Took(m, n, w, rs, js, r) ==
  /\ RequestOK(n, w, r)
  /\ \A j \in DOMAIN js : Awaits(n, r.messageId, j) => js[j].at \in Awaiting /\ Asks(n, j, js[j], r)
  /\ \A f \in ReadBy(r) : f \in DOMAIN w.frames
  /\ \A f : FinishOf(r, f) =>
       /\ f \in FrameIds(w) /\ f \notin DOMAIN w.frames /\ ~Finishes(n, f) /\ ~Transformed(w, f)
       /\ \A j \in DOMAIN js : js[j].at = "write" => js[j].frame # f
       /\ \A j \in DOMAIN js : js[j].at = "ingest" => ~Incoming(n, w, rs, j, f)
  /\ \A s : IsScan(r, s) =>
       /\ \A i \in DOMAIN n.requests : ~IsScan(n.requests[i], s)
       /\ \A a \in DOMAIN rs : ~IsScanMessage(rs[a], s) /\ ~IsScanFinish(rs[a], s)
       /\ s \in DOMAIN n.activeScans =>
            /\ n.activeScans[s].messageData = <<>>
            /\ r.data.frame = js[n.activeScans[s].owner].out

LEMMA TookRequest ==
  ASSUME NEW m, NEW n, Drops(m, n), NEW w, NEW rs, NEW js, CoreOK(m, w, rs, js), NEW r, r = m.requests[1]
  PROVE  1 \in DOMAIN m.requests /\ Took(m, n, w, rs, js, r)
<1> DEFINE q == m.requests
           z == n.requests
<1>1. /\ n.nextMessageId = m.nextMessageId /\ n.nextScanId = m.nextScanId
      /\ n.pendingRequests = m.pendingRequests /\ n.activeScans = m.activeScans
      /\ Popped(q, z) /\ IsSeq(q)
  BY DropFates DEF Drops, CoreOK, QueuesOK
<1>2. 1 \in DOMAIN q /\ r = q[1]
  BY <1>1 DEF Popped
<1>3. \A i \in DOMAIN z : i \in Nat \ {0} /\ i + 1 \in DOMAIN q /\ z[i] = q[i + 1] /\ i + 1 # 1
  BY <1>1 DEF Popped
<1>4. /\ \A k, l : Awaits(n, k, l) <=> Awaits(m, k, l)
      /\ \A j, f : Incoming(n, w, rs, j, f) <=> Incoming(m, w, rs, j, f)
  BY <1>1, SamePending
<1>5. MessageIds(n) = MessageIds(m) /\ ScanIds(n) = ScanIds(m)
  BY <1>1 DEF MessageIds, ScanIds
<1> HIDE DEF q, z
<1>6. RequestOK(n, w, r)
  BY <1>2, <1>5 DEF CoreOK, QueuesOK, RequestOK, q
<1>7. ASSUME NEW j \in DOMAIN js, Awaits(n, r.messageId, j)
      PROVE  js[j].at \in Awaiting /\ Asks(n, j, js[j], r)
  <2>1. Awaits(m, r.messageId, j)
    BY <1>4, <1>7
  <2>2. js[j].at \in Awaiting
    BY <2>1 DEF CoreOK, JobsOK
  <2>3. Asks(m, j, js[j], r)
    BY <1>2, <2>1 DEF CoreOK, RequestsOK, q
  <2> QED
    BY <1>1, <2>2, <2>3 DEF Asks
<1>8. \A f \in ReadBy(r) : f \in DOMAIN w.frames
  BY <1>2 DEF CoreOK, ReadsOK, q
<1>9. ASSUME NEW f, FinishOf(r, f)
      PROVE  /\ f \in FrameIds(w) /\ f \notin DOMAIN w.frames /\ ~Finishes(n, f) /\ ~Transformed(w, f)
             /\ \A j \in DOMAIN js : js[j].at = "write" => js[j].frame # f
             /\ \A j \in DOMAIN js : js[j].at = "ingest" => ~Incoming(n, w, rs, j, f)
  <2>1. Finishes(m, f) /\ Unborn(m, w, f)
    BY <1>2, <1>9 DEF CoreOK, BirthsOK, Finishes, q
  <2>2. ASSUME NEW i \in DOMAIN z, FinishOf(z[i], f)
        PROVE  FALSE
    <3>1. i + 1 \in DOMAIN q /\ FinishOf(q[i + 1], f) /\ 1 \in DOMAIN q /\ FinishOf(q[1], f)
      BY <1>2, <1>3, <1>9, <2>2
    <3>2. \A k, l \in DOMAIN q : FinishOf(q[k], f) /\ FinishOf(q[l], f) => k = l
      BY DEF CoreOK, BirthsOK, q
    <3>3. i + 1 = 1
      BY <3>1, <3>2
    <3> QED
      BY <1>3, <3>3
  <2>3. ~Finishes(n, f)
    BY <2>2 DEF Finishes, z
  <2>4. ~Transformed(w, f)
    BY <2>1 DEF CoreOK, BirthsOK, Transformed
  <2>5. \A j \in DOMAIN js : js[j].at = "write" => js[j].frame # f
    BY <2>1 DEF CoreOK, JobFramesOK, JobFrames
  <2>6. ASSUME NEW j \in DOMAIN js, js[j].at = "ingest", Incoming(m, w, rs, j, f)
        PROVE  FALSE
    <3>1. PICK i \in DOMAIN rs :
            rs[i].type = "DATAFRAME_ID" /\ Awaits(m, rs[i].requestId, j) /\ rs[i].data.frame = f
      BY <2>4, <2>6 DEF Incoming, Transformed
    <3>2. Given(m, w, js[j], f)
      BY <3>1 DEF CoreOK, AnswersOK
    <3> QED
      BY <2>1, <2>6, <3>2 DEF Given
  <2> QED
    BY <1>4, <2>1, <2>3, <2>4, <2>5, <2>6 DEF Unborn
<1>10. ASSUME NEW s, IsScan(r, s)
       PROVE  /\ \A i \in DOMAIN z : ~IsScan(z[i], s)
              /\ \A a \in DOMAIN rs : ~IsScanMessage(rs[a], s) /\ ~IsScanFinish(rs[a], s)
              /\ s \in DOMAIN m.activeScans =>
                   /\ m.activeScans[s].messageData = <<>>
                   /\ r.data.frame = js[m.activeScans[s].owner].out
  <2>1. /\ \A k \in DOMAIN q : IsScan(q[k], s) => k = 1
        /\ \A a \in DOMAIN rs : ~IsScanMessage(rs[a], s) /\ ~IsScanFinish(rs[a], s)
        /\ s \in DOMAIN m.activeScans =>
             /\ m.activeScans[s].messageData = <<>>
             /\ r.data.frame = js[m.activeScans[s].owner].out
    BY <1>2, <1>10 DEF CoreOK, ScanRequestsOK, q
  <2>2. \A i \in DOMAIN z : ~IsScan(z[i], s)
    BY <1>3, <2>1
  <2> QED
    BY <2>1, <2>2
<1> QED
  BY <1>1, <1>2, <1>6, <1>7, <1>8, <1>9, <1>10 DEF Took, q, z

-----------------------------------------------------------------------------
(***************************************************************************)
(* The actions of the worker.                                              *)
(***************************************************************************)
WorkerGoes == Goes(main, worker, responses, main', worker', responses', jobs)
Core == CoreOK(main, worker, responses, jobs)

LEMMA OrderOfResult ==
  ASSUME NEW o, o # Null, NEW frame, NEW stats,
         DataFrameTransform(createOrderByTransform(o), frame, stats) # <<>>
  PROVE  DataFrameTransform(createOrderByTransform(o), frame, stats)[1].order = o
<1>1. createOrderByTransform(o).orderBy = o
  BY DEF createOrderByTransform, NoTransform
<1> HIDE DEF createOrderByTransform
<1> QED
  BY <1>1 DEF DataFrameTransform

LEMMA TakesRequest ==
  ASSUME Core, NEW type, Takes(type)
  PROVE  /\ Drops(main, main')
         /\ request = main.requests[1] /\ request.type = type /\ 1 \in DOMAIN main.requests
         /\ Took(main, main', worker, responses, jobs, request)
         /\ Goes(main, worker, responses, main', worker, responses, jobs)
<1>1. Drops(main, main')
  BY DropTask DEF Takes, Core, CoreOK, ShapesOK
<1>2. request = main.requests[1] /\ request.type = type
  BY PopSeq DEF Takes, request, Core, CoreOK, QueuesOK
<1>3. 1 \in DOMAIN main.requests /\ Took(main, main', worker, responses, jobs, request)
  BY <1>1, <1>2, TookRequest DEF Core
<1>4. Goes(main, worker, responses, main', worker, responses, jobs)
  BY <1>1, DropGoes DEF Core
<1> QED
  BY <1>1, <1>2, <1>3, <1>4

LEMMA AnswerOne ==
  ASSUME Core, NEW a, Answer(<<a>>)
  PROVE  responses' = Append(responses, a)
BY SeqOne DEF Answer, Core, CoreOK, QueuesOK

\* The module is loaded, in steps.
LEMMA ModuleNumbers ==
  ASSUME NEW m, NEW w, NEW rs, NEW js, CoreOK(m, w, rs, js), NEW module,
         NEW x, x = [w EXCEPT !.module = module]
  PROVE  Numbers(w, x)
<1>1. WorkerShape(w) /\ w.nextFrameId \in Nat /\ DOMAIN w.frameBuilders \subseteq FrameIds(w)
  BY DEF CoreOK, ShapesOK
<1>2. /\ WorkerShape(x) /\ x.frames = w.frames /\ x.transforms = w.transforms
      /\ x.frameBuilders = w.frameBuilders /\ x.nextFrameId = w.nextFrameId
  BY <1>1 DEF WorkerShape
<1> QED
  BY <1>1, <1>2 DEF Numbers, FrameIds

LEMMA RegisterGoes ==
  ASSUME Core, Register
  PROVE  WorkerGoes
BY ModuleNumbers, NumberGoes DEF Register, Core, WorkerGoes

LEMMA ScriptFailsGoes ==
  ASSUME Core, ScriptFails
  PROVE  WorkerGoes
<1> DEFINE a == [requestId |-> -1, type |-> "error", data |-> NoData]
<1>1. Goes(main, worker, responses, main, worker', responses, jobs)
  BY ModuleNumbers, NumberGoes DEF ScriptFails, Core
<1>2. responses' = Append(responses, a) /\ main' = main
  BY DEF ScriptFails
<1>3. a.type = "error"
  OBVIOUS
<1> HIDE DEF a
<1>4. Goes(main, worker', responses, main, worker', responses', jobs)
  BY <1>1, <1>2, <1>3, ErrorGoes DEF Goes
<1> QED
  BY <1>1, <1>2, <1>4, SparesTrans DEF WorkerGoes

LEMMA InstantiateGoes ==
  ASSUME Core, Instantiate
  PROVE  WorkerGoes
<1>1. Goes(main, worker, responses, main', worker, responses, jobs)
  BY TakesRequest DEF Instantiate
<1>2. Goes(main', worker, responses, main', worker', responses, jobs)
  BY <1>1, ModuleNumbers, NumberGoes DEF Instantiate, Goes
<1>3. responses' = responses
  BY DEF Instantiate
<1> QED
  BY <1>1, <1>2, <1>3, SparesTrans DEF WorkerGoes

LEMMA InstantiatedGoes ==
  ASSUME Core, Instantiated
  PROVE  WorkerGoes
<1>1. PICK works \in BOOLEAN :
        /\ worker' = [worker EXCEPT !.module = IF works THEN "ready" ELSE "failed"]
        /\ Answer(<< [requestId |-> 0, type |-> IF works THEN "OK" ELSE "ERROR",
                      data |-> NoData] >>)
  BY DEF Instantiated
<1> DEFINE a == [requestId |-> 0, type |-> IF works THEN "OK" ELSE "ERROR", data |-> NoData]
<1>2. main' = main
  BY DEF Instantiated
<1>3. Goes(main, worker, responses, main, worker', responses, jobs)
  BY <1>1, ModuleNumbers, NumberGoes DEF Core
<1>4. responses' = Append(responses, a)
  BY <1>1, AnswerOne
<1>5. a.requestId = 0 /\ a.type \in {"OK", "ERROR"}
  OBVIOUS
<1> HIDE DEF a
<1>6. 0 \in MessageIds(main)
  BY DEF Core, CoreOK, ShapesOK, MessageIds
<1>7. \A j \in DOMAIN jobs : ~Awaits(main, 0, j)
  <2>1. \A j \in DOMAIN jobs : j # Provider
    BY OwnerAssumption, SeqDomain DEF Core, CoreOK, JobsOK
  <2> QED
    BY <2>1 DEF Awaits, Core, CoreOK, PendingOK
<1>8. Goes(main, worker', responses, main, worker', responses', jobs)
  <2>1. CASE a.type = "OK"
    BY <1>3, <1>4, <1>5, <1>6, <1>7, <2>1, OKGoes DEF Goes
  <2>2. CASE a.type = "ERROR"
    BY <1>3, <1>4, <2>2, ErrorGoes DEF Goes
  <2> QED
    BY <1>5, <2>1, <2>2
<1> QED
  BY <1>2, <1>3, <1>8, SparesTrans DEF WorkerGoes

\* A request that fails in a worker that has changed or not.
LEMMA FailGoes ==
  ASSUME Core, Goes(main, worker, responses, main', worker', responses, jobs),
         NEW error, Answer(<<failWith(request, error)>>)
  PROVE  WorkerGoes
<1> DEFINE a == failWith(request, error)
<1>1. responses' = Append(responses, a)
  BY AnswerOne
<1>2. a.type = "ERROR"
  BY DEF failWith, Response
<1> HIDE DEF a
<1>3. Goes(main', worker', responses, main', worker', responses', jobs)
  BY <1>1, <1>2, ErrorGoes DEF Goes
<1> QED
  BY <1>3, SparesTrans DEF WorkerGoes

\* A request that succeeds without data
LEMMA SendOKGoes ==
  ASSUME Core, NEW rs, Goes(main, worker, responses, main', worker', rs, jobs),
         request.messageId \in MessageIds(main'), responses' = Append(rs, sendOK(request)),
         \A j \in DOMAIN jobs : Awaits(main', request.messageId, j) =>
           AnsweredOK(main', worker', rs, jobs, j, Len(rs) + 1)
  PROVE  WorkerGoes
<1> DEFINE a == sendOK(request)
<1>1. a.type = "OK" /\ a.requestId = request.messageId
  BY DEF sendOK, Response
<1> HIDE DEF a
<1>2. responses' = Append(rs, a)
  BY DEF a
<1>3. Goes(main', worker', rs, main', worker', responses', jobs)
  BY <1>1, <1>2, OKGoes DEF Goes
<1> QED
  BY <1>3, SparesTrans DEF WorkerGoes

LEMMA IngestNumbers ==
  ASSUME NEW m, NEW w, NEW rs, NEW js, CoreOK(m, w, rs, js), NEW x,
         \/ x = [w EXCEPT !.nextFrameId = w.nextFrameId + 1]
         \/ x = [w EXCEPT !.nextFrameId = w.nextFrameId + 1,
                          !.frameBuilders = With(@, w.nextFrameId, <<>>)]
  PROVE  Numbers(w, x) /\ x.nextFrameId = w.nextFrameId + 1
<1>1. /\ WorkerShape(w) /\ w.nextFrameId \in Nat /\ DOMAIN w.frameBuilders \subseteq FrameIds(w)
  BY DEF CoreOK, ShapesOK
<1>2. /\ WorkerShape(x) /\ x.frames = w.frames /\ x.transforms = w.transforms
      /\ x.nextFrameId = w.nextFrameId + 1
      /\ \/ x.frameBuilders = w.frameBuilders
         \/ x.frameBuilders = With(w.frameBuilders, w.nextFrameId, <<>>)
  BY <1>1 DEF WorkerShape
<1>3. w.nextFrameId \notin DOMAIN w.frameBuilders
  BY <1>1 DEF FrameIds
<1>4. /\ DOMAIN w.frameBuilders \subseteq DOMAIN x.frameBuilders
      /\ DOMAIN x.frameBuilders \subseteq DOMAIN w.frameBuilders \cup {w.nextFrameId}
      /\ \A f \in DOMAIN w.frameBuilders : x.frameBuilders[f] = w.frameBuilders[f]
  BY <1>2, <1>3 DEF With
<1>5. DOMAIN x.frameBuilders \subseteq FrameIds(x) /\ x.nextFrameId >= w.nextFrameId /\ x.nextFrameId \in Nat
  BY <1>1, <1>2, <1>4 DEF FrameIds
<1> QED
  BY <1>2, <1>4, <1>5 DEF Numbers

LEMMA IngestGoes ==
  ASSUME Core, DataFrameFromIngest
  PROVE  WorkerGoes
<1> DEFINE id == worker.nextFrameId
           a == Response(request, "DATAFRAME_ID", [frame |-> id])
<1>1. /\ request.type = "DATAFRAME_FROM_INGEST"
      /\ Took(main, main', worker, responses, jobs, request)
      /\ Goes(main, worker, responses, main', worker, responses, jobs)
  BY TakesRequest DEF DataFrameFromIngest
<1>2. CoreOK(main', worker, responses, jobs)
  BY <1>1 DEF Goes
<1>3. Numbers(worker, worker') /\ worker'.nextFrameId = id + 1
  BY <1>2, IngestNumbers DEF DataFrameFromIngest
<1>4. Goes(main', worker, responses, main', worker', responses, jobs)
  BY <1>2, <1>3, NumberGoes
<1>5. Goes(main, worker, responses, main', worker', responses, jobs)
  BY <1>1, <1>4, SparesTrans
<1>6. CASE Answer(<<failWith(request, "module")>>)
  BY <1>5, <1>6, FailGoes
<1>7. CASE Answer(<<a>>)
  <2>1. responses' = Append(responses, a)
    BY <1>7, AnswerOne
  <2>2. a.type = "DATAFRAME_ID" /\ a.requestId = request.messageId /\ a.data.frame = id
    BY DEF Response
  <2> HIDE DEF a
  <2>3. /\ id \notin FrameIds(worker) /\ id \in FrameIds(worker') /\ id \notin DOMAIN worker'.frames
        /\ id \notin DOMAIN worker.frames
    BY <1>2, <1>3 DEF Numbers, FrameIds, CoreOK, ShapesOK
  <2> HIDE DEF id
  <2>4. \A j \in DOMAIN jobs : ~Holds(main', worker', responses, jobs, j, id)
    <3>1. \A j \in DOMAIN jobs : ~Holds(main', worker, responses, jobs, j, id)
      BY <1>2, <2>3, IncomingIds
    <3> QED
      BY <1>2, <1>3, <3>1, NumberKeeps
  <2>5. Unborn(main', worker', id) /\ ~Finishes(main', id) /\ ~Transformed(worker', id) /\ ~Written(main', id)
    <3>1. \A i \in DOMAIN main'.requests :
            LET r == main'.requests[i] IN ~Deletes(r, id) /\ ~FinishOf(r, id) /\ ~WriteOf(r, id)
      BY <1>2, <2>3 DEF CoreOK, QueuesOK, RequestOK, Deletes, FinishOf, WriteOf
    <3>2. ~Transformed(worker', id)
      BY <1>2, <1>3, <2>3 DEF CoreOK, ShapesOK, Transformed, Numbers
    <3> QED
      BY <2>3, <3>1, <3>2 DEF Unborn, Doomed, Finishes, Written
  <2>6. \A j \in DOMAIN jobs : Awaits(main', a.requestId, j) => jobs[j].at = "ingest"
    BY <1>1, <2>2 DEF Took, Asks, TaskOf
  <2>7. \A j \in DOMAIN jobs : Awaits(main', a.requestId, j) => Given(main', worker', jobs[j], id)
    BY <2>5, <2>6 DEF Given, Transforming
  <2>8. ResponseOK(main', a)
    BY <1>1, <2>2 DEF Took, RequestOK, ResponseOK
  <2>9. Answers(main', worker', responses, jobs, a)
    BY <2>2, <2>4, <2>7, <2>8 DEF Answers, IsScanMessage, IsScanFinish, Holds
  <2>10. /\ CoreOK(main', worker', responses', jobs)
         /\ \A j, f : Holds(main', worker', responses', jobs, j, f) =>
              Holds(main', worker', responses, jobs, j, f) \/ f = id
    <3>1. CoreOK(main', worker', responses, jobs)
      BY <1>5 DEF Goes
    <3>2. Gives(main', worker', responses, responses', jobs, a)
      BY <2>1, <2>9, <3>1, AnswerKeeps
    <3> QED
      BY <2>2, <3>2 DEF Gives
  <2> QED
    BY <1>5, <2>3, <2>10 DEF Goes, Spares, WorkerGoes
<1> QED
  BY <1>6, <1>7 DEF DataFrameFromIngest

LEMMA WriteActionGoes ==
  ASSUME Core, DataFrameIngestWrite
  PROVE  WorkerGoes
<1> DEFINE id == request.data.frame
           table == request.data.table
<1>1. /\ request = main.requests[1] /\ request.type = "DATAFRAME_INGEST_WRITE" /\ 1 \in DOMAIN main.requests
      /\ Drops(main, main')
      /\ Took(main, main', worker, responses, jobs, request)
      /\ Goes(main, worker, responses, main', worker, responses, jobs)
  BY TakesRequest DEF DataFrameIngestWrite
<1>2. CASE /\ id \in DOMAIN worker.frameBuilders
           /\ worker' = [worker EXCEPT !.frameBuilders[id] = table] /\ Answer(<<sendOK(request)>>)
  <2>1. worker' = [worker EXCEPT !.frameBuilders[id] = table] /\ Answer(<<sendOK(request)>>)
    BY <1>2
  <2>2. WorkerShape(worker)
    BY DEF Core, CoreOK, ShapesOK
  <2>3. /\ WorkerShape(worker') /\ worker'.frames = worker.frames /\ worker'.transforms = worker.transforms
        /\ worker'.nextFrameId = worker.nextFrameId
        /\ worker'.frameBuilders = [worker.frameBuilders EXCEPT ![id] = table]
    BY <2>1, <2>2 DEF WorkerShape
  <2>4. WriteOf(request, id)
    BY <1>1 DEF WriteOf
  <2> HIDE DEF id, table
  <2>5. WritesBuilder(main, worker, worker', id, table)
    BY <1>1, <1>2, <2>3, <2>4 DEF WritesBuilder, table
  <2>6. Goes(main, worker, responses, main, worker', responses, jobs)
    BY <2>5, WriteGoes DEF Core
  <2>7. Goes(main, worker', responses, main', worker', responses, jobs)
    BY <1>1, <2>6, DropGoes DEF Goes
  <2>8. Goes(main, worker, responses, main', worker', responses, jobs)
    BY <2>6, <2>7, SparesTrans
  <2>9. request.messageId \in MessageIds(main')
    BY <1>1 DEF Took, RequestOK
  <2>10. id \in DOMAIN worker'.frameBuilders /\ worker'.frameBuilders[id] = table
    BY <1>2, <2>3
  <2>11. ASSUME NEW j \in DOMAIN jobs, Awaits(main', request.messageId, j)
         PROVE  AnsweredOK(main', worker', responses, jobs, j, Len(responses) + 1)
    <3>1. Asks(main', j, jobs[j], request)
      BY <1>1, <2>11 DEF Took
    <3>2. jobs[j].at = "write"
      BY <1>1, <2>11 DEF Took, Asks, TaskOf, Awaiting, Early, Transforming, ReadingAt
    <3>3. jobs[j].frame = id /\ jobs[j].table = table
      BY <3>1, <3>2 DEF Asks, id, table
    <3> QED
      BY <2>10, <3>2, <3>3 DEF AnsweredOK, ReadingAt
  <2>12. responses' = Append(responses, sendOK(request))
    BY <2>1, AnswerOne
  <2> QED
    BY <2>8, <2>9, <2>11, <2>12, SendOKGoes
<1>3. ASSUME NEW error, Fails(error)
      PROVE  WorkerGoes
  <2>1. Answer(<<failWith(request, error)>>) /\ worker' = worker
    BY <1>3 DEF Fails
  <2> QED
    BY <1>1, <2>1, FailGoes
<1> QED
  BY <1>2, <1>3 DEF DataFrameIngestWrite

LEMMA FinishActionGoes ==
  ASSUME Core, DataFrameIngestFinish
  PROVE  WorkerGoes
<1> DEFINE id == request.data.frame
           value == Ingested(worker.frameBuilders[id])
<1>1. /\ request.type = "DATAFRAME_INGEST_FINISH"
      /\ Took(main, main', worker, responses, jobs, request)
      /\ Goes(main, worker, responses, main', worker, responses, jobs)
  BY TakesRequest DEF DataFrameIngestFinish
<1>2. CoreOK(main', worker, responses, jobs)
  BY <1>1 DEF Goes
<1>3. CASE worker' = [worker EXCEPT !.frames = With(@, id, value)] /\ Answer(<<sendOK(request)>>)
  <2>1. worker' = [worker EXCEPT !.frames = With(@, id, value)] /\ Answer(<<sendOK(request)>>)
    BY <1>3
  <2>2. WorkerShape(worker)
    BY DEF Core, CoreOK, ShapesOK
  <2>3. /\ WorkerShape(worker') /\ worker'.frames = With(worker.frames, id, value)
        /\ worker'.transforms = worker.transforms
        /\ worker'.nextFrameId = worker.nextFrameId /\ worker'.frameBuilders = worker.frameBuilders
    BY <2>1, <2>2 DEF WorkerShape
  <2>4. FinishOf(request, id)
    BY <1>1 DEF FinishOf
  <2>5. \A j \in DOMAIN jobs : jobs[j].at = "finish" /\ jobs[j].frame = id => value = Ingested(jobs[j].table)
    BY <1>2 DEF CoreOK, JobFramesOK, JobFrames
  <2> HIDE DEF id, value
  <2>6. Makes(main', worker, worker', responses, jobs, id, value)
    BY <1>1, <2>3, <2>4, <2>5 DEF Makes, Took
  <2>7. id \in DOMAIN worker'.frames /\ Goes(main', worker, responses, main', worker', responses, jobs)
    BY <1>2, <2>6, MakeKeeps, AlterGoes
  <2>8. Goes(main, worker, responses, main', worker', responses, jobs)
    BY <1>1, <2>7, SparesTrans
  <2>9. request.messageId \in MessageIds(main')
    BY <1>1 DEF Took, RequestOK
  <2>10. ASSUME NEW j \in DOMAIN jobs, Awaits(main', request.messageId, j)
         PROVE  AnsweredOK(main', worker', responses, jobs, j, Len(responses) + 1)
    <3>1. Asks(main', j, jobs[j], request)
      BY <1>1, <2>10 DEF Took
    <3>2. jobs[j].at = "finish"
      BY <1>1, <2>10 DEF Took, Asks, TaskOf, Awaiting, Early, Transforming, ReadingAt
    <3>3. jobs[j].frame = id
      BY <3>1, <3>2 DEF Asks, id
    <3> QED
      BY <2>7, <3>2, <3>3 DEF AnsweredOK, ReadingAt
  <2>11. responses' = Append(responses, sendOK(request))
    BY <2>1, AnswerOne
  <2> QED
    BY <2>8, <2>9, <2>10, <2>11, SendOKGoes
<1>4. ASSUME NEW error, Fails(error)
      PROVE  WorkerGoes
  <2>1. Answer(<<failWith(request, error)>>) /\ worker' = worker
    BY <1>4 DEF Fails
  <2> QED
    BY <1>1, <2>1, FailGoes
<1> QED
  BY <1>3, <1>4 DEF DataFrameIngestFinish, Ingested

LEMMA MessageGoes ==
  ASSUME NEW n, NEW w, NEW rs, NEW js, CoreOK(n, w, rs, js), NEW m, NEW r, Took(m, n, w, rs, js, r),
         r.type = "DATAFRAME_SCAN",
         NEW a, a.type = "DATAFRAME_SCAN_MESSAGE", a.data.scan = r.data.scan,
         a.data.buffer = w.frames[r.data.frame], NEW ts, ts = Append(rs, a)
  PROVE  Goes(n, w, rs, n, w, ts, js)
<1>1. IsScan(r, r.data.scan) /\ ResponseOK(n, a)
  BY DEF IsScan, Took, RequestOK, ResponseOK
<1>2. \A s : IsScanMessage(a, s) => s = r.data.scan
  BY DEF IsScanMessage
<1>3. \A s : ~IsScanFinish(a, s)
  BY DEF IsScanFinish
<1>4. /\ \A i \in DOMAIN n.requests : ~IsScan(n.requests[i], r.data.scan)
      /\ \A b \in DOMAIN rs : ~IsScanMessage(rs[b], r.data.scan) /\ ~IsScanFinish(rs[b], r.data.scan)
      /\ r.data.scan \in DOMAIN n.activeScans =>
           /\ n.activeScans[r.data.scan].messageData = <<>>
           /\ a.data.buffer = Scanned(w, js, n.activeScans[r.data.scan])
  BY <1>1 DEF Took, Scanned
<1>5. Answers(n, w, rs, js, a)
  BY <1>1, <1>2, <1>3, <1>4 DEF Answers
<1> QED
  BY <1>5, AnswerGoes

LEMMA ScanFinishGoes ==
  ASSUME NEW n, NEW w, NEW rs, NEW js, CoreOK(n, w, rs, js), NEW r, r.data.scan \in ScanIds(n),
         \A i \in DOMAIN n.requests : ~IsScan(n.requests[i], r.data.scan),
         \E b \in DOMAIN rs : IsScanMessage(rs[b], r.data.scan),
         NEW a, a.type = "DATAFRAME_SCAN_FINISH", a.data.scan = r.data.scan, NEW ts, ts = Append(rs, a)
  PROVE  Goes(n, w, rs, n, w, ts, js)
<1>1. \A s : IsScanFinish(a, s) => s = r.data.scan
  BY DEF IsScanFinish
<1>2. \A s : ~IsScanMessage(a, s)
  BY DEF IsScanMessage
<1>3. Answers(n, w, rs, js, a)
  BY <1>1, <1>2 DEF Answers, ResponseOK
<1> QED
  BY <1>3, AnswerGoes

LEMMA ScanActionGoes ==
  ASSUME Core, DataFrameScan
  PROVE  WorkerGoes
<1> DEFINE id == request.data.frame
           scan == request.data.scan
           data == ScanMessage(worker.frames[id])
           finish == Response(request, "DATAFRAME_SCAN_FINISH", [scan |-> scan])
           one == Append(responses, data)
           two == Append(one, finish)
<1>1. /\ request.type = "DATAFRAME_SCAN"
      /\ Took(main, main', worker, responses, jobs, request)
      /\ Goes(main, worker, responses, main', worker, responses, jobs)
  BY TakesRequest DEF DataFrameScan
<1>2. worker' = worker
  BY DEF DataFrameScan
<1>3. CoreOK(main', worker, responses, jobs) /\ IsSeq(responses)
  BY <1>1 DEF Goes, CoreOK, QueuesOK
<1>4. Goes(main, worker, responses, main', worker', responses, jobs)
  BY <1>1, <1>2
<1>5. CASE \E error : Answer(<<failWith(request, error)>>)
  BY <1>4, <1>5, FailGoes
<1>6. /\ data.type = "DATAFRAME_SCAN_MESSAGE" /\ data.data.scan = scan
      /\ data.data.buffer = worker.frames[id]
      /\ finish.type = "DATAFRAME_SCAN_FINISH" /\ finish.data.scan = scan
  BY DEF ScanMessage, Response
<1> HIDE DEF data, finish
<1>7. Goes(main', worker, responses, main', worker, one, jobs)
  BY <1>1, <1>3, <1>6, MessageGoes
<1>8. Goes(main, worker, responses, main', worker', one, jobs) /\ CoreOK(main', worker, one, jobs)
  BY <1>2, <1>4, <1>7, SparesTrans DEF Goes
<1>9. /\ Len(responses) \in Nat /\ Len(one) = Len(responses) + 1
      /\ DOMAIN one = DOMAIN responses \cup {Len(responses) + 1}
      /\ one[Len(responses) + 1] = data /\ IsSeq(one)
  BY <1>3, SeqAppend, SeqDomain
<1>10. CASE Answer(<<data, failWith(request, "execution")>>)
  <2>1. responses' = Append(one, failWith(request, "execution"))
    BY <1>3, <1>10, SeqTwo DEF Answer
  <2>2. failWith(request, "execution").type = "ERROR"
    BY DEF failWith, Response
  <2> HIDE DEF one
  <2>3. Goes(main', worker, one, main', worker, responses', jobs)
    BY <1>8, <2>1, <2>2, ErrorGoes
  <2> QED
    BY <1>2, <1>8, <2>3, SparesTrans DEF WorkerGoes
<1>11. CASE Answer(<<data, finish, sendOK(request)>>)
  <2>1. responses' = Append(two, sendOK(request))
    BY <1>3, <1>11, SeqThree DEF Answer
  <2>2. /\ Len(two) = Len(one) + 1 /\ Len(one) \in Nat
        /\ two[Len(one) + 1] = finish
    BY <1>9, SeqAppend
  <2> HIDE DEF one
  <2>3. /\ IsScan(request, scan) /\ scan \in ScanIds(main')
        /\ IsScanMessage(data, scan) /\ IsScanFinish(finish, scan)
    BY <1>1, <1>6 DEF IsScan, Took, RequestOK, IsScanMessage, IsScanFinish
  <2>4. \A i \in DOMAIN main'.requests : ~IsScan(main'.requests[i], scan)
    BY <1>1, <2>3 DEF Took
  <2>5. \E b \in DOMAIN one : IsScanMessage(one[b], scan)
    BY <1>9, <2>3
  <2>6. Goes(main', worker, one, main', worker, two, jobs)
    BY <1>6, <1>8, <2>3, <2>4, <2>5, ScanFinishGoes
  <2> HIDE DEF two
  <2>7. Goes(main, worker, responses, main', worker', two, jobs)
    BY <1>2, <1>8, <2>6, SparesTrans
  <2>8. request.messageId \in MessageIds(main')
    BY <1>1 DEF Took, RequestOK
  <2>9. ASSUME NEW j \in DOMAIN jobs, Awaits(main', request.messageId, j)
        PROVE  AnsweredOK(main', worker', two, jobs, j, Len(two) + 1)
    <3>1. Asks(main', j, jobs[j], request)
      BY <1>1, <2>9 DEF Took
    <3>2. jobs[j].at \in ReadingAt
      BY <1>1, <2>9 DEF Took, Asks, TaskOf, Awaiting, Early, Transforming
    <3>3. scan \in DOMAIN main'.activeScans /\ main'.activeScans[scan].owner = j
      BY <3>1, <3>2 DEF Asks
    <3>4. Len(one) + 1 \in 1..(Len(two) + 1 - 1)
      BY <2>2
    <3>5. ScanRead(main', worker', two, jobs, j, Len(two) + 1)
      BY <2>2, <2>3, <3>3, <3>4 DEF ScanRead
    <3> QED
      BY <3>2, <3>5 DEF AnsweredOK, ReadingAt
  <2> QED
    BY <2>1, <2>7, <2>8, <2>9, SendOKGoes
<1> QED
  BY <1>5, <1>10, <1>11 DEF DataFrameScan, data, finish

LEMMA DeleteActionGoes ==
  ASSUME Core, DataFrameDelete
  PROVE  WorkerGoes
<1> DEFINE id == request.data.frame
           read == \E t \in worker.transforms : id \in {t.request.data.frame, t.request.data.stats}
<1>1. /\ request = main.requests[1] /\ request.type = "DATAFRAME_DELETE" /\ 1 \in DOMAIN main.requests
      /\ Drops(main, main')
      /\ Took(main, main', worker, responses, jobs, request)
  BY TakesRequest DEF DataFrameDelete
<1>2. worker' = [worker EXCEPT !.frames = Restrict(@, DOMAIN @ \ {id})]
  BY DEF DataFrameDelete
<1>3. WorkerShape(worker)
  BY DEF Core, CoreOK, ShapesOK
<1>4. /\ WorkerShape(worker') /\ worker'.frames = Restrict(worker.frames, DOMAIN worker.frames \ {id})
      /\ worker'.transforms = worker.transforms
      /\ worker'.nextFrameId = worker.nextFrameId /\ worker'.frameBuilders = worker.frameBuilders
  BY <1>2, <1>3 DEF WorkerShape
<1>5. Deletes(main.requests[1], id)
  BY <1>1 DEF Deletes
<1> HIDE DEF id
<1>6. Frees(main, worker, worker', id)
  BY <1>1, <1>4, <1>5 DEF Frees, Restrict
<1>7. Goes(main, worker, responses, main, worker', responses, jobs)
  BY <1>6, FreeKeeps, AlterGoes DEF Core
<1>8. Goes(main, worker', responses, main', worker', responses, jobs)
  BY <1>1, <1>7, DropGoes DEF Goes
<1>9. Goes(main, worker, responses, main', worker', responses, jobs)
  BY <1>7, <1>8, SparesTrans
<1>10. CASE Answer(<<failWith(request, "in use")>>)
  BY <1>9, <1>10, FailGoes
<1>11. CASE Answer(<<sendOK(request)>>)
  <2>1. responses' = Append(responses, sendOK(request))
    BY <1>11, AnswerOne
  <2>2. request.messageId \in MessageIds(main')
    BY <1>1 DEF Took, RequestOK
  <2>3. \A j \in DOMAIN jobs : ~Awaits(main', request.messageId, j)
    BY <1>1 DEF Took, Asks, TaskOf
  <2> QED
    BY <1>9, <2>1, <2>2, <2>3, SendOKGoes
<1> QED
  BY <1>10, <1>11 DEF DataFrameDelete, id

LEMMA TransformStartsGoes ==
  ASSUME Core, DataFrameTransformStarts
  PROVE  WorkerGoes
<1> DEFINE frame == request.data.frame
           stats == request.data.stats
           result == DataFrameTransform(request.data.transform, worker.frames[frame],
                         IF stats = NoFrame THEN <<>> ELSE worker.frames[stats].fields)
           t == [request |-> request, id |-> worker.nextFrameId, result |-> result]
<1>1. /\ request.type = "DATAFRAME_TRANSFORM"
      /\ Took(main, main', worker, responses, jobs, request)
      /\ Goes(main, worker, responses, main', worker, responses, jobs)
  BY TakesRequest DEF DataFrameTransformStarts
<1>2. CoreOK(main', worker, responses, jobs)
  BY <1>1 DEF Goes
<1>3. CASE Fails("unknown frame")
  BY <1>1, <1>3, FailGoes DEF Fails
<1>4. CASE /\ Answer(<<failWith(request, "unknown frame")>>)
           /\ worker' = [worker EXCEPT !.nextFrameId = worker.nextFrameId + 1]
  <2>1. Numbers(worker, worker')
    BY <1>2, <1>4, IngestNumbers
  <2>2. Goes(main', worker, responses, main', worker', responses, jobs)
    BY <1>2, <2>1, NumberGoes
  <2>3. Goes(main, worker, responses, main', worker', responses, jobs)
    BY <1>1, <2>2, SparesTrans
  <2> QED
    BY <1>4, <2>3, FailGoes
<1>5. CASE /\ worker' = [worker EXCEPT !.nextFrameId = worker.nextFrameId + 1,
                                       !.transforms = @ \cup {t}]
           /\ responses' = responses
  <2>1. WorkerShape(worker)
    BY DEF Core, CoreOK, ShapesOK
  <2>2. /\ WorkerShape(worker') /\ worker'.frames = worker.frames
        /\ worker'.transforms = worker.transforms \cup {t}
        /\ worker'.nextFrameId = worker.nextFrameId + 1 /\ worker'.frameBuilders = worker.frameBuilders
    BY <1>5, <2>1 DEF WorkerShape
  <2>3. t.id = worker.nextFrameId /\ t.request = request /\ t.result = result
    OBVIOUS
  <2>4. request.messageId \in MessageIds(main')
    BY <1>1 DEF Took, RequestOK
  <2>5. ASSUME NEW j \in DOMAIN jobs, Awaits(main', request.messageId, j)
        PROVE  Made(t, jobs[j])
    <3>1. Asks(main', j, jobs[j], request) /\ jobs[j].at \in Awaiting
      BY <1>1, <2>5 DEF Took
    <3>2. jobs[j].at \in Transforming
      BY <1>1, <3>1 DEF Asks, TaskOf, Awaiting, Early
    <3>3. ASSUME jobs[j].at = "sort", result # <<>>, jobs[j].ordering # Null
          PROVE  result[1].order = jobs[j].ordering
      <4>1. request.data.transform = createOrderByTransform(jobs[j].ordering)
        BY <3>1, <3>3 DEF Asks
      <4> QED
        BY <3>3, <4>1, OrderOfResult
    <3> QED
      BY <2>3, <3>2, <3>3 DEF Made, Ordered
  <2> HIDE DEF t
  <2>6. StartsTransform(main', worker, worker', jobs, t)
    BY <2>2, <2>3, <2>4, <2>5 DEF StartsTransform
  <2>7. Goes(main', worker, responses, main', worker', responses, jobs)
    BY <1>2, <2>6, StartKeeps, AlterGoes
  <2> QED
    BY <1>1, <1>5, <2>7, SparesTrans DEF WorkerGoes
<1> QED
  BY <1>3, <1>4, <1>5 DEF DataFrameTransformStarts

LEMMA TransformFinishesGoes ==
  ASSUME Core, DataFrameTransformFinishes
  PROVE  WorkerGoes
<1>1. PICK t \in worker.transforms, done \in BOOLEAN, error \in {"refused", "execution"} :
        /\ done => t.result # <<>>
        /\ worker' = [worker EXCEPT !.transforms = @ \ {t},
                                    !.frames = IF done THEN With(@, t.id, t.result[1]) ELSE @]
        /\ Answer(<<IF done THEN Response(t.request, "DATAFRAME_ID", [frame |-> t.id])
                    ELSE failWith(t.request, error)>>)
        /\ main' = main
  <2>1. PICK t \in worker.transforms, works \in BOOLEAN :
          LET done == t.result # <<>> /\ works
          IN  /\ worker' = [worker EXCEPT !.transforms = @ \ {t},
                                          !.frames = IF done THEN With(@, t.id, t.result[1])
                                                     ELSE @]
              /\ Answer(<<IF done THEN Response(t.request, "DATAFRAME_ID", [frame |-> t.id])
                          ELSE failWith(t.request, IF t.result = <<>> THEN "refused"
                                                   ELSE "execution")>>)
              /\ main' = main
    BY DEF DataFrameTransformFinishes
  <2>2. (t.result # <<>> /\ works) \in BOOLEAN
    OBVIOUS
  <2> QED
    BY <2>1, <2>2
<1> DEFINE x == [worker EXCEPT !.transforms = @ \ {t}]
           a == Response(t.request, "DATAFRAME_ID", [frame |-> t.id])
<1>2. WorkerShape(worker)
  BY DEF Core, CoreOK, ShapesOK
<1>3. /\ WorkerShape(x) /\ x.frames = worker.frames
      /\ x.transforms = worker.transforms \ {t}
      /\ x.nextFrameId = worker.nextFrameId /\ x.frameBuilders = worker.frameBuilders
  BY <1>2 DEF WorkerShape
<1>4. EndsTransform(worker, x, t)
  BY <1>3 DEF EndsTransform
<1> HIDE DEF x
<1>5. Goes(main, worker, responses, main, x, responses, jobs)
  BY <1>4, EndKeeps, AlterGoes DEF Core
<1>6. CASE ~done
  <2>1. worker' = [worker EXCEPT !.transforms = @ \ {t}, !.frames = @]
    BY <1>1, <1>6
  <2>2. worker' = x
    BY <1>2, <2>1 DEF x, WorkerShape
  <2>3. responses' = Append(responses, failWith(t.request, error))
    BY <1>1, <1>6, AnswerOne
  <2>4. failWith(t.request, error).type = "ERROR"
    BY DEF failWith, Response
  <2>5. Goes(main, x, responses, main, x, responses', jobs)
    BY <1>5, <2>3, <2>4, ErrorGoes DEF Goes
  <2> QED
    BY <1>1, <1>5, <2>2, <2>5, SparesTrans DEF WorkerGoes
<1>7. CASE done
  <2>0. t.result # <<>>
    BY <1>1, <1>7
  <2> DEFINE f == t.id
             value == t.result[1]
  <2>1. worker' = [worker EXCEPT !.transforms = @ \ {t}, !.frames = With(@, f, value)]
    BY <1>1, <1>7
  <2>2. /\ WorkerShape(worker') /\ worker'.frames = With(x.frames, f, value)
        /\ worker'.transforms = x.transforms
        /\ worker'.nextFrameId = x.nextFrameId /\ worker'.frameBuilders = x.frameBuilders
    BY <1>2, <1>3, <2>1 DEF WorkerShape
  <2>3. responses' = Append(responses, a)
    BY <1>1, <1>7, AnswerOne
  <2>4. a.type = "DATAFRAME_ID" /\ a.requestId = t.request.messageId /\ a.data.frame = f
    BY DEF Response
  <2> HIDE DEF a
  <2>5. CoreOK(main, x, responses, jobs) /\ FrameIds(worker) \subseteq FrameIds(x)
    BY <1>5 DEF Goes, Spares
  <2>6. Unborn(main, worker, f) /\ ~Finishes(main, f) /\ Transformed(worker, f)
    BY DEF Core, CoreOK, BirthsOK, Transformed
  <2>7. ~Transformed(x, f)
    BY <1>3 DEF Transformed, Core, CoreOK, BirthsOK
  <2>8. /\ \A j \in DOMAIN jobs : jobs[j].at = "write" => jobs[j].frame # f
        /\ \A j \in DOMAIN jobs : jobs[j].at = "finish" => jobs[j].frame # f
    BY <2>6 DEF Core, CoreOK, JobFramesOK, JobFrames
  <2>9. \A j \in DOMAIN jobs : jobs[j].at = "ingest" => ~Incoming(main, x, responses, j, f)
    <3> SUFFICES ASSUME NEW j \in DOMAIN jobs, jobs[j].at = "ingest", Incoming(main, x, responses, j, f)
                 PROVE  FALSE
      OBVIOUS
    <3>1. PICK i \in DOMAIN responses :
            responses[i].type = "DATAFRAME_ID" /\ Awaits(main, responses[i].requestId, j)
              /\ responses[i].data.frame = f
      BY <2>7 DEF Incoming, Transformed
    <3>2. Given(main, worker, jobs[j], f)
      BY <3>1 DEF Core, CoreOK, AnswersOK
    <3> QED
      BY <2>6, <3>2 DEF Given
  <2>10. Makes(main, x, worker', responses, jobs, f, value)
    BY <1>3, <2>2, <2>5, <2>6, <2>7, <2>8, <2>9 DEF Makes, Unborn
  <2>11. /\ Goes(main, x, responses, main, worker', responses, jobs)
         /\ f \in DOMAIN worker'.frames /\ worker'.frames[f] = value
    BY <2>5, <2>10, MakeKeeps, AlterGoes
  <2>12. Goes(main, worker, responses, main, worker', responses, jobs)
    BY <1>5, <2>11, SparesTrans
  <2>13. CoreOK(main, worker', responses, jobs)
    BY <2>12 DEF Goes
  <2>14. f \in FrameIds(worker)
    BY <2>6 DEF Unborn
  <2>15. ASSUME NEW j \in DOMAIN jobs, Awaits(main, a.requestId, j)
         PROVE  /\ Given(main, worker', jobs[j], f) /\ ~Owns(jobs[j], f)
                /\ \A k \in DOMAIN jobs : k # j => ~Holds(main, worker', responses, jobs, k, f)
                /\ Holds(main, worker, responses, jobs, j, f)
    <3>1. Made(t, jobs[j])
      BY <2>4, <2>15 DEF Core, CoreOK, TransformsOK
    <3>2. Incoming(main, worker, responses, j, f)
      BY <2>4, <2>15 DEF Incoming
    <3>3. Living(main, worker', f)
      BY <2>6, <2>11 DEF Living, Unborn
    <3>4. Given(main, worker', jobs[j], f)
      BY <2>0, <2>11, <3>1, <3>3 DEF Given, Made, Transforming, Ordered
    <3>5. ~Owns(jobs[j], f)
      BY <3>2 DEF Core, CoreOK, HoldsOK
    <3>6. \A k \in DOMAIN jobs : k # j => ~Holds(main, worker, responses, jobs, k, f)
      BY <3>2 DEF Core, CoreOK, HoldsOK, Holds
    <3>7. \A k \in DOMAIN jobs : k # j => ~Holds(main, worker', responses, jobs, k, f)
      BY <2>12, <2>14, <3>6 DEF Goes, Spares
    <3> QED
      BY <3>2, <3>4, <3>5, <3>7 DEF Holds
  <2>16. ResponseOK(main, a)
    BY <2>4 DEF ResponseOK, Core, CoreOK, ShapesOK
  <2>17. Answers(main, worker', responses, jobs, a)
    BY <2>4, <2>15, <2>16 DEF Answers, IsScanMessage, IsScanFinish
  <2>18. Gives(main, worker', responses, responses', jobs, a)
    BY <2>3, <2>13, <2>17, AnswerKeeps
  <2>19. \A j \in DOMAIN jobs : \A g : Holds(main, worker', responses', jobs, j, g) =>
           Holds(main, worker, responses, jobs, j, g) \/ g \notin FrameIds(worker)
    BY <2>4, <2>12, <2>15, <2>18 DEF Goes, Spares, Gives
  <2> QED
    BY <1>1, <2>12, <2>18, <2>19 DEF Goes, Spares, Gives, WorkerGoes
<1> QED
  BY <1>6, <1>7

LEMMA WorkerNextGoes ==
  ASSUME Core, WorkerNext
  PROVE  WorkerGoes
BY RegisterGoes, ScriptFailsGoes, InstantiateGoes, InstantiatedGoes, IngestGoes, WriteActionGoes,
   FinishActionGoes, ScanActionGoes, DeleteActionGoes, TransformStartsGoes, TransformFinishesGoes
   DEF WorkerNext

-----------------------------------------------------------------------------
(***************************************************************************)
(* What the app knows of frames, when one thing changes.                   *)
(***************************************************************************)
LEMMA KnownTables ==
  ASSUME NEW m, NEW w, NEW rs, NEW n, NEW x, NEW ts, NEW js, NEW d, NEW c, NEW v,
         CoreOK(m, w, rs, js), TablesOK(m, w, rs, js, d, c, v),
         \A q, f : Known(d, c, q, f) => Living(n, x, f) /\ x.frames[f] = w.frames[f],
         \A j \in DOMAIN js : \A f : Holds(n, x, ts, js, j, f) => Holds(m, w, rs, js, j, f) \/ f \notin FrameIds(w)
  PROVE  TablesOK(n, x, ts, js, d, c, v)
<1>1. \A q \in DOMAIN c : StateOK(n, x, c[q])
  <2> SUFFICES ASSUME NEW q \in DOMAIN c
               PROVE  StateOK(n, x, c[q])
    OBVIOUS
  <2>1. StateOK(m, w, c[q])
    BY DEF TablesOK, RegistryOK
  <2>2. c[q].dataFrame # NoFrame => Known(d, c, q, c[q].dataFrame)
    BY DEF Known, Shows
  <2> QED
    BY <2>1, <2>2 DEF StateOK
<1>2. \A i \in DOMAIN d : ActionOK(n, x, d[i])
  <2> SUFFICES ASSUME NEW i \in DOMAIN d
               PROVE  ActionOK(n, x, d[i])
    OBVIOUS
  <2>1. ActionOK(m, w, d[i])
    BY DEF TablesOK, RegistryOK
  <2>2. SetsFrame(d[i]) => Known(d, c, d[i].query, FrameOf(d[i]))
    BY DEF Known, Brings
  <2> QED
    BY <2>1, <2>2 DEF ActionOK
<1>3. RegistryOK(n, x, d, c)
  BY <1>1, <1>2 DEF TablesOK, RegistryOK
<1>4. HeldOK(n, x, ts, js, d, c)
  <2> SUFFICES ASSUME NEW j \in DOMAIN js, NEW q, NEW f, Holds(n, x, ts, js, j, f), Known(d, c, q, f)
               PROVE  js[j].at \in Later /\ js[j].query = q /\ f = js[j].frame
    BY DEF HeldOK, HeldBy
  <2>1. Living(m, w, f)
    BY DEF TablesOK, RegistryOK, StateOK, ActionOK, Known, Shows, Brings
  <2>2. f \in FrameIds(w)
    BY <2>1 DEF Living, CoreOK, ShapesOK
  <2>3. Holds(m, w, rs, js, j, f)
    BY <2>2
  <2> QED
    BY <2>3 DEF TablesOK, HeldOK, HeldBy
<1>5. CreatedOK(x, js, d, c)
  <2>1. ASSUME NEW i \in DOMAIN d, d[i].type = "CREATED_DATA_FRAME"
        PROVE  x.frames[d[i].value] = w.frames[d[i].value]
    <3>1. Known(d, c, d[i].query, d[i].value)
      BY <2>1 DEF Known, Brings, SetsFrame, FrameOf
    <3> QED
      BY <3>1
  <2> QED
    BY <2>1 DEF TablesOK, CreatedOK
<1> QED
  BY <1>3, <1>4, <1>5 DEF TablesOK

LEMMA KnownLives ==
  ASSUME NEW m, NEW w, NEW rs, NEW js, NEW d, NEW c, NEW v, TablesOK(m, w, rs, js, d, c, v),
         NEW q, NEW f, Known(d, c, q, f)
  PROVE  Living(m, w, f)
BY DEF TablesOK, RegistryOK, StateOK, ActionOK, Known, Shows, Brings

LEMMA SparesTables ==
  ASSUME NEW m, NEW w, NEW rs, NEW n, NEW x, NEW ts, NEW js, NEW d, NEW c, NEW v,
         CoreOK(m, w, rs, js), Spares(m, w, rs, n, x, ts, js), TablesOK(m, w, rs, js, d, c, v)
  PROVE  TablesOK(n, x, ts, js, d, c, v)
<1>1. \A q, f : Known(d, c, q, f) => Living(n, x, f) /\ x.frames[f] = w.frames[f]
  BY KnownLives DEF Spares
<1>2. \A j \in DOMAIN js : \A f : Holds(n, x, ts, js, j, f) => Holds(m, w, rs, js, j, f) \/ f \notin FrameIds(w)
  BY DEF Spares
<1> QED
  BY <1>1, <1>2, KnownTables

\* A task is posted that deletes no frame that the app knows.
LEMMA PostTables ==
  ASSUME NEW m, NEW n, NEW owner, NEW r, Posted(m, n, owner, r),
         NEW w, NEW rs, NEW js, CoreOK(m, w, rs, js), NEW d, NEW c, NEW v, TablesOK(m, w, rs, js, d, c, v),
         \A q, f : Known(d, c, q, f) => ~Deletes(r, f)
  PROVE  TablesOK(n, w, rs, js, d, c, v)
<1>1. PostedFates(m, n, w, r)
  BY PostedRequests DEF CoreOK, QueuesOK
<1>2. \A q, f : Known(d, c, q, f) => Living(n, w, f)
  BY <1>1, KnownLives DEF PostedFates
<1>3. \A j \in DOMAIN js : \A f : Holds(n, w, rs, js, j, f) => Holds(m, w, rs, js, j, f)
  BY PostedAwaits
<1> QED
  BY <1>2, <1>3, KnownTables

\* A job moves on.
LEMMA JobTables ==
  ASSUME NEW m, NEW w, NEW rs, NEW js, IsSeq(js), NEW d, NEW c, NEW v, TablesOK(m, w, rs, js, d, c, v),
         NEW j \in DOMAIN js, NEW job, job.kind = js[j].kind, job.query = js[j].query,
         js[j].at # "done",
         job.at \in Early => js[j].at \in Early /\ job.table = js[j].table,
         NEW ks, ks = [js EXCEPT ![j] = job],
         HeldBy(m, w, rs, ks, d, c, j)
  PROVE  TablesOK(m, w, rs, ks, d, c, v)
<1>1. /\ IsSeq(ks) /\ DOMAIN ks = DOMAIN js /\ ks[j] = job
      /\ \A k \in DOMAIN js : k # j => ks[k] = js[k]
  BY SeqExcept
<1>2. \A k \in DOMAIN js : ks[k].kind = js[k].kind /\ ks[k].query = js[k].query
  BY <1>1
<1>3. \A k \in DOMAIN js : \A q : IsAnalysis(ks[k], q) <=> IsAnalysis(js[k], q)
  BY <1>2 DEF IsAnalysis
<1>4. \A q : (Analysed(ks, q) <=> Analysed(js, q)) /\ (HasSort(ks, q) <=> HasSort(js, q))
  BY <1>1, <1>2, <1>3 DEF Analysed, HasSort
<1>5. \A q : SettledOK(js, d, c, q) => SettledOK(ks, d, c, q)
  BY <1>1, <1>3 DEF SettledOK
<1>6. OpenOK(ks, d, c, v)
  <2>1. \A i, k \in DOMAIN ks : \A q : IsAnalysis(ks[i], q) /\ IsAnalysis(ks[k], q) => i = k
    BY <1>1, <1>3 DEF TablesOK, OpenOK
  <2>2. \A q \in Queries : v.query = q \/ HasSort(ks, q) => SettledOK(ks, d, c, q)
    BY <1>4, <1>5 DEF TablesOK, OpenOK
  <2>3. /\ \A i \in DOMAIN d : d[i].type \in OrderingTypes => HasSort(ks, d[i].query)
        /\ \A i \in DOMAIN d : Analysed(ks, d[i].query)
        /\ \A q \in DOMAIN c : Analysed(ks, q)
        /\ \A q \in DOMAIN c : c[q].ordering # Null => HasSort(ks, q)
    BY <1>4 DEF TablesOK, OpenOK
  <2> QED
    BY <2>1, <2>2, <2>3 DEF OpenOK
<1>7. \A k \in DOMAIN js : \A f : k # j => (Holds(m, w, rs, ks, k, f) <=> Holds(m, w, rs, js, k, f))
  BY <1>1 DEF Holds
<1>8. HeldOK(m, w, rs, ks, d, c)
  <2>1. ASSUME NEW k \in DOMAIN js, k # j
        PROVE  HeldBy(m, w, rs, ks, d, c, k)
    <3>1. HeldBy(m, w, rs, js, d, c, k)
      BY DEF TablesOK, HeldOK
    <3> QED
      BY <1>1, <1>7, <2>1, <3>1 DEF HeldBy
  <2> QED
    BY <1>1, <2>1 DEF HeldOK
<1>9. CreatedOK(w, ks, d, c)
  BY <1>1, <1>2 DEF TablesOK, CreatedOK
<1> QED
  BY <1>6, <1>8, <1>9 DEF TablesOK

\* An action is dispatched.
Dispatches(m, w, rs, js, d, c, v, a) ==
  /\ ActionOK(m, w, a)
  /\ \A q, f : Brings(a, f) => ~Known(d, c, q, f)
  /\ \A j \in DOMAIN js : \A f : Brings(a, f) /\ Holds(m, w, rs, js, j, f) =>
       js[j].at \in Later /\ js[j].query = a.query /\ f = js[j].frame
  /\ a.type \in OrderingTypes => HasSort(js, a.query)
  /\ Analysed(js, a.query)
  /\ v.query = a.query \/ HasSort(js, a.query) => a.type \in OrderingTypes
  /\ a.type = "CREATED_DATA_FRAME" =>
       \E T : w.frames[a.value] = Ingested(T) /\ Pristine(d, c, a.query, T, Len(d))
  /\ \A j \in DOMAIN js : js[j].at \in Early => js[j].query # a.query

LEMMA DispatchTables ==
  ASSUME NEW m, NEW w, NEW rs, NEW js, NEW d, NEW c, NEW v, TablesOK(m, w, rs, js, d, c, v),
         NEW a, Dispatches(m, w, rs, js, d, c, v, a), NEW e, e = Append(d, a)
  PROVE  TablesOK(m, w, rs, js, e, c, v)
<1> DEFINE z == Len(d) + 1
<1>1. /\ IsSeq(e) /\ Len(e) = z /\ DOMAIN e = DOMAIN d \cup {z} /\ z \notin DOMAIN d /\ e[z] = a
      /\ \A i \in DOMAIN d : e[i] = d[i]
      /\ DOMAIN d = 1..Len(d) /\ Len(d) \in Nat
  BY SeqAppend, SeqDomain DEF TablesOK, RegistryOK
<1>2. \A i \in DOMAIN d : \A k \in 1..(i - 1) : k \in DOMAIN d /\ e[k] = d[k]
  BY <1>1
<1>3. \A k \in 1..Len(d) : e[k] = d[k]
  BY <1>1
<1>4. z - 1 = Len(d)
  BY <1>1
<1> HIDE DEF z
<1>5. RegistryOK(m, w, e, c)
  BY <1>1 DEF TablesOK, RegistryOK, Dispatches
<1>6. \A q, f : Known(e, c, q, f) => Known(d, c, q, f) \/ (Brings(a, f) /\ a.query = q)
  BY <1>1 DEF Known
<1>7. \A q, f : Brings(a, f) => ~Shows(c, q, f)
  BY DEF Dispatches, Known
<1>8. \A i \in DOMAIN d : \A f : Brings(a, f) => ~Brings(d[i], f)
  BY DEF Dispatches, Known
<1>9. UniqueOK(e, c)
  <2>1. \A i, k \in DOMAIN e : \A f : Brings(e[i], f) /\ Brings(e[k], f) => i = k
    BY <1>1, <1>8 DEF TablesOK, UniqueOK
  <2>2. \A i \in DOMAIN e : \A f, q : ~(Brings(e[i], f) /\ Shows(c, q, f))
    BY <1>1, <1>7 DEF TablesOK, UniqueOK
  <2> QED
    BY <2>1, <2>2 DEF TablesOK, UniqueOK
<1>10. HeldOK(m, w, rs, js, e, c)
  BY <1>6 DEF TablesOK, HeldOK, HeldBy, Dispatches
<1>11. OpenOK(js, e, c, v)
  <2>1. \A q \in Queries : v.query = q \/ HasSort(js, q) => SettledOK(js, e, c, q)
    BY <1>1 DEF TablesOK, OpenOK, SettledOK, Dispatches
  <2>2. \A i \in DOMAIN e : e[i].type \in OrderingTypes => HasSort(js, e[i].query)
    BY <1>1 DEF TablesOK, OpenOK, Dispatches
  <2>3. \A i \in DOMAIN e : Analysed(js, e[i].query)
    BY <1>1 DEF TablesOK, OpenOK, Dispatches
  <2> QED
    BY <2>1, <2>2, <2>3 DEF TablesOK, OpenOK
<1>12. \A q, T : \A i \in DOMAIN d : Pristine(d, c, q, T, i - 1) => Pristine(e, c, q, T, i - 1)
  BY <1>2 DEF Pristine
<1>13. \A q, T : Pristine(d, c, q, T, Len(d)) => Pristine(e, c, q, T, Len(d))
  BY <1>3 DEF Pristine
<1>14. CreatedOK(w, js, e, c)
  <2>1. ASSUME NEW i \in DOMAIN e, e[i].type = "CREATED_DATA_FRAME"
        PROVE  \E T : w.frames[e[i].value] = Ingested(T) /\ Pristine(e, c, e[i].query, T, i - 1)
    <3>1. CASE i \in DOMAIN d
      <4>1. PICK T : w.frames[d[i].value] = Ingested(T) /\ Pristine(d, c, d[i].query, T, i - 1)
        BY <1>1, <2>1, <3>1 DEF TablesOK, CreatedOK
      <4> QED
        BY <1>1, <1>12, <3>1, <4>1
    <3>2. CASE i = z
      <4>1. PICK T : w.frames[a.value] = Ingested(T) /\ Pristine(d, c, a.query, T, Len(d))
        BY <1>1, <2>1, <3>2 DEF Dispatches
      <4> QED
        BY <1>1, <1>4, <1>13, <3>2, <4>1
    <3> QED
      BY <1>1, <3>1, <3>2
  <2>2. ASSUME NEW j \in DOMAIN js, js[j].at \in Early
        PROVE  Pristine(e, c, js[j].query, js[j].table, Len(e))
    <3>1. Pristine(d, c, js[j].query, js[j].table, Len(d)) /\ js[j].query # a.query
      BY <2>2 DEF TablesOK, CreatedOK, Dispatches
    <3>2. \A k \in 1..Len(e) : k \in 1..Len(d) \/ k = z
      BY <1>1
    <3>3. \A k \in 1..Len(d) : k \in 1..Len(e)
      BY <1>1 DEF z
    <3> QED
      BY <1>1, <1>3, <3>1, <3>2, <3>3 DEF Pristine
  <2> QED
    BY <2>1, <2>2 DEF CreatedOK
<1> QED
  BY <1>5, <1>9, <1>10, <1>11, <1>14 DEF TablesOK

\* What the page shows is known.
LEMMA RenderedKnown ==
  ASSUME NEW m, NEW w, NEW rs, NEW js, NEW d, NEW c, NEW v, TablesOK(m, w, rs, js, d, c, v),
         NEW r, ~r, ViewOK(d, c, r, v), v.query # NoQuery
  PROVE  /\ v.query \in Queries /\ v.query \in DOMAIN c /\ v.rendered = c[v.query]
         /\ v.frame = c[v.query].dataFrame
         /\ v.frame # NoFrame => Known(d, c, v.query, v.frame)
<1>1. ShownOK(d, c, r, v)
  BY DEF ViewOK
<1>2. v.query \in Queries /\ v.rendered = c[v.query] /\ v.frame = c[v.query].dataFrame
  BY <1>1 DEF ShownOK
<1>3. v.query \in DOMAIN c
  BY <1>2 DEF TablesOK, OpenOK, SettledOK
<1> QED
  BY <1>2, <1>3 DEF Known, Shows

LEMMA DispatchView ==
  ASSUME NEW m, NEW w, NEW rs, NEW js, CoreOK(m, w, rs, js), NEW d, NEW c, NEW v, TablesOK(m, w, rs, js, d, c, v),
         NEW a, Dispatches(m, w, rs, js, d, c, v, a), NEW e, e = Append(d, a),
         NEW r, ~r, ViewOK(d, c, r, v)
  PROVE  ViewOK(e, c, r, v)
<1>1. CASE v.query = NoQuery
  BY <1>1 DEF ViewOK
<1>2. CASE v.query # NoQuery
  <2> DEFINE z == Len(d) + 1
             f == v.rendered.dataFrame
  <2>1. /\ DOMAIN e = DOMAIN d \cup {z} /\ e[z] = a
        /\ \A i \in DOMAIN d : e[i] = d[i]
    BY SeqAppend DEF TablesOK, RegistryOK
  <2> HIDE DEF z
  <2>2. v.query \in DOMAIN c /\ f = c[v.query].dataFrame
    BY <1>2, RenderedKnown
  <2>3. ShownOK(d, c, r, v)
    BY <1>2 DEF ViewOK
  <2>4. ~Brings(a, f)
    <3>1. CASE f = NoFrame
      <4>1. SetsFrame(a) => FrameOf(a) \in FrameIds(w)
        BY DEF Dispatches, ActionOK, Living, CoreOK, ShapesOK
      <4>2. NoFrame \notin FrameIds(w)
        BY DEF NoFrame, FrameIds, CoreOK, ShapesOK
      <4> QED
        BY <3>1, <4>1, <4>2 DEF Brings
    <3>2. CASE f # NoFrame
      <4>1. Known(d, c, v.query, f)
        BY <2>2, <3>2 DEF Known, Shows
      <4> QED
        BY <4>1 DEF Dispatches
    <3> QED
      BY <3>1, <3>2
  <2>5. ShownOK(e, c, r, v)
    BY <2>1, <2>3, <2>4 DEF ShownOK
  <2> QED
    BY <1>2, <2>5 DEF ViewOK
<1> QED
  BY <1>1, <1>2

-----------------------------------------------------------------------------
(***************************************************************************)
(* A turn of a job: it moves on, posts and dispatches.                     *)
(***************************************************************************)
Moves(m, w, rs, js, d, c, j, job) ==
  /\ JobOK(job) /\ JobFrames(m, w, job)
  /\ job.kind = js[j].kind /\ job.query = js[j].query /\ job.table = js[j].table
  /\ job.at \in Early => js[j].at \in Early
  /\ \A f : Owns(job, f) =>
       \/ Owns(js[j], f)
       \/ f \in FrameIds(w) /\ \A k \in DOMAIN js : ~Holds(m, w, rs, js, k, f)
  /\ \A q, f : Owns(job, f) /\ Known(d, c, q, f) => job.at \in Later /\ job.query = q /\ f = job.frame

LEMMA MoveKeeps ==
  ASSUME NEW m, NEW w, NEW rs, NEW js, NEW d, NEW c, NEW r, NEW v, InvOK(m, w, rs, js, d, c, r, v),
         NEW j \in DOMAIN js, Idle(m, j), js[j].at \in Awaiting,
         NEW job, Moves(m, w, rs, js, d, c, j, job), NEW ks, ks = [js EXCEPT ![j] = job]
  PROVE  /\ InvOK(m, w, rs, ks, d, c, r, v)
         /\ DOMAIN ks = DOMAIN js /\ ks[j] = job /\ \A k \in DOMAIN js : k # j => ks[k] = js[k]
         /\ \A q : HasSort(ks, q) <=> HasSort(js, q)
<1>1. CoreOK(m, w, rs, js) /\ TablesOK(m, w, rs, js, d, c, v) /\ ViewOK(d, c, r, v) /\ IsSeq(js)
  BY DEF InvOK, CoreOK, JobsOK
<1>2. /\ DOMAIN ks = DOMAIN js /\ ks[j] = job
      /\ \A k \in DOMAIN js : k # j => ks[k] = js[k]
  BY <1>1, SeqExcept
<1>3. CoreOK(m, w, rs, ks)
  BY <1>1, SetJobKeeps DEF Moves
<1>4. \A f : ~Incoming(m, w, rs, j, f)
  BY DEF Idle, Incoming
<1>5. HeldBy(m, w, rs, ks, d, c, j)
  BY <1>2, <1>4 DEF HeldBy, Holds, Moves
<1>6. js[j].at # "done"
  BY DEF Awaiting, Early, Transforming, ReadingAt
<1>7. /\ job.kind = js[j].kind /\ job.query = js[j].query
      /\ job.at \in Early => js[j].at \in Early /\ job.table = js[j].table
  BY DEF Moves
<1>8. TablesOK(m, w, rs, ks, d, c, v)
  BY <1>1, <1>5, <1>6, <1>7, JobTables
<1>9. \A q : HasSort(ks, q) <=> HasSort(js, q)
  BY <1>2, <1>7 DEF HasSort
<1> QED
  BY <1>1, <1>2, <1>3, <1>8, <1>9 DEF InvOK

LEMMA PostKeeps ==
  ASSUME NEW m, NEW w, NEW rs, NEW js, NEW d, NEW c, NEW r, NEW v, InvOK(m, w, rs, js, d, c, r, v),
         NEW owner, NEW t, NEW n, Posted(m, n, owner, t), Posts(m, w, rs, js, owner, t),
         \A q, f : Known(d, c, q, f) => ~Deletes(t, f)
  PROVE  InvOK(n, w, rs, js, d, c, r, v)
<1>1. CoreOK(n, w, rs, js)
  BY PostedKeeps DEF InvOK
<1>2. TablesOK(n, w, rs, js, d, c, v)
  BY PostTables DEF InvOK
<1> QED
  BY <1>1, <1>2 DEF InvOK

LEMMA DispatchKeeps ==
  ASSUME NEW m, NEW w, NEW rs, NEW js, NEW d, NEW c, NEW r, NEW v, InvOK(m, w, rs, js, d, c, r, v), ~r,
         NEW a, Dispatches(m, w, rs, js, d, c, v, a), NEW e, e = Append(d, a)
  PROVE  InvOK(m, w, rs, js, e, c, r, v)
<1>1. TablesOK(m, w, rs, js, e, c, v)
  BY DispatchTables DEF InvOK
<1>2. ViewOK(e, c, r, v)
  BY DispatchView DEF InvOK
<1> QED
  BY <1>1, <1>2 DEF InvOK

\* The tasks of the jobs
LEMMA TransformPosted ==
  ASSUME NEW m, NEW w, NEW rs, NEW js, NEW d, NEW c, NEW r, NEW v, InvOK(m, w, rs, js, d, c, r, v),
         NEW j \in DOMAIN js, Idle(m, j), js[j].at \in Transforming,
         NEW frame, Living(m, w, frame), NEW stats, stats # NoFrame => Living(m, w, stats),
         NEW transform, js[j].at = "sort" => transform = createOrderByTransform(js[j].ordering),
         NEW n, n = transformFrame(m, j, frame, transform, stats)
  PROVE  InvOK(n, w, rs, js, d, c, r, v)
<1> DEFINE t == Request(m.nextMessageId, "DATAFRAME_TRANSFORM",
                        [frame |-> frame, transform |-> transform, stats |-> stats])
<1>1. Posted(m, n, j, t)
  BY PostTask DEF transformFrame, InvOK, CoreOK, ShapesOK
<1>2. /\ t.messageId = m.nextMessageId /\ t.type = "DATAFRAME_TRANSFORM"
      /\ t.data.frame = frame /\ t.data.transform = transform /\ t.data.stats = stats
  BY DEF Request
<1> HIDE DEF t
<1>3. Asks(m, j, js[j], t)
  BY <1>2 DEF Asks, TaskOf, Transforming, ReadingAt
<1>4. \A f \in ReadBy(t) : Living(m, w, f)
  BY <1>2 DEF ReadBy
<1>5. \A f : ~Deletes(t, f) /\ ~FinishOf(t, f) /\ ~WriteOf(t, f)
  BY <1>2 DEF Deletes, FinishOf, WriteOf
<1>6. \A s : ~IsScan(t, s)
  BY <1>2 DEF IsScan
<1>7. Posts(m, w, rs, js, j, t)
  BY <1>2, <1>3, <1>4, <1>5, <1>6 DEF Posts, Idle, Awaiting
<1> QED
  BY <1>1, <1>5, <1>7, PostKeeps

LEMMA WritePosted ==
  ASSUME NEW m, NEW w, NEW rs, NEW js, NEW d, NEW c, NEW r, NEW v, InvOK(m, w, rs, js, d, c, r, v),
         NEW j \in DOMAIN js, Idle(m, j), js[j].at = "write",
         NEW n, n = writeTable(m, j, js[j].frame, js[j].table)
  PROVE  InvOK(n, w, rs, js, d, c, r, v)
<1> DEFINE t == Request(m.nextMessageId, "DATAFRAME_INGEST_WRITE",
                        [frame |-> js[j].frame, table |-> js[j].table])
<1>1. Posted(m, n, j, t)
  BY PostTask DEF writeTable, InvOK, CoreOK, ShapesOK
<1>2. /\ t.messageId = m.nextMessageId /\ t.type = "DATAFRAME_INGEST_WRITE"
      /\ t.data.frame = js[j].frame /\ t.data.table = js[j].table
  BY DEF Request
<1> HIDE DEF t
<1>3. Asks(m, j, js[j], t)
  BY <1>2 DEF Asks, TaskOf, Transforming, ReadingAt
<1>4. \A f \in ReadBy(t) : Living(m, w, f)
  BY <1>2 DEF ReadBy
<1>5. \A f : ~Deletes(t, f) /\ ~FinishOf(t, f) /\ (WriteOf(t, f) => f = js[j].frame)
  BY <1>2 DEF Deletes, FinishOf, WriteOf
<1>6. \A s : ~IsScan(t, s)
  BY <1>2 DEF IsScan
<1>7. Posts(m, w, rs, js, j, t)
  BY <1>2, <1>3, <1>4, <1>5, <1>6 DEF Posts, Idle, Awaiting, Early
<1> QED
  BY <1>1, <1>5, <1>7, PostKeeps

LEMMA FinishPosted ==
  ASSUME NEW m, NEW w, NEW rs, NEW js, NEW d, NEW c, NEW r, NEW v, InvOK(m, w, rs, js, d, c, r, v),
         NEW j \in DOMAIN js, Idle(m, j), js[j].at = "finish",
         Unborn(m, w, js[j].frame), ~Finishes(m, js[j].frame), ~Transformed(w, js[j].frame),
         NEW n, n = finishIngest(m, j, js[j].frame)
  PROVE  InvOK(n, w, rs, js, d, c, r, v)
<1> DEFINE t == Request(m.nextMessageId, "DATAFRAME_INGEST_FINISH", [frame |-> js[j].frame])
<1>1. Posted(m, n, j, t)
  BY PostTask DEF finishIngest, InvOK, CoreOK, ShapesOK
<1>2. /\ t.messageId = m.nextMessageId /\ t.type = "DATAFRAME_INGEST_FINISH"
      /\ t.data.frame = js[j].frame
  BY DEF Request
<1> HIDE DEF t
<1>3. Asks(m, j, js[j], t)
  BY <1>2 DEF Asks, TaskOf, Transforming, ReadingAt
<1>4. \A f \in ReadBy(t) : Living(m, w, f)
  BY <1>2 DEF ReadBy
<1>5. \A f : ~Deletes(t, f) /\ (FinishOf(t, f) => f = js[j].frame) /\ ~WriteOf(t, f)
  BY <1>2 DEF Deletes, FinishOf, WriteOf
<1>6. \A s : ~IsScan(t, s)
  BY <1>2 DEF IsScan
<1>7. Posts(m, w, rs, js, j, t)
  BY <1>2, <1>3, <1>4, <1>5, <1>6 DEF Posts, Idle, Awaiting, Early
<1> QED
  BY <1>1, <1>5, <1>7, PostKeeps

Deleted(m, w, n, frame) ==
  /\ \A f : Living(m, w, f) /\ f # frame => Living(n, w, f)
  /\ \A j : Idle(m, j) /\ j # Nobody => Idle(n, j)

LEMMA DeletePosted ==
  ASSUME NEW m, NEW w, NEW rs, NEW js, NEW d, NEW c, NEW r, NEW v, InvOK(m, w, rs, js, d, c, r, v),
         NEW frame, frame \in DOMAIN w.frames, \A j \in DOMAIN js : ~Holds(m, w, rs, js, j, frame),
         \A q : ~Known(d, c, q, frame),
         NEW n, n = deleteFrame(m, frame)
  PROVE  InvOK(n, w, rs, js, d, c, r, v) /\ Deleted(m, w, n, frame)
<1> DEFINE t == Request(m.nextMessageId, "DATAFRAME_DELETE", [frame |-> frame])
<1>1. Posted(m, n, Nobody, t)
  BY PostTask DEF deleteFrame, InvOK, CoreOK, ShapesOK
<1>2. t.messageId = m.nextMessageId /\ t.type = "DATAFRAME_DELETE" /\ t.data.frame = frame
  BY DEF Request
<1> HIDE DEF t
<1>3. \A f \in ReadBy(t) : Living(m, w, f)
  BY <1>2 DEF ReadBy
<1>4. \A f : (Deletes(t, f) => f = frame) /\ ~FinishOf(t, f) /\ ~WriteOf(t, f)
  BY <1>2 DEF Deletes, FinishOf, WriteOf
<1>5. \A s : ~IsScan(t, s)
  BY <1>2 DEF IsScan
<1>6. Posts(m, w, rs, js, Nobody, t)
  BY <1>2, <1>3, <1>4, <1>5 DEF Posts
<1>7. InvOK(n, w, rs, js, d, c, r, v)
  BY <1>1, <1>4, <1>6, PostKeeps
<1>8. PostedFates(m, n, w, t)
  BY <1>1, PostedRequests DEF InvOK, CoreOK, QueuesOK
<1>9. \A f : Living(m, w, f) /\ f # frame => Living(n, w, f)
  BY <1>4, <1>8 DEF PostedFates
<1>10. \A k, j : Awaits(n, k, j) => Awaits(m, k, j) \/ j = Nobody
  BY <1>1, PostedAwaits DEF InvOK
<1>11. n.activeScans = m.activeScans
  BY <1>1 DEF Posted
<1>12. \A j : Idle(m, j) /\ j # Nobody => Idle(n, j)
  BY <1>10, <1>11 DEF Idle
<1> QED
  BY <1>7, <1>9, <1>12 DEF Deleted

LEMMA AddScan ==
  ASSUME NEW m, MainShape(m), NEW j,
         NEW l, l = [m EXCEPT !.nextScanId = m.nextScanId + 1,
                              !.activeScans = With(@, m.nextScanId, AsyncDataFrameScan(j))]
  PROVE  AddsScan(m, l, j)
<1>1. m = [nextMessageId |-> m.nextMessageId, pendingRequests |-> m.pendingRequests,
           nextScanId |-> m.nextScanId, activeScans |-> m.activeScans, requests |-> m.requests]
  BY DEF MainShape
<1>2. /\ l = [nextMessageId |-> l.nextMessageId, pendingRequests |-> l.pendingRequests,
               nextScanId |-> l.nextScanId, activeScans |-> l.activeScans, requests |-> l.requests]
      /\ l.requests = m.requests /\ l.nextMessageId = m.nextMessageId
      /\ l.pendingRequests = m.pendingRequests /\ l.nextScanId = m.nextScanId + 1
      /\ l.activeScans = With(m.activeScans, m.nextScanId, AsyncDataFrameScan(j))
  BY <1>1
<1> QED
  BY <1>2 DEF AddsScan, SameRequests, MainShape

LEMMA ScanPosted ==
  ASSUME NEW m, NEW w, NEW rs, NEW js, NEW d, NEW c, NEW r, NEW v, InvOK(m, w, rs, js, d, c, r, v),
         NEW j \in DOMAIN js, Idle(m, j), js[j].at \in ReadingAt, NEW n, n = readTable(m, j, js[j].out)
  PROVE  InvOK(n, w, rs, js, d, c, r, v)
<1> DEFINE scan == m.nextScanId
           l == [m EXCEPT !.nextScanId = scan + 1,
                          !.activeScans = With(@, scan, AsyncDataFrameScan(j))]
           t == Request(l.nextMessageId, "DATAFRAME_SCAN", [frame |-> js[j].out, scan |-> scan])
<1>1. MainShape(m) /\ CoreOK(m, w, rs, js) /\ m.nextScanId \in Nat
  BY DEF InvOK, CoreOK, ShapesOK
<1>0. /\ l = [m EXCEPT !.nextScanId = scan + 1, !.activeScans = With(@, scan, AsyncDataFrameScan(j))]
      /\ n = postTask(l, j, "DATAFRAME_SCAN", [frame |-> js[j].out, scan |-> scan])
  BY DEF readTable
<1>5. AddsScan(m, l, j)
  BY <1>1, AddScan
<1> HIDE DEF l
<1>2. /\ MainShape(l) /\ l.requests = m.requests /\ l.nextMessageId = m.nextMessageId
      /\ l.pendingRequests = m.pendingRequests /\ l.nextScanId = scan + 1
      /\ l.activeScans = With(m.activeScans, scan, AsyncDataFrameScan(j))
  BY <1>5 DEF AddsScan, SameRequests
<1>4. Posted(l, n, j, t)
  BY <1>0, <1>2, PostTask
<1>6. CoreOK(l, w, rs, js)
  BY <1>1, <1>5, AddScanKeeps
<1>7. TablesOK(l, w, rs, js, d, c, v)
  <2>1. \A f : Living(l, w, f) <=> Living(m, w, f)
    BY <1>5, SameDoomed DEF AddsScan
  <2>2. \A k, f : Holds(l, w, rs, js, k, f) <=> Holds(m, w, rs, js, k, f)
    BY <1>2, SamePending
  <2>3. TablesOK(m, w, rs, js, d, c, v)
    BY DEF InvOK
  <2>4. \A q, f : Known(d, c, q, f) => Living(l, w, f)
    BY <2>1, <2>3, KnownLives
  <2> QED
    BY <1>1, <2>2, <2>3, <2>4, KnownTables
<1>8. InvOK(l, w, rs, js, d, c, r, v)
  BY <1>6, <1>7 DEF InvOK
<1>9. /\ t.messageId = l.nextMessageId /\ t.type = "DATAFRAME_SCAN"
      /\ t.data.frame = js[j].out /\ t.data.scan = scan
  BY DEF Request
<1> HIDE DEF t
<1>10. scan \in DOMAIN l.activeScans /\ l.activeScans[scan] = AsyncDataFrameScan(j)
  BY <1>2 DEF With
<1>11. l.activeScans[scan].owner = j /\ l.activeScans[scan].messageData = <<>>
  BY <1>10 DEF AsyncDataFrameScan
<1>12. scan \in ScanIds(l) /\ scan \notin ScanIds(m)
  BY <1>1, <1>2 DEF ScanIds
<1>13. \A k, i : Awaits(l, k, i) <=> Awaits(m, k, i)
  BY <1>2, SamePending
<1>14. Asks(l, j, js[j], t)
  BY <1>9, <1>10, <1>11 DEF Asks, TaskOf, Transforming, ReadingAt
<1>15. \A f \in ReadBy(t) : Living(l, w, f)
  <2>1. Living(l, w, js[j].out)
    BY <1>6 DEF CoreOK, JobFramesOK, JobFrames
  <2> QED
    BY <1>9, <2>1 DEF ReadBy
<1>16. \A f : ~Deletes(t, f) /\ ~FinishOf(t, f) /\ ~WriteOf(t, f)
  BY <1>9 DEF Deletes, FinishOf, WriteOf
<1>17. \A s : IsScan(t, s) => s = scan
  BY <1>9 DEF IsScan
<1>18. \A i \in DOMAIN m.requests : ~IsScan(m.requests[i], scan)
  BY <1>1, <1>12 DEF IsScan, CoreOK, QueuesOK, RequestOK
<1>19. \A a \in DOMAIN rs : ~IsScanMessage(rs[a], scan) /\ ~IsScanFinish(rs[a], scan)
  BY <1>1, <1>12 DEF IsScanMessage, IsScanFinish, CoreOK, QueuesOK, ResponseOK
<1> HIDE DEF scan
<1>20. Posts(l, w, rs, js, j, t)
  BY <1>2, <1>9, <1>11, <1>12, <1>13, <1>14, <1>15, <1>16, <1>17, <1>18, <1>19 DEF Posts, Idle, Awaiting
<1> QED
  BY <1>4, <1>8, <1>16, <1>20, PostKeeps

-----------------------------------------------------------------------------
(***************************************************************************)
(* The messages of the worker.                                             *)
(***************************************************************************)
LEMMA MessageTables ==
  ASSUME NEW m, NEW w, NEW rs, NEW js, CoreOK(m, w, rs, js), NEW n, SameRequests(m, n),
         NEW ts, Popped(rs, ts), \A k, j : Awaits(n, k, j) => Awaits(m, k, j),
         NEW d, NEW c, NEW v, TablesOK(m, w, rs, js, d, c, v)
  PROVE  /\ TablesOK(n, w, ts, js, d, c, v)
         /\ \A j, f : Holds(n, w, ts, js, j, f) => Holds(m, w, rs, js, j, f)
         /\ \A f : Living(n, w, f) <=> Living(m, w, f)
<1>1. \A j, f : Incoming(n, w, ts, j, f) => Incoming(m, w, rs, j, f)
  <2>1. \A j, f : Incoming(m, w, ts, j, f) => Incoming(m, w, rs, j, f)
    BY PopAnswers
  <2>2. \A j, f : Incoming(n, w, ts, j, f) => Incoming(m, w, ts, j, f)
    BY DEF Incoming
  <2> QED
    BY <2>1, <2>2
<1>2. \A j, f : Holds(n, w, ts, js, j, f) => Holds(m, w, rs, js, j, f)
  BY <1>1 DEF Holds
<1>3. \A f : Living(n, w, f) <=> Living(m, w, f)
  BY SameDoomed
<1>4. \A q, f : Known(d, c, q, f) => Living(n, w, f)
  BY <1>3, KnownLives
<1>5. TablesOK(n, w, ts, js, d, c, v)
  BY <1>2, <1>4, KnownTables
<1> QED
  BY <1>2, <1>3, <1>5

\* The data of a job is of no account.
LEMMA DataTables ==
  ASSUME NEW m, NEW w, NEW rs, NEW js, NEW ks, DOMAIN ks = DOMAIN js,
         \A k \in DOMAIN js :
           /\ ks[k].kind = js[k].kind /\ ks[k].query = js[k].query /\ ks[k].at = js[k].at
           /\ ks[k].frame = js[k].frame /\ ks[k].table = js[k].table,
         NEW n, NEW ts, \A k \in DOMAIN js : \A f : Holds(n, w, ts, ks, k, f) => Holds(m, w, rs, js, k, f),
         \A f : Living(m, w, f) => Living(n, w, f),
         NEW d, NEW c, NEW v, TablesOK(m, w, rs, js, d, c, v)
  PROVE  TablesOK(n, w, ts, ks, d, c, v)
<1>1. RegistryOK(n, w, d, c)
  <2>1. \A state : StateOK(m, w, state) => StateOK(n, w, state)
    BY DEF StateOK
  <2>2. \A a : ActionOK(m, w, a) => ActionOK(n, w, a)
    BY DEF ActionOK
  <2> QED
    BY <2>1, <2>2 DEF TablesOK, RegistryOK
<1>2. \A k \in DOMAIN js : \A q : IsAnalysis(ks[k], q) <=> IsAnalysis(js[k], q)
  BY DEF IsAnalysis
<1>3. \A q : (Analysed(ks, q) <=> Analysed(js, q)) /\ (HasSort(ks, q) <=> HasSort(js, q))
  BY <1>2 DEF Analysed, HasSort
<1>4. \A q : SettledOK(js, d, c, q) => SettledOK(ks, d, c, q)
  BY <1>2 DEF SettledOK
<1>5. OpenOK(ks, d, c, v)
  <2>1. \A i, k \in DOMAIN ks : \A q : IsAnalysis(ks[i], q) /\ IsAnalysis(ks[k], q) => i = k
    BY <1>2 DEF TablesOK, OpenOK
  <2>2. \A q \in Queries : v.query = q \/ HasSort(ks, q) => SettledOK(ks, d, c, q)
    BY <1>3, <1>4 DEF TablesOK, OpenOK
  <2> QED
    BY <1>3, <2>1, <2>2 DEF TablesOK, OpenOK
<1>6. HeldOK(n, w, ts, ks, d, c)
  <2>1. ASSUME NEW k \in DOMAIN js
        PROVE  HeldBy(n, w, ts, ks, d, c, k)
    <3>1. HeldBy(m, w, rs, js, d, c, k)
      BY DEF TablesOK, HeldOK
    <3> QED
      BY <3>1 DEF HeldBy
  <2> QED
    BY <2>1 DEF HeldOK
<1>7. CreatedOK(w, ks, d, c)
  BY DEF TablesOK, CreatedOK
<1> QED
  BY <1>1, <1>5, <1>6, <1>7 DEF TablesOK

Inv(js, d) == InvOK(main, worker, responses, js, d, computations, rendering, view)
InvNext(m, js, d) == InvOK(m, worker, responses', js, d, computations, rendering, view)

LEMMA DeliversOne ==
  ASSUME Inv(jobs, dispatched), Delivers
  PROVE  /\ ~rendering /\ 1 \in DOMAIN responses /\ response = responses[1]
         /\ Popped(responses, responses') /\ ResponseOK(main, response)
         /\ CoreOK(main, worker, responses, jobs) /\ MainShape(main)
         /\ TablesOK(main, worker, responses, jobs, dispatched, computations, view)
         /\ ViewOK(dispatched, computations, rendering, view)
<1>1. /\ CoreOK(main, worker, responses, jobs) /\ MainShape(main) /\ IsSeq(responses)
      /\ TablesOK(main, worker, responses, jobs, dispatched, computations, view)
      /\ ViewOK(dispatched, computations, rendering, view)
  BY DEF Inv, InvOK, CoreOK, ShapesOK, QueuesOK
<1>2. Popped(responses, responses') /\ response = responses[1]
  BY <1>1, PopSeq DEF Delivers, response
<1>3. 1 \in DOMAIN responses
  BY <1>2 DEF Popped
<1>4. ResponseOK(main, response)
  BY <1>1, <1>2, <1>3 DEF CoreOK, QueuesOK
<1> QED
  BY <1>1, <1>2, <1>3, <1>4 DEF Delivers

\* A message that nobody waits for, or an error of the worker
LEMMA DropMessage ==
  ASSUME Inv(jobs, dispatched), Delivers, NEW n, Fewer(main, n),
         \A s \in DOMAIN main.activeScans : ~IsScanMessage(response, s) /\ ~IsScanFinish(response, s)
  PROVE  InvNext(n, jobs, dispatched)
<1>1. /\ response = responses[1] /\ Popped(responses, responses')
      /\ CoreOK(main, worker, responses, jobs)
      /\ TablesOK(main, worker, responses, jobs, dispatched, computations, view)
      /\ ViewOK(dispatched, computations, rendering, view)
  BY DeliversOne
<1>2. CoreOK(main, worker, responses', jobs)
  BY <1>1, PopKeeps
<1>3. CoreOK(n, worker, responses', jobs)
  BY <1>2, FewerKeeps
<1>4. SameRequests(main, n) /\ \A k, j : Awaits(n, k, j) => Awaits(main, k, j)
  BY FewerAwaits DEF Fewer
<1>5. TablesOK(n, worker, responses', jobs, dispatched, computations, view)
  BY <1>1, <1>4, MessageTables
<1> QED
  BY <1>1, <1>3, <1>5 DEF InvNext, InvOK

LEMMA SameFewer ==
  ASSUME NEW m, MainShape(m)
  PROVE  Fewer(m, m)
BY DEF Fewer, SameRequests

LEMMA OnScanMessageKeeps ==
  ASSUME Inv(jobs, dispatched), OnScanMessage
  PROVE  InvNext(main', jobs', dispatched')
<1> DEFINE scan == response.data.scan
<1>1. /\ Delivers /\ response.type = "DATAFRAME_SCAN_MESSAGE"
      /\ main' = scanMessage(main, scan, response.data.buffer)
      /\ jobs' = jobs /\ dispatched' = dispatched
  BY DEF OnScanMessage
<1>2. /\ response = responses[1] /\ Popped(responses, responses')
      /\ CoreOK(main, worker, responses, jobs) /\ MainShape(main)
      /\ TablesOK(main, worker, responses, jobs, dispatched, computations, view)
      /\ ViewOK(dispatched, computations, rendering, view)
  BY <1>1, DeliversOne
<1>3. /\ \A s : ~IsScanFinish(response, s)
      /\ \A s : IsScanMessage(response, s) <=> s = scan
  BY <1>1 DEF IsScanFinish, IsScanMessage
<1> HIDE DEF scan
<1>4. CASE scan \notin DOMAIN main.activeScans
  <2>1. main' = main /\ Fewer(main, main)
    BY <1>1, <1>2, <1>4, SameFewer DEF scanMessage
  <2> QED
    BY <1>1, <1>3, <1>4, <2>1, DropMessage
<1>5. CASE scan \in DOMAIN main.activeScans
  <2>1. main' = [main EXCEPT !.activeScans[scan].messageData = Append(@, response.data.buffer)]
    BY <1>1, <1>5 DEF scanMessage
  <2>2. /\ MainShape(main') /\ main'.requests = main.requests /\ main'.nextMessageId = main.nextMessageId
        /\ main'.pendingRequests = main.pendingRequests /\ main'.nextScanId = main.nextScanId
        /\ main'.activeScans = [main.activeScans EXCEPT ![scan].messageData =
                                  Append(main.activeScans[scan].messageData, response.data.buffer)]
    BY <1>2, <2>1 DEF MainShape
  <2>3. TakesBuffer(main, main', scan, response.data.buffer)
    BY <1>5, <2>2 DEF TakesBuffer, SameRequests
  <2>4. CoreOK(main', worker, responses', jobs)
    BY <1>2, <1>3, <2>3, TakeBufferKeeps
  <2>5. \A k, j : Awaits(main', k, j) => Awaits(main, k, j)
    BY <2>2 DEF Awaits
  <2>6. TablesOK(main', worker, responses', jobs, dispatched, computations, view)
    BY <1>2, <2>3, <2>5, MessageTables DEF TakesBuffer
  <2> QED
    BY <1>1, <1>2, <2>4, <2>6 DEF InvNext, InvOK
<1> QED
  BY <1>4, <1>5

LEMMA OnScanFinishKeeps ==
  ASSUME Inv(jobs, dispatched), OnScanFinish
  PROVE  InvNext(main', jobs', dispatched')
<1> DEFINE scan == response.data.scan
<1>1. Delivers /\ response.type = "DATAFRAME_SCAN_FINISH" /\ dispatched' = dispatched
  BY DEF OnScanFinish
<1>2. /\ response = responses[1] /\ Popped(responses, responses')
      /\ CoreOK(main, worker, responses, jobs) /\ MainShape(main)
      /\ TablesOK(main, worker, responses, jobs, dispatched, computations, view)
      /\ ViewOK(dispatched, computations, rendering, view)
  BY <1>1, DeliversOne
<1>3. /\ \A s : ~IsScanMessage(response, s)
      /\ \A s : IsScanFinish(response, s) <=> s = scan
  BY <1>1 DEF IsScanFinish, IsScanMessage
<1>4. \/ scan \notin DOMAIN main.activeScans /\ main' = main /\ jobs' = jobs
      \/ /\ scan \in DOMAIN main.activeScans
         /\ jobs' = [jobs EXCEPT ![main.activeScans[scan].owner].data = main.activeScans[scan].messageData]
         /\ main' = scanFinish(main, scan)
  BY DEF OnScanFinish
<1> HIDE DEF scan
<1>5. CASE scan \notin DOMAIN main.activeScans /\ main' = main /\ jobs' = jobs
  <2>1. Fewer(main, main)
    BY <1>2, SameFewer
  <2> QED
    BY <1>1, <1>3, <1>5, <2>1, DropMessage
<1>6. CASE /\ scan \in DOMAIN main.activeScans
           /\ jobs' = [jobs EXCEPT ![main.activeScans[scan].owner].data = main.activeScans[scan].messageData]
           /\ main' = scanFinish(main, scan)
  <2>1. main' = [main EXCEPT !.activeScans = Restrict(@, DOMAIN @ \ {scan})]
    BY <1>6 DEF scanFinish
  <2>2. /\ MainShape(main') /\ main'.requests = main.requests /\ main'.nextMessageId = main.nextMessageId
        /\ main'.pendingRequests = main.pendingRequests /\ main'.nextScanId = main.nextScanId
        /\ main'.activeScans = Restrict(main.activeScans, DOMAIN main.activeScans \ {scan})
    BY <1>2, <2>1 DEF MainShape
  <2>3. EndsScan(main, main', scan)
    BY <1>6, <2>2 DEF EndsScan, SameRequests, Restrict
  <2>7. HasData(main, main', worker, responses, responses', jobs, jobs')
    <3>1. IsScanFinish(responses[1], scan)
      BY <1>2, <1>3
    <3>2. jobs' = [jobs EXCEPT ![main.activeScans[scan].owner].data = main.activeScans[scan].messageData]
      BY <1>6
    <3> QED
      BY <1>2, <2>3, <3>1, <3>2, EndScanKeeps
  <2>4. /\ CoreOK(main', worker, responses', jobs')
        /\ DOMAIN jobs' = DOMAIN jobs
        /\ \A k \in DOMAIN jobs :
             /\ jobs'[k].kind = jobs[k].kind /\ jobs'[k].query = jobs[k].query /\ jobs'[k].at = jobs[k].at
             /\ jobs'[k].frame = jobs[k].frame /\ jobs'[k].table = jobs[k].table
        /\ \A k \in DOMAIN jobs : \A f :
             Holds(main', worker, responses', jobs', k, f) => Holds(main, worker, responses, jobs, k, f)
    BY <2>7 DEF HasData
  <2>5. \A f : Living(main, worker, f) => Living(main', worker, f)
    BY <2>3, SameDoomed DEF EndsScan
  <2>6. TablesOK(main', worker, responses', jobs', dispatched, computations, view)
    BY <1>2, <2>4, <2>5, DataTables
  <2> QED
    BY <1>1, <1>2, <2>4, <2>6 DEF InvNext, InvOK
<1> QED
  BY <1>4, <1>5, <1>6

LEMMA OnErrorKeeps ==
  ASSUME Inv(jobs, dispatched), OnError
  PROVE  InvNext(main', jobs', dispatched')
<1>1. /\ Delivers /\ response.type = "error" /\ main' = onError(main)
      /\ jobs' = jobs /\ dispatched' = dispatched
  BY DEF OnError
<1>2. MainShape(main)
  BY <1>1, DeliversOne
<1>3. main' = [main EXCEPT !.pendingRequests = <<>>]
  BY <1>1 DEF onError
<1>4. /\ MainShape(main') /\ main'.requests = main.requests /\ main'.nextMessageId = main.nextMessageId
      /\ main'.pendingRequests = <<>> /\ main'.nextScanId = main.nextScanId
      /\ main'.activeScans = main.activeScans
  BY <1>2, <1>3 DEF MainShape
<1>5. Fewer(main, main')
  BY <1>4, SeqEmpty DEF Fewer, SameRequests
<1>6. \A s : ~IsScanMessage(response, s) /\ ~IsScanFinish(response, s)
  BY <1>1 DEF IsScanMessage, IsScanFinish
<1> QED
  BY <1>1, <1>5, <1>6, DropMessage

-----------------------------------------------------------------------------
(***************************************************************************)
(* The answer of a task is taken.                                          *)
(***************************************************************************)
TakesTask(m) ==
  /\ Inv(jobs, dispatched) /\ Delivers /\ response.type \in {"OK", "ERROR", "DATAFRAME_ID"}
  /\ response.requestId \in DOMAIN main.pendingRequests
  /\ m = takePending(main, response.requestId)

LEMMA TakeTask ==
  ASSUME NEW m, TakesTask(m)
  PROVE  /\ MainShape(m) /\ m.requests = main.requests /\ m.nextMessageId = main.nextMessageId
         /\ m.nextScanId = main.nextScanId /\ m.activeScans = main.activeScans
         /\ DOMAIN m.pendingRequests = DOMAIN main.pendingRequests \ {response.requestId}
         /\ \A k \in DOMAIN m.pendingRequests : m.pendingRequests[k] = main.pendingRequests[k]
         /\ Fewer(main, m) /\ InvNext(m, jobs, dispatched)
<1>1. /\ Inv(jobs, dispatched) /\ Delivers /\ m = takePending(main, response.requestId)
      /\ response.type \in {"OK", "ERROR", "DATAFRAME_ID"}
  BY DEF TakesTask
<1>2. MainShape(main)
  BY <1>1, DeliversOne
<1>3. m = [main EXCEPT !.pendingRequests = Restrict(@, DOMAIN @ \ {response.requestId})]
  BY <1>1 DEF takePending
<1>4. /\ MainShape(m) /\ m.requests = main.requests /\ m.nextMessageId = main.nextMessageId
      /\ m.nextScanId = main.nextScanId /\ m.activeScans = main.activeScans
      /\ m.pendingRequests = Restrict(main.pendingRequests, DOMAIN main.pendingRequests \ {response.requestId})
  BY <1>2, <1>3 DEF MainShape
<1>5. /\ DOMAIN m.pendingRequests = DOMAIN main.pendingRequests \ {response.requestId}
      /\ \A k \in DOMAIN m.pendingRequests : m.pendingRequests[k] = main.pendingRequests[k]
  BY <1>4 DEF Restrict
<1>6. Fewer(main, m)
  BY <1>4, <1>5 DEF Fewer, SameRequests
<1>7. \A s : ~IsScanMessage(response, s) /\ ~IsScanFinish(response, s)
  BY <1>1 DEF IsScanMessage, IsScanFinish
<1>8. InvNext(m, jobs, dispatched)
  BY <1>1, <1>6, <1>7, DropMessage
<1> QED
  BY <1>4, <1>5, <1>6, <1>8

\* The job j awaits the answer.
LEMMA TakeJob ==
  ASSUME NEW m, TakesTask(m), NEW j, j = main.pendingRequests[response.requestId].owner,
         j \notin {Nobody, Provider}
  PROVE  /\ j \in DOMAIN jobs /\ j # Nobody /\ jobs[j].at \in Awaiting
         /\ main.pendingRequests[response.requestId].type = TaskOf(jobs[j].at)
         /\ Awaits(main, responses[1].requestId, j) /\ \A k : ~Awaits(m, k, j)
         /\ jobs[j].at \notin ReadingAt => Idle(m, j)
<1>1. /\ CoreOK(main, worker, responses, jobs) /\ response = responses[1]
      /\ response.requestId \in DOMAIN main.pendingRequests
  BY DeliversOne DEF TakesTask
<1>2. j \in DOMAIN jobs
  BY <1>1 DEF CoreOK, PendingOK
<1>3. Awaits(main, response.requestId, j)
  BY <1>1 DEF Awaits
<1>4. jobs[j].at \in Awaiting /\ main.pendingRequests[response.requestId].type = TaskOf(jobs[j].at)
  BY <1>1, <1>2, <1>3 DEF CoreOK, JobsOK
<1>5. \A k : Awaits(main, k, j) => k = response.requestId
  BY <1>1, <1>2, <1>3 DEF CoreOK, JobsOK
<1>6. \A k : ~Awaits(m, k, j)
  BY <1>5, TakeTask DEF Awaits
<1>7. m.activeScans = main.activeScans
  BY TakeTask
<1>8. jobs[j].at \notin ReadingAt => \A s \in DOMAIN main.activeScans : main.activeScans[s].owner # j
  BY <1>1 DEF CoreOK, ScanOwnersOK
<1> QED
  BY <1>1, <1>2, <1>3, <1>4, <1>6, <1>7, <1>8 DEF Idle

\* The job may go on, with the frame that it was given or what it read.
Ready(m, j) ==
  /\ InvNext(m, jobs, dispatched) /\ ~rendering
  /\ j \in DOMAIN jobs /\ j # Nobody /\ Idle(m, j) /\ jobs[j].at \in Awaiting
Granted(m, j, f) ==
  /\ Given(m, worker, jobs[j], f) /\ f \in FrameIds(worker)
  /\ \A k \in DOMAIN jobs : ~Holds(m, worker, responses', jobs, k, f)
  /\ \A q : ~Known(dispatched, computations, q, f)
Fulfilled(j) ==
  /\ jobs[j].at = "write" =>
       jobs[j].frame \in DOMAIN worker.frameBuilders /\ worker.frameBuilders[jobs[j].frame] = jobs[j].table
  /\ jobs[j].at = "finish" => jobs[j].frame \in DOMAIN worker.frames
  /\ jobs[j].at \in ReadingAt => jobs[j].data = <<worker.frames[jobs[j].out]>>

LEMMA TakeFrame ==
  ASSUME NEW m, TakesTask(m), NEW j, j = main.pendingRequests[response.requestId].owner,
         j \notin {Nobody, Provider}, response.type = "DATAFRAME_ID"
  PROVE  jobs[j].at \in {"ingest"} \cup Transforming => Ready(m, j) /\ Granted(m, j, response.data.frame)
<1> SUFFICES ASSUME jobs[j].at \in {"ingest"} \cup Transforming
             PROVE  Ready(m, j) /\ Granted(m, j, response.data.frame)
  OBVIOUS
<1> DEFINE f == response.data.frame
<1>1. /\ CoreOK(main, worker, responses, jobs) /\ response = responses[1] /\ 1 \in DOMAIN responses
      /\ Popped(responses, responses') /\ ~rendering
      /\ TablesOK(main, worker, responses, jobs, dispatched, computations, view)
  BY DeliversOne DEF TakesTask
<1>2. /\ j \in DOMAIN jobs /\ j # Nobody /\ jobs[j].at \in Awaiting
      /\ Awaits(main, responses[1].requestId, j) /\ \A k : ~Awaits(m, k, j)
      /\ jobs[j].at \notin ReadingAt => Idle(m, j)
  BY TakeJob
<1>3. Idle(m, j)
  BY <1>2 DEF Transforming, ReadingAt
<1>4. Ready(m, j)
  BY <1>1, <1>2, <1>3, TakeTask DEF Ready
<1>5. Given(main, worker, jobs[j], f)
  BY <1>1, <1>2 DEF CoreOK, AnswersOK
<1>6. SameRequests(main, m) /\ Fewer(main, m)
  BY TakeTask DEF Fewer
<1>7. Given(m, worker, jobs[j], f)
  BY <1>5, <1>6, SameDoomed
<1>8. f \in FrameIds(worker)
  BY <1>1, <1>5 DEF Given, Unborn, Living, CoreOK, ShapesOK
<1>9. Incoming(main, worker, responses, j, f) /\ Holds(main, worker, responses, jobs, j, f)
  BY <1>1, <1>2 DEF Incoming, Holds
<1>10. ~Owns(jobs[j], f)
  BY <1>1, <1>2, <1>9 DEF CoreOK, HoldsOK
<1> HIDE DEF f
<1>11. ASSUME NEW k \in DOMAIN jobs
       PROVE  ~Holds(m, worker, responses', jobs, k, f)
  <2>1. Holds(m, worker, responses', jobs, k, f) => Holds(main, worker, responses', jobs, k, f)
    BY <1>6, FewerAwaits
  <2>2. Holds(main, worker, responses', jobs, k, f) => Holds(main, worker, responses, jobs, k, f)
    BY <1>1, PopAnswers
  <2>3. Holds(m, worker, responses', jobs, k, f) => k = j
    BY <1>1, <1>2, <1>9, <2>1, <2>2 DEF CoreOK, HoldsOK
  <2>4. ~Holds(m, worker, responses', jobs, j, f)
    BY <1>2, <1>10 DEF Holds, Incoming
  <2> QED
    BY <2>3, <2>4
<1>12. ASSUME NEW q
       PROVE  ~Known(dispatched, computations, q, f)
  <2>1. HeldBy(main, worker, responses, jobs, dispatched, computations, j)
    BY <1>1, <1>2 DEF TablesOK, HeldOK
  <2>2. Known(dispatched, computations, q, f) => jobs[j].at \in Later /\ f = jobs[j].frame
    BY <1>9, <2>1 DEF HeldBy
  <2>3. jobs[j].at \in Later /\ f = jobs[j].frame => Owns(jobs[j], f)
    BY DEF Owns
  <2> QED
    BY <1>10, <2>2, <2>3
<1> QED
  BY <1>4, <1>7, <1>8, <1>11, <1>12 DEF Granted, f

LEMMA TakeOK ==
  ASSUME NEW m, TakesTask(m), NEW j, j = main.pendingRequests[response.requestId].owner,
         j \notin {Nobody, Provider}, response.type = "OK"
  PROVE  Ready(m, j) /\ Fulfilled(j)
<1>1. /\ CoreOK(main, worker, responses, jobs) /\ response = responses[1] /\ 1 \in DOMAIN responses
      /\ ~rendering
  BY DeliversOne DEF TakesTask
<1>2. /\ j \in DOMAIN jobs /\ j # Nobody /\ jobs[j].at \in Awaiting
      /\ Awaits(main, responses[1].requestId, j) /\ \A k : ~Awaits(m, k, j)
      /\ jobs[j].at \notin ReadingAt => Idle(m, j)
  BY TakeJob
<1>3. AnsweredOK(main, worker, responses, jobs, j, 1)
  BY <1>1, <1>2 DEF CoreOK, AnswersOK
<1>4. jobs[j].at \in ReadingAt =>
        /\ jobs[j].data = <<worker.frames[jobs[j].out]>>
        /\ \A s \in DOMAIN main.activeScans : main.activeScans[s].owner # j
  BY <1>3 DEF AnsweredOK, ScanRead
<1>5. Idle(m, j)
  <2>1. m.activeScans = main.activeScans
    BY <1>2, TakeTask
  <2> QED
    BY <1>2, <1>4, <2>1 DEF Idle
<1>6. Fulfilled(j)
  BY <1>3, <1>4 DEF AnsweredOK, Fulfilled
<1> QED
  BY <1>1, <1>2, <1>5, <1>6, TakeTask DEF Ready

-----------------------------------------------------------------------------
(***************************************************************************)
(* What is dispatched about an analysis that is not done.                  *)
(***************************************************************************)
LEMMA SeqNone ==
  ASSUME NEW s, IsSeq(s)
  PROVE  s \o <<>> = s
<1>1. PICK S : s \in Seq(S)
  BY DEF IsSeq
<1> QED
  BY <1>1

LEMMA SeqMore ==
  ASSUME NEW s, IsSeq(s), NEW x, NEW y
  PROVE  s \o Append(<<x>>, y) = Append(Append(s, x), y)
<1>1. PICK S : s \in Seq(S)
  BY DEF IsSeq
<1>2. s \in Seq(S \cup {x, y}) /\ <<x>> \in Seq(S \cup {x, y}) /\ y \in S \cup {x, y} /\ x \in S \cup {x, y}
  BY <1>1
<1> QED
  BY <1>2

\* Nobody looks at the table of q, or ingests it, yet.
Unseen(js, v, q) ==
  /\ q \in Queries /\ Analysed(js, q) /\ v.query # q /\ ~HasSort(js, q)
  /\ \A k \in DOMAIN js : js[k].at \in Early => js[k].query # q

LEMMA UnseenMove ==
  ASSUME NEW m, NEW w, NEW rs, NEW js, NEW d, NEW c, NEW r, NEW v, InvOK(m, w, rs, js, d, c, r, v),
         NEW j \in DOMAIN js, js[j].at \in Awaiting, js[j].kind = "analyze",
         NEW job, job.kind = js[j].kind, job.query = js[j].query, job.at \notin Early,
         NEW ks, DOMAIN ks = DOMAIN js, ks[j] = job, \A k \in DOMAIN js : k # j => ks[k] = js[k]
  PROVE  Unseen(ks, v, js[j].query)
<1> DEFINE q == js[j].query
<1>1. /\ \A k \in DOMAIN js : JobOK(js[k])
      /\ OpenOK(js, d, c, v)
  BY DEF InvOK, CoreOK, JobsOK, TablesOK
<1>2. q \in Queries /\ IsAnalysis(js[j], q)
  BY <1>1 DEF JobOK, IsAnalysis
<1>3. \A k \in DOMAIN js : IsAnalysis(js[k], q) => k = j
  BY <1>1, <1>2 DEF OpenOK
<1>4. js[j].at # "done"
  BY DEF Awaiting, Early, Transforming, ReadingAt
<1>5. ~SettledOK(js, d, c, q)
  BY <1>3, <1>4 DEF SettledOK
<1>6. v.query # q /\ ~HasSort(js, q)
  BY <1>1, <1>2, <1>5 DEF OpenOK
<1>7. ~HasSort(ks, q)
  BY <1>6 DEF HasSort
<1>8. Analysed(ks, q)
  BY <1>2 DEF Analysed, IsAnalysis
<1>9. \A k \in DOMAIN js : js[k].at \in Early /\ js[k].query = q => k = j
  <2>1. \A k \in DOMAIN js : js[k].at \in Early => js[k].kind = "analyze"
    BY <1>1 DEF JobOK, Early, Ended
  <2> QED
    BY <1>3, <2>1 DEF IsAnalysis
<1>10. \A k \in DOMAIN ks : ks[k].at \in Early => ks[k].query # q
  BY <1>9
<1> QED
  BY <1>2, <1>6, <1>7, <1>8, <1>10 DEF Unseen

LEMMA QuietDispatch ==
  ASSUME NEW m, NEW w, NEW rs, NEW js, NEW d, NEW c, NEW r, NEW v, InvOK(m, w, rs, js, d, c, r, v), ~r,
         NEW type, NEW q, NEW value, NEW a, a = Action(type, q, value), Unseen(js, v, q),
         \/ type = "TABLE_SUMMARY_TASK" \/ type = "TABLE_SUMMARY_TASK_SUCCEEDED"
         \/ type = "PRECOMPUTATION_TASK" \/ type = "COLUMN_SUMMARY_TASK"
         \/ type = "COLUMN_SUMMARY_TASK_SUCCEEDED",
         NEW e, e = Append(d, a)
  PROVE  InvOK(m, w, rs, js, e, c, r, v)
<1>1. a.type = type /\ a.query = q
  BY DEF Action
<1>2. ~SetsFrame(a) /\ a.type \notin OrderingTypes /\ a.type # "CREATED_DATA_FRAME"
  BY <1>1 DEF SetsFrame, OrderingTypes
<1>3. \A f : ~Brings(a, f)
  BY <1>2 DEF Brings
<1>4. ActionOK(m, w, a)
  BY <1>1, <1>2 DEF ActionOK, Unseen, OrderingTypes
<1>5. Dispatches(m, w, rs, js, d, c, v, a)
  BY <1>1, <1>2, <1>3, <1>4 DEF Dispatches, Unseen
<1> QED
  BY <1>5, DispatchKeeps
-----------------------------------------------------------------------------
(***************************************************************************)
(* A job goes on.                                                          *)
(***************************************************************************)
LEMMA ReadyJob ==
  ASSUME NEW m, NEW j, Ready(m, j)
  PROVE  /\ j \in DOMAIN jobs /\ Idle(m, j) /\ jobs[j].at \in Awaiting /\ ~rendering /\ j # Nobody
         /\ InvOK(m, worker, responses', jobs, dispatched, computations, rendering, view)
         /\ CoreOK(m, worker, responses', jobs) /\ IsSeq(jobs) /\ IsSeq(dispatched)
         /\ JobShape(jobs[j]) /\ JobOK(jobs[j]) /\ JobFrames(m, worker, jobs[j])
         /\ HeldBy(m, worker, responses', jobs, dispatched, computations, j)
         /\ NoFrame \notin FrameIds(worker)
         /\ \A f : Living(m, worker, f) => f \in FrameIds(worker)
<1>1. CoreOK(m, worker, responses', jobs)
  BY DEF Ready, InvNext, InvOK
<1>2. IsSeq(jobs) /\ JobOK(jobs[j]) /\ JobShape(jobs[j]) /\ JobFrames(m, worker, jobs[j])
  BY <1>1 DEF Ready, CoreOK, JobsOK, JobOK, JobFramesOK
<1>3. IsSeq(dispatched) /\ HeldBy(m, worker, responses', jobs, dispatched, computations, j)
  BY DEF Ready, InvNext, InvOK, TablesOK, RegistryOK, HeldOK
<1>4. NoFrame \notin FrameIds(worker)
  BY DEF NoFrame, FrameIds
<1>5. \A f : Living(m, worker, f) => f \in FrameIds(worker)
  BY <1>1 DEF Living, CoreOK, ShapesOK
<1> QED
  BY <1>1, <1>2, <1>3, <1>4, <1>5 DEF Ready, InvNext

\* What is known after the move
Moved(m, j, job, ks) ==
  /\ InvNext(m, ks, dispatched)
  /\ DOMAIN ks = DOMAIN jobs /\ ks[j] = job /\ \A k \in DOMAIN jobs : k # j => ks[k] = jobs[k]
  /\ \A q : HasSort(ks, q) <=> HasSort(jobs, q)
  /\ JobFrames(m, worker, job)

LEMMA ReadyMoves ==
  ASSUME NEW m, NEW j, Ready(m, j), NEW job,
         Moves(m, worker, responses', jobs, dispatched, computations, j, job),
         NEW ks, ks = [jobs EXCEPT ![j] = job]
  PROVE  Moved(m, j, job, ks)
<1>1. /\ j \in DOMAIN jobs /\ Idle(m, j) /\ jobs[j].at \in Awaiting
      /\ InvOK(m, worker, responses', jobs, dispatched, computations, rendering, view)
  BY ReadyJob
<1>2. /\ InvOK(m, worker, responses', ks, dispatched, computations, rendering, view)
      /\ DOMAIN ks = DOMAIN jobs /\ ks[j] = job /\ \A k \in DOMAIN jobs : k # j => ks[k] = jobs[k]
      /\ \A q : HasSort(ks, q) <=> HasSort(jobs, q)
  BY <1>1, MoveKeeps
<1> QED
  BY <1>2 DEF Moved, InvNext, Moves

\* The fields of a job that change together
Turned(old, job, at, frame, stats, out) ==
  /\ JobShape(job) /\ job.kind = old.kind /\ job.query = old.query /\ job.table = old.table
  /\ job.ordering = old.ordering /\ job.at = at /\ job.frame = frame /\ job.stats = stats /\ job.out = out

LEMMA JobIngests ==
  ASSUME NEW old, JobShape(old), NEW f, NEW job, job = [old EXCEPT !.at = "write", !.frame = f]
  PROVE  Turned(old, job, "write", f, old.stats, old.out)
<1>1. /\ JobShape(job) /\ job.kind = old.kind /\ job.query = old.query /\ job.table = old.table
      /\ job.ordering = old.ordering /\ job.at = "write" /\ job.frame = f /\ job.stats = old.stats
      /\ job.out = old.out
  BY DEF JobShape
<1> QED
  BY <1>1 DEF Turned

LEMMA JobReads ==
  ASSUME NEW old, JobShape(old), NEW at, NEW f, NEW job,
         job = [old EXCEPT !.at = at, !.out = f, !.data = <<>>]
  PROVE  Turned(old, job, at, old.frame, old.stats, f)
<1>1. /\ JobShape(job) /\ job.kind = old.kind /\ job.query = old.query /\ job.table = old.table
      /\ job.ordering = old.ordering /\ job.at = at /\ job.frame = old.frame /\ job.stats = old.stats
      /\ job.out = f
  BY DEF JobShape
<1> QED
  BY <1>1 DEF Turned

LEMMA JobPrecomputes ==
  ASSUME NEW old, JobShape(old), NEW job, job = [old EXCEPT !.at = "precompute", !.stats = old.out]
  PROVE  Turned(old, job, "precompute", old.frame, old.out, old.out)
<1>1. /\ JobShape(job) /\ job.kind = old.kind /\ job.query = old.query /\ job.table = old.table
      /\ job.ordering = old.ordering /\ job.at = "precompute" /\ job.frame = old.frame
      /\ job.stats = old.out /\ job.out = old.out
  BY DEF JobShape
<1> QED
  BY <1>1 DEF Turned

LEMMA JobReplaces ==
  ASSUME NEW old, JobShape(old), NEW job, job = [old EXCEPT !.frame = old.out]
  PROVE  Turned(old, job, old.at, old.out, old.stats, old.out)
<1>1. /\ JobShape(job) /\ job.kind = old.kind /\ job.query = old.query /\ job.table = old.table
      /\ job.ordering = old.ordering /\ job.at = old.at /\ job.frame = old.out
      /\ job.stats = old.stats /\ job.out = old.out
  BY DEF JobShape
<1> QED
  BY <1>1 DEF Turned

LEMMA JobEnds ==
  ASSUME NEW old, JobShape(old), NEW job, job = [old EXCEPT !.at = "done", !.data = <<>>]
  PROVE  Turned(old, job, "done", old.frame, old.stats, old.out)
<1>1. /\ JobShape(job) /\ job.kind = old.kind /\ job.query = old.query /\ job.table = old.table
      /\ job.ordering = old.ordering /\ job.at = "done" /\ job.frame = old.frame
      /\ job.stats = old.stats /\ job.out = old.out
  BY DEF JobShape
<1> QED
  BY <1>1 DEF Turned

LEMMA JobSummarizes ==
  ASSUME NEW old, JobShape(old), NEW next, NEW job,
         job = [old EXCEPT !.at = "column", !.column = next, !.data = <<>>]
  PROVE  Turned(old, job, "column", old.frame, old.stats, old.out)
<1>1. /\ JobShape(job) /\ job.kind = old.kind /\ job.query = old.query /\ job.table = old.table
      /\ job.ordering = old.ordering /\ job.at = "column" /\ job.frame = old.frame
      /\ job.stats = old.stats /\ job.out = old.out
  BY DEF JobShape
<1> QED
  BY <1>1 DEF Turned

LEMMA JobStops ==
  ASSUME NEW old, JobShape(old), NEW failure,
         NEW job, job = [old EXCEPT !.at = "stuck", !.failure = failure]
  PROVE  Turned(old, job, "stuck", old.frame, old.stats, old.out)
<1>1. /\ JobShape(job) /\ job.kind = old.kind /\ job.query = old.query /\ job.table = old.table
      /\ job.ordering = old.ordering /\ job.at = "stuck" /\ job.frame = old.frame
      /\ job.stats = old.stats /\ job.out = old.out
  BY DEF JobShape
<1> QED
  BY <1>1 DEF Turned

LEMMA JobFails ==
  ASSUME NEW old, JobShape(old), NEW failure,
         NEW job, job = [old EXCEPT !.at = "failed", !.failure = failure]
  PROVE  Turned(old, job, "failed", old.frame, old.stats, old.out)
<1>1. /\ JobShape(job) /\ job.kind = old.kind /\ job.query = old.query /\ job.table = old.table
      /\ job.ordering = old.ordering /\ job.at = "failed" /\ job.frame = old.frame
      /\ job.stats = old.stats /\ job.out = old.out
  BY DEF JobShape
<1> QED
  BY <1>1 DEF Turned

LEMMA IngestsKeeps ==
  ASSUME NEW m, NEW j, Ready(m, j), NEW result, Granted(m, j, result.frame), Ingests(j, m, result)
  PROVE  InvNext(main', jobs', dispatched')
<1> DEFINE f == result.frame
           job == [jobs[j] EXCEPT !.at = "write", !.frame = f]
<1>1. /\ jobs[j].at = "ingest" /\ jobs' = [jobs EXCEPT ![j] = job]
      /\ main' = writeTable(m, j, f, jobs[j].table) /\ dispatched' = dispatched \o <<>>
  BY DEF Ingests, Turn
<1>2. /\ JobShape(jobs[j]) /\ JobOK(jobs[j]) /\ JobFrames(m, worker, jobs[j]) /\ IsSeq(dispatched)
      /\ Idle(m, j) /\ j \in DOMAIN jobs
  BY ReadyJob
<1>3. /\ JobShape(job) /\ job.kind = jobs[j].kind /\ job.query = jobs[j].query
      /\ job.table = jobs[j].table /\ job.at = "write" /\ job.frame = f /\ job.stats = jobs[j].stats
  <2>1. Turned(jobs[j], job, "write", f, jobs[j].stats, jobs[j].out)
    BY <1>2, JobIngests
  <2> HIDE DEF job, f
  <2> QED
    BY <2>1 DEF Turned
<1> HIDE DEF job
<1>4. JobOK(job)
  BY <1>1, <1>2, <1>3 DEF JobOK, Early, Ended
<1>5. JobFrames(m, worker, job)
  <2>1. Unborn(m, worker, f) /\ ~Finishes(m, f) /\ ~Transformed(worker, f) /\ WritesOnly(m, f, job.table)
    BY <1>1 DEF Granted, Given, Written, WritesOnly
  <2>2. job.stats = NoFrame
    BY <1>1, <1>2, <1>3 DEF JobFrames, Early
  <2> QED
    BY <1>3, <2>1, <2>2 DEF JobFrames, Early, Later, ReadingAt
<1>6. \A g : Owns(job, g) => g = f
  BY <1>3 DEF Owns, Later, ReadingAt
<1>7. Moves(m, worker, responses', jobs, dispatched, computations, j, job)
  BY <1>1, <1>3, <1>4, <1>5, <1>6 DEF Moves, Granted, Early
<1>8. Moved(m, j, job, jobs')
  BY <1>1, <1>7, ReadyMoves
<1> HIDE DEF f
<1>9. InvNext(main', jobs', dispatched)
  <2>1. /\ InvOK(m, worker, responses', jobs', dispatched, computations, rendering, view)
        /\ jobs'[j] = job /\ j \in DOMAIN jobs'
    BY <1>2, <1>8 DEF Moved, InvNext
  <2>2. main' = writeTable(m, j, jobs'[j].frame, jobs'[j].table) /\ jobs'[j].at = "write"
    BY <1>1, <1>3, <2>1
  <2>3. InvOK(main', worker, responses', jobs', dispatched, computations, rendering, view)
    BY <1>2, <2>1, <2>2, WritePosted
  <2> QED
    BY <2>3 DEF InvNext
<1>10. dispatched' = dispatched
  BY <1>1, <1>2, SeqNone
<1> QED
  BY <1>9, <1>10

LEMMA WritesKeeps ==
  ASSUME NEW m, NEW j, Ready(m, j), NEW result, Fulfilled(j), Writes(j, m, result)
  PROVE  InvNext(main', jobs', dispatched')
<1> DEFINE f == jobs[j].frame
           job == [jobs[j] EXCEPT !.at = "finish"]
<1>1. /\ jobs[j].at = "write" /\ jobs' = [jobs EXCEPT ![j] = job]
      /\ main' = finishIngest(m, j, f) /\ dispatched' = dispatched \o <<>>
  BY DEF Writes, Turn
<1>2. /\ JobShape(jobs[j]) /\ JobOK(jobs[j]) /\ JobFrames(m, worker, jobs[j]) /\ IsSeq(dispatched)
      /\ Idle(m, j) /\ j \in DOMAIN jobs
      /\ HeldBy(m, worker, responses', jobs, dispatched, computations, j)
  BY ReadyJob
<1>3. /\ JobShape(job) /\ job.kind = jobs[j].kind /\ job.query = jobs[j].query
      /\ job.table = jobs[j].table /\ job.at = "finish" /\ job.frame = f /\ job.stats = jobs[j].stats
  BY <1>2 DEF JobShape
<1> HIDE DEF job
<1>4. JobOK(job)
  BY <1>1, <1>2, <1>3 DEF JobOK, Early, Ended
<1>5. /\ Unborn(m, worker, f) /\ ~Finishes(m, f) /\ ~Transformed(worker, f) /\ WritesOnly(m, f, jobs[j].table)
      /\ jobs[j].stats = NoFrame
  BY <1>1, <1>2 DEF JobFrames, Early
<1>6. JobFrames(m, worker, job)
  BY <1>1, <1>3, <1>5 DEF JobFrames, Early, Later, ReadingAt, Fulfilled, Unborn
<1>7. \A g : Owns(job, g) => g = f
  BY <1>3 DEF Owns, Later, ReadingAt
<1>8. Owns(jobs[j], f)
  BY <1>1 DEF Owns
<1>9. \A q : ~Known(dispatched, computations, q, f)
  BY <1>1, <1>2, <1>8 DEF HeldBy, Holds, Later
<1>10. Moves(m, worker, responses', jobs, dispatched, computations, j, job)
  BY <1>1, <1>3, <1>4, <1>6, <1>7, <1>8, <1>9 DEF Moves, Early
<1>11. Moved(m, j, job, jobs')
  BY <1>1, <1>10, ReadyMoves
<1> HIDE DEF f
<1>12. InvNext(main', jobs', dispatched)
  <2>1. /\ InvOK(m, worker, responses', jobs', dispatched, computations, rendering, view)
        /\ jobs'[j] = job /\ j \in DOMAIN jobs'
    BY <1>2, <1>11 DEF Moved, InvNext
  <2>2. main' = finishIngest(m, j, jobs'[j].frame) /\ jobs'[j].at = "finish" /\ jobs'[j].frame = f
    BY <1>1, <1>3, <2>1
  <2>3. InvOK(main', worker, responses', jobs', dispatched, computations, rendering, view)
    BY <1>2, <1>5, <2>1, <2>2, FinishPosted
  <2> QED
    BY <2>3 DEF InvNext
<1>13. dispatched' = dispatched
  BY <1>1, <1>2, SeqNone
<1> QED
  BY <1>12, <1>13

LEMMA SummarizesTable ==
  ASSUME NEW m, NEW j, Ready(m, j), NEW result, Fulfilled(j), computeTableSummary(j, m, result)
  PROVE  InvNext(main', jobs', dispatched')
<1> DEFINE f == jobs[j].frame
           q == jobs[j].query
           job == [jobs[j] EXCEPT !.at = "summarize"]
           transform == Summary[jobs[j].table].transform
           a == Action("CREATED_DATA_FRAME", q, f)
           b == Action("TABLE_SUMMARY_TASK", q, "running")
           e == Append(dispatched, a)
<1>1. /\ jobs[j].at = "finish" /\ jobs' = [jobs EXCEPT ![j] = job]
      /\ main' = transformFrame(m, j, f, transform, NoFrame) /\ dispatched' = dispatched \o <<a, b>>
  BY DEF computeTableSummary, Turn
<1>2. /\ JobShape(jobs[j]) /\ JobOK(jobs[j]) /\ JobFrames(m, worker, jobs[j]) /\ IsSeq(dispatched)
      /\ Idle(m, j) /\ j \in DOMAIN jobs /\ jobs[j].at \in Awaiting /\ ~rendering
      /\ HeldBy(m, worker, responses', jobs, dispatched, computations, j)
      /\ NoFrame \notin FrameIds(worker) /\ \A g : Living(m, worker, g) => g \in FrameIds(worker)
      /\ InvOK(m, worker, responses', jobs, dispatched, computations, rendering, view)
  BY ReadyJob
<1>3. /\ JobShape(job) /\ job.kind = jobs[j].kind /\ job.query = q
      /\ job.table = jobs[j].table /\ job.at = "summarize" /\ job.frame = f /\ job.stats = jobs[j].stats
  BY <1>2 DEF JobShape
<1> HIDE DEF job
<1>4. JobOK(job) /\ jobs[j].kind = "analyze"
  BY <1>1, <1>2, <1>3 DEF JobOK, Early, Later, Ended
<1>5. Living(m, worker, f) /\ jobs[j].stats = NoFrame /\ worker.frames[f] = Ingested(jobs[j].table)
  BY <1>1, <1>2 DEF JobFrames, Early, Fulfilled, Living
<1>6. JobFrames(m, worker, job)
  BY <1>2, <1>3, <1>5 DEF JobFrames, Early, Later, ReadingAt
<1>7. \A g : Owns(job, g) => g = f
  BY <1>3, <1>5 DEF Owns, Later, ReadingAt
<1>8. Owns(jobs[j], f)
  BY <1>1 DEF Owns
<1>9. \A p : ~Known(dispatched, computations, p, f)
  BY <1>1, <1>2, <1>8 DEF HeldBy, Holds, Later
<1>10. Moves(m, worker, responses', jobs, dispatched, computations, j, job)
  BY <1>1, <1>3, <1>4, <1>6, <1>7, <1>8, <1>9 DEF Moves, Early
<1>11. Moved(m, j, job, jobs')
  BY <1>1, <1>10, ReadyMoves
<1>12. Unseen(jobs', view, q)
  <2>1. job.at \notin Early
    BY <1>3 DEF Early
  <2> QED
    BY <1>2, <1>3, <1>4, <1>11, <2>1, UnseenMove DEF Moved
<1>13. Pristine(dispatched, computations, q, jobs[j].table, Len(dispatched))
  BY <1>1, <1>2 DEF InvOK, TablesOK, CreatedOK, Early
<1> HIDE DEF f, transform
<1>14. InvOK(main', worker, responses', jobs', dispatched, computations, rendering, view)
  <2>1. /\ InvOK(m, worker, responses', jobs', dispatched, computations, rendering, view)
        /\ jobs'[j] = job /\ j \in DOMAIN jobs'
    BY <1>2, <1>11 DEF Moved, InvNext
  <2>2. jobs'[j].at \in Transforming /\ jobs'[j].at # "sort"
    BY <1>3, <2>1 DEF Transforming
  <2> QED
    BY <1>1, <1>2, <1>5, <2>1, <2>2, TransformPosted
<1>15. jobs'[j].at = "summarize" /\ jobs'[j].frame = f /\ jobs'[j].query = q /\ j \in DOMAIN jobs'
  BY <1>2, <1>3, <1>11 DEF Moved
<1>16. Living(main', worker, f) /\ Owns(jobs'[j], f)
  BY <1>14, <1>15 DEF InvOK, CoreOK, JobFramesOK, JobFrames, Owns, Later
<1>17. \A k \in DOMAIN jobs' : Holds(main', worker, responses', jobs', k, f) => k = j
  BY <1>14, <1>15, <1>16 DEF InvOK, CoreOK, HoldsOK, Holds
<1>18. a.type = "CREATED_DATA_FRAME" /\ a.query = q /\ a.value = f
  BY DEF Action
<1> HIDE DEF q, a
<1>19. SetsFrame(a) /\ FrameOf(a) = f /\ a.type \notin OrderingTypes
  BY <1>18 DEF SetsFrame, FrameOf, OrderingTypes
<1>20. ActionOK(main', worker, a)
  BY <1>12, <1>16, <1>18, <1>19 DEF ActionOK, Unseen
<1>21. \A g : Brings(a, g) => g = f
  BY <1>19 DEF Brings
<1>22. Dispatches(main', worker, responses', jobs', dispatched, computations, view, a)
  <2>1. \A k \in DOMAIN jobs' : \A g : Brings(a, g) /\ Holds(main', worker, responses', jobs', k, g) =>
          jobs'[k].at \in Later /\ jobs'[k].query = a.query /\ g = jobs'[k].frame
    BY <1>15, <1>17, <1>18, <1>21 DEF Later
  <2> QED
    BY <1>5, <1>9, <1>12, <1>13, <1>18, <1>19, <1>20, <1>21, <2>1 DEF Dispatches, Unseen
<1>23. InvOK(main', worker, responses', jobs', e, computations, rendering, view)
  BY <1>2, <1>14, <1>22, DispatchKeeps
<1> HIDE DEF e
<1>24. InvOK(main', worker, responses', jobs', Append(e, b), computations, rendering, view)
  BY <1>2, <1>12, <1>23, QuietDispatch
<1>25. dispatched' = Append(e, b)
  BY <1>1, <1>2, SeqTwo DEF e
<1> QED
  BY <1>24, <1>25 DEF InvNext
LEMMA ReadsKeeps ==
  ASSUME NEW m, NEW j, Ready(m, j), NEW result, Granted(m, j, result.frame), ReadsResult(j, m, result)
  PROVE  InvNext(main', jobs', dispatched')
<1> DEFINE f == result.frame
           at == ReadOf[jobs[j].at]
           job == [jobs[j] EXCEPT !.at = at, !.out = f, !.data = <<>>]
<1>1. /\ jobs[j].at \in Transforming /\ jobs' = [jobs EXCEPT ![j] = job]
      /\ main' = readTable(m, j, f) /\ dispatched' = dispatched \o <<>>
  BY DEF ReadsResult, Turn, Transforming
<1>2. /\ JobShape(jobs[j]) /\ JobOK(jobs[j]) /\ JobFrames(m, worker, jobs[j]) /\ IsSeq(dispatched)
      /\ Idle(m, j) /\ j \in DOMAIN jobs
      /\ HeldBy(m, worker, responses', jobs, dispatched, computations, j)
      /\ NoFrame \notin FrameIds(worker)
  BY ReadyJob
<1>3. Turned(jobs[j], job, at, jobs[j].frame, jobs[j].stats, f)
  BY <1>2, JobReads
<1>4. \/ jobs[j].at = "summarize" /\ at = "read_summary"
      \/ jobs[j].at = "precompute" /\ at = "read_metadata"
      \/ jobs[j].at = "column" /\ at = "read_column"
      \/ jobs[j].at = "sort" /\ at = "read_sorted"
  BY <1>1 DEF Transforming, ReadOf
<1> HIDE DEF job, at
<1>5. /\ JobShape(job) /\ job.kind = jobs[j].kind /\ job.query = jobs[j].query /\ job.table = jobs[j].table
      /\ job.ordering = jobs[j].ordering /\ job.at = at /\ job.frame = jobs[j].frame
      /\ job.stats = jobs[j].stats /\ job.out = f
  BY <1>3 DEF Turned
<1>6. JobOK(job)
  BY <1>2, <1>4, <1>5 DEF JobOK, Early, Later, Ended
<1>7. /\ Living(m, worker, f) /\ f \in FrameIds(worker)
      /\ \A k \in DOMAIN jobs : ~Holds(m, worker, responses', jobs, k, f)
      /\ \A q : ~Known(dispatched, computations, q, f)
      /\ jobs[j].at = "sort" => Ordered(worker.frames[f], jobs[j])
  BY <1>1 DEF Granted, Given
<1>8. jobs[j].at # "sort" => f # jobs[j].frame /\ f # jobs[j].stats
  <2>1. \A g : Owns(jobs[j], g) => g # f
    BY <1>2, <1>7 DEF Holds
  <2> QED
    BY <1>1, <1>2, <1>7, <2>1 DEF Owns, Later, Transforming
<1>9. JobFrames(m, worker, job)
  <2>1. CASE jobs[j].at = "sort"
    BY <1>4, <1>5, <1>7, <2>1 DEF JobFrames, Early, Later, ReadingAt, Ordered
  <2>2. CASE jobs[j].at # "sort"
    <3>1. jobs[j].at \in Later /\ at \in Later /\ at # "read_sorted" /\ at \notin Early
      BY <1>4, <2>2 DEF Later, Early
    <3>2. /\ Living(m, worker, jobs[j].frame) /\ jobs[j].stats # jobs[j].frame
          /\ jobs[j].stats # NoFrame => Living(m, worker, jobs[j].stats)
      BY <1>2, <3>1 DEF JobFrames
    <3>3. at # "write" /\ at # "finish"
      BY <3>1 DEF Early
    <3> QED
      BY <1>5, <1>7, <1>8, <2>2, <3>1, <3>2, <3>3 DEF JobFrames
  <2> QED
    BY <2>1, <2>2
<1>10. \A g : Owns(job, g) => Owns(jobs[j], g) \/ g = f
  BY <1>4, <1>5 DEF Owns, Later, ReadingAt
<1>11. \A q, g : Owns(job, g) /\ Known(dispatched, computations, q, g) =>
         job.at \in Later /\ job.query = q /\ g = job.frame
  <2>1. \A q, g : Owns(job, g) /\ Known(dispatched, computations, q, g) =>
          jobs[j].at \in Later /\ jobs[j].query = q /\ g = jobs[j].frame
    BY <1>2, <1>7, <1>10 DEF HeldBy, Holds
  <2>2. jobs[j].at \in Later => job.at \in Later
    BY <1>4, <1>5 DEF Later
  <2> QED
    BY <1>5, <2>1, <2>2
<1>12. job.at \notin Early /\ job.at \in ReadingAt
  BY <1>4, <1>5 DEF Early, ReadingAt
<1> HIDE DEF f
<1>13. Moves(m, worker, responses', jobs, dispatched, computations, j, job)
  BY <1>5, <1>6, <1>7, <1>9, <1>10, <1>11, <1>12 DEF Moves
<1>14. Moved(m, j, job, jobs')
  BY <1>1, <1>13, ReadyMoves
<1>15. InvNext(main', jobs', dispatched)
  <2>1. /\ InvOK(m, worker, responses', jobs', dispatched, computations, rendering, view)
        /\ jobs'[j] = job /\ j \in DOMAIN jobs'
    BY <1>2, <1>14 DEF Moved, InvNext
  <2>2. main' = readTable(m, j, jobs'[j].out) /\ jobs'[j].at \in ReadingAt
    BY <1>1, <1>5, <1>12, <2>1
  <2>3. InvOK(main', worker, responses', jobs', dispatched, computations, rendering, view)
    BY <1>2, <2>1, <2>2, ScanPosted
  <2> QED
    BY <2>3 DEF InvNext
<1>16. dispatched' = dispatched
  BY <1>1, <1>2, SeqNone
<1> QED
  BY <1>15, <1>16

LEMMA PrecomputesKeeps ==
  ASSUME NEW m, NEW j, Ready(m, j), NEW result, precomputeMetadataColumns(j, m, result)
  PROVE  InvNext(main', jobs', dispatched')
<1> DEFINE f == jobs[j].out
           q == jobs[j].query
           job == [jobs[j] EXCEPT !.at = "precompute", !.stats = jobs[j].out]
           transform == Metadata[jobs[j].table].transform
           value == [frame |-> jobs[j].out, fields |-> tableFromIPC(jobs[j].data).fields]
           a == Action("TABLE_SUMMARY_TASK_SUCCEEDED", q, value)
           b == Action("PRECOMPUTATION_TASK", q, "running")
           e == Append(dispatched, a)
<1>1. /\ jobs[j].at = "read_summary" /\ jobs' = [jobs EXCEPT ![j] = job]
      /\ main' = transformFrame(m, j, jobs[j].frame, transform, f) /\ dispatched' = dispatched \o <<a, b>>
  BY DEF precomputeMetadataColumns, Turn
<1>2. /\ JobShape(jobs[j]) /\ JobOK(jobs[j]) /\ JobFrames(m, worker, jobs[j]) /\ IsSeq(dispatched)
      /\ Idle(m, j) /\ j \in DOMAIN jobs /\ jobs[j].at \in Awaiting /\ ~rendering
      /\ HeldBy(m, worker, responses', jobs, dispatched, computations, j)
      /\ InvOK(m, worker, responses', jobs, dispatched, computations, rendering, view)
  BY ReadyJob
<1>3. Turned(jobs[j], job, "precompute", jobs[j].frame, f, f)
  BY <1>2, JobPrecomputes
<1> HIDE DEF job
<1>4. /\ JobShape(job) /\ job.kind = jobs[j].kind /\ job.query = q /\ job.table = jobs[j].table
      /\ job.at = "precompute" /\ job.frame = jobs[j].frame /\ job.stats = f /\ job.out = f
  BY <1>3 DEF Turned
<1>5. JobOK(job) /\ jobs[j].kind = "analyze"
  BY <1>1, <1>2, <1>4 DEF JobOK, Early, Later, Ended
<1>6. Living(m, worker, jobs[j].frame) /\ Living(m, worker, f) /\ f # jobs[j].frame
  BY <1>1, <1>2 DEF JobFrames, Later, ReadingAt
<1>7. JobFrames(m, worker, job)
  BY <1>4, <1>6 DEF JobFrames, Early, Later, ReadingAt
<1>8. \A g : Owns(job, g) => Owns(jobs[j], g)
  BY <1>1, <1>4 DEF Owns, Later, ReadingAt
<1>9. \A p, g : Owns(job, g) /\ Known(dispatched, computations, p, g) =>
        job.at \in Later /\ job.query = p /\ g = job.frame
  BY <1>2, <1>4, <1>8 DEF HeldBy, Holds, Later
<1>10. Moves(m, worker, responses', jobs, dispatched, computations, j, job)
  BY <1>4, <1>5, <1>7, <1>8, <1>9 DEF Moves, Early
<1>11. Moved(m, j, job, jobs')
  BY <1>1, <1>10, ReadyMoves
<1>12. Unseen(jobs', view, q)
  <2>1. job.at \notin Early
    BY <1>4 DEF Early
  <2> QED
    BY <1>2, <1>4, <1>5, <1>11, <2>1, UnseenMove DEF Moved
<1> HIDE DEF f, transform, value
<1>13. InvOK(main', worker, responses', jobs', dispatched, computations, rendering, view)
  <2>1. /\ InvOK(m, worker, responses', jobs', dispatched, computations, rendering, view)
        /\ jobs'[j] = job /\ j \in DOMAIN jobs'
    BY <1>2, <1>11 DEF Moved, InvNext
  <2>2. jobs'[j].at \in Transforming /\ jobs'[j].at # "sort"
    BY <1>4, <2>1 DEF Transforming
  <2> QED
    BY <1>1, <1>2, <1>6, <2>1, <2>2, TransformPosted
<1>14. a = Action("TABLE_SUMMARY_TASK_SUCCEEDED", q, value) /\ b = Action("PRECOMPUTATION_TASK", q, "running")
  OBVIOUS
<1> HIDE DEF q, a, b
<1>15. InvOK(main', worker, responses', jobs', e, computations, rendering, view)
  BY <1>2, <1>12, <1>13, <1>14, QuietDispatch
<1> HIDE DEF e
<1>16. InvOK(main', worker, responses', jobs', Append(e, b), computations, rendering, view)
  BY <1>2, <1>12, <1>14, <1>15, QuietDispatch
<1>17. dispatched' = Append(e, b)
  BY <1>1, <1>2, SeqTwo DEF e
<1> QED
  BY <1>16, <1>17 DEF InvNext

\* The summary of a column begins, or the analysis is done.
ColumnTurned(j, base, m, actions) ==
  \E job :
    /\ jobs' = [jobs EXCEPT ![j] = job]
    /\ \/ /\ Turned(base, job, "done", base.frame, base.stats, base.out)
          /\ main' = m /\ dispatched' = dispatched \o actions
       \/ /\ Turned(base, job, "column", base.frame, base.stats, base.out)
          /\ \E transform : main' = transformFrame(m, j, base.frame, transform, base.stats)
          /\ \E value : dispatched' =
               dispatched \o Append(actions, Action("COLUMN_SUMMARY_TASK", base.query, value))

LEMMA ColumnTurn ==
  ASSUME NEW j, NEW base, JobShape(base), NEW m, NEW actions, computeColumnSummary(j, base, m, actions)
  PROVE  ColumnTurned(j, base, m, actions)
<1> DEFINE next == NextColumn(base.table, base.column)
           done == [base EXCEPT !.at = "done", !.data = <<>>]
           job == [base EXCEPT !.at = "column", !.column = next, !.data = <<>>]
<1>1. CASE next = 0
  <2>1. jobs' = [jobs EXCEPT ![j] = done] /\ main' = m /\ dispatched' = dispatched \o actions
    BY <1>1 DEF computeColumnSummary, Turn
  <2>2. Turned(base, done, "done", base.frame, base.stats, base.out)
    BY JobEnds
  <2> HIDE DEF done
  <2> QED
    BY <2>1, <2>2 DEF ColumnTurned
<1>2. CASE next # 0
  <2>1. /\ jobs' = [jobs EXCEPT ![j] = job]
        /\ main' = transformFrame(m, j, base.frame, ColumnTransform[base.table][next], base.stats)
        /\ dispatched' = dispatched \o Append(actions, ColumnStatus(base, next, "running"))
    BY <1>2 DEF computeColumnSummary, Turn
  <2>2. Turned(base, job, "column", base.frame, base.stats, base.out)
    BY JobSummarizes
  <2>3. dispatched' = dispatched \o Append(actions,
          Action("COLUMN_SUMMARY_TASK", base.query, [column |-> next - 1, status |-> "running"]))
    BY <2>1 DEF ColumnStatus
  <2> HIDE DEF job, next
  <2> QED
    BY <2>1, <2>2, <2>3 DEF ColumnTurned
<1> QED
  BY <1>1, <1>2
LEMMA MetadataKnown ==
  ASSUME NEW m, NEW j, Ready(m, j), Fulfilled(j), jobs[j].at = "read_metadata",
         NEW job, Turned(jobs[j], job, job.at, jobs[j].out, jobs[j].stats, jobs[j].out),
         job.at = "done" \/ job.at = "column", jobs' = [jobs EXCEPT ![j] = job]
  PROVE  /\ Moved(m, j, job, jobs') /\ Unseen(jobs', view, jobs[j].query)
         /\ Living(m, worker, jobs[j].out) /\ \A q : ~Known(dispatched, computations, q, jobs[j].out)
         /\ \A k \in DOMAIN jobs : Holds(m, worker, responses', jobs', k, jobs[j].out) =>
              k = j /\ job.at = "column"
         /\ jobs[j].data = <<worker.frames[jobs[j].out]>>
<1> DEFINE f == jobs[j].out
<1>1. /\ JobShape(jobs[j]) /\ JobOK(jobs[j]) /\ JobFrames(m, worker, jobs[j])
      /\ Idle(m, j) /\ j \in DOMAIN jobs /\ jobs[j].at \in Awaiting
      /\ HeldBy(m, worker, responses', jobs, dispatched, computations, j)
      /\ InvOK(m, worker, responses', jobs, dispatched, computations, rendering, view)
      /\ CoreOK(m, worker, responses', jobs)
  BY ReadyJob
<1>2. /\ JobShape(job) /\ job.kind = jobs[j].kind /\ job.query = jobs[j].query /\ job.table = jobs[j].table
      /\ job.frame = f /\ job.stats = jobs[j].stats /\ job.out = f
  BY DEF Turned
<1>3. JobOK(job) /\ jobs[j].kind = "analyze"
  BY <1>1, <1>2 DEF JobOK, Early, Later, Ended
<1>4. /\ Living(m, worker, f) /\ f # jobs[j].frame /\ f # jobs[j].stats
      /\ jobs[j].stats # jobs[j].frame
      /\ jobs[j].stats # NoFrame => Living(m, worker, jobs[j].stats)
  BY <1>1 DEF JobFrames, Later, ReadingAt
<1>5. JobFrames(m, worker, job)
  BY <1>2, <1>4 DEF JobFrames, Early, Later, ReadingAt
<1>6. \A g : Owns(job, g) => Owns(jobs[j], g)
  BY <1>2 DEF Owns, Later, ReadingAt
<1>7. \A q, g : Owns(jobs[j], g) /\ Known(dispatched, computations, q, g) => g = jobs[j].frame
  BY <1>1 DEF HeldBy, Holds
<1>8. Owns(jobs[j], f) /\ \A q : ~Known(dispatched, computations, q, f)
  BY <1>4, <1>7 DEF Owns, ReadingAt
<1>9. \A g : Owns(job, g) => g = f \/ g = jobs[j].stats
  BY <1>2 DEF Owns, Later, ReadingAt
<1>10. \A q, g : Owns(job, g) => ~Known(dispatched, computations, q, g)
  BY <1>4, <1>6, <1>7, <1>8, <1>9
<1>11. Moves(m, worker, responses', jobs, dispatched, computations, j, job)
  BY <1>2, <1>3, <1>5, <1>6, <1>10 DEF Moves, Early
<1>12. Moved(m, j, job, jobs')
  BY <1>11, ReadyMoves
<1>13. Unseen(jobs', view, jobs[j].query)
  <2>1. job.at \notin Early
    BY DEF Early
  <2> QED
    BY <1>1, <1>2, <1>3, <1>12, <2>1, UnseenMove DEF Moved
<1>14. ASSUME NEW k \in DOMAIN jobs, Holds(m, worker, responses', jobs', k, f)
       PROVE  k = j /\ job.at = "column"
  <2>1. k = j
    <3>1. CASE k # j
      <4>1. Holds(m, worker, responses', jobs, k, f)
        BY <1>12, <1>14, <3>1 DEF Moved, Holds
      <4>2. Holds(m, worker, responses', jobs, j, f)
        BY <1>8 DEF Holds
      <4> QED
        BY <1>1, <3>1, <4>1, <4>2 DEF CoreOK, HoldsOK
    <3> QED
      BY <3>1
  <2>2. ~Incoming(m, worker, responses', j, f)
    BY <1>1 DEF Incoming, Idle
  <2>3. Owns(job, f)
    BY <1>12, <1>14, <2>1, <2>2 DEF Moved, Holds
  <2>4. job.at # "done"
    BY <2>3 DEF Owns, Later, ReadingAt
  <2> QED
    BY <2>1, <2>4
<1>15. jobs[j].data = <<worker.frames[f]>>
  BY DEF Fulfilled, ReadingAt
<1> QED
  BY <1>4, <1>8, <1>12, <1>13, <1>14, <1>15

\* The table of the precomputation is dispatched.
LEMMA MetadataDispatch ==
  ASSUME NEW n, NEW js, NEW c, NEW d, NEW v,
         InvOK(n, worker, responses', js, d, c, rendering, v), ~rendering,
         NEW q, Unseen(js, v, q), NEW f, Living(n, worker, f), \A p : ~Known(d, c, p, f),
         \A k \in DOMAIN js : Holds(n, worker, responses', js, k, f) =>
           js[k].at \in Later /\ js[k].query = q /\ f = js[k].frame,
         NEW value, value.frame = f, value.table = worker.frames[f],
         NEW e, e = Append(d, Action("PRECOMPUTATION_TASK_SUCCEEDED", q, value))
  PROVE  InvOK(n, worker, responses', js, e, c, rendering, v)
<1> DEFINE a == Action("PRECOMPUTATION_TASK_SUCCEEDED", q, value)
<1>1. /\ a.type = "PRECOMPUTATION_TASK_SUCCEEDED" /\ a.query = q /\ a.value = value
      /\ e = Append(d, a)
  BY DEF Action
<1> HIDE DEF a
<1>2. /\ SetsFrame(a) /\ FrameOf(a) = f /\ a.type \notin OrderingTypes /\ a.type # "CREATED_DATA_FRAME"
      /\ a.type # "TABLE_ORDERING_TASK_SUCCEEDED"
  BY <1>1 DEF SetsFrame, FrameOf, OrderingTypes
<1>3. ActionOK(n, worker, a)
  BY <1>1, <1>2 DEF ActionOK, Unseen
<1>4. \A g : Brings(a, g) => g = f
  BY <1>2 DEF Brings
<1>5. Dispatches(n, worker, responses', js, d, c, v, a)
  BY <1>1, <1>2, <1>3, <1>4 DEF Dispatches, Unseen
<1> QED
  BY <1>1, <1>5, DispatchKeeps

LEMMA SummarizesKeeps ==
  ASSUME NEW m, NEW j, Ready(m, j), NEW result, Fulfilled(j), SummarizesColumns(j, m, result)
  PROVE  InvNext(main', jobs', dispatched')
<1> DEFINE f == jobs[j].out
           q == jobs[j].query
           base == [jobs[j] EXCEPT !.frame = jobs[j].out]
           value == [table |-> tableFromIPC(jobs[j].data), frame |-> jobs[j].out,
                     columns |-> Metadata[jobs[j].table].columns]
           a == Action("PRECOMPUTATION_TASK_SUCCEEDED", q, value)
           e == Append(dispatched, a)
<1>1. jobs[j].at = "read_metadata" /\ computeColumnSummary(j, base, m, <<a>>)
  BY DEF SummarizesColumns
<1>2. /\ JobShape(jobs[j]) /\ j \in DOMAIN jobs /\ Idle(m, j) /\ IsSeq(dispatched) /\ ~rendering
      /\ j # Nobody
  BY ReadyJob
<1>3. Turned(jobs[j], base, jobs[j].at, f, jobs[j].stats, f)
  BY <1>2, JobReplaces
<1>4. value.frame = f /\ value.table = tableFromIPC(jobs[j].data)
  OBVIOUS
<1> HIDE DEF base, value
<1>5. /\ JobShape(base) /\ base.query = q /\ base.frame = f /\ base.stats = jobs[j].stats /\ base.out = f
  BY <1>3 DEF Turned
<1>6. PICK job :
        /\ jobs' = [jobs EXCEPT ![j] = job]
        /\ \/ /\ Turned(base, job, "done", base.frame, base.stats, base.out)
              /\ main' = m /\ dispatched' = dispatched \o <<a>>
           \/ /\ Turned(base, job, "column", base.frame, base.stats, base.out)
              /\ \E transform : main' = transformFrame(m, j, base.frame, transform, base.stats)
              /\ \E status : dispatched' =
                   dispatched \o Append(<<a>>, Action("COLUMN_SUMMARY_TASK", base.query, status))
  <2>1. ColumnTurned(j, base, m, <<a>>)
    BY <1>1, <1>5, ColumnTurn
  <2> HIDE DEF a
  <2> QED
    BY <2>1 DEF ColumnTurned
<1>7. /\ job.at = "done" \/ job.at = "column"
      /\ Turned(jobs[j], job, job.at, f, jobs[j].stats, f)
  BY <1>3, <1>6 DEF Turned
<1>8. /\ Moved(m, j, job, jobs') /\ Unseen(jobs', view, q)
      /\ Living(m, worker, f) /\ \A p : ~Known(dispatched, computations, p, f)
      /\ \A k \in DOMAIN jobs : Holds(m, worker, responses', jobs', k, f) => k = j /\ job.at = "column"
      /\ jobs[j].data = <<worker.frames[f]>>
  BY <1>1, <1>6, <1>7, MetadataKnown
<1>9. /\ InvOK(m, worker, responses', jobs', dispatched, computations, rendering, view)
      /\ jobs'[j] = job /\ DOMAIN jobs' = DOMAIN jobs
  BY <1>8 DEF Moved, InvNext
<1>10. value.table = worker.frames[f]
  BY <1>4, <1>8 DEF tableFromIPC
<1>11. job.query = q /\ job.frame = f /\ job.stats = jobs[j].stats
  BY <1>7 DEF Turned
<1>12. e = Append(dispatched, Action("PRECOMPUTATION_TASK_SUCCEEDED", q, value))
  OBVIOUS
<1> HIDE DEF f, q, e
<1>13. CASE /\ Turned(base, job, "done", base.frame, base.stats, base.out)
            /\ main' = m /\ dispatched' = dispatched \o <<a>>
  <2>1. job.at = "done"
    BY <1>13 DEF Turned
  <2>2. \A k \in DOMAIN jobs' : Holds(m, worker, responses', jobs', k, f) =>
          jobs'[k].at \in Later /\ jobs'[k].query = q /\ f = jobs'[k].frame
    BY <1>8, <1>9, <2>1
  <2>3. InvOK(m, worker, responses', jobs', e, computations, rendering, view)
    BY <1>2, <1>4, <1>8, <1>9, <1>10, <1>12, <2>2, MetadataDispatch
  <2>4. dispatched' = e
    BY <1>2, <1>13, SeqOne DEF e
  <2> QED
    BY <1>13, <2>3, <2>4 DEF InvNext
<1>14. CASE /\ Turned(base, job, "column", base.frame, base.stats, base.out)
            /\ \E transform : main' = transformFrame(m, j, base.frame, transform, base.stats)
            /\ \E status : dispatched' =
                 dispatched \o Append(<<a>>, Action("COLUMN_SUMMARY_TASK", base.query, status))
  <2>1. job.at = "column"
    BY <1>14 DEF Turned
  <2>2. PICK transform : main' = transformFrame(m, j, f, transform, jobs[j].stats)
    BY <1>5, <1>14
  <2>3. PICK status : dispatched' = dispatched \o Append(<<a>>, Action("COLUMN_SUMMARY_TASK", q, status))
    BY <1>5, <1>14
  <2>4. jobs'[j].at \in Transforming /\ jobs'[j].at # "sort" /\ jobs'[j].frame = f /\ jobs'[j].query = q
    BY <1>9, <1>11, <2>1 DEF Transforming
  <2>5. jobs[j].stats # NoFrame => Living(m, worker, jobs[j].stats)
    BY <1>8, <1>11, <2>1 DEF Moved, JobFrames, Later
  <2>6. InvOK(main', worker, responses', jobs', dispatched, computations, rendering, view)
    BY <1>2, <1>8, <1>9, <2>2, <2>4, <2>5, TransformPosted
  <2>7. Living(main', worker, f) /\ Owns(jobs'[j], f) /\ jobs'[j].at \in Later
    BY <1>2, <1>9, <2>1, <2>4, <2>6 DEF InvOK, CoreOK, JobFramesOK, JobFrames, Owns, Later
  <2>8. \A k \in DOMAIN jobs' : Holds(main', worker, responses', jobs', k, f) => k = j
    BY <1>2, <1>9, <2>6, <2>7 DEF InvOK, CoreOK, HoldsOK, Holds
  <2>9. \A k \in DOMAIN jobs' : Holds(main', worker, responses', jobs', k, f) =>
          jobs'[k].at \in Later /\ jobs'[k].query = q /\ f = jobs'[k].frame
    BY <2>4, <2>7, <2>8
  <2>10. InvOK(main', worker, responses', jobs', e, computations, rendering, view)
    BY <1>2, <1>4, <1>8, <1>10, <1>12, <2>6, <2>7, <2>9, MetadataDispatch
  <2> DEFINE b == Action("COLUMN_SUMMARY_TASK", q, status)
  <2>11. b = Action("COLUMN_SUMMARY_TASK", q, status)
    OBVIOUS
  <2> HIDE DEF b
  <2>12. InvOK(main', worker, responses', jobs', Append(e, b), computations, rendering, view)
    BY <1>2, <1>8, <2>10, <2>11, QuietDispatch
  <2>13. dispatched' = Append(e, b)
    BY <1>2, <2>3, <2>11, SeqMore DEF e
  <2> QED
    BY <2>12, <2>13 DEF InvNext
<1> QED
  BY <1>6, <1>13, <1>14

\* The frame of the column is deleted.
LEMMA DropsColumn ==
  ASSUME NEW m, NEW j, Ready(m, j), jobs[j].at = "read_column",
         NEW job, Turned(jobs[j], job, job.at, jobs[j].frame, jobs[j].stats, jobs[j].out),
         job.at = "done" \/ job.at = "column" \/ job.at = "failed", jobs' = [jobs EXCEPT ![j] = job],
         NEW l, l = deleteFrame(m, jobs[j].out)
  PROVE  /\ InvNext(l, jobs', dispatched) /\ Idle(l, j) /\ Unseen(jobs', view, jobs[j].query)
         /\ Living(l, worker, jobs[j].frame)
         /\ jobs[j].stats # NoFrame => Living(l, worker, jobs[j].stats)
         /\ j \in DOMAIN jobs' /\ jobs'[j] = job
<1> DEFINE f == jobs[j].out
<1>1. /\ JobShape(jobs[j]) /\ JobOK(jobs[j]) /\ JobFrames(m, worker, jobs[j])
      /\ Idle(m, j) /\ j \in DOMAIN jobs /\ jobs[j].at \in Awaiting /\ j # Nobody
      /\ HeldBy(m, worker, responses', jobs, dispatched, computations, j)
      /\ InvOK(m, worker, responses', jobs, dispatched, computations, rendering, view)
      /\ CoreOK(m, worker, responses', jobs)
  BY ReadyJob
<1>2. /\ JobShape(job) /\ job.kind = jobs[j].kind /\ job.query = jobs[j].query /\ job.table = jobs[j].table
      /\ job.frame = jobs[j].frame /\ job.stats = jobs[j].stats /\ job.out = f
  BY DEF Turned
<1>3. JobOK(job) /\ jobs[j].kind = "analyze"
  BY <1>1, <1>2 DEF JobOK, Early, Later, Ended
<1>4. /\ Living(m, worker, f) /\ f # jobs[j].frame /\ f # jobs[j].stats
      /\ jobs[j].stats # jobs[j].frame /\ Living(m, worker, jobs[j].frame)
      /\ jobs[j].stats # NoFrame => Living(m, worker, jobs[j].stats)
  BY <1>1 DEF JobFrames, Later, ReadingAt
<1>5. JobFrames(m, worker, job)
  BY <1>2, <1>4 DEF JobFrames, Early, Later, ReadingAt
<1>6. \A g : Owns(job, g) => Owns(jobs[j], g) /\ job.at \in Later
  BY <1>2 DEF Owns, Later, ReadingAt
<1>7. \A q, g : Owns(jobs[j], g) /\ Known(dispatched, computations, q, g) =>
        g = jobs[j].frame /\ jobs[j].query = q
  BY <1>1 DEF HeldBy, Holds
<1>8. Owns(jobs[j], f) /\ \A q : ~Known(dispatched, computations, q, f)
  BY <1>4, <1>7 DEF Owns, ReadingAt
<1>9. ~Owns(job, f)
  BY <1>2, <1>4 DEF Owns, Later, ReadingAt
<1>10. \A q, g : Owns(job, g) /\ Known(dispatched, computations, q, g) =>
         job.at \in Later /\ job.query = q /\ g = job.frame
  BY <1>2, <1>6, <1>7
<1>11. Moves(m, worker, responses', jobs, dispatched, computations, j, job)
  BY <1>2, <1>3, <1>5, <1>6, <1>10 DEF Moves, Early
<1>12. Moved(m, j, job, jobs')
  BY <1>11, ReadyMoves
<1>13. Unseen(jobs', view, jobs[j].query)
  <2>1. job.at \notin Early
    BY DEF Early
  <2> QED
    BY <1>1, <1>2, <1>3, <1>12, <2>1, UnseenMove DEF Moved
<1>14. ASSUME NEW k \in DOMAIN jobs'
       PROVE  ~Holds(m, worker, responses', jobs', k, f)
  <2>1. CASE k = j
    <3>1. ~Incoming(m, worker, responses', j, f)
      BY <1>1 DEF Incoming, Idle
    <3> QED
      BY <1>9, <1>12, <2>1, <3>1 DEF Moved, Holds
  <2>2. CASE k # j
    <3>1. Holds(m, worker, responses', jobs', k, f) => Holds(m, worker, responses', jobs, k, f)
      BY <1>12, <2>2 DEF Moved, Holds
    <3>2. Holds(m, worker, responses', jobs, j, f) /\ k \in DOMAIN jobs
      BY <1>8, <1>12 DEF Holds, Moved
    <3> QED
      BY <1>1, <2>2, <3>1, <3>2 DEF CoreOK, HoldsOK
  <2> QED
    BY <2>1, <2>2
<1>15. InvOK(m, worker, responses', jobs', dispatched, computations, rendering, view)
  BY <1>12 DEF Moved, InvNext
<1>16. f \in DOMAIN worker.frames
  BY <1>4 DEF Living
<1> HIDE DEF f
<1>17. l = deleteFrame(m, f)
  BY DEF f
<1>18. /\ InvOK(l, worker, responses', jobs', dispatched, computations, rendering, view)
       /\ Deleted(m, worker, l, f)
  BY <1>8, <1>14, <1>15, <1>16, <1>17, DeletePosted
<1> QED
  BY <1>1, <1>4, <1>12, <1>13, <1>18 DEF Moved, InvNext, Deleted, f
LEMMA SummarizedKeeps ==
  ASSUME NEW m, NEW j, Ready(m, j), NEW result, SummarizedColumn(j, m, result)
  PROVE  InvNext(main', jobs', dispatched')
<1> DEFINE q == jobs[j].query
           l == deleteFrame(m, jobs[j].out)
           value == [column |-> jobs[j].column - 1, summary |-> SummaryOf(jobs[j])]
           a == Action("COLUMN_SUMMARY_TASK_SUCCEEDED", q, value)
           e == Append(dispatched, a)
           failed == [jobs[j] EXCEPT !.at = "failed",
                                     !.failure = [at |-> jobs[j].at, error |-> "analysis"]]
<1>1. /\ jobs[j].at = "read_column"
      /\ \/ computeColumnSummary(j, jobs[j], l, <<a>>)
         \/ /\ jobs' = [jobs EXCEPT ![j] = failed] /\ main' = l
            /\ dispatched' = dispatched \o <<ColumnStatus(jobs[j], jobs[j].column, "failed")>>
  BY DEF SummarizedColumn, Turn
<1>2. /\ JobShape(jobs[j]) /\ j \in DOMAIN jobs /\ IsSeq(dispatched) /\ ~rendering
  BY ReadyJob
<1>3. a = Action("COLUMN_SUMMARY_TASK_SUCCEEDED", q, value) /\ l = deleteFrame(m, jobs[j].out)
  OBVIOUS
<1> HIDE DEF a, l, value
<1>4. CASE computeColumnSummary(j, jobs[j], l, <<a>>)
  <2>1. ColumnTurned(j, jobs[j], l, <<a>>)
    BY <1>2, <1>4, ColumnTurn
  <2>2. PICK job :
          /\ jobs' = [jobs EXCEPT ![j] = job]
          /\ \/ /\ Turned(jobs[j], job, "done", jobs[j].frame, jobs[j].stats, jobs[j].out)
                /\ main' = l /\ dispatched' = dispatched \o <<a>>
             \/ /\ Turned(jobs[j], job, "column", jobs[j].frame, jobs[j].stats, jobs[j].out)
                /\ \E transform : main' = transformFrame(l, j, jobs[j].frame, transform, jobs[j].stats)
                /\ \E status : dispatched' =
                     dispatched \o Append(<<a>>, Action("COLUMN_SUMMARY_TASK", q, status))
    BY <2>1 DEF ColumnTurned
  <2>3. /\ job.at = "done" \/ job.at = "column" \/ job.at = "failed"
        /\ Turned(jobs[j], job, job.at, jobs[j].frame, jobs[j].stats, jobs[j].out)
    BY <2>2 DEF Turned
  <2>4. /\ InvNext(l, jobs', dispatched) /\ Idle(l, j) /\ Unseen(jobs', view, q)
        /\ Living(l, worker, jobs[j].frame)
        /\ jobs[j].stats # NoFrame => Living(l, worker, jobs[j].stats)
        /\ j \in DOMAIN jobs' /\ jobs'[j] = job
    BY <1>1, <1>3, <2>2, <2>3, DropsColumn
  <2> HIDE DEF q
  <2>5. CASE /\ Turned(jobs[j], job, "done", jobs[j].frame, jobs[j].stats, jobs[j].out)
             /\ main' = l /\ dispatched' = dispatched \o <<a>>
    <3>1. InvOK(main', worker, responses', jobs', e, computations, rendering, view)
      BY <1>2, <1>3, <2>4, <2>5, QuietDispatch DEF InvNext
    <3>2. dispatched' = e
      BY <1>2, <2>5, SeqOne DEF e
    <3> QED
      BY <3>1, <3>2 DEF InvNext
  <2>6. CASE /\ Turned(jobs[j], job, "column", jobs[j].frame, jobs[j].stats, jobs[j].out)
             /\ \E transform : main' = transformFrame(l, j, jobs[j].frame, transform, jobs[j].stats)
             /\ \E status : dispatched' =
                  dispatched \o Append(<<a>>, Action("COLUMN_SUMMARY_TASK", q, status))
    <3>1. PICK transform : main' = transformFrame(l, j, jobs[j].frame, transform, jobs[j].stats)
      BY <2>6
    <3>2. PICK status : dispatched' = dispatched \o Append(<<a>>, Action("COLUMN_SUMMARY_TASK", q, status))
      BY <2>6
    <3>3. jobs'[j].at \in Transforming /\ jobs'[j].at # "sort"
      BY <2>4, <2>6 DEF Transforming, Turned
    <3>4. InvOK(main', worker, responses', jobs', dispatched, computations, rendering, view)
      BY <2>4, <3>1, <3>3, TransformPosted DEF InvNext
    <3> HIDE DEF e
    <3>5. e = Append(dispatched, a)
      BY DEF e
    <3>6. InvOK(main', worker, responses', jobs', e, computations, rendering, view)
      BY <1>2, <1>3, <2>4, <3>4, <3>5, QuietDispatch
    <3> DEFINE b == Action("COLUMN_SUMMARY_TASK", q, status)
    <3>7. b = Action("COLUMN_SUMMARY_TASK", q, status)
      OBVIOUS
    <3> HIDE DEF b
    <3>8. InvOK(main', worker, responses', jobs', Append(e, b), computations, rendering, view)
      BY <1>2, <2>4, <3>6, <3>7, QuietDispatch
    <3>9. dispatched' = Append(e, b)
      BY <1>2, <3>2, <3>5, <3>7, SeqMore
    <3> QED
      BY <3>8, <3>9 DEF InvNext
  <2> QED
    BY <2>2, <2>5, <2>6
<1>5. CASE /\ jobs' = [jobs EXCEPT ![j] = failed] /\ main' = l
           /\ dispatched' = dispatched \o <<ColumnStatus(jobs[j], jobs[j].column, "failed")>>
  <2>1. Turned(jobs[j], failed, "failed", jobs[j].frame, jobs[j].stats, jobs[j].out)
    BY <1>2, JobFails
  <2> HIDE DEF failed
  <2>2. Turned(jobs[j], failed, failed.at, jobs[j].frame, jobs[j].stats, jobs[j].out) /\ failed.at = "failed"
    BY <2>1 DEF Turned
  <2>3. InvNext(l, jobs', dispatched) /\ Unseen(jobs', view, q)
    BY <1>1, <1>3, <1>5, <2>2, DropsColumn
  <2> DEFINE status == [column |-> jobs[j].column - 1, status |-> "failed"]
             b == Action("COLUMN_SUMMARY_TASK", q, status)
  <2>4. dispatched' = dispatched \o <<b>>
    BY <1>5 DEF ColumnStatus
  <2>5. b = Action("COLUMN_SUMMARY_TASK", q, status)
    OBVIOUS
  <2> HIDE DEF b, status, q
  <2>6. dispatched' = Append(dispatched, b)
    BY <1>2, <2>4, SeqOne
  <2>7. InvOK(main', worker, responses', jobs', dispatched', computations, rendering, view)
    BY <1>2, <1>5, <2>3, <2>5, <2>6, QuietDispatch DEF InvNext
  <2> QED
    BY <2>7 DEF InvNext
<1> QED
  BY <1>1, <1>4, <1>5

LEMMA SortedKeeps ==
  ASSUME NEW m, NEW j, Ready(m, j), NEW result, Fulfilled(j), Sorted(j, m, result)
  PROVE  InvNext(main', jobs', dispatched')
<1> DEFINE f == jobs[j].out
           q == jobs[j].query
           job == [jobs[j] EXCEPT !.at = "done", !.data = <<>>]
           value == [frame |-> jobs[j].out, table |-> tableFromIPC(jobs[j].data), ordering |-> jobs[j].ordering]
           a == Action("TABLE_ORDERING_TASK_SUCCEEDED", q, value)
<1>1. /\ jobs[j].at = "read_sorted" /\ jobs' = [jobs EXCEPT ![j] = job]
      /\ main' = m /\ dispatched' = dispatched \o <<a>>
  BY DEF Sorted, Turn
<1>2. /\ JobShape(jobs[j]) /\ JobOK(jobs[j]) /\ JobFrames(m, worker, jobs[j]) /\ IsSeq(dispatched)
      /\ Idle(m, j) /\ j \in DOMAIN jobs /\ ~rendering
      /\ HeldBy(m, worker, responses', jobs, dispatched, computations, j)
      /\ CoreOK(m, worker, responses', jobs)
      /\ InvOK(m, worker, responses', jobs, dispatched, computations, rendering, view)
  BY ReadyJob
<1>3. Turned(jobs[j], job, "done", jobs[j].frame, jobs[j].stats, f)
  BY <1>2, JobEnds
<1>4. a.type = "TABLE_ORDERING_TASK_SUCCEEDED" /\ a.query = q /\ a.value = value
  BY DEF Action
<1>5. value.frame = f /\ value.table = tableFromIPC(jobs[j].data) /\ value.ordering = jobs[j].ordering
  OBVIOUS
<1> HIDE DEF job, a, value
<1>6. /\ JobShape(job) /\ job.kind = jobs[j].kind /\ job.query = q /\ job.table = jobs[j].table /\ job.at = "done"
  BY <1>3 DEF Turned
<1>7. JobOK(job) /\ jobs[j].kind = "sort" /\ q \in Queries
  BY <1>1, <1>2, <1>6 DEF JobOK, Early, Later, Ended
<1>8. Living(m, worker, f) /\ Ordered(worker.frames[f], jobs[j])
  BY <1>1, <1>2 DEF JobFrames, ReadingAt
<1>9. JobFrames(m, worker, job)
  BY <1>6 DEF JobFrames, Early, Later, ReadingAt
<1>10. \A g : ~Owns(job, g)
  BY <1>6 DEF Owns, Later, ReadingAt
<1>11. Moves(m, worker, responses', jobs, dispatched, computations, j, job)
  BY <1>6, <1>7, <1>9, <1>10 DEF Moves, Early
<1>12. Moved(m, j, job, jobs')
  BY <1>1, <1>11, ReadyMoves
<1>13. Owns(jobs[j], f) /\ \A p : ~Known(dispatched, computations, p, f)
  <2>1. Owns(jobs[j], f)
    BY <1>1 DEF Owns, ReadingAt
  <2> QED
    BY <1>1, <1>2, <2>1 DEF HeldBy, Holds, Later
<1>14. ASSUME NEW k \in DOMAIN jobs'
       PROVE  ~Holds(m, worker, responses', jobs', k, f)
  <2>1. CASE k = j
    <3>1. ~Incoming(m, worker, responses', j, f)
      BY <1>2 DEF Incoming, Idle
    <3> QED
      BY <1>10, <1>12, <2>1, <3>1 DEF Moved, Holds
  <2>2. CASE k # j
    <3>1. Holds(m, worker, responses', jobs', k, f) => Holds(m, worker, responses', jobs, k, f)
      BY <1>12, <2>2 DEF Moved, Holds
    <3>2. Holds(m, worker, responses', jobs, j, f) /\ k \in DOMAIN jobs
      BY <1>12, <1>13 DEF Holds, Moved
    <3> QED
      BY <1>2, <2>2, <3>1, <3>2 DEF CoreOK, HoldsOK
  <2> QED
    BY <2>1, <2>2
<1>15. /\ InvOK(m, worker, responses', jobs', dispatched, computations, rendering, view)
       /\ jobs'[j] = job /\ j \in DOMAIN jobs'
  BY <1>2, <1>12 DEF Moved, InvNext
<1>16. HasSort(jobs', q)
  BY <1>6, <1>7, <1>15 DEF HasSort
<1>17. SettledOK(jobs', dispatched, computations, q) /\ OpenOK(jobs', dispatched, computations, view)
  BY <1>7, <1>15, <1>16 DEF InvOK, TablesOK, OpenOK
<1>18. Analysed(jobs', q)
  BY <1>17 DEF SettledOK, Analysed
<1>19. ASSUME NEW k \in DOMAIN jobs', jobs'[k].at \in Early
       PROVE  jobs'[k].query # q
  <2>1. jobs'[k].kind = "analyze" /\ jobs'[k].at # "done"
    BY <1>15, <1>19 DEF InvOK, CoreOK, JobsOK, JobOK, Early, Ended
  <2> QED
    BY <1>17, <2>1 DEF OpenOK, SettledOK, IsAnalysis
<1>20. value.table = worker.frames[f]
  BY <1>1, <1>5 DEF tableFromIPC, Fulfilled, ReadingAt
<1> HIDE DEF f, q
<1>21. /\ SetsFrame(a) /\ FrameOf(a) = f /\ a.type \in OrderingTypes /\ a.type # "CREATED_DATA_FRAME"
  BY <1>4, <1>5 DEF SetsFrame, FrameOf, OrderingTypes
<1>22. value.ordering # Null => value.table.order = value.ordering
  BY <1>5, <1>8, <1>20 DEF Ordered
<1>23. ActionOK(m, worker, a)
  BY <1>4, <1>7, <1>8, <1>20, <1>21, <1>22 DEF ActionOK
<1>24. \A g : Brings(a, g) => g = f
  BY <1>21 DEF Brings
<1>25. Dispatches(m, worker, responses', jobs', dispatched, computations, view, a)
  BY <1>4, <1>13, <1>14, <1>16, <1>18, <1>19, <1>21, <1>23, <1>24 DEF Dispatches
<1>26. dispatched' = Append(dispatched, a)
  BY <1>1, <1>2, SeqOne
<1>27. InvOK(m, worker, responses', jobs', dispatched', computations, rendering, view)
  BY <1>2, <1>15, <1>25, <1>26, DispatchKeeps
<1> QED
  BY <1>1, <1>27 DEF InvNext

\* A job that stops owns nothing.
LEMMA StopMoves ==
  ASSUME NEW m, NEW j, Ready(m, j), NEW job, JobShape(job), job.kind = jobs[j].kind,
         job.query = jobs[j].query, job.table = jobs[j].table, job.at = "failed" \/ job.at = "stuck",
         NEW ks, ks = [jobs EXCEPT ![j] = job]
  PROVE  Moved(m, j, job, ks)
<1>1. JobOK(jobs[j])
  BY ReadyJob
<1>2. JobOK(job)
  BY <1>1 DEF JobOK, Ended
<1>3. JobFrames(m, worker, job)
  BY DEF JobFrames, Early, Later, ReadingAt
<1>4. \A g : ~Owns(job, g)
  BY DEF Owns, Later, ReadingAt
<1>5. Moves(m, worker, responses', jobs, dispatched, computations, j, job)
  BY <1>2, <1>3, <1>4 DEF Moves, Early
<1> QED
  BY <1>5, ReadyMoves

LEMMA FailsKeeps ==
  ASSUME NEW m, NEW j, Ready(m, j), ~Reading(jobs[j]), NEW error, Throws(j, m, error)
  PROVE  InvNext(main', jobs', dispatched')
<1> DEFINE q == jobs[j].query
           job == [jobs[j] EXCEPT !.at = "failed",
                                  !.failure = [at |-> jobs[j].at, error |-> error]]
<1>1. jobs' = [jobs EXCEPT ![j] = job] /\ main' = m /\ dispatched' = dispatched \o Failure(jobs[j])
  BY DEF Throws, Turn
<1>2. /\ JobShape(jobs[j]) /\ JobOK(jobs[j]) /\ j \in DOMAIN jobs /\ IsSeq(dispatched) /\ ~rendering
      /\ jobs[j].at \in Awaiting
      /\ InvOK(m, worker, responses', jobs, dispatched, computations, rendering, view)
  BY ReadyJob
<1>3. Turned(jobs[j], job, "failed", jobs[j].frame, jobs[j].stats, jobs[j].out)
  BY <1>2, JobFails
<1> HIDE DEF job
<1>4. JobShape(job) /\ job.kind = jobs[j].kind /\ job.query = q /\ job.table = jobs[j].table /\ job.at = "failed"
  BY <1>3 DEF Turned
<1>5. Moved(m, j, job, jobs')
  BY <1>1, <1>4, StopMoves
<1>6. InvOK(m, worker, responses', jobs', dispatched, computations, rendering, view)
  BY <1>5 DEF Moved, InvNext
<1>7. CASE jobs[j].at \notin {"summarize", "precompute", "column"}
  <2>1. Failure(jobs[j]) = <<>>
    BY <1>7 DEF Failure
  <2>2. dispatched' = dispatched
    BY <1>1, <1>2, <2>1, SeqNone
  <2> QED
    BY <1>1, <1>6, <2>2 DEF InvNext
<1>8. CASE jobs[j].at \in {"summarize", "precompute", "column"}
  <2>1. jobs[j].kind = "analyze" /\ job.at \notin Early
    BY <1>2, <1>4, <1>8 DEF JobOK, Early, Later, Ended
  <2>2. Unseen(jobs', view, q)
    BY <1>2, <1>4, <1>5, <2>1, UnseenMove DEF Moved
  <2>3. \E type, value :
          /\ Failure(jobs[j]) = <<Action(type, q, value)>>
          /\ type \in {"TABLE_SUMMARY_TASK", "PRECOMPUTATION_TASK", "COLUMN_SUMMARY_TASK"}
    BY <1>8 DEF Failure, ColumnStatus
  <2> HIDE DEF q
  <2>4. PICK type, value :
          /\ Failure(jobs[j]) = <<Action(type, q, value)>>
          /\ type \in {"TABLE_SUMMARY_TASK", "PRECOMPUTATION_TASK", "COLUMN_SUMMARY_TASK"}
    BY <2>3
  <2>5. dispatched' = Append(dispatched, Action(type, q, value))
    BY <1>1, <1>2, <2>4, SeqOne
  <2> DEFINE a == Action(type, q, value)
  <2>6. a = Action(type, q, value) /\ dispatched' = Append(dispatched, a)
    BY <2>5
  <2> HIDE DEF a
  <2>7. InvOK(m, worker, responses', jobs', dispatched', computations, rendering, view)
    BY <1>2, <1>6, <2>2, <2>4, <2>6, QuietDispatch
  <2> QED
    BY <1>1, <2>7 DEF InvNext
<1> QED
  BY <1>7, <1>8

\* The scan that fails is taken away.
LEMMA StuckKeeps ==
  ASSUME NEW m, TakesTask(m), NEW j, j = main.pendingRequests[response.requestId].owner,
         j \notin {Nobody, Provider}, Reading(jobs[j]), NEW error, Throws(j, m, error)
  PROVE  InvNext(main', jobs', dispatched')
<1> DEFINE job == [jobs[j] EXCEPT !.at = "stuck",
                                  !.failure = [at |-> jobs[j].at, error |-> error]]
           kept == {s \in DOMAIN m.activeScans : m.activeScans[s].owner # j}
<1>1. /\ jobs' = [jobs EXCEPT ![j] = job] /\ dispatched' = dispatched \o <<>>
      /\ main' = [m EXCEPT !.activeScans = Restrict(@, {s \in DOMAIN @ : @[s].owner # j})]
  BY DEF Throws, Turn
<1>2. /\ MainShape(m) /\ m.requests = main.requests /\ m.nextMessageId = main.nextMessageId
      /\ m.nextScanId = main.nextScanId /\ m.activeScans = main.activeScans
      /\ DOMAIN m.pendingRequests = DOMAIN main.pendingRequests \ {response.requestId}
      /\ \A k \in DOMAIN m.pendingRequests : m.pendingRequests[k] = main.pendingRequests[k]
  BY TakeTask
<1>3. j \in DOMAIN jobs /\ j # Nobody /\ jobs[j].at \in Awaiting /\ \A k : ~Awaits(m, k, j)
  BY TakeJob
<1>4. /\ MainShape(main') /\ main'.requests = m.requests /\ main'.nextMessageId = m.nextMessageId
      /\ main'.nextScanId = m.nextScanId /\ main'.pendingRequests = m.pendingRequests
      /\ main'.activeScans = Restrict(m.activeScans, kept)
  BY <1>1, <1>2 DEF MainShape
<1>5. /\ DOMAIN main'.activeScans = kept
      /\ \A s \in kept : main'.activeScans[s] = m.activeScans[s]
  BY <1>4 DEF Restrict
<1>6. \A k : ~Awaits(main', k, j)
  BY <1>3, <1>4 DEF Awaits
<1>7. \A s \in DOMAIN main.activeScans \ kept : main.activeScans[s].owner = j
  BY <1>2
<1>8. kept \subseteq DOMAIN main.activeScans
  BY <1>2
<1>9. \A s \in DOMAIN main'.activeScans : main'.activeScans[s].owner # j
  BY <1>5
<1> HIDE DEF kept
<1>10. SameRequests(main, main')
  BY <1>2, <1>4 DEF SameRequests
<1>11. Fewer(main, main')
  BY <1>2, <1>4, <1>5, <1>6, <1>7, <1>8, <1>10 DEF Fewer
<1>12. \A s : ~IsScanMessage(response, s) /\ ~IsScanFinish(response, s)
  BY DEF TakesTask, IsScanMessage, IsScanFinish
<1>13. InvNext(main', jobs, dispatched) /\ ~rendering
  BY <1>11, <1>12, DropMessage, DeliversOne DEF TakesTask
<1>14. Ready(main', j)
  BY <1>3, <1>6, <1>9, <1>13 DEF Ready, Idle
<1>15. JobShape(jobs[j]) /\ IsSeq(dispatched)
  BY <1>14, ReadyJob
<1>19. Turned(jobs[j], job, "stuck", jobs[j].frame, jobs[j].stats, jobs[j].out)
  BY <1>15, JobStops
<1> HIDE DEF job
<1>16. /\ JobShape(job) /\ job.kind = jobs[j].kind /\ job.query = jobs[j].query
       /\ job.table = jobs[j].table /\ job.at = "stuck"
  BY <1>19 DEF Turned
<1>17. Moved(main', j, job, jobs')
  BY <1>1, <1>14, <1>16, StopMoves
<1>18. dispatched' = dispatched
  BY <1>1, <1>15, SeqNone
<1> QED
  BY <1>17, <1>18 DEF Moved

LEMMA OnAnswerKeeps ==
  ASSUME Inv(jobs, dispatched), OnAnswer
  PROVE  InvNext(main', jobs', dispatched')
<1> DEFINE id == response.requestId
           task == main.pendingRequests[id]
           m == takePending(main, id)
           j == task.owner
<1>1. Delivers /\ response.type \in {"OK", "ERROR", "DATAFRAME_ID"}
  BY DEF OnAnswer
<1>2. \/ id \notin DOMAIN main.pendingRequests /\ UNCHANGED <<jobs, main, dispatched>>
      \/ /\ id \in DOMAIN main.pendingRequests /\ j \in {Nobody, Provider}
         /\ main' = m /\ UNCHANGED <<jobs, dispatched>>
      \/ /\ id \in DOMAIN main.pendingRequests /\ j \notin {Nobody, Provider}
         /\ Resolves(task, response) /\ Resumes(j, m, response.data)
      \/ /\ id \in DOMAIN main.pendingRequests /\ j \notin {Nobody, Provider}
         /\ ~Resolves(task, response) /\ Throws(j, m, response.data.error)
  BY DEF OnAnswer
<1>3. CASE id \notin DOMAIN main.pendingRequests /\ UNCHANGED <<jobs, main, dispatched>>
  <2>1. MainShape(main)
    BY <1>1, DeliversOne
  <2>2. Fewer(main, main)
    BY <2>1, SameFewer
  <2>3. \A s : ~IsScanMessage(response, s) /\ ~IsScanFinish(response, s)
    BY <1>1 DEF IsScanMessage, IsScanFinish
  <2> QED
    BY <1>1, <1>3, <2>2, <2>3, DropMessage
<1>4. CASE /\ id \in DOMAIN main.pendingRequests /\ j \in {Nobody, Provider}
           /\ main' = m /\ UNCHANGED <<jobs, dispatched>>
  <2>1. TakesTask(m)
    BY <1>1, <1>4 DEF TakesTask
  <2> QED
    BY <1>4, <2>1, TakeTask
<1>5. CASE /\ id \in DOMAIN main.pendingRequests /\ j \notin {Nobody, Provider}
           /\ Resolves(task, response) /\ Resumes(j, m, response.data)
  <2>1. TakesTask(m)
    BY <1>1, <1>5 DEF TakesTask
  <2>2. j = main.pendingRequests[response.requestId].owner /\ j \notin {Nobody, Provider}
    BY <1>5
  <2> HIDE DEF j, m
  <2>3. task.type = TaskOf(jobs[j].at) /\ jobs[j].at \in Awaiting
    BY <2>1, <2>2, TakeJob
  <2>4. jobs[j].at \in {"ingest"} \cup Transforming => response.type = "DATAFRAME_ID"
    BY <1>5, <2>3 DEF Resolves, TaskOf, Transforming
  <2>5. jobs[j].at \notin {"ingest"} \cup Transforming => response.type = "OK"
    BY <1>5, <2>3 DEF Resolves, TaskOf, Transforming
  <2>6. CASE jobs[j].at \in {"ingest"} \cup Transforming
    <3>1. Ready(m, j) /\ Granted(m, j, response.data.frame)
      BY <2>1, <2>2, <2>4, <2>6, TakeFrame
    <3>2. Ingests(j, m, response.data) \/ ReadsResult(j, m, response.data)
      BY <1>5, <2>6 DEF Resumes, Transforming, Writes, computeTableSummary, precomputeMetadataColumns,
         SummarizesColumns, SummarizedColumn, Sorted
    <3> QED
      BY <3>1, <3>2, IngestsKeeps, ReadsKeeps
  <2>7. CASE jobs[j].at \notin {"ingest"} \cup Transforming
    <3>1. Ready(m, j) /\ Fulfilled(j)
      BY <2>1, <2>2, <2>5, <2>7, TakeOK
    <3>2. ~Ingests(j, m, response.data) /\ ~ReadsResult(j, m, response.data)
      BY <2>7 DEF Ingests, ReadsResult, Transforming
    <3>3. \/ Writes(j, m, response.data) \/ computeTableSummary(j, m, response.data)
          \/ precomputeMetadataColumns(j, m, response.data) \/ SummarizesColumns(j, m, response.data)
          \/ SummarizedColumn(j, m, response.data) \/ Sorted(j, m, response.data)
      BY <1>5, <3>2 DEF Resumes
    <3> QED
      BY <3>1, <3>3, WritesKeeps, SummarizesTable, PrecomputesKeeps, SummarizesKeeps, SummarizedKeeps, SortedKeeps
  <2> QED
    BY <2>6, <2>7
<1>6. CASE /\ id \in DOMAIN main.pendingRequests /\ j \notin {Nobody, Provider}
           /\ ~Resolves(task, response) /\ Throws(j, m, response.data.error)
  <2>1. TakesTask(m)
    BY <1>1, <1>6 DEF TakesTask
  <2>2. j = main.pendingRequests[response.requestId].owner /\ j \notin {Nobody, Provider}
    BY <1>6
  <2> HIDE DEF j, m
  <2>3. CASE Reading(jobs[j])
    BY <1>6, <2>1, <2>2, <2>3, StuckKeeps
  <2>4. CASE ~Reading(jobs[j])
    <3>1. j \in DOMAIN jobs /\ j # Nobody /\ jobs[j].at \in Awaiting
      BY <2>1, <2>2, TakeJob
    <3>2. Idle(m, j)
      BY <2>1, <2>2, <2>4, TakeJob DEF Reading, ReadingAt
    <3>3. InvNext(m, jobs, dispatched) /\ ~rendering
      BY <2>1, TakeTask, DeliversOne DEF TakesTask
    <3>4. Ready(m, j)
      BY <3>1, <3>2, <3>3 DEF Ready
    <3> QED
      BY <1>6, <2>4, <3>4, FailsKeeps
  <2> QED
    BY <2>3, <2>4
<1> QED
  BY <1>2, <1>3, <1>4, <1>5, <1>6
-----------------------------------------------------------------------------
(***************************************************************************)
(* An analysis or a sort begins.                                           *)
(***************************************************************************)
LEMMA NewJob ==
  ASSUME NEW kind, NEW q, NEW table, NEW at
  PROVE  /\ JobShape(Job(kind, q, table, at))
         /\ Job(kind, q, table, at).kind = kind /\ Job(kind, q, table, at).query = q
         /\ Job(kind, q, table, at).table = table /\ Job(kind, q, table, at).at = at
         /\ Job(kind, q, table, at).stats = NoFrame /\ Job(kind, q, table, at).out = NoFrame
BY DEF Job, JobShape

\* The list of jobs has one more.
Longer(m, w, rs, js, job, ks, j) ==
  /\ CoreOK(m, w, rs, ks) /\ Idle(m, j) /\ j \notin DOMAIN js /\ j # Nobody
  /\ DOMAIN ks = DOMAIN js \cup {j} /\ ks[j] = job /\ \A k \in DOMAIN js : ks[k] = js[k]
  /\ \A k \in DOMAIN ks : \A f : Holds(m, w, rs, ks, k, f) => k \in DOMAIN js /\ Holds(m, w, rs, js, k, f)

LEMMA OneMore ==
  ASSUME NEW m, NEW w, NEW rs, NEW js, CoreOK(m, w, rs, js),
         NEW job, JobOK(job), JobFrames(m, w, job), \A f : ~Owns(job, f),
         NEW ks, ks = Append(js, job), NEW j, j = Len(js) + 1
  PROVE  Longer(m, w, rs, js, job, ks, j)
<1>1. /\ DOMAIN ks = DOMAIN js \cup {j} /\ j \notin DOMAIN js
      /\ ks[j] = job /\ \A k \in DOMAIN js : ks[k] = js[k]
  BY SeqAppend DEF CoreOK, JobsOK
<1>2. Idle(m, j) /\ j \in Nat
  BY NextJobIdle
<1>3. j # Nobody
  BY <1>2, OwnerAssumption
<1>4. CoreOK(m, w, rs, ks)
  BY AddJobKeeps
<1>5. \A f : ~Incoming(m, w, rs, j, f)
  BY <1>2 DEF Incoming, Idle
<1>6. \A k \in DOMAIN ks : \A f : Holds(m, w, rs, ks, k, f) => k \in DOMAIN js /\ Holds(m, w, rs, js, k, f)
  BY <1>1, <1>5 DEF Holds
<1> QED
  BY <1>1, <1>2, <1>3, <1>4, <1>6 DEF Longer

LEMMA IngestPosted ==
  ASSUME NEW m, NEW w, NEW rs, NEW js, NEW d, NEW c, NEW r, NEW v, InvOK(m, w, rs, js, d, c, r, v),
         NEW j \in DOMAIN js, Idle(m, j), js[j].at = "ingest", NEW n, n = createArrowIngest(m, j)
  PROVE  InvOK(n, w, rs, js, d, c, r, v)
<1> DEFINE t == Request(m.nextMessageId, "DATAFRAME_FROM_INGEST", NoData)
<1>1. Posted(m, n, j, t)
  BY PostTask DEF createArrowIngest, InvOK, CoreOK, ShapesOK
<1>2. t.messageId = m.nextMessageId /\ t.type = "DATAFRAME_FROM_INGEST"
  BY DEF Request
<1> HIDE DEF t
<1>3. Asks(m, j, js[j], t)
  BY <1>2 DEF Asks, TaskOf, Transforming, ReadingAt
<1>4. \A f : f \notin ReadBy(t)
  BY <1>2 DEF ReadBy
<1>5. \A f : ~Deletes(t, f) /\ ~FinishOf(t, f) /\ ~WriteOf(t, f)
  BY <1>2 DEF Deletes, FinishOf, WriteOf
<1>6. \A s : ~IsScan(t, s)
  BY <1>2 DEF IsScan
<1>7. Posts(m, w, rs, js, j, t)
  BY <1>2, <1>3, <1>4, <1>5, <1>6 DEF Posts, Idle, Awaiting, Early
<1> QED
  BY <1>1, <1>5, <1>7, PostKeeps

\* The first analysis of a query begins with its table in the registry.
LEMMA AnalysisTables ==
  ASSUME NEW m, NEW w, NEW rs, NEW js, CoreOK(m, w, rs, js), NEW d, NEW c, NEW v,
         TablesOK(m, w, rs, js, d, c, v),
         NEW q \in Queries, ~Analysed(js, q), NEW table,
         NEW job, JobOK(job), JobFrames(m, w, job), \A f : ~Owns(job, f),
         job.kind = "analyze", job.query = q, job.table = table, job.at = "ingest",
         NEW a, a.type = "COMPUTATION_FROM_QUERY_RESULT", a.query = q, a.value.table = table,
         NEW ks, ks = Append(js, job), NEW e, e = Append(d, a)
  PROVE  TablesOK(m, w, rs, ks, e, c, v)
<1> DEFINE z == Len(d) + 1
           j == Len(js) + 1
<1>1. /\ IsSeq(e) /\ Len(e) = z /\ DOMAIN e = DOMAIN d \cup {z} /\ z \notin DOMAIN d /\ e[z] = a
      /\ \A i \in DOMAIN d : e[i] = d[i]
      /\ DOMAIN d = 1..Len(d) /\ Len(d) \in Nat
  BY SeqAppend, SeqDomain DEF TablesOK, RegistryOK
<1>2. \A i \in DOMAIN d : \A k \in 1..(i - 1) : k \in DOMAIN d /\ e[k] = d[k]
  BY <1>1
<1>3. /\ \A k \in 1..Len(d) : k \in DOMAIN d /\ e[k] = d[k] /\ k \in 1..Len(e)
      /\ \A k \in 1..Len(e) : k \in 1..Len(d) \/ k = z
      /\ z \in 1..Len(e)
  BY <1>1
<1>4. /\ j \notin DOMAIN js /\ DOMAIN ks = DOMAIN js \cup {j} /\ ks[j] = job
      /\ \A k \in DOMAIN js : ks[k] = js[k]
      /\ \A k \in DOMAIN ks : \A f : Holds(m, w, rs, ks, k, f) => k \in DOMAIN js /\ Holds(m, w, rs, js, k, f)
  <2>1. Longer(m, w, rs, js, job, ks, j)
    BY OneMore
  <2> QED
    BY <2>1 DEF Longer
<1> HIDE DEF z, j
<1>5. ~SetsFrame(a) /\ a.type \notin OrderingTypes /\ a.type # "CREATED_DATA_FRAME"
  BY DEF SetsFrame, OrderingTypes
<1>6. \A f : ~Brings(a, f)
  BY <1>5 DEF Brings
<1>7. RegistryOK(m, w, e, c)
  <2>1. ActionOK(m, w, a)
    BY <1>5 DEF ActionOK
  <2> QED
    BY <1>1, <2>1 DEF TablesOK, RegistryOK
<1>8. \A p, f : Known(e, c, p, f) => Known(d, c, p, f)
  BY <1>1, <1>6 DEF Known
<1>9. UniqueOK(e, c)
  BY <1>1, <1>6 DEF TablesOK, UniqueOK
<1>10. HeldOK(m, w, rs, ks, e, c)
  BY <1>4, <1>8 DEF TablesOK, HeldOK, HeldBy
<1>11. \A k \in DOMAIN js : \A p : IsAnalysis(js[k], p) => p # q
  BY DEF Analysed
<1>12. \A p : HasSort(ks, p) <=> HasSort(js, p)
  BY <1>4 DEF HasSort
<1>13. \A p : Analysed(js, p) => Analysed(ks, p)
  BY <1>4 DEF Analysed
<1>14. Analysed(ks, q)
  BY <1>4 DEF Analysed, IsAnalysis
<1>15. \A p : SettledOK(js, d, c, p) => SettledOK(ks, e, c, p)
  <2> SUFFICES ASSUME NEW p, SettledOK(js, d, c, p)
               PROVE  SettledOK(ks, e, c, p)
    OBVIOUS
  <2>1. p # q
    BY <1>11 DEF SettledOK
  <2>2. p \in DOMAIN c /\ \A i \in DOMAIN d : d[i].query = p => d[i].type \in OrderingTypes
    BY DEF SettledOK
  <2>3. \A i \in DOMAIN e : e[i].query = p => e[i].type \in OrderingTypes
    BY <1>1, <2>1, <2>2
  <2>4. \E k \in DOMAIN ks : IsAnalysis(ks[k], p) /\ ks[k].at = "done"
    BY <1>4 DEF SettledOK
  <2> QED
    BY <2>2, <2>3, <2>4 DEF SettledOK
<1>16. OpenOK(ks, e, c, v)
  <2>1. \A i, k \in DOMAIN ks : \A p : IsAnalysis(ks[i], p) /\ IsAnalysis(ks[k], p) => i = k
    <3>1. \A p : IsAnalysis(job, p) => p = q
      BY DEF IsAnalysis
    <3>2. \A i, k \in DOMAIN js : \A p : IsAnalysis(js[i], p) /\ IsAnalysis(js[k], p) => i = k
      BY DEF TablesOK, OpenOK
    <3> QED
      BY <1>4, <1>11, <3>1, <3>2
  <2>2. \A p \in Queries : v.query = p \/ HasSort(ks, p) => SettledOK(ks, e, c, p)
    BY <1>12, <1>15 DEF TablesOK, OpenOK
  <2>3. \A i \in DOMAIN e : e[i].type \in OrderingTypes => HasSort(ks, e[i].query)
    BY <1>1, <1>5, <1>12 DEF TablesOK, OpenOK
  <2>4. \A i \in DOMAIN e : Analysed(ks, e[i].query)
    BY <1>1, <1>13, <1>14 DEF TablesOK, OpenOK
  <2>5. /\ \A p \in DOMAIN c : Analysed(ks, p)
        /\ \A p \in DOMAIN c : c[p].ordering # Null => HasSort(ks, p)
    BY <1>12, <1>13 DEF TablesOK, OpenOK
  <2> QED
    BY <2>1, <2>2, <2>3, <2>4, <2>5 DEF OpenOK
<1>17. CreatedOK(w, ks, e, c)
  <2>1. ASSUME NEW i \in DOMAIN e, e[i].type = "CREATED_DATA_FRAME"
        PROVE  \E T : w.frames[e[i].value] = Ingested(T) /\ Pristine(e, c, e[i].query, T, i - 1)
    <3>1. i \in DOMAIN d /\ e[i] = d[i]
      BY <1>1, <1>5, <2>1
    <3>2. PICK T : w.frames[d[i].value] = Ingested(T) /\ Pristine(d, c, d[i].query, T, i - 1)
      BY <2>1, <3>1 DEF TablesOK, CreatedOK
    <3>3. Pristine(e, c, d[i].query, T, i - 1)
      BY <1>2, <3>1, <3>2 DEF Pristine
    <3> QED
      BY <3>1, <3>2, <3>3
  <2>2. ASSUME NEW k \in DOMAIN js, js[k].at \in Early
        PROVE  Pristine(e, c, js[k].query, js[k].table, Len(e))
    <3>1. IsAnalysis(js[k], js[k].query)
      BY <2>2 DEF CoreOK, JobsOK, JobOK, IsAnalysis, Early, Ended
    <3>2. js[k].query # q
      BY <1>11, <3>1
    <3>3. Pristine(d, c, js[k].query, js[k].table, Len(d))
      BY <2>2 DEF TablesOK, CreatedOK
    <3> QED
      BY <1>1, <1>3, <3>2, <3>3 DEF Pristine
  <2>3. Pristine(e, c, q, table, Len(e))
    <3>1. \A i \in DOMAIN d : d[i].query # q
      BY DEF TablesOK, OpenOK
    <3> QED
      BY <1>1, <1>3, <3>1 DEF Pristine
  <2>4. \A k \in DOMAIN ks : ks[k].at \in Early => Pristine(e, c, ks[k].query, ks[k].table, Len(e))
    BY <1>4, <2>2, <2>3
  <2> QED
    BY <2>1, <2>4 DEF CreatedOK
<1> QED
  BY <1>7, <1>9, <1>10, <1>16, <1>17 DEF TablesOK

\* The page shows a table that can be sorted.
LEMMA SortTables ==
  ASSUME NEW m, NEW w, NEW rs, NEW js, CoreOK(m, w, rs, js), NEW d, NEW c, NEW v,
         TablesOK(m, w, rs, js, d, c, v),
         NEW job, JobOK(job), JobFrames(m, w, job), \A f : ~Owns(job, f),
         job.kind = "sort", job.at = "sort", v.query = job.query,
         NEW ks, ks = Append(js, job)
  PROVE  TablesOK(m, w, rs, ks, d, c, v)
<1> DEFINE j == Len(js) + 1
<1>1. /\ j \notin DOMAIN js /\ DOMAIN ks = DOMAIN js \cup {j} /\ ks[j] = job
      /\ \A k \in DOMAIN js : ks[k] = js[k]
      /\ \A k \in DOMAIN ks : \A f : Holds(m, w, rs, ks, k, f) => k \in DOMAIN js /\ Holds(m, w, rs, js, k, f)
  <2>1. Longer(m, w, rs, js, job, ks, j)
    BY OneMore
  <2> QED
    BY <2>1 DEF Longer
<1> HIDE DEF j
<1>2. HeldOK(m, w, rs, ks, d, c)
  BY <1>1 DEF TablesOK, HeldOK, HeldBy
<1>3. \A p : ~IsAnalysis(job, p)
  BY DEF IsAnalysis
<1>4. \A p : Analysed(ks, p) <=> Analysed(js, p)
  BY <1>1, <1>3 DEF Analysed
<1>5. \A p : HasSort(js, p) => HasSort(ks, p)
  BY <1>1 DEF HasSort
<1>6. \A p : HasSort(ks, p) => HasSort(js, p) \/ p = v.query
  BY <1>1 DEF HasSort
<1>7. \A p : SettledOK(js, d, c, p) => SettledOK(ks, d, c, p)
  BY <1>1 DEF SettledOK
<1>8. OpenOK(ks, d, c, v)
  <2>1. \A i, k \in DOMAIN ks : \A p : IsAnalysis(ks[i], p) /\ IsAnalysis(ks[k], p) => i = k
    BY <1>1, <1>3 DEF TablesOK, OpenOK
  <2>2. \A p \in Queries : v.query = p \/ HasSort(ks, p) => SettledOK(ks, d, c, p)
    BY <1>6, <1>7 DEF TablesOK, OpenOK
  <2> QED
    BY <1>4, <1>5, <2>1, <2>2 DEF TablesOK, OpenOK
<1>9. CreatedOK(w, ks, d, c)
  <2>1. job.at \notin Early
    BY DEF Early
  <2> QED
    BY <1>1, <2>1 DEF TablesOK, CreatedOK
<1> QED
  BY <1>2, <1>8, <1>9 DEF TablesOK

NewState == InvOK(main', worker, responses, jobs', dispatched', computations, rendering, view)

LEMMA AnalyzeKeeps ==
  ASSUME ComputationInv, NEW q \in Queries, NEW table, analyzeTable(q, table)
  PROVE  NewState
<1> DEFINE job == Job("analyze", q, table, "ingest")
           j == Len(jobs) + 1
           value == [table |-> table, columns |-> buildGridColumns(table)]
           a == Action("COMPUTATION_FROM_QUERY_RESULT", q, value)
<1>1. /\ ~rendering /\ Analyses(q) = {} /\ jobs' = Append(jobs, job)
      /\ main' = createArrowIngest(main, j) /\ dispatched' = Append(dispatched, a)
  BY DEF analyzeTable
<1>2. /\ CoreOK(main, worker, responses, jobs) /\ ViewOK(dispatched, computations, rendering, view)
      /\ TablesOK(main, worker, responses, jobs, dispatched, computations, view)
  BY DEF ComputationInv, InvOK
<1>3. /\ JobShape(job) /\ job.kind = "analyze" /\ job.query = q /\ job.table = table /\ job.at = "ingest"
      /\ job.stats = NoFrame
  BY NewJob
<1>4. value.table = table
  OBVIOUS
<1>5. a.type = "COMPUTATION_FROM_QUERY_RESULT" /\ a.query = q /\ a.value = value
  BY DEF Action
<1>6. j = Len(jobs) + 1
  OBVIOUS
<1> HIDE DEF job, value, a, j
<1>7. JobOK(job)
  BY <1>3 DEF JobOK, Early
<1>8. JobFrames(main, worker, job)
  BY <1>3 DEF JobFrames, Later, ReadingAt
<1>9. \A f : ~Owns(job, f)
  BY <1>3 DEF Owns, Later, ReadingAt
<1>10. ~Analysed(jobs, q)
  BY <1>1 DEF Analyses, Analysed, IsAnalysis
<1>11. TablesOK(main, worker, responses, jobs', dispatched', computations, view)
  BY <1>1, <1>2, <1>3, <1>4, <1>5, <1>7, <1>8, <1>9, <1>10, AnalysisTables
<1>12. /\ CoreOK(main, worker, responses, jobs') /\ Idle(main, j)
       /\ DOMAIN jobs' = DOMAIN jobs \cup {j} /\ jobs'[j] = job
  <2>1. Longer(main, worker, responses, jobs, job, jobs', j)
    BY <1>1, <1>2, <1>6, <1>7, <1>8, <1>9, OneMore
  <2> QED
    BY <2>1 DEF Longer
<1>13. ViewOK(dispatched', computations, rendering, view)
  <2>1. \A f : ~Brings(a, f)
    BY <1>5 DEF Brings, SetsFrame
  <2>2. /\ DOMAIN dispatched' = DOMAIN dispatched \cup {Len(dispatched) + 1}
        /\ dispatched'[Len(dispatched) + 1] = a
        /\ \A i \in DOMAIN dispatched : dispatched'[i] = dispatched[i]
    BY <1>1, <1>2, SeqAppend DEF TablesOK, RegistryOK
  <2> QED
    BY <1>2, <2>1, <2>2 DEF ViewOK, ShownOK
<1>14. InvOK(main, worker, responses, jobs', dispatched', computations, rendering, view)
  BY <1>11, <1>12, <1>13 DEF InvOK
<1>15. jobs'[j].at = "ingest" /\ j \in DOMAIN jobs'
  BY <1>3, <1>12
<1>16. InvOK(main', worker, responses, jobs', dispatched', computations, rendering, view)
  BY <1>1, <1>12, <1>14, <1>15, IngestPosted
<1> QED
  BY <1>16 DEF NewState

\* The job of a sort
SortsBy(job, q, field) ==
  /\ JobShape(job) /\ job.kind = "sort" /\ job.query = q /\ job.at = "sort" /\ job.ordering = field

LEMMA JobSorts ==
  ASSUME NEW q, NEW table, NEW f, NEW field,
         NEW job, job = [Job("sort", q, table, "sort") EXCEPT !.frame = f, !.ordering = field]
  PROVE  SortsBy(job, q, field)
<1>1. JobShape(job) /\ job.kind = "sort" /\ job.query = q /\ job.at = "sort" /\ job.ordering = field
  BY DEF JobShape, Job
<1> QED
  BY <1>1 DEF SortsBy

LEMMA OrderKeeps ==
  ASSUME ComputationInv, NEW column, orderByColumn(column)
  PROVE  NewState
<1> DEFINE q == view.query
           table == computations[view.query].dataTable.fields
           field == table[view.layout[column].field + 1].name
           j == Len(jobs) + 1
           job == [Job("sort", q, table, "sort") EXCEPT !.frame = view.frame, !.ordering = field]
           a == Action("TABLE_ORDERING_TASK_RUNNING", q, Null)
<1>1. /\ ~rendering /\ q # NoQuery /\ view.frame # NoFrame /\ jobs' = Append(jobs, job)
      /\ main' = transformFrame(main, j, view.frame, createOrderByTransform(field), NoFrame)
      /\ dispatched' = Append(dispatched, a)
  BY DEF orderByColumn
<1>2. /\ CoreOK(main, worker, responses, jobs) /\ ViewOK(dispatched, computations, rendering, view)
      /\ TablesOK(main, worker, responses, jobs, dispatched, computations, view)
  <2> HIDE DEF q, table, field, j, job, a
  <2> QED
    BY DEF ComputationInv, InvOK
<1>3. SortsBy(job, q, field)
  BY JobSorts
<1>4. a.type = "TABLE_ORDERING_TASK_RUNNING" /\ a.query = q
  BY DEF Action
<1>5. j = Len(jobs) + 1 /\ q = view.query
  OBVIOUS
<1> HIDE DEF job, a, j, field, table
<1>6. /\ JobShape(job) /\ job.kind = "sort" /\ job.query = q /\ job.at = "sort" /\ job.ordering = field
  BY <1>3 DEF SortsBy
<1>7. q \in Queries /\ Known(dispatched, computations, q, view.frame)
  BY <1>1, <1>2, RenderedKnown
<1>8. Living(main, worker, view.frame)
  BY <1>2, <1>7, KnownLives
<1>9. JobOK(job)
  BY <1>6, <1>7 DEF JobOK
<1>10. JobFrames(main, worker, job)
  BY <1>6 DEF JobFrames, Early, Later, ReadingAt
<1>11. \A f : ~Owns(job, f)
  BY <1>6 DEF Owns, Later, ReadingAt
<1>12. /\ CoreOK(main, worker, responses, jobs') /\ Idle(main, j)
       /\ DOMAIN jobs' = DOMAIN jobs \cup {j} /\ jobs'[j] = job
  <2>1. Longer(main, worker, responses, jobs, job, jobs', j)
    BY <1>1, <1>2, <1>5, <1>9, <1>10, <1>11, OneMore
  <2> QED
    BY <2>1 DEF Longer
<1>13. TablesOK(main, worker, responses, jobs', dispatched, computations, view)
  BY <1>1, <1>2, <1>5, <1>6, <1>9, <1>10, <1>11, SortTables
<1>14. InvOK(main, worker, responses, jobs', dispatched, computations, rendering, view)
  BY <1>2, <1>12, <1>13 DEF InvOK
<1>15. j \in DOMAIN jobs' /\ jobs'[j].at \in Transforming /\ jobs'[j].ordering = field
  BY <1>6, <1>12 DEF Transforming
<1>16. InvOK(main', worker, responses, jobs', dispatched, computations, rendering, view)
  BY <1>1, <1>8, <1>12, <1>14, <1>15, TransformPosted
<1>17. HasSort(jobs', q)
  BY <1>6, <1>12 DEF HasSort
<1>18. SettledOK(jobs', dispatched, computations, q) /\ OpenOK(jobs', dispatched, computations, view)
  BY <1>7, <1>16, <1>17 DEF InvOK, TablesOK, OpenOK
<1>19. Analysed(jobs', q)
  BY <1>18 DEF SettledOK, Analysed
<1>20. ASSUME NEW k \in DOMAIN jobs', jobs'[k].at \in Early
       PROVE  jobs'[k].query # q
  <2>1. jobs'[k].kind = "analyze" /\ jobs'[k].at # "done"
    BY <1>16, <1>20 DEF InvOK, CoreOK, JobsOK, JobOK, Early, Ended
  <2> QED
    BY <1>18, <2>1 DEF OpenOK, SettledOK, IsAnalysis
<1> HIDE DEF q
<1>21. ~SetsFrame(a) /\ a.type \in OrderingTypes /\ a.type # "CREATED_DATA_FRAME"
       /\ a.type # "TABLE_ORDERING_TASK_SUCCEEDED"
  BY <1>4 DEF SetsFrame, OrderingTypes
<1>22. ActionOK(main', worker, a)
  BY <1>4, <1>7, <1>21 DEF ActionOK
<1>23. \A f : ~Brings(a, f)
  BY <1>21 DEF Brings
<1>24. Dispatches(main', worker, responses, jobs', dispatched, computations, view, a)
  BY <1>4, <1>17, <1>19, <1>20, <1>21, <1>22, <1>23 DEF Dispatches
<1>25. InvOK(main', worker, responses, jobs', dispatched', computations, rendering, view)
  BY <1>1, <1>16, <1>24, DispatchKeeps
<1> QED
  BY <1>25 DEF NewState
-----------------------------------------------------------------------------
(***************************************************************************)
(* The reducer.                                                            *)
(***************************************************************************)
Becomes(st, dataFrame, tableFrame, dataTable, ordering) ==
  /\ StateShape(st) /\ st.dataFrame = dataFrame /\ st.tableFrame = tableFrame
  /\ st.dataTable = dataTable /\ st.ordering = ordering

LEMMA CreatesState ==
  ASSUME NEW table, NEW columns
  PROVE  Becomes(createTableComputationState(table, columns), NoFrame, NoFrame, Ingested(table), Null)
BY DEF Becomes, StateShape, createTableComputationState, Ingested

LEMMA SetsDataFrame ==
  ASSUME NEW old, StateShape(old), NEW f, NEW st, st = [old EXCEPT !.dataFrame = f]
  PROVE  Becomes(st, f, old.tableFrame, old.dataTable, old.ordering)
<1>1. /\ StateShape(st) /\ st.dataFrame = f /\ st.tableFrame = old.tableFrame
      /\ st.dataTable = old.dataTable /\ st.ordering = old.ordering
  BY DEF StateShape
<1> QED
  BY <1>1 DEF Becomes

LEMMA SetsOrdered ==
  ASSUME NEW old, StateShape(old), NEW f, NEW table, NEW ordering,
         NEW st, st = [old EXCEPT !.dataFrame = f, !.dataTable = table, !.tableFrame = f,
                                  !.ordering = ordering, !.orderingStatus = "succeeded"]
  PROVE  Becomes(st, f, f, table, ordering)
<1>1. /\ StateShape(st) /\ st.dataFrame = f /\ st.tableFrame = f
      /\ st.dataTable = table /\ st.ordering = ordering
  BY DEF StateShape
<1> QED
  BY <1>1 DEF Becomes

LEMMA SetsPrecomputed ==
  ASSUME NEW old, StateShape(old), NEW f, NEW table, NEW columns,
         NEW st, st = [old EXCEPT !.dataTable = table, !.tableFrame = f, !.dataFrame = f,
                                  !.columnGroups = columns, !.summaryStatus = "running"]
  PROVE  Becomes(st, f, f, table, old.ordering)
<1>1. /\ StateShape(st) /\ st.dataFrame = f /\ st.tableFrame = f
      /\ st.dataTable = table /\ st.ordering = old.ordering
  BY DEF StateShape
<1> QED
  BY <1>1 DEF Becomes

Same(st, old) == Becomes(st, old.dataFrame, old.tableFrame, old.dataTable, old.ordering)

LEMMA SetsStatus ==
  ASSUME NEW old, StateShape(old), NEW x, NEW y
  PROVE  /\ Same([old EXCEPT !.summaryStatus = x], old)
         /\ Same([old EXCEPT !.summaryStatus = "succeeded", !.summary = x], old)
         /\ Same([old EXCEPT !.precomputationStatus = x], old)
         /\ Same([old EXCEPT !.columnStatus = x], old)
         /\ Same([old EXCEPT !.columnStatus = x, !.columnSummaries = y], old)
<1>1. ASSUME NEW st, st = [old EXCEPT !.summaryStatus = x]
      PROVE  Same(st, old)
  BY <1>1 DEF Same, Becomes, StateShape
<1>2. ASSUME NEW st, st = [old EXCEPT !.summaryStatus = "succeeded", !.summary = x]
      PROVE  Same(st, old)
  BY <1>2 DEF Same, Becomes, StateShape
<1>3. ASSUME NEW st, st = [old EXCEPT !.precomputationStatus = x]
      PROVE  Same(st, old)
  BY <1>3 DEF Same, Becomes, StateShape
<1>4. ASSUME NEW st, st = [old EXCEPT !.columnStatus = x]
      PROVE  Same(st, old)
  BY <1>4 DEF Same, Becomes, StateShape
<1>5. ASSUME NEW st, st = [old EXCEPT !.columnStatus = x, !.columnSummaries = y]
      PROVE  Same(st, old)
  BY <1>5 DEF Same, Becomes, StateShape
<1> QED
  BY <1>1, <1>2, <1>3, <1>4, <1>5

\* The state of the query of an action after it is reduced
Enters(a, old, st) ==
  \/ a.type = "CREATED_DATA_FRAME" /\ Becomes(st, a.value, old.tableFrame, old.dataTable, old.ordering)
  \/ /\ a.type = "TABLE_ORDERING_TASK_SUCCEEDED"
     /\ Becomes(st, a.value.frame, a.value.frame, a.value.table, a.value.ordering)
  \/ /\ a.type = "PRECOMPUTATION_TASK_SUCCEEDED"
     /\ Becomes(st, a.value.frame, a.value.frame, a.value.table, old.ordering)
  \/ ~SetsFrame(a) /\ Same(st, old)
Reduces(a, c, m, b, n) ==
  \/ /\ a.type = "COMPUTATION_FROM_QUERY_RESULT" /\ n = m
     /\ \E st : b = With(c, a.query, st) /\ Becomes(st, NoFrame, NoFrame, Ingested(a.value.table), Null)
  \/ /\ a.type # "COMPUTATION_FROM_QUERY_RESULT" /\ b = c /\ n = m
     /\ a.query \notin DOMAIN c \/ ~SetsFrame(a)
  \/ /\ a.type # "COMPUTATION_FROM_QUERY_RESULT" /\ a.query \in DOMAIN c
     /\ \E st : b = With(c, a.query, st) /\ Enters(a, c[a.query], st)
     /\ n = IF a.type = "TABLE_ORDERING_TASK_SUCCEEDED" /\ c[a.query].dataFrame # NoFrame
            THEN deleteFrame(m, c[a.query].dataFrame) ELSE m

LEMMA PutTable ==
  ASSUME NEW s, s = [tables |-> s.tables, main |-> s.main], NEW q, NEW st
  PROVE  /\ Put(s, q, st).tables = With(s.tables, q, st)
         /\ Put(s, q, st).main = s.main
BY DEF Put

LEMMA ReduceFrom ==
  ASSUME NEW s, NEW a, a.type = "COMPUTATION_FROM_QUERY_RESULT"
  PROVE  reduceComputationState(s, a) = Put(s, a.query, createTableComputationState(a.value.table, a.value.columns))
<1>1. reduceComputationState(s, a) = reduceFromQueryResult(s, a)
  BY DEF reduceComputationState
<1> QED
  BY <1>1 DEF reduceFromQueryResult

LEMMA ReduceUnknown ==
  ASSUME NEW s, NEW a, a.type # "COMPUTATION_FROM_QUERY_RESULT", a.query \notin DOMAIN s.tables
  PROVE  reduceComputationState(s, a) = s
BY DEF reduceComputationState

LEMMA ReduceOne ==
  ASSUME NEW s, s = [tables |-> s.tables, main |-> s.main],
         \A p \in DOMAIN s.tables : StateShape(s.tables[p]),
         NEW a, NEW t, t = reduceComputationState(s, a)
  PROVE  Reduces(a, s.tables, s.main, t.tables, t.main)
<1> DEFINE q == a.query
<1>2. \A st : Put(s, q, st).tables = With(s.tables, q, st) /\ Put(s, q, st).main = s.main
  BY PutTable
<1>3. CASE a.type = "COMPUTATION_FROM_QUERY_RESULT"
  <2>1. t = Put(s, q, createTableComputationState(a.value.table, a.value.columns))
    BY <1>3, ReduceFrom
  <2>2. t.tables = With(s.tables, q, createTableComputationState(a.value.table, a.value.columns)) /\ t.main = s.main
    BY <1>2, <2>1
  <2> QED
    BY <1>3, <2>2, CreatesState DEF Reduces
<1>4. CASE a.type # "COMPUTATION_FROM_QUERY_RESULT" /\ q \notin DOMAIN s.tables
  <2>1. t = s
    BY <1>4, ReduceUnknown
  <2> QED
    BY <1>4, <2>1 DEF Reduces
<1>5. CASE a.type # "COMPUTATION_FROM_QUERY_RESULT" /\ q \in DOMAIN s.tables
  <2> DEFINE old == s.tables[q]
  <2>1. StateShape(old)
    BY <1>5
  <2>2. CASE a.type = "CREATED_DATA_FRAME"
    <3> DEFINE st == [old EXCEPT !.dataFrame = a.value]
    <3>1. t = Put(s, q, st)
      BY <1>5, <2>2 DEF reduceComputationState, reduceCreatedDataFrame
    <3>2. Becomes(st, a.value, old.tableFrame, old.dataTable, old.ordering)
      BY <2>1, SetsDataFrame
    <3> HIDE DEF st
    <3>3. t.tables = With(s.tables, q, st) /\ t.main = s.main
      BY <1>2, <3>1
    <3> QED
      BY <1>5, <2>2, <3>2, <3>3 DEF Reduces, Enters
  <2>3. CASE a.type = "TABLE_ORDERING_TASK_SUCCEEDED"
    <3> DEFINE st == [old EXCEPT !.dataFrame = a.value.frame, !.dataTable = a.value.table,
                                 !.tableFrame = a.value.frame, !.ordering = a.value.ordering,
                                 !.orderingStatus = "succeeded"]
               n == IF old.dataFrame = NoFrame THEN s.main ELSE deleteFrame(s.main, old.dataFrame)
    <3>1. t = [Put(s, q, st) EXCEPT !.main = IF old.dataFrame = NoFrame THEN @
                                             ELSE deleteFrame(@, old.dataFrame)]
      BY <1>5, <2>3 DEF reduceComputationState, reduceOrderingSucceeded
    <3>2. Becomes(st, a.value.frame, a.value.frame, a.value.table, a.value.ordering)
      BY <2>1, SetsOrdered
    <3> HIDE DEF st
    <3>3. Put(s, q, st) = [tables |-> With(s.tables, q, st), main |-> s.main]
      BY DEF Put
    <3>4. t.tables = With(s.tables, q, st) /\ t.main = n
      BY <3>1, <3>3
    <3>5. Enters(a, old, st)
      BY <2>3, <3>2 DEF Enters
    <3>6. n = IF a.type = "TABLE_ORDERING_TASK_SUCCEEDED" /\ old.dataFrame # NoFrame
              THEN deleteFrame(s.main, old.dataFrame) ELSE s.main
      BY <2>3
    <3> HIDE DEF n
    <3> QED
      BY <1>5, <3>4, <3>5, <3>6 DEF Reduces
  <2>4. CASE a.type = "PRECOMPUTATION_TASK_SUCCEEDED"
    <3> DEFINE st == [old EXCEPT !.dataTable = a.value.table, !.tableFrame = a.value.frame,
                                 !.dataFrame = a.value.frame, !.columnGroups = a.value.columns,
                                 !.summaryStatus = "running"]
    <3>1. t = Put(s, q, st)
      BY <1>5, <2>4 DEF reduceComputationState, reducePrecomputationSucceeded
    <3>2. Becomes(st, a.value.frame, a.value.frame, a.value.table, old.ordering)
      BY <2>1, SetsPrecomputed
    <3> HIDE DEF st
    <3>3. t.tables = With(s.tables, q, st) /\ t.main = s.main
      BY <1>2, <3>1
    <3> QED
      BY <1>5, <2>4, <3>2, <3>3 DEF Reduces, Enters
  <2>5. CASE ~SetsFrame(a)
    <3>1. a.type # "CREATED_DATA_FRAME" /\ a.type # "TABLE_ORDERING_TASK_SUCCEEDED"
          /\ a.type # "PRECOMPUTATION_TASK_SUCCEEDED"
      <4> HIDE DEF old
      <4> QED
        BY <2>5 DEF SetsFrame
    <3>2. \/ t = s
          \/ \E x : t = Put(s, q, [old EXCEPT !.summaryStatus = x])
          \/ \E x : t = Put(s, q, [old EXCEPT !.summaryStatus = "succeeded", !.summary = x])
          \/ \E x : t = Put(s, q, [old EXCEPT !.precomputationStatus = x])
          \/ \E x : t = Put(s, q, [old EXCEPT !.columnStatus = x])
          \/ \E x, y : t = Put(s, q, [old EXCEPT !.columnStatus = x, !.columnSummaries = y])
      <4>1. CASE a.type = "TABLE_SUMMARY_TASK"
        BY <1>5, <4>1 DEF reduceComputationState, reduceSummaryStatus
      <4>2. CASE a.type = "TABLE_SUMMARY_TASK_SUCCEEDED"
        BY <1>5, <4>2 DEF reduceComputationState, reduceSummarySucceeded
      <4>3. CASE a.type = "PRECOMPUTATION_TASK"
        BY <1>5, <4>3 DEF reduceComputationState, reducePrecomputationStatus
      <4>4. CASE a.type = "COLUMN_SUMMARY_TASK"
        BY <1>5, <4>4 DEF reduceComputationState, reduceColumnStatus
      <4>5. CASE a.type = "COLUMN_SUMMARY_TASK_SUCCEEDED"
        BY <1>5, <4>5 DEF reduceComputationState, reduceColumnSucceeded
      <4>6. CASE /\ a.type # "TABLE_SUMMARY_TASK" /\ a.type # "TABLE_SUMMARY_TASK_SUCCEEDED"
                 /\ a.type # "PRECOMPUTATION_TASK" /\ a.type # "COLUMN_SUMMARY_TASK"
                 /\ a.type # "COLUMN_SUMMARY_TASK_SUCCEEDED"
        BY <1>5, <3>1, <4>6 DEF reduceComputationState
      <4> QED
        BY <4>1, <4>2, <4>3, <4>4, <4>5, <4>6
    <3>3. CASE t = s
      BY <1>5, <2>5, <3>3 DEF Reduces
    <3>4. CASE \E st : t = Put(s, q, st) /\ Same(st, old)
      <4>1. PICK st : t = Put(s, q, st) /\ Same(st, old)
        BY <3>4
      <4>2. t.tables = With(s.tables, q, st) /\ t.main = s.main
        BY <1>2, <4>1
      <4> QED
        BY <1>5, <2>5, <3>1, <4>1, <4>2 DEF Reduces, Enters
    <3> HIDE DEF old
    <3>5. t # s => \E st : t = Put(s, q, st) /\ Same(st, old)
      BY <2>1, <3>2, SetsStatus
    <3> QED
      BY <3>3, <3>4, <3>5
  <2> QED
    BY <2>2, <2>3, <2>4, <2>5 DEF SetsFrame
<1> QED
  BY <1>3, <1>4, <1>5
-----------------------------------------------------------------------------
(***************************************************************************)
(* The registry b after the action a is reduced, where it was c            *)
(***************************************************************************)
Registers(m, w, js, c, a, b) ==
  /\ DOMAIN c \subseteq DOMAIN b /\ DOMAIN b \subseteq DOMAIN c \cup {a.query}
  /\ \A q \in DOMAIN c : q # a.query => b[q] = c[q]
  /\ a.query \in DOMAIN b =>
       /\ StateOK(m, w, b[a.query])
       /\ \/ b[a.query].dataFrame = NoFrame
          \/ a.query \in DOMAIN c /\ b[a.query].dataFrame = c[a.query].dataFrame
          \/ Brings(a, b[a.query].dataFrame)
       /\ b[a.query].ordering # Null => HasSort(js, a.query)
  /\ a.type = "COMPUTATION_FROM_QUERY_RESULT" =>
       /\ a.query \in DOMAIN b /\ b[a.query].dataTable = Ingested(a.value.table)
       /\ b[a.query].ordering = Null /\ b[a.query].tableFrame = NoFrame
\* The page that shows the query follows
Displays(c, a, b, v) ==
  v.query = a.query =>
    \/ b[a.query].dataFrame = c[a.query].dataFrame /\ b[a.query].tableFrame = c[a.query].tableFrame
    \/ Brings(a, b[a.query].dataFrame) /\ b[a.query].tableFrame = b[a.query].dataFrame

LEMMA ReducedShows ==
  ASSUME NEW m, NEW w, NEW js, NEW c, NEW a, NEW b, Registers(m, w, js, c, a, b),
         NEW q, NEW f, Shows(b, q, f)
  PROVE  Shows(c, q, f) \/ (Brings(a, f) /\ a.query = q)
<1>1. q \in DOMAIN b /\ b[q].dataFrame = f /\ f # NoFrame
  BY DEF Shows
<1>2. CASE q = a.query
  BY <1>1, <1>2 DEF Registers, Shows
<1>3. CASE q # a.query
  BY <1>1, <1>3 DEF Registers, Shows
<1> QED
  BY <1>2, <1>3

LEMMA ReducedKnown ==
  ASSUME NEW m, NEW w, NEW js, NEW d, NEW e, Popped(d, e), NEW c, NEW a, a = d[1], NEW b, Registers(m, w, js, c, a, b),
         NEW q, NEW f, Known(e, b, q, f)
  PROVE  Known(d, c, q, f)
<1>1. CASE Shows(b, q, f)
  <2>1. Shows(c, q, f) \/ (Brings(a, f) /\ a.query = q)
    BY <1>1, ReducedShows
  <2> QED
    BY <2>1 DEF Known, Popped
<1>2. CASE \E i \in DOMAIN e : Brings(e[i], f) /\ e[i].query = q
  BY <1>2 DEF Known, Popped
<1> QED
  BY <1>1, <1>2 DEF Known

LEMMA ReducedPristine ==
  ASSUME NEW m, NEW w, NEW js, NEW d, IsSeq(d), NEW e, Popped(d, e),
         NEW c, NEW a, a = d[1], NEW b, Registers(m, w, js, c, a, b),
         NEW q, NEW T, NEW i \in DOMAIN d, Pristine(d, c, q, T, i)
  PROVE  Pristine(e, b, q, T, i - 1)
<1>1. DOMAIN d = 1..Len(d) /\ Len(d) \in Nat /\ i \in Nat \ {0}
  BY SeqDomain
<1>2. \A k \in 1..(i - 1) : k + 1 \in 1..i /\ k + 1 \in DOMAIN d
  BY <1>1
<1>3. \A k \in 1..(i - 1) : e[k] = d[k + 1]
  <2> SUFFICES ASSUME NEW k \in 1..(i - 1)
               PROVE  e[k] = d[k + 1]
    OBVIOUS
  <2>1. k + 1 \in DOMAIN d /\ k + 1 # 1 /\ (k + 1) - 1 = k
    BY <1>1
  <2> QED
    BY <2>1 DEF Popped
<1>4. \A k \in 1..(i - 1) : e[k].query = q =>
         e[k].type = "COMPUTATION_FROM_QUERY_RESULT" /\ e[k].value.table = T
  BY <1>2, <1>3 DEF Pristine
<1>5. 1 \in 1..i
  BY <1>1
<1>6. CASE a.query = q
  <2>1. a.type = "COMPUTATION_FROM_QUERY_RESULT" /\ a.value.table = T
    BY <1>5, <1>6 DEF Pristine
  <2> QED
    BY <1>4, <1>6, <2>1 DEF Pristine, Registers
<1>7. CASE a.query # q
  <2>1. CASE \E k \in 1..i : d[k].query = q
    <3>1. PICK k \in 1..i : d[k].query = q
      BY <2>1
    <3>2. k # 1 /\ k - 1 \in 1..(i - 1) /\ (k - 1) + 1 = k
      BY <1>1, <1>7, <3>1
    <3>3. e[k - 1].query = q
      BY <1>3, <3>1, <3>2
    <3> QED
      BY <1>4, <3>2, <3>3 DEF Pristine
  <2>2. CASE /\ q \in DOMAIN c
             /\ c[q].dataTable = Ingested(T) /\ c[q].ordering = Null /\ c[q].tableFrame = NoFrame
    BY <1>4, <1>7, <2>2 DEF Pristine, Registers
  <2> QED
    BY <2>1, <2>2 DEF Pristine
<1> QED
  BY <1>6, <1>7

LEMMA ReducedTables ==
  ASSUME NEW m, NEW w, NEW rs, NEW js, NEW d, NEW c, NEW v, TablesOK(m, w, rs, js, d, c, v),
         NEW e, Popped(d, e), NEW a, a = d[1], NEW b, Registers(m, w, js, c, a, b)
  PROVE  TablesOK(m, w, rs, js, e, b, v)
<1> DEFINE p == a.query
<1>1. /\ 1 \in DOMAIN d /\ a = d[1] /\ IsSeq(e)
      /\ \A i \in DOMAIN e : i \in Nat \ {0} /\ i + 1 \in DOMAIN d /\ e[i] = d[i + 1]
  BY DEF Popped
<1>2. \A i \in DOMAIN e : i + 1 # 1
  BY <1>1
<1>3. p \in Queries /\ Analysed(js, p)
  BY <1>1 DEF TablesOK, RegistryOK, ActionOK, OpenOK
<1>4. /\ DOMAIN c \subseteq DOMAIN b /\ DOMAIN b \subseteq DOMAIN c \cup {p}
      /\ \A q \in DOMAIN c : q # p => b[q] = c[q]
      /\ p \in DOMAIN b => StateOK(m, w, b[p]) /\ (b[p].ordering # Null => HasSort(js, p))
  BY DEF Registers
<1>5. \A q, f : Shows(b, q, f) => Shows(c, q, f) \/ (Brings(a, f) /\ a.query = q)
  BY ReducedShows
<1>6. \A q, f : Known(e, b, q, f) => Known(d, c, q, f)
  BY ReducedKnown
<1>7. RegistryOK(m, w, e, b)
  <2>1. \A q \in DOMAIN b : q \in Queries /\ StateOK(m, w, b[q])
    BY <1>3, <1>4 DEF TablesOK, RegistryOK
  <2>2. \A i \in DOMAIN e : ActionOK(m, w, e[i])
    BY <1>1 DEF TablesOK, RegistryOK
  <2> QED
    BY <1>1, <2>1, <2>2 DEF RegistryOK
<1>8. UniqueOK(e, b)
  <2>1. /\ \A q, r : \A f : Shows(c, q, f) /\ Shows(c, r, f) => q = r
        /\ \A i, k \in DOMAIN d : \A f : Brings(d[i], f) /\ Brings(d[k], f) => i = k
        /\ \A i \in DOMAIN d : \A f, q : ~(Brings(d[i], f) /\ Shows(c, q, f))
    BY DEF TablesOK, UniqueOK
  <2>2. \A q, r : \A f : Shows(b, q, f) /\ Shows(b, r, f) => q = r
    BY <1>1, <1>5, <2>1
  <2>3. \A i, k \in DOMAIN e : \A f : Brings(e[i], f) /\ Brings(e[k], f) => i = k
    <3> SUFFICES ASSUME NEW i \in DOMAIN e, NEW k \in DOMAIN e, NEW f, Brings(e[i], f), Brings(e[k], f)
                 PROVE  i = k
      OBVIOUS
    <3>1. i + 1 = k + 1
      BY <1>1, <2>1
    <3> QED
      BY <1>1, <3>1
  <2>4. \A i \in DOMAIN e : \A f, q : ~(Brings(e[i], f) /\ Shows(b, q, f))
    BY <1>1, <1>2, <1>5, <2>1
  <2> QED
    BY <2>2, <2>3, <2>4 DEF UniqueOK
<1>9. HeldOK(m, w, rs, js, e, b)
  BY <1>6 DEF TablesOK, HeldOK, HeldBy
<1>10. OpenOK(js, e, b, v)
  <2>1. \A q : SettledOK(js, d, c, q) => SettledOK(js, e, b, q)
    BY <1>1, <1>4 DEF SettledOK
  <2>2. \A q \in Queries : v.query = q \/ HasSort(js, q) => SettledOK(js, e, b, q)
    BY <2>1 DEF TablesOK, OpenOK
  <2>3. /\ \A i \in DOMAIN e : e[i].type \in OrderingTypes => HasSort(js, e[i].query)
        /\ \A i \in DOMAIN e : Analysed(js, e[i].query)
    BY <1>1 DEF TablesOK, OpenOK
  <2>4. /\ \A q \in DOMAIN b : Analysed(js, q)
        /\ \A q \in DOMAIN b : b[q].ordering # Null => HasSort(js, q)
    BY <1>3, <1>4 DEF TablesOK, OpenOK
  <2> QED
    BY <2>2, <2>3, <2>4 DEF TablesOK, OpenOK
<1>11. CreatedOK(w, js, e, b)
  <2>1. IsSeq(d)
    BY DEF TablesOK, RegistryOK
  <2>2. ASSUME NEW i \in DOMAIN e, e[i].type = "CREATED_DATA_FRAME"
        PROVE  \E T : w.frames[e[i].value] = Ingested(T) /\ Pristine(e, b, e[i].query, T, i - 1)
    <3>1. i + 1 \in DOMAIN d /\ e[i] = d[i + 1] /\ (i + 1) - 1 = i /\ i \in Nat \ {0}
      BY <1>1
    <3>2. PICK T : w.frames[e[i].value] = Ingested(T) /\ Pristine(d, c, e[i].query, T, i)
      BY <2>2, <3>1 DEF TablesOK, CreatedOK
    <3>3. i \in DOMAIN d
      BY <2>1, <3>1, SeqDomain
    <3>4. Pristine(e, b, e[i].query, T, i - 1)
      BY <2>1, <3>2, <3>3, ReducedPristine
    <3> QED
      BY <3>2, <3>4
  <2>3. ASSUME NEW j \in DOMAIN js, js[j].at \in Early
        PROVE  Pristine(e, b, js[j].query, js[j].table, Len(e))
    <3>1. Len(d) \in DOMAIN d /\ Len(e) = Len(d) - 1
      <4>1. DOMAIN d = 1..Len(d) /\ Len(d) \in Nat /\ DOMAIN e = 1..Len(e) /\ Len(e) \in Nat
        BY <1>1, <2>1, SeqDomain
      <4>2. Len(d) # 0
        BY <1>1, <4>1
      <4>3. ~(Len(e) < Len(d) - 1)
        <5> SUFFICES ASSUME Len(e) < Len(d) - 1
                     PROVE  FALSE
          OBVIOUS
        <5>1. Len(d) \in DOMAIN d /\ Len(d) # 1
          BY <4>1
        <5>2. Len(d) - 1 \in DOMAIN e
          BY <5>1 DEF Popped
        <5> QED
          BY <4>1, <5>2
      <4>4. ~(Len(e) > Len(d) - 1)
        <5> SUFFICES ASSUME Len(e) > Len(d) - 1
                     PROVE  FALSE
          OBVIOUS
        <5>1. Len(e) \in DOMAIN e
          BY <4>1, <4>2
        <5>2. Len(e) + 1 \in DOMAIN d
          BY <1>1, <5>1
        <5> QED
          BY <4>1, <5>2
      <4>5. Len(e) = Len(d) - 1
        <5>1. Len(d) \in Nat /\ Len(e) \in Nat
          BY <4>1
        <5> QED
          BY <4>3, <4>4, <5>1
      <4>6. Len(d) \in 1..Len(d)
        BY <4>1, <4>2
      <4> QED
        BY <4>1, <4>5, <4>6
    <3>2. Pristine(d, c, js[j].query, js[j].table, Len(d))
      BY <2>3 DEF TablesOK, CreatedOK
    <3>3. Pristine(e, b, js[j].query, js[j].table, Len(d) - 1)
      BY <2>1, <3>1, <3>2, ReducedPristine
    <3> QED
      BY <3>1, <3>3
  <2> QED
    BY <2>2, <2>3 DEF CreatedOK
<1> QED
  BY <1>7, <1>8, <1>9, <1>10, <1>11 DEF TablesOK

LEMMA ReducedView ==
  ASSUME NEW m, NEW w, NEW rs, NEW js, CoreOK(m, w, rs, js),
         NEW d, NEW c, NEW v, TablesOK(m, w, rs, js, d, c, v), NEW r, ViewOK(d, c, r, v),
         NEW e, Popped(d, e), NEW a, a = d[1], NEW b, Registers(m, w, js, c, a, b), Displays(c, a, b, v),
         NEW s \in BOOLEAN, s
  PROVE  ViewOK(e, b, s, v)
<1>1. CASE v.query = NoQuery
  BY <1>1 DEF ViewOK
<1>2. CASE v.query # NoQuery
  <2>1. ShownOK(d, c, r, v)
    BY <1>2 DEF ViewOK
  <2>2. v.query \in Queries /\ v.query \in DOMAIN c
    BY <2>1 DEF ShownOK, TablesOK, OpenOK, SettledOK
  <2>3. Follows(c[v.query], v.rendered) /\ ~Brings(a, v.rendered.dataFrame)
    BY <2>1 DEF ShownOK, Popped
  <2>4. Follows(b[v.query], v.rendered)
    <3>1. CASE v.query # a.query
      BY <2>2, <2>3, <3>1 DEF Registers
    <3>2. CASE v.query = a.query
      <4>1. CASE b[v.query].dataFrame = c[v.query].dataFrame /\ b[v.query].tableFrame = c[v.query].tableFrame
        BY <2>3, <4>1 DEF Follows
      <4>2. CASE Brings(a, b[v.query].dataFrame) /\ b[v.query].tableFrame = b[v.query].dataFrame
        <5>1. ActionOK(m, w, a)
          BY DEF Popped, TablesOK, RegistryOK
        <5>2. b[v.query].dataFrame \in FrameIds(w)
          BY <4>2, <5>1 DEF Brings, ActionOK, Living, CoreOK, ShapesOK
        <5>3. b[v.query].dataFrame # NoFrame
          BY <5>2 DEF NoFrame, FrameIds, CoreOK, ShapesOK
        <5>4. b[v.query].dataFrame # v.rendered.dataFrame
          BY <2>3, <4>2
        <5> QED
          BY <4>2, <5>3, <5>4 DEF Follows
      <4> QED
        BY <3>2, <4>1, <4>2 DEF Displays
    <3> QED
      BY <3>1, <3>2
  <2>5. ShownOK(e, b, s, v)
    BY <2>1, <2>4 DEF ShownOK, Popped
  <2> QED
    BY <1>2, <2>5 DEF ViewOK
<1> QED
  BY <1>1, <1>2
\* The reducer registers what was dispatched.
Wrote(b, c, q, st) ==
  /\ DOMAIN b = DOMAIN c \cup {q} /\ b[q] = st
  /\ \A p \in DOMAIN c : p # q => b[p] = c[p]

LEMMA WithEntries ==
  ASSUME NEW c, NEW q, NEW st, NEW b, b = With(c, q, st)
  PROVE  Wrote(b, c, q, st)
BY DEF With, Wrote

\* What an action finds in the registry
LEMMA ActionFinds ==
  ASSUME NEW m, NEW w, NEW rs, NEW js, NEW d, NEW c, NEW v, TablesOK(m, w, rs, js, d, c, v),
         NEW a, 1 \in DOMAIN d, a = d[1]
  PROVE  /\ ActionOK(m, w, a)
         /\ v.query = a.query \/ HasSort(js, a.query) => a.query \in DOMAIN c /\ a.type \in OrderingTypes
         /\ a.type \in OrderingTypes => HasSort(js, a.query)
         /\ a.query \in DOMAIN c => StateOK(m, w, c[a.query])
         /\ a.query \in DOMAIN c /\ c[a.query].ordering # Null => HasSort(js, a.query)
<1>1. ActionOK(m, w, a) /\ (a.query \in DOMAIN c => StateOK(m, w, c[a.query])) /\ a.query \in Queries
  BY DEF TablesOK, RegistryOK, ActionOK
<1>2. v.query = a.query \/ HasSort(js, a.query) => a.query \in DOMAIN c /\ a.type \in OrderingTypes
  BY <1>1 DEF TablesOK, OpenOK, SettledOK
<1>3. /\ a.type \in OrderingTypes => HasSort(js, a.query)
      /\ a.query \in DOMAIN c /\ c[a.query].ordering # Null => HasSort(js, a.query)
  BY DEF TablesOK, OpenOK
<1> QED
  BY <1>1, <1>2, <1>3

LEMMA CreatedFinds ==
  ASSUME NEW m, NEW w, NEW rs, NEW js, NEW d, NEW c, NEW v, TablesOK(m, w, rs, js, d, c, v),
         NEW a, 1 \in DOMAIN d, a = d[1], a.type = "CREATED_DATA_FRAME"
  PROVE  /\ a.query \in DOMAIN c /\ c[a.query].dataTable = w.frames[a.value]
         /\ c[a.query].ordering = Null /\ c[a.query].tableFrame = NoFrame
<1>1. PICK T : w.frames[a.value] = Ingested(T) /\ Pristine(d, c, a.query, T, 1 - 1)
  BY DEF TablesOK, CreatedOK
<1>2. ~\E k \in 1..(1 - 1) : d[k].query = a.query
  OBVIOUS
<1> QED
  BY <1>1, <1>2 DEF Pristine

LEMMA EntersRegisters ==
  ASSUME NEW m, NEW w, NEW rs, NEW js, NEW d, NEW c, NEW v, TablesOK(m, w, rs, js, d, c, v),
         NEW a, 1 \in DOMAIN d, a = d[1], a.type # "COMPUTATION_FROM_QUERY_RESULT", a.query \in DOMAIN c,
         NEW st, Enters(a, c[a.query], st), NEW b, b = With(c, a.query, st)
  PROVE  Registers(m, w, js, c, a, b) /\ Displays(c, a, b, v)
<1> DEFINE q == a.query
           old == c[q]
<1>1. DOMAIN b = DOMAIN c \cup {q} /\ b[q] = st /\ \A p \in DOMAIN c : p # q => b[p] = c[p]
  <2>1. Wrote(b, c, q, st)
    BY WithEntries
  <2> QED
    BY <2>1 DEF Wrote
<1>2. /\ ActionOK(m, w, a)
      /\ v.query = q \/ HasSort(js, q) => q \in DOMAIN c /\ a.type \in OrderingTypes
      /\ a.type \in OrderingTypes => HasSort(js, q)
      /\ StateOK(m, w, old)
      /\ old.ordering # Null => HasSort(js, q)
  BY ActionFinds
<1>3. SUFFICES /\ StateOK(m, w, st)
               /\ st.dataFrame = old.dataFrame \/ Brings(a, st.dataFrame)
               /\ st.ordering # Null => HasSort(js, q)
               /\ v.query = q =>
                    \/ st.dataFrame = old.dataFrame /\ st.tableFrame = old.tableFrame
                    \/ Brings(a, st.dataFrame) /\ st.tableFrame = st.dataFrame
  BY <1>1 DEF Registers, Displays
<1> HIDE DEF old
<1>4. CASE a.type = "CREATED_DATA_FRAME" /\ Becomes(st, a.value, old.tableFrame, old.dataTable, old.ordering)
  <2>1. /\ StateShape(st) /\ st.dataFrame = a.value /\ st.tableFrame = old.tableFrame
        /\ st.dataTable = old.dataTable /\ st.ordering = old.ordering
    BY <1>4 DEF Becomes
  <2>2. old.dataTable = w.frames[a.value] /\ old.ordering = Null /\ old.tableFrame = NoFrame
    BY <1>4, CreatedFinds DEF old
  <2>3. Brings(a, a.value) /\ Living(m, w, a.value)
    BY <1>2, <1>4 DEF ActionOK, Brings, SetsFrame, FrameOf
  <2>4. StateOK(m, w, st)
    BY <2>1, <2>2, <2>3 DEF StateOK
  <2>5. v.query # q
    BY <1>2, <1>4 DEF OrderingTypes
  <2> QED
    BY <2>1, <2>2, <2>3, <2>4, <2>5
<1>5. CASE /\ a.type = "TABLE_ORDERING_TASK_SUCCEEDED"
           /\ Becomes(st, a.value.frame, a.value.frame, a.value.table, a.value.ordering)
  <2>1. /\ StateShape(st) /\ st.dataFrame = a.value.frame /\ st.tableFrame = a.value.frame
        /\ st.dataTable = a.value.table /\ st.ordering = a.value.ordering
    BY <1>5 DEF Becomes
  <2>2. /\ Brings(a, a.value.frame) /\ Living(m, w, a.value.frame)
        /\ w.frames[a.value.frame] = a.value.table
        /\ a.value.ordering # Null => a.value.table.order = a.value.ordering
    BY <1>2, <1>5 DEF ActionOK, Brings, SetsFrame, FrameOf
  <2>3. StateOK(m, w, st)
    BY <2>1, <2>2 DEF StateOK
  <2>4. HasSort(js, q)
    BY <1>2, <1>5 DEF OrderingTypes
  <2> QED
    BY <2>1, <2>2, <2>3, <2>4
<1>6. CASE /\ a.type = "PRECOMPUTATION_TASK_SUCCEEDED"
           /\ Becomes(st, a.value.frame, a.value.frame, a.value.table, old.ordering)
  <2>1. /\ StateShape(st) /\ st.dataFrame = a.value.frame /\ st.tableFrame = a.value.frame
        /\ st.dataTable = a.value.table /\ st.ordering = old.ordering
    BY <1>6 DEF Becomes
  <2>2. /\ Brings(a, a.value.frame) /\ Living(m, w, a.value.frame)
        /\ w.frames[a.value.frame] = a.value.table
    BY <1>2, <1>6 DEF ActionOK, Brings, SetsFrame, FrameOf
  <2>3. old.ordering = Null /\ v.query # q
    BY <1>2, <1>6 DEF OrderingTypes
  <2>4. StateOK(m, w, st)
    BY <2>1, <2>2, <2>3 DEF StateOK
  <2> QED
    BY <2>1, <2>2, <2>3, <2>4
<1>7. CASE Same(st, old)
  <2>1. /\ StateShape(st) /\ st.dataFrame = old.dataFrame /\ st.tableFrame = old.tableFrame
        /\ st.dataTable = old.dataTable /\ st.ordering = old.ordering
    BY <1>7 DEF Same, Becomes
  <2>2. StateOK(m, w, st)
    BY <1>2, <2>1 DEF StateOK
  <2> QED
    BY <1>2, <2>1, <2>2
<1>8. Enters(a, old, st)
  BY DEF old
<1> QED
  BY <1>4, <1>5, <1>6, <1>7, <1>8 DEF Enters

LEMMA ReducesRegisters ==
  ASSUME NEW m, NEW w, NEW rs, NEW js, NEW d, NEW c, NEW v, TablesOK(m, w, rs, js, d, c, v),
         NEW a, 1 \in DOMAIN d, a = d[1], NEW b, NEW n, Reduces(a, c, m, b, n)
  PROVE  Registers(m, w, js, c, a, b) /\ Displays(c, a, b, v)
<1>1. CASE /\ a.type = "COMPUTATION_FROM_QUERY_RESULT"
           /\ \E st : b = With(c, a.query, st) /\ Becomes(st, NoFrame, NoFrame, Ingested(a.value.table), Null)
  <2>1. PICK st : b = With(c, a.query, st) /\ Becomes(st, NoFrame, NoFrame, Ingested(a.value.table), Null)
    BY <1>1
  <2>2. DOMAIN b = DOMAIN c \cup {a.query} /\ b[a.query] = st /\ \A p \in DOMAIN c : p # a.query => b[p] = c[p]
    <3>1. Wrote(b, c, a.query, st)
      BY <2>1, WithEntries
    <3> QED
      BY <3>1 DEF Wrote
  <2>3. /\ StateShape(st) /\ st.dataFrame = NoFrame /\ st.tableFrame = NoFrame
        /\ st.dataTable = Ingested(a.value.table) /\ st.ordering = Null
    BY <2>1 DEF Becomes
  <2>4. StateOK(m, w, st)
    BY <2>3 DEF StateOK
  <2>5. v.query # a.query
    <3>1. v.query = a.query => a.type \in OrderingTypes
      BY ActionFinds
    <3> QED
      BY <1>1, <3>1 DEF OrderingTypes
  <2> QED
    BY <2>2, <2>3, <2>4, <2>5 DEF Registers, Displays
<1>2. CASE a.type # "COMPUTATION_FROM_QUERY_RESULT" /\ b = c
  <2>1. /\ a.query \in DOMAIN c => StateOK(m, w, c[a.query])
        /\ a.query \in DOMAIN c /\ c[a.query].ordering # Null => HasSort(js, a.query)
    BY ActionFinds
  <2> QED
    BY <1>2, <2>1 DEF Registers, Displays
<1>3. CASE /\ a.type # "COMPUTATION_FROM_QUERY_RESULT" /\ a.query \in DOMAIN c
           /\ \E st : b = With(c, a.query, st) /\ Enters(a, c[a.query], st)
  BY <1>3, EntersRegisters
<1> QED
  BY <1>1, <1>2, <1>3 DEF Reduces

\* The frame that a sort replaces is not in use.
LEMMA Replaced ==
  ASSUME NEW m, NEW w, NEW rs, NEW js, CoreOK(m, w, rs, js),
         NEW d, NEW c, NEW v, TablesOK(m, w, rs, js, d, c, v),
         NEW e, Popped(d, e), NEW a, a = d[1], NEW b, Registers(m, w, js, c, a, b),
         a.type = "TABLE_ORDERING_TASK_SUCCEEDED", a.query \in DOMAIN c, NEW frame,
         frame = c[a.query].dataFrame, frame # NoFrame, Brings(a, b[a.query].dataFrame)
  PROVE  /\ frame \in DOMAIN w.frames
         /\ \A j \in DOMAIN js : ~Holds(m, w, rs, js, j, frame)
         /\ \A q : ~Known(e, b, q, frame)
<1>1. 1 \in DOMAIN d /\ Shows(c, a.query, frame)
  BY DEF Popped, Shows
<1>2. Known(d, c, a.query, frame)
  BY <1>1 DEF Known
<1>3. frame \in DOMAIN w.frames
  BY <1>2, KnownLives DEF Living
<1>4. ASSUME NEW j \in DOMAIN js, Holds(m, w, rs, js, j, frame)
      PROVE  FALSE
  <2>1. js[j].at \in Later /\ js[j].query = a.query
    BY <1>2, <1>4 DEF TablesOK, HeldOK, HeldBy
  <2>2. JobOK(js[j])
    BY DEF CoreOK, JobsOK
  <2>3. IsAnalysis(js[j], a.query)
    BY <2>1, <2>2 DEF JobOK, Later, Ended, IsAnalysis
  <2>4. a.query \in Queries /\ HasSort(js, a.query)
    BY <1>1 DEF TablesOK, RegistryOK, ActionOK, OpenOK, OrderingTypes
  <2>5. PICK k \in DOMAIN js : IsAnalysis(js[k], a.query) /\ js[k].at = "done"
    BY <2>4 DEF TablesOK, OpenOK, SettledOK
  <2>6. j = k
    BY <2>3, <2>5 DEF TablesOK, OpenOK
  <2> QED
    BY <2>1, <2>5, <2>6 DEF Later
<1>5. ASSUME NEW q, Known(e, b, q, frame)
      PROVE  FALSE
  <2>1. UniqueOK(d, c)
    BY DEF TablesOK
  <2>2. CASE Shows(b, q, frame)
    <3>1. \/ Shows(c, q, frame) /\ q # a.query
          \/ q = a.query /\ Brings(a, frame)
      <4>1. CASE q = a.query
        BY <2>2, <4>1 DEF Shows
      <4>2. CASE q # a.query
        BY <2>2, <4>2 DEF Shows, Registers
      <4> QED
        BY <4>1, <4>2
    <3> QED
      BY <1>1, <2>1, <3>1 DEF UniqueOK
  <2>3. CASE \E i \in DOMAIN e : Brings(e[i], frame) /\ e[i].query = q
    BY <1>1, <2>1, <2>3 DEF UniqueOK, Popped
  <2> QED
    BY <1>5, <2>2, <2>3 DEF Known
<1> QED
  BY <1>3, <1>4, <1>5

LEMMA ReduceKeeps ==
  ASSUME ComputationInv, Reduce
  PROVE  InvOK(main', worker, responses, jobs, dispatched', computations', rendering', view)
<1> DEFINE a == dispatched[1]
           e == Tail(dispatched)
           s == [tables |-> computations, main |-> main]
           t == reduceComputationState(s, a)
<1>1. /\ CoreOK(main, worker, responses, jobs)
      /\ TablesOK(main, worker, responses, jobs, dispatched, computations, view)
      /\ ViewOK(dispatched, computations, rendering, view)
  BY DEF ComputationInv, InvOK
<1>2. Popped(dispatched, e) /\ Head(dispatched) = a /\ 1 \in DOMAIN dispatched
  <2>1. IsSeq(dispatched) /\ dispatched # <<>>
    BY <1>1 DEF Reduce, TablesOK, RegistryOK
  <2> QED
    BY <2>1, PopSeq DEF Popped
<1>3. computations' = t.tables /\ main' = t.main /\ dispatched' = e /\ rendering' = TRUE
  BY <1>2 DEF Reduce
<1>4. s.tables = computations /\ s.main = main /\ s = [tables |-> s.tables, main |-> s.main]
  OBVIOUS
<1>5. \A p \in DOMAIN computations : StateShape(computations[p])
  BY <1>1 DEF TablesOK, RegistryOK, StateOK
<1> HIDE DEF s
<1>6. Reduces(a, s.tables, s.main, t.tables, t.main)
  BY <1>4, <1>5, ReduceOne
<1> HIDE DEF t
<1>7. Reduces(a, computations, main, computations', main')
  BY <1>3, <1>4, <1>6
<1>8. Registers(main, worker, jobs, computations, a, computations') /\ Displays(computations, a, computations', view)
  BY <1>1, <1>2, <1>7, ReducesRegisters
<1>9. rendering' \in BOOLEAN /\ rendering'
  BY <1>3
<1> HIDE DEF a, e
<1>10. TablesOK(main, worker, responses, jobs, e, computations', view)
  BY <1>1, <1>2, <1>8, ReducedTables DEF a
<1>11. ViewOK(e, computations', rendering', view)
  BY <1>1, <1>2, <1>8, <1>9, ReducedView DEF a
<1>12. InvOK(main, worker, responses, jobs, e, computations', rendering', view)
  BY <1>1, <1>10, <1>11 DEF InvOK
<1>13. CASE main' = main
  BY <1>3, <1>12, <1>13
<1>14. CASE /\ a.type = "TABLE_ORDERING_TASK_SUCCEEDED" /\ a.query \in DOMAIN computations
            /\ computations[a.query].dataFrame # NoFrame
            /\ main' = deleteFrame(main, computations[a.query].dataFrame)
            /\ \E st : computations' = With(computations, a.query, st) /\ Enters(a, computations[a.query], st)
  <2> DEFINE frame == computations[a.query].dataFrame
  <2>1. Brings(a, computations'[a.query].dataFrame)
    <3>1. PICK st : computations' = With(computations, a.query, st) /\ Enters(a, computations[a.query], st)
      BY <1>14
    <3>2. computations'[a.query] = st
      <4>1. Wrote(computations', computations, a.query, st)
        BY <3>1, WithEntries
      <4> QED
        BY <4>1 DEF Wrote
    <3>3. Becomes(st, a.value.frame, a.value.frame, a.value.table, a.value.ordering)
      BY <1>14, <3>1 DEF Enters, SetsFrame
    <3> QED
      BY <1>14, <3>2, <3>3 DEF Becomes, Brings, SetsFrame, FrameOf
  <2> HIDE DEF frame
  <2>2. /\ frame \in DOMAIN worker.frames
        /\ \A j \in DOMAIN jobs : ~Holds(main, worker, responses, jobs, j, frame)
        /\ \A q : ~Known(e, computations', q, frame)
    BY <1>1, <1>2, <1>8, <1>14, <2>1, Replaced DEF a, frame
  <2>3. main' = deleteFrame(main, frame)
    BY <1>14 DEF frame
  <2>4. InvOK(main', worker, responses, jobs, e, computations', rendering', view)
    BY <1>12, <2>2, <2>3, DeletePosted
  <2> QED
    BY <1>3, <2>4
<1> QED
  BY <1>7, <1>13, <1>14 DEF Reduces
-----------------------------------------------------------------------------
(***************************************************************************)
(* The page.                                                               *)
(***************************************************************************)
\* The registry does not know which query the page shows.
LEMMA ViewTables ==
  ASSUME NEW m, NEW w, NEW rs, NEW js, NEW d, NEW c, NEW v, TablesOK(m, w, rs, js, d, c, v),
         NEW u, u.query \in Queries /\ u.query # v.query => SettledOK(js, d, c, u.query)
  PROVE  TablesOK(m, w, rs, js, d, c, u)
<1>1. \A q \in Queries : u.query = q \/ HasSort(js, q) => SettledOK(js, d, c, q)
  BY DEF TablesOK, OpenOK
<1>2. OpenOK(js, d, c, u)
  BY <1>1 DEF TablesOK, OpenOK
<1> QED
  BY <1>2 DEF TablesOK

\* The page is drawn anew: its frame is that of the table, and it may be stale.
Draws(v, u, new) ==
  /\ ViewShape(u) /\ u.query = v.query /\ u.rendered = new
  /\ u.frame = IF CellsChange(v.rendered, new) THEN new.dataFrame ELSE v.frame

LEMMA DrawsOne ==
  ASSUME NEW v, ViewShape(v), NEW new, NEW stale, NEW u,
         u = [v EXCEPT !.rendered = new,
                       !.frame = IF CellsChange(v.rendered, new) THEN new.dataFrame ELSE @,
                       !.stale = @ \/ stale]
  PROVE  Draws(v, u, new)
<1>1. /\ ViewShape(u) /\ u.query = v.query /\ u.rendered = new
      /\ u.frame = IF CellsChange(v.rendered, new) THEN new.dataFrame ELSE v.frame
  BY DEF ViewShape
<1> QED
  BY <1>1 DEF Draws

LEMMA RenderKeeps ==
  ASSUME ComputationInv, Render
  PROVE  InvOK(main, worker, responses, jobs, dispatched, computations, rendering', view')
<1>1. /\ CoreOK(main, worker, responses, jobs)
      /\ TablesOK(main, worker, responses, jobs, dispatched, computations, view)
      /\ ViewOK(dispatched, computations, rendering, view)
  BY DEF ComputationInv, InvOK
<1>2. rendering' = FALSE /\ dispatched = <<>> /\ rendering
  BY DEF Render
<1>3. CASE view.query = NoQuery
  <2>1. view' = view
    BY <1>3 DEF Render
  <2>2. ViewOK(dispatched, computations, rendering', view')
    BY <1>1, <1>2, <1>3, <2>1 DEF ViewOK
  <2> QED
    BY <1>1, <2>1, <2>2 DEF InvOK
<1>4. CASE view.query # NoQuery
  <2> DEFINE old == view.rendered
             new == computations[view.query]
  <2>1. ViewShape(view) /\ ShownOK(dispatched, computations, rendering, view)
    BY <1>1, <1>4 DEF ViewOK
  <2>2. view' = [view EXCEPT !.rendered = new,
                             !.frame = IF CellsChange(old, new) THEN new.dataFrame ELSE @,
                             !.stale = @ \/ (old.tableFrame # new.tableFrame
                                             \/ old.columnGroups # new.columnGroups)]
    BY <1>4 DEF Render
  <2> HIDE DEF new
  <2>3. Draws(view, view', new)
    BY <2>1, <2>2, DrawsOne
  <2>4. view.query \in Queries /\ view.query \in DOMAIN computations
    BY <1>1, <2>1 DEF ShownOK, TablesOK, OpenOK, SettledOK
  <2>5. StateOK(main, worker, new)
    BY <1>1, <2>4 DEF TablesOK, RegistryOK, new
  <2>6. Follows(new, old) /\ old.tableFrame \in {NoFrame, old.dataFrame} /\ view.frame = old.dataFrame
    BY <2>1 DEF ShownOK, new
  <2>7. ~CellsChange(old, new) => new.dataFrame = old.dataFrame
    BY <2>6 DEF Follows, CellsChange
  <2>8. /\ view'.query = view.query /\ view'.rendered = new /\ ViewShape(view')
        /\ view'.frame = new.dataFrame
    BY <2>3, <2>6, <2>7 DEF Draws
  <2>9. ShownOK(dispatched, computations, rendering', view')
    BY <1>2, <2>4, <2>5, <2>8 DEF ShownOK, StateOK, Follows, new
  <2>10. ViewOK(dispatched, computations, rendering', view')
    BY <1>2, <1>4, <2>8, <2>9 DEF ViewOK
  <2>11. TablesOK(main, worker, responses, jobs, dispatched, computations, view')
    BY <1>1, <2>8, ViewTables
  <2> QED
    BY <1>1, <2>10, <2>11 DEF InvOK
<1> QED
  BY <1>3, <1>4

LEMMA ViewKeeps ==
  ASSUME ComputationInv, NEW q \in Queries, QueryResultView(q)
  PROVE  InvOK(main, worker, responses, jobs, dispatched, computations, rendering, view')
<1>1. /\ CoreOK(main, worker, responses, jobs)
      /\ TablesOK(main, worker, responses, jobs, dispatched, computations, view)
      /\ ViewOK(dispatched, computations, rendering, view)
  BY DEF ComputationInv, InvOK
<1>2. /\ ~rendering /\ dispatched = <<>> /\ Succeeded(q) /\ q \in DOMAIN computations
      /\ view' = [query |-> q, layout |-> view.layout, frame |-> computations[q].dataFrame,
                  stale |-> TRUE, reused |-> view.query # NoQuery, rendered |-> computations[q]]
  BY DEF QueryResultView
<1>3. /\ ViewShape(view') /\ view'.query = q /\ view'.rendered = computations[q]
      /\ view'.frame = computations[q].dataFrame
  BY <1>2 DEF ViewShape
<1>4. SettledOK(jobs, dispatched, computations, q)
  BY <1>2 DEF SettledOK, Succeeded, Analyses, IsAnalysis
<1>5. TablesOK(main, worker, responses, jobs, dispatched, computations, view')
  BY <1>1, <1>3, <1>4, ViewTables
<1>6. StateOK(main, worker, computations[q])
  BY <1>1, <1>2 DEF TablesOK, RegistryOK
<1>7. ShownOK(dispatched, computations, rendering, view')
  BY <1>2, <1>3, <1>6 DEF ShownOK, Follows, StateOK
<1>8. NoQuery \notin Queries
  BY ComputationAssumption DEF NoQuery
<1>9. ViewOK(dispatched, computations, rendering, view')
  BY <1>1, <1>3, <1>7, <1>8 DEF ViewOK
<1> QED
  BY <1>1, <1>5, <1>9 DEF InvOK

LEMMA CloseKeeps ==
  ASSUME ComputationInv, CloseQueryResultView
  PROVE  InvOK(main, worker, responses, jobs, dispatched, computations, rendering, view')
<1>1. /\ CoreOK(main, worker, responses, jobs)
      /\ TablesOK(main, worker, responses, jobs, dispatched, computations, view)
      /\ ViewOK(dispatched, computations, rendering, view)
  BY DEF ComputationInv, InvOK
<1>2. ViewShape(view') /\ view'.query = NoQuery /\ ~view'.stale
  BY DEF CloseQueryResultView, Closed, ViewShape
<1>3. NoQuery \notin Queries
  BY ComputationAssumption DEF NoQuery
<1>4. TablesOK(main, worker, responses, jobs, dispatched, computations, view')
  BY <1>1, <1>2, <1>3, ViewTables
<1>5. ViewOK(dispatched, computations, rendering, view')
  BY <1>1, <1>2 DEF ViewOK
<1> QED
  BY <1>1, <1>4, <1>5 DEF InvOK

\* The layout changes, not what is shown.
Lays(v, u, frame) ==
  /\ ViewShape(u) /\ u.query = v.query /\ u.rendered = v.rendered
  /\ u.frame \in {v.frame, frame} /\ ~u.stale

LEMMA LaysOne ==
  ASSUME NEW v, ViewShape(v), NEW next, NEW frame, NEW u,
         \/ u = [v EXCEPT !.stale = FALSE]
         \/ u = [v EXCEPT !.stale = FALSE, !.reused = FALSE, !.layout = next, !.frame = frame]
  PROVE  Lays(v, u, frame)
<1>1. CASE u = [v EXCEPT !.stale = FALSE]
  <2>1. ViewShape(u) /\ u.query = v.query /\ u.rendered = v.rendered /\ u.frame = v.frame /\ ~u.stale
    BY <1>1 DEF ViewShape
  <2> QED
    BY <2>1 DEF Lays
<1>2. CASE u = [v EXCEPT !.stale = FALSE, !.reused = FALSE, !.layout = next, !.frame = frame]
  <2>1. ViewShape(u) /\ u.query = v.query /\ u.rendered = v.rendered /\ u.frame = frame /\ ~u.stale
    BY <1>2 DEF ViewShape
  <2> QED
    BY <2>1 DEF Lays
<1> QED
  BY <1>1, <1>2

LEMMA LayoutKeeps ==
  ASSUME ComputationInv, UpdateGridLayout
  PROVE  InvOK(main, worker, responses, jobs, dispatched, computations, rendering, view')
<1>1. /\ CoreOK(main, worker, responses, jobs)
      /\ TablesOK(main, worker, responses, jobs, dispatched, computations, view)
      /\ ViewOK(dispatched, computations, rendering, view)
  BY DEF ComputationInv, InvOK
<1>2. ~rendering /\ view.stale
  BY DEF UpdateGridLayout
<1>3. ViewShape(view) /\ view.query # NoQuery /\ ShownOK(dispatched, computations, rendering, view)
  BY <1>1, <1>2 DEF ViewOK
<1>4. PICK next : \/ view' = [view EXCEPT !.stale = FALSE]
                  \/ view' = [view EXCEPT !.stale = FALSE, !.reused = FALSE, !.layout = next,
                                          !.frame = computations[view.query].dataFrame]
  BY DEF UpdateGridLayout
<1>5. Lays(view, view', computations[view.query].dataFrame)
  BY <1>3, <1>4, LaysOne
<1>6. /\ ViewShape(view') /\ view'.query = view.query /\ view'.rendered = view.rendered
      /\ view'.frame = view'.rendered.dataFrame
  BY <1>2, <1>3, <1>5 DEF Lays, ShownOK
<1>7. ShownOK(dispatched, computations, rendering, view')
  BY <1>3, <1>6 DEF ShownOK
<1>8. ViewOK(dispatched, computations, rendering, view')
  BY <1>1, <1>3, <1>6, <1>7 DEF ViewOK
<1>9. TablesOK(main, worker, responses, jobs, dispatched, computations, view')
  BY <1>1, <1>6, ViewTables
<1> QED
  BY <1>1, <1>8, <1>9 DEF InvOK

-----------------------------------------------------------------------------
(***************************************************************************)
(* The specification.                                                      *)
(***************************************************************************)
LEMMA InitialMain ==
  ASSUME NEW n, n = Bindings
  PROVE  /\ MainShape(n) /\ n.nextMessageId = 1 /\ n.nextScanId = 0
         /\ DOMAIN n.activeScans = {}
         /\ DOMAIN n.pendingRequests = {0} /\ n.pendingRequests[0].owner = Provider
         /\ IsSeq(n.requests) /\ DOMAIN n.requests = {1}
         /\ n.requests[1].type = "INSTANTIATE" /\ n.requests[1].messageId = 0
<1> DEFINE m == [nextMessageId |-> 0, pendingRequests |-> <<>>, nextScanId |-> 0,
                 activeScans |-> <<>>, requests |-> <<>>]
           r == Request(0, "INSTANTIATE", NoData)
<1>1. MainShape(m) /\ m.nextMessageId = 0
  BY DEF MainShape
<1>2. /\ m.pendingRequests = <<>> /\ m.nextScanId = 0 /\ m.activeScans = <<>> /\ m.requests = <<>>
  OBVIOUS
<1>3. n = postTask(m, Provider, "INSTANTIATE", NoData)
  BY DEF Bindings
<1> HIDE DEF m
<1>4. Posted(m, n, Provider, Request(m.nextMessageId, "INSTANTIATE", NoData))
  BY <1>1, <1>3, PostTask
<1>5. Posted(m, n, Provider, r)
  BY <1>1, <1>4
<1>6. /\ MainShape(n) /\ n.nextMessageId = 1 /\ n.nextScanId = 0 /\ n.activeScans = <<>>
      /\ n.pendingRequests = With(<<>>, 0, ComputeWorkerTask("INSTANTIATE", Provider))
      /\ n.requests = Append(<<>>, r)
  BY <1>1, <1>2, <1>5 DEF Posted, Request
<1>7. n.requests = <<r>>
  BY <1>6
<1>8. r \in {r} /\ n.requests \in Seq({r})
  BY <1>7
<1>9. /\ DOMAIN n.activeScans = {}
      /\ DOMAIN n.pendingRequests = {0} /\ n.pendingRequests[0].owner = Provider
  BY <1>6 DEF With, ComputeWorkerTask
<1>10. IsSeq(n.requests)
  BY <1>8 DEF IsSeq
<1>11. DOMAIN n.requests = {1} /\ n.requests[1] = r
  BY <1>7
<1>12. r.type = "INSTANTIATE" /\ r.messageId = 0
  BY DEF Request
<1> HIDE DEF r
<1> QED
  BY <1>6, <1>9, <1>10, <1>11, <1>12

LEMMA InitInv ==
  ASSUME ComputationInit
  PROVE  ComputationInv
<1>1. /\ worker = Worker /\ main = Bindings /\ responses = <<>> /\ jobs = <<>>
      /\ dispatched = <<>> /\ computations = <<>> /\ rendering = FALSE /\ view = Closed
  BY DEF ComputationInit, Init
<1>2. /\ WorkerShape(worker) /\ worker.nextFrameId = 0 /\ worker.transforms = {}
      /\ DOMAIN worker.frames = {} /\ DOMAIN worker.frameBuilders = {}
  BY <1>1 DEF WorkerShape, Worker
<1>3. /\ DOMAIN jobs = {} /\ DOMAIN responses = {} /\ DOMAIN dispatched = {} /\ DOMAIN computations = {}
      /\ IsSeq(jobs) /\ IsSeq(responses) /\ IsSeq(dispatched)
  BY <1>1 DEF IsSeq
<1>4. /\ MainShape(main) /\ main.nextMessageId = 1 /\ main.nextScanId = 0
      /\ DOMAIN main.activeScans = {}
      /\ DOMAIN main.pendingRequests = {0} /\ main.pendingRequests[0].owner = Provider
      /\ IsSeq(main.requests) /\ DOMAIN main.requests = {1}
      /\ main.requests[1].type = "INSTANTIATE" /\ main.requests[1].messageId = 0
  BY <1>1, InitialMain
<1>5. view.query = NoQuery /\ ViewShape(view) /\ ~view.stale /\ rendering \in BOOLEAN
  BY <1>1 DEF Closed, ViewShape
<1>6. ShapesOK(main, worker)
  BY <1>2, <1>4 DEF ShapesOK
<1>7. QueuesOK(main, worker, responses)
  BY <1>3, <1>4 DEF QueuesOK, RequestOK, MessageIds
<1>8. PendingOK(main, jobs)
  BY <1>4 DEF PendingOK, MessageIds
<1>9. BirthsOK(main, worker)
  BY <1>2, <1>4 DEF BirthsOK, FinishOf
<1>10. ReadsOK(main, worker)
  <2>1. ReadBy(main.requests[1]) = {}
    BY <1>4 DEF ReadBy
  <2> QED
    BY <1>4, <2>1 DEF ReadsOK
<1>11. JobsOK(main, jobs) /\ RequestsOK(main, jobs) /\ TransformsOK(main, worker, jobs)
  BY <1>3 DEF JobsOK, RequestsOK, TransformsOK
<1>12. AnswersOK(main, worker, responses, jobs) /\ JobFramesOK(main, worker, jobs)
  BY <1>3 DEF AnswersOK, JobFramesOK
<1>13. HoldsOK(main, worker, responses, jobs) /\ ScanOwnersOK(main, worker, jobs)
  BY <1>3, <1>4 DEF HoldsOK, ScanOwnersOK
<1>14. ScanRequestsOK(main, responses, jobs) /\ ScanMessagesOK(main, worker, responses, jobs)
  BY <1>3, <1>4 DEF ScanRequestsOK, ScanMessagesOK, IsScan
<1>15. CoreOK(main, worker, responses, jobs)
  BY <1>6, <1>7, <1>8, <1>9, <1>10, <1>11, <1>12, <1>13, <1>14 DEF CoreOK
<1>16. \A q \in Queries : view.query # q
  BY <1>5, ComputationAssumption DEF NoQuery
<1>17. RegistryOK(main, worker, dispatched, computations) /\ UniqueOK(dispatched, computations)
  BY <1>3 DEF RegistryOK, UniqueOK, Shows
<1>18. OpenOK(jobs, dispatched, computations, view)
  BY <1>3, <1>16 DEF OpenOK, HasSort
<1>19. TablesOK(main, worker, responses, jobs, dispatched, computations, view)
  BY <1>3, <1>17, <1>18 DEF TablesOK, HeldOK, CreatedOK
<1>20. ViewOK(dispatched, computations, rendering, view)
  BY <1>5 DEF ViewOK
<1> QED
  BY <1>15, <1>19, <1>20 DEF ComputationInv, InvOK

LEMMA WorkerKeeps ==
  ASSUME ComputationInv, WorkerStep
  PROVE  InvOK(main', worker', responses', jobs, dispatched, computations, rendering, view)
<1>1. Core /\ TablesOK(main, worker, responses, jobs, dispatched, computations, view)
  BY DEF Core, ComputationInv, InvOK
<1>2. WorkerGoes
  BY <1>1, WorkerNextGoes DEF WorkerStep
<1>3. TablesOK(main', worker', responses', jobs, dispatched, computations, view)
  BY <1>1, <1>2, SparesTables DEF WorkerGoes, Goes, Core
<1> QED
  BY <1>2, <1>3 DEF WorkerGoes, Goes, ComputationInv, InvOK

LEMMA NextKeeps ==
  ASSUME ComputationInv, [Next]_vars
  PROVE  ComputationInv'
<1>1. Inv(jobs, dispatched)
  BY DEF ComputationInv, Inv
<1>2. ASSUME NEW query \in Queries, NEW table \in Results(query), analyzeTable(query, table)
      PROVE  ComputationInv'
  <2>1. NewState
    BY <1>2, AnalyzeKeeps
  <2> QED
    BY <1>2, <2>1 DEF NewState, analyzeTable, ComputationInv
<1>3. CASE WorkerStep
  BY <1>3, WorkerKeeps DEF WorkerStep, ComputationInv
<1>4. CASE OnScanMessage
  BY <1>1, <1>4, OnScanMessageKeeps DEF OnScanMessage, InvNext, ComputationInv
<1>5. CASE OnScanFinish
  BY <1>1, <1>5, OnScanFinishKeeps DEF OnScanFinish, InvNext, ComputationInv
<1>6. CASE OnError
  BY <1>1, <1>6, OnErrorKeeps DEF OnError, InvNext, ComputationInv
<1>7. CASE OnAnswer
  BY <1>1, <1>7, OnAnswerKeeps DEF OnAnswer, InvNext, ComputationInv
<1>8. CASE Reduce
  BY <1>8, ReduceKeeps DEF Reduce, ComputationInv
<1>9. CASE Render
  BY <1>9, RenderKeeps DEF Render, workerVars, ComputationInv
<1>10. ASSUME NEW query \in Queries, QueryResultView(query)
       PROVE  ComputationInv'
  BY <1>10, ViewKeeps DEF QueryResultView, workerVars, ComputationInv
<1>11. CASE CloseQueryResultView
  BY <1>11, CloseKeeps DEF CloseQueryResultView, workerVars, ComputationInv
<1>12. CASE UpdateGridLayout
  BY <1>12, LayoutKeeps DEF UpdateGridLayout, workerVars, ComputationInv
<1>13. ASSUME NEW column \in DOMAIN view.layout, orderByColumn(column)
       PROVE  ComputationInv'
  <2>1. NewState
    BY <1>13, OrderKeeps
  <2> QED
    BY <1>13, <2>1 DEF NewState, orderByColumn, ComputationInv
<1>14. CASE UNCHANGED vars
  BY <1>14 DEF vars, workerVars, ComputationInv
<1> QED
  BY <1>2, <1>3, <1>4, <1>5, <1>6, <1>7, <1>8, <1>9, <1>10, <1>11, <1>12, <1>13, <1>14
     DEF Next, Message

-----------------------------------------------------------------------------
(***************************************************************************)
(* Theorems.                                                               *)
(***************************************************************************)
\* What the worker, the port, the jobs, the registry and the page agree on is
\* kept by every step of analyzeTable and sortTable, by every message between
\* the page and the worker, and by every render (computation_actions.ts,
\* computation_state.ts, compute_worker_bindings.ts, data_table.tsx).
THEOREM ComputationIsInvariant == Spec => []ComputationInv
<1>1. ComputationInit => ComputationInv
  BY InitInv
<1>2. ComputationInv /\ [Next]_vars => ComputationInv'
  BY NextKeeps
<1> QED
  BY <1>1, <1>2, PTL DEF Spec

LEMMA InvImpliesFrames ==
  ASSUME ComputationInv
  PROVE  FramesOutliveTheirUse
<1>1. /\ ShapesOK(main, worker) /\ QueuesOK(main, worker, responses) /\ ReadsOK(main, worker)
      /\ RegistryOK(main, worker, dispatched, computations)
  BY DEF ComputationInv, InvOK, CoreOK, TablesOK
<1>2. DOMAIN main.requests = 1..Len(main.requests) /\ Len(main.requests) \in Nat
  BY <1>1, SeqDomain DEF QueuesOK
<1>3. ASSUME NEW query \in DOMAIN computations, computations[query].dataFrame # NoFrame
      PROVE  /\ computations[query].dataFrame \in DOMAIN worker.frames \ DeletedBefore(Len(main.requests) + 1)
             /\ worker.frames[computations[query].dataFrame] = computations[query].dataTable
             /\ computations[query].ordering # Null =>
                  computations[query].dataTable.order = computations[query].ordering
  <2>1. StateOK(main, worker, computations[query])
    BY <1>1 DEF RegistryOK
  <2>2. Living(main, worker, computations[query].dataFrame)
    BY <1>3, <2>1 DEF StateOK
  <2>3. computations[query].dataFrame \notin DeletedBefore(Len(main.requests) + 1)
    BY <1>2, <2>2 DEF Living, Doomed, Deletes, DeletedBefore
  <2> QED
    BY <1>3, <2>1, <2>2, <2>3 DEF StateOK, Living
<1>4. ASSUME NEW i \in DOMAIN main.requests, NEW f \in ReadBy(main.requests[i])
      PROVE  f \in DOMAIN worker.frames \ DeletedBefore(i)
  <2>1. f \in DOMAIN worker.frames /\ \A k \in 1..(i - 1) : ~Deletes(main.requests[k], f)
    BY <1>1 DEF ReadsOK
  <2> QED
    BY <2>1 DEF Deletes, DeletedBefore
<1> QED
  BY <1>3, <1>4 DEF FramesOutliveTheirUse

\* A frame is never deleted while something may still read it.  The frame the
\* registry has for a query is in the worker with just the table that is
\* displayed, and when the worker comes to a transform or a scan, its frames
\* are there, for any tables and any number of analyses and sorts under way
\* (computation_state.ts, computation_actions.ts, compute_worker_bindings.ts).
THEOREM FramesAreKept == Spec => []FramesOutliveTheirUse
<1>1. ComputationInv => FramesOutliveTheirUse
  BY InvImpliesFrames
<1> QED
  BY <1>1, ComputationIsInvariant, PTL
=============================================================================
