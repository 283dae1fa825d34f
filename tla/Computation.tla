----------------------------- MODULE Computation -----------------------------
(***************************************************************************)
(* The analysis of query results and the table that shows them             *)
(* (dashql-app/src/compute/computation_state.ts, computation_actions.ts,   *)
(* view/query_result/data_table.tsx and query_result_view.tsx).            *)
(*                                                                         *)
(* analyzeTable and sortTable are coroutines: a job is one call of either, *)
(* with the await at which it stands.  What they dispatch waits in         *)
(* `dispatched` until React renders, and the reducer runs then: it posts   *)
(* the deletion of a replaced frame itself.  The table of a query can be   *)
(* opened once its query has succeeded, which is after its analysis.       *)
(***************************************************************************)
EXTENDS ComputeWorker

CONSTANTS Queries,      \* query ids, numbered in the order of their analyses
          Results(_),   \* the tables that a query may have: sequences of fields
          DebugModes,   \* interfaceDebugMode: whether meta columns are shown
          MaxJobs,      \* bound: how many analyses and sorts there are
          MaxRunning,   \* bound: jobs under way when a sort begins
          MaxUnrendered \* bound: actions that wait before a message is taken

ASSUME ComputationAssumption ==
    /\ Queries \subseteq Nat \ {0}
    /\ DebugModes \subseteq BOOLEAN
    /\ {MaxJobs, MaxRunning, MaxUnrendered} \subseteq Nat

VARIABLES
    jobs,          \* the calls of analyzeTable and sortTable
    dispatched,    \* actions that wait for the reducer
    computations,  \* the computation registry: query id -> state of its table
    rendering,     \* whether a render has begun to reduce what was dispatched
    view,          \* the data table on the page
    debug          \* the setting interfaceDebugMode

vars == <<workerVars, jobs, dispatched, computations, rendering, view, debug>>

(***************************************************************************)
(* The registry (computation_state.ts)                                     *)
(***************************************************************************)
NoSummary == [frame |-> NoFrame, fields |-> <<>>]

\* tableFrame tells the table objects apart: the frame that it was read from.
createTableComputationState(table, columns) ==
    [dataTable |-> [fields |-> table, order |-> Null],
     tableFrame |-> NoFrame,
     dataFrame |-> NoFrame,
     ordering |-> Null,
     orderingStatus |-> "none",
     columnGroups |-> columns,
     columnStatus |-> <<>>,
     columnSummaries |-> <<>>,
     summaryStatus |-> "none",
     summary |-> NoSummary,
     precomputationStatus |-> "none"]

Action(type, query, value) == [type |-> type, query |-> query, value |-> value]

\* The reducer works on the registry and on the port of the worker.
Put(s, query, state) == [s EXCEPT !.tables = With(@, query, state)]

reduceFromQueryResult(s, a) ==
    Put(s, a.query, createTableComputationState(a.value.table, a.value.columns))

reduceCreatedDataFrame(s, a) ==
    Put(s, a.query, [s.tables[a.query] EXCEPT !.dataFrame = a.value])

\* mutant: the frame stays the one that is deleted
KeepsReplacedFrame(s, a) ==
    LET state == s.tables[a.query]
    IN  [Put(s, a.query, [state EXCEPT !.dataTable = a.value.table,
                                       !.tableFrame = a.value.frame,
                                       !.ordering = a.value.ordering,
                                       !.orderingStatus = "succeeded"])
         EXCEPT !.main = IF state.dataFrame = NoFrame THEN @
                         ELSE deleteFrame(@, state.dataFrame)]

\* The frame that is replaced is deleted.
reduceOrderingSucceeded(s, a) ==
    LET state == s.tables[a.query]
    IN  [Put(s, a.query, [state EXCEPT !.dataFrame = a.value.frame,
                                       !.dataTable = a.value.table,
                                       !.tableFrame = a.value.frame,
                                       !.ordering = a.value.ordering,
                                       !.orderingStatus = "succeeded"])
         EXCEPT !.main = IF state.dataFrame = NoFrame THEN @
                         ELSE deleteFrame(@, state.dataFrame)]

reduceSummaryStatus(s, a) ==
    Put(s, a.query, [s.tables[a.query] EXCEPT !.summaryStatus = a.value])

reduceSummarySucceeded(s, a) ==
    Put(s, a.query, [s.tables[a.query] EXCEPT !.summaryStatus = "succeeded",
                                              !.summary = a.value])

reducePrecomputationStatus(s, a) ==
    Put(s, a.query, [s.tables[a.query] EXCEPT !.precomputationStatus = a.value])

\* The progress that comes with the result is the one of the running task, and
\* it is stored as the status of the summary.
reducePrecomputationSucceeded(s, a) ==
    Put(s, a.query, [s.tables[a.query] EXCEPT !.dataTable = a.value.table,
                                              !.tableFrame = a.value.frame,
                                              !.dataFrame = a.value.frame,
                                              !.columnGroups = a.value.columns,
                                              !.summaryStatus = "running"])

reduceColumnStatus(s, a) ==
    Put(s, a.query, [s.tables[a.query] EXCEPT
                        !.columnStatus = With(@, a.value.column, a.value.status)])

reduceColumnSucceeded(s, a) ==
    Put(s, a.query, [s.tables[a.query] EXCEPT
                        !.columnStatus = With(@, a.value.column, "succeeded"),
                        !.columnSummaries = With(@, a.value.column, a.value.summary)])

\* Orderings that run or fail have no case.
reduceComputationState(s, a) ==
    IF a.type = "COMPUTATION_FROM_QUERY_RESULT" THEN reduceFromQueryResult(s, a)
    ELSE IF a.query \notin DOMAIN s.tables THEN s
    ELSE
    CASE a.type = "CREATED_DATA_FRAME"               -> reduceCreatedDataFrame(s, a)
      [] a.type = "TABLE_ORDERING_TASK_SUCCEEDED"    -> reduceOrderingSucceeded(s, a)
      [] a.type = "TABLE_SUMMARY_TASK"               -> reduceSummaryStatus(s, a)
      [] a.type = "TABLE_SUMMARY_TASK_SUCCEEDED"     -> reduceSummarySucceeded(s, a)
      [] a.type = "PRECOMPUTATION_TASK"              -> reducePrecomputationStatus(s, a)
      [] a.type = "PRECOMPUTATION_TASK_SUCCEEDED"    -> reducePrecomputationSucceeded(s, a)
      [] a.type = "COLUMN_SUMMARY_TASK"              -> reduceColumnStatus(s, a)
      [] a.type = "COLUMN_SUMMARY_TASK_SUCCEEDED"    -> reduceColumnSucceeded(s, a)
      [] OTHER                                       -> s

(***************************************************************************)
(* The jobs (computation_actions.ts)                                       *)
(***************************************************************************)
\* The columns and transforms of the analysis of each table.
Tables    == UNION {Results(query) : query \in Queries}
Summary   == [t \in Tables |-> createTableSummaryTransform(buildGridColumns(t))]
Metadata  == [t \in Tables |-> createPrecomputationTransform(t, Summary[t].columns)]
SummaryFields == [t \in Tables |-> transform_fields(Summary[t].transform, t)]
ColumnTransform == [t \in Tables |->
    [i \in DOMAIN Metadata[t].columns |->
        IF Metadata[t].columns[i].type \in {"ROWNUMBER", "SKIPPED"} THEN NoTransform
        ELSE createColumnSummaryTransform(Metadata[t].columns[i])]]

Job(kind, query, table, at) ==
    [kind |-> kind, query |-> query, table |-> table, at |-> at, frame |-> NoFrame,
     stats |-> NoFrame, out |-> NoFrame, column |-> 0, ordering |-> Null, data |-> <<>>,
     failure |-> [at |-> "none", error |-> "none"]]

\* Of the columns after this one, the first that is summarised; 0 if none is.
NextColumn(table, column) ==
    LET rest == {i \in DOMAIN Metadata[table].columns :
                    /\ i > column
                    /\ Metadata[table].columns[i].type \notin {"ROWNUMBER", "SKIPPED"}}
    IN  IF rest = {} THEN 0 ELSE CHOOSE i \in rest : \A k \in rest : i <= k

Analyses(query) == {j \in DOMAIN jobs : jobs[j].kind = "analyze" /\ jobs[j].query = query}

Running == {j \in DOMAIN jobs : jobs[j].at \notin {"done", "failed", "stuck"}}

\* One turn of job j: its new record, what it posts and what it dispatches.
Turn(j, job, m, actions) ==
    /\ jobs' = [jobs EXCEPT ![j] = job]
    /\ main' = m
    /\ dispatched' = dispatched \o actions

analyzeTable(query, table) ==
    /\ ~rendering
    /\ Analyses(query) = {}
    /\ Len(jobs) < MaxJobs
    /\ Running \cap UNION {Analyses(earlier) : earlier \in Queries} = {}
    /\ \A earlier \in Queries : earlier < query => Analyses(earlier) # {}
    /\ jobs' = Append(jobs, Job("analyze", query, table, "ingest"))
    /\ main' = createArrowIngest(main, Len(jobs) + 1)
    /\ dispatched' = Append(dispatched,
            Action("COMPUTATION_FROM_QUERY_RESULT", query,
                   [table |-> table, columns |-> buildGridColumns(table)]))
    /\ UNCHANGED <<worker, responses, computations, rendering, view, debug>>

\* What a job does when the task that it awaits has the answer `result`, the id
\* of a frame where the task returns one.  m is the port without that task.
Ingests(j, m, result) ==
    /\ jobs[j].at = "ingest"
    /\ Turn(j, [jobs[j] EXCEPT !.at = "write", !.frame = result.frame],
            writeTable(m, j, result.frame, jobs[j].table), <<>>)

Writes(j, m, result) ==
    /\ jobs[j].at = "write"
    /\ Turn(j, [jobs[j] EXCEPT !.at = "finish"], finishIngest(m, j, jobs[j].frame), <<>>)

computeTableSummary(j, m, result) ==
    /\ jobs[j].at = "finish"
    /\ Turn(j, [jobs[j] EXCEPT !.at = "summarize"],
            transformFrame(m, j, jobs[j].frame, Summary[jobs[j].table].transform, NoFrame),
            <<Action("CREATED_DATA_FRAME", jobs[j].query, jobs[j].frame),
              Action("TABLE_SUMMARY_TASK", jobs[j].query, "running")>>)

\* The transforms are followed by a scan of what they made.
ReadOf == [summarize  |-> "read_summary", precompute |-> "read_metadata",
           column     |-> "read_column",  sort       |-> "read_sorted"]

ReadsResult(j, m, result) ==
    /\ jobs[j].at \in {"summarize", "precompute", "column", "sort"}
    /\ Turn(j, [jobs[j] EXCEPT !.at = ReadOf[@], !.out = result.frame, !.data = <<>>],
            readTable(m, j, result.frame), <<>>)

precomputeMetadataColumns(j, m, result) ==
    /\ jobs[j].at = "read_summary"
    /\ Turn(j, [jobs[j] EXCEPT !.at = "precompute", !.stats = jobs[j].out],
            transformFrame(m, j, jobs[j].frame, Metadata[jobs[j].table].transform, jobs[j].out),
            <<Action("TABLE_SUMMARY_TASK_SUCCEEDED", jobs[j].query,
                     [frame |-> jobs[j].out, fields |-> tableFromIPC(jobs[j].data).fields]),
              Action("PRECOMPUTATION_TASK", jobs[j].query, "running")>>)

ColumnStatus(job, column, status) ==
    Action("COLUMN_SUMMARY_TASK", job.query, [column |-> column - 1, status |-> status])

\* The summary of the next column begins, or the analysis is done.
computeColumnSummary(j, job, m, actions) ==
    LET next == NextColumn(job.table, job.column)
    IN  IF next = 0 THEN Turn(j, [job EXCEPT !.at = "done", !.data = <<>>], m, actions)
        ELSE Turn(j, [job EXCEPT !.at = "column", !.column = next, !.data = <<>>],
                  transformFrame(m, j, job.frame, ColumnTransform[job.table][next], job.stats),
                  Append(actions, ColumnStatus(job, next, "running")))

SummarizesColumns(j, m, result) ==
    /\ jobs[j].at = "read_metadata"
    /\ computeColumnSummary(j, [jobs[j] EXCEPT !.frame = jobs[j].out], m,
            <<Action("PRECOMPUTATION_TASK_SUCCEEDED", jobs[j].query,
                     [table |-> tableFromIPC(jobs[j].data), frame |-> jobs[j].out,
                      columns |-> Metadata[jobs[j].table].columns])>>)

ColumnAnalysis(job) ==
    LET column == Metadata[job.table].columns[job.column]
        fields == tableFromIPC(job.data).fields
    IN  CASE column.type = "ORDINAL" -> analyzeOrdinalColumn(SummaryFields[job.table], column, fields)
          [] column.type = "STRING"  -> analyzeStringColumn(SummaryFields[job.table], column, fields)
          [] column.type = "LIST"    -> analyzeListColumn(SummaryFields[job.table], column, fields)

SummaryOf(job) == LET column == Metadata[job.table].columns[job.column]
                  IN  [type |-> column.type, field |-> column.field]

\* The frame of the column is deleted before its table is looked at.
SummarizedColumn(j, m, result) ==
    /\ jobs[j].at = "read_column"
    /\ IF ColumnAnalysis(jobs[j])
       THEN computeColumnSummary(j, jobs[j], deleteFrame(m, jobs[j].out),
                <<Action("COLUMN_SUMMARY_TASK_SUCCEEDED", jobs[j].query,
                         [column |-> jobs[j].column - 1,
                          summary |-> SummaryOf(jobs[j])])>>)
       ELSE Turn(j, [jobs[j] EXCEPT !.at = "failed",
                                    !.failure = [at |-> jobs[j].at, error |-> "analysis"]],
                 deleteFrame(m, jobs[j].out),
                 <<ColumnStatus(jobs[j], jobs[j].column, "failed")>>)

Sorted(j, m, result) ==
    /\ jobs[j].at = "read_sorted"
    /\ Turn(j, [jobs[j] EXCEPT !.at = "done", !.data = <<>>], m,
            <<Action("TABLE_ORDERING_TASK_SUCCEEDED", jobs[j].query,
                     [frame |-> jobs[j].out, table |-> tableFromIPC(jobs[j].data),
                      ordering |-> jobs[j].ordering])>>)

Resumes(j, m, result) ==
    \/ Ingests(j, m, result)
    \/ Writes(j, m, result)
    \/ computeTableSummary(j, m, result)
    \/ ReadsResult(j, m, result)
    \/ precomputeMetadataColumns(j, m, result)
    \/ SummarizesColumns(j, m, result)
    \/ SummarizedColumn(j, m, result)
    \/ Sorted(j, m, result)

\* The status that a failed task leaves behind; ingests leave none.
Failure(job) ==
    CASE job.at = "summarize"        -> <<Action("TABLE_SUMMARY_TASK", job.query, "failed")>>
      [] job.at = "precompute"       -> <<Action("PRECOMPUTATION_TASK", job.query, "failed")>>
      [] job.at = "column"           -> <<ColumnStatus(job, job.column, "failed")>>
      [] OTHER                       -> <<>>

\* A scan that fails takes its entry away and waits for it forever.
Reading(job) == job.at \in {"read_summary", "read_metadata", "read_column", "read_sorted"}

Throws(j, m, error) ==
    LET failure == [at |-> jobs[j].at, error |-> error] IN
    IF Reading(jobs[j])
    THEN Turn(j, [jobs[j] EXCEPT !.at = "stuck", !.failure = failure],
              [m EXCEPT !.activeScans = Restrict(@, {s \in DOMAIN @ : @[s].owner # j})], <<>>)
    ELSE Turn(j, [jobs[j] EXCEPT !.at = "failed", !.failure = failure], m, Failure(jobs[j]))

(***************************************************************************)
(* The messages of the worker (compute_worker_bindings.ts, onMessage)      *)
(***************************************************************************)
response == Head(responses)
Delivers ==
    /\ ~rendering
    /\ responses # <<>>
    /\ Len(dispatched) <= MaxUnrendered
    /\ responses' = Tail(responses)

OnScanMessage ==
    /\ Delivers
    /\ response.type = "DATAFRAME_SCAN_MESSAGE"
    /\ main' = scanMessage(main, response.data.scan, response.data.buffer)
    /\ UNCHANGED <<worker, jobs, dispatched, computations, rendering, view, debug>>

\* The promise of the scan has its data, the task is still to be answered.
OnScanFinish ==
    /\ Delivers
    /\ response.type = "DATAFRAME_SCAN_FINISH"
    /\ LET scan == response.data.scan
       IN  IF scan \notin DOMAIN main.activeScans THEN UNCHANGED <<main, jobs>>
           ELSE /\ jobs' = [jobs EXCEPT ![main.activeScans[scan].owner].data =
                                main.activeScans[scan].messageData]
                /\ main' = scanFinish(main, scan)
    /\ UNCHANGED <<worker, dispatched, computations, rendering, view, debug>>

OnError ==
    /\ Delivers
    /\ response.type = "error"
    /\ main' = onError(main)
    /\ UNCHANGED <<worker, jobs, dispatched, computations, rendering, view, debug>>

OnAnswer ==
    /\ Delivers
    /\ response.type \in {"OK", "ERROR", "DATAFRAME_ID"}
    /\ IF response.requestId \notin DOMAIN main.pendingRequests
       THEN UNCHANGED <<jobs, main, dispatched>>
       ELSE LET task == main.pendingRequests[response.requestId]
                m    == takePending(main, response.requestId)
            IN  IF task.owner \in {Nobody, Provider}
                THEN main' = m /\ UNCHANGED <<jobs, dispatched>>
                ELSE IF Resolves(task, response)
                THEN Resumes(task.owner, m, response.data)
                ELSE Throws(task.owner, m, response.data.error)
    /\ UNCHANGED <<worker, computations, rendering, view, debug>>

(***************************************************************************)
(* The table on the page (query_result_view.tsx, data_table.tsx)           *)
(***************************************************************************)
NoQuery == 0
Closed == [query |-> NoQuery, layout |-> <<>>, frame |-> NoFrame, stale |-> FALSE,
           reused |-> FALSE, rendered |-> Null]

Succeeded(query) == \E j \in Analyses(query) : jobs[j].at = "done"

\* The cells keep the frame of the render that made them: they are made anew
\* when the table, a summary, a status or the layout changes.
CellsChange(old, new) ==
    \/ old.tableFrame # new.tableFrame
    \/ old.columnStatus # new.columnStatus
    \/ old.columnSummaries # new.columnSummaries

\* React runs the reducer over the queue.
Reduce ==
    /\ dispatched # <<>>
    /\ LET s == reduceComputationState([tables |-> computations, main |-> main], Head(dispatched))
       IN  /\ computations' = s.tables
           /\ main' = s.main
    /\ dispatched' = Tail(dispatched)
    /\ rendering' = TRUE
    /\ UNCHANGED <<worker, responses, jobs, view, debug>>

\* Then it renders the table anew, if the page shows one.
Render ==
    /\ rendering /\ dispatched = <<>>
    /\ rendering' = FALSE
    /\ view' = IF view.query = NoQuery THEN view
               ELSE LET old == view.rendered
                        new == computations[view.query]
                    IN  [view EXCEPT
                             !.rendered = new,
                             !.frame = IF CellsChange(old, new) THEN new.dataFrame ELSE @,
                             !.stale = @ \/ old.tableFrame # new.tableFrame
                                         \/ old.columnGroups # new.columnGroups]
    /\ UNCHANGED <<workerVars, jobs, dispatched, computations, debug>>

\* The page shows the result of another query: a data table that is already
\* there is kept, with its layout.
QueryResultView(query) ==
    /\ ~rendering /\ dispatched = <<>>
    /\ Succeeded(query)
    /\ query \in DOMAIN computations
    /\ view.query # query
    /\ view' = [query |-> query, layout |-> view.layout, frame |-> computations[query].dataFrame,
                stale |-> TRUE, reused |-> view.query # NoQuery, rendered |-> computations[query]]
    /\ UNCHANGED <<workerVars, jobs, dispatched, computations, rendering, debug>>

\* Another tab of the page is selected.
CloseQueryResultView ==
    /\ ~rendering
    /\ view.query # NoQuery
    /\ view' = Closed
    /\ UNCHANGED <<workerVars, jobs, dispatched, computations, rendering, debug>>

\* What the cells of a displayed column show: the name of its field, and the
\* plot of its summary.  The first column has a corner instead of a plot.
HeaderCell(state, displayed) == state.dataTable.fields[displayed.field + 1].name

PlotsCell(state, displayed) ==
    IF displayed.group \notin DOMAIN state.columnSummaries THEN "empty"
    ELSE IF state.summary = NoSummary THEN "no table summary"
    ELSE CASE state.columnStatus[displayed.group] = "running" -> "progress"
           [] state.columnStatus[displayed.group] = "failed"  -> "failed"
           [] OTHER -> state.columnSummaries[displayed.group].type

\* The effect after a render: the layout follows the columns and the table.
UpdateGridLayout ==
    /\ ~rendering /\ view.stale
    /\ LET state == computations[view.query]
           next  == computeGridLayout(state.dataTable.fields, state.columnGroups, debug)
       IN  \E wider \in BOOLEAN :
             view' = IF skipGridLayoutUpdate(view.layout, next, wider)
                     THEN [view EXCEPT !.stale = FALSE]
                     ELSE [view EXCEPT !.stale = FALSE, !.reused = FALSE, !.layout = next,
                                       !.frame = state.dataFrame]
    /\ UNCHANGED <<workerVars, jobs, dispatched, computations, rendering, debug>>

\* The user sorts by a displayed column: the cells know the frame.
orderByColumn(column) ==
    /\ ~rendering
    /\ view.query # NoQuery /\ ~view.stale
    /\ view.frame # NoFrame
    /\ Cardinality(Running) < MaxRunning
    /\ Len(jobs) < MaxJobs
    /\ view.layout[column].field < Len(computations[view.query].dataTable.fields)
    /\ LET state == computations[view.query]
           field == state.dataTable.fields[view.layout[column].field + 1].name
           j     == Len(jobs) + 1
       IN  /\ jobs' = Append(jobs,
                        [Job("sort", view.query, state.dataTable.fields, "sort") EXCEPT
                            !.frame = view.frame, !.ordering = field])
           /\ main' = transformFrame(main, j, view.frame, createOrderByTransform(field), NoFrame)
           /\ dispatched' = Append(dispatched,
                                   Action("TABLE_ORDERING_TASK_RUNNING", view.query, Null))
    /\ UNCHANGED <<worker, responses, computations, rendering, view, debug>>

(***************************************************************************)
(* The specification                                                       *)
(***************************************************************************)
ComputationInit ==
    /\ Init
    /\ jobs = <<>>
    /\ dispatched = <<>>
    /\ computations = <<>>
    /\ rendering = FALSE
    /\ view = Closed
    /\ debug \in DebugModes

WorkerStep == WorkerNext /\ UNCHANGED <<jobs, dispatched, computations, rendering, view, debug>>
Message == OnScanMessage \/ OnScanFinish \/ OnError \/ OnAnswer

Next ==
    \/ \E query \in Queries : \E table \in Results(query) : analyzeTable(query, table)
    \/ WorkerStep
    \/ Message
    \/ Reduce
    \/ Render
    \/ \E query \in Queries : QueryResultView(query)
    \/ CloseQueryResultView
    \/ UpdateGridLayout
    \/ \E column \in DOMAIN view.layout : orderByColumn(column)

\* The event loops of the page and of the worker go on.
Fairness ==
    /\ WF_vars(WorkerStep)
    /\ WF_vars(Message)
    /\ WF_vars(Reduce)
    /\ WF_vars(Render)
    /\ WF_vars(UpdateGridLayout)

Spec == ComputationInit /\ [][Next]_vars /\ Fairness

(***************************************************************************)
(* Properties                                                              *)
(***************************************************************************)
\* The frames that a request in the queue reads.
ReadBy(r) ==
    CASE r.type = "DATAFRAME_SCAN"      -> {r.data.frame}
      [] r.type = "DATAFRAME_TRANSFORM" -> {r.data.frame, r.data.stats} \ {NoFrame}
      [] OTHER                          -> {}

DeletedBefore(i) ==
    {main.requests[k].data.frame :
        k \in {k \in 1 .. i - 1 : main.requests[k].type = "DATAFRAME_DELETE"}}

\* Frames outlive their use.  The frame that the registry has for a table is in
\* the worker, holds just the table that is displayed, sorted as the registry
\* says, and is not about to be deleted; and when the worker comes to a
\* transform or a scan, the frames it names are still there, although every
\* sort deletes the frame that it replaces while other jobs and other sorts of
\* the same table are under way (computation_state.ts, computation_actions.ts).
FramesOutliveTheirUse ==
    /\ \A query \in DOMAIN computations :
        LET state == computations[query]
        IN  state.dataFrame # NoFrame =>
                /\ state.dataFrame \in DOMAIN worker.frames \ DeletedBefore(Len(main.requests) + 1)
                /\ worker.frames[state.dataFrame] = state.dataTable
                /\ state.ordering # Null => state.dataTable.order = state.ordering
    /\ \A i \in DOMAIN main.requests :
        ReadBy(main.requests[i]) \subseteq DOMAIN worker.frames \ DeletedBefore(i)

\* Once its effect has run, the grid shows the table below it: it has as many
\* columns as were counted, each shows a field that the table has, and the plot
\* above a column is that of the field it shows, although the groups are
\* numbered anew when the precomputation adds columns (data_table.tsx).
\* A grid that was kept for another query is left out until its layout is
\* replaced: an update that makes no column start later is skipped.
GridFitsTable ==
    ~rendering /\ view.query # NoQuery /\ ~view.stale /\ ~view.reused =>
        LET state == computations[view.query]
        IN  /\ view.layout = computeGridLayout(state.dataTable.fields, state.columnGroups, debug)
            /\ Len(view.layout) = computeColumnCount(state.columnGroups, debug)
            /\ \A c \in DOMAIN view.layout :
                /\ view.layout[c].field < Len(state.dataTable.fields)
                /\ c # 1 /\ PlotsCell(state, view.layout[c]) \in {"ORDINAL", "STRING"} =>
                        HeaderCell(state, view.layout[c])
                            = state.columnSummaries[view.layout[c].group].field

\* What excuses an analysis that does not succeed: the compute module could not be
\* called, failed on the data, or was asked to bin a column of a type that it cannot bin.
Excused(j) ==
    /\ jobs[j].at \in {"failed", "stuck"}
    /\ \/ jobs[j].failure.error \in {"module", "execution"}
       \/ /\ jobs[j].failure = [at |-> "precompute", error |-> "refused"]
          /\ \E i \in DOMAIN jobs[j].table : jobs[j].table[i].type = "bool"

\* Every analysis that begins ends, however many tasks are under way, and no mistake of
\* the app ends it: no request comes for a frame that the worker does not have, no
\* transform names a field that the frame does not have, and no summary lacks what the
\* analysis looks for.  What is left are errors of the compute module: they end the
\* analysis, and leave it waiting if they end a scan.  Nothing is answered when the
\* script of the worker never ran.
AnalysesSettle ==
    \A query \in Queries :
        Analyses(query) # {} ~>
            \/ worker.module = "dead"
            \/ \E j \in Analyses(query) : jobs[j].at = "done" \/ Excused(j)

=============================================================================
