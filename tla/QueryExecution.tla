--------------------------- MODULE QueryExecution ---------------------------
(***************************************************************************)
(* Queries of the app: the reducer of query actions, the result streams of *)
(* the connectors and the executor that drives a query through both        *)
(* (src/packages/dashql-app/src/connection/query_executor.tsx,             *)
(* query_execution_state.ts and the connector directories).                *)
(*                                                                         *)
(* JavaScript runs one callback at a time, so that an action is the code   *)
(* between two awaits.  An executor that awaits something is a record in   *)
(* exec; what it awaits may answer in any order.  A dispatch is a function *)
(* from the old state of the connection to the new one (React applies      *)
(* dispatches in order and before any effect that reads the state).  The   *)
(* connection's health and channel are set up by ConnectionSetup; here     *)
(* they are inputs.                                                        *)
(*                                                                         *)
(* A record batch is its number in the stream.  Nothing aborts the signal  *)
(* of a query, and no action prepares one: QUERY_CANCELLED and             *)
(* QUERY_PREPARING are never dispatched and have no operator.  A            *)
(* serverless connection is never online: nothing is executed on it.  The  *)
(* compute worker is there; without it the executor throws before a query  *)
(* exists.                                                                 *)
(***************************************************************************)
EXTENDS Naturals, Sequences, FiniteSets, SequencesExt, Functions

CONSTANTS
  Connectors,  \* the connectors a connection may have
  MaxQueries,  \* bound: queries that are executed
  MaxBatches,  \* bound: record batches of a result
  MaxFetches,  \* bound: responses of a Trino query
  MaxResets    \* bound: RESET actions

ASSUME QueryAssumption ==
  /\ Connectors \subseteq {"HYPER_GRPC", "SALESFORCE_DATA_CLOUD", "TRINO", "DEMO"}
  /\ {MaxQueries, MaxBatches, MaxResets} \subseteq Nat
  /\ MaxFetches \in Nat \ {0}

VARIABLES
  connector,     \* the type of the connection
  conn,          \* the ConnectionState
  NEXT_QUERY_ID,
  exec,          \* what the executor of a query awaits
  server,        \* what the database has sent of a query
  resets         \* the number of RESET actions

queryVars == <<connector, conn, NEXT_QUERY_ID, exec, server, resets>>

Queries == 1..MaxQueries
QueryExecutionStatus ==
  {"REQUESTED", "SENDING", "RUNNING", "RECEIVED_FIRST_BATCH",
   "RECEIVED_ALL_BATCHES", "PROCESSING_RESULTS", "PROCESSED_RESULTS",
   "SUCCEEDED", "FAILED"}
queryIsDone(status) == status \in {"SUCCEEDED", "FAILED"}

Batches == 1..MaxBatches
NoTable == <<0>>
Tables == {NoTable} \cup UNION {[1..n -> Batches] : n \in 0..MaxBatches}

-----------------------------------------------------------------------------
(***************************************************************************)
(* The connection state and its reducer.  Maps are functions of the ids    *)
(* they hold; the metrics count the queries that finished.                 *)
(***************************************************************************)
NoQueries == [q \in {} |-> {}]
createConnectionMetrics == [successfulQueries |-> 0, failedQueries |-> 0]
NoUpdates == [tasksRunning |-> NoQueries, tasksFinished |-> NoQueries, lastFullRefresh |-> 0]

createConnectionState(online) ==
  [connectionHealth |-> IF online THEN "ONLINE" ELSE "NOT_STARTED",
   channel |-> online, metrics |-> createConnectionMetrics,
   catalog |-> 0, catalogUpdates |-> NoUpdates, snapshot |-> 1,
   queriesActive |-> NoQueries, queriesActiveOrdered |-> <<>>,
   queriesFinished |-> NoQueries, queriesFinishedOrdered |-> <<>>]

Put(map, key, value) == [k \in DOMAIN map \cup {key} |-> IF k = key THEN value ELSE map[k]]
Delete(map, key) == Restrict(map, DOMAIN map \ {key})
\* mutant
removeNothingFromArray(arr, value) == arr
removePrimitiveFromArray(arr, value) ==
  IF Contains(arr, value) THEN RemoveFirst(arr, value) ELSE arr

QueryExecutionState(status) ==
  [status |-> status, progressUpdates |-> 0, resultBatches |-> <<>>, resultTable |-> NoTable]

ExecuteQuery(s, q) ==
  [s EXCEPT !.queriesActive = Put(@, q, QueryExecutionState("REQUESTED")),
            !.queriesActiveOrdered = Append(@, q),
            !.snapshot = @ + 1]

\* An action for a query that is not active is ignored.
Active(s, q) == q \in DOMAIN s.queriesActive
SetStatus(s, q, status) ==
  IF Active(s, q) THEN [s EXCEPT !.queriesActive[q].status = status] ELSE s

QuerySending(s, q) == SetStatus(s, q, "SENDING")
QueryRunning(s, q) == SetStatus(s, q, "RUNNING")
\* The status turns to QUEUED while SENDING only, and progress is reported
\* by a stream, which is there after SENDING.
QueryProgressUpdated(s, q) ==
  IF Active(s, q)
  THEN [s EXCEPT !.queriesActive[q].progressUpdates = @ + 1]
  ELSE s
QueryReceivedBatch(s, q, batch) ==
  IF Active(s, q)
  THEN [s EXCEPT !.queriesActive[q].resultBatches = Append(@, batch),
                 !.queriesActive[q].status = "RECEIVED_FIRST_BATCH"]
  ELSE s
QueryReceivedAllBatches(s, q, table) ==
  IF Active(s, q)
  THEN [s EXCEPT !.queriesActive[q].resultTable = table,
                 !.queriesActive[q].status = "RECEIVED_ALL_BATCHES"]
  ELSE s
QueryProcessingResults(s, q) == SetStatus(s, q, "PROCESSING_RESULTS")
QueryProcessedResults(s, q) == SetStatus(s, q, "PROCESSED_RESULTS")

\* mutant
FinishQueryQuietly(s, q, status) ==
  [s EXCEPT !.queriesActive = Delete(@, q),
            !.queriesActiveOrdered = removePrimitiveFromArray(@, q),
            !.queriesFinished = Put(@, q, [s.queriesActive[q] EXCEPT !.status = status]),
            !.queriesFinishedOrdered = Append(@, q)]
FinishQuery(s, q, status) ==
  [s EXCEPT !.queriesActive = Delete(@, q),
            !.queriesActiveOrdered = removePrimitiveFromArray(@, q),
            !.queriesFinished = Put(@, q, [s.queriesActive[q] EXCEPT !.status = status]),
            !.queriesFinishedOrdered = Append(@, q),
            !.snapshot = @ + 1]
mergeQueryMetrics(total) == total + 1

QuerySucceeded(s, q) ==
  IF Active(s, q)
  THEN [FinishQuery(s, q, "SUCCEEDED")
          EXCEPT !.metrics.successfulQueries = mergeQueryMetrics(@)]
  ELSE s
QueryFailed(s, q) ==
  IF Active(s, q)
  THEN [FinishQuery(s, q, "FAILED")
          EXCEPT !.metrics.failedQueries = mergeQueryMetrics(@)]
  ELSE s

\* RESET empties the maps and keeps the ordered ids.  The reducers of Hyper
\* and Salesforce connections also give up the channel; the case of Trino is
\* labelled with HYPER_GRPC a second time and never taken.
Reset(s) ==
  [s EXCEPT !.connectionHealth = "NOT_STARTED",
            !.channel = IF connector \in {"HYPER_GRPC", "SALESFORCE_DATA_CLOUD"}
                        THEN FALSE ELSE @,
            !.metrics = createConnectionMetrics,
            !.catalog = 0,
            !.catalogUpdates = NoUpdates,
            !.queriesActive = NoQueries,
            !.queriesFinished = NoQueries]

-----------------------------------------------------------------------------
(***************************************************************************)
(* The executor.  issued is the number of RESET actions before the query   *)
(* was executed, schema tells if the stream has resolved the schema.       *)
(***************************************************************************)
NoExecution == [state |-> "none", analyze |-> FALSE, hasChannel |-> FALSE, issued |-> 0,
                schema |-> FALSE, batches |-> <<>>]
NoResponse == [state |-> "none", sent |-> 0, responses |-> 0]

Initialize(c) ==
  /\ connector = c
  /\ conn = createConnectionState(c = "DEMO")
  /\ NEXT_QUERY_ID = 1
  /\ exec = [q \in Queries |-> NoExecution]
  /\ server = [q \in Queries |-> NoResponse]
  /\ resets = 0

InitQueries == \E c \in Connectors : Initialize(c)

\* executeImpl up to its first await.
Executed(s, q) == QuerySending(ExecuteQuery(s, q), q)

Execution(s, analyze) ==
  [NoExecution EXCEPT !.state = "sending", !.analyze = analyze,
                      !.hasChannel = s.channel, !.issued = resets]

CanExecute == NEXT_QUERY_ID <= MaxQueries \* bound
execute(analyze) ==
  /\ NEXT_QUERY_ID' = NEXT_QUERY_ID + 1
  /\ exec' = [exec EXCEPT ![NEXT_QUERY_ID] = Execution(conn, analyze)]

ExecuteEditorQuery ==
  /\ conn.connectionHealth = "ONLINE"
  /\ CanExecute
  /\ conn' = Executed(conn, NEXT_QUERY_ID)
  /\ execute(TRUE)
  /\ UNCHANGED <<connector, server, resets>>

\* The executor rethrows after it has reported a failure.
Fail(q) ==
  /\ conn' = QueryFailed(conn, q)
  /\ exec' = [exec EXCEPT ![q].state = "failed"]
  /\ UNCHANGED <<connector, NEXT_QUERY_ID, resets>>

\* The connector refuses the query without a channel, and the database may.
StartFails(q) ==
  /\ exec[q].state = "sending"
  /\ Fail(q)
  /\ UNCHANGED server

\* The loop treats the states QUEUED, RUNNING and FINISHING alike.
TrinoRuns == {"RUNNING"}
TrinoEnds == {"FINISHED", "FAILED"}

\* The first response of Trino has no rows.  A query that the response
\* already reports as failed is treated as one without a result.
FirstStates == IF connector = "TRINO" THEN {"RUNNING", "FAILED"} ELSE {"RUNNING"}

StartStream(q) ==
  /\ exec[q].state = "sending"
  /\ exec[q].hasChannel
  /\ conn' = QueryRunning(conn, q)
  /\ exec' = [exec EXCEPT ![q].state = "streaming"]
  /\ \E s \in FirstStates : server' = [server EXCEPT ![q].state = s]
  /\ UNCHANGED <<connector, NEXT_QUERY_ID, resets>>

\* consumeBatches: the executor keeps the batch and reports it.
ReceiveBatch(s, q, batch) ==
  /\ conn' = QueryReceivedBatch(s, q, batch)
  /\ exec' = [exec EXCEPT ![q].batches = Append(@, batch), ![q].schema = TRUE]

Streaming(q) == exec[q].state = "streaming"

\* mutant
TrinoLoopsForever(q) == Streaming(q) /\ connector = "TRINO"
\* The loop of TrinoQueryResultStream.produce.
TrinoLoops(q) == Streaming(q) /\ connector = "TRINO" /\ server[q].state \in TrinoRuns

\* What the server may answer: it ends the query after finitely many
\* responses, and sends columns with the first rows at the latest, or breaks
\* the protocol.
NextStates(q) == IF server[q].responses + 1 < MaxFetches THEN TrinoRuns \cup {"FINISHED"}
                 ELSE {"FINISHED"}

\* mutant
TrinoFetchesRowsIfRunning(q) ==
  /\ TrinoLoops(q)
  /\ server[q].sent < MaxBatches
  /\ \E next \in NextStates(q) :
       /\ server' = [server EXCEPT ![q] = [state |-> next, sent |-> @.sent + 1,
                                           responses |-> @.responses + 1]]
       /\ IF next \in TrinoRuns
          THEN ReceiveBatch(QueryProgressUpdated(conn, q), q, server[q].sent + 1)
          ELSE UNCHANGED <<conn, exec>>
       /\ UNCHANGED <<connector, NEXT_QUERY_ID, resets>>
TrinoFetchesRows(q) ==
  /\ TrinoLoops(q)
  /\ server[q].sent < MaxBatches \* bound
  /\ \E next \in NextStates(q), columns \in BOOLEAN :
       /\ server' = [server EXCEPT ![q] = [state |-> next, sent |-> @.sent + 1,
                                           responses |-> @.responses + 1]]
       /\ IF exec[q].schema \/ columns
          THEN /\ ReceiveBatch(QueryProgressUpdated(conn, q), q, server[q].sent + 1)
               /\ UNCHANGED <<connector, NEXT_QUERY_ID, resets>>
          ELSE Fail(q)

TrinoFetchesNoRows(q) ==
  /\ TrinoLoops(q)
  /\ \E next \in NextStates(q) :
       server' = [server EXCEPT ![q].state = next, ![q].responses = @ + 1]
  /\ conn' = QueryProgressUpdated(conn, q)
  /\ UNCHANGED <<connector, NEXT_QUERY_ID, exec, resets>>

\* The request fails, or the response holds an error.  Rejecting the schema
\* then throws as well, once for a schema that is resolved and once because
\* AsyncValue.reject calls itself: the query fails either way.
TrinoFetchFails(q) ==
  /\ TrinoLoops(q)
  /\ server' = [server EXCEPT ![q].state = "FAILED"]
  /\ Fail(q)

\* A demo query and an Arrow stream of Hyper deliver one batch at a time.
ReceivesBatch(q) ==
  /\ Streaming(q)
  /\ connector # "TRINO"
  /\ server[q].sent < MaxBatches \* bound; resultBatches of the demo query
  /\ server' = [server EXCEPT ![q].sent = @ + 1]
  /\ ReceiveBatch(conn, q, server[q].sent + 1)
  /\ UNCHANGED <<connector, NEXT_QUERY_ID, resets>>

HyperStreamFails(q) ==
  /\ Streaming(q)
  /\ connector \in {"HYPER_GRPC", "SALESFORCE_DATA_CLOUD"}
  /\ server' = [server EXCEPT ![q].state = "FAILED"]
  /\ Fail(q)

\* The loop of a Hyper stream has no exit for a reader that is done.  The
\* reader answers at once from then on, so that no other callback of the web
\* view runs again (Frozen; see module NativeQuery).
HyperStreamDrains(q) ==
  /\ Streaming(q)
  /\ connector \in {"HYPER_GRPC", "SALESFORCE_DATA_CLOUD"}
  /\ exec' = [exec EXCEPT ![q].state = "drained"]
  /\ UNCHANGED <<connector, conn, NEXT_QUERY_ID, server, resets>>

Frozen == \E q \in Queries : exec[q].state = "drained"

\* produce returns; that of a Hyper stream never does.
ProduceReturns(q) ==
  \/ connector = "TRINO" /\ server[q].state \in TrinoEnds
  \/ connector = "DEMO" /\ server[q].sent = MaxBatches

StreamEnds(q) ==
  /\ Streaming(q)
  /\ ProduceReturns(q)
  /\ LET received == QueryReceivedAllBatches(conn, q, exec[q].batches)
     IN IF exec[q].analyze
        THEN /\ conn' = QueryProcessingResults(received, q)
             /\ exec' = [exec EXCEPT ![q].state = "analyzing"]
        ELSE /\ conn' = QuerySucceeded(received, q)
             /\ exec' = [exec EXCEPT ![q].state = "done"]
  /\ UNCHANGED <<connector, NEXT_QUERY_ID, server, resets>>

\* analyzeTable returns.  It may never do so, for instance when a scan of the
\* worker fails (see module Computation): the executor then awaits forever.
Analyzed(q) ==
  /\ exec[q].state = "analyzing"
  /\ conn' = QuerySucceeded(QueryProcessedResults(conn, q), q)
  /\ exec' = [exec EXCEPT ![q].state = "done"]
  /\ UNCHANGED <<connector, NEXT_QUERY_ID, server, resets>>

\* mutant
AnalysisFailsQuietly(q) ==
  /\ exec[q].state = "analyzing"
  /\ exec' = [exec EXCEPT ![q].state = "failed"]
  /\ UNCHANGED <<conn, connector, NEXT_QUERY_ID, server, resets>>
AnalysisFails(q) ==
  /\ exec[q].state = "analyzing"
  /\ Fail(q)
  /\ UNCHANGED server

-----------------------------------------------------------------------------
(***************************************************************************)
(* The connection around the queries, and the list that displays them.     *)
(***************************************************************************)

\* External: the setup of the connection, which ConnectionSetup models.  A
\* demo connection is online from the start and has no setup.
Connect ==
  /\ connector \in {"TRINO", "HYPER_GRPC", "SALESFORCE_DATA_CLOUD"}
  /\ conn.connectionHealth = "NOT_STARTED"
  /\ conn' = [conn EXCEPT !.connectionHealth = "ONLINE", !.channel = TRUE]
  /\ UNCHANGED <<connector, NEXT_QUERY_ID, exec, server, resets>>

\* A setup link was opened, or the user reset the connection.
ResetConnection ==
  /\ resets < MaxResets \* bound
  /\ conn.connectionHealth # "NOT_STARTED"
  /\ conn' = Reset(conn)
  /\ resets' = resets + 1
  /\ UNCHANGED <<connector, NEXT_QUERY_ID, exec, server>>

\* The rows of the query list below the header of the connection.
computeViewModel(s) == Reverse(s.queriesActiveOrdered) \o Reverse(s.queriesFinishedOrdered)

\* The list computes its rows again when a snapshot has changed.
updateViewModel(s, next) == next.snapshot # s.snapshot

StreamStep(q) ==
  \/ StartStream(q)
  \/ StartFails(q)
  \/ TrinoFetchesRows(q)
  \/ TrinoFetchesNoRows(q)
  \/ TrinoFetchFails(q)
  \/ ReceivesBatch(q)
  \/ HyperStreamFails(q)
  \/ HyperStreamDrains(q)
  \/ StreamEnds(q)

AnalysisStep(q) == Analyzed(q) \/ AnalysisFails(q)

-----------------------------------------------------------------------------
QueryStates ==
  [status: QueryExecutionStatus, progressUpdates: 0..MaxFetches,
   resultBatches: Tables \ {NoTable}, resultTable: Tables]

ExecutionStates ==
  {"none", "sending", "streaming", "drained", "analyzing", "done", "failed"}

\* Every query of the connection is listed once, under what it is: active
\* or finished.  useQueryState and the query list rely on both.
Listed(ids, order) ==
  \A q \in ids : Cardinality({i \in DOMAIN order : order[i] = q}) = 1
QueriesAreListed ==
  /\ DOMAIN conn.queriesActive \cap DOMAIN conn.queriesFinished = {}
  /\ Listed(DOMAIN conn.queriesActive, conn.queriesActiveOrdered)
  /\ Listed(DOMAIN conn.queriesFinished, conn.queriesFinishedOrdered)
  /\ ToSet(conn.queriesActiveOrdered) \cap ToSet(conn.queriesFinishedOrdered) = {}

\* The state that is displayed for a query is what its executor does: an
\* executor that goes on has an active query in the status of its step, and
\* one that ended has a finished query.  An executor from before a RESET
\* goes on as well, but never brings its query back.
StatusOf(state) ==
  CASE state = "sending"   -> {"SENDING"}
    [] state \in {"streaming", "drained"} -> {"RUNNING", "RECEIVED_FIRST_BATCH"}
    [] state = "analyzing" -> {"PROCESSING_RESULTS"}
    [] state = "done"      -> {"SUCCEEDED"}
    [] state = "failed"    -> {"FAILED"}
ExecutorsMatchStates ==
  \A q \in Queries :
    IF exec[q].state # "none" /\ exec[q].issued = resets
    THEN LET map == IF exec[q].state \in {"done", "failed"}
                    THEN conn.queriesFinished ELSE conn.queriesActive
         IN q \in DOMAIN map /\ map[q].status \in StatusOf(exec[q].state)
    ELSE q \notin DOMAIN conn.queriesActive \cup DOMAIN conn.queriesFinished

\* A query that succeeded has every batch that the database sent, once and in
\* order, both in its table and in the batches reported on the way.
ResultsAreComplete ==
  \A q \in DOMAIN conn.queriesFinished :
    conn.queriesFinished[q].status = "SUCCEEDED" =>
      /\ conn.queriesFinished[q].resultTable = [i \in 1..server[q].sent |-> i]
      /\ conn.queriesFinished[q].resultBatches = conn.queriesFinished[q].resultTable

\* A step that changes the rows of the query list makes the list compute them
\* again: no query shows up late, or stays after it has moved.
ListIsUpdated ==
  [][computeViewModel(conn') # computeViewModel(conn) => updateViewModel(conn, conn')]_queryVars
=============================================================================
