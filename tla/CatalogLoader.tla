--------------------------- MODULE CatalogLoader ---------------------------
(***************************************************************************)
(* The refreshes of a connection's catalog                                 *)
(* (src/packages/dashql-app/src/connection/catalog_loader.tsx and          *)
(* catalog_update_state.tsx), composed with the queries they run.          *)
(*                                                                         *)
(* Requests are put into a map from connections to a force flag.  An       *)
(* effect looks at the map whenever the map was set and starts updates,    *)
(* which run a query or call the API of the connector and then replace the *)
(* descriptor pool of the connection's catalog.                            *)
(*                                                                         *)
(* There is one connection.  The catalog is the id of the update that      *)
(* filled it, 0 when it is empty.                                          *)
(***************************************************************************)
EXTENDS QueryExecution

CONSTANT MaxUpdates \* bound: catalog updates that are started

ASSUME UpdateAssumption == MaxUpdates \in Nat

VARIABLES
  NEXT_CATALOG_UPDATE_ID,
  update,          \* what an update awaits
  queue,           \* the request in the queue
  queueChanged     \* the queue was set since the effect ran

loaderVars == <<NEXT_CATALOG_UPDATE_ID, update, queue, queueChanged>>
vars == <<queryVars, loaderVars>>

Updates == 1..MaxUpdates
CatalogUpdateTaskStatus == {"STARTED", "SUCCEEDED", "FAILED"}

CatalogResolver(c) ==
  CASE c = "HYPER_GRPC" -> "SQL_PG_ATTRIBUTE"
    [] c = "SALESFORCE_DATA_CLOUD" -> "SALESFORCE_METDATA_API"
    [] c \in {"TRINO", "DEMO"} -> "SQL_INFORMATION_SCHEMA"

-----------------------------------------------------------------------------
(***************************************************************************)
(* The reducer of catalog actions.  CATALOG_UPDATE_CANCELLED is never      *)
(* dispatched: nothing aborts an update.                                   *)
(***************************************************************************)
UpdateCatalog(s, u) ==
  [s EXCEPT !.catalogUpdates.tasksRunning = Put(@, u, [status |-> "STARTED", queries |-> <<>>]),
            !.catalogUpdates.lastFullRefresh = u]

Running(s, u) == u \in DOMAIN s.catalogUpdates.tasksRunning

CatalogUpdateRegisterQuery(s, u, q) ==
  IF Running(s, u)
  THEN [s EXCEPT !.catalogUpdates.tasksRunning[u].queries = Append(@, q)]
  ELSE s

FinishUpdate(s, u, status) ==
  IF Running(s, u)
  THEN [s EXCEPT !.catalogUpdates =
          [tasksRunning |-> Delete(@.tasksRunning, u),
           tasksFinished |-> Put(@.tasksFinished, u, [@.tasksRunning[u] EXCEPT !.status = status]),
           lastFullRefresh |-> u]]
  ELSE s
CatalogUpdateSucceeded(s, u) == FinishUpdate(s, u, "SUCCEEDED")
CatalogUpdateFailed(s, u) == FinishUpdate(s, u, "FAILED")

-----------------------------------------------------------------------------
(***************************************************************************)
(* An update.                                                              *)
(***************************************************************************)
NoUpdate == [state |-> "none", query |-> 0, issued |-> 0]

Init ==
  /\ InitQueries
  /\ NEXT_CATALOG_UPDATE_ID = 1
  /\ update = [u \in Updates |-> NoUpdate]
  /\ queue = "empty"
  /\ queueChanged = FALSE

StartUpdate(u, state, query) ==
  /\ NEXT_CATALOG_UPDATE_ID' = u + 1
  /\ update' = [update EXCEPT ![u] = [state |-> state, query |-> query, issued |-> resets]]

\* updateImpl up to its first await.  Only the information schema query is
\* registered with the update.
QueryUpdate(u) ==
  /\ CatalogResolver(connector) \in {"SQL_INFORMATION_SCHEMA", "SQL_PG_ATTRIBUTE"}
  /\ CanExecute
  /\ LET executed == Executed(UpdateCatalog(conn, u), NEXT_QUERY_ID)
     IN conn' = IF CatalogResolver(connector) = "SQL_INFORMATION_SCHEMA"
                THEN CatalogUpdateRegisterQuery(executed, u, NEXT_QUERY_ID)
                ELSE executed
  /\ execute(FALSE)
  /\ StartUpdate(u, "querying", NEXT_QUERY_ID)
  /\ UNCHANGED <<connector, server, resets>>

ApiUpdate(u) ==
  /\ CatalogResolver(connector) = "SALESFORCE_METDATA_API"
  /\ conn' = UpdateCatalog(conn, u)
  /\ StartUpdate(u, "requesting", 0)
  /\ UNCHANGED <<connector, NEXT_QUERY_ID, exec, server, resets>>

Fails(u) ==
  /\ conn' = CatalogUpdateFailed(conn, u)
  /\ update' = [update EXCEPT ![u].state = "failed"]
  /\ UNCHANGED <<connector, NEXT_QUERY_ID, exec, server, resets,
                 NEXT_CATALOG_UPDATE_ID, queue, queueChanged>>

\* The update drops the pool, describes the schema again, reports its end
\* and marks the scripts of the connection's workbooks outdated (see module
\* Workbook).
Succeeds(u, catalog) ==
  /\ conn' = CatalogUpdateSucceeded([conn EXCEPT !.catalog = catalog], u)
  /\ update' = [update EXCEPT ![u].state = "succeeded"]
  /\ UNCHANGED <<connector, NEXT_QUERY_ID, exec, server, resets,
                 NEXT_CATALOG_UPDATE_ID, queue, queueChanged>>

QueryOf(u) == exec[update[u].query].state

\* The result of the pg_attribute query is not used, and never there: see
\* ProduceReturns.
QueryUpdateSucceeds(u) ==
  /\ update[u].state = "querying"
  /\ QueryOf(u) = "done"
  /\ Succeeds(u, u)

\* mutant
QueryUpdateFailsIfRunning(u) ==
  /\ update[u].state = "querying"
  /\ QueryOf(u) = "failed"
  /\ Running(conn, u)
  /\ Fails(u)
QueryUpdateFails(u) ==
  /\ update[u].state = "querying"
  /\ QueryOf(u) = "failed"
  /\ Fails(u)

ApiUpdateSucceeds(u) == update[u].state = "requesting" /\ Succeeds(u, u)
\* The access token is missing, or the API fails.
ApiUpdateFails(u) == update[u].state = "requesting" /\ Fails(u)

-----------------------------------------------------------------------------
(***************************************************************************)
(* The queue of requests.                                                  *)
(***************************************************************************)
Enqueue(force) ==
  /\ queue' = IF force THEN "forced" ELSE "auto"
  /\ queueChanged' = TRUE
  /\ UNCHANGED <<queryVars, NEXT_CATALOG_UPDATE_ID, update>>

RefreshCatalog ==
  /\ conn.connectionHealth = "ONLINE"
  /\ Enqueue(TRUE)

\* The editor asks for a refresh until one was started.
refreshCatalogOnce ==
  /\ conn.catalogUpdates.lastFullRefresh = 0
  /\ conn.connectionHealth = "ONLINE"
  /\ Enqueue(FALSE)

\* mutant
SkipsOnlyAutomatic == queue = "auto" /\ conn.catalogUpdates.lastFullRefresh # 0
\* A request is left in the queue while an update runs, and an automatic one
\* also after any update: the time since the last one is computed with the
\* wrong sign and is always below the limit.
SkipsRequest ==
  \/ DOMAIN conn.catalogUpdates.tasksRunning # {}
  \/ queue = "auto" /\ conn.catalogUpdates.lastFullRefresh # 0

\* The effect on queueState.  The set of updates in progress is made anew
\* each time, so that only the tasks of the connection hold requests back.
QueueEffect ==
  /\ queueChanged
  /\ queueChanged' = FALSE
  /\ \/ /\ queue = "empty" \/ SkipsRequest
        /\ UNCHANGED <<queryVars, NEXT_CATALOG_UPDATE_ID, update, queue>>
     \/ /\ queue # "empty" /\ ~SkipsRequest
        /\ NEXT_CATALOG_UPDATE_ID \in Updates \* bound
        /\ QueryUpdate(NEXT_CATALOG_UPDATE_ID) \/ ApiUpdate(NEXT_CATALOG_UPDATE_ID)
        /\ queue' = "empty"

-----------------------------------------------------------------------------
UpdateStep(u) ==
  \/ QueryUpdateSucceeds(u)
  \/ QueryUpdateFails(u)
  \/ ApiUpdateSucceeds(u)
  \/ ApiUpdateFails(u)

QueryStep ==
  \/ Connect
  \/ ExecuteEditorQuery
  \/ ResetConnection
  \/ \E q \in Queries : StreamStep(q) \/ AnalysisStep(q)

\* Every step is a callback of the web view.
Next ==
  /\ ~Frozen
  /\ \/ QueryStep /\ UNCHANGED loaderVars
     \/ RefreshCatalog
     \/ refreshCatalogOnce
     \/ QueueEffect
     \/ \E u \in Updates : UpdateStep(u)

Spec == Init /\ [][Next]_vars

\* The database and the API answer requests and end their answers, with an
\* error or without, and sleeps end.  Effects run after each render.  Users
\* need not act, and nothing makes the worker answer an analysis.
Fairness ==
  /\ \A q \in Queries : WF_vars(~Frozen /\ StreamStep(q) /\ UNCHANGED loaderVars)
  /\ \A u \in Updates : WF_vars(~Frozen /\ UpdateStep(u))
  /\ WF_vars(~Frozen /\ QueueEffect)

FairSpec == Spec /\ Fairness

-----------------------------------------------------------------------------
UpdateTasks == [status: CatalogUpdateTaskStatus, queries: {<<>>} \cup {<<q>> : q \in Queries}]

TypeOK ==
  /\ connector \in Connectors
  /\ conn.connectionHealth \in {"NOT_STARTED", "ONLINE"}
  /\ conn.channel \in BOOLEAN
  /\ conn.catalog \in {0} \cup Updates
  /\ conn.snapshot \in 1..(2 * MaxQueries + 1)
  /\ \A map \in {conn.queriesActive, conn.queriesFinished} :
       /\ DOMAIN map \subseteq Queries
       /\ \A q \in DOMAIN map : map[q] \in QueryStates
  /\ \A map \in {conn.catalogUpdates.tasksRunning, conn.catalogUpdates.tasksFinished} :
       /\ DOMAIN map \subseteq Updates
       /\ \A u \in DOMAIN map : map[u] \in UpdateTasks
  /\ NEXT_QUERY_ID \in 1..(MaxQueries + 1)
  /\ exec \in [Queries -> [state: ExecutionStates, analyze: BOOLEAN, hasChannel: BOOLEAN,
                           issued: 0..MaxResets, schema: BOOLEAN,
                           batches: Tables \ {NoTable}]]
  /\ server \in [Queries -> [state: TrinoRuns \cup TrinoEnds \cup {"none"},
                             sent: 0..MaxBatches, responses: 0..MaxFetches]]
  /\ update \in [Updates -> [state: {"none", "querying", "requesting", "succeeded", "failed"},
                             query: {0} \cup Queries, issued: 0..MaxResets]]
  /\ queue \in {"empty", "auto", "forced"}
  /\ queueChanged \in BOOLEAN

\* The connection runs one update at a time, although updates of the time
\* before a RESET may still be on their way, and what it says about an update
\* is what the update does.
OneUpdateAtATime ==
  /\ Cardinality(DOMAIN conn.catalogUpdates.tasksRunning) <= 1
  /\ \A u \in Updates :
       update[u].state \in {"querying", "requesting"} /\ update[u].issued = resets
         <=> u \in DOMAIN conn.catalogUpdates.tasksRunning
  /\ conn.catalogUpdates.lastFullRefresh # 0 =>
       conn.catalogUpdates.lastFullRefresh \in
         DOMAIN conn.catalogUpdates.tasksRunning \cup DOMAIN conn.catalogUpdates.tasksFinished

\* Every query that was executed and every update that was started comes to
\* an end, also across a RESET, and although the updates await queries of
\* their own.  There are two exceptions: the analysis of a result that never
\* answers holds its query, but no update, and the end of a Hyper stream
\* freezes everything.
Settled(q) == exec[q].state \in {"done", "failed"} \cup (IF exec[q].analyze THEN {"analyzing"} ELSE {})
WorkEnds ==
  /\ \A q \in Queries : exec[q].state # "none" ~> Settled(q) \/ Frozen
  /\ \A u \in Updates :
       update[u].state # "none" ~> update[u].state \in {"succeeded", "failed"} \/ Frozen
=============================================================================
