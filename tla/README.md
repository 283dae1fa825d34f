# A verification project for DashQL (ankoh/sqlynx)

TLA+ models of the parts of DashQL where state outlives a call, with TLC runs on
small instances and proofs for the TLA+ proof system. Paths below are relative to
`src/packages/` unless they start with `src/`; `app/` stands for `dashql-app/src/`.

## The system

DashQL is an SQL workbook. A C++ core, compiled to WebAssembly, scans, parses and
analyzes scripts and keeps a catalog of the tables they may refer to
(`dashql-core`, `dashql-core-bindings`). A React app holds connections, workbooks
and query results (`dashql-app`) and computes on results in a worker
(`dashql-compute`). As a desktop app it reaches databases through a Rust process
that proxies gRPC and HTTP streams over IPC (`dashql-native`).

| Component | State it keeps | Operations | What is hard | What makes it correct |
|---|---|---|---|---|
| Catalog (`dashql-core/src/catalog.cc`) | entries, rank index, schema index, declared databases and schemas, id counters, version | LoadScript, UpdateScript, DropScript, AddDescriptorPool, DropDescriptorPool, AddSchemaDescriptor(s), Clear, id allocation by the analyzer | raw pointers and secondary indexes maintained by hand across long sequences of calls; calls that fail half-way | indexes agree with entries; a lookup finds what the entries say; a change that a reference could see moves the version; one id per schema |
| Stream manager (`dashql-native/src/grpc_stream_manager.rs`) | map of streams, one channel and one task per stream | start, read, destroy | overlapping reads, two timeouts, failures, bounded channel, cancellation | nothing lost, repeated or reordered; reads return; bounded buffering |
| gRPC proxy and clients (`dashql-native/src/grpc_proxy.rs`, `app/platform/native_*_client.ts`) | map of channels; iterators over the native streams | create and destroy a channel, start and read a stream, pull schema and batches | awaits between lookup and registration; a channel destroyed under its streams; timeouts thrown through iterators | results are exact; no client asks for a stream that is gone; reading ends |
| Query execution (`app/connection/query_executor.tsx`, `query_execution_state.ts`) | queries per connection, lists of active and finished ones | send, receive, finish, fail, RESET | one asynchronous function per query against a reducer that may be reset | a query is listed once, shows the state of its executor, and has all its batches when it succeeds |
| Catalog loader (`app/connection/catalog_loader.tsx`) | queue of refreshes, last full refresh | start, succeed, fail | an effect that runs again while a refresh is going on | one refresh at a time, each comes to an end |
| Connections (`app/connection/`, `app/view/connection/`, `app/app_setup_gate.tsx`) | status, channel and errors per connection; setups; the gate of the app | setup, cancel, reset, OAuth redirect, links | handshakes that are started twice, aborted or answered late, from two pages | online means checked; connecting means that someone connects; errors are those of the latest attempt |
| Workbooks (`app/workbook/`, `app/view/workbook/`) | scripts, their buffers, cursor, focus, the editor's document | reducer actions, loading, typing, completion | three copies of a text; a reducer with side effects in a memory without garbage collection | editor, script, analysis and focus agree; buffers are destroyed once |
| Compute (`app/compute/`, `dashql-compute/`) | tables, data frames in the worker, grid | analyze, sort, requests and responses | responses out of order, frames that are replaced while in use | a frame is deleted after its last use; the grid fits the table; analyses end |
| Catalog viewer (`app/view/catalog/`) | view model over a snapshot, pins, scroll window | flatten, pin, layout, render, scroll | effects that depend on a cache; layouts computed in three places; freed snapshots | what is pinned, shown and scrolled to is what catalog, script and focus say |
| HTTP streams (`dashql-native/src/http_stream_manager.rs`) | map of streams, one queue and one task each | start, read, destroy | headers and chunks share queue and timeouts | status and chunks reach the client |
| Parser, completion, text containers | none between calls | | generated automata; ordering and indexing | the algorithms compute their reference definitions |
| Release tool, IPC router, logging | | | sequential I/O | |

The app reaches the catalog through `dashql-core-bindings/src/api.ts`. Editors analyze
their script and load it with `LoadScript`; a connection's refresh drops its descriptor
pool, adds it again and fills it with `AddSchemaDescriptors`
(`app/connection/catalog_query_information_schema.ts:146`). A refresh runs a query like
those of the user. A query runs executor, platform client, IPC, gRPC proxy, stream manager,
server. Its result goes to the compute worker and to the grid.

## Modules

| Module | Models | Composition |
|---|---|---|
| `NameResolution` | what the catalog promises | abstract specification |
| `Catalog` | `catalog.cc`, schema registration and table resolution of `name_resolution_pass.cc` | implements `NameResolution` |
| `StreamDelivery` | what reading a stream promises | abstract specification |
| `GrpcStreamManager` | `grpc_stream_manager.rs` | implements `StreamDelivery` |
| `NativeQuery` | gRPC proxy, native gRPC client, Hyper client | on top of `GrpcStreamManager` |
| `QueryExecution` | executor, reducer of queries, result streams of the connectors | |
| `CatalogLoader` | refresh queue and updates | on top of `QueryExecution`: updates run queries |
| `ConnectionSetup` | setup flows, reducers, pages, platform events, gate | |
| `Focus`, `Workbook`, `WorkbookEditor` | derivation of the focus; reducer, registry and script loader; editor | each on top of the one before |
| `TableTransforms`, `ComputeWorker`, `Computation` | transform plans and grid layout; worker and bindings; registry, analyses, sorts, grid | each on top of the one before |
| `CatalogLookup`, `CatalogViewModel`, `GraphEdges`, `CatalogRenderer`, `CatalogViewer` | searches over a flattened catalog; pins and layout; edges; rendering; the component | each on top of those before |

`MC*` modules choose instances; `*Proofs` modules hold theorems.

### `Catalog` and `NameResolution`

The catalog lives in one WebAssembly thread, so a call is one action; what can go wrong
is a sequence of legal calls. The variables have the names of the members in `catalog.h`:

| Variable | Code |
|---|---|
| `entries` | `Catalog::entries`, raw pointers to catalog entries. The model stores the content the pointer leads to, with `serial` as the identity of the object, so that a pointer to a replaced analysis shows. |
| `script_entries`, `descriptor_pool_entries` | the owners of the entries. A script entry shares ownership of its analysis; a pool is owned by the catalog. |
| `entries_ranked`, `entries_by_schema` | the two indexes. The values of `entries_by_schema` are read nowhere, so only its keys are modelled. |
| `databases`, `schemas` | the ids that names are declared with, 0 for a name that is not declared |
| `next_database_id`, `next_schema_id`, `version` | the counters |
| `analyzed`, `analyses` | `Script::analyzed_script` per script and the number of the latest analysis |

| Action | Code |
|---|---|
| `Analyze` | `Script::Analyze` with the schema registration and the table resolution of `name_resolution_pass.cc`. Ids that it allocates are preliminary and declared by nobody. |
| `LoadNewScript`, `LoadScriptOutOfSync`, `UpdateScript` | `Catalog::LoadScript`: success, the failure that has declared part of the names, and the branch for a script that is loaded already |
| `DropScript`, `DeleteScript` | `Catalog::DropScript`, alone and from the destructor of `Script` |
| `AddDescriptorPool`, `DropDescriptorPool` | the calls of the same name |
| `AddSchemaDescriptors`, `AddSchemaDescriptorsFails` | `Catalog::AddSchemaDescriptor` (one descriptor) and `AddSchemaDescriptors` (several) with `DescriptorPool::AddSchemaDescriptor`; the second is the call that stops at a bad descriptor and keeps what it read |
| `Clear` | `Catalog::Clear` |

Calls that return an error and change nothing are no steps. Names are model values or
numbers, in the order of the btrees where that order decides something. A member of
`Scripts` stands for the script objects of one id, one after another: `DeleteScript`
destroys the object, and the next `Analyze` works on one that was created while its id was
free (the constructor asserts that). Fresh ids of one call are handed out in the order of
the names; since the code never compares ids but for equality, who gets which is irrelevant.
Not in the model: columns, name search indexes, serialisation, and the memory behind string
views.

`NameResolution` says what this is for: every registered entry has a rank and a set of
tables; a name resolves to the entry of the lowest rank, then the lowest id, that has it;
the version moves with every change. `Catalog` maps to it with `contents` computed from the
owners of the entries and `references` from the analyses.

### `GrpcStreamManager` and `StreamDelivery`

Reader tasks and read calls interleave. The variables `next_stream_id` and `server_streams`
are those of the manager. A stream's channel is `response_receiver`, its task is `task` with
the `response` it is pushing, and `waiting` is the queue of the receiver's mutex, which
tokio grants in order. `call` is the local state of the read calls in progress.
`received`, `delivered` and `outcome` record what the server sent and what read calls
returned; they guide nothing except the numbering of the messages.

| Action | Code |
|---|---|
| `StartServerStream` | `start_server_stream` up to the spawned task |
| `ReadMessage`, `ReadEnd`, `PushResponse` | one turn of the task's loop: what the server answers, and the send that awaits a free slot |
| `ReadServerStream`, `LockReceiver` | `read_server_stream` up to the receiver's lock, and the lock |
| `ReceiveMessage`, `ReceiveEnd`, `ReceiveFailure` | the three events of the loop |
| `ReadTimesOut`, `FlushAfterTimeout` | the two timeouts |
| `DestroyServerStream` | `destroy_server_stream` |

Time is abstracted: a timeout may happen whenever the code could observe one. A first
receive polls the channel before its timer, hence it only times out on an empty channel; a
batch is returned after its time whether the channel is empty or not. The task and every
read call hold the stream's Arc, and with it both ends of the channel: the branches for a
closed channel (`FlushAfterClose`, `GrpcStreamClosed`, a failed send) are unreachable and
have no action. The map's `RwLock` is held for single lookups, insertions and removals,
which are atomic steps.

`StreamDelivery`: the messages arrive in order, once each; the end comes after all of them,
a failure after some of them, and nothing follows either.

### `NativeQuery`

A query of the desktop app through all its layers. The readers of the stream manager are the
queries, because a client has one read request at a time. `channels` is the proxy's map,
`channel` the one in the state of the connection, `closing` the requests to destroy one;
`client[q]` holds the objects of a query (`NativeGrpcServerStream`, the message iterator,
the result stream) and says where its code is.

`ExecuteQuery`, `CallServer`, `RegisterStream` are the three parts of
`start_server_stream` in the proxy: the lookup of the channel, the call that is awaited, and
the registration, which does not look again. `Read` is a request of the client, `ReadIsRefused`
the proxy that does not know the channel, `ServeRead` the manager's read call with its answer,
`NextBatch` the code behind the await. `SkipHeader`, `PullSchema`, `PullRecordBatch` and
`PullWrongChunk` are what the iterators make of a message, `Drain` the end.
`DestroyChannel` may come at any time and does what the proxy does, no more: streams stay.

What the model shows that a reader of the code may not expect: an end of a result freezes the
web view (`native_hyperdb_client.ts:121` loops over promises that are resolved already), which
is why `QueriesEnd` excepts `Frozen`; a health check awaits a schema that only `produce`
resolves; streams of queries that were refused or timed out are never destroyed, since the
app has no caller for that. Not reachable, hence absent: the check that an answer has as many
messages as it says, and `web_hyperdb_client.ts`, which nothing uses.

### `QueryExecution` and `CatalogLoader`

An action is the code between two awaits. `conn` is the `ConnectionState` as far as queries
and refreshes use it, `exec[q]` what the executor of a query awaits, `server[q]` what the
database has sent, `update[u]` what a refresh awaits, `queue` and `queueChanged` the refresh
requests and the effect they trigger. A dispatch is an operator on `conn` with the name of the
action (`QueryReceivedBatch`, `FinishQuery`, `UpdateCatalog`, ...), composed in the step that
dispatches it. Trino streams (`TrinoFetchesRows`, `TrinoFetchesNoRows`, `TrinoFetchFails`)
differ from those of the Hyper and demo connectors (`ReceivesBatch`, `HyperStreamFails`,
`ProduceReturns`). `HyperStreamDrains` is the end of a Hyper stream, after which no callback of
the web view runs again (`Frozen`, see `NativeQuery`). The analysis of a result is an await whose
end is `AnalysisStep`; it need not come, as a scan that fails is awaited forever (see
`Computation`). Without a compute worker the executor throws before a query exists, which is
not modelled. `ResetConnection` forgets queries and updates under their executors, and
keeps the ordered lists (`app/connection/connection_state.ts:207`).

A refresh goes through `QueueEffect`, which starts an update by query (`QueryUpdate`) or by the
API of the connector (`ApiUpdate`); the first runs a query of `QueryExecution`. The set of
updates in progress that the effect reads is never written (`catalog_loader.tsx:183`): what
keeps two refreshes apart is the reducer's map. No code runs between the three calls that fill
the catalog, so that they are one step.

`QUERY_CANCELLED`, `QUERY_PREPARING` and `CATALOG_UPDATE_CANCELLED` are never dispatched and
have no operator.

### `ConnectionSetup`

There is one connection per connector. `setups` are the running and ended setup functions with
what they await (`pc`), the page that owns them and their abort signal; `conn[c]` has the status
(the last action), the channel and the errors that are shown; `gate` is the `AppSetupGate` with
the setup page in it, `settings[c]` the abort controller of a settings page, `listener` the
`PlatformEventListener`, `links` the setup events that arrived. `raced` is history: the
connections that a link or the reset button reset while a setup was running on them. Actions
have the names of the functions (`startSetup`, `cancelSetup`, `dispatchSetup`, ...) or say
which await of a setup ends (`OpenLogin`, `CoreToken`, `HyperConnects`, ...).

`setupDefaultWorkbook` is the end of the setup of the default workbooks, `defaultWorkbooksFail`
its rejection when the core cannot be instantiated (`app/core_provider.tsx:91`): who awaits it ends,
and the blank page stays. `OAuthFails` is a redirect with an error. A page on which nothing can be
set up yet, because the config of the app has not arrived, returns early and stays busy
(`SetupIsMissing`): its button does nothing from then on.

All pages abort with a string, which `throwIfAborted` throws: an aborted Hyper or Salesforce
setup ends without a dispatch (`"silent"`), an aborted Trino setup fails, and only the wait for
the OAuth redirect is cancelled as the code means it. A setup page that is reused for a second
link keeps the parameters and the dispatch of the first; actions of a Trino setup on another
connection make the reducer throw while React renders, which unmounts the app
(`"UNMOUNTED"`).

### `Focus`, `Workbook`, `WorkbookEditor`

A text is a sequence of references, an analysis the text it was made from and the tables that
the catalog knew. `reg` is the registry with scripts, texts, buffers, catalogs and focus;
`queue` the dispatched actions, which the impure reducer applies when React calls it
(`Reduce`); `inflight` the script loader's flights. `view` is the CodeMirror view with the state
of the DashQL processor, `active` the component's reference to what it displays, `phase` tells
whether something waits to be rendered. `Commit` is a render with its effects; `Type`,
`CompletionOpens`, `CloseCompletion`, `SelectWorkbook`, `LeavePage`, `EnterPage` and
`RefreshCatalog` are the user and the refresh, `Fetched` the script that arrives.

`typed` is history: what the user did to a workbook while its scripts were being loaded. A
script that arrives after the user typed overwrites the text; one that arrives before and is
displayed after leaves document and script different for good (`app/view/workbook/editor.tsx:137`).
`EditorMirrorsScript` and `AnalysesAreCurrent` except the second, `"raced"`.

Two failures are left out: an example script, which comes with the app, that cannot be analyzed
when it arrives (`app/workbook/workbook_state.ts:430`: its loading has `FAILED`, and its buffers
were destroyed before), and a refresh whose third call on the catalog fails. The latter leaves the
catalog without the pool and nobody told: scripts keep the flag that they are up to date.

### `TableTransforms`, `ComputeWorker`, `Computation`

Rows are not modelled. A table is its fields and the column it is sorted by; a frame is a table
in the worker. `worker`, `main` and `responses` are the worker, the bindings with the requests
under way, and the messages back; a job is a call of `analyzeTable` or `sortTable` with its
await. `computations` is the registry, `dispatched` what waits for its reducer, `view` the grid.
When React renders, it runs the reducer over the queue, one action after the other (`Reduce`), and then
draws the page (`Render`); in between (`rendering`) only the worker goes on, as it has a thread of its own.
`view.rendered` is the state that the last render saw, with which the cells' memo compares the next one.
`TableTransforms` has the plans for ordering, summary and precomputation with their column
names and indexes, and the layout of the grid.

Every call into the compute module may fail with an error of the module (`"execution"`: a stream
that cannot be read, a cast or an aggregate that DataFusion cannot do), before or after the first
message of a scan. Other errors have a reason in the model: the module is not ready (`"module"`), a
frame is unknown to the worker, or still in use, a transform names a field that is not there or
bins a type that cannot be binned (`"refused"`). A job records in `failure` what ended it.
Scans that fail are awaited forever (`compute_worker_bindings.ts:366`). `AnalysesSettle` excuses the
errors of the module, and the bins; all others would be mistakes of the app. A trap of the module
inside a transform, whose promise then never settles, is not modelled. Neither are record batches:
`dashql-compute/src/arrow_in.rs:31` reads one batch of a table and drops the others, and a table
without a batch loses its columns (line 44). What is checked and proved about frames is about
their fields and the order of requests, and says nothing of the rows that are lost there. A grid that is
reused for another query keeps its layout if no column starts later, and `GridFitsTable`
excepts it (`reused`).

### `CatalogLookup`, `CatalogViewModel`, `GraphEdges`, `CatalogRenderer`, `CatalogViewer`

`CatalogLookup` has the binary searches over the sorted tables that `Flatten` writes,
`CatalogViewModel` pins and the layout of levels, `CatalogRenderer` the nodes and edges of a
window, `GraphEdges` the types and paths of edges, `CatalogViewer` the component with its
effects, its throttled scroll position and the browser's scroll container. A commit (render,
layout, effects) is one step. Every modification of the catalog frees the snapshot under
whoever holds it; what is read from it then is a nondeterministic choice, after which the view
model is `broken` and nothing is said about it.

`missed` is history: two commits in a row that see no snapshot make the effect at
`catalog_viewer.tsx:66` skip a modification, so that the viewer stays on a freed snapshot until
it renders again. Pins that grow the board after the window was clamped to the old height are
not rendered until the user scrolls (`catalog_viewer.tsx:136`); `RenderingMatchesLayout` speaks
of the window as it is.

## Runs

| Run | Properties | Bounds | States |
|---|---|---|---|
| `catalog` | `TypeOK`, `IndexesConsistent`, `LoadedNamesDeclared`, `ScriptTablesResolve`, `VersionProtectsReferences` | 2 scripts with ids 1 and 2, a pool that may take id 2, 2 ranks, 1 database with 2 schemas, 1 table each, 3 texts, 3 modifications, 3 analyses | 375,816 |
| `catalog_refines` | `ImplementsNameResolution` | the same with a pool of id 3, 4 modifications and 2 analyses | 289,524 |
| `catalog_ids_pool` | `OneIdPerSchema`, violated | 4 modifications, 3 analyses | |
| `grpc_streams` | `TypeOK`, `NothingLostOrRepeated`, `EndIsLast`, `Backpressure`, `ReadsReturn`, `ImplementsStreamDelivery` | 2 streams, 2 overlapping reads, 3 messages, a channel of 1, batches that end after a byte | 185,083 |
| `stream_cancellation` | `CancellationDropsEverything`, violated | 1 stream, the rest as above | |
| `native_queries` | `ResultsAreExact`, `StreamsOutliveTheirClients`, `QueriesEnd` | 2 queries, 1 channel that may be closed at any time, 2 messages, one of the results with a chunk of the wrong kind | 226,334 |
| `queries_and_refreshes` | `TypeOK`, `QueriesAreListed`, `ExecutorsMatchStates`, `ResultsAreComplete`, `OneUpdateAtATime`, `ListIsUpdated`, `WorkEnds` | a connection of each of 4 kinds, 2 queries, 2 refreshes, 2 batches, 2 fetches of Trino, 1 reset | 245,646 |
| `connection_setup` | `OneSetupPerConnection`, `OnlineIsChecked`, `ConnectingIsDriven`, `ErrorsAreCurrent`, `AppIsDecided`, `CancelledSetupsEnd` | native, web and mocked app; 4 connections, 2 setups, 2 links out of 5 | 275,329 |
| `workbook_editor` | `BuffersAreOwned`, `EditorMirrorsScript`, `AnalysesAreCurrent`, `FocusIsDerived`, `EditorSettles` | 2 workbooks, one with two scripts that are loaded; texts of 2 references, 1 edit, 2 other acts of the user, 2 waiting actions, 8 buffers | 249,788 |
| `edits_of_two_ranges` | `AllChangesAreMirrored`, violated | 1 workbook, 3 edits, with edits of two ranges | |
| `computation` | `FramesOutliveTheirUse`, `GridFitsTable`, `AnalysesSettle` | 2 queries, 3 jobs of which 2 at a time, tables with a column that is skipped, cannot be binned, or has the name of a system column | 140,366 |
| `catalog_view` | `PinsAreCurrent`, `RenderingMatchesLayout`, `ViewIsCurrent`, `FocusIsShown` | 2 catalogs of 4 levels, 2 scripts, 3 focuses, 2 sizes, 2 scroll offsets, 2 events | 67,581 |

Why the bounds are enough.

- Catalog: script `b` and the pool compete for id 2, so that id collisions and reuse occur; both
  scripts and the pool can create `t1`, in every order of their ranks, so that entries shadow
  each other; the texts move a script out of a schema and into another one, which is what
  `UpdateScript` has code for. Three analyses and three modifications are what it takes to load
  two scripts and to update one of them, or to fill a pool after a failed call next to a loaded
  script; the refinement run trades an analysis for a fourth modification, the drop of one entry
  under another that stays, and gives the pool an id of its own, so that a script can find a
  table in two other entries.
- Streams and queries: with a channel of one the task blocks on it; messages of no byte are held
  back and messages of one byte are returned, so that every way a batch can end occurs; a third
  read call would only join the queue of the mutex. A result needs a chunk with the schema and
  one behind it; two queries share a channel that closes under both, and one freezes the other.
- Queries and refreshes: two queries and two refreshes, which run queries of their own, overlap
  in every order, before, under and after a reset; two fetches are a response in the middle and
  a last one, with and without rows.
- Setups: two setups are what it takes to overlap on one connection or to leave a state to the
  next one; two links reuse a page, or follow a setup. The links list one workbook, two, or one
  that cannot be applied.
- Workbooks: a script that arrives under an edit, a completion, another selection or another
  page; a catalog that is refreshed under an analysis; the second edit of the violation is the
  one with two ranges.
- Computation: an analysis and two sorts of its table, or two analyses on one worker and a sort.
- Catalog viewer: the second catalog loses tables, columns and a schema; ids are not in the order
  of names; levels have more entries than are shown unpinned; a container is smaller, one larger
  than the board. Two events change the catalog under a focus, or scroll after it.

Counters without a limit in the code are bounded by named constants in the guards
(`MaxVersion`, `MaxAnalyses`, `MaxStreams`, `MaxMessages`, `MaxChannels`, `MaxQueries`,
`MaxBatches`, `MaxFetches`, `MaxResets`, `MaxUpdates`, `MaxSetups`, `MaxLinks`,
`MaxText`, `MaxEdits`, `MaxActs`, `MaxWaiting`, `MaxJobs`, `MaxRunning`, `MaxUnrendered`,
`MaxEvents`). All runs set `CHECK_DEADLOCK FALSE`: at the bounds nothing can be called any more,
a manager without streams is idle, and users may stop.

What the properties say:

- `IndexesConsistent`: the map of entries leads to the objects that owners hold, never to an
  analysis that an update freed; the rank index holds every entry once, with its owner's
  rank; the schema index leads to registered entries that refer to the schema, and to every
  loaded script. It is what the `at`, `find` and `assert` calls of the lookups rely on.
- `LoadedNamesDeclared`: names of loaded scripts stay declared through the updates of others.
- `ScriptTablesResolve`: a table of a loaded script resolves, to it or to an entry before it.
- `VersionProtectsReferences`: while the version of an analysis is current, its references
  are what resolving them again would give, for half-failed calls too.
- `NothingLostOrRepeated`: returned, held back and in-flight messages together are always
  the messages of the server. `EndIsLast`, `Backpressure`, `ReadsReturn`: nothing is left of a
  stream whose end was reported; the server is at most the channel and a response ahead; no
  read call hangs.
- `ResultsAreExact`: what a consumer was given are the record batches of its own query, once and
  in order, and all of them at the end. `StreamsOutliveTheirClients`: no client asks for a
  stream that is gone. `QueriesEnd`: reading comes to an end, with a server that falls silent too.
- `QueriesAreListed`, `ExecutorsMatchStates`, `ResultsAreComplete`: each query is listed once, in
  the state its executor is in, and succeeds with all its batches. `ListIsUpdated`: a step that
  changes a row of the list changes the number the list looks at. `OneUpdateAtATime`, `WorkEnds`:
  refreshes do not overlap, and everything that was started ends, across resets too. Two things may
  hold it up: the analysis of a result holds its own query, never a refresh, and the end of a Hyper
  stream freezes all.
- `OneSetupPerConnection`, `OnlineIsChecked`, `ConnectingIsDriven`, `ErrorsAreCurrent`: the status
  of a connection is what its setups did. `AppIsDecided`, `CancelledSetupsEnd`: the app gets past
  its blank page unless its link is of no use or the core does not instantiate; a cancelled setup
  ends.
- `BuffersAreOwned`: no analysis is lost or used after it was destroyed. `EditorMirrorsScript`,
  `AnalysesAreCurrent`, `FocusIsDerived`: document, script, analysis and focus agree when nothing
  is under way. `EditorSettles`: outdated scripts that are displayed are analyzed again, and
  loading ends.
- `FramesOutliveTheirUse`: no request names a frame that is deleted before the worker comes to
  it, and the registry's frame holds the displayed table. `GridFitsTable`: the columns of the grid
  are those of the table. `AnalysesSettle`: analyses end, and succeed unless the compute module failed:
  no request of theirs names a frame, a field or a column that is not there, whatever else runs.
- `PinsAreCurrent`, `RenderingMatchesLayout`, `ViewIsCurrent`, `FocusIsShown`: what is pinned is
  what script and focus refer to; what is rendered is where the layout has it; the viewer ends
  with the current catalog; one sees what was focused.

### Findings

- `catalog_ids_pool`: `LoadScript` refuses a script whose preliminary ids differ from the declared
  ones, so that no schema has two ids (`catalog.cc:760-774`). The ids of descriptor pools are never
  declared, and `UpdateScript` does not compare ids, so that sequences of legal calls end with two
  entries that refer to one schema by different ids. `Flatten` asserts that this does not happen
  (`catalog.cc:559-575`).
- `stream_cancellation`: destroying a stream that is not read leaves its task waiting for a
  slot in the channel for as long as the process lives.
- `edits_of_two_ranges`: an edit of several ranges is mirrored into the script with the offsets of
  the document before the edit (`app/view/workbook/dashql_processor.ts:185`), so that script and
  document have different texts from then on.

Divergences that the models exhibit, for which no text in the repository promises otherwise, are
described with the modules above. One more: `Flatten` writes the child offset 0 for every database
(`catalog.cc:662-663`), although the schemas of all databases are one array and `child_begin` is "the index
of the first child entry" in it (`src/proto/fb/dashql/catalog.fbs:112`): a second database would show the
schemas of the first. One database is modelled.

### Fairness

- `FairSpec` of `GrpcStreamManager` assumes weak fairness of `PushResponse` and of the steps of a
  read call: tokio polls tasks that can go on, its mutex is fair, and its timers fire, whatever the
  server does. `LiveServerSpec` adds a server that keeps answering; it is used for the violation,
  which would otherwise be the server's fault.
- `FairQuerySpec` of `NativeQuery`: the steps of a query that reads; none of the server, none of
  the calls that the server has to answer.
- `CatalogLoader`: the database and the API answer what they are asked, and end their answers with or
  without an error; the queue effect runs after the queue was set. All of this only until the web
  view freezes. There is no fairness for the end of an analysis, which may never come
  (`app/connection/query_executor.tsx:218`).
- `ConnectionSetup`: the steps of setups and of the start of the app, while the app is mounted.
  Nobody has to complete a login; the health check of a Hyper channel need not end.
- `WorkbookEditor`: React applies actions and commits, fetches end in success or failure.
- `Computation`: the worker takes requests, the main thread takes messages, React reduces what was
  dispatched, renders and runs effects; a call into the module returns or throws, and instantiating it ends in one
  of the two. `AnalysesSettle` says nothing if the script of the worker never ran.
- The catalog and its viewer have no liveness.

## Proofs

All theorems hold for every value of the constants under the assumptions that the modules state
about them, and without regard to the bounds.

| Module | Theorem | States |
|---|---|---|
| `CatalogProofs` | `TypeCorrect` | `TypeOK` |
| | `IndexesCorrect` | `IndexesConsistent` |
| `CatalogReferenceProofs` | `NamesStayDeclared`, `VersionsProtect`, `ScriptTablesFound` | `LoadedNamesDeclared`, `VersionProtectsReferences`, `ScriptTablesResolve` |
| | `NamesResolve` | `ImplementsNameResolution` |
| `GrpcDeliveryProofs` | `TypeCorrect` | `TypeOK` |
| | `NothingLost`, `EndIsLastEvent`, `BufferingBounded` | `NothingLostOrRepeated`, `EndIsLast`, `Backpressure` |
| | `DeliversInOrder` | `ImplementsStreamDelivery` |
| `NativeQueryProofs` | `QueriesUseTheManager` | `QuerySpec` implements `Spec` of `GrpcStreamManager` |
| | `StreamsOutlive`, `ExactResults` | `StreamsOutliveTheirClients`, `ResultsAreExact` |
| `CatalogLoaderProofs` | `LoaderTypes`, `ListedOnce`, `ExecutorsMatch`, `CompleteResults`, `OneUpdate` | `TypeOK`, `QueriesAreListed`, `ExecutorsMatchStates`, `ResultsAreComplete`, `OneUpdateAtATime` |
| | `ListUpdates` | `ListIsUpdated` |
| `ConnectionSetupProofs` | `SetupTypesHold` | `TypesOK` |
| | `SetupsAreAlone`, `OnlineConnectionsAreChecked`, `ConnectingConnectionsAreDriven`, `ShownErrorsAreCurrent` | `OneSetupPerConnection`, `OnlineIsChecked`, `ConnectingIsDriven`, `ErrorsAreCurrent` |
| `WorkbookEditorProofs` | `EditorIsInvariant` | `EditorInv` |
| | `BuffersOwned`, `AnalysesCurrent`, `FocusDerived` | `BuffersAreOwned`, `AnalysesAreCurrent`, `FocusIsDerived` |
| | `EditorMirrors` | `EditorMirrorsScript` |
| `ComputationProofs` | `ComputationIsInvariant` | `ComputationInv` |
| | `FramesAreKept` | `FramesOutliveTheirUse` |

**Catalog.** Assumptions (`IdAssumption`, `NameAssumption`, `InputAssumption`): ids and ranks are
numbers, a table has a schema and a schema a database, the databases and schemas are finitely many,
a call does not describe a schema twice.

- `TypeOK` is inductive. Two facts take work: a resolution returns an id, as there is a first key
  among those found (`FirstKey`, from the well-foundedness of the natural numbers), and allocated
  ids are numbers other than 0 (`AllocateType`, `AllocateNotNull`, from the finiteness of the names).
- `IndexInv == TypeOK /\ IndexesConsistent`: the three parts of `IndexesConsistent` need each
  other, because a drop removes exactly the keys that the entry's content tells it to remove,
  which is complete only if every key of the index comes from the content (`SchemaIndexSound`)
  and the content is that of the owner (`EntriesOwned`). The lemmas `FreeId`, `ScriptOwnsId`
  and `PoolOwnsId` say who is registered under an id; `DropEntryIndexes` and `GrowPoolIndexes`
  carry what drops, and what successful and failed descriptor calls, have in common.
- `ReferenceInv` adds to `IndexInv` that an analysis names exactly the databases and schemas of the
  tables it creates (`AnalysesNameTheirTables`), that tables found by name are declared ones
  (`FoundTablesDeclared`), that what is not loaded is empty (`UnloadedEmpty`), that loaded names are
  declared (`LoadedNamesDeclared`), that no analysis is newer than the catalog (`AnalysesNotNewer`), and
  `VersionProtectsReferences`. Names stay declared because
  `UpdateScript` undeclares a schema only when the schema index has no key for it, a loaded script's keys
  survive the updates of others, and a key that protects a schema also protects its database. References
  are protected because every call that changes the indexes a lookup reads raises the version above that
  of every analysis, and the calls that do not raise it (an analysis, a load that is out of sync, a
  failed descriptor call) leave `entries_by_schema` and the visible tables alone.
- `NamesResolve`: a load or an update maps to `Put`, as do calls that add to a pool; drops to `Remove`,
  the destructor to `Remove` or `Forget`, a failed call to a stutter. That the analyzer's walk over the
  rank index finds what `Lookup` finds is `ScriptTablesResolve` with the soundness of the index.

**Stream manager.** Assumption (`StreamAssumption`): the capacity of the channel is not 0. Any
number of read calls, streams and messages, any sizes of messages and batches.

- `DeliveryInv` has `TypeOK` and two more parts. `CallsInv` is about the read calls: one at most
  holds a stream's receiver, a call that waits is in the queue once and holds no messages. Without
  it, a step of one call could change what another one holds back. `StreamInv` is about a stream:
  while its end was not reported there is an `n` such that the messages up to `n` were taken out of
  the channel, in order, and the rest up to `received` is in flight, with the end behind it if the
  server is done (`OpenInOrder`); afterwards nothing is left (`NothingAfterEnd`). That is more than
  `NothingLostOrRepeated` says: the `n` is what the step of an event refers to, and a failed stream
  still returned the first messages (`ReturnedInOrder`), although it lost those that were held back.
  The lemma `TakeHead` is the heart of it: a call takes the message `n + 1`, or the end, and the end
  only if nothing else is in flight and the task is gone.
- `DeliversInOrder`: a batch is a `Return` if it has messages (`BatchIsReturn`), the end of a stream
  a `Finish` with all messages because of `TakeHead`, a failure a `Fail`; everything else but a
  message of the server is a stutter.

**Native queries.** Assumption (`ResultAssumption`): every message of a result is a header or a
chunk. `QueriesUseTheManager` maps every step of the queries to a step or a stutter of the manager,
so that `DeliveryInv` holds for them. `QueryInv` adds that a client's record fits its state
(`ClientInv`: the messages it pulled and holds are those that the manager delivered), that two clients
never read one stream (`OneReaderPerStream`), that a stream is registered until its end was delivered
(`StreamsKept`), that ids not handed out are untouched (`StreamsFresh`), and that a stream that is
finished delivered everything (`StreamsComplete`, from `TakeHead`). `StreamsOutlive` follows as a client
that saw the end never reads again; `ExactResults` as the chunks a client pulled are a prefix of
what was delivered.

**Queries and refreshes.** Assumptions (`QueryAssumption`, `UpdateAssumption`): known connectors,
bounds that are numbers, at least one fetch. `LoaderInv == QueriesOK /\ UpdatesOK`.

- `OrderOK`: the ids in the two ordered lists are distinct, disjoint, below the next id, contain
  those in the maps, and all ids that were handed out are in one of them; the snapshot counts
  their length. The lists keep ids that a RESET removed from the maps, so that the maps alone would
  not do: distinctness of lists under `removePrimitiveFromArray` and `Append` (`RemoveFirstDistinct`,
  `AppendDistinct`) and their length (`DistinctCount`) are the lemmas that carry it.
- `ExecutorOK` per query: batches are the numbers up to what the server sent unless the stream
  failed, a Trino query that runs has fetches left, an executor exists if its id was handed out.
- `MapsOK` per query: a query is in the map of active ones exactly if its executor has not ended
  and belongs to the time since the last RESET, with the status that `StatusOf` gives; in the map of
  finished ones exactly if it ended since. From the outside only `ExecutorsMatchStates` can be seen.
- `TasksOK`: an update is running in the reducer exactly if its function awaits something and was
  issued since the last RESET, and at most one is. `SkipsRequest` reads the reducer's map, not
  the set that is never written, and so `OneUpdateAtATime` holds.
- `ListIsUpdated` needs no invariant but the type of the snapshot: each reducer that changes a map
  raises it, and all others (`TameSteps`) leave the rows.

**Setups of connections.** Assumption (`SetupAssumption`): known connectors, links that list them,
bounds that are numbers. `SetupInv` relates four pieces of state that the code keeps apart.

- `ConnectionOK` per connection that was not reset under a setup: at most one setup runs (`Alone`);
  while it runs the status is one of a setup under way, no error is left of an earlier one, and the
  channel whose health it checks is its own (`Led`); online means that the setup of the channel
  succeeded (`Checked`); an error is shown with a failure only (`Current`). `Led` is what makes the
  buttons safe: a settings page offers to connect only while the status is not one of `Connecting`,
  so that no setup runs then.
- `Driven` needs nothing of the above and holds for reset connections too.
- `PageOK`: the buttons of the setup page are not enough, because the auto-trigger does not look at
  the health and a page that is reused for a second link starts setups on the connection of the first.
  What protects these is that the page is busy while a setup that it owns runs (`Owned`), and that
  no other setup runs on the two connections that it knows.
- `GateOK`: a page is new when no setup carries its number (its number is that of the link that
  mounted it), no setup starts before the default workbooks are there. `ListenerOK`: the subscriber to the
  redirect is a setup that waits for it, so that a code never reaches one that ended.

The proof splits the steps by what they do to this: a setup goes on or ends (`MovePreserves`, with one
lemma for each list of actions it dispatches, from `ReduceOne`), a page starts one (`StartPreserves`) or
marks one as aborted (`AbortPreserves`), a link or a button resets connections (`ResetsPreserve`), or
only the page changes (`PagePreserves`).

**Workbooks.** Assumptions (`WorkbookAssumption`, `NullAssumption`, `EditorAssumption`): known
connectors, an example text for each script that is loaded, and `Null` and `Garbage` are not values
of the kinds that they stand in for. Any workbooks, tables, texts, edits and number of actions that wait.
The properties speak of moments in which nothing waits; `EditorInv` has to say what they become
while actions wait for the reducer.

- `Owned`: buffers that exist are held by one script, or by one waiting `UPDATE_SCRIPT_ANALYSIS`, and
  by nobody twice. The reducer destroys what the script of the action holds, and so nothing that
  another script or a later action brings. The lemma `FreshBuffersAreFresh` stands beside it:
  the view still knows buffers that were destroyed, and a name that it knows must not be given again.
- `Fine`: let `b` be what a script will hold when the waiting actions are reduced, that is the value
  of its last `UPDATE_SCRIPT_ANALYSIS` or what it holds now (`Final`). Then `b` was made from the
  script's present text, and against the present catalog unless the script is marked or a
  `CATALOG_DID_UPDATE` waits behind (`Current`). A text that arrives replaces the analysis of an edit that
  was made before, because it waits behind it (`LoadsAfterUpdates`); that is what fails for `"raced"`.
- `Loads`: a script has one flight and one answer, and its `SCRIPT_LOADING_STARTED` is reduced before
  the answer. Without it a second answer could replace a text that the user works on.
- `FocusFine` is `FocusIsDerived` without the condition on the queue. It holds with actions under way
  because every action but the arrival of a text derives the focus again or keeps cursor and analysis, and a
  workbook that nobody touched has no cursor while it is being loaded (`Untouched`).
- `Mirrors`: the document is the script's text, or the view knows that it is old, because the buffers it
  shows are not those of the script and no waiting action brings them. `Commit` compares just these, so
  that it then replaces the document. `Painted` ties the decorations to the text of the buffers that
  the view shows, `Rendered` says what the last commit left.

`EditorMirrors` assumes that an edit changes one range (`~MultiRange`). The assumption is needed:
with edits of two ranges the processor leaves another text in the script (`edits_of_two_ranges`).
All other theorems hold with both kinds of edits. The proof has one lemma for each group of actions
(`Reducing`, `Committing`, `Typing`, `CursorMoved`, `Completing`, `CompletionOpening`, `Navigating`,
`Refreshing`, `Fetching`). Below them, the reducer's cases are sorted by what they do to the buffers: nothing
(`QuietStep`), analyze again (`UpdateStep`), install what the action brings (`AnalysisStep`) or a text (`LoadStep`).

**Analysis of results.** Assumptions (`OwnerAssumption`, `ComputationAssumption`): the owners `Nobody` and
`Provider` of tasks are not numbers of jobs, queries are positive numbers, bounds are numbers. Any tables, any
transforms, any number of jobs, requests, responses and waiting actions. A frame is deleted in two ways, by the
sort that replaces it and by the column analysis that read it, while its number may be in queued requests, in
answers on their way, in the records of jobs, in waiting actions, in the registry and on the page.
`ComputationInv` says for each of these who knows which frame. A frame is `Living` if it is in the worker and
no request deletes it.

- `CoreOK` is about worker, port and jobs. A job that awaits something awaits one task, of the type of its
  await (`JobsOK`), and the request (`RequestsOK`), the running transform (`TransformsOK`) or the answer
  (`AnswersOK`) of the task belongs to what the job will do with it. Numbers of frames are given once and have one maker
  until they exist (`BirthsOK`). The frames that a job goes on to use live (`JobFramesOK`), and no two jobs hold
  the same frame (`HoldsOK`). `ReadsOK` is the second half of `FramesOutliveTheirUse`; it is kept because a deletion
  is queued behind every request that was posted before it. `ScanOwnersOK`, `ScanRequestsOK` and
  `ScanMessagesOK` follow a scan: its promise is resolved before its task, and with the table of the frame.
- `RegistryOK`: the frames of the registry and of waiting actions live and hold the table that comes with
  them. `UniqueOK`: each of them is known in one place. `HeldOK`: a job may hold a frame that is known only if it is
  the table of its own analysis. Deleting a frame that a sort replaces is safe because of `OpenOK`: a query has
  a sort only after its analysis ended, so that no job holds what is replaced; two sorts of one table read
  frames that were shown to the user, each before the deletion of its frame is posted. `CreatedOK`: until the
  first frame arrives, what waits and what the registry has of a query is its result as it came (`Pristine`).
- `ViewOK`: the frame that a click on a column sorts is the one of the state that was rendered, and that state
  differs from the registry only while a render is under way (`ShownOK`). It is here that the memo of the cells
  matters: it does not compare frames, but every action that changes the frame of a table
  that is shown changes its table too (`Follows`), whereas `CREATED_DATA_FRAME`, which does not, is never
  reduced for a query that is shown.

A step of a job does several things in a row: it takes the answer, moves on, posts tasks, dispatches actions.
Each of these preserves the invariant by itself (`TakeTask`, `MoveKeeps`, `PostKeeps`, `DispatchKeeps`,
`DeletePosted`), and the steps of jobs are put together from them (`IngestsKeeps` to `SortedKeeps`). The
steps of the worker keep `CoreOK` and spare the living frames (`WorkerNextGoes`). For the reducer, `ReduceOne` sorts
its cases by what they do to the frame of a table, and `Replaced` says that a replaced frame is not in use.

The parts of the invariants that TLC can evaluate were checked on the instances of the runs before
they were proved.

### Model-checked only

- All liveness (`ReadsReturn`, `QueriesEnd`, `WorkEnds`, `AppIsDecided`, `CancelledSetupsEnd`,
  `EditorSettles`, `AnalysesSettle`): the prover has no rules for fairness.
- `CatalogLookup` to `CatalogViewer`: their layout and rendering are recursive operators over trees,
  which tlapm cannot reason about.
- `GridFitsTable`: the layout of a grid and the number of its columns are folds over the fields and column
  groups of a table, and that the two agree is induction over data.

## Not modelled

- HTTP streams: the shape of the gRPC manager without overlapping reads. Two remarks from reading: a read
  that times out after the headers loses the status (`http_stream_manager.rs:232`), and the
  client's `arrayBuffer` ends silently when a stream failed.
- Parsing (generated automata), completion (a ranking without state), the rope (a B+-tree over raw
  bytes), other containers, what DataFusion computes, rows and record batches, serialisation.
- `REGISTER_QUERY`, `DESTROY` and `RESTORE_WORKBOOK` of workbooks, gutters, tooltips and statistics.
- The release tool, IPC routing, deep links and logging, which keep no state of their own.

## Plan

- A lifetime model of the name registries behind the string views of the catalog.
