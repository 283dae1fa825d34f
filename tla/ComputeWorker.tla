---------------------------- MODULE ComputeWorker ----------------------------
(***************************************************************************)
(* The compute worker and the bindings through which the app talks to it   *)
(* (dashql-app/src/compute/compute_worker.ts, compute_worker_bindings.ts   *)
(* and compute_worker_request.ts).                                         *)
(*                                                                         *)
(* Both directions of the message port are queues.  The worker takes one   *)
(* request at a time and answers it in the same step, except that it       *)
(* awaits the instantiation of the WebAssembly module and every transform: *)
(* other requests are handled meanwhile.  A call into the module returns   *)
(* or throws: a trap of the module inside an awaited transform, after      *)
(* which the promise never settles, is not modelled.                       *)
(*                                                                         *)
(* The main thread is [bindings, requests] in one record, m, so that a     *)
(* handler that posts several tasks threads them through PostTask.         *)
(***************************************************************************)
EXTENDS TableTransforms, Functions

CONSTANTS Nobody,    \* who waits for a task that is not awaited
          Provider   \* the provider that instantiates the worker

ASSUME OwnerAssumption == Nobody \notin Nat /\ Provider \notin Nat

VARIABLES
    worker,      \* the state of the worker
    main,        \* the bindings, and the requests that the worker has not taken
    responses    \* the messages of the worker that the main thread has not taken

workerVars == <<worker, main, responses>>

\* An entry of a map is set.
With(map, key, value) == [k \in DOMAIN map \cup {key} |-> IF k = key THEN value ELSE map[k]]

NoFrame == -1
NoScan  == -1

(***************************************************************************)
(* The bindings                                                            *)
(***************************************************************************)
\* A task that is pending: its type and who awaits its promise.
ComputeWorkerTask(type, owner) == [type |-> type, owner |-> owner]
Request(id, type, data) == [messageId |-> id, type |-> type, data |-> data]
NoData == [frame |-> NoFrame]

postTask(m, owner, type, data) ==
    LET id == m.nextMessageId
    IN  [m EXCEPT !.nextMessageId = id + 1,
                  !.pendingRequests = With(@, id, ComputeWorkerTask(type, owner)),
                  !.requests = Append(@, Request(id, type, data))]

createArrowIngest(m, owner) == postTask(m, owner, "DATAFRAME_FROM_INGEST", NoData)
writeTable(m, owner, frame, table) ==
    postTask(m, owner, "DATAFRAME_INGEST_WRITE", [frame |-> frame, table |-> table])
finishIngest(m, owner, frame) == postTask(m, owner, "DATAFRAME_INGEST_FINISH", [frame |-> frame])
deleteFrame(m, frame) == postTask(m, Nobody, "DATAFRAME_DELETE", [frame |-> frame])
transformFrame(m, owner, frame, transform, stats) ==
    postTask(m, owner, "DATAFRAME_TRANSFORM",
             [frame |-> frame, transform |-> transform, stats |-> stats])

\* The promise of a scan is resolved by its messages, the task by the answer.
AsyncDataFrameScan(owner) == [owner |-> owner, messageData |-> <<>>]

readTable(m, owner, frame) ==
    LET scan == m.nextScanId
    IN  postTask([m EXCEPT !.nextScanId = scan + 1,
                           !.activeScans = With(@, scan, AsyncDataFrameScan(owner))],
                 owner, "DATAFRAME_SCAN", [frame |-> frame, scan |-> scan])

\* The provider posts the instantiation when the app is mounted.
Bindings ==
    postTask([nextMessageId |-> 0, pendingRequests |-> <<>>, nextScanId |-> 0,
              activeScans |-> <<>>, requests |-> <<>>],
             Provider, "INSTANTIATE", NoData)

scanMessage(m, scan, buffer) ==
    IF scan \notin DOMAIN m.activeScans THEN m
    ELSE [m EXCEPT !.activeScans[scan].messageData = Append(@, buffer)]

scanFinish(m, scan) == [m EXCEPT !.activeScans = Restrict(@, DOMAIN @ \ {scan})]

takePending(m, id) == [m EXCEPT !.pendingRequests = Restrict(@, DOMAIN @ \ {id})]

onError(m) == [m EXCEPT !.pendingRequests = <<>>]

\* What a task accepts as its answer: everything else rejects its promise.
Resolves(task, response) ==
    CASE task.type \in {"DATAFRAME_FROM_INGEST", "DATAFRAME_TRANSFORM"} ->
            response.type = "DATAFRAME_ID"
      [] OTHER -> response.type = "OK"

\* The table that the messages of a scan hold: schema and rows are one message.
tableFromIPC(data) == data[1]

(***************************************************************************)
(* The worker                                                              *)
(***************************************************************************)
Worker ==
    [module |-> "starting", nextFrameId |-> 0, frameBuilders |-> <<>>, frames |-> <<>>,
     transforms |-> {}]

Init ==
    /\ worker = Worker
    /\ main = Bindings
    /\ responses = <<>>

Response(to, type, data) == [requestId |-> to.messageId, type |-> type, data |-> data]
sendOK(to)   == Response(to, "OK", NoData)
\* The error says who raised it: the worker, because it does not know a frame, or the
\* compute module, which cannot be called, refuses a transform, or fails on the data.
failWith(to, error) == Response(to, "ERROR", [error |-> error])

\* The script of the worker is loaded, or the browser reports that it failed.
Loaded == worker.module \notin {"starting", "dead"}

Register ==
    /\ worker.module = "starting"
    /\ worker' = [worker EXCEPT !.module = "absent"]
    /\ UNCHANGED <<main, responses>>

ScriptFails ==
    /\ worker.module = "starting"
    /\ worker' = [worker EXCEPT !.module = "dead"]
    /\ responses' = Append(responses, [requestId |-> -1, type |-> "error", data |-> NoData])
    /\ UNCHANGED main

\* The worker takes the next request, of one type.
request == Head(main.requests)
Takes(type) ==
    /\ Loaded
    /\ main.requests # <<>>
    /\ request.type = type
    /\ main' = [main EXCEPT !.requests = Tail(@)]

Answer(messages) == responses' = responses \o messages

Instantiate ==
    /\ Takes("INSTANTIATE")
    /\ worker' = [worker EXCEPT !.module = "loading"]
    /\ UNCHANGED responses

Instantiated ==
    /\ worker.module = "loading"
    /\ \E works \in BOOLEAN :
        /\ worker' = [worker EXCEPT !.module = IF works THEN "ready" ELSE "failed"]
        /\ Answer(<< [requestId |-> 0, type |-> IF works THEN "OK" ELSE "ERROR",
                      data |-> NoData] >>)
    /\ UNCHANGED main

\* mutant: the id of the frame is not used up
IngestKeepsId ==
    /\ Takes("DATAFRAME_FROM_INGEST")
    /\ LET id == worker.nextFrameId
       IN  IF worker.module = "ready"
           THEN /\ worker' = [worker EXCEPT !.frameBuilders = With(@, id, <<>>)]
                /\ Answer(<<Response(request, "DATAFRAME_ID", [frame |-> id])>>)
           ELSE /\ Answer(<<failWith(request, "module")>>)
                /\ UNCHANGED worker

\* An ingest needs the module.
DataFrameFromIngest ==
    /\ Takes("DATAFRAME_FROM_INGEST")
    /\ LET id == worker.nextFrameId
       IN  IF worker.module = "ready"
           THEN /\ worker' = [worker EXCEPT !.nextFrameId = id + 1,
                                            !.frameBuilders = With(@, id, <<>>)]
                /\ Answer(<<Response(request, "DATAFRAME_ID", [frame |-> id])>>)
           ELSE /\ worker' = [worker EXCEPT !.nextFrameId = id + 1]
                /\ Answer(<<failWith(request, "module")>>)

\* A request that fails and leaves the worker as it is
Fails(error) == Answer(<<failWith(request, error)>>) /\ UNCHANGED worker

\* The module reads one batch of the stream, and may fail to.  A table whose stream has
\* no batch, or has more than one and loses the rest, is not modelled.
DataFrameIngestWrite ==
    /\ Takes("DATAFRAME_INGEST_WRITE")
    /\ LET id == request.data.frame
       IN  IF id \in DOMAIN worker.frameBuilders
           THEN \/ /\ worker' = [worker EXCEPT !.frameBuilders[id] = request.data.table]
                   /\ Answer(<<sendOK(request)>>)
                \/ Fails("execution")
           ELSE Fails("unknown frame")

\* The frame has the schema of the batch.  The builder stays behind under its id.
DataFrameIngestFinish ==
    /\ Takes("DATAFRAME_INGEST_FINISH")
    /\ LET id == request.data.frame
       IN  IF id \in DOMAIN worker.frameBuilders
           THEN \/ /\ worker' = [worker EXCEPT
                           !.frames = With(@, id, [fields |-> worker.frameBuilders[id],
                                                   order |-> Null])]
                   /\ Answer(<<sendOK(request)>>)
                \/ Fails("execution")
           ELSE Fails("unknown frame")

ScanMessage(buffer) ==
    Response(request, "DATAFRAME_SCAN_MESSAGE", [scan |-> request.data.scan, buffer |-> buffer])

\* The scan may fail before or after a message: it is not finished then.
DataFrameScan ==
    /\ Takes("DATAFRAME_SCAN")
    /\ LET id == request.data.frame
       IN  IF id \notin DOMAIN worker.frames THEN Answer(<<failWith(request, "unknown frame")>>)
           ELSE LET frame  == worker.frames[id]
                    data   == ScanMessage(frame)
                    finish == Response(request, "DATAFRAME_SCAN_FINISH",
                                       [scan |-> request.data.scan])
                IN  \/ Answer(<<data, finish, sendOK(request)>>)
                    \/ Answer(<<data, failWith(request, "execution")>>)
                    \/ Answer(<<failWith(request, "execution")>>)
    /\ UNCHANGED worker

\* A frame that a transform still reads cannot be freed: the request fails
\* when the frame is already out of the map.
DataFrameDelete ==
    /\ Takes("DATAFRAME_DELETE")
    /\ LET id   == request.data.frame
           read == \E t \in worker.transforms : id \in {t.request.data.frame, t.request.data.stats}
       IN  /\ worker' = [worker EXCEPT !.frames = Restrict(@, DOMAIN @ \ {id})]
           /\ Answer(<<IF id \in DOMAIN worker.frames /\ read
                       THEN failWith(request, "in use") ELSE sendOK(request)>>)

\* The id of the result is taken before the transform is awaited.
DataFrameTransformStarts ==
    /\ Takes("DATAFRAME_TRANSFORM")
    /\ LET id    == worker.nextFrameId
           frame == request.data.frame
           stats == request.data.stats
       IN  IF frame \notin DOMAIN worker.frames
           THEN Fails("unknown frame")
           ELSE IF stats # NoFrame /\ stats \notin DOMAIN worker.frames
           THEN /\ worker' = [worker EXCEPT !.nextFrameId = id + 1]
                /\ Answer(<<failWith(request, "unknown frame")>>)
           ELSE /\ worker' = [worker EXCEPT
                        !.nextFrameId = id + 1,
                        !.transforms = @ \cup
                            {[request |-> request, id |-> id,
                              result |-> DataFrameTransform(request.data.transform,
                                            worker.frames[frame],
                                            IF stats = NoFrame THEN <<>>
                                            ELSE worker.frames[stats].fields)]}]
                /\ UNCHANGED responses

\* A transform that is not refused may still fail on the data, with any error of the
\* query engine: a cast, an overflow, a kernel that a type does not have.
DataFrameTransformFinishes ==
    \E t \in worker.transforms, works \in BOOLEAN :
        LET done == t.result # <<>> /\ works
        IN  /\ worker' = [worker EXCEPT !.transforms = @ \ {t},
                                        !.frames = IF done THEN With(@, t.id, t.result[1])
                                                   ELSE @]
            /\ Answer(<<IF done THEN Response(t.request, "DATAFRAME_ID", [frame |-> t.id])
                        ELSE failWith(t.request, IF t.result = <<>> THEN "refused"
                                                 ELSE "execution")>>)
            /\ UNCHANGED main

WorkerNext ==
    \/ Register \/ ScriptFails \/ Instantiate \/ Instantiated
    \/ DataFrameFromIngest \/ DataFrameIngestWrite \/ DataFrameIngestFinish
    \/ DataFrameScan \/ DataFrameDelete
    \/ DataFrameTransformStarts \/ DataFrameTransformFinishes

=============================================================================
