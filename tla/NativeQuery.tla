---------------------------- MODULE NativeQuery ----------------------------
(***************************************************************************)
(* A query of the native app from the web view to the Hyper server and     *)
(* back: the clients in the web view (platform/native_grpc_client.ts,      *)
(* platform/native_hyperdb_client.ts), the gRPC proxy                      *)
(* (dashql-native/src/grpc_proxy.rs) and the stream manager behind it,     *)
(* whose read calls are the requests of the clients.                       *)
(*                                                                         *)
(* A query reads one stream, one request at a time, so that the readers of *)
(* the stream manager are the queries.  The web view runs one piece of     *)
(* code at a time.  produce never leaves its loop: once a result is at its *)
(* end it only awaits what is there already, and nothing else of the web   *)
(* view runs again (Frozen).                                               *)
(*                                                                         *)
(* External: the Arrow reader takes the schema from the first Arrow chunk  *)
(* and one record batch from every other one.  The answer of the proxy     *)
(* always has as many messages as it says, so that the client's check for  *)
(* that never fails.                                                       *)
(***************************************************************************)
EXTENDS GrpcStreamManager

CONSTANTS
  MaxChannels,     \* bound: the channels that are created
  Result           \* the kinds of the messages of a stream, by their number

ASSUME ResultAssumption ==
  /\ MaxChannels \in Nat
  /\ Result \in [Streams -> [1..MaxMessages -> {"header", "arrowChunk", "qsv1Chunk"}]]

VARIABLES
  next_channel_id,
  channels,        \* the channels of the proxy
  channel,         \* the channel in the state of the connection, or 0
  closing,         \* the channels with a DELETE request on its way
  client           \* the client's objects of a query, and where its code is

queryVars == <<vars, next_channel_id, channels, channel, closing, client>>

managerVars == vars
proxyVars == <<next_channel_id, channels>>
connectionVars == <<channel, closing>>

(***************************************************************************)
(* NativeGrpcServerStream and the result stream, with the messages that    *)
(* the consumer of the query got.                                          *)
(***************************************************************************)
Client(state, health, id) ==
  [state |-> state, health |-> health, channelId |-> id, streamId |-> 0,
   event |-> "none", currentBatch |-> <<>>, reachedEndOfStream |-> FALSE,
   resultSchema |-> FALSE, batches |-> <<>>]

QueryInit ==
  /\ Init
  /\ next_channel_id = 1
  /\ channels = {}
  /\ channel = 0
  /\ closing = {}
  /\ client = [q \in Readers |-> Client("idle", FALSE, 0)]

Frozen == \E q \in Readers : client[q].state = "drained"

Becomes(q, c) == client' = [client EXCEPT ![q] = c]

\* An exception reaches the caller of produce or executeQuery.
Throws(q) == Becomes(q, [client[q] EXCEPT !.state = "failed", !.currentBatch = <<>>])

-----------------------------------------------------------------------------
(***************************************************************************)
(* Channels.  A failed connection consumes an id as well.                  *)
(***************************************************************************)
Connect ==
  /\ ~Frozen
  /\ channel = 0
  /\ next_channel_id <= MaxChannels
  /\ next_channel_id' = next_channel_id + 1
  /\ \/ /\ channels' = channels \cup {next_channel_id}
        /\ channel' = next_channel_id
     \/ UNCHANGED <<channels, channel>>
  /\ UNCHANGED <<managerVars, closing, client>>

\* RESET closes the channel without waiting for the answer.
Close ==
  /\ ~Frozen
  /\ channel # 0
  /\ closing' = closing \cup {channel}
  /\ channel' = 0
  /\ UNCHANGED <<managerVars, proxyVars, client>>

DestroyChannel(c) ==
  /\ c \in closing
  /\ closing' = closing \ {c}
  /\ channels' = channels \ {c}
  /\ UNCHANGED <<managerVars, next_channel_id, channel, client>>

-----------------------------------------------------------------------------
(***************************************************************************)
(* executeQuery, and the health check that begins with one.                *)
(***************************************************************************)
ExecuteQuery(q, health) ==
  /\ ~Frozen
  /\ client[q].state = "idle"
  /\ channel # 0
  /\ Becomes(q, Client("starting", health, channel))
  /\ UNCHANGED <<managerVars, proxyVars, connectionVars>>

\* start_server_stream looks up the channel and then awaits the server.
CallServer(q) ==
  /\ client[q].state = "starting"
  /\ \/ /\ client[q].channelId \in channels
        /\ Becomes(q, [client[q] EXCEPT !.state = "calling"])
     \/ /\ client[q].channelId \notin channels
        /\ Throws(q)
  /\ UNCHANGED <<managerVars, proxyVars, connectionVars>>

CallFails(q) ==
  /\ client[q].state = "calling"
  /\ Throws(q)
  /\ UNCHANGED <<managerVars, proxyVars, connectionVars>>

\* The server answers, and the stream is registered although its channel may
\* be gone.  The health check awaits the schema, which only produce sets.
RegisterStream(q, s) ==
  /\ client[q].state = "calling"
  /\ StartServerStream(s)
  /\ Becomes(q, [client[q] EXCEPT !.state = IF client[q].health THEN "awaitingSchema" ELSE "pulling",
                                  !.streamId = s])
  /\ UNCHANGED <<proxyVars, connectionVars>>

-----------------------------------------------------------------------------
(***************************************************************************)
(* The server pushes into the stream of a query.                           *)
(***************************************************************************)
ServerPushes(s) ==
  /\ ReaderTask(s)
  /\ UNCHANGED <<proxyVars, connectionVars, client>>

(***************************************************************************)
(* NativeGrpcServerStream.read: the proxy checks the channel, although the *)
(* stream manager finds the stream without it, and turns every error into  *)
(* a response that makes the client throw.                                 *)
(***************************************************************************)
Pulls(q) == ~Frozen /\ client[q].state = "pulling"

NeedsBatch(q) == client[q].currentBatch = <<>> /\ ~client[q].reachedEndOfStream

Read(q) ==
  /\ Pulls(q)
  /\ NeedsBatch(q)
  /\ client[q].channelId \in channels
  /\ ReadServerStream(q, client[q].streamId)
  /\ Becomes(q, [client[q] EXCEPT !.state = "reading"])
  /\ UNCHANGED <<proxyVars, connectionVars>>

ReadIsRefused(q) ==
  /\ Pulls(q)
  /\ NeedsBatch(q)
  /\ client[q].channelId \notin channels \/ client[q].streamId \notin server_streams
  /\ Throws(q)
  /\ UNCHANGED <<managerVars, proxyVars, connectionVars>>

\* What the read call returned for the stream, and with which event.
Returned(s) == SubSeq(delivered'[s], Len(delivered[s]) + 1, Len(delivered'[s]))

BatchEvent(s) ==
  IF outcome'[s] # outcome[s] THEN outcome'[s]
  ELSE IF Returned(s) = <<>> THEN "GrpcStreamReadTimedOut"
  ELSE "flush"

ServeRead(q) ==
  LET s == client[q].streamId IN
  /\ client[q].state = "reading"
  /\ ReadCall(q, s)
  /\ \/ call'[q] # Idle /\ UNCHANGED client
     \/ /\ call'[q] = Idle
        /\ Becomes(q, [client[q] EXCEPT !.state = "answered",
                                        !.event = BatchEvent(s),
                                        !.currentBatch = Returned(s)])
  /\ UNCHANGED <<proxyVars, connectionVars>>

NextBatchReadsOn(q) == \* mutant
  /\ ~Frozen
  /\ client[q].state = "answered"
  /\ \/ /\ client[q].event \in {"flush", "finished"}
        /\ Becomes(q, [client[q] EXCEPT !.state = "pulling"])
     \/ /\ client[q].event \notin {"flush", "finished"}
        /\ Throws(q)
  /\ UNCHANGED <<managerVars, proxyVars, connectionVars>>

NextBatchRetries(q) == \* mutant
  /\ ~Frozen
  /\ client[q].state = "answered"
  /\ \/ /\ client[q].event # "failed"
        /\ Becomes(q, [client[q] EXCEPT !.state = "pulling",
                                        !.reachedEndOfStream = (client[q].event = "finished")])
     \/ /\ client[q].event = "failed"
        /\ Throws(q)
  /\ UNCHANGED <<managerVars, proxyVars, connectionVars>>

\* NativeGrpcServerStream.next: a failure and a timeout are thrown, and the
\* last batch of the stream is passed on before the iterators are done.
NextBatch(q) ==
  /\ ~Frozen
  /\ client[q].state = "answered"
  /\ \/ /\ client[q].event \in {"flush", "finished"}
        /\ Becomes(q, [client[q] EXCEPT !.state = "pulling",
                                        !.reachedEndOfStream = (client[q].event = "finished")])
     \/ /\ client[q].event \notin {"flush", "finished"}
        /\ Throws(q)
  /\ UNCHANGED <<managerVars, proxyVars, connectionVars>>

(***************************************************************************)
(* The message iterator hands out the messages of a batch, and the result  *)
(* reader passes the Arrow chunks on to produce: the first one has the     *)
(* schema, the others are for the consumer.                                *)
(***************************************************************************)
Kind(q) == Result[client[q].streamId][Head(client[q].currentBatch)]

PullsKind(q, kind) == Pulls(q) /\ client[q].currentBatch # <<>> /\ Kind(q) = kind

SkipHeader(q) ==
  /\ PullsKind(q, "header")
  /\ Becomes(q, [client[q] EXCEPT !.currentBatch = Tail(@)])
  /\ UNCHANGED <<managerVars, proxyVars, connectionVars>>

PullSchemaDropsBatch(q) == \* mutant
  /\ PullsKind(q, "arrowChunk")
  /\ ~client[q].resultSchema
  /\ Becomes(q, [client[q] EXCEPT !.currentBatch = <<>>,
                                  !.resultSchema = TRUE])
  /\ UNCHANGED <<managerVars, proxyVars, connectionVars>>

PullSchema(q) ==
  /\ PullsKind(q, "arrowChunk")
  /\ ~client[q].resultSchema
  /\ Becomes(q, [client[q] EXCEPT !.currentBatch = Tail(@),
                                  !.resultSchema = TRUE])
  /\ UNCHANGED <<managerVars, proxyVars, connectionVars>>

PullRecordBatch(q) ==
  /\ PullsKind(q, "arrowChunk")
  /\ client[q].resultSchema
  /\ Becomes(q, [client[q] EXCEPT !.currentBatch = Tail(@),
                                  !.batches = Append(@, Head(client[q].currentBatch))])
  /\ UNCHANGED <<managerVars, proxyVars, connectionVars>>

PullWrongChunk(q) ==
  /\ PullsKind(q, "qsv1Chunk")
  /\ Throws(q)
  /\ UNCHANGED <<managerVars, proxyVars, connectionVars>>

\* The iterators are done: produce turns in its loop.
Drain(q) ==
  /\ Pulls(q)
  /\ client[q].currentBatch = <<>>
  /\ client[q].reachedEndOfStream
  /\ Becomes(q, [client[q] EXCEPT !.state = "drained", !.resultSchema = TRUE])
  /\ UNCHANGED <<managerVars, proxyVars, connectionVars>>

-----------------------------------------------------------------------------
ReadQuery(q) ==
  \/ Read(q)
  \/ ReadIsRefused(q)
  \/ ServeRead(q)
  \/ NextBatch(q)
  \/ SkipHeader(q)
  \/ PullSchema(q)
  \/ PullRecordBatch(q)
  \/ PullWrongChunk(q)
  \/ Drain(q)

QueryNext ==
  \/ Connect
  \/ Close
  \/ \E c \in 1..MaxChannels : DestroyChannel(c)
  \/ \E s \in Streams : ServerPushes(s)
  \/ \E q \in Readers :
       \/ \E health \in BOOLEAN : ExecuteQuery(q, health)
       \/ CallServer(q)
       \/ CallFails(q)
       \/ \E s \in Streams : RegisterStream(q, s)
       \/ ReadQuery(q)

QuerySpec == QueryInit /\ [][QueryNext]_queryVars

(***************************************************************************)
(* The event loop and the runtime go on and timers fire.  The server need  *)
(* not answer.                                                             *)
(***************************************************************************)
FairQuerySpec == QuerySpec /\ \A q \in Readers : WF_queryVars(ReadQuery(q))

-----------------------------------------------------------------------------
(***************************************************************************)
(* Properties.                                                             *)
(***************************************************************************)
Chunks(s, n) == {m \in 1..n : Result[s][m] = "arrowChunk"}

\* The chunks among the first n messages of a stream without the first chunk,
\* which has the schema.
RecordBatches(s, n) == {m \in Chunks(s, n) : \E k \in Chunks(s, n) : k < m}

\* The messages of its stream that a client has pulled.
Pulled(q) == Len(delivered[client[q].streamId]) - Len(client[q].currentBatch)

\* Through channel, read call, batch and iterators every record batch of the
\* server reaches the consumer of its own query, once and in order, and a
\* result that came to its end is complete: no read that times out, no flush
\* and no other query makes a result shorter without an error.
ResultsAreExact ==
  \A q \in Readers : client[q].state \in {"pulling", "reading", "drained"} =>
    /\ {client[q].batches[i] : i \in DOMAIN client[q].batches}
         = RecordBatches(client[q].streamId, Pulled(q))
    /\ \A i, j \in DOMAIN client[q].batches :
         i < j => client[q].batches[i] < client[q].batches[j]
    /\ client[q].state = "drained" =>
         /\ outcome[client[q].streamId] = "finished"
         /\ Pulled(q) = received[client[q].streamId]

\* A client that will read again finds its stream: the stream manager forgets
\* a stream when a read call reports its end, and the client that got this
\* answer never asks for more.
StreamsOutliveTheirClients ==
  \A q \in Readers :
    client[q].state = "reading" \/ (client[q].state = "pulling" /\ NeedsBatch(q)) =>
      client[q].streamId \in server_streams

\* A query that reads its result comes to an end, with an error if its server
\* falls silent or its channel is closed, unless the end of another one froze
\* the web view.
QueriesEnd ==
  \A q \in Readers :
    client[q].state \in {"pulling", "reading", "answered"} ~>
      client[q].state = "failed" \/ Frozen

=============================================================================
