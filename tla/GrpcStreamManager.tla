------------------------- MODULE GrpcStreamManager -------------------------
(***************************************************************************)
(* The server streams of the native app                                    *)
(* (src/packages/dashql-native/src/grpc_stream_manager.rs).                *)
(*                                                                         *)
(* Every stream has a tokio task that pulls responses from the gRPC        *)
(* connection and pushes them into a bounded channel.  Read calls, which   *)
(* come from the web view over IPC and may overlap, take the channel's     *)
(* receiver in turn and return what they find in batches.  The two sides   *)
(* share the map of streams and one Arc per stream that holds both ends of *)
(* its channel.                                                            *)
(*                                                                         *)
(* Time is not modelled: a timeout is an action that may happen whenever   *)
(* the code can observe it.  The Arc of a stream is held by its task and   *)
(* by every read call, so that neither side ever finds the channel closed: *)
(* the branches for that (FlushAfterClose, GrpcStreamClosed, a failed      *)
(* send) are never taken and have no action.                               *)
(***************************************************************************)
EXTENDS Naturals, Sequences

CONSTANTS
  Readers,         \* the read calls that can be in progress at one time
  MaxStreams,      \* bound: streams that are started
  MaxMessages,     \* bound: messages of a stream
  MessageBytes,    \* the size of the nth message of a stream
  STREAM_CAPACITY, \* the capacity of the channel, 10 in the code
  FlushBatchBytes  \* a batch with more bytes is returned at once

ASSUME StreamAssumption ==
  /\ MaxStreams \in Nat
  /\ MaxMessages \in Nat
  /\ MessageBytes \in [1..MaxMessages -> Nat]
  /\ STREAM_CAPACITY \in Nat \ {0}
  /\ FlushBatchBytes \in Nat

Streams == 0..(MaxStreams - 1)

VARIABLES
  next_stream_id,
  server_streams,    \* the ids in the map of streams
  task,              \* the state of a stream's reader task
  response,          \* the response that the task is pushing
  response_receiver, \* the responses in the channel
  waiting,           \* the read calls in the queue of the receiver's mutex
  call,              \* the read calls in progress, with the batch they hold
  received,          \* the number of messages the server sent
  delivered,         \* the messages that read calls returned, in order
  outcome            \* the end of the stream as a read call reported it

\* received, delivered and outcome are what the two clients of the manager
\* saw: no action reads the last two, and received numbers the messages.
vars == <<next_stream_id, server_streams, task, response, response_receiver,
          waiting, call, received, delivered, outcome>>

-----------------------------------------------------------------------------
(***************************************************************************)
(* GrpcServerStreamEvent: a message is its number in the stream.           *)
(***************************************************************************)
Message(n) == [event |-> "Message", number |-> n]
Terminal(e) == [event |-> e, number |-> 0]
Ends == {"End", "ReadFailed"}
Event == {Message(n) : n \in 1..MaxMessages} \cup {Terminal(e) : e \in Ends}

EmptyBatch == [messages |-> <<>>, total_message_bytes |-> 0]
Idle == [state |-> "idle", stream |-> 0, batch |-> EmptyBatch]

HoldsReceiver(r, s) == call[r].state = "receiving" /\ call[r].stream = s

Init ==
  /\ next_stream_id = 0
  /\ server_streams = {}
  /\ task = [s \in Streams |-> "none"]
  /\ response = [s \in Streams |-> Terminal("End")]
  /\ response_receiver = [s \in Streams |-> <<>>]
  /\ waiting = [s \in Streams |-> <<>>]
  /\ call = [r \in Readers |-> Idle]
  /\ received = [s \in Streams |-> 0]
  /\ delivered = [s \in Streams |-> <<>>]
  /\ outcome = [s \in Streams |-> "open"]

-----------------------------------------------------------------------------
(***************************************************************************)
(* start_server_stream registers the stream and spawns its reader task.    *)
(***************************************************************************)
StartServerStream(s) ==
  /\ s = next_stream_id
  /\ next_stream_id' = next_stream_id + 1
  /\ server_streams' = server_streams \cup {s}
  /\ task' = [task EXCEPT ![s] = "reading"]
  /\ UNCHANGED <<response, response_receiver, waiting, call, received, delivered, outcome>>

\* The server answers: streaming.message() returns a message, the end of the
\* stream (and then its trailers) or an error.
ReadMessage(s) ==
  /\ task[s] = "reading"
  /\ received[s] < MaxMessages
  /\ received' = [received EXCEPT ![s] = @ + 1]
  /\ response' = [response EXCEPT ![s] = Message(received[s] + 1)]
  /\ task' = [task EXCEPT ![s] = "sending"]
  /\ UNCHANGED <<next_stream_id, server_streams, response_receiver, waiting, call,
                 delivered, outcome>>

ReadEnd(s, e) ==
  /\ task[s] = "reading"
  /\ response' = [response EXCEPT ![s] = Terminal(e)]
  /\ task' = [task EXCEPT ![s] = "sending"]
  /\ UNCHANGED <<next_stream_id, server_streams, response_receiver, waiting, call,
                 received, delivered, outcome>>

PushResponseBeyondCapacity(s) == \* mutant
  /\ task[s] = "sending"
  /\ Len(response_receiver[s]) <= STREAM_CAPACITY
  /\ response_receiver' = [response_receiver EXCEPT ![s] = Append(@, response[s])]
  /\ task' = [task EXCEPT ![s] = IF response[s].event = "Message" THEN "reading" ELSE "done"]
  /\ UNCHANGED <<next_stream_id, server_streams, response, waiting, call,
                 received, delivered, outcome>>

\* The task awaits a free slot of the channel.
PushResponse(s) ==
  /\ task[s] = "sending"
  /\ Len(response_receiver[s]) < STREAM_CAPACITY
  /\ response_receiver' = [response_receiver EXCEPT ![s] = Append(@, response[s])]
  /\ task' = [task EXCEPT ![s] = IF response[s].event = "Message" THEN "reading" ELSE "done"]
  /\ UNCHANGED <<next_stream_id, server_streams, response, waiting, call,
                 received, delivered, outcome>>

-----------------------------------------------------------------------------
(***************************************************************************)
(* read_server_stream.  An unknown stream is an error that changes         *)
(* nothing.  Otherwise the call clones the stream's Arc and queues up for  *)
(* the receiver, whose mutex is fair.                                      *)
(***************************************************************************)
ReadServerStream(r, s) ==
  /\ call[r] = Idle
  /\ s \in server_streams
  /\ call' = [call EXCEPT ![r] = [state |-> "locking", stream |-> s, batch |-> EmptyBatch]]
  /\ waiting' = [waiting EXCEPT ![s] = Append(@, r)]
  /\ UNCHANGED <<next_stream_id, server_streams, task, response, response_receiver,
                 received, delivered, outcome>>

LockReceiver(r, s) ==
  /\ waiting[s] # <<>> /\ r = Head(waiting[s])
  /\ \A q \in Readers : ~HoldsReceiver(q, s)
  /\ call' = [call EXCEPT ![r].state = "receiving"]
  /\ waiting' = [waiting EXCEPT ![s] = Tail(@)]
  /\ UNCHANGED <<next_stream_id, server_streams, task, response, response_receiver,
                 received, delivered, outcome>>

\* The call returns a batch and lets go of the receiver and the Arc.
ReturnBatch(r, s, batch) ==
  /\ call' = [call EXCEPT ![r] = Idle]
  /\ delivered' = [delivered EXCEPT ![s] = @ \o batch.messages]

Receives(r, s, events) ==
  /\ HoldsReceiver(r, s)
  /\ response_receiver[s] # <<>>
  /\ Head(response_receiver[s]).event \in events
  /\ response_receiver' = [response_receiver EXCEPT ![s] = Tail(@)]
  /\ UNCHANGED <<next_stream_id, task, response, waiting, received>>

ExtendByLength(batch, n) == \* mutant
  [messages |-> Append(batch.messages, MessageBytes[n]), total_message_bytes |-> n]

Extend(batch, n) ==
  [messages |-> Append(batch.messages, n),
   total_message_bytes |-> batch.total_message_bytes + MessageBytes[n]]

MustFlush(batch) == batch.total_message_bytes > FlushBatchBytes

ReceiveMessage(r, s) ==
  /\ Receives(r, s, {"Message"})
  /\ LET batch == Extend(call[r].batch, Head(response_receiver[s]).number) IN
     \/ /\ ~MustFlush(batch)
        /\ call' = [call EXCEPT ![r].batch = batch]
        /\ UNCHANGED delivered
     \/ /\ MustFlush(batch)            \* FlushAfterBytes
        /\ ReturnBatch(r, s, batch)
  /\ UNCHANGED <<server_streams, outcome>>

ReceiveEndKeepsStream(r, s) == \* mutant
  /\ Receives(r, s, {"End"})
  /\ ReturnBatch(r, s, call[r].batch)
  /\ outcome' = [outcome EXCEPT ![s] = "finished"]
  /\ UNCHANGED server_streams

\* The end comes with what the call held back, and the stream is forgotten.
ReceiveEnd(r, s) ==
  /\ Receives(r, s, {"End"})
  /\ ReturnBatch(r, s, call[r].batch)
  /\ server_streams' = server_streams \ {s}
  /\ outcome' = [outcome EXCEPT ![s] = "finished"]

ReceiveFailureWithBatch(r, s) == \* mutant
  /\ Receives(r, s, {"ReadFailed"})
  /\ ReturnBatch(r, s, call[r].batch)
  /\ server_streams' = server_streams \ {s}
  /\ outcome' = [outcome EXCEPT ![s] = "failed"]

\* "Throw away any intermediate messages that we held back."
ReceiveFailure(r, s) ==
  /\ Receives(r, s, {"ReadFailed"})
  /\ ReturnBatch(r, s, EmptyBatch)
  /\ server_streams' = server_streams \ {s}
  /\ outcome' = [outcome EXCEPT ![s] = "failed"]

ReadTimesOutIfRegistered(r, s) == \* mutant
  /\ HoldsReceiver(r, s)
  /\ s \in server_streams
  /\ call[r].batch = EmptyBatch
  /\ response_receiver[s] = <<>>
  /\ ReturnBatch(r, s, EmptyBatch)
  /\ UNCHANGED <<next_stream_id, server_streams, task, response, response_receiver,
                 waiting, received, outcome>>

\* timeout(..) polls the channel before its timer: a call only times out on
\* an empty channel.
ReadTimesOut(r, s) ==
  /\ HoldsReceiver(r, s)
  /\ call[r].batch = EmptyBatch
  /\ response_receiver[s] = <<>>
  /\ ReturnBatch(r, s, EmptyBatch)
  /\ UNCHANGED <<next_stream_id, server_streams, task, response, response_receiver,
                 waiting, received, outcome>>

FlushAfterTimeoutWithoutBatch(r, s) == \* mutant
  /\ HoldsReceiver(r, s)
  /\ call[r].batch # EmptyBatch
  /\ ReturnBatch(r, s, EmptyBatch)
  /\ UNCHANGED <<next_stream_id, server_streams, task, response, response_receiver,
                 waiting, received, outcome>>

\* Once the time for a batch is over, the call does not look at the channel
\* again.
FlushAfterTimeout(r, s) ==
  /\ HoldsReceiver(r, s)
  /\ call[r].batch # EmptyBatch
  /\ ReturnBatch(r, s, call[r].batch)
  /\ UNCHANGED <<next_stream_id, server_streams, task, response, response_receiver,
                 waiting, received, outcome>>

(***************************************************************************)
(* destroy_server_stream removes the stream from the map, and nothing else.*)
(***************************************************************************)
DestroyServerStream(s) ==
  /\ s \in server_streams
  /\ server_streams' = server_streams \ {s}
  /\ UNCHANGED <<next_stream_id, task, response, response_receiver, waiting, call,
                 received, delivered, outcome>>

-----------------------------------------------------------------------------
ReaderTask(s) ==
  \/ ReadMessage(s)
  \/ \E e \in Ends : ReadEnd(s, e)
  \/ PushResponse(s)

ReadCall(r, s) ==
  \/ LockReceiver(r, s)
  \/ ReceiveMessage(r, s)
  \/ ReceiveEnd(r, s)
  \/ ReceiveFailure(r, s)
  \/ ReadTimesOut(r, s)
  \/ FlushAfterTimeout(r, s)

Next == \E s \in Streams :
  \/ StartServerStream(s)
  \/ ReaderTask(s)
  \/ \E r \in Readers : ReadServerStream(r, s) \/ ReadCall(r, s)
  \/ DestroyServerStream(s)

Spec == Init /\ [][Next]_vars

(***************************************************************************)
(* The tokio runtime polls every task that can go on, and timers fire.     *)
(***************************************************************************)
Fairness == \A s \in Streams :
  /\ WF_vars(PushResponse(s))
  /\ \A r \in Readers : WF_vars(ReadCall(r, s))

\* A server that keeps answering until its stream is over.
ServerFairness == \A s \in Streams : WF_vars(ReadMessage(s) \/ \E e \in Ends : ReadEnd(s, e))

FairSpec == Spec /\ Fairness
LiveServerSpec == FairSpec /\ ServerFairness
-----------------------------------------------------------------------------
(***************************************************************************)
(* Properties.                                                             *)
(***************************************************************************)
Batch == [messages : Seq(1..MaxMessages), total_message_bytes : Nat]
Call == [state : {"idle", "locking", "receiving"}, stream : Nat, batch : Batch]

\* Every part of the manager keeps its type.
TypeOK ==
  /\ next_stream_id \in 0..MaxStreams
  /\ server_streams \subseteq Streams
  /\ task \in [Streams -> {"none", "reading", "sending", "done"}]
  /\ response \in [Streams -> Event]
  /\ response_receiver \in [Streams -> Seq(Event)]
  /\ waiting \in [Streams -> Seq(Readers)]
  /\ call \in [Readers -> Call]
  /\ received \in [Streams -> 0..MaxMessages]
  /\ delivered \in [Streams -> Seq(1..MaxMessages)]
  /\ outcome \in [Streams -> {"open", "finished", "failed"}]

\* The events of a stream between the server and the read calls.
InFlight(s) == response_receiver[s] \o (IF task[s] = "sending" THEN <<response[s]>> ELSE <<>>)

ServerDone(s) == task[s] = "done" \/ (task[s] = "sending" /\ response[s].event \in Ends)

\* The messages that the call holding the receiver has not returned yet.
HeldBack(s) ==
  IF \E r \in Readers : HoldsReceiver(r, s)
  THEN call[CHOOSE r \in Readers : HoldsReceiver(r, s)].batch.messages
  ELSE <<>>

\* The messages after the first m, up to the nth one.
Messages(m, n) == [i \in 1..(n - m) |-> Message(m + i)]

\* As long as no read call reported the end, what was returned, what a call
\* holds back and what is in flight are the messages of the server, in order
\* and without a gap, followed by the end if the server is done: overlapping
\* read calls, timeouts and destroying the stream lose and repeat nothing.
NothingLostOrRepeated ==
  \A s \in Streams : outcome[s] = "open" =>
    LET read == delivered[s] \o HeldBack(s)
        rest == Messages(Len(read), received[s])
    IN
    /\ Len(read) <= received[s]
    /\ \A i \in 1..Len(read) : read[i] = i
    /\ IF ServerDone(s)
       THEN \E e \in Ends : InFlight(s) = Append(rest, Terminal(e))
       ELSE InFlight(s) = rest

\* Once a read call reported the end of a stream the manager has forgotten
\* it: the reader task is gone, nothing is in flight, and a call that waited
\* for the receiver meanwhile holds no messages.
EndIsLast ==
  \A s \in Streams : outcome[s] # "open" =>
    /\ s \notin server_streams
    /\ task[s] = "done"
    /\ response_receiver[s] = <<>>
    /\ HeldBack(s) = <<>>

\* The server is never more than the channel and one response ahead of the
\* read calls.
Backpressure == \A s \in Streams : Len(InFlight(s)) <= STREAM_CAPACITY + 1

\* Every read call returns, even if the server never answers, if the stream
\* is destroyed meanwhile, or if another call holds the receiver.
ReadsReturn == \A r \in Readers : call[r] # Idle ~> call[r] = Idle

\* "Cancellation is done by just dropping everything"
\* (grpc_stream_manager.rs:264): a destroyed stream leaves no task behind.
CancellationDropsEverything ==
  \A s \in Streams : (s < next_stream_id /\ s \notin server_streams) ~> task[s] = "done"

-----------------------------------------------------------------------------
(***************************************************************************)
(* The manager implements StreamDelivery.                                  *)
(***************************************************************************)
Promise == INSTANCE StreamDelivery WITH sent <- received, read <- delivered, status <- outcome

\* Read calls return the messages in order and once, and the end after them.
ImplementsStreamDelivery == Promise!Spec

=============================================================================
