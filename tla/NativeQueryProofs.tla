------------------------- MODULE NativeQueryProofs -------------------------
(***************************************************************************)
(* Proofs about NativeQuery: the queries of the native app use the stream  *)
(* manager as its specification says, so that what is proved about it      *)
(* holds for them, and their results are exact, for any number of queries, *)
(* streams, channels and messages, and whatever the server sends.          *)
(***************************************************************************)
EXTENDS NativeQuery, GrpcDeliveryProofs

-----------------------------------------------------------------------------
(***************************************************************************)
(* The type invariant of the clients.                                      *)
(***************************************************************************)
States == {"idle", "starting", "calling", "awaitingSchema", "pulling", "reading",
           "answered", "drained", "failed"}

ClientType ==
  [state : States, health : BOOLEAN, channelId : Nat, streamId : Nat,
   event : {"none", "flush", "finished", "failed", "GrpcStreamReadTimedOut"},
   currentBatch : Seq(1..MaxMessages), reachedEndOfStream : BOOLEAN,
   resultSchema : BOOLEAN, batches : Seq(1..MaxMessages)]

ClientsTypeOK ==
  /\ next_channel_id \in Nat
  /\ channel \in Nat
  /\ client \in [Readers -> ClientType]

(***************************************************************************)
(* The inductive invariant.  A client that has a stream is its only        *)
(* reader, and its read call is in progress exactly while it waits for the *)
(* answer.  Its batch is the end of what read calls returned of the        *)
(* stream, and what it has pulled before is what the consumer got.         *)
(***************************************************************************)
HasStream(q) ==
  client[q].state \in {"awaitingSchema", "pulling", "reading", "answered", "drained"}

OneCall(q) ==
  IF client[q].state = "reading"
  THEN call[q].state # "idle" /\ call[q].stream = client[q].streamId
  ELSE call[q] = Idle

NothingYet(q) ==
  /\ client[q].currentBatch = <<>> /\ client[q].batches = <<>>
  /\ ~client[q].reachedEndOfStream /\ ~client[q].resultSchema

OwnsStream(q) ==
  /\ client[q].streamId \in Streams
  /\ client[q].streamId < next_stream_id

HoldsRest(q) ==
  /\ Len(client[q].currentBatch) <= Len(delivered[client[q].streamId])
  /\ \A i \in 1..Len(client[q].currentBatch) : client[q].currentBatch[i] = Pulled(q) + i

KnowsEnd(q) ==
  /\ client[q].reachedEndOfStream => outcome[client[q].streamId] = "finished"
  /\ client[q].state \in {"awaitingSchema", "reading"} =>
       client[q].currentBatch = <<>> /\ ~client[q].reachedEndOfStream
  /\ client[q].state \in {"awaitingSchema", "pulling", "reading"} /\ ~client[q].reachedEndOfStream =>
       outcome[client[q].streamId] = "open"
  /\ client[q].state = "answered" =>
       /\ ~client[q].reachedEndOfStream
       /\ client[q].event = "flush" => outcome[client[q].streamId] = "open"
       /\ client[q].event = "finished" => outcome[client[q].streamId] = "finished"
  /\ client[q].state = "drained" => client[q].reachedEndOfStream /\ client[q].currentBatch = <<>>

Consumed(c, n) ==
  /\ {c.batches[i] : i \in DOMAIN c.batches} = RecordBatches(c.streamId, n)
  /\ \A i, j \in DOMAIN c.batches : i < j => c.batches[i] < c.batches[j]
  /\ c.state # "drained" => (c.resultSchema <=> Chunks(c.streamId, n) # {})

ClientInv(q) ==
  /\ OneCall(q)
  /\ client[q].state \in {"starting", "calling"} => NothingYet(q)
  /\ HasStream(q) =>
       /\ OwnsStream(q)
       /\ HoldsRest(q)
       /\ KnowsEnd(q)
       /\ Consumed(client[q], Pulled(q))

OneReaderPerStream ==
  \A p, q \in Readers :
    HasStream(p) /\ HasStream(q) /\ p # q => client[p].streamId # client[q].streamId

\* Nothing of the app destroys a stream; a stream that is not started yet is
\* empty; a stream that was read to its end was read as a whole.
StreamsKept ==
  \A s \in Streams : s < next_stream_id /\ outcome[s] = "open" => s \in server_streams

StreamsFresh == \A s \in Streams : s >= next_stream_id => received[s] = 0

StreamsComplete == \A s \in Streams : outcome[s] = "finished" => delivered[s] = Numbers(received[s])

QueryInv ==
  /\ DeliveryInv
  /\ ClientsTypeOK
  /\ \A q \in Readers : ClientInv(q)
  /\ OneReaderPerStream
  /\ StreamsKept
  /\ StreamsFresh
  /\ StreamsComplete

-----------------------------------------------------------------------------
LEMMA InitQueryTypes == QueryInit => ClientsTypeOK
<1> SUFFICES ASSUME QueryInit PROVE ClientsTypeOK
  OBVIOUS
<1>1. Client("idle", FALSE, 0) \in ClientType
  BY EmptySeq DEF Client, ClientType, States
<1> QED
  BY <1>1 DEF QueryInit, ClientsTypeOK

(***************************************************************************)
(* What a step of the stream manager does to the streams, as far as a      *)
(* client can tell.                                                        *)
(***************************************************************************)
LEMMA SubSeqAfter ==
  ASSUME NEW S, NEW u \in Seq(S), NEW k \in Nat
  PROVE  /\ SubSeq(u, k + 1, Len(u)) \in Seq(S)
         /\ k <= Len(u) =>
              /\ Len(SubSeq(u, k + 1, Len(u))) = Len(u) - k
              /\ \A i \in 1..(Len(u) - k) : SubSeq(u, k + 1, Len(u))[i] = u[k + i]
         /\ Len(u) <= k => SubSeq(u, k + 1, Len(u)) = <<>>
<1> DEFINE m == k + 1
           n == Len(u)
<1>1. m \in Nat \ {0} /\ n \in Nat
  BY LenProperties
<1>2. \A i \in m..n : u[i] \in S
  <2> SUFFICES ASSUME NEW i \in m..n PROVE u[i] \in S
    OBVIOUS
  <2>1. i \in 1..Len(u)
    BY <1>1
  <2> QED
    BY <2>1, ElementOfSeq
<1>3. n < m => SubSeq(u, m, n) = <<>>
  BY <1>1, SubSeqEmpty
<1> HIDE DEF m, n
<1>4. /\ SubSeq(u, m, n) \in Seq(S)
      /\ Len(SubSeq(u, m, n)) = IF m <= n THEN n - m + 1 ELSE 0
      /\ \A i \in 1..(n - m + 1) : SubSeq(u, m, n)[i] = u[m + i - 1]
  BY <1>1, <1>2, SubSeqProperties
<1>5. k <= n =>
        /\ Len(SubSeq(u, m, n)) = n - k
        /\ \A i \in 1..(n - k) : SubSeq(u, m, n)[i] = u[k + i]
  <2>1. m = k + 1
    BY DEF m
  <2> QED
    BY <1>1, <1>4, <2>1
<1> QED
  BY <1>1, <1>3, <1>4, <1>5 DEF m, n

LEMMA ReturnedFacts ==
  ASSUME TypeOK, TypeOK', NEW s \in Streams
  PROVE  /\ Returned(s) \in Seq(1..MaxMessages)
         /\ Len(delivered[s]) <= Len(delivered'[s]) =>
              /\ Len(Returned(s)) = Len(delivered'[s]) - Len(delivered[s])
              /\ \A i \in 1..Len(Returned(s)) :
                   Returned(s)[i] = delivered'[s][Len(delivered[s]) + i]
         /\ delivered'[s] = delivered[s] => Returned(s) = <<>>
<1>1. delivered'[s] \in Seq(1..MaxMessages) /\ delivered[s] \in Seq(1..MaxMessages)
  BY DEF TypeOK
<1>2. Len(delivered[s]) \in Nat /\ Len(delivered'[s]) \in Nat
  BY <1>1, LenProperties
<1>3. /\ Returned(s) \in Seq(1..MaxMessages)
      /\ Len(delivered[s]) <= Len(delivered'[s]) =>
           /\ Len(Returned(s)) = Len(delivered'[s]) - Len(delivered[s])
           /\ \A i \in 1..(Len(delivered'[s]) - Len(delivered[s])) :
                Returned(s)[i] = delivered'[s][Len(delivered[s]) + i]
      /\ Len(delivered'[s]) <= Len(delivered[s]) => Returned(s) = <<>>
  BY <1>1, <1>2, SubSeqAfter DEF Returned
<1> QED
  BY <1>2, <1>3

\* A stream whose end was reported does not change any more.
LEMMA ClosedStreams ==
  ASSUME DeliveryInv, DeliveryInv', [Next]_vars, NEW s \in Streams, outcome[s] # "open"
  PROVE  outcome'[s] = outcome[s] /\ delivered'[s] = delivered[s] /\ received'[s] = received[s]
<1>1. Promise!Next \/ UNCHANGED <<received, delivered, outcome>>
  BY NextPromise DEF Promise!vars
<1> QED
  BY <1>1 DEF Promise!Next, Promise!Send, Promise!Return, Promise!Finish, Promise!Fail,
     DeliveryInv, TypeOK

LEMMA CompleteStreams ==
  ASSUME DeliveryInv, DeliveryInv', [Next]_vars, StreamsComplete
  PROVE  StreamsComplete'
<1> SUFFICES ASSUME NEW s \in Streams, outcome'[s] = "finished"
             PROVE  delivered'[s] = Numbers(received'[s])
  BY DEF StreamsComplete
<1>1. CASE outcome[s] # "open"
  BY <1>1, ClosedStreams DEF StreamsComplete
<1>2. CASE outcome[s] = "open"
  <2>1. Promise!Next \/ UNCHANGED <<received, delivered, outcome>>
    BY NextPromise DEF Promise!vars
  <2>2. PICK m \in Streams : Promise!Finish(m)
    BY <1>2, <2>1 DEF Promise!Next, Promise!Send, Promise!Return, Promise!Fail, DeliveryInv, TypeOK
  <2> QED
    BY <1>2, <2>2 DEF Promise!Finish, Promise!FirstMessages, Numbers, DeliveryInv, TypeOK
<1> QED
  BY <1>1, <1>2

LEMMA DeliveredGrows ==
  ASSUME DeliveryInv, DeliveryInv', [Next]_vars, NEW s \in Streams
  PROVE  /\ Len(delivered[s]) \in Nat /\ Len(delivered'[s]) \in Nat
         /\ Len(delivered[s]) <= Len(delivered'[s])
         /\ \A i \in 1..Len(delivered'[s]) : delivered'[s][i] = i
<1>1. PICK n \in Nat : delivered'[s] = Numbers(n)
  BY DEF DeliveryInv, StreamInv, ReturnedInOrder
<1>2. PICK k \in Nat : delivered[s] = Numbers(k)
  BY DEF DeliveryInv, StreamInv, ReturnedInOrder
<1>3. Len(delivered'[s]) = n /\ Len(delivered[s]) = k /\ \A i \in 1..n : delivered'[s][i] = i
  BY <1>1, <1>2, NumbersFacts
<1>4. CASE outcome[s] # "open"
  BY <1>3, <1>4, ClosedStreams
<1>5. CASE outcome[s] = "open"
  <2>1. PICK t \in 0..received[s] : Taken(s) = Numbers(t)
    BY <1>5 DEF DeliveryInv, StreamInv, OpenInOrder, InOrder
  <2>2. received[s] \in Nat /\ delivered[s] \in Seq(Nat) /\ HeldBack(s) \in Seq(Nat)
    <3>1. HeldBack(s) \in Seq(1..MaxMessages) /\ 1..MaxMessages \subseteq Nat
      BY HeldBackType, StreamAssumption DEF DeliveryInv
    <3> QED
      BY <3>1, StreamTypes, SeqMonotonic DEF DeliveryInv
  <2>3. k <= received[s]
    <3>1. t \in Nat /\ delivered[s] \o HeldBack(s) = Numbers(t)
      BY <2>1, <2>2 DEF Taken
    <3>2. Len(delivered[s]) \in 0..t
      BY <2>2, <3>1, NumbersPrefix
    <3> QED
      BY <1>3, <2>1, <2>2, <3>2
  <2>4. Promise!Next \/ UNCHANGED <<received, delivered, outcome>>
    BY NextPromise DEF Promise!vars
  <2>5. CASE UNCHANGED delivered
    BY <1>3, <2>5
  <2>6. ASSUME NEW m \in Streams, Promise!Return(m), m = s PROVE k <= n
    <3>1. PICK j \in Len(delivered[s]) + 1 .. received[s] : delivered'[s] = Promise!FirstMessages(j)
      BY <2>6 DEF Promise!Return, DeliveryInv, TypeOK
    <3>2. delivered'[s] = Numbers(j) /\ j \in Nat
      BY <1>3, <2>2, <3>1 DEF Promise!FirstMessages, Numbers
    <3> QED
      BY <1>3, <3>1, <3>2, NumbersFacts
  <2>7. ASSUME NEW m \in Streams, Promise!Finish(m), m = s PROVE k <= n
    <3>1. delivered'[s] = Numbers(received[s])
      BY <2>7 DEF Promise!Finish, Promise!FirstMessages, Numbers, DeliveryInv, TypeOK
    <3> QED
      BY <1>3, <2>2, <2>3, <3>1, NumbersFacts
  <2>8. ASSUME NEW m \in Streams, Promise!Return(m) \/ Promise!Finish(m), m # s PROVE k = n
    BY <1>3, <2>8 DEF Promise!Return, Promise!Finish, DeliveryInv, TypeOK
  <2> QED
    BY <1>3, <2>4, <2>5, <2>6, <2>7, <2>8 DEF Promise!Next, Promise!Send, Promise!Fail
<1> QED
  BY <1>3, <1>4, <1>5

(***************************************************************************)
(* The queries use the stream manager through its operations, all of them  *)
(* but destroy_server_stream.                                              *)
(***************************************************************************)
ManagerNext == \E s \in Streams :
  \/ StartServerStream(s)
  \/ ReaderTask(s)
  \/ \E r \in Readers : ReadServerStream(r, s) \/ ReadCall(r, s)

LEMMA ManagerIsUsed ==
  ASSUME TypeOK, \A q \in Readers : ClientInv(q), [QueryNext]_queryVars
  PROVE  [ManagerNext]_vars
<1>1. CASE UNCHANGED queryVars
  BY <1>1 DEF queryVars
<1>2. CASE Connect \/ Close \/ \E c \in 1..MaxChannels : DestroyChannel(c)
  BY <1>2 DEF Connect, Close, DestroyChannel, managerVars
<1>3. CASE \E s \in Streams : ServerPushes(s)
  BY <1>3 DEF ServerPushes, ManagerNext
<1>4. ASSUME NEW q \in Readers, NEW s \in Streams, RegisterStream(q, s) PROVE ManagerNext
  BY <1>4 DEF RegisterStream, ManagerNext
<1>5. ASSUME NEW q \in Readers, Read(q) PROVE ManagerNext
  BY <1>5 DEF Read, ReadServerStream, TypeOK, ManagerNext
<1>6. ASSUME NEW q \in Readers, ServeRead(q) PROVE ManagerNext
  <2>1. client[q].streamId \in Streams
    BY <1>6 DEF ServeRead, ClientInv, HasStream, OwnsStream
  <2> QED
    BY <1>6, <2>1 DEF ServeRead, ManagerNext
<1>7. ASSUME NEW q \in Readers, \/ \E health \in BOOLEAN : ExecuteQuery(q, health)
                                \/ CallServer(q) \/ CallFails(q)
      PROVE  UNCHANGED vars
  BY <1>7 DEF ExecuteQuery, CallServer, CallFails, managerVars
<1>8. ASSUME NEW q \in Readers, \/ ReadIsRefused(q) \/ NextBatch(q) \/ SkipHeader(q) \/ PullSchema(q)
                                \/ PullRecordBatch(q) \/ PullWrongChunk(q) \/ Drain(q)
      PROVE  UNCHANGED vars
  BY <1>8 DEF ReadIsRefused, NextBatch, SkipHeader, PullSchema, PullRecordBatch, PullWrongChunk,
     Drain, managerVars
<1> QED
  BY <1>1, <1>2, <1>3, <1>4, <1>5, <1>6, <1>7, <1>8 DEF QueryNext, ReadQuery

LEMMA ManagerSteps ==
  ASSUME [ManagerNext]_vars
  PROVE  [Next]_vars
BY DEF ManagerNext, Next

LEMMA FreshStreams ==
  ASSUME DeliveryInv, [ManagerNext]_vars, StreamsFresh
  PROVE  StreamsFresh' /\ next_stream_id \in Nat /\ next_stream_id' \in Nat
         /\ next_stream_id <= next_stream_id'
<1>1. next_stream_id \in Nat
  BY StreamAssumption DEF DeliveryInv, TypeOK
<1>2. next_stream_id' = next_stream_id \/ next_stream_id' = next_stream_id + 1
  BY DEF ManagerNext, vars, StartServerStream, ReaderTask, ReadMessage, ReadEnd, PushResponse,
     ReadServerStream, ReadCall, LockReceiver, ReceiveMessage, ReceiveEnd, ReceiveFailure, Receives,
     ReadTimesOut, FlushAfterTimeout
<1>3. \/ UNCHANGED received
      \/ \E s \in Streams : task[s] = "reading" /\ received' = [received EXCEPT ![s] = @ + 1]
  BY DEF ManagerNext, vars, StartServerStream, ReaderTask, ReadMessage, ReadEnd, PushResponse,
     ReadServerStream, ReadCall, LockReceiver, ReceiveMessage, ReceiveEnd, ReceiveFailure, Receives,
     ReadTimesOut, FlushAfterTimeout
<1>4. ASSUME NEW s \in Streams, s >= next_stream_id' PROVE received'[s] = 0
  <2>1. s \in Nat /\ s >= next_stream_id
    BY <1>1, <1>2, <1>4 DEF Streams
  <2>2. task[s] = "none" /\ received[s] = 0
    BY <2>1 DEF DeliveryInv, StreamInv, Unstarted, StreamsFresh
  <2> QED
    BY <1>3, <2>2 DEF DeliveryInv, TypeOK
<1> QED
  BY <1>1, <1>2, <1>4 DEF StreamsFresh

LEMMA KeptStreams ==
  ASSUME DeliveryInv, DeliveryInv', [ManagerNext]_vars, StreamsKept
  PROVE  StreamsKept'
<1> SUFFICES ASSUME NEW m \in Streams, m < next_stream_id', outcome'[m] = "open"
             PROVE  m \in server_streams'
  BY DEF StreamsKept
<1>1. outcome[m] = "open"
  BY ManagerSteps, ClosedStreams
<1>2. m \in Nat /\ next_stream_id \in Nat
  BY StreamAssumption DEF DeliveryInv, TypeOK, Streams
<1>3. CASE UNCHANGED vars
  BY <1>1, <1>3 DEF vars, StreamsKept
<1>4. ASSUME NEW s \in Streams, StartServerStream(s) PROVE m \in server_streams'
  BY <1>1, <1>2, <1>4 DEF StartServerStream, StreamsKept
<1>5. ASSUME NEW s \in Streams, \/ ReaderTask(s)
                                \/ \E r \in Readers : \/ ReadServerStream(r, s) \/ LockReceiver(r, s)
                                                       \/ ReceiveMessage(r, s) \/ ReadTimesOut(r, s)
                                                       \/ FlushAfterTimeout(r, s)
      PROVE  m \in server_streams'
  <2>1. UNCHANGED <<next_stream_id, server_streams>>
    BY <1>5 DEF ReaderTask, ReadMessage, ReadEnd, PushResponse, ReadServerStream, LockReceiver,
       ReceiveMessage, Receives, ReadTimesOut, FlushAfterTimeout
  <2> QED
    BY <1>1, <2>1 DEF StreamsKept
<1>6. ASSUME NEW s \in Streams, NEW r \in Readers, ReceiveEnd(r, s) \/ ReceiveFailure(r, s)
      PROVE  m \in server_streams'
  <2>1. /\ next_stream_id' = next_stream_id /\ server_streams' = server_streams \ {s}
        /\ outcome'[s] # "open"
    BY <1>6 DEF ReceiveEnd, ReceiveFailure, Receives, DeliveryInv, TypeOK
  <2> QED
    BY <1>1, <2>1 DEF StreamsKept
<1> QED
  BY <1>3, <1>4, <1>5, <1>6 DEF ManagerNext, ReadCall

\* What a read call's step does, and that nobody else notices.
LEMMA ReadCallEffect ==
  ASSUME DeliveryInv, NEW s \in Streams, NEW r \in Readers, ReadCall(r, s)
  PROVE  /\ UNCHANGED next_stream_id
         /\ \A q \in Readers \ {r} : call'[q] = call[q]
         /\ \A m \in Streams \ {s} : delivered'[m] = delivered[m] /\ outcome'[m] = outcome[m]
         /\ \/ /\ call'[r].state # "idle" /\ call'[r] # Idle /\ call'[r].stream = call[r].stream
               /\ UNCHANGED <<delivered, outcome>>
            \/ /\ call'[r] = Idle
               /\ \/ outcome'[s] = outcome[s]
                  \/ outcome'[s] = "finished"
                  \/ outcome'[s] = "failed"
<1>0. call \in [Readers -> Call] /\ outcome \in [Streams -> {"open", "finished", "failed"}]
      /\ delivered \in [Streams -> Seq(1..MaxMessages)]
  BY DEF DeliveryInv, TypeOK
<1>1. CASE LockReceiver(r, s)
  BY <1>0, <1>1 DEF LockReceiver, Call, Idle
<1>2. CASE ReceiveMessage(r, s)
  BY <1>0, <1>2 DEF ReceiveMessage, Receives, ReturnBatch, HoldsReceiver, Call, Idle
<1>3. CASE ReceiveEnd(r, s) \/ ReceiveFailure(r, s)
  BY <1>0, <1>3 DEF ReceiveEnd, ReceiveFailure, Receives, ReturnBatch
<1>4. CASE ReadTimesOut(r, s) \/ FlushAfterTimeout(r, s)
  BY <1>0, <1>4 DEF ReadTimesOut, FlushAfterTimeout, ReturnBatch
<1> QED
  BY <1>1, <1>2, <1>3, <1>4 DEF ReadCall

-----------------------------------------------------------------------------
(***************************************************************************)
(* The clients keep their types.                                           *)
(***************************************************************************)
ClientStep(q) ==
  \/ CallServer(q)
  \/ CallFails(q)
  \/ \E s \in Streams : RegisterStream(q, s)
  \/ ReadQuery(q)

LEMMA BecomesIs ==
  ASSUME ClientsTypeOK, NEW q \in Readers, NEW c, Becomes(q, c)
  PROVE  /\ client'[q] = c
         /\ \A p \in Readers \ {q} : client'[p] = client[p]
         /\ c \in ClientType => client' \in [Readers -> ClientType]
BY DEF Becomes, ClientsTypeOK

LEMMA BatchParts ==
  ASSUME NEW u \in Seq(1..MaxMessages), u # <<>>
  PROVE  /\ Head(u) = u[1] /\ Head(u) \in 1..MaxMessages
         /\ Tail(u) \in Seq(1..MaxMessages)
         /\ Len(u) \in Nat \ {0}
         /\ Len(Tail(u)) = Len(u) - 1
         /\ \A i \in 1..(Len(u) - 1) : Tail(u)[i] = u[i + 1]
<1>1. Len(u) \in Nat \ {0}
  BY EmptySeq, LenProperties
<1>2. Head(u) = u[1]
  BY <1>1
<1> QED
  BY <1>1, <1>2, HeadTailProperties

LEMMA BatchEventType ==
  ASSUME DeliveryInv, NEW s \in Streams, NEW r \in Readers, ReadCall(r, s), call'[r] = Idle
  PROVE  BatchEvent(s) \in {"flush", "finished", "failed", "GrpcStreamReadTimedOut"}
<1>1. outcome'[s] \in {outcome[s], "finished", "failed"}
  BY ReadCallEffect DEF Idle
<1> QED
  BY <1>1 DEF BatchEvent

LEMMA NextQueryTypes ==
  ASSUME DeliveryInv, TypeOK', ClientsTypeOK, \A q \in Readers : ClientInv(q), [QueryNext]_queryVars
  PROVE  ClientsTypeOK'
<1> USE EmptySeq
<1>1. CASE UNCHANGED queryVars
  BY <1>1 DEF queryVars, ClientsTypeOK
<1>2. CASE Connect
  BY <1>2 DEF Connect, ClientsTypeOK
<1>3. CASE Close \/ \E c \in 1..MaxChannels : DestroyChannel(c)
  BY <1>3 DEF Close, DestroyChannel, ClientsTypeOK, proxyVars
<1>4. CASE \E s \in Streams : ServerPushes(s)
  BY <1>4 DEF ServerPushes, ClientsTypeOK, proxyVars, connectionVars
<1>5. ASSUME UNCHANGED <<proxyVars, connectionVars>>, client' \in [Readers -> ClientType]
      PROVE  ClientsTypeOK'
  BY <1>5 DEF ClientsTypeOK, proxyVars, connectionVars
<1>6. ASSUME NEW q \in Readers, UNCHANGED <<proxyVars, connectionVars>>,
             NEW c \in ClientType, Becomes(q, c)
      PROVE  ClientsTypeOK'
  BY <1>5, <1>6, BecomesIs
<1>7. ASSUME NEW q \in Readers, NEW health \in BOOLEAN, ExecuteQuery(q, health) PROVE ClientsTypeOK'
  <2>1. Client("starting", health, channel) \in ClientType
    BY DEF Client, ClientType, States, ClientsTypeOK
  <2> QED
    BY <1>6, <1>7, <2>1 DEF ExecuteQuery
<1>8. ASSUME NEW q \in Readers, ClientStep(q) PROVE ClientsTypeOK'
  <2>1. client[q] \in ClientType
    BY DEF ClientsTypeOK
  <2>2. UNCHANGED <<proxyVars, connectionVars>>
    BY <1>8 DEF ClientStep, CallServer, CallFails, RegisterStream, ReadQuery, Read, ReadIsRefused,
       ServeRead, NextBatch, SkipHeader, PullSchema, PullRecordBatch, PullWrongChunk, Drain
  <2>3. ASSUME Throws(q) PROVE ClientsTypeOK'
    <3>1. [client[q] EXCEPT !.state = "failed", !.currentBatch = <<>>] \in ClientType
      BY <2>1 DEF ClientType, States
    <3> QED
      BY <1>6, <2>2, <2>3, <3>1 DEF Throws
  <2>4. CASE CallServer(q) \/ CallFails(q)
    <3>1. [client[q] EXCEPT !.state = "calling"] \in ClientType
      BY <2>1 DEF ClientType, States
    <3> QED
      BY <1>6, <2>2, <2>3, <2>4, <3>1 DEF CallServer, CallFails
  <2>5. CASE \E s \in Streams : RegisterStream(q, s)
    <3> PICK s \in Streams : RegisterStream(q, s)
      BY <2>5
    <3> DEFINE state == IF client[q].health THEN "awaitingSchema" ELSE "pulling"
    <3>1. state \in States /\ s \in Nat
      BY DEF States, Streams
    <3>2. Becomes(q, [client[q] EXCEPT !.state = state, !.streamId = s])
      BY DEF RegisterStream
    <3> HIDE DEF state
    <3>3. [client[q] EXCEPT !.state = state, !.streamId = s] \in ClientType
      BY <2>1, <3>1 DEF ClientType
    <3> QED
      BY <1>6, <2>2, <3>2, <3>3
  <2>6. CASE Read(q) \/ ReadIsRefused(q)
    <3>1. [client[q] EXCEPT !.state = "reading"] \in ClientType
      BY <2>1 DEF ClientType, States
    <3> QED
      BY <1>6, <2>2, <2>3, <2>6, <3>1 DEF Read, ReadIsRefused
  <2>7. CASE ServeRead(q)
    <3> DEFINE s == client[q].streamId
               event == BatchEvent(s)
               batch == Returned(s)
    <3>1. s \in Streams /\ ReadCall(q, s)
      BY <2>7 DEF ServeRead, ClientInv, HasStream, OwnsStream
    <3>2. CASE UNCHANGED client
      BY <1>5, <2>2, <3>2 DEF ClientsTypeOK
    <3>3. CASE call'[q] = Idle
      <4>1. event \in {"flush", "finished", "failed", "GrpcStreamReadTimedOut"}
        BY <3>1, <3>3, BatchEventType
      <4>2. batch \in Seq(1..MaxMessages)
        BY <3>1, ReturnedFacts DEF DeliveryInv
      <4>3. Becomes(q, [client[q] EXCEPT !.state = "answered", !.event = event, !.currentBatch = batch])
        BY <2>7, <3>3 DEF ServeRead
      <4> HIDE DEF event, batch
      <4>4. [client[q] EXCEPT !.state = "answered", !.event = event, !.currentBatch = batch]
              \in ClientType
        BY <2>1, <4>1, <4>2 DEF ClientType, States
      <4> QED
        BY <1>6, <2>2, <4>3, <4>4
    <3> QED
      BY <2>7, <3>2, <3>3 DEF ServeRead
  <2>8. CASE NextBatch(q)
    <3> DEFINE end == client[q].event = "finished"
    <3>1. [client[q] EXCEPT !.state = "pulling", !.reachedEndOfStream = end] \in ClientType
      BY <2>1 DEF ClientType, States
    <3> QED
      BY <1>6, <2>2, <2>3, <2>8, <3>1 DEF NextBatch
  <2>9. CASE SkipHeader(q) \/ PullSchema(q) \/ PullRecordBatch(q) \/ PullWrongChunk(q)
    <3> DEFINE rest == Tail(client[q].currentBatch)
               all == Append(client[q].batches, Head(client[q].currentBatch))
    <3>1. client[q].currentBatch \in Seq(1..MaxMessages) /\ client[q].batches \in Seq(1..MaxMessages)
      BY <2>1 DEF ClientType
    <3>2. client[q].currentBatch # <<>>
      BY <2>9 DEF SkipHeader, PullSchema, PullRecordBatch, PullWrongChunk, PullsKind
    <3>3. rest \in Seq(1..MaxMessages) /\ all \in Seq(1..MaxMessages)
      BY <3>1, <3>2, BatchParts, AppendProperties
    <3>4. \/ Throws(q)
          \/ Becomes(q, [client[q] EXCEPT !.currentBatch = rest])
          \/ Becomes(q, [client[q] EXCEPT !.currentBatch = rest, !.resultSchema = TRUE])
          \/ Becomes(q, [client[q] EXCEPT !.currentBatch = rest, !.batches = all])
      BY <2>9 DEF SkipHeader, PullSchema, PullRecordBatch, PullWrongChunk
    <3> HIDE DEF rest, all
    <3>5. /\ [client[q] EXCEPT !.currentBatch = rest] \in ClientType
          /\ [client[q] EXCEPT !.currentBatch = rest, !.resultSchema = TRUE] \in ClientType
          /\ [client[q] EXCEPT !.currentBatch = rest, !.batches = all] \in ClientType
      BY <2>1, <3>3 DEF ClientType
    <3> QED
      BY <1>6, <2>2, <2>3, <3>4, <3>5
  <2>10. CASE Drain(q)
    <3>1. [client[q] EXCEPT !.state = "drained", !.resultSchema = TRUE] \in ClientType
      BY <2>1 DEF ClientType, States
    <3> QED
      BY <1>6, <2>2, <2>10, <3>1 DEF Drain
  <2> QED
    BY <1>8, <2>4, <2>5, <2>6, <2>7, <2>8, <2>9, <2>10 DEF ClientStep, ReadQuery
<1> QED
  BY <1>1, <1>2, <1>3, <1>4, <1>7, <1>8 DEF QueryNext, ClientStep

-----------------------------------------------------------------------------
(***************************************************************************)
(* What the chunks of a stream are, one message after the other.           *)
(***************************************************************************)
LEMMA NextMessage ==
  ASSUME NEW s \in Streams, NEW n \in Nat
  PROVE  /\ Result[s][n + 1] = "arrowChunk" =>
              /\ Chunks(s, n + 1) = Chunks(s, n) \cup {n + 1}
              /\ RecordBatches(s, n + 1) =
                   IF Chunks(s, n) = {} THEN RecordBatches(s, n) ELSE RecordBatches(s, n) \cup {n + 1}
         /\ Result[s][n + 1] # "arrowChunk" =>
              /\ Chunks(s, n + 1) = Chunks(s, n)
              /\ RecordBatches(s, n + 1) = RecordBatches(s, n)
         /\ Chunks(s, n) \subseteq 1..n /\ RecordBatches(s, n) \subseteq 1..n
<1>1. 1..(n + 1) = (1..n) \cup {n + 1}
  OBVIOUS
<1>2. /\ Result[s][n + 1] = "arrowChunk" => Chunks(s, n + 1) = Chunks(s, n) \cup {n + 1}
      /\ Result[s][n + 1] # "arrowChunk" => Chunks(s, n + 1) = Chunks(s, n)
      /\ \A k \in Chunks(s, n) : k \in Nat /\ k < n + 1
  BY <1>1 DEF Chunks
<1>3. Chunks(s, n) \subseteq 1..n
  BY DEF Chunks
<1> QED
  BY <1>2, <1>3 DEF RecordBatches

LEMMA NoChunks ==
  ASSUME NEW s
  PROVE  Chunks(s, 0) = {} /\ RecordBatches(s, 0) = {}
BY DEF Chunks, RecordBatches

\* The consumer gets one more record batch.
LEMMA AppendBatch ==
  ASSUME NEW u \in Seq(1..MaxMessages), NEW n \in Nat, NEW m \in 1..MaxMessages, n < m,
         {u[i] : i \in DOMAIN u} \subseteq 1..n,
         \A i, j \in DOMAIN u : i < j => u[i] < u[j]
  PROVE  /\ {Append(u, m)[i] : i \in DOMAIN Append(u, m)} = {u[i] : i \in DOMAIN u} \cup {m}
         /\ \A i, j \in DOMAIN Append(u, m) : i < j => Append(u, m)[i] < Append(u, m)[j]
<1>1. /\ Len(u) \in Nat /\ DOMAIN u = 1..Len(u)
      /\ DOMAIN Append(u, m) = 1..(Len(u) + 1)
      /\ \A i \in 1..Len(u) : Append(u, m)[i] = u[i]
      /\ Append(u, m)[Len(u) + 1] = m
  BY AppendProperties, LenProperties
<1>2. 1..(Len(u) + 1) = (1..Len(u)) \cup {Len(u) + 1}
  BY <1>1
<1>3. \A i \in 1..Len(u) : u[i] \in 1..n
  BY <1>1
<1> DEFINE v == Append(u, m)
<1> HIDE DEF v
<1>4. {v[i] : i \in DOMAIN v} = {u[i] : i \in DOMAIN u} \cup {m}
  BY <1>1, <1>2 DEF v
<1>5. ASSUME NEW i \in DOMAIN v, NEW j \in DOMAIN v, i < j PROVE v[i] < v[j]
  <2>1. i \in 1..Len(u) /\ v[i] = u[i] /\ u[i] \in 1..n
    BY <1>1, <1>2, <1>3, <1>5 DEF v
  <2>2. CASE j = Len(u) + 1
    BY <1>1, <2>1, <2>2 DEF v
  <2>3. CASE j \in 1..Len(u)
    BY <1>1, <1>5, <2>1, <2>3 DEF v
  <2> QED
    BY <1>1, <1>2, <2>2, <2>3 DEF v
<1> QED
  BY <1>4, <1>5 DEF v

-----------------------------------------------------------------------------
(***************************************************************************)
(* The clients keep their invariant.                                       *)
(***************************************************************************)
LEMMA Bystander ==
  ASSUME QueryInv, NEW q \in Readers, client'[q] = client[q], OneCall(q)',
         next_stream_id \in Nat, next_stream_id' \in Nat, next_stream_id <= next_stream_id',
         HasStream(q) => /\ delivered'[client[q].streamId] = delivered[client[q].streamId]
                         /\ outcome'[client[q].streamId] = outcome[client[q].streamId]
  PROVE  ClientInv(q)'
<1>1. CASE ~HasStream(q)
  BY <1>1 DEF HasStream, ClientInv, NothingYet, QueryInv
<1>2. CASE HasStream(q)
  <2>1. OwnsStream(q) /\ HoldsRest(q) /\ KnowsEnd(q) /\ Consumed(client[q], Pulled(q))
    BY <1>2 DEF QueryInv, ClientInv
  <2>2. Pulled(q)' = Pulled(q)
    BY <1>2 DEF Pulled
  <2>3. OwnsStream(q)'
    BY <2>1 DEF OwnsStream, Streams
  <2>4. HoldsRest(q)'
    BY <1>2, <2>1, <2>2 DEF HoldsRest
  <2>5. KnowsEnd(q)'
    BY <1>2, <2>1 DEF KnowsEnd
  <2>6. Consumed(client[q], Pulled(q))'
    BY <2>1, <2>2 DEF Consumed
  <2> QED
    BY <1>2, <2>3, <2>4, <2>5, <2>6 DEF ClientInv, HasStream
<1> QED
  BY <1>1, <1>2

\* A step that leaves the streams' messages and ends alone, and changes at
\* most one client.
LEMMA OtherClients ==
  ASSUME QueryInv, [ManagerNext]_vars, UNCHANGED <<delivered, outcome>>,
         NEW p \in Readers, client'[p] = client[p], call'[p] = call[p]
  PROVE  ClientInv(p)'
<1>1. next_stream_id \in Nat /\ next_stream_id' \in Nat /\ next_stream_id <= next_stream_id'
  BY FreshStreams DEF QueryInv
<1>2. OneCall(p)'
  BY DEF QueryInv, ClientInv, OneCall
<1> QED
  BY <1>1, <1>2, Bystander

LEMMA WithoutStream ==
  ASSUME NEW q \in Readers, call'[q] = Idle,
         client'[q].state \in {"idle", "starting", "calling", "failed"},
         client'[q].state \in {"starting", "calling"} => NothingYet(q)'
  PROVE  ClientInv(q)'
BY DEF ClientInv, OneCall, HasStream

\* The rest of the batch of a client, and how far it has pulled.
LEMMA BatchFacts ==
  ASSUME QueryInv, NEW q \in Readers, HasStream(q)
  PROVE  /\ client[q].streamId \in Streams
         /\ client[q].currentBatch \in Seq(1..MaxMessages)
         /\ Len(delivered[client[q].streamId]) \in Nat
         /\ Len(client[q].currentBatch) \in Nat
         /\ Pulled(q) \in Nat
<1>1. client[q].streamId \in Streams
  BY DEF QueryInv, ClientInv, OwnsStream
<1>2. delivered[client[q].streamId] \in Seq(1..MaxMessages)
  BY <1>1 DEF QueryInv, DeliveryInv, TypeOK
<1>3. client[q].currentBatch \in Seq(1..MaxMessages)
  BY DEF QueryInv, ClientsTypeOK, ClientType
<1>4. Len(client[q].currentBatch) <= Len(delivered[client[q].streamId])
  BY DEF QueryInv, ClientInv, HoldsRest
<1> QED
  BY <1>1, <1>2, <1>3, <1>4, LenProperties DEF Pulled

LEMMA RegisterStreamInv ==
  ASSUME QueryInv, NEW q \in Readers, NEW s \in Streams, RegisterStream(q, s)
  PROVE  ClientInv(q)'
<1> PICK c : c = client'[q]
  OBVIOUS
<1>1. /\ c = [client[q] EXCEPT !.state = IF client[q].health THEN "awaitingSchema" ELSE "pulling",
                               !.streamId = s]
      /\ StartServerStream(s)
  BY BecomesIs DEF RegisterStream, QueryInv
<1>2. client[q].state = "calling" /\ client[q] \in ClientType /\ NothingYet(q) /\ call[q] = Idle
  BY DEF RegisterStream, QueryInv, ClientsTypeOK, ClientInv, OneCall
<1>3. /\ c.state \in {"awaitingSchema", "pulling"} /\ c.streamId = s
      /\ c.currentBatch = <<>> /\ ~c.reachedEndOfStream /\ ~c.resultSchema /\ c.batches = <<>>
  BY <1>1, <1>2 DEF ClientType, NothingYet
<1>4. s \in Nat /\ s = next_stream_id /\ next_stream_id' = s + 1 /\ UNCHANGED <<delivered, outcome, call>>
  BY <1>1 DEF StartServerStream, Streams
<1>5. delivered[s] = <<>> /\ outcome[s] = "open"
  <2>1. received[s] = 0 /\ task[s] = "none" /\ OpenInOrder(s) /\ NothingAfterEnd(s)
    BY <1>4 DEF QueryInv, StreamsFresh, DeliveryInv, StreamInv, Unstarted
  <2>2. outcome[s] = "open"
    BY <2>1 DEF NothingAfterEnd
  <2>3. PICK n \in 0..received[s] : Taken(s) = Numbers(n)
    BY <2>1, <2>2 DEF OpenInOrder, InOrder
  <2>4. delivered[s] \o HeldBack(s) = <<>> /\ delivered[s] \in Seq(Nat) /\ HeldBack(s) \in Seq(Nat)
    <3>1. HeldBack(s) \in Seq(1..MaxMessages) /\ 1..MaxMessages \subseteq Nat
      BY HeldBackType, StreamAssumption DEF DeliveryInv, QueryInv
    <3>2. HeldBack(s) \in Seq(Nat) /\ delivered[s] \in Seq(Nat)
      BY <3>1, StreamTypes, SeqMonotonic DEF DeliveryInv, QueryInv
    <3>3. n = 0
      BY <2>1
    <3> QED
      BY <2>3, <3>2, <3>3, NumbersFacts DEF Taken
  <2> QED
    BY <2>2, <2>4, EmptySeq, ConcatProperties, LenProperties
<1>6. Len(c.currentBatch) = 0 /\ Len(delivered'[s]) = 0 /\ Pulled(q)' = 0 /\ outcome'[s] = "open"
  <2>1. delivered'[s] = <<>> /\ outcome'[s] = "open"
    BY <1>4, <1>5
  <2>2. Len(c.currentBatch) = 0 /\ Len(delivered'[s]) = 0
    BY <1>3, <2>1, EmptySeq
  <2>3. Pulled(q)' = Len(delivered'[s]) - Len(c.currentBatch)
    BY <1>3 DEF Pulled
  <2> QED
    BY <2>1, <2>2, <2>3
<1>7. OneCall(q)' /\ OwnsStream(q)'
  BY <1>2, <1>3, <1>4 DEF OneCall, OwnsStream
<1>8. HoldsRest(q)' /\ KnowsEnd(q)'
  BY <1>3, <1>6 DEF HoldsRest, KnowsEnd
<1>9. Consumed(client[q], Pulled(q))'
  <2>1. DOMAIN c.batches = {}
    <3>1. <<>> \in Seq(Nat) /\ Len(<<>>) = 0
      BY EmptySeq
    <3>2. DOMAIN <<>> = 1..0
      BY <3>1
    <3> QED
      BY <1>3, <3>2
  <2>2. RecordBatches(s, 0) = {} /\ Chunks(s, 0) = {}
    BY NoChunks
  <2> QED
    BY <1>3, <1>6, <2>1, <2>2 DEF Consumed
<1> QED
  BY <1>3, <1>7, <1>8, <1>9 DEF ClientInv

LEMMA ReadInv ==
  ASSUME QueryInv, NEW q \in Readers, Read(q)
  PROVE  ClientInv(q)'
<1> DEFINE c == client'[q]
           s == client[q].streamId
<1>1. /\ c = [client[q] EXCEPT !.state = "reading"] /\ ReadServerStream(q, s)
      /\ client[q].state = "pulling" /\ NeedsBatch(q)
  BY BecomesIs DEF Read, QueryInv, Pulls
<1>2. client[q] \in ClientType /\ HasStream(q) /\ OwnsStream(q) /\ HoldsRest(q) /\ KnowsEnd(q)
      /\ Consumed(client[q], Pulled(q))
  BY <1>1 DEF QueryInv, ClientsTypeOK, ClientInv, HasStream
<1>3. /\ c.state = "reading" /\ c.streamId = s /\ c.currentBatch = <<>> /\ ~c.reachedEndOfStream
      /\ c.resultSchema = client[q].resultSchema /\ c.batches = client[q].batches
      /\ c.currentBatch = client[q].currentBatch
  BY <1>1, <1>2 DEF ClientType, NeedsBatch
<1>4. /\ UNCHANGED <<next_stream_id, delivered, outcome>>
      /\ call'[q].state = "locking" /\ call'[q].stream = s
  BY <1>1 DEF ReadServerStream, QueryInv, DeliveryInv, TypeOK
<1>5. OneCall(q)' /\ OwnsStream(q)' /\ Pulled(q)' = Pulled(q)
  BY <1>2, <1>3, <1>4 DEF OneCall, OwnsStream, Pulled, Streams
<1>6. HoldsRest(q)' /\ KnowsEnd(q)' /\ Consumed(client[q], Pulled(q))'
  BY <1>1, <1>2, <1>3, <1>4, <1>5 DEF HoldsRest, KnowsEnd, Consumed
<1> QED
  BY <1>3, <1>5, <1>6 DEF ClientInv

LEMMA ServeReadInv ==
  ASSUME QueryInv, DeliveryInv', [Next]_vars, NEW q \in Readers, ServeRead(q)
  PROVE  ClientInv(q)'
<1> DEFINE c == client'[q]
           s == client[q].streamId
           event == BatchEvent(s)
           batch == Returned(s)
<1>1. client[q].state = "reading" /\ ReadCall(q, s)
  BY DEF ServeRead
<1>2. client[q] \in ClientType /\ HasStream(q) /\ OneCall(q) /\ OwnsStream(q) /\ HoldsRest(q)
      /\ KnowsEnd(q) /\ Consumed(client[q], Pulled(q))
  BY <1>1 DEF QueryInv, ClientsTypeOK, ClientInv, HasStream
<1>3. s \in Streams /\ UNCHANGED next_stream_id /\ client[q].currentBatch = <<>>
      /\ ~client[q].reachedEndOfStream /\ outcome[s] = "open"
  BY <1>1, <1>2, ReadCallEffect DEF OwnsStream, KnowsEnd, QueryInv
<1>4. CASE call'[q] # Idle /\ UNCHANGED client
  <2>1. call'[q].state # "idle" /\ call'[q].stream = s /\ UNCHANGED <<delivered, outcome>>
    BY <1>1, <1>2, <1>3, <1>4, ReadCallEffect DEF QueryInv, OneCall
  <2>2. next_stream_id \in Nat
    BY StreamAssumption DEF QueryInv, DeliveryInv, TypeOK
  <2> QED
    BY <1>1, <1>3, <1>4, <2>1, <2>2, Bystander DEF OneCall
<1>5. CASE call'[q] = Idle
  <2>1. c = [client[q] EXCEPT !.state = "answered", !.event = event, !.currentBatch = batch]
    BY <1>5, BecomesIs DEF ServeRead, QueryInv
  <2>2. /\ outcome'[s] \in {"open", "finished", "failed"}
        /\ event = "finished" => outcome'[s] = "finished"
        /\ event = "flush" => outcome'[s] = "open"
    BY <1>1, <1>3, <1>5, ReadCallEffect DEF BatchEvent, QueryInv, Idle
  <2>3. /\ Len(delivered[s]) \in Nat /\ Len(delivered'[s]) \in Nat
        /\ Len(delivered[s]) <= Len(delivered'[s])
        /\ \A i \in 1..Len(delivered'[s]) : delivered'[s][i] = i
    BY <1>3, DeliveredGrows DEF QueryInv
  <2>4. /\ batch \in Seq(1..MaxMessages)
        /\ Len(batch) = Len(delivered'[s]) - Len(delivered[s])
        /\ \A i \in 1..Len(batch) : batch[i] = delivered'[s][Len(delivered[s]) + i]
    BY <1>3, <2>3, ReturnedFacts DEF QueryInv, DeliveryInv
  <2> HIDE DEF event, batch
  <2>5. /\ c.state = "answered" /\ c.event = event /\ c.currentBatch = batch /\ c.streamId = s
        /\ c.reachedEndOfStream = client[q].reachedEndOfStream
        /\ c.resultSchema = client[q].resultSchema /\ c.batches = client[q].batches
    BY <1>2, <2>1 DEF ClientType
  <2>6. Pulled(q)' = Len(delivered[s]) /\ Pulled(q) = Len(delivered[s])
    BY <1>3, <2>3, <2>4, <2>5 DEF Pulled
  <2>7. OneCall(q)' /\ OwnsStream(q)'
    BY <1>2, <1>3, <1>5, <2>5 DEF OneCall, OwnsStream
  <2>8. HoldsRest(q)'
    <3> DEFINE n == Len(delivered[s])
               u == delivered'[s]
    <3>1. /\ n \in Nat /\ Len(u) \in Nat /\ n <= Len(u)
          /\ \A i \in 1..Len(u) : u[i] = i
      BY <2>3
    <3>2. /\ Len(batch) = Len(u) - n
          /\ \A i \in 1..Len(batch) : batch[i] = u[n + i]
      BY <2>4
    <3> HIDE DEF n, u
    <3>3. \A i \in 1..Len(batch) : n + i \in 1..Len(u)
      BY <3>1, <3>2
    <3>4. Len(batch) <= Len(u) /\ \A i \in 1..Len(batch) : batch[i] = n + i
      BY <3>1, <3>2, <3>3
    <3> QED
      BY <2>5, <2>6, <3>4 DEF HoldsRest, n, u
  <2>9. KnowsEnd(q)'
    BY <1>3, <2>2, <2>5 DEF KnowsEnd
  <2>10. Consumed(client[q], Pulled(q))'
    BY <1>1, <1>2, <2>5, <2>6 DEF Consumed
  <2> QED
    BY <2>5, <2>7, <2>8, <2>9, <2>10 DEF ClientInv
<1> QED
  BY <1>4, <1>5 DEF ServeRead

LEMMA ThrowsInv ==
  ASSUME QueryInv, NEW q \in Readers, client[q].state # "reading", UNCHANGED call, Throws(q)
  PROVE  ClientInv(q)'
<1>1. client[q] \in ClientType /\ call[q] = Idle
  BY DEF QueryInv, ClientsTypeOK, ClientInv, OneCall
<1>2. client'[q] = [client[q] EXCEPT !.state = "failed", !.currentBatch = <<>>]
  BY BecomesIs DEF Throws, QueryInv
<1>3. client'[q].state = "failed" /\ call'[q] = Idle
  BY <1>1, <1>2 DEF ClientType
<1> QED
  BY <1>3, WithoutStream

LEMMA NextBatchInv ==
  ASSUME QueryInv, NEW q \in Readers, NextBatch(q)
  PROVE  ClientInv(q)'
<1>1. client[q].state = "answered" /\ UNCHANGED managerVars
  BY DEF NextBatch
<1>2. CASE Throws(q)
  BY <1>1, <1>2, ThrowsInv DEF managerVars, vars
<1>3. CASE /\ client[q].event \in {"flush", "finished"}
           /\ Becomes(q, [client[q] EXCEPT !.state = "pulling",
                                           !.reachedEndOfStream = (client[q].event = "finished")])
  <2> PICK c : c = client'[q]
    OBVIOUS
  <2> PICK s : s = client[q].streamId
    OBVIOUS
  <2>1. c = [client[q] EXCEPT !.state = "pulling",
                              !.reachedEndOfStream = (client[q].event = "finished")]
    BY <1>3, BecomesIs DEF QueryInv
  <2>2. client[q] \in ClientType /\ HasStream(q) /\ OneCall(q) /\ OwnsStream(q) /\ HoldsRest(q)
        /\ KnowsEnd(q) /\ Consumed(client[q], Pulled(q))
    BY <1>1 DEF QueryInv, ClientsTypeOK, ClientInv, HasStream
  <2>3. /\ c.state = "pulling" /\ c.streamId = s
        /\ c.reachedEndOfStream = (client[q].event = "finished")
        /\ c.currentBatch = client[q].currentBatch
        /\ c.resultSchema = client[q].resultSchema /\ c.batches = client[q].batches
    BY <2>1, <2>2 DEF ClientType
  <2>4. UNCHANGED <<next_stream_id, call, delivered, outcome>>
    BY <1>1 DEF managerVars, vars
  <2>5. OneCall(q)' /\ OwnsStream(q)' /\ Pulled(q)' = Pulled(q)
    BY <1>1, <2>2, <2>3, <2>4 DEF OneCall, OwnsStream, Pulled
  <2>6. HoldsRest(q)'
    BY <2>2, <2>3, <2>4, <2>5 DEF HoldsRest
  <2>7. KnowsEnd(q)'
    BY <1>1, <1>3, <2>2, <2>3, <2>4 DEF KnowsEnd
  <2>8. Consumed(client[q], Pulled(q))'
    BY <1>1, <2>2, <2>3, <2>5 DEF Consumed
  <2> QED
    BY <2>3, <2>5, <2>6, <2>7, <2>8 DEF ClientInv
<1> QED
  BY <1>2, <1>3 DEF NextBatch

\* The client takes one message out of its batch.
LEMMA PullInv ==
  ASSUME QueryInv, NEW q \in Readers, client[q].state = "pulling", client[q].currentBatch # <<>>,
         UNCHANGED vars,
         NEW c, c = client'[q],
         c.state = "pulling", c.streamId = client[q].streamId,
         c.reachedEndOfStream = client[q].reachedEndOfStream,
         c.currentBatch = Tail(client[q].currentBatch),
         Consumed(c, Pulled(q) + 1)
  PROVE  ClientInv(q)'
<1>0. PICK s, u, d, t : /\ s = client[q].streamId /\ u = client[q].currentBatch
                        /\ d = delivered[s] /\ t = Tail(u)
  OBVIOUS
<1>1. HasStream(q) /\ OneCall(q) /\ OwnsStream(q) /\ HoldsRest(q) /\ KnowsEnd(q)
  BY DEF QueryInv, ClientInv, HasStream
<1>2. UNCHANGED <<next_stream_id, call, delivered, outcome>>
  BY DEF vars
<1>3. u \in Seq(1..MaxMessages) /\ Len(d) \in Nat /\ Len(u) \in Nat /\ Pulled(q) = Len(d) - Len(u)
  BY <1>0, <1>1, BatchFacts DEF Pulled
<1>4. /\ Len(u) \in Nat \ {0} /\ Len(t) = Len(u) - 1
      /\ \A i \in 1..(Len(u) - 1) : t[i] = u[i + 1]
  BY <1>0, <1>3, BatchParts
<1>5. Pulled(q)' = Pulled(q) + 1
  <2>1. Pulled(q)' = Len(d) - Len(t)
    BY <1>0, <1>2 DEF Pulled
  <2>2. Len(t) = Len(u) - 1
    BY <1>4
  <2> QED
    BY ONLY <1>3, <2>1, <2>2
<1>6. OneCall(q)' /\ OwnsStream(q)'
  BY <1>1, <1>2 DEF OneCall, OwnsStream
<1>7. HoldsRest(q)'
  <2>1. Len(u) <= Len(d) /\ \A i \in 1..Len(u) : u[i] = Pulled(q) + i
    BY <1>0, <1>1 DEF HoldsRest
  <2>2. Len(t) <= Len(d)
    <3>1. Len(t) = Len(u) - 1
      BY <1>4
    <3> QED
      BY <1>3, <2>1, <3>1
  <2>3. \A i \in 1..(Len(u) - 1) : t[i] = Pulled(q) + 1 + i
    <3> SUFFICES ASSUME NEW i \in 1..(Len(u) - 1) PROVE t[i] = Pulled(q) + 1 + i
      OBVIOUS
    <3>1. i + 1 \in 1..Len(u) /\ t[i] = u[i + 1]
      BY <1>4
    <3>2. Pulled(q) \in Int
      BY <1>3
    <3> QED
      BY ONLY <2>1, <3>1, <3>2, i \in 1..(Len(u) - 1), <1>3
  <2> QED
    BY <1>0, <1>2, <1>4, <1>5, <2>2, <2>3 DEF HoldsRest
<1>8. KnowsEnd(q)'
  BY <1>1, <1>2 DEF KnowsEnd
<1>9. Consumed(client[q], Pulled(q))'
  BY <1>5 DEF Consumed
<1> QED
  BY <1>6, <1>7, <1>8, <1>9 DEF ClientInv

LEMMA PullsInv ==
  ASSUME QueryInv, NEW q \in Readers, SkipHeader(q) \/ PullSchema(q) \/ PullRecordBatch(q)
  PROVE  ClientInv(q)'
<1> PICK c, s, u, n : c = client'[q] /\ s = client[q].streamId /\ u = client[q].currentBatch
                      /\ n = Pulled(q)
  OBVIOUS
<1>1. client[q].state = "pulling" /\ u # <<>> /\ UNCHANGED vars
  BY DEF SkipHeader, PullSchema, PullRecordBatch, PullsKind, Pulls, managerVars
<1>2. client[q] \in ClientType /\ HasStream(q) /\ HoldsRest(q) /\ Consumed(client[q], n)
  BY <1>1 DEF QueryInv, ClientsTypeOK, ClientInv, HasStream
<1>3. /\ s \in Streams /\ n \in Nat /\ u \in Seq(1..MaxMessages)
      /\ Head(u) \in 1..MaxMessages /\ Head(u) = n + 1
  <2>1. s \in Streams /\ n \in Nat /\ u \in Seq(1..MaxMessages)
    BY <1>2, BatchFacts
  <2>2. Head(u) = u[1] /\ Head(u) \in 1..MaxMessages /\ Len(u) \in Nat \ {0}
    BY <1>1, <2>1, BatchParts
  <2> QED
    BY <1>2, <2>1, <2>2 DEF HoldsRest
<1>4. /\ Chunks(s, n) \subseteq 1..n /\ RecordBatches(s, n) \subseteq 1..n
      /\ Kind(q) = Result[s][n + 1]
  BY <1>3, NextMessage DEF Kind
<1>5. /\ {client[q].batches[i] : i \in DOMAIN client[q].batches} = RecordBatches(s, n)
      /\ \A i, j \in DOMAIN client[q].batches : i < j => client[q].batches[i] < client[q].batches[j]
      /\ client[q].resultSchema <=> Chunks(s, n) # {}
  BY <1>1, <1>2 DEF Consumed
<1>6. CASE SkipHeader(q)
  <2>1. c = [client[q] EXCEPT !.currentBatch = Tail(u)]
    BY <1>6, BecomesIs DEF SkipHeader, QueryInv
  <2>2. /\ c.state = "pulling" /\ c.streamId = s /\ c.currentBatch = Tail(u)
        /\ c.reachedEndOfStream = client[q].reachedEndOfStream
        /\ c.resultSchema = client[q].resultSchema /\ c.batches = client[q].batches
    BY <1>1, <1>2, <2>1 DEF ClientType
  <2>3. Chunks(s, n + 1) = Chunks(s, n) /\ RecordBatches(s, n + 1) = RecordBatches(s, n)
    BY <1>3, <1>4, <1>6, NextMessage DEF SkipHeader, PullsKind
  <2>4. Consumed(c, n + 1)
    BY <1>5, <2>2, <2>3 DEF Consumed
  <2> QED
    BY <1>1, <2>2, <2>4, PullInv
<1>7. CASE PullSchema(q)
  <2>1. c = [client[q] EXCEPT !.currentBatch = Tail(u), !.resultSchema = TRUE]
    BY <1>7, BecomesIs DEF PullSchema, QueryInv
  <2>2. /\ c.state = "pulling" /\ c.streamId = s /\ c.currentBatch = Tail(u)
        /\ c.reachedEndOfStream = client[q].reachedEndOfStream
        /\ c.resultSchema = TRUE /\ c.batches = client[q].batches
    BY <1>1, <1>2, <2>1 DEF ClientType
  <2>3. /\ Chunks(s, n) = {} /\ Chunks(s, n + 1) = Chunks(s, n) \cup {n + 1}
        /\ RecordBatches(s, n + 1) = RecordBatches(s, n)
    BY <1>3, <1>4, <1>5, <1>7, NextMessage DEF PullSchema, PullsKind
  <2>4. Consumed(c, n + 1)
    BY <1>5, <2>2, <2>3 DEF Consumed
  <2> QED
    BY <1>1, <2>2, <2>4, PullInv
<1>8. CASE PullRecordBatch(q)
  <2>0. PICK b, m, v : b = client[q].batches /\ m = n + 1 /\ v = Append(b, m)
    OBVIOUS
  <2>1. c = [client[q] EXCEPT !.currentBatch = Tail(u), !.batches = v]
    BY <1>3, <2>0, <1>8, BecomesIs DEF PullRecordBatch, QueryInv
  <2>2. /\ c.state = "pulling" /\ c.streamId = s /\ c.currentBatch = Tail(u)
        /\ c.reachedEndOfStream = client[q].reachedEndOfStream
        /\ c.resultSchema = client[q].resultSchema /\ c.batches = v
    BY <1>1, <1>2, <2>1 DEF ClientType
  <2>3. /\ Chunks(s, n) # {} /\ Chunks(s, m) = Chunks(s, n) \cup {m}
        /\ RecordBatches(s, m) = RecordBatches(s, n) \cup {m}
    BY <1>3, <1>4, <1>5, <1>8, <2>0, NextMessage DEF PullRecordBatch, PullsKind
  <2>4. b \in Seq(1..MaxMessages) /\ m \in 1..MaxMessages /\ n < m
        /\ {b[i] : i \in DOMAIN b} \subseteq 1..n
    BY <1>2, <1>3, <1>4, <1>5, <2>0 DEF ClientType
  <2>5. /\ {v[i] : i \in DOMAIN v} = {b[i] : i \in DOMAIN b} \cup {m}
        /\ \A i, j \in DOMAIN v : i < j => v[i] < v[j]
    <3>1. \A i, j \in DOMAIN b : i < j => b[i] < b[j]
      BY <1>5, <2>0
    <3>2. /\ {Append(b, m)[i] : i \in DOMAIN Append(b, m)} = {b[i] : i \in DOMAIN b} \cup {m}
          /\ \A i, j \in DOMAIN Append(b, m) : i < j => Append(b, m)[i] < Append(b, m)[j]
      BY ONLY <1>3, <2>4, <3>1, AppendBatch
    <3>3. v = Append(b, m)
      BY <2>0
    <3> QED
      BY ONLY <3>2, <3>3, Zenon
  <2>6. c.resultSchema <=> Chunks(s, m) # {}
    BY <1>5, <2>2, <2>3, <1>8 DEF PullRecordBatch
  <2>7. {v[i] : i \in DOMAIN v} = RecordBatches(s, m)
    BY <1>5, <2>0, <2>3, <2>5
  <2>8. Consumed(c, m)
    BY ONLY <2>2, <2>5, <2>6, <2>7 DEF Consumed
  <2> QED
    BY <1>1, <2>0, <2>2, <2>8, PullInv
<1> QED
  BY <1>6, <1>7, <1>8

LEMMA DrainInv ==
  ASSUME QueryInv, NEW q \in Readers, Drain(q)
  PROVE  ClientInv(q)'
<1> PICK c, s : c = client'[q] /\ s = client[q].streamId
  OBVIOUS
<1>1. /\ client[q].state = "pulling" /\ UNCHANGED <<next_stream_id, call, delivered, outcome>>
      /\ client[q].currentBatch = <<>> /\ client[q].reachedEndOfStream
  BY DEF Drain, Pulls, managerVars, vars
<1>2. client[q] \in ClientType /\ HasStream(q) /\ OneCall(q) /\ OwnsStream(q) /\ HoldsRest(q)
      /\ KnowsEnd(q) /\ Consumed(client[q], Pulled(q))
  BY <1>1 DEF QueryInv, ClientsTypeOK, ClientInv, HasStream
<1>3. c = [client[q] EXCEPT !.state = "drained", !.resultSchema = TRUE]
  BY BecomesIs DEF Drain, QueryInv
<1>4. /\ c.state = "drained" /\ c.streamId = s /\ c.currentBatch = client[q].currentBatch
      /\ c.reachedEndOfStream = client[q].reachedEndOfStream /\ c.batches = client[q].batches
  BY <1>2, <1>3 DEF ClientType
<1>5. OneCall(q)' /\ OwnsStream(q)' /\ Pulled(q)' = Pulled(q)
  BY <1>1, <1>2, <1>4 DEF OneCall, OwnsStream, Pulled
<1>6. HoldsRest(q)' /\ KnowsEnd(q)'
  BY <1>1, <1>2, <1>4, <1>5 DEF HoldsRest, KnowsEnd
<1>7. Consumed(client[q], Pulled(q))'
  BY <1>1, <1>2, <1>4, <1>5 DEF Consumed
<1> QED
  BY <1>4, <1>5, <1>6, <1>7 DEF ClientInv

LEMMA NextClients ==
  ASSUME QueryInv, DeliveryInv', [QueryNext]_queryVars, NEW p \in Readers
  PROVE  ClientInv(p)'
<1>1. [ManagerNext]_vars /\ [Next]_vars
  BY ManagerIsUsed, ManagerSteps DEF QueryInv, DeliveryInv
<1>2. ASSUME UNCHANGED <<delivered, outcome>>, client'[p] = client[p], call'[p] = call[p]
      PROVE  ClientInv(p)'
  BY <1>1, <1>2, OtherClients
<1>3. ASSUME UNCHANGED <<vars, client>> PROVE ClientInv(p)'
  BY <1>2, <1>3 DEF vars
<1>4. CASE UNCHANGED queryVars
  BY <1>3, <1>4 DEF queryVars
<1>5. CASE Connect \/ Close \/ \E c \in 1..MaxChannels : DestroyChannel(c)
  BY <1>3, <1>5 DEF Connect, Close, DestroyChannel, managerVars
<1>6. ASSUME NEW s \in Streams, ServerPushes(s) PROVE ClientInv(p)'
  BY <1>2, <1>6 DEF ServerPushes, ReaderTask, ReadMessage, ReadEnd, PushResponse
<1>7. ASSUME NEW q \in Readers, NEW health \in BOOLEAN, ExecuteQuery(q, health) PROVE ClientInv(p)'
  <2>1. UNCHANGED <<delivered, outcome, call>> /\ Becomes(q, Client("starting", health, channel))
    BY <1>7 DEF ExecuteQuery, managerVars, vars
  <2>2. CASE p # q
    BY <1>2, <2>1, <2>2, BecomesIs DEF QueryInv
  <2>3. CASE p = q
    <3>1. client'[q] = Client("starting", health, channel)
      BY <2>1, BecomesIs DEF QueryInv
    <3>2. client'[q].state = "starting" /\ NothingYet(q)'
      BY <3>1 DEF Client, NothingYet
    <3>3. call'[q] = Idle
      BY <1>7, <2>1 DEF ExecuteQuery, QueryInv, ClientInv, OneCall
    <3> QED
      BY <2>3, <3>2, <3>3, WithoutStream
  <2> QED
    BY <2>2, <2>3
<1>8. ASSUME NEW q \in Readers, CallServer(q) \/ CallFails(q) \/ ReadIsRefused(q) \/ PullWrongChunk(q)
      PROVE  ClientInv(p)'
  <2>1. /\ UNCHANGED <<delivered, outcome, call>> /\ client[q].state # "reading"
        /\ \/ Throws(q)
           \/ client[q].state = "starting" /\ Becomes(q, [client[q] EXCEPT !.state = "calling"])
    BY <1>8 DEF CallServer, CallFails, ReadIsRefused, PullWrongChunk, PullsKind, Pulls, managerVars, vars
  <2>2. CASE p # q
    BY <1>2, <2>1, <2>2, BecomesIs DEF Throws, QueryInv
  <2>3. CASE p = q /\ Throws(q)
    BY <2>1, <2>3, ThrowsInv
  <2>4. CASE p = q /\ client[q].state = "starting" /\ Becomes(q, [client[q] EXCEPT !.state = "calling"])
    <3>1. client[q] \in ClientType /\ NothingYet(q) /\ call'[q] = Idle
      BY <2>1, <2>4 DEF QueryInv, ClientsTypeOK, ClientInv, OneCall
    <3>2. client'[q] = [client[q] EXCEPT !.state = "calling"]
      BY <2>4, BecomesIs DEF QueryInv
    <3>3. client'[q].state = "calling" /\ NothingYet(q)'
      BY <3>1, <3>2 DEF ClientType, NothingYet
    <3> QED
      BY <2>4, <3>1, <3>3, WithoutStream
  <2> QED
    BY <2>1, <2>2, <2>3, <2>4
<1>9. ASSUME NEW q \in Readers, NEW s \in Streams, RegisterStream(q, s) PROVE ClientInv(p)'
  <2>1. CASE p = q
    BY <1>9, <2>1, RegisterStreamInv
  <2>2. CASE p # q
    BY <1>2, <1>9, <2>2, BecomesIs DEF RegisterStream, StartServerStream, QueryInv
  <2> QED
    BY <2>1, <2>2
<1>10. ASSUME NEW q \in Readers, Read(q) PROVE ClientInv(p)'
  <2>1. CASE p = q
    BY <1>10, <2>1, ReadInv
  <2>2. CASE p # q
    BY <1>2, <1>10, <2>2, BecomesIs DEF Read, ReadServerStream, QueryInv, DeliveryInv, TypeOK
  <2> QED
    BY <2>1, <2>2
<1>11. ASSUME NEW q \in Readers, ServeRead(q) PROVE ClientInv(p)'
  <2>1. CASE p = q
    BY <1>1, <1>11, <2>1, ServeReadInv
  <2>2. CASE p # q
    <3>1. client[q].state = "reading" /\ ReadCall(q, client[q].streamId) /\ HasStream(q)
      BY <1>11 DEF ServeRead, HasStream
    <3>2. client[q].streamId \in Streams
      BY <3>1 DEF QueryInv, ClientInv, OwnsStream
    <3>3. UNCHANGED next_stream_id /\ call'[p] = call[p] /\ client'[p] = client[p]
      BY <1>11, <2>2, <3>1, <3>2, ReadCallEffect, BecomesIs DEF ServeRead, QueryInv
    <3>4. next_stream_id \in Nat
      BY StreamAssumption DEF QueryInv, DeliveryInv, TypeOK
    <3>5. HasStream(p) => /\ delivered'[client[p].streamId] = delivered[client[p].streamId]
                          /\ outcome'[client[p].streamId] = outcome[client[p].streamId]
      <4> SUFFICES ASSUME HasStream(p) PROVE client[p].streamId \in Streams \ {client[q].streamId}
        BY <3>1, <3>2, ReadCallEffect DEF QueryInv
      <4> QED
        BY <2>2, <3>1 DEF QueryInv, OneReaderPerStream, ClientInv, OwnsStream
    <3>6. OneCall(p)'
      BY <3>3 DEF QueryInv, ClientInv, OneCall
    <3> QED
      BY <3>3, <3>4, <3>5, <3>6, Bystander
  <2> QED
    BY <2>1, <2>2
<1>12. ASSUME NEW q \in Readers, \/ NextBatch(q) \/ SkipHeader(q) \/ PullSchema(q)
                                 \/ PullRecordBatch(q) \/ Drain(q)
       PROVE  ClientInv(p)'
  <2>1. CASE p = q
    BY <1>12, <2>1, NextBatchInv, PullsInv, DrainInv
  <2>2. CASE p # q
    <3>1. UNCHANGED <<delivered, outcome, call>> /\ \E c : Becomes(q, c)
      BY <1>12 DEF NextBatch, Throws, SkipHeader, PullSchema, PullRecordBatch, Drain, managerVars, vars
    <3> QED
      BY <1>2, <2>2, <3>1, BecomesIs DEF QueryInv
  <2> QED
    BY <2>1, <2>2
<1> QED
  BY <1>4, <1>5, <1>6, <1>7, <1>8, <1>9, <1>10, <1>11, <1>12 DEF QueryNext, ReadQuery

\* Only a new stream gets a reader.
LEMMA NextReaders ==
  ASSUME QueryInv, [QueryNext]_queryVars
  PROVE  OneReaderPerStream'
<1>1. ASSUME \A q \in Readers : HasStream(q)' =>
               HasStream(q) /\ client'[q].streamId = client[q].streamId
      PROVE  OneReaderPerStream'
  BY <1>1 DEF QueryInv, OneReaderPerStream
<1>2. CASE UNCHANGED client
  BY <1>1, <1>2 DEF HasStream
<1>3. ASSUME NEW q \in Readers, \E c : Becomes(q, c),
             HasStream(q)' => HasStream(q) /\ client'[q].streamId = client[q].streamId
      PROVE  OneReaderPerStream'
  <2>1. \A p \in Readers \ {q} : client'[p] = client[p]
    BY <1>3, BecomesIs DEF QueryInv
  <2> QED
    BY <1>1, <1>3, <2>1 DEF HasStream
<1>4. ASSUME NEW q \in Readers, NEW health \in BOOLEAN, ExecuteQuery(q, health)
      PROVE  OneReaderPerStream'
  <2>1. client'[q] = Client("starting", health, channel) /\ \E c : Becomes(q, c)
    BY <1>4, BecomesIs DEF ExecuteQuery, QueryInv
  <2>2. client'[q].state = "starting"
    BY <2>1 DEF Client
  <2> QED
    BY <1>3, <2>1, <2>2 DEF HasStream
<1>5. ASSUME NEW q \in Readers, Throws(q) PROVE OneReaderPerStream'
  <2>1. client'[q] = [client[q] EXCEPT !.state = "failed", !.currentBatch = <<>>]
        /\ client[q] \in ClientType /\ \E c : Becomes(q, c)
    BY <1>5, BecomesIs DEF Throws, QueryInv, ClientsTypeOK
  <2>2. client'[q].state = "failed"
    BY <2>1 DEF ClientType
  <2> QED
    BY <1>3, <2>1, <2>2 DEF HasStream
<1>6. ASSUME NEW q \in Readers, CallServer(q) PROVE OneReaderPerStream'
  <2>1. CASE Becomes(q, [client[q] EXCEPT !.state = "calling"])
    <3>1. client'[q] = [client[q] EXCEPT !.state = "calling"] /\ client[q] \in ClientType
          /\ \E c : Becomes(q, c)
      BY <2>1, BecomesIs DEF QueryInv, ClientsTypeOK
    <3>2. client'[q].state = "calling"
      BY <3>1 DEF ClientType
    <3> QED
      BY <1>3, <3>1, <3>2 DEF HasStream
  <2> QED
    BY <1>5, <1>6, <2>1 DEF CallServer
<1>7. ASSUME NEW q \in Readers, NEW s \in Streams, RegisterStream(q, s) PROVE OneReaderPerStream'
  <2>1. s = next_stream_id
    BY <1>7 DEF RegisterStream, StartServerStream
  <2>2. /\ client'[q] = [client[q] EXCEPT !.state = IF client[q].health THEN "awaitingSchema"
                                                  ELSE "pulling",
                                         !.streamId = s]
        /\ client[q] \in ClientType
        /\ \A p \in Readers \ {q} : client'[p] = client[p]
    BY <1>7, BecomesIs DEF RegisterStream, QueryInv, ClientsTypeOK
  <2>3. client'[q].streamId = s
    BY <2>2 DEF ClientType
  <2>4. \A p \in Readers \ {q} : HasStream(p) => client[p].streamId # s
    BY <2>1, StreamAssumption DEF QueryInv, ClientInv, OwnsStream, Streams
  <2> SUFFICES ASSUME NEW p \in Readers, NEW r \in Readers, HasStream(p)', HasStream(r)', p # r
               PROVE  client'[p].streamId # client'[r].streamId
    BY DEF OneReaderPerStream
  <2>5. \A x \in Readers \ {q} : HasStream(x)' => HasStream(x)
    BY <2>2 DEF HasStream
  <2> QED
    BY <2>2, <2>3, <2>4, <2>5 DEF OneReaderPerStream, QueryInv
<1>8. ASSUME NEW q \in Readers,
             \/ Read(q) \/ ReadIsRefused(q) \/ ServeRead(q) \/ NextBatch(q) \/ SkipHeader(q)
             \/ PullSchema(q) \/ PullRecordBatch(q) \/ PullWrongChunk(q) \/ Drain(q)
      PROVE  OneReaderPerStream'
  <2>1. HasStream(q)
    BY <1>8 DEF HasStream, Read, ReadIsRefused, ServeRead, NextBatch, SkipHeader, PullSchema,
       PullRecordBatch, PullWrongChunk, Drain, PullsKind, Pulls
  <2>2. CASE Throws(q) \/ UNCHANGED client
    BY <1>2, <1>5, <2>2
  <2>3. PICK v, e, u, b, end, schema :
          \/ Throws(q) \/ UNCHANGED client
          \/ Becomes(q, [client[q] EXCEPT !.state = v])
          \/ Becomes(q, [client[q] EXCEPT !.state = v, !.event = e, !.currentBatch = u])
          \/ Becomes(q, [client[q] EXCEPT !.state = v, !.reachedEndOfStream = end])
          \/ Becomes(q, [client[q] EXCEPT !.currentBatch = u])
          \/ Becomes(q, [client[q] EXCEPT !.currentBatch = u, !.resultSchema = schema])
          \/ Becomes(q, [client[q] EXCEPT !.currentBatch = u, !.batches = b])
          \/ Becomes(q, [client[q] EXCEPT !.state = v, !.resultSchema = schema])
    BY <1>8 DEF Read, ReadIsRefused, ServeRead, NextBatch, SkipHeader, PullSchema,
       PullRecordBatch, PullWrongChunk, Drain
  <2>4. CASE ~(Throws(q) \/ UNCHANGED client)
    <3>1. client[q] \in ClientType
      BY DEF QueryInv, ClientsTypeOK
    <3>2. \E c : Becomes(q, c)
      BY <2>3, <2>4
    <3>3. \/ client'[q] = [client[q] EXCEPT !.state = v]
          \/ client'[q] = [client[q] EXCEPT !.state = v, !.event = e, !.currentBatch = u]
          \/ client'[q] = [client[q] EXCEPT !.state = v, !.reachedEndOfStream = end]
          \/ client'[q] = [client[q] EXCEPT !.currentBatch = u]
          \/ client'[q] = [client[q] EXCEPT !.currentBatch = u, !.resultSchema = schema]
          \/ client'[q] = [client[q] EXCEPT !.currentBatch = u, !.batches = b]
          \/ client'[q] = [client[q] EXCEPT !.state = v, !.resultSchema = schema]
      BY <2>3, <2>4, BecomesIs DEF QueryInv
    <3>4. client'[q].streamId = client[q].streamId
      BY <3>1, <3>3 DEF ClientType
    <3> QED
      BY <1>3, <2>1, <3>2, <3>4
  <2> QED
    BY <2>2, <2>4
<1> QED
  BY <1>2, <1>4, <1>5, <1>6, <1>7, <1>8 DEF QueryNext, ReadQuery, queryVars, Connect, Close,
     DestroyChannel, ServerPushes, CallFails

LEMMA InitQueryInv == QueryInit => QueryInv
<1> SUFFICES ASSUME QueryInit PROVE QueryInv
  OBVIOUS
<1>1. DeliveryInv /\ ClientsTypeOK
  BY InitDelivery, InitQueryTypes DEF QueryInit
<1>2. \A q \in Readers : client[q].state = "idle" /\ call[q] = Idle
  BY DEF QueryInit, Init, Client
<1>3. (\A q \in Readers : ClientInv(q)) /\ OneReaderPerStream
  BY <1>2 DEF ClientInv, OneCall, HasStream, OneReaderPerStream
<1>4. StreamsKept /\ StreamsFresh /\ StreamsComplete
  BY DEF QueryInit, Init, StreamsKept, StreamsFresh, StreamsComplete, Streams
<1> QED
  BY <1>1, <1>3, <1>4 DEF QueryInv

LEMMA NextQueryInv == QueryInv /\ [QueryNext]_queryVars => QueryInv'
<1> SUFFICES ASSUME QueryInv, [QueryNext]_queryVars PROVE QueryInv'
  OBVIOUS
<1>1. [ManagerNext]_vars /\ [Next]_vars
  BY ManagerIsUsed, ManagerSteps DEF QueryInv, DeliveryInv
<1>2. DeliveryInv'
  BY <1>1, NextDelivery DEF QueryInv
<1>3. ClientsTypeOK'
  BY <1>2, NextQueryTypes DEF QueryInv, DeliveryInv
<1>4. (\A q \in Readers : ClientInv(q))' /\ OneReaderPerStream'
  BY <1>2, NextClients, NextReaders
<1>5. StreamsKept' /\ StreamsFresh' /\ StreamsComplete'
  BY <1>1, <1>2, KeptStreams, FreshStreams, CompleteStreams DEF QueryInv
<1> QED
  BY <1>2, <1>3, <1>4, <1>5 DEF QueryInv

LEMMA QueriesCorrect == QuerySpec => []QueryInv
BY InitQueryInv, NextQueryInv, PTL DEF QuerySpec

-----------------------------------------------------------------------------
(***************************************************************************)
(* The queries implement the stream manager's specification: whatever is   *)
(* proved about it holds while they use it.                                *)
(***************************************************************************)
THEOREM QueriesUseTheManager == QuerySpec => Spec
<1>1. QueryInit => Init
  BY DEF QueryInit
<1>2. QueryInv /\ [QueryNext]_queryVars => [Next]_vars
  <2> SUFFICES ASSUME QueryInv, [QueryNext]_queryVars PROVE [Next]_vars
    OBVIOUS
  <2> QED
    BY ManagerIsUsed, ManagerSteps DEF QueryInv, DeliveryInv
<1> QED
  BY <1>1, <1>2, QueriesCorrect, PTL DEF QuerySpec, Spec

(***************************************************************************)
(* A client that will read again finds its stream in the manager's map.    *)
(***************************************************************************)
THEOREM StreamsOutlive == QuerySpec => []StreamsOutliveTheirClients
<1>1. QueryInv => StreamsOutliveTheirClients
  <2> SUFFICES ASSUME QueryInv, NEW q \in Readers,
                      client[q].state = "reading" \/ (client[q].state = "pulling" /\ NeedsBatch(q))
               PROVE  client[q].streamId \in server_streams
    BY DEF StreamsOutliveTheirClients
  <2>1. HasStream(q)
    BY DEF HasStream
  <2>2. OwnsStream(q) /\ outcome[client[q].streamId] = "open"
    BY <2>1 DEF QueryInv, ClientInv, KnowsEnd, NeedsBatch
  <2> QED
    BY <2>2 DEF QueryInv, StreamsKept, OwnsStream
<1> QED
  BY <1>1, QueriesCorrect, PTL

(***************************************************************************)
(* The consumer of a query gets the record batches of its own stream, each *)
(* of them once and in order, and all of them when the result ends.        *)
(***************************************************************************)
THEOREM ExactResults == QuerySpec => []ResultsAreExact
<1>1. QueryInv => ResultsAreExact
  <2> SUFFICES ASSUME QueryInv, NEW q \in Readers, client[q].state \in {"pulling", "reading", "drained"}
               PROVE  /\ {client[q].batches[i] : i \in DOMAIN client[q].batches}
                           = RecordBatches(client[q].streamId, Pulled(q))
                      /\ \A i, j \in DOMAIN client[q].batches :
                           i < j => client[q].batches[i] < client[q].batches[j]
                      /\ client[q].state = "drained" =>
                           /\ outcome[client[q].streamId] = "finished"
                           /\ Pulled(q) = received[client[q].streamId]
    BY DEF ResultsAreExact
  <2>1. HasStream(q)
    BY DEF HasStream
  <2>2. OwnsStream(q) /\ KnowsEnd(q) /\ Consumed(client[q], Pulled(q))
    BY <2>1 DEF QueryInv, ClientInv
  <2>3. ASSUME client[q].state = "drained"
        PROVE  /\ outcome[client[q].streamId] = "finished"
               /\ Pulled(q) = received[client[q].streamId]
    <3>1. outcome[client[q].streamId] = "finished" /\ client[q].currentBatch = <<>>
      BY <2>2, <2>3 DEF KnowsEnd
    <3>2. /\ delivered[client[q].streamId] = Numbers(received[client[q].streamId])
          /\ received[client[q].streamId] \in Nat
      BY <2>2, <3>1, StreamTypes DEF QueryInv, StreamsComplete, OwnsStream, DeliveryInv
    <3>3. Len(delivered[client[q].streamId]) = received[client[q].streamId]
      BY <3>2, NumbersFacts
    <3>4. Len(client[q].currentBatch) = 0
      BY <3>1, EmptySeq
    <3> QED
      BY <3>1, <3>2, <3>3, <3>4 DEF Pulled
  <2> QED
    BY <2>2, <2>3 DEF Consumed
<1> QED
  BY <1>1, QueriesCorrect, PTL
=============================================================================
