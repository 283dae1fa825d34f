------------------------ MODULE GrpcDeliveryProofs ------------------------
(***************************************************************************)
(* Proofs about GrpcStreamManager, for any number of read calls, streams   *)
(* and messages, any capacity of the channel and any size of a batch: the  *)
(* types, and that the manager loses, repeats and reorders nothing,        *)
(* buffers no more than its channel, and implements StreamDelivery.        *)
(***************************************************************************)
EXTENDS GrpcStreamManager, SequenceTheorems, TLAPS

-----------------------------------------------------------------------------
(***************************************************************************)
(* The type invariant.                                                     *)
(***************************************************************************)
LEMMA InitType == Init => TypeOK
<1> SUFFICES ASSUME Init PROVE TypeOK
  OBVIOUS
<1>1. EmptyBatch \in Batch /\ Idle \in Call
  BY EmptySeq DEF EmptyBatch, Batch, Idle, Call
<1>2. Terminal("End") \in Event
  BY DEF Event, Ends
<1>3. <<>> \in Seq(Event) /\ <<>> \in Seq(Readers) /\ <<>> \in Seq(1..MaxMessages)
  BY EmptySeq
<1> HIDE DEF Init
<1>4. response_receiver \in [Streams -> Seq(Event)] /\ waiting \in [Streams -> Seq(Readers)]
      /\ delivered \in [Streams -> Seq(1..MaxMessages)]
  BY <1>3 DEF Init
<1>5. call \in [Readers -> Call] /\ response \in [Streams -> Event]
  BY <1>1, <1>2 DEF Init
<1> QED
  BY <1>4, <1>5, StreamAssumption DEF Init, TypeOK

LEMMA StartType ==
  ASSUME TypeOK, NEW s \in Streams, StartServerStream(s)
  PROVE  TypeOK'
<1>1. next_stream_id' \in 0..MaxStreams
  BY StreamAssumption DEF TypeOK, StartServerStream, Streams
<1> QED
  BY <1>1 DEF TypeOK, StartServerStream

LEMMA ReaderTaskType ==
  ASSUME TypeOK, NEW s \in Streams, ReaderTask(s)
  PROVE  TypeOK'
<1>1. CASE ReadMessage(s)
  <2>1. received[s] + 1 \in 1..MaxMessages
    BY <1>1, StreamAssumption DEF ReadMessage, TypeOK
  <2>2. Message(received[s] + 1) \in Event
    BY <2>1 DEF Event
  <2> QED
    BY <1>1, <2>1, <2>2 DEF ReadMessage, TypeOK
<1>2. CASE \E e \in Ends : ReadEnd(s, e)
  <2> PICK e \in Ends : ReadEnd(s, e)
    BY <1>2
  <2>1. Terminal(e) \in Event
    BY DEF Event
  <2> QED
    BY <2>1 DEF ReadEnd, TypeOK
<1>3. CASE PushResponse(s)
  <2>1. Append(response_receiver[s], response[s]) \in Seq(Event)
    BY AppendProperties DEF TypeOK
  <2> QED
    BY <1>3, <2>1 DEF PushResponse, TypeOK
<1> QED
  BY <1>1, <1>2, <1>3 DEF ReaderTask

\* A batch that read messages is returned as messages.
LEMMA ReturnBatchType ==
  ASSUME TypeOK, NEW r \in Readers, NEW s \in Streams, NEW batch \in Batch, ReturnBatch(r, s, batch)
  PROVE  call' \in [Readers -> Call] /\ delivered' \in [Streams -> Seq(1..MaxMessages)]
<1>1. Idle \in Call
  BY EmptySeq DEF EmptyBatch, Batch, Idle, Call
<1>2. delivered[s] \o batch.messages \in Seq(1..MaxMessages)
  BY ConcatProperties DEF TypeOK, Batch
<1> QED
  BY <1>1, <1>2 DEF ReturnBatch, TypeOK

LEMMA EmptyBatchType == EmptyBatch \in Batch
BY EmptySeq DEF EmptyBatch, Batch

LEMMA BatchType ==
  ASSUME TypeOK, NEW r \in Readers
  PROVE  call[r].batch \in Batch
BY DEF TypeOK, Call

\* Receiving takes an event out of the channel; a message has its number.
LEMMA ReceivesType ==
  ASSUME TypeOK, NEW r \in Readers, NEW s \in Streams, NEW events, Receives(r, s, events)
  PROVE  /\ response_receiver' \in [Streams -> Seq(Event)]
         /\ Head(response_receiver[s]) \in Event
         /\ Head(response_receiver[s]).event = "Message"
              => Head(response_receiver[s]).number \in 1..MaxMessages
<1>1. response_receiver[s] \in Seq(Event) /\ response_receiver[s] # <<>>
  BY DEF Receives, TypeOK
<1>2. Head(response_receiver[s]) \in Event /\ Tail(response_receiver[s]) \in Seq(Event)
  BY <1>1, HeadTailProperties
<1> QED
  BY <1>2 DEF Receives, TypeOK, Event, Message, Terminal, Ends

LEMMA ExtendType ==
  ASSUME NEW batch \in Batch, NEW n \in 1..MaxMessages
  PROVE  Extend(batch, n) \in Batch
<1>1. Append(batch.messages, n) \in Seq(1..MaxMessages)
  BY AppendProperties DEF Batch
<1> QED
  BY <1>1, StreamAssumption DEF Extend, Batch

LEMMA ReadCallType ==
  ASSUME TypeOK, NEW s \in Streams, NEW r \in Readers, ReadCall(r, s)
  PROVE  TypeOK'
<1> DEFINE batch == Extend(call[r].batch, Head(response_receiver[s]).number)
<1>1. CASE LockReceiver(r, s)
  <2>1. Tail(waiting[s]) \in Seq(Readers)
    BY <1>1, HeadTailProperties DEF LockReceiver, TypeOK
  <2>2. call' \in [Readers -> Call]
    BY <1>1 DEF LockReceiver, TypeOK, Call
  <2> QED
    BY <1>1, <2>1, <2>2 DEF LockReceiver, TypeOK
<1>2. CASE ReceiveMessage(r, s)
  <2>1. Receives(r, s, {"Message"})
    BY <1>2 DEF ReceiveMessage
  <2>2. batch \in Batch
    BY <2>1, ReceivesType, BatchType, ExtendType DEF Receives
  <2> HIDE DEF batch
  <2>3. call' \in [Readers -> Call] /\ delivered' \in [Streams -> Seq(1..MaxMessages)]
    <3>1. CASE call' = [call EXCEPT ![r].batch = batch] /\ UNCHANGED delivered
      BY <3>1, <2>2 DEF TypeOK, Call
    <3>2. CASE ReturnBatch(r, s, batch)
      BY <3>2, <2>2, ReturnBatchType
    <3> QED
      BY <1>2, <3>1, <3>2 DEF ReceiveMessage, batch
  <2> QED
    BY <1>2, <2>1, <2>3, ReceivesType DEF ReceiveMessage, Receives, TypeOK
<1>3. CASE ReceiveEnd(r, s)
  BY <1>3, ReceivesType, BatchType, ReturnBatchType DEF ReceiveEnd, Receives, TypeOK
<1>4. CASE ReceiveFailure(r, s)
  BY <1>4, ReceivesType, EmptyBatchType, ReturnBatchType DEF ReceiveFailure, Receives, TypeOK
<1>5. CASE ReadTimesOut(r, s)
  BY <1>5, EmptyBatchType, ReturnBatchType DEF ReadTimesOut, TypeOK
<1>6. CASE FlushAfterTimeout(r, s)
  BY <1>6, BatchType, ReturnBatchType DEF FlushAfterTimeout, TypeOK
<1> QED
  BY <1>1, <1>2, <1>3, <1>4, <1>5, <1>6 DEF ReadCall

LEMMA ReadServerStreamType ==
  ASSUME TypeOK, NEW s \in Streams, NEW r \in Readers, ReadServerStream(r, s)
  PROVE  TypeOK'
<1>1. Append(waiting[s], r) \in Seq(Readers)
  BY AppendProperties DEF TypeOK
<1>2. [state |-> "locking", stream |-> s, batch |-> EmptyBatch] \in Call
  BY EmptyBatchType, StreamAssumption DEF Call, Streams
<1> QED
  BY <1>1, <1>2 DEF ReadServerStream, TypeOK

LEMMA NextType == TypeOK /\ [Next]_vars => TypeOK'
<1> SUFFICES ASSUME TypeOK, [Next]_vars PROVE TypeOK'
  OBVIOUS
<1>1. CASE UNCHANGED vars
  BY <1>1 DEF vars, TypeOK
<1>2. ASSUME NEW s \in Streams, DestroyServerStream(s) PROVE TypeOK'
  BY <1>2 DEF DestroyServerStream, TypeOK
<1> QED
  BY <1>1, <1>2, StartType, ReaderTaskType, ReadServerStreamType, ReadCallType DEF Next

(***************************************************************************)
(* Every part of the manager keeps its type.                               *)
(***************************************************************************)
THEOREM TypeCorrect == Spec => []TypeOK
BY InitType, NextType, PTL DEF Spec

-----------------------------------------------------------------------------
(***************************************************************************)
(* The read calls of a stream.  At most one of them holds the receiver;    *)
(* the calls in the queue of its mutex wait for it, each of them once; and *)
(* no other call than the one that receives has messages.                  *)
(***************************************************************************)
Queued ==
  \A s \in Streams : \A i \in 1..Len(waiting[s]) :
    call[waiting[s][i]].state = "locking" /\ call[waiting[s][i]].stream = s

QueuedOnce ==
  \A s \in Streams : \A i, j \in 1..Len(waiting[s]) : waiting[s][i] = waiting[s][j] => i = j

OneReceiver ==
  \A s \in Streams : \A r, q \in Readers : HoldsReceiver(r, s) /\ HoldsReceiver(q, s) => r = q

EmptyHanded ==
  \A r \in Readers : call[r].state # "receiving" => call[r].batch = EmptyBatch

CallsInv == Queued /\ QueuedOnce /\ OneReceiver /\ EmptyHanded

LEMMA InitCalls == Init => CallsInv
BY EmptySeq DEF Init, CallsInv, Queued, QueuedOnce, OneReceiver, EmptyHanded, HoldsReceiver, Idle

\* A step that leaves the calls and the queues alone.
LEMMA UnchangedCalls ==
  ASSUME CallsInv, UNCHANGED <<waiting, call>>
  PROVE  CallsInv'
BY DEF CallsInv, Queued, QueuedOnce, OneReceiver, EmptyHanded, HoldsReceiver

\* The call that holds the receiver goes on with another batch or returns.
LEMMA ReceiverCalls ==
  ASSUME TypeOK, CallsInv, NEW s \in Streams, NEW r \in Readers, HoldsReceiver(r, s),
         UNCHANGED waiting,
         \/ call' = [call EXCEPT ![r] = Idle]
         \/ \E batch \in Batch : call' = [call EXCEPT ![r].batch = batch]
  PROVE  CallsInv'
<1>1. /\ call[r].state = "receiving" /\ call[r].stream = s
      /\ \/ call'[r] = Idle
         \/ call'[r].state = "receiving" /\ call'[r].stream = s
      /\ \A q \in Readers \ {r} : call'[q] = call[q]
  BY DEF TypeOK, Call, HoldsReceiver
<1>2. Queued'
  <2>1. \A m \in Streams : \A i \in 1..Len(waiting[m]) :
          waiting[m][i] \in Readers /\ waiting[m][i] # r
    BY <1>1 DEF TypeOK, CallsInv, Queued
  <2> QED
    BY <1>1, <2>1 DEF CallsInv, Queued
<1>3. QueuedOnce'
  BY DEF CallsInv, QueuedOnce
<1>4. OneReceiver'
  BY <1>1 DEF CallsInv, OneReceiver, HoldsReceiver, Idle
<1>5. EmptyHanded'
  BY <1>1 DEF CallsInv, EmptyHanded, Idle
<1> QED
  BY <1>2, <1>3, <1>4, <1>5 DEF CallsInv

LEMMA ReadServerStreamCalls ==
  ASSUME TypeOK, CallsInv, NEW s \in Streams, NEW r \in Readers, ReadServerStream(r, s)
  PROVE  CallsInv'
<1>1. /\ call[r] = Idle
      /\ call'[r] = [state |-> "locking", stream |-> s, batch |-> EmptyBatch]
      /\ \A q \in Readers \ {r} : call'[q] = call[q]
  BY DEF ReadServerStream, TypeOK
<1>2. \A m \in Streams : \A i \in 1..Len(waiting[m]) :
        waiting[m][i] \in Readers /\ waiting[m][i] # r
  BY <1>1 DEF TypeOK, CallsInv, Queued, Idle
<1>3. /\ waiting' = [waiting EXCEPT ![s] = Append(@, r)]
      /\ waiting[s] \in Seq(Readers)
      /\ waiting \in [Streams -> Seq(Readers)]
  BY DEF ReadServerStream, TypeOK
<1>4. /\ Len(waiting'[s]) = Len(waiting[s]) + 1 /\ Len(waiting[s]) \in Nat
      /\ waiting'[s][Len(waiting[s]) + 1] = r
      /\ \A i \in 1..Len(waiting[s]) : waiting'[s][i] = waiting[s][i]
      /\ \A m \in Streams \ {s} : waiting'[m] = waiting[m]
  BY <1>3, AppendProperties, LenProperties
<1>5. Queued'
  BY <1>1, <1>2, <1>4 DEF CallsInv, Queued
<1>6. QueuedOnce'
  BY <1>2, <1>4 DEF CallsInv, QueuedOnce
<1>7. OneReceiver'
  BY <1>1 DEF CallsInv, OneReceiver, HoldsReceiver
<1>8. EmptyHanded'
  BY <1>1 DEF CallsInv, EmptyHanded
<1> QED
  BY <1>5, <1>6, <1>7, <1>8 DEF CallsInv

LEMMA LockReceiverCalls ==
  ASSUME TypeOK, CallsInv, NEW s \in Streams, NEW r \in Readers, LockReceiver(r, s)
  PROVE  CallsInv'
<1>1. /\ waiting[s] \in Seq(Readers) /\ waiting[s] # <<>> /\ r = Head(waiting[s])
      /\ waiting' = [waiting EXCEPT ![s] = Tail(@)]
      /\ waiting \in [Streams -> Seq(Readers)]
      /\ \A q \in Readers : ~HoldsReceiver(q, s)
  BY DEF LockReceiver, TypeOK
<1>2. /\ Len(waiting'[s]) = Len(waiting[s]) - 1 /\ Len(waiting[s]) \in Nat \ {0}
      /\ waiting[s][1] = r
      /\ \A i \in 1..Len(waiting'[s]) : waiting'[s][i] = waiting[s][i + 1]
      /\ \A m \in Streams \ {s} : waiting'[m] = waiting[m]
  BY <1>1, HeadTailProperties, EmptySeq, LenProperties
<1>3. /\ call[r].state = "locking" /\ call[r].stream = s /\ call[r].batch = EmptyBatch
      /\ call'[r].state = "receiving" /\ call'[r].stream = s
      /\ \A q \in Readers \ {r} : call'[q] = call[q]
  <2>1. 1 \in 1..Len(waiting[s])
    BY <1>2
  <2>2. call[r].state = "locking" /\ call[r].stream = s
    BY <1>2, <2>1 DEF CallsInv, Queued
  <2>3. call[r].batch = EmptyBatch
    BY <2>2 DEF CallsInv, EmptyHanded
  <2>4. call' = [call EXCEPT ![r].state = "receiving"] /\ call \in [Readers -> Call]
    BY DEF LockReceiver, TypeOK
  <2> QED
    BY <2>2, <2>3, <2>4 DEF Call
<1>4. \A m \in Streams : \A i \in 1..Len(waiting'[m]) :
        waiting'[m][i] \in Readers /\ waiting'[m][i] # r
  <2>1. \A i \in 1..Len(waiting'[s]) : waiting'[s][i] \in Readers /\ waiting'[s][i] # r
    BY <1>1, <1>2 DEF CallsInv, QueuedOnce
  <2>2. \A m \in Streams \ {s} : \A i \in 1..Len(waiting[m]) :
          waiting[m][i] \in Readers /\ waiting[m][i] # r
    BY <1>1, <1>3 DEF CallsInv, Queued
  <2> QED
    BY <1>2, <2>1, <2>2
<1>5. Queued'
  <2>1. \A m \in Streams : \A i \in 1..Len(waiting'[m]) :
          \E j \in 1..Len(waiting[m]) : waiting'[m][i] = waiting[m][j]
    BY <1>2
  <2> QED
    BY <1>3, <1>4, <2>1 DEF CallsInv, Queued
<1>6. QueuedOnce'
  <2>1. \A i, j \in 1..Len(waiting'[s]) : waiting'[s][i] = waiting'[s][j] => i = j
    <3> SUFFICES ASSUME NEW i \in 1..Len(waiting'[s]), NEW j \in 1..Len(waiting'[s]),
                        waiting'[s][i] = waiting'[s][j]
                 PROVE  i = j
      OBVIOUS
    <3>1. i + 1 \in 1..Len(waiting[s]) /\ j + 1 \in 1..Len(waiting[s])
      BY <1>2
    <3>2. i + 1 = j + 1
      BY <1>2, <3>1 DEF CallsInv, QueuedOnce
    <3> QED
      BY <3>2
  <2> QED
    BY <1>2, <2>1 DEF CallsInv, QueuedOnce
<1>7. OneReceiver'
  BY <1>1, <1>3 DEF CallsInv, OneReceiver, HoldsReceiver
<1>8. EmptyHanded'
  BY <1>3 DEF CallsInv, EmptyHanded
<1> QED
  BY <1>5, <1>6, <1>7, <1>8 DEF CallsInv

LEMMA ReadCallCalls ==
  ASSUME TypeOK, CallsInv, NEW s \in Streams, NEW r \in Readers, ReadCall(r, s)
  PROVE  CallsInv'
<1>1. CASE LockReceiver(r, s)
  BY <1>1, LockReceiverCalls
<1>2. CASE ReceiveMessage(r, s)
  <2> DEFINE batch == Extend(call[r].batch, Head(response_receiver[s]).number)
  <2>1. Receives(r, s, {"Message"})
    BY <1>2 DEF ReceiveMessage
  <2>2. batch \in Batch
    BY <2>1, ReceivesType, BatchType, ExtendType DEF Receives
  <2>3. call' = [call EXCEPT ![r].batch = batch] \/ call' = [call EXCEPT ![r] = Idle]
    BY <1>2 DEF ReceiveMessage, ReturnBatch
  <2> HIDE DEF batch
  <2> QED
    BY <2>1, <2>2, <2>3, ReceiverCalls DEF Receives
<1>3. CASE \/ ReceiveEnd(r, s) \/ ReceiveFailure(r, s)
           \/ ReadTimesOut(r, s) \/ FlushAfterTimeout(r, s)
  <2>1. HoldsReceiver(r, s) /\ UNCHANGED waiting /\ call' = [call EXCEPT ![r] = Idle]
    BY <1>3 DEF ReceiveEnd, ReceiveFailure, ReadTimesOut, FlushAfterTimeout, Receives, ReturnBatch
  <2> QED
    BY <2>1, ReceiverCalls
<1> QED
  BY <1>1, <1>2, <1>3 DEF ReadCall

LEMMA NextCalls == TypeOK /\ CallsInv /\ [Next]_vars => CallsInv'
<1> SUFFICES ASSUME TypeOK, CallsInv, [Next]_vars PROVE CallsInv'
  OBVIOUS
<1>1. CASE UNCHANGED vars
  BY <1>1, UnchangedCalls DEF vars
<1>2. ASSUME NEW s \in Streams,
             StartServerStream(s) \/ ReaderTask(s) \/ DestroyServerStream(s)
      PROVE  CallsInv'
  BY <1>2, UnchangedCalls DEF StartServerStream, ReaderTask, ReadMessage, ReadEnd, PushResponse,
                              DestroyServerStream
<1> QED
  BY <1>1, <1>2, ReadServerStreamCalls, ReadCallCalls DEF Next

-----------------------------------------------------------------------------
(***************************************************************************)
(* Sequences of messages.                                                  *)
(***************************************************************************)
Numbers(n) == [i \in 1..n |-> i]

LEMMA NumbersFacts ==
  ASSUME NEW n \in Nat
  PROVE  /\ Numbers(n) \in Seq(Nat) /\ Len(Numbers(n)) = n
         /\ \A i \in 1..n : Numbers(n)[i] = i
         /\ Append(Numbers(n), n + 1) = Numbers(n + 1)
         /\ Numbers(0) = <<>>
<1>1. Numbers(n) \in Seq(Nat) /\ Len(Numbers(n)) = n
  BY DEF Numbers
<1>2. Numbers(n + 1) \in Seq(Nat) /\ Len(Numbers(n + 1)) = n + 1
  BY DEF Numbers
<1>3. Append(Numbers(n), n + 1) = Numbers(n + 1)
  <2>1. /\ Append(Numbers(n), n + 1) \in Seq(Nat)
        /\ Len(Append(Numbers(n), n + 1)) = n + 1
        /\ \A i \in 1..n : Append(Numbers(n), n + 1)[i] = Numbers(n)[i]
        /\ Append(Numbers(n), n + 1)[n + 1] = n + 1
    BY <1>1, AppendProperties
  <2>2. \A i \in 1..(n + 1) : Append(Numbers(n), n + 1)[i] = Numbers(n + 1)[i]
    BY <2>1 DEF Numbers
  <2> HIDE DEF Numbers
  <2> QED
    BY <1>2, <2>1, <2>2, SeqEqual
<1> QED
  BY <1>1, <1>3 DEF Numbers

\* A sequence of the first numbers that is extended by a prefix of itself.
LEMMA NumbersPrefix ==
  ASSUME NEW n \in Nat, NEW u \in Seq(Nat), NEW v \in Seq(Nat), u \o v = Numbers(n)
  PROVE  /\ Len(u) \in 0..n /\ u = Numbers(Len(u))
<1> DEFINE w == u \o v
<1>1. /\ Len(u) \in Nat /\ Len(v) \in Nat
      /\ Len(w) = Len(u) + Len(v)
      /\ \A i \in 1..(Len(u) + Len(v)) : w[i] = IF i <= Len(u) THEN u[i] ELSE v[i - Len(u)]
  BY ConcatProperties, LenProperties
<1>2. Len(w) = n /\ \A i \in 1..n : w[i] = i
  BY NumbersFacts
<1> HIDE DEF w
<1>5. \A i \in 1..Len(u) : u[i] = i
  BY <1>1, <1>2
<1>3. /\ Numbers(Len(u)) \in Seq(Nat) /\ Len(Numbers(Len(u))) = Len(u)
      /\ \A i \in 1..Len(u) : Numbers(Len(u))[i] = i
  BY <1>1, NumbersFacts
<1>4. u = Numbers(Len(u))
  BY <1>3, <1>5, SeqEqual
<1> QED
  BY <1>1, <1>2, <1>4

LEMMA MessagesFacts ==
  ASSUME NEW m \in Nat, NEW n \in Nat, m <= n
  PROVE  /\ n <= MaxMessages => Messages(m, n) \in Seq(Event)
         /\ Len(Messages(m, n)) = n - m
         /\ n < MaxMessages => Append(Messages(m, n), Message(n + 1)) = Messages(m, n + 1)
         /\ Messages(n, n) = <<>>
         /\ m < n /\ n <= MaxMessages =>
              /\ Messages(m, n) # <<>>
              /\ Head(Messages(m, n)) = Message(m + 1)
              /\ Tail(Messages(m, n)) = Messages(m + 1, n)
<1>1. ASSUME NEW j \in Nat, NEW k \in Nat, j <= k, k <= MaxMessages
      PROVE  /\ Messages(j, k) \in Seq(Event)
             /\ Len(Messages(j, k)) = k - j
             /\ \A i \in 1..(k - j) : Messages(j, k)[i] = Message(j + i)
  <2>1. k - j \in Nat /\ \A i \in 1..(k - j) : j + i \in 1..MaxMessages
    BY <1>1, StreamAssumption
  <2>2. \A i \in 1..(k - j) : Message(j + i) \in Event
    BY <2>1 DEF Event
  <2> HIDE DEF Message
  <2>3. Messages(j, k) \in [1..(k - j) -> Event]
    BY <2>2 DEF Messages
  <2> QED
    BY <2>1, <2>3 DEF Messages
<1>2. Len(Messages(m, n)) = n - m
  BY DEF Messages
<1>3. ASSUME n < MaxMessages
      PROVE  Append(Messages(m, n), Message(n + 1)) = Messages(m, n + 1)
  <2>1. Message(n + 1) \in Event
    BY <1>3, StreamAssumption DEF Event
  <2>2. /\ Append(Messages(m, n), Message(n + 1)) \in Seq(Event)
        /\ Len(Append(Messages(m, n), Message(n + 1))) = (n - m) + 1
        /\ \A i \in 1..(n - m) : Append(Messages(m, n), Message(n + 1))[i] = Message(m + i)
        /\ Append(Messages(m, n), Message(n + 1))[(n - m) + 1] = Message(n + 1)
    <3>1. /\ Messages(m, n) \in Seq(Event) /\ Len(Messages(m, n)) = n - m
          /\ \A i \in 1..(n - m) : Messages(m, n)[i] = Message(m + i)
      <4>1. n <= MaxMessages
        BY <1>3, StreamAssumption
      <4> QED
        BY <1>1, <4>1
    <3> QED
      BY <2>1, <3>1, AppendProperties
  <2>3. /\ Messages(m, n + 1) \in Seq(Event)
        /\ Len(Messages(m, n + 1)) = (n - m) + 1
        /\ \A i \in 1..((n - m) + 1) : Messages(m, n + 1)[i] = Message(m + i)
    <3>1. n + 1 \in Nat /\ m <= n + 1 /\ n + 1 <= MaxMessages /\ (n + 1) - m = (n - m) + 1
      BY <1>3, StreamAssumption
    <3> QED
      BY <1>1, <3>1
  <2>4. \A i \in 1..((n - m) + 1) :
          Append(Messages(m, n), Message(n + 1))[i] = Messages(m, n + 1)[i]
    BY <2>2, <2>3
  <2> QED
    BY <2>2, <2>3, <2>4, SeqEqual
<1>4. Messages(n, n) = <<>>
  BY DEF Messages
<1>5. ASSUME m < n, n <= MaxMessages
      PROVE  /\ Messages(m, n) # <<>>
             /\ Head(Messages(m, n)) = Message(m + 1)
             /\ Tail(Messages(m, n)) = Messages(m + 1, n)
  <2>1. /\ Messages(m, n) \in Seq(Event) /\ Len(Messages(m, n)) = n - m
        /\ \A i \in 1..(n - m) : Messages(m, n)[i] = Message(m + i)
    BY <1>1, <1>5
  <2>2. /\ Messages(m + 1, n) \in Seq(Event) /\ Len(Messages(m + 1, n)) = n - (m + 1)
        /\ \A i \in 1..(n - (m + 1)) : Messages(m + 1, n)[i] = Message((m + 1) + i)
    <3>1. m + 1 \in Nat /\ m + 1 <= n
      BY <1>5
    <3> QED
      BY <1>1, <1>5, <3>1
  <2>3. Messages(m, n) # <<>>
    BY <1>5, <2>1, EmptySeq
  <2>4. /\ Head(Messages(m, n)) = Messages(m, n)[1]
        /\ Tail(Messages(m, n)) \in Seq(Event)
        /\ Len(Tail(Messages(m, n))) = (n - m) - 1
        /\ \A i \in 1..((n - m) - 1) : Tail(Messages(m, n))[i] = Messages(m, n)[i + 1]
    BY <2>1, <2>3, HeadTailProperties
  <2>5. \A i \in 1..((n - m) - 1) : Tail(Messages(m, n))[i] = Messages(m + 1, n)[i]
    BY <2>1, <2>2, <2>4
  <2>6. Tail(Messages(m, n)) = Messages(m + 1, n)
    BY <2>2, <2>4, <2>5, SeqEqual
  <2> QED
    BY <1>5, <2>1, <2>3, <2>4, <2>6
<1> QED
  BY <1>1, <1>2, <1>3, <1>4, <1>5

\* Taking the first element of a sequence does not touch what follows it.
LEMMA HeadTailConcat ==
  ASSUME NEW S, NEW u \in Seq(S), NEW v \in Seq(S), u # <<>>
  PROVE  u \o v # <<>> /\ Head(u \o v) = Head(u) /\ Tail(u \o v) = Tail(u) \o v
<1>1. u \o v \in Seq(S) /\ Len(u \o v) = Len(u) + Len(v) /\ Len(u) \in Nat \ {0} /\ Len(v) \in Nat
  BY ConcatProperties, EmptySeq, LenProperties
<1>2. u \o v # <<>>
  BY <1>1, EmptySeq
<1>3. /\ Tail(u) \in Seq(S) /\ Len(Tail(u)) = Len(u) - 1
      /\ \A i \in 1..(Len(u) - 1) : Tail(u)[i] = u[i + 1]
      /\ Tail(u \o v) \in Seq(S) /\ Len(Tail(u \o v)) = Len(u \o v) - 1
      /\ \A i \in 1..(Len(u \o v) - 1) : Tail(u \o v)[i] = (u \o v)[i + 1]
  BY <1>1, <1>2, HeadTailProperties
<1>4. \A i \in 1..(Len(u) + Len(v)) : (u \o v)[i] = IF i <= Len(u) THEN u[i] ELSE v[i - Len(u)]
  BY <1>1, ConcatProperties
<1>5. Head(u \o v) = Head(u)
  BY <1>1, <1>4
<1>6. /\ Tail(u) \o v \in Seq(S) /\ Len(Tail(u) \o v) = (Len(u) - 1) + Len(v)
      /\ \A i \in 1..((Len(u) - 1) + Len(v)) :
           (Tail(u) \o v)[i] = IF i <= Len(u) - 1 THEN Tail(u)[i] ELSE v[i - (Len(u) - 1)]
  BY <1>1, <1>3, ConcatProperties
<1>7. \A i \in 1..((Len(u) - 1) + Len(v)) : Tail(u \o v)[i] = (Tail(u) \o v)[i]
  <2> SUFFICES ASSUME NEW i \in 1..((Len(u) - 1) + Len(v)) PROVE Tail(u \o v)[i] = (Tail(u) \o v)[i]
    OBVIOUS
  <2>1. Tail(u \o v)[i] = (u \o v)[i + 1] /\ i + 1 \in 1..(Len(u) + Len(v))
    BY <1>1, <1>3
  <2>2. CASE i <= Len(u) - 1
    BY <1>1, <1>3, <1>4, <1>6, <2>1, <2>2
  <2>3. CASE i > Len(u) - 1
    <3>1. (i + 1) - Len(u) = i - (Len(u) - 1)
      BY <1>1
    <3> QED
      BY <1>1, <1>4, <1>6, <2>1, <2>3, <3>1
  <2> QED
    BY <1>1, <2>2, <2>3
<1>8. Tail(u \o v) = Tail(u) \o v
  BY <1>1, <1>3, <1>6, <1>7, SeqEqual
<1> QED
  BY <1>2, <1>5, <1>8

-----------------------------------------------------------------------------
(***************************************************************************)
(* The inductive invariant.  `n` is the number of messages that read calls *)
(* took out of the channel.                                                *)
(***************************************************************************)
Taken(s) == delivered[s] \o HeldBack(s)

InOrder(s, n) ==
  /\ Taken(s) = Numbers(n)
  /\ \/ ~ServerDone(s) /\ InFlight(s) = Messages(n, received[s])
     \/ /\ ServerDone(s)
        /\ \E e \in Ends : InFlight(s) = Append(Messages(n, received[s]), Terminal(e))

OpenInOrder(s) == outcome[s] = "open" => \E n \in 0..received[s] : InOrder(s, n)

NothingAfterEnd(s) == outcome[s] # "open" =>
  /\ s \notin server_streams
  /\ task[s] = "done"
  /\ response_receiver[s] = <<>>
  /\ HeldBack(s) = <<>>

ReturnedInOrder(s) == \E n \in Nat : delivered[s] = Numbers(n)
BoundedChannel(s) == Len(response_receiver[s]) <= STREAM_CAPACITY
Unstarted(s) == s >= next_stream_id => task[s] = "none"

StreamInv(s) ==
  /\ OpenInOrder(s)
  /\ NothingAfterEnd(s)
  /\ ReturnedInOrder(s)
  /\ BoundedChannel(s)
  /\ Unstarted(s)

DeliveryInv ==
  /\ TypeOK
  /\ CallsInv
  /\ \A s \in Streams : StreamInv(s)

\* What a stream has held back is the batch of the call that receives.
LEMMA HeldBackIs ==
  ASSUME CallsInv, NEW s \in Streams
  PROVE  /\ \A r \in Readers : HoldsReceiver(r, s) => HeldBack(s) = call[r].batch.messages
         /\ (\A r \in Readers : ~HoldsReceiver(r, s)) => HeldBack(s) = <<>>
BY DEF HeldBack, CallsInv, OneReceiver

LEMMA HeldBackIsNext ==
  ASSUME CallsInv', NEW s \in Streams
  PROVE  /\ \A r \in Readers : HoldsReceiver(r, s)' => HeldBack(s)' = call'[r].batch.messages
         /\ (\A r \in Readers : ~HoldsReceiver(r, s)') => HeldBack(s)' = <<>>
BY DEF HeldBack, CallsInv, OneReceiver

LEMMA HeldBackType ==
  ASSUME TypeOK, CallsInv, NEW s \in Streams
  PROVE  HeldBack(s) \in Seq(1..MaxMessages)
<1>1. CASE \E r \in Readers : HoldsReceiver(r, s)
  <2> PICK r \in Readers : HoldsReceiver(r, s)
    BY <1>1
  <2> QED
    BY HeldBackIs, BatchType DEF Batch
<1>2. CASE \A r \in Readers : ~HoldsReceiver(r, s)
  BY <1>2, HeldBackIs, EmptySeq
<1> QED
  BY <1>1, <1>2

\* The call that holds the receiver goes on, or lets go of it.
LEMMA HeldBackSteps ==
  ASSUME TypeOK, CallsInv, CallsInv', NEW s \in Streams, NEW r \in Readers, HoldsReceiver(r, s)
  PROVE  /\ call' = [call EXCEPT ![r] = Idle] => HeldBack(s)' = <<>>
         /\ \A batch : call' = [call EXCEPT ![r].batch = batch] => HeldBack(s)' = batch.messages
<1>1. ASSUME call' = [call EXCEPT ![r] = Idle] PROVE HeldBack(s)' = <<>>
  <2>1. \A q \in Readers : ~HoldsReceiver(q, s)'
    BY <1>1 DEF HoldsReceiver, Idle, TypeOK, CallsInv, OneReceiver
  <2> QED
    BY <2>1, HeldBackIsNext
<1>2. ASSUME NEW batch, call' = [call EXCEPT ![r].batch = batch] PROVE HeldBack(s)' = batch.messages
  <2>1. HoldsReceiver(r, s)' /\ call'[r].batch = batch
    BY <1>2 DEF HoldsReceiver, TypeOK, Call
  <2> QED
    BY <2>1, HeldBackIsNext
<1> QED
  BY <1>1, <1>2

\* A call that does not hold the receiver of a stream, and does not get it,
\* changes nothing for that stream.
LEMMA HeldBackElsewhere ==
  ASSUME TypeOK, CallsInv, CallsInv', NEW m \in Streams, NEW r \in Readers,
         ~HoldsReceiver(r, m), ~HoldsReceiver(r, m)',
         \A q \in Readers \ {r} : call'[q] = call[q]
  PROVE  HeldBack(m)' = HeldBack(m)
<1>1. CASE \E q \in Readers : HoldsReceiver(q, m)
  <2> PICK q \in Readers : HoldsReceiver(q, m)
    BY <1>1
  <2>1. q # r /\ call'[q] = call[q]
    OBVIOUS
  <2>2. HoldsReceiver(q, m)'
    BY <2>1 DEF HoldsReceiver
  <2> QED
    BY <2>1, <2>2, HeldBackIs, HeldBackIsNext
<1>2. CASE \A q \in Readers : ~HoldsReceiver(q, m)
  <2>1. \A q \in Readers : ~HoldsReceiver(q, m)'
    BY <1>2 DEF HoldsReceiver
  <2> QED
    BY <1>2, <2>1, HeldBackIs, HeldBackIsNext
<1> QED
  BY <1>1, <1>2

-----------------------------------------------------------------------------
LEMMA InitDelivery == Init => DeliveryInv
<1> SUFFICES ASSUME Init, NEW s \in Streams PROVE StreamInv(s)
  BY InitType, InitCalls DEF DeliveryInv
<1>1. HeldBack(s) = <<>>
  BY DEF HeldBack, HoldsReceiver, Init, Idle
<1>2. delivered[s] = <<>> /\ response_receiver[s] = <<>> /\ Len(response_receiver[s]) = 0
  BY DEF Init
<1>3. ~ServerDone(s) /\ InFlight(s) = <<>>
  BY <1>2 DEF ServerDone, InFlight, Init
<1>4. Numbers(0) = <<>> /\ Messages(0, 0) = <<>>
  BY DEF Numbers, Messages
<1>5. received[s] = 0 /\ InOrder(s, 0)
  BY <1>1, <1>2, <1>3, <1>4 DEF InOrder, Taken, Init
<1> QED
  BY <1>2, <1>4, <1>5, StreamAssumption
  DEF StreamInv, OpenInOrder, NothingAfterEnd, ReturnedInOrder, BoundedChannel, Unstarted, Init

\* A step that does not concern a stream.
LEMMA Unaffected ==
  ASSUME NEW m \in Streams, StreamInv(m),
         outcome'[m] = outcome[m], task'[m] = task[m], response'[m] = response[m],
         response_receiver'[m] = response_receiver[m], received'[m] = received[m],
         delivered'[m] = delivered[m], HeldBack(m)' = HeldBack(m),
         m \in server_streams' => m \in server_streams,
         m >= next_stream_id' => m >= next_stream_id
  PROVE  StreamInv(m)'
<1>1. (ServerDone(m)' <=> ServerDone(m)) /\ InFlight(m)' = InFlight(m) /\ Taken(m)' = Taken(m)
  BY DEF ServerDone, InFlight, Taken
<1>2. ASSUME NEW n, InOrder(m, n) PROVE InOrder(m, n)'
  BY <1>1, <1>2 DEF InOrder
<1>3. OpenInOrder(m)'
  BY <1>2 DEF StreamInv, OpenInOrder
<1>4. NothingAfterEnd(m)'
  BY DEF StreamInv, NothingAfterEnd
<1>5. ReturnedInOrder(m)' /\ BoundedChannel(m)' /\ Unstarted(m)'
  BY DEF StreamInv, ReturnedInOrder, BoundedChannel, Unstarted
<1> QED
  BY <1>3, <1>4, <1>5 DEF StreamInv

-----------------------------------------------------------------------------
(***************************************************************************)
(* The reader task.                                                        *)
(***************************************************************************)
LEMMA UnchangedHeldBack ==
  ASSUME UNCHANGED call, NEW s \in Streams
  PROVE  HeldBack(s)' = HeldBack(s)
BY DEF HeldBack, HoldsReceiver

LEMMA StreamTypes ==
  ASSUME TypeOK, NEW s \in Streams
  PROVE  /\ received[s] \in Nat /\ received[s] <= MaxMessages /\ s \in Nat
         /\ response[s] \in Event /\ response_receiver[s] \in Seq(Event)
         /\ Len(response_receiver[s]) \in Nat
         /\ delivered[s] \in Seq(Nat)
<1>1. /\ delivered[s] \in Seq(1..MaxMessages) /\ 1..MaxMessages \subseteq Nat
      /\ response_receiver[s] \in Seq(Event)
  BY StreamAssumption DEF TypeOK
<1>2. delivered[s] \in Seq(Nat) /\ Len(response_receiver[s]) \in Nat
  BY <1>1, SeqMonotonic, LenProperties
<1> QED
  BY <1>1, <1>2, StreamAssumption DEF TypeOK, Streams

LEMMA StartDelivery ==
  ASSUME DeliveryInv, NEW s \in Streams, StartServerStream(s), NEW m \in Streams
  PROVE  StreamInv(m)'
<1>1. HeldBack(m)' = HeldBack(m) /\ StreamInv(m)
  BY UnchangedHeldBack DEF StartServerStream, DeliveryInv
<1>2. m \in Nat /\ next_stream_id \in Nat /\ next_stream_id' = next_stream_id + 1 /\ s = next_stream_id
  BY StreamTypes, StreamAssumption DEF StartServerStream, DeliveryInv, TypeOK
<1>3. CASE m # s
  <2>1. task'[m] = task[m] /\ (m \in server_streams' => m \in server_streams)
    BY <1>3 DEF StartServerStream, DeliveryInv, TypeOK
  <2> QED
    BY <1>1, <1>2, <2>1, Unaffected DEF StartServerStream
<1>4. CASE m = s
  <2>1. task[m] = "none" /\ outcome[m] = "open" /\ task'[m] = "reading"
    BY <1>1, <1>2, <1>4 DEF StreamInv, Unstarted, NothingAfterEnd, StartServerStream, DeliveryInv, TypeOK
  <2>2. ~ServerDone(m) /\ ~ServerDone(m)' /\ InFlight(m)' = InFlight(m) /\ Taken(m)' = Taken(m)
    BY <1>1, <2>1 DEF ServerDone, InFlight, Taken, StartServerStream
  <2>3. \A n : InOrder(m, n) => InOrder(m, n)'
    BY <2>2 DEF InOrder, StartServerStream
  <2>4. OpenInOrder(m)'
    BY <1>1, <2>3 DEF StreamInv, OpenInOrder, StartServerStream
  <2>5. NothingAfterEnd(m)' /\ ReturnedInOrder(m)' /\ BoundedChannel(m)' /\ Unstarted(m)'
    BY <1>1, <1>2, <1>4, <2>1
    DEF StreamInv, NothingAfterEnd, ReturnedInOrder, BoundedChannel, Unstarted, StartServerStream
  <2> QED
    BY <2>4, <2>5 DEF StreamInv
<1> QED
  BY <1>3, <1>4

\* Concatenation with a single element.
LEMMA ConcatOne ==
  ASSUME NEW S, NEW u \in Seq(S), NEW x \in S
  PROVE  u \o <<x>> = Append(u, x) /\ u \o <<>> = u /\ <<x>> \in Seq(S) /\ <<>> \in Seq(S)
BY AppendIsConcat, ConcatEmptySeq, EmptySeq

LEMMA ReadMessageDelivery ==
  ASSUME DeliveryInv, NEW s \in Streams, ReadMessage(s)
  PROVE  StreamInv(s)'
<1>1. /\ HeldBack(s)' = HeldBack(s) /\ StreamInv(s) /\ TypeOK
      /\ task[s] = "reading" /\ task'[s] = "sending"
      /\ received[s] < MaxMessages /\ received'[s] = received[s] + 1
      /\ response'[s] = Message(received[s] + 1)
  BY UnchangedHeldBack DEF ReadMessage, DeliveryInv, TypeOK
<1>2. outcome[s] = "open" /\ outcome'[s] = "open" /\ ~ServerDone(s) /\ ~ServerDone(s)'
  BY <1>1 DEF StreamInv, NothingAfterEnd, ServerDone, ReadMessage, Message, Ends
<1>3. InFlight(s) = response_receiver[s] /\ Message(received[s] + 1) \in Event
  <2>1. InFlight(s) = response_receiver[s] \o <<>>
    BY <1>1 DEF InFlight
  <2>2. received[s] + 1 \in 1..MaxMessages
    BY <1>1, StreamTypes, StreamAssumption
  <2> QED
    BY <1>1, <2>1, <2>2, StreamTypes, ConcatEmptySeq DEF Event
<1>4. InFlight(s)' = Append(InFlight(s), Message(received[s] + 1))
  BY <1>1, <1>3, StreamTypes, ConcatOne DEF InFlight, ReadMessage
<1>5. PICK n \in 0..received[s] : InOrder(s, n)
  BY <1>1, <1>2 DEF StreamInv, OpenInOrder
<1>6. InFlight(s)' = Messages(n, received'[s])
  <2>1. InFlight(s) = Messages(n, received[s])
    BY <1>2, <1>5 DEF InOrder
  <2>2. n \in Nat /\ received[s] \in Nat /\ n <= received[s]
    BY <1>1, <1>5, StreamTypes
  <2> QED
    BY <1>1, <1>4, <2>1, <2>2, MessagesFacts
<1>7. n \in 0..received'[s] /\ InOrder(s, n)'
  <2>1. Taken(s)' = Taken(s)
    BY <1>1 DEF Taken, ReadMessage
  <2> QED
    BY <1>1, <1>2, <1>5, <1>6, <2>1, StreamTypes DEF InOrder
<1>8. OpenInOrder(s)'
  BY <1>7 DEF OpenInOrder
<1> QED
  BY <1>1, <1>2, <1>8
  DEF StreamInv, NothingAfterEnd, ReturnedInOrder, BoundedChannel, Unstarted, ReadMessage

LEMMA ReadEndDelivery ==
  ASSUME DeliveryInv, NEW s \in Streams, NEW e \in Ends, ReadEnd(s, e)
  PROVE  StreamInv(s)'
<1>1. /\ HeldBack(s)' = HeldBack(s) /\ StreamInv(s) /\ TypeOK
      /\ task[s] = "reading" /\ task'[s] = "sending"
      /\ response'[s] = Terminal(e) /\ Terminal(e) \in Event
  BY UnchangedHeldBack DEF ReadEnd, DeliveryInv, TypeOK, Event
<1>2. outcome[s] = "open" /\ outcome'[s] = "open" /\ ~ServerDone(s) /\ ServerDone(s)'
  BY <1>1 DEF StreamInv, NothingAfterEnd, ServerDone, ReadEnd, Terminal
<1>3. InFlight(s) = response_receiver[s]
  <2>1. InFlight(s) = response_receiver[s] \o <<>>
    BY <1>1 DEF InFlight
  <2> QED
    BY <1>1, <2>1, StreamTypes, ConcatEmptySeq
<1>4. InFlight(s)' = Append(InFlight(s), Terminal(e))
  BY <1>1, <1>3, StreamTypes, ConcatOne DEF InFlight, ReadEnd
<1>5. PICK n \in 0..received[s] : InOrder(s, n)
  BY <1>1, <1>2 DEF StreamInv, OpenInOrder
<1>6. InOrder(s, n)'
  <2>1. Taken(s)' = Taken(s)
    BY <1>1 DEF Taken, ReadEnd
  <2>2. InFlight(s)' = Append(Messages(n, received'[s]), Terminal(e))
    BY <1>2, <1>4, <1>5 DEF InOrder, ReadEnd
  <2> QED
    BY <1>2, <1>5, <2>1, <2>2 DEF InOrder
<1>7. OpenInOrder(s)'
  BY <1>5, <1>6 DEF OpenInOrder, ReadEnd
<1> QED
  BY <1>1, <1>2, <1>7
  DEF StreamInv, NothingAfterEnd, ReturnedInOrder, BoundedChannel, Unstarted, ReadEnd

\* The response moves into the channel: what is in flight stays the same.
LEMMA PushResponseDelivery ==
  ASSUME DeliveryInv, NEW s \in Streams, PushResponse(s)
  PROVE  StreamInv(s)'
<1>1. /\ HeldBack(s)' = HeldBack(s) /\ StreamInv(s) /\ TypeOK
      /\ task[s] = "sending" /\ response[s] \in Event
      /\ task'[s] = (IF response[s].event = "Message" THEN "reading" ELSE "done")
      /\ response_receiver'[s] = Append(response_receiver[s], response[s])
      /\ Len(response_receiver[s]) < STREAM_CAPACITY
  BY UnchangedHeldBack DEF PushResponse, DeliveryInv, TypeOK
<1>2. outcome[s] = "open" /\ outcome'[s] = "open" /\ (ServerDone(s)' <=> ServerDone(s))
  BY <1>1 DEF StreamInv, NothingAfterEnd, ServerDone, PushResponse, Event, Message, Terminal, Ends
<1>3. InFlight(s)' = InFlight(s)
  <2>1. Append(response_receiver[s], response[s]) \in Seq(Event)
    BY <1>1, StreamTypes, AppendProperties
  <2>2. InFlight(s)' = Append(response_receiver[s], response[s])
    BY <1>1, <2>1, ConcatEmptySeq DEF InFlight
  <2>3. InFlight(s) = response_receiver[s] \o <<response[s]>>
    BY <1>1 DEF InFlight
  <2> QED
    BY <1>1, <2>2, <2>3, StreamTypes, ConcatOne
<1>4. Taken(s)' = Taken(s)
  BY <1>1 DEF Taken, PushResponse
<1>5. \A n : InOrder(s, n) => InOrder(s, n)'
  BY <1>2, <1>3, <1>4 DEF InOrder, PushResponse
<1>6. OpenInOrder(s)'
  BY <1>1, <1>5 DEF StreamInv, OpenInOrder, PushResponse
<1>7. BoundedChannel(s)'
  <2>1. Len(response_receiver'[s]) = Len(response_receiver[s]) + 1
    BY <1>1, StreamTypes, AppendProperties
  <2> QED
    BY <1>1, <2>1, StreamTypes, StreamAssumption DEF BoundedChannel
<1> QED
  BY <1>1, <1>2, <1>6, <1>7 DEF StreamInv, NothingAfterEnd, ReturnedInOrder, Unstarted, PushResponse

LEMMA ReaderTaskDelivery ==
  ASSUME DeliveryInv, NEW s \in Streams, ReaderTask(s), NEW m \in Streams
  PROVE  StreamInv(m)'
<1>1. CASE m = s
  BY <1>1, ReadMessageDelivery, ReadEndDelivery, PushResponseDelivery DEF ReaderTask
<1>2. CASE m # s
  <2>1. /\ StreamInv(m) /\ HeldBack(m)' = HeldBack(m)
        /\ UNCHANGED <<outcome, delivered, server_streams, next_stream_id>>
        /\ task'[m] = task[m] /\ response'[m] = response[m]
        /\ response_receiver'[m] = response_receiver[m] /\ received'[m] = received[m]
    BY <1>2, UnchangedHeldBack
    DEF ReaderTask, ReadMessage, ReadEnd, PushResponse, DeliveryInv, TypeOK
  <2> QED
    BY <2>1, Unaffected
<1> QED
  BY <1>1, <1>2

-----------------------------------------------------------------------------
(***************************************************************************)
(* The read calls.  A step of a call only concerns its own stream.         *)
(***************************************************************************)
LEMMA OtherStreams ==
  ASSUME DeliveryInv, CallsInv', NEW s \in Streams, NEW r \in Readers,
         ReadServerStream(r, s) \/ ReadCall(r, s), NEW m \in Streams, m # s
  PROVE  StreamInv(m)'
<1>1. TypeOK /\ CallsInv /\ StreamInv(m)
  BY DEF DeliveryInv
<1>2. /\ ~HoldsReceiver(r, m) /\ ~HoldsReceiver(r, m)'
      /\ \A q \in Readers \ {r} : call'[q] = call[q]
  <2>1. CASE ReadServerStream(r, s)
    BY <1>1, <2>1 DEF ReadServerStream, HoldsReceiver, Idle, TypeOK
  <2>2. CASE LockReceiver(r, s)
    <3>1. 1 \in 1..Len(waiting[s]) /\ waiting[s][1] = r
      BY <1>1, <2>2, EmptySeq DEF LockReceiver, TypeOK
    <3>2. call[r].state = "locking" /\ call[r].stream = s
      BY <1>1, <3>1 DEF CallsInv, Queued
    <3> QED
      BY <1>1, <2>2, <3>2 DEF LockReceiver, HoldsReceiver, TypeOK, Call
  <2>3. CASE ReceiveMessage(r, s) \/ ReceiveEnd(r, s) \/ ReceiveFailure(r, s)
             \/ ReadTimesOut(r, s) \/ FlushAfterTimeout(r, s)
    <3>1. /\ HoldsReceiver(r, s)
          /\ call' = [call EXCEPT ![r] = Idle] \/ \E batch : call' = [call EXCEPT ![r].batch = batch]
      BY <2>3 DEF ReceiveMessage, ReceiveEnd, ReceiveFailure, ReadTimesOut, FlushAfterTimeout,
                  Receives, ReturnBatch
    <3> QED
      BY <1>1, <3>1 DEF HoldsReceiver, Idle, TypeOK, Call
  <2> QED
    BY <2>1, <2>2, <2>3 DEF ReadCall
<1>3. HeldBack(m)' = HeldBack(m)
  BY <1>1, <1>2, HeldBackElsewhere
<1>4. /\ outcome'[m] = outcome[m] /\ task'[m] = task[m] /\ response'[m] = response[m]
      /\ response_receiver'[m] = response_receiver[m] /\ received'[m] = received[m]
      /\ delivered'[m] = delivered[m] /\ UNCHANGED next_stream_id
      /\ m \in server_streams' => m \in server_streams
  BY <1>1 DEF ReadServerStream, ReadCall, LockReceiver, ReceiveMessage, ReceiveEnd, ReceiveFailure,
              ReadTimesOut, FlushAfterTimeout, Receives, ReturnBatch, TypeOK
<1> QED
  BY <1>1, <1>3, <1>4, Unaffected

\* Queueing up and locking the receiver: the call has no messages yet.
LEMMA WaitingDelivery ==
  ASSUME DeliveryInv, CallsInv', NEW s \in Streams, NEW r \in Readers,
         ReadServerStream(r, s) \/ LockReceiver(r, s)
  PROVE  StreamInv(s)'
<1>1. TypeOK /\ CallsInv /\ StreamInv(s)
  BY DEF DeliveryInv
<1>2. HeldBack(s)' = HeldBack(s)
  <2>1. CASE ReadServerStream(r, s)
    BY <1>1, <2>1, HeldBackElsewhere DEF ReadServerStream, HoldsReceiver, Idle, TypeOK
  <2>2. CASE LockReceiver(r, s)
    <3>1. HeldBack(s) = <<>>
      BY <1>1, <2>2, HeldBackIs DEF LockReceiver
    <3>2. 1 \in 1..Len(waiting[s]) /\ waiting[s][1] = r
      BY <1>1, <2>2, EmptySeq DEF LockReceiver, TypeOK
    <3>3. call[r].state = "locking" /\ call[r].stream = s /\ call[r].batch = EmptyBatch
      BY <1>1, <3>2 DEF CallsInv, Queued, EmptyHanded
    <3>4. HoldsReceiver(r, s)' /\ call'[r].batch = EmptyBatch
      BY <1>1, <2>2, <3>3 DEF LockReceiver, HoldsReceiver, TypeOK, Call
    <3>5. HeldBack(s)' = <<>>
      BY <3>4, HeldBackIsNext DEF EmptyBatch
    <3> QED
      BY <3>1, <3>5
  <2> QED
    BY <2>1, <2>2
<1> QED
  BY <1>1, <1>2, Unaffected DEF ReadServerStream, LockReceiver

\* A call returns what it holds back, on a timeout.
LEMMA TimeoutDelivery ==
  ASSUME DeliveryInv, CallsInv', NEW s \in Streams, NEW r \in Readers,
         ReadTimesOut(r, s) \/ FlushAfterTimeout(r, s)
  PROVE  StreamInv(s)'
<1>1. TypeOK /\ CallsInv /\ StreamInv(s) /\ HoldsReceiver(r, s)
  BY DEF DeliveryInv, ReadTimesOut, FlushAfterTimeout
<1>2. HeldBack(s) = call[r].batch.messages /\ HeldBack(s)' = <<>>
  BY <1>1, HeldBackIs, HeldBackSteps DEF ReadTimesOut, FlushAfterTimeout, ReturnBatch
<1>3. delivered'[s] = delivered[s] \o HeldBack(s)
  <2>1. delivered \in [Streams -> Seq(1..MaxMessages)]
    BY <1>1 DEF TypeOK
  <2>2. CASE ReadTimesOut(r, s)
    <3>1. HeldBack(s) = EmptyBatch.messages
      BY <1>2, <2>2 DEF ReadTimesOut
    <3> QED
      BY <2>1, <2>2, <3>1 DEF ReadTimesOut, ReturnBatch
  <2>3. CASE FlushAfterTimeout(r, s)
    BY <1>2, <2>1, <2>3 DEF FlushAfterTimeout, ReturnBatch
  <2> QED
    BY <2>2, <2>3
<1>4. delivered'[s] = Taken(s) /\ Taken(s)' = Taken(s)
  <2>1. delivered[s] \o HeldBack(s) \in Seq(1..MaxMessages)
    BY <1>1, HeldBackType, ConcatProperties DEF TypeOK
  <2> QED
    BY <1>2, <1>3, <2>1, ConcatEmptySeq DEF Taken
<1>5. /\ UNCHANGED <<next_stream_id, server_streams, task, response, response_receiver, received, outcome>>
      /\ (ServerDone(s)' <=> ServerDone(s)) /\ InFlight(s)' = InFlight(s)
  BY DEF ReadTimesOut, FlushAfterTimeout, ServerDone, InFlight
<1>6. OpenInOrder(s)' /\ ReturnedInOrder(s)'
  <2>1. CASE outcome[s] = "open"
    <3>1. PICK n \in 0..received[s] : InOrder(s, n)
      BY <1>1, <2>1 DEF StreamInv, OpenInOrder
    <3>2. InOrder(s, n)' /\ n \in Nat /\ delivered'[s] = Numbers(n)
      BY <1>4, <1>5, <3>1 DEF InOrder
    <3> QED
      BY <1>5, <3>1, <3>2 DEF OpenInOrder, ReturnedInOrder
  <2>2. CASE outcome[s] # "open"
    <3>1. HeldBack(s) = <<>>
      BY <1>1, <2>2 DEF StreamInv, NothingAfterEnd
    <3>2. delivered'[s] = delivered[s]
      BY <1>1, <1>3, <3>1, StreamTypes, ConcatEmptySeq
    <3> QED
      BY <1>1, <1>5, <2>2, <3>2 DEF StreamInv, OpenInOrder, ReturnedInOrder
  <2> QED
    BY <2>1, <2>2
<1> QED
  BY <1>1, <1>2, <1>5, <1>6 DEF StreamInv, NothingAfterEnd, BoundedChannel, Unstarted

\* What a call takes out of the channel is the next message, or the end when
\* there is nothing else left and the reader task is gone.
LEMMA TakeHead ==
  ASSUME DeliveryInv, NEW s \in Streams, outcome[s] = "open", response_receiver[s] # <<>>,
         NEW n \in 0..received[s], InOrder(s, n)
  PROVE  \/ /\ n < received[s]
            /\ Head(response_receiver[s]) = Message(n + 1)
            /\ \/ ~ServerDone(s) /\ Tail(InFlight(s)) = Messages(n + 1, received[s])
               \/ /\ ServerDone(s)
                  /\ \E e \in Ends : Tail(InFlight(s)) = Append(Messages(n + 1, received[s]), Terminal(e))
         \/ /\ n = received[s]
            /\ Head(response_receiver[s]).event \in Ends
            /\ Tail(response_receiver[s]) = <<>>
            /\ task[s] = "done"
<1> DEFINE rr == response_receiver[s]
           pushing == IF task[s] = "sending" THEN <<response[s]>> ELSE <<>>
<1>1. /\ TypeOK /\ rr \in Seq(Event) /\ rr # <<>> /\ n \in Nat /\ received[s] \in Nat
      /\ n <= received[s] /\ received[s] <= MaxMessages
  BY StreamTypes DEF DeliveryInv
<1>2. pushing \in Seq(Event) /\ (task[s] = "sending" => pushing # <<>>)
  BY <1>1, StreamTypes, ConcatOne, EmptySeq
<1>3. InFlight(s) = rr \o pushing
  BY DEF InFlight
<1> HIDE DEF pushing
<1> HIDE DEF rr
<1>4. /\ InFlight(s) # <<>> /\ Head(InFlight(s)) = Head(rr)
      /\ Tail(InFlight(s)) = Tail(rr) \o pushing
  BY <1>1, <1>2, <1>3, HeadTailConcat
<1>5. n < received[s] => /\ Messages(n, received[s]) # <<>>
                         /\ Head(Messages(n, received[s])) = Message(n + 1)
                         /\ Tail(Messages(n, received[s])) = Messages(n + 1, received[s])
  BY <1>1, MessagesFacts
<1>6. /\ Messages(n, received[s]) \in Seq(Event)
      /\ n = received[s] => Messages(n, received[s]) = <<>>
  BY <1>1, MessagesFacts
<1>7. CASE ~ServerDone(s)
  <2>1. InFlight(s) = Messages(n, received[s])
    BY <1>7 DEF InOrder
  <2>2. n < received[s]
    BY <1>1, <1>4, <1>6, <2>1
  <2> QED
    BY <1>4, <1>5, <1>7, <2>1, <2>2 DEF rr
<1>8. CASE ServerDone(s)
  <2>1. PICK e \in Ends : InFlight(s) = Append(Messages(n, received[s]), Terminal(e))
    BY <1>8 DEF InOrder
  <2>2. CASE n < received[s]
    <3>1. /\ Head(InFlight(s)) = Message(n + 1)
          /\ Tail(InFlight(s)) = Append(Messages(n + 1, received[s]), Terminal(e))
      BY <1>5, <1>6, <2>1, <2>2, HeadTailAppend
    <3> QED
      BY <1>4, <1>8, <2>2, <3>1 DEF rr
  <2>3. CASE n = received[s]
    <3>1. Head(InFlight(s)) = Terminal(e) /\ Tail(InFlight(s)) = <<>>
      BY <1>6, <2>1, <2>3, HeadTailAppend
    <3>2. Tail(rr) \in Seq(Event)
      BY <1>1, HeadTailProperties
    <3>3. Tail(rr) = <<>> /\ pushing = <<>>
      <4>1. Tail(rr) \o pushing = <<>>
        BY <1>4, <3>1
      <4> QED
        BY <1>2, <3>2, <4>1, ConcatEqualIffEmpty
    <3>4. task[s] = "done"
      BY <1>2, <1>8, <3>3 DEF ServerDone
    <3>5. Head(rr).event \in Ends
      BY <1>4, <3>1 DEF Terminal
    <3> QED
      BY <2>3, <3>3, <3>4, <3>5 DEF rr
  <2> QED
    BY <1>1, <2>2, <2>3
<1> QED
  BY <1>7, <1>8

\* A received event leaves the rest in flight.
LEMMA ReceiveFacts ==
  ASSUME DeliveryInv, NEW s \in Streams, NEW r \in Readers, NEW events, Receives(r, s, events)
  PROVE  /\ TypeOK /\ CallsInv /\ StreamInv(s) /\ HoldsReceiver(r, s)
         /\ outcome[s] = "open" /\ response_receiver[s] # <<>>
         /\ response_receiver'[s] = Tail(response_receiver[s])
         /\ Len(response_receiver'[s]) <= STREAM_CAPACITY
         /\ (ServerDone(s)' <=> ServerDone(s)) /\ InFlight(s)' = Tail(InFlight(s))
         /\ HeldBack(s) = call[r].batch.messages
<1>1. /\ TypeOK /\ CallsInv /\ StreamInv(s) /\ HoldsReceiver(r, s)
      /\ response_receiver[s] # <<>> /\ response_receiver[s] \in Seq(Event)
      /\ response_receiver'[s] = Tail(response_receiver[s])
  BY StreamTypes DEF DeliveryInv, Receives, TypeOK
<1>2. outcome[s] = "open"
  BY <1>1 DEF StreamInv, NothingAfterEnd
<1>3. Len(response_receiver'[s]) <= STREAM_CAPACITY
  <2>1. Len(Tail(response_receiver[s])) = Len(response_receiver[s]) - 1
    BY <1>1, HeadTailProperties
  <2> QED
    BY <1>1, <2>1, StreamTypes, StreamAssumption DEF StreamInv, BoundedChannel
<1>4. ServerDone(s)' <=> ServerDone(s)
  BY DEF Receives, ServerDone
<1>5. InFlight(s)' = Tail(InFlight(s))
  <2> DEFINE pushing == IF task[s] = "sending" THEN <<response[s]>> ELSE <<>>
  <2>1. pushing \in Seq(Event)
    BY <1>1, StreamTypes, ConcatOne, EmptySeq
  <2>2. InFlight(s) = response_receiver[s] \o pushing
        /\ InFlight(s)' = Tail(response_receiver[s]) \o pushing
    BY <1>1 DEF InFlight, Receives
  <2> HIDE DEF pushing
  <2> QED
    BY <1>1, <2>1, <2>2, HeadTailConcat
<1> QED
  BY <1>1, <1>2, <1>3, <1>4, <1>5, HeldBackIs

\* A message comes after those that were taken before.
LEMMA ReceiveMessageDelivery ==
  ASSUME DeliveryInv, CallsInv', NEW s \in Streams, NEW r \in Readers, ReceiveMessage(r, s)
  PROVE  StreamInv(s)'
<1> DEFINE number == Head(response_receiver[s]).number
           batch == Extend(call[r].batch, number)
<1>1. Receives(r, s, {"Message"}) /\ Head(response_receiver[s]).event = "Message"
  BY DEF ReceiveMessage, Receives
<1>2. /\ TypeOK /\ CallsInv /\ StreamInv(s) /\ HoldsReceiver(r, s) /\ outcome[s] = "open"
      /\ response_receiver[s] # <<>> /\ HeldBack(s) = call[r].batch.messages
      /\ (ServerDone(s)' <=> ServerDone(s)) /\ InFlight(s)' = Tail(InFlight(s))
      /\ BoundedChannel(s)'
  BY <1>1, ReceiveFacts DEF BoundedChannel
<1>3. PICK n \in 0..received[s] : InOrder(s, n)
  BY <1>2 DEF StreamInv, OpenInOrder
<1>4. /\ n < received[s] /\ number = n + 1 /\ n \in Nat /\ received[s] \in Nat
      /\ \/ ~ServerDone(s) /\ Tail(InFlight(s)) = Messages(n + 1, received[s])
         \/ /\ ServerDone(s)
            /\ \E e \in Ends : Tail(InFlight(s)) = Append(Messages(n + 1, received[s]), Terminal(e))
  <2>1. n \in Nat /\ received[s] \in Nat
    BY <1>2, StreamTypes
  <2>2. \A e \in Ends : e # "Message"
    BY DEF Ends
  <2>3. ~(Head(response_receiver[s]).event \in Ends)
    BY <1>1, <2>2
  <2>4. /\ n < received[s] /\ Head(response_receiver[s]) = Message(n + 1)
        /\ \/ ~ServerDone(s) /\ Tail(InFlight(s)) = Messages(n + 1, received[s])
           \/ /\ ServerDone(s)
              /\ \E e \in Ends : Tail(InFlight(s)) = Append(Messages(n + 1, received[s]), Terminal(e))
    BY <1>2, <1>3, <2>3, TakeHead
  <2>5. number = n + 1
    BY <2>4 DEF Message
  <2> QED
    BY <2>1, <2>4, <2>5
<1>5. batch.messages = Append(HeldBack(s), n + 1)
  BY <1>2, <1>4 DEF Extend
<1>6. UNCHANGED <<next_stream_id, task, response, received, server_streams, outcome>>
  BY DEF ReceiveMessage, Receives
<1>7. /\ delivered[s] \in Seq(Nat) /\ HeldBack(s) \in Seq(Nat)
      /\ delivered \in [Streams -> Seq(1..MaxMessages)]
  <2>1. HeldBack(s) \in Seq(1..MaxMessages) /\ 1..MaxMessages \subseteq Nat
    BY <1>2, HeldBackType, StreamAssumption
  <2> QED
    BY <1>2, <2>1, StreamTypes, SeqMonotonic DEF TypeOK
<1>8. delivered[s] \o Append(HeldBack(s), n + 1) = Numbers(n + 1)
  <2>1. /\ <<n + 1>> \in Seq(Nat) /\ Append(HeldBack(s), n + 1) = HeldBack(s) \o <<n + 1>>
        /\ Taken(s) \in Seq(Nat) /\ Taken(s) = Numbers(n)
    <3>1. n + 1 \in Nat
      BY <1>4
    <3>2. <<n + 1>> \in Seq(Nat) /\ Append(HeldBack(s), n + 1) = HeldBack(s) \o <<n + 1>>
      BY <1>7, <3>1, ConcatOne
    <3>3. Taken(s) = Numbers(n)
      BY <1>3 DEF InOrder
    <3>4. Numbers(n) \in Seq(Nat)
      BY <1>4, NumbersFacts
    <3> QED
      BY <3>2, <3>3, <3>4
  <2>2. delivered[s] \o (HeldBack(s) \o <<n + 1>>) = Taken(s) \o <<n + 1>>
    BY <1>7, <2>1, ConcatAssociative DEF Taken
  <2>3. Taken(s) \o <<n + 1>> = Append(Taken(s), n + 1)
    BY <1>4, <2>1, ConcatOne
  <2> QED
    BY <1>4, <2>1, <2>2, <2>3, NumbersFacts
<1>9. Taken(s)' = Numbers(n + 1) /\ (delivered'[s] = delivered[s] \/ delivered'[s] = Numbers(n + 1))
  <2> HIDE DEF number, batch
  <2>1. CASE call' = [call EXCEPT ![r].batch = batch] /\ UNCHANGED delivered
    <3>1. HeldBack(s)' = batch.messages
      BY <1>2, <2>1, HeldBackSteps
    <3> QED
      BY <1>5, <1>8, <2>1, <3>1 DEF Taken
  <2>2. CASE ReturnBatch(r, s, batch)
    <3>1. HeldBack(s)' = <<>>
      BY <1>2, <2>2, HeldBackSteps DEF ReturnBatch
    <3>2. delivered'[s] = Numbers(n + 1)
      BY <1>5, <1>7, <1>8, <2>2 DEF ReturnBatch
    <3>3. Numbers(n + 1) \in Seq(Nat)
      BY <1>4, NumbersFacts
    <3> QED
      BY <3>1, <3>2, <3>3, ConcatEmptySeq DEF Taken
  <2> QED
    BY <2>1, <2>2 DEF ReceiveMessage, batch, number
<1>10. n + 1 \in 0..received'[s] /\ InOrder(s, n + 1)'
  BY <1>2, <1>4, <1>6, <1>9 DEF InOrder
<1>11. OpenInOrder(s)' /\ ReturnedInOrder(s)'
  BY <1>2, <1>4, <1>9, <1>10 DEF OpenInOrder, StreamInv, ReturnedInOrder
<1> QED
  BY <1>2, <1>6, <1>11 DEF StreamInv, NothingAfterEnd, Unstarted

\* The end comes when everything else was taken, with what was held back; a
\* failure leaves what was returned before.
LEMMA ReceiveLastDelivery ==
  ASSUME DeliveryInv, CallsInv', NEW s \in Streams, NEW r \in Readers,
         ReceiveEnd(r, s) \/ ReceiveFailure(r, s)
  PROVE  /\ StreamInv(s)'
         /\ outcome[s] = "open"
         /\ ReceiveEnd(r, s) => delivered'[s] = Numbers(received[s])
         /\ ReceiveFailure(r, s) => delivered'[s] = delivered[s]
<1>1. /\ \E events \in SUBSET Ends : Receives(r, s, events)
      /\ Head(response_receiver[s]).event \in Ends
  BY DEF ReceiveEnd, ReceiveFailure, Receives, Ends
<1>2. /\ TypeOK /\ CallsInv /\ StreamInv(s) /\ HoldsReceiver(r, s) /\ outcome[s] = "open"
      /\ response_receiver[s] # <<>> /\ HeldBack(s) = call[r].batch.messages
      /\ response_receiver'[s] = Tail(response_receiver[s]) /\ BoundedChannel(s)'
  BY <1>1, ReceiveFacts DEF BoundedChannel
<1>3. PICK n \in 0..received[s] : InOrder(s, n)
  BY <1>2 DEF StreamInv, OpenInOrder
<1>4. n = received[s] /\ n \in Nat /\ response_receiver'[s] = <<>> /\ task'[s] = "done"
  <2>1. n \in Nat
    BY <1>2, StreamTypes
  <2>2. \A k : Message(k).event \notin Ends
    BY DEF Message, Ends
  <2>3. Head(response_receiver[s]) # Message(n + 1)
    BY <1>1, <2>2
  <2>4. n = received[s] /\ Tail(response_receiver[s]) = <<>> /\ task[s] = "done"
    BY <1>2, <1>3, <2>3, TakeHead
  <2> QED
    BY <1>1, <1>2, <2>1, <2>4 DEF Receives
<1>5. HeldBack(s)' = <<>>
  BY <1>2, HeldBackSteps DEF ReceiveEnd, ReceiveFailure, ReturnBatch
<1>6. /\ outcome'[s] # "open" /\ s \notin server_streams' /\ UNCHANGED <<next_stream_id, task>>
  BY <1>1, <1>2 DEF ReceiveEnd, ReceiveFailure, Receives, TypeOK
<1>7. ReceiveEnd(r, s) => delivered'[s] = Numbers(received[s])
  BY <1>2, <1>3, <1>4 DEF ReceiveEnd, ReturnBatch, InOrder, Taken, TypeOK
<1>8. ReceiveFailure(r, s) => delivered'[s] = delivered[s]
  <2>1. delivered[s] \o <<>> = delivered[s] /\ delivered \in [Streams -> Seq(1..MaxMessages)]
    BY <1>2, StreamTypes, ConcatEmptySeq DEF TypeOK
  <2> QED
    BY <2>1 DEF ReceiveFailure, ReturnBatch, EmptyBatch
<1>9. ReturnedInOrder(s)'
  BY <1>2, <1>4, <1>7, <1>8 DEF ReturnedInOrder, StreamInv
<1>10. StreamInv(s)'
  BY <1>2, <1>4, <1>5, <1>6, <1>9 DEF StreamInv, OpenInOrder, NothingAfterEnd, Unstarted
<1> QED
  BY <1>2, <1>7, <1>8, <1>10

-----------------------------------------------------------------------------
LEMMA NextDelivery == DeliveryInv /\ [Next]_vars => DeliveryInv'
<1> SUFFICES ASSUME DeliveryInv, [Next]_vars PROVE DeliveryInv'
  OBVIOUS
<1>1. TypeOK' /\ CallsInv'
  BY NextType, NextCalls DEF DeliveryInv
<1> SUFFICES ASSUME NEW m \in Streams PROVE StreamInv(m)'
  BY <1>1 DEF DeliveryInv
<1>2. CASE UNCHANGED vars
  BY <1>2, UnchangedHeldBack, Unaffected DEF vars, DeliveryInv
<1>3. ASSUME NEW s \in Streams, StartServerStream(s) PROVE StreamInv(m)'
  BY <1>3, StartDelivery
<1>4. ASSUME NEW s \in Streams, ReaderTask(s) PROVE StreamInv(m)'
  BY <1>4, ReaderTaskDelivery
<1>5. ASSUME NEW s \in Streams, NEW r \in Readers, ReadServerStream(r, s) \/ ReadCall(r, s)
      PROVE  StreamInv(m)'
  <2>1. CASE m # s
    BY <1>1, <1>5, <2>1, OtherStreams
  <2>2. CASE m = s
    BY <1>1, <1>5, <2>2, WaitingDelivery, TimeoutDelivery, ReceiveMessageDelivery, ReceiveLastDelivery
    DEF ReadCall
  <2> QED
    BY <2>1, <2>2
<1>6. ASSUME NEW s \in Streams, DestroyServerStream(s) PROVE StreamInv(m)'
  BY <1>6, UnchangedHeldBack, Unaffected DEF DestroyServerStream, DeliveryInv
<1> QED
  BY <1>2, <1>3, <1>4, <1>5, <1>6 DEF Next

LEMMA DeliveryCorrect == Spec => []DeliveryInv
BY InitDelivery, NextDelivery, PTL DEF Spec

(***************************************************************************)
(* Overlapping read calls, timeouts and destroyed streams lose, repeat and *)
(* reorder no message of a stream whose end was not reported yet.          *)
(***************************************************************************)
THEOREM NothingLost == Spec => []NothingLostOrRepeated
<1>1. DeliveryInv => NothingLostOrRepeated
  <2> SUFFICES ASSUME DeliveryInv, NEW s \in Streams, outcome[s] = "open"
               PROVE  /\ Len(Taken(s)) <= received[s]
                      /\ \A i \in 1..Len(Taken(s)) : Taken(s)[i] = i
                      /\ IF ServerDone(s)
                         THEN \E e \in Ends :
                                InFlight(s) = Append(Messages(Len(Taken(s)), received[s]), Terminal(e))
                         ELSE InFlight(s) = Messages(Len(Taken(s)), received[s])
    BY DEF NothingLostOrRepeated, Taken
  <2>1. PICK n \in 0..received[s] : InOrder(s, n)
    BY DEF DeliveryInv, StreamInv, OpenInOrder
  <2>2. Len(Taken(s)) = n /\ n \in Nat /\ \A i \in 1..n : Taken(s)[i] = i
    <3>1. received[s] \in Nat
      BY StreamTypes DEF DeliveryInv
    <3>2. n \in Nat
      BY <3>1
    <3>3. Taken(s) = Numbers(n)
      BY <2>1 DEF InOrder
    <3> QED
      BY <3>2, <3>3, NumbersFacts
  <2>3. n <= received[s]
    BY StreamTypes DEF DeliveryInv
  <2> QED
    BY <2>1, <2>2, <2>3 DEF InOrder
<1> QED
  BY <1>1, DeliveryCorrect, PTL

(***************************************************************************)
(* Nothing is left of a stream once a read call reported its end.          *)
(***************************************************************************)
THEOREM EndIsLastEvent == Spec => []EndIsLast
<1>1. DeliveryInv => EndIsLast
  BY DEF DeliveryInv, StreamInv, NothingAfterEnd, EndIsLast
<1> QED
  BY <1>1, DeliveryCorrect, PTL

(***************************************************************************)
(* The server is at most one response ahead of the channel.                *)
(***************************************************************************)
THEOREM BufferingBounded == Spec => []Backpressure
<1>1. DeliveryInv => Backpressure
  <2> SUFFICES ASSUME DeliveryInv, NEW s \in Streams PROVE Len(InFlight(s)) <= STREAM_CAPACITY + 1
    BY DEF Backpressure
  <2>1. /\ response_receiver[s] \in Seq(Event) /\ response[s] \in Event
        /\ Len(response_receiver[s]) <= STREAM_CAPACITY
        /\ Len(response_receiver[s]) \in Nat /\ STREAM_CAPACITY \in Nat
    BY StreamTypes, StreamAssumption DEF DeliveryInv, StreamInv, BoundedChannel
  <2>2. CASE task[s] = "sending"
    <3>1. InFlight(s) = response_receiver[s] \o <<response[s]>>
      BY <2>2 DEF InFlight
    <3>2. InFlight(s) = Append(response_receiver[s], response[s])
      BY <2>1, <3>1, ConcatOne
    <3>3. Len(InFlight(s)) = Len(response_receiver[s]) + 1
      BY <2>1, <3>2, AppendProperties
    <3> QED
      BY <2>1, <3>3
  <2>3. CASE task[s] # "sending"
    <3>1. InFlight(s) = response_receiver[s] \o <<>>
      BY <2>3 DEF InFlight
    <3>2. InFlight(s) = response_receiver[s]
      BY <2>1, <3>1, ConcatEmptySeq
    <3> QED
      BY <2>1, <3>2
  <2> QED
    BY <2>2, <2>3
<1> QED
  BY <1>1, DeliveryCorrect, PTL

-----------------------------------------------------------------------------
(***************************************************************************)
(* The refinement of StreamDelivery.  Steps of the reader task other than  *)
(* a message, locking and destroying a stream are invisible to a client.   *)
(***************************************************************************)
LEMMA InitPromise == Init => Promise!Init
BY DEF Init, Promise!Init

\* What read calls returned of an open stream, before and after a step.
LEMMA ReturnedFirst ==
  ASSUME DeliveryInv, NEW s \in Streams, outcome[s] = "open"
  PROVE  /\ Len(delivered[s]) \in 0..received[s]
         /\ delivered[s] = Numbers(Len(delivered[s]))
<1>1. PICK n \in 0..received[s] : Taken(s) = Numbers(n)
  BY DEF DeliveryInv, StreamInv, OpenInOrder, InOrder
<1>2. HeldBack(s) \in Seq(Nat)
  <2>1. HeldBack(s) \in Seq(1..MaxMessages) /\ 1..MaxMessages \subseteq Nat
    BY HeldBackType, StreamAssumption DEF DeliveryInv
  <2> QED
    BY <2>1, SeqMonotonic
<1>3. received[s] \in Nat /\ delivered[s] \in Seq(Nat)
  BY StreamTypes DEF DeliveryInv
<1>4. n \in Nat /\ n <= received[s]
  BY <1>3
<1>5. Len(delivered[s]) \in 0..n /\ delivered[s] = Numbers(Len(delivered[s]))
  BY <1>1, <1>2, <1>3, <1>4, NumbersPrefix DEF Taken
<1> QED
  BY <1>3, <1>4, <1>5

ReturnedIsFirst ==
  \A s \in Streams : outcome[s] = "open" =>
    /\ Len(delivered[s]) \in 0..received[s]
    /\ delivered[s] = Numbers(Len(delivered[s]))

LEMMA ReturnedFirstNext == DeliveryInv' => ReturnedIsFirst'
<1>1. DeliveryInv => ReturnedIsFirst
  BY ReturnedFirst DEF ReturnedIsFirst
<1> QED
  BY <1>1, PTL

\* A batch that is returned before the end of the stream.
LEMMA BatchIsReturn ==
  ASSUME DeliveryInv, DeliveryInv', NEW s \in Streams, NEW u \in Seq(Nat),
         outcome[s] = "open" \/ u = <<>>,
         UNCHANGED <<received, outcome>>,
         delivered' = [delivered EXCEPT ![s] = @ \o u]
  PROVE  Promise!Return(s) \/ UNCHANGED <<received, delivered, outcome>>
<1>1. /\ delivered \in [Streams -> Seq(1..MaxMessages)] /\ delivered[s] \in Seq(Nat)
      /\ received[s] \in Nat
  BY StreamTypes DEF DeliveryInv, TypeOK
<1>2. Len(delivered'[s]) = Len(delivered[s]) + Len(u) /\ Len(delivered[s]) \in Nat /\ Len(u) \in Nat
  BY <1>1, ConcatProperties, LenProperties
<1>3. CASE u = <<>>
  <2>1. delivered[s] \o u = delivered[s]
    BY <1>1, <1>3, ConcatEmptySeq
  <2> QED
    BY <1>1, <2>1
<1>4. CASE u # <<>>
  <2>1. Len(u) > 0
    BY <1>2, <1>4, EmptySeq
  <2>2. Len(delivered'[s]) \in 0..received[s] /\ delivered'[s] = Numbers(Len(delivered'[s]))
    BY <1>4, ReturnedFirstNext DEF ReturnedIsFirst
  <2>3. Len(delivered'[s]) \in (Len(delivered[s]) + 1)..received[s]
    BY <1>1, <1>2, <2>1, <2>2
  <2>4. delivered' = [delivered EXCEPT ![s] = Promise!FirstMessages(Len(delivered'[s]))]
    BY <1>1, <2>2 DEF Numbers, Promise!FirstMessages
  <2> QED
    BY <1>4, <2>3, <2>4 DEF Promise!Return
<1> QED
  BY <1>3, <1>4

LEMMA ReadCallPromise ==
  ASSUME DeliveryInv, DeliveryInv', NEW s \in Streams, NEW r \in Readers, ReadCall(r, s)
  PROVE  \/ Promise!Return(s) \/ Promise!Finish(s) \/ Promise!Fail(s)
         \/ UNCHANGED <<received, delivered, outcome>>
<1>1. TypeOK /\ CallsInv /\ StreamInv(s) /\ CallsInv'
  BY DEF DeliveryInv
<1>2. HeldBack(s) \in Seq(Nat) /\ 1..MaxMessages \subseteq Nat
  <2>1. HeldBack(s) \in Seq(1..MaxMessages) /\ 1..MaxMessages \subseteq Nat
    BY <1>1, HeldBackType, StreamAssumption
  <2> QED
    BY <2>1, SeqMonotonic
<1>3. CASE LockReceiver(r, s)
  BY <1>3 DEF LockReceiver
<1>4. CASE ReceiveMessage(r, s)
  <2> DEFINE number == Head(response_receiver[s]).number
             batch == Extend(call[r].batch, number)
  <2>1. /\ outcome[s] = "open" /\ HeldBack(s) = call[r].batch.messages
    BY <1>4, ReceiveFacts DEF ReceiveMessage
  <2>2. number \in Nat
    <3>1. response_receiver[s] \in Seq(Event) /\ response_receiver[s] # <<>>
      BY <1>1, <1>4, StreamTypes DEF ReceiveMessage, Receives
    <3>2. Head(response_receiver[s]) \in Event
      BY <3>1, HeadTailProperties
    <3> QED
      BY <1>2, <3>2 DEF Event, Message, Terminal
  <2>3. batch.messages \in Seq(Nat)
    <3>1. Append(HeldBack(s), number) \in Seq(Nat)
      BY <1>2, <2>2, AppendProperties
    <3> QED
      BY <2>1, <3>1 DEF Extend
  <2>4. UNCHANGED <<received, outcome>>
    BY <1>4 DEF ReceiveMessage, Receives
  <2>5. CASE ReturnBatch(r, s, batch)
    <3>1. delivered' = [delivered EXCEPT ![s] = @ \o batch.messages]
      BY <2>5 DEF ReturnBatch
    <3> HIDE DEF batch
    <3> QED
      BY <2>1, <2>3, <2>4, <3>1, BatchIsReturn
  <2>6. CASE UNCHANGED delivered
    BY <2>4, <2>6
  <2> QED
    BY <1>4, <2>5, <2>6 DEF ReceiveMessage
<1>5. CASE ReceiveEnd(r, s)
  <2>1. outcome[s] = "open" /\ delivered'[s] = Numbers(received[s])
    BY <1>1, <1>5, ReceiveLastDelivery
  <2>2. /\ delivered' = [delivered EXCEPT ![s] = delivered'[s]]
        /\ outcome' = [outcome EXCEPT ![s] = "finished"] /\ UNCHANGED received
    BY <1>1, <1>5 DEF ReceiveEnd, ReturnBatch, Receives, TypeOK
  <2> QED
    BY <2>1, <2>2 DEF Promise!Finish, Promise!FirstMessages, Numbers
<1>6. CASE ReceiveFailure(r, s)
  <2>1. outcome[s] = "open" /\ delivered'[s] = delivered[s]
    BY <1>1, <1>6, ReceiveLastDelivery
  <2>2. UNCHANGED delivered
    BY <1>1, <1>6, <2>1 DEF ReceiveFailure, ReturnBatch, TypeOK
  <2> QED
    BY <1>6, <2>1, <2>2 DEF Promise!Fail, ReceiveFailure, Receives
<1>7. CASE ReadTimesOut(r, s) \/ FlushAfterTimeout(r, s)
  <2>1. HoldsReceiver(r, s) /\ HeldBack(s) = call[r].batch.messages
    BY <1>1, <1>7, HeldBackIs DEF ReadTimesOut, FlushAfterTimeout
  <2>2. delivered' = [delivered EXCEPT ![s] = @ \o HeldBack(s)] /\ UNCHANGED <<received, outcome>>
    BY <1>7, <2>1 DEF ReadTimesOut, FlushAfterTimeout, ReturnBatch
  <2>3. outcome[s] = "open" \/ HeldBack(s) = <<>>
    BY <1>1 DEF StreamInv, NothingAfterEnd
  <2> QED
    BY <1>2, <2>2, <2>3, BatchIsReturn
<1> QED
  BY <1>3, <1>4, <1>5, <1>6, <1>7 DEF ReadCall

LEMMA NextPromise == DeliveryInv /\ DeliveryInv' /\ [Next]_vars => [Promise!Next]_(Promise!vars)
<1> SUFFICES ASSUME DeliveryInv, DeliveryInv', [Next]_vars
             PROVE  Promise!Next \/ UNCHANGED <<received, delivered, outcome>>
  BY DEF Promise!vars
<1>1. CASE UNCHANGED vars
  BY <1>1 DEF vars
<1>2. ASSUME NEW s \in Streams, ReadMessage(s) PROVE Promise!Send(s)
  <2>1. outcome[s] = "open"
    BY <1>2 DEF ReadMessage, DeliveryInv, StreamInv, NothingAfterEnd
  <2> QED
    BY <1>2, <2>1 DEF ReadMessage, Promise!Send
<1>3. ASSUME NEW s \in Streams,
             \/ StartServerStream(s) \/ DestroyServerStream(s) \/ PushResponse(s)
             \/ \E e \in Ends : ReadEnd(s, e)
             \/ \E r \in Readers : ReadServerStream(r, s)
      PROVE  UNCHANGED <<received, delivered, outcome>>
  BY <1>3 DEF StartServerStream, DestroyServerStream, PushResponse, ReadEnd, ReadServerStream
<1> QED
  BY <1>1, <1>2, <1>3, ReadCallPromise DEF Next, ReaderTask, Promise!Next

(***************************************************************************)
(* Read calls return the messages of a stream in order and once, the end   *)
(* after all of them, and nothing after the end or a failure.              *)
(***************************************************************************)
THEOREM DeliversInOrder == Spec => ImplementsStreamDelivery
<1>1. Init => Promise!Init
  BY InitPromise
<1>2. DeliveryInv /\ DeliveryInv' /\ [Next]_vars => [Promise!Next]_(Promise!vars)
  BY NextPromise
<1> QED
  BY <1>1, <1>2, DeliveryCorrect, PTL DEF Spec, Promise!Spec, ImplementsStreamDelivery
===========================================================================
