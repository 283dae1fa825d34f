--------------------------- MODULE StreamDelivery ---------------------------
(***************************************************************************)
(* What reading a server stream promises to a client, whatever the number  *)
(* of its read calls: the messages of the server arrive in their order,    *)
(* each of them once, the end is reported after all of them and nothing    *)
(* arrives after the end or after a failure.                               *)
(***************************************************************************)
EXTENDS Naturals, Sequences

CONSTANT Streams

VARIABLES
  sent,   \* the number of messages of the server, which are numbered
  read,   \* the messages that were returned
  status  \* the outcome that was returned

vars == <<sent, read, status>>

FirstMessages(n) == [i \in 1..n |-> i]

Init ==
  /\ sent = [s \in Streams |-> 0]
  /\ read = [s \in Streams |-> <<>>]
  /\ status = [s \in Streams |-> "open"]

Send(s) ==
  /\ status[s] = "open"
  /\ sent' = [sent EXCEPT ![s] = @ + 1]
  /\ UNCHANGED <<read, status>>

Return(s) ==
  /\ status[s] = "open"
  /\ \E n \in Len(read[s]) + 1 .. sent[s] : read' = [read EXCEPT ![s] = FirstMessages(n)]
  /\ UNCHANGED <<sent, status>>

Finish(s) ==
  /\ status[s] = "open"
  /\ read' = [read EXCEPT ![s] = FirstMessages(sent[s])]
  /\ status' = [status EXCEPT ![s] = "finished"]
  /\ UNCHANGED sent

Fail(s) ==
  /\ status[s] = "open"
  /\ status' = [status EXCEPT ![s] = "failed"]
  /\ UNCHANGED <<sent, read>>

Next == \E s \in Streams : Send(s) \/ Return(s) \/ Finish(s) \/ Fail(s)

Spec == Init /\ [][Next]_vars
=============================================================================
