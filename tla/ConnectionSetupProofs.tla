----------------------- MODULE ConnectionSetupProofs -----------------------
(***************************************************************************)
(* Theorems about the setups of connections, for any connectors and links  *)
(* and any number of setups and links.                                     *)
(***************************************************************************)
EXTENDS ConnectionSetup, SequenceTheorems, WellFoundedInduction, TLAPS

-----------------------------------------------------------------------------
(***************************************************************************)
(* Types.  Only three connectors are set up; a setup of a kind runs on the *)
(* connection of that kind.                                                *)
(***************************************************************************)
Kinds == {"hyper", "salesforce", "trino"}
LoginAwaits == {"pkce", "sleep", "oauth", "core", "dc"}

Details ==
  [status : ConnectionStatus, channel : Nat, setupError : BOOLEAN,
   channelError : BOOLEAN, healthError : BOOLEAN]

Setup ==
  [kind : Kinds, conn : Kinds, owner : Nat, pc : Awaits \cup Ended, aborted : BOOLEAN,
   window : BOOLEAN, code : Nat]

Page ==
  [inst : Nat, conn : Connectors \cup {Unknown}, params : Kinds \cup {Unknown},
   target : Connectors \cup {Unknown}, busy : BOOLEAN, ctl : Nat, auto : BOOLEAN, timer : BOOLEAN]

Gate ==
  [decision : {"UNDECIDED", "SHOW_CONNECTION_SETUP", "SETUP_DONE", "UNMOUNTED"},
   aborted : BOOLEAN, ready : BOOLEAN, rejected : BOOLEAN, pending : Seq(Links), page : Page]

Listener == [oauth : Nat, subscribed : BOOLEAN, queued : Seq(Links)]

SetupOK(t) ==
  /\ t \in Setup
  /\ t.kind = t.conn /\ t.conn \in Connectors
  /\ t.pc \in LoginAwaits => t.kind = "salesforce"
  /\ t.pc = "connect" => t.kind # "trino"

TypesOK ==
  /\ conn \in [Connectors -> Details]
  /\ setups \in Seq(Setup) /\ \A s \in DOMAIN setups : SetupOK(setups[s])
  /\ listener \in Listener
  /\ gate \in Gate
  /\ settings \in [CONNECTOR_TABS -> Nat]
  /\ links \in Seq(Links)
  /\ raced \subseteq Connectors

(***************************************************************************)
(* A connection that was not reset under a setup: at most one setup runs,  *)
(* the status is one of it, no error is left of an earlier one, and the    *)
(* channel whose health it checks is its own.  d is the state of           *)
(* connection c, S are the setups.                                         *)
(***************************************************************************)
Flying(S, c) == {s \in DOMAIN S : S[s].conn = c /\ S[s].pc \notin Ended}
ShowsError(d) == d.channelError \/ d.healthError
Online(d) == d.status = "HEALTH_CHECK_SUCCEEDED"

Alone(S, c) == \A s, t \in Flying(S, c) : s = t
Led(d, S, c) == \A s \in Flying(S, c) :
  /\ d.status \in Connecting
  /\ ~ShowsError(d)
  /\ S[s].pc = "health" => d.channel = s
Checked(d, S, c) ==
  Online(d) /\ c # "demo" => d.channel \in DOMAIN S /\ S[d.channel].pc = "succeeded"
Current(d, c) ==
  ShowsError(d) =>
    /\ c \in Kinds
    /\ d.status \in Failed \cup Cancelled \/ (c = "trino" /\ d.status = "NOT_STARTED")

ConnectionOK(d, S, c) == Alone(S, c) /\ Led(d, S, c) /\ Checked(d, S, c) /\ Current(d, c)

\* Whatever the links do, a connection that is connecting has a setup.
Drives(t) == t.pc \notin Ended \/ (t.pc = "silent" /\ t.aborted)
Driven(d, S, c) == d.status \in Connecting => \E s \in DOMAIN S : S[s].conn = c /\ Drives(S[s])

(***************************************************************************)
(* The page: it is busy as long as the setup that it started runs, and no  *)
(* other setup runs on the connections that it knows.                      *)
(***************************************************************************)
Owned(S, i) == {s \in DOMAIN S : S[s].owner = i /\ S[s].pc \notin Ended}

PageOK(p, S, r) ==
  /\ p.conn \in Connectors /\ p.target \in Connectors /\ p.params \in Kinds
  /\ \A s, t \in Owned(S, p.inst) : s = t
  /\ Owned(S, p.inst) # {} => p.busy
  /\ \A c \in {p.conn, p.target} \ r : Flying(S, c) \subseteq Owned(S, p.inst)

GateOK(g, S, l, e) ==
  /\ ~g.ready => S = <<>> /\ g.decision = "UNDECIDED"
  /\ g.aborted => l # <<>>
  /\ e.queued # <<>> => l # <<>>
  /\ g.decision = "SHOW_CONNECTION_SETUP" <=> g.page.inst # None
  /\ g.page.inst <= Len(l)
  /\ \A s \in DOMAIN S : S[s].owner <= Len(l)

\* The subscriber to the redirect waits for it.
ListenerOK(e, S) == e.oauth # None => e.oauth \in DOMAIN S /\ S[e.oauth].pc = "oauth"

SetupInv ==
  /\ TypesOK
  /\ \A c \in Connectors \ raced : ConnectionOK(conn[c], setups, c)
  /\ \A c \in Connectors : Driven(conn[c], setups, c)
  /\ gate.decision = "SHOW_CONNECTION_SETUP" => PageOK(gate.page, setups, raced)
  /\ GateOK(gate, setups, links, listener)
  /\ ListenerOK(listener, setups)

-----------------------------------------------------------------------------
(***************************************************************************)
(* The reducers: what an action leaves behind.                             *)
(***************************************************************************)
\* The actions that say nothing about the channel and its errors
Quiet == (Connecting \ {"CHANNEL_SETUP_STARTED", "CHANNEL_READY", "AUTH_STARTED"})
           \cup {"HEALTH_CHECK_SUCCEEDED"}

\* What an action a of setup s does to the state st of a connection of kind c
Reduced(r, st, c, a, s) ==
  /\ r \in Details
  /\ r.status = a
  /\ a \in Quiet => r.channel = st.channel /\ (ShowsError(r) => ShowsError(st))
  /\ a = "CHANNEL_READY" => r.channel = s /\ (ShowsError(r) => ShowsError(st))
  /\ a = "CHANNEL_SETUP_STARTED" => ~ShowsError(r)
  /\ a = "AUTH_STARTED" /\ c = "salesforce" => ~ShowsError(r)

LEMMA LoginReduced ==
  ASSUME NEW st \in Details, NEW a \in LoginActions, NEW s \in Nat
  PROVE  Reduced(ReduceLogin(st, a), st, "salesforce", a, s)
<1>1. a \in ConnectionStatus /\ a \notin {"CHANNEL_READY", "CHANNEL_SETUP_STARTED"}
  BY DEF LoginActions, ConnectionStatus, Connecting, Cancelled, Failed
<1>2. CASE a = "AUTH_STARTED"
  <2>1. a \notin Quiet
    BY <1>2 DEF Quiet
  <2> PICK r : r = [createDetails EXCEPT !.status = a]
    OBVIOUS
  <2>2. r \in Details /\ r.status = a /\ ~ShowsError(r)
    BY <1>1 DEF createDetails, Details, ShowsError, None
  <2> QED
    BY <1>1, <1>2, <2>1, <2>2 DEF ReduceLogin, Reduced
<1>3. CASE a \in {"AUTH_CANCELLED", "AUTH_FAILED"}
  <2>1. a \notin Quiet /\ a # "AUTH_STARTED"
    BY <1>3 DEF Quiet, Connecting
  <2> PICK r : r = [st EXCEPT !.status = a, !.setupError = TRUE]
    OBVIOUS
  <2>2. r \in Details /\ r.status = a
    BY <1>1 DEF Details
  <2>3. ReduceLogin(st, a) = r
    BY <1>3, <2>1 DEF ReduceLogin
  <2> QED
    BY <1>1, <2>1, <2>2, <2>3 DEF Reduced
<1>4. CASE a \notin {"AUTH_STARTED", "AUTH_CANCELLED", "AUTH_FAILED"}
  <2> PICK r : r = [st EXCEPT !.status = a]
    OBVIOUS
  <2>2. r \in Details /\ r.status = a /\ r.channel = st.channel /\ (ShowsError(r) => ShowsError(st))
    BY <1>1 DEF Details, ShowsError
  <2>3. ReduceLogin(st, a) = r
    BY <1>4 DEF ReduceLogin
  <2> QED
    BY <1>1, <1>4, <2>2, <2>3 DEF Reduced
<1> QED
  BY <1>2, <1>3, <1>4

LEMMA TokenReduced ==
  ASSUME NEW st \in Details, NEW c, NEW s \in Nat,
         NEW a \in ConnectionStatus \ (LoginActions \cup ChannelActions)
  PROVE  Reduced(ReduceToken(st, a), st, c, a, s)
<1>1. a \notin {"AUTH_STARTED", "CHANNEL_READY", "CHANNEL_SETUP_STARTED"}
  BY DEF LoginActions, ChannelActions
<1> QED
  BY <1>1 DEF ReduceToken, Details, ShowsError, Reduced

LEMMA ChannelReduced ==
  ASSUME NEW st \in Details, NEW c \in Kinds, NEW a \in ConnectionStatus, NEW s \in Nat,
         c = "salesforce" => a # "AUTH_STARTED"
  PROVE  Reduced(ReduceChannel(st, a, s), st, c, a, s)
<1>1. CASE a = "CHANNEL_SETUP_STARTED"
  <2> PICK q : q = [st EXCEPT !.status = a, !.channel = None]
    OBVIOUS
  <2> PICK r : r = [q EXCEPT !.channelError = FALSE, !.healthError = FALSE]
    OBVIOUS
  <2>1. q \in Details /\ q.status = a
    BY DEF Details, None
  <2>2. r \in Details /\ r.status = a /\ ~ShowsError(r)
    BY <2>1 DEF Details, ShowsError
  <2>3. ReduceChannel(st, a, s) = r
    BY <1>1 DEF ReduceChannel
  <2> QED
    BY <1>1, <2>2, <2>3 DEF Reduced, Quiet
<1>2. CASE a \in {"CHANNEL_SETUP_CANCELLED", "CHANNEL_SETUP_FAILED"}
  <2> PICK r : r = [st EXCEPT !.status = a, !.channel = None, !.channelError = TRUE]
    OBVIOUS
  <2>1. r \in Details /\ r.status = a
    BY DEF Details, None
  <2>2. ReduceChannel(st, a, s) = r
    BY <1>2 DEF ReduceChannel
  <2> QED
    BY <1>2, <2>1, <2>2 DEF Reduced, Quiet, Connecting
<1>3. CASE a = "CHANNEL_READY"
  <2> PICK r : r = [st EXCEPT !.status = a, !.channel = s]
    OBVIOUS
  <2>1. r \in Details /\ r.status = a /\ r.channel = s /\ (ShowsError(r) => ShowsError(st))
    BY DEF Details, ShowsError
  <2>2. ReduceChannel(st, a, s) = r
    BY <1>3 DEF ReduceChannel
  <2> QED
    BY <1>3, <2>1, <2>2 DEF Reduced, Quiet
<1>4. CASE a = "HEALTH_CHECK_FAILED"
  <2> PICK r : r = [st EXCEPT !.status = a, !.healthError = TRUE]
    OBVIOUS
  <2>1. r \in Details /\ r.status = a
    BY DEF Details
  <2>2. ReduceChannel(st, a, s) = r
    BY <1>4 DEF ReduceChannel
  <2> QED
    BY <1>4, <2>1, <2>2 DEF Reduced, Quiet, Connecting
<1>5. CASE a \notin {"CHANNEL_SETUP_STARTED", "CHANNEL_SETUP_CANCELLED", "CHANNEL_SETUP_FAILED",
                    "CHANNEL_READY", "HEALTH_CHECK_FAILED"}
  <2> PICK r : r = [st EXCEPT !.status = a]
    OBVIOUS
  <2>1. r \in Details /\ r.status = a /\ r.channel = st.channel /\ (ShowsError(r) => ShowsError(st))
    BY DEF Details, ShowsError
  <2>2. ReduceChannel(st, a, s) = r
    BY <1>5 DEF ReduceChannel
  <2> QED
    BY <1>5, <2>1, <2>2 DEF Reduced
<1> QED
  BY <1>1, <1>2, <1>3, <1>4, <1>5

LEMMA ReduceOne ==
  ASSUME NEW st \in Details, NEW c \in Kinds, NEW a \in ConnectionStatus, NEW s \in Nat
  PROVE  Reduced(reduceConnectionState(st, c, a, s), st, c, a, s)
<1>1. CASE c = "salesforce"
  <2>1. reduceConnectionState(st, c, a, s) = reduceSalesforceConnectionState(st, a, s)
    BY <1>1 DEF reduceConnectionState
  <2>2. CASE a \in ChannelActions
    <3>1. a # "AUTH_STARTED"
      BY <2>2 DEF ChannelActions
    <3>2. Reduced(ReduceChannel(st, a, s), st, c, a, s)
      BY ChannelReduced, <3>1
    <3>3. reduceSalesforceConnectionState(st, a, s) = ReduceChannel(st, a, s)
      BY <2>2 DEF reduceSalesforceConnectionState, ChannelActions, LoginActions
    <3> QED
      BY <2>1, <3>2, <3>3
  <2>3. CASE a \notin ChannelActions /\ a \in LoginActions
    <3>1. reduceSalesforceConnectionState(st, a, s) = ReduceLogin(st, a)
      BY <2>3 DEF reduceSalesforceConnectionState
    <3> QED
      BY <1>1, <2>1, <2>3, <3>1, LoginReduced
  <2>4. CASE a \notin ChannelActions /\ a \notin LoginActions
    <3>1. reduceSalesforceConnectionState(st, a, s) = ReduceToken(st, a)
      BY <2>4 DEF reduceSalesforceConnectionState
    <3> QED
      BY <2>1, <2>4, <3>1, TokenReduced
  <2> QED
    BY <2>2, <2>3, <2>4
<1>2. CASE c # "salesforce"
  <2>1. reduceConnectionState(st, c, a, s) = ReduceChannel(st, a, s)
    <3>1. CASE c = "hyper"
      BY <3>1 DEF reduceConnectionState, reduceHyperGrpcConnectorState
    <3>2. CASE c = "trino"
      BY <3>2 DEF reduceConnectionState, reduceTrinoConnectorState
    <3> QED
      BY <1>2, <3>1, <3>2 DEF Kinds
  <2> QED
    BY <1>2, <2>1, ChannelReduced
<1> QED
  BY <1>1, <1>2

LEMMA ReduceNone ==
  ASSUME NEW st, NEW c, NEW s
  PROVE  Reduce(st, c, <<>>, s) = st
BY DEF Reduce

LEMMA Reduce1 ==
  ASSUME NEW st, NEW c, NEW s, NEW a1
  PROVE  Reduce(st, c, <<a1>>, s) = reduceConnectionState(st, c, a1, s)
BY DEF Reduce

LEMMA Reduce2 ==
  ASSUME NEW st, NEW c, NEW s, NEW a1, NEW a2
  PROVE  Reduce(st, c, <<a1, a2>>, s) =
           reduceConnectionState(reduceConnectionState(st, c, a1, s), c, a2, s)
BY DEF Reduce

LEMMA Reduce3 ==
  ASSUME NEW st, NEW c, NEW s, NEW a1, NEW a2, NEW a3
  PROVE  Reduce(st, c, <<a1, a2, a3>>, s) =
           reduceConnectionState(Reduce(st, c, <<a1, a2>>, s), c, a3, s)
BY DEF Reduce

LEMMA Reduce5 ==
  ASSUME NEW st, NEW c, NEW s, NEW a1, NEW a2, NEW a3, NEW a4, NEW a5
  PROVE  Reduce(st, c, <<a1, a2, a3, a4, a5>>, s) =
           reduceConnectionState(
             reduceConnectionState(Reduce(st, c, <<a1, a2, a3>>, s), c, a4, s), c, a5, s)
BY DEF Reduce

-----------------------------------------------------------------------------
(***************************************************************************)
(* A step takes setup s from one await to pc, and its connection from d to *)
(* e.                                                                      *)
(***************************************************************************)
StepOK(d, e, s, from, pc, aborted) ==
  /\ e \in Details
  /\ pc \in Awaits \cup {"succeeded", "silent"} => (ShowsError(e) => ShowsError(d))
  /\ pc \in Awaits => e.status \in Connecting
  /\ pc = "health" => e.channel = s
  /\ pc = "succeeded" =>
       Online(e) /\ (e.channel = s \/ (from = "health" /\ e.channel = d.channel))
  /\ pc = "failed" => e.status \in Failed
  /\ pc = "cancelled" => e.status \in Cancelled
  /\ pc = "silent" => aborted /\ (d.status \in Connecting => e.status \in Connecting)

\* The setups S become T with it.
Moved(S, T, s, t) ==
  /\ S \in Seq(Setup) /\ s \in DOMAIN S /\ S[s].pc \notin Ended
  /\ t \in Setup /\ t.conn = S[s].conn /\ t.owner = S[s].owner
  /\ T = [S EXCEPT ![s] = t]

LEMMA MovedSetups ==
  ASSUME NEW S, NEW T, NEW s, NEW t, Moved(S, T, s, t)
  PROVE  /\ DOMAIN T = DOMAIN S /\ T[s] = t /\ T \in Seq(Setup)
         /\ \A x \in DOMAIN S : x # s => T[x] = S[x]
BY DEF Moved

LEMMA StatusesAreDisjoint ==
  /\ \A a \in Connecting : a \notin Cancelled \cup Failed \cup {"HEALTH_CHECK_SUCCEEDED", "NOT_STARTED"}
  /\ \A a \in Cancelled \cup Failed : a \notin {"HEALTH_CHECK_SUCCEEDED", "NOT_STARTED"}
BY DEF Connecting, Cancelled, Failed

LEMMA AwaitsAreNotEnded == \A pc \in Awaits : pc \notin Ended
BY DEF Awaits, Ended

LEMMA MovePreservesConnection ==
  ASSUME NEW S, NEW T, NEW s, NEW t, Moved(S, T, s, t),
         NEW d, NEW e, StepOK(d, e, s, S[s].pc, t.pc, t.aborted)
  PROVE  /\ ConnectionOK(d, S, t.conn) => ConnectionOK(e, T, t.conn)
         /\ Driven(e, T, t.conn)
<1>1. /\ DOMAIN T = DOMAIN S /\ T[s] = t /\ t \in Setup /\ t.conn = S[s].conn /\ t.owner = S[s].owner
      /\ s \in DOMAIN S /\ S[s].pc \notin Ended
      /\ \A x \in DOMAIN S : x # s => T[x] = S[x]
  BY MovedSetups DEF Moved
<1>2. s \in Flying(S, t.conn)
  BY <1>1 DEF Flying
<1>3. Flying(T, t.conn) \subseteq Flying(S, t.conn)
  BY <1>1 DEF Flying
<1>4. t.pc \in Awaits \cup Ended /\ t.conn \in Kinds
  BY <1>1 DEF Setup
<1>5. Driven(e, T, t.conn)
  <2>1. CASE t.pc \in Awaits
    BY <1>1, <2>1, AwaitsAreNotEnded DEF Driven, Drives
  <2>2. CASE t.pc = "silent"
    BY <1>1, <2>2 DEF Driven, Drives, StepOK
  <2>3. CASE t.pc \in {"succeeded", "failed", "cancelled"}
    BY <2>3, StatusesAreDisjoint DEF Driven, StepOK, Online
  <2> QED
    BY <1>4, <2>1, <2>2, <2>3 DEF Ended
<1>6. ASSUME ConnectionOK(d, S, t.conn)
      PROVE  ConnectionOK(e, T, t.conn)
  <2>1. \A x \in Flying(S, t.conn) : x = s
    BY <1>2, <1>6 DEF ConnectionOK, Alone
  <2>2. d.status \in Connecting /\ ~ShowsError(d) /\ (S[s].pc = "health" => d.channel = s)
    BY <1>2, <1>6 DEF ConnectionOK, Led
  <2>3. Alone(T, t.conn)
    BY <1>3, <2>1 DEF Alone
  <2>4. Led(e, T, t.conn)
    <3> SUFFICES ASSUME NEW x \in Flying(T, t.conn)
                 PROVE  /\ e.status \in Connecting /\ ~ShowsError(e)
                        /\ T[x].pc = "health" => e.channel = x
      BY DEF Led
    <3>1. x = s
      BY <1>3, <2>1
    <3>2. t.pc \in Awaits
      BY <1>1, <1>4, <3>1 DEF Flying
    <3> QED
      BY <1>1, <2>2, <3>1, <3>2 DEF StepOK
  <2>5. Checked(e, T, t.conn)
    <3>1. CASE t.pc = "succeeded"
      <4>1. e.channel = s
        BY <2>2, <3>1 DEF StepOK
      <4> QED
        BY <1>1, <3>1, <4>1 DEF Checked
    <3>2. CASE t.pc # "succeeded"
      <4>1. e.status \in Connecting \cup Failed \cup Cancelled
        BY <1>4, <2>2, <3>2 DEF StepOK, Ended
      <4> QED
        BY <4>1, StatusesAreDisjoint DEF Checked, Online
    <3> QED
      BY <3>1, <3>2
  <2>6. Current(e, t.conn)
    BY <1>4, <2>2 DEF Current, StepOK, Ended
  <2> QED
    BY <2>3, <2>4, <2>5, <2>6 DEF ConnectionOK
<1> QED
  BY <1>5, <1>6

\* It says nothing about the other connections.
LEMMA MoveSparesOthers ==
  ASSUME NEW S, NEW T, NEW s, NEW t, Moved(S, T, s, t),
         NEW c, c # t.conn, NEW d
  PROVE  /\ ConnectionOK(d, S, c) => ConnectionOK(d, T, c)
         /\ Driven(d, S, c) => Driven(d, T, c)
<1>1. /\ DOMAIN T = DOMAIN S /\ T[s] = t /\ t \in Setup /\ t.conn = S[s].conn /\ t.owner = S[s].owner
      /\ s \in DOMAIN S /\ S[s].pc \notin Ended
      /\ \A x \in DOMAIN S : x # s => T[x] = S[x]
  BY MovedSetups DEF Moved
<1>2. /\ Flying(T, c) = Flying(S, c)
      /\ \A x \in Flying(S, c) : T[x] = S[x]
  BY <1>1 DEF Flying
<1>3. Driven(d, S, c) => Driven(d, T, c)
  BY <1>1 DEF Driven
<1>4. Checked(d, S, c) => Checked(d, T, c)
  BY <1>1 DEF Checked, Ended
<1>5. Led(d, S, c) => Led(d, T, c)
  BY <1>2 DEF Led
<1>6. Alone(S, c) => Alone(T, c)
  BY <1>2 DEF Alone
<1> QED
  BY <1>3, <1>4, <1>5, <1>6 DEF ConnectionOK

\* The page of an ended setup is no longer busy.
LEMMA MovePreservesPage ==
  ASSUME NEW S, NEW T, NEW s, NEW t, Moved(S, T, s, t),
         NEW p \in Page, NEW r, PageOK(p, S, r)
  PROVE  /\ t.pc \notin Ended \/ t.owner # p.inst => PageOK(p, T, r)
         /\ t.pc \in Ended /\ t.owner = p.inst =>
              PageOK([p EXCEPT !.busy = FALSE, !.ctl = None], T, r)
<1>1. /\ DOMAIN T = DOMAIN S /\ T[s] = t /\ t \in Setup /\ t.conn = S[s].conn /\ t.owner = S[s].owner
      /\ s \in DOMAIN S /\ S[s].pc \notin Ended
      /\ \A x \in DOMAIN S : x # s => T[x] = S[x]
  BY MovedSetups DEF Moved
<1>2. Owned(T, p.inst) \subseteq Owned(S, p.inst)
  BY <1>1 DEF Owned
<1>3. \A c : /\ Flying(T, c) \subseteq Flying(S, c)
             /\ \A x \in Flying(T, c) : T[x].pc \notin Ended /\ T[x].owner = S[x].owner
  BY <1>1 DEF Flying
<1>4. \A c \in {p.conn, p.target} \ r : Flying(T, c) \subseteq Owned(T, p.inst)
  <2> SUFFICES ASSUME NEW c \in {p.conn, p.target} \ r, NEW x \in Flying(T, c)
               PROVE  x \in Owned(T, p.inst)
    OBVIOUS
  <2>1. x \in Owned(S, p.inst)
    BY <1>3 DEF PageOK
  <2> QED
    BY <1>1, <1>3, <2>1 DEF Owned
<1>5. t.pc \in Ended => s \notin Owned(T, p.inst)
  BY <1>1 DEF Owned
<1>6. CASE t.pc \notin Ended \/ t.owner # p.inst
  <2>1. PageOK(p, T, r)
    BY <1>2, <1>4 DEF PageOK
  <2> QED
    BY <1>6, <2>1
<1>7. CASE t.pc \in Ended /\ t.owner = p.inst
  <2>1. s \in Owned(S, p.inst)
    BY <1>1, <1>7 DEF Owned
  <2>2. Owned(T, p.inst) = {}
    BY <1>2, <1>5, <1>7, <2>1 DEF PageOK
  <2> PICK q : q = [p EXCEPT !.busy = FALSE, !.ctl = None]
    OBVIOUS
  <2>3. q.inst = p.inst /\ q.conn = p.conn /\ q.target = p.target /\ q.params = p.params
    BY DEF Page
  <2>4. PageOK(q, T, r)
    BY <1>4, <2>2, <2>3 DEF PageOK
  <2> QED
    BY <1>7, <2>4
<1> QED
  BY <1>6, <1>7

-----------------------------------------------------------------------------
(***************************************************************************)
(* A step of a setup preserves the invariant.                              *)
(***************************************************************************)
LEMMA NoPageIsTyped == NoPage \in Page /\ NoPage.inst = None
BY DEF NoPage, Page, None, Unknown

LEMMA DoneIsTyped ==
  ASSUME NEW g \in Gate
  PROVE  /\ Done(g) \in Gate
         /\ Done(g).decision = "SETUP_DONE" /\ Done(g).page.inst = None
         /\ Done(g).ready = g.ready /\ Done(g).aborted = g.aborted
<1> PICK h : h = Done(g)
  OBVIOUS
<1>1. h = [g EXCEPT !.decision = "SETUP_DONE", !.page = NoPage]
  BY DEF Done
<1>2. h \in Gate /\ h.decision = "SETUP_DONE" /\ h.page = NoPage /\ h.ready = g.ready /\ h.aborted = g.aborted
  BY ONLY g \in Gate, <1>1, NoPageIsTyped DEF Gate
<1> QED
  BY <1>2, NoPageIsTyped

\* What the callers of a setup of this owner do when it ends
AfterGate(g, owner, pc) ==
  CASE owner = None -> g
    [] owner # None /\ pc = "succeeded" -> Done(g)
    [] owner # None /\ pc # "succeeded" ->
         IF g.page.inst = owner THEN [g EXCEPT !.page.busy = FALSE, !.page.ctl = None] ELSE g

\* The gate shows a page or none
ShownOK(g, S, r) ==
  /\ g \in Gate
  /\ g.decision = "SHOW_CONNECTION_SETUP" <=> g.page.inst # None
  /\ g.decision = "SHOW_CONNECTION_SETUP" => PageOK(g.page, S, r)

\* The gate goes on from g to h, with the same page or none
Proceeds(g, h) ==
  /\ h.ready = g.ready /\ h.aborted = g.aborted
  /\ h.decision \in {g.decision, "SETUP_DONE", "UNMOUNTED"}
  /\ h.page.inst \in {None, g.page.inst}

LEMMA AfterGatePreserves ==
  ASSUME NEW S, NEW T, NEW s, NEW t, Moved(S, T, s, t), t.pc \in Ended,
         NEW g, NEW r, ShownOK(g, S, r)
  PROVE  ShownOK(AfterGate(g, t.owner, t.pc), T, r) /\ Proceeds(g, AfterGate(g, t.owner, t.pc))
<1> PICK h : h = AfterGate(g, t.owner, t.pc)
  OBVIOUS
<1> SUFFICES ShownOK(h, T, r) /\ Proceeds(g, h)
  OBVIOUS
<1> USE DEF ShownOK, Proceeds
<1>1. g.page \in Page
  BY DEF Gate
<1>2. CASE h = Done(g)
  BY <1>2, DoneIsTyped
<1>3. CASE h = g /\ (g.page.inst # None => g.page.inst # t.owner)
  BY <1>1, <1>3, MovePreservesPage
<1>4. CASE t.owner # None /\ g.page.inst = t.owner
           /\ h = [g EXCEPT !.page.busy = FALSE, !.page.ctl = None]
  <2> PICK q : q = [g.page EXCEPT !.busy = FALSE, !.ctl = None]
    OBVIOUS
  <2>1. q \in Page /\ q.inst = g.page.inst
    BY <1>1 DEF Page, None
  <2>2. h = [g EXCEPT !.page = q]
    BY <1>4 DEF Gate, Page
  <2>3. /\ h \in Gate /\ h.page = q /\ h.decision = g.decision
        /\ h.ready = g.ready /\ h.aborted = g.aborted
    BY ONLY <2>1, <2>2, g \in Gate DEF Gate
  <2>4. PageOK(q, T, r)
    BY <1>1, <1>4, MovePreservesPage
  <2> QED
    BY <1>4, <2>1, <2>3, <2>4
<1> QED
  <2>1. CASE t.owner = None
    BY <1>3, <2>1 DEF AfterGate
  <2>2. CASE t.owner # None /\ t.pc = "succeeded"
    BY <1>2, <2>2 DEF AfterGate
  <2>3. CASE t.owner # None /\ t.pc # "succeeded" /\ g.page.inst = t.owner
    BY <1>4, <2>3 DEF AfterGate
  <2>4. CASE t.owner # None /\ t.pc # "succeeded" /\ g.page.inst # t.owner
    BY <1>3, <2>4 DEF AfterGate
  <2> QED
    BY <2>1, <2>2, <2>3, <2>4

LEMMA MovePreserves ==
  ASSUME SetupInv, NEW s \in DOMAIN setups, setups[s].pc \notin Ended,
         NEW t, SetupOK(t), t.conn = setups[s].conn, t.owner = setups[s].owner,
         NEW e, StepOK(conn[t.conn], e, s, setups[s].pc, t.pc, t.aborted),
         conn' = [conn EXCEPT ![t.conn] = e],
         setups' = [setups EXCEPT ![s] = t],
         IF t.pc \in Ended THEN AfterSetup(s, t.pc) ELSE UNCHANGED <<gate, settings>>,
         listener' \in Listener, listener'.queued = listener.queued,
         \/ listener'.oauth = None
         \/ listener'.oauth = listener.oauth /\ setups[s].pc # "oauth"
         \/ listener'.oauth = s /\ t.pc = "oauth",
         links' = links, raced' = raced
  PROVE  SetupInv'
<1>1. /\ t \in Setup /\ t.conn \in Connectors /\ t.conn \in Kinds
      /\ setups \in Seq(Setup) /\ gate \in Gate /\ gate.page \in Page
      /\ conn \in [Connectors -> Details]
  BY DEF SetupInv, TypesOK, SetupOK, Setup, Gate
<1>0. Moved(setups, setups', s, t)
  BY <1>1 DEF Moved
<1>2. /\ DOMAIN setups' = DOMAIN setups /\ setups'[s] = t
      /\ \A x \in DOMAIN setups : x # s => setups'[x] = setups[x]
      /\ setups' \in Seq(Setup)
  BY <1>0, MovedSetups
<1>3. /\ conn' \in [Connectors -> Details] /\ conn'[t.conn] = e
      /\ \A c \in Connectors : c # t.conn => conn'[c] = conn[c]
  BY <1>1 DEF StepOK
<1>4. ShownOK(gate', setups', raced') /\ Proceeds(gate, gate') /\ settings' \in [CONNECTOR_TABS -> Nat]
  <2>0. ShownOK(gate, setups, raced)
    BY DEF SetupInv, TypesOK, GateOK, ShownOK
  <2>1. /\ gate.decision = "SHOW_CONNECTION_SETUP" <=> gate.page.inst # None
        /\ gate.decision = "SHOW_CONNECTION_SETUP" => PageOK(gate.page, setups, raced)
        /\ settings \in [CONNECTOR_TABS -> Nat]
    BY DEF SetupInv, TypesOK, GateOK
  <2>2. CASE t.pc \in Ended
    <3>1. gate' = AfterGate(gate, t.owner, t.pc)
      BY <2>2 DEF AfterSetup, AfterGate
    <3>2. settings' \in [CONNECTOR_TABS -> Nat]
      BY <2>1, <2>2 DEF AfterSetup, None
    <3>3. ShownOK(gate', setups', raced) /\ Proceeds(gate, gate')
      BY <1>0, <2>0, <2>2, <3>1, AfterGatePreserves
    <3> QED
      BY <3>2, <3>3
  <2>3. CASE t.pc \notin Ended
    BY <1>0, <1>1, <2>1, <2>3, MovePreservesPage DEF ShownOK, Proceeds
  <2> QED
    BY <2>2, <2>3
<1>5. TypesOK'
  BY <1>2, <1>3, <1>4 DEF SetupInv, TypesOK, ShownOK
<1>6. \A c \in Connectors \ raced : ConnectionOK(conn'[c], setups', c)
  <2> SUFFICES ASSUME NEW c \in Connectors \ raced
               PROVE  ConnectionOK(conn'[c], setups', c)
    OBVIOUS
  <2>1. ConnectionOK(conn[c], setups, c) /\ conn[c] \in Details
    BY <1>1 DEF SetupInv
  <2>2. CASE c = t.conn
    BY <1>0, <1>3, <2>1, <2>2, MovePreservesConnection
  <2>3. CASE c # t.conn
    BY <1>0, <1>3, <2>1, <2>3, MoveSparesOthers
  <2> QED
    BY <2>2, <2>3
<1>7. \A c \in Connectors : Driven(conn'[c], setups', c)
  <2> SUFFICES ASSUME NEW c \in Connectors
               PROVE  Driven(conn'[c], setups', c)
    OBVIOUS
  <2>1. Driven(conn[c], setups, c) /\ conn[c] \in Details
    BY <1>1 DEF SetupInv
  <2>2. CASE c = t.conn
    BY <1>0, <1>3, <2>1, <2>2, MovePreservesConnection
  <2>3. CASE c # t.conn
    BY <1>0, <1>3, <2>1, <2>3, MoveSparesOthers
  <2> QED
    BY <2>2, <2>3
<1>8. GateOK(gate', setups', links', listener')
  <2>1. GateOK(gate, setups, links, listener)
    BY DEF SetupInv
  <2>2. gate.ready /\ gate'.ready
    BY <1>4, <2>1 DEF GateOK, Proceeds
  <2>3. gate'.page.inst <= Len(links)
    BY <1>1, <1>4, <2>1 DEF GateOK, None, Page, SetupInv, TypesOK, Proceeds
  <2> QED
    BY <1>2, <1>4, <2>1, <2>2, <2>3 DEF GateOK, Proceeds, ShownOK
<1>9. ListenerOK(listener', setups')
  BY <1>2 DEF SetupInv, ListenerOK
<1> QED
  BY <1>4, <1>5, <1>6, <1>7, <1>8, <1>9 DEF SetupInv, ShownOK

LEMMA AdvancePreserves ==
  ASSUME SetupInv, NEW s \in DOMAIN setups, setups[s].pc \notin Ended,
         NEW actions, NEW pc \in Awaits \cup Ended, Advance(s, actions, pc),
         pc \in LoginAwaits => setups[s].kind = "salesforce",
         pc = "connect" => setups[s].kind # "trino",
         StepOK(conn[setups[s].conn], Reduce(conn[setups[s].conn], setups[s].conn, actions, s),
                s, setups[s].pc, pc, setups[s].aborted),
         listener' \in Listener, listener'.queued = listener.queued,
         \/ listener'.oauth = None
         \/ listener'.oauth = listener.oauth /\ setups[s].pc # "oauth"
         \/ listener'.oauth = s /\ pc = "oauth"
  PROVE  SetupInv'
<1> PICK t : t = [setups[s] EXCEPT !.pc = pc]
  OBVIOUS
<1> PICK e : e = Reduce(conn[setups[s].conn], setups[s].conn, actions, s)
  OBVIOUS
<1>1. SetupOK(setups[s]) /\ setups[s] \in Setup
  BY DEF SetupInv, TypesOK, SetupOK
<1>2. /\ t \in Setup /\ t.pc = pc /\ t.kind = setups[s].kind /\ t.conn = setups[s].conn
      /\ t.owner = setups[s].owner /\ t.aborted = setups[s].aborted
  BY ONLY <1>1, pc \in Awaits \cup Ended, t = [setups[s] EXCEPT !.pc = pc] DEF Setup
<1>3. SetupOK(t)
  BY <1>1, <1>2 DEF SetupOK
<1>4. /\ conn' = [conn EXCEPT ![t.conn] = e]
      /\ setups' = [setups EXCEPT ![s] = t]
      /\ IF t.pc \in Ended THEN AfterSetup(s, t.pc) ELSE UNCHANGED <<gate, settings>>
      /\ links' = links /\ raced' = raced
  BY <1>2 DEF Advance
<1> QED
  BY <1>2, <1>3, <1>4, MovePreserves

-----------------------------------------------------------------------------
(***************************************************************************)
(* What the steps of the setups dispatch.                                  *)
(***************************************************************************)
QuietAwaits == Quiet \cap Connecting

LEMMA QuietStep ==
  ASSUME NEW d \in Details, NEW c \in Kinds, NEW s \in Nat, NEW a \in Quiet,
         NEW e, e = reduceConnectionState(d, c, a, s)
  PROVE  /\ e \in Details /\ e.status = a /\ e.channel = d.channel
         /\ ShowsError(e) => ShowsError(d)
<1>1. a \in ConnectionStatus
  BY DEF Quiet, ConnectionStatus
<1> QED
  BY <1>1, ReduceOne DEF Reduced

LEMMA ErrorStep ==
  ASSUME NEW d \in Details, NEW c \in Kinds, NEW s \in Nat, NEW a \in Failed \cup Cancelled,
         NEW e, e = reduceConnectionState(d, c, a, s)
  PROVE  e \in Details /\ e.status = a
<1>1. a \in ConnectionStatus
  BY DEF ConnectionStatus
<1> QED
  BY <1>1, ReduceOne DEF Reduced

\* A setup ends without a dispatch, because it was aborted.
LEMMA SilentStep ==
  ASSUME NEW d \in Details, NEW c, NEW s, NEW from, NEW aborted, aborted
  PROVE  StepOK(d, Reduce(d, c, <<>>, s), s, from, "silent", aborted)
BY ReduceNone DEF StepOK, Awaits

LEMMA SilentQuietStep ==
  ASSUME NEW d \in Details, NEW c \in Kinds, NEW s \in Nat, NEW from, NEW a \in QuietAwaits,
         NEW aborted, aborted
  PROVE  StepOK(d, Reduce(d, c, <<a>>, s), s, from, "silent", aborted)
<1>1. a \in Quiet /\ a \in Connecting
  BY DEF QuietAwaits
<1> QED
  BY <1>1, QuietStep, Reduce1 DEF StepOK, Awaits

LEMMA FailStep ==
  ASSUME NEW d \in Details, NEW c \in Kinds, NEW s \in Nat, NEW from, NEW aborted,
         NEW a \in Failed
  PROVE  StepOK(d, Reduce(d, c, <<a>>, s), s, from, "failed", aborted)
BY ErrorStep, Reduce1 DEF StepOK, Awaits

LEMMA CancelStep ==
  ASSUME NEW d \in Details, NEW c \in Kinds, NEW s \in Nat, NEW from, NEW aborted,
         NEW a \in Cancelled
  PROVE  StepOK(d, Reduce(d, c, <<a>>, s), s, from, "cancelled", aborted)
BY ErrorStep, Reduce1 DEF StepOK, Awaits

LEMMA QuietFailStep ==
  ASSUME NEW d \in Details, NEW c \in Kinds, NEW s \in Nat, NEW from, NEW aborted,
         NEW a1 \in Quiet, NEW a2 \in Failed
  PROVE  StepOK(d, Reduce(d, c, <<a1, a2>>, s), s, from, "failed", aborted)
<1> PICK e1 : e1 = reduceConnectionState(d, c, a1, s)
  OBVIOUS
<1>1. e1 \in Details
  BY QuietStep
<1>2. Reduce(d, c, <<a1, a2>>, s) = reduceConnectionState(e1, c, a2, s)
  BY Reduce2
<1> QED
  BY <1>1, <1>2, ErrorStep DEF StepOK, Awaits

LEMMA QuietQuietStep ==
  ASSUME NEW d \in Details, NEW c \in Kinds, NEW s \in Nat, NEW from, NEW aborted,
         NEW a1 \in Quiet, NEW a2 \in QuietAwaits, NEW pc \in Awaits \ {"health"}
  PROVE  StepOK(d, Reduce(d, c, <<a1, a2>>, s), s, from, pc, aborted)
<1>0. a2 \in Quiet /\ a2 \in Connecting
  BY DEF QuietAwaits
<1> PICK e1 : e1 = reduceConnectionState(d, c, a1, s)
  OBVIOUS
<1> PICK e2 : e2 = reduceConnectionState(e1, c, a2, s)
  OBVIOUS
<1>1. e1 \in Details /\ (ShowsError(e1) => ShowsError(d))
  BY QuietStep
<1>2. Reduce(d, c, <<a1, a2>>, s) = e2
  BY Reduce2
<1>3. e2 \in Details /\ e2.status = a2 /\ (ShowsError(e2) => ShowsError(e1))
  BY <1>0, <1>1, QuietStep
<1> QED
  BY <1>0, <1>1, <1>2, <1>3 DEF StepOK, Awaits

LEMMA QuietAwaitStep ==
  ASSUME NEW d \in Details, NEW c \in Kinds, NEW s \in Nat, NEW from, NEW aborted,
         NEW a \in QuietAwaits, NEW pc \in Awaits \ {"health"}
  PROVE  StepOK(d, Reduce(d, c, <<a>>, s), s, from, pc, aborted)
<1>1. a \in Quiet /\ a \in Connecting
  BY DEF QuietAwaits
<1> QED
  BY <1>1, QuietStep, Reduce1 DEF StepOK, Awaits

\* A channel is created: the errors of the last one are gone.
LEMMA ConnectStep ==
  ASSUME NEW d \in Details, NEW c \in Kinds, NEW s \in Nat, NEW from, NEW aborted,
         NEW a \in Quiet
  PROVE  StepOK(d, Reduce(d, c, <<a, "CHANNEL_SETUP_STARTED">>, s), s, from, "connect", aborted)
<1> PICK e1 : e1 = reduceConnectionState(d, c, a, s)
  OBVIOUS
<1> PICK e2 : e2 = reduceConnectionState(e1, c, "CHANNEL_SETUP_STARTED", s)
  OBVIOUS
<1>0. "CHANNEL_SETUP_STARTED" \in Connecting /\ "CHANNEL_SETUP_STARTED" \in ConnectionStatus
  BY DEF Connecting, ConnectionStatus
<1>1. e1 \in Details
  BY QuietStep
<1>2. Reduce(d, c, <<a, "CHANNEL_SETUP_STARTED">>, s) = e2
  BY Reduce2
<1>3. e2 \in Details /\ e2.status = "CHANNEL_SETUP_STARTED" /\ ~ShowsError(e2)
  BY <1>0, <1>1, ReduceOne DEF Reduced
<1> QED
  BY <1>0, <1>2, <1>3 DEF StepOK

\* The channel is the one of this setup when its health is checked.
LEMMA ReadyStep ==
  ASSUME NEW d \in Details, NEW c \in Kinds, NEW s \in Nat, NEW from, NEW aborted
  PROVE  StepOK(d, Reduce(d, c, <<"CHANNEL_READY", "HEALTH_CHECK_STARTED">>, s),
                s, from, "health", aborted)
<1> PICK e1 : e1 = reduceConnectionState(d, c, "CHANNEL_READY", s)
  OBVIOUS
<1> PICK e2 : e2 = reduceConnectionState(e1, c, "HEALTH_CHECK_STARTED", s)
  OBVIOUS
<1>0. /\ "CHANNEL_READY" \in ConnectionStatus /\ "HEALTH_CHECK_STARTED" \in Connecting
      /\ "HEALTH_CHECK_STARTED" \in Quiet
  BY DEF Connecting, ConnectionStatus, Quiet
<1>1. e1 \in Details /\ e1.channel = s /\ (ShowsError(e1) => ShowsError(d))
  BY <1>0, ReduceOne DEF Reduced
<1>2. Reduce(d, c, <<"CHANNEL_READY", "HEALTH_CHECK_STARTED">>, s) = e2
  BY Reduce2
<1>3. /\ e2 \in Details /\ e2.status = "HEALTH_CHECK_STARTED" /\ e2.channel = e1.channel
      /\ ShowsError(e2) => ShowsError(e1)
  BY <1>0, <1>1, QuietStep
<1> QED
  BY <1>0, <1>1, <1>2, <1>3 DEF StepOK

LEMMA CheckStep ==
  ASSUME NEW d \in Details, NEW c \in Kinds, NEW s \in Nat, NEW aborted
  PROVE  StepOK(d, Reduce(d, c, <<"HEALTH_CHECK_SUCCEEDED">>, s), s, "health", "succeeded", aborted)
<1>0. "HEALTH_CHECK_SUCCEEDED" \in Quiet
  BY DEF Quiet
<1> QED
  BY <1>0, QuietStep, Reduce1 DEF StepOK, Online, Awaits

LEMMA MockStep ==
  ASSUME NEW d \in Details, NEW c \in Kinds, NEW s \in Nat, NEW from, NEW aborted,
         NEW a \in Quiet
  PROVE  StepOK(d, Reduce(d, c, <<a, "CHANNEL_SETUP_STARTED", "CHANNEL_READY",
                                  "HEALTH_CHECK_STARTED", "HEALTH_CHECK_SUCCEEDED">>, s),
                s, from, "succeeded", aborted)
<1> PICK e2 : e2 = Reduce(d, c, <<a, "CHANNEL_SETUP_STARTED">>, s)
  OBVIOUS
<1> PICK e3 : e3 = reduceConnectionState(e2, c, "CHANNEL_READY", s)
  OBVIOUS
<1> PICK e4 : e4 = reduceConnectionState(e3, c, "HEALTH_CHECK_STARTED", s)
  OBVIOUS
<1> PICK e5 : e5 = reduceConnectionState(e4, c, "HEALTH_CHECK_SUCCEEDED", s)
  OBVIOUS
<1>0. /\ "CHANNEL_READY" \in ConnectionStatus
      /\ "HEALTH_CHECK_STARTED" \in Quiet /\ "HEALTH_CHECK_SUCCEEDED" \in Quiet
  BY DEF Connecting, ConnectionStatus, Quiet
<1>1. Reduce(d, c, <<a, "CHANNEL_SETUP_STARTED", "CHANNEL_READY",
                     "HEALTH_CHECK_STARTED", "HEALTH_CHECK_SUCCEEDED">>, s) = e5
  <2>1. Reduce(d, c, <<a, "CHANNEL_SETUP_STARTED", "CHANNEL_READY">>, s) = e3
    BY Reduce3
  <2> QED
    BY <2>1, Reduce5
<1>2. e2 \in Details /\ (ShowsError(e2) => ShowsError(d))
  BY ConnectStep DEF StepOK, Awaits
<1>3. e3 \in Details /\ e3.channel = s /\ (ShowsError(e3) => ShowsError(e2))
  BY <1>0, <1>2, ReduceOne DEF Reduced
<1>4. e4 \in Details /\ e4.channel = e3.channel /\ (ShowsError(e4) => ShowsError(e3))
  BY <1>0, <1>3, QuietStep
<1>5. /\ e5 \in Details /\ e5.channel = e4.channel /\ (ShowsError(e5) => ShowsError(e4))
      /\ e5.status = "HEALTH_CHECK_SUCCEEDED"
  BY <1>0, <1>4, QuietStep
<1> QED
  BY <1>1, <1>2, <1>3, <1>4, <1>5 DEF StepOK, Online, Awaits

\* The login is opened, but another setup waits for the redirect.
LEMMA DuplicateStep ==
  ASSUME NEW d \in Details, NEW c \in Kinds, NEW s \in Nat, NEW from, NEW aborted,
         NEW a1 \in Quiet, NEW a2 \in QuietAwaits
  PROVE  StepOK(d, Reduce(d, c, <<a1, a2, "AUTH_FAILED">>, s), s, from, "failed", aborted)
<1> PICK e2 : e2 = Reduce(d, c, <<a1, a2>>, s)
  OBVIOUS
<1>1. e2 \in Details
  <2>1. "oauth" \in Awaits \ {"health"}
    BY DEF Awaits
  <2> QED
    BY <2>1, QuietQuietStep DEF StepOK
<1>2. Reduce(d, c, <<a1, a2, "AUTH_FAILED">>, s) = reduceConnectionState(e2, c, "AUTH_FAILED", s)
  BY Reduce3
<1>3. "AUTH_FAILED" \in Failed
  BY DEF Failed
<1> QED
  BY <1>1, <1>2, <1>3, ErrorStep DEF StepOK, Awaits

(***************************************************************************)
(* The steps of a setup.                                                   *)
(***************************************************************************)
LEMMA RunningSetup ==
  ASSUME SetupInv, NEW s, NEW pc \in Awaits, At(s, pc)
  PROVE  /\ s \in DOMAIN setups /\ s \in Nat /\ s # None
         /\ setups[s] \in Setup /\ setups[s].pc = pc /\ setups[s].pc \notin Ended
         /\ setups[s].conn \in Kinds /\ setups[s].conn \in Connectors
         /\ setups[s].conn = setups[s].kind
         /\ pc \in LoginAwaits => setups[s].kind = "salesforce"
         /\ conn[setups[s].conn] \in Details
         /\ listener \in Listener
<1>1. setups \in Seq(Setup) /\ s \in DOMAIN setups /\ SetupOK(setups[s]) /\ setups[s].pc = pc
  BY DEF At, SetupInv, TypesOK
<1>2. s \in Nat /\ s # None
  BY <1>1 DEF None
<1>3. conn[setups[s].conn] \in Details /\ listener \in Listener
  BY <1>1 DEF SetupInv, TypesOK, SetupOK
<1> QED
  BY <1>1, <1>2, <1>3, AwaitsAreNotEnded DEF SetupOK, Setup

LEMMA QuietActions ==
  /\ {"GENERATING_PKCE_CHALLENGE", "GENERATED_PKCE_CHALLENGE", "OAUTH_NATIVE_LINK_OPENED",
      "OAUTH_WEB_WINDOW_OPENED", "RECEIVED_CORE_AUTH_CODE", "REQUESTING_CORE_AUTH_TOKEN",
      "RECEIVED_CORE_AUTH_TOKEN", "REQUESTING_DATA_CLOUD_ACCESS_TOKEN",
      "RECEIVED_DATA_CLOUD_ACCESS_TOKEN"} \subseteq QuietAwaits
  /\ QuietAwaits \subseteq Quiet
  /\ {"AUTH_FAILED", "CHANNEL_SETUP_FAILED", "HEALTH_CHECK_FAILED"} \subseteq Failed
  /\ "AUTH_CANCELLED" \in Cancelled
BY DEF QuietAwaits, Quiet, Connecting, Failed, Cancelled

LEMMA PkceGeneratedPreserves ==
  ASSUME SetupInv, NEW s, PkceGenerated(s)
  PROVE  SetupInv'
<1>1. At(s, "pkce") /\ "pkce" \in Awaits /\ listener' = listener
  BY DEF PkceGenerated, Awaits
<1>2. CASE Aborted(s)
  BY <1>1, <1>2, RunningSetup, SilentStep, AdvancePreserves DEF PkceGenerated, Aborted, Ended, LoginAwaits
<1>3. CASE ~Aborted(s)
  <2>1. "sleep" \in Awaits \ {"health"}
    BY DEF Awaits
  <2> QED
    BY <1>1, <1>3, <2>1, RunningSetup, QuietAwaitStep, QuietActions, AdvancePreserves
    DEF PkceGenerated, LoginAwaits
<1> QED
  BY <1>2, <1>3

\* The steps of the login
LEMMA PopupIsBlockedPreserves ==
  ASSUME SetupInv, NEW s, PopupIsBlocked(s)
  PROVE  SetupInv'
<1>1. At(s, "pkce") /\ "pkce" \in Awaits /\ listener' = listener
  BY DEF PopupIsBlocked, Awaits
<1> QED
  BY <1>1, RunningSetup, QuietFailStep, QuietActions, AdvancePreserves
  DEF PopupIsBlocked, Ended, LoginAwaits

LEMMA CoreTokenPreserves ==
  ASSUME SetupInv, NEW s, CoreToken(s)
  PROVE  SetupInv'
<1>1. At(s, "core") /\ "core" \in Awaits /\ listener' = listener
  BY DEF CoreToken, Awaits
<1>2. CASE Aborted(s)
  BY <1>1, <1>2, RunningSetup, SilentQuietStep, QuietActions, AdvancePreserves
  DEF CoreToken, Aborted, Ended, LoginAwaits
<1>3. CASE ~Aborted(s)
  <2>1. "dc" \in Awaits \ {"health"}
    BY DEF Awaits
  <2> QED
    BY <1>1, <1>3, <2>1, RunningSetup, QuietQuietStep, QuietActions, AdvancePreserves
    DEF CoreToken, LoginAwaits
<1> QED
  BY <1>2, <1>3

LEMMA DataCloudTokenPreserves ==
  ASSUME SetupInv, NEW s, DataCloudToken(s)
  PROVE  SetupInv'
<1>1. At(s, "dc") /\ "dc" \in Awaits /\ listener' = listener
  BY DEF DataCloudToken, Awaits
<1>2. setups[s].kind = "salesforce"
  BY <1>1, RunningSetup DEF LoginAwaits
<1>3. CASE Aborted(s)
  BY <1>1, <1>3, RunningSetup, SilentQuietStep, QuietActions, AdvancePreserves
  DEF DataCloudToken, Aborted, Ended, LoginAwaits
<1>4. CASE ~Aborted(s) /\ env # "mock"
  <2>1. "connect" \in Awaits
    BY DEF Awaits
  <2>2. Advance(s, <<"RECEIVED_DATA_CLOUD_ACCESS_TOKEN", "CHANNEL_SETUP_STARTED">>, "connect")
    BY <1>4 DEF DataCloudToken
  <2> QED
    BY <1>1, <1>2, <2>1, <2>2, RunningSetup, ConnectStep, QuietActions, AdvancePreserves
    DEF LoginAwaits
<1>5. CASE ~Aborted(s) /\ env = "mock"
  <2>1. Advance(s, <<"RECEIVED_DATA_CLOUD_ACCESS_TOKEN", "CHANNEL_SETUP_STARTED", "CHANNEL_READY",
                     "HEALTH_CHECK_STARTED", "HEALTH_CHECK_SUCCEEDED">>, "succeeded")
    BY <1>5 DEF DataCloudToken
  <2> QED
    BY <1>1, <2>1, RunningSetup, MockStep, QuietActions, AdvancePreserves DEF LoginAwaits, Ended
<1> QED
  BY <1>3, <1>4, <1>5

LEMMA TokenFailsPreserves ==
  ASSUME SetupInv, NEW s, TokenFails(s)
  PROVE  SetupInv'
<1>1. PICK pc \in {"core", "dc"} : At(s, pc)
  BY DEF TokenFails
<1>2. pc \in Awaits /\ pc # "oauth" /\ listener' = listener
  BY DEF TokenFails, Awaits
<1>3. CASE Advance(s, <<"AUTH_FAILED">>, "failed")
  BY <1>1, <1>2, <1>3, RunningSetup, FailStep, QuietActions, AdvancePreserves DEF LoginAwaits, Ended
<1>4. CASE Aborted(s) /\ Advance(s, <<>>, "silent")
  BY <1>1, <1>2, <1>4, RunningSetup, SilentStep, AdvancePreserves DEF Aborted, LoginAwaits, Ended
<1> QED
  BY <1>3, <1>4 DEF TokenFails

\* The code reaches the setup that waits for it, from whatever login it comes.
LEMMA CodePreserves ==
  ASSUME SetupInv, NEW s, NEW w \in Nat, NEW pc \in {"sleep", "oauth"}, At(s, pc),
         conn' = [conn EXCEPT ![setups[s].conn] =
                    Reduce(@, "salesforce", <<"RECEIVED_CORE_AUTH_CODE", "REQUESTING_CORE_AUTH_TOKEN">>, s)],
         setups' = [setups EXCEPT ![s].pc = "core", ![s].code = w],
         listener' \in Listener, listener'.queued = listener.queued,
         listener'.oauth = None \/ (listener'.oauth = listener.oauth /\ pc # "oauth"),
         UNCHANGED <<gate, settings, links, raced>>
  PROVE  SetupInv'
<1>1. pc \in Awaits /\ "core" \in Awaits /\ "core" \notin Ended /\ "core" \in Awaits \ {"health"}
  BY DEF Awaits, Ended
<1>2. /\ s \in DOMAIN setups /\ setups[s] \in Setup /\ setups[s].kind = "salesforce"
      /\ setups[s].conn = "salesforce" /\ setups[s].conn \in Kinds /\ s \in Nat
      /\ conn[setups[s].conn] \in Details /\ setups[s].pc = pc /\ setups[s].pc \notin Ended
      /\ setups[s].conn \in Connectors
  BY <1>1, RunningSetup DEF LoginAwaits
<1> PICK t : t = [setups[s] EXCEPT !.pc = "core", !.code = w]
  OBVIOUS
<1> PICK e : e = Reduce(conn["salesforce"], "salesforce",
                        <<"RECEIVED_CORE_AUTH_CODE", "REQUESTING_CORE_AUTH_TOKEN">>, s)
  OBVIOUS
<1>3. /\ t \in Setup /\ t.pc = "core" /\ t.kind = setups[s].kind /\ t.conn = setups[s].conn
      /\ t.owner = setups[s].owner /\ t.aborted = setups[s].aborted
  BY ONLY <1>1, <1>2, w \in Nat, t = [setups[s] EXCEPT !.pc = "core", !.code = w] DEF Setup
<1>4. SetupOK(t)
  BY <1>2, <1>3 DEF SetupOK
<1>5. setups' = [setups EXCEPT ![s] = t]
  BY <1>2 DEF Setup
<1>6. conn' = [conn EXCEPT ![t.conn] = e]
  BY <1>2, <1>3
<1>7. StepOK(conn[t.conn], e, s, setups[s].pc, t.pc, t.aborted)
  BY <1>1, <1>2, <1>3, QuietQuietStep, QuietActions
<1>8. IF t.pc \in Ended THEN AfterSetup(s, t.pc) ELSE UNCHANGED <<gate, settings>>
  BY <1>1, <1>3
<1>9. \/ listener'.oauth = None
      \/ listener'.oauth = listener.oauth /\ setups[s].pc # "oauth"
      \/ listener'.oauth = s /\ t.pc = "oauth"
  BY <1>2
<1>10. /\ listener' \in Listener /\ listener'.queued = listener.queued
       /\ links' = links /\ raced' = raced
  OBVIOUS
<1> QED
  BY ONLY SetupInv, <1>2, <1>3, <1>4, <1>5, <1>6, <1>7, <1>8, <1>9, <1>10, MovePreserves

LEMMA MockCodePreserves ==
  ASSUME SetupInv, NEW s, MockCode(s)
  PROVE  SetupInv'
<1>1. At(s, "sleep") /\ "sleep" \in Awaits /\ listener' = listener
  BY DEF MockCode, Awaits
<1>2. CASE Aborted(s)
  BY <1>1, <1>2, RunningSetup, SilentStep, AdvancePreserves DEF MockCode, Aborted, Ended, LoginAwaits
<1>3. CASE ~Aborted(s)
  <2>1. s \in Nat /\ listener \in Listener
    BY <1>1, RunningSetup
  <2> QED
    BY <1>1, <1>3, <2>1, CodePreserves DEF MockCode
<1> QED
  BY <1>2, <1>3

LEMMA OAuthSucceededPreserves ==
  ASSUME SetupInv, NEW w, OAuthSucceeded(w)
  PROVE  SetupInv'
<1> PICK s : s = listener.oauth
  OBVIOUS
<1>1. At(s, "oauth") /\ w \in Nat /\ listener \in Listener
  BY DEF OAuthSucceeded, dispatchOAuthRedirect, SetupInv, TypesOK, ListenerOK, At
<1>2. listener' = [listener EXCEPT !.oauth = None]
  BY DEF OAuthSucceeded, dispatchOAuthRedirect
<1>3. listener' \in Listener /\ listener'.queued = listener.queued /\ listener'.oauth = None
  BY ONLY <1>1, <1>2 DEF Listener, None
<1> QED
  BY <1>1, <1>3, CodePreserves DEF OAuthSucceeded, dispatchOAuthRedirect

LEMMA OAuthFailsPreserves ==
  ASSUME SetupInv, NEW w, OAuthFails(w)
  PROVE  SetupInv'
<1> PICK s : s = listener.oauth
  OBVIOUS
<1>1. At(s, "oauth") /\ listener \in Listener /\ "oauth" \in Awaits
  BY DEF OAuthFails, SetupInv, TypesOK, ListenerOK, At, Awaits
<1>2. listener' = [listener EXCEPT !.oauth = None] /\ Advance(s, <<"AUTH_FAILED">>, "failed")
  BY DEF OAuthFails
<1>3. listener' \in Listener /\ listener'.queued = listener.queued /\ listener'.oauth = None
  BY ONLY <1>1, <1>2 DEF Listener, None
<1> QED
  BY <1>1, <1>2, <1>3, RunningSetup, FailStep, QuietActions, AdvancePreserves DEF LoginAwaits, Ended

LEMMA OpenLoginPreserves ==
  ASSUME SetupInv, NEW s, OpenLogin(s)
  PROVE  SetupInv'
<1>1. At(s, "pkce") /\ "pkce" \in Awaits
  BY DEF OpenLogin, Awaits
<1>2. /\ s \in DOMAIN setups /\ setups[s] \in Setup /\ setups[s].kind = "salesforce"
      /\ setups[s].conn = "salesforce" /\ setups[s].conn \in Kinds /\ s \in Nat
      /\ conn[setups[s].conn] \in Details /\ setups[s].pc = "pkce" /\ setups[s].pc \notin Ended
      /\ setups[s].conn \in Connectors /\ listener \in Listener
  BY <1>1, RunningSetup DEF LoginAwaits
<1> PICK opened : opened = IF env = "web" THEN "OAUTH_WEB_WINDOW_OPENED" ELSE "OAUTH_NATIVE_LINK_OPENED"
  OBVIOUS
<1> PICK pc : pc = IF listener.oauth # None THEN "failed" ELSE "oauth"
  OBVIOUS
<1> PICK t : t = [setups[s] EXCEPT !.window = TRUE, !.pc = pc]
  OBVIOUS
<1>3. opened \in QuietAwaits /\ opened \in Quiet
  BY QuietActions
<1>4. pc \in Awaits \cup Ended /\ "oauth" \in Awaits \ {"health"} /\ "oauth" \notin Ended /\ "failed" \in Ended
  BY DEF Awaits, Ended
<1>5. /\ t \in Setup /\ t.pc = pc /\ t.kind = setups[s].kind /\ t.conn = setups[s].conn
      /\ t.owner = setups[s].owner /\ t.aborted = setups[s].aborted
  BY ONLY <1>2, <1>4, t = [setups[s] EXCEPT !.window = TRUE, !.pc = pc] DEF Setup
<1>6. SetupOK(t)
  BY <1>2, <1>5 DEF SetupOK
<1>7. setups' = [setups EXCEPT ![s] = t]
  BY <1>2 DEF Setup, OpenLogin
<1>8. links' = links /\ raced' = raced
  BY DEF OpenLogin
<1>9. CASE listener.oauth # None
  <2> PICK e : e = Reduce(conn[t.conn], t.conn, <<"GENERATED_PKCE_CHALLENGE", opened, "AUTH_FAILED">>, s)
    OBVIOUS
  <2>2. conn' = [conn EXCEPT ![t.conn] = e]
    BY <1>5, <1>9 DEF OpenLogin
  <2>3. StepOK(conn[t.conn], e, s, setups[s].pc, t.pc, t.aborted)
    BY <1>2, <1>3, <1>5, <1>9, DuplicateStep, QuietActions
  <2>4. AfterSetup(s, t.pc) /\ listener' = listener
    BY <1>5, <1>9 DEF OpenLogin
  <2> QED
    <3>1. /\ IF t.pc \in Ended THEN AfterSetup(s, t.pc) ELSE UNCHANGED <<gate, settings>>
          /\ listener' \in Listener /\ listener'.queued = listener.queued
          /\ listener'.oauth = listener.oauth /\ setups[s].pc # "oauth"
      BY <1>2, <1>4, <1>5, <1>9, <2>4
    <3> QED
      BY ONLY SetupInv, <1>2, <1>5, <1>6, <1>7, <1>8, <2>2, <2>3, <3>1, MovePreserves
<1>10. CASE listener.oauth = None
  <2> PICK e : e = Reduce(conn[t.conn], t.conn, <<"GENERATED_PKCE_CHALLENGE", opened>>, s)
    OBVIOUS
  <2>2. conn' = [conn EXCEPT ![t.conn] = e]
    BY <1>5, <1>10 DEF OpenLogin
  <2>3. StepOK(conn[t.conn], e, s, setups[s].pc, t.pc, t.aborted)
    BY <1>2, <1>3, <1>4, <1>5, <1>10, QuietQuietStep, QuietActions
  <2>4. listener' = [listener EXCEPT !.oauth = s] /\ UNCHANGED <<gate, settings>>
    BY <1>10 DEF OpenLogin
  <2>5. listener' \in Listener /\ listener'.queued = listener.queued /\ listener'.oauth = s
    BY ONLY <1>2, <2>4 DEF Listener
  <2> QED
    <3>1. /\ IF t.pc \in Ended THEN AfterSetup(s, t.pc) ELSE UNCHANGED <<gate, settings>>
          /\ listener'.oauth = s /\ t.pc = "oauth"
      BY <1>4, <1>5, <1>10, <2>4, <2>5
    <3> QED
      BY ONLY SetupInv, <1>2, <1>5, <1>6, <1>7, <1>8, <2>2, <2>3, <2>5, <3>1, MovePreserves
<1> QED
  BY <1>9, <1>10

\* The steps of the channel
LEMMA ClientConnectsPreserves ==
  ASSUME SetupInv, NEW s, At(s, "connect"), ClientConnects(s)
  PROVE  SetupInv'
<1>1. "connect" \in Awaits /\ "health" \in Awaits /\ listener' = listener
  BY DEF ClientConnects, Awaits
<1>2. CASE Aborted(s)
  BY <1>1, <1>2, RunningSetup, SilentStep, AdvancePreserves
  DEF ClientConnects, Aborted, Ended, LoginAwaits
<1>3. CASE ~Aborted(s)
  BY <1>1, <1>3, RunningSetup, ReadyStep, AdvancePreserves DEF ClientConnects, LoginAwaits
<1> QED
  BY <1>2, <1>3

LEMMA ConnectFailsPreserves ==
  ASSUME SetupInv, NEW s, HyperConnectFails(s) \/ SalesforceConnectFails(s)
  PROVE  SetupInv'
<1>1. At(s, "connect") /\ "connect" \in Awaits /\ listener' = listener
  BY DEF HyperConnectFails, SalesforceConnectFails, AtKind, Awaits
<1>2. PICK a \in {"CHANNEL_SETUP_FAILED", "AUTH_FAILED"} : Advance(s, <<a>>, "failed")
  BY DEF HyperConnectFails, SalesforceConnectFails
<1> QED
  BY <1>1, <1>2, RunningSetup, FailStep, QuietActions, AdvancePreserves DEF Ended, LoginAwaits

LEMMA TrinoCheckPreserves ==
  ASSUME SetupInv, NEW s, TrinoCheckSucceeds(s) \/ TrinoCheckFails(s)
  PROVE  SetupInv'
<1>1. At(s, "health") /\ "health" \in Awaits /\ listener' = listener
  BY DEF TrinoCheckSucceeds, TrinoCheckFails, AtKind, Awaits
<1>2. CASE Advance(s, <<"HEALTH_CHECK_SUCCEEDED">>, "succeeded")
  BY <1>1, <1>2, RunningSetup, CheckStep, AdvancePreserves DEF Ended, LoginAwaits
<1>3. CASE Advance(s, <<"HEALTH_CHECK_FAILED">>, "failed")
  BY <1>1, <1>3, RunningSetup, FailStep, QuietActions, AdvancePreserves DEF Ended, LoginAwaits
<1> QED
  BY <1>2, <1>3 DEF TrinoCheckSucceeds, TrinoCheckFails

LEMMA HyperCheckPreserves ==
  ASSUME SetupInv, NEW s, At(s, "health"), HyperCheckEnds(s)
  PROVE  SetupInv'
<1>1. "health" \in Awaits /\ listener' = listener
  BY DEF HyperCheckEnds, Awaits
<1>2. CASE Aborted(s)
  BY <1>1, <1>2, RunningSetup, SilentStep, AdvancePreserves
  DEF HyperCheckEnds, Aborted, Ended, LoginAwaits
<1>3. CASE ~Aborted(s)
  BY <1>1, <1>3, RunningSetup, FailStep, QuietActions, AdvancePreserves
  DEF HyperCheckEnds, Ended, LoginAwaits
<1> QED
  BY <1>2, <1>3

LEMMA SetupStepPreserves ==
  ASSUME SetupInv, NEW s,
         \/ SetupStep(s) \/ HyperCheckFails(s) \/ SalesforceCheckFails(s)
         \/ OAuthSucceeded(s) \/ OAuthFails(s)
  PROVE  SetupInv'
<1>1. CASE HyperConnects(s) \/ SalesforceConnects(s)
  BY <1>1, ClientConnectsPreserves DEF HyperConnects, SalesforceConnects, AtKind
<1>2. CASE HyperCheckFails(s) \/ SalesforceCheckFails(s)
  BY <1>2, HyperCheckPreserves DEF HyperCheckFails, SalesforceCheckFails, AtKind
<1> QED
  BY <1>1, <1>2, PkceGeneratedPreserves, OpenLoginPreserves, PopupIsBlockedPreserves,
     MockCodePreserves, CoreTokenPreserves, DataCloudTokenPreserves, TokenFailsPreserves,
     ConnectFailsPreserves, TrinoCheckPreserves, OAuthSucceededPreserves, OAuthFailsPreserves
  DEF SetupStep

(***************************************************************************)
(* A page cancels a setup: the wait for the redirect ends, any other setup *)
(* is marked.                                                              *)
(***************************************************************************)
\* T are the setups S, one of them marked
Marked(S, T) ==
  /\ DOMAIN T = DOMAIN S
  /\ \A x \in DOMAIN S :
       /\ T[x].pc = S[x].pc /\ T[x].conn = S[x].conn /\ T[x].owner = S[x].owner
       /\ S[x].aborted => T[x].aborted

LEMMA MarkedSetups ==
  ASSUME NEW S \in Seq(Setup), \A x \in DOMAIN S : SetupOK(S[x]), NEW s,
         NEW T, T = [S EXCEPT ![s].aborted = TRUE]
  PROVE  T \in Seq(Setup) /\ (\A x \in DOMAIN T : SetupOK(T[x])) /\ Marked(S, T)
<1>1. CASE s \notin DOMAIN S
  <2>1. DOMAIN T = DOMAIN S /\ \A x \in DOMAIN S : T[x] = S[x]
    BY <1>1
  <2>2. Len(S) \in Nat /\ DOMAIN S = 1..Len(S)
    BY LenProperties
  <2>3. T \in [1..Len(S) -> Setup]
    <3>1. S \in [1..Len(S) -> Setup]
      BY LenProperties
    <3> PICK t : t = [S[s] EXCEPT !.aborted = TRUE]
      OBVIOUS
    <3> PICK n : n = Len(S)
      OBVIOUS
    <3>2. T = [S EXCEPT ![s] = t]
      OBVIOUS
    <3>3. T = S
      BY ONLY <3>1, <3>2, <1>1
    <3> QED
      BY <3>1, <3>3
  <2>4. T \in Seq(Setup)
    BY <2>2, <2>3, SeqDef
  <2> QED
    BY <2>1, <2>4 DEF Marked
<1>2. CASE s \in DOMAIN S
  <2> PICK t : t = [S[s] EXCEPT !.aborted = TRUE]
    OBVIOUS
  <2>1. S[s] \in Setup
    BY <1>2
  <2>2. /\ t \in Setup /\ t.pc = S[s].pc /\ t.kind = S[s].kind /\ t.conn = S[s].conn
        /\ t.owner = S[s].owner /\ t.aborted
    BY ONLY <2>1, t = [S[s] EXCEPT !.aborted = TRUE] DEF Setup
  <2>3. T = [S EXCEPT ![s] = t]
    BY <1>2
  <2>4. /\ T \in Seq(Setup) /\ DOMAIN T = DOMAIN S /\ T[s] = t
        /\ \A x \in DOMAIN S : x # s => T[x] = S[x]
    BY ONLY S \in Seq(Setup), <1>2, <2>2, <2>3
  <2>5. SetupOK(t)
    BY <1>2, <2>2 DEF SetupOK
  <2> QED
    BY <2>2, <2>4, <2>5 DEF Marked
<1> QED
  BY <1>1, <1>2

LEMMA MarkedPreserves ==
  ASSUME NEW S, NEW T, Marked(S, T)
  PROVE  /\ \A d, c : ConnectionOK(d, S, c) => ConnectionOK(d, T, c)
         /\ \A d, c : Driven(d, S, c) => Driven(d, T, c)
         /\ \A p, r : PageOK(p, S, r) => PageOK(p, T, r)
<1>1. \A c : Flying(T, c) = Flying(S, c)
  BY DEF Marked, Flying
<1>2. \A i : Owned(T, i) = Owned(S, i)
  BY DEF Marked, Owned
<1>3. \A d, c : Led(d, S, c) => Led(d, T, c)
  BY <1>1 DEF Led, Marked, Flying
<1>4. \A d, c : Checked(d, S, c) => Checked(d, T, c)
  BY DEF Checked, Marked
<1>5. \A d, c : Driven(d, S, c) => Driven(d, T, c)
  BY DEF Driven, Drives, Marked
<1>6. \A p, r : PageOK(p, S, r) => PageOK(p, T, r)
  BY <1>1, <1>2 DEF PageOK
<1> QED
  BY <1>1, <1>3, <1>4, <1>5, <1>6 DEF ConnectionOK, Alone

LEMMA AbortPreserves ==
  ASSUME SetupInv, NEW s \in Nat, s # None, Abort(s)
  PROVE  SetupInv'
<1>1. CASE listener.oauth = s
  <2>1. At(s, "oauth") /\ listener \in Listener /\ "oauth" \in Awaits
    BY <1>1 DEF SetupInv, TypesOK, ListenerOK, At, Awaits
  <2>2. listener' = [listener EXCEPT !.oauth = None] /\ Advance(s, <<"AUTH_CANCELLED">>, "cancelled")
    BY <1>1 DEF Abort
  <2>3. listener' \in Listener /\ listener'.queued = listener.queued /\ listener'.oauth = None
    BY ONLY <2>1, <2>2 DEF Listener, None
  <2> QED
    BY <2>1, <2>2, <2>3, RunningSetup, CancelStep, QuietActions, AdvancePreserves DEF LoginAwaits, Ended
<1>2. CASE listener.oauth # s
  <2>1. /\ setups' = [setups EXCEPT ![s].aborted = TRUE]
        /\ gate' = IF gate.page.ctl = s THEN [gate EXCEPT !.page.ctl = None] ELSE gate
        /\ settings' = [c \in DOMAIN settings |-> IF settings[c] = s THEN None ELSE settings[c]]
        /\ UNCHANGED <<conn, listener, links, raced>>
    BY <1>2 DEF Abort
  <2>2. /\ setups' \in Seq(Setup) /\ (\A x \in DOMAIN setups' : SetupOK(setups'[x]))
        /\ Marked(setups, setups')
    BY <2>1, MarkedSetups DEF SetupInv, TypesOK
  <2>3. /\ gate' \in Gate /\ gate'.decision = gate.decision
        /\ gate'.ready = gate.ready /\ gate'.aborted = gate.aborted
        /\ gate'.page.inst = gate.page.inst
        /\ PageOK(gate.page, setups', raced) => PageOK(gate'.page, setups', raced)
    <3> PICK q : q = [gate.page EXCEPT !.ctl = None]
      OBVIOUS
    <3>0. gate \in Gate /\ gate.page \in Page
      BY DEF SetupInv, TypesOK, Gate
    <3>1. /\ q \in Page /\ q.inst = gate.page.inst /\ q.conn = gate.page.conn
          /\ q.target = gate.page.target /\ q.params = gate.page.params /\ q.busy = gate.page.busy
      BY ONLY <3>0, q = [gate.page EXCEPT !.ctl = None] DEF Page, None
    <3>2. PageOK(gate.page, setups', raced) => PageOK(q, setups', raced)
      BY <3>1 DEF PageOK
    <3>3. CASE gate' = gate
      BY <3>0, <3>3
    <3>4. CASE gate' = [gate EXCEPT !.page = q]
      <4>1. /\ gate' \in Gate /\ gate'.decision = gate.decision /\ gate'.page = q
            /\ gate'.ready = gate.ready /\ gate'.aborted = gate.aborted
        BY ONLY <3>0, <3>1, <3>4 DEF Gate
      <4> QED
        BY <3>1, <3>2, <4>1
    <3> QED
      BY <2>1, <3>0, <3>3, <3>4 DEF Gate
  <2>4. settings' \in [CONNECTOR_TABS -> Nat]
    BY <2>1 DEF SetupInv, TypesOK, None
  <2>5. TypesOK'
    BY <2>1, <2>2, <2>3, <2>4 DEF SetupInv, TypesOK
  <2>6. \A c \in Connectors \ raced' : ConnectionOK(conn'[c], setups', c)
    BY <2>1, <2>2, MarkedPreserves DEF SetupInv
  <2>7. \A c \in Connectors : Driven(conn'[c], setups', c)
    BY <2>1, <2>2, MarkedPreserves DEF SetupInv
  <2>8. gate'.decision = "SHOW_CONNECTION_SETUP" => PageOK(gate'.page, setups', raced')
    BY <2>1, <2>2, <2>3, MarkedPreserves DEF SetupInv
  <2>9. GateOK(gate', setups', links', listener')
    <3>1. setups = <<>> => setups' = <<>>
      BY <2>1
    <3> QED
      BY <2>1, <2>2, <2>3, <3>1 DEF SetupInv, GateOK, Marked
  <2>10. ListenerOK(listener', setups')
    BY <2>1, <2>2 DEF SetupInv, ListenerOK, Marked
  <2> QED
    BY <2>5, <2>6, <2>7, <2>8, <2>9, <2>10 DEF SetupInv
<1> QED
  BY <1>1, <1>2

-----------------------------------------------------------------------------
(***************************************************************************)
(* A page starts a setup.                                                  *)
(***************************************************************************)
\* The first dispatches clear the errors of the attempts before.
LEMMA OpeningStep ==
  ASSUME NEW d \in Details, NEW c \in Kinds, NEW s \in Nat, NEW e, e = Reduce(d, c, Opening(c), s)
  PROVE  /\ e \in Details /\ e.status \in Connecting /\ ~ShowsError(e)
         /\ FirstAwait(c) = "health" => e.channel = s
<1>0. {"AUTH_STARTED", "CHANNEL_SETUP_STARTED", "CHANNEL_READY"} \subseteq ConnectionStatus \cap Connecting
  BY DEF Connecting, ConnectionStatus
<1>1. CASE c = "hyper"
  <2>1. e = reduceConnectionState(d, c, "CHANNEL_SETUP_STARTED", s)
    BY <1>1, Reduce1 DEF Opening
  <2> QED
    BY <1>0, <1>1, <2>1, ReduceOne DEF Reduced, FirstAwait
<1>2. CASE c = "salesforce"
  <2> PICK e1 : e1 = reduceConnectionState(d, c, "AUTH_STARTED", s)
    OBVIOUS
  <2>1. e1 \in Details /\ ~ShowsError(e1)
    BY <1>0, <1>2, ReduceOne DEF Reduced
  <2>2. e = reduceConnectionState(e1, c, "GENERATING_PKCE_CHALLENGE", s)
    BY <1>2, Reduce2 DEF Opening
  <2>3. "GENERATING_PKCE_CHALLENGE" \in Quiet /\ "GENERATING_PKCE_CHALLENGE" \in Connecting
    BY DEF Quiet, Connecting
  <2> QED
    BY <1>2, <2>1, <2>2, <2>3, QuietStep DEF FirstAwait
<1>3. CASE c = "trino"
  <2> PICK e1 : e1 = reduceConnectionState(d, c, "CHANNEL_SETUP_STARTED", s)
    OBVIOUS
  <2> PICK e2 : e2 = reduceConnectionState(e1, c, "CHANNEL_READY", s)
    OBVIOUS
  <2>1. e1 \in Details /\ ~ShowsError(e1)
    BY <1>0, ReduceOne DEF Reduced
  <2>2. e2 \in Details /\ ~ShowsError(e2) /\ e2.channel = s
    BY <1>0, <2>1, ReduceOne DEF Reduced
  <2>3. Reduce(d, c, <<"CHANNEL_SETUP_STARTED", "CHANNEL_READY">>, s) = e2
    BY Reduce2
  <2>4. e = reduceConnectionState(e2, c, "HEALTH_CHECK_STARTED", s)
    BY <1>3, <2>3, Reduce3 DEF Opening
  <2>5. "HEALTH_CHECK_STARTED" \in Quiet /\ "HEALTH_CHECK_STARTED" \in Connecting
    BY DEF Quiet, Connecting
  <2> QED
    BY <2>2, <2>4, <2>5, QuietStep
<1> QED
  BY <1>1, <1>2, <1>3 DEF Kinds

\* The setups S become T: setup t starts.
Started(S, T, t) ==
  /\ S \in Seq(Setup) /\ t \in Setup /\ t.pc \notin Ended
  /\ T = Append(S, t)

LEMMA StartedSetups ==
  ASSUME NEW S, NEW T, NEW t, Started(S, T, t)
  PROVE  /\ T \in Seq(Setup) /\ Len(S) + 1 \notin DOMAIN S /\ Len(S) \in Nat
         /\ DOMAIN T = DOMAIN S \cup {Len(S) + 1} /\ T[Len(S) + 1] = t
         /\ \A x \in DOMAIN S : T[x] = S[x]
<1>1. /\ T \in Seq(Setup) /\ Len(T) = Len(S) + 1 /\ T[Len(S) + 1] = t
      /\ \A x \in 1..Len(S) : T[x] = S[x]
  BY AppendProperties DEF Started
<1>2. DOMAIN S = 1..Len(S) /\ DOMAIN T = 1..Len(T) /\ Len(S) \in Nat
  BY <1>1, LenProperties DEF Started
<1> QED
  BY <1>1, <1>2

LEMMA StartPreservesConnection ==
  ASSUME NEW S, NEW T, NEW t, Started(S, T, t),
         NEW e, e.status \in Connecting, ~ShowsError(e), t.pc = "health" => e.channel = Len(S) + 1
  PROVE  /\ Flying(S, t.conn) = {} => ConnectionOK(e, T, t.conn)
         /\ Driven(e, T, t.conn)
<1>1. /\ Len(S) + 1 \notin DOMAIN S /\ DOMAIN T = DOMAIN S \cup {Len(S) + 1} /\ T[Len(S) + 1] = t
      /\ \A x \in DOMAIN S : T[x] = S[x]
  BY StartedSetups
<1>2. Flying(S, t.conn) = {} => \A x \in Flying(T, t.conn) : x = Len(S) + 1
  BY <1>1 DEF Flying
<1>3. Driven(e, T, t.conn)
  BY <1>1 DEF Driven, Drives, Started
<1>4. Checked(e, T, t.conn)
  BY StatusesAreDisjoint DEF Checked, Online
<1> QED
  BY <1>1, <1>2, <1>3, <1>4 DEF ConnectionOK, Alone, Led, Current

LEMMA StartSparesOthers ==
  ASSUME NEW S, NEW T, NEW t, Started(S, T, t), NEW c, c # t.conn, NEW d
  PROVE  /\ ConnectionOK(d, S, c) => ConnectionOK(d, T, c)
         /\ Driven(d, S, c) => Driven(d, T, c)
<1>1. /\ Len(S) + 1 \notin DOMAIN S /\ DOMAIN T = DOMAIN S \cup {Len(S) + 1} /\ T[Len(S) + 1] = t
      /\ \A x \in DOMAIN S : T[x] = S[x]
  BY StartedSetups
<1>2. Flying(T, c) = Flying(S, c) /\ \A x \in Flying(T, c) : T[x] = S[x]
  BY <1>1 DEF Flying
<1>3. Driven(d, S, c) => Driven(d, T, c)
  BY <1>1 DEF Driven
<1>4. Checked(d, S, c) => Checked(d, T, c)
  BY <1>1 DEF Checked
<1>5. Led(d, S, c) => Led(d, T, c)
  BY <1>2 DEF Led
<1> QED
  BY <1>2, <1>3, <1>4, <1>5 DEF ConnectionOK, Alone

LEMMA StartPreserves ==
  ASSUME SetupInv, NEW k \in Kinds, k \in Connectors, NEW owner \in Nat, owner <= Len(links),
         StartSetup(k, k, owner), gate.ready,
         k \notin raced => Flying(setups, k) = {},
         ShownOK(gate', setups', raced), Proceeds(gate, gate'),
         settings' \in [CONNECTOR_TABS -> Nat],
         UNCHANGED <<listener, links, raced>>
  PROVE  SetupInv'
<1> PICK s : s = Len(setups) + 1
  OBVIOUS
<1> PICK t : t = [kind |-> k, conn |-> k, owner |-> owner, pc |-> FirstAwait(k), aborted |-> FALSE,
                  window |-> FALSE, code |-> None]
  OBVIOUS
<1> PICK e : e = Reduce(conn[k], k, Opening(k), s)
  OBVIOUS
<1>1. /\ setups \in Seq(Setup) /\ (\A x \in DOMAIN setups : SetupOK(setups[x]))
      /\ conn \in [Connectors -> Details] /\ s \in Nat
  BY LenProperties DEF SetupInv, TypesOK
<1>2. FirstAwait(k) \in Awaits /\ FirstAwait(k) \notin Ended
  BY DEF FirstAwait, Kinds, Awaits, Ended
<1>3. t \in Setup /\ t.kind = k /\ t.conn = k /\ t.pc = FirstAwait(k) /\ t.owner = owner
  BY <1>2 DEF Setup, None
<1>4. SetupOK(t)
  BY <1>3 DEF SetupOK, FirstAwait, Kinds, LoginAwaits
<1>5. Started(setups, setups', t)
  BY <1>1, <1>2, <1>3 DEF Started, StartSetup
<1>6. /\ setups' \in Seq(Setup) /\ Len(setups) + 1 \notin DOMAIN setups
      /\ DOMAIN setups' = DOMAIN setups \cup {Len(setups) + 1} /\ setups'[Len(setups) + 1] = t
      /\ \A x \in DOMAIN setups : setups'[x] = setups[x]
  BY ONLY <1>5, StartedSetups
<1>7. e \in Details /\ e.status \in Connecting /\ ~ShowsError(e) /\ (t.pc = "health" => e.channel = s)
  <2>1. conn[k] \in Details
    BY <1>1
  <2>2. t.pc = FirstAwait(k)
    BY <1>3
  <2>3. e \in Details /\ e.status \in Connecting /\ ~ShowsError(e) /\ (FirstAwait(k) = "health" => e.channel = s)
    BY ONLY <1>1, <2>1, k \in Kinds, e = Reduce(conn[k], k, Opening(k), s), OpeningStep
  <2> QED
    BY ONLY <2>2, <2>3
<1>8. conn' = [conn EXCEPT ![k] = e]
  BY DEF StartSetup
<1>9. conn' \in [Connectors -> Details] /\ conn'[k] = e /\ \A c \in Connectors : c # k => conn'[c] = conn[c]
  BY ONLY <1>1, <1>7, <1>8, k \in Connectors
<1>10. \A c \in Connectors \ raced' : ConnectionOK(conn'[c], setups', c)
  <2> SUFFICES ASSUME NEW c \in Connectors \ raced
               PROVE  ConnectionOK(conn'[c], setups', c)
    OBVIOUS
  <2>1. CASE c = k
    BY <1>3, <1>5, <1>7, <1>9, <2>1, StartPreservesConnection
  <2>2. CASE c # k
    BY <1>3, <1>5, <1>9, <2>2, StartSparesOthers DEF SetupInv
  <2> QED
    BY <2>1, <2>2
<1>11. \A c \in Connectors : Driven(conn'[c], setups', c)
  <2> SUFFICES ASSUME NEW c \in Connectors
               PROVE  Driven(conn'[c], setups', c)
    OBVIOUS
  <2>1. CASE c = k
    BY <1>3, <1>5, <1>7, <1>9, <2>1, StartPreservesConnection
  <2>2. CASE c # k
    BY <1>3, <1>5, <1>9, <2>2, StartSparesOthers DEF SetupInv
  <2> QED
    BY <2>1, <2>2
<1>12. TypesOK'
  BY <1>4, <1>6, <1>9 DEF SetupInv, TypesOK, ShownOK
<1>13. GateOK(gate', setups', links', listener')
  <2>1. GateOK(gate, setups, links, listener) /\ gate'.ready
    BY DEF SetupInv, Proceeds
  <2>2. gate'.page.inst <= Len(links)
    <3>1. links \in Seq(Links) /\ Len(links) \in Nat /\ gate.page.inst \in Nat
      BY LenProperties DEF SetupInv, TypesOK, Gate, Page
    <3> QED
      BY <2>1, <3>1 DEF GateOK, Proceeds, None
  <2> QED
    BY <1>3, <1>6, <2>1, <2>2 DEF GateOK, Proceeds, ShownOK
<1>14. ListenerOK(listener', setups')
  BY <1>6 DEF SetupInv, ListenerOK
<1> QED
  BY <1>10, <1>11, <1>12, <1>13, <1>14 DEF SetupInv, ShownOK

\* The status of a connection on which no setup runs
LEMMA IdleConnection ==
  ASSUME SetupInv, NEW c \in Connectors \ raced, conn[c].status \notin Connecting
  PROVE  Flying(setups, c) = {}
BY DEF SetupInv, ConnectionOK, Led

LEMMA IdleHealth ==
  ASSUME NEW c, Health(c) \in {"NOT_STARTED", "FAILED", "CANCELLED", "ONLINE"}
  PROVE  conn[c].status \notin Connecting
BY StatusesAreDisjoint DEF Health, ConnectionHealth

LEMMA ShownGate ==
  ASSUME SetupInv
  PROVE  /\ ShownOK(gate, setups, raced) /\ gate.page \in Page
         /\ gate.decision # "UNDECIDED" => gate.ready
         /\ settings \in [CONNECTOR_TABS -> Nat]
         /\ Len(links) \in Nat /\ gate.page.inst \in Nat /\ gate.page.inst <= Len(links)
BY LenProperties DEF SetupInv, TypesOK, GateOK, ShownOK, Gate, Page

LEMMA setupConnectionPreserves ==
  ASSUME SetupInv, NEW c \in CONNECTOR_TABS, setupConnection(c)
  PROVE  SetupInv'
<1>1. c \in Kinds /\ c \in Connectors
  BY DEF CONNECTOR_TABS, Kinds
<1>2. StartSetup(c, c, None) /\ settings' = [settings EXCEPT ![c] = Len(setups')]
      /\ UNCHANGED <<listener, gate, links, raced>> /\ gate.decision = "SETUP_DONE"
  BY DEF setupConnection, OnSettings
<1>3. conn[c].status \notin Connecting
  BY IdleHealth DEF setupConnection, ShowsConnect
<1>4. c \notin raced => Flying(setups, c) = {}
  BY <1>1, <1>3, IdleConnection
<1>5. setups' \in Seq(Setup)
  <2>1. FirstAwait(c) \in Awaits
    BY <1>1 DEF FirstAwait, Kinds, Awaits
  <2> PICK t : t = [kind |-> c, conn |-> c, owner |-> None, pc |-> FirstAwait(c), aborted |-> FALSE,
                    window |-> FALSE, code |-> None]
    OBVIOUS
  <2>2. t \in Setup
    BY <1>1, <2>1 DEF Setup, None
  <2>3. setups' = Append(setups, t) /\ setups \in Seq(Setup)
    BY <1>2 DEF StartSetup, SetupInv, TypesOK
  <2> QED
    BY <2>2, <2>3, AppendProperties
<1>6. settings' \in [CONNECTOR_TABS -> Nat]
  <2>1. Len(setups') \in Nat
    BY <1>5, LenProperties
  <2> QED
    BY <1>2, <2>1, ShownGate
<1>7. ShownOK(gate', setups', raced) /\ Proceeds(gate, gate')
  BY <1>2, ShownGate DEF ShownOK, Proceeds
<1> QED
  BY <1>1, <1>2, <1>4, <1>6, <1>7, ShownGate, StartPreserves DEF None

-----------------------------------------------------------------------------
(***************************************************************************)
(* The steps of the pages that start no setup.                             *)
(***************************************************************************)
LEMMA PagePreserves ==
  ASSUME SetupInv, gate.ready,
         ShownOK(gate', setups, raced), Proceeds(gate, gate'),
         settings' \in [CONNECTOR_TABS -> Nat],
         UNCHANGED <<conn, setups, listener, links, raced>>
  PROVE  SetupInv'
<1>1. TypesOK'
  BY DEF SetupInv, TypesOK, ShownOK
<1>2. GateOK(gate', setups', links', listener')
  <2>1. gate'.page.inst <= Len(links)
    BY ShownGate DEF Proceeds, None
  <2> QED
    BY <2>1 DEF SetupInv, GateOK, ShownOK, Proceeds
<1>3. /\ \A c \in Connectors \ raced' : ConnectionOK(conn'[c], setups', c)
      /\ \A c \in Connectors : Driven(conn'[c], setups', c)
      /\ ListenerOK(listener', setups')
  BY DEF SetupInv
<1> QED
  BY <1>1, <1>2, <1>3 DEF SetupInv, ShownOK

LEMMA UnmountedIsTyped ==
  ASSUME NEW g \in Gate
  PROVE  /\ Unmounted(g) \in Gate
         /\ Unmounted(g).decision = "UNMOUNTED" /\ Unmounted(g).page.inst = None
         /\ Unmounted(g).ready = g.ready /\ Unmounted(g).aborted = g.aborted
<1> PICK h : h = Unmounted(g)
  OBVIOUS
<1>1. h = [g EXCEPT !.decision = "UNMOUNTED", !.page = NoPage]
  BY DEF Unmounted
<1>2. h \in Gate /\ h.decision = "UNMOUNTED" /\ h.page = NoPage /\ h.ready = g.ready /\ h.aborted = g.aborted
  BY ONLY g \in Gate, <1>1, NoPageIsTyped DEF Gate
<1> QED
  BY <1>2, NoPageIsTyped

LEMMA LeavePreserves ==
  ASSUME SetupInv, gate.ready, gate' = Done(gate) \/ gate' = Unmounted(gate),
         UNCHANGED <<conn, setups, listener, settings, links, raced>>
  PROVE  SetupInv'
<1>1. gate \in Gate /\ settings \in [CONNECTOR_TABS -> Nat]
  BY DEF SetupInv, TypesOK
<1>2. ShownOK(gate', setups, raced) /\ Proceeds(gate, gate')
  <2>1. CASE gate' = Done(gate)
    <3>1. /\ gate' \in Gate /\ gate'.decision = "SETUP_DONE" /\ gate'.page.inst = None
          /\ gate'.ready = gate.ready /\ gate'.aborted = gate.aborted
      BY ONLY <1>1, <2>1, DoneIsTyped
    <3> QED
      BY <3>1 DEF ShownOK, Proceeds
  <2>2. CASE gate' = Unmounted(gate)
    <3>1. /\ gate' \in Gate /\ gate'.decision = "UNMOUNTED" /\ gate'.page.inst = None
          /\ gate'.ready = gate.ready /\ gate'.aborted = gate.aborted
      BY ONLY <1>1, <2>2, UnmountedIsTyped
    <3> QED
      BY <3>1 DEF ShownOK, Proceeds
  <2> QED
    BY <2>1, <2>2
<1> QED
  BY <1>1, <1>2, PagePreserves

LEMMA updateParamsPreserves ==
  ASSUME SetupInv, updateParams
  PROVE  SetupInv'
<1>1. gate \in Gate /\ gate.page \in Page /\ gate.ready /\ settings' \in [CONNECTOR_TABS -> Nat]
      /\ ShownOK(gate, setups, raced) /\ gate.decision = "SHOW_CONNECTION_SETUP"
  BY ShownGate DEF ShownOK, updateParams, ShowsPage
<1> PICK q : q = [gate.page EXCEPT !.target = gate.page.conn]
  OBVIOUS
<1>2. q \in Page /\ q.inst = gate.page.inst /\ q.conn = gate.page.conn /\ q.target = gate.page.conn
      /\ q.params = gate.page.params /\ q.busy = gate.page.busy
  BY ONLY <1>1, q = [gate.page EXCEPT !.target = gate.page.conn] DEF Page
<1>3. gate' = [gate EXCEPT !.page = q]
  BY <1>1 DEF updateParams, Gate, Page
<1>4. PageOK(q, setups, raced)
  BY <1>1, <1>2 DEF ShownOK, PageOK
<1>5. ShownOK(gate', setups, raced) /\ Proceeds(gate, gate')
  <2>1. /\ gate' \in Gate /\ gate'.page = q /\ gate'.decision = gate.decision
        /\ gate'.ready = gate.ready /\ gate'.aborted = gate.aborted
    BY ONLY <1>1, <1>2, <1>3 DEF Gate
  <2> QED
    BY <1>1, <1>2, <1>4, <2>1 DEF ShownOK, Proceeds
<1> QED
  BY <1>1, <1>5, PagePreserves DEF updateParams

LEMMA LeaveSettingsPreserves ==
  ASSUME SetupInv, NEW c \in CONNECTOR_TABS, LeaveSettings(c)
  PROVE  SetupInv'
<1>1. ShownOK(gate', setups, raced) /\ Proceeds(gate, gate') /\ gate.ready
  BY ShownGate DEF LeaveSettings, ShownOK, Proceeds
<1>2. settings' \in [CONNECTOR_TABS -> Nat]
  BY ShownGate DEF LeaveSettings, None
<1> QED
  BY <1>1, <1>2, PagePreserves DEF LeaveSettings

(***************************************************************************)
(* startSetup: the page is not busy, so that none of its setups runs; no   *)
(* other setup runs on its connection unless that was reset.               *)
(***************************************************************************)
LEMMA startSetupPreserves ==
  ASSUME SetupInv, ShowsPage, startSetup
  PROVE  SetupInv'
<1>1. gate \in Gate /\ gate.page \in Page /\ gate.ready /\ settings' \in [CONNECTOR_TABS -> Nat]
      /\ ShownOK(gate, setups, raced) /\ gate.decision = "SHOW_CONNECTION_SETUP"
      /\ gate.page.inst # None /\ PageOK(gate.page, setups, raced) /\ gate.page.busy \in BOOLEAN
  BY ShownGate DEF ShownOK, startSetup, ShowsPage, Page
<1>2. UNCHANGED <<listener, settings, links, raced>>
  BY DEF startSetup
<1>3. CASE gate.page.busy
  <2> PICK q : q = [gate.page EXCEPT !.timer = FALSE]
    OBVIOUS
  <2>1. q \in Page /\ q.inst = gate.page.inst /\ q.conn = gate.page.conn /\ q.target = gate.page.target
        /\ q.params = gate.page.params /\ q.busy = gate.page.busy
    BY ONLY <1>1, q = [gate.page EXCEPT !.timer = FALSE] DEF Page
  <2>2. gate' = [gate EXCEPT !.page = q]
    BY <1>1, <1>3 DEF startSetup, Gate, Page
  <2>3. /\ gate' \in Gate /\ gate'.page = q /\ gate'.decision = gate.decision
        /\ gate'.ready = gate.ready /\ gate'.aborted = gate.aborted
    BY ONLY <1>1, <2>1, <2>2 DEF Gate
  <2>4. PageOK(q, setups, raced)
    BY <1>1, <2>1 DEF PageOK
  <2>5. ShownOK(gate', setups, raced) /\ Proceeds(gate, gate')
    BY <1>1, <2>1, <2>3, <2>4 DEF ShownOK, Proceeds
  <2> QED
    BY <1>1, <1>2, <1>3, <2>5, PagePreserves DEF startSetup
<1>4. CASE ~gate.page.busy /\ (gate.page.params = "hyper" \/ ~Consumes(gate.page.target, gate.page.params))
  <2>1. gate' = Done(gate) \/ gate' = Unmounted(gate)
    BY <1>4 DEF startSetup
  <2> QED
    BY <1>1, <1>2, <1>4, <2>1, LeavePreserves DEF startSetup
<1>5. CASE ~gate.page.busy /\ gate.page.params # "hyper" /\ Consumes(gate.page.target, gate.page.params)
  <2> PICK k : k = gate.page.params
    OBVIOUS
  <2> PICK n : n = Len(setups')
    OBVIOUS
  <2>1. k \in Kinds /\ k \in Connectors /\ gate.page.target = k
    BY <1>1, <1>5 DEF Consumes, PageOK
  <2>2. StartSetup(k, k, gate.page.inst)
    BY <1>5, <2>1 DEF startSetup
  <2>3. Owned(setups, gate.page.inst) = {}
    BY <1>1, <1>5 DEF PageOK
  <2>4. \A c \in {gate.page.conn, gate.page.target} \ raced : Flying(setups, c) = {}
    BY <1>1, <2>3 DEF PageOK
  <2>5. k \notin raced => Flying(setups, k) = {}
    BY <2>1, <2>4
  <2> PICK t : t = [kind |-> k, conn |-> k, owner |-> gate.page.inst, pc |-> FirstAwait(k),
                    aborted |-> FALSE, window |-> FALSE, code |-> None]
    OBVIOUS
  <2>6. Started(setups, setups', t) /\ t.owner = gate.page.inst
    <3>1. FirstAwait(k) \in Awaits /\ FirstAwait(k) \notin Ended
      BY <2>1 DEF FirstAwait, Kinds, Awaits, Ended
    <3>2. t \in Setup /\ t.pc \notin Ended
      BY <1>1, <2>1, <3>1 DEF Setup, Page, None
    <3> QED
      BY <2>2, <3>2 DEF Started, StartSetup, SetupInv, TypesOK
  <2>7. /\ setups' \in Seq(Setup) /\ Len(setups) + 1 \notin DOMAIN setups
        /\ DOMAIN setups' = DOMAIN setups \cup {Len(setups) + 1} /\ setups'[Len(setups) + 1] = t
        /\ \A x \in DOMAIN setups : setups'[x] = setups[x]
    BY ONLY <2>6, StartedSetups
  <2>8. n \in Nat
    BY <2>7, LenProperties
  <2> PICK q : q = [gate.page EXCEPT !.timer = FALSE, !.busy = TRUE, !.ctl = n]
    OBVIOUS
  <2>9. q \in Page /\ q.inst = gate.page.inst /\ q.conn = gate.page.conn /\ q.target = gate.page.target
        /\ q.params = gate.page.params /\ q.busy
    BY ONLY <1>1, <2>8, q = [gate.page EXCEPT !.timer = FALSE, !.busy = TRUE, !.ctl = n] DEF Page
  <2>10. gate' = [gate EXCEPT !.page = q]
    BY <1>1, <1>5 DEF startSetup, Gate, Page
  <2>11. /\ gate' \in Gate /\ gate'.page = q /\ gate'.decision = gate.decision
         /\ gate'.ready = gate.ready /\ gate'.aborted = gate.aborted
    BY ONLY <1>1, <2>9, <2>10 DEF Gate
  <2>12. PageOK(q, setups', raced)
    <3>1. \A x \in Owned(setups', q.inst) : x = Len(setups) + 1
      BY <2>3, <2>7, <2>9 DEF Owned
    <3>2. Len(setups) + 1 \in Owned(setups', q.inst)
      BY <2>6, <2>7, <2>9 DEF Owned, Started
    <3>3. \A c \in {q.conn, q.target} \ raced : \A x \in Flying(setups', c) : x = Len(setups) + 1
      BY <2>4, <2>7, <2>9 DEF Flying
    <3>4. q.conn \in Connectors /\ q.target \in Connectors /\ q.params \in Kinds
      BY <1>1, <2>9 DEF PageOK
    <3> QED
      BY <2>9, <3>1, <3>2, <3>3, <3>4 DEF PageOK
  <2>13. ShownOK(gate', setups', raced) /\ Proceeds(gate, gate')
    BY <1>1, <2>9, <2>11, <2>12 DEF ShownOK, Proceeds
  <2> QED
    BY <1>1, <1>2, <2>1, <2>2, <2>5, <2>13, ShownGate, StartPreserves
<1> QED
  BY <1>1, <1>3, <1>4, <1>5

\* Without a setup to call, the page only gets busy.
LEMMA SetupIsMissingPreserves ==
  ASSUME SetupInv, ShowsPage, SetupIsMissing
  PROVE  SetupInv'
<1>1. /\ gate \in Gate /\ gate.page \in Page /\ gate.ready /\ settings' \in [CONNECTOR_TABS -> Nat]
      /\ ShownOK(gate, setups, raced) /\ gate.decision = "SHOW_CONNECTION_SETUP"
      /\ gate.page.inst # None /\ PageOK(gate.page, setups, raced)
  BY ShownGate DEF ShownOK, SetupIsMissing, ShowsPage
<1> PICK q : q = [gate.page EXCEPT !.timer = FALSE, !.busy = TRUE]
  OBVIOUS
<1>2. q \in Page /\ q.inst = gate.page.inst /\ q.conn = gate.page.conn /\ q.target = gate.page.target
      /\ q.params = gate.page.params /\ q.busy
  BY ONLY <1>1, q = [gate.page EXCEPT !.timer = FALSE, !.busy = TRUE] DEF Page
<1>3. gate' = [gate EXCEPT !.page = q]
  BY <1>1 DEF SetupIsMissing, Gate, Page
<1>4. /\ gate' \in Gate /\ gate'.page = q /\ gate'.decision = gate.decision
      /\ gate'.ready = gate.ready /\ gate'.aborted = gate.aborted
  BY ONLY <1>1, <1>2, <1>3 DEF Gate
<1>5. PageOK(q, setups, raced)
  BY <1>1, <1>2 DEF PageOK
<1>6. ShownOK(gate', setups, raced) /\ Proceeds(gate, gate')
  BY <1>1, <1>2, <1>4, <1>5 DEF ShownOK, Proceeds
<1> QED
  BY <1>1, <1>6, PagePreserves DEF SetupIsMissing

-----------------------------------------------------------------------------
(***************************************************************************)
(* Setup events.                                                           *)
(***************************************************************************)
LEMMA NatLeast ==
  ASSUME NEW S \in SUBSET Nat, S # {}
  PROVE  \E m \in S : \A k \in S : m <= k
<1>1. PICK m \in S : \A k \in S : <<k, m>> \notin OpToRel(<, Nat)
  <2>1. IsWellFoundedOn(OpToRel(<, Nat), Nat)
    BY NatLessThanWellFounded
  <2> QED
    BY <2>1, WFMin, Zenon
<1>2. \A k \in S : ~(k < m)
  BY <1>1 DEF OpToRel
<1> QED
  BY <1>2

LEMMA MinIsMember ==
  ASSUME NEW S \in SUBSET Nat, S # {}
  PROVE  Min(S) \in S
<1>1. \E n \in S : \A m \in S : n <= m
  BY NatLeast
<1> QED
  BY <1>1 DEF Min

LEMMA MaxIsMember ==
  ASSUME NEW n \in Nat, NEW S \in SUBSET (1..n), S # {}
  PROVE  Max(S) \in S
<1> PICK B : B = {m \in Nat : \A i \in S : i <= m}
  OBVIOUS
<1>1. n \in B /\ B \in SUBSET Nat /\ B # {}
  OBVIOUS
<1>2. PICK m \in B : \A k \in B : m <= k
  BY <1>1, NatLeast
<1>3. m \in S
  <2> SUFFICES ASSUME m \notin S
               PROVE  FALSE
    OBVIOUS
  <2>1. m \in Nat /\ \A i \in S : i <= m /\ i # m /\ i \in Nat /\ i > 0
    BY <1>2
  <2>2. m > 0
    <3>1. PICK i : i \in S
      OBVIOUS
    <3> QED
      BY <2>1, <3>1
  <2>3. m - 1 \in B
    BY <2>1, <2>2
  <2> QED
    BY <1>2, <2>1, <2>3
<1>4. \A i \in S : i <= m
  BY <1>2
<1> QED
  BY <1>3, <1>4 DEF Max

\* What is applied of an event: known workbooks, and the last of them is applied.
LEMMA AppliedWorkbooks ==
  ASSUME NEW event \in Links
  PROVE  /\ Applied(event) \in Seq(Connectors \cup {Unknown})
         /\ Applied(event) # <<>> => Last(Applied(event)) \in ToSet(Applied(event))
<1> PICK X : X = Connectors \cup {Unknown}
  OBVIOUS
<1>1. event \in Seq(X)
  BY SetupAssumption
<1>2. Applied(event) \in Seq(X)
  <2> PICK stops : stops = {i \in DOMAIN event : event[i] \notin {"hyper", "salesforce"}}
    OBVIOUS
  <2>1. CASE stops = {}
    BY <1>1, <2>1 DEF Applied
  <2>2. CASE stops # {}
    <3> PICK n : n = Min(stops)
      OBVIOUS
    <3>1. DOMAIN event = 1..Len(event) /\ Len(event) \in Nat
      BY <1>1, LenProperties
    <3>2. stops \in SUBSET Nat /\ stops \subseteq 1..Len(event)
      BY <3>1
    <3>3. n \in 1..Len(event)
      BY <2>2, <3>2, MinIsMember
    <3>4. Applied(event) = SubSeq(event, 1, IF event[n] = Unknown THEN n - 1 ELSE n)
      BY <2>2 DEF Applied
    <3> PICK k : k = IF event[n] = Unknown THEN n - 1 ELSE n
      OBVIOUS
    <3>5. k \in 0..Len(event)
      BY <3>1, <3>3
    <3>6. SubSeq(event, 1, k) \in Seq(X)
      <4>1. \A i \in 1..Len(event) : event[i] \in X
        BY <1>1, <3>1
      <4>2. 1 \in Int /\ k \in Int /\ \A i \in 1..k : event[i] \in X
        BY ONLY <3>1, <3>5, <4>1
      <4> QED
        BY ONLY <4>2, SubSeqProperties
    <3> QED
      BY <3>4, <3>6
  <2> QED
    BY <2>1, <2>2
<1>3. ASSUME Applied(event) # <<>>
      PROVE  Last(Applied(event)) \in ToSet(Applied(event))
  <2> PICK a : a = Applied(event)
    OBVIOUS
  <2>1. a \in Seq(X) /\ Len(a) \in Nat /\ DOMAIN a = 1..Len(a) /\ Len(a) # 0
    BY <1>2, <1>3, LenProperties, EmptySeq
  <2>2. Len(a) \in DOMAIN a
    BY <2>1
  <2>3. a[Len(a)] \in ToSet(a)
    BY <2>2 DEF ToSet
  <2> QED
    BY <2>3 DEF Last
<1> QED
  BY <1>2, <1>3

LEMMA ResetConnection ==
  ASSUME NEW d \in Details, NEW c
  PROVE  /\ Reset(d, c) \in Details /\ Reset(d, c).status = "NOT_STARTED"
         /\ ShowsError(Reset(d, c)) => ShowsError(d) /\ c \notin {"hyper", "salesforce"}
<1>0. "NOT_STARTED" \in ConnectionStatus
  BY DEF ConnectionStatus
<1>1. CASE c \in {"hyper", "salesforce"}
  BY <1>0, <1>1 DEF Reset, createDetails, Details, ShowsError, None
<1>2. CASE c \notin {"hyper", "salesforce"}
  <2> PICK e : e = [d EXCEPT !.status = "NOT_STARTED"]
    OBVIOUS
  <2>1. e \in Details /\ e.status = "NOT_STARTED" /\ (ShowsError(e) => ShowsError(d))
    BY <1>0 DEF Details, ShowsError
  <2> QED
    BY <1>2, <2>1 DEF Reset
<1> QED
  BY <1>1, <1>2

\* Connections are reset: those on which a setup runs count as raced from now on.
LEMMA ResetsPreserve ==
  ASSUME SetupInv, NEW resets,
         conn' = [c \in Connectors |-> IF c \in resets THEN Reset(conn[c], c) ELSE conn[c]],
         raced' = raced \cup {c \in resets : InFlight(c) # {}},
         setups' = setups
  PROVE  /\ conn' \in [Connectors -> Details]
         /\ \A c \in Connectors \ raced' : ConnectionOK(conn'[c], setups', c)
         /\ \A c \in Connectors : Driven(conn'[c], setups', c)
         /\ \A c \in resets \ raced' : Flying(setups, c) = {}
<1>1. conn \in [Connectors -> Details]
  BY DEF SetupInv, TypesOK
<1>2. \A c : InFlight(c) = Flying(setups, c)
  BY DEF InFlight, Flying
<1>3. conn' \in [Connectors -> Details]
  BY <1>1, ResetConnection
<1>4. \A c \in Connectors \ raced' : ConnectionOK(conn'[c], setups', c)
  <2> SUFFICES ASSUME NEW c \in Connectors, c \notin raced'
               PROVE  ConnectionOK(conn'[c], setups, c)
    OBVIOUS
  <2>1. c \notin raced /\ ConnectionOK(conn[c], setups, c) /\ conn[c] \in Details
    BY <1>1 DEF SetupInv
  <2>2. CASE c \notin resets
    BY <2>1, <2>2
  <2>3. CASE c \in resets
    <3> PICK e : e = Reset(conn[c], c)
      OBVIOUS
    <3>1. Flying(setups, c) = {} /\ conn'[c] = e
      BY <1>2, <2>3
    <3>2. /\ e.status = "NOT_STARTED"
          /\ ShowsError(e) => ShowsError(conn[c]) /\ c \notin {"hyper", "salesforce"}
      BY <2>1, ResetConnection
    <3>3. Current(e, c)
      BY <2>1, <3>2 DEF ConnectionOK, Current, Kinds
    <3> QED
      BY <3>1, <3>2, <3>3 DEF ConnectionOK, Alone, Led, Checked, Online
  <2> QED
    BY <2>2, <2>3
<1>5. \A c \in Connectors : Driven(conn'[c], setups', c)
  <2> SUFFICES ASSUME NEW c \in Connectors
               PROVE  Driven(conn'[c], setups, c)
    OBVIOUS
  <2>1. CASE c \notin resets
    BY <2>1 DEF SetupInv
  <2>2. CASE c \in resets
    BY <1>1, <2>2, ResetConnection, StatusesAreDisjoint DEF Driven
  <2> QED
    BY <2>1, <2>2
<1>6. \A c \in resets \ raced' : Flying(setups, c) = {}
  BY <1>2
<1> QED
  BY <1>3, <1>4, <1>5, <1>6

\* The page of connection c: the one that is shown already, or a new one.
LEMMA SetupPageOK ==
  ASSUME SetupInv, NEW c \in Kinds, c \in Connectors,
         NEW inst \in Nat, inst # None, Owned(setups, inst) = {},
         NEW r, raced \subseteq r, c \notin r => Flying(setups, c) = {}
  PROVE  /\ SetupPage(c, inst) \in Page
         /\ SetupPage(c, inst).inst \in {inst, gate.page.inst} /\ SetupPage(c, inst).inst # None
         /\ PageOK(SetupPage(c, inst), setups, r)
<1> PICK q : q = SetupPage(c, inst)
  OBVIOUS
<1>1. CASE gate.page.inst # None
  <2>1. gate.page \in Page /\ PageOK(gate.page, setups, raced)
    BY <1>1, ShownGate DEF ShownOK
  <2>2. q = [gate.page EXCEPT !.conn = c, !.timer = gate.page.auto]
    BY <1>1 DEF SetupPage
  <2>3. /\ q \in Page /\ q.inst = gate.page.inst /\ q.conn = c /\ q.target = gate.page.target
        /\ q.params = gate.page.params /\ q.busy = gate.page.busy
    BY ONLY <2>1, <2>2, c \in Connectors DEF Page
  <2>4. PageOK(q, setups, r)
    BY <2>1, <2>3 DEF PageOK
  <2> QED
    BY <1>1, <2>3, <2>4
<1>2. CASE gate.page.inst = None
  <2>1. q = [inst |-> inst, conn |-> c, params |-> c, target |-> c, busy |-> FALSE, ctl |-> None,
             auto |-> requiresSwitchingToNative(c), timer |-> requiresSwitchingToNative(c)]
    BY <1>2 DEF SetupPage
  <2>2. requiresSwitchingToNative(c) \in BOOLEAN
    BY DEF requiresSwitchingToNative
  <2>3. q \in Page /\ q.inst = inst /\ q.conn = c /\ q.target = c /\ q.params = c
    BY <2>1, <2>2 DEF Page, None
  <2>4. PageOK(q, setups, r)
    BY <2>3 DEF PageOK
  <2> QED
    BY <2>3, <2>4
<1> QED
  BY <1>1, <1>2

LEMMA ApplyPreserves ==
  ASSUME SetupInv, NEW g \in Gate, g.page = gate.page, g.decision = gate.decision, g.ready,
         NEW events \in Seq(Links), ApplySetup(g, events),
         links' \in Seq(Links), Len(links) <= Len(links'), Len(links') # 0,
         \A s \in DOMAIN setups : setups[s].owner < Len(links'),
         setups' = setups, listener' \in Listener, listener'.oauth = listener.oauth
  PROVE  SetupInv'
<1> PICK applied : applied = {i \in DOMAIN events : Applied(events[i]) # <<>>}
  OBVIOUS
<1> PICK resets : resets = UNION {ToSet(Applied(events[i])) : i \in applied}
  OBVIOUS
<1> PICK n : n = Len(links')
  OBVIOUS
<1>1. /\ conn' = [c \in Connectors |-> IF c \in resets THEN Reset(conn[c], c) ELSE conn[c]]
      /\ raced' = raced \cup {c \in resets : InFlight(c) # {}}
      /\ gate' = IF applied = {} THEN g ELSE Decide(g, Last(Applied(events[Max(applied)])), n)
      /\ KeepSettings(gate'.decision)
  BY DEF ApplySetup
<1>2. /\ conn' \in [Connectors -> Details]
      /\ \A c \in Connectors \ raced' : ConnectionOK(conn'[c], setups', c)
      /\ \A c \in Connectors : Driven(conn'[c], setups', c)
      /\ \A c \in resets \ raced' : Flying(setups, c) = {}
  BY ONLY SetupInv, <1>1, setups' = setups, ResetsPreserve
<1>3. n \in Nat /\ n # None /\ Owned(setups, n) = {}
  <2>1. n \in Nat /\ n # 0
    BY LenProperties
  <2>2. \A s \in DOMAIN setups : setups[s].owner \in Nat
    BY DEF SetupInv, TypesOK, SetupOK, Setup
  <2> QED
    BY <2>1, <2>2 DEF Owned, None
<1>4. \A i \in DOMAIN events : events[i] \in Links
  OBVIOUS
<1>5. resets \subseteq Connectors \cup {Unknown}
  <2> SUFFICES ASSUME NEW i \in applied
               PROVE  ToSet(Applied(events[i])) \subseteq Connectors \cup {Unknown}
    OBVIOUS
  <2>1. Applied(events[i]) \in Seq(Connectors \cup {Unknown})
    BY <1>4, AppliedWorkbooks
  <2> QED
    BY <2>1 DEF ToSet
<1>6. raced' \subseteq Connectors /\ raced \subseteq raced'
  <2>1. Flying(setups, Unknown) = {}
    BY DEF Flying, SetupInv, TypesOK, SetupOK, Setup, Kinds, Unknown
  <2>2. InFlight(Unknown) = {}
    BY <2>1 DEF InFlight, Flying
  <2>3. raced \subseteq Connectors
    BY DEF SetupInv, TypesOK
  <2> QED
    BY <1>1, <1>5, <2>2, <2>3
<1>7. ShownOK(g, setups, raced')
  BY <1>6, ShownGate DEF ShownOK, PageOK
<1>8. /\ ShownOK(gate', setups, raced') /\ gate'.ready
      /\ gate'.page.inst \in {None, n, gate.page.inst}
  <2>1. CASE applied = {}
    BY <1>1, <1>7, <2>1
  <2>2. CASE applied # {}
    <3> PICK i : i = Max(applied)
      OBVIOUS
    <3> PICK c : c = Last(Applied(events[i]))
      OBVIOUS
    <3>1. i \in applied
      <4>1. DOMAIN events = 1..Len(events) /\ Len(events) \in Nat
        BY LenProperties
      <4>2. applied \in SUBSET (1..Len(events))
        BY <4>1
      <4> QED
        BY ONLY <2>2, <4>1, <4>2, i = Max(applied), MaxIsMember
    <3>2. c \in resets
      BY <1>4, <3>1, AppliedWorkbooks
    <3>3. gate' = Decide(g, c, n)
      BY <1>1, <2>2
    <3>4. CASE c \in Kinds
      <4>1. c \in Connectors
        BY <1>5, <3>2, <3>4 DEF Kinds, Unknown
      <4> PICK q : q = SetupPage(c, n)
        OBVIOUS
      <4>2. c \notin raced' => Flying(setups, c) = {}
        BY <1>2, <3>2
      <4>3. /\ q \in Page /\ q.inst \in {n, gate.page.inst} /\ q.inst # None
            /\ PageOK(q, setups, raced')
        BY <1>3, <1>6, <3>4, <4>1, <4>2, SetupPageOK
      <4>4. gate' = [g EXCEPT !.decision = "SHOW_CONNECTION_SETUP", !.page = q]
        BY <3>3, <3>4 DEF Decide, Kinds
      <4>5. gate' \in Gate /\ gate'.decision = "SHOW_CONNECTION_SETUP" /\ gate'.page = q /\ gate'.ready = g.ready
        BY ONLY g \in Gate, <4>3, <4>4 DEF Gate
      <4> QED
        BY <4>3, <4>5 DEF ShownOK
    <3>5. CASE c \notin Kinds
      <4>1. gate' = Done(g)
        BY <3>3, <3>5 DEF Decide, Kinds
      <4> QED
        BY <4>1, DoneIsTyped DEF ShownOK
    <3> QED
      BY <3>4, <3>5
  <2> QED
    BY <2>1, <2>2
<1>9. TypesOK'
  <2>1. settings' \in [CONNECTOR_TABS -> Nat]
    BY <1>1, ShownGate DEF KeepSettings, None
  <2> QED
    BY <1>2, <1>6, <1>8, <2>1 DEF SetupInv, TypesOK, ShownOK
<1>10. GateOK(gate', setups', links', listener')
  <2>1. gate'.page.inst <= Len(links')
    BY <1>3, <1>8, ShownGate DEF None
  <2>2. links' # <<>>
    BY LenProperties, EmptySeq
  <2>3. \A s \in DOMAIN setups : setups[s].owner <= Len(links')
    BY <1>3 DEF SetupInv, TypesOK, SetupOK, Setup
  <2> QED
    BY <1>8, <2>1, <2>2, <2>3 DEF GateOK, ShownOK
<1>11. ListenerOK(listener', setups')
  BY DEF SetupInv, ListenerOK
<1> QED
  BY <1>2, <1>8, <1>9, <1>10, <1>11 DEF SetupInv, ShownOK

LEMMA resetSetupPreserves ==
  ASSUME SetupInv, NEW c \in CONNECTOR_TABS, resetSetup(c)
  PROVE  SetupInv'
<1>1. c \in Connectors /\ conn \in [Connectors -> Details] /\ raced \subseteq Connectors
  BY DEF CONNECTOR_TABS, SetupInv, TypesOK
<1>2. /\ conn' = [x \in Connectors |-> IF x \in {c} THEN Reset(conn[x], x) ELSE conn[x]]
      /\ raced' = raced \cup {x \in {c} : InFlight(x) # {}}
      /\ UNCHANGED <<setups, listener, gate, settings, links>> /\ gate.decision = "SETUP_DONE"
  BY <1>1 DEF resetSetup, OnSettings
<1>3. /\ conn' \in [Connectors -> Details]
      /\ \A x \in Connectors \ raced' : ConnectionOK(conn'[x], setups', x)
      /\ \A x \in Connectors : Driven(conn'[x], setups', x)
  BY ONLY SetupInv, <1>2, ResetsPreserve
<1>4. TypesOK'
  BY <1>1, <1>2, <1>3 DEF SetupInv, TypesOK
<1> QED
  BY <1>2, <1>3, <1>4 DEF SetupInv, GateOK, ListenerOK

LEMMA dispatchSetupPreserves ==
  ASSUME SetupInv, NEW event \in Links, dispatchSetup(event)
  PROVE  SetupInv'
<1>1. /\ gate \in Gate /\ listener \in Listener /\ links \in Seq(Links)
      /\ <<event>> \in Seq(Links) /\ GateOK(gate, setups, links, listener)
  BY DEF SetupInv, TypesOK
<1>2. links' \in Seq(Links) /\ Len(links') = Len(links) + 1 /\ Len(links) \in Nat /\ links' # <<>>
  BY <1>1, AppendProperties, LenProperties DEF dispatchSetup
<1>3. \A s \in DOMAIN setups : setups[s].owner < Len(links')
  BY <1>1, <1>2 DEF GateOK, SetupInv, TypesOK, SetupOK, Setup
<1>4. setups' = setups
  BY DEF dispatchSetup
<1> PICK g : g = [gate EXCEPT !.aborted = TRUE]
  OBVIOUS
<1>5. g \in Gate /\ g.page = gate.page /\ g.decision = gate.decision /\ g.ready = gate.ready
      /\ g.pending = gate.pending
  BY <1>1 DEF Gate
<1>6. CASE listener.subscribed /\ gate.ready
  <2>1. ApplySetup(g, <<event>>) /\ listener' = listener
    BY <1>6 DEF dispatchSetup, runSetup
  <2> QED
    <3>1. /\ g \in Gate /\ g.page = gate.page /\ g.decision = gate.decision /\ g.ready
          /\ links' \in Seq(Links) /\ Len(links) <= Len(links') /\ Len(links') # 0
          /\ listener' \in Listener /\ listener'.oauth = listener.oauth
      BY <1>1, <1>2, <1>5, <1>6, <2>1
    <3> QED
      BY ONLY SetupInv, <1>1, <1>3, <1>4, <2>1, <3>1, ApplyPreserves
<1>7. CASE listener.subscribed /\ ~gate.ready
  <2>1. gate' \in {g, [g EXCEPT !.pending = @ \o <<event>>]}
        /\ UNCHANGED <<conn, settings, raced, listener>>
    BY <1>7 DEF dispatchSetup, runSetup
  <2>2. g.pending \o <<event>> \in Seq(Links)
    <3>1. g.pending \in Seq(Links)
      BY <1>5 DEF Gate
    <3> QED
      BY <1>1, <3>1, ConcatProperties
  <2>3. /\ gate' \in Gate /\ gate'.page = gate.page /\ gate'.decision = gate.decision
        /\ gate'.ready = gate.ready
    BY ONLY <1>5, <2>1, <2>2 DEF Gate
  <2>4. TypesOK'
    BY <1>2, <1>4, <2>1, <2>3 DEF SetupInv, TypesOK
  <2>5. GateOK(gate', setups', links', listener')
    BY <1>1, <1>2, <1>4, <2>1, <2>3, ShownGate DEF GateOK, SetupInv, TypesOK, SetupOK, Setup
  <2> QED
    BY <1>4, <2>1, <2>3, <2>4, <2>5 DEF SetupInv
<1>8. CASE ~listener.subscribed
  <2>1. listener' = [listener EXCEPT !.queued = <<event>>]
        /\ UNCHANGED <<conn, gate, settings, raced>>
    BY <1>8 DEF dispatchSetup
  <2>2. listener' \in Listener /\ listener'.oauth = listener.oauth
    BY ONLY <1>1, <2>1 DEF Listener
  <2>3. TypesOK'
    BY <1>2, <1>4, <2>1, <2>2 DEF SetupInv, TypesOK
  <2>4. GateOK(gate', setups', links', listener')
    BY <1>1, <1>2, <1>4, <2>1, ShownGate DEF GateOK, SetupInv, TypesOK, SetupOK, Setup
  <2>5. ListenerOK(listener', setups')
    BY <1>4, <2>2 DEF SetupInv, ListenerOK
  <2> QED
    BY <1>4, <2>1, <2>3, <2>4, <2>5 DEF SetupInv
<1> QED
  BY <1>6, <1>7, <1>8

LEMMA subscribeSetupEventsPreserves ==
  ASSUME SetupInv, subscribeSetupEvents
  PROVE  SetupInv'
<1>1. gate \in Gate /\ listener \in Listener /\ listener.queued \in Seq(Links)
  BY DEF SetupInv, TypesOK, Listener
<1>2. listener' = [listener EXCEPT !.subscribed = TRUE, !.queued = <<>>]
      /\ UNCHANGED <<conn, setups, settings, links, raced>>
  BY DEF subscribeSetupEvents
<1>3. listener' \in Listener /\ listener'.oauth = listener.oauth /\ listener'.queued = <<>>
  <2>1. <<>> \in Seq(Links)
    OBVIOUS
  <2> QED
    BY ONLY <1>1, <1>2, <2>1 DEF Listener
<1>4. /\ gate' \in Gate /\ gate'.page = gate.page /\ gate'.decision = gate.decision
      /\ gate'.ready = gate.ready /\ (gate'.aborted => gate.aborted \/ listener.queued # <<>>)
  <2>1. CASE listener.queued # <<>>
    <3>1. gate' = [gate EXCEPT !.aborted = TRUE, !.pending = listener.queued]
      BY <2>1 DEF subscribeSetupEvents
    <3> QED
      BY ONLY <1>1, <2>1, <3>1 DEF Gate
  <2>2. CASE listener.queued = <<>>
    BY <1>1, <2>2 DEF subscribeSetupEvents
  <2> QED
    BY <2>1, <2>2
<1>5. TypesOK'
  BY <1>2, <1>3, <1>4 DEF SetupInv, TypesOK
<1>6. GateOK(gate', setups', links', listener')
  BY <1>2, <1>3, <1>4 DEF SetupInv, GateOK
<1>7. ListenerOK(listener', setups')
  BY <1>2, <1>3 DEF SetupInv, ListenerOK
<1> QED
  BY <1>2, <1>4, <1>5, <1>6, <1>7 DEF SetupInv

LEMMA defaultWorkbooksFailPreserves ==
  ASSUME SetupInv, defaultWorkbooksFail
  PROVE  SetupInv'
<1>1. /\ gate \in Gate /\ <<>> \in Seq(Links)
      /\ gate' = [gate EXCEPT !.rejected = TRUE, !.pending = <<>>]
      /\ UNCHANGED <<conn, setups, listener, settings, links, raced>>
  BY DEF SetupInv, TypesOK, defaultWorkbooksFail
<1>2. /\ gate' \in Gate /\ gate'.page = gate.page /\ gate'.decision = gate.decision
      /\ gate'.ready = gate.ready /\ gate'.aborted = gate.aborted
  BY ONLY <1>1 DEF Gate
<1>3. TypesOK'
  BY <1>1, <1>2 DEF SetupInv, TypesOK
<1>4. GateOK(gate', setups', links', listener') /\ ListenerOK(listener', setups')
  BY <1>1, <1>2 DEF SetupInv, GateOK, ListenerOK
<1> QED
  BY <1>1, <1>2, <1>3, <1>4 DEF SetupInv

LEMMA setupDefaultWorkbookPreserves ==
  ASSUME SetupInv, setupDefaultWorkbook
  PROVE  SetupInv'
<1>1. gate \in Gate /\ listener \in Listener /\ links \in Seq(Links) /\ gate.pending \in Seq(Links)
  BY DEF SetupInv, TypesOK, Gate
<1>2. /\ ~gate.ready /\ DefaultsResolve(gate.pending) /\ links' = links
      /\ UNCHANGED <<setups, listener>>
  BY DEF setupDefaultWorkbook
<1>3. setups = <<>> /\ gate.decision = "UNDECIDED" /\ (gate.aborted => links # <<>>) /\ gate.page.inst = None
  BY <1>2 DEF SetupInv, GateOK
<1>4. CASE gate.aborted
  <2> PICK g : g = [gate EXCEPT !.ready = TRUE, !.pending = <<>>]
    OBVIOUS
  <2>0. <<>> \in Seq(Links)
    OBVIOUS
  <2>1. g \in Gate /\ g.page = gate.page /\ g.decision = gate.decision /\ g.ready
    BY ONLY <1>1, <2>0, g = [gate EXCEPT !.ready = TRUE, !.pending = <<>>] DEF Gate
  <2>2. ApplySetup(g, gate.pending)
    BY <1>2, <1>4 DEF DefaultsResolve
  <2>3. Len(links) \in Nat /\ Len(links) # 0
    BY <1>1, <1>3, <1>4, LenProperties, EmptySeq
  <2> QED
    <3>1. /\ links' \in Seq(Links) /\ Len(links) <= Len(links') /\ Len(links') # 0
          /\ \A s \in DOMAIN setups : setups[s].owner < Len(links')
          /\ setups' = setups /\ listener' \in Listener /\ listener'.oauth = listener.oauth
      BY <1>1, <1>2, <1>3, <2>3
    <3> QED
      BY ONLY SetupInv, <1>1, <2>1, <2>2, <3>1, ApplyPreserves
<1>5. CASE ~gate.aborted
  <2> PICK g : g = [gate EXCEPT !.ready = TRUE]
    OBVIOUS
  <2>1. g \in Gate /\ g.ready /\ g.aborted = gate.aborted
    BY <1>1 DEF Gate
  <2>2. gate' = Done(g) /\ UNCHANGED <<conn, settings, raced>>
    BY <1>2, <1>5 DEF DefaultsResolve
  <2>3. /\ gate' \in Gate /\ gate'.decision = "SETUP_DONE" /\ gate'.page.inst = None
        /\ gate'.ready /\ gate'.aborted = gate.aborted
    BY <2>1, <2>2, DoneIsTyped
  <2>4. TypesOK'
    BY <1>2, <2>2, <2>3 DEF SetupInv, TypesOK
  <2>5. GateOK(gate', setups', links', listener')
    BY <1>1, <1>2, <1>3, <2>3, LenProperties DEF SetupInv, GateOK, None
  <2>6. ListenerOK(listener', setups')
    BY <1>2 DEF SetupInv, ListenerOK
  <2> QED
    BY <1>2, <2>2, <2>3, <2>4, <2>5, <2>6 DEF SetupInv
<1> QED
  BY <1>4, <1>5

-----------------------------------------------------------------------------
(***************************************************************************)
(* The invariant.                                                          *)
(***************************************************************************)
LEMMA SetupInit ==
  ASSUME Init
  PROVE  SetupInv
<1>1. {"NOT_STARTED", "HEALTH_CHECK_SUCCEEDED"} \subseteq ConnectionStatus \ Connecting
  BY StatusesAreDisjoint DEF ConnectionStatus
<1>2. \A c : /\ createConnectionState(c) \in Details /\ ~ShowsError(createConnectionState(c))
             /\ createConnectionState(c).status \notin Connecting
             /\ c # "demo" => ~Online(createConnectionState(c))
  <2> TAKE c
  <2> PICK e : e = createDetails
    OBVIOUS
  <2>1. e \in Details /\ ~ShowsError(e) /\ e.status = "NOT_STARTED"
    BY <1>1 DEF createDetails, Details, ShowsError, None
  <2>2. CASE c # "demo"
    BY <1>1, <2>1, <2>2 DEF createConnectionState, Online
  <2>3. CASE c = "demo"
    <3> PICK d : d = [e EXCEPT !.status = "HEALTH_CHECK_SUCCEEDED"]
      OBVIOUS
    <3>1. d \in Details /\ ~ShowsError(d) /\ d.status = "HEALTH_CHECK_SUCCEEDED"
      BY ONLY <1>1, <2>1, d = [e EXCEPT !.status = "HEALTH_CHECK_SUCCEEDED"] DEF Details, ShowsError
    <3> QED
      BY <1>1, <2>3, <3>1 DEF createConnectionState
  <2> QED
    BY <2>2, <2>3
<1>3. setups = <<>> /\ links = <<>> /\ raced = {} /\ DOMAIN setups = {}
  BY DEF Init
<1>4. conn \in [Connectors -> Details] /\ \A c \in Connectors : conn[c] = createConnectionState(c)
  BY <1>2 DEF Init
<1>5. \A c \in Connectors : ConnectionOK(conn[c], setups, c) /\ Driven(conn[c], setups, c)
  BY <1>2, <1>3, <1>4 DEF ConnectionOK, Alone, Led, Checked, Current, Driven, Flying
<1>6. <<>> \in Seq(Setup) /\ <<>> \in Seq(Links) /\ Len(<<>>) = 0
  BY EmptySeq
<1>7. /\ gate \in Gate /\ ~gate.ready /\ ~gate.aborted /\ gate.decision = "UNDECIDED"
      /\ gate.page.inst = None
  BY <1>6, NoPageIsTyped DEF Init, Gate
<1>8. listener \in Listener /\ listener.oauth = None /\ listener.queued = <<>>
  BY <1>6 DEF Init, Listener, None
<1>9. settings \in [CONNECTOR_TABS -> Nat]
  BY DEF Init, None
<1>10. TypesOK
  BY <1>3, <1>4, <1>6, <1>7, <1>8, <1>9 DEF TypesOK
<1>11. GateOK(gate, setups, links, listener)
  BY <1>3, <1>6, <1>7, <1>8 DEF GateOK, None
<1> QED
  BY <1>5, <1>7, <1>8, <1>10, <1>11 DEF SetupInv, ListenerOK

LEMMA UserStepPreserves ==
  ASSUME SetupInv, UserStep
  PROVE  SetupInv'
<1>1. CASE \E event \in Links : dispatchSetup(event)
  BY <1>1, dispatchSetupPreserves
<1>2. CASE ConnectOnPage \/ AutoTrigger
  BY <1>2, startSetupPreserves, SetupIsMissingPreserves DEF ConnectOnPage, AutoTrigger
<1>3. CASE updateParams
  BY <1>3, updateParamsPreserves
<1>4. CASE CancelOnPage
  <2>1. gate.page.ctl \in Nat /\ gate.page.ctl # None /\ Abort(gate.page.ctl)
    BY <1>4, ShownGate DEF CancelOnPage, Page
  <2> QED
    BY <2>1, AbortPreserves
<1>5. CASE ClosePage
  <2>1. gate.ready
    BY <1>5, ShownGate DEF ClosePage, ShowsPage
  <2> QED
    BY <1>5, <2>1, LeavePreserves DEF ClosePage
<1>6. ASSUME NEW c \in CONNECTOR_TABS,
             setupConnection(c) \/ cancelSetup(c) \/ resetSetup(c) \/ LeaveSettings(c)
      PROVE  SetupInv'
  <2>1. CASE cancelSetup(c)
    <3>1. settings[c] \in Nat /\ settings[c] # None /\ Abort(settings[c])
      BY <2>1, ShownGate DEF cancelSetup
    <3> QED
      BY <3>1, AbortPreserves
  <2> QED
    BY <1>6, <2>1, setupConnectionPreserves, resetSetupPreserves, LeaveSettingsPreserves
<1> QED
  BY <1>1, <1>2, <1>3, <1>4, <1>5, <1>6 DEF UserStep

LEMMA SetupNext ==
  ASSUME SetupInv, [Next]_setupVars
  PROVE  SetupInv'
<1>1. CASE StartStep
  BY <1>1, subscribeSetupEventsPreserves, setupDefaultWorkbookPreserves, defaultWorkbooksFailPreserves
  DEF StartStep
<1>2. CASE UserStep
  BY <1>2, UserStepPreserves
<1>3. ASSUME NEW s \in SetupIds,
             \/ SetupStep(s) \/ HyperCheckFails(s) \/ SalesforceCheckFails(s)
             \/ OAuthSucceeded(s) \/ OAuthFails(s)
      PROVE  SetupInv'
  BY <1>3, SetupStepPreserves
<1>4. CASE UNCHANGED setupVars
  BY <1>4 DEF setupVars, SetupInv, TypesOK
<1> QED
  BY <1>1, <1>2, <1>3, <1>4 DEF Next

\* The invariant that the theorems below rest on holds in every state the app reaches.
THEOREM SetupInvariant == Spec => []SetupInv
<1>1. Init => SetupInv
  BY SetupInit
<1>2. SetupInv /\ [Next]_setupVars => SetupInv'
  BY SetupNext
<1> QED
  BY <1>1, <1>2, PTL DEF Spec

\* Every variable keeps its type, whatever is dispatched, cancelled or linked.
THEOREM SetupTypesHold == Spec => []TypesOK
<1>1. SetupInv => TypesOK
  BY DEF SetupInv
<1> QED
  BY <1>1, SetupInvariant, PTL

LEMMA HealthOfStatus ==
  ASSUME TypesOK, NEW c \in Connectors
  PROVE  /\ Health(c) = "ONLINE" => Online(conn[c])
         /\ Health(c) = "CONNECTING" => conn[c].status \in Connecting
         /\ conn[c].status \in Failed \cup Cancelled => Health(c) \in {"FAILED", "CANCELLED"}
         /\ conn[c].status = "NOT_STARTED" => Health(c) = "NOT_STARTED"
<1>1. conn[c].status \in ConnectionStatus
  BY DEF TypesOK, Details
<1> QED
  BY <1>1 DEF Health, ConnectionHealth, Online, ConnectionStatus, Connecting, Cancelled, Failed

\* Two setups never run on one connection, unless a link reset it under one of them.
THEOREM SetupsAreAlone == Spec => []OneSetupPerConnection
<1>1. SetupInv => OneSetupPerConnection
  BY DEF SetupInv, ConnectionOK, Alone, Flying, OneSetupPerConnection, InFlight
<1> QED
  BY <1>1, SetupInvariant, PTL

\* A connection is online on the channel whose health check succeeded.
THEOREM OnlineConnectionsAreChecked == Spec => []OnlineIsChecked
<1>1. SetupInv => OnlineIsChecked
  <2> SUFFICES ASSUME SetupInv, NEW c \in Connectors \ (raced \cup {"demo"}), Health(c) = "ONLINE"
               PROVE  conn[c].channel # None /\ setups[conn[c].channel].pc = "succeeded"
    BY DEF OnlineIsChecked
  <2>1. Online(conn[c])
    BY HealthOfStatus DEF SetupInv
  <2>2. conn[c].channel \in DOMAIN setups /\ setups[conn[c].channel].pc = "succeeded"
    BY <2>1 DEF SetupInv, ConnectionOK, Checked
  <2>3. conn[c].channel # 0
    BY <2>2, LenProperties DEF SetupInv, TypesOK
  <2> QED
    BY <2>2, <2>3 DEF None
<1> QED
  BY <1>1, SetupInvariant, PTL

\* A connection that is connecting has a setup that runs, or one that was cancelled and
\* ended without telling the reducer: even when links reset connections under setups.
THEOREM ConnectingConnectionsAreDriven == Spec => []ConnectingIsDriven
<1>1. SetupInv => ConnectingIsDriven
  <2> SUFFICES ASSUME SetupInv, NEW c \in Connectors, Health(c) = "CONNECTING"
               PROVE  \E s \in DOMAIN setups :
                        /\ setups[s].conn = c
                        /\ setups[s].pc \notin Ended \/ (setups[s].pc = "silent" /\ setups[s].aborted)
    BY DEF ConnectingIsDriven
  <2>1. conn[c].status \in Connecting
    BY HealthOfStatus DEF SetupInv
  <2> QED
    BY <2>1 DEF SetupInv, Driven, Drives
<1> QED
  BY <1>1, SetupInvariant, PTL

\* The error next to the status of a connection is the one of its last attempt.
THEOREM ShownErrorsAreCurrent == Spec => []ErrorsAreCurrent
<1>1. SetupInv => ErrorsAreCurrent
  <2> SUFFICES ASSUME SetupInv, NEW c \in Connectors \ raced, getConnectionError(c)
               PROVE  Health(c) \in {"FAILED", "CANCELLED"} \/ (c = "trino" /\ Health(c) = "NOT_STARTED")
    BY DEF ErrorsAreCurrent
  <2>1. ShowsError(conn[c])
    BY DEF getConnectionError, ShowsError
  <2>2. conn[c].status \in Failed \cup Cancelled \/ (c = "trino" /\ conn[c].status = "NOT_STARTED")
    BY <2>1 DEF SetupInv, ConnectionOK, Current
  <2> QED
    BY <2>2, HealthOfStatus DEF SetupInv
<1> QED
  BY <1>1, SetupInvariant, PTL
=============================================================================
