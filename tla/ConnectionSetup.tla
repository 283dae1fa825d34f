-------------------------- MODULE ConnectionSetup --------------------------
(***************************************************************************)
(* How a connection goes online: the setup flows of the connectors, the    *)
(* reducers that track them, the pages that start and cancel them, the     *)
(* platform events that deliver OAuth codes and workbook links, and the    *)
(* gate that decides what the app shows                                    *)
(* (src/packages/dashql-app/src/connection, platform/event_listener.ts,    *)
(* app_setup_gate.tsx, view/connection).                                   *)
(*                                                                         *)
(* The app allocates one connection per connector, so that a connection is *)
(* named by its connector.  A setup is an asynchronous function: pc says   *)
(* what it awaits, an action is the code between two awaits.  Setups are   *)
(* numbered in the order they start; a channel, a PKCE challenge and the   *)
(* code of its login carry the number of the setup that made them.         *)
(* The app cannot do anything once it is unmounted.                        *)
(*                                                                         *)
(* Every page aborts with a reason that is a string.  throwIfAborted then  *)
(* throws that string: it has no name and is not an Error, so that only    *)
(* the Trino flow dispatches anything ("silent" below is a setup that      *)
(* ended without a dispatch).                                              *)
(***************************************************************************)
EXTENDS Naturals, SequencesExt

CONSTANTS
  Connectors,  \* the connectors that are modelled
  Links,       \* the workbooks (named by connector) that a setup event can list
  MaxSetups,   \* bound: setups that are started
  MaxLinks     \* bound: setup events that arrive

KnownConnectors == {"serverless", "demo", "hyper", "salesforce", "trino"}
\* A workbook without known connection parameters
Unknown == "unknown"

ASSUME SetupAssumption ==
  /\ Connectors \subseteq KnownConnectors
  /\ Links \subseteq Seq(Connectors \cup {Unknown})
  /\ {MaxSetups, MaxLinks} \subseteq Nat

VARIABLES
  env,       \* "native", "web", or "mock" for the mocked Salesforce connector
  conn,      \* the state of every connection
  setups,    \* the setups that were started
  listener,  \* the PlatformEventListener
  gate,      \* the AppSetupGate, with the ConnectionSetupPage if it shows one
  settings,  \* setupAbortController of the settings page of a connector
  links,     \* the setup events that arrived
  raced      \* history: connections that were reset while a setup ran

setupVars == <<env, conn, setups, listener, gate, settings, links, raced>>

None == 0
SetupIds == 1..MaxSetups
\* CONNECTOR_INFOS[..].platforms.browser
BrowserConnectors == {"serverless", "demo", "trino"}
requiresSwitchingToNative(c) == c \notin BrowserConnectors /\ env # "native"
CONNECTOR_TABS == {"hyper", "salesforce", "trino"} \cap Connectors

-----------------------------------------------------------------------------
(***************************************************************************)
(* The state of a connection.  The status is the name of the last action,  *)
(* the health is a function of it.                                         *)
(***************************************************************************)
Connecting ==
  {"AUTH_STARTED", "GENERATING_PKCE_CHALLENGE", "GENERATED_PKCE_CHALLENGE",
   "OAUTH_NATIVE_LINK_OPENED", "OAUTH_WEB_WINDOW_OPENED", "RECEIVED_CORE_AUTH_CODE",
   "REQUESTING_CORE_AUTH_TOKEN", "RECEIVED_CORE_AUTH_TOKEN",
   "REQUESTING_DATA_CLOUD_ACCESS_TOKEN", "RECEIVED_DATA_CLOUD_ACCESS_TOKEN",
   "CHANNEL_SETUP_STARTED", "CHANNEL_READY", "HEALTH_CHECK_STARTED"}
Cancelled == {"AUTH_CANCELLED", "CHANNEL_SETUP_CANCELLED", "HEALTH_CHECK_CANCELLED"}
Failed == {"AUTH_FAILED", "CHANNEL_SETUP_FAILED", "HEALTH_CHECK_FAILED"}
ConnectionStatus == {"NOT_STARTED", "HEALTH_CHECK_SUCCEEDED"} \cup Connecting \cup Cancelled \cup Failed

ConnectionHealth(status) ==
  CASE status \in Connecting -> "CONNECTING"
    [] status \in Cancelled -> "CANCELLED"
    [] status \in Failed -> "FAILED"
    [] status = "HEALTH_CHECK_SUCCEEDED" -> "ONLINE"
    [] OTHER -> "NOT_STARTED"
Health(c) == ConnectionHealth(conn[c].status)

createDetails ==
  [status |-> "NOT_STARTED", channel |-> None, setupError |-> FALSE,
   channelError |-> FALSE, healthError |-> FALSE]
createConnectionState(c) ==
  IF c = "demo" THEN [createDetails EXCEPT !.status = "HEALTH_CHECK_SUCCEEDED"]
  ELSE createDetails

\* getConnectionError: what the pages show as the error of a connection
getConnectionError(c) == conn[c].channelError \/ conn[c].healthError

\* The actions of the Salesforce login
LoginActions ==
  {"AUTH_STARTED", "AUTH_CANCELLED", "AUTH_FAILED", "GENERATING_PKCE_CHALLENGE",
   "GENERATED_PKCE_CHALLENGE", "OAUTH_NATIVE_LINK_OPENED", "OAUTH_WEB_WINDOW_OPENED"}
ReduceLogin(state, action) ==
  CASE action = "AUTH_STARTED" -> [createDetails EXCEPT !.status = action]
    [] action \in {"AUTH_CANCELLED", "AUTH_FAILED"} ->
         [state EXCEPT !.status = action, !.setupError = TRUE]
    [] OTHER -> [state EXCEPT !.status = action]
\* The codes and tokens are kept for the user interface only
ReduceToken(state, action) == [state EXCEPT !.status = action]

KeepsErrors(state, action, s) ==  \* mutant: the errors of the last attempt are kept
  CASE action = "CHANNEL_READY" -> [state EXCEPT !.status = action, !.channel = s]
    [] action = "CHANNEL_SETUP_FAILED" -> [state EXCEPT !.status = action, !.channelError = TRUE]
    [] action = "HEALTH_CHECK_FAILED" -> [state EXCEPT !.status = action, !.healthError = TRUE]
    [] OTHER -> [state EXCEPT !.status = action]

\* The actions on the channel are the same for all connectors; s is the setup
ReduceChannel(state, action, s) ==
  CASE action = "CHANNEL_SETUP_STARTED" ->
         [state EXCEPT !.status = action, !.channel = None,
                       !.channelError = FALSE, !.healthError = FALSE]
    [] action \in {"CHANNEL_SETUP_CANCELLED", "CHANNEL_SETUP_FAILED"} ->
         [state EXCEPT !.status = action, !.channel = None, !.channelError = TRUE]
    [] action = "CHANNEL_READY" -> [state EXCEPT !.status = action, !.channel = s]
    [] action = "HEALTH_CHECK_FAILED" -> [state EXCEPT !.status = action, !.healthError = TRUE]
    [] OTHER -> [state EXCEPT !.status = action]

ChannelActions ==
  {"CHANNEL_SETUP_STARTED", "CHANNEL_SETUP_CANCELLED", "CHANNEL_SETUP_FAILED",
   "CHANNEL_READY", "HEALTH_CHECK_STARTED", "HEALTH_CHECK_FAILED",
   "HEALTH_CHECK_CANCELLED", "HEALTH_CHECK_SUCCEEDED"}

reduceSalesforceConnectionState(state, action, s) ==
  CASE action \in ChannelActions -> ReduceChannel(state, action, s)
    [] action \in LoginActions -> ReduceLogin(state, action)
    [] OTHER -> ReduceToken(state, action)
reduceHyperGrpcConnectorState(state, action, s) == ReduceChannel(state, action, s)
reduceTrinoConnectorState(state, action, s) == ReduceChannel(state, action, s)

reduceConnectionState(state, c, action, s) ==
  CASE c = "salesforce" -> reduceSalesforceConnectionState(state, action, s)
    [] c = "hyper" -> reduceHyperGrpcConnectorState(state, action, s)
    [] c = "trino" -> reduceTrinoConnectorState(state, action, s)

\* No step dispatches more than five actions
Reduce(state, c, actions, s) ==
  LET Dispatch(st, i) ==
        IF i \in DOMAIN actions THEN reduceConnectionState(st, c, actions[i], s) ELSE st
  IN Dispatch(Dispatch(Dispatch(Dispatch(Dispatch(state, 1), 2), 3), 4), 5)

(***************************************************************************)
(* The actions of the Trino flow are symbols of their own.  No reducer but *)
(* the Trino one consumes them: reduceConnectionState throws, the registry *)
(* throws while React renders it, and the app is unmounted.                *)
(***************************************************************************)
Consumes(c, kind) == c = kind \/ (kind = "hyper" /\ c = "salesforce")

(***************************************************************************)
(* RESET.  The case that should clean the details of a Trino connection    *)
(* repeats the label of the Hyper connector and is never reached.          *)
(***************************************************************************)
Reset(state, c) ==
  IF c \in {"hyper", "salesforce"} THEN createDetails
  ELSE [state EXCEPT !.status = "NOT_STARTED"]

-----------------------------------------------------------------------------
(***************************************************************************)
(* Setups and the pages that own them.                                     *)
(***************************************************************************)
Ended == {"succeeded", "failed", "cancelled", "silent"}
Awaits == {"pkce", "sleep", "oauth", "core", "dc", "connect", "health"}
InFlight(c) == {s \in DOMAIN setups : setups[s].conn = c /\ setups[s].pc \notin Ended}

NoPage == [inst |-> None, conn |-> Unknown, params |-> Unknown, target |-> Unknown,
           busy |-> FALSE, ctl |-> None, auto |-> FALSE, timer |-> FALSE]
ShowsPage == gate.decision = "SHOW_CONNECTION_SETUP"
Done(g) == [g EXCEPT !.decision = "SETUP_DONE", !.page = NoPage]
Unmounted(g) == [g EXCEPT !.decision = "UNMOUNTED", !.page = NoPage]
Mounted == gate.decision # "UNMOUNTED"

\* What the callers do when setup s ends: the page of the setup may be gone by then.
\* A settings page drops the controller it holds, whichever setup it belongs to, if it
\* is still the instance that started s.
AfterSetup(s, pc) ==
  LET inst == setups[s].owner IN
  /\ gate' = CASE inst = None -> gate
               [] inst # None /\ pc = "succeeded" -> Done(gate)
               [] inst # None /\ pc # "succeeded" ->
                    IF gate.page.inst = inst
                      THEN [gate EXCEPT !.page.busy = FALSE, !.page.ctl = None] ELSE gate
  /\ \E stays \in BOOLEAN :
       settings' = [c \in DOMAIN settings |->
                      IF settings[c] = s \/ (stays /\ inst = None /\ c = setups[s].conn)
                        THEN None ELSE settings[c]]

\* Setup s dispatches the actions and goes on to await pc
Advance(s, actions, pc) ==
  /\ conn' = [conn EXCEPT ![setups[s].conn] = Reduce(@, setups[s].conn, actions, s)]
  /\ setups' = [setups EXCEPT ![s].pc = pc]
  /\ IF pc \in Ended THEN AfterSetup(s, pc) ELSE UNCHANGED <<gate, settings>>
  /\ UNCHANGED <<env, links, raced>>

Aborted(s) == setups[s].aborted

\* The first dispatches of a setup of a kind, and what it awaits then
Opening(kind) ==
  CASE kind = "salesforce" -> <<"AUTH_STARTED", "GENERATING_PKCE_CHALLENGE">>
    [] kind = "hyper" -> <<"CHANNEL_SETUP_STARTED">>
    [] kind = "trino" -> <<"CHANNEL_SETUP_STARTED", "CHANNEL_READY", "HEALTH_CHECK_STARTED">>
FirstAwait(kind) ==
  CASE kind = "salesforce" -> "pkce" [] kind = "hyper" -> "connect" [] kind = "trino" -> "health"

StartSetup(kind, c, owner) ==
  LET s == Len(setups) + 1 IN
  /\ s <= MaxSetups
  /\ setups' = Append(setups, [kind |-> kind, conn |-> c, owner |-> owner,
                               pc |-> FirstAwait(kind), aborted |-> FALSE,
                               window |-> FALSE, code |-> None])
  /\ conn' = [conn EXCEPT ![c] = Reduce(@, c, Opening(kind), s)]

-----------------------------------------------------------------------------
(***************************************************************************)
(* The Salesforce login.                                                   *)
(***************************************************************************)
At(s, pc) == s \in DOMAIN setups /\ setups[s].pc = pc

PkceGenerated(s) ==
  /\ At(s, "pkce")
  /\ IF Aborted(s) THEN Advance(s, <<>>, "silent")
     ELSE env = "mock" /\ Advance(s, <<"GENERATED_PKCE_CHALLENGE">>, "sleep")
  /\ UNCHANGED listener

(***************************************************************************)
(* The login is opened in a popup or in the system's browser; only one     *)
(* setup at a time can wait for the redirect.                              *)
(***************************************************************************)
OpensUnchecked(s) ==  \* mutant: the signal is not checked after the challenge
  LET actions == <<"GENERATED_PKCE_CHALLENGE", "OAUTH_NATIVE_LINK_OPENED">> IN
  /\ At(s, "pkce") /\ env # "mock" /\ listener.oauth = None
  /\ listener' = [listener EXCEPT !.oauth = s]
  /\ Advance(s, actions, "oauth")

OpenLogin(s) ==
  LET opened == IF env = "web" THEN "OAUTH_WEB_WINDOW_OPENED" ELSE "OAUTH_NATIVE_LINK_OPENED"
      duplicate == listener.oauth # None
      actions == IF duplicate THEN <<"GENERATED_PKCE_CHALLENGE", opened, "AUTH_FAILED">>
                 ELSE <<"GENERATED_PKCE_CHALLENGE", opened>> IN
  /\ At(s, "pkce") /\ ~Aborted(s) /\ env # "mock"
  /\ conn' = [conn EXCEPT ![setups[s].conn] = Reduce(@, setups[s].conn, actions, s)]
  /\ setups' = [setups EXCEPT ![s].window = TRUE,
                              ![s].pc = IF duplicate THEN "failed" ELSE "oauth"]
  /\ IF duplicate THEN AfterSetup(s, "failed") /\ UNCHANGED listener
     ELSE listener' = [listener EXCEPT !.oauth = s] /\ UNCHANGED <<gate, settings>>
  /\ UNCHANGED <<env, links, raced>>

PopupIsBlocked(s) ==
  /\ At(s, "pkce") /\ ~Aborted(s) /\ env = "web"
  /\ Advance(s, <<"GENERATED_PKCE_CHALLENGE", "AUTH_FAILED">>, "failed")
  /\ UNCHANGED listener

RedirectKeepsSubscriber(w) ==  \* mutant: the subscriber is not cleared
  LET s == listener.oauth IN
  /\ s # None
  /\ Advance(s, <<"RECEIVED_CORE_AUTH_CODE", "REQUESTING_CORE_AUTH_TOKEN">>, "core")
  /\ UNCHANGED listener

\* The event carries no trace of the setup w that opened the login: the current
\* subscriber receives the code, and without one it is dropped.
dispatchOAuthRedirect(w) ==
  LET s == listener.oauth IN
  /\ s # None
  /\ listener' = [listener EXCEPT !.oauth = None]
  /\ conn' = [conn EXCEPT ![setups[s].conn] =
                Reduce(@, "salesforce", <<"RECEIVED_CORE_AUTH_CODE", "REQUESTING_CORE_AUTH_TOKEN">>, s)]
  /\ setups' = [setups EXCEPT ![s].pc = "core", ![s].code = w]
  /\ UNCHANGED <<env, gate, settings, links, raced>>

\* The user completes the login that setup w opened: the page behind the redirect
\* passes the code on, after a delay or when the user clicks, as often as they do.
OAuthSucceeded(w) ==
  /\ w \in DOMAIN setups /\ setups[w].window
  /\ dispatchOAuthRedirect(w)

\* The redirect carries an error instead of a code: the login of the subscriber fails
OAuthFails(w) ==
  LET s == listener.oauth IN
  /\ w \in DOMAIN setups /\ setups[w].window /\ s # None
  /\ listener' = [listener EXCEPT !.oauth = None]
  /\ Advance(s, <<"AUTH_FAILED">>, "failed")

MockCode(s) ==
  /\ At(s, "sleep")
  /\ IF Aborted(s)
       THEN Advance(s, <<>>, "silent")
       ELSE /\ conn' = [conn EXCEPT ![setups[s].conn] =
                          Reduce(@, "salesforce", <<"RECEIVED_CORE_AUTH_CODE", "REQUESTING_CORE_AUTH_TOKEN">>, s)]
            /\ setups' = [setups EXCEPT ![s].pc = "core", ![s].code = s]
            /\ UNCHANGED <<env, gate, settings, links, raced>>
  /\ UNCHANGED listener

\* The server issues a token for a code only to the holder of the verifier
IssuesToken(s) == setups[s].code = s

CoreToken(s) ==
  /\ At(s, "core") /\ IssuesToken(s)
  /\ IF Aborted(s) THEN Advance(s, <<"RECEIVED_CORE_AUTH_TOKEN">>, "silent")
     ELSE Advance(s, <<"RECEIVED_CORE_AUTH_TOKEN", "REQUESTING_DATA_CLOUD_ACCESS_TOKEN">>, "dc")
  /\ UNCHANGED listener

DataCloudToken(s) ==
  /\ At(s, "dc")
  /\ CASE Aborted(s) -> Advance(s, <<"RECEIVED_DATA_CLOUD_ACCESS_TOKEN">>, "silent")
       [] ~Aborted(s) /\ env # "mock" ->
            Advance(s, <<"RECEIVED_DATA_CLOUD_ACCESS_TOKEN", "CHANNEL_SETUP_STARTED">>, "connect")
       [] ~Aborted(s) /\ env = "mock" ->
            Advance(s, <<"RECEIVED_DATA_CLOUD_ACCESS_TOKEN", "CHANNEL_SETUP_STARTED", "CHANNEL_READY",
                         "HEALTH_CHECK_STARTED", "HEALTH_CHECK_SUCCEEDED">>, "succeeded")
  /\ UNCHANGED listener

TokenFailsUnnoticed(s) ==  \* mutant: the error is not dispatched
  /\ At(s, "core") \/ At(s, "dc")
  /\ env # "mock"
  /\ Advance(s, <<>>, "failed")
  /\ UNCHANGED listener

\* The request fails, or the browser's fetch rejects with the abort reason
TokenFails(s) ==
  /\ At(s, "core") \/ At(s, "dc")
  /\ env # "mock"
  /\ \/ Advance(s, <<"AUTH_FAILED">>, "failed")
     \/ Aborted(s) /\ env = "web" /\ Advance(s, <<>>, "silent")
  /\ UNCHANGED listener

-----------------------------------------------------------------------------
(***************************************************************************)
(* The channel and its health check.  There is no Hyper client in the      *)
(* browser.  The health check of a Hyper channel awaits the schema before  *)
(* it reads the stream that delivers it, and never answers unless the      *)
(* query cannot be started.                                                *)
(***************************************************************************)
AtKind(s, pc, kind) == At(s, pc) /\ setups[s].kind = kind

\* The client is connected; the channel of an aborted setup is not closed
ClientConnects(s) ==
  /\ env = "native"
  /\ IF Aborted(s) THEN Advance(s, <<>>, "silent")
     ELSE Advance(s, <<"CHANNEL_READY", "HEALTH_CHECK_STARTED">>, "health")
  /\ UNCHANGED listener

HyperConnects(s) == AtKind(s, "connect", "hyper") /\ ClientConnects(s)
SalesforceConnects(s) == AtKind(s, "connect", "salesforce") /\ ClientConnects(s)

HyperConnectFails(s) ==
  /\ AtKind(s, "connect", "hyper")
  /\ Advance(s, <<"CHANNEL_SETUP_FAILED">>, "failed")
  /\ UNCHANGED listener

\* A failed connect counts as a failed login
SalesforceConnectFails(s) ==
  /\ AtKind(s, "connect", "salesforce")
  /\ Advance(s, <<"AUTH_FAILED">>, "failed")
  /\ UNCHANGED listener

AnswerIsIgnored(s) ==  \* mutant: the answer of the check is not looked at
  /\ AtKind(s, "health", "trino")
  /\ Advance(s, <<"HEALTH_CHECK_SUCCEEDED">>, "failed")
  /\ UNCHANGED listener

TrinoCheckSucceeds(s) ==
  /\ AtKind(s, "health", "trino") /\ ~Aborted(s)
  /\ Advance(s, <<"HEALTH_CHECK_SUCCEEDED">>, "succeeded")
  /\ UNCHANGED listener

\* An abort reason is as good a failure as any other
TrinoCheckFails(s) ==
  /\ AtKind(s, "health", "trino")
  /\ Advance(s, <<"HEALTH_CHECK_FAILED">>, "failed")
  /\ UNCHANGED listener

HyperCheckEnds(s) ==
  /\ IF Aborted(s) THEN Advance(s, <<>>, "silent") ELSE Advance(s, <<"HEALTH_CHECK_FAILED">>, "failed")
  /\ UNCHANGED listener

HyperCheckFails(s) == AtKind(s, "health", "hyper") /\ HyperCheckEnds(s)
SalesforceCheckFails(s) == AtKind(s, "health", "salesforce") /\ HyperCheckEnds(s)

-----------------------------------------------------------------------------
(***************************************************************************)
(* A page cancels a setup.  Only the wait for the redirect rejects with an *)
(* AbortError; any other step sees the signal after its next await.        *)
(***************************************************************************)
Abort(s) ==
  IF listener.oauth = s
  THEN /\ listener' = [listener EXCEPT !.oauth = None]
       /\ Advance(s, <<"AUTH_CANCELLED">>, "cancelled")
  ELSE /\ setups' = [setups EXCEPT ![s].aborted = TRUE]
       /\ gate' = IF gate.page.ctl = s THEN [gate EXCEPT !.page.ctl = None] ELSE gate
       /\ settings' = [c \in DOMAIN settings |-> IF settings[c] = s THEN None ELSE settings[c]]
       /\ UNCHANGED <<env, conn, listener, links, raced>>

-----------------------------------------------------------------------------
(***************************************************************************)
(* Setup events.  A file or link lists workbooks; the gate resets the      *)
(* connection of each, stops at the first one without known parameters and *)
(* after the first one that is neither Hyper nor Salesforce, and shows the *)
(* page of the last.                                                       *)
(***************************************************************************)
Applied(event) ==
  LET stops == {i \in DOMAIN event : event[i] \notin {"hyper", "salesforce"}} IN
  IF stops = {} THEN event
  ELSE LET n == Min(stops) IN SubSeq(event, 1, IF event[n] = Unknown THEN n - 1 ELSE n)

\* The page is the same React component from one link to the next: it keeps the
\* parameters and the dispatch it was mounted with.
SetupPage(c, inst) ==
  IF gate.page.inst # None
  THEN [gate.page EXCEPT !.conn = c, !.timer = gate.page.auto]
  ELSE [inst |-> inst, conn |-> c, params |-> c, target |-> c, busy |-> FALSE, ctl |-> None,
        auto |-> requiresSwitchingToNative(c), timer |-> requiresSwitchingToNative(c)]

\* Gate g when the workbooks of the events were applied, the one of connector c last
Decide(g, c, inst) ==
  IF c \in {"hyper", "salesforce", "trino"}
  THEN [g EXCEPT !.decision = "SHOW_CONNECTION_SETUP", !.page = SetupPage(c, inst)]
  ELSE Done(g)

\* The settings pages are children of the gate
KeepSettings(decision) ==
  settings' = IF decision = "SETUP_DONE" THEN settings ELSE [c \in DOMAIN settings |-> None]

ApplySetup(g, events) ==
  LET applied == {i \in DOMAIN events : Applied(events[i]) # <<>>}
      resets == UNION {ToSet(Applied(events[i])) : i \in applied} IN
  /\ conn' = [c \in Connectors |-> IF c \in resets THEN Reset(conn[c], c) ELSE conn[c]]
  /\ raced' = raced \cup {c \in resets : InFlight(c) # {}}
  /\ gate' = IF applied = {} THEN g ELSE Decide(g, Last(Applied(events[Max(applied)])), Len(links'))
  /\ KeepSettings(gate'.decision)

\* runSetup awaits the default workbooks, and throws if they could not be set up
runSetup(events) ==
  LET g == [gate EXCEPT !.aborted = TRUE] IN
  IF gate.ready THEN ApplySetup(g, events)
  ELSE /\ gate' = IF gate.rejected THEN g ELSE [g EXCEPT !.pending = @ \o events]
       /\ UNCHANGED <<conn, settings, raced>>

\* An event that finds no subscriber replaces the one that is queued
dispatchSetup(event) ==
  /\ Len(links) < MaxLinks
  /\ links' = Append(links, event)
  /\ IF listener.subscribed
       THEN runSetup(<<event>>) /\ UNCHANGED listener
       ELSE /\ listener' = [listener EXCEPT !.queued = <<event>>]
            /\ UNCHANGED <<conn, gate, settings, raced>>
  /\ UNCHANGED <<env, setups>>

subscribeSetupEvents ==
  /\ ~listener.subscribed
  /\ listener' = [listener EXCEPT !.subscribed = TRUE, !.queued = <<>>]
  /\ IF listener.queued # <<>> THEN gate' = [gate EXCEPT !.aborted = TRUE, !.pending = listener.queued]
     ELSE UNCHANGED gate
  /\ UNCHANGED <<env, conn, setups, settings, links, raced>>

\* The default workbooks are set up: the effect that selects one of them ran first
LeavesUndecided(events) ==  \* mutant: the default is not selected
  /\ gate' = [gate EXCEPT !.ready = TRUE]
  /\ UNCHANGED <<conn, settings, raced>>
DefaultsResolve(events) ==
  IF gate.aborted THEN ApplySetup([gate EXCEPT !.ready = TRUE, !.pending = <<>>], events)
  ELSE /\ gate' = Done([gate EXCEPT !.ready = TRUE])
       /\ UNCHANGED <<conn, settings, raced>>

setupDefaultWorkbook ==
  /\ listener.subscribed /\ ~gate.ready /\ ~gate.rejected
  /\ links' = links
  /\ DefaultsResolve(gate.pending)
  /\ UNCHANGED <<env, setups, listener>>

\* The core cannot be instantiated: the promise of the default workbooks rejects, and
\* every function that awaits it ends there.
defaultWorkbooksFail ==
  /\ listener.subscribed /\ ~gate.ready /\ ~gate.rejected
  /\ gate' = [gate EXCEPT !.rejected = TRUE, !.pending = <<>>]
  /\ UNCHANGED <<env, conn, setups, listener, settings, links, raced>>

-----------------------------------------------------------------------------
(***************************************************************************)
(* The connection setup page.  startSetup redirects to the native app if   *)
(* it has to, and runs the setup here all the same.  There is none for     *)
(* Hyper parameters: the page is done.                                     *)
(***************************************************************************)
startSetup ==
  LET page == gate.page
      start == ~page.busy /\ page.params # "hyper"
      throws == start /\ ~Consumes(page.target, page.params) IN
  /\ IF start /\ ~throws THEN StartSetup(page.params, page.target, page.inst)
     ELSE UNCHANGED <<setups, conn>>
  /\ gate' = CASE page.busy -> [gate EXCEPT !.page.timer = FALSE]
               [] throws -> Unmounted(gate)
               [] start /\ ~throws -> [gate EXCEPT !.page.timer = FALSE, !.page.busy = TRUE,
                                                   !.page.ctl = Len(setups')]
               [] ~page.busy /\ ~start -> Done(gate)
  /\ UNCHANGED <<env, listener, settings, links, raced>>

\* Nothing can be set up before the config of the app arrives, and the timer runs the
\* startSetup of the render that set it.  startSetup returns early then and leaves
\* setupInProgressOrDone set: this page never starts a setup.
SetupIsMissing ==
  /\ ~gate.page.busy /\ gate.page.params # "hyper"
  /\ \A s \in DOMAIN setups : gate.page.timer /\ setups[s].owner = gate.page.inst
  /\ gate' = [gate EXCEPT !.page.timer = FALSE, !.page.busy = TRUE]
  /\ UNCHANGED <<env, conn, setups, listener, settings, links, raced>>

ConnectOnPage ==
  /\ ShowsPage
  /\ ~requiresSwitchingToNative(gate.page.conn)
  /\ Health(gate.page.conn) \in {"NOT_STARTED", "FAILED", "CANCELLED"}
  /\ startSetup \/ SetupIsMissing

AutoTrigger == ShowsPage /\ gate.page.timer /\ (startSetup \/ SetupIsMissing)

\* Only the Trino parameters can be edited, with a new startSetup for this connection
updateParams ==
  /\ ShowsPage /\ gate.page.params = "trino" /\ gate.page.target # gate.page.conn
  /\ gate' = [gate EXCEPT !.page.target = gate.page.conn]
  /\ UNCHANGED <<env, conn, setups, listener, settings, links, raced>>

CancelOnPage ==
  /\ ShowsPage /\ gate.page.ctl # None
  /\ ~requiresSwitchingToNative(gate.page.conn)
  /\ Health(gate.page.conn) = "CONNECTING"
  /\ Abort(gate.page.ctl)

ClosePage ==
  /\ ShowsPage
  /\ gate' = Done(gate)
  /\ UNCHANGED <<env, conn, setups, listener, settings, links, raced>>

-----------------------------------------------------------------------------
(***************************************************************************)
(* The settings pages.  One of them is mounted at a time; leaving it loses *)
(* its abort controller.  Only the Salesforce page can restart a cancelled *)
(* setup.                                                                  *)
(***************************************************************************)
ConnectsWhileConnecting(c) == TRUE  \* mutant: the button ignores the health
ShowsConnect(c) ==
  Health(c) \in {"NOT_STARTED", "FAILED"} \cup (IF c = "salesforce" THEN {"CANCELLED"} ELSE {})
OnSettings(c) ==
  /\ gate.decision = "SETUP_DONE"
  /\ c \in CONNECTOR_TABS /\ ~requiresSwitchingToNative(c)
  /\ \A d \in CONNECTOR_TABS \ {c} : settings[d] = None

setupConnection(c) ==
  /\ OnSettings(c) /\ ShowsConnect(c)
  /\ StartSetup(c, c, None)
  /\ settings' = [settings EXCEPT ![c] = Len(setups')]
  /\ UNCHANGED <<env, listener, gate, links, raced>>

cancelSetup(c) ==
  /\ OnSettings(c) /\ settings[c] # None
  /\ Health(c) = "CONNECTING"
  /\ Abort(settings[c])

resetSetup(c) ==
  /\ OnSettings(c) /\ Health(c) = "ONLINE"
  /\ conn' = [conn EXCEPT ![c] = Reset(@, c)]
  /\ raced' = IF InFlight(c) # {} THEN raced \cup {c} ELSE raced
  /\ UNCHANGED <<env, setups, listener, gate, settings, links>>

LeaveSettings(c) ==
  /\ gate.decision = "SETUP_DONE" /\ c \in CONNECTOR_TABS /\ settings[c] # None
  /\ settings' = [settings EXCEPT ![c] = None]
  /\ UNCHANGED <<env, conn, setups, listener, gate, links, raced>>

-----------------------------------------------------------------------------
Init ==
  /\ env \in {"native", "web", "mock"}
  /\ conn = [c \in Connectors |-> createConnectionState(c)]
  /\ setups = <<>>
  /\ listener = [oauth |-> None, subscribed |-> FALSE, queued |-> <<>>]
  /\ gate = [decision |-> "UNDECIDED", aborted |-> FALSE, ready |-> FALSE,
             rejected |-> FALSE, pending |-> <<>>, page |-> NoPage]
  /\ settings = [c \in CONNECTOR_TABS |-> None]
  /\ links = <<>>
  /\ raced = {}

SetupStep(s) ==
  \/ PkceGenerated(s) \/ OpenLogin(s) \/ PopupIsBlocked(s) \/ MockCode(s)
  \/ CoreToken(s) \/ DataCloudToken(s) \/ TokenFails(s)
  \/ HyperConnects(s) \/ HyperConnectFails(s)
  \/ SalesforceConnects(s) \/ SalesforceConnectFails(s)
  \/ TrinoCheckSucceeds(s) \/ TrinoCheckFails(s)

StartStep == subscribeSetupEvents \/ setupDefaultWorkbook \/ defaultWorkbooksFail

UserStep ==
  \/ \E event \in Links : dispatchSetup(event)
  \/ ConnectOnPage \/ AutoTrigger \/ updateParams \/ CancelOnPage \/ ClosePage
  \/ \E c \in CONNECTOR_TABS :
       setupConnection(c) \/ cancelSetup(c) \/ resetSetup(c) \/ LeaveSettings(c)

Next ==
  /\ Mounted
  /\ \/ StartStep
     \/ UserStep
     \/ \E s \in SetupIds :
          \/ SetupStep(s) \/ HyperCheckFails(s) \/ SalesforceCheckFails(s)
          \/ OAuthSucceeded(s) \/ OAuthFails(s)

Spec == Init /\ [][Next]_setupVars

(***************************************************************************)
(* Every await ends but the wait for the user in the login and the health  *)
(* check of a Hyper channel.                                               *)
(***************************************************************************)
FairSpec ==
  /\ Spec
  /\ WF_setupVars(StartStep)
  /\ \A s \in SetupIds : WF_setupVars(Mounted /\ SetupStep(s))

-----------------------------------------------------------------------------
(***************************************************************************)
(* Properties                                                              *)
(***************************************************************************)
\* Two setups never run on one connection, unless a link reset it while one ran:
\* the buttons of two pages and the auto-trigger know of each other only through
\* the health of the connection.
OneSetupPerConnection ==
  \A c \in Connectors \ raced : \A s, t \in InFlight(c) : s = t

\* A connection that is online has a channel, and it is the channel of a setup whose
\* health check succeeded, however many setups failed or were cancelled before.
OnlineIsChecked ==
  \A c \in Connectors \ (raced \cup {"demo"}) :
    Health(c) = "ONLINE" => conn[c].channel # None /\ setups[conn[c].channel].pc = "succeeded"

\* A connection shows the spinner only while one of its setups runs, or after one was
\* cancelled and ended without telling the reducer.
ConnectingIsDriven ==
  \A c \in Connectors :
    Health(c) = "CONNECTING" =>
      \E s \in DOMAIN setups :
        /\ setups[s].conn = c
        /\ setups[s].pc \notin Ended \/ (setups[s].pc = "silent" /\ setups[s].aborted)

\* An error that is shown next to the status is the error of this attempt: it goes away
\* when the next one starts.  Only a reset Trino connection keeps what it showed.
ErrorsAreCurrent ==
  \A c \in Connectors \ raced :
    getConnectionError(c) =>
      Health(c) \in {"FAILED", "CANCELLED"} \/ (c = "trino" /\ Health(c) = "NOT_STARTED")

\* The app gets past its blank page, whichever links arrive while the default workbooks
\* are set up: one of the two functions that await them decides.  It stays blank if it
\* was started with a link of no use, or if the default workbooks could not be set up
\* because the core does not instantiate.
AppIsDecided ==
  <>(\/ gate.decision # "UNDECIDED"
     \/ gate.rejected
     \/ \E i \in DOMAIN links : Applied(links[i]) = <<>>)

\* A setup that was cancelled ends, and gives up the wait for the redirect; only the
\* health check of a Hyper channel cannot be left.
CancelledSetupsEnd ==
  \A s \in SetupIds :
    (s \in DOMAIN setups /\ setups[s].aborted) ~>
      (\/ \E pc \in Ended : At(s, pc)
       \/ ~Mounted
       \/ At(s, "health") /\ setups[s].kind # "trino")
=============================================================================
