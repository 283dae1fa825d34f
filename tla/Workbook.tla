------------------------------ MODULE Workbook ------------------------------
(***************************************************************************)
(* The workbooks: their scripts, the reducer of workbook actions, the      *)
(* registry that applies it, and the loader of the scripts of the examples *)
(* (src/packages/dashql-app/src/workbook, connection/*/*_workbook.ts,      *)
(* *_session.ts).                                                          *)
(*                                                                         *)
(* A workbook is named by its connector: the app makes one per connector.  *)
(* Scripts are numbered by their keys.  The first is shown in the editor:  *)
(* no action selects another entry.                                        *)
(*                                                                         *)
(* The reducer is not pure: it destroys and makes buffers, replaces the    *)
(* text of scripts in the Wasm module, and loads scripts into catalogs.    *)
(* React runs it when an action is dispatched or when the component        *)
(* renders, so that actions wait in a queue.                               *)
(***************************************************************************)
EXTENDS Focus, SequencesExt

CONSTANTS
  Connectors,  \* the workbooks
  Examples     \* Examples[c]: the texts that the example scripts of c are loaded with

KnownConnectors == {"serverless", "demo", "hyper", "salesforce", "trino"}

VARIABLES
  reg,       \* the workbooks, with the objects of the Wasm module they own
  queue,     \* the dispatched actions that the reducer has not seen
  inflight   \* ScriptLoader: the flight keys, and the workbook that waits for each

workbookVars == <<reg, queue, inflight>>

NoBuffers == 0
-----------------------------------------------------------------------------
(***************************************************************************)
(* The workbooks as they are set up.                                       *)
(***************************************************************************)
\* Blank scripts need not be loaded
ScriptData(type, loading, id) ==
  [scriptType |-> type, scriptId |-> id, loading |-> loading, processed |-> NoBuffers,
   outdatedAnalysis |-> TRUE, cursor |-> Null, completion |-> Null]
generateBlankScriptMetadata == ScriptData("UNKNOWN", "SUCCEEDED", Null)
createExampleMetadata(type, name) == ScriptData(type, "PENDING", name)

SalesforceWorkbook == <<generateBlankScriptMetadata>>
HyperWorkbook == <<generateBlankScriptMetadata>>
TrinoWorkbook == <<generateBlankScriptMetadata>>
DemoWorkbook == <<createExampleMetadata("QUERY", "Demo")>>
ServerlessWorkbook ==
  <<createExampleMetadata("QUERY", "TPC-H Query 2"), createExampleMetadata("SCHEMA", "TPC-H Schema")>>

WorkbookSetup(c) ==
  CASE c = "salesforce" -> SalesforceWorkbook
    [] c = "hyper" -> HyperWorkbook
    [] c = "trino" -> TrinoWorkbook
    [] c = "demo" -> DemoWorkbook
    [] c = "serverless" -> ServerlessWorkbook

Keys(c) == DOMAIN WorkbookSetup(c)
ScriptIds == UNION {{c} \X Keys(c) : c \in Connectors}

\* The examples have a text for every script
ASSUME WorkbookAssumption ==
  /\ Connectors \subseteq KnownConnectors
  /\ \A c \in Connectors \cap {"serverless", "demo"} :
       Examples[c] \in Seq(Texts) /\ DOMAIN Examples[c] = Keys(c)

useWorkbookStateAllocator ==
  [scripts |-> [s \in ScriptIds |-> WorkbookSetup(s[1])[s[2]]],
   userFocus |-> [c \in Connectors |-> Null],
   text |-> [s \in ScriptIds |-> <<>>],
   version |-> [c \in Connectors |-> 0],
   buffers |-> <<>>]

-----------------------------------------------------------------------------
(***************************************************************************)
(* Scripts and catalogs.  A catalog knows the tables after the first       *)
(* change.  Buffers are named by numbers; destroying them sets the         *)
(* pointers of the object to null, also for the others who refer to it.    *)
(***************************************************************************)
Known(version) == IF version = 0 THEN {} ELSE Tables

\* The analysis of a script as it is now
Analysis(r, s) ==
  [text |-> r.text[s], known |-> Known(r.version[s[1]]), version |-> r.version[s[1]]]
Buffers(r, b) == IF b \in DOMAIN r.buffers THEN r.buffers[b] ELSE Null

\* A name that nobody holds
FreshBuffers(r, used) ==
  LET taken == used \cup DOMAIN r.buffers
  IN CHOOSE b \in 1..(Cardinality(taken) + 1) : b \notin taken
parseAndAnalyzeScript(r, s, b) ==
  [r EXCEPT !.buffers =
     [x \in DOMAIN r.buffers \cup {b} |-> IF x = b THEN Analysis(r, s) ELSE r.buffers[x]]]
destroyBuffers(r, b) == [r EXCEPT !.buffers = Restrict(@, DOMAIN @ \ {b})]

moveCursor(r, s, offset) == ScriptCursor(r.text[s], offset)
loadScript(r, c) == [r EXCEPT !.version[c] = @ + 1]

\* Bound by sets of one element, data is evaluated once
FocusOf(r, s) ==
  CHOOSE focus \in {IF data.cursor = Null THEN Null
                    ELSE deriveFocusFromScriptCursor(Buffers(r, data.processed), data.cursor) :
                    data \in {r.scripts[s]}} : TRUE

MarksNothing(r, c) == r \* mutant: the queries are not analyzed again

\* Mark all query scripts as outdated
MarkQueriesOutdated(r, c) ==
  [r EXCEPT !.scripts = [s \in ScriptIds |->
     [r.scripts[s] EXCEPT !.outdatedAnalysis =
        @ \/ (s[1] = c /\ r.scripts[s].scriptType = "QUERY")]]]

-----------------------------------------------------------------------------
(***************************************************************************)
(* The reducer: one operator per action that is dispatched.  used are the  *)
(* names of buffers that somebody holds.                                   *)
(***************************************************************************)
CATALOG_DID_UPDATE(r, c) ==
  [r EXCEPT !.scripts = [s \in ScriptIds |->
     [r.scripts[s] EXCEPT !.outdatedAnalysis = @ \/ s[1] = c]]]

UpdatesWithoutDestroying(r, s, used) ==  \* mutant: the old buffers are forgotten
  LET b == FreshBuffers(r, used)
      analyzed == parseAndAnalyzeScript(r, s, b)
  IN IF ~r.scripts[s].outdatedAnalysis THEN r
     ELSE [analyzed EXCEPT !.scripts[s].processed = b,
                           !.scripts[s].outdatedAnalysis = FALSE]

UpdatesWithoutFocus(r, s, used) ==  \* mutant: the focus is that of the old analysis
  LET data == r.scripts[s]
      b == FreshBuffers(r, used)
      analyzed == parseAndAnalyzeScript(destroyBuffers(r, data.processed), s, b)
      cursor == IF data.cursor = Null THEN Null ELSE moveCursor(r, s, data.cursor.textOffset)
  IN IF ~data.outdatedAnalysis THEN r
     ELSE [analyzed EXCEPT !.scripts[s] =
             [data EXCEPT !.processed = b, !.outdatedAnalysis = FALSE, !.cursor = cursor]]

UPDATE_SCRIPT(r, s, used) ==
  LET data == r.scripts[s]
      b == FreshBuffers(r, used)
      analyzed == parseAndAnalyzeScript(destroyBuffers(r, data.processed), s, b)
      cursor == IF data.cursor = Null THEN Null ELSE moveCursor(r, s, data.cursor.textOffset)
      next == [analyzed EXCEPT !.scripts[s] =
                 [data EXCEPT !.processed = b, !.outdatedAnalysis = FALSE, !.cursor = cursor]]
  IN IF ~data.outdatedAnalysis THEN r
     ELSE IF r.userFocus[s[1]] # Null /\ cursor # Null
     THEN [next EXCEPT !.userFocus[s[1]] = FocusOf(next, s)]
     ELSE next

\* A schema script is loaded again when it was analyzed
LoadedAgain(r, s) ==
  IF r.scripts[s].scriptType = "SCHEMA"
  THEN MarkQueriesOutdated(loadScript(r, s[1]), s[1]) ELSE r

\* A focused completion is kept.
UPDATE_SCRIPT_ANALYSIS(r, s, b, cursor) ==
  LET destroyed == destroyBuffers(r, r.scripts[s].processed)
      next == [destroyed EXCEPT !.scripts[s] =
                 [@ EXCEPT !.processed = b, !.outdatedAnalysis = FALSE, !.cursor = cursor]]
  IN LoadedAgain(IF FocusesCompletion(r.userFocus[s[1]]) THEN next
                 ELSE [next EXCEPT !.userFocus[s[1]] = FocusOf(next, s)], s)

UPDATE_SCRIPT_CURSOR(r, s, cursor) ==
  LET next == [r EXCEPT !.scripts[s].cursor = cursor]
  IN [next EXCEPT !.userFocus[s[1]] = FocusOf(next, s)]

SCRIPT_LOADING_STARTED(r, s) == [r EXCEPT !.scripts[s].loading = "STARTED"]
SCRIPT_LOADING_FAILED(r, s) == [r EXCEPT !.scripts[s].loading = "FAILED"]

\* The text is replaced.  The cursor, the focus and the outdated flag stay.  The scripts of
\* the examples come with the app: that one of them cannot be analyzed or loaded into the
\* catalog, after which the loading has FAILED, is not modelled.
SCRIPT_LOADING_SUCCEEDED(r, s, content, used) ==
  LET b == FreshBuffers(r, used)
      replaced == [destroyBuffers(r, r.scripts[s].processed) EXCEPT
                     !.text[s] = content,
                     !.scripts[s] = [@ EXCEPT !.loading = "SUCCEEDED", !.processed = b]]
  IN LoadedAgain(parseAndAnalyzeScript(replaced, s, b), s)

\* The completions of the other scripts are cleared
Completes(r, s, index) ==
  [r EXCEPT !.scripts = [t \in ScriptIds |->
     [r.scripts[t] EXCEPT !.completion =
        IF t = s THEN index ELSE IF t[1] = s[1] THEN Null ELSE @]]]

COMPLETION_STARTED(r, s) ==
  [Completes(r, s, 0) EXCEPT !.userFocus[s[1]] = deriveFocusFromCompletionCandidates(0)]

COMPLETION_CHANGED(r, s, index) ==
  [r EXCEPT !.scripts[s].completion = index,
            !.userFocus[s[1]] = deriveFocusFromCompletionCandidates(index)]

COMPLETION_STOPPED(r, s) ==
  LET next == Completes(r, s, Null)
  IN [next EXCEPT !.userFocus[s[1]] = FocusOf(next, s)]

reduceWorkbookState(r, a, used) ==
  CASE a.type = "CATALOG_DID_UPDATE" -> CATALOG_DID_UPDATE(r, a.script[1])
    [] a.type = "UPDATE_SCRIPT" -> UPDATE_SCRIPT(r, a.script, used)
    [] a.type = "UPDATE_SCRIPT_ANALYSIS" -> UPDATE_SCRIPT_ANALYSIS(r, a.script, a.value, a.cursor)
    [] a.type = "UPDATE_SCRIPT_CURSOR" -> UPDATE_SCRIPT_CURSOR(r, a.script, a.cursor)
    [] a.type = "SCRIPT_LOADING_STARTED" -> SCRIPT_LOADING_STARTED(r, a.script)
    [] a.type = "SCRIPT_LOADING_FAILED" -> SCRIPT_LOADING_FAILED(r, a.script)
    [] a.type = "SCRIPT_LOADING_SUCCEEDED" -> SCRIPT_LOADING_SUCCEEDED(r, a.script, a.value, used)
    [] a.type = "COMPLETION_STARTED" -> COMPLETION_STARTED(r, a.script)
    [] a.type = "COMPLETION_CHANGED" -> COMPLETION_CHANGED(r, a.script, a.value)
    [] a.type = "COMPLETION_STOPPED" -> COMPLETION_STOPPED(r, a.script)

ActionWith(type, s, value, cursor) ==
  [type |-> type, script |-> s, value |-> value, cursor |-> cursor]
Action(type, s) == ActionWith(type, s, Null, Null)

-----------------------------------------------------------------------------
(***************************************************************************)
(* The registry.  A dispatched action is reduced at once if nothing waits  *)
(* for the next render, or with that render.                               *)
(***************************************************************************)
\* The buffers that scripts and waiting actions hold
Held(r, actions) ==
  {r.scripts[s].processed : s \in ScriptIds}
  \cup {actions[i].value : i \in {j \in DOMAIN actions : actions[j].type = "UPDATE_SCRIPT_ANALYSIS"}}

\* r is the registry as the caller left it, idle whether nothing waits
Dispatch(r, idle, actions, used) ==
  \/ /\ reg' = r
     /\ queue' = queue \o actions
  \/ /\ idle /\ queue = <<>> /\ actions # <<>>
     /\ reg' = reduceWorkbookState(r, Head(actions), used)
     /\ queue' = Tail(actions)

-----------------------------------------------------------------------------
(***************************************************************************)
(* The script loader works on the current workbook.                        *)
(***************************************************************************)
FlightKey(r, s) == <<s[2], r.scripts[s].scriptId>>

Pending(r, c) == {s \in ScriptIds : s[1] = c /\ r.scripts[s].loading = "PENDING"}
\* Two keys that are the same: the second load is never answered
Starts(r, c) == {s \in Pending(r, c) : FlightKey(r, s) \notin DOMAIN inflight}

\* The effect of the loader: what it dispatches and the flights it starts
loadIfNeeded(r, c) ==
  SetToSeq({Action("SCRIPT_LOADING_STARTED", s) : s \in Pending(r, c)})
Flights(r, c) ==
  [f \in DOMAIN inflight \cup {FlightKey(r, s) : s \in Starts(r, c)} |->
     IF f \in DOMAIN inflight THEN inflight[f]
     ELSE [script |-> <<c, f[1]>>, settled |-> FALSE]]

Landed(f) == [g \in DOMAIN inflight \ {f} |-> inflight[g]]

waitForResult(f, type, value, idle, used) ==
  Dispatch(reg, idle, <<ActionWith(type, inflight[f].script, value, Null)>>, used)

FetchSucceeds(f, idle, used) ==
  /\ ~inflight[f].settled
  /\ LET s == inflight[f].script
     IN waitForResult(f, "SCRIPT_LOADING_SUCCEEDED", Examples[s[1]][s[2]], idle, used)
  /\ inflight' = Landed(f)

\* mutant
FetchFailsQuietly(f, idle, used) ==
  /\ ~inflight[f].settled
  /\ inflight' = Landed(f)
  /\ Dispatch(reg, idle, <<>>, used)

\* The key of a failed flight is not forgotten
FetchFails(f, idle, used) ==
  /\ ~inflight[f].settled
  /\ waitForResult(f, "SCRIPT_LOADING_FAILED", Null, idle, used)
  /\ inflight' = [inflight EXCEPT ![f].settled = TRUE]

-----------------------------------------------------------------------------
InitWorkbooks ==
  /\ reg = useWorkbookStateAllocator
  /\ queue = <<>>
  /\ inflight = <<>>
=============================================================================
