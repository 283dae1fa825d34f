--------------------------- MODULE WorkbookEditor ---------------------------
(***************************************************************************)
(* The script editor on top of the workbooks: the CodeMirror view that     *)
(* mirrors its document into the script of the Wasm module, the effects    *)
(* that follow the workbook, completions and commands                      *)
(* (src/packages/dashql-app/src/view/workbook, workbook/workbook_commands  *)
(* and current_workbook.tsx).                                              *)
(*                                                                         *)
(* A render and its effects are one step (Commit).  Between two commits    *)
(* the user may edit, move the cursor, complete, select another workbook   *)
(* or leave the page, scripts may arrive and the catalog may change.       *)
(***************************************************************************)
EXTENDS Workbook

CONSTANTS
  Default,     \* the workbook that is selected when the app starts
  Opened,      \* bound: the workbooks that the user selects
  MultiRange,  \* whether an edit may change two ranges at once
  Typed,       \* bound: the references that the user types
  MaxText,     \* bound: references in a document
  MaxEdits,    \* bound: edits and cursor movements
  MaxActs,     \* bound: completions, selected workbooks, pages left, catalogs refreshed
  MaxWaiting   \* bound: the user acts only while fewer actions wait

ASSUME EditorAssumption ==
  /\ Default \in Opened /\ Opened \subseteq Connectors
  /\ Typed \subseteq References
  /\ MultiRange \in BOOLEAN
  /\ {MaxText, MaxEdits, MaxActs, MaxWaiting} \subseteq Nat

VARIABLES
  current,   \* the current workbook
  phase,     \* of the rendering: idle, dirty when something changed, or rendering
  view,      \* the CodeMirror view with the state of the DashQL processor
  active,    \* ActiveScriptState of the editor component
  typed,     \* history: what the user did to workbooks that were being loaded
  budget     \* what the user may still do

editorVars == <<current, phase, view, active, typed, budget>>
vars == <<workbookVars, editorVars>>

MainKey == 1
NoScript == <<Null, 0>>
NoActive == [script |-> NoScript, scriptBuffers |-> NoBuffers]

-----------------------------------------------------------------------------
(***************************************************************************)
(* The DashQL processor, a field of the view's state.                      *)
(***************************************************************************)
\* completeWith is the workbook of the render that mounted the editor:
\* the callbacks of completions are memoized without dependencies.
CreateView(c) ==
  [doc |-> <<>>, targetScript |-> NoScript, scriptBuffers |-> NoBuffers, scriptCursor |-> Null,
   derivedFocus |-> Null, completion |-> "none", completeWith |-> c, decorations |-> NoDecorations]
NoView == [doc |-> <<>>, targetScript |-> NoScript, scriptBuffers |-> NoBuffers,
           scriptCursor |-> Null, derivedFocus |-> Null, completion |-> "unmounted", completeWith |-> Null,
           decorations |-> NoDecorations]
Mounted == view.completion # "unmounted"

\* The names of buffers that must not be given again
Used == Held(reg, queue) \cup {view.scriptBuffers, active.scriptBuffers}

insertTextAt(text, at, ref) ==
  IF at > Len(text) THEN Append(text, ref) ELSE InsertAt(text, at + 1, ref)
eraseTextRange(text, at) == IF at < Len(text) THEN RemoveAt(text, at + 1) ELSE text

\* A change of one range of the document, at offsets before the transaction
Changes == [from: 0..(MaxText - 1), insert: {Null} \cup Typed]
Edit == {<<x>> : x \in Changes}
        \cup (IF MultiRange THEN {<<x, y>> : x, y \in [from: 0..(MaxText - 1), insert: {Null}]} ELSE {})
IsEdit(edit, doc) ==
  /\ \A i \in DOMAIN edit : edit[i].from < Len(doc) + (IF edit[i].insert = Null THEN 0 ELSE 1)
  /\ \A i, j \in DOMAIN edit : i < j => edit[i].from < edit[j].from
ApplyChange(text, change) ==
  IF change.insert = Null THEN eraseTextRange(text, change.from) ELSE insertTextAt(text, change.from, change.insert)
\* CodeMirror applies the changes at once, the processor one after the other
\* with the offsets that erased ranges had before.
Edited(doc, edit) ==
  ApplyChange(IF Len(edit) = 1 THEN doc ELSE ApplyChange(doc, edit[2]), edit[1])
MirrorChanges(text, edit) ==
  IF Len(edit) = 1 THEN ApplyChange(text, edit[1]) ELSE ApplyChange(ApplyChange(text, edit[1]), edit[2])

\* The cursor is behind what was typed
CursorAfter(edit) == edit[1].from + (IF edit[1].insert = Null THEN 0 ELSE 1)

\* The end of an active completion, as the processor notices it.  The script
\* is the one before the transaction.
StopsCompletion(v) ==
  IF v.completion = "active"
  THEN <<Action("COMPLETION_STOPPED", <<v.completeWith, v.targetScript[2]>>)>> ELSE <<>>
Closed(v) == IF v.completion \in {"active", "pending"} THEN [v EXCEPT !.completion = "none"] ELSE v

\* The other fields of the editor follow in the same transaction
Decorated(r, v) ==
  [v EXCEPT !.decorations =
     DashQLDecorations(@, v.scriptBuffers # view.scriptBuffers, Buffers(r, v.scriptBuffers), v.derivedFocus)]

-----------------------------------------------------------------------------
(***************************************************************************)
(* The effects of the editor component, on the workbook as rendered.       *)
(***************************************************************************)
Displayed == <<current, MainKey>>

\* Update outdated scripts that are displayed in the editor
UpdateOutdated(r) ==
  IF Mounted /\ r.scripts[Displayed].outdatedAnalysis
  THEN <<Action("UPDATE_SCRIPT", Displayed)>> ELSE <<>>

ScriptOnlyChanged(r) == active.script # Displayed \* mutant
ScriptChanged(r) ==
  \/ active.script # Displayed
  \/ active.scriptBuffers # r.scripts[Displayed].processed

UpdateDashQLScript(r) ==
  LET data == r.scripts[Displayed]
      v == IF ScriptChanged(r) THEN [Closed(view) EXCEPT !.doc = r.text[Displayed]] ELSE view
  IN Decorated(r, [v EXCEPT !.targetScript = Displayed, !.scriptBuffers = data.processed,
                            !.scriptCursor = data.cursor, !.derivedFocus = r.userFocus[current]])

ActiveScript(r) ==
  [script |-> Displayed, scriptBuffers |-> r.scripts[Displayed].processed]

\* The render runs the waiting actions
Reduce ==
  /\ queue # <<>>
  /\ phase' = "rendering"
  /\ reg' = reduceWorkbookState(reg, Head(queue), Used)
  /\ queue' = Tail(queue)
  /\ UNCHANGED <<inflight, current, view, active, typed, budget>>

\* The effects dispatch the next ones
Commit ==
  /\ phase # "idle" /\ queue = <<>>
  /\ LET stops == IF Mounted /\ ScriptChanged(reg) THEN StopsCompletion(view) ELSE <<>>
         actions == loadIfNeeded(reg, current) \o UpdateOutdated(reg) \o stops
     IN /\ Dispatch(reg, TRUE, actions, Used)
        /\ phase' = IF actions = <<>> THEN "idle" ELSE "dirty"
  /\ view' = IF Mounted THEN UpdateDashQLScript(reg) ELSE view
  /\ active' = IF Mounted THEN ActiveScript(reg) ELSE active
  /\ inflight' = Flights(reg, current)
  /\ UNCHANGED <<current, typed, budget>>

-----------------------------------------------------------------------------
(***************************************************************************)
(* The user edits the document.                                            *)
(***************************************************************************)
BetweenRenders == phase # "rendering"
Spend(what) ==
  /\ BetweenRenders
  /\ Len(queue) < MaxWaiting
  /\ budget[what] > 0
  /\ budget' = [budget EXCEPT ![what] = @ - 1]

\* A script of the workbook has not arrived, or it has and the editor does
\* not show it yet.
Loading(c) == \E s \in ScriptIds : s[1] = c /\ reg.scripts[s].loading \notin {"SUCCEEDED", "FAILED"}
Arrived(c) ==
  \/ \E i \in DOMAIN queue : queue[i].type = "SCRIPT_LOADING_SUCCEEDED" /\ queue[i].script[1] = c
  \/ view.targetScript[1] = c /\ view.doc # reg.text[view.targetScript]
Touch(c) ==
  typed' = IF Arrived(c) THEN [typed EXCEPT ![c] = "raced"]
           ELSE IF Loading(c) /\ typed[c] = "no" THEN [typed EXCEPT ![c] = "early"]
           ELSE typed

\* The processor mirrors the edit into the script, analyzes it and passes
\* the buffers on.  Typing may keep a completion open.
updateScript(edit, cursor, closes) ==
  LET s == view.targetScript
      b == FreshBuffers(reg, Used)
      r == parseAndAnalyzeScript([reg EXCEPT !.text[s] = MirrorChanges(@, edit)], s, b)
      moved == moveCursor(r, s, cursor)
      stops == IF closes THEN StopsCompletion(view) ELSE <<>>
      v == IF closes THEN Closed(view) ELSE view
  IN /\ view' = Decorated(r, [v EXCEPT !.doc = Edited(view.doc, edit), !.scriptBuffers = b,
                                         !.scriptCursor = moved])
     /\ active' = [active EXCEPT !.scriptBuffers = b]
     /\ Dispatch(r, phase = "idle", stops \o <<ActionWith("UPDATE_SCRIPT_ANALYSIS", s, b, moved)>>,
                 Used \cup {b})
     /\ Touch(s[1])

Type ==
  /\ view.targetScript # NoScript
  /\ Spend("edits")
  /\ \E edit \in Edit, closes \in BOOLEAN :
       /\ IsEdit(edit, view.doc)
       /\ Len(Edited(view.doc, edit)) <= MaxText \* bound
       /\ closes => view.completion \in {"active", "pending"}
       /\ updateScript(edit, CursorAfter(edit), closes)
  /\ phase' = "dirty"
  /\ UNCHANGED <<inflight, current>>

\* A cursor movement closes the completion
updateCursor ==
  /\ view.targetScript # NoScript
  /\ Spend("edits")
  /\ \E offset \in 0..Len(view.doc) :
       LET s == view.targetScript
           cursor == moveCursor(reg, s, offset)
       IN /\ view' = Decorated(reg, [Closed(view) EXCEPT !.scriptCursor = cursor])
          /\ Dispatch(reg, phase = "idle", StopsCompletion(view) \o
                      <<ActionWith("UPDATE_SCRIPT_CURSOR", s, Null, cursor)>>, Used)
          /\ Touch(s[1])
  /\ phase' = "dirty"
  /\ UNCHANGED <<inflight, current, active>>

-----------------------------------------------------------------------------
(***************************************************************************)
(* Completions.  An empty result never becomes active, so that its end is  *)
(* not noticed.                                                            *)
(***************************************************************************)
DispatchCompletion(type, index) ==
  /\ Dispatch(reg, phase = "idle", <<ActionWith(type, <<view.completeWith, view.targetScript[2]>>, index, Null)>>, Used)
  /\ phase' = "dirty"
  /\ UNCHANGED <<inflight, current, active, typed>>

completeDashQL ==
  /\ view.completion \in {"none", "pending"}
  /\ view.targetScript # NoScript
  /\ view.scriptCursor # Null
  /\ view.scriptCursor.contextType # "NONE"
  /\ Spend("acts")
  /\ view' = [view EXCEPT !.completion = "pending"]
  /\ DispatchCompletion("COMPLETION_STARTED", 0)

\* The next transaction finds the completion open, or not
CompletionOpens ==
  /\ BetweenRenders
  /\ view.completion = "pending"
  /\ \E status \in {"active", "none"} : view' = [view EXCEPT !.completion = status]
  /\ UNCHANGED <<workbookVars, current, phase, active, typed, budget>>

previewCompletion ==
  /\ view.completion = "active"
  /\ Spend("acts")
  /\ UNCHANGED view
  /\ DispatchCompletion("COMPLETION_CHANGED", 1)

\* The candidate is inserted where the cursor is, but within the document
applyCompletion ==
  /\ BetweenRenders
  /\ view.completion = "active"
  /\ Len(view.doc) < MaxText /\ Len(queue) < MaxWaiting \* bounds
  /\ \E candidate \in Typed :
       LET from == IF view.scriptCursor.textOffset < Len(view.doc)
                   THEN view.scriptCursor.textOffset ELSE Len(view.doc)
       IN updateScript(<<[from |-> from, insert |-> candidate]>>, from + 1, TRUE)
  /\ phase' = "dirty"
  /\ UNCHANGED <<inflight, current, budget>>

CloseCompletion ==
  /\ BetweenRenders
  /\ view.completion = "active"
  /\ view' = Closed(view)
  /\ UNCHANGED budget
  /\ DispatchCompletion("COMPLETION_STOPPED", Null)

-----------------------------------------------------------------------------
(***************************************************************************)
(* The rest of the app.                                                    *)
(***************************************************************************)
SelectWorkbook ==
  /\ Spend("acts")
  /\ \E c \in Opened \ {current} : current' = c
  /\ phase' = "dirty"
  /\ UNCHANGED <<workbookVars, view, active, typed>>

\* The editor is on a page of its own
LeavePage ==
  /\ Mounted
  /\ Spend("acts")
  /\ view' = NoView
  /\ active' = NoActive
  /\ UNCHANGED <<workbookVars, current, phase, typed>>

EnterPage ==
  /\ BetweenRenders
  /\ ~Mounted
  /\ view' = CreateView(current)
  /\ phase' = "dirty"
  /\ UNCHANGED <<workbookVars, current, active, typed, budget>>

\* A refresh replaces the catalog of a connection and marks its workbook
RefreshCatalog ==
  /\ Spend("acts")
  /\ \E c \in Opened :
       /\ Dispatch(loadScript(reg, c), phase = "idle", <<Action("CATALOG_DID_UPDATE", <<c, 0>>)>>, Used)
  /\ phase' = "dirty"
  /\ UNCHANGED <<inflight, current, view, active, typed>>

Fetched(f) ==
  /\ BetweenRenders
  /\ f \in DOMAIN inflight
  /\ FetchSucceeds(f, phase = "idle", Used) \/ FetchFails(f, phase = "idle", Used)
  /\ phase' = "dirty"
  /\ UNCHANGED <<current, view, active, typed, budget>>

FlightKeys == {FlightKey(useWorkbookStateAllocator, s) : s \in ScriptIds}

Init ==
  /\ InitWorkbooks
  /\ current = Default
  /\ phase = "dirty"
  /\ view = CreateView(Default)
  /\ active = NoActive
  /\ typed = [c \in Connectors |-> "no"]
  /\ budget = [edits |-> MaxEdits, acts |-> MaxActs]

Next ==
  \/ Reduce
  \/ Commit
  \/ Type
  \/ updateCursor
  \/ completeDashQL
  \/ CompletionOpens
  \/ previewCompletion
  \/ applyCompletion
  \/ CloseCompletion
  \/ SelectWorkbook
  \/ LeavePage
  \/ EnterPage
  \/ RefreshCatalog
  \/ \E f \in FlightKeys : Fetched(f)

Spec == Init /\ [][Next]_vars

\* React renders what changed and runs the effects, fetches are settled.
Fairness ==
  /\ WF_vars(Reduce)
  /\ WF_vars(Commit)
  /\ \A f \in FlightKeys : WF_vars(Fetched(f))
FairSpec == Spec /\ Fairness

-----------------------------------------------------------------------------
\* Buffers live in the memory of the Wasm module: whatever was analyzed is
\* held by one script, or by an action on its way there, and what a script
\* holds was not destroyed.  The reducer that destroys and the processor that
\* makes them run at different times.
BuffersAreOwned ==
  /\ Held(reg, queue) \ {NoBuffers} = DOMAIN reg.buffers
  /\ \A s, t \in ScriptIds :
       s # t => \/ reg.scripts[s].processed # reg.scripts[t].processed
                \/ reg.scripts[s].processed = NoBuffers

\* What the user sees is the script: once everything is rendered, the document
\* is the text of the displayed script, its focus is the one of the workbook,
\* and no decoration lies behind the end of the document.  Except when the user
\* typed after a script had arrived and before it was displayed.
EditorMirrorsScript ==
  phase = "idle" /\ Mounted /\ typed[current] # "raced" =>
    /\ view.targetScript = Displayed
    /\ view.doc = reg.text[Displayed]
    /\ view.scriptBuffers = reg.scripts[Displayed].processed
    /\ view.derivedFocus = reg.userFocus[current]
    /\ UNION {view.decorations[d] : d \in DOMAIN NoDecorations} \subseteq DOMAIN view.doc

\* As the processor says: all changes of the document are mirrored to the
\* script (while no script is being loaded).
AllChangesAreMirrored ==
  view.targetScript # NoScript /\ phase = "idle" /\ typed[view.targetScript[1]] = "no" =>
    view.doc = reg.text[view.targetScript]

\* A script without a schema that does not wait to be analyzed again was analyzed as it
\* is, against the catalog as it is.
AnalysesAreCurrent ==
  \A s \in ScriptIds :
    LET data == reg.scripts[s]
    IN /\ data.scriptType # "SCHEMA"
       /\ ~data.outdatedAnalysis
       /\ typed[s[1]] # "raced"
       /\ \A i \in DOMAIN queue : queue[i].script[1] # s[1]
       => Buffers(reg, data.processed) = Analysis(reg, s)

\* The focus is that of the cursor in the analysis the script has now, or of a
\* completion.  A script that arrives where the user already was keeps the
\* cursor and the focus of the text it replaces.
FocusIsDerived ==
  \A c \in Connectors :
    typed[c] = "no" /\ (\A i \in DOMAIN queue : queue[i].script[1] # c) =>
      \/ reg.userFocus[c] \in {Null, FocusOf(reg, <<c, MainKey>>)}
      \/ FocusesCompletion(reg.userFocus[c])

ExampleScripts == {s \in ScriptIds : s[1] \in Opened /\ WorkbookSetup(s[1])[s[2]].loading = "PENDING"}

\* A displayed script that is outdated is analyzed again, and a script that is
\* being loaded ends up loaded or failed, whichever workbook is selected.
EditorSettles ==
  /\ \A c \in Opened :
       (Mounted /\ current = c /\ reg.scripts[<<c, MainKey>>].outdatedAnalysis)
         ~> (~Mounted \/ current # c \/ ~reg.scripts[<<c, MainKey>>].outdatedAnalysis)
  /\ \A s \in ExampleScripts :
       reg.scripts[s].loading = "STARTED"
         ~> reg.scripts[s].loading \in {"SUCCEEDED", "FAILED"}
=============================================================================
