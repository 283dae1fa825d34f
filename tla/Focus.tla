------------------------------- MODULE Focus -------------------------------
(***************************************************************************)
(* What the user is looking at: the focus derived from the cursor of a     *)
(* script or from a completion, and the decorations of the editor          *)
(* (src/packages/dashql-app/src/workbook/focus.ts,                         *)
(* view/workbook/dashql_decorations.ts).                                   *)
(*                                                                         *)
(* The text of a script is the sequence of the references in it.  An       *)
(* analysis is the text it was made from and the tables that the catalog   *)
(* knew.  As in the buffers of the analyzer, table references and          *)
(* expressions are numbered separately.                                    *)
(***************************************************************************)
EXTENDS Naturals, FiniteSets, Sequences

CONSTANTS
  Tables,  \* the tables that a script can refer to
  Null,    \* null and undefined
  Garbage  \* what is read beyond the end of a vector

RefKinds == {"TABLE_REF", "COLUMN_REF"}
References == [kind: RefKinds, table: Tables]
Texts == Seq(References)

\* What is analyzed, where a cursor is, and what has the focus.  Null and what is
\* read beyond the end of a vector are none of these.
Analyses == [text: Texts, known: SUBSET Tables, version: Nat]
Cursors == [textOffset: Nat, contextType: RefKinds \cup {"NONE"}, id: Nat]
Targets == {"FOCUSED_TABLE_REF_ID", "FOCUSED_EXPRESSION_ID", "FOCUSED_COMPLETION"}
Focuses ==
  [focusTarget: Targets \X Nat, scriptTableRefs: SUBSET Nat, scriptColumnRefs: SUBSET Nat]

ASSUME NullAssumption ==
  /\ Null \notin Analyses /\ Null \notin Cursors /\ Null \notin Focuses
  /\ Garbage \notin Focuses

\* The references of a kind, as places in the text
OfKind(text, kind) == {i \in DOMAIN text : text[i].kind = kind}
\* The id of the reference at a place, and the place of an id
RefId(text, i) == Cardinality({j \in OfKind(text, text[i].kind) : j < i})
Valid(text, kind, id) == id < Cardinality(OfKind(text, kind))
PlaceOf(text, kind, id) == CHOOSE i \in OfKind(text, kind) : RefId(text, i) = id

\* A cursor at a text offset, on the reference of that place if there is one
ScriptCursor(text, offset) ==
  IF offset \in DOMAIN text
  THEN [textOffset |-> offset, contextType |-> text[offset].kind, id |-> RefId(text, offset)]
  ELSE [textOffset |-> offset, contextType |-> "NONE", id |-> 0]

Resolved(analyzed, i) == analyzed.text[i].table \in analyzed.known

\* The ids of the references of a kind that are resolved to a table
findScriptTableRefsEqualRange(analyzed, table) ==
  {RefId(analyzed.text, i) : i \in {j \in OfKind(analyzed.text, "TABLE_REF") :
      Resolved(analyzed, j) /\ analyzed.text[j].table = table}}
findScriptColumnRefsEqualRange(analyzed, table) ==
  {RefId(analyzed.text, i) : i \in {j \in OfKind(analyzed.text, "COLUMN_REF") :
      Resolved(analyzed, j) /\ analyzed.text[j].table = table}}

-----------------------------------------------------------------------------
(***************************************************************************)
(* The focus: its target, and the references that are highlighted.         *)
(***************************************************************************)
UserFocus(target, tableRefs, columnRefs) ==
  [focusTarget |-> target, scriptTableRefs |-> tableRefs, scriptColumnRefs |-> columnRefs]

FocusOfTableRef(analyzed, cursor) ==
  LET place == PlaceOf(analyzed.text, "TABLE_REF", cursor.id)
      table == analyzed.text[place].table
      target == <<"FOCUSED_TABLE_REF_ID", cursor.id>>
  IN IF Resolved(analyzed, place)
     THEN UserFocus(target, findScriptTableRefsEqualRange(analyzed, table),
                            findScriptColumnRefsEqualRange(analyzed, table))
     ELSE UserFocus(target, {}, {})

FocusOfColumnRef(analyzed, cursor) ==
  LET place == PlaceOf(analyzed.text, "COLUMN_REF", cursor.id)
      table == analyzed.text[place].table
      target == <<"FOCUSED_EXPRESSION_ID", cursor.id>>
  IN IF Resolved(analyzed, place)
     THEN UserFocus(target, findScriptTableRefsEqualRange(analyzed, table),
                            findScriptColumnRefsEqualRange(analyzed, table))
     ELSE UserFocus(target, {}, {})

\* analyzed is Null when the script was never analyzed.  Its vectors are read
\* without a bounds check: a cursor whose id is not there yields garbage.
deriveFocusFromScriptCursor(analyzed, cursor) ==
  IF analyzed = Null \/ cursor.contextType = "NONE" THEN Null
  ELSE CHOOSE focus \in
         {IF ~Valid(a.text, cursor.contextType, cursor.id) THEN Garbage
          ELSE IF cursor.contextType = "TABLE_REF" THEN FocusOfTableRef(a, cursor)
          ELSE FocusOfColumnRef(a, cursor) : a \in {analyzed}} : TRUE

\* The objects of the selected candidate are highlighted in the catalog only
deriveFocusFromCompletionCandidates(completion) ==
  IF completion = Null THEN Null
  ELSE UserFocus(<<"FOCUSED_COMPLETION", completion>>, {}, {})

FocusesCompletion(focus) ==
  focus \notin {Null, Garbage} /\ focus.focusTarget[1] = "FOCUSED_COMPLETION"

-----------------------------------------------------------------------------
(***************************************************************************)
(* The decorations of the displayed script, as places in its text.         *)
(***************************************************************************)
buildDecorationsFromTokens(analyzed) == DOMAIN analyzed.text
buildDecorationsFromAnalysis(analyzed) ==
  IF analyzed = Null THEN {} ELSE {i \in DOMAIN analyzed.text : ~Resolved(analyzed, i)}

\* Ids that the analysis does not have are skipped
buildDecorationsFromFocus(analyzed, focus) ==
  IF analyzed = Null \/ focus \in {Null, Garbage} THEN {}
  ELSE {PlaceOf(analyzed.text, "TABLE_REF", id) :
          id \in {r \in focus.scriptTableRefs : Valid(analyzed.text, "TABLE_REF", r)}}
       \cup {PlaceOf(analyzed.text, "COLUMN_REF", id) :
          id \in {r \in focus.scriptColumnRefs : Valid(analyzed.text, "COLUMN_REF", r)}}

(***************************************************************************)
(* The fields of the editor's state that hold the decorations.  A          *)
(* transaction rebuilds them if the buffers are others.  Tokens stay when  *)
(* the buffers were destroyed.                                             *)
(***************************************************************************)
ScannerDecorationField(tokens, changed, analyzed) ==
  IF ~changed \/ analyzed = Null THEN tokens ELSE buildDecorationsFromTokens(analyzed)
AnalyzerDecorationsField(unresolved, changed, analyzed) ==
  IF ~changed THEN unresolved ELSE buildDecorationsFromAnalysis(analyzed)
FocusDecorationField(analyzed, focus) == buildDecorationsFromFocus(analyzed, focus)

NoDecorations == [tokens |-> {}, unresolved |-> {}, focused |-> {}]
DashQLDecorations(decorations, changed, analyzed, focus) ==
  [tokens |-> ScannerDecorationField(decorations.tokens, changed, analyzed),
   unresolved |-> AnalyzerDecorationsField(decorations.unresolved, changed, analyzed),
   focused |-> FocusDecorationField(analyzed, focus)]
=============================================================================
