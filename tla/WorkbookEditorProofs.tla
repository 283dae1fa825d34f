------------------------ MODULE WorkbookEditorProofs ------------------------
(***************************************************************************)
(* Theorems about the workbooks and their editor, for any workbooks,       *)
(* example scripts, tables, documents and bounds.                          *)
(***************************************************************************)
EXTENDS WorkbookEditor, FiniteSetTheorems, SequenceTheorems, WellFoundedInduction, TLAPS

-----------------------------------------------------------------------------
(***************************************************************************)
(* Types.                                                                  *)
(***************************************************************************)
Loadings == {"PENDING", "STARTED", "SUCCEEDED", "FAILED"}
ScriptTypes == {"UNKNOWN", "QUERY", "SCHEMA"}
Names == {Null, "Demo", "TPC-H Query 2", "TPC-H Schema"}

AnyFocus == Focuses \cup {Null, Garbage}
Decorations == [tokens : SUBSET Nat, unresolved : SUBSET Nat, focused : SUBSET Nat]

ScriptRecord ==
  [scriptType : ScriptTypes, scriptId : Names, loading : Loadings, processed : Nat,
   outdatedAnalysis : BOOLEAN, cursor : Cursors \cup {Null}, completion : Nat \cup {Null}]

Memory == UNION {[D -> Analyses] : D \in SUBSET (Nat \ {0})}

Registry ==
  [scripts : [ScriptIds -> ScriptRecord],
   userFocus : [Connectors -> AnyFocus],
   text : [ScriptIds -> Texts],
   version : [Connectors -> Nat],
   buffers : Memory]

\* The types and ids of scripts do not change
AsSetUp(r) ==
  \A s \in ScriptIds :
    /\ r.scripts[s].scriptType = WorkbookSetup(s[1])[s[2]].scriptType
    /\ r.scripts[s].scriptId = WorkbookSetup(s[1])[s[2]].scriptId

RegistryOK(r) == r \in Registry /\ IsFiniteSet(DOMAIN r.buffers) /\ AsSetUp(r)

ActionTypes ==
  {"CATALOG_DID_UPDATE", "UPDATE_SCRIPT", "UPDATE_SCRIPT_ANALYSIS", "UPDATE_SCRIPT_CURSOR",
   "SCRIPT_LOADING_STARTED", "SCRIPT_LOADING_FAILED", "SCRIPT_LOADING_SUCCEEDED",
   "COMPLETION_STARTED", "COMPLETION_CHANGED", "COMPLETION_STOPPED"}

\* What an action carries
ActionOK(a) ==
  /\ IF a.type = "CATALOG_DID_UPDATE" THEN a.script[1] \in Connectors ELSE a.script \in ScriptIds
  /\ a.type \notin {"CATALOG_DID_UPDATE", "SCRIPT_LOADING_STARTED", "SCRIPT_LOADING_FAILED",
                  "SCRIPT_LOADING_SUCCEEDED"} => a.script[2] = MainKey
  /\ a.type = "UPDATE_SCRIPT_ANALYSIS" => a.value \in Nat \ {0} /\ a.cursor \in Cursors
  /\ a.type = "UPDATE_SCRIPT_CURSOR" => a.cursor \in Cursors
  /\ a.type = "SCRIPT_LOADING_SUCCEEDED" => a.value \in Texts
  /\ a.type = "COMPLETION_CHANGED" => a.value \in Nat
Dispatched ==
  {a \in [type : ActionTypes, script : Connectors \X (0..2), value : Nat \cup Texts \cup {Null},
          cursor : Cursors \cup {Null}] : ActionOK(a)}

-----------------------------------------------------------------------------
(***************************************************************************)
(* The workbooks as they are set up.                                       *)
(***************************************************************************)
Blank(data) ==
  /\ data \in ScriptRecord /\ data.loading \in {"PENDING", "SUCCEEDED"}
  /\ data.processed = NoBuffers /\ data.outdatedAnalysis = TRUE /\ data.cursor = Null

LEMMA SetupTypes ==
  ASSUME NEW c \in KnownConnectors
  PROVE  /\ Keys(c) \in {1..1, 1..2}
         /\ \A k \in Keys(c) : Blank(WorkbookSetup(c)[k])
         /\ \A k \in Keys(c) :
              /\ WorkbookSetup(c)[k].loading = "PENDING" => c \in {"demo", "serverless"}
              /\ WorkbookSetup(c)[k].scriptType = "SCHEMA" => c = "serverless" /\ k # MainKey
              /\ c = "serverless" /\ k = MainKey => WorkbookSetup(c)[k].scriptType = "QUERY"
<1> DEFINE blank == generateBlankScriptMetadata
           example(type, name) == createExampleMetadata(type, name)
<1>1. Blank(blank) /\ blank.loading = "SUCCEEDED" /\ blank.scriptType = "UNKNOWN"
  BY DEF Blank, ScriptRecord, ScriptData, generateBlankScriptMetadata, ScriptTypes, Names, Loadings, NoBuffers
<1>2. \A type \in {"QUERY", "SCHEMA"}, name \in {"Demo", "TPC-H Query 2", "TPC-H Schema"} :
        LET e == example(type, name)
        IN Blank(e) /\ e.loading = "PENDING" /\ e.scriptType = type
  BY DEF Blank, ScriptRecord, ScriptData, createExampleMetadata, ScriptTypes, Names, Loadings, NoBuffers
<1>3. CASE c = "serverless"
  <2>1. WorkbookSetup(c) = ServerlessWorkbook
    BY <1>3 DEF WorkbookSetup
  <2> HIDE DEF blank, example
  <2>2. WorkbookSetup(c) = <<example("QUERY", "TPC-H Query 2"), example("SCHEMA", "TPC-H Schema")>>
    BY <2>1 DEF ServerlessWorkbook, example
  <2>3. /\ DOMAIN WorkbookSetup(c) = 1..2
        /\ WorkbookSetup(c)[1] = example("QUERY", "TPC-H Query 2")
        /\ WorkbookSetup(c)[2] = example("SCHEMA", "TPC-H Schema")
    <3>1. \A x, y : DOMAIN <<x, y>> = 1..2 /\ <<x, y>>[1] = x /\ <<x, y>>[2] = y
      OBVIOUS
    <3> QED
      BY <2>2, <3>1
  <2>5. \A k \in 1..2 : k = 1 \/ k = 2
    OBVIOUS
  <2> QED
    <3>1. \A k \in Keys(c) : Blank(WorkbookSetup(c)[k]) /\ WorkbookSetup(c)[k].loading = "PENDING"
      BY <1>2, <2>3, <2>5 DEF Keys
    <3>2. WorkbookSetup(c)[1].scriptType = "QUERY"
      BY <1>2, <2>3
    <3>3. Keys(c) = 1..2 /\ \A k \in Keys(c) : k = MainKey <=> k = 1
      BY <2>3 DEF Keys, MainKey
    <3>4. ASSUME NEW k \in Keys(c), k = MainKey
          PROVE  WorkbookSetup(c)[k].scriptType = "QUERY"
      BY <3>2, <3>3, <3>4
    <3>5. Keys(c) \in {1..1, 1..2}
      BY <3>3
    <3>6. \A k \in Keys(c) : WorkbookSetup(c)[k].scriptType = "SCHEMA" => k # MainKey
      BY <3>4
    <3> QED
      BY <1>3, <3>1, <3>4, <3>5, <3>6
<1>4. CASE c = "demo"
  <2>1. WorkbookSetup(c) = <<example("QUERY", "Demo")>>
    BY <1>4 DEF WorkbookSetup, DemoWorkbook
  <2> HIDE DEF blank, example
  <2>3. /\ DOMAIN WorkbookSetup(c) = 1..1
        /\ WorkbookSetup(c)[1] = example("QUERY", "Demo")
    BY <2>1
  <2>4. \A k \in Keys(c) :
          /\ Blank(WorkbookSetup(c)[k])
          /\ WorkbookSetup(c)[k].scriptType # "SCHEMA"
    <3>1. Blank(example("QUERY", "Demo")) /\ example("QUERY", "Demo").scriptType = "QUERY"
      BY <1>2
    <3>2. \A k \in Keys(c) : k = 1
      BY <2>3 DEF Keys
    <3>3. example("QUERY", "Demo").scriptType # "SCHEMA"
      BY <3>1
    <3> QED
      BY <2>3, <3>1, <3>2, <3>3
  <2> QED
    BY <1>4, <2>3, <2>4 DEF Keys
<1>5. CASE c \notin {"serverless", "demo"}
  <2>1. WorkbookSetup(c) = <<blank>>
    BY <1>5 DEF WorkbookSetup, KnownConnectors, SalesforceWorkbook, HyperWorkbook, TrinoWorkbook
  <2> HIDE DEF blank, example
  <2>2. DOMAIN WorkbookSetup(c) = 1..1 /\ WorkbookSetup(c)[1] = blank
    BY <2>1
  <2>3. \A k \in Keys(c) :
          /\ Blank(WorkbookSetup(c)[k])
          /\ WorkbookSetup(c)[k].loading # "PENDING"
          /\ WorkbookSetup(c)[k].scriptType # "SCHEMA"
    BY <1>1, <2>2 DEF Keys
  <2> QED
    BY <1>5, <2>2, <2>3 DEF Keys
<1> QED
  BY <1>3, <1>4, <1>5

LEMMA ScriptIdsAre ==
  /\ \A c \in Connectors : c \in KnownConnectors
  /\ \A s \in ScriptIds :
       /\ s[1] \in Connectors /\ s[2] \in Keys(s[1]) /\ s[2] \in {1, 2} /\ s = <<s[1], s[2]>>
       /\ s \in Connectors \X (0..2)
  /\ \A c \in Connectors : \A k \in Keys(c) : <<c, k>> \in ScriptIds
  /\ \A c \in Connectors : <<c, MainKey>> \in ScriptIds
<1>1. \A c \in Connectors : c \in KnownConnectors /\ Keys(c) \in {1..1, 1..2}
  BY WorkbookAssumption, SetupTypes
<1>2. \A c \in Connectors : \A k \in Keys(c) : <<c, k>> \in ScriptIds
  BY DEF ScriptIds
<1>3. ASSUME NEW s \in ScriptIds
      PROVE  /\ s[1] \in Connectors /\ s[2] \in Keys(s[1]) /\ s[2] \in {1, 2} /\ s = <<s[1], s[2]>>
             /\ s \in Connectors \X (0..2)
  <2>1. PICK c \in Connectors : s \in {c} \X Keys(c)
    BY DEF ScriptIds
  <2>2. s = <<s[1], s[2]>> /\ s[1] = c /\ s[2] \in Keys(c)
    BY <2>1
  <2>3. s[2] \in 1..2
    BY <2>2, <1>1
  <2> QED
    BY <2>2, <2>3
<1> QED
  BY <1>1, <1>2, <1>3 DEF MainKey

LEMMA ScriptIdsFinite == IsFiniteSet(ScriptIds)
<1>1. IsFiniteSet(KnownConnectors)
  <2>1. KnownConnectors = ((({"serverless"} \cup {"demo"}) \cup {"hyper"}) \cup {"salesforce"}) \cup {"trino"}
    BY DEF KnownConnectors
  <2>2. IsFiniteSet({"serverless"})
    BY FS_Singleton
  <2>3. IsFiniteSet({"serverless"} \cup {"demo"})
    BY <2>2, FS_AddElement
  <2>4. IsFiniteSet(({"serverless"} \cup {"demo"}) \cup {"hyper"})
    BY <2>3, FS_AddElement
  <2>5. IsFiniteSet((({"serverless"} \cup {"demo"}) \cup {"hyper"}) \cup {"salesforce"})
    BY <2>4, FS_AddElement
  <2> QED
    BY <2>1, <2>5, FS_AddElement
<1>2. IsFiniteSet(1..2)
  <2>1. 1 \in Int /\ 2 \in Int
    OBVIOUS
  <2> QED
    BY <2>1, FS_Interval
<1>3. IsFiniteSet(KnownConnectors \X (1..2))
  BY <1>1, <1>2, FS_Product
<1>4. ScriptIds \subseteq KnownConnectors \X (1..2)
  BY ScriptIdsAre
<1> QED
  BY <1>3, <1>4, FS_Subset

LEMMA SetupOfScript ==
  ASSUME NEW s \in ScriptIds
  PROVE  /\ Blank(WorkbookSetup(s[1])[s[2]])
         /\ WorkbookSetup(s[1])[s[2]].scriptType = "SCHEMA" => s[2] # MainKey
         /\ \A t \in ScriptIds :
              WorkbookSetup(s[1])[s[2]].scriptType = "SCHEMA" /\ t[1] = s[1] /\ t # s
                => WorkbookSetup(t[1])[t[2]].scriptType = "QUERY"
<1>0. \A t \in ScriptIds : t[1] \in KnownConnectors /\ t[2] \in Keys(t[1])
  BY ScriptIdsAre
<1>1. \A t \in ScriptIds :
        /\ Blank(WorkbookSetup(t[1])[t[2]])
        /\ WorkbookSetup(t[1])[t[2]].scriptType = "SCHEMA" => t[1] = "serverless" /\ t[2] # MainKey
        /\ t[1] = "serverless" /\ t[2] = MainKey => WorkbookSetup(t[1])[t[2]].scriptType = "QUERY"
  <2> TAKE t \in ScriptIds
  <2> DEFINE c == t[1]
             k == t[2]
  <2>1. c \in KnownConnectors /\ k \in Keys(c)
    BY <1>0
  <2> HIDE DEF c, k
  <2>2. /\ Blank(WorkbookSetup(c)[k])
        /\ WorkbookSetup(c)[k].scriptType = "SCHEMA" => c = "serverless" /\ k # MainKey
        /\ c = "serverless" /\ k = MainKey => WorkbookSetup(c)[k].scriptType = "QUERY"
    BY <2>1, SetupTypes
  <2> QED
    BY <2>2 DEF c, k
<1>2. ASSUME NEW t \in ScriptIds, t[1] = s[1], t # s
      PROVE  s[2] # MainKey => t[2] = MainKey
  BY <1>2, ScriptIdsAre DEF MainKey
<1> QED
  BY <1>1, <1>2

-----------------------------------------------------------------------------
(***************************************************************************)
(* The inductive invariant, of a registry r, the actions q that wait, a    *)
(* view v, the active script a, what was typed ty and the flights fl.      *)
(***************************************************************************)
IsUpdate(a, s) == a.type = "UPDATE_SCRIPT_ANALYSIS" /\ a.script = s
IsLoaded(a, s) == a.type = "SCRIPT_LOADING_SUCCEEDED" /\ a.script = s
IsAnswer(a, s) == a.type \in {"SCRIPT_LOADING_SUCCEEDED", "SCRIPT_LOADING_FAILED"} /\ a.script = s
IsStarted(a, s) == a.type = "SCRIPT_LOADING_STARTED" /\ a.script = s
MovesCursor(a, s) == a.type \in {"UPDATE_SCRIPT_ANALYSIS", "UPDATE_SCRIPT_CURSOR"} /\ a.script = s
Processed(r, s) == r.scripts[s].processed
Alive(r) == DOMAIN r.buffers

\* Whatever lives has one holder, and what is held lives
Owned(r, q) ==
  /\ \A b \in Alive(r) :
       \/ \E s \in ScriptIds : Processed(r, s) = b
       \/ \E i \in DOMAIN q, s \in ScriptIds : IsUpdate(q[i], s) /\ q[i].value = b
  /\ \A s \in ScriptIds : Processed(r, s) \in Alive(r) \cup {NoBuffers}
  /\ \A s, t \in ScriptIds :
       s # t => Processed(r, s) # Processed(r, t) \/ Processed(r, s) = NoBuffers
  /\ \A i \in DOMAIN q, s \in ScriptIds : IsUpdate(q[i], s) =>
       /\ q[i].value \in Alive(r)
       /\ \A t \in ScriptIds : Processed(r, t) # q[i].value
  /\ \A i, j \in DOMAIN q, s, t \in ScriptIds :
       IsUpdate(q[i], s) /\ IsUpdate(q[j], t) /\ i # j => q[i].value # q[j].value

Unanalyzed(r) ==
  \A s \in ScriptIds : Processed(r, s) = NoBuffers => r.scripts[s].outdatedAnalysis

\* b is what the script holds when the waiting actions up to the i-th were reduced,
\* and no later one passes other buffers
Final(r, q, s, b, i) ==
  /\ i \in 0..Len(q)
  /\ \A j \in DOMAIN q : IsUpdate(q[j], s) => j <= i
  /\ IF i = 0 THEN b = Processed(r, s) ELSE IsUpdate(q[i], s) /\ b = q[i].value

WillBeMarked(q, c, i) ==
  \E j \in DOMAIN q : j > i /\ q[j].type = "CATALOG_DID_UPDATE" /\ q[j].script[1] = c

\* Its text is that of the script, and if the catalog is another one then the script is
\* marked
Current(r, q, s, b, i) ==
  /\ b # NoBuffers => r.buffers[b].text = r.text[s]
  /\ r.scripts[s].scriptType # "SCHEMA" =>
       \/ b # NoBuffers /\ r.buffers[b] = Analysis(r, s)
       \/ WillBeMarked(q, s[1], i)
       \/ i = 0 /\ r.scripts[s].outdatedAnalysis

\* The last analysis of a script is current, and made after its workbook was loaded
LoadsAfterUpdates(q, s) ==
  \A i, j \in DOMAIN q, t \in ScriptIds :
    t[1] = s[1] /\ IsLoaded(q[i], t) /\ i < j => ~IsUpdate(q[j], s)
Fine(r, q, ty) ==
  \A s \in ScriptIds : ty[s[1]] # "raced" =>
    /\ LoadsAfterUpdates(q, s)
    /\ \A b \in Nat, i \in 0..Len(q) : Final(r, q, s, b, i) => Current(r, q, s, b, i)

FocusFine(r, ty) ==
  \A c \in Connectors : ty[c] = "no" =>
    \/ r.userFocus[c] \in {Null, FocusOf(r, <<c, MainKey>>)}
    \/ FocusesCompletion(r.userFocus[c])

IsLoading(r, s) == r.scripts[s].loading \in {"PENDING", "STARTED"}

\* A script is loaded once
Flying(fl, s) == \E f \in DOMAIN fl : fl[f].script = s /\ ~fl[f].settled
LoadsOnce(r, q, fl, s) ==
  /\ \A i, j \in DOMAIN q : IsAnswer(q[i], s) /\ IsAnswer(q[j], s) => i = j
  /\ \A i, j \in DOMAIN q : IsAnswer(q[i], s) /\ IsStarted(q[j], s) => j < i
  /\ \A i \in DOMAIN q : IsAnswer(q[i], s) => IsLoading(r, s) /\ ~Flying(fl, s)
  /\ \A i \in DOMAIN q : IsStarted(q[i], s) => IsLoading(r, s)
  /\ Flying(fl, s) => IsLoading(r, s)
  /\ r.scripts[s].loading = "PENDING" =>
       /\ s[1] \in {"serverless", "demo"}
       /\ \/ \E i \in DOMAIN q : IsStarted(q[i], s)
          \/ /\ \A f \in DOMAIN fl : fl[f].script # s
             /\ \A i \in DOMAIN q : ~IsAnswer(q[i], s)
Loads(r, q, fl) ==
  /\ \A f \in DOMAIN fl :
       fl[f].script \in ScriptIds /\ fl[f].script[1] \in {"serverless", "demo"}
  /\ \A f, g \in DOMAIN fl : fl[f].script = fl[g].script => f = g
  /\ \A s \in ScriptIds : LoadsOnce(r, q, fl, s)

\* The user did nothing yet to a workbook that is being loaded
Untouched(r, q, ty) ==
  \A c \in Connectors : ty[c] = "no" /\ (\E s \in ScriptIds : s[1] = c /\ IsLoading(r, s)) =>
    \A s \in ScriptIds : s[1] = c =>
      /\ r.scripts[s].cursor = Null
      /\ \A i \in DOMAIN q : ~MovesCursor(q[i], s)

ViewTypes ==
  [doc : Texts, targetScript : ScriptIds \cup {NoScript}, scriptBuffers : Nat,
   scriptCursor : Cursors \cup {Null}, derivedFocus : AnyFocus,
   completion : {"none", "pending", "active", "unmounted"}, completeWith : Connectors \cup {Null},
   decorations : Decorations]
MountedView(v) == v.completion # "unmounted"

\* What the view shows, as far as it is known
ViewOK(r, q, v, a) ==
  /\ v \in ViewTypes
  /\ a \in [script : ScriptIds \cup {NoScript}, scriptBuffers : Nat]
  /\ v.targetScript # NoScript => v.targetScript[2] = MainKey
  /\ IF MountedView(v)
     THEN v.targetScript = a.script /\ v.scriptBuffers = a.scriptBuffers /\ v.completeWith \in Connectors
     ELSE a = NoActive /\ v.targetScript = NoScript
  /\ v.completion \in {"pending", "active"} => v.targetScript # NoScript /\ v.scriptCursor # Null
  /\ v.targetScript # NoScript /\ v.scriptCursor # Null =>
       \/ r.scripts[v.targetScript].cursor # Null
       \/ \E i \in DOMAIN q : MovesCursor(q[i], v.targetScript)

\* The document is the text, or the view shows buffers that the script does not have any more
Mirrors(r, q, v, ty) ==
  LET s == v.targetScript
  IN s # NoScript /\ ty[s[1]] # "raced" =>
       \/ v.doc = r.text[s]
       \/ /\ v.scriptBuffers # Processed(r, s)
          /\ \A i \in DOMAIN q : IsUpdate(q[i], s) => q[i].value # v.scriptBuffers

\* The decorations are those of a text that was analyzed
Painted(r, v) ==
  v.scriptBuffers \in Alive(r) =>
    v.decorations.tokens \cup v.decorations.unresolved \subseteq DOMAIN r.buffers[v.scriptBuffers].text

Books(r, q, ty, fl) ==
  /\ RegistryOK(r) /\ q \in Seq(Dispatched)
  /\ Owned(r, q) /\ Unanalyzed(r) /\ Fine(r, q, ty) /\ FocusFine(r, ty)
  /\ Loads(r, q, fl) /\ Untouched(r, q, ty)
Shows(r, q, v, a, ty) ==
  /\ ViewOK(r, q, v, a) /\ Painted(r, v)
  /\ ~MultiRange => Mirrors(r, q, v, ty)

-----------------------------------------------------------------------------
(***************************************************************************)
(* Sets, names and places.                                                 *)
(***************************************************************************)
LEMMA SetToSeqOf ==
  ASSUME NEW S, IsFiniteSet(S)
  PROVE  /\ SetToSeq(S) \in Seq(S)
         /\ \A x \in S : \E i \in DOMAIN SetToSeq(S) : SetToSeq(S)[i] = x
<1> DEFINE n == Cardinality(S)
           f == SetToSeq(S)
<1>1. n \in Nat /\ ExistsBijection(1..n, S)
  BY FS_CardinalityType
<1>2. \E g \in [1..n -> S] : IsInjective(g)
  BY <1>1 DEF ExistsBijection, Bijection, Injection
<1>3. f \in [1..n -> S] /\ IsInjective(f)
  BY <1>2 DEF SetToSeq
<1>4. f \in Injection(1..n, S)
  BY <1>3 DEF Injection
<1>5. Cardinality(1..n) = n
  <2>1. 1 \in Int /\ n \in Int
    BY <1>1
  <2> QED
    BY <1>1, <2>1, FS_Interval
<1>6. f \in Surjection(1..n, S)
  BY <1>4, <1>5, FS_Injection
<1>7. f \in Seq(S) /\ DOMAIN f = 1..n
  BY <1>1, <1>3
<1> QED
  BY <1>6, <1>7 DEF Surjection

LEMMA FreshBuffersAreFresh ==
  ASSUME NEW r, NEW used, IsFiniteSet(used), IsFiniteSet(DOMAIN r.buffers)
  PROVE  /\ FreshBuffers(r, used) \in Nat \ {0}
         /\ FreshBuffers(r, used) \notin used /\ FreshBuffers(r, used) \notin DOMAIN r.buffers
<1> DEFINE taken == used \cup DOMAIN r.buffers
           n == Cardinality(taken) + 1
<1>1. IsFiniteSet(taken)
  BY FS_Union
<1>2. n \in Nat \ {0} /\ n > Cardinality(taken) /\ Cardinality(taken) \in Nat
  BY <1>1, FS_CardinalityType
<1>3. Cardinality(1..n) = n
  <2>1. 1 \in Int /\ n \in Int
    BY <1>2
  <2> HIDE DEF n
  <2> QED
    BY <1>2, <2>1, FS_Interval
<1>4. \E b \in 1..n : b \notin taken
  <2> SUFFICES ASSUME 1..n \subseteq taken PROVE FALSE
    OBVIOUS
  <2>1. Cardinality(1..n) <= Cardinality(taken)
    BY <1>1, FS_Subset
  <2> QED
    BY <1>2, <1>3, <2>1
<1>5. FreshBuffers(r, used) \in 1..n /\ FreshBuffers(r, used) \notin taken
  BY <1>4 DEF FreshBuffers
<1> QED
  BY <1>2, <1>5

LEMMA TextIs ==
  ASSUME NEW text \in Texts
  PROVE  /\ Len(text) \in Nat /\ DOMAIN text = 1..Len(text)
         /\ \A i \in DOMAIN text :
              /\ text[i] \in References /\ text[i].kind \in RefKinds /\ text[i].table \in Tables
              /\ i \in Nat
         /\ \A kind : OfKind(text, kind) \subseteq DOMAIN text /\ IsFiniteSet(OfKind(text, kind))
<1>1. Len(text) \in Nat /\ DOMAIN text = 1..Len(text) /\ \A i \in DOMAIN text : text[i] \in References
  BY DEF Texts
<1>2. \A x \in References : x.kind \in RefKinds /\ x.table \in Tables
  BY DEF References
<1>3. IsFiniteSet(1..Len(text))
  <2>1. 1 \in Int /\ Len(text) \in Int
    BY <1>1
  <2> QED
    BY <2>1, FS_Interval
<1>4. \A kind : OfKind(text, kind) \subseteq DOMAIN text
  BY DEF OfKind
<1>5. \A kind : IsFiniteSet(OfKind(text, kind))
  BY <1>1, <1>3, <1>4, FS_Subset
<1> QED
  BY <1>1, <1>2, <1>4, <1>5

LEMMA RefIds ==
  ASSUME NEW text \in Texts, NEW i \in DOMAIN text
  PROVE  RefId(text, i) \in Nat
<1> DEFINE earlier == {j \in OfKind(text, text[i].kind) : j < i}
<1>1. IsFiniteSet(earlier)
  BY TextIs, FS_Subset
<1> QED
  BY <1>1, FS_CardinalityType DEF RefId

\* An id that is there has a place
LEMMA Places ==
  ASSUME NEW text \in Texts, NEW kind, NEW id \in Nat, Valid(text, kind, id)
  PROVE  PlaceOf(text, kind, id) \in DOMAIN text
<1> DEFINE S == OfKind(text, kind)
           Below(m) == {j \in S : j < m}
           T == {m \in Nat : Cardinality(Below(m)) > id}
<1>1. IsFiniteSet(S) /\ S \subseteq DOMAIN text /\ Len(text) \in Nat /\ DOMAIN text = 1..Len(text)
  BY TextIs
<1>2. \A m : IsFiniteSet(Below(m)) /\ Cardinality(Below(m)) \in Nat
  <2> TAKE m
  <2>1. IsFiniteSet(Below(m))
    BY <1>1, FS_Subset
  <2> QED
    BY <2>1, FS_CardinalityType
<1>3. Len(text) + 1 \in T
  <2>1. Below(Len(text) + 1) = S
    BY <1>1
  <2>2. Cardinality(S) > id
    <3>1. Cardinality(S) \in Nat /\ id < Cardinality(S)
      BY <1>1, FS_CardinalityType DEF Valid
    <3> QED
      BY <3>1
  <2> HIDE DEF S, Below
  <2> QED
    BY <1>1, <2>1, <2>2
<1>4. PICK m \in T : \A k \in T : ~(k < m)
  <2>1. T \subseteq Nat /\ T # {}
    BY <1>3
  <2>2. PICK x \in T : \A y \in T : ~(<<y, x>> \in OpToRel(<, Nat))
    <3> HIDE DEF T
    <3> QED
      BY <2>1, NatLessThanWellFounded, WFMin
  <2>3. \A y \in T : y < x => <<y, x>> \in OpToRel(<, Nat)
    BY <2>1 DEF OpToRel
  <2> QED
    BY <2>2, <2>3
<1>5. m \in Nat /\ Cardinality(Below(m)) > id
  BY <1>4
<1>6. m # 0
  <2>1. Below(0) = {}
    BY <1>1
  <2>2. Cardinality(Below(0)) = 0
    BY <2>1, FS_EmptySet
  <2> HIDE DEF Below
  <2> QED
    BY <1>5, <2>2
<1> DEFINE p == m - 1
<1>7. p \in Nat /\ ~(Cardinality(Below(p)) > id)
  <2>1. p \in Nat /\ p < m
    BY <1>5, <1>6
  <2>2. p \notin T
    BY <1>4, <2>1
  <2> HIDE DEF p
  <2> QED
    BY <2>1, <2>2
<1>8. p \in S
  <2> SUFFICES ASSUME p \notin S PROVE FALSE
    OBVIOUS
  <2>1. Below(p) = Below(m)
    BY <1>1, <1>5
  <2> HIDE DEF p, Below
  <2> QED
    BY <1>5, <1>7, <2>1
<1>9. Cardinality(Below(p)) = id
  <2>1. Below(m) = Below(p) \cup {p} /\ p \notin Below(p)
    BY <1>1, <1>5, <1>8
  <2>2. Cardinality(Below(m)) = Cardinality(Below(p)) + 1
    <3> HIDE DEF Below, p
    <3> QED
      BY <1>2, <2>1, FS_AddElement
  <2> HIDE DEF Below, p
  <2> QED
    BY <1>2, <1>5, <1>7, <2>2
<1>10. text[p].kind = kind
  BY <1>8 DEF OfKind
<1>11. RefId(text, p) = id
  <2> HIDE DEF p
  <2> QED
    BY <1>9, <1>10 DEF RefId
<1> HIDE DEF p, T
<1>12. PlaceOf(text, kind, id) \in S
  BY <1>8, <1>11 DEF PlaceOf
<1> QED
  BY <1>1, <1>12

-----------------------------------------------------------------------------
(***************************************************************************)
(* The focus and the decorations.                                          *)
(***************************************************************************)
LEMMA AnalysisFields ==
  ASSUME NEW analyzed \in Analyses
  PROVE  analyzed.text \in Texts /\ analyzed # Null
BY NullAssumption DEF Analyses

LEMMA CursorTypes ==
  ASSUME NEW text \in Texts, NEW offset \in Nat
  PROVE  ScriptCursor(text, offset) \in Cursors /\ ScriptCursor(text, offset) # Null
<1>1. ScriptCursor(text, offset) \in Cursors
  <2>1. CASE offset \in DOMAIN text
    <3>1. RefId(text, offset) \in Nat /\ text[offset].kind \in RefKinds
      BY <2>1, RefIds, TextIs
    <3> QED
      BY <2>1, <3>1 DEF ScriptCursor, Cursors
  <2>2. CASE offset \notin DOMAIN text
    BY <2>2 DEF ScriptCursor, Cursors
  <2> QED
    BY <2>1, <2>2
<1> QED
  BY <1>1, NullAssumption

LEMMA CursorFields ==
  ASSUME NEW cursor \in Cursors
  PROVE  /\ cursor.textOffset \in Nat /\ cursor.id \in Nat /\ cursor # Null
         /\ cursor.contextType \in {"TABLE_REF", "COLUMN_REF", "NONE"}
BY NullAssumption DEF Cursors, RefKinds

LEMMA EqualRanges ==
  ASSUME NEW analyzed \in Analyses, NEW table
  PROVE  /\ findScriptTableRefsEqualRange(analyzed, table) \subseteq Nat
         /\ findScriptColumnRefsEqualRange(analyzed, table) \subseteq Nat
<1>1. analyzed.text \in Texts
  BY AnalysisFields
<1>2. \A kind : \A i \in OfKind(analyzed.text, kind) : RefId(analyzed.text, i) \in Nat
  BY <1>1, TextIs, RefIds
<1> QED
  BY <1>2 DEF findScriptTableRefsEqualRange, findScriptColumnRefsEqualRange

LEMMA UserFocusTypes ==
  ASSUME NEW target \in Targets, NEW id \in Nat, NEW tables \in SUBSET Nat, NEW columns \in SUBSET Nat
  PROVE  /\ UserFocus(<<target, id>>, tables, columns) \in Focuses
         /\ UserFocus(<<target, id>>, tables, columns).focusTarget[1] = target
BY DEF UserFocus, Focuses

LEMMA DerivedFocus ==
  ASSUME NEW analyzed \in Analyses \cup {Null}, NEW cursor \in Cursors
  PROVE  deriveFocusFromScriptCursor(analyzed, cursor) \in AnyFocus
<1>1. ASSUME NEW a \in Analyses
      PROVE  FocusOfTableRef(a, cursor) \in Focuses /\ FocusOfColumnRef(a, cursor) \in Focuses
  <2>1. cursor.id \in Nat
    BY CursorFields
  <2>2. \A table : /\ findScriptTableRefsEqualRange(a, table) \in SUBSET Nat
                   /\ findScriptColumnRefsEqualRange(a, table) \in SUBSET Nat
    BY EqualRanges
  <2>3. {} \in SUBSET Nat /\ "FOCUSED_TABLE_REF_ID" \in Targets /\ "FOCUSED_EXPRESSION_ID" \in Targets
    BY DEF Targets
  <2>4. FocusOfTableRef(a, cursor) \in Focuses
    BY <2>1, <2>2, <2>3, UserFocusTypes DEF FocusOfTableRef
  <2>5. FocusOfColumnRef(a, cursor) \in Focuses
    BY <2>1, <2>2, <2>3, UserFocusTypes DEF FocusOfColumnRef
  <2> QED
    BY <2>4, <2>5
<1>2. CASE analyzed = Null \/ cursor.contextType = "NONE"
  BY <1>2 DEF deriveFocusFromScriptCursor, AnyFocus
<1>3. CASE ~(analyzed = Null \/ cursor.contextType = "NONE")
  <2> DEFINE focus(a) == IF ~Valid(a.text, cursor.contextType, cursor.id) THEN Garbage
                         ELSE IF cursor.contextType = "TABLE_REF" THEN FocusOfTableRef(a, cursor)
                         ELSE FocusOfColumnRef(a, cursor)
  <2>1. deriveFocusFromScriptCursor(analyzed, cursor) = focus(analyzed)
    <3>1. deriveFocusFromScriptCursor(analyzed, cursor) = CHOOSE f \in {focus(a) : a \in {analyzed}} : TRUE
      BY <1>3 DEF deriveFocusFromScriptCursor
    <3> HIDE DEF focus
    <3>2. {focus(a) : a \in {analyzed}} = {focus(analyzed)}
      OBVIOUS
    <3> QED
      BY <3>1, <3>2
  <2>2. focus(analyzed) \in AnyFocus
    BY <1>1, <1>3 DEF AnyFocus
  <2> QED
    BY <2>1, <2>2
<1> QED
  BY <1>2, <1>3

LEMMA CompletionFocus ==
  ASSUME NEW index \in Nat
  PROVE  LET focus == deriveFocusFromCompletionCandidates(index)
         IN focus \in AnyFocus /\ (focus = Null \/ FocusesCompletion(focus))
<1>1. CASE index = Null
  BY <1>1 DEF deriveFocusFromCompletionCandidates, AnyFocus
<1>2. CASE index # Null
  <2> DEFINE focus == UserFocus(<<"FOCUSED_COMPLETION", index>>, {}, {})
  <2>1. "FOCUSED_COMPLETION" \in Targets /\ {} \in SUBSET Nat
    BY DEF Targets
  <2>2. focus \in Focuses /\ focus.focusTarget[1] = "FOCUSED_COMPLETION"
    BY <2>1, UserFocusTypes
  <2>3. deriveFocusFromCompletionCandidates(index) = focus
    BY <1>2 DEF deriveFocusFromCompletionCandidates
  <2> HIDE DEF focus
  <2> QED
    BY <2>2, <2>3, NullAssumption DEF FocusesCompletion, AnyFocus
<1> QED
  BY <1>1, <1>2

LEMMA FocusedDecorations ==
  ASSUME NEW analyzed \in Analyses \cup {Null}, NEW focus \in AnyFocus
  PROVE  /\ analyzed # Null => buildDecorationsFromFocus(analyzed, focus) \subseteq DOMAIN analyzed.text
         /\ buildDecorationsFromFocus(analyzed, focus) \subseteq Nat
<1>1. CASE analyzed = Null \/ focus \in {Null, Garbage}
  BY <1>1 DEF buildDecorationsFromFocus
<1>2. CASE analyzed # Null /\ focus \notin {Null, Garbage}
  <2>1. analyzed.text \in Texts
    BY <1>2, AnalysisFields
  <2>2. focus \in Focuses
    BY <1>2 DEF AnyFocus
  <2>3. focus.scriptTableRefs \subseteq Nat /\ focus.scriptColumnRefs \subseteq Nat
    BY <2>2 DEF Focuses
  <2>4. \A kind : \A id \in Nat :
          Valid(analyzed.text, kind, id) => PlaceOf(analyzed.text, kind, id) \in DOMAIN analyzed.text
    BY <2>1, Places
  <2>5. DOMAIN analyzed.text \subseteq Nat
    BY <2>1, TextIs
  <2>6. buildDecorationsFromFocus(analyzed, focus) \subseteq DOMAIN analyzed.text
    BY <1>2, <2>3, <2>4 DEF buildDecorationsFromFocus
  <2> QED
    BY <2>5, <2>6
<1> QED
  BY <1>1, <1>2

LEMMA DecorationTypes ==
  ASSUME NEW d \in Decorations, NEW changed \in BOOLEAN,
         NEW analyzed \in Analyses \cup {Null}, NEW focus \in AnyFocus
  PROVE  LET e == DashQLDecorations(d, changed, analyzed, focus)
         IN /\ e \in Decorations
            /\ e.focused = buildDecorationsFromFocus(analyzed, focus)
            /\ ~changed => e.tokens = d.tokens /\ e.unresolved = d.unresolved
            /\ changed /\ analyzed # Null =>
                 e.tokens \subseteq DOMAIN analyzed.text /\ e.unresolved \subseteq DOMAIN analyzed.text
<1> DEFINE tokens == ScannerDecorationField(d.tokens, changed, analyzed)
           unresolved == AnalyzerDecorationsField(d.unresolved, changed, analyzed)
           focused == FocusDecorationField(analyzed, focus)
<1>1. d.tokens \in SUBSET Nat /\ d.unresolved \in SUBSET Nat
  BY DEF Decorations
<1>2. analyzed # Null => DOMAIN analyzed.text \in SUBSET Nat
  BY AnalysisFields, TextIs
<1>3. /\ tokens \in SUBSET Nat
      /\ ~changed => tokens = d.tokens
      /\ changed /\ analyzed # Null => tokens \subseteq DOMAIN analyzed.text
  BY <1>1, <1>2 DEF ScannerDecorationField, buildDecorationsFromTokens
<1>4. /\ unresolved \in SUBSET Nat
      /\ ~changed => unresolved = d.unresolved
      /\ changed /\ analyzed # Null => unresolved \subseteq DOMAIN analyzed.text
  <2>1. analyzed # Null => buildDecorationsFromAnalysis(analyzed) \subseteq DOMAIN analyzed.text
    BY DEF buildDecorationsFromAnalysis
  <2>2. analyzed = Null => buildDecorationsFromAnalysis(analyzed) = {}
    BY DEF buildDecorationsFromAnalysis
  <2> QED
    BY <1>1, <1>2, <2>1, <2>2 DEF AnalyzerDecorationsField
<1>5. focused \in SUBSET Nat /\ focused = buildDecorationsFromFocus(analyzed, focus)
  BY FocusedDecorations DEF FocusDecorationField
<1>6. DashQLDecorations(d, changed, analyzed, focus) =
        [tokens |-> tokens, unresolved |-> unresolved, focused |-> focused]
  BY DEF DashQLDecorations
<1> HIDE DEF tokens, unresolved, focused
<1> QED
  BY <1>3, <1>4, <1>5, <1>6 DEF Decorations

-----------------------------------------------------------------------------
(***************************************************************************)
(* What the reducer changes.                                               *)
(***************************************************************************)
LEMMA MemoryIs ==
  \A m : m \in Memory <=>
    /\ m = [b \in DOMAIN m |-> m[b]]
    /\ DOMAIN m \subseteq Nat \ {0}
    /\ \A b \in DOMAIN m : m[b] \in Analyses
<1> TAKE m
<1>1. ASSUME m \in Memory
      PROVE  /\ m = [b \in DOMAIN m |-> m[b]]
             /\ DOMAIN m \subseteq Nat \ {0}
             /\ \A b \in DOMAIN m : m[b] \in Analyses
  <2>1. PICK D \in SUBSET (Nat \ {0}) : m \in [D -> Analyses]
    BY <1>1 DEF Memory
  <2> QED
    BY <2>1
<1>2. ASSUME m = [b \in DOMAIN m |-> m[b]], DOMAIN m \in SUBSET (Nat \ {0}),
             \A b \in DOMAIN m : m[b] \in Analyses
      PROVE  m \in Memory
  <2>1. m \in [DOMAIN m -> Analyses]
    BY <1>2
  <2> QED
    BY <1>2, <2>1 DEF Memory
<1> QED
  BY <1>1, <1>2

LEMMA RegistryFields ==
  ASSUME NEW r \in Registry
  PROVE  /\ r.scripts \in [ScriptIds -> ScriptRecord]
         /\ r.userFocus \in [Connectors -> AnyFocus]
         /\ r.text \in [ScriptIds -> Texts]
         /\ r.version \in [Connectors -> Nat]
         /\ r.buffers \in Memory
BY DEF Registry

LEMMA WithScripts ==
  ASSUME NEW r \in Registry, NEW x \in [ScriptIds -> ScriptRecord]
  PROVE  LET r2 == [r EXCEPT !.scripts = x]
         IN /\ r2 \in Registry /\ r2.scripts = x
            /\ r2.userFocus = r.userFocus /\ r2.text = r.text /\ r2.version = r.version
            /\ r2.buffers = r.buffers
BY DEF Registry
LEMMA WithFocus ==
  ASSUME NEW r \in Registry, NEW x \in [Connectors -> AnyFocus]
  PROVE  LET r2 == [r EXCEPT !.userFocus = x]
         IN /\ r2 \in Registry /\ r2.userFocus = x
            /\ r2.scripts = r.scripts /\ r2.text = r.text /\ r2.version = r.version
            /\ r2.buffers = r.buffers
BY DEF Registry
LEMMA WithText ==
  ASSUME NEW r \in Registry, NEW x \in [ScriptIds -> Texts]
  PROVE  LET r2 == [r EXCEPT !.text = x]
         IN /\ r2 \in Registry /\ r2.text = x
            /\ r2.scripts = r.scripts /\ r2.userFocus = r.userFocus /\ r2.version = r.version
            /\ r2.buffers = r.buffers
BY DEF Registry
LEMMA WithVersion ==
  ASSUME NEW r \in Registry, NEW x \in [Connectors -> Nat]
  PROVE  LET r2 == [r EXCEPT !.version = x]
         IN /\ r2 \in Registry /\ r2.version = x
            /\ r2.scripts = r.scripts /\ r2.userFocus = r.userFocus /\ r2.text = r.text
            /\ r2.buffers = r.buffers
BY DEF Registry
LEMMA WithBuffers ==
  ASSUME NEW r \in Registry, NEW x \in Memory
  PROVE  LET r2 == [r EXCEPT !.buffers = x]
         IN /\ r2 \in Registry /\ r2.buffers = x
            /\ r2.scripts = r.scripts /\ r2.userFocus = r.userFocus /\ r2.text = r.text
            /\ r2.version = r.version
BY DEF Registry

\* A script d becomes e
Becomes(d, e, processed, outdated, cursor, loading) ==
  /\ e \in ScriptRecord
  /\ e.scriptType = d.scriptType /\ e.scriptId = d.scriptId
  /\ e.processed = processed /\ e.outdatedAnalysis = outdated
  /\ e.cursor = cursor /\ e.loading = loading

LEMMA ScriptFields ==
  ASSUME NEW d \in ScriptRecord
  PROVE  /\ d.processed \in Nat /\ d.outdatedAnalysis \in BOOLEAN
         /\ d.cursor \in Cursors \cup {Null} /\ d.loading \in Loadings
         /\ d.scriptType \in ScriptTypes
         /\ Becomes(d, d, d.processed, d.outdatedAnalysis, d.cursor, d.loading)
BY DEF ScriptRecord, Becomes

LEMMA ScriptChanges ==
  ASSUME NEW d \in ScriptRecord, NEW b \in Nat, NEW outdated \in BOOLEAN,
         NEW cursor \in Cursors \cup {Null}, NEW loading \in Loadings, NEW completion \in Nat \cup {Null}
  PROVE  /\ Becomes(d, [d EXCEPT !.outdatedAnalysis = outdated],
                    d.processed, outdated, d.cursor, d.loading)
         /\ Becomes(d, [d EXCEPT !.cursor = cursor],
                    d.processed, d.outdatedAnalysis, cursor, d.loading)
         /\ Becomes(d, [d EXCEPT !.loading = loading],
                    d.processed, d.outdatedAnalysis, d.cursor, loading)
         /\ Becomes(d, [d EXCEPT !.completion = completion],
                    d.processed, d.outdatedAnalysis, d.cursor, d.loading)
         /\ Becomes(d, [d EXCEPT !.processed = b, !.outdatedAnalysis = outdated, !.cursor = cursor],
                    b, outdated, cursor, d.loading)
         /\ Becomes(d, [d EXCEPT !.loading = loading, !.processed = b],
                    b, d.outdatedAnalysis, d.cursor, loading)
<1>1. Becomes(d, [d EXCEPT !.outdatedAnalysis = outdated], d.processed, outdated, d.cursor, d.loading)
  BY DEF ScriptRecord, Becomes
<1>2. Becomes(d, [d EXCEPT !.cursor = cursor], d.processed, d.outdatedAnalysis, cursor, d.loading)
  BY DEF ScriptRecord, Becomes
<1>3. Becomes(d, [d EXCEPT !.loading = loading], d.processed, d.outdatedAnalysis, d.cursor, loading)
  BY DEF ScriptRecord, Becomes
<1>4. Becomes(d, [d EXCEPT !.completion = completion],
              d.processed, d.outdatedAnalysis, d.cursor, d.loading)
  BY DEF ScriptRecord, Becomes
<1>5. Becomes(d, [d EXCEPT !.processed = b, !.outdatedAnalysis = outdated, !.cursor = cursor],
              b, outdated, cursor, d.loading)
  BY DEF ScriptRecord, Becomes
<1>6. Becomes(d, [d EXCEPT !.loading = loading, !.processed = b],
              b, d.outdatedAnalysis, d.cursor, loading)
  BY DEF ScriptRecord, Becomes
<1> QED
  BY <1>1, <1>2, <1>3, <1>4, <1>5, <1>6

LEMMA ScriptsOf ==
  ASSUME NEW r, RegistryOK(r), NEW s \in ScriptIds
  PROVE  r.scripts[s] \in ScriptRecord /\ r.text[s] \in Texts /\ r.version[s[1]] \in Nat
<1>1. r.scripts \in [ScriptIds -> ScriptRecord] /\ r.text \in [ScriptIds -> Texts]
      /\ r.version \in [Connectors -> Nat]
  BY RegistryFields DEF RegistryOK
<1> QED
  BY <1>1, ScriptIdsAre

LEMMA BuffersOf ==
  ASSUME NEW r, RegistryOK(r)
  PROVE  /\ \A b : Buffers(r, b) \in Analyses \cup {Null}
         /\ \A b : b \in Alive(r) => Buffers(r, b) = r.buffers[b] /\ r.buffers[b] \in Analyses
         /\ NoBuffers \notin Alive(r) /\ Alive(r) \subseteq Nat /\ IsFiniteSet(Alive(r))
<1>1. r.buffers \in Memory /\ IsFiniteSet(DOMAIN r.buffers)
  BY RegistryFields DEF RegistryOK
<1>2. DOMAIN r.buffers \subseteq Nat \ {0} /\ \A b \in DOMAIN r.buffers : r.buffers[b] \in Analyses
  BY <1>1, MemoryIs
<1> QED
  BY <1>1, <1>2 DEF Buffers, Alive, NoBuffers

LEMMA AnalysisTypes ==
  ASSUME NEW r, RegistryOK(r), NEW s \in ScriptIds
  PROVE  Analysis(r, s) \in Analyses /\ Analysis(r, s).text = r.text[s]
<1>1. r.text[s] \in Texts /\ r.version[s[1]] \in Nat
  BY ScriptsOf
<1>2. Known(r.version[s[1]]) \subseteq Tables
  BY DEF Known
<1> QED
  BY <1>1, <1>2 DEF Analysis, Analyses

LEMMA FocusOfIs ==
  ASSUME NEW r, NEW s
  PROVE  FocusOf(r, s) = IF r.scripts[s].cursor = Null THEN Null
           ELSE deriveFocusFromScriptCursor(Buffers(r, r.scripts[s].processed), r.scripts[s].cursor)
<1> DEFINE focus(data) == IF data.cursor = Null THEN Null
                          ELSE deriveFocusFromScriptCursor(Buffers(r, data.processed), data.cursor)
<1>1. FocusOf(r, s) = CHOOSE f \in {focus(data) : data \in {r.scripts[s]}} : TRUE
  BY DEF FocusOf
<1>2. {focus(data) : data \in {r.scripts[s]}} = {focus(r.scripts[s])}
  <2> HIDE DEF focus
  <2> QED
    OBVIOUS
<1> HIDE DEF focus
<1>3. FocusOf(r, s) = focus(r.scripts[s])
  BY <1>1, <1>2
<1> QED
  BY <1>3 DEF focus

LEMMA FocusOfTypes ==
  ASSUME NEW r, RegistryOK(r), NEW s \in ScriptIds
  PROVE  FocusOf(r, s) \in AnyFocus
<1>1. r.scripts[s].cursor \in Cursors \cup {Null}
  BY ScriptsOf, ScriptFields
<1>2. Buffers(r, r.scripts[s].processed) \in Analyses \cup {Null}
  BY BuffersOf
<1> QED
  BY <1>1, <1>2, FocusOfIs, DerivedFocus DEF AnyFocus

\* The focus of a script depends on its cursor and its buffers
LEMMA SameFocusOf ==
  ASSUME NEW r, NEW r2, NEW s, r2.scripts[s].cursor = r.scripts[s].cursor,
         r.scripts[s].cursor = Null
         \/ (/\ r2.scripts[s].processed = r.scripts[s].processed
             /\ Buffers(r2, r2.scripts[s].processed) = Buffers(r, r.scripts[s].processed))
  PROVE  FocusOf(r2, s) = FocusOf(r, s)
BY FocusOfIs

-----------------------------------------------------------------------------
(***************************************************************************)
(* Actions that replace no buffers.                                        *)
(***************************************************************************)
Quiet(r, r2) ==
  /\ RegistryOK(r2)
  /\ r2.text = r.text /\ r2.version = r.version /\ r2.buffers = r.buffers
  /\ \A s \in ScriptIds :
       /\ Processed(r2, s) = Processed(r, s)
       /\ r.scripts[s].outdatedAnalysis => r2.scripts[s].outdatedAnalysis

\* New records of the scripts that hold the same buffers
LEMMA QuietScripts ==
  ASSUME NEW r, RegistryOK(r), NEW x \in [ScriptIds -> ScriptRecord],
         \A s \in ScriptIds :
           /\ x[s].scriptType = r.scripts[s].scriptType /\ x[s].scriptId = r.scripts[s].scriptId
           /\ x[s].processed = r.scripts[s].processed
           /\ r.scripts[s].outdatedAnalysis => x[s].outdatedAnalysis
  PROVE  LET r2 == [r EXCEPT !.scripts = x]
         IN Quiet(r, r2) /\ r2.userFocus = r.userFocus /\ r2.scripts = x
<1> DEFINE r2 == [r EXCEPT !.scripts = x]
<1>1. /\ r2 \in Registry /\ r2.scripts = x
      /\ r2.userFocus = r.userFocus /\ r2.text = r.text /\ r2.version = r.version
      /\ r2.buffers = r.buffers
  BY WithScripts DEF RegistryOK
<1> HIDE DEF r2
<1>3. AsSetUp(r2)
  BY <1>1 DEF AsSetUp, RegistryOK
<1>4. RegistryOK(r2)
  BY <1>1, <1>3 DEF RegistryOK
<1>5. Quiet(r, r2)
  BY <1>1, <1>4 DEF Quiet, Processed
<1> QED
  BY <1>1, <1>5 DEF r2

LEMMA ActionFields ==
  ASSUME NEW a \in Dispatched
  PROVE  /\ a.type \in ActionTypes /\ ActionOK(a) /\ a.script[1] \in Connectors
         /\ a.type # "CATALOG_DID_UPDATE" => a.script \in ScriptIds
         /\ a.type \notin {"CATALOG_DID_UPDATE", "SCRIPT_LOADING_STARTED", "SCRIPT_LOADING_FAILED",
                           "SCRIPT_LOADING_SUCCEEDED"} => a.script = <<a.script[1], MainKey>>
<1>1. ActionOK(a) /\ a.type \in ActionTypes
  BY DEF Dispatched
<1>2. a.type # "CATALOG_DID_UPDATE" => a.script \in ScriptIds
  BY <1>1 DEF ActionOK
<1>3. a.script[1] \in Connectors
  BY <1>1, <1>2, ScriptIdsAre DEF ActionOK
<1>4. ASSUME a.type \notin {"CATALOG_DID_UPDATE", "SCRIPT_LOADING_STARTED", "SCRIPT_LOADING_FAILED",
                            "SCRIPT_LOADING_SUCCEEDED"}
      PROVE  a.script = <<a.script[1], MainKey>>
  BY <1>1, <1>2, <1>4, ScriptIdsAre DEF ActionOK
<1> QED
  BY <1>1, <1>2, <1>3, <1>4

FocusFineAt(r, c) ==
  \/ r.userFocus[c] \in {Null, FocusOf(r, <<c, MainKey>>)}
  \/ FocusesCompletion(r.userFocus[c])

LoadingAfter(r, a, s) ==
  IF a.type = "SCRIPT_LOADING_STARTED" /\ a.script = s THEN "STARTED"
  ELSE IF a.type = "SCRIPT_LOADING_FAILED" /\ a.script = s THEN "FAILED"
  ELSE IF a.type = "SCRIPT_LOADING_SUCCEEDED" /\ a.script = s THEN "SUCCEEDED"
  ELSE r.scripts[s].loading

\* How an action leaves cursors, loads and the focus
Leaves(r, r2, a) ==
  /\ \A s \in ScriptIds :
       /\ r2.scripts[s].loading = LoadingAfter(r, a, s)
       /\ MovesCursor(a, s) => r2.scripts[s].cursor = a.cursor
       /\ ~MovesCursor(a, s) => (r2.scripts[s].cursor = Null <=> r.scripts[s].cursor = Null)
  /\ \A c \in Connectors :
       \/ IsLoaded(a, <<c, MainKey>>) /\ r.scripts[<<c, MainKey>>].cursor # Null
       \/ FocusFineAt(r, c) => FocusFineAt(r2, c)

\* An action that replaces no buffers and leaves the focus of other workbooks
LEMMA QuietLeaves ==
  ASSUME NEW r, RegistryOK(r), NEW r2, Quiet(r, r2), NEW a \in Dispatched,
         \A s \in ScriptIds : r2.scripts[s].loading = LoadingAfter(r, a, s),
         \A s \in ScriptIds :
           r2.scripts[s].cursor = IF MovesCursor(a, s) THEN a.cursor ELSE r.scripts[s].cursor,
         \A c \in Connectors :
           \/ /\ r2.userFocus[c] = r.userFocus[c]
              /\ r2.scripts[<<c, MainKey>>].cursor = r.scripts[<<c, MainKey>>].cursor
           \/ FocusFineAt(r2, c)
  PROVE  Leaves(r, r2, a)
<1>1. ASSUME NEW c \in Connectors, r2.userFocus[c] = r.userFocus[c],
             r2.scripts[<<c, MainKey>>].cursor = r.scripts[<<c, MainKey>>].cursor
      PROVE  FocusFineAt(r, c) => FocusFineAt(r2, c)
  <2>1. <<c, MainKey>> \in ScriptIds
    BY ScriptIdsAre
  <2>2. /\ r2.scripts[<<c, MainKey>>].processed = r.scripts[<<c, MainKey>>].processed
        /\ r2.buffers = r.buffers
    BY <2>1 DEF Quiet, Processed
  <2>3. FocusOf(r2, <<c, MainKey>>) = FocusOf(r, <<c, MainKey>>)
    BY <1>1, <2>2, SameFocusOf DEF Buffers
  <2> QED
    BY <1>1, <2>3 DEF FocusFineAt
<1> QED
  BY <1>1 DEF Leaves

LEMMA CatalogUpdated ==
  ASSUME NEW r, RegistryOK(r), NEW a \in Dispatched, a.type = "CATALOG_DID_UPDATE"
  PROVE  LET r2 == CATALOG_DID_UPDATE(r, a.script[1])
         IN /\ Quiet(r, r2) /\ Leaves(r, r2, a)
            /\ \A s \in ScriptIds : s[1] = a.script[1] => r2.scripts[s].outdatedAnalysis
<1> DEFINE c == a.script[1]
           x == [s \in ScriptIds |->
                   [r.scripts[s] EXCEPT !.outdatedAnalysis = r.scripts[s].outdatedAnalysis \/ s[1] = c]]
           r2 == [r EXCEPT !.scripts = x]
<1>0. CATALOG_DID_UPDATE(r, c) = r2
  BY DEF CATALOG_DID_UPDATE
<1>1. \A s \in ScriptIds :
        Becomes(r.scripts[s], x[s], r.scripts[s].processed,
                r.scripts[s].outdatedAnalysis \/ s[1] = c, r.scripts[s].cursor, r.scripts[s].loading)
  <2> TAKE s \in ScriptIds
  <2>1. r.scripts[s] \in ScriptRecord /\ (r.scripts[s].outdatedAnalysis \/ s[1] = c) \in BOOLEAN
    BY ScriptsOf, ScriptFields
  <2> QED
    BY <2>1, ScriptChanges, ScriptFields
<1>2. x \in [ScriptIds -> ScriptRecord]
  <2>1. \A s \in ScriptIds : x[s] \in ScriptRecord
    BY <1>1 DEF Becomes
  <2> QED
    BY <2>1
<1> HIDE DEF x
<1>3. Quiet(r, r2) /\ r2.userFocus = r.userFocus /\ r2.scripts = x
  <2>1. \A s \in ScriptIds :
          /\ x[s].scriptType = r.scripts[s].scriptType /\ x[s].scriptId = r.scripts[s].scriptId
          /\ x[s].processed = r.scripts[s].processed
    BY <1>1 DEF Becomes
  <2>2. \A s \in ScriptIds : r.scripts[s].outdatedAnalysis => x[s].outdatedAnalysis
    BY <1>1 DEF Becomes
  <2> HIDE DEF r2
  <2>3. \A s \in ScriptIds :
          /\ x[s].scriptType = r.scripts[s].scriptType /\ x[s].scriptId = r.scripts[s].scriptId
          /\ x[s].processed = r.scripts[s].processed
          /\ r.scripts[s].outdatedAnalysis => x[s].outdatedAnalysis
    BY <2>1, <2>2
  <2> QED
    BY <1>2, <2>3, QuietScripts DEF r2
<1> HIDE DEF r2
<1>4. Leaves(r, r2, a)
  <2>1. \A s \in ScriptIds : r2.scripts[s].loading = LoadingAfter(r, a, s)
    BY <1>1, <1>3 DEF LoadingAfter, Becomes
  <2>2. \A s \in ScriptIds :
          r2.scripts[s].cursor = IF MovesCursor(a, s) THEN a.cursor ELSE r.scripts[s].cursor
    BY <1>1, <1>3 DEF MovesCursor, Becomes
  <2>3. \A k \in Connectors : r2.scripts[<<k, MainKey>>].cursor = r.scripts[<<k, MainKey>>].cursor
    BY <1>1, <1>3, ScriptIdsAre DEF Becomes
  <2> QED
    BY <1>3, <2>1, <2>2, <2>3, QuietLeaves
<1> QED
  BY <1>0, <1>1, <1>3, <1>4 DEF Becomes

SameHeld(d, e) ==
  /\ e \in ScriptRecord /\ e.scriptType = d.scriptType /\ e.scriptId = d.scriptId
  /\ e.processed = d.processed /\ e.outdatedAnalysis = d.outdatedAnalysis

SetScript(r, s, e) == [r EXCEPT !.scripts[s] = e]
SetFocus(r, c, focus) == [r EXCEPT !.userFocus[c] = focus]

LEMMA OneScript ==
  ASSUME NEW r, RegistryOK(r), NEW s \in ScriptIds, NEW e, SameHeld(r.scripts[s], e)
  PROVE  /\ Quiet(r, SetScript(r, s, e)) /\ SetScript(r, s, e).userFocus = r.userFocus
         /\ SetScript(r, s, e).scripts[s] = e
         /\ \A t \in ScriptIds : t # s => SetScript(r, s, e).scripts[t] = r.scripts[t]
<1> DEFINE x == [r.scripts EXCEPT ![s] = e]
           r2 == [r EXCEPT !.scripts = x]
<1>0. SetScript(r, s, e) = r2
  BY DEF SetScript
<1>1. r.scripts \in [ScriptIds -> ScriptRecord] /\ e \in ScriptRecord
  BY RegistryFields DEF RegistryOK, SameHeld
<1>2. /\ x \in [ScriptIds -> ScriptRecord] /\ x[s] = e
      /\ \A t \in ScriptIds : t # s => x[t] = r.scripts[t]
  BY <1>1
<1> HIDE DEF x
<1>4. \A t \in ScriptIds :
        /\ x[t].scriptType = r.scripts[t].scriptType /\ x[t].scriptId = r.scripts[t].scriptId
        /\ x[t].processed = r.scripts[t].processed
        /\ r.scripts[t].outdatedAnalysis => x[t].outdatedAnalysis
  BY <1>2 DEF SameHeld
<1>5. Quiet(r, r2) /\ r2.userFocus = r.userFocus /\ r2.scripts = x
  BY <1>2, <1>4, QuietScripts
<1> HIDE DEF r2
<1>6. /\ r2.scripts[s] = e
      /\ \A t \in ScriptIds : t # s => r2.scripts[t] = r.scripts[t]
  BY <1>2, <1>5
<1> QED
  BY <1>0, <1>5, <1>6

LEMMA FocusSet ==
  ASSUME NEW r, RegistryOK(r), NEW c \in Connectors, NEW focus \in AnyFocus
  PROVE  LET r2 == SetFocus(r, c, focus)
         IN /\ RegistryOK(r2) /\ r2.scripts = r.scripts
            /\ r2.text = r.text /\ r2.version = r.version /\ r2.buffers = r.buffers
            /\ r2.userFocus[c] = focus
            /\ \A d \in Connectors : d # c => r2.userFocus[d] = r.userFocus[d]
            /\ \A s : FocusOf(r2, s) = FocusOf(r, s)
<1> DEFINE x == [r.userFocus EXCEPT ![c] = focus]
           r2 == [r EXCEPT !.userFocus = x]
<1>0. SetFocus(r, c, focus) = r2
  BY DEF SetFocus
<1>1. r.userFocus \in [Connectors -> AnyFocus]
  BY RegistryFields DEF RegistryOK
<1>2. x \in [Connectors -> AnyFocus] /\ x[c] = focus /\ \A d \in Connectors : d # c => x[d] = r.userFocus[d]
  BY <1>1
<1> HIDE DEF x
<1>3. /\ r2 \in Registry /\ r2.userFocus = x
      /\ r2.scripts = r.scripts /\ r2.text = r.text /\ r2.version = r.version
      /\ r2.buffers = r.buffers
  BY <1>2, WithFocus DEF RegistryOK
<1> HIDE DEF r2
<1>4. RegistryOK(r2)
  BY <1>3 DEF RegistryOK, AsSetUp
<1>5. \A s : FocusOf(r2, s) = FocusOf(r, s)
  BY <1>3, FocusOfIs DEF Buffers
<1> QED
  BY <1>0, <1>2, <1>3, <1>4, <1>5

LEMMA LoadingChanged ==
  ASSUME NEW r, RegistryOK(r), NEW a \in Dispatched,
         a.type \in {"SCRIPT_LOADING_STARTED", "SCRIPT_LOADING_FAILED"}, NEW used
  PROVE  LET r2 == reduceWorkbookState(r, a, used) IN Quiet(r, r2) /\ Leaves(r, r2, a)
<1> DEFINE s == a.script
           loading == IF a.type = "SCRIPT_LOADING_STARTED" THEN "STARTED" ELSE "FAILED"
           e == [r.scripts[s] EXCEPT !.loading = loading]
           r2 == SetScript(r, s, e)
<1>1. s \in ScriptIds /\ r.scripts[s] \in ScriptRecord /\ loading \in Loadings
  BY ActionFields, ScriptsOf DEF Loadings
<1>2. reduceWorkbookState(r, a, used) = r2
  BY DEF reduceWorkbookState, SCRIPT_LOADING_STARTED, SCRIPT_LOADING_FAILED, SetScript
<1>3. Becomes(r.scripts[s], e, r.scripts[s].processed, r.scripts[s].outdatedAnalysis,
              r.scripts[s].cursor, loading)
  BY <1>1, ScriptChanges, ScriptFields
<1> HIDE DEF e, s
<1>4. /\ Quiet(r, r2) /\ r2.userFocus = r.userFocus
      /\ r2.scripts[s].cursor = r.scripts[s].cursor /\ r2.scripts[s].loading = loading
      /\ \A t \in ScriptIds : t # s => r2.scripts[t] = r.scripts[t]
  <2>1. SameHeld(r.scripts[s], e)
    BY <1>3 DEF Becomes, SameHeld
  <2>2. e.cursor = r.scripts[s].cursor /\ e.loading = loading
    BY <1>3 DEF Becomes
  <2>3. /\ Quiet(r, r2) /\ r2.userFocus = r.userFocus /\ r2.scripts[s] = e
        /\ \A t \in ScriptIds : t # s => r2.scripts[t] = r.scripts[t]
    BY <1>1, <2>1, OneScript
  <2> HIDE DEF r2
  <2> QED
    BY <2>2, <2>3
<1> HIDE DEF r2
<1>5. \A t \in ScriptIds : r2.scripts[t].loading = LoadingAfter(r, a, t)
  BY <1>4 DEF LoadingAfter, s
<1>6. \A t \in ScriptIds : r2.scripts[t].cursor = r.scripts[t].cursor
  BY <1>4
<1>7. \A t \in ScriptIds :
        r2.scripts[t].cursor = IF MovesCursor(a, t) THEN a.cursor ELSE r.scripts[t].cursor
  BY <1>6 DEF MovesCursor
<1>8. \A k \in Connectors : r2.scripts[<<k, MainKey>>].cursor = r.scripts[<<k, MainKey>>].cursor
  BY <1>6, ScriptIdsAre
<1> HIDE DEF s, loading
<1>9. Leaves(r, r2, a)
  BY <1>4, <1>5, <1>7, <1>8, QuietLeaves
<1> QED
  BY <1>2, <1>4, <1>9

LEMMA CursorUpdated ==
  ASSUME NEW r, RegistryOK(r), NEW a \in Dispatched, a.type = "UPDATE_SCRIPT_CURSOR", NEW used
  PROVE  LET r2 == reduceWorkbookState(r, a, used) IN Quiet(r, r2) /\ Leaves(r, r2, a)
<1> DEFINE s == a.script
           c == s[1]
           e == [r.scripts[s] EXCEPT !.cursor = a.cursor]
           next == SetScript(r, s, e)
           r2 == SetFocus(next, c, FocusOf(next, s))
<1>1. /\ s \in ScriptIds /\ c \in Connectors /\ s = <<c, MainKey>>
      /\ r.scripts[s] \in ScriptRecord /\ a.cursor \in Cursors
  BY ActionFields, ScriptsOf DEF ActionOK
<1>2. reduceWorkbookState(r, a, used) = r2
  BY DEF reduceWorkbookState, UPDATE_SCRIPT_CURSOR, SetScript, SetFocus
<1>3. Becomes(r.scripts[s], e, r.scripts[s].processed, r.scripts[s].outdatedAnalysis,
              a.cursor, r.scripts[s].loading)
  BY <1>1, ScriptChanges, ScriptFields
<1> HIDE DEF e, s
<1>4. /\ Quiet(r, next) /\ next.userFocus = r.userFocus
      /\ next.scripts[s].cursor = a.cursor /\ next.scripts[s].loading = r.scripts[s].loading
      /\ \A t \in ScriptIds : t # s => next.scripts[t] = r.scripts[t]
  <2>1. SameHeld(r.scripts[s], e)
    BY <1>3 DEF Becomes, SameHeld
  <2>2. e.cursor = a.cursor /\ e.loading = r.scripts[s].loading
    BY <1>3 DEF Becomes
  <2>3. /\ Quiet(r, next) /\ next.userFocus = r.userFocus /\ next.scripts[s] = e
        /\ \A t \in ScriptIds : t # s => next.scripts[t] = r.scripts[t]
    BY <1>1, <2>1, OneScript
  <2> HIDE DEF next
  <2> QED
    BY <2>2, <2>3
<1> HIDE DEF next
<1>5. RegistryOK(next) /\ FocusOf(next, s) \in AnyFocus
  BY <1>1, <1>4, FocusOfTypes DEF Quiet
<1>6. /\ RegistryOK(r2) /\ r2.scripts = next.scripts
      /\ r2.text = next.text /\ r2.version = next.version /\ r2.buffers = next.buffers
      /\ r2.userFocus[c] = FocusOf(next, s)
      /\ \A d \in Connectors : d # c => r2.userFocus[d] = next.userFocus[d]
      /\ FocusOf(r2, s) = FocusOf(next, s)
  BY <1>1, <1>5, FocusSet
<1> HIDE DEF r2
<1>7. Quiet(r, r2)
  BY <1>4, <1>6 DEF Quiet, Processed
<1>8. FocusFineAt(r2, c)
  BY <1>1, <1>6 DEF FocusFineAt
<1>9. \A t \in ScriptIds : r2.scripts[t].loading = LoadingAfter(r, a, t)
  BY <1>4, <1>6 DEF LoadingAfter, s
<1>10. \A t \in ScriptIds :
        r2.scripts[t].cursor = IF MovesCursor(a, t) THEN a.cursor ELSE r.scripts[t].cursor
  BY <1>4, <1>6 DEF MovesCursor, s
<1>11. ASSUME NEW k \in Connectors, k # c
       PROVE  /\ r2.userFocus[k] = r.userFocus[k]
              /\ r2.scripts[<<k, MainKey>>].cursor = r.scripts[<<k, MainKey>>].cursor
  BY <1>1, <1>4, <1>6, <1>11, ScriptIdsAre
<1> HIDE DEF s, c
<1>12. Leaves(r, r2, a)
  BY <1>7, <1>8, <1>9, <1>10, <1>11, QuietLeaves
<1> QED
  BY <1>2, <1>7, <1>12

LEMMA Completed ==
  ASSUME NEW r, RegistryOK(r), NEW s \in ScriptIds, NEW index \in Nat \cup {Null}
  PROVE  /\ Quiet(r, Completes(r, s, index)) /\ Completes(r, s, index).userFocus = r.userFocus
         /\ \A t \in ScriptIds :
              /\ Completes(r, s, index).scripts[t].cursor = r.scripts[t].cursor
              /\ Completes(r, s, index).scripts[t].loading = r.scripts[t].loading
<1> DEFINE value(t) == IF t = s THEN index ELSE IF t[1] = s[1] THEN Null ELSE r.scripts[t].completion
           x == [t \in ScriptIds |-> [r.scripts[t] EXCEPT !.completion = value(t)]]
           r2 == [r EXCEPT !.scripts = x]
<1>0. Completes(r, s, index) = r2
  BY DEF Completes
<1>1. \A t \in ScriptIds :
        Becomes(r.scripts[t], x[t], r.scripts[t].processed,
                r.scripts[t].outdatedAnalysis, r.scripts[t].cursor, r.scripts[t].loading)
  <2> TAKE t \in ScriptIds
  <2>1. r.scripts[t] \in ScriptRecord /\ r.scripts[t].completion \in Nat \cup {Null}
    BY ScriptsOf DEF ScriptRecord
  <2>2. value(t) \in Nat \cup {Null}
    BY <2>1
  <2>3. x[t] = [r.scripts[t] EXCEPT !.completion = value(t)]
    OBVIOUS
  <2> HIDE DEF value, x
  <2>4. Becomes(r.scripts[t], [r.scripts[t] EXCEPT !.completion = value(t)], r.scripts[t].processed,
                r.scripts[t].outdatedAnalysis, r.scripts[t].cursor, r.scripts[t].loading)
    BY <2>1, <2>2, ScriptChanges, ScriptFields
  <2> QED
    BY <2>3, <2>4
<1>2. x \in [ScriptIds -> ScriptRecord]
  <2>1. \A t \in ScriptIds : x[t] \in ScriptRecord
    BY <1>1 DEF Becomes
  <2> QED
    BY <2>1
<1> HIDE DEF x
<1>3. \A t \in ScriptIds :
        /\ x[t].scriptType = r.scripts[t].scriptType /\ x[t].scriptId = r.scripts[t].scriptId
        /\ x[t].processed = r.scripts[t].processed
        /\ r.scripts[t].outdatedAnalysis => x[t].outdatedAnalysis
  BY <1>1 DEF Becomes
<1>4. Quiet(r, r2) /\ r2.userFocus = r.userFocus /\ r2.scripts = x
  <2> HIDE DEF r2
  <2> QED
    BY <1>2, <1>3, QuietScripts DEF r2
<1> HIDE DEF r2
<1>5. \A t \in ScriptIds :
        r2.scripts[t].cursor = r.scripts[t].cursor /\ r2.scripts[t].loading = r.scripts[t].loading
  BY <1>1, <1>4 DEF Becomes
<1> QED
  BY <1>0, <1>4, <1>5

CompletionTypes == {"COMPLETION_STARTED", "COMPLETION_CHANGED", "COMPLETION_STOPPED"}

\* The focus of a workbook is set after its scripts were changed
LEMMA FocusOnCompletion ==
  ASSUME NEW r, RegistryOK(r), NEW a \in Dispatched, a.type \in CompletionTypes,
         NEW next, Quiet(r, next), next.userFocus = r.userFocus,
         \A t \in ScriptIds :
           next.scripts[t].cursor = r.scripts[t].cursor /\ next.scripts[t].loading = r.scripts[t].loading,
         NEW focus \in AnyFocus,
         focus = Null \/ FocusesCompletion(focus) \/ focus = FocusOf(next, a.script)
  PROVE  LET r2 == SetFocus(next, a.script[1], focus) IN Quiet(r, r2) /\ Leaves(r, r2, a)
<1> DEFINE c == a.script[1]
           r2 == SetFocus(next, c, focus)
<1>1. c \in Connectors /\ a.script = <<c, MainKey>> /\ RegistryOK(next)
  BY ActionFields DEF CompletionTypes, Quiet
<1> HIDE DEF c
<1>2. /\ RegistryOK(r2) /\ r2.scripts = next.scripts
      /\ r2.text = next.text /\ r2.version = next.version /\ r2.buffers = next.buffers
      /\ r2.userFocus[c] = focus
      /\ \A d \in Connectors : d # c => r2.userFocus[d] = next.userFocus[d]
      /\ FocusOf(r2, <<c, MainKey>>) = FocusOf(next, <<c, MainKey>>)
  BY <1>1, FocusSet
<1> HIDE DEF r2
<1>3. Quiet(r, r2)
  BY <1>2 DEF Quiet, Processed
<1>4. FocusFineAt(r2, c)
  BY <1>1, <1>2 DEF FocusFineAt
<1>5. \A t \in ScriptIds : r2.scripts[t].loading = LoadingAfter(r, a, t)
  BY <1>2 DEF LoadingAfter, CompletionTypes
<1>6. \A t \in ScriptIds :
        r2.scripts[t].cursor = IF MovesCursor(a, t) THEN a.cursor ELSE r.scripts[t].cursor
  BY <1>2 DEF MovesCursor, CompletionTypes
<1>7. ASSUME NEW k \in Connectors, k # c
      PROVE  /\ r2.userFocus[k] = r.userFocus[k]
             /\ r2.scripts[<<k, MainKey>>].cursor = r.scripts[<<k, MainKey>>].cursor
  BY <1>2, <1>7, ScriptIdsAre
<1>8. Leaves(r, r2, a)
  BY <1>3, <1>4, <1>5, <1>6, <1>7, QuietLeaves
<1> QED
  BY <1>3, <1>8 DEF r2, c

LEMMA CompletionReduced ==
  ASSUME NEW r, RegistryOK(r), NEW a \in Dispatched, a.type \in CompletionTypes, NEW used
  PROVE  LET r2 == reduceWorkbookState(r, a, used) IN Quiet(r, r2) /\ Leaves(r, r2, a)
<1> DEFINE s == a.script
           c == a.script[1]
<1>1. s \in ScriptIds /\ c \in Connectors /\ r.scripts[s] \in ScriptRecord
  BY ActionFields, ScriptsOf DEF CompletionTypes
<1>2. CASE a.type = "COMPLETION_STARTED"
  <2> DEFINE next == Completes(r, s, 0)
             focus == deriveFocusFromCompletionCandidates(0)
  <2>1. reduceWorkbookState(r, a, used) = SetFocus(next, c, focus)
    BY <1>2 DEF reduceWorkbookState, COMPLETION_STARTED, SetFocus
  <2>2. /\ Quiet(r, next) /\ next.userFocus = r.userFocus
        /\ \A t \in ScriptIds : /\ next.scripts[t].cursor = r.scripts[t].cursor
                                /\ next.scripts[t].loading = r.scripts[t].loading
    BY <1>1, Completed
  <2>3. focus \in AnyFocus /\ (focus = Null \/ FocusesCompletion(focus))
    BY CompletionFocus
  <2> HIDE DEF next, focus
  <2> QED
    BY <2>1, <2>2, <2>3, FocusOnCompletion
<1>3. CASE a.type = "COMPLETION_STOPPED"
  <2> DEFINE next == Completes(r, s, Null)
             focus == FocusOf(next, s)
  <2>1. reduceWorkbookState(r, a, used) = SetFocus(next, c, focus)
    BY <1>3 DEF reduceWorkbookState, COMPLETION_STOPPED, SetFocus
  <2>2. /\ Quiet(r, next) /\ next.userFocus = r.userFocus
        /\ \A t \in ScriptIds : /\ next.scripts[t].cursor = r.scripts[t].cursor
                                /\ next.scripts[t].loading = r.scripts[t].loading
    BY <1>1, Completed
  <2>3. focus \in AnyFocus /\ focus = FocusOf(next, a.script)
    BY <1>1, <2>2, FocusOfTypes DEF Quiet
  <2> HIDE DEF next, focus
  <2> QED
    BY <2>1, <2>2, <2>3, FocusOnCompletion
<1>4. CASE a.type = "COMPLETION_CHANGED"
  <2> DEFINE e == [r.scripts[s] EXCEPT !.completion = a.value]
             next == SetScript(r, s, e)
             focus == deriveFocusFromCompletionCandidates(a.value)
  <2>1. reduceWorkbookState(r, a, used) = SetFocus(next, c, focus)
    BY <1>4 DEF reduceWorkbookState, COMPLETION_CHANGED, SetFocus, SetScript
  <2>2. a.value \in Nat
    BY <1>4, ActionFields DEF ActionOK
  <2>3. Becomes(r.scripts[s], e, r.scripts[s].processed,
                r.scripts[s].outdatedAnalysis, r.scripts[s].cursor, r.scripts[s].loading)
    BY <1>1, <2>2, ScriptChanges, ScriptFields
  <2> HIDE DEF e, s
  <2>4. SameHeld(r.scripts[s], e) /\ e.cursor = r.scripts[s].cursor /\ e.loading = r.scripts[s].loading
    BY <2>3 DEF Becomes, SameHeld
  <2>5. /\ Quiet(r, next) /\ next.userFocus = r.userFocus /\ next.scripts[s] = e
        /\ \A t \in ScriptIds : t # s => next.scripts[t] = r.scripts[t]
    BY <1>1, <2>4, OneScript
  <2>6. focus \in AnyFocus /\ (focus = Null \/ FocusesCompletion(focus))
    BY <2>2, CompletionFocus
  <2> HIDE DEF next, focus
  <2>7. \A t \in ScriptIds : /\ next.scripts[t].cursor = r.scripts[t].cursor
                             /\ next.scripts[t].loading = r.scripts[t].loading
    BY <2>4, <2>5
  <2> QED
    BY <2>1, <2>5, <2>6, <2>7, FocusOnCompletion
<1> QED
  BY <1>2, <1>3, <1>4 DEF CompletionTypes

-----------------------------------------------------------------------------
(***************************************************************************)
(* The steps that replace the buffers of a script.                         *)
(***************************************************************************)
OtherFields(r, r2) ==
  /\ RegistryOK(r2)
  /\ r2.userFocus = r.userFocus /\ r2.text = r.text /\ r2.version = r.version
SameBuffers(r, r2) == r2.buffers = r.buffers

LEMMA Destroyed ==
  ASSUME NEW r, RegistryOK(r), NEW b
  PROVE  LET r2 == destroyBuffers(r, b)
         IN /\ OtherFields(r, r2) /\ r2.scripts = r.scripts
            /\ Alive(r2) = Alive(r) \ {b}
            /\ \A x \in Alive(r2) : r2.buffers[x] = r.buffers[x]
<1> DEFINE m == Restrict(r.buffers, DOMAIN r.buffers \ {b})
           r2 == [r EXCEPT !.buffers = m]
<1>0. destroyBuffers(r, b) = r2
  BY DEF destroyBuffers
<1>1. r.buffers \in Memory /\ IsFiniteSet(DOMAIN r.buffers)
  BY RegistryFields DEF RegistryOK
<1>2. /\ DOMAIN r.buffers \subseteq Nat \ {0} /\ \A x \in DOMAIN r.buffers : r.buffers[x] \in Analyses
  BY <1>1, MemoryIs
<1>3. /\ m = [x \in DOMAIN m |-> m[x]] /\ DOMAIN m = DOMAIN r.buffers \ {b}
      /\ \A x \in DOMAIN m : m[x] = r.buffers[x]
  BY DEF Restrict
<1> HIDE DEF m
<1>4. m \in Memory
  BY <1>2, <1>3, MemoryIs
<1>5. /\ r2 \in Registry /\ r2.buffers = m
      /\ r2.scripts = r.scripts /\ r2.userFocus = r.userFocus /\ r2.text = r.text
      /\ r2.version = r.version
  BY <1>4, WithBuffers DEF RegistryOK
<1> HIDE DEF r2
<1>6. IsFiniteSet(DOMAIN m)
  BY <1>1, <1>3, FS_RemoveElement
<1>7. RegistryOK(r2)
  BY <1>5, <1>6 DEF RegistryOK, AsSetUp
<1> QED
  BY <1>0, <1>3, <1>5, <1>7 DEF OtherFields, Alive

LEMMA Analyzed ==
  ASSUME NEW r, RegistryOK(r), NEW s \in ScriptIds, NEW b \in Nat \ {0}
  PROVE  LET r2 == parseAndAnalyzeScript(r, s, b)
         IN /\ OtherFields(r, r2) /\ r2.scripts = r.scripts
            /\ Alive(r2) = Alive(r) \cup {b}
            /\ r2.buffers[b] = Analysis(r, s)
            /\ \A x \in Alive(r) : x # b => r2.buffers[x] = r.buffers[x]
<1> DEFINE m == [x \in DOMAIN r.buffers \cup {b} |-> IF x = b THEN Analysis(r, s) ELSE r.buffers[x]]
           r2 == [r EXCEPT !.buffers = m]
<1>0. parseAndAnalyzeScript(r, s, b) = r2
  BY DEF parseAndAnalyzeScript
<1>1. r.buffers \in Memory /\ IsFiniteSet(DOMAIN r.buffers)
  BY RegistryFields DEF RegistryOK
<1>2. /\ DOMAIN r.buffers \subseteq Nat \ {0} /\ \A x \in DOMAIN r.buffers : r.buffers[x] \in Analyses
  BY <1>1, MemoryIs
<1>3. Analysis(r, s) \in Analyses
  BY AnalysisTypes
<1>4. /\ m = [x \in DOMAIN m |-> m[x]] /\ DOMAIN m = DOMAIN r.buffers \cup {b}
      /\ m[b] = Analysis(r, s)
      /\ \A x \in DOMAIN r.buffers : x # b => m[x] = r.buffers[x]
  OBVIOUS
<1> HIDE DEF m
<1>5. m \in Memory
  BY <1>2, <1>3, <1>4, MemoryIs
<1>6. /\ r2 \in Registry /\ r2.buffers = m
      /\ r2.scripts = r.scripts /\ r2.userFocus = r.userFocus /\ r2.text = r.text
      /\ r2.version = r.version
  BY <1>5, WithBuffers DEF RegistryOK
<1> HIDE DEF r2
<1>7. IsFiniteSet(DOMAIN m)
  BY <1>1, <1>4, FS_AddElement
<1>8. RegistryOK(r2)
  BY <1>6, <1>7 DEF RegistryOK, AsSetUp
<1> QED
  BY <1>0, <1>4, <1>6, <1>8 DEF OtherFields, Alive

LEMMA ScriptsSet ==
  ASSUME NEW r, RegistryOK(r), NEW x \in [ScriptIds -> ScriptRecord],
         \A t \in ScriptIds :
           x[t].scriptType = r.scripts[t].scriptType /\ x[t].scriptId = r.scripts[t].scriptId
  PROVE  LET r2 == [r EXCEPT !.scripts = x]
         IN OtherFields(r, r2) /\ SameBuffers(r, r2) /\ r2.scripts = x
<1> DEFINE r2 == [r EXCEPT !.scripts = x]
<1>1. /\ r2 \in Registry /\ r2.scripts = x
      /\ r2.userFocus = r.userFocus /\ r2.text = r.text /\ r2.version = r.version
      /\ r2.buffers = r.buffers
  BY WithScripts DEF RegistryOK
<1> HIDE DEF r2
<1>2. RegistryOK(r2)
  BY <1>1 DEF RegistryOK, AsSetUp
<1> QED
  BY <1>1, <1>2 DEF r2, OtherFields, SameBuffers

LEMMA ScriptSet ==
  ASSUME NEW r, RegistryOK(r), NEW s \in ScriptIds, NEW e \in ScriptRecord,
         e.scriptType = r.scripts[s].scriptType, e.scriptId = r.scripts[s].scriptId
  PROVE  LET r2 == SetScript(r, s, e)
         IN /\ OtherFields(r, r2) /\ SameBuffers(r, r2) /\ r2.scripts[s] = e
            /\ \A t \in ScriptIds : t # s => r2.scripts[t] = r.scripts[t]
<1> DEFINE x == [r.scripts EXCEPT ![s] = e]
           r2 == [r EXCEPT !.scripts = x]
<1>0. SetScript(r, s, e) = r2
  BY DEF SetScript
<1>1. r.scripts \in [ScriptIds -> ScriptRecord]
  BY RegistryFields DEF RegistryOK
<1>2. /\ x \in [ScriptIds -> ScriptRecord] /\ x[s] = e
      /\ \A t \in ScriptIds : t # s => x[t] = r.scripts[t]
  BY <1>1
<1> HIDE DEF x
<1>3. OtherFields(r, r2) /\ SameBuffers(r, r2) /\ r2.scripts = x
  BY <1>2, ScriptsSet
<1> HIDE DEF r2
<1> QED
  BY <1>0, <1>2, <1>3

SetText(r, s, text) == [r EXCEPT !.text[s] = text]

LEMMA TextSet ==
  ASSUME NEW r, RegistryOK(r), NEW s \in ScriptIds, NEW text \in Texts
  PROVE  LET r2 == SetText(r, s, text)
         IN /\ RegistryOK(r2) /\ SameBuffers(r, r2) /\ r2.scripts = r.scripts
            /\ r2.userFocus = r.userFocus /\ r2.version = r.version
            /\ r2.text[s] = text
            /\ \A t \in ScriptIds : t # s => r2.text[t] = r.text[t]
<1> DEFINE x == [r.text EXCEPT ![s] = text]
           r2 == [r EXCEPT !.text = x]
<1>0. SetText(r, s, text) = r2
  BY DEF SetText
<1>1. r.text \in [ScriptIds -> Texts]
  BY RegistryFields DEF RegistryOK
<1>2. /\ x \in [ScriptIds -> Texts] /\ x[s] = text
      /\ \A t \in ScriptIds : t # s => x[t] = r.text[t]
  BY <1>1
<1> HIDE DEF x
<1>3. /\ r2 \in Registry /\ r2.text = x
      /\ r2.scripts = r.scripts /\ r2.userFocus = r.userFocus /\ r2.version = r.version
      /\ r2.buffers = r.buffers
  BY <1>2, WithText DEF RegistryOK
<1> HIDE DEF r2
<1>4. RegistryOK(r2)
  BY <1>3 DEF RegistryOK, AsSetUp
<1> QED
  BY <1>0, <1>2, <1>3, <1>4 DEF SameBuffers

LEMMA CatalogLoaded ==
  ASSUME NEW r, RegistryOK(r), NEW c \in Connectors
  PROVE  LET r2 == loadScript(r, c)
         IN /\ RegistryOK(r2) /\ SameBuffers(r, r2) /\ r2.scripts = r.scripts
            /\ r2.userFocus = r.userFocus /\ r2.text = r.text
            /\ \A d \in Connectors : d # c => r2.version[d] = r.version[d]
<1> DEFINE x == [r.version EXCEPT ![c] = r.version[c] + 1]
           r2 == [r EXCEPT !.version = x]
<1>0. loadScript(r, c) = r2
  BY DEF loadScript
<1>1. r.version \in [Connectors -> Nat]
  BY RegistryFields DEF RegistryOK
<1>2. x \in [Connectors -> Nat] /\ \A d \in Connectors : d # c => x[d] = r.version[d]
  BY <1>1
<1> HIDE DEF x
<1>3. /\ r2 \in Registry /\ r2.version = x
      /\ r2.scripts = r.scripts /\ r2.userFocus = r.userFocus /\ r2.text = r.text
      /\ r2.buffers = r.buffers
  BY <1>2, WithVersion DEF RegistryOK
<1> HIDE DEF r2
<1>4. RegistryOK(r2)
  BY <1>3 DEF RegistryOK, AsSetUp
<1> QED
  BY <1>0, <1>2, <1>3, <1>4 DEF SameBuffers

LEMMA QueriesMarked ==
  ASSUME NEW r, RegistryOK(r), NEW c \in Connectors
  PROVE  LET r2 == MarkQueriesOutdated(r, c)
         IN /\ OtherFields(r, r2) /\ SameBuffers(r, r2)
            /\ \A t \in ScriptIds :
                 Becomes(r.scripts[t], r2.scripts[t], r.scripts[t].processed,
                         r.scripts[t].outdatedAnalysis \/ (t[1] = c /\ r.scripts[t].scriptType = "QUERY"),
                         r.scripts[t].cursor, r.scripts[t].loading)
<1> DEFINE marked(t) == t[1] = c /\ r.scripts[t].scriptType = "QUERY"
           x == [t \in ScriptIds |->
                   [r.scripts[t] EXCEPT !.outdatedAnalysis = r.scripts[t].outdatedAnalysis \/ marked(t)]]
           r2 == [r EXCEPT !.scripts = x]
<1>0. MarkQueriesOutdated(r, c) = r2
  BY DEF MarkQueriesOutdated
<1>1. \A t \in ScriptIds :
        Becomes(r.scripts[t], x[t], r.scripts[t].processed,
                r.scripts[t].outdatedAnalysis \/ marked(t), r.scripts[t].cursor, r.scripts[t].loading)
  <2> TAKE t \in ScriptIds
  <2>1. r.scripts[t] \in ScriptRecord /\ (r.scripts[t].outdatedAnalysis \/ marked(t)) \in BOOLEAN
    BY ScriptsOf, ScriptFields
  <2>2. x[t] = [r.scripts[t] EXCEPT !.outdatedAnalysis = r.scripts[t].outdatedAnalysis \/ marked(t)]
    OBVIOUS
  <2> HIDE DEF marked, x
  <2> QED
    BY <2>1, <2>2, ScriptChanges, ScriptFields
<1>2. x \in [ScriptIds -> ScriptRecord]
  <2>1. \A t \in ScriptIds : x[t] \in ScriptRecord
    BY <1>1 DEF Becomes
  <2> QED
    BY <2>1
<1> HIDE DEF x
<1>3. \A t \in ScriptIds :
        x[t].scriptType = r.scripts[t].scriptType /\ x[t].scriptId = r.scripts[t].scriptId
  BY <1>1 DEF Becomes
<1>4. OtherFields(r, r2) /\ SameBuffers(r, r2) /\ r2.scripts = x
  <2> HIDE DEF r2
  <2> QED
    BY <1>2, <1>3, ScriptsSet DEF r2
<1> HIDE DEF r2
<1> QED
  BY <1>0, <1>1, <1>4

\* The buffers of a script are replaced by b, and those of the others stay
Installs(r, r2, s, b) ==
  /\ RegistryOK(r2)
  /\ b \in Nat \ {0} /\ \A t \in ScriptIds : Processed(r, t) # b
  /\ Processed(r2, s) = b
  /\ \A t \in ScriptIds : t # s =>
       /\ Processed(r2, t) = Processed(r, t)
       /\ r2.text[t] = r.text[t]
       /\ r.scripts[t].outdatedAnalysis => r2.scripts[t].outdatedAnalysis
  /\ Alive(r2) = (Alive(r) \ {Processed(r, s)}) \cup {b}
  /\ \A x \in Alive(r2) : x # b => r2.buffers[x] = r.buffers[x]

DistinctBuffers(r) ==
  /\ \A s \in ScriptIds : Processed(r, s) \in Alive(r) \cup {NoBuffers}
  /\ \A s, t \in ScriptIds :
       s # t => Processed(r, s) # Processed(r, t) \/ Processed(r, s) = NoBuffers

LEMMA OtherBuffers ==
  ASSUME NEW r, RegistryOK(r), DistinctBuffers(r), NEW r2, NEW s \in ScriptIds, NEW b, Installs(r, r2, s, b),
         NEW t \in ScriptIds, t # s
  PROVE  Buffers(r2, Processed(r2, t)) = Buffers(r, Processed(r, t))
<1> DEFINE p == Processed(r, t)
<1>1. Processed(r2, t) = p /\ RegistryOK(r2)
  BY DEF Installs
<1>2. CASE p = NoBuffers
  <2>1. p \notin Alive(r) /\ p \notin Alive(r2)
    BY <1>1, <1>2, BuffersOf
  <2> QED
    BY <1>1, <2>1 DEF Buffers, Alive
<1>3. CASE p # NoBuffers
  <2>1. p \in Alive(r) /\ p # Processed(r, s) /\ p # b
    BY <1>3 DEF DistinctBuffers, Installs
  <2>2. p \in Alive(r2) /\ r2.buffers[p] = r.buffers[p]
    BY <2>1 DEF Installs
  <2> QED
    BY <1>1, <2>1, <2>2, BuffersOf
<1> QED
  BY <1>2, <1>3

LEMMA OtherFocus ==
  ASSUME NEW r, RegistryOK(r), DistinctBuffers(r), NEW r2, NEW s \in ScriptIds, NEW b, Installs(r, r2, s, b),
         NEW c \in Connectors, <<c, MainKey>> # s,
         r2.userFocus[c] = r.userFocus[c],
         r2.scripts[<<c, MainKey>>].cursor = r.scripts[<<c, MainKey>>].cursor,
         FocusFineAt(r, c)
  PROVE  FocusFineAt(r2, c)
<1> DEFINE t == <<c, MainKey>>
<1>1. t \in ScriptIds
  BY ScriptIdsAre
<1> HIDE DEF t
<1>2. Buffers(r2, Processed(r2, t)) = Buffers(r, Processed(r, t)) /\ Processed(r2, t) = Processed(r, t)
  BY <1>1, OtherBuffers DEF Installs, t
<1>3. FocusOf(r2, t) = FocusOf(r, t)
  BY <1>2, SameFocusOf DEF Processed, t
<1> QED
  BY <1>3 DEF FocusFineAt, t

\* The buffers of a script are destroyed and the script is analyzed again
LEMMA AnalyzedAgain ==
  ASSUME NEW r, RegistryOK(r), NEW s \in ScriptIds, NEW b \in Nat \ {0}, b \notin Alive(r),
         \A t \in ScriptIds : Processed(r, t) # b,
         NEW e \in ScriptRecord,
         e.scriptType = r.scripts[s].scriptType, e.scriptId = r.scripts[s].scriptId, e.processed = b
  PROVE  LET r2 == SetScript(parseAndAnalyzeScript(destroyBuffers(r, r.scripts[s].processed), s, b), s, e)
         IN /\ Installs(r, r2, s, b) /\ OtherFields(r, r2)
            /\ r2.buffers[b] = Analysis(r2, s)
            /\ r2.scripts[s] = e
            /\ \A t \in ScriptIds : t # s => r2.scripts[t] = r.scripts[t]
<1> DEFINE r1 == destroyBuffers(r, r.scripts[s].processed)
           r3 == parseAndAnalyzeScript(r1, s, b)
           r2 == SetScript(r3, s, e)
<1>1. /\ OtherFields(r, r1) /\ r1.scripts = r.scripts
      /\ Alive(r1) = Alive(r) \ {Processed(r, s)}
      /\ \A x \in Alive(r1) : r1.buffers[x] = r.buffers[x]
  BY Destroyed DEF Processed
<1> HIDE DEF r1
<1>2. /\ OtherFields(r1, r3) /\ r3.scripts = r1.scripts
      /\ Alive(r3) = Alive(r1) \cup {b}
      /\ r3.buffers[b] = Analysis(r1, s)
      /\ \A x \in Alive(r1) : x # b => r3.buffers[x] = r1.buffers[x]
  BY <1>1, Analyzed DEF OtherFields
<1> HIDE DEF r3
<1>3. /\ OtherFields(r3, r2) /\ SameBuffers(r3, r2) /\ r2.scripts[s] = e
      /\ \A t \in ScriptIds : t # s => r2.scripts[t] = r3.scripts[t]
  <2>1. e.scriptType = r3.scripts[s].scriptType /\ e.scriptId = r3.scripts[s].scriptId /\ RegistryOK(r3)
    BY <1>1, <1>2 DEF OtherFields
  <2> QED
    BY <2>1, ScriptSet
<1> HIDE DEF r2
<1>4. OtherFields(r, r2)
  BY <1>1, <1>2, <1>3 DEF OtherFields
<1>5. \A t \in ScriptIds : t # s => r2.scripts[t] = r.scripts[t]
  BY <1>1, <1>2, <1>3
<1>6. r2.buffers[b] = Analysis(r2, s)
  <2>1. r2.buffers[b] = Analysis(r1, s)
    BY <1>2, <1>3 DEF SameBuffers
  <2>2. r2.text = r1.text /\ r2.version = r1.version
    BY <1>1, <1>4 DEF OtherFields
  <2> QED
    BY <2>1, <2>2 DEF Analysis
<1>7. Alive(r2) = (Alive(r) \ {Processed(r, s)}) \cup {b}
  BY <1>1, <1>2, <1>3 DEF SameBuffers, Alive
<1>8. \A x \in Alive(r2) : x # b => r2.buffers[x] = r.buffers[x]
  <2> SUFFICES ASSUME NEW x \in Alive(r2), x # b PROVE r2.buffers[x] = r.buffers[x]
    OBVIOUS
  <2>1. x \in Alive(r1)
    BY <1>1, <1>7
  <2> QED
    BY <1>1, <1>2, <1>3, <2>1 DEF SameBuffers
<1>9. Installs(r, r2, s, b)
  <2>1. RegistryOK(r2) /\ r2.text = r.text
    BY <1>4 DEF OtherFields
  <2>2. Processed(r2, s) = b
    BY <1>3 DEF Processed
  <2>3. \A t \in ScriptIds : t # s =>
          /\ Processed(r2, t) = Processed(r, t)
          /\ r2.text[t] = r.text[t]
          /\ r.scripts[t].outdatedAnalysis => r2.scripts[t].outdatedAnalysis
    BY <1>5, <2>1 DEF Processed
  <2> QED
    BY <1>7, <1>8, <2>1, <2>2, <2>3 DEF Installs
<1> QED
  BY <1>3, <1>4, <1>5, <1>6, <1>9 DEF r1, r2, r3

\* The focus of the script's workbook may be set then
LEMMA InstallsThenFocus ==
  ASSUME NEW r, NEW next, NEW r2, NEW s \in ScriptIds, NEW b, Installs(r, next, s, b),
         RegistryOK(r2), r2.scripts = next.scripts, r2.text = next.text, r2.buffers = next.buffers
  PROVE  Installs(r, r2, s, b)
BY DEF Installs, Processed, Alive

\* Leaves, when the buffers of the main script were replaced
LEMMA MainLeaves ==
  ASSUME NEW r, RegistryOK(r), DistinctBuffers(r), NEW a \in Dispatched, NEW r2, NEW b,
         a.type \in {"UPDATE_SCRIPT", "UPDATE_SCRIPT_ANALYSIS"},
         Installs(r, r2, a.script, b),
         \A t \in ScriptIds : t # a.script => r2.scripts[t] = r.scripts[t],
         r2.scripts[a.script].loading = r.scripts[a.script].loading,
         MovesCursor(a, a.script) => r2.scripts[a.script].cursor = a.cursor,
         ~MovesCursor(a, a.script) =>
           (r2.scripts[a.script].cursor = Null <=> r.scripts[a.script].cursor = Null),
         \A c \in Connectors : c # a.script[1] => r2.userFocus[c] = r.userFocus[c],
         FocusFineAt(r, a.script[1]) => FocusFineAt(r2, a.script[1])
  PROVE  Leaves(r, r2, a)
<1> DEFINE s == a.script
<1>1. s \in ScriptIds /\ s[1] \in Connectors /\ s = <<s[1], MainKey>>
  BY ActionFields
<1>2. \A t \in ScriptIds : r2.scripts[t].loading = LoadingAfter(r, a, t)
  BY DEF LoadingAfter
<1>3. \A t \in ScriptIds :
        /\ MovesCursor(a, t) => r2.scripts[t].cursor = a.cursor
        /\ ~MovesCursor(a, t) => (r2.scripts[t].cursor = Null <=> r.scripts[t].cursor = Null)
  <2> TAKE t \in ScriptIds
  <2>1. CASE t = a.script
    BY <2>1
  <2>2. CASE t # a.script
    BY <2>2 DEF MovesCursor
  <2> QED
    BY <2>1, <2>2
<1>4. ASSUME NEW c \in Connectors, c # s[1], FocusFineAt(r, c)
      PROVE  FocusFineAt(r2, c)
  <2>1. <<c, MainKey>> \in ScriptIds /\ <<c, MainKey>> # s
    BY <1>1, <1>4, ScriptIdsAre
  <2>2. r2.scripts[<<c, MainKey>>].cursor = r.scripts[<<c, MainKey>>].cursor
    BY <2>1
  <2> QED
    BY <1>1, <1>4, <2>1, <2>2, OtherFocus
<1> QED
  BY <1>2, <1>3, <1>4 DEF Leaves

LEMMA ScriptUpdated ==
  ASSUME NEW r, RegistryOK(r), DistinctBuffers(r), NEW a \in Dispatched, a.type = "UPDATE_SCRIPT",
         r.scripts[a.script].outdatedAnalysis,
         NEW used, IsFiniteSet(used), \A t \in ScriptIds : Processed(r, t) \in used
  PROVE  LET r2 == reduceWorkbookState(r, a, used)
             b == FreshBuffers(r, used)
         IN /\ Installs(r, r2, a.script, b) /\ b \notin used /\ b \notin Alive(r)
            /\ r2.text = r.text /\ r2.version = r.version
            /\ r2.buffers[b] = Analysis(r2, a.script)
            /\ Leaves(r, r2, a)
<1> DEFINE s == a.script
           c == s[1]
           b == FreshBuffers(r, used)
           data == r.scripts[s]
           cursor == IF data.cursor = Null THEN Null ELSE moveCursor(r, s, data.cursor.textOffset)
           e == [data EXCEPT !.processed = b, !.outdatedAnalysis = FALSE, !.cursor = cursor]
           next == SetScript(parseAndAnalyzeScript(destroyBuffers(r, r.scripts[s].processed), s, b), s, e)
           r2 == IF r.userFocus[c] # Null /\ cursor # Null THEN SetFocus(next, c, FocusOf(next, s)) ELSE next
<1>1. s \in ScriptIds /\ c \in Connectors /\ s = <<c, MainKey>>
  BY ActionFields
<1>2. reduceWorkbookState(r, a, used) = r2
  BY DEF reduceWorkbookState, UPDATE_SCRIPT, SetFocus, SetScript
<1> HIDE DEF s
<1>3. b \in Nat \ {0} /\ b \notin used /\ b \notin Alive(r)
  BY FreshBuffersAreFresh DEF RegistryOK, Alive
<1>4. \A t \in ScriptIds : Processed(r, t) # b
  BY <1>3
<1> HIDE DEF b
<1>5. data \in ScriptRecord
  BY <1>1, ScriptsOf
<1>6. cursor \in Cursors \cup {Null} /\ (cursor = Null <=> data.cursor = Null)
  <2>1. r.text[s] \in Texts
    BY <1>1, ScriptsOf
  <2>2. CASE data.cursor = Null
    BY <2>2
  <2>3. CASE data.cursor # Null
    <3>1. data.cursor.textOffset \in Nat
      BY <1>5, <2>3, ScriptFields, CursorFields
    <3>2. moveCursor(r, s, data.cursor.textOffset) \in Cursors /\ moveCursor(r, s, data.cursor.textOffset) # Null
      BY <2>1, <3>1, CursorTypes DEF moveCursor
    <3> QED
      BY <2>3, <3>2
  <2> QED
    BY <2>2, <2>3
<1> HIDE DEF cursor, data
<1>7. Becomes(data, e, b, FALSE, cursor, data.loading)
  BY <1>3, <1>5, <1>6, ScriptChanges, ScriptFields
<1> HIDE DEF e
<1>8. /\ e \in ScriptRecord /\ e.scriptType = data.scriptType /\ e.scriptId = data.scriptId
      /\ e.processed = b /\ e.cursor = cursor /\ e.loading = data.loading
  BY <1>7 DEF Becomes
<1>9. /\ Installs(r, next, s, b) /\ OtherFields(r, next)
      /\ next.buffers[b] = Analysis(next, s)
      /\ next.scripts[s] = e
      /\ \A t \in ScriptIds : t # s => next.scripts[t] = r.scripts[t]
  BY <1>1, <1>3, <1>4, <1>8, AnalyzedAgain DEF data
<1> HIDE DEF next
<1>10. /\ RegistryOK(next) /\ FocusOf(next, s) \in AnyFocus
  BY <1>1, <1>9, FocusOfTypes DEF OtherFields
<1>11. /\ RegistryOK(r2) /\ r2.scripts = next.scripts
       /\ r2.text = next.text /\ r2.version = next.version /\ r2.buffers = next.buffers
       /\ \A d \in Connectors : d # c => r2.userFocus[d] = next.userFocus[d]
       /\ FocusOf(r2, s) = FocusOf(next, s)
       /\ IF r.userFocus[c] # Null /\ cursor # Null
          THEN r2.userFocus[c] = FocusOf(next, s) ELSE r2.userFocus[c] = next.userFocus[c]
  <2>1. CASE r.userFocus[c] # Null /\ cursor # Null
    <3>1. r2 = SetFocus(next, c, FocusOf(next, s))
      BY <2>1
    <3> HIDE DEF r2
    <3> QED
      BY <1>1, <1>10, <2>1, <3>1, FocusSet
  <2>2. CASE ~(r.userFocus[c] # Null /\ cursor # Null)
    <3>1. r2 = next
      BY <2>2
    <3> HIDE DEF r2
    <3> QED
      BY <1>10, <2>2, <3>1
  <2> QED
    BY <2>1, <2>2
<1> HIDE DEF r2
<1>12. Installs(r, r2, s, b)
  BY <1>1, <1>9, <1>11, InstallsThenFocus
<1>13. r2.text = r.text /\ r2.version = r.version /\ r2.buffers[b] = Analysis(r2, s)
  BY <1>9, <1>11 DEF OtherFields, Analysis
<1>14. FocusFineAt(r, c) => FocusFineAt(r2, c)
  <2> SUFFICES ASSUME FocusFineAt(r, c) PROVE FocusFineAt(r2, c)
    OBVIOUS
  <2>1. CASE r.userFocus[c] # Null /\ cursor # Null
    BY <1>1, <1>11, <2>1 DEF FocusFineAt
  <2>2. CASE r.userFocus[c] = Null
    BY <1>9, <1>11, <2>2 DEF FocusFineAt, OtherFields
  <2>3. CASE cursor = Null
    <3>1. FocusOf(r, s) = Null
      BY <1>6, <2>3, FocusOfIs DEF data
    <3>2. r.userFocus[c] = Null \/ FocusesCompletion(r.userFocus[c])
      BY <1>1, <3>1 DEF FocusFineAt
    <3> QED
      BY <1>9, <1>11, <2>3, <3>2 DEF FocusFineAt, OtherFields
  <2> QED
    BY <2>1, <2>2, <2>3
<1>15. \A t \in ScriptIds : t # s => r2.scripts[t] = r.scripts[t]
  BY <1>9, <1>11
<1>16. r2.scripts[s].loading = r.scripts[s].loading /\ (r2.scripts[s].cursor = Null <=> r.scripts[s].cursor = Null)
  BY <1>6, <1>8, <1>9, <1>11 DEF data
<1>17. \A d \in Connectors : d # c => r2.userFocus[d] = r.userFocus[d]
  BY <1>9, <1>11 DEF OtherFields
<1>18. Leaves(r, r2, a)
  <2>1. ~MovesCursor(a, a.script)
    BY DEF MovesCursor
  <2> QED
    BY <1>12, <1>14, <1>15, <1>16, <1>17, <2>1, MainLeaves DEF s
<1> QED
  BY <1>2, <1>3, <1>12, <1>13, <1>18 DEF s, b

LEMMA CurrentScriptNotUpdated ==
  ASSUME NEW r, RegistryOK(r), NEW a \in Dispatched, a.type = "UPDATE_SCRIPT",
         ~r.scripts[a.script].outdatedAnalysis, NEW used
  PROVE  LET r2 == reduceWorkbookState(r, a, used) IN Quiet(r, r2) /\ Leaves(r, r2, a)
<1>1. reduceWorkbookState(r, a, used) = r
  BY DEF reduceWorkbookState, UPDATE_SCRIPT
<1>2. Quiet(r, r)
  BY DEF Quiet
<1>3. Leaves(r, r, a)
  BY DEF Leaves, LoadingAfter, MovesCursor
<1> QED
  BY <1>1, <1>2, <1>3

LEMMA MainIsNoSchema ==
  ASSUME NEW r, RegistryOK(r), NEW s \in ScriptIds
  PROVE  /\ s[2] = MainKey => r.scripts[s].scriptType # "SCHEMA"
         /\ \A t \in ScriptIds : r.scripts[s].scriptType = "SCHEMA" /\ t[1] = s[1] /\ t # s
              => r.scripts[t].scriptType = "QUERY"
BY SetupOfScript DEF RegistryOK, AsSetUp

LEMMA AnalysisUpdated ==
  ASSUME NEW r, RegistryOK(r), DistinctBuffers(r), NEW a \in Dispatched,
         a.type = "UPDATE_SCRIPT_ANALYSIS", a.value \in Alive(r),
         \A t \in ScriptIds : Processed(r, t) # a.value, NEW used
  PROVE  LET r2 == reduceWorkbookState(r, a, used)
         IN /\ Installs(r, r2, a.script, a.value)
            /\ r2.text = r.text /\ r2.version = r.version
            /\ r2.buffers[a.value] = r.buffers[a.value]
            /\ Leaves(r, r2, a)
<1> DEFINE s == a.script
           c == s[1]
           b == a.value
           r1 == destroyBuffers(r, r.scripts[s].processed)
           data == r1.scripts[s]
           e == [data EXCEPT !.processed = b, !.outdatedAnalysis = FALSE, !.cursor = a.cursor]
           next == SetScript(r1, s, e)
           r2 == IF FocusesCompletion(r.userFocus[c]) THEN next ELSE SetFocus(next, c, FocusOf(next, s))
<1>1. s \in ScriptIds /\ c \in Connectors /\ s = <<c, MainKey>> /\ s[2] = MainKey
  BY ActionFields DEF ActionOK
<1>2. b \in Nat \ {0} /\ a.cursor \in Cursors /\ a.cursor # Null
  BY ActionFields, CursorFields DEF ActionOK
<1>3. /\ OtherFields(r, r1) /\ r1.scripts = r.scripts
      /\ Alive(r1) = Alive(r) \ {Processed(r, s)}
      /\ \A x \in Alive(r1) : r1.buffers[x] = r.buffers[x]
  BY Destroyed DEF Processed
<1>4. reduceWorkbookState(r, a, used) = LoadedAgain(r2, s)
  <2>1. r1.userFocus = r.userFocus
    BY <1>3 DEF OtherFields
  <2> DEFINE n == [r1 EXCEPT !.scripts[s] = e]
  <2>2. n = next
    BY DEF SetScript
  <2>3. reduceWorkbookState(r, a, used) =
          LoadedAgain(IF FocusesCompletion(r.userFocus[s[1]]) THEN n
                      ELSE [n EXCEPT !.userFocus[s[1]] = FocusOf(n, s)], s)
    BY DEF reduceWorkbookState, UPDATE_SCRIPT_ANALYSIS
  <2> QED
    BY <2>2, <2>3 DEF SetFocus
<1> HIDE DEF s, b, r1
<1>5. data \in ScriptRecord /\ RegistryOK(r1)
  BY <1>1, <1>3, ScriptsOf DEF OtherFields
<1> HIDE DEF data
<1>6. Becomes(data, e, b, FALSE, a.cursor, data.loading)
  BY <1>2, <1>5, ScriptChanges, ScriptFields
<1> HIDE DEF e
<1>7. /\ e \in ScriptRecord /\ e.scriptType = data.scriptType /\ e.scriptId = data.scriptId
      /\ e.processed = b /\ e.cursor = a.cursor /\ e.loading = data.loading
  BY <1>6 DEF Becomes
<1>8. /\ OtherFields(r1, next) /\ SameBuffers(r1, next) /\ next.scripts[s] = e
      /\ \A t \in ScriptIds : t # s => next.scripts[t] = r1.scripts[t]
  BY <1>1, <1>5, <1>7, ScriptSet DEF data
<1> HIDE DEF next
<1>9. OtherFields(r, next)
  BY <1>3, <1>8 DEF OtherFields
<1>10. b \in Alive(r) /\ b # Processed(r, s)
  BY <1>1 DEF b
<1>11. Installs(r, next, s, b)
  <2>1. RegistryOK(next) /\ next.text = r.text
    BY <1>9 DEF OtherFields
  <2>2. Processed(next, s) = b
    BY <1>7, <1>8 DEF Processed
  <2>3. \A t \in ScriptIds : t # s =>
          /\ Processed(next, t) = Processed(r, t)
          /\ next.text[t] = r.text[t]
          /\ r.scripts[t].outdatedAnalysis => next.scripts[t].outdatedAnalysis
    BY <1>3, <1>8, <2>1 DEF Processed
  <2>4. Alive(next) = Alive(r1) /\ next.buffers = r1.buffers
    BY <1>8 DEF SameBuffers, Alive
  <2>5. Alive(next) = (Alive(r) \ {Processed(r, s)}) \cup {b}
    BY <1>3, <1>10, <2>4
  <2>6. \A x \in Alive(next) : x # b => next.buffers[x] = r.buffers[x]
    BY <1>3, <2>4
  <2>7. \A t \in ScriptIds : Processed(r, t) # b
    BY DEF b
  <2> QED
    BY <1>2, <2>1, <2>2, <2>3, <2>5, <2>6, <2>7 DEF Installs
<1>12. RegistryOK(next) /\ FocusOf(next, s) \in AnyFocus
  BY <1>1, <1>9, FocusOfTypes DEF OtherFields
<1>13. /\ RegistryOK(r2) /\ r2.scripts = next.scripts
       /\ r2.text = next.text /\ r2.version = next.version /\ r2.buffers = next.buffers
       /\ \A d \in Connectors : d # c => r2.userFocus[d] = next.userFocus[d]
       /\ FocusOf(r2, s) = FocusOf(next, s)
       /\ IF FocusesCompletion(r.userFocus[c])
          THEN r2.userFocus[c] = next.userFocus[c] ELSE r2.userFocus[c] = FocusOf(next, s)
  <2>1. CASE ~FocusesCompletion(r.userFocus[c])
    <3>1. r2 = SetFocus(next, c, FocusOf(next, s))
      BY <2>1
    <3> HIDE DEF r2
    <3> QED
      BY <1>1, <1>12, <2>1, <3>1, FocusSet
  <2>2. CASE FocusesCompletion(r.userFocus[c])
    <3>1. r2 = next
      BY <2>2
    <3> HIDE DEF r2
    <3> QED
      BY <1>12, <2>2, <3>1
  <2> QED
    BY <2>1, <2>2
<1> HIDE DEF r2
<1>14. LoadedAgain(r2, s) = r2
  <2>1. r2.scripts[s].scriptType # "SCHEMA"
    BY <1>1, <1>13, MainIsNoSchema
  <2> QED
    BY <2>1 DEF LoadedAgain
<1>15. Installs(r, r2, s, b)
  BY <1>1, <1>11, <1>13, InstallsThenFocus
<1>16. r2.text = r.text /\ r2.version = r.version
  BY <1>9, <1>13 DEF OtherFields
<1>17. r2.buffers[b] = r.buffers[b]
  <2>1. b \in Alive(r1)
    BY <1>3, <1>10
  <2>2. r2.buffers = r1.buffers
    BY <1>8, <1>13 DEF SameBuffers
  <2> QED
    BY <1>3, <2>1, <2>2
<1>18. FocusFineAt(r2, c)
  <2>1. CASE FocusesCompletion(r.userFocus[c])
    BY <1>9, <1>13, <2>1 DEF FocusFineAt, OtherFields
  <2>2. CASE ~FocusesCompletion(r.userFocus[c])
    BY <1>1, <1>13, <2>2 DEF FocusFineAt
  <2> QED
    BY <2>1, <2>2
<1>19. \A t \in ScriptIds : t # s => r2.scripts[t] = r.scripts[t]
  BY <1>3, <1>8, <1>13
<1>20. r2.scripts[s].loading = r.scripts[s].loading /\ r2.scripts[s].cursor = a.cursor
  BY <1>3, <1>7, <1>8, <1>13 DEF data
<1>21. \A d \in Connectors : d # c => r2.userFocus[d] = r.userFocus[d]
  BY <1>9, <1>13 DEF OtherFields
<1>22. MovesCursor(a, s)
  BY DEF MovesCursor, s
<1>23. Leaves(r, r2, a)
  BY <1>15, <1>18, <1>19, <1>20, <1>21, <1>22, MainLeaves DEF s, b
<1> QED
  BY <1>4, <1>14, <1>15, <1>16, <1>17, <1>23 DEF s, b

LEMMA SchemaLoaded ==
  ASSUME NEW r, RegistryOK(r), NEW s \in ScriptIds
  PROVE  LET r2 == LoadedAgain(r, s)
         IN /\ RegistryOK(r2) /\ SameBuffers(r, r2)
            /\ r2.userFocus = r.userFocus /\ r2.text = r.text
            /\ \A t \in ScriptIds :
                 /\ r2.scripts[t].processed = r.scripts[t].processed
                 /\ r2.scripts[t].cursor = r.scripts[t].cursor
                 /\ r2.scripts[t].loading = r.scripts[t].loading
                 /\ r.scripts[t].outdatedAnalysis => r2.scripts[t].outdatedAnalysis
            /\ r.scripts[s].scriptType # "SCHEMA" => r2 = r
            /\ \A d \in Connectors : d # s[1] => r2.version[d] = r.version[d]
            /\ r.scripts[s].scriptType = "SCHEMA" =>
                 \A t \in ScriptIds : t[1] = s[1] /\ t # s => r2.scripts[t].outdatedAnalysis
<1> DEFINE c == s[1]
           r1 == loadScript(r, c)
           r2 == MarkQueriesOutdated(r1, c)
<1>1. CASE r.scripts[s].scriptType # "SCHEMA"
  BY <1>1 DEF LoadedAgain, SameBuffers
<1>2. CASE r.scripts[s].scriptType = "SCHEMA"
  <2>1. LoadedAgain(r, s) = r2
    BY <1>2 DEF LoadedAgain
  <2>2. c \in Connectors
    BY ScriptIdsAre
  <2> HIDE DEF c
  <2>3. /\ RegistryOK(r1) /\ SameBuffers(r, r1) /\ r1.scripts = r.scripts
        /\ r1.userFocus = r.userFocus /\ r1.text = r.text
        /\ \A d \in Connectors : d # c => r1.version[d] = r.version[d]
    BY <2>2, CatalogLoaded
  <2> HIDE DEF r1
  <2>4. /\ OtherFields(r1, r2) /\ SameBuffers(r1, r2)
        /\ \A t \in ScriptIds :
             Becomes(r1.scripts[t], r2.scripts[t], r1.scripts[t].processed,
                     r1.scripts[t].outdatedAnalysis \/ (t[1] = c /\ r1.scripts[t].scriptType = "QUERY"),
                     r1.scripts[t].cursor, r1.scripts[t].loading)
    BY <2>2, <2>3, QueriesMarked
  <2> HIDE DEF r2
  <2>5. \A t \in ScriptIds :
          /\ r2.scripts[t].processed = r.scripts[t].processed
          /\ r2.scripts[t].cursor = r.scripts[t].cursor
          /\ r2.scripts[t].loading = r.scripts[t].loading
    BY <2>3, <2>4 DEF Becomes
  <2>6. \A t \in ScriptIds : r.scripts[t].outdatedAnalysis => r2.scripts[t].outdatedAnalysis
    BY <2>3, <2>4 DEF Becomes
  <2>7. \A t \in ScriptIds : t[1] = c /\ t # s => r2.scripts[t].outdatedAnalysis
    <3>1. \A t \in ScriptIds : t[1] = c /\ t # s => r1.scripts[t].scriptType = "QUERY"
      BY <1>2, <2>3, MainIsNoSchema DEF c
    <3> QED
      BY <2>4, <3>1 DEF Becomes
  <2>8. /\ RegistryOK(r2) /\ SameBuffers(r, r2)
        /\ r2.userFocus = r.userFocus /\ r2.text = r.text
        /\ \A d \in Connectors : d # c => r2.version[d] = r.version[d]
    BY <2>3, <2>4 DEF OtherFields, SameBuffers
  <2> QED
    BY <1>2, <2>1, <2>5, <2>6, <2>7, <2>8 DEF c
<1> QED
  BY <1>1, <1>2

LEMMA ScriptLoaded ==
  ASSUME NEW r, RegistryOK(r), DistinctBuffers(r), NEW a \in Dispatched,
         a.type = "SCRIPT_LOADING_SUCCEEDED",
         NEW used, IsFiniteSet(used), \A t \in ScriptIds : Processed(r, t) \in used
  PROVE  LET r2 == reduceWorkbookState(r, a, used)
             b == FreshBuffers(r, used)
             s == a.script
         IN /\ Installs(r, r2, s, b) /\ b \notin used /\ b \notin Alive(r)
            /\ r2.buffers[b].text = r2.text[s]
            /\ r.scripts[s].scriptType # "SCHEMA" => r2.buffers[b] = Analysis(r2, s)
            /\ \A d \in Connectors : d # s[1] => r2.version[d] = r.version[d]
            /\ r.scripts[s].scriptType # "SCHEMA" => r2.version = r.version
            /\ r.scripts[s].scriptType = "SCHEMA" =>
                 \A t \in ScriptIds : t[1] = s[1] /\ t # s => r2.scripts[t].outdatedAnalysis
            /\ Leaves(r, r2, a)
<1> DEFINE s == a.script
           c == s[1]
           b == FreshBuffers(r, used)
           r1 == destroyBuffers(r, r.scripts[s].processed)
           r3 == SetText(r1, s, a.value)
           data == r3.scripts[s]
           e == [data EXCEPT !.loading = "SUCCEEDED", !.processed = b]
           r4 == SetScript(r3, s, e)
           r5 == parseAndAnalyzeScript(r4, s, b)
           r2 == LoadedAgain(r5, s)
<1>1. s \in ScriptIds /\ c \in Connectors /\ a.value \in Texts
  BY ActionFields DEF ActionOK
<1>2. reduceWorkbookState(r, a, used) = r2
  <2> DEFINE replaced == [r1 EXCEPT !.text[s] = a.value,
                            !.scripts[s] = [@ EXCEPT !.loading = "SUCCEEDED", !.processed = b]]
  <2>1. reduceWorkbookState(r, a, used) = LoadedAgain(parseAndAnalyzeScript(replaced, s, b), s)
    BY DEF reduceWorkbookState, SCRIPT_LOADING_SUCCEEDED
  <2>2. replaced = r4
    BY DEF SetScript, SetText
  <2> QED
    BY <2>1, <2>2
<1> HIDE DEF s
<1>3. b \in Nat \ {0} /\ b \notin used /\ b \notin Alive(r) /\ \A t \in ScriptIds : Processed(r, t) # b
  BY FreshBuffersAreFresh DEF RegistryOK, Alive
<1> HIDE DEF b
<1>4. /\ OtherFields(r, r1) /\ r1.scripts = r.scripts
      /\ Alive(r1) = Alive(r) \ {Processed(r, s)}
      /\ \A x \in Alive(r1) : r1.buffers[x] = r.buffers[x]
  BY Destroyed DEF Processed
<1> HIDE DEF r1
<1>5. /\ RegistryOK(r3) /\ SameBuffers(r1, r3) /\ r3.scripts = r1.scripts
      /\ r3.userFocus = r1.userFocus /\ r3.version = r1.version
      /\ r3.text[s] = a.value
      /\ \A t \in ScriptIds : t # s => r3.text[t] = r1.text[t]
  BY <1>1, <1>4, TextSet DEF OtherFields
<1> HIDE DEF r3
<1>6. data \in ScriptRecord /\ "SUCCEEDED" \in Loadings
  BY <1>1, <1>5, ScriptsOf DEF Loadings
<1> HIDE DEF data
<1>7. Becomes(data, e, b, data.outdatedAnalysis, data.cursor, "SUCCEEDED")
  BY <1>3, <1>6, ScriptChanges, ScriptFields
<1> HIDE DEF e
<1>8. /\ e \in ScriptRecord /\ e.scriptType = data.scriptType /\ e.scriptId = data.scriptId
      /\ e.processed = b /\ e.cursor = data.cursor /\ e.loading = "SUCCEEDED"
  BY <1>7 DEF Becomes
<1>9. /\ OtherFields(r3, r4) /\ SameBuffers(r3, r4) /\ r4.scripts[s] = e
      /\ \A t \in ScriptIds : t # s => r4.scripts[t] = r3.scripts[t]
  BY <1>1, <1>5, <1>8, ScriptSet DEF data
<1> HIDE DEF r4
<1>10. /\ OtherFields(r4, r5) /\ r5.scripts = r4.scripts
       /\ Alive(r5) = Alive(r4) \cup {b}
       /\ r5.buffers[b] = Analysis(r4, s)
       /\ \A x \in Alive(r4) : x # b => r5.buffers[x] = r4.buffers[x]
  <2>1. RegistryOK(r4)
    BY <1>9 DEF OtherFields
  <2> QED
    BY <1>1, <1>3, <2>1, Analyzed
<1> HIDE DEF r5
<1>11. /\ RegistryOK(r2) /\ SameBuffers(r5, r2)
       /\ r2.userFocus = r5.userFocus /\ r2.text = r5.text
       /\ \A t \in ScriptIds :
            /\ r2.scripts[t].processed = r5.scripts[t].processed
            /\ r2.scripts[t].cursor = r5.scripts[t].cursor
            /\ r2.scripts[t].loading = r5.scripts[t].loading
            /\ r5.scripts[t].outdatedAnalysis => r2.scripts[t].outdatedAnalysis
       /\ r5.scripts[s].scriptType # "SCHEMA" => r2 = r5
       /\ \A d \in Connectors : d # s[1] => r2.version[d] = r5.version[d]
       /\ r5.scripts[s].scriptType = "SCHEMA" =>
            \A t \in ScriptIds : t[1] = s[1] /\ t # s => r2.scripts[t].outdatedAnalysis
  <2>1. RegistryOK(r5)
    BY <1>10 DEF OtherFields
  <2> QED
    BY <1>1, <2>1, SchemaLoaded
<1> HIDE DEF r2
<1>12. r5.scripts[s] = e /\ \A t \in ScriptIds : t # s => r5.scripts[t] = r.scripts[t]
  BY <1>4, <1>5, <1>9, <1>10
<1>13. r5.scripts[s].scriptType = r.scripts[s].scriptType
  BY <1>4, <1>5, <1>8, <1>12 DEF data
<1>14. r5.version = r.version /\ r5.userFocus = r.userFocus /\ r5.text = r4.text /\ r5.version = r4.version
  BY <1>4, <1>5, <1>9, <1>10 DEF OtherFields
<1>15. \A t \in ScriptIds : t # s => r2.text[t] = r.text[t]
  BY <1>4, <1>5, <1>9, <1>11, <1>14 DEF OtherFields
<1>16. r2.buffers[b] = Analysis(r4, s) /\ Analysis(r4, s) = Analysis(r5, s)
  BY <1>10, <1>11, <1>14 DEF SameBuffers, Analysis
<1>17. Alive(r2) = (Alive(r) \ {Processed(r, s)}) \cup {b}
  BY <1>4, <1>5, <1>9, <1>10, <1>11 DEF SameBuffers, Alive
<1>18. \A x \in Alive(r2) : x # b => r2.buffers[x] = r.buffers[x]
  <2> SUFFICES ASSUME NEW x \in Alive(r2), x # b PROVE r2.buffers[x] = r.buffers[x]
    OBVIOUS
  <2>1. x \in Alive(r1) /\ Alive(r4) = Alive(r1)
    BY <1>4, <1>5, <1>9, <1>17 DEF SameBuffers, Alive
  <2> QED
    BY <1>4, <1>5, <1>9, <1>10, <1>11, <2>1 DEF SameBuffers
<1>19. Installs(r, r2, s, b)
  <2>1. Processed(r2, s) = b
    BY <1>1, <1>8, <1>11, <1>12 DEF Processed
  <2>2. \A t \in ScriptIds : t # s => Processed(r2, t) = Processed(r, t)
    BY <1>11, <1>12 DEF Processed
  <2>3. \A t \in ScriptIds : t # s =>
          (r.scripts[t].outdatedAnalysis => r2.scripts[t].outdatedAnalysis)
    BY <1>11, <1>12
  <2> QED
    BY <1>3, <1>11, <1>15, <1>17, <1>18, <2>1, <2>2, <2>3 DEF Installs
<1>20. r2.buffers[b].text = r2.text[s]
  BY <1>11, <1>14, <1>16 DEF Analysis
<1>21. r.scripts[s].scriptType # "SCHEMA" => r2.buffers[b] = Analysis(r2, s) /\ r2.version = r.version
  BY <1>11, <1>13, <1>14, <1>16
<1>22. \A t \in ScriptIds : r2.scripts[t].cursor = r.scripts[t].cursor
  BY <1>4, <1>5, <1>8, <1>11, <1>12 DEF data
<1>23. Leaves(r, r2, a)
  <2>1. \A t \in ScriptIds : r2.scripts[t].loading = LoadingAfter(r, a, t)
    BY <1>1, <1>8, <1>11, <1>12 DEF LoadingAfter, s
  <2>2. \A t \in ScriptIds : ~MovesCursor(a, t)
    BY DEF MovesCursor
  <2>3. ASSUME NEW d \in Connectors, ~(IsLoaded(a, <<d, MainKey>>) /\ r.scripts[<<d, MainKey>>].cursor # Null),
               FocusFineAt(r, d)
        PROVE  FocusFineAt(r2, d)
    <3> DEFINE t == <<d, MainKey>>
    <3>1. t \in ScriptIds /\ r2.scripts[t].cursor = r.scripts[t].cursor
      BY <1>22, ScriptIdsAre
    <3>2. r2.userFocus = r.userFocus
      BY <1>11, <1>14
    <3>3. CASE t # s
      <4> HIDE DEF t
      <4>1. t # s /\ r2.scripts[t].cursor = r.scripts[t].cursor /\ r2.userFocus[d] = r.userFocus[d]
        BY <3>1, <3>2, <3>3
      <4> QED
        BY <1>1, <1>19, <2>3, <4>1, OtherFocus DEF t
    <3>4. CASE t = s
      <4> HIDE DEF t
      <4>1. r.scripts[t].cursor = Null
        BY <2>3, <3>4 DEF IsLoaded, s, t
      <4>2. FocusOf(r, t) = Null /\ FocusOf(r2, t) = Null
        BY <3>1, <4>1, FocusOfIs
      <4> QED
        BY <2>3, <3>2, <4>2 DEF FocusFineAt, t
    <3> QED
      BY <3>3, <3>4
  <2> QED
    BY <1>22, <2>1, <2>2, <2>3 DEF Leaves
<1>24. r.scripts[s].scriptType = "SCHEMA" =>
         \A t \in ScriptIds : t[1] = s[1] /\ t # s => r2.scripts[t].outdatedAnalysis
  BY <1>11, <1>13
<1>25. \A d \in Connectors : d # s[1] => r2.version[d] = r.version[d]
  BY <1>11, <1>14
<1> HIDE DEF c
<1> QED
  BY <1>2, <1>3, <1>19, <1>20, <1>21, <1>23, <1>24, <1>25 DEF s, b

-----------------------------------------------------------------------------
(***************************************************************************)
(* One step of the reducer.                                                *)
(***************************************************************************)
QuietStep(r, r2, a) ==
  /\ Quiet(r, r2)
  /\ a.type \notin {"UPDATE_SCRIPT_ANALYSIS", "SCRIPT_LOADING_SUCCEEDED"}
  /\ a.type = "CATALOG_DID_UPDATE" =>
       \A s \in ScriptIds : s[1] = a.script[1] => r2.scripts[s].outdatedAnalysis
UpdateStep(r, r2, a, b) ==
  /\ a.type = "UPDATE_SCRIPT" /\ a.script \in ScriptIds
  /\ Installs(r, r2, a.script, b) /\ b \notin Alive(r)
  /\ r2.text = r.text /\ r2.version = r.version
  /\ r2.buffers[b] = Analysis(r2, a.script)
AnalysisStep(r, r2, a, b) ==
  /\ IsUpdate(a, a.script) /\ a.script \in ScriptIds /\ b = a.value
  /\ Installs(r, r2, a.script, b) /\ b \in Alive(r)
  /\ r2.text = r.text /\ r2.version = r.version
  /\ r2.buffers[b] = r.buffers[b]
LoadStep(r, r2, a, b) ==
  LET s == a.script
  IN /\ IsLoaded(a, s) /\ s \in ScriptIds
     /\ Installs(r, r2, s, b) /\ b \notin Alive(r)
     /\ r2.buffers[b].text = r2.text[s]
     /\ r.scripts[s].scriptType # "SCHEMA" =>
          r2.buffers[b] = Analysis(r2, s) /\ r2.version = r.version
     /\ \A d \in Connectors : d # s[1] => r2.version[d] = r.version[d]
     /\ r.scripts[s].scriptType = "SCHEMA" =>
          \A t \in ScriptIds : t[1] = s[1] /\ t # s => r2.scripts[t].outdatedAnalysis

LEMMA Reduces ==
  ASSUME NEW r, RegistryOK(r), DistinctBuffers(r), NEW a \in Dispatched,
         a.type = "UPDATE_SCRIPT_ANALYSIS" =>
           a.value \in Alive(r) /\ \A t \in ScriptIds : Processed(r, t) # a.value,
         NEW used, IsFiniteSet(used), \A t \in ScriptIds : Processed(r, t) \in used
  PROVE  LET r2 == reduceWorkbookState(r, a, used)
         IN /\ Leaves(r, r2, a)
            /\ \/ QuietStep(r, r2, a)
               \/ \E b \in Nat : b \notin used /\ (UpdateStep(r, r2, a, b) \/ LoadStep(r, r2, a, b))
               \/ AnalysisStep(r, r2, a, a.value)
<1> DEFINE r2 == reduceWorkbookState(r, a, used)
           b == FreshBuffers(r, used)
<1>0. a.type \in ActionTypes /\ (a.type # "CATALOG_DID_UPDATE" => a.script \in ScriptIds)
  BY ActionFields
<1>b. b \in Nat
  BY FreshBuffersAreFresh DEF RegistryOK
<1> HIDE DEF r2, b
<1>1. CASE a.type = "CATALOG_DID_UPDATE"
  <2>1. r2 = CATALOG_DID_UPDATE(r, a.script[1])
    BY <1>1 DEF reduceWorkbookState, r2
  <2>2. /\ Quiet(r, r2) /\ Leaves(r, r2, a)
        /\ \A s \in ScriptIds : s[1] = a.script[1] => r2.scripts[s].outdatedAnalysis
    BY <1>1, <2>1, CatalogUpdated
  <2> QED
    BY <1>1, <2>2 DEF QuietStep, r2
<1>2. CASE a.type \in {"SCRIPT_LOADING_STARTED", "SCRIPT_LOADING_FAILED"}
  <2>1. Quiet(r, r2) /\ Leaves(r, r2, a)
    BY <1>2, LoadingChanged DEF r2
  <2> QED
    BY <1>2, <2>1 DEF QuietStep, r2
<1>3. CASE a.type = "UPDATE_SCRIPT_CURSOR"
  <2>1. Quiet(r, r2) /\ Leaves(r, r2, a)
    BY <1>3, CursorUpdated DEF r2
  <2> QED
    BY <1>3, <2>1 DEF QuietStep, r2
<1>4. CASE a.type \in CompletionTypes
  <2>1. Quiet(r, r2) /\ Leaves(r, r2, a)
    BY <1>4, CompletionReduced DEF r2
  <2> QED
    BY <1>4, <2>1 DEF QuietStep, r2, CompletionTypes
<1>5. CASE a.type = "UPDATE_SCRIPT" /\ ~r.scripts[a.script].outdatedAnalysis
  <2>1. Quiet(r, r2) /\ Leaves(r, r2, a)
    BY <1>5, CurrentScriptNotUpdated DEF r2
  <2> QED
    BY <1>5, <2>1 DEF QuietStep, r2
<1>6. CASE a.type = "UPDATE_SCRIPT" /\ r.scripts[a.script].outdatedAnalysis
  <2>1. /\ Installs(r, r2, a.script, b) /\ b \notin used /\ b \notin Alive(r)
        /\ r2.text = r.text /\ r2.version = r.version
        /\ r2.buffers[b] = Analysis(r2, a.script)
        /\ Leaves(r, r2, a)
    BY <1>6, ScriptUpdated DEF r2, b
  <2>2. UpdateStep(r, r2, a, b)
    BY <1>0, <1>6, <2>1 DEF UpdateStep
  <2> QED
    BY <1>b, <2>1, <2>2 DEF r2
<1>7. CASE a.type = "UPDATE_SCRIPT_ANALYSIS"
  <2>1. /\ Installs(r, r2, a.script, a.value)
        /\ r2.text = r.text /\ r2.version = r.version
        /\ r2.buffers[a.value] = r.buffers[a.value]
        /\ Leaves(r, r2, a)
    BY <1>7, AnalysisUpdated DEF r2
  <2>2. AnalysisStep(r, r2, a, a.value)
    BY <1>0, <1>7, <2>1 DEF AnalysisStep, IsUpdate
  <2> QED
    BY <2>1, <2>2 DEF r2
<1>8. CASE a.type = "SCRIPT_LOADING_SUCCEEDED"
  <2> DEFINE s == a.script
  <2>1. /\ Installs(r, r2, s, b) /\ b \notin used /\ b \notin Alive(r)
        /\ r2.buffers[b].text = r2.text[s]
        /\ r.scripts[s].scriptType # "SCHEMA" => r2.buffers[b] = Analysis(r2, s)
        /\ \A d \in Connectors : d # s[1] => r2.version[d] = r.version[d]
        /\ r.scripts[s].scriptType # "SCHEMA" => r2.version = r.version
        /\ r.scripts[s].scriptType = "SCHEMA" =>
             \A t \in ScriptIds : t[1] = s[1] /\ t # s => r2.scripts[t].outdatedAnalysis
        /\ Leaves(r, r2, a)
    BY <1>8, ScriptLoaded DEF r2, b
  <2>2. LoadStep(r, r2, a, b)
    BY <1>0, <1>8, <2>1 DEF LoadStep, IsLoaded
  <2> QED
    BY <1>b, <2>1, <2>2 DEF r2
<1> QED
  BY <1>0, <1>1, <1>2, <1>3, <1>4, <1>5, <1>6, <1>7, <1>8 DEF ActionTypes, CompletionTypes

-----------------------------------------------------------------------------
(***************************************************************************)
(* The reducer keeps the invariant.                                        *)
(***************************************************************************)
LEMMA TailIs ==
  ASSUME NEW S, NEW q \in Seq(S), q # <<>>
  PROVE  /\ Head(q) = q[1] /\ 1 \in DOMAIN q /\ q[1] \in S
         /\ Tail(q) \in Seq(S) /\ Len(Tail(q)) = Len(q) - 1 /\ Len(q) \in Nat
         /\ DOMAIN q = 1..Len(q) /\ DOMAIN Tail(q) = 1..(Len(q) - 1)
         /\ \A i \in DOMAIN Tail(q) : i \in Nat /\ i + 1 \in DOMAIN q /\ Tail(q)[i] = q[i + 1]
         /\ \A i \in DOMAIN q : i # 1 => i - 1 \in DOMAIN Tail(q) /\ Tail(q)[i - 1] = q[i]
<1>1. Len(q) \in Nat \ {0} /\ DOMAIN q = 1..Len(q) /\ \A i \in DOMAIN q : q[i] \in S
  OBVIOUS
<1>2. Tail(q) \in Seq(S) /\ Len(Tail(q)) = Len(q) - 1
  BY HeadTailProperties
<1>3. DOMAIN Tail(q) = 1..(Len(q) - 1)
  BY <1>2
<1>4. \A i \in 1..(Len(q) - 1) : Tail(q)[i] = q[i + 1]
  BY <1>2, HeadTailProperties
<1>5. \A i \in DOMAIN Tail(q) : i \in Nat /\ i + 1 \in DOMAIN q /\ Tail(q)[i] = q[i + 1]
  BY <1>1, <1>3, <1>4
<1>6. \A i \in DOMAIN q : i # 1 => i - 1 \in DOMAIN Tail(q) /\ Tail(q)[i - 1] = q[i]
  <2> TAKE i \in DOMAIN q
  <2> HAVE i # 1
  <2>1. i - 1 \in 1..(Len(q) - 1) /\ (i - 1) + 1 = i
    BY <1>1
  <2> QED
    BY <1>3, <1>4, <2>1
<1>7. Head(q) = q[1] /\ 1 \in DOMAIN q
  BY <1>1
<1> QED
  BY <1>1, <1>2, <1>3, <1>5, <1>6, <1>7

Steps(r, r2, a, b) ==
  \/ QuietStep(r, r2, a)
  \/ UpdateStep(r, r2, a, b)
  \/ AnalysisStep(r, r2, a, b)
  \/ LoadStep(r, r2, a, b)

LEMMA OwnedDistinct ==
  ASSUME NEW r, NEW q, Owned(r, q)
  PROVE  DistinctBuffers(r)
BY DEF Owned, DistinctBuffers

LEMMA OwnedQuiet ==
  ASSUME NEW r, NEW r2, Quiet(r, r2), NEW q \in Seq(Dispatched), q # <<>>, Owned(r, q),
         \A s \in ScriptIds : ~IsUpdate(Head(q), s)
  PROVE  Owned(r2, Tail(q))
<1> DEFINE t == Tail(q)
<1>1. /\ Head(q) = q[1]
      /\ \A i \in DOMAIN t : i \in Nat /\ i + 1 \in DOMAIN q /\ t[i] = q[i + 1]
      /\ \A i \in DOMAIN q : i # 1 => i - 1 \in DOMAIN t /\ t[i - 1] = q[i]
  BY TailIs
<1> HIDE DEF t
<1>2. Alive(r2) = Alive(r) /\ \A s \in ScriptIds : Processed(r2, s) = Processed(r, s)
  BY DEF Quiet, Alive
<1>3. ASSUME NEW b \in Alive(r2)
      PROVE  \/ \E s \in ScriptIds : Processed(r2, s) = b
             \/ \E i \in DOMAIN t, s \in ScriptIds : IsUpdate(t[i], s) /\ t[i].value = b
  <2>1. CASE \E s \in ScriptIds : Processed(r, s) = b
    BY <1>2, <2>1
  <2>2. CASE \E i \in DOMAIN q, s \in ScriptIds : IsUpdate(q[i], s) /\ q[i].value = b
    <3>1. PICK i \in DOMAIN q, s \in ScriptIds : IsUpdate(q[i], s) /\ q[i].value = b
      BY <2>2
    <3>2. i # 1
      BY <1>1, <3>1
    <3>3. i - 1 \in DOMAIN t /\ t[i - 1] = q[i]
      BY <1>1, <3>2
    <3> QED
      BY <3>1, <3>3
  <2> QED
    BY <1>2, <1>3, <2>1, <2>2 DEF Owned
<1>4. \A i \in DOMAIN t, s \in ScriptIds : IsUpdate(t[i], s) =>
        t[i].value \in Alive(r2) /\ \A u \in ScriptIds : Processed(r2, u) # t[i].value
  BY <1>1, <1>2 DEF Owned
<1>5. \A i, j \in DOMAIN t, s, u \in ScriptIds :
        IsUpdate(t[i], s) /\ IsUpdate(t[j], u) /\ i # j => t[i].value # t[j].value
  <2> SUFFICES ASSUME NEW i \in DOMAIN t, NEW j \in DOMAIN t, NEW s \in ScriptIds, NEW u \in ScriptIds,
                      IsUpdate(t[i], s), IsUpdate(t[j], u), i # j
               PROVE  t[i].value # t[j].value
    OBVIOUS
  <2>1. i + 1 \in DOMAIN q /\ j + 1 \in DOMAIN q /\ i + 1 # j + 1 /\ t[i] = q[i + 1] /\ t[j] = q[j + 1]
    BY <1>1
  <2> QED
    BY <2>1 DEF Owned
<1> QED
  BY <1>2, <1>3, <1>4, <1>5 DEF Owned, t

LEMMA OwnedInstalls ==
  ASSUME NEW r, RegistryOK(r), NEW r2, NEW q \in Seq(Dispatched), q # <<>>, Owned(r, q),
         NEW s \in ScriptIds, NEW b, Installs(r, r2, s, b),
         \/ b \notin Alive(r) /\ \A u \in ScriptIds : ~IsUpdate(Head(q), u)
         \/ IsUpdate(Head(q), s) /\ b = Head(q).value
  PROVE  Owned(r2, Tail(q))
<1> DEFINE t == Tail(q)
<1>1. /\ Head(q) = q[1] /\ 1 \in DOMAIN q
      /\ \A i \in DOMAIN t : i \in Nat /\ i + 1 \in DOMAIN q /\ t[i] = q[i + 1]
      /\ \A i \in DOMAIN q : i # 1 => i - 1 \in DOMAIN t /\ t[i - 1] = q[i]
  BY TailIs
<1> HIDE DEF t
<1>2. /\ Alive(r2) = (Alive(r) \ {Processed(r, s)}) \cup {b}
      /\ Processed(r2, s) = b
      /\ \A u \in ScriptIds : u # s => Processed(r2, u) = Processed(r, u)
      /\ \A u \in ScriptIds : Processed(r, u) # b
  BY DEF Installs
<1>3. ASSUME NEW i \in DOMAIN t, NEW u \in ScriptIds, IsUpdate(t[i], u)
      PROVE  /\ i + 1 \in DOMAIN q /\ t[i] = q[i + 1] /\ i \in Nat
             /\ t[i].value \in Alive(r) /\ t[i].value # b
             /\ \A v \in ScriptIds : Processed(r, v) # t[i].value
  <2>1. i + 1 \in DOMAIN q /\ t[i] = q[i + 1] /\ i \in Nat
    BY <1>1
  <2>2. t[i].value \in Alive(r) /\ \A v \in ScriptIds : Processed(r, v) # t[i].value
    BY <1>3, <2>1 DEF Owned
  <2>3. t[i].value # b
    <3>1. CASE b \notin Alive(r)
      BY <2>2, <3>1
    <3>2. CASE IsUpdate(Head(q), s) /\ b = Head(q).value
      <4>1. i + 1 # 1
        BY <2>1
      <4>2. \A j, k \in DOMAIN q, v, w \in ScriptIds :
              IsUpdate(q[j], v) /\ IsUpdate(q[k], w) /\ j # k => q[j].value # q[k].value
        BY DEF Owned
      <4>3. IsUpdate(q[1], s) /\ b = q[1].value /\ IsUpdate(q[i + 1], u)
        BY <1>1, <1>3, <2>1, <3>2
      <4> QED
        BY <1>1, <2>1, <4>1, <4>2, <4>3
    <3> QED
      BY <3>1, <3>2
  <2> QED
    BY <2>1, <2>2, <2>3
<1>4. ASSUME NEW x \in Alive(r2)
      PROVE  \/ \E u \in ScriptIds : Processed(r2, u) = x
             \/ \E i \in DOMAIN t, u \in ScriptIds : IsUpdate(t[i], u) /\ t[i].value = x
  <2>1. CASE x = b
    BY <1>2, <2>1
  <2>2. CASE x # b
    <3>1. x \in Alive(r) /\ x # Processed(r, s)
      BY <1>2, <2>2
    <3>2. CASE \E u \in ScriptIds : Processed(r, u) = x
      BY <1>2, <3>1, <3>2
    <3>3. CASE \E i \in DOMAIN q, u \in ScriptIds : IsUpdate(q[i], u) /\ q[i].value = x
      <4>1. PICK i \in DOMAIN q, u \in ScriptIds : IsUpdate(q[i], u) /\ q[i].value = x
        BY <3>3
      <4>2. i # 1
        BY <1>1, <2>2, <4>1
      <4>3. i - 1 \in DOMAIN t /\ t[i - 1] = q[i]
        BY <1>1, <4>2
      <4> QED
        BY <4>1, <4>3
    <3> QED
      BY <3>1, <3>2, <3>3 DEF Owned
  <2> QED
    BY <2>1, <2>2
<1>5. \A u \in ScriptIds : Processed(r2, u) \in Alive(r2) \cup {NoBuffers}
  <2> TAKE u \in ScriptIds
  <2>1. CASE u = s
    BY <1>2, <2>1
  <2>2. CASE u # s
    <3>1. Processed(r2, u) = Processed(r, u) /\ Processed(r, u) \in Alive(r) \cup {NoBuffers}
      BY <1>2, <2>2 DEF Owned
    <3>2. Processed(r, u) # Processed(r, s) \/ Processed(r, u) = NoBuffers
      BY <2>2 DEF Owned
    <3> QED
      BY <1>2, <3>1, <3>2
  <2> QED
    BY <2>1, <2>2
<1>6. \A u, v \in ScriptIds :
        u # v => Processed(r2, u) # Processed(r2, v) \/ Processed(r2, u) = NoBuffers
  <2> TAKE u, v \in ScriptIds
  <2> HAVE u # v
  <2>1. Processed(r, u) # Processed(r, v) \/ Processed(r, u) = NoBuffers
    BY DEF Owned
  <2> QED
    BY <1>2, <2>1
<1>7. \A i \in DOMAIN t, u \in ScriptIds : IsUpdate(t[i], u) =>
        t[i].value \in Alive(r2) /\ \A v \in ScriptIds : Processed(r2, v) # t[i].value
  BY <1>2, <1>3
<1>8. \A i, j \in DOMAIN t, u, v \in ScriptIds :
        IsUpdate(t[i], u) /\ IsUpdate(t[j], v) /\ i # j => t[i].value # t[j].value
  <2> SUFFICES ASSUME NEW i \in DOMAIN t, NEW j \in DOMAIN t, NEW u \in ScriptIds, NEW v \in ScriptIds,
                      IsUpdate(t[i], u), IsUpdate(t[j], v), i # j
               PROVE  t[i].value # t[j].value
    OBVIOUS
  <2>1. i + 1 \in DOMAIN q /\ j + 1 \in DOMAIN q /\ i + 1 # j + 1 /\ t[i] = q[i + 1] /\ t[j] = q[j + 1]
    BY <1>1
  <2> QED
    BY <2>1 DEF Owned
<1> QED
  BY <1>4, <1>5, <1>6, <1>7, <1>8 DEF Owned, t

LEMMA OwnedReduced ==
  ASSUME NEW r, RegistryOK(r), NEW r2, NEW q \in Seq(Dispatched), q # <<>>, Owned(r, q),
         NEW b, Steps(r, r2, Head(q), b)
  PROVE  Owned(r2, Tail(q))
<1>1. CASE QuietStep(r, r2, Head(q))
  <2>1. \A s \in ScriptIds : ~IsUpdate(Head(q), s)
    BY <1>1 DEF QuietStep, IsUpdate
  <2> QED
    BY <1>1, <2>1, OwnedQuiet DEF QuietStep
<1>2. CASE UpdateStep(r, r2, Head(q), b) \/ LoadStep(r, r2, Head(q), b)
  <2>1. \A s \in ScriptIds : ~IsUpdate(Head(q), s)
    BY <1>2 DEF UpdateStep, LoadStep, IsUpdate, IsLoaded
  <2>2. Head(q).script \in ScriptIds /\ Installs(r, r2, Head(q).script, b) /\ b \notin Alive(r)
    BY <1>2 DEF UpdateStep, LoadStep
  <2> QED
    BY <2>1, <2>2, OwnedInstalls
<1>3. CASE AnalysisStep(r, r2, Head(q), b)
  <2>1. /\ IsUpdate(Head(q), Head(q).script) /\ b = Head(q).value
        /\ Head(q).script \in ScriptIds /\ Installs(r, r2, Head(q).script, b)
    BY <1>3 DEF AnalysisStep
  <2> QED
    BY <2>1, OwnedInstalls
<1> QED
  BY <1>1, <1>2, <1>3 DEF Steps

LEMMA UnanalyzedReduced ==
  ASSUME NEW r, NEW r2, NEW a, NEW b, Steps(r, r2, a, b), Unanalyzed(r)
  PROVE  Unanalyzed(r2)
<1>1. CASE QuietStep(r, r2, a)
  BY <1>1 DEF QuietStep, Quiet, Unanalyzed
<1>2. CASE Installs(r, r2, a.script, b)
  BY <1>2 DEF Installs, Unanalyzed, NoBuffers
<1> QED
  BY <1>1, <1>2 DEF Steps, UpdateStep, AnalysisStep, LoadStep

LEMMA FinalReduced ==
  ASSUME NEW q \in Seq(Dispatched), q # <<>>, NEW r, NEW r2, NEW s \in ScriptIds, NEW b,
         NEW i \in Nat, Final(r2, Tail(q), s, b, i)
  PROVE  /\ i # 0 => Final(r, q, s, b, i + 1)
         /\ i = 0 /\ IsUpdate(Head(q), s) /\ b = Head(q).value => Final(r, q, s, b, 1)
         /\ i = 0 /\ ~IsUpdate(Head(q), s) /\ b = Processed(r, s) => Final(r, q, s, b, 0)
<1> DEFINE t == Tail(q)
<1>1. /\ Head(q) = q[1] /\ 1 \in DOMAIN q /\ Len(t) = Len(q) - 1 /\ Len(q) \in Nat
      /\ DOMAIN q = 1..Len(q) /\ DOMAIN t = 1..(Len(q) - 1)
      /\ \A k \in DOMAIN t : k \in Nat /\ k + 1 \in DOMAIN q /\ t[k] = q[k + 1]
      /\ \A k \in DOMAIN q : k # 1 => k - 1 \in DOMAIN t /\ t[k - 1] = q[k]
  BY TailIs
<1>2. /\ i \in 0..Len(t) /\ \A j \in DOMAIN t : IsUpdate(t[j], s) => j <= i
      /\ i # 0 => IsUpdate(t[i], s) /\ b = t[i].value
  BY DEF Final
<1> HIDE DEF t
<1>3. \A j \in DOMAIN q : IsUpdate(q[j], s) => j <= i + 1
  <2> SUFFICES ASSUME NEW j \in DOMAIN q, IsUpdate(q[j], s), j # 1 PROVE j <= i + 1
    BY <1>1
  <2>1. j - 1 \in DOMAIN t /\ IsUpdate(t[j - 1], s)
    BY <1>1
  <2>2. j - 1 <= i
    BY <1>2, <2>1
  <2> QED
    BY <1>1, <2>2
<1>4. ASSUME i # 0
      PROVE  Final(r, q, s, b, i + 1)
  <2>1. i \in DOMAIN t /\ i + 1 \in 0..Len(q) /\ i + 1 # 0
    BY <1>1, <1>2, <1>4
  <2>2. IsUpdate(q[i + 1], s) /\ b = q[i + 1].value
    BY <1>1, <1>2, <1>4, <2>1
  <2> QED
    BY <1>3, <2>1, <2>2 DEF Final
<1>5. ASSUME i = 0, IsUpdate(Head(q), s), b = Head(q).value
      PROVE  Final(r, q, s, b, 1)
  <2>1. 1 \in 0..Len(q) /\ i + 1 = 1
    BY <1>1, <1>5
  <2> QED
    BY <1>1, <1>3, <1>5, <2>1 DEF Final
<1>6. ASSUME i = 0, ~IsUpdate(Head(q), s), b = Processed(r, s)
      PROVE  Final(r, q, s, b, 0)
  <2>1. \A j \in DOMAIN q : ~IsUpdate(q[j], s)
    <3> SUFFICES ASSUME NEW j \in DOMAIN q, IsUpdate(q[j], s) PROVE FALSE
      OBVIOUS
    <3>1. j # 1
      BY <1>1, <1>6
    <3>2. j - 1 \in DOMAIN t /\ IsUpdate(t[j - 1], s)
      BY <1>1, <3>1
    <3> QED
      BY <1>1, <1>2, <1>6, <3>2
  <2>2. 0 \in 0..Len(q)
    BY <1>1
  <2> QED
    BY <1>6, <2>1, <2>2 DEF Final
<1> QED
  BY <1>4, <1>5, <1>6

LEMMA MarksReduced ==
  ASSUME NEW q \in Seq(Dispatched), q # <<>>, NEW c, NEW i \in Nat
  PROVE  /\ WillBeMarked(q, c, i + 1) => WillBeMarked(Tail(q), c, i)
         /\ WillBeMarked(q, c, 0) =>
              \/ WillBeMarked(Tail(q), c, 0)
              \/ Head(q).type = "CATALOG_DID_UPDATE" /\ Head(q).script[1] = c
<1> DEFINE t == Tail(q)
<1>1. /\ Head(q) = q[1] /\ 1 \in DOMAIN q /\ Len(q) \in Nat
      /\ DOMAIN q = 1..Len(q) /\ DOMAIN t = 1..(Len(q) - 1)
      /\ \A k \in DOMAIN q : k # 1 => k - 1 \in DOMAIN t /\ t[k - 1] = q[k]
  BY TailIs
<1> HIDE DEF t
<1>2. ASSUME NEW k \in Nat, WillBeMarked(q, c, k), k = 0 => ~(q[1].type = "CATALOG_DID_UPDATE" /\ q[1].script[1] = c)
      PROVE  WillBeMarked(t, c, IF k = 0 THEN 0 ELSE k - 1)
  <2>1. PICK j \in DOMAIN q : j > k /\ q[j].type = "CATALOG_DID_UPDATE" /\ q[j].script[1] = c
    BY <1>2 DEF WillBeMarked
  <2>2. j # 1
    BY <1>1, <1>2, <2>1
  <2>3. j - 1 \in DOMAIN t /\ t[j - 1] = q[j]
    BY <1>1, <2>2
  <2>4. j - 1 > IF k = 0 THEN 0 ELSE k - 1
    BY <1>1, <2>1, <2>2
  <2> QED
    BY <2>1, <2>3, <2>4 DEF WillBeMarked
<1>3. WillBeMarked(q, c, i + 1) => WillBeMarked(t, c, i)
  <2>1. i + 1 \in Nat /\ i + 1 # 0 /\ (i + 1) - 1 = i
    OBVIOUS
  <2> QED
    BY <1>2, <2>1
<1>4. WillBeMarked(q, c, 0) =>
        WillBeMarked(t, c, 0) \/ (q[1].type = "CATALOG_DID_UPDATE" /\ q[1].script[1] = c)
  BY <1>2
<1> QED
  BY <1>1, <1>3, <1>4 DEF t

LEMMA SameTypeOf ==
  ASSUME NEW r, RegistryOK(r), NEW r2, RegistryOK(r2), NEW s \in ScriptIds
  PROVE  r2.scripts[s].scriptType = r.scripts[s].scriptType
BY DEF RegistryOK, AsSetUp

LEMMA SameAnalysis ==
  ASSUME NEW r, NEW r2, NEW s, r2.text[s] = r.text[s], r2.version[s[1]] = r.version[s[1]]
  PROVE  Analysis(r2, s) = Analysis(r, s)
BY DEF Analysis

\* What the script will hold is passed by a later action
LEMMA LaterReduced ==
  ASSUME NEW r, RegistryOK(r), NEW r2, NEW q \in Seq(Dispatched), q # <<>>, Owned(r, q),
         NEW b, Steps(r, r2, Head(q), b),
         NEW s \in ScriptIds, LoadsAfterUpdates(q, s),
         NEW x \in Nat, NEW i \in Nat \ {0}, Final(r, q, s, x, i + 1), Current(r, q, s, x, i + 1)
  PROVE  Current(r2, Tail(q), s, x, i)
<1> DEFINE a == Head(q)
           c == s[1]
<1>1. a = q[1] /\ 1 \in DOMAIN q
  BY TailIs
<1>2. i + 1 \in DOMAIN q /\ i + 1 # 1 /\ IsUpdate(q[i + 1], s) /\ x = q[i + 1].value
  BY TailIs DEF Final
<1>3. x \in Alive(r) /\ x # NoBuffers /\ \A u \in ScriptIds : Processed(r, u) # x
  BY <1>2, BuffersOf DEF Owned
<1>4. \A u \in ScriptIds : u[1] = c => ~IsLoaded(a, u)
  <2>1. 1 < i + 1
    OBVIOUS
  <2> QED
    BY <1>1, <1>2, <2>1 DEF LoadsAfterUpdates
<1>5. RegistryOK(r2) /\ r2.text[s] = r.text[s] /\ r2.version[c] = r.version[c]
      /\ r2.buffers[x] = r.buffers[x]
  <2>1. CASE QuietStep(r, r2, a)
    BY <2>1 DEF QuietStep, Quiet
  <2>2. ASSUME Installs(r, r2, a.script, b), a.script \in ScriptIds, x # b
        PROVE  RegistryOK(r2) /\ r2.buffers[x] = r.buffers[x]
    <3>1. x \in Alive(r2)
      BY <1>3, <2>2 DEF Installs
    <3> QED
      BY <2>2, <3>1 DEF Installs
  <2>3. CASE UpdateStep(r, r2, a, b)
    <3>1. /\ x # b /\ Installs(r, r2, a.script, b) /\ a.script \in ScriptIds
          /\ r2.text = r.text /\ r2.version = r.version
      BY <1>3, <2>3 DEF UpdateStep
    <3> QED
      BY <2>2, <3>1
  <2>4. CASE AnalysisStep(r, r2, a, b)
    <3>1. IsUpdate(q[1], a.script) /\ b = q[1].value /\ a.script \in ScriptIds
      BY <1>1, <2>4 DEF AnalysisStep
    <3>2. x # b
      BY <1>1, <1>2, <3>1 DEF Owned
    <3>3. Installs(r, r2, a.script, b) /\ r2.text = r.text /\ r2.version = r.version
      BY <2>4 DEF AnalysisStep
    <3> QED
      BY <2>2, <3>1, <3>2, <3>3
  <2>5. CASE LoadStep(r, r2, a, b)
    <3>1. x # b /\ Installs(r, r2, a.script, b) /\ IsLoaded(a, a.script) /\ a.script \in ScriptIds
      BY <1>3, <2>5 DEF LoadStep
    <3>2. a.script[1] # c
      BY <1>4, <3>1
    <3>3. r2.text[s] = r.text[s]
      BY <3>1, <3>2 DEF Installs
    <3>4. r2.version[c] = r.version[c]
      BY <2>5, <3>2, ScriptIdsAre DEF LoadStep
    <3> QED
      BY <2>2, <3>1, <3>3, <3>4
  <2> QED
    BY <2>1, <2>3, <2>4, <2>5 DEF Steps
<1>6. r2.scripts[s].scriptType = r.scripts[s].scriptType
  BY <1>5, SameTypeOf
<1>7. Analysis(r2, s) = Analysis(r, s)
  BY <1>5, SameAnalysis
<1>8. WillBeMarked(q, c, i + 1) => WillBeMarked(Tail(q), c, i)
  BY MarksReduced
<1>9. i + 1 # 0
  OBVIOUS
<1> QED
  BY <1>3, <1>5, <1>6, <1>7, <1>8, <1>9 DEF Current

\* No later action passes others than those that the step installs
LEMMA InstalledReduced ==
  ASSUME NEW r, RegistryOK(r), NEW r2, NEW q \in Seq(Dispatched), q # <<>>,
         NEW b, Steps(r, r2, Head(q), b), Installs(r, r2, Head(q).script, b),
         NEW s \in ScriptIds, s = Head(q).script,
         IsUpdate(Head(q), s) => Current(r, q, s, b, 1)
  PROVE  Current(r2, Tail(q), s, b, 0)
<1> DEFINE a == Head(q)
<1>1. RegistryOK(r2) /\ b # NoBuffers
  BY DEF Installs, NoBuffers
<1>2. r2.scripts[s].scriptType = r.scripts[s].scriptType
  BY <1>1, SameTypeOf
<1>3. CASE UpdateStep(r, r2, a, b)
  <2>1. r2.buffers[b] = Analysis(r2, s) /\ Analysis(r2, s).text = r2.text[s]
    BY <1>1, <1>3, AnalysisTypes DEF UpdateStep
  <2> QED
    BY <1>1, <2>1 DEF Current
<1>4. CASE LoadStep(r, r2, a, b)
  <2>1. /\ r2.buffers[b].text = r2.text[s]
        /\ r.scripts[s].scriptType # "SCHEMA" => r2.buffers[b] = Analysis(r2, s)
    BY <1>4 DEF LoadStep
  <2> QED
    BY <1>1, <1>2, <2>1 DEF Current
<1>5. CASE AnalysisStep(r, r2, a, b)
  <2>1. /\ IsUpdate(a, s) /\ r2.text = r.text /\ r2.version = r.version
        /\ r2.buffers[b] = r.buffers[b]
    BY <1>5 DEF AnalysisStep
  <2>2. Analysis(r2, s) = Analysis(r, s)
    BY <2>1, SameAnalysis
  <2>3. WillBeMarked(q, s[1], 1) => WillBeMarked(Tail(q), s[1], 0)
    <3>1. 0 \in Nat /\ 0 + 1 = 1
      OBVIOUS
    <3> QED
      BY <3>1, MarksReduced
  <2> QED
    BY <1>1, <1>2, <2>1, <2>2, <2>3 DEF Current
<1>6. ~QuietStep(r, r2, a)
  BY DEF QuietStep, Quiet, Installs
<1> QED
  BY <1>3, <1>4, <1>5, <1>6 DEF Steps

\* The step leaves the buffers of the script, and no action passes others
LEMMA KeptReduced ==
  ASSUME NEW r, RegistryOK(r), NEW r2, NEW q \in Seq(Dispatched), q # <<>>, Owned(r, q),
         NEW b, Steps(r, r2, Head(q), b),
         NEW s \in ScriptIds, QuietStep(r, r2, Head(q)) \/ s # Head(q).script,
         NEW x \in Nat, x = Processed(r, s), Current(r, q, s, x, 0)
  PROVE  Processed(r2, s) = x /\ Current(r2, Tail(q), s, x, 0)
<1> DEFINE a == Head(q)
           c == s[1]
<1>1. CASE QuietStep(r, r2, a)
  <2>1. /\ RegistryOK(r2) /\ Processed(r2, s) = Processed(r, s)
        /\ r2.text = r.text /\ r2.version = r.version /\ r2.buffers = r.buffers
        /\ r.scripts[s].outdatedAnalysis => r2.scripts[s].outdatedAnalysis
        /\ a.type = "CATALOG_DID_UPDATE" /\ a.script[1] = c => r2.scripts[s].outdatedAnalysis
    BY <1>1 DEF QuietStep, Quiet
  <2>2. r2.scripts[s].scriptType = r.scripts[s].scriptType /\ Analysis(r2, s) = Analysis(r, s)
    BY <2>1, SameTypeOf, SameAnalysis
  <2>3. WillBeMarked(q, c, 0) => WillBeMarked(Tail(q), c, 0) \/ (a.type = "CATALOG_DID_UPDATE" /\ a.script[1] = c)
    BY MarksReduced
  <2> QED
    BY <2>1, <2>2, <2>3 DEF Current
<1>2. CASE ~QuietStep(r, r2, a)
  <2>1. /\ Installs(r, r2, a.script, b) /\ a.script \in ScriptIds /\ s # a.script
        /\ a.type # "CATALOG_DID_UPDATE"
    BY <1>2 DEF Steps, UpdateStep, AnalysisStep, LoadStep, IsUpdate, IsLoaded
  <2>2. /\ RegistryOK(r2) /\ Processed(r2, s) = x /\ r2.text[s] = r.text[s]
        /\ r.scripts[s].outdatedAnalysis => r2.scripts[s].outdatedAnalysis
    BY <2>1 DEF Installs
  <2>3. x # NoBuffers => r2.buffers[x] = r.buffers[x]
    <3> HAVE x # NoBuffers
    <3>1. Buffers(r2, x) = Buffers(r, x) /\ x \in Alive(r)
      BY <2>1, <2>2, OtherBuffers, OwnedDistinct DEF Owned
    <3>2. x # b
      BY <2>1 DEF Installs
    <3>3. x # Processed(r, a.script)
      BY <2>1 DEF Owned
    <3>4. x \in Alive(r2)
      BY <2>1, <3>1, <3>3 DEF Installs
    <3> QED
      BY <2>2, <3>1, <3>4, BuffersOf
  <2>4. r2.version[c] = r.version[c] \/ r2.scripts[s].outdatedAnalysis
    <3>1. CASE UpdateStep(r, r2, a, b) \/ AnalysisStep(r, r2, a, b)
      BY <3>1 DEF UpdateStep, AnalysisStep
    <3>2. CASE LoadStep(r, r2, a, b)
      <4>1. CASE c # a.script[1]
        BY <3>2, <4>1, ScriptIdsAre DEF LoadStep
      <4>2. CASE c = a.script[1] /\ r.scripts[a.script].scriptType # "SCHEMA"
        BY <3>2, <4>2 DEF LoadStep
      <4>3. CASE c = a.script[1] /\ r.scripts[a.script].scriptType = "SCHEMA"
        BY <2>1, <3>2, <4>3 DEF LoadStep
      <4> QED
        BY <4>1, <4>2, <4>3
    <3> QED
      BY <1>2, <3>1, <3>2 DEF Steps
  <2>5. r2.scripts[s].scriptType = r.scripts[s].scriptType
    BY <2>2, SameTypeOf
  <2>6. r2.version[c] = r.version[c] => Analysis(r2, s) = Analysis(r, s)
    BY <2>2, SameAnalysis
  <2>7. WillBeMarked(q, c, 0) => WillBeMarked(Tail(q), c, 0)
    BY <2>1, MarksReduced
  <2> QED
    BY <2>2, <2>3, <2>4, <2>5, <2>6, <2>7 DEF Current
<1> QED
  BY <1>1, <1>2

LEMMA FineReduced ==
  ASSUME NEW r, RegistryOK(r), NEW r2, RegistryOK(r2), NEW q \in Seq(Dispatched), q # <<>>, Owned(r, q),
         NEW b, Steps(r, r2, Head(q), b), NEW ty, Fine(r, q, ty)
  PROVE  Fine(r2, Tail(q), ty)
<1> DEFINE t == Tail(q)
           a == Head(q)
<1> SUFFICES ASSUME NEW s \in ScriptIds, ty[s[1]] # "raced"
             PROVE  /\ LoadsAfterUpdates(t, s)
                    /\ \A x \in Nat, i \in 0..Len(t) : Final(r2, t, s, x, i) => Current(r2, t, s, x, i)
  BY DEF Fine
<1>1. /\ LoadsAfterUpdates(q, s)
      /\ \A x \in Nat, i \in 0..Len(q) : Final(r, q, s, x, i) => Current(r, q, s, x, i)
  BY DEF Fine
<1>2. LoadsAfterUpdates(t, s)
  <2> SUFFICES ASSUME NEW i \in DOMAIN t, NEW j \in DOMAIN t, NEW u \in ScriptIds,
                      u[1] = s[1], IsLoaded(t[i], u), i < j
               PROVE  ~IsUpdate(t[j], s)
    BY DEF LoadsAfterUpdates
  <2>1. i + 1 \in DOMAIN q /\ j + 1 \in DOMAIN q /\ t[i] = q[i + 1] /\ t[j] = q[j + 1] /\ i + 1 < j + 1
    BY TailIs
  <2> HIDE DEF t
  <2> QED
    BY <1>1, <2>1 DEF LoadsAfterUpdates
<1>3. ASSUME NEW x \in Nat, NEW i \in 0..Len(t), Final(r2, t, s, x, i)
      PROVE  Current(r2, t, s, x, i)
  <2>1. /\ i \in Nat /\ Len(q) \in Nat /\ Len(t) = Len(q) - 1
        /\ 0 \in 0..Len(q) /\ 1 \in 0..Len(q) /\ i + 1 \in 0..Len(q)
    BY TailIs
  <2> HIDE DEF t
  <2>2. /\ i # 0 => Final(r, q, s, x, i + 1)
        /\ i = 0 /\ IsUpdate(a, s) /\ x = a.value => Final(r, q, s, x, 1)
        /\ i = 0 /\ ~IsUpdate(a, s) /\ x = Processed(r, s) => Final(r, q, s, x, 0)
    BY <1>3, <2>1, FinalReduced DEF t
  <2>3. CASE i # 0
    <3>1. Final(r, q, s, x, i + 1) /\ Current(r, q, s, x, i + 1)
      BY <1>1, <2>1, <2>2, <2>3
    <3>2. i \in Nat \ {0}
      BY <2>1, <2>3
    <3> QED
      BY <1>1, <3>1, <3>2, LaterReduced DEF t
  <2>4. CASE i = 0
    <3>1. x = Processed(r2, s)
      BY <1>3, <2>4 DEF Final
    <3>2. CASE QuietStep(r, r2, a) \/ s # a.script
      <4>1. Processed(r, s) = x
        BY <3>1, <3>2 DEF Steps, QuietStep, UpdateStep, AnalysisStep, LoadStep, Quiet, Installs
      <4>2. ~IsUpdate(a, s)
        BY <3>2 DEF QuietStep, IsUpdate
      <4>3. Current(r, q, s, x, 0)
        BY <1>1, <2>1, <2>2, <2>4, <4>1, <4>2
      <4> QED
        BY <2>4, <3>2, <4>1, <4>3, KeptReduced DEF t
    <3>3. CASE ~QuietStep(r, r2, a) /\ s = a.script
      <4>1. Installs(r, r2, a.script, b) /\ x = b
        BY <3>1, <3>3 DEF Steps, UpdateStep, AnalysisStep, LoadStep, Installs
      <4>2. ASSUME IsUpdate(a, s)
            PROVE  Current(r, q, s, b, 1)
        <5>1. b = a.value
          BY <3>3, <4>2 DEF Steps, UpdateStep, AnalysisStep, LoadStep, IsUpdate, IsLoaded
        <5> QED
          BY <1>1, <2>1, <2>2, <2>4, <4>1, <4>2, <5>1
      <4> QED
        BY <2>4, <3>3, <4>1, <4>2, InstalledReduced DEF t
    <3> QED
      BY <3>2, <3>3
  <2> QED
    BY <2>3, <2>4
<1> QED
  BY <1>2, <1>3

LEMMA LoadsReduced ==
  ASSUME NEW r, NEW r2, NEW q \in Seq(Dispatched), q # <<>>, Leaves(r, r2, Head(q)),
         NEW fl, Loads(r, q, fl)
  PROVE  Loads(r2, Tail(q), fl)
<1> DEFINE t == Tail(q)
           a == Head(q)
<1> SUFFICES ASSUME NEW s \in ScriptIds PROVE LoadsOnce(r2, t, fl, s)
  BY DEF Loads
<1>1. /\ a = q[1] /\ 1 \in DOMAIN q
      /\ \A i \in DOMAIN t : i \in Nat \ {0} /\ i + 1 \in DOMAIN q /\ t[i] = q[i + 1]
      /\ \A i \in DOMAIN q : i \in Nat /\ (i # 1 => i - 1 \in DOMAIN t /\ t[i - 1] = q[i])
  BY TailIs
<1> HIDE DEF t
<1>2. /\ \A i, j \in DOMAIN q : IsAnswer(q[i], s) /\ IsAnswer(q[j], s) => i = j
      /\ \A i, j \in DOMAIN q : IsAnswer(q[i], s) /\ IsStarted(q[j], s) => j < i
      /\ \A i \in DOMAIN q : IsAnswer(q[i], s) => IsLoading(r, s) /\ ~Flying(fl, s)
      /\ \A i \in DOMAIN q : IsStarted(q[i], s) => IsLoading(r, s)
      /\ Flying(fl, s) => IsLoading(r, s)
      /\ r.scripts[s].loading = "PENDING" =>
           /\ s[1] \in {"serverless", "demo"}
           /\ \/ \E i \in DOMAIN q : IsStarted(q[i], s)
              \/ /\ \A f \in DOMAIN fl : fl[f].script # s
                 /\ \A i \in DOMAIN q : ~IsAnswer(q[i], s)
  BY DEF Loads, LoadsOnce
<1>3. r2.scripts[s].loading = LoadingAfter(r, a, s)
  BY DEF Leaves
<1>4. ~IsAnswer(a, s) => (IsLoading(r, s) => IsLoading(r2, s))
  BY <1>3 DEF IsAnswer, IsLoading, LoadingAfter
<1>5. \A i \in DOMAIN t : IsAnswer(t[i], s) => ~IsAnswer(a, s)
  <2> SUFFICES ASSUME NEW i \in DOMAIN t, IsAnswer(t[i], s), IsAnswer(a, s) PROVE FALSE
    OBVIOUS
  <2>1. i + 1 \in DOMAIN q /\ IsAnswer(q[i + 1], s) /\ i + 1 # 1
    BY <1>1
  <2> QED
    BY <1>1, <1>2, <2>1
<1>6. \A i \in DOMAIN t : IsStarted(t[i], s) => ~IsAnswer(a, s)
  <2> SUFFICES ASSUME NEW i \in DOMAIN t, IsStarted(t[i], s), IsAnswer(a, s) PROVE FALSE
    OBVIOUS
  <2>1. i + 1 \in DOMAIN q /\ IsStarted(q[i + 1], s) /\ ~(i + 1 < 1)
    BY <1>1
  <2> QED
    BY <1>1, <1>2, <2>1
<1>7. \A i, j \in DOMAIN t : IsAnswer(t[i], s) /\ IsAnswer(t[j], s) => i = j
  <2> SUFFICES ASSUME NEW i \in DOMAIN t, NEW j \in DOMAIN t, IsAnswer(t[i], s), IsAnswer(t[j], s)
               PROVE  i = j
    OBVIOUS
  <2>1. i + 1 = j + 1
    BY <1>1, <1>2
  <2> QED
    BY <1>1, <2>1
<1>8. \A i, j \in DOMAIN t : IsAnswer(t[i], s) /\ IsStarted(t[j], s) => j < i
  <2> SUFFICES ASSUME NEW i \in DOMAIN t, NEW j \in DOMAIN t, IsAnswer(t[i], s), IsStarted(t[j], s)
               PROVE  j < i
    OBVIOUS
  <2>1. j + 1 < i + 1
    BY <1>1, <1>2
  <2> QED
    BY <1>1, <2>1
<1>9. \A i \in DOMAIN t : IsAnswer(t[i], s) => IsLoading(r2, s) /\ ~Flying(fl, s)
  BY <1>1, <1>2, <1>4, <1>5
<1>10. \A i \in DOMAIN t : IsStarted(t[i], s) => IsLoading(r2, s)
  BY <1>1, <1>2, <1>4, <1>6
<1>11. Flying(fl, s) => IsLoading(r2, s)
  BY <1>1, <1>2, <1>4
<1>12. ASSUME r2.scripts[s].loading = "PENDING"
       PROVE  /\ s[1] \in {"serverless", "demo"}
              /\ \/ \E i \in DOMAIN t : IsStarted(t[i], s)
                 \/ /\ \A f \in DOMAIN fl : fl[f].script # s
                    /\ \A i \in DOMAIN t : ~IsAnswer(t[i], s)
  <2>1. r.scripts[s].loading = "PENDING" /\ ~IsStarted(a, s)
    BY <1>3, <1>12 DEF LoadingAfter, IsStarted
  <2>2. ASSUME NEW i \in DOMAIN q, IsStarted(q[i], s)
        PROVE  \E j \in DOMAIN t : IsStarted(t[j], s)
    <3>1. i # 1
      BY <1>1, <2>1, <2>2
    <3>2. i - 1 \in DOMAIN t /\ t[i - 1] = q[i]
      BY <1>1, <3>1
    <3> QED
      BY <2>2, <3>2
  <2> QED
    BY <1>1, <1>2, <2>1, <2>2
<1> QED
  BY <1>7, <1>8, <1>9, <1>10, <1>11, <1>12 DEF LoadsOnce

\* Loading goes on from before the action
LEMMA LoadingBefore ==
  ASSUME NEW r, NEW r2, NEW q \in Seq(Dispatched), q # <<>>, Leaves(r, r2, Head(q)),
         NEW fl, Loads(r, q, fl), NEW s \in ScriptIds, IsLoading(r2, s)
  PROVE  IsLoading(r, s)
<1>1. Head(q) = q[1] /\ 1 \in DOMAIN q
  BY TailIs
<1>2. r2.scripts[s].loading = LoadingAfter(r, Head(q), s)
  BY DEF Leaves
<1>3. IsStarted(Head(q), s) => IsLoading(r, s)
  BY <1>1 DEF Loads, LoadsOnce
<1> QED
  BY <1>2, <1>3 DEF IsStarted, IsLoading, LoadingAfter

LEMMA UntouchedReduced ==
  ASSUME NEW r, NEW r2, NEW q \in Seq(Dispatched), q # <<>>, Leaves(r, r2, Head(q)),
         NEW fl, Loads(r, q, fl), NEW ty, Untouched(r, q, ty)
  PROVE  Untouched(r2, Tail(q), ty)
<1> DEFINE t == Tail(q)
           a == Head(q)
<1>1. /\ a = q[1] /\ 1 \in DOMAIN q
      /\ \A i \in DOMAIN t : i + 1 \in DOMAIN q /\ t[i] = q[i + 1]
  BY TailIs
<1> HIDE DEF t
<1> SUFFICES ASSUME NEW c \in Connectors, ty[c] = "no",
                    NEW u \in ScriptIds, u[1] = c, IsLoading(r2, u), NEW s \in ScriptIds, s[1] = c
             PROVE  r2.scripts[s].cursor = Null /\ \A i \in DOMAIN t : ~MovesCursor(t[i], s)
  BY DEF Untouched, t
<1>2. IsLoading(r, u)
  BY LoadingBefore
<1>3. r.scripts[s].cursor = Null /\ \A i \in DOMAIN q : ~MovesCursor(q[i], s)
  BY <1>2 DEF Untouched
<1>4. r2.scripts[s].cursor = Null
  BY <1>1, <1>3 DEF Leaves
<1> QED
  BY <1>1, <1>3, <1>4

LEMMA FocusReduced ==
  ASSUME NEW r, NEW r2, NEW q \in Seq(Dispatched), q # <<>>, Leaves(r, r2, Head(q)),
         NEW fl, Loads(r, q, fl), NEW ty, Untouched(r, q, ty), FocusFine(r, ty)
  PROVE  FocusFine(r2, ty)
<1> DEFINE a == Head(q)
<1>1. a = q[1] /\ 1 \in DOMAIN q
  BY TailIs
<1>2. ASSUME NEW c \in Connectors, ty[c] = "no"
      PROVE  FocusFineAt(r2, c)
  <2> DEFINE s == <<c, MainKey>>
  <2>1. s \in ScriptIds /\ s[1] = c
    BY ScriptIdsAre
  <2> HIDE DEF s
  <2>2. IsLoaded(a, s) => r.scripts[s].cursor = Null
    <3> HAVE IsLoaded(a, s)
    <3>1. IsLoading(r, s)
      BY <1>1, <2>1 DEF IsLoaded, IsAnswer, Loads, LoadsOnce
    <3> QED
      BY <1>2, <2>1, <3>1 DEF Untouched
  <2>3. FocusFineAt(r, c)
    BY <1>2 DEF FocusFine, FocusFineAt
  <2> QED
    BY <2>2, <2>3 DEF Leaves, s
<1> QED
  BY <1>2 DEF FocusFine, FocusFineAt

LEMMA ViewReduced ==
  ASSUME NEW r, NEW r2, NEW q \in Seq(Dispatched), q # <<>>, Leaves(r, r2, Head(q)),
         NEW v, NEW a, ViewOK(r, q, v, a)
  PROVE  ViewOK(r2, Tail(q), v, a)
<1> DEFINE t == Tail(q)
           s == v.targetScript
<1>1. /\ Head(q) = q[1] /\ 1 \in DOMAIN q /\ Head(q) \in Dispatched
      /\ \A i \in DOMAIN q : i # 1 => i - 1 \in DOMAIN t /\ t[i - 1] = q[i]
  BY TailIs
<1> HIDE DEF t
<1>2. ASSUME s # NoScript, v.scriptCursor # Null
      PROVE  r2.scripts[s].cursor # Null \/ \E i \in DOMAIN t : MovesCursor(t[i], s)
  <2>1. s \in ScriptIds
    BY <1>2 DEF ViewOK, ViewTypes
  <2> HIDE DEF s
  <2>2. MovesCursor(Head(q), s) => Head(q).cursor # Null
    <3>1. ActionOK(Head(q))
      BY <1>1, ActionFields
    <3> QED
      BY <3>1, CursorFields DEF ActionOK, MovesCursor
  <2>3. CASE MovesCursor(Head(q), s)
    BY <2>1, <2>2, <2>3 DEF Leaves
  <2>4. CASE ~MovesCursor(Head(q), s) /\ r.scripts[s].cursor # Null
    BY <2>1, <2>4 DEF Leaves
  <2>5. CASE \E i \in DOMAIN q : i # 1 /\ MovesCursor(q[i], s)
    BY <1>1, <2>5
  <2> QED
    BY <1>1, <1>2, <2>3, <2>4, <2>5 DEF ViewOK, s
<1> QED
  BY <1>2 DEF ViewOK, t

\* A step that gives a new name gives one that nobody holds
FreshSteps(r, r2, a, b, used) ==
  Steps(r, r2, a, b) /\ (UpdateStep(r, r2, a, b) \/ LoadStep(r, r2, a, b) => b \notin used)

LEMMA MirrorsReduced ==
  ASSUME NEW r, NEW r2, NEW q \in Seq(Dispatched), q # <<>>, NEW b, NEW used,
         FreshSteps(r, r2, Head(q), b, used),
         NEW ty, Fine(r, q, ty), NEW v \in ViewTypes, v.scriptBuffers \in used, Mirrors(r, q, v, ty)
  PROVE  Mirrors(r2, Tail(q), v, ty)
<1> DEFINE t == Tail(q)
           a == Head(q)
           s == v.targetScript
           x == v.scriptBuffers
<1> SUFFICES ASSUME s # NoScript, ty[s[1]] # "raced"
             PROVE  \/ v.doc = r2.text[s]
                    \/ /\ x # Processed(r2, s)
                       /\ \A i \in DOMAIN t : IsUpdate(t[i], s) => t[i].value # x
  BY DEF Mirrors
<1>1. /\ a = q[1] /\ 1 \in DOMAIN q
      /\ \A i \in DOMAIN t : i \in Nat \ {0} /\ i + 1 \in DOMAIN q /\ t[i] = q[i + 1]
  BY TailIs
<1>2. s \in ScriptIds
  BY DEF ViewTypes
<1>3. \/ v.doc = r.text[s]
      \/ /\ x # Processed(r, s)
         /\ \A i \in DOMAIN q : IsUpdate(q[i], s) => q[i].value # x
  BY DEF Mirrors
<1> HIDE DEF t, a, s, x
<1>4. CASE v.doc = r.text[s] /\ ~(LoadStep(r, r2, a, b) /\ a.script = s)
  <2>1. r2.text[s] = r.text[s]
    BY <1>2, <1>4 DEF FreshSteps, Steps, QuietStep, Quiet, UpdateStep, AnalysisStep, LoadStep, Installs, a
  <2> QED
    BY <1>4, <2>1
<1>5. CASE LoadStep(r, r2, a, b) /\ a.script = s
  <2>1. Processed(r2, s) = b /\ IsLoaded(a, s)
    BY <1>2, <1>5 DEF LoadStep, Installs
  <2>2. b # x
    BY <1>5 DEF FreshSteps, a, x
  <2>3. LoadsAfterUpdates(q, s)
    BY <1>2 DEF Fine, s
  <2>4. \A i \in DOMAIN t : ~IsUpdate(t[i], s)
    <3> SUFFICES ASSUME NEW i \in DOMAIN t PROVE ~IsUpdate(t[i], s)
      OBVIOUS
    <3>1. i + 1 \in DOMAIN q /\ t[i] = q[i + 1] /\ 1 < i + 1
      BY <1>1
    <3> QED
      BY <1>1, <1>2, <2>1, <2>3, <3>1 DEF LoadsAfterUpdates
  <2> QED
    BY <2>1, <2>2, <2>4
<1>6. CASE /\ x # Processed(r, s)
           /\ \A i \in DOMAIN q : IsUpdate(q[i], s) => q[i].value # x
  <2>1. \A i \in DOMAIN t : IsUpdate(t[i], s) => t[i].value # x
    BY <1>1, <1>6
  <2>2. CASE Processed(r2, s) = Processed(r, s)
    BY <1>6, <2>1, <2>2
  <2>3. CASE Processed(r2, s) # Processed(r, s)
    <3>1. Processed(r2, s) = b /\ a.script = s /\ ~QuietStep(r, r2, a)
      BY <1>2, <2>3 DEF FreshSteps, Steps, QuietStep, Quiet, UpdateStep, AnalysisStep, LoadStep, Installs, a
    <3>2. CASE AnalysisStep(r, r2, a, b)
      BY <1>1, <1>6, <2>1, <3>1, <3>2 DEF AnalysisStep
    <3>3. CASE UpdateStep(r, r2, a, b) \/ LoadStep(r, r2, a, b)
      <4>1. b # x
        BY <3>3 DEF FreshSteps, a, x
      <4> QED
        BY <2>1, <3>1, <4>1
    <3> QED
      BY <3>1, <3>2, <3>3 DEF FreshSteps, Steps, a
  <2> QED
    BY <2>2, <2>3
<1> QED
  BY <1>3, <1>4, <1>5, <1>6

LEMMA PaintedReduced ==
  ASSUME NEW r, NEW r2, NEW a, NEW b, NEW used, FreshSteps(r, r2, a, b, used),
         NEW v, v.scriptBuffers \in used, Painted(r, v)
  PROVE  Painted(r2, v)
<1> DEFINE x == v.scriptBuffers
<1> SUFFICES ASSUME x \in Alive(r2) PROVE x \in Alive(r) /\ r2.buffers[x] = r.buffers[x]
  BY DEF Painted
<1> HIDE DEF x
<1>1. CASE QuietStep(r, r2, a)
  BY <1>1 DEF QuietStep, Quiet, Alive
<1>2. CASE UpdateStep(r, r2, a, b) \/ LoadStep(r, r2, a, b)
  <2>1. x # b /\ Installs(r, r2, a.script, b)
    BY <1>2 DEF FreshSteps, UpdateStep, LoadStep, x
  <2> QED
    BY <2>1 DEF Installs
<1>3. CASE AnalysisStep(r, r2, a, b)
  BY <1>3 DEF AnalysisStep, Installs
<1> QED
  BY <1>1, <1>2, <1>3 DEF FreshSteps, Steps

-----------------------------------------------------------------------------
(***************************************************************************)
(* An action that was dispatched is reduced, or waits.                     *)
(***************************************************************************)
LEMMA ReduceKeeps ==
  ASSUME NEW r, NEW q, q # <<>>, NEW ty, NEW fl, Books(r, q, ty, fl),
         NEW v, NEW a, Shows(r, q, v, a, ty),
         NEW used, IsFiniteSet(used), \A s \in ScriptIds : Processed(r, s) \in used,
         v.scriptBuffers \in used
  PROVE  LET r2 == reduceWorkbookState(r, Head(q), used)
         IN Books(r2, Tail(q), ty, fl) /\ Shows(r2, Tail(q), v, a, ty)
<1> DEFINE r2 == reduceWorkbookState(r, Head(q), used)
<1>1. RegistryOK(r) /\ q \in Seq(Dispatched) /\ Owned(r, q)
  BY DEF Books
<1>2. Head(q) = q[1] /\ 1 \in DOMAIN q /\ Head(q) \in Dispatched /\ Tail(q) \in Seq(Dispatched)
  BY <1>1, TailIs
<1>3. ASSUME Head(q).type = "UPDATE_SCRIPT_ANALYSIS"
      PROVE  Head(q).value \in Alive(r) /\ \A t \in ScriptIds : Processed(r, t) # Head(q).value
  <2>1. Head(q).script \in ScriptIds /\ IsUpdate(Head(q), Head(q).script)
    BY <1>2, <1>3, ActionFields DEF IsUpdate
  <2> QED
    BY <1>1, <1>2, <2>1 DEF Owned
<1>4. /\ Leaves(r, r2, Head(q))
      /\ \/ QuietStep(r, r2, Head(q))
         \/ \E b \in Nat : b \notin used /\ (UpdateStep(r, r2, Head(q), b) \/ LoadStep(r, r2, Head(q), b))
         \/ AnalysisStep(r, r2, Head(q), Head(q).value)
  <2>1. DistinctBuffers(r)
    BY <1>1, OwnedDistinct
  <2> HIDE DEF r2
  <2> QED
    BY <1>1, <1>2, <1>3, <2>1, Reduces DEF r2
<1> HIDE DEF r2
<1>5. \E b : FreshSteps(r, r2, Head(q), b, used)
  <2>1. CASE QuietStep(r, r2, Head(q))
    <3>1. FreshSteps(r, r2, Head(q), 0, used)
      BY <2>1 DEF FreshSteps, Steps, QuietStep, UpdateStep, LoadStep, Quiet, Installs
    <3> QED
      BY <3>1
  <2>2. CASE \E b \in Nat : b \notin used /\ (UpdateStep(r, r2, Head(q), b) \/ LoadStep(r, r2, Head(q), b))
    BY <2>2 DEF FreshSteps, Steps
  <2>3. CASE AnalysisStep(r, r2, Head(q), Head(q).value)
    <3>1. FreshSteps(r, r2, Head(q), Head(q).value, used)
      BY <2>3 DEF FreshSteps, Steps, AnalysisStep, UpdateStep, LoadStep, IsUpdate, IsLoaded
    <3> QED
      BY <3>1
  <2> QED
    BY <1>4, <2>1, <2>2, <2>3
<1>6. PICK b : FreshSteps(r, r2, Head(q), b, used)
  BY <1>5
<1>7. Steps(r, r2, Head(q), b)
  BY <1>6 DEF FreshSteps
<1>8. RegistryOK(r2)
  BY <1>7 DEF Steps, QuietStep, Quiet, UpdateStep, AnalysisStep, LoadStep, Installs
<1>9. Owned(r2, Tail(q)) /\ Unanalyzed(r2)
  BY <1>1, <1>7, OwnedReduced, UnanalyzedReduced DEF Books
<1>10. Fine(r2, Tail(q), ty)
  BY <1>1, <1>7, <1>8, FineReduced DEF Books
<1>11. Loads(r2, Tail(q), fl) /\ Untouched(r2, Tail(q), ty) /\ FocusFine(r2, ty)
  BY <1>1, <1>4, LoadsReduced, UntouchedReduced, FocusReduced DEF Books
<1>12. ViewOK(r2, Tail(q), v, a)
  BY <1>1, <1>4, ViewReduced DEF Shows
<1>13. Painted(r2, v)
  BY <1>6, PaintedReduced DEF Shows
<1>14. ~MultiRange => Mirrors(r2, Tail(q), v, ty)
  <2>1. v \in ViewTypes
    BY DEF Shows, ViewOK
  <2> QED
    BY <1>1, <1>6, <2>1, MirrorsReduced DEF Shows, Books
<1> QED
  BY <1>2, <1>8, <1>9, <1>10, <1>11, <1>12, <1>13, <1>14 DEF Books, Shows, r2

\* r is the registry as the caller left it, and the actions wait behind those before
LEMMA DispatchKeeps ==
  ASSUME NEW r, NEW actions \in Seq(Dispatched), queue \in Seq(Dispatched),
         NEW idle, NEW used, Dispatch(r, idle, actions, used),
         NEW ty, NEW fl, Books(r, queue \o actions, ty, fl),
         NEW v, NEW a, Shows(r, queue \o actions, v, a, ty),
         IsFiniteSet(used), \A s \in ScriptIds : Processed(r, s) \in used,
         v.scriptBuffers \in used
  PROVE  Books(reg', queue', ty, fl) /\ Shows(reg', queue', v, a, ty)
<1>1. CASE reg' = r /\ queue' = queue \o actions
  BY <1>1
<1>2. CASE /\ queue = <<>> /\ actions # <<>>
           /\ reg' = reduceWorkbookState(r, Head(actions), used)
           /\ queue' = Tail(actions)
  <2>1. queue \o actions = actions
    BY <1>2, ConcatEmptySeq
  <2> QED
    BY <1>2, <2>1, ReduceKeeps
<1> QED
  BY <1>1, <1>2 DEF Dispatch

LEMMA HeldNames ==
  ASSUME NEW r, RegistryOK(r), NEW q \in Seq(Dispatched)
  PROVE  IsFiniteSet(Held(r, q)) /\ \A s \in ScriptIds : Processed(r, s) \in Held(r, q)
<1> DEFINE A == {r.scripts[s].processed : s \in ScriptIds}
           I == {j \in DOMAIN q : q[j].type = "UPDATE_SCRIPT_ANALYSIS"}
           B == {q[i].value : i \in I}
           f == [s \in ScriptIds |-> r.scripts[s].processed]
           g == [i \in I |-> q[i].value]
<1>1. IsFiniteSet(A)
  <2>1. f \in Surjection(ScriptIds, A)
    BY DEF Surjection
  <2> QED
    BY <2>1, ScriptIdsFinite, FS_Surjection
<1>2. IsFiniteSet(B)
  <2>1. DOMAIN q = 1..Len(q) /\ Len(q) \in Nat
    OBVIOUS
  <2>2. IsFiniteSet(1..Len(q))
    <3>1. 1 \in Int /\ Len(q) \in Int
      BY <2>1
    <3> QED
      BY <3>1, FS_Interval
  <2>3. IsFiniteSet(I)
    BY <2>1, <2>2, FS_Subset
  <2>4. g \in Surjection(I, B)
    BY DEF Surjection
  <2> QED
    BY <2>3, <2>4, FS_Surjection
<1>3. Held(r, q) = A \cup B
  BY DEF Held
<1>4. IsFiniteSet(A \cup B)
  BY <1>1, <1>2, FS_Union
<1> QED
  BY <1>3, <1>4 DEF Processed

-----------------------------------------------------------------------------
(***************************************************************************)
(* Actions that are dispatched.                                            *)
(***************************************************************************)
LEMMA ConcatIs ==
  ASSUME NEW q \in Seq(Dispatched), NEW x \in Seq(Dispatched)
  PROVE  /\ q \o x \in Seq(Dispatched) /\ Len(q) \in Nat /\ Len(x) \in Nat
         /\ Len(q \o x) = Len(q) + Len(x)
         /\ DOMAIN q = 1..Len(q) /\ DOMAIN (q \o x) = 1..(Len(q) + Len(x)) /\ DOMAIN x = 1..Len(x)
         /\ \A i \in DOMAIN q : i \in DOMAIN (q \o x) /\ (q \o x)[i] = q[i]
         /\ \A i \in DOMAIN (q \o x) : i \notin DOMAIN q =>
              i \in Nat /\ i > Len(q) /\ i - Len(q) \in DOMAIN x /\ (q \o x)[i] = x[i - Len(q)]
         /\ \A i \in DOMAIN x : i + Len(q) \in DOMAIN (q \o x) /\ (q \o x)[i + Len(q)] = x[i]
<1>1. /\ q \o x \in Seq(Dispatched) /\ Len(q \o x) = Len(q) + Len(x)
      /\ \A i \in 1..(Len(q) + Len(x)) : (q \o x)[i] = IF i <= Len(q) THEN q[i] ELSE x[i - Len(q)]
  BY ConcatProperties
<1>2. /\ Len(q) \in Nat /\ Len(x) \in Nat /\ DOMAIN q = 1..Len(q) /\ DOMAIN x = 1..Len(x)
      /\ DOMAIN (q \o x) = 1..(Len(q) + Len(x))
  BY <1>1
<1> DEFINE y == q \o x
<1> HIDE DEF y
<1>3. \A i \in DOMAIN q : i \in DOMAIN y /\ y[i] = q[i]
  BY <1>1, <1>2 DEF y
<1>4. \A i \in DOMAIN y : i \notin DOMAIN q =>
        i \in Nat /\ i > Len(q) /\ i - Len(q) \in DOMAIN x /\ y[i] = x[i - Len(q)]
  BY <1>1, <1>2 DEF y
<1>5. \A i \in DOMAIN x : i + Len(q) \in DOMAIN y /\ y[i + Len(q)] = x[i]
  <2> SUFFICES ASSUME NEW i \in DOMAIN x PROVE i + Len(q) \in DOMAIN y /\ y[i + Len(q)] = x[i]
    OBVIOUS
  <2>1. i + Len(q) \in 1..(Len(q) + Len(x)) /\ ~(i + Len(q) <= Len(q)) /\ (i + Len(q)) - Len(q) = i
    BY <1>2
  <2> QED
    BY <1>1, <1>2, <2>1 DEF y
<1> QED
  BY <1>1, <1>2, <1>3, <1>4, <1>5 DEF y

LEMMA OneMore ==
  ASSUME NEW q \in Seq(Dispatched), NEW x \in Dispatched
  PROVE  /\ q \o <<x>> \in Seq(Dispatched) /\ Len(q) \in Nat
         /\ DOMAIN q = 1..Len(q) /\ DOMAIN (q \o <<x>>) = 1..(Len(q) + 1) /\ Len(q \o <<x>>) = Len(q) + 1
         /\ \A i \in DOMAIN q : i \in DOMAIN (q \o <<x>>) /\ (q \o <<x>>)[i] = q[i]
         /\ \A i \in DOMAIN (q \o <<x>>) : i \in Nat /\ (i \in DOMAIN q \/ i = Len(q) + 1)
         /\ (q \o <<x>>)[Len(q) + 1] = x /\ Len(q) + 1 \notin DOMAIN q
<1>1. <<x>> \in Seq(Dispatched) /\ Len(<<x>>) = 1 /\ DOMAIN <<x>> = 1..1 /\ <<x>>[1] = x
  OBVIOUS
<1> DEFINE one == <<x>>
           y == q \o one
<1> HIDE DEF one
<1>2. /\ y \in Seq(Dispatched) /\ Len(q) \in Nat /\ Len(y) = Len(q) + 1
      /\ DOMAIN q = 1..Len(q) /\ DOMAIN y = 1..(Len(q) + 1)
      /\ \A i \in DOMAIN q : i \in DOMAIN y /\ y[i] = q[i]
      /\ 1 + Len(q) \in DOMAIN y /\ y[1 + Len(q)] = x
  <2>1. 1 \in DOMAIN one /\ one \in Seq(Dispatched) /\ Len(one) = 1 /\ one[1] = x
    BY <1>1 DEF one
  <2>2. /\ y \in Seq(Dispatched) /\ Len(q) \in Nat /\ Len(y) = Len(q) + Len(one)
        /\ DOMAIN q = 1..Len(q) /\ DOMAIN y = 1..(Len(q) + Len(one))
    BY <2>1, ConcatIs
  <2>3. \A i \in DOMAIN q : i \in DOMAIN y /\ y[i] = q[i]
    BY <2>1, ConcatIs
  <2>4. 1 + Len(q) \in DOMAIN y /\ y[1 + Len(q)] = one[1]
    BY <2>1, ConcatIs
  <2> HIDE DEF y
  <2> QED
    BY <2>1, <2>2, <2>3, <2>4
<1>3. 1 + Len(q) = Len(q) + 1
  BY <1>2
<1> HIDE DEF y
<1>4. \A i \in DOMAIN y : i \in Nat /\ (i \in DOMAIN q \/ i = Len(q) + 1)
  BY <1>2
<1> QED
  BY <1>2, <1>3, <1>4 DEF y, one

NoUpdates(x) == \A i \in DOMAIN x : x[i].type # "UPDATE_SCRIPT_ANALYSIS"
NoMoves(x) == \A i \in DOMAIN x : x[i].type \notin {"UPDATE_SCRIPT_ANALYSIS", "UPDATE_SCRIPT_CURSOR"}
NoLoads(x) ==
  \A i \in DOMAIN x : x[i].type \notin {"SCRIPT_LOADING_STARTED", "SCRIPT_LOADING_FAILED",
                                        "SCRIPT_LOADING_SUCCEEDED"}

\* The updates in a queue are those from before
LEMMA UpdatesAppended ==
  ASSUME NEW q \in Seq(Dispatched), NEW x \in Seq(Dispatched), NoUpdates(x)
  PROVE  \A i \in DOMAIN (q \o x) : \A s : IsUpdate((q \o x)[i], s) => i \in DOMAIN q /\ (q \o x)[i] = q[i]
<1> DEFINE y == q \o x
<1>1. /\ \A i \in DOMAIN q : i \in DOMAIN y /\ y[i] = q[i]
      /\ \A i \in DOMAIN y : i \notin DOMAIN q => i - Len(q) \in DOMAIN x /\ y[i] = x[i - Len(q)]
  BY ConcatIs
<1> HIDE DEF y
<1> QED
  BY <1>1 DEF NoUpdates, IsUpdate, y

LEMMA OwnedAppended ==
  ASSUME NEW r, NEW q \in Seq(Dispatched), NEW x \in Seq(Dispatched), NoUpdates(x), Owned(r, q)
  PROVE  Owned(r, q \o x)
<1> DEFINE y == q \o x
<1>1. /\ \A i \in DOMAIN q : i \in DOMAIN y /\ y[i] = q[i]
      /\ \A i \in DOMAIN y : \A s : IsUpdate(y[i], s) => i \in DOMAIN q /\ y[i] = q[i]
  BY ConcatIs, UpdatesAppended
<1> HIDE DEF y
<1>2. ASSUME NEW b \in Alive(r)
      PROVE  \/ \E s \in ScriptIds : Processed(r, s) = b
             \/ \E i \in DOMAIN y, s \in ScriptIds : IsUpdate(y[i], s) /\ y[i].value = b
  <2>1. CASE \E i \in DOMAIN q, s \in ScriptIds : IsUpdate(q[i], s) /\ q[i].value = b
    <3>1. PICK i \in DOMAIN q, s \in ScriptIds : IsUpdate(q[i], s) /\ q[i].value = b
      BY <2>1
    <3>2. i \in DOMAIN y /\ IsUpdate(y[i], s) /\ y[i].value = b
      BY <1>1, <3>1
    <3> QED
      BY <3>2
  <2> QED
    BY <1>2, <2>1 DEF Owned
<1>3. \A i \in DOMAIN y, s \in ScriptIds : IsUpdate(y[i], s) =>
        y[i].value \in Alive(r) /\ \A t \in ScriptIds : Processed(r, t) # y[i].value
  BY <1>1 DEF Owned
<1>4. \A i, j \in DOMAIN y, s, t \in ScriptIds :
        IsUpdate(y[i], s) /\ IsUpdate(y[j], t) /\ i # j => y[i].value # y[j].value
  <2> SUFFICES ASSUME NEW i \in DOMAIN y, NEW j \in DOMAIN y, NEW s \in ScriptIds, NEW t \in ScriptIds,
                      IsUpdate(y[i], s), IsUpdate(y[j], t), i # j
               PROVE  y[i].value # y[j].value
    OBVIOUS
  <2>1. /\ i \in DOMAIN q /\ j \in DOMAIN q /\ IsUpdate(q[i], s) /\ IsUpdate(q[j], t)
        /\ y[i] = q[i] /\ y[j] = q[j]
    BY <1>1
  <2> QED
    BY <2>1 DEF Owned
<1> QED
  BY <1>2, <1>3, <1>4 DEF Owned, y

LEMMA FineAppended ==
  ASSUME NEW r, NEW q \in Seq(Dispatched), NEW x \in Seq(Dispatched), NoUpdates(x),
         NEW ty, Fine(r, q, ty)
  PROVE  Fine(r, q \o x, ty)
<1> DEFINE y == q \o x
<1>1. /\ Len(q) \in Nat /\ Len(x) \in Nat /\ Len(y) = Len(q) + Len(x) /\ DOMAIN q = 1..Len(q)
      /\ \A i \in DOMAIN q : i \in DOMAIN y /\ y[i] = q[i]
      /\ \A i \in DOMAIN y : \A s : IsUpdate(y[i], s) => i \in DOMAIN q /\ y[i] = q[i]
      /\ \A i \in DOMAIN y : i \in Nat /\ (i \notin DOMAIN q => i > Len(q))
      /\ DOMAIN y = 1..(Len(q) + Len(x))
  <2>1. /\ Len(q) \in Nat /\ Len(x) \in Nat /\ Len(y) = Len(q) + Len(x) /\ DOMAIN q = 1..Len(q)
        /\ DOMAIN y = 1..(Len(q) + Len(x))
    BY ConcatIs
  <2>2. \A i \in DOMAIN q : i \in DOMAIN y /\ y[i] = q[i]
    BY ConcatIs
  <2>3. \A i \in DOMAIN y : \A s : IsUpdate(y[i], s) => i \in DOMAIN q /\ y[i] = q[i]
    BY UpdatesAppended
  <2> HIDE DEF y
  <2>4. \A i \in DOMAIN y : i \in Nat /\ (i \notin DOMAIN q => i > Len(q))
    BY <2>1
  <2> QED
    BY <2>1, <2>2, <2>3, <2>4
<1> HIDE DEF y
<1> SUFFICES ASSUME NEW s \in ScriptIds, ty[s[1]] # "raced"
             PROVE  /\ LoadsAfterUpdates(y, s)
                    /\ \A b \in Nat, i \in 0..Len(y) : Final(r, y, s, b, i) => Current(r, y, s, b, i)
  BY DEF Fine, y
<1>2. /\ LoadsAfterUpdates(q, s)
      /\ \A b \in Nat, i \in 0..Len(q) : Final(r, q, s, b, i) => Current(r, q, s, b, i)
  BY DEF Fine
<1>3. LoadsAfterUpdates(y, s)
  <2> SUFFICES ASSUME NEW i \in DOMAIN y, NEW j \in DOMAIN y, NEW t \in ScriptIds,
                      t[1] = s[1], IsLoaded(y[i], t), i < j, IsUpdate(y[j], s)
               PROVE  FALSE
    BY DEF LoadsAfterUpdates
  <2>1. j \in DOMAIN q /\ IsUpdate(q[j], s)
    BY <1>1
  <2>2. i \in DOMAIN q /\ y[i] = q[i]
    BY <1>1, <2>1
  <2> QED
    BY <1>2, <2>1, <2>2 DEF LoadsAfterUpdates
<1>4. ASSUME NEW b \in Nat, NEW i \in 0..Len(y), Final(r, y, s, b, i)
      PROVE  Current(r, y, s, b, i)
  <2>1. /\ \A j \in DOMAIN y : IsUpdate(y[j], s) => j <= i
        /\ IF i = 0 THEN b = Processed(r, s) ELSE IsUpdate(y[i], s) /\ b = y[i].value
    BY <1>4 DEF Final
  <2>2. i \in 0..Len(q) /\ (i # 0 => y[i] = q[i])
    <3>1. CASE i = 0
      BY <1>1, <3>1
    <3>2. CASE i # 0
      <4>1. i \in DOMAIN y /\ IsUpdate(y[i], s)
        BY <1>1, <2>1, <3>2
      <4> QED
        BY <1>1, <4>1
    <3> QED
      BY <3>1, <3>2
  <2>3. \A j \in DOMAIN q : IsUpdate(q[j], s) => j <= i
    BY <1>1, <2>1
  <2>4. Final(r, q, s, b, i)
    BY <2>1, <2>2, <2>3 DEF Final
  <2>5. Current(r, q, s, b, i)
    BY <1>2, <2>2, <2>4
  <2>6. WillBeMarked(q, s[1], i) => WillBeMarked(y, s[1], i)
    BY <1>1 DEF WillBeMarked
  <2> QED
    BY <2>5, <2>6 DEF Current
<1> QED
  BY <1>3, <1>4

LEMMA UntouchedAppended ==
  ASSUME NEW r, NEW q \in Seq(Dispatched), NEW x \in Seq(Dispatched), NoMoves(x),
         NEW ty, Untouched(r, q, ty)
  PROVE  Untouched(r, q \o x, ty)
<1> DEFINE y == q \o x
<1>1. \A i \in DOMAIN y : i \notin DOMAIN q => i - Len(q) \in DOMAIN x /\ y[i] = x[i - Len(q)]
  BY ConcatIs
<1>2. \A i \in DOMAIN q : y[i] = q[i]
  BY ConcatIs
<1> HIDE DEF y
<1>3. \A i \in DOMAIN y : \A s : MovesCursor(y[i], s) => i \in DOMAIN q /\ MovesCursor(q[i], s)
  BY <1>1, <1>2 DEF NoMoves, MovesCursor
<1> QED
  BY <1>3 DEF Untouched, y

LEMMA LoadsAppended ==
  ASSUME NEW r, NEW q \in Seq(Dispatched), NEW x \in Seq(Dispatched), NoLoads(x),
         NEW fl, Loads(r, q, fl)
  PROVE  Loads(r, q \o x, fl)
<1> DEFINE y == q \o x
<1>1. \A i \in DOMAIN y : i \notin DOMAIN q => i - Len(q) \in DOMAIN x /\ y[i] = x[i - Len(q)]
  BY ConcatIs
<1>2. \A i \in DOMAIN q : i \in DOMAIN y /\ y[i] = q[i]
  BY ConcatIs
<1> HIDE DEF y
<1>3. \A i \in DOMAIN y : \A s : IsAnswer(y[i], s) => i \in DOMAIN q /\ IsAnswer(q[i], s)
  BY <1>1, <1>2 DEF NoLoads, IsAnswer
<1>4. \A i \in DOMAIN y : \A s : IsStarted(y[i], s) => i \in DOMAIN q /\ IsStarted(q[i], s)
  BY <1>1, <1>2 DEF NoLoads, IsStarted
<1>5. ASSUME NEW s \in ScriptIds
      PROVE  LoadsOnce(r, y, fl, s)
  <2>1. LoadsOnce(r, q, fl, s)
    BY DEF Loads
  <2>2. (\E i \in DOMAIN q : IsStarted(q[i], s)) => \E i \in DOMAIN y : IsStarted(y[i], s)
    BY <1>2
  <2> QED
    BY <1>3, <1>4, <2>1, <2>2 DEF LoadsOnce
<1> QED
  BY <1>5 DEF Loads, y

LEMMA ViewAppended ==
  ASSUME NEW r, NEW q \in Seq(Dispatched), NEW x \in Seq(Dispatched),
         NEW v, NEW a, ViewOK(r, q, v, a)
  PROVE  ViewOK(r, q \o x, v, a)
<1> DEFINE y == q \o x
<1>1. \A i \in DOMAIN q : i \in DOMAIN y /\ y[i] = q[i]
  BY ConcatIs
<1> HIDE DEF y
<1>2. ASSUME NEW s, \E i \in DOMAIN q : MovesCursor(q[i], s)
      PROVE  \E i \in DOMAIN y : MovesCursor(y[i], s)
  BY <1>1, <1>2
<1> QED
  BY <1>2 DEF ViewOK, y

LEMMA MirrorsAppended ==
  ASSUME NEW r, NEW q \in Seq(Dispatched), NEW x \in Seq(Dispatched), NoUpdates(x),
         NEW v, NEW ty, Mirrors(r, q, v, ty)
  PROVE  Mirrors(r, q \o x, v, ty)
<1> DEFINE y == q \o x
<1>1. \A i \in DOMAIN y : \A s : IsUpdate(y[i], s) => i \in DOMAIN q /\ y[i] = q[i]
  BY UpdatesAppended
<1> HIDE DEF y
<1> QED
  BY <1>1 DEF Mirrors, y

LEMMA MovesAndUpdates ==
  ASSUME NEW x, NoMoves(x)
  PROVE  NoUpdates(x)
BY DEF NoMoves, NoUpdates

\* An action that neither moves a cursor nor is about a load waits
LEMMA Waits ==
  ASSUME NEW r, NEW q, NEW ty, NEW fl, Books(r, q, ty, fl),
         NEW v, NEW a, Shows(r, q, v, a, ty),
         NEW x \in Seq(Dispatched), NoMoves(x), NoLoads(x)
  PROVE  Books(r, q \o x, ty, fl) /\ Shows(r, q \o x, v, a, ty)
<1>1. q \in Seq(Dispatched) /\ NoUpdates(x)
  BY MovesAndUpdates DEF Books
<1>2. q \o x \in Seq(Dispatched)
  BY <1>1, ConcatIs
<1>3. Owned(r, q \o x) /\ Fine(r, q \o x, ty)
  BY <1>1, OwnedAppended, FineAppended DEF Books
<1>4. Untouched(r, q \o x, ty) /\ Loads(r, q \o x, fl)
  BY <1>1, UntouchedAppended, LoadsAppended DEF Books
<1>5. ViewOK(r, q \o x, v, a) /\ (~MultiRange => Mirrors(r, q \o x, v, ty))
  BY <1>1, ViewAppended, MirrorsAppended DEF Shows
<1> QED
  BY <1>2, <1>3, <1>4, <1>5 DEF Books, Shows

\* The history remembers what was done
Remembers(ty, ty2) ==
  \A c \in Connectors : (ty2[c] # "raced" => ty[c] # "raced") /\ (ty2[c] = "no" => ty[c] = "no")

LEMMA Remembered ==
  ASSUME NEW r, RegistryOK(r), NEW q, NEW ty, NEW ty2, Remembers(ty, ty2), NEW fl, Books(r, q, ty, fl),
         NEW v, NEW a, Shows(r, q, v, a, ty)
  PROVE  Books(r, q, ty2, fl) /\ Shows(r, q, v, a, ty2)
<1>1. Fine(r, q, ty2)
  BY ScriptIdsAre DEF Books, Fine, Remembers
<1>2. FocusFine(r, ty2)
  BY DEF Books, FocusFine, Remembers
<1>3. Untouched(r, q, ty2)
  BY DEF Books, Untouched, Remembers
<1>4. v.targetScript # NoScript => v.targetScript \in ScriptIds /\ v.targetScript[1] \in Connectors
  BY ScriptIdsAre DEF Shows, ViewOK, ViewTypes
<1>5. ~MultiRange => Mirrors(r, q, v, ty2)
  BY <1>4 DEF Shows, Mirrors, Remembers
<1> QED
  BY <1>1, <1>2, <1>3, <1>5 DEF Books, Shows

-----------------------------------------------------------------------------
(***************************************************************************)
(* The user moves the cursor or types.                                     *)
(***************************************************************************)
NoLoading(r, c) == \A u \in ScriptIds : u[1] = c => ~IsLoading(r, u)

\* Whoever touches a workbook that is being loaded is remembered
LEMMA UntouchedMoved ==
  ASSUME NEW r, NEW q \in Seq(Dispatched), NEW x \in Dispatched, x.script \in ScriptIds,
         NEW ty, ty[x.script[1]] = "no" => NoLoading(r, x.script[1]), Untouched(r, q, ty)
  PROVE  Untouched(r, q \o <<x>>, ty)
<1> DEFINE y == q \o <<x>>
<1>1. \A i \in DOMAIN y : i \in DOMAIN q \/ i = Len(q) + 1
  BY OneMore
<1>2. y[Len(q) + 1] = x /\ \A i \in DOMAIN q : y[i] = q[i]
  BY OneMore
<1> HIDE DEF y
<1> SUFFICES ASSUME NEW c \in Connectors, ty[c] = "no",
                    NEW u \in ScriptIds, u[1] = c, IsLoading(r, u), NEW s \in ScriptIds, s[1] = c
             PROVE  r.scripts[s].cursor = Null /\ \A i \in DOMAIN y : ~MovesCursor(y[i], s)
  BY DEF Untouched, y
<1>3. r.scripts[s].cursor = Null /\ \A i \in DOMAIN q : ~MovesCursor(q[i], s)
  BY DEF Untouched
<1>4. x.script # s
  BY DEF NoLoading
<1>5. ~MovesCursor(x, s)
  BY <1>4 DEF MovesCursor
<1> QED
  BY <1>1, <1>2, <1>3, <1>5

LEMMA CursorWaits ==
  ASSUME NEW r, NEW q, NEW ty, NEW fl, Books(r, q, ty, fl),
         NEW x \in Dispatched, x.type = "UPDATE_SCRIPT_CURSOR",
         ty[x.script[1]] = "no" => NoLoading(r, x.script[1])
  PROVE  Books(r, q \o <<x>>, ty, fl)
<1>1. <<x>> \in Seq(Dispatched) /\ NoUpdates(<<x>>) /\ NoLoads(<<x>>)
  BY DEF NoUpdates, NoLoads
<1>2. q \in Seq(Dispatched) /\ x.script \in ScriptIds
  BY ActionFields DEF Books
<1> HIDE DEF Dispatched
<1>3. q \o <<x>> \in Seq(Dispatched)
  BY <1>1, <1>2, ConcatIs
<1>4. Owned(r, q \o <<x>>) /\ Fine(r, q \o <<x>>, ty)
  BY <1>1, <1>2, OwnedAppended, FineAppended DEF Books
<1>5. Loads(r, q \o <<x>>, fl)
  BY <1>1, <1>2, LoadsAppended DEF Books
<1>6. Untouched(r, q \o <<x>>, ty)
  BY <1>2, UntouchedMoved DEF Books
<1> QED
  BY <1>3, <1>4, <1>5, <1>6 DEF Books

\* The text of a script is another one, and b is its analysis that nobody holds yet
Types(r, r2, s, b) ==
  /\ RegistryOK(r2) /\ r2.scripts = r.scripts /\ r2.userFocus = r.userFocus /\ r2.version = r.version
  /\ \A t \in ScriptIds : t # s => r2.text[t] = r.text[t]
  /\ b \in Nat \ {0} /\ b \notin Alive(r) /\ Alive(r2) = Alive(r) \cup {b}
  /\ r2.buffers[b] = Analysis(r2, s)
  /\ \A x \in Alive(r) : r2.buffers[x] = r.buffers[x]

LEMMA TypesText ==
  ASSUME NEW r, RegistryOK(r), NEW s \in ScriptIds, NEW text \in Texts,
         NEW b \in Nat \ {0}, b \notin Alive(r)
  PROVE  /\ Types(r, parseAndAnalyzeScript(SetText(r, s, text), s, b), s, b)
         /\ parseAndAnalyzeScript(SetText(r, s, text), s, b).text[s] = text
<1> DEFINE r1 == SetText(r, s, text)
           r2 == parseAndAnalyzeScript(r1, s, b)
<1>1. /\ RegistryOK(r1) /\ SameBuffers(r, r1) /\ r1.scripts = r.scripts
      /\ r1.userFocus = r.userFocus /\ r1.version = r.version
      /\ r1.text[s] = text
      /\ \A t \in ScriptIds : t # s => r1.text[t] = r.text[t]
  BY TextSet
<1> HIDE DEF r1
<1>2. /\ OtherFields(r1, r2) /\ r2.scripts = r1.scripts
      /\ Alive(r2) = Alive(r1) \cup {b}
      /\ r2.buffers[b] = Analysis(r1, s)
      /\ \A x \in Alive(r1) : x # b => r2.buffers[x] = r1.buffers[x]
  BY <1>1, Analyzed DEF SameBuffers, Alive
<1> HIDE DEF r2
<1>3. Analysis(r1, s) = Analysis(r2, s)
  BY <1>2, SameAnalysis DEF OtherFields
<1> QED
  BY <1>1, <1>2, <1>3 DEF Types, OtherFields, SameBuffers, Alive, r1, r2

\* The buffers that somebody holds stay
LEMMA TypesHeld ==
  ASSUME NEW r, RegistryOK(r), NEW r2, NEW s, NEW b, Types(r, r2, s, b)
  PROVE  \A p : p \in Alive(r) \cup {NoBuffers} => Buffers(r2, p) = Buffers(r, p)
<1>1. RegistryOK(r2) /\ NoBuffers \notin Alive(r) /\ NoBuffers \notin Alive(r2)
  BY BuffersOf DEF Types
<1> QED
  BY <1>1 DEF Types, Buffers, Alive

LEMMA OwnedTyped ==
  ASSUME NEW r, RegistryOK(r), NEW r2, NEW s \in ScriptIds, NEW b, Types(r, r2, s, b),
         NEW q \in Seq(Dispatched), Owned(r, q),
         NEW x \in Dispatched, IsUpdate(x, s), x.value = b
  PROVE  Owned(r2, q \o <<x>>)
<1> DEFINE y == q \o <<x>>
           n == Len(q) + 1
<1>1. /\ \A i \in DOMAIN y : i \in DOMAIN q \/ i = n
      /\ n \in DOMAIN y /\ n \notin DOMAIN q
  BY OneMore
<1>2. y[n] = x /\ \A i \in DOMAIN q : i \in DOMAIN y /\ y[i] = q[i]
  BY OneMore
<1> HIDE DEF y, n
<1>3. /\ Alive(r2) = Alive(r) \cup {b} /\ b \notin Alive(r) /\ b # NoBuffers
      /\ \A t \in ScriptIds : Processed(r2, t) = Processed(r, t)
  BY DEF Types, Processed, NoBuffers
<1>4. \A t \in ScriptIds : Processed(r, t) \in Alive(r) \cup {NoBuffers}
  BY DEF Owned
<1>5. \A i \in DOMAIN q, t \in ScriptIds : IsUpdate(q[i], t) =>
        q[i].value \in Alive(r) /\ \A u \in ScriptIds : Processed(r, u) # q[i].value
  BY DEF Owned
<1>6. ASSUME NEW z \in Alive(r2)
      PROVE  \/ \E t \in ScriptIds : Processed(r2, t) = z
             \/ \E i \in DOMAIN y, t \in ScriptIds : IsUpdate(y[i], t) /\ y[i].value = z
  <2>1. CASE z = b
    BY <1>1, <1>2, <2>1
  <2>2. CASE \E i \in DOMAIN q, t \in ScriptIds : IsUpdate(q[i], t) /\ q[i].value = z
    <3>1. PICK i \in DOMAIN q, t \in ScriptIds : IsUpdate(q[i], t) /\ q[i].value = z
      BY <2>2
    <3>2. i \in DOMAIN y /\ IsUpdate(y[i], t) /\ y[i].value = z
      BY <1>2, <3>1
    <3> QED
      BY <3>2
  <2> QED
    BY <1>3, <2>1, <2>2 DEF Owned
<1>7. \A i \in DOMAIN y, t \in ScriptIds : IsUpdate(y[i], t) =>
        y[i].value \in Alive(r2) /\ \A u \in ScriptIds : Processed(r2, u) # y[i].value
  <2> TAKE i \in DOMAIN y, t \in ScriptIds
  <2> HAVE IsUpdate(y[i], t)
  <2>1. CASE i = n
    BY <1>2, <1>3, <1>4, <2>1
  <2>2. CASE i \in DOMAIN q
    BY <1>2, <1>3, <1>5, <2>2
  <2> QED
    BY <1>1, <2>1, <2>2
<1>8. \A i, j \in DOMAIN y, t, u \in ScriptIds :
        IsUpdate(y[i], t) /\ IsUpdate(y[j], u) /\ i # j => y[i].value # y[j].value
  <2> SUFFICES ASSUME NEW i \in DOMAIN y, NEW j \in DOMAIN y, NEW t \in ScriptIds, NEW u \in ScriptIds,
                      IsUpdate(y[i], t), IsUpdate(y[j], u), i # j
               PROVE  y[i].value # y[j].value
    OBVIOUS
  <2>1. CASE i \in DOMAIN q /\ j \in DOMAIN q
    BY <1>2, <2>1 DEF Owned
  <2>2. CASE i = n /\ j \in DOMAIN q
    <3>1. y[j] = q[j] /\ y[j].value \in Alive(r) /\ y[i].value = b
      BY <1>2, <1>5, <2>2
    <3> QED
      BY <1>3, <3>1
  <2>3. CASE i \in DOMAIN q /\ j = n
    <3>1. y[i] = q[i] /\ y[i].value \in Alive(r) /\ y[j].value = b
      BY <1>2, <1>5, <2>3
    <3> QED
      BY <1>3, <3>1
  <2> QED
    BY <1>1, <2>1, <2>2, <2>3
<1>9. \A t, u \in ScriptIds :
        t # u => Processed(r2, t) # Processed(r2, u) \/ Processed(r2, t) = NoBuffers
  BY <1>3 DEF Owned
<1> QED
  BY <1>3, <1>4, <1>6, <1>7, <1>8, <1>9 DEF Owned, y

\* No loaded text of the workbook waits
NoArrival(q, c) == \A i \in DOMAIN q : \A u : u[1] = c => ~IsLoaded(q[i], u)

LEMMA FineTyped ==
  ASSUME NEW r, RegistryOK(r), NEW r2, NEW s \in ScriptIds, NEW b, Types(r, r2, s, b),
         NEW q \in Seq(Dispatched), Owned(r, q),
         NEW x \in Dispatched, IsUpdate(x, s), x.value = b,
         NEW ty, Fine(r, q, ty), ty[s[1]] # "raced" => NoArrival(q, s[1])
  PROVE  Fine(r2, q \o <<x>>, ty)
<1> DEFINE y == q \o <<x>>
           n == Len(q) + 1
<1>1. /\ Len(q) \in Nat /\ Len(y) = n /\ DOMAIN q = 1..Len(q) /\ DOMAIN y = 1..n
      /\ n \in DOMAIN y /\ n \notin DOMAIN q
  BY OneMore
<1>2. \A i \in DOMAIN y : i \in Nat /\ (i \in DOMAIN q \/ i = n)
  BY OneMore
<1>3. y[n] = x /\ \A i \in DOMAIN q : i \in DOMAIN y /\ y[i] = q[i]
  BY OneMore
<1> HIDE DEF y
<1> SUFFICES ASSUME NEW t \in ScriptIds, ty[t[1]] # "raced"
             PROVE  /\ LoadsAfterUpdates(y, t)
                    /\ \A z \in Nat, i \in 0..Len(y) : Final(r2, y, t, z, i) => Current(r2, y, t, z, i)
  BY DEF Fine, y
<1>4. /\ LoadsAfterUpdates(q, t)
      /\ \A z \in Nat, i \in 0..Len(q) : Final(r, q, t, z, i) => Current(r, q, t, z, i)
  BY DEF Fine
<1>5. LoadsAfterUpdates(y, t)
  <2> SUFFICES ASSUME NEW i \in DOMAIN y, NEW j \in DOMAIN y, NEW u \in ScriptIds,
                      u[1] = t[1], IsLoaded(y[i], u), i < j, IsUpdate(y[j], t)
               PROVE  FALSE
    BY DEF LoadsAfterUpdates
  <2>1. i \in DOMAIN q /\ y[i] = q[i]
    <3>1. ~IsLoaded(x, u)
      BY DEF IsLoaded, IsUpdate
    <3> QED
      BY <1>2, <1>3, <3>1
  <2>2. CASE j \in DOMAIN q
    BY <1>3, <1>4, <2>1, <2>2 DEF LoadsAfterUpdates
  <2>3. CASE j = n
    <3>1. t = s
      BY <1>3, <2>3 DEF IsUpdate
    <3> QED
      BY <2>1, <3>1 DEF NoArrival
  <2> QED
    BY <1>2, <2>2, <2>3
<1>6. CASE t = s
  <2> SUFFICES ASSUME NEW z \in Nat, NEW i \in 0..Len(y), Final(r2, y, t, z, i)
               PROVE  Current(r2, y, t, z, i)
    BY <1>5
  <2>1. i = n
    <3>1. n <= i
      BY <1>1, <1>3, <1>6 DEF Final
    <3> QED
      BY <1>1, <3>1
  <2>2. z = b
    BY <1>1, <1>3, <2>1 DEF Final
  <2>3. RegistryOK(r2) /\ r2.buffers[b] = Analysis(r2, s) /\ Analysis(r2, s).text = r2.text[s]
    BY AnalysisTypes DEF Types
  <2>4. b # NoBuffers
    BY DEF Types, NoBuffers
  <2> QED
    BY <1>6, <2>2, <2>3, <2>4 DEF Current
<1>7. CASE t # s
  <2> SUFFICES ASSUME NEW z \in Nat, NEW i \in 0..Len(y), Final(r2, y, t, z, i)
               PROVE  Current(r2, y, t, z, i)
    BY <1>5
  <2>1. ~IsUpdate(x, t)
    BY <1>7 DEF IsUpdate
  <2>2. /\ \A j \in DOMAIN y : IsUpdate(y[j], t) => j <= i
        /\ IF i = 0 THEN z = Processed(r2, t) ELSE IsUpdate(y[i], t) /\ z = y[i].value
    BY DEF Final
  <2>3. i \in 0..Len(q) /\ (i # 0 => i \in DOMAIN q /\ y[i] = q[i])
    <3>1. CASE i = 0
      BY <1>1, <3>1
    <3>2. CASE i # 0
      <4>1. i \in DOMAIN y
        BY <1>1, <3>2
      <4>2. i # n
        BY <1>3, <2>1, <2>2, <3>2
      <4> QED
        BY <1>1, <1>2, <1>3, <4>1, <4>2
    <3> QED
      BY <3>1, <3>2
  <2>4. r2.scripts = r.scripts /\ r2.text[t] = r.text[t] /\ r2.version = r.version
    BY <1>7 DEF Types
  <2>5. Final(r, q, t, z, i)
    <3>1. \A j \in DOMAIN q : IsUpdate(q[j], t) => j <= i
      BY <1>3, <2>2
    <3>2. IF i = 0 THEN z = Processed(r, t) ELSE IsUpdate(q[i], t) /\ z = q[i].value
      BY <2>2, <2>3, <2>4 DEF Processed
    <3> QED
      BY <2>3, <3>1, <3>2 DEF Final
  <2>6. Current(r, q, t, z, i)
    BY <1>4, <2>3, <2>5
  <2>7. z # NoBuffers => r2.buffers[z] = r.buffers[z]
    <3> HAVE z # NoBuffers
    <3>1. CASE i = 0
      BY <2>5, <3>1 DEF Final, Owned, Types
    <3>2. CASE i # 0
      BY <2>3, <2>5, <3>2 DEF Final, Owned, Types
    <3> QED
      BY <3>1, <3>2
  <2>8. Analysis(r2, t) = Analysis(r, t)
    BY <2>4, SameAnalysis
  <2>9. WillBeMarked(q, t[1], i) => WillBeMarked(y, t[1], i)
    BY <1>3 DEF WillBeMarked
  <2> QED
    BY <2>4, <2>6, <2>7, <2>8, <2>9 DEF Current
<1> QED
  BY <1>6, <1>7

\* Loads and what was not touched depend on the scripts only
LEMMA SameScripts ==
  ASSUME NEW r, NEW r2, r2.scripts = r.scripts, NEW q, NEW fl, NEW ty
  PROVE  /\ Loads(r, q, fl) => Loads(r2, q, fl)
         /\ Untouched(r, q, ty) => Untouched(r2, q, ty)
         /\ Unanalyzed(r) => Unanalyzed(r2)
<1>1. \A s : IsLoading(r2, s) <=> IsLoading(r, s)
  BY DEF IsLoading
<1>2. \A s : LoadsOnce(r, q, fl, s) => LoadsOnce(r2, q, fl, s)
  BY <1>1 DEF LoadsOnce
<1> QED
  BY <1>1, <1>2 DEF Loads, Untouched, Unanalyzed, Processed

LEMMA TypingWaits ==
  ASSUME NEW r, NEW q, NEW ty, NEW fl, Books(r, q, ty, fl),
         NEW r2, NEW s \in ScriptIds, NEW b, Types(r, r2, s, b),
         NEW x \in Dispatched, IsUpdate(x, s), x.value = b,
         ty[s[1]] # "raced" => NoArrival(q, s[1]),
         ty[s[1]] = "no" => NoLoading(r, s[1])
  PROVE  Books(r2, q \o <<x>>, ty, fl)
<1>1. q \in Seq(Dispatched) /\ RegistryOK(r) /\ x.script = s
  BY DEF Books, IsUpdate
<1>2. q \o <<x>> \in Seq(Dispatched)
  BY <1>1, OneMore
<1>3. Owned(r2, q \o <<x>>) /\ Fine(r2, q \o <<x>>, ty)
  BY <1>1, OwnedTyped, FineTyped DEF Books
<1>4. r2.scripts = r.scripts /\ RegistryOK(r2)
  BY DEF Types
<1>5. Loads(r2, q \o <<x>>, fl)
  <2>1. <<x>> \in Seq(Dispatched) /\ NoLoads(<<x>>)
    BY DEF NoLoads, IsUpdate
  <2>2. Loads(r, q \o <<x>>, fl)
    BY <1>1, <2>1, LoadsAppended DEF Books
  <2> QED
    BY <1>4, <2>2, SameScripts
<1>6. Untouched(r2, q \o <<x>>, ty)
  <2>1. Untouched(r, q \o <<x>>, ty)
    BY <1>1, UntouchedMoved DEF Books
  <2> QED
    BY <1>4, <2>1, SameScripts
<1>7. Unanalyzed(r2)
  BY <1>4, SameScripts DEF Books
<1>8. FocusFine(r2, ty)
  <2>1. ASSUME NEW c \in Connectors
        PROVE  FocusOf(r2, <<c, MainKey>>) = FocusOf(r, <<c, MainKey>>)
    <3> DEFINE t == <<c, MainKey>>
               p == r.scripts[t].processed
    <3>1. t \in ScriptIds
      BY ScriptIdsAre
    <3> HIDE DEF t
    <3>2. p \in Alive(r) \cup {NoBuffers}
      BY <3>1 DEF Books, Owned, Processed
    <3>3. Buffers(r2, p) = Buffers(r, p)
      BY <1>1, <3>2, TypesHeld
    <3>4. FocusOf(r2, t) = FocusOf(r, t)
      BY <1>4, <3>3, SameFocusOf
    <3> QED
      BY <3>4 DEF t
  <2>2. r2.userFocus = r.userFocus
    BY DEF Types
  <2> QED
    BY <2>1, <2>2 DEF Books, FocusFine
<1> QED
  BY <1>2, <1>3, <1>4, <1>5, <1>6, <1>7, <1>8 DEF Books

-----------------------------------------------------------------------------
(***************************************************************************)
(* A catalog is refreshed, and a script arrives or not.                    *)
(***************************************************************************)
LEMMA CatalogWaits ==
  ASSUME NEW r, NEW q, NEW ty, NEW fl, Books(r, q, ty, fl), NEW c \in Connectors,
         NEW x \in Dispatched, x.type = "CATALOG_DID_UPDATE", x.script[1] = c
  PROVE  Books(loadScript(r, c), q \o <<x>>, ty, fl)
<1> DEFINE r2 == loadScript(r, c)
           y == q \o <<x>>
           n == Len(q) + 1
<1>1. /\ RegistryOK(r2) /\ r2.buffers = r.buffers /\ r2.scripts = r.scripts
      /\ r2.userFocus = r.userFocus /\ r2.text = r.text
      /\ \A d \in Connectors : d # c => r2.version[d] = r.version[d]
  BY CatalogLoaded DEF Books, SameBuffers
<1> HIDE DEF r2
<1>2. q \in Seq(Dispatched) /\ <<x>> \in Seq(Dispatched) /\ NoMoves(<<x>>) /\ NoUpdates(<<x>>) /\ NoLoads(<<x>>)
  BY DEF Books, NoMoves, NoUpdates, NoLoads
<1>3. y \in Seq(Dispatched) /\ Owned(r, y) /\ Fine(r, y, ty) /\ Loads(r, y, fl) /\ Untouched(r, y, ty)
  BY <1>2, ConcatIs, OwnedAppended, FineAppended, LoadsAppended, UntouchedAppended DEF Books
<1>4. Len(q) \in Nat /\ Len(y) = n /\ n \in DOMAIN y /\ y[n] = x
  BY <1>2, OneMore
<1> HIDE DEF y
<1>5. Owned(r2, y)
  BY <1>1, <1>3 DEF Owned, Alive, Processed
<1>6. Loads(r2, y, fl) /\ Untouched(r2, y, ty) /\ Unanalyzed(r2)
  BY <1>1, <1>3, SameScripts DEF Books
<1>7. FocusFine(r2, ty)
  <2>1. \A t : FocusOf(r2, t) = FocusOf(r, t)
    BY <1>1, FocusOfIs DEF Buffers
  <2> QED
    BY <1>1, <2>1 DEF Books, FocusFine
<1>8. Fine(r2, y, ty)
  <2> SUFFICES ASSUME NEW s \in ScriptIds, ty[s[1]] # "raced",
                      NEW b \in Nat, NEW i \in 0..Len(y), Final(r2, y, s, b, i)
               PROVE  Current(r2, y, s, b, i)
    BY <1>3 DEF Fine
  <2>1. Final(r, y, s, b, i)
    BY <1>1 DEF Final, Processed
  <2>2. Current(r, y, s, b, i)
    BY <1>3, <2>1 DEF Fine
  <2>3. CASE s[1] = c
    <3>1. i # n
      BY <1>4, <2>1 DEF Final, IsUpdate
    <3>2. n > i
      BY <1>4, <3>1
    <3>3. WillBeMarked(y, s[1], i)
      BY <1>4, <2>3, <3>2 DEF WillBeMarked
    <3> QED
      BY <1>1, <2>2, <3>3 DEF Current
  <2>4. CASE s[1] # c
    <3>1. Analysis(r2, s) = Analysis(r, s)
      BY <1>1, <2>4, ScriptIdsAre, SameAnalysis
    <3> QED
      BY <1>1, <2>2, <3>1 DEF Current
  <2> QED
    BY <2>3, <2>4
<1> QED
  BY <1>1, <1>3, <1>5, <1>6, <1>7, <1>8 DEF Books, r2, y

\* The answer to a flight f of a script s
LEMMA AnswerWaits ==
  ASSUME NEW r, NEW q, NEW ty, NEW fl, Books(r, q, ty, fl), NEW f \in DOMAIN fl, ~fl[f].settled,
         NEW x \in Dispatched, IsAnswer(x, fl[f].script),
         NEW fl2, DOMAIN fl2 \subseteq DOMAIN fl,
         \A g \in DOMAIN fl2 : fl2[g].script = fl[g].script /\ (fl[g].settled => fl2[g].settled),
         f \in DOMAIN fl2 => fl2[f].settled
  PROVE  Books(r, q \o <<x>>, ty, fl2)
<1> DEFINE y == q \o <<x>>
           n == Len(q) + 1
           s == fl[f].script
<1>1. q \in Seq(Dispatched) /\ <<x>> \in Seq(Dispatched) /\ NoMoves(<<x>>) /\ NoUpdates(<<x>>)
  BY DEF Books, NoMoves, NoUpdates, IsAnswer
<1>2. y \in Seq(Dispatched) /\ Owned(r, y) /\ Fine(r, y, ty) /\ Untouched(r, y, ty)
  BY <1>1, ConcatIs, OwnedAppended, FineAppended, UntouchedAppended DEF Books
<1>3. /\ Len(q) \in Nat /\ DOMAIN q = 1..Len(q) /\ n \in DOMAIN y /\ n \notin DOMAIN q
      /\ \A i \in DOMAIN y : i \in Nat /\ (i \in DOMAIN q \/ i = n)
  BY <1>1, OneMore
<1>4. y[n] = x /\ \A i \in DOMAIN q : i \in DOMAIN y /\ y[i] = q[i]
  BY <1>1, OneMore
<1> HIDE DEF y
<1>5. /\ \A g \in DOMAIN fl : fl[g].script \in ScriptIds /\ fl[g].script[1] \in {"serverless", "demo"}
      /\ \A g, h \in DOMAIN fl : fl[g].script = fl[h].script => g = h
      /\ \A t \in ScriptIds : LoadsOnce(r, q, fl, t)
  BY DEF Books, Loads
<1>6. s \in ScriptIds /\ Flying(fl, s)
  BY <1>5 DEF Flying
<1>7. ~Flying(fl2, s)
  BY <1>5 DEF Flying
<1>8. ASSUME NEW t \in ScriptIds
      PROVE  Flying(fl2, t) => Flying(fl, t)
  BY DEF Flying
<1> HIDE DEF s
<1>9. ~IsStarted(x, s) /\ \A t : t # s => ~IsAnswer(x, t) /\ ~IsStarted(x, t)
  BY DEF IsAnswer, IsStarted, s
<1>10. ASSUME NEW t \in ScriptIds
       PROVE  LoadsOnce(r, y, fl2, t)
  <2>1. /\ \A i, j \in DOMAIN q : IsAnswer(q[i], t) /\ IsAnswer(q[j], t) => i = j
        /\ \A i, j \in DOMAIN q : IsAnswer(q[i], t) /\ IsStarted(q[j], t) => j < i
        /\ \A i \in DOMAIN q : IsAnswer(q[i], t) => IsLoading(r, t) /\ ~Flying(fl, t)
        /\ \A i \in DOMAIN q : IsStarted(q[i], t) => IsLoading(r, t)
        /\ Flying(fl, t) => IsLoading(r, t)
        /\ r.scripts[t].loading = "PENDING" =>
             /\ t[1] \in {"serverless", "demo"}
             /\ \/ \E i \in DOMAIN q : IsStarted(q[i], t)
                \/ /\ \A g \in DOMAIN fl : fl[g].script # t
                   /\ \A i \in DOMAIN q : ~IsAnswer(q[i], t)
    BY <1>5 DEF LoadsOnce
  <2>2. \A i \in DOMAIN y : IsStarted(y[i], t) => i \in DOMAIN q /\ IsStarted(q[i], t)
    BY <1>3, <1>4, <1>9
  <2>3. CASE t # s
    <3>1. \A i \in DOMAIN y : IsAnswer(y[i], t) => i \in DOMAIN q /\ IsAnswer(q[i], t)
      BY <1>3, <1>4, <1>9, <2>3
    <3>2. (\E i \in DOMAIN q : IsStarted(q[i], t)) => \E i \in DOMAIN y : IsStarted(y[i], t)
      BY <1>4
    <3>3. (\A g \in DOMAIN fl : fl[g].script # t) => \A g \in DOMAIN fl2 : fl2[g].script # t
      OBVIOUS
    <3> QED
      BY <1>8, <2>1, <2>2, <3>1, <3>2, <3>3 DEF LoadsOnce
  <2>4. CASE t = s
    <3>1. \A i \in DOMAIN q : ~IsAnswer(q[i], t)
      BY <1>6, <2>1, <2>4
    <3>2. \A i \in DOMAIN y : IsAnswer(y[i], t) => i = n
      BY <1>3, <1>4, <3>1
    <3>3. \A j \in DOMAIN q : j < n
      BY <1>3
    <3>4. IsLoading(r, t)
      BY <1>6, <2>1, <2>4
    <3>5. r.scripts[t].loading = "PENDING" =>
            t[1] \in {"serverless", "demo"} /\ \E i \in DOMAIN y : IsStarted(y[i], t)
      <4> HAVE r.scripts[t].loading = "PENDING"
      <4>1. t[1] \in {"serverless", "demo"} /\ \E i \in DOMAIN q : IsStarted(q[i], t)
        BY <1>6, <2>1, <2>4 DEF Flying
      <4> QED
        BY <1>4, <4>1
    <3> QED
      BY <1>7, <2>2, <2>4, <3>2, <3>3, <3>4, <3>5 DEF LoadsOnce
  <2> QED
    BY <2>3, <2>4
<1>11. Loads(r, y, fl2)
  <2>1. \A g \in DOMAIN fl2 : fl2[g].script \in ScriptIds /\ fl2[g].script[1] \in {"serverless", "demo"}
    BY <1>5
  <2>2. \A g, h \in DOMAIN fl2 : fl2[g].script = fl2[h].script => g = h
    BY <1>5
  <2> QED
    BY <1>10, <2>1, <2>2 DEF Loads
<1> QED
  BY <1>2, <1>11 DEF Books, y

-----------------------------------------------------------------------------
(***************************************************************************)
(* The effects load the scripts of the current workbook.                   *)
(***************************************************************************)
LEMMA NewFlights ==
  ASSUME NEW r, NEW c \in Connectors, Loads(r, <<>>, inflight)
  PROVE  LET fl == Flights(r, c)
         IN /\ \A f \in DOMAIN inflight : f \in DOMAIN fl /\ fl[f] = inflight[f]
            /\ \A f \in DOMAIN fl : f \notin DOMAIN inflight =>
                 /\ fl[f].script \in Pending(r, c) /\ f = FlightKey(r, fl[f].script)
<1> DEFINE K == {FlightKey(r, s) : s \in Starts(r, c)}
           fl == Flights(r, c)
<1>1. fl = [f \in DOMAIN inflight \cup K |->
              IF f \in DOMAIN inflight THEN inflight[f] ELSE [script |-> <<c, f[1]>>, settled |-> FALSE]]
  BY DEF Flights
<1> HIDE DEF K, fl
<1>2. /\ DOMAIN fl = DOMAIN inflight \cup K
      /\ \A f \in DOMAIN inflight : fl[f] = inflight[f]
      /\ \A f \in K : f \notin DOMAIN inflight => fl[f].script = <<c, f[1]>>
  BY <1>1
<1>3. ASSUME NEW f \in K, f \notin DOMAIN inflight
      PROVE  fl[f].script \in Pending(r, c) /\ f = FlightKey(r, fl[f].script)
  <2>1. PICK s \in Starts(r, c) : f = FlightKey(r, s)
    BY DEF K
  <2>2. s \in ScriptIds /\ s[1] = c /\ s \in Pending(r, c)
    BY DEF Starts, Pending
  <2>3. s = <<c, s[2]>> /\ f[1] = s[2]
    BY <2>1, <2>2, ScriptIdsAre DEF FlightKey
  <2> QED
    BY <1>2, <1>3, <2>1, <2>2, <2>3
<1> QED
  BY <1>2, <1>3 DEF fl

LEMMA LoadsStarted ==
  ASSUME NEW r, NEW c \in Connectors, Loads(r, <<>>, inflight),
         NEW x \in Seq(Dispatched),
         \A i \in DOMAIN x : \A s : ~IsAnswer(x[i], s),
         \A i \in DOMAIN x : \A s : IsStarted(x[i], s) => s \in Pending(r, c),
         \A s \in Pending(r, c) : \E i \in DOMAIN x : IsStarted(x[i], s)
  PROVE  Loads(r, x, Flights(r, c))
<1> DEFINE fl == Flights(r, c)
           old == DOMAIN inflight
           none == <<>>
<1>1. /\ \A f \in old : f \in DOMAIN fl /\ fl[f] = inflight[f]
      /\ \A f \in DOMAIN fl : f \notin old => fl[f].script \in Pending(r, c) /\ f = FlightKey(r, fl[f].script)
  BY NewFlights
<1>2. /\ \A f \in old : inflight[f].script \in ScriptIds /\ inflight[f].script[1] \in {"serverless", "demo"}
      /\ \A f, g \in old : inflight[f].script = inflight[g].script => f = g
      /\ \A s \in ScriptIds : LoadsOnce(r, <<>>, inflight, s)
  BY DEF Loads
<1>3. \A s \in Pending(r, c) : s \in ScriptIds /\ s[1] = c /\ r.scripts[s].loading = "PENDING"
  BY DEF Pending
<1>4. ASSUME NEW s \in ScriptIds, r.scripts[s].loading = "PENDING"
      PROVE  s[1] \in {"serverless", "demo"} /\ \A f \in old : inflight[f].script # s
  <2>1. LoadsOnce(r, none, inflight, s)
    BY <1>2
  <2>2. DOMAIN none = {}
    OBVIOUS
  <2> HIDE DEF none
  <2> QED
    BY <1>4, <2>1, <2>2 DEF LoadsOnce
<1> HIDE DEF fl
<1>5. \A f \in DOMAIN fl : fl[f].script \in ScriptIds /\ fl[f].script[1] \in {"serverless", "demo"}
  BY <1>1, <1>2, <1>3, <1>4
<1>6. ASSUME NEW f \in DOMAIN fl, NEW g \in DOMAIN fl, fl[f].script = fl[g].script
      PROVE  f = g
  <2>1. CASE f \in old /\ g \in old
    BY <1>1, <1>2, <1>6, <2>1
  <2>2. CASE f \notin old /\ g \notin old
    BY <1>1, <1>6, <2>2
  <2>3. CASE f \in old /\ g \notin old
    BY <1>1, <1>3, <1>4, <1>6, <2>3
  <2>4. CASE f \notin old /\ g \in old
    BY <1>1, <1>3, <1>4, <1>6, <2>4
  <2> QED
    BY <2>1, <2>2, <2>3, <2>4
<1>7. ASSUME NEW s \in ScriptIds
      PROVE  LoadsOnce(r, x, fl, s)
  <2>1. Flying(fl, s) => IsLoading(r, s)
    <3> SUFFICES ASSUME NEW f \in DOMAIN fl, fl[f].script = s, ~fl[f].settled PROVE IsLoading(r, s)
      BY DEF Flying
    <3>1. CASE f \in old
      <4>1. Flying(inflight, s)
        BY <1>1, <3>1 DEF Flying
      <4> QED
        BY <1>2, <4>1 DEF LoadsOnce
    <3>2. CASE f \notin old
      BY <1>1, <1>3, <3>2 DEF IsLoading
    <3> QED
      BY <3>1, <3>2
  <2>2. \A i \in DOMAIN x : IsStarted(x[i], s) => IsLoading(r, s)
    BY <1>3 DEF IsLoading
  <2>3. ASSUME r.scripts[s].loading = "PENDING", s[1] # c, NEW f \in DOMAIN fl
        PROVE  fl[f].script # s
    BY <1>1, <1>3, <1>4, <2>3
  <2>4. ASSUME r.scripts[s].loading = "PENDING", s[1] = c
        PROVE  \E i \in DOMAIN x : IsStarted(x[i], s)
    BY <2>4 DEF Pending
  <2> QED
    BY <1>4, <2>1, <2>2, <2>3, <2>4 DEF LoadsOnce
<1> QED
  BY <1>5, <1>6, <1>7 DEF Loads, fl

\* What the loader dispatches
LEMMA LoadActions ==
  ASSUME NEW r, RegistryOK(r), NEW c \in Connectors
  PROVE  /\ loadIfNeeded(r, c) \in Seq(Dispatched)
         /\ \A i \in DOMAIN loadIfNeeded(r, c) :
              loadIfNeeded(r, c)[i].type = "SCRIPT_LOADING_STARTED"
              /\ loadIfNeeded(r, c)[i].script \in Pending(r, c)
         /\ \A s \in Pending(r, c) : \E i \in DOMAIN loadIfNeeded(r, c) :
              loadIfNeeded(r, c)[i].type = "SCRIPT_LOADING_STARTED" /\ loadIfNeeded(r, c)[i].script = s
<1> DEFINE start(s) == Action("SCRIPT_LOADING_STARTED", s)
           P == Pending(r, c)
           S == {start(s) : s \in P}
           x == SetToSeq(S)
           f == [s \in P |-> start(s)]
<1>0. loadIfNeeded(r, c) = x
  BY DEF loadIfNeeded
<1>1. P \subseteq ScriptIds
  BY DEF Pending
<1>2. \A s \in P : start(s) \in Dispatched /\ start(s).type = "SCRIPT_LOADING_STARTED" /\ start(s).script = s
  <2> TAKE s \in P
  <2>1. s \in ScriptIds /\ s \in Connectors \X (0..2)
    BY <1>1, ScriptIdsAre
  <2> QED
    BY <2>1 DEF Action, ActionWith, Dispatched, ActionOK, ActionTypes
<1> HIDE DEF start, P
<1>3. IsFiniteSet(S)
  <2>1. f \in Surjection(P, S)
    BY DEF Surjection
  <2>2. IsFiniteSet(P)
    BY <1>1, ScriptIdsFinite, FS_Subset
  <2> QED
    BY <2>1, <2>2, FS_Surjection
<1>4. x \in Seq(S) /\ \A z \in S : \E i \in DOMAIN x : x[i] = z
  BY <1>3, SetToSeqOf
<1> HIDE DEF x, S
<1>5. \A i \in DOMAIN x : x[i] \in S
  BY <1>4
<1>6. S \subseteq Dispatched
  BY <1>2 DEF S
<1>7. x \in Seq(Dispatched)
  <2>1. Len(x) \in Nat /\ x \in [1..Len(x) -> S]
    BY <1>4
  <2>2. x \in [1..Len(x) -> Dispatched]
    BY <1>6, <2>1
  <2> QED
    BY <2>1, <2>2
<1>8. \A i \in DOMAIN x : x[i].type = "SCRIPT_LOADING_STARTED" /\ x[i].script \in P
  BY <1>2, <1>5 DEF S
<1>9. \A s \in P : \E i \in DOMAIN x : x[i].type = "SCRIPT_LOADING_STARTED" /\ x[i].script = s
  BY <1>2, <1>4 DEF S
<1> QED
  BY <1>0, <1>7, <1>8, <1>9 DEF P

LEMMA EffectsWait ==
  ASSUME NEW r, NEW ty, Books(r, <<>>, ty, inflight), NEW c \in Connectors,
         NEW x \in Seq(Dispatched),
         \A i \in DOMAIN x : x[i].type \in {"UPDATE_SCRIPT", "COMPLETION_STOPPED"}
  PROVE  /\ loadIfNeeded(r, c) \o x \in Seq(Dispatched)
         /\ NoMoves(loadIfNeeded(r, c) \o x)
         /\ Books(r, loadIfNeeded(r, c) \o x, ty, Flights(r, c))
<1> DEFINE l == loadIfNeeded(r, c)
           y == l \o x
           none == <<>>
<1>1. /\ l \in Seq(Dispatched)
      /\ \A i \in DOMAIN l : l[i].type = "SCRIPT_LOADING_STARTED" /\ l[i].script \in Pending(r, c)
      /\ \A s \in Pending(r, c) : \E i \in DOMAIN l :
           l[i].type = "SCRIPT_LOADING_STARTED" /\ l[i].script = s
  BY LoadActions DEF Books
<1> HIDE DEF l
<1>2. /\ y \in Seq(Dispatched)
      /\ \A i \in DOMAIN y : i \notin DOMAIN l => i - Len(l) \in DOMAIN x /\ y[i] = x[i - Len(l)]
  BY <1>1, ConcatIs
<1>3. \A i \in DOMAIN l : i \in DOMAIN y /\ y[i] = l[i]
  BY <1>1, ConcatIs
<1> HIDE DEF y
<1>4. \A i \in DOMAIN y :
        \/ y[i].type \in {"UPDATE_SCRIPT", "COMPLETION_STOPPED"}
        \/ y[i].type = "SCRIPT_LOADING_STARTED" /\ y[i].script \in Pending(r, c)
  <2> TAKE i \in DOMAIN y
  <2>1. CASE i \in DOMAIN l
    BY <1>1, <1>3, <2>1
  <2>2. CASE i \notin DOMAIN l
    <3>1. y[i] = x[i - Len(l)] /\ i - Len(l) \in DOMAIN x
      BY <1>2, <2>2
    <3> QED
      BY <3>1
  <2> QED
    BY <2>1, <2>2
<1>5. NoMoves(y) /\ NoUpdates(y)
  BY <1>4 DEF NoMoves, NoUpdates
<1>6. none \in Seq(Dispatched) /\ none \o y = y /\ Books(r, none, ty, inflight)
  BY <1>2, ConcatEmptySeq
<1> HIDE DEF none
<1>7. Owned(r, y) /\ Fine(r, y, ty) /\ Untouched(r, y, ty)
  <2>1. Owned(r, none \o y) /\ Fine(r, none \o y, ty) /\ Untouched(r, none \o y, ty)
    BY <1>2, <1>5, <1>6, OwnedAppended, FineAppended, UntouchedAppended DEF Books
  <2> QED
    BY <1>6, <2>1
<1>8. Loads(r, y, Flights(r, c))
  <2>1. \A i \in DOMAIN y : \A s : ~IsAnswer(y[i], s)
    BY <1>4 DEF IsAnswer
  <2>2. \A i \in DOMAIN y : \A s : IsStarted(y[i], s) => s \in Pending(r, c)
    BY <1>4 DEF IsStarted
  <2>3. \A s \in Pending(r, c) : \E i \in DOMAIN y : IsStarted(y[i], s)
    BY <1>1, <1>3 DEF IsStarted
  <2>4. Loads(r, <<>>, inflight)
    BY DEF Books
  <2> QED
    BY <1>2, <2>1, <2>2, <2>3, <2>4, LoadsStarted
<1> QED
  BY <1>2, <1>5, <1>7, <1>8 DEF Books, y, l

-----------------------------------------------------------------------------
(***************************************************************************)
(* The view.                                                               *)
(***************************************************************************)
Viewed(w, doc, target, buffers, cursor, focus, completion, with, decorations) ==
  /\ w \in ViewTypes
  /\ w.doc = doc /\ w.targetScript = target /\ w.scriptBuffers = buffers
  /\ w.scriptCursor = cursor /\ w.derivedFocus = focus /\ w.completion = completion
  /\ w.completeWith = with /\ w.decorations = decorations

LEMMA ViewFields ==
  ASSUME NEW v \in ViewTypes
  PROVE  /\ Viewed(v, v.doc, v.targetScript, v.scriptBuffers, v.scriptCursor, v.derivedFocus,
                   v.completion, v.completeWith, v.decorations)
         /\ v.doc \in Texts /\ v.targetScript \in ScriptIds \cup {NoScript} /\ v.scriptBuffers \in Nat
         /\ v.scriptCursor \in Cursors \cup {Null} /\ v.derivedFocus \in AnyFocus
         /\ v.completion \in {"none", "pending", "active", "unmounted"}
         /\ v.completeWith \in Connectors \cup {Null} /\ v.decorations \in Decorations
BY DEF ViewTypes, Viewed

LEMMA ViewChanges ==
  ASSUME NEW v \in ViewTypes, NEW doc \in Texts, NEW target \in ScriptIds \cup {NoScript},
         NEW buffers \in Nat, NEW cursor \in Cursors \cup {Null}, NEW focus \in AnyFocus,
         NEW completion \in {"none", "pending", "active", "unmounted"}, NEW decorations \in Decorations
  PROVE  /\ Viewed([v EXCEPT !.completion = completion],
                   v.doc, v.targetScript, v.scriptBuffers, v.scriptCursor, v.derivedFocus,
                   completion, v.completeWith, v.decorations)
         /\ Viewed([v EXCEPT !.doc = doc],
                   doc, v.targetScript, v.scriptBuffers, v.scriptCursor, v.derivedFocus,
                   v.completion, v.completeWith, v.decorations)
         /\ Viewed([v EXCEPT !.scriptCursor = cursor],
                   v.doc, v.targetScript, v.scriptBuffers, cursor, v.derivedFocus,
                   v.completion, v.completeWith, v.decorations)
         /\ Viewed([v EXCEPT !.doc = doc, !.scriptBuffers = buffers, !.scriptCursor = cursor],
                   doc, v.targetScript, buffers, cursor, v.derivedFocus,
                   v.completion, v.completeWith, v.decorations)
         /\ Viewed([v EXCEPT !.targetScript = target, !.scriptBuffers = buffers,
                             !.scriptCursor = cursor, !.derivedFocus = focus],
                   v.doc, target, buffers, cursor, focus, v.completion, v.completeWith, v.decorations)
         /\ Viewed([v EXCEPT !.decorations = decorations],
                   v.doc, v.targetScript, v.scriptBuffers, v.scriptCursor, v.derivedFocus,
                   v.completion, v.completeWith, decorations)
<1>1. Viewed([v EXCEPT !.completion = completion],
             v.doc, v.targetScript, v.scriptBuffers, v.scriptCursor, v.derivedFocus,
             completion, v.completeWith, v.decorations)
  BY DEF ViewTypes, Viewed
<1>2. Viewed([v EXCEPT !.doc = doc],
             doc, v.targetScript, v.scriptBuffers, v.scriptCursor, v.derivedFocus,
             v.completion, v.completeWith, v.decorations)
  BY DEF ViewTypes, Viewed
<1>3. Viewed([v EXCEPT !.scriptCursor = cursor],
             v.doc, v.targetScript, v.scriptBuffers, cursor, v.derivedFocus,
             v.completion, v.completeWith, v.decorations)
  BY DEF ViewTypes, Viewed
<1>4. Viewed([v EXCEPT !.doc = doc, !.scriptBuffers = buffers, !.scriptCursor = cursor],
             doc, v.targetScript, buffers, cursor, v.derivedFocus,
             v.completion, v.completeWith, v.decorations)
  BY DEF ViewTypes, Viewed
<1>5. Viewed([v EXCEPT !.targetScript = target, !.scriptBuffers = buffers,
                       !.scriptCursor = cursor, !.derivedFocus = focus],
             v.doc, target, buffers, cursor, focus, v.completion, v.completeWith, v.decorations)
  BY DEF ViewTypes, Viewed
<1>6. Viewed([v EXCEPT !.decorations = decorations],
             v.doc, v.targetScript, v.scriptBuffers, v.scriptCursor, v.derivedFocus,
             v.completion, v.completeWith, decorations)
  BY DEF ViewTypes, Viewed
<1> QED
  BY <1>1, <1>2, <1>3, <1>4, <1>5, <1>6

LEMMA ClosedIs ==
  ASSUME NEW v \in ViewTypes
  PROVE  /\ \E completion \in {"none", "unmounted"} :
              /\ Viewed(Closed(v), v.doc, v.targetScript, v.scriptBuffers, v.scriptCursor, v.derivedFocus,
                        completion, v.completeWith, v.decorations)
              /\ completion = "unmounted" <=> v.completion = "unmounted"
<1>1. CASE v.completion \in {"active", "pending"}
  <2>1. Closed(v) = [v EXCEPT !.completion = "none"]
    BY <1>1 DEF Closed
  <2> QED
    BY <1>1, <2>1, ViewChanges, ViewFields
<1>2. CASE v.completion \notin {"active", "pending"}
  <2>1. Closed(v) = v
    BY <1>2 DEF Closed
  <2> QED
    BY <1>2, <2>1, ViewFields
<1> QED
  BY <1>1, <1>2

\* A view v is decorated with the buffers it shows
LEMMA DecoratedIs ==
  ASSUME NEW r, RegistryOK(r), NEW v \in ViewTypes, v.decorations = view.decorations, Painted(r, view)
  PROVE  /\ \E decorations \in Decorations :
              /\ Viewed(Decorated(r, v), v.doc, v.targetScript, v.scriptBuffers, v.scriptCursor,
                        v.derivedFocus, v.completion, v.completeWith, decorations)
              /\ decorations.focused =
                   buildDecorationsFromFocus(Buffers(r, v.scriptBuffers), v.derivedFocus)
         /\ Painted(r, Decorated(r, v))
<1> DEFINE changed == v.scriptBuffers # view.scriptBuffers
           analyzed == Buffers(r, v.scriptBuffers)
           e == DashQLDecorations(v.decorations, changed, analyzed, v.derivedFocus)
           w == Decorated(r, v)
<1>1. w = [v EXCEPT !.decorations = e]
  BY DEF Decorated
<1>2. v.decorations \in Decorations /\ v.derivedFocus \in AnyFocus
  BY ViewFields
<1>3. analyzed \in Analyses \cup {Null}
  BY BuffersOf
<1>4. changed \in BOOLEAN
  OBVIOUS
<1> HIDE DEF analyzed, w
<1>5. /\ e \in Decorations
      /\ e.focused = buildDecorationsFromFocus(analyzed, v.derivedFocus)
      /\ ~changed => e.tokens = v.decorations.tokens /\ e.unresolved = v.decorations.unresolved
      /\ changed /\ analyzed # Null =>
           e.tokens \subseteq DOMAIN analyzed.text /\ e.unresolved \subseteq DOMAIN analyzed.text
  <2> DEFINE d == v.decorations
             focus == v.derivedFocus
             ch == changed
  <2> HIDE DEF d, focus, ch
  <2>1. LET x == DashQLDecorations(d, ch, analyzed, focus)
        IN /\ x \in Decorations
           /\ x.focused = buildDecorationsFromFocus(analyzed, focus)
           /\ ~ch => x.tokens = d.tokens /\ x.unresolved = d.unresolved
           /\ ch /\ analyzed # Null =>
                x.tokens \subseteq DOMAIN analyzed.text /\ x.unresolved \subseteq DOMAIN analyzed.text
    <3>1. d \in Decorations /\ focus \in AnyFocus /\ ch \in BOOLEAN
      BY <1>2, <1>4 DEF d, focus, ch
    <3> QED
      BY <1>3, <3>1, DecorationTypes
  <2> QED
    BY <2>1 DEF d, focus, ch
<1> HIDE DEF e
<1>6. Viewed(w, v.doc, v.targetScript, v.scriptBuffers, v.scriptCursor,
             v.derivedFocus, v.completion, v.completeWith, e)
  BY <1>1, <1>5, ViewChanges, ViewFields
<1>7. Painted(r, w)
  <2> SUFFICES ASSUME v.scriptBuffers \in Alive(r)
               PROVE  e.tokens \cup e.unresolved \subseteq DOMAIN r.buffers[v.scriptBuffers].text
    BY <1>6 DEF Painted, Viewed
  <2>1. CASE changed
    <3>1. analyzed = r.buffers[v.scriptBuffers] /\ analyzed # Null
      BY BuffersOf, AnalysisFields DEF analyzed
    <3> QED
      BY <1>5, <2>1, <3>1
  <2>2. CASE ~changed
    <3>1. v.scriptBuffers = view.scriptBuffers
      BY <2>2
    <3> QED
      BY <1>5, <2>2, <3>1 DEF Painted
  <2> QED
    BY <2>1, <2>2
<1> QED
  BY <1>5, <1>6, <1>7 DEF w, analyzed

\* A completion opens or closes
LEMMA CompletionSet ==
  ASSUME NEW r, NEW q, NEW ty, NEW v, NEW a, Shows(r, q, v, a, ty), MountedView(v),
         NEW completion \in {"none", "pending", "active"},
         completion # "none" => v.targetScript # NoScript /\ v.scriptCursor # Null
  PROVE  Shows(r, q, [v EXCEPT !.completion = completion], a, ty)
<1> DEFINE w == [v EXCEPT !.completion = completion]
<1>1. v \in ViewTypes
  BY DEF Shows, ViewOK
<1>2. Viewed(w, v.doc, v.targetScript, v.scriptBuffers, v.scriptCursor, v.derivedFocus,
             completion, v.completeWith, v.decorations)
  BY <1>1, ViewChanges, ViewFields
<1> HIDE DEF w
<1>3. ViewOK(r, q, w, a)
  BY <1>2 DEF Shows, ViewOK, Viewed, MountedView
<1>4. Painted(r, w)
  BY <1>2 DEF Shows, Painted, Viewed
<1>5. ~MultiRange => Mirrors(r, q, w, ty)
  BY <1>2 DEF Shows, Mirrors, Viewed
<1> QED
  BY <1>3, <1>4, <1>5 DEF Shows, w

LEMMA ClosedShows ==
  ASSUME NEW r, NEW q, NEW ty, NEW v, NEW a, Shows(r, q, v, a, ty)
  PROVE  Shows(r, q, Closed(v), a, ty)
<1>1. CASE v.completion \in {"active", "pending"}
  <2>1. Closed(v) = [v EXCEPT !.completion = "none"] /\ MountedView(v)
    BY <1>1 DEF Closed, MountedView
  <2>2. \A x \in {"none"} : Shows(r, q, [v EXCEPT !.completion = x], a, ty)
    BY <2>1, CompletionSet
  <2> QED
    BY <2>1, <2>2
<1>2. CASE v.completion \notin {"active", "pending"}
  BY <1>2 DEF Closed
<1> QED
  BY <1>1, <1>2

LEMMA PageLeft ==
  ASSUME NEW r, RegistryOK(r), NEW q, NEW ty
  PROVE  Shows(r, q, NoView, NoActive, ty)
<1>1. /\ Null \in AnyFocus /\ NoDecorations \in Decorations /\ <<>> \in Texts
      /\ NoBuffers \in Nat /\ NoScript \in ScriptIds \cup {NoScript}
  BY DEF AnyFocus, NoDecorations, Decorations, Texts, NoBuffers
<1>2. Viewed(NoView, <<>>, NoScript, NoBuffers, Null, Null, "unmounted", Null, NoDecorations)
  <2> HIDE DEF NoScript, NoDecorations, NoBuffers
  <2> QED
    BY <1>1 DEF NoView, Viewed, ViewTypes
<1>3. NoActive \in [script : ScriptIds \cup {NoScript}, scriptBuffers : Nat]
  BY <1>1 DEF NoActive
<1>4. NoBuffers \notin Alive(r)
  BY BuffersOf
<1>5. ViewOK(r, q, NoView, NoActive)
  BY <1>2, <1>3 DEF ViewOK, Viewed, MountedView
<1> QED
  BY <1>2, <1>4, <1>5 DEF Shows, Painted, Mirrors, Viewed

LEMMA PageEntered ==
  ASSUME NEW r, RegistryOK(r), NEW q, NEW ty, NEW c \in Connectors
  PROVE  Shows(r, q, CreateView(c), NoActive, ty)
<1>1. /\ Null \in AnyFocus /\ NoDecorations \in Decorations /\ <<>> \in Texts
      /\ NoBuffers \in Nat /\ NoScript \in ScriptIds \cup {NoScript}
  BY DEF AnyFocus, NoDecorations, Decorations, Texts, NoBuffers
<1>2. Viewed(CreateView(c), <<>>, NoScript, NoBuffers, Null, Null, "none", c, NoDecorations)
  BY <1>1 DEF CreateView, Viewed, ViewTypes
<1>3. NoActive \in [script : ScriptIds \cup {NoScript}, scriptBuffers : Nat]
  BY <1>1 DEF NoActive
<1>4. NoBuffers \notin Alive(r)
  BY BuffersOf
<1>5. NoActive.script = NoScript /\ NoActive.scriptBuffers = NoBuffers
  BY DEF NoActive
<1>6. ViewOK(r, q, CreateView(c), NoActive)
  BY <1>2, <1>3, <1>5 DEF ViewOK, Viewed, MountedView
<1> QED
  BY <1>2, <1>4, <1>6 DEF Shows, Painted, Mirrors, Viewed

-----------------------------------------------------------------------------
(***************************************************************************)
(* What the user types.                                                    *)
(***************************************************************************)
LEMMA SubTexts ==
  ASSUME NEW text \in Texts, NEW m \in 1..(Len(text) + 1), NEW n \in (m - 1)..Len(text)
  PROVE  SubSeq(text, m, n) \in Texts
BY SubSeqProperties DEF Texts

LEMMA JoinedTexts ==
  ASSUME NEW x \in Texts, NEW y \in Texts
  PROVE  x \o y \in Texts
BY ConcatProperties DEF Texts

LEMMA ChangedTexts ==
  ASSUME NEW text \in Texts, NEW change, change.from \in Nat,
         change.insert = Null \/ change.insert \in References
  PROVE  ApplyChange(text, change) \in Texts
<1> DEFINE n == Len(text)
           at == change.from
           ref == change.insert
<1>1. n \in Nat
  BY DEF Texts
<1>2. ASSUME at < n
      PROVE  RemoveAt(text, at + 1) \in Texts
  <2>0. /\ 1 \in 1..(n + 1) /\ at \in (1 - 1)..n
        /\ at + 2 \in 1..(n + 1) /\ n \in ((at + 2) - 1)..n
    BY <1>1, <1>2
  <2>1. SubSeq(text, 1, at) \in Texts
    BY <2>0, SubTexts
  <2>2. SubSeq(text, at + 2, n) \in Texts
    BY <2>0, SubTexts
  <2>3. (at + 1) - 1 = at /\ (at + 1) + 1 = at + 2
    OBVIOUS
  <2>4. RemoveAt(text, at + 1) = SubSeq(text, 1, at) \o SubSeq(text, at + 2, n)
    BY <2>3 DEF RemoveAt
  <2> QED
    BY <2>1, <2>2, <2>4, JoinedTexts
<1>3. ASSUME ref \in References, ~(at > n)
      PROVE  InsertAt(text, at + 1, ref) \in Texts
  <2>0. /\ 1 \in 1..(n + 1) /\ at \in (1 - 1)..n
        /\ at + 1 \in 1..(n + 1) /\ n \in ((at + 1) - 1)..n
    BY <1>1, <1>3
  <2>1. SubSeq(text, 1, at) \in Texts
    BY <2>0, SubTexts
  <2>2. SubSeq(text, at + 1, n) \in Texts
    BY <2>0, SubTexts
  <2>3. (at + 1) - 1 = at
    OBVIOUS
  <2>4. InsertAt(text, at + 1, ref) = SubSeq(text, 1, at) \o <<ref>> \o SubSeq(text, at + 1, n)
    BY <2>3 DEF InsertAt
  <2>5. <<ref>> \in Texts
    BY <1>3 DEF Texts
  <2>6. \A x, y, z \in Texts : (x \o y) \o z \in Texts
    BY JoinedTexts
  <2>7. (SubSeq(text, 1, at) \o <<ref>>) \o SubSeq(text, at + 1, n) \in Texts
    BY <2>1, <2>2, <2>5, <2>6
  <2> QED
    BY <2>4, <2>7
<1>4. ASSUME ref \in References
      PROVE  Append(text, ref) \in Texts
  BY <1>4 DEF Texts
<1>5. CASE ref = Null
  <2>1. ApplyChange(text, change) = eraseTextRange(text, at)
    BY <1>5 DEF ApplyChange
  <2> QED
    BY <1>2, <2>1 DEF eraseTextRange
<1>6. CASE ref # Null
  <2>1. ApplyChange(text, change) = insertTextAt(text, at, ref)
    BY <1>6 DEF ApplyChange
  <2>2. ref \in References
    BY <1>6
  <2> QED
    BY <1>3, <1>4, <2>1, <2>2 DEF insertTextAt
<1> QED
  BY <1>5, <1>6

\* A change of one range
IsChange(x) == x.from \in Nat /\ (x.insert = Null \/ x.insert \in References)
IsEdited(edit) ==
  \/ \E x : IsChange(x) /\ edit = <<x>>
  \/ MultiRange /\ \E x, y : IsChange(x) /\ IsChange(y) /\ edit = <<x, y>>

LEMMA EditsAre ==
  /\ \A edit \in Edit : IsEdited(edit)
  /\ \A from \in Nat, ref \in Typed : IsEdited(<<[from |-> from, insert |-> ref]>>)
<1>1. MaxText \in Nat /\ Typed \subseteq References
  BY EditorAssumption
<1>2. \A x \in Changes : IsChange(x)
  BY <1>1 DEF Changes, IsChange
<1>3. \A x \in [from : 0..(MaxText - 1), insert : {Null}] : IsChange(x)
  BY <1>1 DEF IsChange
<1>4. ASSUME NEW from \in Nat, NEW ref \in Typed
      PROVE  IsEdited(<<[from |-> from, insert |-> ref]>>)
  <2>1. IsChange([from |-> from, insert |-> ref])
    BY <1>1 DEF IsChange
  <2> QED
    BY <2>1 DEF IsEdited
<1>5. ASSUME NEW edit \in Edit
      PROVE  IsEdited(edit)
  <2> DEFINE E == [from : 0..(MaxText - 1), insert : {Null}]
  <2> HIDE DEF E
  <2>1. \/ \E x \in Changes : edit = <<x>>
        \/ MultiRange /\ \E x, y \in E : edit = <<x, y>>
    BY DEF Edit, E
  <2> QED
    BY <1>2, <1>3, <2>1 DEF IsEdited, E
<1> QED
  BY <1>4, <1>5

LEMMA EditedTexts ==
  ASSUME NEW edit, IsEdited(edit), NEW text \in Texts
  PROVE  /\ Edited(text, edit) \in Texts /\ MirrorChanges(text, edit) \in Texts
         /\ ~MultiRange => Edited(text, edit) = MirrorChanges(text, edit)
<1>1. CASE \E x : IsChange(x) /\ edit = <<x>>
  <2>1. PICK x : IsChange(x) /\ edit = <<x>>
    BY <1>1
  <2>2. Len(edit) = 1 /\ edit[1] = x
    BY <2>1
  <2>3. ApplyChange(text, x) \in Texts
    BY <2>1, ChangedTexts DEF IsChange
  <2> QED
    BY <2>2, <2>3 DEF Edited, MirrorChanges
<1>2. CASE MultiRange /\ \E x, y : IsChange(x) /\ IsChange(y) /\ edit = <<x, y>>
  <2>1. PICK x, y : IsChange(x) /\ IsChange(y) /\ edit = <<x, y>>
    BY <1>2
  <2>2. Len(edit) = 2 /\ edit[1] = x /\ edit[2] = y
    BY <2>1
  <2>3. \A doc \in Texts : ApplyChange(doc, x) \in Texts /\ ApplyChange(doc, y) \in Texts
    BY <2>1, ChangedTexts DEF IsChange
  <2> QED
    BY <1>2, <2>2, <2>3 DEF Edited, MirrorChanges
<1> QED
  BY <1>1, <1>2 DEF IsEdited

-----------------------------------------------------------------------------
(***************************************************************************)
(* The steps of the editor.                                                *)
(***************************************************************************)
TypedOK == typed \in [Connectors -> {"no", "early", "raced"}]

\* What a render of the workbook c leaves in the view
Renders(r, c, v) ==
  LET s == <<c, MainKey>>
  IN /\ v.targetScript = s /\ v.scriptBuffers = Processed(r, s)
     /\ v.derivedFocus = r.userFocus[c]
     /\ v.decorations.focused = buildDecorationsFromFocus(Buffers(r, v.scriptBuffers), v.derivedFocus)

\* Nothing is left to do
Rendered ==
  phase = "idle" =>
    /\ queue = <<>>
    /\ MountedView(view) => Renders(reg, current, view) /\ ~reg.scripts[Displayed].outdatedAnalysis

EditorInv ==
  /\ Books(reg, queue, typed, inflight) /\ Shows(reg, queue, view, active, typed)
  /\ current \in Connectors /\ TypedOK /\ Rendered

LEMMA UsedNames ==
  ASSUME EditorInv
  PROVE  /\ IsFiniteSet(Used) /\ \A s \in ScriptIds : Processed(reg, s) \in Used
         /\ view.scriptBuffers \in Used
<1>1. RegistryOK(reg) /\ queue \in Seq(Dispatched)
  BY DEF EditorInv, Books
<1>2. IsFiniteSet(Held(reg, queue)) /\ \A s \in ScriptIds : Processed(reg, s) \in Held(reg, queue)
  BY <1>1, HeldNames
<1>3. Used = (Held(reg, queue) \cup {view.scriptBuffers}) \cup {active.scriptBuffers}
  BY DEF Used
<1>4. IsFiniteSet(Held(reg, queue) \cup {view.scriptBuffers})
  BY <1>2, FS_AddElement
<1>5. IsFiniteSet((Held(reg, queue) \cup {view.scriptBuffers}) \cup {active.scriptBuffers})
  BY <1>4, FS_AddElement
<1> QED
  BY <1>2, <1>3, <1>5

\* The script that the view shows
LEMMA TargetIs ==
  ASSUME NEW r, NEW q, NEW v, NEW a, ViewOK(r, q, v, a), v.targetScript # NoScript
  PROVE  /\ v.targetScript \in ScriptIds /\ v.targetScript[2] = MainKey /\ v.targetScript[1] \in Connectors
         /\ v.targetScript \in Connectors \X (0..2)
         /\ MountedView(v) /\ v.completeWith \in Connectors
         /\ <<v.completeWith, v.targetScript[2]>> \in ScriptIds \cap (Connectors \X (0..2))
<1>1. v.targetScript \in ScriptIds /\ v.targetScript[2] = MainKey
  BY ViewFields DEF ViewOK
<1>2. MountedView(v) /\ v.completeWith \in Connectors
  BY DEF ViewOK
<1> QED
  BY <1>1, <1>2, ScriptIdsAre

\* The end of a completion, of which the other workbooks hear nothing
LEMMA StopsAre ==
  ASSUME NEW r, NEW q, NEW v, NEW a, ViewOK(r, q, v, a)
  PROVE  /\ StopsCompletion(v) \in Seq(Dispatched)
         /\ \A i \in DOMAIN StopsCompletion(v) : StopsCompletion(v)[i].type = "COMPLETION_STOPPED"
         /\ NoMoves(StopsCompletion(v)) /\ NoLoads(StopsCompletion(v))
<1>1. CASE v.completion = "active"
  <2> DEFINE stop == Action("COMPLETION_STOPPED", <<v.completeWith, v.targetScript[2]>>)
  <2>1. v.targetScript # NoScript
    BY <1>1 DEF ViewOK
  <2>2. /\ <<v.completeWith, v.targetScript[2]>> \in ScriptIds \cap (Connectors \X (0..2))
        /\ v.targetScript[2] = MainKey
    BY <2>1, TargetIs
  <2>3. stop \in Dispatched /\ stop.type = "COMPLETION_STOPPED"
    BY <2>2 DEF Action, ActionWith, Dispatched, ActionOK, ActionTypes
  <2>4. StopsCompletion(v) = <<stop>>
    BY <1>1 DEF StopsCompletion
  <2> HIDE DEF stop
  <2>5. <<stop>> \in Seq(Dispatched) /\ DOMAIN <<stop>> = {1} /\ <<stop>>[1] = stop
    BY <2>3
  <2> QED
    BY <2>3, <2>4, <2>5 DEF NoMoves, NoLoads
<1>2. CASE v.completion # "active"
  <2>1. StopsCompletion(v) = <<>>
    BY <1>2 DEF StopsCompletion
  <2>2. <<>> \in Seq(Dispatched) /\ DOMAIN <<>> = {}
    OBVIOUS
  <2> QED
    BY <2>1, <2>2 DEF NoMoves, NoLoads
<1> QED
  BY <1>1, <1>2

LEMMA Touched ==
  ASSUME TypedOK, NEW c \in Connectors, Touch(c)
  PROVE  /\ typed' \in [Connectors -> {"no", "early", "raced"}] /\ Remembers(typed, typed')
         /\ typed'[c] = "no" => NoLoading(reg, c)
         /\ typed'[c] # "raced" => ~Arrived(c)
<1>1. typed \in [Connectors -> {"no", "early", "raced"}]
  BY DEF TypedOK
<1>2. typed' = IF Arrived(c) THEN [typed EXCEPT ![c] = "raced"]
               ELSE IF Loading(c) /\ typed[c] = "no" THEN [typed EXCEPT ![c] = "early"]
               ELSE typed
  BY DEF Touch
<1>3. ~Loading(c) => NoLoading(reg, c)
  BY DEF Loading, NoLoading, IsLoading
<1> QED
  BY <1>1, <1>2, <1>3 DEF Remembers

LEMMA NothingArrived ==
  ASSUME NEW c, ~Arrived(c)
  PROVE  NoArrival(queue, c) /\ (view.targetScript[1] = c => view.doc = reg.text[view.targetScript])
BY DEF Arrived, NoArrival, IsLoaded

\* What a registry keeps, the decorations keep
LEMMA StillPainted ==
  ASSUME NEW r, NEW v, Painted(r, v), NEW r2,
         v.scriptBuffers \in Alive(r2) => v.scriptBuffers \in Alive(r),
         \A b \in Alive(r) : r2.buffers[b] = r.buffers[b]
  PROVE  Painted(r2, v)
BY DEF Painted

LEMMA CursorChanges ==
  ASSUME NEW v \in ViewTypes, NEW cursor \in Cursors \cup {Null}
  PROVE  Viewed([v EXCEPT !.scriptCursor = cursor],
                v.doc, v.targetScript, v.scriptBuffers, cursor, v.derivedFocus,
                v.completion, v.completeWith, v.decorations)
BY DEF ViewTypes, Viewed

\* The cursor is moved: the view v with the cursor, the script is told
LEMMA CursorShown ==
  ASSUME NEW r, NEW q, NEW a, NEW ty, NEW fl, Books(r, q, ty, fl),
         NEW v, Shows(r, q, v, a, ty), Painted(r, view), v.decorations = view.decorations,
         v.targetScript # NoScript, NEW cursor \in Cursors,
         NEW x \in Dispatched, x.type = "UPDATE_SCRIPT_CURSOR", x.script = v.targetScript
  PROVE  Shows(r, q \o <<x>>, Decorated(r, [v EXCEPT !.scriptCursor = cursor]), a, ty)
<1> DEFINE w == [v EXCEPT !.scriptCursor = cursor]
           z == Decorated(r, w)
           y == q \o <<x>>
<1>1. v \in ViewTypes /\ RegistryOK(r) /\ q \in Seq(Dispatched) /\ ViewOK(r, q, v, a) /\ cursor # Null
  BY CursorFields DEF Shows, ViewOK, Books
<1>2. Viewed(w, v.doc, v.targetScript, v.scriptBuffers, cursor, v.derivedFocus,
             v.completion, v.completeWith, v.decorations)
  BY <1>1, CursorChanges
<1> HIDE DEF w
<1>3. w \in ViewTypes /\ w.decorations = view.decorations
  BY <1>2 DEF Viewed
<1>4. PICK decorations \in Decorations :
        Viewed(z, w.doc, w.targetScript, w.scriptBuffers, w.scriptCursor,
               w.derivedFocus, w.completion, w.completeWith, decorations)
  BY <1>1, <1>3, DecoratedIs
<1>5. Painted(r, z)
  BY <1>1, <1>3, DecoratedIs
<1> HIDE DEF z
<1>6. Viewed(z, v.doc, v.targetScript, v.scriptBuffers, cursor, v.derivedFocus,
             v.completion, v.completeWith, decorations)
  BY <1>2, <1>4 DEF Viewed
<1>7. <<x>> \in Seq(Dispatched) /\ NoUpdates(<<x>>)
  BY DEF NoUpdates
<1>8. ViewOK(r, y, z, a)
  <2>1. ViewOK(r, y, v, a)
    BY <1>1, <1>7, ViewAppended
  <2>2. \E i \in DOMAIN y : MovesCursor(y[i], v.targetScript)
    <3>1. Len(q) + 1 \in DOMAIN y /\ y[Len(q) + 1] = x
      BY <1>1, OneMore
    <3> QED
      BY <3>1 DEF MovesCursor
  <2> HIDE DEF y
  <2> QED
    BY <1>1, <1>6, <2>1, <2>2 DEF ViewOK, Viewed, MountedView
<1>9. ~MultiRange => Mirrors(r, y, z, ty)
  <2>1. ~MultiRange => Mirrors(r, y, v, ty)
    BY <1>1, <1>7, MirrorsAppended DEF Shows
  <2> QED
    BY <1>6, <2>1 DEF Mirrors, Viewed
<1> QED
  BY <1>5, <1>8, <1>9 DEF Shows, z, w

LEMMA CursorMoved ==
  ASSUME EditorInv, updateCursor
  PROVE  EditorInv'
<1> DEFINE s == view.targetScript
           stops == StopsCompletion(view)
           v == Closed(view)
<1>1. s # NoScript /\ inflight' = inflight /\ current' = current /\ active' = active /\ phase' = "dirty"
  BY DEF updateCursor
<1>2. PICK offset \in 0..Len(view.doc) :
        LET cursor == moveCursor(reg, s, offset)
            x == ActionWith("UPDATE_SCRIPT_CURSOR", s, Null, cursor)
        IN /\ view' = Decorated(reg, [v EXCEPT !.scriptCursor = cursor])
           /\ Dispatch(reg, phase = "idle", stops \o <<x>>, Used)
           /\ Touch(s[1])
  BY DEF updateCursor
<1> DEFINE cursor == moveCursor(reg, s, offset)
           x == ActionWith("UPDATE_SCRIPT_CURSOR", s, Null, cursor)
           q2 == queue \o stops
<1>3. /\ view' = Decorated(reg, [v EXCEPT !.scriptCursor = cursor])
      /\ Dispatch(reg, phase = "idle", stops \o <<x>>, Used)
      /\ Touch(s[1])
  BY <1>2
<1>4. /\ RegistryOK(reg) /\ queue \in Seq(Dispatched) /\ ViewOK(reg, queue, view, active)
      /\ view \in ViewTypes /\ Painted(reg, view)
  BY DEF EditorInv, Books, Shows, ViewOK
<1>5. s \in ScriptIds /\ s[2] = MainKey /\ s[1] \in Connectors /\ s \in Connectors \X (0..2)
  BY <1>1, <1>4, TargetIs
<1>6. /\ typed' \in [Connectors -> {"no", "early", "raced"}] /\ Remembers(typed, typed')
      /\ typed'[s[1]] = "no" => NoLoading(reg, s[1])
  BY <1>3, <1>5, Touched DEF EditorInv
<1>7. cursor \in Cursors
  <2>1. reg.text[s] \in Texts
    BY <1>4, <1>5, RegistryFields DEF RegistryOK
  <2>2. offset \in Nat
    <3>1. view.doc \in Texts
      BY <1>4, ViewFields
    <3> QED
      BY <3>1 DEF Texts
  <2> QED
    BY <2>1, <2>2, CursorTypes DEF moveCursor
<1> HIDE DEF cursor
<1>8. x \in Dispatched /\ x.type = "UPDATE_SCRIPT_CURSOR" /\ x.script = s
  BY <1>5, <1>7 DEF ActionWith, Dispatched, ActionOK, ActionTypes
<1> HIDE DEF x
<1>9. stops \in Seq(Dispatched) /\ NoMoves(stops) /\ NoLoads(stops)
  BY <1>4, StopsAre
<1>10. Books(reg, queue, typed', inflight) /\ Shows(reg, queue, view, active, typed')
  BY <1>4, <1>6, Remembered DEF EditorInv
<1>11. Books(reg, q2, typed', inflight) /\ Shows(reg, q2, view, active, typed')
  BY <1>9, <1>10, Waits
<1>12. v.targetScript = s /\ v.decorations = view.decorations
  BY <1>4, ClosedIs DEF Viewed
<1>13. Shows(reg, q2, v, active, typed')
  BY <1>11, ClosedShows
<1> HIDE DEF v, stops
<1>14. Books(reg, q2 \o <<x>>, typed', inflight)
  BY <1>6, <1>8, <1>11, CursorWaits
<1>15. Shows(reg, q2 \o <<x>>, view', active, typed')
  <2>1. x.script = v.targetScript /\ v.targetScript # NoScript
    BY <1>1, <1>8, <1>12
  <2> HIDE DEF s
  <2> QED
    BY <1>3, <1>4, <1>7, <1>8, <1>11, <1>12, <1>13, <2>1, CursorShown
<1>16. <<x>> \in Seq(Dispatched) /\ stops \o <<x>> \in Seq(Dispatched)
       /\ q2 \o <<x>> = queue \o (stops \o <<x>>)
  <2>1. <<x>> \in Seq(Dispatched)
    BY <1>8
  <2> QED
    BY <1>4, <1>9, <2>1, ConcatAssociative, ConcatProperties
<1>17. view'.scriptBuffers \in Used
  <2>1. PICK b : v.scriptBuffers = b /\ b \in Used /\ v \in ViewTypes
    BY <1>4, ClosedIs, UsedNames DEF Viewed, v
  <2>2. Viewed([v EXCEPT !.scriptCursor = cursor], v.doc, v.targetScript, v.scriptBuffers, cursor,
               v.derivedFocus, v.completion, v.completeWith, v.decorations)
    BY <1>7, <2>1, CursorChanges
  <2> DEFINE w == [v EXCEPT !.scriptCursor = cursor]
  <2> HIDE DEF w
  <2>3. w \in ViewTypes /\ w.scriptBuffers = b /\ w.decorations = view.decorations
    BY <1>12, <2>1, <2>2 DEF Viewed, w
  <2>4. Decorated(reg, w).scriptBuffers = b
    BY <1>4, <2>3, DecoratedIs DEF Viewed
  <2> QED
    BY <1>3, <2>1, <2>4 DEF w
<1>18. Books(reg', queue', typed', inflight) /\ Shows(reg', queue', view', active, typed')
  <2> HIDE DEF s, q2
  <2> DEFINE actions == stops \o <<x>>
             vv == view'
             ty == typed'
  <2>1. Dispatch(reg, phase = "idle", actions, Used) /\ actions \in Seq(Dispatched)
    BY <1>3, <1>16 DEF x, cursor
  <2>2. Books(reg, queue \o actions, ty, inflight) /\ Shows(reg, queue \o actions, vv, active, ty)
    BY <1>14, <1>15, <1>16
  <2> HIDE DEF actions, vv, ty
  <2> QED
    BY <1>4, <1>17, <2>1, <2>2, UsedNames, DispatchKeeps DEF vv, ty
<1> QED
  BY <1>1, <1>6, <1>18 DEF EditorInv, TypedOK, Rendered

LEMMA ArrivalsAppended ==
  ASSUME NEW q \in Seq(Dispatched), NEW x \in Seq(Dispatched), NoLoads(x), NEW c, NoArrival(q, c)
  PROVE  NoArrival(q \o x, c)
<1> DEFINE y == q \o x
<1>1. /\ \A i \in DOMAIN q : i \in DOMAIN y /\ y[i] = q[i]
      /\ \A i \in DOMAIN y : i \notin DOMAIN q => i - Len(q) \in DOMAIN x /\ y[i] = x[i - Len(q)]
  BY ConcatIs
<1> HIDE DEF y
<1> QED
  BY <1>1 DEF NoArrival, NoLoads, IsLoaded, y

SetActive(a, b) == [a EXCEPT !.scriptBuffers = b]
SetDocument(v, doc, buffers, cursor) ==
  [v EXCEPT !.doc = doc, !.scriptBuffers = buffers, !.scriptCursor = cursor]

LEMMA DocumentChanges ==
  ASSUME NEW v \in ViewTypes, NEW doc \in Texts, NEW buffers \in Nat, NEW cursor \in Cursors \cup {Null}
  PROVE  Viewed(SetDocument(v, doc, buffers, cursor),
                doc, v.targetScript, buffers, cursor, v.derivedFocus,
                v.completion, v.completeWith, v.decorations)
BY DEF SetDocument, ViewTypes, Viewed

\* The document of the view v is edited: r2 has the text with the buffers b, and the script
\* is told with x
EditsDocument(r, q, a, ty, v, s, b, r2, doc, cursor, x) ==
  /\ \E fl : Books(r, q, ty, fl)
  /\ Shows(r, q, v, a, ty)
  /\ Painted(r, view)
  /\ v.decorations = view.decorations /\ v.targetScript = s
  /\ s \in ScriptIds /\ s # NoScript
  /\ Types(r, r2, s, b)
  /\ b # view.scriptBuffers
  /\ doc \in Texts /\ cursor \in Cursors
  /\ ~MultiRange /\ ty[s[1]] # "raced" => doc = r2.text[s]
  /\ x \in Dispatched
  /\ x.type = "UPDATE_SCRIPT_ANALYSIS" /\ x.script = s /\ x.value = b

LEMMA TypingShown ==
  ASSUME NEW r, NEW q, NEW a, NEW ty, NEW v, NEW s, NEW b, NEW r2, NEW doc, NEW cursor, NEW x,
         EditsDocument(r, q, a, ty, v, s, b, r2, doc, cursor, x)
  PROVE  /\ Shows(r2, q \o <<x>>,
                  Decorated(r2, SetDocument(v, doc, b, cursor)),
                  SetActive(a, b), ty)
         /\ Decorated(r2, SetDocument(v, doc, b, cursor)).scriptBuffers = b
<1> DEFINE w == SetDocument(v, doc, b, cursor)
           z == Decorated(r2, w)
           y == q \o <<x>>
           a2 == SetActive(a, b)
<1>0. /\ Shows(r, q, v, a, ty) /\ Types(r, r2, s, b) /\ Painted(r, view)
      /\ s \in ScriptIds /\ s # NoScript /\ v.decorations = view.decorations /\ v.targetScript = s
      /\ b # view.scriptBuffers /\ doc \in Texts /\ cursor \in Cursors /\ x \in Dispatched
      /\ x.type = "UPDATE_SCRIPT_ANALYSIS" /\ x.script = s /\ x.value = b
  BY DEF EditsDocument
<1>1. /\ v \in ViewTypes /\ RegistryOK(r) /\ q \in Seq(Dispatched) /\ ViewOK(r, q, v, a) /\ cursor # Null
      /\ RegistryOK(r2) /\ b \in Nat
  BY <1>0, CursorFields DEF EditsDocument, Shows, ViewOK, Books, Types
<1>2. Viewed(w, doc, v.targetScript, b, cursor, v.derivedFocus,
             v.completion, v.completeWith, v.decorations)
  BY <1>0, <1>1, DocumentChanges
<1> HIDE DEF w
<1>3. w \in ViewTypes /\ w.decorations = view.decorations
  BY <1>0, <1>2 DEF Viewed
<1>4. Painted(r2, view)
  <2>1. \A p \in Alive(r2) : p # b => p \in Alive(r)
    BY <1>0 DEF Types
  <2>2. \A p \in Alive(r) : r2.buffers[p] = r.buffers[p]
    BY <1>0 DEF Types
  <2> QED
    BY <1>0, <2>1, <2>2, StillPainted
<1>5. PICK decorations \in Decorations :
        Viewed(z, w.doc, w.targetScript, w.scriptBuffers, w.scriptCursor,
               w.derivedFocus, w.completion, w.completeWith, decorations)
  BY <1>1, <1>3, <1>4, DecoratedIs
<1>6. Painted(r2, z)
  BY <1>1, <1>3, <1>4, DecoratedIs
<1> HIDE DEF z
<1>7. Viewed(z, doc, s, b, cursor, v.derivedFocus, v.completion, v.completeWith, decorations)
  BY <1>0, <1>2, <1>5 DEF Viewed
<1>8. a2 \in [script : ScriptIds \cup {NoScript}, scriptBuffers : Nat] /\ a2.scriptBuffers = b
      /\ a2.script = a.script
  BY <1>1 DEF ViewOK, SetActive
<1> HIDE DEF a2
<1>9. ViewOK(r2, y, z, a2)
  <2>1. \E i \in DOMAIN y : MovesCursor(y[i], s)
    <3>1. Len(q) + 1 \in DOMAIN y /\ y[Len(q) + 1] = x
      BY <1>0, <1>1, OneMore
    <3> QED
      BY <1>0, <3>1 DEF MovesCursor
  <2> HIDE DEF y
  <2>2. MountedView(v) /\ s[2] = MainKey
    BY <1>0, <1>1, TargetIs
  <2>3. MountedView(z) /\ z.targetScript = a2.script /\ z.completeWith \in Connectors
    BY <1>0, <1>1, <1>7, <1>8, <2>2 DEF ViewOK, Viewed, MountedView
  <2> QED
    BY <1>0, <1>1, <1>7, <1>8, <2>1, <2>2, <2>3 DEF ViewOK, Viewed
<1>10. ~MultiRange => Mirrors(r2, y, z, ty)
  BY <1>7 DEF EditsDocument, Mirrors, Viewed
<1> QED
  BY <1>6, <1>7, <1>9, <1>10 DEF Shows, z, w, a2, Viewed

LEMMA ScriptUpdates ==
  ASSUME EditorInv, NEW edit, IsEdited(edit), NEW offset \in Nat, NEW closes \in BOOLEAN,
         view.targetScript # NoScript, updateScript(edit, offset, closes),
         inflight' = inflight, current' = current, phase' = "dirty"
  PROVE  EditorInv'
<1> DEFINE s == view.targetScript
           b == FreshBuffers(reg, Used)
           text == MirrorChanges(reg.text[s], edit)
           doc == Edited(view.doc, edit)
           r == parseAndAnalyzeScript(SetText(reg, s, text), s, b)
           cursor == moveCursor(r, s, offset)
           stops == IF closes THEN StopsCompletion(view) ELSE <<>>
           v == IF closes THEN Closed(view) ELSE view
           w == SetDocument(v, doc, b, cursor)
           x == ActionWith("UPDATE_SCRIPT_ANALYSIS", s, b, cursor)
           q2 == queue \o stops
<1>1. /\ view' = Decorated(r, w)
      /\ active' = SetActive(active, b)
      /\ Dispatch(r, phase = "idle", stops \o <<x>>, Used \cup {b})
      /\ Touch(s[1])
  BY DEF updateScript, SetText, SetDocument, SetActive
<1>2. /\ RegistryOK(reg) /\ queue \in Seq(Dispatched) /\ ViewOK(reg, queue, view, active)
      /\ view \in ViewTypes /\ Painted(reg, view) /\ view.doc \in Texts
  BY ViewFields DEF EditorInv, Books, Shows, ViewOK
<1>3. s \in ScriptIds /\ s[2] = MainKey /\ s[1] \in Connectors /\ s \in Connectors \X (0..2)
  BY <1>2, TargetIs
<1>4. /\ typed' \in [Connectors -> {"no", "early", "raced"}] /\ Remembers(typed, typed')
      /\ typed'[s[1]] = "no" => NoLoading(reg, s[1])
      /\ typed'[s[1]] # "raced" => NoArrival(queue, s[1]) /\ view.doc = reg.text[s]
  BY <1>1, <1>3, Touched, NothingArrived DEF EditorInv
<1>5. b \in Nat \ {0} /\ b \notin Used /\ b \notin Alive(reg)
  BY <1>2, UsedNames, FreshBuffersAreFresh DEF RegistryOK, Alive
<1> HIDE DEF b
<1>6. reg.text[s] \in Texts
  BY <1>2, <1>3, RegistryFields DEF RegistryOK
<1>7. text \in Texts /\ doc \in Texts /\ (~MultiRange /\ view.doc = reg.text[s] => doc = text)
  BY <1>2, <1>6, EditedTexts
<1> HIDE DEF text, doc
<1>8. Types(reg, r, s, b) /\ r.text[s] = text
  BY <1>2, <1>3, <1>5, <1>7, TypesText
<1> HIDE DEF r
<1>9. cursor \in Cursors
  BY <1>7, <1>8, CursorTypes DEF moveCursor
<1> HIDE DEF cursor
<1>10. x \in Dispatched /\ x.type = "UPDATE_SCRIPT_ANALYSIS" /\ x.script = s /\ x.value = b
  BY <1>3, <1>5, <1>9 DEF ActionWith, Dispatched, ActionOK, ActionTypes
<1> HIDE DEF x
<1>22. IsUpdate(x, s)
  BY <1>10 DEF IsUpdate
<1>11. stops \in Seq(Dispatched) /\ NoMoves(stops) /\ NoLoads(stops)
  <2>1. <<>> \in Seq(Dispatched) /\ NoMoves(<<>>) /\ NoLoads(<<>>)
    BY DEF NoMoves, NoLoads
  <2> QED
    BY <1>2, <2>1, StopsAre
<1> DEFINE ty == typed'
<1>12. Books(reg, queue, ty, inflight) /\ Shows(reg, queue, view, active, ty)
  BY <1>2, <1>4, Remembered DEF EditorInv
<1> HIDE DEF stops, ty
<1>13. Books(reg, q2, ty, inflight) /\ Shows(reg, q2, view, active, ty)
  BY <1>11, <1>12, Waits
<1>14. /\ v.targetScript = s /\ v.decorations = view.decorations
  BY <1>2, ClosedIs DEF Viewed
<1>15. Shows(reg, q2, v, active, ty)
  BY <1>13, ClosedShows
<1>16. NoArrival(queue, s[1]) => NoArrival(q2, s[1])
  BY <1>2, <1>11, ArrivalsAppended
<1> HIDE DEF q2, v
<1>17. Books(r, q2 \o <<x>>, ty, inflight)
  <2>1. /\ ty[s[1]] # "raced" => NoArrival(q2, s[1])
        /\ ty[s[1]] = "no" => NoLoading(reg, s[1])
    BY <1>4, <1>16 DEF ty
  <2> HIDE DEF s
  <2> QED
    BY <1>3, <1>8, <1>10, <1>13, <1>22, <2>1, TypingWaits
<1>18. Shows(r, q2 \o <<x>>, view', active', ty) /\ view'.scriptBuffers = b
  <2>1. ~MultiRange /\ ty[s[1]] # "raced" => doc = r.text[s]
    BY <1>4, <1>7, <1>8 DEF ty
  <2>2. s # NoScript /\ b # view.scriptBuffers
    BY <1>5, UsedNames
  <2> HIDE DEF s
  <2>3. /\ Shows(r, q2 \o <<x>>, Decorated(r, w), SetActive(active, b), ty)
        /\ Decorated(r, w).scriptBuffers = b
    <3>1. Books(reg, q2, ty, inflight)
      BY <1>13
    <3>2. Painted(reg, view)
      BY <1>2
    <3>3. v.decorations = view.decorations
      BY <1>14
    <3>4. v.targetScript = s
      BY <1>14
    <3>5. s \in ScriptIds
      BY <1>3
    <3>6. s # NoScript
      BY <2>2
    <3>7. Types(reg, r, s, b)
      BY <1>8
    <3>8. b # view.scriptBuffers
      BY <2>2
    <3>9. doc \in Texts
      BY <1>7
    <3>10. x \in Dispatched
      BY <1>10
    <3>11. x.type = "UPDATE_SCRIPT_ANALYSIS"
      BY <1>10
    <3>12. x.script = s
      BY <1>10
    <3>13. x.value = b
      BY <1>10
    <3>14. EditsDocument(reg, q2, active, ty, v, s, b, r, doc, cursor, x)
      BY <1>9, <1>15, <2>1, <3>1, <3>2, <3>3, <3>4, <3>5, <3>6, <3>7, <3>8, <3>9, <3>10, <3>11, <3>12,
         <3>13 DEF EditsDocument
    <3> QED
      BY <3>14, TypingShown
  <2> QED
    BY <1>1, <2>3
<1>19. <<x>> \in Seq(Dispatched) /\ stops \o <<x>> \in Seq(Dispatched)
       /\ q2 \o <<x>> = queue \o (stops \o <<x>>)
  <2>1. <<x>> \in Seq(Dispatched)
    BY <1>10
  <2> QED
    BY <1>2, <1>11, <2>1, ConcatAssociative, ConcatProperties DEF q2
<1>20. /\ IsFiniteSet(Used \cup {b}) /\ \A u \in ScriptIds : Processed(r, u) \in Used \cup {b}
  BY <1>8, UsedNames, FS_AddElement DEF Types, Processed
<1>21. Books(reg', queue', ty, inflight) /\ Shows(reg', queue', view', active', ty)
  <2> DEFINE actions == stops \o <<x>>
             vv == view'
             aa == active'
             used == Used \cup {b}
  <2>1. Dispatch(r, phase = "idle", actions, used) /\ actions \in Seq(Dispatched)
    BY <1>1, <1>19 DEF x, cursor
  <2>2. Books(r, queue \o actions, ty, inflight) /\ Shows(r, queue \o actions, vv, aa, ty)
    BY <1>17, <1>18, <1>19
  <2>3. /\ vv.scriptBuffers \in used /\ IsFiniteSet(used)
        /\ \A u \in ScriptIds : Processed(r, u) \in used
    BY <1>18, <1>20
  <2> HIDE DEF actions, vv, aa, used, s
  <2> QED
    BY <1>2, <2>1, <2>2, <2>3, DispatchKeeps DEF vv, aa
<1> QED
  BY <1>4, <1>21 DEF EditorInv, TypedOK, Rendered, ty

LEMMA Typing ==
  ASSUME EditorInv, Type \/ applyCompletion
  PROVE  EditorInv'
<1>1. CASE Type
  <2>1. view.targetScript # NoScript /\ inflight' = inflight /\ current' = current /\ phase' = "dirty"
    BY <1>1 DEF Type
  <2>2. PICK edit \in Edit, closes \in BOOLEAN : updateScript(edit, CursorAfter(edit), closes)
    BY <1>1 DEF Type
  <2>3. IsEdited(edit)
    BY EditsAre
  <2>4. CursorAfter(edit) \in Nat
    <3>1. edit[1].from \in Nat
      BY <2>3 DEF IsEdited, IsChange
    <3> QED
      BY <3>1 DEF CursorAfter
  <2> QED
    BY <2>1, <2>2, <2>3, <2>4, ScriptUpdates
<1>2. CASE applyCompletion
  <2>1. inflight' = inflight /\ current' = current /\ phase' = "dirty" /\ view.completion = "active"
    BY <1>2 DEF applyCompletion
  <2>2. view.targetScript # NoScript /\ view.scriptCursor \in Cursors /\ view.doc \in Texts
    BY <2>1, ViewFields DEF EditorInv, Shows, ViewOK
  <2> DEFINE from == IF view.scriptCursor.textOffset < Len(view.doc)
                     THEN view.scriptCursor.textOffset ELSE Len(view.doc)
  <2>3. from \in Nat /\ from + 1 \in Nat
    <3>1. view.scriptCursor.textOffset \in Nat /\ Len(view.doc) \in Nat
      BY <2>2, CursorFields DEF Texts
    <3> QED
      BY <3>1
  <2>4. PICK candidate \in Typed :
          updateScript(<<[from |-> from, insert |-> candidate]>>, from + 1, TRUE)
    BY <1>2 DEF applyCompletion
  <2> HIDE DEF from
  <2>5. IsEdited(<<[from |-> from, insert |-> candidate]>>)
    BY <2>3, EditsAre
  <2> QED
    BY <2>1, <2>2, <2>3, <2>4, <2>5, ScriptUpdates
<1> QED
  BY <1>1, <1>2

\* Actions that are dispatched with a registry r
LEMMA Dispatches ==
  ASSUME EditorInv, NEW r, NEW actions \in Seq(Dispatched), NEW used, IsFiniteSet(used),
         Dispatch(r, phase = "idle", actions, used),
         Books(r, queue \o actions, typed', inflight'), Shows(r, queue \o actions, view', active', typed'),
         \A s \in ScriptIds : Processed(r, s) \in used, view'.scriptBuffers \in used,
         typed' \in [Connectors -> {"no", "early", "raced"}], current' \in Connectors, phase' = "dirty"
  PROVE  EditorInv'
<1> DEFINE v == view'
           a == active'
           ty == typed'
           fl == inflight'
<1>1. queue \in Seq(Dispatched)
  BY DEF EditorInv, Books
<1>2. /\ Books(r, queue \o actions, ty, fl) /\ Shows(r, queue \o actions, v, a, ty)
      /\ v.scriptBuffers \in used
  OBVIOUS
<1> HIDE DEF v, a, ty, fl
<1>3. Books(reg', queue', ty, fl) /\ Shows(reg', queue', v, a, ty)
  BY <1>1, <1>2, DispatchKeeps
<1> QED
  BY <1>3 DEF EditorInv, TypedOK, Rendered, v, a, ty, fl

\* An action about completions is dispatched
LEMMA CompletionDispatched ==
  ASSUME EditorInv, NEW type \in CompletionTypes, NEW index \in Nat \cup {Null},
         type = "COMPLETION_CHANGED" => index \in Nat,
         DispatchCompletion(type, index), view.targetScript # NoScript,
         Shows(reg, queue, view', active, typed), view'.scriptBuffers = view.scriptBuffers
  PROVE  EditorInv'
<1> DEFINE s == <<view.completeWith, view.targetScript[2]>>
           x == ActionWith(type, s, index, Null)
           v == view'
<1>1. /\ Dispatch(reg, phase = "idle", <<x>>, Used) /\ phase' = "dirty"
      /\ inflight' = inflight /\ current' = current /\ active' = active /\ typed' = typed
  BY DEF DispatchCompletion
<1>2. ViewOK(reg, queue, view, active) /\ queue \in Seq(Dispatched)
  BY DEF EditorInv, Shows, Books
<1>3. s \in ScriptIds \cap (Connectors \X (0..2)) /\ s[2] = MainKey
  BY <1>2, TargetIs
<1> HIDE DEF s
<1>4. x \in Dispatched /\ x.type \in CompletionTypes
  BY <1>3 DEF ActionWith, Dispatched, ActionOK, ActionTypes, CompletionTypes
<1>5. <<x>> \in Seq(Dispatched) /\ DOMAIN <<x>> = {1} /\ <<x>>[1] = x
  BY <1>4
<1>6. NoMoves(<<x>>) /\ NoLoads(<<x>>)
  BY <1>4, <1>5 DEF NoMoves, NoLoads, CompletionTypes
<1> HIDE DEF x
<1>7. Books(reg, queue, typed, inflight) /\ Shows(reg, queue, v, active, typed)
  BY DEF EditorInv
<1> HIDE DEF v
<1>8. Books(reg, queue \o <<x>>, typed, inflight) /\ Shows(reg, queue \o <<x>>, v, active, typed)
  BY <1>5, <1>6, <1>7, Waits
<1>9. IsFiniteSet(Used) /\ (\A u \in ScriptIds : Processed(reg, u) \in Used) /\ v.scriptBuffers \in Used
  BY UsedNames DEF v
<1>10. /\ Books(reg, queue \o <<x>>, typed', inflight')
       /\ Shows(reg, queue \o <<x>>, view', active', typed')
       /\ view'.scriptBuffers \in Used
  BY <1>1, <1>8, <1>9 DEF v
<1>11. typed' \in [Connectors -> {"no", "early", "raced"}] /\ current' \in Connectors
  BY <1>1 DEF EditorInv, TypedOK
<1> QED
  BY <1>1, <1>5, <1>9, <1>10, <1>11, Dispatches DEF x

LEMMA Completing ==
  ASSUME EditorInv, completeDashQL \/ previewCompletion \/ CloseCompletion
  PROVE  EditorInv'
<1>1. /\ Shows(reg, queue, view, active, typed) /\ ViewOK(reg, queue, view, active)
      /\ view \in ViewTypes
  BY DEF EditorInv, Shows, ViewOK
<1>2. 0 \in Nat \cup {Null} /\ 1 \in Nat \cup {Null} /\ Null \in Nat \cup {Null}
  OBVIOUS
<1>3. CASE completeDashQL
  <2>1. /\ view.targetScript # NoScript /\ view.scriptCursor # Null
        /\ view' = [view EXCEPT !.completion = "pending"] /\ DispatchCompletion("COMPLETION_STARTED", 0)
    BY <1>3 DEF completeDashQL
  <2>2. MountedView(view)
    BY <1>1, <2>1, TargetIs
  <2>3. \A x \in {"pending"} : Shows(reg, queue, [view EXCEPT !.completion = x], active, typed)
    BY <1>1, <2>1, <2>2, CompletionSet
  <2>4. view'.scriptBuffers = view.scriptBuffers
    BY <1>1, <2>1 DEF ViewTypes
  <2>5. Shows(reg, queue, view', active, typed)
    BY <2>1, <2>3
  <2>6. "COMPLETION_STARTED" \in CompletionTypes
    BY DEF CompletionTypes
  <2> QED
    BY <1>2, <2>1, <2>4, <2>5, <2>6, CompletionDispatched
<1>4. CASE previewCompletion
  <2>1. /\ view.completion = "active" /\ view' = view /\ DispatchCompletion("COMPLETION_CHANGED", 1)
    BY <1>4 DEF previewCompletion
  <2>2. view.targetScript # NoScript
    BY <1>1, <2>1 DEF ViewOK
  <2>3. "COMPLETION_CHANGED" \in CompletionTypes
    BY DEF CompletionTypes
  <2>4. Shows(reg, queue, view', active, typed) /\ view'.scriptBuffers = view.scriptBuffers
    BY <1>1, <2>1
  <2> QED
    BY <1>2, <2>1, <2>2, <2>3, <2>4, CompletionDispatched
<1>5. CASE CloseCompletion
  <2>1. /\ view.completion = "active" /\ view' = Closed(view) /\ DispatchCompletion("COMPLETION_STOPPED", Null)
    BY <1>5 DEF CloseCompletion
  <2>2. view.targetScript # NoScript
    BY <1>1, <2>1 DEF ViewOK
  <2>3. "COMPLETION_STOPPED" \in CompletionTypes
    BY DEF CompletionTypes
  <2>4. Shows(reg, queue, view', active, typed)
    BY <1>1, <2>1, ClosedShows
  <2>5. view'.scriptBuffers = view.scriptBuffers
    BY <1>1, <2>1, ClosedIs DEF Viewed
  <2> QED
    BY <1>2, <2>1, <2>2, <2>3, <2>4, <2>5, CompletionDispatched
<1> QED
  BY <1>3, <1>4, <1>5

\* The completion opens, or stays away
LEMMA CompletionOpening ==
  ASSUME EditorInv, CompletionOpens
  PROVE  EditorInv'
<1>1. /\ reg' = reg /\ queue' = queue /\ inflight' = inflight /\ current' = current /\ phase' = phase
      /\ active' = active /\ typed' = typed
  BY DEF CompletionOpens, workbookVars
<1>2. PICK status \in {"active", "none"} : view' = [view EXCEPT !.completion = status]
  BY DEF CompletionOpens
<1>3. view.completion = "pending"
  BY DEF CompletionOpens
<1>4. ViewOK(reg, queue, view, active) /\ view \in ViewTypes /\ Shows(reg, queue, view, active, typed)
  BY DEF EditorInv, Shows, ViewOK
<1>5. view.targetScript # NoScript /\ view.scriptCursor # Null /\ MountedView(view)
  BY <1>3, <1>4 DEF ViewOK, MountedView
<1>6. Shows(reg, queue, view', active, typed)
  BY <1>2, <1>4, <1>5, CompletionSet
<1>7. /\ view'.targetScript = view.targetScript /\ view'.scriptBuffers = view.scriptBuffers
      /\ view'.derivedFocus = view.derivedFocus /\ view'.decorations = view.decorations
  BY <1>2, <1>4 DEF ViewTypes
<1>8. Renders(reg, current, view) => Renders(reg, current, view')
  BY <1>7 DEF Renders
<1> QED
  BY <1>1, <1>5, <1>6, <1>8 DEF EditorInv, TypedOK, Rendered, Displayed

\* The pages and the workbooks
LEMMA Navigating ==
  ASSUME EditorInv, SelectWorkbook \/ LeavePage \/ EnterPage
  PROVE  EditorInv'
<1>0. RegistryOK(reg)
  BY DEF EditorInv, Books
<1>1. CASE SelectWorkbook
  <2>1. /\ reg' = reg /\ queue' = queue /\ inflight' = inflight /\ phase' = "dirty"
        /\ view' = view /\ active' = active /\ typed' = typed /\ current' \in Opened
    BY <1>1 DEF SelectWorkbook, workbookVars
  <2>2. current' \in Connectors
    BY <2>1, EditorAssumption
  <2> QED
    BY <2>1, <2>2 DEF EditorInv, TypedOK, Rendered
<1>2. CASE LeavePage
  <2>1. /\ reg' = reg /\ queue' = queue /\ inflight' = inflight /\ phase' = phase
        /\ view' = NoView /\ active' = NoActive /\ typed' = typed /\ current' = current
    BY <1>2 DEF LeavePage, workbookVars
  <2>2. Shows(reg, queue, NoView, NoActive, typed)
    BY <1>0, PageLeft
  <2>3. ~MountedView(NoView)
    BY DEF NoView, MountedView
  <2> QED
    BY <2>1, <2>2, <2>3 DEF EditorInv, TypedOK, Rendered
<1>3. CASE EnterPage
  <2>1. /\ reg' = reg /\ queue' = queue /\ inflight' = inflight /\ phase' = "dirty" /\ ~Mounted
        /\ view' = CreateView(current) /\ active' = active /\ typed' = typed /\ current' = current
    BY <1>3 DEF EnterPage, workbookVars
  <2>2. active = NoActive
    BY <2>1 DEF EditorInv, Shows, ViewOK, Mounted, MountedView
  <2>3. Shows(reg, queue, CreateView(current), NoActive, typed)
    BY <1>0, PageEntered DEF EditorInv
  <2> QED
    BY <2>1, <2>2, <2>3 DEF EditorInv, TypedOK, Rendered
<1> QED
  BY <1>1, <1>2, <1>3

LEMMA Reducing ==
  ASSUME EditorInv, Reduce
  PROVE  EditorInv'
<1>1. /\ queue # <<>> /\ phase' = "rendering" /\ inflight' = inflight /\ current' = current
      /\ view' = view /\ active' = active /\ typed' = typed
      /\ reg' = reduceWorkbookState(reg, Head(queue), Used) /\ queue' = Tail(queue)
  BY DEF Reduce
<1>2. Books(reg', queue', typed, inflight) /\ Shows(reg', queue', view, active, typed)
  BY <1>1, UsedNames, ReduceKeeps DEF EditorInv
<1> QED
  BY <1>1, <1>2 DEF EditorInv, TypedOK, Rendered

\* A catalog is loaded again: what the view shows does not depend on it
LEMMA Refreshing ==
  ASSUME EditorInv, RefreshCatalog
  PROVE  EditorInv'
<1>1. /\ phase' = "dirty" /\ inflight' = inflight /\ current' = current /\ view' = view
      /\ active' = active /\ typed' = typed
  BY DEF RefreshCatalog
<1>2. PICK c \in Opened :
        Dispatch(loadScript(reg, c), phase = "idle", <<Action("CATALOG_DID_UPDATE", <<c, 0>>)>>, Used)
  BY DEF RefreshCatalog
<1> DEFINE r == loadScript(reg, c)
           x == Action("CATALOG_DID_UPDATE", <<c, 0>>)
<1>3. c \in Connectors
  BY EditorAssumption
<1>4. RegistryOK(reg) /\ queue \in Seq(Dispatched) /\ Books(reg, queue, typed, inflight)
      /\ Shows(reg, queue, view, active, typed)
  BY DEF EditorInv, Books
<1>5. x \in Dispatched /\ x.type = "CATALOG_DID_UPDATE" /\ x.script[1] = c
  BY <1>3 DEF Action, ActionWith, Dispatched, ActionOK, ActionTypes
<1> HIDE DEF x
<1>6. Books(r, queue \o <<x>>, typed, inflight)
  BY <1>3, <1>4, <1>5, CatalogWaits
<1>7. r.scripts = reg.scripts /\ r.text = reg.text /\ r.buffers = reg.buffers
  BY <1>3, <1>4, CatalogLoaded DEF SameBuffers
<1> HIDE DEF r
<1>8. <<x>> \in Seq(Dispatched) /\ NoUpdates(<<x>>)
  BY <1>5 DEF NoUpdates
<1>9. Shows(r, queue \o <<x>>, view, active, typed)
  <2>1. ViewOK(reg, queue \o <<x>>, view, active)
    BY <1>4, <1>8, ViewAppended DEF Shows
  <2>2. ~MultiRange => Mirrors(reg, queue \o <<x>>, view, typed)
    BY <1>4, <1>8, MirrorsAppended DEF Shows
  <2>3. Painted(reg, view)
    BY <1>4 DEF Shows
  <2> DEFINE y == queue \o <<x>>
  <2> HIDE DEF y
  <2>4. ViewOK(r, y, view, active) /\ (~MultiRange => Mirrors(r, y, view, typed)) /\ Painted(r, view)
    <3>1. ViewOK(r, y, view, active)
      BY <1>7, <2>1 DEF ViewOK, y
    <3>2. ~MultiRange => Mirrors(r, y, view, typed)
      BY <1>7, <2>2 DEF Mirrors, Processed, y
    <3>3. Painted(r, view)
      BY <1>7, <2>3 DEF Painted, Alive
    <3> QED
      BY <3>1, <3>2, <3>3
  <2> QED
    BY <2>4 DEF Shows, y
<1>10. /\ Books(r, queue \o <<x>>, typed', inflight')
       /\ Shows(r, queue \o <<x>>, view', active', typed')
  BY <1>1, <1>6, <1>9
<1>11. /\ IsFiniteSet(Used) /\ (\A s \in ScriptIds : Processed(r, s) \in Used) /\ view'.scriptBuffers \in Used
       /\ typed' \in [Connectors -> {"no", "early", "raced"}] /\ current' \in Connectors
  BY <1>1, <1>7, UsedNames DEF EditorInv, TypedOK, Processed
<1>12. Dispatch(r, phase = "idle", <<x>>, Used)
  BY <1>2 DEF r, x
<1> QED
  BY <1>1, <1>8, <1>10, <1>11, <1>12, Dispatches

\* A fetch is answered
LEMMA Fetching ==
  ASSUME EditorInv, NEW f \in FlightKeys, Fetched(f)
  PROVE  EditorInv'
<1> DEFINE s == inflight[f].script
           text == Examples[s[1]][s[2]]
<1>1. /\ phase' = "dirty" /\ current' = current /\ view' = view /\ active' = active /\ typed' = typed
      /\ f \in DOMAIN inflight
  BY DEF Fetched
<1>2. Books(reg, queue, typed, inflight) /\ Shows(reg, queue, view, active, typed) /\ queue \in Seq(Dispatched)
  BY DEF EditorInv, Books
<1>3. s \in ScriptIds /\ s[1] \in {"serverless", "demo"}
  BY <1>1, <1>2 DEF Books, Loads
<1>4. s \in Connectors \X (0..2) /\ text \in Texts
  <2>1. s[1] \in Connectors /\ s[2] \in Keys(s[1]) /\ s \in Connectors \X (0..2)
    BY <1>3, ScriptIdsAre
  <2>2. Examples[s[1]] \in Seq(Texts) /\ DOMAIN Examples[s[1]] = Keys(s[1])
    BY <1>3, <2>1, WorkbookAssumption
  <2> HIDE DEF s
  <2> QED
    BY <2>1, <2>2
<1> HIDE DEF s, text
<1>5. ASSUME NEW x \in Dispatched, x.type \in {"SCRIPT_LOADING_SUCCEEDED", "SCRIPT_LOADING_FAILED"},
             x.script = s, ~inflight[f].settled, Dispatch(reg, phase = "idle", <<x>>, Used),
             DOMAIN inflight' \subseteq DOMAIN inflight,
             \A g \in DOMAIN inflight' :
               inflight'[g].script = inflight[g].script /\ (inflight[g].settled => inflight'[g].settled),
             f \in DOMAIN inflight' => inflight'[f].settled
      PROVE  EditorInv'
  <2> DEFINE fl == inflight'
  <2>1. IsAnswer(x, inflight[f].script)
    BY <1>5 DEF IsAnswer, s
  <2>2. /\ DOMAIN fl \subseteq DOMAIN inflight
        /\ \A g \in DOMAIN fl : fl[g].script = inflight[g].script /\ (inflight[g].settled => fl[g].settled)
        /\ f \in DOMAIN fl => fl[f].settled
    BY <1>5
  <2> HIDE DEF fl
  <2>3. Books(reg, queue \o <<x>>, typed, fl)
    BY <1>1, <1>2, <1>5, <2>1, <2>2, AnswerWaits
  <2>4. <<x>> \in Seq(Dispatched) /\ NoUpdates(<<x>>)
    BY <1>5 DEF NoUpdates
  <2>5. Shows(reg, queue \o <<x>>, view, active, typed)
    <3>1. ViewOK(reg, queue \o <<x>>, view, active)
      BY <1>2, <2>4, ViewAppended DEF Shows
    <3>2. ~MultiRange => Mirrors(reg, queue \o <<x>>, view, typed)
      BY <1>2, <2>4, MirrorsAppended DEF Shows
    <3> QED
      BY <1>2, <3>1, <3>2 DEF Shows
  <2>6. /\ Books(reg, queue \o <<x>>, typed', inflight')
        /\ Shows(reg, queue \o <<x>>, view', active', typed')
    BY <1>1, <2>3, <2>5 DEF fl
  <2>7. /\ IsFiniteSet(Used) /\ (\A u \in ScriptIds : Processed(reg, u) \in Used) /\ view'.scriptBuffers \in Used
        /\ typed' \in [Connectors -> {"no", "early", "raced"}] /\ current' \in Connectors
    BY <1>1, UsedNames DEF EditorInv, TypedOK
  <2> QED
    BY <1>1, <1>5, <2>4, <2>6, <2>7, Dispatches
<1>6. CASE FetchSucceeds(f, phase = "idle", Used)
  <2> DEFINE x == ActionWith("SCRIPT_LOADING_SUCCEEDED", s, text, Null)
  <2>1. ~inflight[f].settled /\ Dispatch(reg, phase = "idle", <<x>>, Used) /\ inflight' = Landed(f)
    BY <1>6 DEF FetchSucceeds, waitForResult, s, text
  <2>2. x \in Dispatched /\ x.type = "SCRIPT_LOADING_SUCCEEDED" /\ x.script = s
    BY <1>3, <1>4 DEF ActionWith, Dispatched, ActionOK, ActionTypes
  <2> HIDE DEF x
  <2>3. DOMAIN inflight' = DOMAIN inflight \ {f} /\ \A g \in DOMAIN inflight' : inflight'[g] = inflight[g]
    BY <2>1 DEF Landed
  <2> QED
    BY <1>5, <2>1, <2>2, <2>3
<1>7. CASE FetchFails(f, phase = "idle", Used)
  <2> DEFINE x == ActionWith("SCRIPT_LOADING_FAILED", s, Null, Null)
  <2>1. /\ ~inflight[f].settled /\ Dispatch(reg, phase = "idle", <<x>>, Used)
        /\ inflight' = [inflight EXCEPT ![f].settled = TRUE]
    BY <1>7 DEF FetchFails, waitForResult, s
  <2>2. x \in Dispatched /\ x.type = "SCRIPT_LOADING_FAILED" /\ x.script = s
    BY <1>3, <1>4 DEF ActionWith, Dispatched, ActionOK, ActionTypes
  <2> HIDE DEF x
  <2>3. /\ DOMAIN inflight' = DOMAIN inflight
        /\ \A g \in DOMAIN inflight : g # f => inflight'[g] = inflight[g]
        /\ inflight'[f] = [inflight[f] EXCEPT !.settled = TRUE]
    BY <1>1, <2>1
  <2>4. /\ inflight'[f].script = inflight[f].script /\ inflight'[f].settled
    BY <2>3
  <2> QED
    BY <1>5, <2>1, <2>2, <2>3, <2>4
<1> QED
  BY <1>6, <1>7 DEF Fetched

\* The view after a render
SetRendered(v, target, buffers, cursor, focus) ==
  [v EXCEPT !.targetScript = target, !.scriptBuffers = buffers, !.scriptCursor = cursor, !.derivedFocus = focus]
SetDoc(v, doc) == [v EXCEPT !.doc = doc]

LEMMA RenderChanges ==
  ASSUME NEW v \in ViewTypes
  PROVE  /\ \A doc \in Texts : Viewed(SetDoc(v, doc), doc, v.targetScript, v.scriptBuffers, v.scriptCursor,
                                      v.derivedFocus, v.completion, v.completeWith, v.decorations)
         /\ \A target \in ScriptIds \cup {NoScript}, buffers \in Nat, cursor \in Cursors \cup {Null},
               focus \in AnyFocus :
              Viewed(SetRendered(v, target, buffers, cursor, focus),
                     v.doc, target, buffers, cursor, focus, v.completion, v.completeWith, v.decorations)
<1>1. \A doc \in Texts : Viewed(SetDoc(v, doc), doc, v.targetScript, v.scriptBuffers, v.scriptCursor,
                                v.derivedFocus, v.completion, v.completeWith, v.decorations)
  BY DEF SetDoc, ViewTypes, Viewed
<1>2. ASSUME NEW target \in ScriptIds \cup {NoScript}, NEW buffers \in Nat, NEW cursor \in Cursors \cup {Null},
             NEW focus \in AnyFocus
      PROVE  Viewed(SetRendered(v, target, buffers, cursor, focus),
                    v.doc, target, buffers, cursor, focus, v.completion, v.completeWith, v.decorations)
  BY DEF SetRendered, ViewTypes, Viewed
<1> QED
  BY <1>1, <1>2

\* The effect of the editor component shows the workbook as it is, when no action waits
LEMMA RenderShows ==
  ASSUME EditorInv, Mounted, queue = <<>>, NEW q
  PROVE  /\ Shows(reg, q, UpdateDashQLScript(reg), ActiveScript(reg), typed)
         /\ Renders(reg, current, UpdateDashQLScript(reg))
         /\ UpdateDashQLScript(reg).scriptBuffers = Processed(reg, Displayed)
         /\ Displayed \in ScriptIds
<1> DEFINE s == Displayed
           data == reg.scripts[s]
           changed == ScriptChanged(reg)
           v == IF changed THEN SetDoc(Closed(view), reg.text[s]) ELSE view
           w == SetRendered(v, s, data.processed, data.cursor, reg.userFocus[current])
           z == Decorated(reg, w)
           a == ActiveScript(reg)
<1>1. UpdateDashQLScript(reg) = z
  BY DEF UpdateDashQLScript, SetDoc, SetRendered
<1>2. /\ RegistryOK(reg) /\ Shows(reg, queue, view, active, typed) /\ ViewOK(reg, queue, view, active)
      /\ view \in ViewTypes /\ Painted(reg, view) /\ current \in Connectors
  BY DEF EditorInv, Books, Shows, ViewOK
<1>3. s \in ScriptIds /\ s[2] = MainKey /\ s[1] = current /\ s = <<current, MainKey>> /\ s # NoScript
  BY <1>2, ScriptIdsAre DEF Displayed, NoScript, MainKey
<1>4. /\ reg.text[s] \in Texts /\ data.processed \in Nat /\ data.cursor \in Cursors \cup {Null}
      /\ reg.userFocus[current] \in AnyFocus
  <2>1. reg.scripts \in [ScriptIds -> ScriptRecord]
    BY <1>2, RegistryFields DEF RegistryOK
  <2>2. reg.userFocus \in [Connectors -> AnyFocus] /\ reg.text \in [ScriptIds -> Texts]
    BY <1>2, RegistryFields DEF RegistryOK
  <2>3. data \in ScriptRecord
    BY <1>3, <2>1
  <2> QED
    BY <1>2, <1>3, <2>2, <2>3 DEF ScriptRecord
<1>5. MountedView(view)
  BY DEF Mounted, MountedView
<1>6. ~changed => /\ view.targetScript = s /\ view.scriptBuffers = data.processed
  BY <1>2, <1>5 DEF ScriptChanged, ViewOK
<1> HIDE DEF s, data, changed
\* The view before the decorations
<1>7. PICK completion \in {"none", "pending", "active"} :
        /\ Viewed(v, v.doc, view.targetScript, view.scriptBuffers, view.scriptCursor, view.derivedFocus,
                  completion, view.completeWith, view.decorations)
        /\ completion # "none" => ~changed /\ completion = view.completion
        /\ changed => v.doc = reg.text[s]
        /\ ~changed => v.doc = view.doc
  <2>1. CASE changed
    <3>1. PICK completion \in {"none", "unmounted"} :
            /\ Viewed(Closed(view), view.doc, view.targetScript, view.scriptBuffers, view.scriptCursor,
                      view.derivedFocus, completion, view.completeWith, view.decorations)
            /\ completion = "unmounted" <=> view.completion = "unmounted"
      BY <1>2, ClosedIs
    <3>2. completion = "none"
      BY <1>5, <3>1 DEF MountedView
    <3> DEFINE u == Closed(view)
    <3> HIDE DEF u
    <3>3. u \in ViewTypes
      BY <3>1 DEF Viewed, u
    <3>4. Viewed(SetDoc(u, reg.text[s]), reg.text[s], u.targetScript, u.scriptBuffers, u.scriptCursor,
                 u.derivedFocus, u.completion, u.completeWith, u.decorations)
      BY <1>4, <3>3, RenderChanges
    <3>5. v = SetDoc(u, reg.text[s])
      BY <2>1 DEF u
    <3> HIDE DEF v
    <3> QED
      BY <2>1, <3>1, <3>2, <3>4, <3>5 DEF Viewed, u
  <2>2. CASE ~changed
    <3>1. v = view
      BY <2>2
    <3>2. view.completion \in {"none", "pending", "active"}
      BY <1>2, <1>5, ViewFields DEF MountedView
    <3> HIDE DEF v
    <3> QED
      BY <1>2, <2>2, <3>1, <3>2, ViewFields
  <2> QED
    BY <2>1, <2>2
<1> HIDE DEF v
<1>8. Viewed(w, v.doc, s, data.processed, data.cursor, reg.userFocus[current],
             completion, view.completeWith, view.decorations)
  <2>1. v \in ViewTypes
    BY <1>7 DEF Viewed
  <2>2. Viewed(w, v.doc, s, data.processed, data.cursor, reg.userFocus[current],
               v.completion, v.completeWith, v.decorations)
    BY <1>3, <1>4, <2>1, RenderChanges
  <2> HIDE DEF w
  <2> QED
    BY <1>7, <2>2 DEF Viewed
<1> HIDE DEF w
<1>9. w \in ViewTypes /\ w.decorations = view.decorations
  BY <1>8 DEF Viewed
<1>10. PICK decorations \in Decorations :
         /\ Viewed(z, w.doc, w.targetScript, w.scriptBuffers, w.scriptCursor,
                   w.derivedFocus, w.completion, w.completeWith, decorations)
         /\ decorations.focused = buildDecorationsFromFocus(Buffers(reg, w.scriptBuffers), w.derivedFocus)
  BY <1>2, <1>9, DecoratedIs
<1>11. Painted(reg, z)
  BY <1>2, <1>9, DecoratedIs
<1> HIDE DEF z
<1>12. /\ Viewed(z, v.doc, s, data.processed, data.cursor, reg.userFocus[current],
                 completion, view.completeWith, decorations)
       /\ decorations.focused = buildDecorationsFromFocus(Buffers(reg, data.processed), reg.userFocus[current])
  BY <1>8, <1>10 DEF Viewed
<1>13. a \in [script : ScriptIds \cup {NoScript}, scriptBuffers : Nat] /\ a.script = s
       /\ a.scriptBuffers = data.processed
  BY <1>3, <1>4 DEF ActiveScript, s, data
<1> HIDE DEF a
<1>14. completion # "none" => data.cursor # Null
  <2> SUFFICES ASSUME completion # "none"
               PROVE  data.cursor # Null
    OBVIOUS
  <2>1. ~changed /\ view.completion \in {"pending", "active"}
    BY <1>7
  <2>2. view.scriptCursor # Null /\ view.targetScript = s
    BY <1>2, <1>6, <2>1 DEF ViewOK
  <2>3. DOMAIN queue = {}
    OBVIOUS
  <2> QED
    BY <1>2, <1>3, <2>2, <2>3 DEF ViewOK, data
<1>15. ViewOK(reg, q, z, a)
  <2>1. MountedView(z) /\ view.completeWith \in Connectors
    <3>1. view.completeWith \in Connectors
      BY <1>2, <1>5 DEF ViewOK
    <3>2. z.completion # "unmounted"
      BY <1>12 DEF Viewed
    <3> QED
      BY <3>1, <3>2 DEF MountedView
  <2>2. /\ z \in ViewTypes /\ z.targetScript = s /\ z.scriptBuffers = data.processed
        /\ z.scriptCursor = data.cursor /\ z.completion = completion
        /\ z.completeWith = view.completeWith
    BY <1>12 DEF Viewed
  <2>3. z.scriptCursor # Null => reg.scripts[s].cursor # Null
    BY <2>2 DEF data
  <2> QED
    BY <1>3, <1>13, <1>14, <2>1, <2>2, <2>3 DEF ViewOK
<1>16. ~MultiRange => Mirrors(reg, q, z, typed)
  <2> SUFFICES ASSUME ~MultiRange, typed[s[1]] # "raced"
               PROVE  v.doc = reg.text[s]
    BY <1>12 DEF Mirrors, Viewed
  <2>1. CASE changed
    BY <1>7, <2>1
  <2>2. CASE ~changed
    <3>1. Mirrors(reg, queue, view, typed)
      BY <1>2 DEF Shows
    <3>2. view.targetScript = s /\ view.scriptBuffers = Processed(reg, s)
      BY <1>6, <2>2 DEF Processed, data
    <3> QED
      BY <1>3, <1>7, <2>2, <3>1, <3>2 DEF Mirrors
  <2> QED
    BY <2>1, <2>2
<1>17. Renders(reg, current, z)
  <2>1. data.processed = Processed(reg, s)
    BY DEF Processed, data
  <2> QED
    BY <1>3, <1>12, <2>1 DEF Renders, Viewed
<1>18. z.scriptBuffers = Processed(reg, s)
  BY <1>12 DEF Processed, data, Viewed
<1>19. Shows(reg, q, z, a, typed)
  BY <1>11, <1>15, <1>16 DEF Shows
<1> QED
  BY <1>1, <1>3, <1>17, <1>18, <1>19 DEF a, s

LEMMA NothingJoined ==
  ASSUME NEW x \in Seq(Dispatched), NEW y \in Seq(Dispatched), x \o y = <<>>
  PROVE  x = <<>> /\ y = <<>>
<1>1. Len(x \o y) = Len(x) + Len(y) /\ Len(x) \in Nat /\ Len(y) \in Nat
  BY ConcatIs
<1>2. Len(x \o y) = 0
  OBVIOUS
<1>3. Len(x) = 0 /\ Len(y) = 0
  BY <1>1, <1>2
<1> QED
  BY <1>3

LEMMA Committing ==
  ASSUME EditorInv, Commit
  PROVE  EditorInv'
<1> DEFINE stops == IF Mounted /\ ScriptChanged(reg) THEN StopsCompletion(view) ELSE <<>>
           load == loadIfNeeded(reg, current)
           outdated == UpdateOutdated(reg)
           actions == load \o outdated \o stops
           v == view'
           a == active'
           fl == Flights(reg, current)
<1>1. /\ queue = <<>> /\ Dispatch(reg, TRUE, actions, Used)
      /\ phase' = IF actions = <<>> THEN "idle" ELSE "dirty"
      /\ inflight' = fl /\ current' = current /\ typed' = typed
  BY DEF Commit
<1>2. /\ v = IF Mounted THEN UpdateDashQLScript(reg) ELSE view
      /\ a = IF Mounted THEN ActiveScript(reg) ELSE active
  BY DEF Commit
<1>3. /\ RegistryOK(reg) /\ Shows(reg, queue, view, active, typed) /\ ViewOK(reg, queue, view, active)
      /\ current \in Connectors /\ Books(reg, <<>>, typed, inflight)
  BY <1>1 DEF EditorInv, Books, Shows, ViewOK
<1>4. Displayed \in ScriptIds /\ Displayed \in Connectors \X (0..2) /\ Displayed[2] = MainKey
  BY <1>3, ScriptIdsAre DEF Displayed
<1>5. /\ outdated \in Seq(Dispatched)
      /\ \A i \in DOMAIN outdated : outdated[i].type = "UPDATE_SCRIPT"
      /\ outdated = <<>> => (Mounted => ~reg.scripts[Displayed].outdatedAnalysis)
  <2> DEFINE x == Action("UPDATE_SCRIPT", Displayed)
  <2>1. x \in Dispatched /\ x.type = "UPDATE_SCRIPT"
    BY <1>4 DEF Action, ActionWith, Dispatched, ActionOK, ActionTypes
  <2>2. outdated = IF Mounted /\ reg.scripts[Displayed].outdatedAnalysis THEN <<x>> ELSE <<>>
    BY DEF UpdateOutdated
  <2> HIDE DEF x, outdated
  <2>3. <<x>> \in Seq(Dispatched) /\ <<x>> # <<>> /\ DOMAIN <<x>> = {1} /\ <<x>>[1] = x
    BY <2>1
  <2> QED
    BY <2>1, <2>2, <2>3
<1>6. stops \in Seq(Dispatched) /\ \A i \in DOMAIN stops : stops[i].type = "COMPLETION_STOPPED"
  BY <1>3, StopsAre
<1>7. load \in Seq(Dispatched)
  BY <1>3, LoadActions
<1> HIDE DEF stops, outdated, load
<1> DEFINE x == outdated \o stops
<1>8. x \in Seq(Dispatched) /\ \A i \in DOMAIN x : x[i].type \in {"UPDATE_SCRIPT", "COMPLETION_STOPPED"}
  <2>1. /\ x \in Seq(Dispatched)
        /\ \A i \in DOMAIN x : \/ i \in DOMAIN outdated /\ x[i] = outdated[i]
                               \/ i - Len(outdated) \in DOMAIN stops /\ x[i] = stops[i - Len(outdated)]
    <3> HIDE DEF x
    <3>1. /\ x \in Seq(Dispatched)
          /\ \A i \in DOMAIN outdated : i \in DOMAIN x /\ x[i] = outdated[i]
          /\ \A i \in DOMAIN x : i \notin DOMAIN outdated =>
               i - Len(outdated) \in DOMAIN stops /\ x[i] = stops[i - Len(outdated)]
      BY <1>5, <1>6, ConcatIs DEF x
    <3> QED
      BY <3>1
  <2> HIDE DEF x
  <2> QED
    BY <1>5, <1>6, <2>1
<1>9. actions = load \o x
  BY <1>5, <1>6, <1>7, ConcatAssociative
<1> HIDE DEF x, actions
<1>10. actions \in Seq(Dispatched) /\ NoMoves(actions) /\ Books(reg, actions, typed, fl)
  BY <1>3, <1>8, <1>9, EffectsWait DEF load
<1> HIDE DEF fl
<1>11. Shows(reg, actions, v, a, typed) /\ v.scriptBuffers \in Used
  <2>1. CASE Mounted
    BY <1>1, <1>2, <2>1, RenderShows, UsedNames
  <2>2. CASE ~Mounted
    <3>1. v = view /\ a = active
      BY <1>2, <2>2
    <3>2. ViewOK(reg, queue \o actions, view, active) /\ (~MultiRange => Mirrors(reg, queue \o actions, view, typed))
      <4>1. queue \in Seq(Dispatched) /\ NoUpdates(actions)
        BY <1>1, <1>10, MovesAndUpdates
      <4> QED
        BY <1>3, <1>10, <4>1, ViewAppended, MirrorsAppended DEF Shows
    <3>3. queue \o actions = actions
      BY <1>1, <1>10, ConcatEmptySeq
    <3> QED
      BY <1>3, <3>1, <3>2, <3>3, UsedNames DEF Shows
  <2> QED
    BY <2>1, <2>2
<1> HIDE DEF v, a
<1>12. Books(reg', queue', typed, fl) /\ Shows(reg', queue', v, a, typed)
  <2>1. queue \in Seq(Dispatched) /\ queue \o actions = actions
    BY <1>1, <1>10, ConcatEmptySeq
  <2>2. Dispatch(reg, TRUE, actions, Used)
    BY <1>1
  <2>3. Books(reg, queue \o actions, typed, fl) /\ Shows(reg, queue \o actions, v, a, typed)
    BY <1>10, <1>11, <2>1
  <2> QED
    BY <1>10, <1>11, <2>1, <2>2, <2>3, UsedNames, DispatchKeeps
<1>13. Rendered'
  <2> SUFFICES ASSUME phase' = "idle"
               PROVE  /\ queue' = <<>>
                      /\ MountedView(view') =>
                           /\ Renders(reg', current', view')
                           /\ ~reg'.scripts[Displayed'].outdatedAnalysis
    BY DEF Rendered
  <2>1. actions = <<>>
    BY <1>1
  <2>2. outdated = <<>>
    <3>1. x = <<>>
      BY <1>7, <1>8, <1>9, <2>1, NothingJoined
    <3> QED
      BY <1>5, <1>6, <3>1, NothingJoined DEF x
  <2>3. reg' = reg /\ queue' = <<>>
    <3>1. queue \o <<>> = <<>>
      BY <1>1
    <3> QED
      BY <1>1, <2>1, <3>1 DEF Dispatch
  <2>4. Displayed' = Displayed
    BY <1>1 DEF Displayed
  <2> SUFFICES ASSUME MountedView(view')
               PROVE  Renders(reg', current', view') /\ ~reg'.scripts[Displayed'].outdatedAnalysis
    BY <2>3
  <2>5. Mounted
    BY <1>2 DEF Mounted, MountedView, v
  <2>6. view' = UpdateDashQLScript(reg)
    BY <1>2, <2>5 DEF v
  <2>7. Renders(reg, current, UpdateDashQLScript(reg))
    BY <1>1, <2>5, RenderShows
  <2> QED
    BY <1>1, <1>5, <2>2, <2>3, <2>4, <2>5, <2>6, <2>7
<1> QED
  BY <1>1, <1>3, <1>12, <1>13 DEF EditorInv, TypedOK, v, a

-----------------------------------------------------------------------------
(***************************************************************************)
(* The theorems.                                                           *)
(***************************************************************************)
LEMMA InitialRegistry ==
  LET r == useWorkbookStateAllocator
  IN /\ RegistryOK(r) /\ Alive(r) = {}
     /\ \A s \in ScriptIds : r.scripts[s] = WorkbookSetup(s[1])[s[2]] /\ Blank(r.scripts[s])
     /\ \A c \in Connectors : r.userFocus[c] = Null
<1> DEFINE r == useWorkbookStateAllocator
<1>1. \A s \in ScriptIds : r.scripts[s] = WorkbookSetup(s[1])[s[2]] /\ Blank(r.scripts[s])
  BY SetupOfScript DEF useWorkbookStateAllocator
<1>2. r.buffers = <<>> /\ DOMAIN r.buffers = {}
  BY DEF useWorkbookStateAllocator
<1>3. r.buffers \in Memory
  <2>1. <<>> \in [{} -> Analyses]
    OBVIOUS
  <2>2. {} \in SUBSET (Nat \ {0})
    OBVIOUS
  <2>3. <<>> \in Memory
    BY <2>1, <2>2 DEF Memory
  <2> QED
    BY <1>2, <2>3
<1>4. r \in Registry
  <2> DEFINE scripts == [s \in ScriptIds |-> WorkbookSetup(s[1])[s[2]]]
             focus == [c \in Connectors |-> Null]
             text == [s \in ScriptIds |-> <<>>]
             version == [c \in Connectors |-> 0]
  <2>1. scripts \in [ScriptIds -> ScriptRecord]
    BY SetupOfScript DEF Blank
  <2>2. Null \in AnyFocus /\ <<>> \in Texts
    BY DEF AnyFocus, Texts
  <2>3. focus \in [Connectors -> AnyFocus] /\ text \in [ScriptIds -> Texts] /\ version \in [Connectors -> Nat]
    BY <2>2
  <2>4. r = [scripts |-> scripts, userFocus |-> focus, text |-> text, version |-> version, buffers |-> <<>>]
    BY DEF useWorkbookStateAllocator
  <2>5. <<>> \in Memory
    BY <1>2, <1>3
  <2> HIDE DEF scripts, focus, text, version, r
  <2> QED
    BY <2>1, <2>3, <2>4, <2>5 DEF Registry
<1>5. RegistryOK(r)
  <2>1. IsFiniteSet(DOMAIN r.buffers)
    BY <1>2, FS_EmptySet
  <2> QED
    BY <1>1, <1>4, <2>1 DEF RegistryOK, AsSetUp
<1>6. \A c \in Connectors : r.userFocus[c] = Null
  BY DEF useWorkbookStateAllocator
<1> QED
  BY <1>1, <1>2, <1>5, <1>6 DEF Alive

LEMMA InitialBooks ==
  ASSUME NEW ty
  PROVE  Books(useWorkbookStateAllocator, <<>>, ty, <<>>)
<1> DEFINE r == useWorkbookStateAllocator
<1>1. /\ RegistryOK(r) /\ Alive(r) = {}
      /\ \A s \in ScriptIds : r.scripts[s] = WorkbookSetup(s[1])[s[2]] /\ Blank(r.scripts[s])
      /\ \A c \in Connectors : r.userFocus[c] = Null
  BY InitialRegistry
<1> HIDE DEF r
<1>2. <<>> \in Seq(Dispatched) /\ DOMAIN <<>> = {} /\ Len(<<>>) = 0
  OBVIOUS
<1>3. \A s \in ScriptIds : /\ Processed(r, s) = NoBuffers /\ r.scripts[s].outdatedAnalysis = TRUE
                           /\ r.scripts[s].cursor = Null /\ r.scripts[s].loading \in {"PENDING", "SUCCEEDED"}
  BY <1>1 DEF Blank, Processed
<1>4. Owned(r, <<>>) /\ Unanalyzed(r)
  BY <1>1, <1>2, <1>3 DEF Owned, Unanalyzed
<1>5. Fine(r, <<>>, ty)
  <2>1. \A s \in ScriptIds : LoadsAfterUpdates(<<>>, s)
    BY <1>2 DEF LoadsAfterUpdates
  <2>2. ASSUME NEW s \in ScriptIds, NEW b \in Nat, NEW i \in 0..Len(<<>>), Final(r, <<>>, s, b, i)
        PROVE  Current(r, <<>>, s, b, i)
    <3>1. i = 0
      BY <1>2
    <3>2. b = NoBuffers
      BY <1>3, <2>2, <3>1 DEF Final
    <3> QED
      BY <1>3, <3>1, <3>2 DEF Current
  <2> QED
    BY <2>1, <2>2 DEF Fine
<1>6. FocusFine(r, ty)
  BY <1>1 DEF FocusFine
<1>7. Loads(r, <<>>, <<>>)
  <2>1. ASSUME NEW s \in ScriptIds, r.scripts[s].loading = "PENDING"
        PROVE  s[1] \in {"serverless", "demo"}
    <3>1. s[1] \in KnownConnectors /\ s[2] \in Keys(s[1]) /\ WorkbookSetup(s[1])[s[2]].loading = "PENDING"
      BY <1>1, <2>1, ScriptIdsAre
    <3> DEFINE c == s[1]
               k == s[2]
    <3>2. c \in KnownConnectors /\ k \in Keys(c) /\ WorkbookSetup(c)[k].loading = "PENDING"
      BY <3>1
    <3> HIDE DEF c, k
    <3>3. c \in {"demo", "serverless"}
      BY <3>2, SetupTypes
    <3> QED
      BY <3>3 DEF c
  <2>2. \A s \in ScriptIds : ~Flying(<<>>, s)
    BY <1>2 DEF Flying
  <2>3. \A s \in ScriptIds : LoadsOnce(r, <<>>, <<>>, s)
    BY <1>2, <2>1, <2>2 DEF LoadsOnce
  <2> QED
    BY <1>2, <2>3 DEF Loads
<1>8. Untouched(r, <<>>, ty)
  BY <1>2, <1>3 DEF Untouched
<1> QED
  BY <1>1, <1>2, <1>4, <1>5, <1>6, <1>7, <1>8 DEF Books, r

LEMMA EditorInvInit ==
  ASSUME Init
  PROVE  EditorInv
<1>1. /\ reg = useWorkbookStateAllocator /\ queue = <<>> /\ inflight = <<>> /\ current = Default
      /\ phase = "dirty" /\ view = CreateView(Default) /\ active = NoActive
      /\ typed = [c \in Connectors |-> "no"]
  BY DEF Init, InitWorkbooks
<1>2. Default \in Connectors
  BY EditorAssumption
<1>3. Books(reg, queue, typed, inflight)
  BY <1>1, InitialBooks
<1>4. Shows(reg, queue, view, active, typed)
  BY <1>1, <1>2, <1>3, PageEntered DEF Books
<1>5. TypedOK
  BY <1>1 DEF TypedOK
<1> QED
  BY <1>1, <1>2, <1>3, <1>4, <1>5 DEF EditorInv, Rendered

LEMMA EditorInvStep ==
  ASSUME EditorInv, [Next]_vars
  PROVE  EditorInv'
<1>1. CASE UNCHANGED vars
  <2>1. /\ reg' = reg /\ queue' = queue /\ inflight' = inflight /\ current' = current /\ phase' = phase
        /\ view' = view /\ active' = active /\ typed' = typed
    BY <1>1 DEF vars, workbookVars, editorVars
  <2> QED
    BY <2>1 DEF EditorInv, TypedOK, Rendered, Displayed
<1>2. CASE Next
  BY <1>2, Reducing, Committing, Typing, CursorMoved, Completing, CompletionOpening, Navigating,
     Refreshing, Fetching DEF Next
<1> QED
  BY <1>1, <1>2

\* The invariant that the theorems below follow from: the buffers have one holder, the
\* last analysis of a script is of its text, scripts are loaded once, and the view shows
\* what it was given.
THEOREM EditorIsInvariant == Spec => []EditorInv
<1>1. Init => EditorInv
  BY EditorInvInit
<1>2. EditorInv /\ [Next]_vars => EditorInv'
  BY EditorInvStep
<1> QED
  BY <1>1, <1>2, PTL DEF Spec

\* The buffers in the memory of the Wasm module are those that a script holds or that an
\* action brings to its script: the reducer destroys what a script held, also when an
\* update waited behind a loaded text, and nothing is destroyed that is still held.
THEOREM BuffersOwned == Spec => []BuffersAreOwned
<1>1. EditorInv => BuffersAreOwned
  <2> SUFFICES ASSUME EditorInv
               PROVE  BuffersAreOwned
    OBVIOUS
  <2>1. Owned(reg, queue) /\ RegistryOK(reg) /\ queue \in Seq(Dispatched)
    BY DEF EditorInv, Books
  <2>2. \A i \in DOMAIN queue : queue[i] \in Dispatched
    BY <2>1
  <2>3. \A i \in DOMAIN queue : queue[i].type = "UPDATE_SCRIPT_ANALYSIS" =>
          queue[i].script \in ScriptIds /\ IsUpdate(queue[i], queue[i].script)
    BY <2>2, ActionFields DEF IsUpdate
  <2>4. \A i \in DOMAIN queue : queue[i].type = "UPDATE_SCRIPT_ANALYSIS" => queue[i].value \in Alive(reg)
    BY <2>1, <2>3 DEF Owned
  <2>5. NoBuffers \notin Alive(reg)
    BY <2>1, BuffersOf
  <2>6. Held(reg, queue) \ {NoBuffers} \subseteq Alive(reg)
    <3> SUFFICES ASSUME NEW b \in Held(reg, queue), b # NoBuffers
                 PROVE  b \in Alive(reg)
      OBVIOUS
    <3>1. CASE \E s \in ScriptIds : b = Processed(reg, s)
      BY <2>1, <3>1 DEF Owned
    <3>2. CASE \E i \in DOMAIN queue : queue[i].type = "UPDATE_SCRIPT_ANALYSIS" /\ b = queue[i].value
      BY <2>4, <3>2
    <3> QED
      BY <3>1, <3>2 DEF Held, Processed
  <2>7. Alive(reg) \subseteq Held(reg, queue)
    <3> SUFFICES ASSUME NEW b \in Alive(reg)
                 PROVE  b \in Held(reg, queue)
      OBVIOUS
    <3>1. CASE \E s \in ScriptIds : Processed(reg, s) = b
      BY <3>1 DEF Held, Processed
    <3>2. CASE \E i \in DOMAIN queue, s \in ScriptIds : IsUpdate(queue[i], s) /\ queue[i].value = b
      BY <3>2 DEF Held, IsUpdate
    <3> QED
      BY <2>1, <3>1, <3>2 DEF Owned
  <2>8. \A s, t \in ScriptIds :
          s # t => reg.scripts[s].processed # reg.scripts[t].processed \/ reg.scripts[s].processed = NoBuffers
    BY <2>1 DEF Owned, Processed
  <2> QED
    BY <2>5, <2>6, <2>7, <2>8 DEF BuffersAreOwned, Alive
<1> QED
  BY <1>1, EditorIsInvariant, PTL

\* A script that is not marked as outdated, and about which nothing waits, was analyzed as it
\* is and against the catalog as it is, unless the user typed after another text had
\* arrived: a refresh of the catalog marks the scripts before anyone relies on them.
THEOREM AnalysesCurrent == Spec => []AnalysesAreCurrent
<1>1. EditorInv => AnalysesAreCurrent
  <2> SUFFICES ASSUME EditorInv, NEW s \in ScriptIds, reg.scripts[s].scriptType # "SCHEMA",
                      ~reg.scripts[s].outdatedAnalysis, typed[s[1]] # "raced",
                      \A i \in DOMAIN queue : queue[i].script[1] # s[1]
               PROVE  Buffers(reg, Processed(reg, s)) = Analysis(reg, s)
    BY DEF AnalysesAreCurrent, Processed
  <2> DEFINE b == Processed(reg, s)
  <2>1. /\ RegistryOK(reg) /\ queue \in Seq(Dispatched) /\ Owned(reg, queue) /\ Unanalyzed(reg)
        /\ Fine(reg, queue, typed)
    BY DEF EditorInv, Books
  <2>2. b \in Alive(reg) /\ b \in Nat /\ b # NoBuffers
    BY <2>1, BuffersOf DEF Owned, Unanalyzed
  <2> HIDE DEF b
  <2>3. 0 \in 0..Len(queue)
    BY <2>1
  <2>4. \A j \in DOMAIN queue : ~IsUpdate(queue[j], s)
    BY DEF IsUpdate
  <2>5. Final(reg, queue, s, b, 0)
    BY <2>3, <2>4 DEF Final, b
  <2>6. Current(reg, queue, s, b, 0)
    BY <2>1, <2>2, <2>3, <2>5 DEF Fine
  <2>7. ~WillBeMarked(queue, s[1], 0)
    BY DEF WillBeMarked
  <2>8. reg.buffers[b] = Analysis(reg, s)
    BY <2>6, <2>7 DEF Current
  <2> QED
    BY <2>1, <2>2, <2>8, BuffersOf DEF b
<1> QED
  BY <1>1, EditorIsInvariant, PTL

\* The focus of a workbook that nobody touched before it was loaded is derived from the
\* cursor and the analysis that its script has now, or is that of a completion: it is never
\* that of buffers that were destroyed.
THEOREM FocusDerived == Spec => []FocusIsDerived
<1>1. EditorInv => FocusIsDerived
  BY DEF EditorInv, Books, FocusFine, FocusIsDerived
<1> QED
  BY <1>1, EditorIsInvariant, PTL

\* When everything is rendered, the document is the text of the displayed script, the focus is
\* that of its workbook, and no decoration lies behind the end of the document, unless the
\* user typed after another text had arrived.  An edit changes one range: the processor
\* applies the changes of several ranges at the offsets of the old document.
THEOREM EditorMirrors ==
  ASSUME ~MultiRange
  PROVE  Spec => []EditorMirrorsScript
<1>1. EditorInv => EditorMirrorsScript
  <2> SUFFICES ASSUME EditorInv, phase = "idle", Mounted, typed[current] # "raced"
               PROVE  /\ view.targetScript = Displayed
                      /\ view.doc = reg.text[Displayed]
                      /\ view.scriptBuffers = reg.scripts[Displayed].processed
                      /\ view.derivedFocus = reg.userFocus[current]
                      /\ UNION {view.decorations[d] : d \in DOMAIN NoDecorations} \subseteq DOMAIN view.doc
    BY DEF EditorMirrorsScript
  <2> DEFINE s == Displayed
             b == view.scriptBuffers
  <2>1. /\ RegistryOK(reg) /\ Owned(reg, queue) /\ Unanalyzed(reg) /\ Fine(reg, queue, typed)
        /\ Painted(reg, view) /\ Mirrors(reg, queue, view, typed) /\ view \in ViewTypes
    BY DEF EditorInv, Books, Shows, ViewOK
  <2>2. queue = <<>> /\ Renders(reg, current, view) /\ ~reg.scripts[s].outdatedAnalysis
    BY DEF EditorInv, Rendered, Mounted, MountedView
  <2>3. /\ view.targetScript = s /\ b = Processed(reg, s) /\ view.derivedFocus = reg.userFocus[current]
        /\ view.decorations.focused = buildDecorationsFromFocus(Buffers(reg, b), view.derivedFocus)
    BY <2>2 DEF Renders, Displayed
  <2>4. s \in ScriptIds /\ s[1] = current /\ s # NoScript
    BY ScriptIdsAre DEF EditorInv, Displayed, NoScript, MainKey
  <2> HIDE DEF s
  <2>5. view.doc = reg.text[s]
    BY <2>1, <2>2, <2>3, <2>4 DEF Mirrors
  <2>6. b \in Alive(reg) /\ b \in Nat /\ b # NoBuffers
    BY <2>1, <2>2, <2>3, <2>4, BuffersOf DEF Owned, Unanalyzed
  <2>7. reg.buffers[b].text = reg.text[s]
    <3>1. DOMAIN queue = {} /\ Len(queue) = 0 /\ 0 \in 0..Len(queue)
      BY <2>2
    <3>2. Final(reg, queue, s, b, 0)
      BY <2>3, <3>1 DEF Final
    <3>3. Current(reg, queue, s, b, 0)
      BY <2>1, <2>4, <2>6, <3>1, <3>2 DEF Fine
    <3> QED
      BY <2>6, <3>3 DEF Current
  <2>8. /\ Buffers(reg, b) = reg.buffers[b] /\ Buffers(reg, b) \in Analyses /\ Buffers(reg, b) # Null
        /\ view.derivedFocus \in AnyFocus
    BY <2>1, <2>6, BuffersOf, AnalysisFields, ViewFields
  <2>9. view.decorations.focused \subseteq DOMAIN view.doc
    <3>1. buildDecorationsFromFocus(Buffers(reg, b), view.derivedFocus) \subseteq DOMAIN Buffers(reg, b).text
      BY <2>8, FocusedDecorations
    <3> QED
      BY <2>3, <2>5, <2>7, <2>8, <3>1
  <2>10. view.decorations.tokens \subseteq DOMAIN view.doc /\ view.decorations.unresolved \subseteq DOMAIN view.doc
    BY <2>1, <2>5, <2>6, <2>7 DEF Painted
  <2>11. \A d \in DOMAIN NoDecorations : view.decorations[d] \subseteq DOMAIN view.doc
    <3>1. DOMAIN NoDecorations = {"tokens", "unresolved", "focused"}
      BY DEF NoDecorations
    <3> QED
      BY <2>9, <2>10, <3>1
  <2> QED
    BY <2>3, <2>5, <2>11 DEF Processed, s
<1> QED
  BY <1>1, EditorIsInvariant, PTL

=============================================================================
