----------------------- MODULE CatalogReferenceProofs -----------------------
(***************************************************************************)
(* Theorems about what the catalog declares and resolves: the names of the *)
(* loaded scripts stay declared, their tables resolve, references that     *)
(* were resolved against the current version are current, and the catalog  *)
(* implements NameResolution.                                              *)
(***************************************************************************)
EXTENDS CatalogProofs

-----------------------------------------------------------------------------
(***************************************************************************)
(* The inductive invariant.  An analysis refers to the databases and to    *)
(* the schemas of the tables it declares, so that the key which keeps its  *)
(* schema declared keeps the database declared as well; no entry finds a   *)
(* table that it does not declare; no analysis is newer than the catalog.  *)
(***************************************************************************)
NamesItsTables(e) ==
  /\ e.table_declarations = e.tables_by_name
  /\ DatabasesOf(e) = DatabasesOfTables(e.tables_by_name)
  /\ SchemasOf(e) = SchemasOfTables(e.tables_by_name)

AnalysesNameTheirTables ==
  \A s \in Scripts : NamesItsTables(analyzed[s]) /\ NamesItsTables(script_entries[s].analyzed)

FoundTablesDeclared ==
  \A id \in EntryIds : entries[id].tables_by_name \subseteq entries[id].table_declarations

AnalysesNotNewer == version \in Nat \ {0} /\ \A s \in Scripts : analyzed[s].catalog_version <= version

UnloadedEmpty == \A s \in Scripts : ~Loaded(s) => script_entries[s] = NotLoaded

ReferenceInv ==
  /\ IndexInv
  /\ AnalysesNameTheirTables
  /\ FoundTablesDeclared
  /\ UnloadedEmpty
  /\ LoadedNamesDeclared
  /\ AnalysesNotNewer
  /\ VersionProtectsReferences

-----------------------------------------------------------------------------
(***************************************************************************)
(* Analyses name their tables.                                             *)
(***************************************************************************)
LEMMA NullNames == NamesItsTables(Null) /\ DatabasesOf(Null) = {} /\ SchemasOf(Null) = {}
BY DEF NamesItsTables, Null, DatabasesOf, SchemasOf, DatabasesOfTables, SchemasOfTables

LEMMA AnalyzeNames ==
  ASSUME TypeOK, NEW s \in Scripts, NEW text \in Texts, Analyze(s, text)
  PROVE  /\ NamesItsTables(analyzed'[s])
         /\ \A r \in Scripts \ {s} : analyzed'[r] = analyzed[r]
<1> DEFINE dbs == DatabasesOfTables(text.creates)
           sms == SchemasOfTables(text.creates)
           declared == [k \in Schemas |-> schemas[k].schema_id]
           dids == Allocate(dbs, databases, next_database_id)
           sids == Allocate(sms, declared, next_schema_id)
<1>1. dbs \in SUBSET Databases /\ sms \in SUBSET Schemas
  BY InputAssumption, NamesOfTables
<1>2. databases \in [Databases -> Nat] /\ declared \in [Schemas -> Nat]
  BY DEF TypeOK
<1>3. /\ next_database_id \in Nat /\ next_database_id # 0
      /\ next_schema_id \in Nat /\ next_schema_id # 0
  BY DEF TypeOK
<1>4. /\ analyzed'[s].databases_by_name = dids /\ analyzed'[s].schemas_by_name = sids
      /\ analyzed'[s].table_declarations = text.creates /\ analyzed'[s].tables_by_name = text.creates
  BY DEF Analyze, TypeOK
<1>5. \A d \in Databases : dids[d] # 0 <=> d \in dbs
  <2>1. Databases \subseteq Nat /\ IsFiniteSet(Databases)
    BY NameAssumption
  <2> HIDE DEF dbs
  <2>2. \A d \in dbs : Allocate(dbs, databases, next_database_id)[d] # 0
    BY <1>1, <1>2, <1>3, <2>1, AllocateNotNull
  <2>3. \A d \in Databases \ dbs : Allocate(dbs, databases, next_database_id)[d] = 0
    BY <1>2 DEF Allocate
  <2> QED
    BY <2>2, <2>3
<1>6. \A k \in Schemas : sids[k] # 0 <=> k \in sms
  <2>1. Schemas \subseteq Nat /\ IsFiniteSet(Schemas)
    BY NameAssumption
  <2> HIDE DEF sms, declared
  <2>2. \A k \in sms : Allocate(sms, declared, next_schema_id)[k] # 0
    BY <1>1, <1>2, <1>3, <2>1, AllocateNotNull
  <2>3. \A k \in Schemas \ sms : Allocate(sms, declared, next_schema_id)[k] = 0
    BY <1>2 DEF Allocate
  <2> QED
    BY <2>2, <2>3
<1>7. NamesItsTables(analyzed'[s])
  <2>1. DatabasesOf(analyzed'[s]) = dbs
    <3> HIDE DEF dbs, dids
    <3> QED
      BY <1>1, <1>4, <1>5 DEF DatabasesOf
  <2>2. SchemasOf(analyzed'[s]) = sms
    <3> HIDE DEF sms, sids
    <3> QED
      BY <1>1, <1>4, <1>6 DEF SchemasOf
  <2> QED
    BY <1>4, <2>1, <2>2 DEF NamesItsTables
<1> QED
  BY <1>7 DEF Analyze, TypeOK

(***************************************************************************)
(* An analysis comes from the analyzer, is forgotten or stays; a loaded    *)
(* script is the analysis of its time.                                     *)
(***************************************************************************)
LEMMA InheritedNames ==
  ASSUME AnalysesNameTheirTables,
         \A r \in Scripts : analyzed'[r] \in {analyzed[r], Null} \/ NamesItsTables(analyzed'[r]),
         \A r \in Scripts : script_entries'[r].analyzed \in {script_entries[r].analyzed, analyzed[r], Null}
  PROVE  AnalysesNameTheirTables'
<1>1. \A r \in Scripts : NamesItsTables(analyzed'[r]) /\ NamesItsTables(script_entries'[r].analyzed)
  BY NullNames DEF AnalysesNameTheirTables
<1> QED
  BY <1>1 DEF AnalysesNameTheirTables, NamesItsTables, DatabasesOf, SchemasOf,
              DatabasesOfTables, SchemasOfTables

LEMMA NextNames == IndexInv /\ AnalysesNameTheirTables /\ [Next]_vars => AnalysesNameTheirTables'
<1> SUFFICES ASSUME IndexInv, AnalysesNameTheirTables, [Next]_vars PROVE AnalysesNameTheirTables'
  OBVIOUS
<1> USE DEF IndexInv, TypeOK
<1>1. ASSUME NEW s \in Scripts, NEW text \in Texts, Analyze(s, text) PROVE AnalysesNameTheirTables'
  <2>1. NamesItsTables(analyzed'[s]) /\ \A r \in Scripts \ {s} : analyzed'[r] = analyzed[r]
    BY <1>1, AnalyzeNames
  <2>2. UNCHANGED script_entries
    BY <1>1 DEF Analyze, indexes
  <2> QED
    BY <2>1, <2>2, InheritedNames
<1>2. ASSUME NEW s \in Scripts, NEW rank \in Ranks, LoadNewScript(s, rank)
      PROVE  AnalysesNameTheirTables'
  BY <1>2, InheritedNames DEF LoadNewScript
<1>3. ASSUME NEW s \in Scripts, LoadScriptOutOfSync(s) PROVE AnalysesNameTheirTables'
  BY <1>3, InheritedNames DEF LoadScriptOutOfSync, indexes
<1>4. ASSUME NEW s \in Scripts, UpdateScript(s) PROVE AnalysesNameTheirTables'
  BY <1>4, InheritedNames DEF UpdateScript, ScriptEntry
<1>5. ASSUME NEW s \in Scripts, DropLoadedScript(s)
      PROVE  \A r \in Scripts : script_entries'[r].analyzed \in {script_entries[r].analyzed, Null}
  BY <1>5 DEF DropLoadedScript, NotLoaded
<1>6. ASSUME NEW s \in Scripts, DropScript(s) PROVE AnalysesNameTheirTables'
  BY <1>5, <1>6, InheritedNames DEF DropScript
<1>7. ASSUME NEW s \in Scripts, DeleteScript(s) PROVE AnalysesNameTheirTables'
  <2>1. \A r \in Scripts : analyzed'[r] \in {analyzed[r], Null}
    BY <1>7 DEF DeleteScript
  <2>2. \A r \in Scripts : script_entries'[r].analyzed \in {script_entries[r].analyzed, Null}
    BY <1>5, <1>7 DEF DeleteScript, indexes
  <2> QED
    BY <2>1, <2>2, InheritedNames
<1>8. ASSUME NEW id \in PoolIds, NEW rank \in Ranks, AddDescriptorPool(id, rank)
      PROVE  AnalysesNameTheirTables'
  BY <1>8, InheritedNames DEF AddDescriptorPool
<1>9. ASSUME NEW id \in PoolIds, DropDescriptorPool(id) PROVE AnalysesNameTheirTables'
  BY <1>9, InheritedNames DEF DropDescriptorPool
<1>10. ASSUME NEW id \in PoolIds, NEW ds \in Descriptors,
              AddSchemaDescriptors(id, ds) \/ AddSchemaDescriptorsFails(id, ds)
       PROVE  AnalysesNameTheirTables'
  BY <1>10, InheritedNames DEF AddSchemaDescriptors, AddSchemaDescriptorsFails
<1>11. ASSUME Clear PROVE AnalysesNameTheirTables'
  <2>1. \A r \in Scripts : script_entries'[r].analyzed = Null
    BY <1>11 DEF Clear, NotLoaded
  <2> QED
    BY <1>11, <2>1, InheritedNames DEF Clear
<1>12. ASSUME UNCHANGED vars PROVE AnalysesNameTheirTables'
  BY <1>12, InheritedNames DEF vars, indexes
<1> QED
  BY <1>1, <1>2, <1>3, <1>4, <1>6, <1>7, <1>8, <1>9, <1>10, <1>11, <1>12 DEF Next

-----------------------------------------------------------------------------
(***************************************************************************)
(* A lookup finds no table that its entry does not declare.                *)
(***************************************************************************)
LEMMA InheritedTables ==
  ASSUME FoundTablesDeclared,
         \A i \in EntryIds : \/ entries'[i] = entries[i]
                             \/ entries'[i].tables_by_name \subseteq entries'[i].table_declarations
  PROVE  FoundTablesDeclared'
BY DEF FoundTablesDeclared

(***************************************************************************)
(* What AddSchemaDescriptors does to the tables of a pool: all that were   *)
(* read are found afterwards; a call that fails hides what it read.        *)
(***************************************************************************)
LEMMA PoolTables ==
  ASSUME TypeOK, NEW id \in PoolIds, NEW ds \in Descriptors
  PROVE  /\ AddSchemaDescriptors(id, ds) =>
              /\ entries'[id].tables_by_name = entries'[id].table_declarations
              /\ entries'[id].table_declarations \in SUBSET Tables
              /\ \A i \in EntryIds \ {id} : entries'[i] = entries[i]
         /\ AddSchemaDescriptorsFails(id, ds) =>
              /\ entries'[id].tables_by_name = entries[id].tables_by_name
              /\ entries[id].table_declarations \subseteq entries'[id].table_declarations
              /\ \A i \in EntryIds \ {id} : entries'[i] = entries[i]
<1>1. id \in EntryIds /\ entries[id] \in CatalogEntry
  BY IdAssumption DEF TypeOK
<1>2. /\ ds \in SUBSET Descriptor /\ TablesOf(ds) \in SUBSET Tables
      /\ \A es \in SUBSET ds : TablesOf(es) \in SUBSET Tables
  BY DescriptorTypes
<1>3. ASSUME AddSchemaDescriptors(id, ds)
      PROVE  /\ entries'[id].tables_by_name = entries'[id].table_declarations
             /\ entries'[id].table_declarations \in SUBSET Tables
             /\ \A i \in EntryIds \ {id} : entries'[i] = entries[i]
  <2>1. PICK pool : pool = RegisterNames(entries[id], ds).pool
    OBVIOUS
  <2>2. PICK tables : tables = entries[id].table_declarations \cup TablesOf(ds)
    OBVIOUS
  <2>3. entries' = [entries EXCEPT ![id] =
                      [pool EXCEPT !.table_declarations = tables, !.tables_by_name = tables]]
    BY <1>3, <2>1, <2>2 DEF AddSchemaDescriptors
  <2>4. pool \in CatalogEntry /\ tables \in SUBSET Tables
    BY <1>1, <1>2, <2>1, <2>2, RegisterNamesType DEF CatalogEntry
  <2> QED
    BY ONLY TypeOK, <1>1, <2>3, <2>4 DEF TypeOK, CatalogEntry
<1>4. ASSUME AddSchemaDescriptorsFails(id, ds)
      PROVE  /\ entries'[id].tables_by_name = entries[id].tables_by_name
             /\ entries[id].table_declarations \subseteq entries'[id].table_declarations
             /\ \A i \in EntryIds \ {id} : entries'[i] = entries[i]
  <2>1. PICK d \in ds, before \in SUBSET ds, ts \in SUBSET Tables :
          entries' = [entries EXCEPT ![id] =
            [RegisterNames(entries[id], before \cup {d}).pool EXCEPT
               !.table_declarations = @ \cup TablesOf(before) \cup ts]]
    <3>1. \A d \in ds : d.tables \in SUBSET Tables
      BY <1>2 DEF Descriptor
    <3> QED
      BY <1>4, <3>1 DEF AddSchemaDescriptorsFails
  <2>2. PICK pool : pool = RegisterNames(entries[id], before \cup {d}).pool
    OBVIOUS
  <2>3. /\ pool \in CatalogEntry
        /\ pool.table_declarations = entries[id].table_declarations
        /\ pool.tables_by_name = entries[id].tables_by_name
    BY <1>1, <1>2, <2>2, RegisterNamesType
  <2>4. PICK tables : tables = pool.table_declarations \cup TablesOf(before) \cup ts
    OBVIOUS
  <2>5. entries' = [entries EXCEPT ![id] = [pool EXCEPT !.table_declarations = tables]]
    BY <2>1, <2>2, <2>3, <2>4 DEF CatalogEntry
  <2> QED
    BY <1>1, <2>3, <2>4, <2>5 DEF TypeOK, CatalogEntry
<1> QED
  BY <1>3, <1>4

LEMMA NextTables ==
  IndexInv /\ AnalysesNameTheirTables /\ FoundTablesDeclared /\ [Next]_vars => FoundTablesDeclared'
<1> SUFFICES ASSUME IndexInv, AnalysesNameTheirTables, FoundTablesDeclared, [Next]_vars
             PROVE  FoundTablesDeclared'
  OBVIOUS
<1> USE DEF IndexInv, TypeOK
<1>1. ASSUME NEW id \in EntryIds, NEW e \in CatalogEntry, e.tables_by_name \subseteq e.table_declarations,
             entries' = [entries EXCEPT ![id] = e]
      PROVE  FoundTablesDeclared'
  BY <1>1, InheritedTables
<1>2. ASSUME UNCHANGED entries PROVE FoundTablesDeclared'
  BY <1>2, InheritedTables
<1>3. /\ Null \in CatalogEntry /\ NewPool \in CatalogEntry
      /\ Null.tables_by_name \subseteq Null.table_declarations
      /\ NewPool.tables_by_name \subseteq NewPool.table_declarations
  BY EntryTypes DEF NewPool, Null
<1>4. \A s \in Scripts : analyzed[s] \in CatalogEntry
                         /\ analyzed[s].tables_by_name \subseteq analyzed[s].table_declarations
  BY DEF AnalysesNameTheirTables, NamesItsTables
<1>5. ASSUME NEW s \in Scripts, NEW text \in Texts, Analyze(s, text) PROVE FoundTablesDeclared'
  BY <1>2, <1>5 DEF Analyze, indexes
<1>6. ASSUME NEW s \in Scripts, NEW rank \in Ranks, LoadNewScript(s, rank) PROVE FoundTablesDeclared'
  BY <1>1, <1>4, <1>6, IdAssumption DEF LoadNewScript
<1>7. ASSUME NEW s \in Scripts, LoadScriptOutOfSync(s) PROVE FoundTablesDeclared'
  BY <1>2, <1>7 DEF LoadScriptOutOfSync, indexes
<1>8. ASSUME NEW s \in Scripts, UpdateScript(s) PROVE FoundTablesDeclared'
  BY <1>1, <1>4, <1>8, IdAssumption DEF UpdateScript
<1>9. ASSUME NEW s \in Scripts, DropLoadedScript(s) PROVE FoundTablesDeclared'
  BY <1>1, <1>3, <1>9, IdAssumption DEF DropLoadedScript, DropEntry
<1>10. ASSUME NEW s \in Scripts, DropScript(s) \/ DeleteScript(s) PROVE FoundTablesDeclared'
  BY <1>2, <1>9, <1>10 DEF DropScript, DeleteScript, indexes
<1>11. ASSUME NEW id \in PoolIds, NEW rank \in Ranks, AddDescriptorPool(id, rank)
       PROVE  FoundTablesDeclared'
  BY <1>1, <1>3, <1>11, IdAssumption DEF AddDescriptorPool
<1>12. ASSUME NEW id \in PoolIds, DropDescriptorPool(id) PROVE FoundTablesDeclared'
  BY <1>1, <1>3, <1>12, IdAssumption DEF DropDescriptorPool, DropEntry
<1>13. ASSUME NEW id \in PoolIds, NEW ds \in Descriptors, AddSchemaDescriptors(id, ds)
       PROVE  FoundTablesDeclared'
  BY <1>13, PoolTables, InheritedTables
<1>14. ASSUME NEW id \in PoolIds, NEW ds \in Descriptors, AddSchemaDescriptorsFails(id, ds)
       PROVE  FoundTablesDeclared'
  BY <1>14, PoolTables, InheritedTables DEF FoundTablesDeclared
<1>15. ASSUME Clear PROVE FoundTablesDeclared'
  BY <1>3, <1>15, InheritedTables DEF Clear
<1>16. ASSUME UNCHANGED vars PROVE FoundTablesDeclared'
  BY <1>2, <1>16 DEF vars, indexes
<1> QED
  BY <1>5, <1>6, <1>7, <1>8, <1>10, <1>11, <1>12, <1>13, <1>14, <1>15, <1>16 DEF Next

-----------------------------------------------------------------------------
(***************************************************************************)
(* What loaded scripts refer to is declared.                               *)
(***************************************************************************)
\* A declaration is added and no other one is lost.
LEMMA DeclareKeeps ==
  ASSUME NEW e, NEW ds \in SUBSET DatabasesOf(e), NEW ks \in SUBSET SchemasOf(e)
  PROVE  /\ \A d \in Databases : databases[d] # 0 \/ d \in ds => DeclareDatabases(e, ds)[d] # 0
         /\ \A k \in Schemas : schemas[k] # Undeclared \/ k \in ks =>
              DeclareSchemas(e, ks)[k] # Undeclared
<1>1. \A d \in ds : e.databases_by_name[d] # 0
  BY DEF DatabasesOf
<1>2. \A k \in ks : Ids(e, k) # Undeclared
  BY DEF SchemasOf, Ids, Undeclared
<1> QED
  BY <1>1, <1>2 DEF DeclareDatabases, DeclareSchemas

LEMMA LoadNewScriptDeclared ==
  ASSUME IndexInv, LoadedNamesDeclared, NEW s \in Scripts, NEW rank \in Ranks, LoadNewScript(s, rank)
  PROVE  LoadedNamesDeclared'
<1>1. PICK e : e = analyzed[s]
  OBVIOUS
<1>2. /\ \A d \in Databases : databases[d] # 0 \/ d \in DatabasesOf(e) => databases'[d] # 0
      /\ \A k \in Schemas : schemas[k] # Undeclared \/ k \in SchemasOf(e) => schemas'[k] # Undeclared
  BY <1>1, DeclareKeeps DEF LoadNewScript
<1>3. /\ script_entries'[s].analyzed = e
      /\ \A r \in Scripts \ {s} : script_entries'[r] = script_entries[r]
  BY <1>1 DEF LoadNewScript, IndexInv, TypeOK
<1>4. \A r \in Scripts : /\ \A d \in DatabasesOf(script_entries'[r].analyzed) : databases'[d] # 0
                         /\ \A k \in SchemasOf(script_entries'[r].analyzed) : schemas'[k] # Undeclared
  BY <1>2, <1>3 DEF LoadedNamesDeclared, DatabasesOf, SchemasOf
<1> QED
  BY <1>4 DEF LoadedNamesDeclared, DatabasesOf, SchemasOf, Undeclared

LEMMA LoadScriptOutOfSyncDeclared ==
  ASSUME LoadedNamesDeclared, NEW s \in Scripts, LoadScriptOutOfSync(s)
  PROVE  LoadedNamesDeclared'
<1>1. PICK e : e = analyzed[s]
  OBVIOUS
<1>2. \A d \in Databases : databases[d] # 0 => databases'[d] # 0
  <2>1. PICK ds \in SUBSET DatabasesOf(e) : databases' = DeclareDatabases(e, ds)
    BY <1>1 DEF LoadScriptOutOfSync
  <2> QED
    BY <2>1, DeclareKeeps
<1>3. \A k \in Schemas : schemas[k] # Undeclared => schemas'[k] # Undeclared
  <2>1. UNCHANGED schemas \/ \E ks \in SUBSET SchemasOf(e) : schemas' = DeclareSchemas(e, ks)
    BY <1>1 DEF LoadScriptOutOfSync
  <2> QED
    BY <2>1, DeclareKeeps
<1>4. UNCHANGED script_entries
  BY DEF LoadScriptOutOfSync, indexes
<1>5. \A r \in Scripts : /\ \A d \in DatabasesOf(script_entries'[r].analyzed) : databases'[d] # 0
                         /\ \A k \in SchemasOf(script_entries'[r].analyzed) : schemas'[k] # Undeclared
  BY <1>2, <1>3, <1>4 DEF LoadedNamesDeclared, DatabasesOf, SchemasOf
<1> QED
  BY <1>5 DEF LoadedNamesDeclared, DatabasesOf, SchemasOf, Undeclared

\* The other scripts keep their keys when one of them is updated.
LEMMA UpdateKeepsKeys ==
  ASSUME IndexInv, NEW s \in Scripts, UpdateScript(s),
         NEW r \in Scripts, r # s, Loaded(r), NEW k \in SchemasOf(script_entries[r].analyzed)
  PROVE  <<k, script_entries[r].rank, ScriptId[r]>> \in entries_by_schema'
<1>1. ScriptId[r] # ScriptId[s]
  BY DEF UpdateScript, IndexInv, IndexesConsistent, EntriesOwned
<1>2. <<k, script_entries[r].rank, ScriptId[r]>> \in entries_by_schema
  BY DEF IndexInv, IndexesConsistent, SchemaIndexSound, SchemaKeys
<1> QED
  BY <1>1, <1>2 DEF UpdateScript, UpdateKeys, SchemaKeys

LEMMA UpdateScriptDeclared ==
  ASSUME IndexInv, AnalysesNameTheirTables, UnloadedEmpty, LoadedNamesDeclared,
         NEW s \in Scripts, UpdateScript(s)
  PROVE  LoadedNamesDeclared'
<1>1. PICK old, new, keys : /\ old = script_entries[s].analyzed
                            /\ new = analyzed[s]
                            /\ keys = entries_by_schema'
  OBVIOUS
<1>2. schemas' = UpdateSchemas(old, new, keys) /\ databases' = UpdateDatabases(old, new, keys)
  BY <1>1 DEF UpdateScript
<1>3. /\ script_entries'[s].analyzed = new
      /\ \A r \in Scripts \ {s} : script_entries'[r] = script_entries[r]
  BY <1>1 DEF UpdateScript, IndexInv, TypeOK, ScriptEntry
<1>4. \A k \in SchemasOf(new) : schemas'[k] # Undeclared
  <2>1. \A k \in SchemasOf(new) : k \in Schemas /\ Ids(new, k) # Undeclared
    BY DEF SchemasOf, Ids, Undeclared
  <2>2. \A k \in SchemasOf(old) : schemas[k] # Undeclared
    BY <1>1 DEF LoadedNamesDeclared
  <2> QED
    BY <1>2, <2>1, <2>2 DEF UpdateSchemas
<1>5. \A d \in DatabasesOf(new) : databases'[d] # 0
  <2>1. \A d \in DatabasesOf(new) : d \in Databases /\ new.databases_by_name[d] # 0
    BY DEF DatabasesOf
  <2>2. \A d \in DatabasesOf(old) : databases[d] # 0
    BY <1>1 DEF LoadedNamesDeclared
  <2> QED
    BY <1>2, <2>1, <2>2 DEF UpdateDatabases
<1>6. ASSUME NEW r \in Scripts, r # s
      PROVE  /\ \A d \in DatabasesOf(script_entries[r].analyzed) : databases'[d] # 0
             /\ \A k \in SchemasOf(script_entries[r].analyzed) : schemas'[k] # Undeclared
  <2>1. PICK e : e = script_entries[r].analyzed
    OBVIOUS
  <2>2. CASE ~Loaded(r)
    <3>1. DatabasesOf(e) = {} /\ SchemasOf(e) = {}
      BY <2>1, <2>2, NullNames DEF UnloadedEmpty, NotLoaded
    <3> QED
      BY <2>1, <3>1
  <2>3. CASE Loaded(r)
    <3>1. \A k \in SchemasOf(e) : ~NoKeyFor(keys, {k})
      BY <1>1, <1>6, <2>1, <2>3, UpdateKeepsKeys DEF NoKeyFor
    <3>2. \A d \in DatabasesOf(e) : ~NoKeyFor(keys, SchemasIn(d))
      <4>1. SUFFICES ASSUME NEW d \in DatabasesOf(e) PROVE ~NoKeyFor(keys, SchemasIn(d))
        OBVIOUS
      <4>2. PICK t \in e.tables_by_name : d = DatabaseOf[SchemaOf[t]]
        BY <2>1 DEF AnalysesNameTheirTables, NamesItsTables, DatabasesOfTables
      <4>3. SchemaOf[t] \in SchemasOf(e)
        BY <2>1, <4>2 DEF AnalysesNameTheirTables, NamesItsTables, SchemasOfTables
      <4>4. SchemaOf[t] \in SchemasIn(d)
        BY <4>2, <4>3 DEF SchemasIn, SchemasOf
      <4> QED
        BY <3>1, <4>3, <4>4 DEF NoKeyFor
    <3>3. /\ \A d \in DatabasesOf(e) : databases[d] # 0
          /\ \A k \in SchemasOf(e) : schemas[k] # Undeclared
      BY <2>1 DEF LoadedNamesDeclared
    <3>4. \A k \in SchemasOf(new) : Ids(new, k) # Undeclared
      BY DEF SchemasOf, Ids, Undeclared
    <3> QED
      BY <1>2, <2>1, <3>1, <3>2, <3>3, <3>4 DEF UpdateSchemas, UpdateDatabases, SchemasOf, DatabasesOf
  <2> QED
    BY <2>2, <2>3
<1>7. \A r \in Scripts : /\ \A d \in DatabasesOf(script_entries'[r].analyzed) : databases'[d] # 0
                         /\ \A k \in SchemasOf(script_entries'[r].analyzed) : schemas'[k] # Undeclared
  BY <1>3, <1>4, <1>5, <1>6
<1> QED
  BY <1>7 DEF LoadedNamesDeclared, DatabasesOf, SchemasOf, Undeclared

\* Scripts are taken out of the catalog, and what is declared stays.
LEMMA DropDeclared ==
  ASSUME LoadedNamesDeclared, UNCHANGED <<databases, schemas>>,
         \A r \in Scripts : script_entries'[r].analyzed \in {script_entries[r].analyzed, Null}
  PROVE  LoadedNamesDeclared'
<1>1. \A r \in Scripts : /\ \A d \in DatabasesOf(script_entries'[r].analyzed) : databases[d] # 0
                         /\ \A k \in SchemasOf(script_entries'[r].analyzed) : schemas[k] # Undeclared
  BY NullNames DEF LoadedNamesDeclared
<1> QED
  BY <1>1 DEF LoadedNamesDeclared, DatabasesOf, SchemasOf, Undeclared

LEMMA NextDeclared ==
  IndexInv /\ AnalysesNameTheirTables /\ UnloadedEmpty /\ LoadedNamesDeclared /\ [Next]_vars
    => UnloadedEmpty' /\ LoadedNamesDeclared'
<1> SUFFICES ASSUME IndexInv, AnalysesNameTheirTables, UnloadedEmpty, LoadedNamesDeclared, [Next]_vars
             PROVE  UnloadedEmpty' /\ LoadedNamesDeclared'
  OBVIOUS
<1> USE DEF IndexInv, TypeOK
<1>0. ASSUME UNCHANGED script_entries PROVE UnloadedEmpty'
  BY <1>0 DEF UnloadedEmpty, Loaded
<1>1. ASSUME UNCHANGED <<script_entries, databases, schemas>> PROVE UnloadedEmpty' /\ LoadedNamesDeclared'
  BY <1>0, <1>1, DropDeclared
<1>2. ASSUME NEW s \in Scripts, NEW text \in Texts, Analyze(s, text)
      PROVE  UnloadedEmpty' /\ LoadedNamesDeclared'
  BY <1>1, <1>2 DEF Analyze, indexes
<1>3. ASSUME NEW s \in Scripts, NEW rank \in Ranks, LoadNewScript(s, rank)
      PROVE  UnloadedEmpty' /\ LoadedNamesDeclared'
  <2>1. UnloadedEmpty'
    BY <1>3 DEF LoadNewScript, IsNew, UnloadedEmpty, Loaded
  <2> QED
    BY <1>3, <2>1, LoadNewScriptDeclared
<1>4. ASSUME NEW s \in Scripts, LoadScriptOutOfSync(s) PROVE UnloadedEmpty' /\ LoadedNamesDeclared'
  BY <1>0, <1>4, LoadScriptOutOfSyncDeclared DEF LoadScriptOutOfSync, indexes
<1>5. ASSUME NEW s \in Scripts, UpdateScript(s) PROVE UnloadedEmpty' /\ LoadedNamesDeclared'
  <2>1. Exists(analyzed[s])
    BY <1>5 DEF UpdateScript, IndexesConsistent, EntriesOwned
  <2>2. /\ script_entries'[s].analyzed = analyzed[s]
        /\ \A r \in Scripts \ {s} : script_entries'[r] = script_entries[r]
    BY <1>5 DEF UpdateScript, ScriptEntry
  <2>3. UnloadedEmpty'
    BY <2>1, <2>2 DEF UnloadedEmpty, Loaded, Exists, NotLoaded, Null
  <2> QED
    BY <1>5, <2>3, UpdateScriptDeclared
<1>6. ASSUME NEW s \in Scripts, DropLoadedScript(s) PROVE UnloadedEmpty' /\ LoadedNamesDeclared'
  <2>1. \A r \in Scripts : script_entries'[r] \in {script_entries[r], NotLoaded}
    BY <1>6 DEF DropLoadedScript
  <2>2. UnloadedEmpty'
    BY <2>1 DEF UnloadedEmpty, Loaded, NotLoaded, Null
  <2>3. \A r \in Scripts : script_entries'[r].analyzed \in {script_entries[r].analyzed, Null}
    BY <2>1 DEF NotLoaded
  <2> QED
    BY <1>6, <2>2, <2>3, DropDeclared DEF DropLoadedScript
<1>7. ASSUME NEW s \in Scripts, DropScript(s) \/ DeleteScript(s) PROVE UnloadedEmpty' /\ LoadedNamesDeclared'
  BY <1>1, <1>6, <1>7 DEF DropScript, DeleteScript, indexes
<1>8. ASSUME NEW id \in PoolIds, NEW rank \in Ranks, AddDescriptorPool(id, rank)
      PROVE  UnloadedEmpty' /\ LoadedNamesDeclared'
  BY <1>1, <1>8 DEF AddDescriptorPool
<1>9. ASSUME NEW id \in PoolIds, DropDescriptorPool(id) PROVE UnloadedEmpty' /\ LoadedNamesDeclared'
  BY <1>1, <1>9 DEF DropDescriptorPool
<1>10. ASSUME NEW id \in PoolIds, NEW ds \in Descriptors,
              AddSchemaDescriptors(id, ds) \/ AddSchemaDescriptorsFails(id, ds)
       PROVE  UnloadedEmpty' /\ LoadedNamesDeclared'
  BY <1>1, <1>10 DEF AddSchemaDescriptors, AddSchemaDescriptorsFails
<1>11. ASSUME Clear PROVE UnloadedEmpty' /\ LoadedNamesDeclared'
  <2>1. \A r \in Scripts : script_entries'[r] = NotLoaded
    BY <1>11 DEF Clear
  <2>2. UnloadedEmpty'
    BY <2>1 DEF UnloadedEmpty, NotLoaded, Null
  <2>3. \A r \in Scripts : script_entries'[r].analyzed = Null
    BY <2>1 DEF NotLoaded
  <2> QED
    BY <1>11, <2>2, <2>3, DropDeclared DEF Clear
<1>12. ASSUME UNCHANGED vars PROVE UnloadedEmpty' /\ LoadedNamesDeclared'
  BY <1>1, <1>12 DEF vars, indexes
<1> QED
  BY <1>2, <1>3, <1>4, <1>5, <1>7, <1>8, <1>9, <1>10, <1>11, <1>12 DEF Next

-----------------------------------------------------------------------------
(***************************************************************************)
(* The version protects references.  A lookup reads the keys of the        *)
(* schemas and the tables that entries find, and nothing else.             *)
(***************************************************************************)
SameTables == /\ UNCHANGED entries_by_schema
              /\ \A id \in EntryIds : entries'[id].tables_by_name = entries[id].tables_by_name

LEMMA LookupUnchanged ==
  ASSUME TypeOK, SameTables, NEW t, NEW ignored
  PROVE  ResolveTable(t, ignored)' = ResolveTable(t, ignored)
<1>1. Candidates(t, ignored)' = Candidates(t, ignored)
  BY DEF SameTables, Candidates, TypeOK
<1> QED
  BY <1>1 DEF ResolveTable

VersionInv == AnalysesNotNewer /\ VersionProtectsReferences

\* A new version is newer than every analysis.
LEMMA NewVersion ==
  ASSUME TypeOK, AnalysesNotNewer, version' = version + 1,
         \A s \in Scripts : analyzed'[s] \in {analyzed[s], Null}
  PROVE  VersionInv'
<1>1. version \in Nat /\ \A s \in Scripts : analyzed[s].catalog_version \in Nat
  BY DEF TypeOK, CatalogEntry
<1>2. \A s \in Scripts : analyzed'[s].catalog_version < version'
  BY <1>1 DEF AnalysesNotNewer, Null
<1>3. AnalysesNotNewer'
  BY <1>1, <1>2 DEF AnalysesNotNewer, Null
<1>4. VersionProtectsReferences'
  BY <1>1, <1>2 DEF VersionProtectsReferences, Null
<1> QED
  BY <1>3, <1>4 DEF VersionInv

\* The version stays, and so do the lookups.
LEMMA SameVersion ==
  ASSUME TypeOK, VersionInv, UNCHANGED version, SameTables,
         \A s \in Scripts : analyzed'[s] \in {analyzed[s], Null}
  PROVE  VersionInv'
<1>1. AnalysesNotNewer'
  BY DEF VersionInv, AnalysesNotNewer, Null
<1>2. ASSUME NEW s \in Scripts, analyzed'[s].catalog_version = version', NEW ref \in analyzed'[s].table_references
      PROVE  ref[2] = IF ref[1] \in analyzed'[s].tables_by_name THEN ScriptId[s]
                      ELSE ResolveTable(ref[1], ScriptId[s])'
  <2>1. analyzed'[s] = analyzed[s]
    BY <1>2 DEF Null
  <2>2. ResolveTableWithCatalog(ref[1], analyzed[s].tables_by_name, ScriptId[s]) = ref[2]
    BY <1>2, <2>1 DEF VersionInv, VersionProtectsReferences
  <2>3. ResolveTable(ref[1], ScriptId[s])' = ResolveTable(ref[1], ScriptId[s])
    BY LookupUnchanged
  <2> QED
    BY <2>1, <2>2, <2>3 DEF ResolveTableWithCatalog
<1> QED
  BY <1>1, <1>2 DEF VersionInv, VersionProtectsReferences, ResolveTableWithCatalog

LEMMA AnalyzeVersion ==
  ASSUME TypeOK, VersionInv, NEW s \in Scripts, NEW text \in Texts, Analyze(s, text)
  PROVE  VersionInv'
<1>1. SameTables /\ UNCHANGED version
  BY DEF Analyze, indexes, SameTables
<1>2. /\ analyzed'[s].catalog_version = version
      /\ analyzed'[s].tables_by_name = text.creates
      /\ analyzed'[s].table_references =
           {<<t, ResolveTableWithCatalog(t, text.creates, ScriptId[s])>> : t \in text.reads}
      /\ \A r \in Scripts \ {s} : analyzed'[r] = analyzed[r]
  BY DEF Analyze, TypeOK
<1>3. AnalysesNotNewer'
  BY <1>1, <1>2 DEF VersionInv, AnalysesNotNewer, TypeOK
<1>4. ASSUME NEW r \in Scripts, analyzed'[r].catalog_version = version', NEW ref \in analyzed'[r].table_references
      PROVE  ref[2] = IF ref[1] \in analyzed'[r].tables_by_name THEN ScriptId[r]
                      ELSE ResolveTable(ref[1], ScriptId[r])'
  <2>1. ResolveTable(ref[1], ScriptId[r])' = ResolveTable(ref[1], ScriptId[r])
    BY <1>1, LookupUnchanged
  <2>2. ResolveTableWithCatalog(ref[1], analyzed'[r].tables_by_name, ScriptId[r]) = ref[2]
    <3>1. CASE r = s
      BY <1>2, <1>4, <3>1
    <3>2. CASE r # s
      BY <1>1, <1>2, <1>4, <3>2 DEF VersionInv, VersionProtectsReferences
    <3> QED
      BY <3>1, <3>2
  <2> QED
    BY <2>1, <2>2 DEF ResolveTableWithCatalog
<1> QED
  BY <1>3, <1>4 DEF VersionInv, VersionProtectsReferences, ResolveTableWithCatalog

LEMMA NextVersion == TypeOK /\ VersionInv /\ [Next]_vars => VersionInv'
<1> SUFFICES ASSUME TypeOK, VersionInv, [Next]_vars PROVE VersionInv'
  OBVIOUS
<1> USE DEF VersionInv
<1>1. ASSUME NEW s \in Scripts, NEW text \in Texts, Analyze(s, text) PROVE VersionInv'
  BY <1>1, AnalyzeVersion
<1>2. ASSUME Modify, UNCHANGED analyzed PROVE VersionInv'
  BY <1>2, NewVersion DEF Modify
<1>3. ASSUME UNCHANGED <<version, analyzed>>, SameTables PROVE VersionInv'
  BY <1>3, SameVersion
<1>4. ASSUME NEW s \in Scripts, LoadScriptOutOfSync(s) PROVE VersionInv'
  BY <1>3, <1>4 DEF LoadScriptOutOfSync, indexes, SameTables
<1>5. ASSUME NEW s \in Scripts, DeleteScript(s) PROVE VersionInv'
  <2>1. \A r \in Scripts : analyzed'[r] \in {analyzed[r], Null}
    BY <1>5 DEF DeleteScript, TypeOK
  <2>2. CASE DropLoadedScript(s)
    BY <2>1, <2>2, NewVersion DEF DropLoadedScript, Modify
  <2>3. CASE UNCHANGED indexes /\ UNCHANGED version
    BY <2>1, <2>3, SameVersion DEF indexes, SameTables
  <2> QED
    BY <1>5, <2>2, <2>3 DEF DeleteScript
<1>6. ASSUME NEW id \in PoolIds, NEW ds \in Descriptors, AddSchemaDescriptorsFails(id, ds)
      PROVE  VersionInv'
  <2>1. SameTables
    BY <1>6, PoolTables DEF AddSchemaDescriptorsFails, SameTables
  <2> QED
    BY <1>3, <1>6, <2>1 DEF AddSchemaDescriptorsFails
<1>7. ASSUME UNCHANGED vars PROVE VersionInv'
  BY <1>3, <1>7 DEF vars, indexes, SameTables
<1>8. ASSUME NEW s \in Scripts, NEW rank \in Ranks, LoadNewScript(s, rank) PROVE VersionInv'
  BY <1>2, <1>8 DEF LoadNewScript
<1>9. ASSUME NEW s \in Scripts, UpdateScript(s) \/ DropScript(s) PROVE VersionInv'
  BY <1>2, <1>9 DEF UpdateScript, DropScript, DropLoadedScript
<1>10. ASSUME NEW id \in PoolIds, NEW rank \in Ranks, AddDescriptorPool(id, rank) PROVE VersionInv'
  BY <1>2, <1>10 DEF AddDescriptorPool
<1>11. ASSUME NEW id \in PoolIds, DropDescriptorPool(id) PROVE VersionInv'
  BY <1>2, <1>11 DEF DropDescriptorPool
<1>12. ASSUME NEW id \in PoolIds, NEW ds \in Descriptors, AddSchemaDescriptors(id, ds) PROVE VersionInv'
  BY <1>2, <1>12 DEF AddSchemaDescriptors
<1>13. ASSUME Clear PROVE VersionInv'
  BY <1>2, <1>13 DEF Clear
<1> QED
  BY <1>1, <1>4, <1>5, <1>6, <1>7, <1>8, <1>9, <1>10, <1>11, <1>12, <1>13 DEF Next

-----------------------------------------------------------------------------
(***************************************************************************)
(* The invariant is inductive.                                             *)
(***************************************************************************)
LEMMA InitReferences == Init => ReferenceInv
<1> SUFFICES ASSUME Init PROVE ReferenceInv
  OBVIOUS
<1>1. IndexInv
  BY InitType, InitIndexes DEF IndexInv
<1>2. /\ \A s \in Scripts : analyzed[s] = Null /\ script_entries[s] = NotLoaded
      /\ \A id \in EntryIds : entries[id] = Null
      /\ version = 1
  BY DEF Init
<1>3. AnalysesNameTheirTables /\ FoundTablesDeclared /\ UnloadedEmpty
  <2>1. NotLoaded.analyzed = Null /\ Null.tables_by_name = {}
    BY DEF NotLoaded, Null
  <2> QED
    BY <1>2, <2>1, NullNames DEF AnalysesNameTheirTables, FoundTablesDeclared, UnloadedEmpty
<1>4. LoadedNamesDeclared
  BY <1>2, NullNames DEF LoadedNamesDeclared, NotLoaded
<1>5. AnalysesNotNewer /\ VersionProtectsReferences
  BY <1>2 DEF AnalysesNotNewer, VersionProtectsReferences, Null
<1> QED
  BY <1>1, <1>3, <1>4, <1>5 DEF ReferenceInv

LEMMA NextReferences == ReferenceInv /\ [Next]_vars => ReferenceInv'
<1> SUFFICES ASSUME ReferenceInv, [Next]_vars PROVE ReferenceInv'
  OBVIOUS
<1>1. IndexInv'
  BY NextType, NextIndexes DEF ReferenceInv, IndexInv
<1>2. AnalysesNameTheirTables' /\ FoundTablesDeclared'
  BY NextNames, NextTables DEF ReferenceInv
<1>3. UnloadedEmpty' /\ LoadedNamesDeclared'
  BY NextDeclared DEF ReferenceInv
<1>4. AnalysesNotNewer' /\ VersionProtectsReferences'
  BY NextVersion DEF ReferenceInv, IndexInv, VersionInv
<1> QED
  BY <1>1, <1>2, <1>3, <1>4 DEF ReferenceInv

LEMMA ReferencesCorrect == Spec => []ReferenceInv
BY InitReferences, NextReferences, PTL DEF Spec

(***************************************************************************)
(* The databases and schemas of a loaded script are declared, whatever the *)
(* other scripts do: the assertions and the iterator that UpdateScript     *)
(* dereferences hold.                                                      *)
(***************************************************************************)
THEOREM NamesStayDeclared == Spec => []LoadedNamesDeclared
<1>1. ReferenceInv => LoadedNamesDeclared
  BY DEF ReferenceInv
<1> QED
  BY <1>1, ReferencesCorrect, PTL

(***************************************************************************)
(* References that were resolved against the current version are what a    *)
(* lookup finds now: a caller that compares versions never uses a stale    *)
(* reference.                                                              *)
(***************************************************************************)
THEOREM VersionsProtect == Spec => []VersionProtectsReferences
<1>1. ReferenceInv => VersionProtectsReferences
  BY DEF ReferenceInv
<1> QED
  BY <1>1, ReferencesCorrect, PTL

\* The key of a script's own table is a candidate of the lookup.
LEMMA TablesResolve == ReferenceInv => ScriptTablesResolve
<1> SUFFICES ASSUME ReferenceInv,
                    NEW s \in Scripts, Loaded(s), NEW t \in script_entries[s].analyzed.tables_by_name
             PROVE  LET found == ResolveTable(t, None) IN
                    /\ found # None
                    /\ t \in entries[found].table_declarations
                    /\ found = ScriptId[s] \/
                       \E rank \in Ranks :
                         /\ <<rank, found>> \in entries_ranked
                         /\ Precedes(<<SchemaOf[t], rank, found>>,
                                     <<SchemaOf[t], script_entries[s].rank, ScriptId[s]>>)
  BY DEF ScriptTablesResolve
<1>1. PICK key : key = <<SchemaOf[t], script_entries[s].rank, ScriptId[s]>>
  OBVIOUS
<1>2. t \in Tables
  BY DEF ReferenceInv, IndexInv, TypeOK, ScriptEntry, CatalogEntry
<1>3. key \in Candidates(t, None)
  <2>1. SchemaOf[t] \in SchemasOf(script_entries[s].analyzed)
    BY DEF ReferenceInv, AnalysesNameTheirTables, NamesItsTables, SchemasOfTables
  <2>2. key \in entries_by_schema
    BY <1>1, <2>1 DEF ReferenceInv, IndexInv, IndexesConsistent, SchemaIndexSound, SchemaKeys
  <2>3. entries[ScriptId[s]] = script_entries[s].analyzed /\ ScriptId[s] # None
    BY IdAssumption DEF ReferenceInv, IndexInv, IndexesConsistent, EntriesOwned
  <2> QED
    BY <1>1, <2>2, <2>3 DEF Candidates
<1>4. PICK e \in Candidates(t, None) :
        /\ ResolveTable(t, None) = e[3]
        /\ \A f \in Candidates(t, None) \ {e} : Precedes(e, f)
  BY <1>2, <1>3, ResolveTableType DEF ReferenceInv, IndexInv
<1>5. /\ e \in entries_by_schema
      /\ e = <<SchemaOf[t], e[2], e[3]>> /\ e[2] \in Ranks /\ e[3] \in EntryIds
      /\ t \in entries[e[3]].tables_by_name
  BY DEF Candidates, ReferenceInv, IndexInv, TypeOK
<1>6. e[3] # None /\ t \in entries[e[3]].table_declarations
  BY <1>5, IdAssumption DEF ReferenceInv, FoundTablesDeclared
<1>7. e[3] = ScriptId[s] \/ Precedes(<<SchemaOf[t], e[2], e[3]>>, key)
  BY <1>1, <1>3, <1>4, <1>5
<1>8. <<e[2], e[3]>> \in entries_ranked
  BY <1>5 DEF ReferenceInv, IndexInv, IndexesConsistent, SchemaIndexSound
<1> QED
  BY <1>1, <1>4, <1>5, <1>6, <1>7, <1>8

(***************************************************************************)
(* Every table of a loaded script resolves, to the script itself or to an  *)
(* entry that precedes it and declares the table.                          *)
(***************************************************************************)
THEOREM ScriptTablesFound == Spec => []ScriptTablesResolve
BY TablesResolve, ReferencesCorrect, PTL

-----------------------------------------------------------------------------
(***************************************************************************)
(* The catalog implements NameResolution.  First what the contents of an   *)
(* id are, in terms of the indexes.                                        *)
(***************************************************************************)
Absent == [rank |-> None, tables |-> {}]

LEMMA OwnerOfLoaded ==
  ASSUME IndexInv, NEW s \in Scripts, Loaded(s)
  PROVE  /\ ~IsPool(ScriptId[s])
         /\ Owner(ScriptId[s]) = {s}
         /\ Contents(ScriptId[s]) = ScriptContents(s)
<1>1. ~IsPool(ScriptId[s]) /\ Owner(ScriptId[s]) = {s}
  BY ScriptOwnsId DEF Owner
<1> QED
  BY <1>1 DEF Contents

LEMMA AbsentContents ==
  ASSUME NEW id, ~IsPool(id), Owner(id) = {}
  PROVE  Contents(id) = Absent
BY DEF Contents, Absent

\* A key of the index has the rank of the entry; an entry has the tables
\* that it finds in the schemas it has a key for.
LEMMA ContentsIndexed ==
  ASSUME ReferenceInv, NEW id \in EntryIds
  PROVE  /\ Contents(id).rank \in Ranks \cup {None}
         /\ \A x \in entries_by_schema : x[3] = id => x[2] = Contents(id).rank
         /\ Contents(id).tables =
              {t \in Tables : /\ <<SchemaOf[t], Contents(id).rank, id>> \in entries_by_schema
                              /\ t \in entries[id].tables_by_name}
<1> USE DEF ReferenceInv
<1>1. CASE IsPool(id)
  <2>1. Contents(id) = PoolContents(id)
    BY <1>1 DEF Contents
  <2>2. entries[id].tables_by_name \subseteq Tables
    BY DEF IndexInv, TypeOK, CatalogEntry
  <2> QED
    BY <1>1, <2>1, <2>2, PoolOwnsId DEF PoolContents
<1>2. CASE ~IsPool(id) /\ Owner(id) # {}
  <2>1. PICK s \in Scripts : Loaded(s) /\ id = ScriptId[s]
    BY <1>2 DEF Owner
  <2>2. PICK e, rank : e = script_entries[s].analyzed /\ rank = script_entries[s].rank
    OBVIOUS
  <2>3. Contents(id) = [rank |-> rank, tables |-> e.tables_by_name]
    BY <2>1, <2>2, OwnerOfLoaded DEF ScriptContents
  <2>4. /\ rank \in Ranks /\ entries[id] = e
        /\ \A x \in entries_by_schema : x[3] = id => x[2] = rank
    BY <2>1, <2>2, ScriptOwnsId
  <2>5. e.tables_by_name \subseteq Tables
    BY <2>4 DEF IndexInv, TypeOK, CatalogEntry
  <2>6. \A t \in e.tables_by_name : <<SchemaOf[t], rank, id>> \in entries_by_schema
    <3>1. \A t \in e.tables_by_name : SchemaOf[t] \in SchemasOf(e)
      BY <2>2 DEF AnalysesNameTheirTables, NamesItsTables, SchemasOfTables
    <3> QED
      BY <2>1, <2>2, <3>1 DEF IndexInv, IndexesConsistent, SchemaIndexSound, SchemaKeys
  <2> QED
    BY <2>3, <2>4, <2>5, <2>6
<1>3. CASE ~IsPool(id) /\ Owner(id) = {}
  <2>1. Contents(id) = Absent
    BY <1>3, AbsentContents
  <2>2. ~Exists(entries[id])
    BY <1>3 DEF IndexInv, IndexesConsistent, EntriesOwned, Owner
  <2>3. \A x \in entries_by_schema : x[3] # id
    BY <2>2, FreeId
  <2> QED
    BY <2>1, <2>3 DEF Absent
<1> QED
  BY <1>1, <1>2, <1>3

(***************************************************************************)
(* What the walk over the index finds is what the entries promise.         *)
(***************************************************************************)
LEMMA LookupIsResolveTable ==
  ASSUME ReferenceInv, NEW t \in Tables, NEW ignored
  PROVE  Promise!Lookup(t, ignored) = ResolveTable(t, ignored)
<1> DEFINE C == [id \in EntryIds |-> Contents(id)]
           found == {id \in EntryIds \ {ignored} : C[id].rank # None /\ t \in C[id].tables}
           Wins(i, j) == \/ C[i].rank < C[j].rank
                         \/ C[i].rank = C[j].rank /\ i < j
           First(i) == \A j \in found \ {i} : Wins(i, j)
           keys == Candidates(t, ignored)
           Key(i) == <<SchemaOf[t], C[i].rank, i>>
<1>1. Promise!Lookup(t, ignored) = IF found = {} THEN None ELSE CHOOSE i \in found : First(i)
  BY DEF Promise!Lookup, Promise!Present, Promise!Wins
<1>2. \A i \in found : Key(i) \in keys /\ C[i].rank \in Nat /\ i \in Nat
  BY ContentsIndexed, IdAssumption DEF Candidates
<1>3. \A x \in keys : x[3] \in found /\ x = Key(x[3])
  <2> SUFFICES ASSUME NEW x \in keys PROVE x[3] \in found /\ x = Key(x[3])
    OBVIOUS
  <2>1. /\ x \in entries_by_schema
        /\ x = <<SchemaOf[t], x[2], x[3]>> /\ x[2] \in Ranks
        /\ x[3] \in EntryIds \ {ignored} /\ t \in entries[x[3]].tables_by_name
    BY DEF Candidates, ReferenceInv, IndexInv, TypeOK
  <2>2. x[2] = Contents(x[3]).rank
    BY <2>1, ContentsIndexed
  <2>3. t \in Contents(x[3]).tables
    BY <2>1, <2>2, ContentsIndexed
  <2> QED
    BY <2>1, <2>2, <2>3, IdAssumption
<1>4. CASE keys = {}
  <2>1. found = {}
    BY <1>2, <1>4
  <2> QED
    BY <1>1, <1>4, <2>1 DEF ResolveTable
<1>5. CASE keys # {}
  <2>1. PICK e \in keys : ResolveTable(t, ignored) = e[3] /\ \A f \in keys \ {e} : Precedes(e, f)
    BY <1>5, ResolveTableType DEF ReferenceInv, IndexInv
  <2>2. e[3] \in found /\ e = Key(e[3])
    BY <1>3
  <2>3. First(e[3])
    <3> SUFFICES ASSUME NEW j \in found \ {e[3]} PROVE Wins(e[3], j)
      OBVIOUS
    <3>1. Key(j) \in keys /\ Key(j) # e
      BY <1>2
    <3>2. Precedes(e, Key(j))
      BY <2>1, <3>1
    <3> QED
      BY <2>2, <3>2 DEF Precedes
  <2>4. \A i \in found : First(i) => i = e[3]
    <3> SUFFICES ASSUME NEW i \in found, First(i), i # e[3] PROVE FALSE
      OBVIOUS
    <3>1. Wins(i, e[3]) /\ Wins(e[3], i)
      BY <2>2, <2>3
    <3>2. /\ C[i].rank \in Nat /\ C[e[3]].rank \in Nat
          /\ i \in Nat /\ e[3] \in Nat
      BY <1>2, <2>2
    <3> HIDE DEF C
    <3> QED
      BY ONLY <3>1, <3>2
  <2> HIDE DEF found, First, C
  <2> QED
    BY <1>1, <2>1, <2>2, <2>3, <2>4
<1> QED
  BY <1>4, <1>5

(***************************************************************************)
(* Contents change where a step changes an entry, and nowhere else.        *)
(***************************************************************************)
LEMMA SameContents ==
  ASSUME NEW i \in EntryIds,
         descriptor_pool_entries'[i] = descriptor_pool_entries[i],
         \A s \in Scripts : ScriptId[s] = i => script_entries'[s] = script_entries[s],
         IsPool(i) => /\ entries'[i].tables_by_name = entries[i].tables_by_name
                      /\ \A k \in Schemas, rank \in Ranks :
                           <<k, rank, i>> \in entries_by_schema' <=> <<k, rank, i>> \in entries_by_schema,
         TypeOK
  PROVE  Contents(i)' = Contents(i)
<1>1. IsPool(i)' = IsPool(i)
  BY DEF IsPool
<1>2. CASE IsPool(i)
  <2>1. descriptor_pool_entries[i] \in Ranks
    BY <1>2 DEF IsPool, TypeOK
  <2>2. \A t \in entries[i].tables_by_name : SchemaOf[t] \in Schemas
    BY NameAssumption DEF TypeOK, CatalogEntry
  <2>3. PoolContents(i)' = PoolContents(i)
    BY <1>2, <2>1, <2>2 DEF PoolContents
  <2> QED
    BY <1>1, <1>2, <2>3 DEF Contents
<1>3. CASE ~IsPool(i)
  <2>1. Owner(i)' = Owner(i)
    BY DEF Owner, Loaded
  <2>2. \A s \in Owner(i) : ScriptContents(s)' = ScriptContents(s)
    BY DEF Owner, ScriptContents
  <2>3. CASE Owner(i) = {}
    BY <1>1, <1>3, <2>1, <2>3 DEF Contents
  <2>4. CASE Owner(i) # {}
    <3>1. PICK s : s = (CHOOSE r \in Owner(i) : TRUE) /\ s \in Owner(i)
      BY <2>4
    <3>2. s = (CHOOSE r \in Owner(i)' : TRUE)
      BY <2>1, <3>1
    <3> QED
      BY <1>1, <1>3, <2>1, <2>2, <2>4, <3>1, <3>2 DEF Contents
  <2> QED
    BY <2>3, <2>4
<1> QED
  BY <1>2, <1>3

LEMMA UnchangedContents ==
  ASSUME TypeOK, SameTables, UNCHANGED <<descriptor_pool_entries, script_entries>>
  PROVE  \A i \in EntryIds : Contents(i)' = Contents(i)
BY SameContents DEF SameTables

\* One entry is registered, replaced or removed: a step of the promise.
LEMMA PutEntry ==
  ASSUME NEW id \in EntryIds, \A i \in EntryIds \ {id} : Contents(i)' = Contents(i),
         NEW rank \in Ranks, NEW tables \in SUBSET Tables,
         Contents(id).rank \in {None, rank},
         Contents(id)' = [rank |-> rank, tables |-> tables],
         version' = version + 1, UNCHANGED analyzed
  PROVE  Promise!Put(id)
<1>1. [i \in EntryIds |-> Contents(i)'] =
        [[i \in EntryIds |-> Contents(i)] EXCEPT ![id] = [rank |-> rank, tables |-> tables]]
  OBVIOUS
<1> QED
  BY <1>1 DEF Promise!Put

LEMMA RemoveEntry ==
  ASSUME NEW id \in EntryIds, \A i \in EntryIds \ {id} : Contents(i)' = Contents(i),
         Contents(id).rank # None, Contents(id)' = Absent,
         version' = version + 1,
         UNCHANGED analyzed \/ \E s \in Scripts : Promise!Forget(s)
  PROVE  Promise!Remove(id)
<1>1. [i \in EntryIds |-> Contents(i)'] = [[i \in EntryIds |-> Contents(i)] EXCEPT ![id] = Absent]
  OBVIOUS
<1> QED
  BY <1>1 DEF Promise!Remove, Promise!Present, Promise!Absent, Absent

LEMMA ForgetReferences ==
  ASSUME NEW s \in Scripts, TypeOK, analyzed' = [analyzed EXCEPT ![s] = Null]
  PROVE  Promise!Forget(s)
<1>1. \A r \in Scripts : analyzed'[r].table_references =
                           IF r = s THEN {} ELSE analyzed[r].table_references
  BY DEF TypeOK, Null
<1> QED
  BY <1>1 DEF Promise!Forget

-----------------------------------------------------------------------------
(***************************************************************************)
(* Every step of the catalog is a step of the promise.                     *)
(***************************************************************************)
LEMMA AnalyzePromise ==
  ASSUME ReferenceInv, NEW s \in Scripts, NEW text \in Texts, Analyze(s, text)
  PROVE  Promise!Analyze(s)
<1> DEFINE own == text.creates
           Found(t) == IF t \in own THEN ScriptId[s] ELSE Promise!Lookup(t, ScriptId[s])
<1>1. TypeOK /\ own \in SUBSET Tables /\ text.reads \in SUBSET Tables
  BY InputAssumption DEF ReferenceInv, IndexInv
<1>2. \A i \in EntryIds : Contents(i)' = Contents(i)
  BY <1>1, UnchangedContents DEF Analyze, indexes, SameTables
<1>3. \A t \in text.reads : ResolveTableWithCatalog(t, own, ScriptId[s]) = Found(t)
  BY <1>1, LookupIsResolveTable DEF ResolveTableWithCatalog
<1>4. analyzed'[s].table_references = {<<t, Found(t)>> : t \in text.reads}
  <2>1. analyzed'[s].table_references =
          {<<t, ResolveTableWithCatalog(t, own, ScriptId[s])>> : t \in text.reads}
    BY <1>1 DEF Analyze, TypeOK
  <2> HIDE DEF Found
  <2> QED
    BY <1>3, <2>1
<1>5. \A r \in Scripts \ {s} : analyzed'[r] = analyzed[r]
  BY <1>1 DEF Analyze, TypeOK
<1> DEFINE References == [r \in Scripts |-> analyzed[r].table_references]
<1>6. [r \in Scripts |-> analyzed'[r].table_references] =
        [References EXCEPT ![s] = {<<t, Found(t)>> : t \in text.reads}]
  <2> HIDE DEF Found
  <2> QED
    BY <1>4, <1>5
<1>7. /\ [i \in EntryIds |-> Contents(i)'] = [i \in EntryIds |-> Contents(i)]
      /\ UNCHANGED version
  BY <1>2 DEF Analyze
<1> QED
  BY <1>1, <1>6, <1>7, Zenon DEF Promise!Analyze

LEMMA LoadNewScriptPromise ==
  ASSUME ReferenceInv, NEW s \in Scripts, NEW rank \in Ranks, LoadNewScript(s, rank)
  PROVE  Promise!Put(ScriptId[s])
<1> USE DEF ReferenceInv
<1>1. PICK id, e : id = ScriptId[s] /\ e = analyzed[s]
  OBVIOUS
<1>2. /\ id \in EntryIds /\ e \in CatalogEntry /\ Exists(e) /\ ~Exists(entries[id])
  BY <1>1, IdAssumption DEF LoadNewScript, IsNew, IndexInv, TypeOK
<1>3. /\ entries' = [entries EXCEPT ![id] = e]
      /\ script_entries' = [script_entries EXCEPT ![s] = [analyzed |-> e, rank |-> rank]]
      /\ entries_by_schema' = entries_by_schema \cup SchemaKeys(SchemasOf(e), rank, id)
      /\ UNCHANGED <<analyzed, descriptor_pool_entries>>
      /\ version' = version + 1
  BY <1>1 DEF LoadNewScript, Modify
<1>4. \A r \in Scripts : Loaded(r) => ScriptId[r] # id
  BY <1>2, FreeId
<1>5. ~IsPool(id) /\ Owner(id) = {}
  BY <1>2, <1>4, FreeId DEF Owner
<1>6. Contents(id) = Absent
  BY <1>5, AbsentContents
<1>7. /\ script_entries'[s] = [analyzed |-> e, rank |-> rank]
      /\ \A r \in Scripts \ {s} : script_entries'[r] = script_entries[r]
  BY <1>3 DEF IndexInv, TypeOK
<1>8. Contents(id)' = [rank |-> rank, tables |-> e.tables_by_name]
  <2>1. ~IsPool(id)'
    BY <1>3, <1>5 DEF IsPool
  <2>2. Owner(id)' = {s}
    BY <1>1, <1>2, <1>4, <1>7 DEF Owner, Loaded
  <2>3. ScriptContents(s)' = [rank |-> rank, tables |-> e.tables_by_name]
    BY <1>7 DEF ScriptContents
  <2> QED
    BY <2>1, <2>2, <2>3 DEF Contents
<1>9. \A i \in EntryIds \ {id} : Contents(i)' = Contents(i)
  BY <1>1, <1>2, <1>3, <1>7, SameContents DEF SchemaKeys, IndexInv, TypeOK
<1>10. e.tables_by_name \in SUBSET Tables
  BY <1>2 DEF CatalogEntry
<1> QED
  BY <1>1, <1>2, <1>3, <1>6, <1>8, <1>9, <1>10, PutEntry DEF Absent

LEMMA UpdateScriptPromise ==
  ASSUME ReferenceInv, NEW s \in Scripts, UpdateScript(s)
  PROVE  Promise!Put(ScriptId[s])
<1> USE DEF ReferenceInv
<1>1. PICK id, new, rank : id = ScriptId[s] /\ new = analyzed[s] /\ rank = script_entries[s].rank
  OBVIOUS
<1>2. Loaded(s) /\ id \in EntryIds /\ new \in CatalogEntry /\ Exists(new) /\ rank \in Ranks
  BY <1>1, IdAssumption DEF UpdateScript, IndexInv, TypeOK, IndexesConsistent, EntriesOwned
<1>3. /\ entries' = [entries EXCEPT ![id] = new]
      /\ script_entries'[s] = [analyzed |-> new, rank |-> rank]
      /\ \A r \in Scripts \ {s} : script_entries'[r] = script_entries[r]
      /\ UNCHANGED <<analyzed, descriptor_pool_entries>>
      /\ version' = version + 1
  BY <1>1 DEF UpdateScript, Modify, IndexInv, TypeOK, ScriptEntry
<1>4. ~IsPool(id) /\ Owner(id) = {s} /\ Contents(id).rank = rank
  <2>1. ~IsPool(ScriptId[s]) /\ Owner(ScriptId[s]) = {s} /\ Contents(ScriptId[s]) = ScriptContents(s)
    BY <1>2, OwnerOfLoaded
  <2> QED
    BY <1>1, <2>1 DEF ScriptContents
<1>5. Contents(id)' = [rank |-> rank, tables |-> new.tables_by_name]
  <2>1. ~IsPool(id)'
    BY <1>3, <1>4 DEF IsPool
  <2>2. \A r \in Scripts : Loaded(r)' <=> Loaded(r)
    BY <1>2, <1>3 DEF Loaded
  <2>3. Owner(id)' = Owner(id)
    BY <2>2 DEF Owner
  <2>4. ScriptContents(s)' = [rank |-> rank, tables |-> new.tables_by_name]
    BY <1>3 DEF ScriptContents
  <2> QED
    BY <1>4, <2>1, <2>3, <2>4 DEF Contents
<1>6. ASSUME NEW i \in EntryIds \ {id} PROVE Contents(i)' = Contents(i)
  <2>1. entries_by_schema' = UpdateKeys(script_entries[s].analyzed, new, rank, id)
    BY <1>1 DEF UpdateScript
  <2>2. \A k \in Schemas, r \in Ranks :
          <<k, r, i>> \in entries_by_schema' <=> <<k, r, i>> \in entries_by_schema
    BY <2>1 DEF UpdateKeys, SchemaKeys
  <2>3. entries'[i] = entries[i]
    BY <1>2, <1>3 DEF IndexInv, TypeOK
  <2> QED
    BY <1>1, <1>3, <2>2, <2>3, SameContents DEF IndexInv
<1>7. new.tables_by_name \in SUBSET Tables
  BY <1>2 DEF CatalogEntry
<1> QED
  BY <1>1, <1>2, <1>3, <1>4, <1>5, <1>6, <1>7, PutEntry

LEMMA DropLoadedScriptPromise ==
  ASSUME ReferenceInv, NEW s \in Scripts, DropLoadedScript(s),
         UNCHANGED analyzed \/ \E r \in Scripts : Promise!Forget(r)
  PROVE  Promise!Remove(ScriptId[s])
<1> USE DEF ReferenceInv
<1>1. PICK id, rank : id = ScriptId[s] /\ rank = script_entries[s].rank
  OBVIOUS
<1>2. Loaded(s) /\ id \in EntryIds /\ rank \in Ranks
  BY <1>1, IdAssumption DEF DropLoadedScript, IndexInv, TypeOK
<1>3. /\ entries' = [entries EXCEPT ![id] = Null]
      /\ script_entries'[s] = NotLoaded
      /\ \A r \in Scripts \ {s} : script_entries'[r] = script_entries[r]
      /\ UNCHANGED descriptor_pool_entries
      /\ version' = version + 1
  BY <1>1 DEF DropLoadedScript, DropEntry, Modify, IndexInv, TypeOK
<1>4. ~IsPool(id) /\ Owner(id) = {s} /\ Contents(id).rank = rank
  <2>1. ~IsPool(ScriptId[s]) /\ Owner(ScriptId[s]) = {s} /\ Contents(ScriptId[s]) = ScriptContents(s)
    BY <1>2, OwnerOfLoaded
  <2> QED
    BY <1>1, <2>1 DEF ScriptContents
<1>5. Contents(id)' = Absent
  <2>1. ~IsPool(id)'
    BY <1>3, <1>4 DEF IsPool
  <2>2. ~Loaded(s)' /\ \A r \in Scripts \ {s} : Loaded(r)' <=> Loaded(r)
    BY <1>3 DEF Loaded, Exists, NotLoaded, Null
  <2>3. Owner(id)' = {}
    BY <1>4, <2>2 DEF Owner
  <2> QED
    BY <2>1, <2>3 DEF Contents, Absent
<1>6. ASSUME NEW i \in EntryIds \ {id} PROVE Contents(i)' = Contents(i)
  <2>1. \A k \in Schemas, r \in Ranks :
          <<k, r, i>> \in entries_by_schema' <=> <<k, r, i>> \in entries_by_schema
    BY <1>1 DEF DropLoadedScript, DropEntry, SchemaKeys
  <2>2. entries'[i] = entries[i]
    BY <1>2, <1>3 DEF IndexInv, TypeOK
  <2> QED
    BY <1>1, <1>3, <2>1, <2>2, SameContents DEF IndexInv
<1>7. rank # None
  BY <1>2, IdAssumption
<1> QED
  BY <1>1, <1>2, <1>3, <1>4, <1>5, <1>6, <1>7, RemoveEntry

LEMMA AddDescriptorPoolPromise ==
  ASSUME ReferenceInv, NEW id \in EntryIds, NEW rank \in Ranks, AddDescriptorPool(id, rank)
  PROVE  Promise!Put(id)
<1> USE DEF ReferenceInv
<1>1. /\ ~Exists(entries[id])
      /\ entries' = [entries EXCEPT ![id] = NewPool]
      /\ descriptor_pool_entries' = [descriptor_pool_entries EXCEPT ![id] = rank]
      /\ UNCHANGED <<analyzed, script_entries, entries_by_schema>>
      /\ version' = version + 1
  BY DEF AddDescriptorPool, Modify
<1>2. Contents(id) = Absent
  <2>1. ~IsPool(id) /\ Owner(id) = {}
    BY <1>1, FreeId DEF Owner
  <2> QED
    BY <2>1, AbsentContents
<1>3. Contents(id)' = [rank |-> rank, tables |-> {}]
  <2>1. descriptor_pool_entries'[id] = rank /\ entries'[id].tables_by_name = {}
    BY <1>1, EntryTypes DEF IndexInv, TypeOK, NewPool, Null
  <2>2. IsPool(id)'
    BY <2>1, IdAssumption DEF IsPool
  <2> QED
    BY <2>1, <2>2 DEF Contents, PoolContents
<1>4. ASSUME NEW i \in EntryIds \ {id} PROVE Contents(i)' = Contents(i)
  <2>1. entries'[i] = entries[i] /\ descriptor_pool_entries'[i] = descriptor_pool_entries[i]
    BY <1>1 DEF IndexInv, TypeOK
  <2> QED
    BY <1>1, <2>1, SameContents DEF IndexInv
<1> QED
  BY <1>1, <1>2, <1>3, <1>4, PutEntry DEF Absent

LEMMA DropDescriptorPoolPromise ==
  ASSUME ReferenceInv, NEW id \in EntryIds, DropDescriptorPool(id)
  PROVE  Promise!Remove(id)
<1> USE DEF ReferenceInv
<1>1. /\ IsPool(id)
      /\ entries' = [entries EXCEPT ![id] = Null]
      /\ descriptor_pool_entries' = [descriptor_pool_entries EXCEPT ![id] = None]
      /\ UNCHANGED <<analyzed, script_entries>>
      /\ version' = version + 1
  BY DEF DropDescriptorPool, DropEntry, Modify
<1>2. Contents(id).rank # None
  BY <1>1 DEF Contents, PoolContents, IsPool
<1>3. Contents(id)' = Absent
  <2>1. \A s \in Scripts : Loaded(s) => ScriptId[s] # id
    BY <1>1, PoolOwnsId
  <2>2. ~IsPool(id)' /\ Owner(id)' = {}
    BY <1>1, <2>1 DEF IndexInv, TypeOK, IsPool, Owner, Loaded
  <2> QED
    BY <2>2 DEF Contents, Absent
<1>4. ASSUME NEW i \in EntryIds \ {id} PROVE Contents(i)' = Contents(i)
  <2>1. entries'[i] = entries[i] /\ descriptor_pool_entries'[i] = descriptor_pool_entries[i]
    BY <1>1 DEF IndexInv, TypeOK
  <2>2. \A k \in Schemas, r \in Ranks :
          <<k, r, i>> \in entries_by_schema' <=> <<k, r, i>> \in entries_by_schema
    BY DEF DropDescriptorPool, DropEntry, SchemaKeys
  <2> QED
    BY <1>1, <2>1, <2>2, SameContents DEF IndexInv
<1> QED
  BY <1>1, <1>2, <1>3, <1>4, RemoveEntry

LEMMA AddSchemaDescriptorsPromise ==
  ASSUME ReferenceInv, NEW id \in PoolIds, NEW ds \in Descriptors, AddSchemaDescriptors(id, ds)
  PROVE  Promise!Put(id)
<1> USE DEF ReferenceInv
<1>1. id \in EntryIds /\ IsPool(id) /\ TypeOK
  BY IdAssumption DEF AddSchemaDescriptors, IndexInv
<1>2. PICK rank : rank = descriptor_pool_entries[id]
  OBVIOUS
<1>3. /\ rank \in Ranks
      /\ UNCHANGED <<analyzed, script_entries, descriptor_pool_entries>>
      /\ version' = version + 1
  BY <1>1, <1>2, PoolOwnsId DEF AddSchemaDescriptors, Modify
<1>4. /\ entries'[id].tables_by_name \in SUBSET Tables
      /\ \A i \in EntryIds \ {id} : entries'[i] = entries[i]
  BY <1>1, PoolTables
<1>5. Contents(id).rank = rank
  BY <1>1, <1>2 DEF Contents, PoolContents
<1>6. PICK tables \in SUBSET Tables : Contents(id)' = [rank |-> rank, tables |-> tables]
  <2>1. IsPool(id)'
    BY <1>1, <1>3 DEF IsPool
  <2> QED
    BY <1>2, <1>3, <1>4, <2>1 DEF Contents, PoolContents
<1>7. ASSUME NEW i \in EntryIds \ {id} PROVE Contents(i)' = Contents(i)
  <2>1. \A k \in Schemas, r \in Ranks :
          <<k, r, i>> \in entries_by_schema' <=> <<k, r, i>> \in entries_by_schema
    BY DEF AddSchemaDescriptors, SchemaKeys
  <2> QED
    BY <1>1, <1>3, <1>4, <2>1, SameContents
<1> QED
  BY <1>1, <1>3, <1>5, <1>6, <1>7, PutEntry

LEMMA ClearPromise == Clear => Promise!Clear
<1> SUFFICES ASSUME Clear PROVE Promise!Clear
  OBVIOUS
<1>1. \A i \in EntryIds : Contents(i)' = Absent
  BY DEF Clear, Contents, Absent, IsPool, Owner, Loaded, Exists, NotLoaded, Null
<1>2. [i \in EntryIds |-> Contents(i)'] = [i \in EntryIds |-> Absent]
  BY <1>1
<1> QED
  BY <1>2 DEF Clear, Modify, Promise!Clear, Promise!Absent, Absent

LEMMA NextImplements == ReferenceInv /\ [Next]_vars => [Promise!Next]_(Promise!vars)
<1> SUFFICES ASSUME ReferenceInv, [Next]_vars PROVE Promise!Next \/ UNCHANGED Promise!vars
  OBVIOUS
<1> USE IdAssumption DEF ReferenceInv, IndexInv
<1>1. ASSUME SameTables, UNCHANGED <<descriptor_pool_entries, script_entries>>
      PROVE  [i \in EntryIds |-> Contents(i)'] = [i \in EntryIds |-> Contents(i)]
  BY <1>1, UnchangedContents
<1>2. ASSUME SameTables, UNCHANGED <<analyzed, descriptor_pool_entries, script_entries, version>>
      PROVE  UNCHANGED Promise!vars
  BY <1>1, <1>2 DEF Promise!vars
<1>3. ASSUME NEW s \in Scripts, NEW text \in Texts, Analyze(s, text) PROVE Promise!Next
  BY <1>3, AnalyzePromise DEF Promise!Next
<1>4. ASSUME NEW s \in Scripts, NEW rank \in Ranks, LoadNewScript(s, rank) PROVE Promise!Next
  BY <1>4, LoadNewScriptPromise DEF Promise!Next
<1>5. ASSUME NEW s \in Scripts, LoadScriptOutOfSync(s) PROVE UNCHANGED Promise!vars
  BY <1>2, <1>5 DEF LoadScriptOutOfSync, indexes, SameTables
<1>6. ASSUME NEW s \in Scripts, UpdateScript(s) PROVE Promise!Next
  BY <1>6, UpdateScriptPromise DEF Promise!Next
<1>7. ASSUME NEW s \in Scripts, DropScript(s) PROVE Promise!Next
  BY <1>7, DropLoadedScriptPromise DEF DropScript, Promise!Next
<1>8. ASSUME NEW s \in Scripts, DeleteScript(s) PROVE Promise!Next
  <2>1. Promise!Forget(s)
    BY <1>8, ForgetReferences DEF DeleteScript
  <2>2. CASE DropLoadedScript(s)
    BY <2>1, <2>2, DropLoadedScriptPromise DEF Promise!Next
  <2>3. CASE UNCHANGED indexes /\ UNCHANGED version
    <3>1. [i \in EntryIds |-> Contents(i)'] = [i \in EntryIds |-> Contents(i)]
      BY <1>1, <2>3 DEF indexes, SameTables
    <3> QED
      BY <2>1, <2>3, <3>1 DEF Promise!Next
  <2> QED
    BY <1>8, <2>2, <2>3 DEF DeleteScript
<1>9. ASSUME NEW id \in PoolIds, NEW rank \in Ranks, AddDescriptorPool(id, rank) PROVE Promise!Next
  BY <1>9, AddDescriptorPoolPromise DEF Promise!Next
<1>10. ASSUME NEW id \in PoolIds, DropDescriptorPool(id) PROVE Promise!Next
  BY <1>10, DropDescriptorPoolPromise DEF Promise!Next
<1>11. ASSUME NEW id \in PoolIds, NEW ds \in Descriptors, AddSchemaDescriptors(id, ds) PROVE Promise!Next
  BY <1>11, AddSchemaDescriptorsPromise DEF Promise!Next
<1>12. ASSUME NEW id \in PoolIds, NEW ds \in Descriptors, AddSchemaDescriptorsFails(id, ds)
       PROVE  UNCHANGED Promise!vars
  <2>1. SameTables
    BY <1>12, PoolTables DEF AddSchemaDescriptorsFails, SameTables
  <2> QED
    BY <1>2, <1>12, <2>1 DEF AddSchemaDescriptorsFails
<1>13. ASSUME Clear PROVE Promise!Next
  BY <1>13, ClearPromise DEF Promise!Next
<1>14. ASSUME UNCHANGED vars PROVE UNCHANGED Promise!vars
  BY <1>2, <1>14 DEF vars, indexes, SameTables
<1> HIDE DEF ReferenceInv, IndexInv
<1> QED
  BY <1>3, <1>4, <1>5, <1>6, <1>7, <1>8, <1>9, <1>10, <1>11, <1>12, <1>13, <1>14 DEF Next

(***************************************************************************)
(* The catalog implements NameResolution: through its indexes, and through *)
(* every sequence of loads, updates, drops and failed calls, a reference   *)
(* resolves to the registered entry of the lowest rank that has the table, *)
(* and what it resolves to never changes without a new version.            *)
(***************************************************************************)
THEOREM NamesResolve == Spec => ImplementsNameResolution
<1>1. Init => Promise!Init
  <2> SUFFICES ASSUME Init PROVE Promise!Init
    OBVIOUS
  <2>1. \A i \in EntryIds : Contents(i) = Absent
    BY DEF Init, Contents, Absent, IsPool, Owner, Loaded, Exists, NotLoaded, Null
  <2> QED
    BY <2>1 DEF Init, Null, Promise!Init, Promise!Absent, Absent
<1>2. ReferenceInv /\ [Next]_vars => [Promise!Next]_(Promise!vars)
  BY NextImplements
<1> QED
  BY <1>1, <1>2, ReferencesCorrect, PTL DEF Spec, ImplementsNameResolution, Promise!Spec
=============================================================================
