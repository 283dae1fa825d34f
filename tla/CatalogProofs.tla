-------------------------- MODULE CatalogProofs ---------------------------
(***************************************************************************)
(* Theorems about the catalog, for any scripts, names, ids and ranks: its  *)
(* types, and that the secondary indexes agree with the entries.           *)
(***************************************************************************)
EXTENDS Catalog, FiniteSetTheorems, NaturalsInduction, WellFoundedInduction, TLAPS

(***************************************************************************)
(* A set of natural numbers that is not empty has a least element.         *)
(***************************************************************************)
LEMMA LeastElement ==
  \A S \in SUBSET Nat : S # {} => \E x \in S : \A y \in S : x <= y
<1> SUFFICES ASSUME NEW S \in SUBSET Nat, S # {}
             PROVE  \E x \in S : \A y \in S : x <= y
  OBVIOUS
<1>1. IsWellFoundedOn(OpToRel(<, Nat), Nat)
  BY NatLessThanWellFounded
<1>2. PICK x \in S : \A y \in S : ~(<<y, x>> \in OpToRel(<, Nat))
  BY <1>1, WFMin, Zenon
<1>3. \A y \in S : y < x => <<y, x>> \in OpToRel(<, Nat)
  BY DEF OpToRel
<1>4. \A y \in S : ~(y < x)
  BY <1>2, <1>3, Zenon
<1> QED
  BY <1>4

(***************************************************************************)
(* Among keys of one schema one comes first.                               *)
(***************************************************************************)
LEMMA FirstKey ==
  ASSUME NEW k, NEW found \in SUBSET ({k} \X Ranks \X EntryIds), found # {}
  PROVE  \E e \in found : \A f \in found \ {e} : Precedes(e, f)
<1> DEFINE ranks == {e[2] : e \in found}
<1>1. ranks \in SUBSET Nat /\ ranks # {}
  BY IdAssumption
<1>2. PICK rank \in ranks : \A r \in ranks : rank <= r
  BY <1>1, LeastElement, Zenon
<1> DEFINE ids == {id \in EntryIds : <<k, rank, id>> \in found}
<1>3. ids \in SUBSET Nat /\ ids # {}
  <2>1. PICK e \in found : e[2] = rank
    OBVIOUS
  <2>2. e = <<k, rank, e[3]>> /\ e[3] \in EntryIds
    BY <2>1
  <2> QED
    BY <2>2, IdAssumption
<1>4. PICK id \in ids : \A i \in ids : id <= i
  BY <1>3, LeastElement, Zenon
<1> DEFINE first == <<k, rank, id>>
<1>5. first \in found
  OBVIOUS
<1>6. ASSUME NEW f \in found, f # first
      PROVE  Precedes(first, f)
  <2>1. /\ f = <<k, f[2], f[3]>>
        /\ f[2] \in ranks /\ f[2] \in Nat
        /\ f[3] \in EntryIds /\ f[3] \in Nat
    BY IdAssumption
  <2>2. rank \in Nat /\ id \in Nat
    BY <1>1, <1>3
  <2>3. rank <= f[2]
    BY <1>2, <2>1
  <2>4. CASE rank = f[2]
    <3>1. f[3] \in ids
      BY <2>1, <2>4
    <3>2. id <= f[3] /\ id # f[3]
      BY <1>4, <1>6, <2>1, <2>4, <3>1
    <3> QED
      BY <2>1, <2>2, <2>4, <3>2 DEF Precedes
  <2> QED
    BY <2>1, <2>2, <2>3, <2>4 DEF Precedes
<1> QED
  BY <1>5, <1>6

(***************************************************************************)
(* A lookup finds an entry or nothing.                                     *)
(***************************************************************************)
LEMMA ResolveTableType ==
  ASSUME TypeOK, NEW t \in Tables, NEW ignored
  PROVE  /\ ResolveTable(t, ignored) \in EntryIds \cup {None}
         /\ Candidates(t, ignored) # {} =>
              \E e \in Candidates(t, ignored) :
                /\ ResolveTable(t, ignored) = e[3]
                /\ \A f \in Candidates(t, ignored) \ {e} : Precedes(e, f)
<1> DEFINE found == Candidates(t, ignored)
           First(e) == \A f \in found \ {e} : Precedes(e, f)
<1>1. found \in SUBSET ({SchemaOf[t]} \X Ranks \X EntryIds)
  BY DEF Candidates, TypeOK
<1>2. CASE found = {}
  BY <1>2 DEF ResolveTable
<1>3. CASE found # {}
  <2>1. \E e \in found : First(e)
    BY <1>1, <1>3, FirstKey
  <2>2. PICK e \in found : First(e) /\ e = (CHOOSE x \in found : First(x))
    BY <2>1
  <2>3. ResolveTable(t, ignored) = e[3]
    BY <1>3, <2>2 DEF ResolveTable
  <2> QED
    BY <1>1, <2>2, <2>3
<1> QED
  BY <1>2, <1>3

(***************************************************************************)
(* The ids that are allocated for names are natural numbers.               *)
(***************************************************************************)
LEMMA AllocateType ==
  ASSUME NEW S, S \subseteq Nat, IsFiniteSet(S),
         NEW names \in SUBSET S, NEW declared \in [S -> Nat], NEW next \in Nat
  PROVE  /\ Allocate(names, declared, next) \in [S -> Nat]
         /\ Allocated(names, declared) \in Nat
<1>1. \A T \in SUBSET S : Cardinality(T) \in Nat
  BY FS_Subset, FS_CardinalityType
<1>2. Allocated(names, declared) \in Nat
  BY <1>1 DEF Allocated
<1>3. ASSUME NEW n \in S
      PROVE  next + Cardinality({m \in names : declared[m] = 0 /\ m < n}) \in Nat
  <2>1. {m \in names : declared[m] = 0 /\ m < n} \in SUBSET S
    OBVIOUS
  <2>2. Cardinality({m \in names : declared[m] = 0 /\ m < n}) \in Nat
    BY <1>1, <2>1
  <2> QED
    BY <2>2
<1> QED
  BY <1>2, <1>3 DEF Allocate

\* No name is given the null id.
LEMMA AllocateNotNull ==
  ASSUME NEW S, S \subseteq Nat, IsFiniteSet(S),
         NEW names \in SUBSET S, NEW declared \in [S -> Nat], NEW next \in Nat, next # 0,
         NEW n \in names
  PROVE  Allocate(names, declared, next)[n] # 0
<1>1. {m \in names : declared[m] = 0 /\ m < n} \in SUBSET S
  OBVIOUS
<1>2. Cardinality({m \in names : declared[m] = 0 /\ m < n}) \in Nat
  BY <1>1, FS_Subset, FS_CardinalityType
<1>3. next + Cardinality({m \in names : declared[m] = 0 /\ m < n}) # 0
  BY <1>2
<1> QED
  BY <1>3 DEF Allocate

-----------------------------------------------------------------------------
(***************************************************************************)
(* Type correctness, action by action.                                     *)
(***************************************************************************)
LEMMA EntryTypes ==
  /\ Null \in CatalogEntry
  /\ NewPool \in CatalogEntry
  /\ NotLoaded \in ScriptEntry
  /\ Undeclared \in [database_id : Nat, schema_id : Nat]
BY DEF Null, NewPool, PoolSerial, NotLoaded, Undeclared, CatalogEntry, ScriptEntry

LEMMA InitType == Init => TypeOK
<1> SUFFICES ASSUME Init PROVE TypeOK
  OBVIOUS
<1> USE EntryTypes DEF Init, TypeOK
<1>1. analyzed \in [Scripts -> CatalogEntry] /\ entries \in [EntryIds -> CatalogEntry]
  OBVIOUS
<1>2. script_entries \in [Scripts -> ScriptEntry] /\ \A s \in Scripts : ~Loaded(s)
  BY DEF Loaded, Exists, NotLoaded, Null
<1>3. descriptor_pool_entries \in [EntryIds -> Ranks \cup {None}]
  OBVIOUS
<1>4. databases \in [Databases -> Nat] /\ schemas \in [Schemas -> [database_id : Nat, schema_id : Nat]]
  OBVIOUS
<1>5. /\ analyses \in Nat \ {0} /\ version \in Nat
      /\ next_database_id \in Nat \ {0} /\ next_schema_id \in Nat \ {0}
  BY DEF PoolSerial, INITIAL_DATABASE_ID, INITIAL_SCHEMA_ID
<1> QED
  BY <1>1, <1>2, <1>3, <1>4, <1>5

\* The names of a set of tables.
LEMMA NamesOfTables ==
  ASSUME NEW ts \in SUBSET Tables
  PROVE  DatabasesOfTables(ts) \in SUBSET Databases /\ SchemasOfTables(ts) \in SUBSET Schemas
BY NameAssumption DEF DatabasesOfTables, SchemasOfTables

LEMMA AnalyzeType ==
  ASSUME TypeOK, NEW s \in Scripts, NEW text \in Texts, Analyze(s, text)
  PROVE  TypeOK'
<1> DEFINE dbs == DatabasesOfTables(text.creates)
           sms == SchemasOfTables(text.creates)
           declared == [k \in Schemas |-> schemas[k].schema_id]
           dids == Allocate(dbs, databases, next_database_id)
           sids == Allocate(sms, declared, next_schema_id)
           refs == {<<t, ResolveTableWithCatalog(t, text.creates, ScriptId[s])>> : t \in text.reads}
           new == [serial |-> analyses + 1, catalog_version |-> version,
                   databases_by_name |-> dids, schemas_by_name |-> sids,
                   table_declarations |-> text.creates, tables_by_name |-> text.creates,
                   table_references |-> refs]
<1>1. text.creates \in SUBSET Tables /\ text.reads \in SUBSET Tables
  BY InputAssumption
<1>2. dbs \in SUBSET Databases /\ sms \in SUBSET Schemas
  BY <1>1, NamesOfTables
<1>3. databases \in [Databases -> Nat] /\ declared \in [Schemas -> Nat]
  BY DEF TypeOK
<1>4. next_database_id \in Nat \ {0} /\ next_schema_id \in Nat \ {0}
  BY DEF TypeOK
<1>5. dids \in [Databases -> Nat] /\ Allocated(dbs, databases) \in Nat
  BY <1>2, <1>3, <1>4, NameAssumption, AllocateType
<1>6. sids \in [Schemas -> Nat] /\ Allocated(sms, declared) \in Nat
  BY <1>2, <1>3, <1>4, NameAssumption, AllocateType
<1>7. refs \in SUBSET (Tables \X (EntryIds \cup {None}))
  <2>1. \A t \in text.reads :
          ResolveTableWithCatalog(t, text.creates, ScriptId[s]) \in EntryIds \cup {None}
    BY <1>1, ResolveTableType, IdAssumption DEF ResolveTableWithCatalog
  <2> QED
    BY <1>1, <2>1
<1>8. new \in CatalogEntry
  <2> HIDE DEF dids, sids, refs
  <2> QED
    BY <1>1, <1>5, <1>6, <1>7 DEF CatalogEntry, TypeOK
<1>9. analyzed' \in [Scripts -> CatalogEntry]
  <2>1. analyzed' = [analyzed EXCEPT ![s] = new]
    BY DEF Analyze
  <2> HIDE DEF new
  <2> QED
    BY <1>8, <2>1 DEF TypeOK
<1>10. next_database_id' \in Nat \ {0} /\ next_schema_id' \in Nat \ {0}
  <2>1. /\ next_database_id' = next_database_id + Allocated(dbs, databases)
        /\ next_schema_id' = next_schema_id + Allocated(sms, declared)
    BY DEF Analyze
  <2> HIDE DEF dbs, sms, declared
  <2> QED
    BY <1>4, <1>5, <1>6, <2>1
<1>11. analyses' \in Nat \ {0}
  BY DEF Analyze, TypeOK
<1> QED
  BY <1>9, <1>10, <1>11 DEF Analyze, TypeOK, indexes, Loaded

\* What is declared has a type, whatever is added or taken away.
LEMMA DeclarationTypes ==
  ASSUME TypeOK, NEW old \in CatalogEntry, NEW new \in CatalogEntry,
         NEW ds \in SUBSET Databases, NEW ks \in SUBSET Schemas, NEW keys
  PROVE  /\ DeclareDatabases(new, ds) \in [Databases -> Nat]
         /\ DeclareSchemas(new, ks) \in [Schemas -> [database_id : Nat, schema_id : Nat]]
         /\ UpdateDatabases(old, new, keys) \in [Databases -> Nat]
         /\ UpdateSchemas(old, new, keys) \in [Schemas -> [database_id : Nat, schema_id : Nat]]
<1>1. \A k \in Schemas : Ids(new, k) \in [database_id : Nat, schema_id : Nat]
  BY NameAssumption DEF Ids, CatalogEntry
<1>2. \A d \in Databases : new.databases_by_name[d] \in Nat /\ databases[d] \in Nat
  BY DEF CatalogEntry, TypeOK
<1>3. \A k \in Schemas : schemas[k] \in [database_id : Nat, schema_id : Nat]
  BY DEF TypeOK
<1> QED
  BY <1>1, <1>2, <1>3, EntryTypes
     DEF DeclareDatabases, DeclareSchemas, UpdateDatabases, UpdateSchemas

\* The keys that an operation adds to entries_by_schema or takes from it.
LEMMA KeyTypes ==
  ASSUME TypeOK, NEW e, NEW f, NEW rank \in Ranks, NEW id \in EntryIds
  PROVE  /\ SchemasOf(e) \in SUBSET Schemas
         /\ DatabasesOf(e) \in SUBSET Databases
         /\ \A ks \in SUBSET Schemas :
              SchemaKeys(ks, rank, id) \in SUBSET (Schemas \X Ranks \X EntryIds)
         /\ UpdateKeys(e, f, rank, id) \in SUBSET (Schemas \X Ranks \X EntryIds)
BY DEF SchemasOf, DatabasesOf, SchemaKeys, UpdateKeys, TypeOK

LEMMA LoadNewScriptType ==
  ASSUME TypeOK, NEW s \in Scripts, NEW rank \in Ranks, LoadNewScript(s, rank)
  PROVE  TypeOK'
<1> DEFINE id == ScriptId[s]
           e == analyzed[s]
<1>1. id \in EntryIds /\ e \in CatalogEntry /\ rank \in Nat
  BY IdAssumption DEF TypeOK
<1>2. /\ databases' \in [Databases -> Nat]
      /\ schemas' \in [Schemas -> [database_id : Nat, schema_id : Nat]]
  BY <1>1, KeyTypes, DeclarationTypes DEF LoadNewScript
<1>3. entries_by_schema' \subseteq Schemas \X Ranks \X EntryIds
  BY <1>1, KeyTypes DEF LoadNewScript, TypeOK
<1>4. entries' \in [EntryIds -> CatalogEntry] /\ entries_ranked' \subseteq Ranks \X EntryIds
  BY <1>1 DEF LoadNewScript, TypeOK
<1>5. /\ script_entries' \in [Scripts -> ScriptEntry]
      /\ \A r \in Scripts : Loaded(r)' => script_entries'[r].rank \in Ranks
  BY <1>1 DEF LoadNewScript, TypeOK, ScriptEntry, Loaded
<1> QED
  BY <1>2, <1>3, <1>4, <1>5 DEF LoadNewScript, Modify, TypeOK

LEMMA LoadScriptOutOfSyncType ==
  ASSUME TypeOK, NEW s \in Scripts, LoadScriptOutOfSync(s)
  PROVE  TypeOK'
<1> DEFINE e == analyzed[s]
<1>1. e \in CatalogEntry
  BY DEF TypeOK
<1>2. /\ \A ds \in SUBSET Databases : DeclareDatabases(e, ds) \in [Databases -> Nat]
      /\ \A ks \in SUBSET Schemas :
           DeclareSchemas(e, ks) \in [Schemas -> [database_id : Nat, schema_id : Nat]]
  BY <1>1, DeclarationTypes
<1>3. /\ DatabasesOf(e) \in SUBSET Databases
      /\ SchemasOf(e) \in SUBSET Schemas
  BY DEF DatabasesOf, SchemasOf
<1>4. databases' \in [Databases -> Nat]
  BY <1>2, <1>3, Zenon DEF LoadScriptOutOfSync
<1>5. schemas' \in [Schemas -> [database_id : Nat, schema_id : Nat]]
  <2>1. UNCHANGED schemas \/ \E ks \in SUBSET SchemasOf(e) : schemas' = DeclareSchemas(e, ks)
    BY DEF LoadScriptOutOfSync
  <2> QED
    BY <1>2, <1>3, <2>1 DEF TypeOK
<1> QED
  BY <1>4, <1>5 DEF LoadScriptOutOfSync, TypeOK, indexes, Loaded

LEMMA UpdateScriptType ==
  ASSUME TypeOK, NEW s \in Scripts, UpdateScript(s)
  PROVE  TypeOK'
<1> DEFINE id == ScriptId[s]
           old == script_entries[s].analyzed
           new == analyzed[s]
<1>1. id \in EntryIds /\ old \in CatalogEntry /\ new \in CatalogEntry
  BY IdAssumption DEF TypeOK, ScriptEntry
<1>2. /\ databases' \in [Databases -> Nat]
      /\ schemas' \in [Schemas -> [database_id : Nat, schema_id : Nat]]
  <2>1. PICK keys : /\ schemas' = UpdateSchemas(old, new, keys)
                    /\ databases' = UpdateDatabases(old, new, keys)
    BY DEF UpdateScript
  <2>2. /\ UpdateDatabases(old, new, keys) \in [Databases -> Nat]
        /\ UpdateSchemas(old, new, keys) \in [Schemas -> [database_id : Nat, schema_id : Nat]]
    BY <1>1, DeclarationTypes
  <2> QED
    BY <2>1, <2>2
<1>3. script_entries[s].rank \in Ranks /\ entries_by_schema' \subseteq Schemas \X Ranks \X EntryIds
  BY <1>1, KeyTypes DEF UpdateScript, TypeOK
<1>4. entries' \in [EntryIds -> CatalogEntry]
  BY <1>1 DEF UpdateScript, TypeOK
<1>5. /\ script_entries' \in [Scripts -> ScriptEntry]
      /\ \A r \in Scripts : Loaded(r)' => script_entries'[r].rank \in Ranks
  BY <1>1, <1>3 DEF UpdateScript, TypeOK, ScriptEntry, Loaded
<1> QED
  BY <1>2, <1>3, <1>4, <1>5 DEF UpdateScript, Modify, TypeOK

LEMMA DropLoadedScriptType ==
  ASSUME TypeOK, NEW s \in Scripts, DropLoadedScript(s), analyzed' \in [Scripts -> CatalogEntry]
  PROVE  TypeOK'
<1>1. /\ entries' \in [EntryIds -> CatalogEntry]
      /\ entries_ranked' \subseteq Ranks \X EntryIds
      /\ entries_by_schema' \subseteq Schemas \X Ranks \X EntryIds
  BY EntryTypes DEF DropLoadedScript, DropEntry, TypeOK
<1>2. /\ script_entries' \in [Scripts -> ScriptEntry]
      /\ \A r \in Scripts : Loaded(r)' => script_entries'[r].rank \in Ranks
  <2>1. script_entries' = [script_entries EXCEPT ![s] = NotLoaded]
    BY DEF DropLoadedScript
  <2>2. ~Exists(NotLoaded.analyzed)
    BY DEF Exists, NotLoaded, Null
  <2> QED
    BY <2>1, <2>2, EntryTypes DEF TypeOK, Loaded
<1> QED
  BY <1>1, <1>2 DEF DropLoadedScript, Modify, TypeOK

LEMMA DeleteScriptType ==
  ASSUME TypeOK, NEW s \in Scripts, DeleteScript(s)
  PROVE  TypeOK'
<1>1. analyzed' \in [Scripts -> CatalogEntry]
  BY EntryTypes DEF DeleteScript, TypeOK
<1>2. CASE DropLoadedScript(s)
  BY <1>1, <1>2, DropLoadedScriptType
<1>3. CASE ~DropLoadedScript(s)
  BY <1>1, <1>3 DEF DeleteScript, TypeOK, indexes, Loaded
<1> QED
  BY <1>2, <1>3

LEMMA AddDescriptorPoolType ==
  ASSUME TypeOK, NEW id \in PoolIds, NEW rank \in Ranks, AddDescriptorPool(id, rank)
  PROVE  TypeOK'
<1>1. id \in EntryIds
  BY IdAssumption
<1>2. /\ entries' \in [EntryIds -> CatalogEntry]
      /\ entries_ranked' \subseteq Ranks \X EntryIds
      /\ descriptor_pool_entries' \in [EntryIds -> Ranks \cup {None}]
  BY <1>1, EntryTypes DEF AddDescriptorPool, TypeOK
<1> QED
  BY <1>2 DEF AddDescriptorPool, Modify, TypeOK, Loaded

LEMMA DropDescriptorPoolType ==
  ASSUME TypeOK, NEW id \in PoolIds, DropDescriptorPool(id)
  PROVE  TypeOK'
<1>1. /\ entries' \in [EntryIds -> CatalogEntry]
      /\ entries_ranked' \subseteq Ranks \X EntryIds
      /\ entries_by_schema' \subseteq Schemas \X Ranks \X EntryIds
      /\ descriptor_pool_entries' \in [EntryIds -> Ranks \cup {None}]
  BY EntryTypes DEF DropDescriptorPool, DropEntry, TypeOK
<1> QED
  BY <1>1 DEF DropDescriptorPool, Modify, TypeOK, Loaded

\* A pool whose names were registered is still an entry.
LEMMA RegisterNamesType ==
  ASSUME TypeOK, NEW pool \in CatalogEntry, NEW done \in SUBSET Descriptor
  PROVE  LET named == RegisterNames(pool, done) IN
         /\ named.pool \in CatalogEntry
         /\ named.pool.table_declarations = pool.table_declarations
         /\ named.pool.tables_by_name = pool.tables_by_name
         /\ named.pool.serial = pool.serial
         /\ SchemasOf(named.pool) = SchemasOf(pool) \cup {d.schema : d \in done}
         /\ named.next_database_id \in Nat \ {0}
         /\ named.next_schema_id \in Nat \ {0}
<1> DEFINE sms == {d.schema : d \in done} \ SchemasOf(pool)
           dbs == {DatabaseOf[d.schema] : d \in done} \ DatabasesOf(pool)
           declared == [k \in Schemas |-> schemas[k].schema_id]
           dids == Allocate(dbs, databases, next_database_id)
           sids == Allocate(sms, declared, next_schema_id)
<1>1. sms \in SUBSET Schemas /\ dbs \in SUBSET Databases
  BY NameAssumption DEF Descriptor
<1>2. databases \in [Databases -> Nat] /\ declared \in [Schemas -> Nat]
  BY DEF TypeOK
<1>3. next_database_id \in Nat \ {0} /\ next_schema_id \in Nat \ {0}
  BY DEF TypeOK
<1>4. dids \in [Databases -> Nat] /\ Allocated(dbs, databases) \in Nat
  BY <1>1, <1>2, <1>3, NameAssumption, AllocateType
<1>5. /\ sids \in [Schemas -> Nat] /\ Allocated(sms, declared) \in Nat
      /\ \A k \in sms : sids[k] # 0
  <2>1. next_schema_id \in Nat /\ next_schema_id # 0
    BY <1>3
  <2>2. Schemas \subseteq Nat /\ IsFiniteSet(Schemas)
    BY NameAssumption
  <2> HIDE DEF sms, declared
  <2>3. sids \in [Schemas -> Nat] /\ Allocated(sms, declared) \in Nat
    BY <1>1, <1>2, <2>1, <2>2, AllocateType
  <2>4. \A k \in sms : Allocate(sms, declared, next_schema_id)[k] # 0
    BY <1>1, <1>2, <2>1, <2>2, AllocateNotNull
  <2> QED
    BY <2>3, <2>4
<1>6. RegisterNames(pool, done) =
        [pool |-> [pool EXCEPT
           !.databases_by_name = [d \in Databases |-> IF d \in dbs THEN dids[d] ELSE @[d]],
           !.schemas_by_name = [k \in Schemas |-> IF k \in sms THEN sids[k] ELSE @[k]]],
         next_database_id |-> next_database_id + Allocated(dbs, databases),
         next_schema_id |-> next_schema_id + Allocated(sms, declared)]
  BY DEF RegisterNames
<1> DEFINE ds == [d \in Databases |-> IF d \in dbs THEN dids[d] ELSE pool.databases_by_name[d]]
           ks == [k \in Schemas |-> IF k \in sms THEN sids[k] ELSE pool.schemas_by_name[k]]
<1>7. ds \in [Databases -> Nat] /\ ks \in [Schemas -> Nat]
  <2> HIDE DEF sms, dbs, declared, dids, sids
  <2> QED
    BY <1>4, <1>5 DEF CatalogEntry
<1>8. RegisterNames(pool, done).pool =
        [pool EXCEPT !.databases_by_name = ds, !.schemas_by_name = ks]
  <2> HIDE DEF sms, dbs, declared, dids, sids
  <2> QED
    BY <1>6 DEF CatalogEntry
<1>9. /\ [pool EXCEPT !.databases_by_name = ds, !.schemas_by_name = ks] \in CatalogEntry
      /\ [pool EXCEPT !.databases_by_name = ds, !.schemas_by_name = ks].table_declarations
           = pool.table_declarations
      /\ [pool EXCEPT !.databases_by_name = ds, !.schemas_by_name = ks].tables_by_name
           = pool.tables_by_name
      /\ [pool EXCEPT !.databases_by_name = ds, !.schemas_by_name = ks].serial = pool.serial
      /\ [pool EXCEPT !.databases_by_name = ds, !.schemas_by_name = ks].schemas_by_name = ks
  <2> HIDE DEF ds, ks
  <2> QED
    BY <1>7 DEF CatalogEntry
<1>10. /\ RegisterNames(pool, done).next_database_id \in Nat \ {0}
       /\ RegisterNames(pool, done).next_schema_id \in Nat \ {0}
  <2> HIDE DEF sms, dbs, declared, dids, sids
  <2> QED
    BY <1>3, <1>4, <1>5, <1>6
<1>11. {k \in Schemas : ks[k] # 0} = SchemasOf(pool) \cup {d.schema : d \in done}
  <2>1. \A k \in Schemas : ks[k] # 0 <=> k \in sms \/ k \in SchemasOf(pool)
    <3> HIDE DEF sms, sids
    <3>1. sms \cap SchemasOf(pool) = {}
      BY DEF sms
    <3> QED
      BY <1>5, <3>1 DEF SchemasOf
  <2>2. SchemasOf(pool) \in SUBSET Schemas /\ {d.schema : d \in done} \in SUBSET Schemas
    BY DEF SchemasOf, Descriptor
  <2> HIDE DEF ks
  <2> QED
    BY <2>1, <2>2
<1>12. SchemasOf(RegisterNames(pool, done).pool) = SchemasOf(pool) \cup {d.schema : d \in done}
  <2> HIDE DEF ks, ds
  <2> QED
    BY <1>8, <1>9, <1>11 DEF SchemasOf
<1> QED
  BY <1>8, <1>9, <1>10, <1>12, Zenon

\* What a call reads are tables of the schemas it names.
LEMMA DescriptorTypes ==
  ASSUME NEW ds \in Descriptors
  PROVE  /\ ds \in SUBSET Descriptor /\ ds # {}
         /\ TablesOf(ds) \in SUBSET Tables
         /\ {d.schema : d \in ds} \in SUBSET Schemas
         /\ \A es \in SUBSET ds : TablesOf(es) \in SUBSET Tables
BY InputAssumption DEF TablesOf, Descriptor

LEMMA AddSchemaDescriptorsType ==
  ASSUME TypeOK, NEW id \in PoolIds, NEW ds \in Descriptors, AddSchemaDescriptors(id, ds)
  PROVE  TypeOK'
<1> DEFINE named == RegisterNames(entries[id], ds)
           tables == entries[id].table_declarations \cup TablesOf(ds)
           pool == [named.pool EXCEPT !.table_declarations = tables, !.tables_by_name = tables]
<1>1. id \in EntryIds /\ entries[id] \in CatalogEntry
  BY IdAssumption DEF TypeOK
<1>2. ds \in SUBSET Descriptor /\ TablesOf(ds) \in SUBSET Tables /\ {d.schema : d \in ds} \in SUBSET Schemas
  BY DescriptorTypes
<1>3. /\ named.pool \in CatalogEntry
      /\ named.next_database_id \in Nat \ {0}
      /\ named.next_schema_id \in Nat \ {0}
  BY <1>1, <1>2, RegisterNamesType
<1>4. tables \in SUBSET Tables
  BY <1>1, <1>2 DEF CatalogEntry
<1>5. pool \in CatalogEntry
  <2> HIDE DEF named, tables
  <2> QED
    BY <1>3, <1>4 DEF CatalogEntry
<1>6. entries' = [entries EXCEPT ![id] = pool]
  BY DEF AddSchemaDescriptors
<1>7. entries' \in [EntryIds -> CatalogEntry]
  <2> HIDE DEF pool
  <2> QED
    BY <1>5, <1>6 DEF TypeOK
<1>8. next_database_id' \in Nat \ {0} /\ next_schema_id' \in Nat \ {0}
  BY <1>3 DEF AddSchemaDescriptors
<1>9. descriptor_pool_entries[id] \in Ranks
  BY <1>1 DEF AddSchemaDescriptors, IsPool, TypeOK
<1>10. entries_by_schema' \subseteq Schemas \X Ranks \X EntryIds
  BY <1>1, <1>2, <1>9, KeyTypes DEF AddSchemaDescriptors, TypeOK
<1> QED
  BY <1>7, <1>8, <1>10 DEF AddSchemaDescriptors, Modify, TypeOK, Loaded

LEMMA AddSchemaDescriptorsFailsType ==
  ASSUME TypeOK, NEW id \in PoolIds, NEW ds \in Descriptors, AddSchemaDescriptorsFails(id, ds)
  PROVE  TypeOK'
<1> DEFINE Named(d, before) == RegisterNames(entries[id], before \cup {d})
           Declared(d, before, ts) ==
             Named(d, before).pool.table_declarations \cup TablesOf(before) \cup ts
           Read(d, before, ts) ==
             [Named(d, before).pool EXCEPT !.table_declarations = Declared(d, before, ts)]
           Reads(d, before, ts) ==
             /\ entries' = [entries EXCEPT ![id] = Read(d, before, ts)]
             /\ next_database_id' = Named(d, before).next_database_id
             /\ next_schema_id' = Named(d, before).next_schema_id
<1>1. id \in EntryIds /\ entries[id] \in CatalogEntry
  BY IdAssumption DEF TypeOK
<1>2. ds \in SUBSET Descriptor /\ \A es \in SUBSET ds : TablesOf(es) \in SUBSET Tables
  BY DescriptorTypes
<1>3. PICK d \in ds, before \in SUBSET ds, ts \in SUBSET Tables : Reads(d, before, ts)
  <2>1. \E d \in ds, before \in SUBSET ds :
          \E ts \in SUBSET (d.tables \ entries[id].tables_by_name) : Reads(d, before, ts)
    BY DEF AddSchemaDescriptorsFails
  <2>2. \A d \in ds : d.tables \in SUBSET Tables
    BY <1>2 DEF Descriptor
  <2> HIDE DEF Reads
  <2> QED
    BY <2>1, <2>2
<1>4. /\ Named(d, before).pool \in CatalogEntry
      /\ Named(d, before).next_database_id \in Nat \ {0}
      /\ Named(d, before).next_schema_id \in Nat \ {0}
  BY <1>1, <1>2, RegisterNamesType
<1>5. Declared(d, before, ts) \in SUBSET Tables
  <2> HIDE DEF Named
  <2> QED
    BY <1>2, <1>4 DEF CatalogEntry
<1>6. Read(d, before, ts) \in CatalogEntry
  <2> HIDE DEF Named, Declared
  <2> QED
    BY <1>4, <1>5 DEF CatalogEntry
<1>7. entries' \in [EntryIds -> CatalogEntry]
  <2> HIDE DEF Named, Read
  <2> QED
    BY <1>3, <1>6 DEF TypeOK
<1>8. next_database_id' \in Nat \ {0} /\ next_schema_id' \in Nat \ {0}
  BY <1>3, <1>4
<1> QED
  BY <1>7, <1>8 DEF AddSchemaDescriptorsFails, TypeOK, Loaded

LEMMA ClearType == TypeOK /\ Clear => TypeOK'
<1> SUFFICES ASSUME TypeOK, Clear PROVE TypeOK'
  OBVIOUS
<1>1. /\ script_entries' \in [Scripts -> ScriptEntry]
      /\ \A r \in Scripts : ~Loaded(r)'
  BY EntryTypes DEF Clear, Loaded, Exists, NotLoaded, Null
<1> QED
  BY <1>1, EntryTypes DEF Clear, Modify, TypeOK

LEMMA NextType == TypeOK /\ [Next]_vars => TypeOK'
<1> SUFFICES ASSUME TypeOK, [Next]_vars PROVE TypeOK'
  OBVIOUS
<1>1. ASSUME NEW s \in Scripts, NEW text \in Texts, Analyze(s, text) PROVE TypeOK'
  BY <1>1, AnalyzeType
<1>2. ASSUME NEW s \in Scripts, NEW rank \in Ranks, LoadNewScript(s, rank) PROVE TypeOK'
  BY <1>2, LoadNewScriptType
<1>3. ASSUME NEW s \in Scripts, LoadScriptOutOfSync(s) PROVE TypeOK'
  BY <1>3, LoadScriptOutOfSyncType
<1>4. ASSUME NEW s \in Scripts, UpdateScript(s) PROVE TypeOK'
  BY <1>4, UpdateScriptType
<1>5. ASSUME NEW s \in Scripts, DropScript(s) PROVE TypeOK'
  BY <1>5, DropLoadedScriptType DEF DropScript, TypeOK
<1>6. ASSUME NEW s \in Scripts, DeleteScript(s) PROVE TypeOK'
  BY <1>6, DeleteScriptType
<1>7. ASSUME NEW id \in PoolIds, NEW rank \in Ranks, AddDescriptorPool(id, rank) PROVE TypeOK'
  BY <1>7, AddDescriptorPoolType
<1>8. ASSUME NEW id \in PoolIds, DropDescriptorPool(id) PROVE TypeOK'
  BY <1>8, DropDescriptorPoolType
<1>9. ASSUME NEW id \in PoolIds, NEW ds \in Descriptors, AddSchemaDescriptors(id, ds) PROVE TypeOK'
  BY <1>9, AddSchemaDescriptorsType
<1>10. ASSUME NEW id \in PoolIds, NEW ds \in Descriptors, AddSchemaDescriptorsFails(id, ds)
       PROVE  TypeOK'
  BY <1>10, AddSchemaDescriptorsFailsType
<1>11. ASSUME Clear PROVE TypeOK'
  BY <1>11, ClearType
<1>12. ASSUME UNCHANGED vars PROVE TypeOK'
  BY <1>12 DEF vars, indexes, TypeOK, Loaded
<1> QED
  BY <1>1, <1>2, <1>3, <1>4, <1>5, <1>6, <1>7, <1>8, <1>9, <1>10, <1>11, <1>12 DEF Next

(***************************************************************************)
(* Every part of the catalog keeps its type: in particular a lookup finds  *)
(* an entry id or nothing, and an allocated id is never the null id.       *)
(***************************************************************************)
THEOREM TypeCorrect == Spec => []TypeOK
BY InitType, NextType, PTL DEF Spec

IndexInv == TypeOK /\ IndexesConsistent

(***************************************************************************)
(* What the invariant says of one id: an id without an entry is in no      *)
(* index, the id of a loaded script and the id of a pool are in the        *)
(* indexes with the rank of their owner only.                              *)
(***************************************************************************)
LEMMA FreeId ==
  ASSUME IndexInv, NEW id \in EntryIds, ~Exists(entries[id])
  PROVE  /\ \A s \in Scripts : Loaded(s) => ScriptId[s] # id
         /\ ~IsPool(id)
         /\ \A rank \in Ranks : <<rank, id>> \notin entries_ranked
         /\ \A x \in entries_by_schema : x[3] # id
<1>1. \A s \in Scripts : Loaded(s) => ScriptId[s] # id
  BY DEF IndexInv, IndexesConsistent, EntriesOwned, Loaded
<1>2. ~IsPool(id)
  BY DEF IndexInv, IndexesConsistent, EntriesOwned, PoolSerial, Exists
<1>3. \A rank \in Ranks : <<rank, id>> \notin entries_ranked
  BY DEF IndexInv, IndexesConsistent, RankedIndexExact
<1>4. \A x \in entries_by_schema : x[3] # id
  BY <1>3 DEF IndexInv, TypeOK, IndexesConsistent, SchemaIndexSound
<1> QED
  BY <1>1, <1>2, <1>3, <1>4

LEMMA ScriptOwnsId ==
  ASSUME IndexInv, NEW s \in Scripts, Loaded(s)
  PROVE  LET id == ScriptId[s]
             e == script_entries[s].analyzed
             rank == script_entries[s].rank
         IN
         /\ id \in EntryIds /\ rank \in Ranks
         /\ entries[id] = e /\ Exists(e) /\ ~IsPool(id)
         /\ \A r \in Scripts : Loaded(r) /\ ScriptId[r] = id => r = s
         /\ \A r \in Ranks : <<r, id>> \in entries_ranked <=> r = rank
         /\ \A x \in entries_by_schema : x[3] = id => x = <<x[1], rank, id>> /\ x[1] \in SchemasOf(e)
<1> DEFINE id == ScriptId[s]
           e == script_entries[s].analyzed
           rank == script_entries[s].rank
<1>1. id \in EntryIds /\ rank \in Ranks
  BY IdAssumption DEF IndexInv, TypeOK
<1>2. /\ entries[id] = e /\ Exists(e) /\ ~IsPool(id)
      /\ \A r \in Scripts : Loaded(r) /\ ScriptId[r] = id => r = s
  BY DEF IndexInv, IndexesConsistent, EntriesOwned, Loaded
<1>3. \A r \in Ranks : RankedBy(r, id) <=> r = rank
  <2>1. descriptor_pool_entries[id] \notin Ranks
    BY <1>2, IdAssumption DEF IsPool
  <2> QED
    BY <1>1, <1>2, <2>1 DEF RankedBy
<1>4. \A r \in Ranks : <<r, id>> \in entries_ranked <=> r = rank
  BY <1>1, <1>2, <1>3 DEF IndexInv, IndexesConsistent, RankedIndexExact
<1>5. ASSUME NEW x \in entries_by_schema, x[3] = id
      PROVE  x = <<x[1], rank, id>> /\ x[1] \in SchemasOf(e)
  <2>1. x = <<x[1], x[2], id>> /\ x[2] \in Ranks
    BY <1>5 DEF IndexInv, TypeOK
  <2>2. <<x[2], id>> \in entries_ranked /\ x[1] \in SchemasOf(entries[id])
    BY <1>5 DEF IndexInv, IndexesConsistent, SchemaIndexSound
  <2> QED
    BY <1>2, <1>4, <2>1, <2>2
<1> QED
  BY <1>1, <1>2, <1>4, <1>5

LEMMA PoolOwnsId ==
  ASSUME IndexInv, NEW id \in EntryIds, IsPool(id)
  PROVE  LET rank == descriptor_pool_entries[id] IN
         /\ rank \in Ranks
         /\ Exists(entries[id]) /\ entries[id].serial = PoolSerial
         /\ \A s \in Scripts : Loaded(s) => ScriptId[s] # id
         /\ \A r \in Ranks : <<r, id>> \in entries_ranked <=> r = rank
         /\ \A x \in entries_by_schema : x[3] = id => x = <<x[1], rank, id>> /\ x[1] \in SchemasOf(entries[id])
<1> DEFINE rank == descriptor_pool_entries[id]
<1>1. rank \in Ranks
  BY DEF IndexInv, TypeOK, IsPool
<1>2. Exists(entries[id]) /\ entries[id].serial = PoolSerial
  BY DEF IndexInv, IndexesConsistent, EntriesOwned, PoolSerial, Exists
<1>3. \A s \in Scripts : Loaded(s) => ScriptId[s] # id
  BY DEF IndexInv, IndexesConsistent, EntriesOwned
<1>4. \A r \in Ranks : <<r, id>> \in entries_ranked <=> r = rank
  BY <1>1, <1>2, <1>3 DEF IndexInv, IndexesConsistent, RankedIndexExact, RankedBy
<1>5. ASSUME NEW x \in entries_by_schema, x[3] = id
      PROVE  x = <<x[1], rank, id>> /\ x[1] \in SchemasOf(entries[id])
  <2>1. x = <<x[1], x[2], id>> /\ x[2] \in Ranks
    BY <1>5 DEF IndexInv, TypeOK
  <2>2. <<x[2], id>> \in entries_ranked /\ x[1] \in SchemasOf(entries[id])
    BY <1>5 DEF IndexInv, IndexesConsistent, SchemaIndexSound
  <2> QED
    BY <1>4, <2>1, <2>2
<1> QED
  BY <1>1, <1>2, <1>3, <1>4, <1>5

-----------------------------------------------------------------------------
LEMMA InitIndexes == Init => IndexesConsistent
BY IdAssumption
   DEF Init, IndexesConsistent, EntriesOwned, RankedIndexExact, SchemaIndexSound,
       Loaded, Exists, NotLoaded, Null, IsPool

(***************************************************************************)
(* Steps that leave the indexes and the loaded scripts alone.              *)
(***************************************************************************)
LEMMA UnchangedIndexes ==
  ASSUME IndexesConsistent, UNCHANGED indexes,
         \A s \in Scripts : Loaded(s) => Exists(analyzed'[s])
  PROVE  IndexesConsistent'
<1>1. EntriesOwned'
  BY DEF indexes, IndexesConsistent, EntriesOwned, Loaded, IsPool
<1>2. RankedIndexExact'
  BY DEF indexes, IndexesConsistent, RankedIndexExact, RankedBy, Loaded
<1>3. SchemaIndexSound'
  BY DEF indexes, IndexesConsistent, SchemaIndexSound, Loaded
<1> QED
  BY <1>1, <1>2, <1>3 DEF IndexesConsistent

LEMMA AnalyzeIndexes ==
  ASSUME IndexInv, NEW s \in Scripts, NEW text \in Texts, Analyze(s, text)
  PROVE  IndexesConsistent'
<1>1. \A r \in Scripts : Loaded(r) => Exists(analyzed'[r])
  <2>1. \A r \in Scripts : r # s => analyzed'[r] = analyzed[r]
    BY DEF Analyze, IndexInv, TypeOK
  <2>2. analyzed'[s].serial = analyses + 1
    BY DEF Analyze, IndexInv, TypeOK
  <2>3. analyses + 1 # 0
    BY DEF IndexInv, TypeOK
  <2> QED
    BY <2>1, <2>2, <2>3 DEF IndexInv, IndexesConsistent, EntriesOwned, Exists
<1> QED
  BY <1>1, UnchangedIndexes DEF Analyze, IndexInv

LEMMA LoadNewScriptIndexes ==
  ASSUME IndexInv, NEW s \in Scripts, NEW rank \in Ranks, LoadNewScript(s, rank)
  PROVE  IndexesConsistent'
<1> DEFINE id == ScriptId[s]
           e == analyzed[s]
<1>1. id \in EntryIds /\ Exists(e) /\ ~Loaded(s) /\ ~Exists(entries[id])
  BY IdAssumption DEF LoadNewScript, IsNew
<1>2. /\ \A r \in Scripts : Loaded(r) => ScriptId[r] # id
      /\ ~IsPool(id)
      /\ \A r \in Ranks : <<r, id>> \notin entries_ranked
      /\ \A x \in entries_by_schema : x[3] # id
  BY <1>1, FreeId
<1>3. /\ entries' = [entries EXCEPT ![id] = e]
      /\ script_entries' = [script_entries EXCEPT ![s] = [analyzed |-> e, rank |-> rank]]
      /\ entries_ranked' = entries_ranked \cup {<<rank, id>>}
      /\ entries_by_schema' = entries_by_schema \cup SchemaKeys(SchemasOf(e), rank, id)
      /\ UNCHANGED <<analyzed, descriptor_pool_entries>>
  BY DEF LoadNewScript
<1>4. /\ entries'[id] = e /\ \A i \in EntryIds \ {id} : entries'[i] = entries[i]
      /\ script_entries'[s] = [analyzed |-> e, rank |-> rank]
      /\ \A r \in Scripts \ {s} : script_entries'[r] = script_entries[r]
  BY <1>1, <1>3 DEF IndexInv, TypeOK
<1>5. Loaded(s)' /\ \A r \in Scripts \ {s} : Loaded(r)' = Loaded(r)
  BY <1>1, <1>4 DEF Loaded
<1>6. EntriesOwned'
  <2>1. \A r \in Scripts : Loaded(r)' =>
          /\ entries'[ScriptId[r]] = script_entries'[r].analyzed
          /\ Exists(analyzed'[r])
          /\ ~IsPool(ScriptId[r])'
          /\ \A q \in Scripts : Loaded(q)' /\ ScriptId[q] = ScriptId[r] => q = r
    BY <1>1, <1>2, <1>3, <1>4, <1>5, IdAssumption
       DEF IndexInv, IndexesConsistent, EntriesOwned, IsPool
  <2>2. \A i \in EntryIds : Exists(entries'[i]) =>
          IsPool(i)' \/ \E r \in Scripts : Loaded(r)' /\ ScriptId[r] = i
    BY <1>1, <1>3, <1>4, <1>5 DEF IndexInv, IndexesConsistent, EntriesOwned, IsPool
  <2>3. \A i \in EntryIds : IsPool(i)' => entries'[i].serial = PoolSerial
    BY <1>2, <1>3, <1>4 DEF IndexInv, IndexesConsistent, EntriesOwned, IsPool
  <2> QED
    BY <2>1, <2>2, <2>3 DEF EntriesOwned, Exists, PoolSerial
<1>7. RankedIndexExact'
  <2>1. ASSUME NEW r \in Ranks, NEW i \in EntryIds
        PROVE  <<r, i>> \in entries_ranked' <=> Exists(entries'[i]) /\ RankedBy(r, i)'
    <3>1. CASE i = id
      <4>1. <<r, i>> \in entries_ranked' <=> r = rank
        BY <1>2, <1>3, <3>1
      <4>2. RankedBy(r, i)' <=> r = rank
        BY <1>2, <1>3, <1>4, <1>5, <3>1, IdAssumption DEF RankedBy, IsPool
      <4> QED
        BY <1>1, <1>4, <3>1, <4>1, <4>2
    <3>2. CASE i # id
      <4>1. RankedBy(r, i)' <=> RankedBy(r, i)
        BY <1>3, <1>4, <1>5, <3>2, <1>1 DEF RankedBy
      <4> QED
        BY <1>3, <1>4, <3>2, <4>1 DEF IndexInv, IndexesConsistent, RankedIndexExact
    <3> QED
      BY <3>1, <3>2
  <2> QED
    BY <2>1 DEF RankedIndexExact, Exists
<1>8. SchemaIndexSound'
  <2>1. \A x \in entries_by_schema' : <<x[2], x[3]>> \in entries_ranked' /\ x[1] \in SchemasOf(entries'[x[3]])
    <3>1. \A x \in entries_by_schema : <<x[2], x[3]>> \in entries_ranked' /\ x[1] \in SchemasOf(entries'[x[3]])
      BY <1>2, <1>3, <1>4 DEF IndexInv, TypeOK, IndexesConsistent, SchemaIndexSound
    <3>2. \A x \in SchemaKeys(SchemasOf(e), rank, id) :
            <<x[2], x[3]>> \in entries_ranked' /\ x[1] \in SchemasOf(entries'[x[3]])
      BY <1>3, <1>4 DEF SchemaKeys
    <3> QED
      BY <1>3, <3>1, <3>2
  <2>2. \A r \in Scripts : Loaded(r)' =>
          SchemaKeys(SchemasOf(script_entries'[r].analyzed), script_entries'[r].rank, ScriptId[r])
            \subseteq entries_by_schema'
    BY <1>3, <1>4, <1>5 DEF IndexInv, IndexesConsistent, SchemaIndexSound
  <2> QED
    BY <2>1, <2>2 DEF SchemaIndexSound, SchemasOf, SchemaKeys
<1> QED
  BY <1>6, <1>7, <1>8 DEF IndexesConsistent

LEMMA UpdateScriptIndexes ==
  ASSUME IndexInv, NEW s \in Scripts, UpdateScript(s)
  PROVE  IndexesConsistent'
<1> DEFINE id == ScriptId[s]
           old == script_entries[s].analyzed
           new == analyzed[s]
           rank == script_entries[s].rank
<1>1. Loaded(s) /\ Exists(new)
  BY DEF UpdateScript, IndexInv, IndexesConsistent, EntriesOwned
<1>2. /\ id \in EntryIds /\ rank \in Ranks
      /\ entries[id] = old /\ Exists(old) /\ ~IsPool(id)
      /\ \A r \in Scripts : Loaded(r) /\ ScriptId[r] = id => r = s
      /\ \A r \in Ranks : <<r, id>> \in entries_ranked <=> r = rank
      /\ \A x \in entries_by_schema : x[3] = id => x = <<x[1], rank, id>> /\ x[1] \in SchemasOf(old)
  BY <1>1, ScriptOwnsId
<1>3. /\ entries' = [entries EXCEPT ![id] = new]
      /\ script_entries' = [script_entries EXCEPT ![s].analyzed = new]
      /\ entries_by_schema' = UpdateKeys(old, new, rank, id)
      /\ UNCHANGED <<analyzed, descriptor_pool_entries, entries_ranked>>
  BY DEF UpdateScript
<1>4. /\ entries'[id] = new /\ \A i \in EntryIds \ {id} : entries'[i] = entries[i]
      /\ script_entries'[s] = [analyzed |-> new, rank |-> rank]
      /\ \A r \in Scripts \ {s} : script_entries'[r] = script_entries[r]
  BY <1>2, <1>3 DEF IndexInv, TypeOK, ScriptEntry
<1>5. \A r \in Scripts : Loaded(r)' = Loaded(r)
  BY <1>1, <1>4 DEF Loaded, Exists
<1>6. EntriesOwned'
  <2>1. \A r \in Scripts : Loaded(r)' =>
          /\ entries'[ScriptId[r]] = script_entries'[r].analyzed
          /\ Exists(analyzed'[r])
          /\ ~IsPool(ScriptId[r])'
          /\ \A q \in Scripts : Loaded(q)' /\ ScriptId[q] = ScriptId[r] => q = r
    BY <1>1, <1>2, <1>3, <1>4, <1>5, IdAssumption
       DEF IndexInv, IndexesConsistent, EntriesOwned, IsPool
  <2>2. \A i \in EntryIds : Exists(entries'[i]) =>
          IsPool(i)' \/ \E r \in Scripts : Loaded(r)' /\ ScriptId[r] = i
    BY <1>1, <1>3, <1>4, <1>5 DEF IndexInv, IndexesConsistent, EntriesOwned, IsPool
  <2>3. \A i \in EntryIds : IsPool(i)' => entries'[i].serial = PoolSerial
    BY <1>2, <1>3, <1>4 DEF IndexInv, IndexesConsistent, EntriesOwned, IsPool
  <2> QED
    BY <2>1, <2>2, <2>3 DEF EntriesOwned, Exists, PoolSerial
<1>7. RankedIndexExact'
  <2>1. ASSUME NEW r \in Ranks, NEW i \in EntryIds
        PROVE  <<r, i>> \in entries_ranked' <=> Exists(entries'[i]) /\ RankedBy(r, i)'
    <3>1. RankedBy(r, i)' <=> RankedBy(r, i)
      BY <1>3, <1>4, <1>5 DEF RankedBy
    <3>2. Exists(entries'[i]) <=> Exists(entries[i])
      BY <1>1, <1>2, <1>4
    <3> QED
      BY <1>3, <3>1, <3>2 DEF IndexInv, IndexesConsistent, RankedIndexExact
  <2> QED
    BY <2>1 DEF RankedIndexExact, Exists
<1>8. SchemaIndexSound'
  <2>1. ASSUME NEW x \in entries_by_schema'
        PROVE  <<x[2], x[3]>> \in entries_ranked' /\ x[1] \in SchemasOf(entries'[x[3]])
    <3>1. CASE x \in SchemaKeys(SchemasOf(new) \ SchemasOf(old), rank, id)
      BY <1>2, <1>3, <1>4, <3>1 DEF SchemaKeys
    <3>2. CASE x \in entries_by_schema /\ x[3] = id
      <4>1. x = <<x[1], rank, id>> /\ x[1] \in SchemasOf(old)
        BY <1>2, <3>2
      <4>2. x[1] \in SchemasOf(new) \/ x \in SchemaKeys(SchemasOf(old) \ SchemasOf(new), rank, id)
        BY <4>1 DEF SchemaKeys
      <4>3. x[1] \in SchemasOf(new)
        BY <1>3, <3>1, <4>1, <4>2 DEF UpdateKeys, SchemaKeys
      <4> QED
        BY <1>2, <1>3, <1>4, <4>1, <4>3
    <3>3. CASE x \in entries_by_schema /\ x[3] # id
      BY <1>3, <1>4, <3>3 DEF IndexInv, TypeOK, IndexesConsistent, SchemaIndexSound
    <3> QED
      BY <1>3, <3>1, <3>2, <3>3 DEF UpdateKeys
  <2>2. ASSUME NEW r \in Scripts, Loaded(r)',
               NEW x \in SchemaKeys(SchemasOf(script_entries'[r].analyzed), script_entries'[r].rank, ScriptId[r])
        PROVE  x \in entries_by_schema'
    <3>1. CASE r = s
      <4>1. PICK k \in SchemasOf(new) : x = <<k, rank, id>>
        BY <1>4, <2>2, <3>1 DEF SchemaKeys
      <4>2. x \notin SchemaKeys(SchemasOf(old) \ SchemasOf(new), rank, id)
        BY <4>1 DEF SchemaKeys
      <4>3. CASE k \in SchemasOf(old)
        BY <1>1, <1>3, <4>1, <4>2, <4>3
           DEF UpdateKeys, SchemaKeys, IndexInv, IndexesConsistent, SchemaIndexSound
      <4>4. CASE k \notin SchemasOf(old)
        BY <1>3, <4>1, <4>4 DEF UpdateKeys, SchemaKeys
      <4> QED
        BY <4>3, <4>4
    <3>2. CASE r # s
      <4>1. ScriptId[r] # id
        BY <1>2, <1>5, <2>2, <3>2
      <4>2. x \in entries_by_schema
        BY <1>4, <1>5, <2>2, <3>2 DEF IndexInv, IndexesConsistent, SchemaIndexSound
      <4>3. x \notin SchemaKeys(SchemasOf(old) \ SchemasOf(new), rank, id)
        BY <2>2, <4>1 DEF SchemaKeys
      <4> QED
        BY <1>3, <4>2, <4>3 DEF UpdateKeys
    <3> QED
      BY <3>1, <3>2
  <2>3. \A r \in Scripts : Loaded(r)' =>
          SchemaKeys(SchemasOf(script_entries'[r].analyzed), script_entries'[r].rank, ScriptId[r])
            \subseteq entries_by_schema'
    BY <2>2
  <2> QED
    BY <2>1, <2>3 DEF SchemaIndexSound, SchemasOf, SchemaKeys
<1> QED
  BY <1>6, <1>7, <1>8 DEF IndexesConsistent

(***************************************************************************)
(* Dropping an entry leaves no trace of its id in the indexes.             *)
(***************************************************************************)
LEMMA DropEntryIndexes ==
  ASSUME IndexInv, NEW id \in EntryIds, NEW rank \in Ranks, NEW ks \in SUBSET Schemas,
         DropEntry(id, rank, ks),
         \A r \in Ranks : <<r, id>> \in entries_ranked => r = rank,
         \A x \in entries_by_schema : x[3] = id => x = <<x[1], rank, id>> /\ x[1] \in ks
  PROVE  /\ ~Exists(entries'[id])
         /\ \A i \in EntryIds \ {id} : entries'[i] = entries[i]
         /\ \A r \in Ranks : <<r, id>> \notin entries_ranked'
         /\ \A r \in Ranks, i \in EntryIds \ {id} : <<r, i>> \in entries_ranked' <=> <<r, i>> \in entries_ranked
         /\ entries_by_schema' = {x \in entries_by_schema : x[3] # id}
<1>1. entries' = [entries EXCEPT ![id] = Null]
  BY DEF DropEntry
<1>2. entries_ranked' = entries_ranked \ {<<rank, id>>}
  BY DEF DropEntry
<1>3. entries_by_schema' = entries_by_schema \ SchemaKeys(ks, rank, id)
  BY DEF DropEntry
<1>4. ASSUME NEW x \in entries_by_schema
      PROVE  x \in SchemaKeys(ks, rank, id) <=> x[3] = id
  BY DEF SchemaKeys
<1>5. entries_by_schema' = {x \in entries_by_schema : x[3] # id}
  BY <1>3, <1>4
<1> QED
  BY <1>1, <1>2, <1>5 DEF IndexInv, TypeOK, Exists, Null

LEMMA DropLoadedScriptIndexes ==
  ASSUME IndexInv, NEW s \in Scripts, DropLoadedScript(s),
         \A r \in Scripts \ {s} : analyzed'[r] = analyzed[r]
  PROVE  IndexesConsistent'
<1> DEFINE id == ScriptId[s]
           e == script_entries[s].analyzed
           rank == script_entries[s].rank
<1>1. /\ Loaded(s)
      /\ DropEntry(id, rank, SchemasOf(e))
      /\ script_entries' = [script_entries EXCEPT ![s] = NotLoaded]
      /\ UNCHANGED descriptor_pool_entries
  BY DEF DropLoadedScript
<1>2. /\ id \in EntryIds /\ rank \in Ranks
      /\ ~IsPool(id)
      /\ \A r \in Scripts : Loaded(r) /\ ScriptId[r] = id => r = s
      /\ \A r \in Ranks : <<r, id>> \in entries_ranked => r = rank
      /\ \A x \in entries_by_schema : x[3] = id => x = <<x[1], rank, id>> /\ x[1] \in SchemasOf(e)
  BY <1>1, ScriptOwnsId
<1>3. /\ ~Exists(entries'[id])
      /\ \A i \in EntryIds \ {id} : entries'[i] = entries[i]
      /\ \A r \in Ranks : <<r, id>> \notin entries_ranked'
      /\ \A r \in Ranks, i \in EntryIds \ {id} : <<r, i>> \in entries_ranked' <=> <<r, i>> \in entries_ranked
      /\ entries_by_schema' = {x \in entries_by_schema : x[3] # id}
  <2>1. SchemasOf(e) \in SUBSET Schemas
    BY DEF SchemasOf
  <2> QED
    BY <1>1, <1>2, <2>1, DropEntryIndexes
<1>4. /\ ~Loaded(s)'
      /\ \A r \in Scripts \ {s} : script_entries'[r] = script_entries[r] /\ Loaded(r)' = Loaded(r)
  BY <1>1 DEF IndexInv, TypeOK, Loaded, Exists, NotLoaded, Null
<1>5. \A r \in Scripts : Loaded(r)' => ScriptId[r] \in EntryIds \ {id}
  BY <1>2, <1>4, IdAssumption
<1>6. EntriesOwned'
  <2>1. \A r \in Scripts : Loaded(r)' =>
          /\ entries'[ScriptId[r]] = script_entries'[r].analyzed
          /\ Exists(analyzed'[r])
          /\ ~IsPool(ScriptId[r])'
          /\ \A q \in Scripts : Loaded(q)' /\ ScriptId[q] = ScriptId[r] => q = r
    BY <1>1, <1>3, <1>4, <1>5 DEF IndexInv, IndexesConsistent, EntriesOwned, IsPool
  <2>2. \A i \in EntryIds : Exists(entries'[i]) =>
          IsPool(i)' \/ \E r \in Scripts : Loaded(r)' /\ ScriptId[r] = i
    BY <1>1, <1>3, <1>4 DEF IndexInv, IndexesConsistent, EntriesOwned, IsPool
  <2>3. \A i \in EntryIds : IsPool(i)' => entries'[i].serial = PoolSerial
    BY <1>1, <1>2, <1>3 DEF IndexInv, IndexesConsistent, EntriesOwned, IsPool
  <2> QED
    BY <2>1, <2>2, <2>3 DEF EntriesOwned, Exists, PoolSerial
<1>7. RankedIndexExact'
  <2>1. ASSUME NEW r \in Ranks, NEW i \in EntryIds \ {id}
        PROVE  RankedBy(r, i)' <=> RankedBy(r, i)
    BY <1>1, <1>4 DEF RankedBy
  <2>2. ASSUME NEW r \in Ranks, NEW i \in EntryIds
        PROVE  <<r, i>> \in entries_ranked' <=> Exists(entries'[i]) /\ RankedBy(r, i)'
    BY <1>3, <2>1 DEF IndexInv, IndexesConsistent, RankedIndexExact
  <2> QED
    BY <2>2 DEF RankedIndexExact, Exists
<1>8. SchemaIndexSound'
  <2>1. \A x \in entries_by_schema' : <<x[2], x[3]>> \in entries_ranked' /\ x[1] \in SchemasOf(entries'[x[3]])
    BY <1>3 DEF IndexInv, TypeOK, IndexesConsistent, SchemaIndexSound
  <2>2. \A r \in Scripts : Loaded(r)' =>
          SchemaKeys(SchemasOf(script_entries'[r].analyzed), script_entries'[r].rank, ScriptId[r])
            \subseteq entries_by_schema'
    BY <1>3, <1>4, <1>5 DEF IndexInv, IndexesConsistent, SchemaIndexSound, SchemaKeys
  <2> QED
    BY <2>1, <2>2 DEF SchemaIndexSound, SchemasOf, SchemaKeys
<1> QED
  BY <1>6, <1>7, <1>8 DEF IndexesConsistent

LEMMA DeleteScriptIndexes ==
  ASSUME IndexInv, NEW s \in Scripts, DeleteScript(s)
  PROVE  IndexesConsistent'
<1>1. \A r \in Scripts \ {s} : analyzed'[r] = analyzed[r]
  BY DEF DeleteScript, IndexInv, TypeOK
<1>2. CASE DropLoadedScript(s)
  BY <1>1, <1>2, DropLoadedScriptIndexes
<1>3. CASE ~Loaded(s) /\ UNCHANGED indexes
  <2>1. \A r \in Scripts : Loaded(r) => Exists(analyzed'[r])
    BY <1>1, <1>3 DEF IndexInv, IndexesConsistent, EntriesOwned
  <2> QED
    BY <1>3, <2>1, UnchangedIndexes DEF IndexInv
<1> QED
  BY <1>2, <1>3 DEF DeleteScript

LEMMA DropDescriptorPoolIndexes ==
  ASSUME IndexInv, NEW id \in EntryIds, DropDescriptorPool(id)
  PROVE  IndexesConsistent'
<1> DEFINE rank == descriptor_pool_entries[id]
<1>1. /\ IsPool(id)
      /\ DropEntry(id, rank, SchemasOf(entries[id]))
      /\ descriptor_pool_entries' = [descriptor_pool_entries EXCEPT ![id] = None]
      /\ UNCHANGED <<analyzed, script_entries>>
  BY DEF DropDescriptorPool
<1>2. /\ rank \in Ranks
      /\ \A s \in Scripts : Loaded(s) => ScriptId[s] # id
      /\ \A r \in Ranks : <<r, id>> \in entries_ranked => r = rank
      /\ \A x \in entries_by_schema : x[3] = id => x = <<x[1], rank, id>> /\ x[1] \in SchemasOf(entries[id])
  BY <1>1, PoolOwnsId
<1>3. /\ ~Exists(entries'[id])
      /\ \A i \in EntryIds \ {id} : entries'[i] = entries[i]
      /\ \A r \in Ranks : <<r, id>> \notin entries_ranked'
      /\ \A r \in Ranks, i \in EntryIds \ {id} : <<r, i>> \in entries_ranked' <=> <<r, i>> \in entries_ranked
      /\ entries_by_schema' = {x \in entries_by_schema : x[3] # id}
  <2>1. SchemasOf(entries[id]) \in SUBSET Schemas
    BY DEF SchemasOf
  <2> QED
    BY <1>1, <1>2, <2>1, DropEntryIndexes
<1>4. ~IsPool(id)' /\ \A i \in EntryIds \ {id} : descriptor_pool_entries'[i] = descriptor_pool_entries[i]
  BY <1>1 DEF IndexInv, TypeOK, IsPool
<1>5. EntriesOwned'
  <2>1. \A r \in Scripts : Loaded(r)' =>
          /\ entries'[ScriptId[r]] = script_entries'[r].analyzed
          /\ Exists(analyzed'[r])
          /\ ~IsPool(ScriptId[r])'
          /\ \A q \in Scripts : Loaded(q)' /\ ScriptId[q] = ScriptId[r] => q = r
    BY <1>1, <1>2, <1>3, <1>4, IdAssumption DEF IndexInv, IndexesConsistent, EntriesOwned, IsPool, Loaded
  <2>2. \A i \in EntryIds : Exists(entries'[i]) =>
          IsPool(i)' \/ \E r \in Scripts : Loaded(r)' /\ ScriptId[r] = i
    BY <1>1, <1>3, <1>4 DEF IndexInv, IndexesConsistent, EntriesOwned, IsPool, Loaded
  <2>3. \A i \in EntryIds : IsPool(i)' => entries'[i].serial = PoolSerial
    BY <1>3, <1>4 DEF IndexInv, IndexesConsistent, EntriesOwned, IsPool
  <2> QED
    BY <2>1, <2>2, <2>3 DEF EntriesOwned, Exists, PoolSerial
<1>6. RankedIndexExact'
  <2>1. ASSUME NEW r \in Ranks, NEW i \in EntryIds \ {id}
        PROVE  RankedBy(r, i)' <=> RankedBy(r, i)
    BY <1>1, <1>4 DEF RankedBy, Loaded
  <2>2. ASSUME NEW r \in Ranks, NEW i \in EntryIds
        PROVE  <<r, i>> \in entries_ranked' <=> Exists(entries'[i]) /\ RankedBy(r, i)'
    BY <1>3, <2>1 DEF IndexInv, IndexesConsistent, RankedIndexExact
  <2> QED
    BY <2>2 DEF RankedIndexExact, Exists
<1>7. SchemaIndexSound'
  <2>1. \A x \in entries_by_schema' : <<x[2], x[3]>> \in entries_ranked' /\ x[1] \in SchemasOf(entries'[x[3]])
    BY <1>3 DEF IndexInv, TypeOK, IndexesConsistent, SchemaIndexSound
  <2>2. \A r \in Scripts : Loaded(r)' =>
          SchemaKeys(SchemasOf(script_entries'[r].analyzed), script_entries'[r].rank, ScriptId[r])
            \subseteq entries_by_schema'
    BY <1>1, <1>2, <1>3 DEF IndexInv, IndexesConsistent, SchemaIndexSound, SchemaKeys, Loaded
  <2> QED
    BY <2>1, <2>2 DEF SchemaIndexSound, SchemasOf, SchemaKeys
<1> QED
  BY <1>5, <1>6, <1>7 DEF IndexesConsistent

LEMMA AddDescriptorPoolIndexes ==
  ASSUME IndexInv, NEW id \in EntryIds, NEW rank \in Ranks, AddDescriptorPool(id, rank)
  PROVE  IndexesConsistent'
<1>1. /\ ~Exists(entries[id])
      /\ entries' = [entries EXCEPT ![id] = NewPool]
      /\ entries_ranked' = entries_ranked \cup {<<rank, id>>}
      /\ descriptor_pool_entries' = [descriptor_pool_entries EXCEPT ![id] = rank]
      /\ UNCHANGED <<analyzed, script_entries, entries_by_schema>>
  BY DEF AddDescriptorPool
<1>2. /\ \A r \in Scripts : Loaded(r) => ScriptId[r] # id
      /\ \A r \in Ranks : <<r, id>> \notin entries_ranked
      /\ \A x \in entries_by_schema : x[3] # id
  BY <1>1, FreeId
<1>3. /\ entries'[id] = NewPool /\ NewPool.serial = PoolSerial /\ Exists(NewPool)
      /\ \A i \in EntryIds \ {id} : entries'[i] = entries[i]
      /\ descriptor_pool_entries'[id] = rank /\ IsPool(id)'
      /\ \A i \in EntryIds \ {id} : descriptor_pool_entries'[i] = descriptor_pool_entries[i]
  BY <1>1, IdAssumption DEF IndexInv, TypeOK, NewPool, Null, PoolSerial, Exists, IsPool
<1>4. EntriesOwned'
  <2>1. \A r \in Scripts : Loaded(r)' =>
          /\ entries'[ScriptId[r]] = script_entries'[r].analyzed
          /\ Exists(analyzed'[r])
          /\ ~IsPool(ScriptId[r])'
          /\ \A q \in Scripts : Loaded(q)' /\ ScriptId[q] = ScriptId[r] => q = r
    BY <1>1, <1>2, <1>3, IdAssumption DEF IndexInv, IndexesConsistent, EntriesOwned, IsPool, Loaded
  <2>2. \A i \in EntryIds : Exists(entries'[i]) =>
          IsPool(i)' \/ \E r \in Scripts : Loaded(r)' /\ ScriptId[r] = i
    BY <1>1, <1>3 DEF IndexInv, IndexesConsistent, EntriesOwned, IsPool, Loaded
  <2>3. \A i \in EntryIds : IsPool(i)' => entries'[i].serial = PoolSerial
    BY <1>3 DEF IndexInv, IndexesConsistent, EntriesOwned, IsPool
  <2> QED
    BY <2>1, <2>2, <2>3 DEF EntriesOwned, Exists, PoolSerial
<1>5. RankedIndexExact'
  <2>1. ASSUME NEW r \in Ranks, NEW i \in EntryIds
        PROVE  <<r, i>> \in entries_ranked' <=> Exists(entries'[i]) /\ RankedBy(r, i)'
    <3>1. CASE i = id
      <4>1. <<r, i>> \in entries_ranked' <=> r = rank
        BY <1>1, <1>2, <3>1
      <4>2. RankedBy(r, i)' <=> r = rank
        BY <1>1, <1>2, <1>3, <3>1 DEF RankedBy, Loaded
      <4> QED
        BY <1>3, <3>1, <4>1, <4>2
    <3>2. CASE i # id
      <4>1. RankedBy(r, i)' <=> RankedBy(r, i)
        BY <1>1, <1>3, <3>2 DEF RankedBy, Loaded
      <4> QED
        BY <1>1, <1>3, <3>2, <4>1 DEF IndexInv, IndexesConsistent, RankedIndexExact
    <3> QED
      BY <3>1, <3>2
  <2> QED
    BY <2>1 DEF RankedIndexExact, Exists
<1>6. SchemaIndexSound'
  <2>1. \A x \in entries_by_schema' : <<x[2], x[3]>> \in entries_ranked' /\ x[1] \in SchemasOf(entries'[x[3]])
    BY <1>1, <1>2, <1>3 DEF IndexInv, TypeOK, IndexesConsistent, SchemaIndexSound
  <2>2. \A r \in Scripts : Loaded(r)' =>
          SchemaKeys(SchemasOf(script_entries'[r].analyzed), script_entries'[r].rank, ScriptId[r])
            \subseteq entries_by_schema'
    BY <1>1 DEF IndexInv, IndexesConsistent, SchemaIndexSound, Loaded
  <2> QED
    BY <2>1, <2>2 DEF SchemaIndexSound, SchemasOf, SchemaKeys
<1> QED
  BY <1>4, <1>5, <1>6 DEF IndexesConsistent

(***************************************************************************)
(* A pool that grows, with some of its schemas entered in the index.       *)
(***************************************************************************)
LEMMA GrowPoolIndexes ==
  ASSUME IndexInv, NEW id \in EntryIds, IsPool(id), NEW pool \in CatalogEntry,
         pool.serial = entries[id].serial, SchemasOf(entries[id]) \subseteq SchemasOf(pool),
         NEW ks \in SUBSET SchemasOf(pool),
         entries' = [entries EXCEPT ![id] = pool],
         entries_by_schema' = entries_by_schema \cup SchemaKeys(ks, descriptor_pool_entries[id], id),
         UNCHANGED <<analyzed, script_entries, descriptor_pool_entries, entries_ranked>>
  PROVE  IndexesConsistent'
<1> DEFINE rank == descriptor_pool_entries[id]
<1>1. /\ rank \in Ranks
      /\ Exists(entries[id]) /\ entries[id].serial = PoolSerial
      /\ \A s \in Scripts : Loaded(s) => ScriptId[s] # id
      /\ \A r \in Ranks : <<r, id>> \in entries_ranked <=> r = rank
      /\ \A x \in entries_by_schema : x[3] = id => x = <<x[1], rank, id>> /\ x[1] \in SchemasOf(entries[id])
  BY PoolOwnsId
<1>2. /\ entries'[id] = pool /\ Exists(pool)
      /\ \A i \in EntryIds \ {id} : entries'[i] = entries[i]
      /\ \A i \in EntryIds : Exists(entries'[i]) <=> Exists(entries[i])
  BY <1>1 DEF IndexInv, TypeOK, Exists
<1>3. EntriesOwned'
  <2>1. \A r \in Scripts : Loaded(r)' =>
          /\ entries'[ScriptId[r]] = script_entries'[r].analyzed
          /\ Exists(analyzed'[r])
          /\ ~IsPool(ScriptId[r])'
          /\ \A q \in Scripts : Loaded(q)' /\ ScriptId[q] = ScriptId[r] => q = r
    BY <1>1, <1>2, IdAssumption DEF IndexInv, IndexesConsistent, EntriesOwned, IsPool, Loaded
  <2>2. \A i \in EntryIds : Exists(entries'[i]) =>
          IsPool(i)' \/ \E r \in Scripts : Loaded(r)' /\ ScriptId[r] = i
    BY <1>2 DEF IndexInv, IndexesConsistent, EntriesOwned, IsPool, Loaded
  <2>3. \A i \in EntryIds : IsPool(i)' => entries'[i].serial = PoolSerial
    BY <1>1, <1>2 DEF IndexInv, IndexesConsistent, EntriesOwned, IsPool
  <2> QED
    BY <2>1, <2>2, <2>3 DEF EntriesOwned, Exists, PoolSerial
<1>4. RankedIndexExact'
  <2>1. ASSUME NEW r \in Ranks, NEW i \in EntryIds
        PROVE  <<r, i>> \in entries_ranked' <=> Exists(entries'[i]) /\ RankedBy(r, i)'
    <3>1. RankedBy(r, i)' <=> RankedBy(r, i)
      BY DEF RankedBy, Loaded
    <3> QED
      BY <1>2, <3>1 DEF IndexInv, IndexesConsistent, RankedIndexExact
  <2> QED
    BY <2>1 DEF RankedIndexExact, Exists
<1>5. SchemaIndexSound'
  <2>1. \A x \in entries_by_schema' : <<x[2], x[3]>> \in entries_ranked' /\ x[1] \in SchemasOf(entries'[x[3]])
    <3>1. \A x \in entries_by_schema : <<x[2], x[3]>> \in entries_ranked' /\ x[1] \in SchemasOf(entries'[x[3]])
      BY <1>1, <1>2 DEF IndexInv, TypeOK, IndexesConsistent, SchemaIndexSound
    <3>2. \A x \in SchemaKeys(ks, rank, id) :
            <<x[2], x[3]>> \in entries_ranked' /\ x[1] \in SchemasOf(entries'[x[3]])
      BY <1>1, <1>2 DEF SchemaKeys
    <3> QED
      BY <3>1, <3>2
  <2>2. \A r \in Scripts : Loaded(r)' =>
          SchemaKeys(SchemasOf(script_entries'[r].analyzed), script_entries'[r].rank, ScriptId[r])
            \subseteq entries_by_schema'
    BY DEF IndexInv, IndexesConsistent, SchemaIndexSound, Loaded
  <2> QED
    BY <2>1, <2>2 DEF SchemaIndexSound, SchemasOf, SchemaKeys
<1> QED
  BY <1>3, <1>4, <1>5 DEF IndexesConsistent

LEMMA AddSchemaDescriptorsIndexes ==
  ASSUME IndexInv, NEW id \in PoolIds, NEW ds \in Descriptors, AddSchemaDescriptors(id, ds)
  PROVE  IndexesConsistent'
<1> DEFINE named == RegisterNames(entries[id], ds)
           tables == entries[id].table_declarations \cup TablesOf(ds)
           pool == [named.pool EXCEPT !.table_declarations = tables, !.tables_by_name = tables]
           ks == {d.schema : d \in ds}
<1>1. id \in EntryIds /\ entries[id] \in CatalogEntry /\ IsPool(id)
  BY IdAssumption DEF IndexInv, TypeOK, AddSchemaDescriptors
<1>2. ds \in SUBSET Descriptor /\ TablesOf(ds) \in SUBSET Tables
  BY DescriptorTypes
<1>3. /\ named.pool \in CatalogEntry
      /\ named.pool.serial = entries[id].serial
      /\ SchemasOf(named.pool) = SchemasOf(entries[id]) \cup ks
  BY <1>1, <1>2, RegisterNamesType DEF IndexInv
<1>4. tables \in SUBSET Tables
  BY <1>1, <1>2 DEF CatalogEntry
<1>5. /\ pool \in CatalogEntry /\ pool.serial = entries[id].serial
      /\ SchemasOf(pool) = SchemasOf(entries[id]) \cup ks
  <2> HIDE DEF named, tables, ks
  <2> QED
    BY <1>3, <1>4 DEF CatalogEntry, SchemasOf
<1>6. /\ entries' = [entries EXCEPT ![id] = pool]
      /\ entries_by_schema' = entries_by_schema \cup SchemaKeys(ks, descriptor_pool_entries[id], id)
      /\ UNCHANGED <<analyzed, script_entries, descriptor_pool_entries, entries_ranked>>
  BY DEF AddSchemaDescriptors
<1> HIDE DEF pool, ks
<1> QED
  BY <1>1, <1>5, <1>6, GrowPoolIndexes

LEMMA AddSchemaDescriptorsFailsIndexes ==
  ASSUME IndexInv, NEW id \in PoolIds, NEW ds \in Descriptors, AddSchemaDescriptorsFails(id, ds)
  PROVE  IndexesConsistent'
<1> DEFINE Named(d, before) == RegisterNames(entries[id], before \cup {d})
           Declared(d, before, ts) ==
             Named(d, before).pool.table_declarations \cup TablesOf(before) \cup ts
           Read(d, before, ts) ==
             [Named(d, before).pool EXCEPT !.table_declarations = Declared(d, before, ts)]
           Reads(d, before, ts) == entries' = [entries EXCEPT ![id] = Read(d, before, ts)]
<1>1. id \in EntryIds /\ entries[id] \in CatalogEntry /\ IsPool(id)
  BY IdAssumption DEF IndexInv, TypeOK, AddSchemaDescriptorsFails
<1>2. ds \in SUBSET Descriptor /\ \A es \in SUBSET ds : TablesOf(es) \in SUBSET Tables
  BY DescriptorTypes
<1>3. PICK d \in ds, before \in SUBSET ds, ts \in SUBSET Tables : Reads(d, before, ts)
  <2>1. \E d \in ds, before \in SUBSET ds :
          \E ts \in SUBSET (d.tables \ entries[id].tables_by_name) : Reads(d, before, ts)
    BY DEF AddSchemaDescriptorsFails
  <2>2. \A d \in ds : d.tables \in SUBSET Tables
    BY <1>2 DEF Descriptor
  <2> HIDE DEF Reads
  <2> QED
    BY <2>1, <2>2
<1> DEFINE named == Named(d, before).pool
           pool == Read(d, before, ts)
<1>4. /\ named \in CatalogEntry
      /\ named.serial = entries[id].serial
      /\ SchemasOf(entries[id]) \subseteq SchemasOf(named)
  BY <1>1, <1>2, RegisterNamesType DEF IndexInv
<1>5. Declared(d, before, ts) \in SUBSET Tables
  <2> HIDE DEF Named
  <2> QED
    BY <1>2, <1>4 DEF CatalogEntry
<1>6. /\ pool \in CatalogEntry /\ pool.serial = entries[id].serial
      /\ SchemasOf(entries[id]) \subseteq SchemasOf(pool)
  <2> HIDE DEF Named, Declared
  <2> QED
    BY <1>4, <1>5 DEF CatalogEntry, SchemasOf
<1>7. entries_by_schema' = entries_by_schema \cup SchemaKeys({}, descriptor_pool_entries[id], id)
  BY DEF AddSchemaDescriptorsFails, SchemaKeys
<1>8. /\ entries' = [entries EXCEPT ![id] = pool]
      /\ UNCHANGED <<analyzed, script_entries, descriptor_pool_entries, entries_ranked>>
  BY <1>3 DEF AddSchemaDescriptorsFails
<1>9. PICK ks \in SUBSET SchemasOf(pool) :
        entries_by_schema' = entries_by_schema \cup SchemaKeys(ks, descriptor_pool_entries[id], id)
  BY <1>7
<1> HIDE DEF pool
<1> QED
  BY <1>1, <1>6, <1>8, <1>9, GrowPoolIndexes

LEMMA ClearIndexes == IndexInv /\ Clear => IndexesConsistent'
<1> SUFFICES ASSUME IndexInv, Clear PROVE IndexesConsistent'
  OBVIOUS
<1>1. /\ \A s \in Scripts : ~Loaded(s)'
      /\ \A id \in EntryIds : ~Exists(entries'[id]) /\ ~IsPool(id)'
      /\ entries_ranked' = {} /\ entries_by_schema' = {}
  BY DEF Clear, Loaded, Exists, NotLoaded, Null, IsPool
<1> QED
  BY <1>1 DEF IndexesConsistent, EntriesOwned, RankedIndexExact, SchemaIndexSound, Exists

-----------------------------------------------------------------------------
LEMMA NextIndexes == IndexInv /\ [Next]_vars => IndexesConsistent'
<1> SUFFICES ASSUME IndexInv, [Next]_vars PROVE IndexesConsistent'
  OBVIOUS
<1> USE IdAssumption
<1>1. ASSUME NEW s \in Scripts, NEW text \in Texts, Analyze(s, text) PROVE IndexesConsistent'
  BY <1>1, AnalyzeIndexes
<1>2. ASSUME NEW s \in Scripts, NEW rank \in Ranks, LoadNewScript(s, rank) PROVE IndexesConsistent'
  BY <1>2, LoadNewScriptIndexes
<1>3. ASSUME NEW s \in Scripts, LoadScriptOutOfSync(s) PROVE IndexesConsistent'
  BY <1>3, UnchangedIndexes DEF LoadScriptOutOfSync, IndexInv, IndexesConsistent, EntriesOwned
<1>4. ASSUME NEW s \in Scripts, UpdateScript(s) PROVE IndexesConsistent'
  BY <1>4, UpdateScriptIndexes
<1>5. ASSUME NEW s \in Scripts, DropScript(s) PROVE IndexesConsistent'
  BY <1>5, DropLoadedScriptIndexes DEF DropScript
<1>6. ASSUME NEW s \in Scripts, DeleteScript(s) PROVE IndexesConsistent'
  BY <1>6, DeleteScriptIndexes
<1>7. ASSUME NEW id \in PoolIds, NEW rank \in Ranks, AddDescriptorPool(id, rank)
      PROVE  IndexesConsistent'
  BY <1>7, AddDescriptorPoolIndexes
<1>8. ASSUME NEW id \in PoolIds, DropDescriptorPool(id) PROVE IndexesConsistent'
  BY <1>8, DropDescriptorPoolIndexes
<1>9. ASSUME NEW id \in PoolIds, NEW ds \in Descriptors, AddSchemaDescriptors(id, ds)
      PROVE  IndexesConsistent'
  BY <1>9, AddSchemaDescriptorsIndexes
<1>10. ASSUME NEW id \in PoolIds, NEW ds \in Descriptors, AddSchemaDescriptorsFails(id, ds)
       PROVE  IndexesConsistent'
  BY <1>10, AddSchemaDescriptorsFailsIndexes
<1>11. ASSUME Clear PROVE IndexesConsistent'
  BY <1>11, ClearIndexes
<1>12. ASSUME UNCHANGED vars PROVE IndexesConsistent'
  BY <1>12, UnchangedIndexes DEF vars, IndexInv, IndexesConsistent, EntriesOwned
<1> QED
  BY <1>1, <1>2, <1>3, <1>4, <1>5, <1>6, <1>7, <1>8, <1>9, <1>10, <1>11, <1>12 DEF Next

(***************************************************************************)
(* The indexes agree with the entries after any sequence of calls: the     *)
(* lookups, which dereference entries.at(id) for the ids of an index key,  *)
(* never miss, and no key survives the update or the drop of its entry.    *)
(***************************************************************************)
THEOREM IndexesCorrect == Spec => []IndexesConsistent
<1>1. Init => IndexInv
  BY InitType, InitIndexes DEF IndexInv
<1>2. IndexInv /\ [Next]_vars => IndexInv'
  BY NextType, NextIndexes DEF IndexInv
<1>3. IndexInv => IndexesConsistent
  BY DEF IndexInv
<1> QED
  BY <1>1, <1>2, <1>3, PTL DEF Spec
===========================================================================
