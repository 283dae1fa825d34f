------------------------------ MODULE Catalog ------------------------------
(***************************************************************************)
(* The catalog of dashql-core (src/packages/dashql-core/src/catalog.cc).   *)
(*                                                                         *)
(* A catalog resolves table names for the analyzer.  Its entries are       *)
(* analyzed scripts and descriptor pools.  Next to the map of entries it   *)
(* keeps two secondary indexes (entries_ranked and entries_by_schema), the *)
(* declared databases and schemas with the ids they were given, and a      *)
(* version that tells an analyzer whether its resolved names are current.  *)
(*                                                                         *)
(* The catalog lives in one WebAssembly thread: every call is one action,  *)
(* and what can go wrong is a sequence of legal calls.                     *)
(***************************************************************************)
EXTENDS Naturals, FiniteSets

CONSTANTS
  Scripts,      \* the Script objects
  ScriptId,     \* the catalog entry id a script was created with
  EntryIds,     \* the catalog entry ids, of scripts and of pools
  PoolIds,      \* the ids that callers use for descriptor pools
  Ranks,        \* the ranks entries are loaded with, a lower one wins
  Databases,    \* the database names, numbered in the order of the btrees
  Schemas,      \* the qualified schema names, numbered in that order
  Tables,       \* the qualified table names
  DatabaseOf,   \* the database of a schema
  SchemaOf,     \* the schema of a table
  Texts,        \* what a script can say: the tables it creates and reads
  Descriptors,  \* the arguments of AddSchemaDescriptors
  None,         \* nullptr, and the absence of a rank
  MaxVersion,   \* bound: catalog modifications
  MaxAnalyses   \* bound: analyzer runs

ASSUME IdAssumption ==
  /\ EntryIds \subseteq Nat
  /\ PoolIds \subseteq EntryIds
  /\ Ranks \subseteq Nat
  /\ None \notin EntryIds \cup Ranks
  /\ ScriptId \in [Scripts -> EntryIds]

ASSUME NameAssumption ==
  /\ Databases \subseteq Nat /\ IsFiniteSet(Databases)
  /\ Schemas \subseteq Nat /\ IsFiniteSet(Schemas)
  /\ DatabaseOf \in [Schemas -> Databases]
  /\ SchemaOf \in [Tables -> Schemas]

(***************************************************************************)
(* A descriptor names its schema and its tables.  `nameless` says that one *)
(* of its tables has an empty name.  A call passes a set of descriptors,   *)
(* in any order: a single one for AddSchemaDescriptor.                     *)
(***************************************************************************)
Descriptor == [schema : Schemas, tables : SUBSET Tables, nameless : BOOLEAN]

ASSUME InputAssumption ==
  /\ Texts \subseteq [creates : SUBSET Tables, reads : SUBSET Tables]
  /\ Descriptors \subseteq (SUBSET Descriptor) \ {{}}
  /\ \A ds \in Descriptors : \A d \in ds :
       /\ \A t \in d.tables : SchemaOf[t] = d.schema
       /\ \A e \in ds : e.schema = d.schema => e = d

VARIABLES
  analyzed,              \* Script::analyzed_script, per script
  analyses,              \* the serial of the latest AnalyzedScript
  entries,               \* the CatalogEntry behind an id
  script_entries,        \* the AnalyzedScript and the rank of a loaded script
  descriptor_pool_entries, \* the rank of a registered descriptor pool
  entries_ranked,        \* {<<rank, id>>}
  entries_by_schema,     \* {<<schema, rank, id>>}: its values are read nowhere
  databases,             \* the id a database is declared with
  schemas,               \* the ids a schema is declared with
  next_database_id,
  next_schema_id,
  version

indexes == <<entries, script_entries, descriptor_pool_entries,
             entries_ranked, entries_by_schema>>
vars == <<analyzed, analyses, indexes, databases, schemas,
          next_database_id, next_schema_id, version>>

-----------------------------------------------------------------------------
(***************************************************************************)
(* Entries.  `serial` is the identity of the object a pointer points to,   *)
(* the number of the analyzer run for an AnalyzedScript; 0 is a null       *)
(* pointer.  `databases_by_name` and `schemas_by_name` hold the ids an     *)
(* entry uses for its names, 0 for a name it does not refer to.            *)
(* `table_declarations` are the declared tables, `tables_by_name` those a  *)
(* lookup finds.                                                           *)
(***************************************************************************)
INITIAL_DATABASE_ID == 256
FirstSchemaIdIsNull == 0 \* mutant
INITIAL_SCHEMA_ID == 65536

CatalogEntry ==
  [serial : Nat, catalog_version : Nat,
   databases_by_name : [Databases -> Nat], schemas_by_name : [Schemas -> Nat],
   table_declarations : SUBSET Tables, tables_by_name : SUBSET Tables,
   table_references : SUBSET (Tables \X (EntryIds \cup {None}))]

Null ==
  [serial |-> 0, catalog_version |-> 0,
   databases_by_name |-> [d \in Databases |-> 0],
   schemas_by_name |-> [k \in Schemas |-> 0],
   table_declarations |-> {}, tables_by_name |-> {}, table_references |-> {}]

\* A pool is one object for as long as it is registered.
PoolSerial == 1
NewPool == [Null EXCEPT !.serial = PoolSerial]

NotLoaded == [analyzed |-> Null, rank |-> 0]

Exists(e) == e.serial # 0
Loaded(s) == Exists(script_entries[s].analyzed)
IsPool(id) == descriptor_pool_entries[id] # None

DatabasesOf(e) == {d \in Databases : e.databases_by_name[d] # 0}
SchemasOf(e) == {k \in Schemas : e.schemas_by_name[k] # 0}

DatabasesOfTables(ts) == {DatabaseOf[SchemaOf[t]] : t \in ts}
SchemasOfTables(ts) == {SchemaOf[t] : t \in ts}

-----------------------------------------------------------------------------
(***************************************************************************)
(* Lookups.                                                                *)
(***************************************************************************)

\* Catalog::ResolveTable walks the entries of the table's schema by rank, then
\* by id, and takes the first one that finds the table.
PrecedesById(e, f) == e[3] < f[3] \* mutant
Precedes(e, f) == e[2] < f[2] \/ (e[2] = f[2] /\ e[3] < f[3])

Candidates(t, ignored) ==
  {e \in entries_by_schema : /\ e[1] = SchemaOf[t]
                             /\ e[3] # ignored
                             /\ t \in entries[e[3]].tables_by_name}

ResolveTable(t, ignored) ==
  LET found == Candidates(t, ignored) IN
  IF found = {} THEN None
  ELSE (CHOOSE e \in found : \A f \in found \ {e} : Precedes(e, f))[3]

\* CatalogEntry::ResolveTableWithCatalog: an entry prefers its own tables.
ResolveTableWithCatalog(t, own, id) ==
  IF t \in own THEN id ELSE ResolveTable(t, id)

\* AllocateDatabaseId and AllocateSchemaId, for all the new names of one call:
\* a declared name keeps its id, the others get the next ids (in the order of
\* the names: who gets which of the fresh ids makes no difference).  Nothing
\* is declared here.
Allocate(names, declared, next) ==
  [n \in DOMAIN declared |->
     IF n \notin names THEN 0
     ELSE IF declared[n] # 0 THEN declared[n]
     ELSE next + Cardinality({m \in names : declared[m] = 0 /\ m < n})]

Allocated(names, declared) == Cardinality({n \in names : declared[n] = 0})

-----------------------------------------------------------------------------
(***************************************************************************)
(* Analyze(s, text): the script's text is replaced, scanned, parsed and    *)
(* analyzed.  The names of its CREATE TABLE statements get ids which are   *)
(* preliminary: only LoadScript declares them.  A slot of Scripts without  *)
(* an analysis stands for a script yet to be created.                      *)
(***************************************************************************)
Analyze(s, text) ==
  LET dbs == DatabasesOfTables(text.creates)
      sms == SchemasOfTables(text.creates)
      declared == [k \in Schemas |-> schemas[k].schema_id]
  IN
  /\ analyses < MaxAnalyses
  /\ analyses' = analyses + 1
  /\ analyzed' = [analyzed EXCEPT ![s] =
       [serial |-> analyses + 1, catalog_version |-> version,
        databases_by_name |-> Allocate(dbs, databases, next_database_id),
        schemas_by_name |-> Allocate(sms, declared, next_schema_id),
        table_declarations |-> text.creates, tables_by_name |-> text.creates,
        table_references |->
          {<<t, ResolveTableWithCatalog(t, text.creates, ScriptId[s])>> : t \in text.reads}]]
  /\ next_database_id' = next_database_id + Allocated(dbs, databases)
  /\ next_schema_id' = next_schema_id + Allocated(sms, declared)
  /\ UNCHANGED <<indexes, databases, schemas, version>>

-----------------------------------------------------------------------------
(***************************************************************************)
(* LoadScript.                                                             *)
(***************************************************************************)
ModifyWithoutVersion == version < MaxVersion /\ UNCHANGED version \* mutant
Modify == version < MaxVersion /\ version' = version + 1

\* A pair of ids, 0 in both for a schema that is not declared.
Ids(e, k) == [database_id |-> e.databases_by_name[DatabaseOf[k]], schema_id |-> e.schemas_by_name[k]]
Undeclared == [database_id |-> 0, schema_id |-> 0]

Mismatched(e) ==
  [databases |-> {d \in DatabasesOf(e) : databases[d] \notin {0, e.databases_by_name[d]}},
   schemas |-> {k \in SchemasOf(e) : schemas[k] \notin {Undeclared, Ids(e, k)}}]

\* std::map::insert: a name that is declared already keeps its ids.
DeclareDatabases(e, ds) ==
  [d \in Databases |-> IF d \in ds /\ databases[d] = 0 THEN e.databases_by_name[d] ELSE databases[d]]
DeclareSchemas(e, ks) ==
  [k \in Schemas |-> IF k \in ks /\ schemas[k] = Undeclared THEN Ids(e, k) ELSE schemas[k]]

SchemaKeys(ks, rank, id) == {<<k, rank, id>> : k \in ks}

(***************************************************************************)
(* A script that is new to the catalog.  Not analyzed, or its entry id in  *)
(* use: the call returns an error and changes nothing.                     *)
(***************************************************************************)
IsNew(s) == /\ Exists(analyzed[s])
            /\ ~Loaded(s)
            /\ ~Exists(entries[ScriptId[s]])

LoadNewScript(s, rank) ==
  LET id == ScriptId[s]
      e == analyzed[s]
  IN
  /\ Modify
  /\ IsNew(s)
  /\ Mismatched(e) = [databases |-> {}, schemas |-> {}]
  /\ databases' = DeclareDatabases(e, DatabasesOf(e))
  /\ schemas' = DeclareSchemas(e, SchemasOf(e))
  /\ entries_by_schema' = entries_by_schema \cup SchemaKeys(SchemasOf(e), rank, id)
  /\ script_entries' = [script_entries EXCEPT ![s] = [analyzed |-> e, rank |-> rank]]
  /\ entries' = [entries EXCEPT ![id] = e]
  /\ entries_ranked' = entries_ranked \cup {<<rank, id>>}
  /\ UNCHANGED <<analyzed, analyses, descriptor_pool_entries, next_database_id, next_schema_id>>

(***************************************************************************)
(* CATALOG_ID_OUT_OF_SYNC.  The names declared before the mismatch stay    *)
(* declared: databases come in the order of a hash map, all of them before *)
(* the schemas, which come in the order of a btree.                        *)
(***************************************************************************)
LoadScriptOutOfSync(s) ==
  LET e == analyzed[s]
      bad == Mismatched(e)
  IN
  /\ IsNew(s)
  /\ \/ /\ bad.databases # {}
        /\ \E ds \in SUBSET (DatabasesOf(e) \ bad.databases) : databases' = DeclareDatabases(e, ds)
        /\ UNCHANGED schemas
     \/ /\ bad.databases = {} /\ bad.schemas # {}
        /\ databases' = DeclareDatabases(e, DatabasesOf(e))
        /\ schemas' = DeclareSchemas(e, {k \in SchemasOf(e) : \A m \in bad.schemas : k < m})
  /\ UNCHANGED <<analyzed, analyses, indexes, next_database_id, next_schema_id, version>>

-----------------------------------------------------------------------------
(***************************************************************************)
(* UpdateScript: LoadScript of a script that is in the catalog already.    *)
(* The ids of the new analysis are not compared with the declared ones.    *)
(***************************************************************************)
NoKeyFor(keys, ks) == \A x \in keys : x[1] \notin ks
SchemasIn(d) == {k \in Schemas : DatabaseOf[k] = d}

UpdateKeysKeepsOld(old, new, rank, id) == \* mutant
  entries_by_schema \cup SchemaKeys(SchemasOf(new) \ SchemasOf(old), rank, id)
UpdateKeysIgnoresNew(old, new, rank, id) == \* mutant
  entries_by_schema \ SchemaKeys(SchemasOf(old) \ SchemasOf(new), rank, id)
UpdateKeys(old, new, rank, id) ==
  (entries_by_schema \ SchemaKeys(SchemasOf(old) \ SchemasOf(new), rank, id))
    \cup SchemaKeys(SchemasOf(new) \ SchemasOf(old), rank, id)

\* A schema that the script no longer refers to is undeclared if nobody else
\* refers to it, a schema it newly refers to is declared.
UpdateSchemasForgetsOthers(old, new, keys) == \* mutant
  [k \in Schemas |->
     IF k \in SchemasOf(old) \ SchemasOf(new) THEN Undeclared
     ELSE IF k \in SchemasOf(new) \ SchemasOf(old) /\ schemas[k] = Undeclared THEN Ids(new, k)
     ELSE schemas[k]]
UpdateSchemas(old, new, keys) ==
  [k \in Schemas |->
     IF k \in SchemasOf(old) \ SchemasOf(new) /\ NoKeyFor(keys, {k}) THEN Undeclared
     ELSE IF k \in SchemasOf(new) \ SchemasOf(old) /\ schemas[k] = Undeclared THEN Ids(new, k)
     ELSE schemas[k]]

\* Databases are undeclared last, when the keys of the dead schemas are gone.
UpdateDatabases(old, new, keys) ==
  [d \in Databases |->
     IF d \in DatabasesOf(old) \ DatabasesOf(new) /\ NoKeyFor(keys, SchemasIn(d)) THEN 0
     ELSE IF d \in DatabasesOf(new) \ DatabasesOf(old) /\ databases[d] = 0 THEN new.databases_by_name[d]
     ELSE databases[d]]

UpdateScript(s) ==
  LET id == ScriptId[s]
      old == script_entries[s].analyzed
      new == analyzed[s]
      keys == UpdateKeys(old, new, script_entries[s].rank, id)
  IN
  /\ Modify
  /\ Loaded(s)
  /\ new.serial # old.serial
  /\ entries_by_schema' = keys
  /\ schemas' = UpdateSchemas(old, new, keys)
  /\ databases' = UpdateDatabases(old, new, keys)
  /\ script_entries' = [script_entries EXCEPT ![s].analyzed = new]
  /\ entries' = [entries EXCEPT ![id] = new]
  /\ UNCHANGED <<analyzed, analyses, descriptor_pool_entries, entries_ranked,
                 next_database_id, next_schema_id>>

-----------------------------------------------------------------------------
(***************************************************************************)
(* DropScript takes the script out of the indexes.  What it declared stays *)
(* declared.                                                               *)
(***************************************************************************)
DropEntry(id, rank, ks) ==
  /\ entries' = [entries EXCEPT ![id] = Null]
  /\ entries_ranked' = entries_ranked \ {<<rank, id>>}
  /\ entries_by_schema' = entries_by_schema \ SchemaKeys(ks, rank, id)

DropLoadedScript(s) ==
  /\ Modify
  /\ Loaded(s)
  /\ DropEntry(ScriptId[s], script_entries[s].rank, SchemasOf(script_entries[s].analyzed))
  /\ script_entries' = [script_entries EXCEPT ![s] = NotLoaded]
  /\ UNCHANGED <<descriptor_pool_entries, databases, schemas, analyses,
                 next_database_id, next_schema_id>>

DropScript(s) == DropLoadedScript(s) /\ UNCHANGED analyzed

\* The destructor of a script drops it, and a new script may take its place.
DeleteScript(s) ==
  /\ Exists(analyzed[s])
  /\ analyzed' = [analyzed EXCEPT ![s] = Null]
  /\ \/ DropLoadedScript(s)
     \/ /\ ~Loaded(s)
        /\ UNCHANGED <<indexes, databases, schemas, analyses, next_database_id,
                       next_schema_id, version>>

-----------------------------------------------------------------------------
(***************************************************************************)
(* Descriptor pools.                                                       *)
(***************************************************************************)
AddDescriptorPool(id, rank) ==
  /\ Modify
  /\ ~Exists(entries[id])              \* else EXTERNAL_ID_COLLISION
  /\ entries' = [entries EXCEPT ![id] = NewPool]
  /\ entries_ranked' = entries_ranked \cup {<<rank, id>>}
  /\ descriptor_pool_entries' = [descriptor_pool_entries EXCEPT ![id] = rank]
  /\ UNCHANGED <<analyzed, analyses, script_entries, entries_by_schema, databases, schemas,
                 next_database_id, next_schema_id>>

DropDescriptorPool(id) ==
  /\ Modify
  /\ IsPool(id)
  /\ DropEntry(id, descriptor_pool_entries[id], SchemasOf(entries[id]))
  /\ descriptor_pool_entries' = [descriptor_pool_entries EXCEPT ![id] = None]
  /\ UNCHANGED <<analyzed, analyses, script_entries, databases, schemas,
                 next_database_id, next_schema_id>>

(***************************************************************************)
(* DescriptorPool::AddSchemaDescriptor reads one descriptor after the      *)
(* other: it gives ids to the database and the schema, which the catalog   *)
(* does not declare, and appends the tables.  `done` are the descriptors   *)
(* whose names were registered.                                            *)
(***************************************************************************)
RegisterNames(pool, done) ==
  LET sms == {d.schema : d \in done} \ SchemasOf(pool)
      dbs == {DatabaseOf[d.schema] : d \in done} \ DatabasesOf(pool)
      declared == [k \in Schemas |-> schemas[k].schema_id]
      dids == Allocate(dbs, databases, next_database_id)
      sids == Allocate(sms, declared, next_schema_id)
  IN
  [pool |-> [pool EXCEPT
     !.databases_by_name = [d \in Databases |-> IF d \in dbs THEN dids[d] ELSE @[d]],
     !.schemas_by_name = [k \in Schemas |-> IF k \in sms THEN sids[k] ELSE @[k]]],
   next_database_id |-> next_database_id + Allocated(dbs, databases),
   next_schema_id |-> next_schema_id + Allocated(sms, declared)]

TablesOf(ds) == UNION {d.tables : d \in ds}

\* A table with an empty name or with the name of a table that the pool can
\* look up already is an error.
Rejected(pool, d) == d.nameless \/ d.tables \cap pool.tables_by_name # {}

AddSchemaDescriptors(id, ds) ==
  LET named == RegisterNames(entries[id], ds)
      declarations == entries[id].table_declarations \cup TablesOf(ds)
  IN
  /\ Modify
  /\ IsPool(id)                        \* else CATALOG_DESCRIPTOR_POOL_UNKNOWN
  /\ \A d \in ds : ~Rejected(entries[id], d)
  /\ entries' = [entries EXCEPT ![id] =
       [named.pool EXCEPT !.table_declarations = declarations, !.tables_by_name = declarations]]
  /\ entries_by_schema' =
       entries_by_schema \cup SchemaKeys({d.schema : d \in ds}, descriptor_pool_entries[id], id)
  /\ next_database_id' = named.next_database_id
  /\ next_schema_id' = named.next_schema_id
  /\ UNCHANGED <<analyzed, analyses, script_entries, descriptor_pool_entries, entries_ranked,
                 databases, schemas>>

(***************************************************************************)
(* The first descriptor with an error ends the call.  What was read before *)
(* stays in the pool: its names, and the tables that come before the bad   *)
(* one, which the next successful call makes visible to lookups.           *)
(***************************************************************************)
AddSchemaDescriptorsFails(id, ds) ==
  LET pool == entries[id]
      bad == {d \in ds : Rejected(pool, d)}
  IN
  /\ IsPool(id)
  /\ \E d \in bad, before \in SUBSET (ds \ bad) : \E ts \in SUBSET (d.tables \ pool.tables_by_name) :
       LET named == RegisterNames(pool, before \cup {d}) IN
       /\ entries' = [entries EXCEPT ![id] =
            [named.pool EXCEPT !.table_declarations = @ \cup TablesOf(before) \cup ts]]
       /\ next_database_id' = named.next_database_id
       /\ next_schema_id' = named.next_schema_id
  /\ UNCHANGED <<analyzed, analyses, script_entries, descriptor_pool_entries, entries_ranked,
                 entries_by_schema, databases, schemas, version>>

\* Clear empties the indexes and keeps what is declared.
Clear ==
  /\ Modify
  /\ entries' = [id \in EntryIds |-> Null]
  /\ script_entries' = [s \in Scripts |-> NotLoaded]
  /\ descriptor_pool_entries' = [id \in EntryIds |-> None]
  /\ entries_ranked' = {}
  /\ entries_by_schema' = {}
  /\ UNCHANGED <<analyzed, analyses, databases, schemas, next_database_id, next_schema_id>>

-----------------------------------------------------------------------------
Init ==
  /\ analyzed = [s \in Scripts |-> Null]
  /\ analyses = PoolSerial
  /\ entries = [id \in EntryIds |-> Null]
  /\ script_entries = [s \in Scripts |-> NotLoaded]
  /\ descriptor_pool_entries = [id \in EntryIds |-> None]
  /\ entries_ranked = {}
  /\ entries_by_schema = {}
  /\ databases = [d \in Databases |-> 0]
  /\ schemas = [k \in Schemas |-> Undeclared]
  /\ next_database_id = INITIAL_DATABASE_ID
  /\ next_schema_id = INITIAL_SCHEMA_ID
  /\ version = 1

Next ==
  \/ \E s \in Scripts :
       \/ \E text \in Texts : Analyze(s, text)
       \/ \E rank \in Ranks : LoadNewScript(s, rank)
       \/ LoadScriptOutOfSync(s)
       \/ UpdateScript(s)
       \/ DropScript(s)
       \/ DeleteScript(s)
  \/ \E id \in PoolIds :
       \/ \E rank \in Ranks : AddDescriptorPool(id, rank)
       \/ DropDescriptorPool(id)
       \/ \E ds \in Descriptors : AddSchemaDescriptors(id, ds) \/ AddSchemaDescriptorsFails(id, ds)
  \/ Clear

Spec == Init /\ [][Next]_vars

-----------------------------------------------------------------------------
(***************************************************************************)
(* Properties.                                                             *)
(***************************************************************************)
ScriptEntry == [analyzed : CatalogEntry, rank : Nat]

\* Every part of the catalog keeps its type.
TypeOK ==
  /\ analyzed \in [Scripts -> CatalogEntry]
  /\ analyses \in Nat \ {0}
  /\ entries \in [EntryIds -> CatalogEntry]
  /\ script_entries \in [Scripts -> ScriptEntry]
  /\ \A s \in Scripts : Loaded(s) => script_entries[s].rank \in Ranks
  /\ descriptor_pool_entries \in [EntryIds -> Ranks \cup {None}]
  /\ entries_ranked \subseteq Ranks \X EntryIds
  /\ entries_by_schema \subseteq Schemas \X Ranks \X EntryIds
  /\ databases \in [Databases -> Nat]
  /\ schemas \in [Schemas -> [database_id : Nat, schema_id : Nat]]
  /\ next_database_id \in Nat \ {0}
  /\ next_schema_id \in Nat \ {0}
  /\ version \in Nat

\* The entry behind an id is the object that script_entries or
\* descriptor_pool_entries owns: never the analysis that an update replaced,
\* which is freed (entries holds raw pointers).  A loaded script is analyzed,
\* which UpdateScript asserts.
EntriesOwned ==
  /\ \A s \in Scripts : Loaded(s) =>
       /\ entries[ScriptId[s]] = script_entries[s].analyzed
       /\ Exists(analyzed[s])
       /\ ~IsPool(ScriptId[s])
       /\ \A r \in Scripts : Loaded(r) /\ ScriptId[r] = ScriptId[s] => r = s
  /\ \A id \in EntryIds : Exists(entries[id]) =>
       IsPool(id) \/ \E s \in Scripts : Loaded(s) /\ ScriptId[s] = id
  /\ \A id \in EntryIds : IsPool(id) => entries[id].serial = PoolSerial

\* The rank an id is registered with, by the owner of its entry.
RankedBy(rank, id) ==
  \/ descriptor_pool_entries[id] = rank
  \/ \E s \in Scripts : Loaded(s) /\ ScriptId[s] = id /\ script_entries[s].rank = rank

\* entries_ranked holds every entry once, with the rank of its owner:
\* DescribeEntries, Flatten and the completion iterate it and dereference
\* entries.at(id).
RankedIndexExact ==
  \A rank \in Ranks, id \in EntryIds :
    <<rank, id>> \in entries_ranked <=> Exists(entries[id]) /\ RankedBy(rank, id)

\* A key of entries_by_schema leads to a registered entry that refers to the
\* schema, under the rank of that entry (ResolveTable asserts that the entry
\* exists), and a loaded script is found under all its schemas.
SchemaIndexSound ==
  /\ \A x \in entries_by_schema : /\ <<x[2], x[3]>> \in entries_ranked
                                  /\ x[1] \in SchemasOf(entries[x[3]])
  /\ \A s \in Scripts : Loaded(s) =>
       SchemaKeys(SchemasOf(script_entries[s].analyzed), script_entries[s].rank, ScriptId[s])
         \subseteq entries_by_schema

IndexesConsistent == EntriesOwned /\ RankedIndexExact /\ SchemaIndexSound

\* What a loaded script refers to is declared: UpdateScript asserts
\* databases.contains(db_name) and dereferences the declaration.  The names
\* that one script declared survive the updates of all the others.
LoadedNamesDeclared ==
  \A s \in Scripts : LET e == script_entries[s].analyzed IN
    /\ \A d \in DatabasesOf(e) : databases[d] # 0
    /\ \A k \in SchemasOf(e) : schemas[k] # Undeclared

\* A table of a loaded script can be resolved, to itself or to an entry that
\* precedes the script and declares the table too.
ScriptTablesResolve ==
  \A s \in Scripts : Loaded(s) =>
    \A t \in script_entries[s].analyzed.tables_by_name :
      LET found == ResolveTable(t, None) IN
      /\ found # None
      /\ t \in entries[found].table_declarations
      /\ found = ScriptId[s] \/
         \E rank \in Ranks : /\ <<rank, found>> \in entries_ranked
                             /\ Precedes(<<SchemaOf[t], rank, found>>,
                                         <<SchemaOf[t], script_entries[s].rank, ScriptId[s]>>)

\* The version protects all refs (catalog.h:387): as long as the catalog has
\* the version that a script was analyzed against, resolving its table
\* references again gives what the analyzer found.
VersionProtectsReferences ==
  \A s \in Scripts : analyzed[s].catalog_version = version =>
    \A ref \in analyzed[s].table_references :
      ResolveTableWithCatalog(ref[1], analyzed[s].tables_by_name, ScriptId[s]) = ref[2]

\* Two entries that refer to one schema refer to it by the same id
\* (catalog.cc:771: "The loading MUST FAIL since otherwise we'd have the ids
\* 42 and 43 referencing the same schema").
OneIdPerSchema ==
  \A i, j \in EntryIds : \A k \in SchemasOf(entries[i]) \cap SchemasOf(entries[j]) :
    entries[i].schemas_by_name[k] = entries[j].schemas_by_name[k]

-----------------------------------------------------------------------------
(***************************************************************************)
(* The catalog implements NameResolution: a script entry has the tables of *)
(* the analysis that was loaded last, a pool has the tables it can look up *)
(* in the schemas that it is registered for.                               *)
(***************************************************************************)
PoolContents(id) ==
  LET rank == descriptor_pool_entries[id] IN
  [rank |-> rank,
   tables |-> {t \in entries[id].tables_by_name : <<SchemaOf[t], rank, id>> \in entries_by_schema}]

ScriptContents(s) == [rank |-> script_entries[s].rank, tables |-> script_entries[s].analyzed.tables_by_name]

Owner(id) == {s \in Scripts : Loaded(s) /\ ScriptId[s] = id}

Contents(id) ==
  IF IsPool(id) THEN PoolContents(id)
  ELSE IF Owner(id) # {} THEN ScriptContents(CHOOSE s \in Owner(id) : TRUE)
  ELSE [rank |-> None, tables |-> {}]

Promise == INSTANCE NameResolution WITH
  contents <- [id \in EntryIds |-> Contents(id)],
  references <- [s \in Scripts |-> analyzed[s].table_references]

\* Every call is a step of NameResolution: what the analyzer resolves through
\* the indexes is what the entries themselves say, and no change of what it
\* would resolve goes without a new version.
ImplementsNameResolution == Promise!Spec

=============================================================================
