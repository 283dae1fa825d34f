CONSTANTS
  a = a
  b = b
  t1 = t1
  t2 = t2
  None = None
  Scripts <- MCScripts
  ScriptId <- MCScriptId
  EntryIds = {1, 2}
  PoolIds = {2}
  Ranks = {0, 1}
  Databases = {1}
  Schemas = {1, 2}
  Tables <- MCTables
  DatabaseOf <- MCDatabaseOf
  SchemaOf <- MCSchemaOf
  Texts <- MCTexts
  Descriptors <- MCDescriptors
  MaxVersion = 5
  MaxAnalyses = 4
SPECIFICATION Spec
INVARIANTS
  OneIdPerSchema
CHECK_DEADLOCK FALSE
