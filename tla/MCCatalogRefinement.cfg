CONSTANTS
  a = a
  b = b
  t1 = t1
  t2 = t2
  None = None
  Scripts <- MCScripts
  ScriptId <- MCScriptId
  EntryIds = {1, 2, 3}
  PoolIds = {3}
  Ranks = {0, 1}
  Databases = {1}
  Schemas = {1, 2}
  Tables <- MCTables
  DatabaseOf <- MCDatabaseOf
  SchemaOf <- MCSchemaOf
  Texts <- MCTexts
  Descriptors <- MCDescriptors
  MaxVersion = 5
  MaxAnalyses = 3
SPECIFICATION Spec
PROPERTIES
  ImplementsNameResolution
CHECK_DEADLOCK FALSE
