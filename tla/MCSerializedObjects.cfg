CONSTANTS
  Int32Max = 7
  HeaderBytes = 48
  Kinds <- MCKinds
  EngineVersions <- MCEngineVersions
  DirectorySize <- MCDirectorySize
  TailSize <- MCTailSize
  IndexSize <- MCIndexSize
  CatalogueEngine = "e35"
  Sources <- MCSources
  DirectoryCalls <- MCDirectoryCalls
  TailCalls <- MCTailCalls
  IndexCalls <- MCIndexCalls
  QueryCalls <- MCQueryCalls
  SchemaEngine = "e35"
  CommonTable <- MCCommonTable
  NodeBytes = 32
  RadixBuckets = 4
  RadixPasses = 4
  SchemaSize <- MCSchemaSize
  Spelled <- MCSpelled
  ObjectMax = 400
  ValuesSize <- MCValuesSize
  NullRid <- MCNullRid
  RegistryVersion = 2
  ManagedSize <- MCManagedSize
  ObjectFiles <- MCObjectFiles
  SchemaCalls <- MCSchemaCalls
  ContextCalls <- MCContextCalls
  ValueCalls <- MCValueCalls
  ManagedCalls <- MCManagedCalls
SPECIFICATION ReadingSpec
INVARIANTS SchemaExact ValuesExact ReadersSound TablesExact
CHECK_DEADLOCK FALSE
