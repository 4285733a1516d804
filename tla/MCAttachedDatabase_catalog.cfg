CONSTANTS
  d1 = d1
  d2 = d2
  Dbs <- MCDbs
  Paths <- MCPaths
  OptionKeys <- MCOptionKeys
  NativeOptions <- MCNativeOptions
  MemPath = MemPath
  NoPath = NoPath
  CallCap = 2
  CatalogThrows = TRUE
  NoDb = NoDb

SPECIFICATION Spec

INVARIANT RegistryMatchesOpenDatabases
