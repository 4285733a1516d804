CONSTANTS
  d1 = d1
  d2 = d2
  Dbs <- MCDbs
  Paths <- MCPaths
  OptionKeys <- MCOptionKeys
  NativeOptions <- MCNativeOptions
  MemPath = MemPath
  NoPath = NoPath
  CallCap = 2
  CatalogThrows = FALSE
  NoDb = NoDb

SPECIFICATION Spec
SYMMETRY DbSymmetry

INVARIANT TypeOK
INVARIANT RegistryMatchesOpenDatabases
INVARIANT ShutdownCheckpointExactlyOnce

PROPERTY CloseNeverThrows
PROPERTY AbsSpec
