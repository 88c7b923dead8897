\* Two packages whose directories share a name, a crash or a lost answer, a second run.
CONSTANTS
  v = v
  w = w
  Garbled = Garbled
  Missing = Missing
  NoProject = NoProject
  Tree <- MCTree
  Markers <- MCMarkers
  Home <- MCHome
  Paths <- MCPaths
  Words <- MCWords
  Shape <- MCShape
  Joined <- MCJoined
  Coerced <- MCCoerced
  Contents <- MCContents
  Disks <- MCDisks
  OldBackups <- MCOldBackups
  Minutes = {1}
  Edits <- MCEdits
  Scripts <- MCScripts
  Cwd <- MCCwd
  Envs = {"dev"}
  IgnoreDirs = {"node_modules"}
  HiddenDirs = {".git"}
  NotEnv = {"example", "backup"}
  MaxDepth = 5
  MaxResults = 100
  FrameworkManaged = {"NODE_ENV"}
  PlainNames = {"DEBUG"}
  SecretNames = {"TOKEN"}
  EnvTools = {"next", "node"}
  MaxBatch = 50
  MaxFaults = 1
  MaxUserEdits = 1
  MaxRuns = 2
SPECIFICATION MigrationSpec
CHECK_DEADLOCK FALSE
INVARIANT
  MappingsConsistent
PROPERTIES
  FailSafe
  OriginalsKept
  MappedBeforeRenamed
