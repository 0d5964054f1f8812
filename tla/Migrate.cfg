SPECIFICATION FairSpec
CONSTANTS
  Unset = Unset
  DefaultConfigPath = "erminetq.toml"
  DefaultDBPath = "erminetq.db"
  DefaultGlobalLimit = 128
  Process = {"server", "migrate"}
  None = None
  Script <- MCScript
  Binary <- MCBinary
  ConfigFiles <- MCConfigFiles
  Args <- MCArgs
  Environment <- MCEnvironment
  MaxFaults = 2
INVARIANTS
  TypeOK
  SchemaIsPrefix
  OpenMeansReady
PROPERTIES
  EventuallyOpens
CHECK_DEADLOCK FALSE
