------------------------------- MODULE Config -------------------------------
(***************************************************************************)
(* internal/config/config.go and loadConfig of cmd/server/main.go: from    *)
(* flags, environment and TOML file to the limits and the database path.   *)
(* Pure functions: what cannot be loaded ends the process before it has    *)
(* opened anything.                                                        *)
(***************************************************************************)
EXTENDS Integers

CONSTANTS
  Unset,               \* a flag or variable not given, a key not in the file, ""
  DefaultConfigPath,   \* "erminetq.toml"
  DefaultDBPath,       \* "erminetq.db"
  DefaultGlobalLimit   \* 128

ASSUME ConfigDefaults ==
  /\ DefaultGlobalLimit \in Nat \ {0}
  /\ DefaultDBPath # Unset /\ DefaultConfigPath # Unset

\* What toml.DecodeFile meets at a path: no file, one it cannot read or parse,
\* or a document with the keys it has; queues and types map names to limits.
Absent == [kind |-> "absent"]
Malformed == [kind |-> "malformed"]
Toml(path, global, queues, types) ==
  [kind |-> "toml", path |-> path, global |-> global, queues |-> queues, types |-> types]

NoNames == [n \in {} |-> 0]

IfGiven(value, default) == IF value # Unset THEN value ELSE default

defaults ==
  [path |-> Unset, global |-> DefaultGlobalLimit, queues |-> NoNames, types |-> NoNames]

\* Keys that are absent keep their defaults; a limit of 0 that is written is kept.
decode(file) ==
  IF file.kind = "absent"
  THEN defaults
  ELSE [path |-> file.path, global |-> IfGiven(file.global, defaults.global),
        queues |-> file.queues, types |-> file.types]

\* Mistake: zero is taken for an absent value.
DefaultedZero(cfg) ==
  /\ \A q \in DOMAIN cfg.queues : cfg.queues[q] >= 0
  /\ \A y \in DOMAIN cfg.types : cfg.types[y] >= 0

validate(cfg) ==
  /\ cfg.global >= 1
  /\ \A q \in DOMAIN cfg.queues : cfg.queues[q] >= 0
  /\ \A y \in DOMAIN cfg.types : cfg.types[y] >= 0

\* ERMINETQ_DB overrides the file; the default is used when both are empty.
Load(file, envDB) ==
  LET cfg == decode(file)
  IN  [cfg EXCEPT !.path = IfGiven(envDB, IfGiven(@, DefaultDBPath))]

Loads(file) == file.kind # "malformed" /\ validate(decode(file))

ConfigFilePath(flag, envConfig) == IfGiven(flag, IfGiven(envConfig, DefaultConfigPath))

\* Mistake: the environment wins over the flag.
EnvWins(flagDB, file, envDB) == IfGiven(envDB, IfGiven(flagDB, Load(file, envDB).path))

\* loadConfig of main.go: the -db flag overrides what Load returned.
DBPath(flagDB, file, envDB) == IfGiven(flagDB, Load(file, envDB).path)

QueueLimit(cfg, queue) == IF queue \in DOMAIN cfg.queues THEN cfg.queues[queue] ELSE 0

TaskTypeLimit(cfg, type) == IF type \in DOMAIN cfg.types THEN cfg.types[type] ELSE 0

=============================================================================
