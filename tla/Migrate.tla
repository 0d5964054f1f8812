------------------------------ MODULE Migrate ------------------------------
(***************************************************************************)
(* How a process of ErmineTQ gets from its command line to an open store:  *)
(* loadConfig, store.Open and Migrate (internal/store/migrate.go), in the  *)
(* server and in the migrate command, which may run at the same time on    *)
(* one database, be of different versions, and be killed at any point.     *)
(*                                                                         *)
(* SQLite is taken to execute a transaction, schema changes included, as a *)
(* whole or not at all, with one writer at a time; one that finds another  *)
(* writing waits or fails with SQLITE_BUSY.  A line of a script is one of  *)
(* "blank" (or a comment), "text", "end" (text that ends in a semicolon)   *)
(* and "semi" (a semicolon alone).  A line of SQL that has been executed   *)
(* cannot be executed again: the scripts create tables, indexes, columns.  *)
(***************************************************************************)
EXTENDS Config, Sequences, SequencesExt, FiniteSets

CONSTANTS
  Process,    \* the processes started on one machine, again and again
  None,
  Script,     \* per version: the lines of its .sql file, as sorted by fs.Glob
  Binary,     \* per process: the last version embedded in its program
  ConfigFiles,\* the contents config files may have: functions from their paths
  Args,       \* the flags a process may be given: [config, db]
  Environment,\* what its environment may hold: [config, db]
  MaxFaults   \* bound on failed operations and kills

Version == DOMAIN Script

ASSUME MigrateConstants ==
  /\ Script \in Seq(Seq({"blank", "text", "end", "semi"}))
  /\ Binary \in [Process -> Version]
  /\ None \notin Process
  /\ MaxFaults \in Nat

\* What lies at every path that may be asked for.
ASSUME ConfigFilesExist ==
  \A f \in ConfigFiles :
    /\ \A a \in Args, e \in Environment : ConfigFilePath(a.config, e.config) \in DOMAIN f
    /\ \A x \in DOMAIN f : f[x].kind \in {"absent", "malformed", "toml"}

VARIABLES
  files, env, args,  \* the settings: never change
  pc,        \* per process: "down", "refused", "ensure", "read", "next", "tx" or "open"
  cfg,       \* per process: its configuration, from Load
  at,        \* per process: the path of the database it has opened
  applied,   \* per process: appliedVersions, as read
  local,     \* per process: how many statements its transaction has executed
  written,   \* per process: the lines of SQL its transaction has written
  db,        \* per path: the committed database
  lock,      \* per path: the process whose transaction has written
  faults

settings == <<files, env, args>>
vars == <<settings, pc, cfg, at, applied, local, written, db, lock, faults>>

DBPaths ==
  ({DefaultDBPath} \cup {e.db : e \in Environment} \cup {a.db : a \in Args}
     \cup UNION {{f[p].path : p \in {x \in DOMAIN f : f[x].kind = "toml"}} : f \in ConfigFiles})
  \ {Unset}

\* A database: the lines of SQL executed, in order, and the rows of
\* schema_migrations, if the table exists.
EmptyDB == [table |-> FALSE, lines |-> <<>>, recorded |-> {}]

TypeOK ==
  /\ files \in ConfigFiles /\ env \in Environment /\ args \in [Process -> Args]
  /\ pc \in [Process -> {"down", "refused", "ensure", "read", "next", "tx", "open"}]
  /\ \A p \in Process : applied[p] \subseteq Version
  /\ \A d \in DBPaths :
       /\ db[d].recorded \subseteq Version
       /\ db[d].recorded # {} => db[d].table
       /\ lock[d] # None => pc[lock[d]] = "tx" /\ at[lock[d]] = d
  /\ faults \in 0 .. MaxFaults

Init ==
  /\ files \in ConfigFiles /\ env \in Environment /\ args \in [Process -> Args]
  /\ pc = [p \in Process |-> "down"]
  /\ cfg = [p \in Process |-> defaults]
  /\ at = [p \in Process |-> None]
  /\ applied = [p \in Process |-> {}]
  /\ local = [p \in Process |-> 0]
  /\ written = [p \in Process |-> <<>>]
  /\ db = [d \in DBPaths |-> EmptyDB]
  /\ lock = [d \in DBPaths |-> None]
  /\ faults = 0

-----------------------------------------------------------------------------
(* splitSQL: statements as sequences of the lines of SQL in them.          *)

\* What the loop over the lines does with line i.  A semicolon alone ends a
\* statement, if there is one to end.
AddLine(script, acc, i) ==
  CASE script[i] = "blank" -> acc
    [] script[i] = "text" -> [acc EXCEPT !.buf = Append(@, i)]
    [] script[i] = "end" -> [stmts |-> Append(acc.stmts, Append(acc.buf, i)), buf |-> <<>>]
    [] OTHER ->
         [stmts |-> IF acc.buf = <<>> THEN acc.stmts ELSE Append(acc.stmts, acc.buf),
          buf |-> <<>>]

\* stmts and buf after the first i lines.
Split(script) ==
  LET split[i \in 0 .. Len(script)] ==
        IF i = 0 THEN [stmts |-> <<>>, buf |-> <<>>]
                 ELSE AddLine(script, split[i - 1], i)
  IN  split

\* Mistake: the trailing statement without a semicolon is forgotten.
SplitForgetsTail(script) == Split(script)[Len(script)].stmts

splitSQL(script) ==
  LET end == Split(script)[Len(script)]
  IN  IF end.buf = <<>> THEN end.stmts ELSE Append(end.stmts, end.buf)

Statements == [v \in Version |-> splitSQL(Script[v])]

LinesOf(v, stmt) == [j \in DOMAIN stmt |-> <<v, stmt[j]>>]

-----------------------------------------------------------------------------
(* loadConfig, then Open.                                                  *)

Setting(p) == files[ConfigFilePath(args[p].config, env.config)]

\* Invalid settings end the process, now and each time it is started.
LoadConfigFails(p) ==
  /\ pc[p] = "down"
  /\ ~Loads(Setting(p))
  /\ pc' = [pc EXCEPT ![p] = "refused"]
  /\ UNCHANGED <<settings, cfg, at, applied, local, written, db, lock, faults>>

LoadConfig(p) ==
  /\ pc[p] = "down"
  /\ Loads(Setting(p))
  /\ pc' = [pc EXCEPT ![p] = "ensure"]
  /\ cfg' = [cfg EXCEPT ![p] = Load(Setting(p), env.db)]
  /\ at' = [at EXCEPT ![p] = DBPath(args[p].db, Setting(p), env.db)]
  /\ UNCHANGED <<settings, applied, local, written, db, lock, faults>>

Locked(p) == lock[at[p]] \notin {None, p}

\* ensureMigrationsTable: CREATE TABLE IF NOT EXISTS, in a transaction of its own.
EnsureTable(p) ==
  /\ pc[p] = "ensure"
  /\ db[at[p]].table \/ ~Locked(p)
  /\ db' = [db EXCEPT ![at[p]].table = TRUE]
  /\ pc' = [pc EXCEPT ![p] = "read"]
  /\ UNCHANGED <<settings, cfg, at, applied, local, written, lock, faults>>

\* appliedVersions, read before and outside the transactions that follow.
ReadApplied(p) ==
  /\ pc[p] = "read"
  /\ applied' = [applied EXCEPT ![p] = db[at[p]].recorded]
  /\ pc' = [pc EXCEPT ![p] = "next"]
  /\ UNCHANGED <<settings, cfg, at, local, written, db, lock, faults>>

Pending(p) == {v \in Version : v <= Binary[p]} \ applied[p]

\* The version its loop over the sorted files has come to.
Current(p) == CHOOSE v \in Pending(p) : \A u \in Pending(p) : v <= u

\* Mistake: the files are taken in the opposite order.
LastPending(p) == CHOOSE v \in Pending(p) : \A u \in Pending(p) : v >= u

BeginMigration(p) ==
  /\ pc[p] = "next" /\ Pending(p) # {}
  /\ pc' = [pc EXCEPT ![p] = "tx"]
  /\ UNCHANGED <<settings, cfg, at, applied, local, written, db, lock, faults>>

NextStatement(p) == LinesOf(Current(p), Statements[Current(p)][local[p] + 1])

AllExecuted(p) == local[p] = Len(Statements[Current(p)])

\* Nothing of the next statement exists already; for the last one, the
\* INSERT into schema_migrations, the version is not there yet.
Conflicts(p) ==
  IF AllExecuted(p)
  THEN Current(p) \in db[at[p]].recorded
  ELSE \E i \in DOMAIN NextStatement(p) :
         \E j \in DOMAIN db[at[p]].lines : db[at[p]].lines[j] = NextStatement(p)[i]

\* Mistake: statements are executed outside a transaction.
ExecAutocommit(p) ==
  /\ pc[p] = "tx" /\ ~AllExecuted(p)
  /\ ~Locked(p) /\ ~Conflicts(p)
  /\ db' = [db EXCEPT ![at[p]].lines = @ \o NextStatement(p)]
  /\ local' = [local EXCEPT ![p] = @ + 1]
  /\ UNCHANGED <<settings, pc, cfg, at, applied, written, lock, faults>>

\* tx.Exec: the transaction becomes the writer, or goes on being it.
Exec(p) ==
  /\ pc[p] = "tx" /\ ~AllExecuted(p)
  /\ ~Locked(p) /\ ~Conflicts(p)
  /\ lock' = [lock EXCEPT ![at[p]] = p]
  /\ written' = [written EXCEPT ![p] = @ \o NextStatement(p)]
  /\ local' = [local EXCEPT ![p] = @ + 1]
  /\ UNCHANGED <<settings, pc, cfg, at, applied, db, faults>>

\* The INSERT into schema_migrations and the commit.
Record(p) ==
  /\ pc[p] = "tx" /\ AllExecuted(p)
  /\ ~Locked(p) /\ ~Conflicts(p)
  /\ db' = [db EXCEPT ![at[p]].lines = @ \o written[p],
                      ![at[p]].recorded = @ \cup {Current(p)}]
  /\ lock' = [lock EXCEPT ![at[p]] = None]
  /\ applied' = [applied EXCEPT ![p] = @ \cup {Current(p)}]
  /\ local' = [local EXCEPT ![p] = 0]
  /\ written' = [written EXCEPT ![p] = <<>>]
  /\ pc' = [pc EXCEPT ![p] = "next"]
  /\ UNCHANGED <<settings, cfg, at, faults>>

\* Nothing is pending: Open starts the write loop and returns.
Opened(p) ==
  /\ pc[p] = "next" /\ Pending(p) = {}
  /\ pc' = [pc EXCEPT ![p] = "open"]
  /\ UNCHANGED <<settings, cfg, at, applied, local, written, db, lock, faults>>

\* Mistake: an error returns without tx.Rollback.
ExitWithoutRollback(p) ==
  /\ pc' = [pc EXCEPT ![p] = "down"]
  /\ applied' = [applied EXCEPT ![p] = {}]
  /\ local' = [local EXCEPT ![p] = 0]
  /\ written' = [written EXCEPT ![p] = <<>>]
  /\ UNCHANGED <<settings, cfg, at, db, lock>>

\* The process ends; a transaction it had begun is rolled back.
Exit(p) ==
  /\ pc' = [pc EXCEPT ![p] = "down"]
  /\ applied' = [applied EXCEPT ![p] = {}]
  /\ local' = [local EXCEPT ![p] = 0]
  /\ written' = [written EXCEPT ![p] = <<>>]
  /\ lock' = [d \in DBPaths |-> IF lock[d] = p THEN None ELSE lock[d]]
  /\ UNCHANGED <<settings, cfg, at, db>>

Starting(p) == pc[p] \in {"ensure", "read", "next", "tx"}

\* The schema exists already, or another process is writing.
FailOnOther(p) ==
  /\ Starting(p)
  /\ Locked(p) \/ (pc[p] = "tx" /\ Conflicts(p))
  /\ Exit(p)
  /\ UNCHANGED faults

\* Any other error, or a kill.
Fault(p) ==
  /\ Starting(p) \/ pc[p] = "open"
  /\ faults < MaxFaults
  /\ faults' = faults + 1
  /\ Exit(p)

\* migrate closes the store at once, a server when it is stopped.
Close(p) ==
  /\ pc[p] = "open"
  /\ Exit(p)
  /\ UNCHANGED faults

Progress(p) ==
  \/ LoadConfigFails(p) \/ LoadConfig(p) \/ EnsureTable(p) \/ ReadApplied(p)
  \/ BeginMigration(p) \/ Exec(p) \/ Record(p) \/ Opened(p) \/ FailOnOther(p)

Next == \E p \in Process : Progress(p) \/ Fault(p) \/ Close(p)

Spec == Init /\ [][Next]_vars

\* A process that has ended is started again, and what is started runs.
FairSpec == Spec /\ \A p \in Process : WF_vars(Progress(p))

-----------------------------------------------------------------------------
(* What is checked.                                                        *)

\* The lines of SQL in the file of version v, and in those of versions 1 to n.
SQLOf(v) == {<<v, i>> : i \in {j \in DOMAIN Script[v] : Script[v][j] \in {"text", "end"}}}

SQLUpTo(n) == UNION {SQLOf(v) : v \in 1 .. n}

\* As the files have them, one after the other.
Earlier(x, y) == x[1] < y[1] \/ (x[1] = y[1] /\ x[2] < y[2])

InOrder(lines) == \A j, k \in DOMAIN lines : j < k => Earlier(lines[j], lines[k])

\* Whatever races and dies: the versions recorded are the first ones, and what
\* has been executed on the database is all the SQL of their files, once, in order.
SchemaIsPrefix ==
  \A d \in DBPaths :
    \E n \in {0} \cup Version :
      /\ db[d].recorded = {v \in Version : v <= n}
      /\ Range(db[d].lines) = SQLUpTo(n)
      /\ InOrder(db[d].lines)

\* d is the first of flag, variable, file and default that is given.
Names(p, d) ==
  LET given == <<args[p].db, env.db,
                 IF Setting(p).kind = "toml" THEN Setting(p).path ELSE Unset,
                 DefaultDBPath>>
  IN  \E i \in 1 .. 4 :
        /\ given[i] = d /\ d # Unset
        /\ \A j \in 1 .. (i - 1) : given[j] = Unset

\* A store that is open is the database the settings name, in the
\* documented order of precedence, has every version its program knows, and
\* is used with limits that mean something.
OpenMeansReady ==
  \A p \in Process : pc[p] = "open" =>
    /\ Names(p, at[p])
    /\ {v \in Version : v <= Binary[p]} \subseteq db[at[p]].recorded
    /\ cfg[p].global >= 1
    /\ \A q \in DOMAIN cfg[p].queues : QueueLimit(cfg[p], q) >= 0
    /\ \A y \in DOMAIN cfg[p].types : TaskTypeLimit(cfg[p], y) >= 0

\* However often a start fails half way, nothing is left behind that keeps
\* the next ones from getting through.
EventuallyOpens ==
  \A p \in Process : Loads(Setting(p)) ~> (pc[p] = "open")

=============================================================================
