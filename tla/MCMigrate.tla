----------------------------- MODULE MCMigrate -----------------------------
(***************************************************************************)
(* An instance of Migrate for TLC: three versions, whose scripts have      *)
(* comments, a statement of two lines, a lone semicolon and a last         *)
(* statement without one.                                                  *)
(***************************************************************************)
EXTENDS Migrate, TLC

MCScript == << <<"blank", "text", "end", "semi">>, <<"end", "text", "semi">>, <<"text">> >>

\* The migrate command is of an older release than the server.
MCBinary == ("server" :> 3) @@ ("migrate" :> 2)

Limits(q, n) == [x \in {q} |-> n]

MCConfigFiles ==
  LET both(f) == (DefaultConfigPath :> f) @@ ("other.toml" :> Toml("file.db", 2, NoNames, NoNames))
  IN  {both(Absent), both(Malformed),
       both(Toml(Unset, Unset, Limits("q", 0), Limits("y", 1))),
       both(Toml("file.db", 0, NoNames, NoNames)),
       both(Toml("file.db", 1, NoNames, Limits("y", -1)))}

MCArgs == {[config |-> Unset, db |-> Unset], [config |-> "other.toml", db |-> Unset],
           [config |-> Unset, db |-> "flag.db"]}

MCEnvironment == {[config |-> Unset, db |-> Unset], [config |-> "other.toml", db |-> "env.db"]}

=============================================================================
