--------------------------- MODULE MigrateProofs ---------------------------
(***************************************************************************)
(* Migrate: types; splitSQL loses, repeats and moves no line of a script;  *)
(* the schema of a database is always the scripts of its first versions,   *)
(* whole and in order; and a store that is open is the one the settings    *)
(* name, complete and with valid limits.                                   *)
(***************************************************************************)
EXTENDS Migrate, WellFoundedInduction, TLAPS

(* Induction, and what splitSQL computes.                                  *)

\* Every set of natural numbers has a least element: induction, in a form
\* without operator parameters.
LEMMA LeastNatural ==
  ASSUME NEW T \in SUBSET Nat, T # {}
  PROVE  \E n \in T : \A m \in T : n <= m
<1>1. PICK n \in T : \A m \in T : ~(<<m, n>> \in OpToRel(<, Nat))
  BY WFMin, NatLessThanWellFounded, Zenon
<1>2. \A m \in T : ~(m < n)
  BY <1>1, Zenon DEF OpToRel
<1> QED
  BY <1>2

Line == {"blank", "text", "end", "semi"}

Nothing == [stmts |-> <<>>, buf |-> <<>>]

\* f is the loop of splitSQL over the first n lines.
Splits(script, n, f) ==
  f = [i \in 0 .. n |-> IF i = 0 THEN Nothing ELSE AddLine(script, f[i - 1], i)]

\* What Split stands for: its recursion is well-founded.
LEMMA SplitUnfolds ==
  ASSUME NEW script \in Seq(Line)
  PROVE  Splits(script, Len(script), Split(script))
<1> DEFINE S(n) == \E f : Splits(script, n, f)
           T == {n \in Nat : ~S(n)}
<1>1. S(0)
  <2>1. Splits(script, 0, [i \in 0 .. 0 |-> Nothing])
    BY DEF Splits
  <2> QED
    BY <2>1
<1>2. ASSUME NEW n \in Nat, S(n) PROVE S(n + 1)
  <2>1. PICK f : Splits(script, n, f)
    BY <1>2
  <2> DEFINE g == [i \in 0 .. (n + 1) |-> IF i <= n THEN f[i] ELSE AddLine(script, f[n], n + 1)]
  <2>2. \A i \in 0 .. n : f[i] = IF i = 0 THEN Nothing ELSE AddLine(script, f[i - 1], i)
    BY <2>1 DEF Splits
  <2>3. \A i \in 0 .. (n + 1) : g[i] = IF i = 0 THEN Nothing ELSE AddLine(script, g[i - 1], i)
    <3> SUFFICES ASSUME NEW i \in 0 .. (n + 1)
                 PROVE  g[i] = IF i = 0 THEN Nothing ELSE AddLine(script, g[i - 1], i)
      OBVIOUS
    <3>1. CASE i = 0
      BY <2>2, <3>1
    <3>2. CASE i \in 1 .. n
      <4>1. g[i] = f[i] /\ g[i - 1] = f[i - 1]
        BY <3>2
      <4> QED
        BY <2>2, <3>2, <4>1
    <3>3. CASE i = n + 1
      <4>1. g[i] = AddLine(script, f[n], n + 1) /\ g[i - 1] = f[n] /\ i # 0
        BY <3>3
      <4> QED
        BY <3>3, <4>1
    <3> QED
      BY <3>1, <3>2, <3>3
  <2>4. Splits(script, n + 1, g)
    <3>1. g = [i \in 0 .. (n + 1) |-> g[i]]
      OBVIOUS
    <3> HIDE DEF g
    <3> QED
      BY <2>3, <3>1 DEF Splits
  <2> QED
    BY <2>4
<1>3. \A n \in Nat : S(n)
  <2> SUFFICES ASSUME T # {} PROVE FALSE
    BY DEF T
  <2>1. PICK n \in T : \A m \in T : n <= m
    BY LeastNatural
  <2>2. n \in Nat /\ ~S(n)
    BY <2>1 DEF T
  <2> HIDE DEF S
  <2>3. n # 0
    BY <1>1, <2>2
  <2>4. n - 1 \in Nat /\ n - 1 \notin T
    BY <2>1, <2>2, <2>3
  <2>5. S(n - 1)
    BY <2>4 DEF T
  <2>6. S((n - 1) + 1)
    BY <1>2, <2>4, <2>5
  <2> QED
    BY <2>2, <2>6
<1>4. Split(script) = CHOOSE f : Splits(script, Len(script), f)
  BY DEF Split, Splits, Nothing
<1>5. S(Len(script))
  BY <1>3
<1> QED
  BY <1>4, <1>5

Increasing(s) == \A j, k \in DOMAIN s : j < k => s[j] < s[k]

\* s is, in order, a part of a script and holds no line twice; so are the
\* statements of stmts, one after the other.
InTurn(stmts) ==
  /\ stmts \in Seq(Seq(Nat))
  /\ \A k \in DOMAIN stmts : Increasing(stmts[k])
  /\ \A k, l \in DOMAIN stmts : k < l =>
       \A x \in DOMAIN stmts[k], y \in DOMAIN stmts[l] : stmts[k][x] < stmts[l][y]

IsSQL(script, j) == script[j] \in {"text", "end"}

In(s, j) == \E x \in DOMAIN s : s[x] = j

InSome(stmts, j) == \E k \in DOMAIN stmts : In(stmts[k], j)

\* After i lines: stmts and then buf hold the lines of SQL so far, once, in order.
SplitInv(script, i, acc) ==
  /\ acc = [stmts |-> acc.stmts, buf |-> acc.buf]
  /\ InTurn(acc.stmts)
  /\ acc.buf \in Seq(Nat) /\ Increasing(acc.buf)
  /\ \A k \in DOMAIN acc.stmts : \A x \in DOMAIN acc.stmts[k], y \in DOMAIN acc.buf :
       acc.stmts[k][x] < acc.buf[y]
  /\ \A j \in Nat : InSome(acc.stmts, j) \/ In(acc.buf, j) <=> j \in 1 .. i /\ IsSQL(script, j)

\* A line that comes after those of s is added.
LEMMA AppendLine ==
  ASSUME NEW s \in Seq(Nat), Increasing(s), NEW i \in Nat,
         \A x \in DOMAIN s : s[x] < i
  PROVE  /\ Append(s, i) \in Seq(Nat) /\ Increasing(Append(s, i))
         /\ \A j \in Nat : In(Append(s, i), j) <=> In(s, j) \/ j = i
<1>1. /\ Append(s, i) \in Seq(Nat)
      /\ DOMAIN s = 1 .. Len(s) /\ Len(s) \in Nat
      /\ DOMAIN Append(s, i) = 1 .. (Len(s) + 1)
      /\ \A x \in DOMAIN s : Append(s, i)[x] = s[x]
      /\ Append(s, i)[Len(s) + 1] = i
      /\ \A x \in DOMAIN s : s[x] \in Nat
  OBVIOUS
<1> DEFINE t == Append(s, i)
<1> HIDE DEF t
<1>2. \A x \in DOMAIN t : x \in DOMAIN s \/ x = Len(s) + 1
  BY <1>1 DEF t
<1>3. Increasing(t)
  BY <1>1, <1>2 DEF Increasing, t
<1>4. \A j \in Nat : In(t, j) <=> In(s, j) \/ j = i
  BY <1>1, <1>2 DEF In, t
<1> QED
  BY <1>1, <1>3, <1>4 DEF t

\* A statement that comes after those of stmts is added.
LEMMA AppendStatement ==
  ASSUME NEW stmts, InTurn(stmts), NEW s \in Seq(Nat), Increasing(s),
         \A k \in DOMAIN stmts : \A x \in DOMAIN stmts[k], y \in DOMAIN s : stmts[k][x] < s[y]
  PROVE  /\ InTurn(Append(stmts, s))
         /\ \A j \in Nat : InSome(Append(stmts, s), j) <=> InSome(stmts, j) \/ In(s, j)
<1>1. stmts \in Seq(Seq(Nat))
  BY DEF InTurn
<1>2. /\ Append(stmts, s) \in Seq(Seq(Nat))
      /\ DOMAIN stmts = 1 .. Len(stmts) /\ Len(stmts) \in Nat
      /\ DOMAIN Append(stmts, s) = 1 .. (Len(stmts) + 1)
      /\ \A k \in DOMAIN stmts : Append(stmts, s)[k] = stmts[k]
      /\ Append(stmts, s)[Len(stmts) + 1] = s
  BY <1>1
<1> DEFINE t == Append(stmts, s)
<1> HIDE DEF t
<1>3. \A k \in DOMAIN t : k \in DOMAIN stmts \/ k = Len(stmts) + 1
  BY <1>2 DEF t
<1>4. \A k \in DOMAIN t : Increasing(t[k])
  BY <1>2, <1>3 DEF InTurn, t
<1>5. ASSUME NEW k \in DOMAIN t, NEW l \in DOMAIN t, k < l,
             NEW x \in DOMAIN t[k], NEW y \in DOMAIN t[l]
      PROVE  t[k][x] < t[l][y]
  <2>1. k \in DOMAIN stmts /\ t[k] = stmts[k]
    BY <1>2, <1>3, <1>5 DEF t
  <2>2. CASE l \in DOMAIN stmts
    <3>1. t[l] = stmts[l]
      BY <1>2, <2>2 DEF t
    <3> QED
      BY <1>5, <2>1, <2>2, <3>1 DEF InTurn
  <2>3. CASE l = Len(stmts) + 1
    <3>1. t[l] = s
      BY <1>2, <2>3 DEF t
    <3> QED
      BY <1>5, <2>1, <3>1
  <2> QED
    BY <1>3, <2>2, <2>3
<1>6. InTurn(t)
  BY <1>2, <1>4, <1>5 DEF InTurn, t
<1>7. \A j \in Nat : InSome(t, j) <=> InSome(stmts, j) \/ In(s, j)
  <2>1. \A k \in DOMAIN stmts : k \in DOMAIN t /\ t[k] = stmts[k]
    BY <1>2 DEF t
  <2>2. Len(stmts) + 1 \in DOMAIN t /\ t[Len(stmts) + 1] = s
    BY <1>2 DEF t
  <2> QED
    BY <1>3, <2>1, <2>2, Zenon DEF InSome
<1> QED
  BY <1>6, <1>7 DEF t

LEMMA SplitStep ==
  ASSUME NEW script \in Seq(Line), NEW i \in 1 .. Len(script), NEW acc,
         SplitInv(script, i - 1, acc)
  PROVE  SplitInv(script, i, AddLine(script, acc, i))
<1> DEFINE next == AddLine(script, acc, i)
<1>1. /\ InTurn(acc.stmts) /\ acc.buf \in Seq(Nat) /\ Increasing(acc.buf)
      /\ acc = [stmts |-> acc.stmts, buf |-> acc.buf]
      /\ \A k \in DOMAIN acc.stmts : \A x \in DOMAIN acc.stmts[k], y \in DOMAIN acc.buf :
           acc.stmts[k][x] < acc.buf[y]
      /\ \A j \in Nat : InSome(acc.stmts, j) \/ In(acc.buf, j)
           <=> j \in 1 .. (i - 1) /\ IsSQL(script, j)
  BY DEF SplitInv
<1>2. i \in Nat /\ script[i] \in Line
  OBVIOUS
<1>3. /\ \A x \in DOMAIN acc.buf : acc.buf[x] \in Nat /\ acc.buf[x] < i
      /\ \A k \in DOMAIN acc.stmts : \A x \in DOMAIN acc.stmts[k] :
           acc.stmts[k][x] \in Nat /\ acc.stmts[k][x] < i
  <2>1. \A x \in DOMAIN acc.buf : acc.buf[x] \in Nat /\ In(acc.buf, acc.buf[x])
    BY <1>1 DEF In
  <2>2. \A k \in DOMAIN acc.stmts : acc.stmts[k] \in Seq(Nat)
    BY <1>1 DEF InTurn
  <2>3. \A k \in DOMAIN acc.stmts : \A x \in DOMAIN acc.stmts[k] :
          acc.stmts[k][x] \in Nat /\ InSome(acc.stmts, acc.stmts[k][x])
    BY <2>2 DEF InSome, In
  <2> QED
    BY <1>1, <1>2, <2>1, <2>3
<1>4. \A j \in Nat : j \in 1 .. i <=> j \in 1 .. (i - 1) \/ j = i
  BY <1>2
<1>5. /\ Append(acc.buf, i) \in Seq(Nat) /\ Increasing(Append(acc.buf, i))
      /\ \A j \in Nat : In(Append(acc.buf, i), j) <=> In(acc.buf, j) \/ j = i
  BY <1>1, <1>2, <1>3, AppendLine
<1>6. /\ <<>> \in Seq(Nat) /\ Increasing(<<>>)
      /\ \A j \in Nat : ~In(<<>>, j)
      /\ DOMAIN <<>> = {}
  BY DEF Increasing, In
<1>7. CASE script[i] = "blank"
  <2>1. next = acc
    BY <1>7 DEF AddLine
  <2> HIDE DEF next
  <2> QED
    BY <1>1, <1>4, <1>7, <2>1 DEF SplitInv, IsSQL, next
<1>8. \A k \in DOMAIN acc.stmts : \A x \in DOMAIN acc.stmts[k], y \in DOMAIN Append(acc.buf, i) :
        acc.stmts[k][x] < Append(acc.buf, i)[y]
  <2>1. \A y \in DOMAIN Append(acc.buf, i) :
          Append(acc.buf, i)[y] = i \/ (y \in DOMAIN acc.buf /\ Append(acc.buf, i)[y] = acc.buf[y])
    BY <1>1
  <2> QED
    BY <1>1, <1>3, <2>1
<1>9. CASE script[i] = "text"
  <2>1. next = [stmts |-> acc.stmts, buf |-> Append(acc.buf, i)]
    BY <1>1, <1>9 DEF AddLine
  <2>2. next.stmts = acc.stmts /\ next.buf = Append(acc.buf, i)
    BY <2>1
  <2> HIDE DEF next
  <2> QED
    BY <1>1, <1>2, <1>4, <1>5, <1>8, <1>9, <2>1, <2>2 DEF SplitInv, IsSQL, next
<1>10. CASE script[i] = "end"
  <2>1. next = [stmts |-> Append(acc.stmts, Append(acc.buf, i)), buf |-> <<>>]
    BY <1>10 DEF AddLine
  <2>2. next.stmts = Append(acc.stmts, Append(acc.buf, i)) /\ next.buf = <<>>
    BY <2>1
  <2> HIDE DEF next
  <2>3. /\ InTurn(next.stmts)
        /\ \A j \in Nat : InSome(next.stmts, j) <=> InSome(acc.stmts, j) \/ In(Append(acc.buf, i), j)
    <3> DEFINE b == Append(acc.buf, i)
    <3>1. /\ InTurn(acc.stmts) /\ b \in Seq(Nat) /\ Increasing(b)
          /\ next.stmts = Append(acc.stmts, b)
          /\ \A k \in DOMAIN acc.stmts : \A x \in DOMAIN acc.stmts[k], y \in DOMAIN b :
               acc.stmts[k][x] < b[y]
      BY <1>1, <1>5, <1>8, <2>2
    <3> HIDE DEF b
    <3>2. /\ InTurn(Append(acc.stmts, b))
          /\ \A j \in Nat : InSome(Append(acc.stmts, b), j) <=> InSome(acc.stmts, j) \/ In(b, j)
      BY <3>1, AppendStatement
    <3> QED
      BY <3>1, <3>2 DEF b
  <2> QED
    BY <1>1, <1>2, <1>4, <1>5, <1>6, <1>10, <2>1, <2>2, <2>3 DEF SplitInv, IsSQL, next
<1>11. CASE script[i] = "semi" /\ acc.buf = <<>>
  <2>1. next = [stmts |-> acc.stmts, buf |-> <<>>]
    BY <1>11 DEF AddLine
  <2>2. next.stmts = acc.stmts /\ next.buf = <<>>
    BY <2>1
  <2> HIDE DEF next
  <2> QED
    BY <1>1, <1>4, <1>6, <1>11, <2>1, <2>2 DEF SplitInv, IsSQL, next
<1>12. CASE script[i] = "semi" /\ acc.buf # <<>>
  <2>1. next = [stmts |-> Append(acc.stmts, acc.buf), buf |-> <<>>]
    BY <1>12 DEF AddLine
  <2>2. next.stmts = Append(acc.stmts, acc.buf) /\ next.buf = <<>>
    BY <2>1
  <2> HIDE DEF next
  <2>3. /\ InTurn(next.stmts)
        /\ \A j \in Nat : InSome(next.stmts, j) <=> InSome(acc.stmts, j) \/ In(acc.buf, j)
    BY <1>1, <2>2, AppendStatement
  <2> QED
    BY <1>1, <1>4, <1>6, <1>12, <2>1, <2>2, <2>3 DEF SplitInv, IsSQL, next
<1> QED
  BY <1>2, <1>7, <1>9, <1>10, <1>11, <1>12 DEF Line

\* What splitSQL returns: the lines of SQL of the script, none left out, none
\* twice, in the order of the file.
LEMMA SplitSQLIsWhole ==
  ASSUME NEW script \in Seq(Line)
  PROVE  /\ InTurn(splitSQL(script))
         /\ \A j \in Nat : InSome(splitSQL(script), j)
                             <=> j \in 1 .. Len(script) /\ IsSQL(script, j)
<1> DEFINE f == Split(script)
           N == Len(script)
           Bad == {i \in 0 .. N : ~SplitInv(script, i, f[i])}
<1>1. /\ f[0] = Nothing
      /\ \A i \in 1 .. N : f[i] = AddLine(script, f[i - 1], i)
  <2>1. f = [i \in 0 .. N |-> IF i = 0 THEN Nothing ELSE AddLine(script, f[i - 1], i)]
    BY SplitUnfolds DEF Splits
  <2> HIDE DEF f
  <2> QED
    BY <2>1
<1> HIDE DEF f
<1>2. SplitInv(script, 0, f[0])
  <2>1. /\ InTurn(<<>>) /\ <<>> \in Seq(Nat) /\ Increasing(<<>>)
        /\ \A j : ~InSome(<<>>, j) /\ ~In(<<>>, j)
        /\ DOMAIN <<>> = {}
    BY DEF InTurn, Increasing, InSome, In
  <2>2. f[0] = [stmts |-> <<>>, buf |-> <<>>]
    BY <1>1 DEF Nothing
  <2>3. f[0].stmts = <<>> /\ f[0].buf = <<>>
    BY <2>2
  <2> QED
    BY <2>1, <2>2, <2>3 DEF SplitInv
<1>3. Bad = {}
  <2> SUFFICES ASSUME Bad # {} PROVE FALSE
    OBVIOUS
  <2>1. Bad \subseteq Nat
    OBVIOUS
  <2>2. PICK i \in Bad : \A m \in Bad : i <= m
    BY <2>1, LeastNatural
  <2>3. i \in 1 .. N /\ i - 1 \in 0 .. N
    BY <1>2, <2>2
  <2>4. SplitInv(script, i - 1, f[i - 1])
    BY <2>2, <2>3
  <2>5. SplitInv(script, i, f[i])
    BY <1>1, <2>3, <2>4, SplitStep
  <2> QED
    BY <2>2, <2>5
<1>4. SplitInv(script, N, f[N])
  BY <1>3
<1> DEFINE end == f[N]
<1>5. splitSQL(script) = IF end.buf = <<>> THEN end.stmts ELSE Append(end.stmts, end.buf)
  BY DEF splitSQL, f
<1> HIDE DEF end
<1>6. CASE end.buf = <<>>
  <2>1. \A j : ~In(end.buf, j)
    BY <1>6 DEF In
  <2> QED
    BY <1>4, <1>5, <1>6, <2>1 DEF SplitInv, end
<1>7. CASE end.buf # <<>>
  <2>1. /\ InTurn(Append(end.stmts, end.buf))
        /\ \A j \in Nat : InSome(Append(end.stmts, end.buf), j)
                            <=> InSome(end.stmts, j) \/ In(end.buf, j)
    BY <1>4, AppendStatement DEF SplitInv, end
  <2> QED
    BY <1>4, <1>5, <1>7, <2>1 DEF SplitInv, end
<1> QED
  BY <1>6, <1>7

-----------------------------------------------------------------------------
(* The inductive invariant.                                                *)

Loaded == {"ensure", "read", "next", "tx", "open"}
HasTable == Loaded \ {"ensure"}
HasRead == {"next", "tx", "open"}

\* The versions 1 to n, for some n.
Prefix(S) == \E n \in 0 .. Len(Script) : S = 1 .. n

\* Lines of SQL: a version and the number of a line in its file.
Lines == Seq(Nat \X Nat)

Database == [table : BOOLEAN, lines : Lines, recorded : SUBSET Version]

\* The types the steps rely on.
Types ==
  /\ files \in ConfigFiles /\ env \in Environment /\ args \in [Process -> Args]
  /\ pc \in [Process -> {"down", "refused"} \cup Loaded]
  /\ cfg = [p \in Process |-> cfg[p]] /\ at = [p \in Process |-> at[p]]
  /\ applied \in [Process -> SUBSET Version]
  /\ local \in [Process -> Nat] /\ written \in [Process -> Lines]
  /\ db \in [DBPaths -> Database]
  /\ lock \in [DBPaths -> Process \cup {None}]
  /\ faults \in 0 .. MaxFaults

\* A process beyond loadConfig works with what its settings say.
Configured ==
  \A p \in Process : pc[p] \in Loaded =>
    /\ Loads(Setting(p))
    /\ cfg[p] = Load(Setting(p), env.db)
    /\ at[p] = DBPath(args[p].db, Setting(p), env.db)

Databases ==
  \A d \in DBPaths :
    /\ Prefix(db[d].recorded)
    /\ db[d].recorded # {} => db[d].table
    /\ lock[d] # None => pc[lock[d]] = "tx" /\ at[lock[d]] = d

\* What a process has read or applied is recorded, now and later.
Memory ==
  \A p \in Process :
    /\ pc[p] \in HasTable => db[at[p]].table
    /\ pc[p] \in HasRead => Prefix(applied[p]) /\ applied[p] \subseteq db[at[p]].recorded
    /\ pc[p] = "tx" => Pending(p) # {}
    /\ pc[p] = "open" => Pending(p) = {}

\* The lines of the first n statements of version v.
Executed(v, n) == {<<v, j>> : j \in {i \in Nat : \E k \in 1 .. n : In(Statements[v][k], i)}}

\* A transaction has written what it has executed, in order.
Transactions ==
  \A p \in Process :
    /\ pc[p] # "tx" => local[p] = 0 /\ written[p] = <<>>
    /\ pc[p] = "tx" => /\ local[p] <= Len(Statements[Current(p)])
                       /\ InOrder(written[p])
                       /\ Range(written[p]) = Executed(Current(p), local[p])

\* A database holds the scripts of the versions recorded on it.
Schema ==
  \A d \in DBPaths :
    \E n \in 0 .. Len(Script) :
      /\ db[d].recorded = 1 .. n
      /\ Range(db[d].lines) = SQLUpTo(n)
      /\ InOrder(db[d].lines)

MigrateInv == Types /\ Configured /\ Databases /\ Memory /\ Transactions /\ Schema

-----------------------------------------------------------------------------
(* What holds of every state.                                              *)

LEMMA Versions == Version = 1 .. Len(Script) /\ Len(Script) \in Nat
BY MigrateConstants DEF Version

\* The database a process is told to open is one of the databases there are.
LEMMA NamedIsPath ==
  ASSUME Types, NEW p \in Process, Loads(Setting(p))
  PROVE  DBPath(args[p].db, Setting(p), env.db) \in DBPaths
<1> DEFINE file == Setting(p)
           path == ConfigFilePath(args[p].config, env.config)
<1>1. /\ args[p] \in Args /\ env \in Environment /\ files \in ConfigFiles
      /\ path \in DOMAIN files /\ file = files[path]
      /\ file.kind \in {"absent", "toml"}
  BY ConfigFilesExist DEF Types, Setting, Loads
<1>2. Load(file, env.db).path = IfGiven(env.db, IfGiven(decode(file).path, DefaultDBPath))
  BY DEF Load, decode, defaults
<1>3. decode(file).path = (IF file.kind = "absent" THEN Unset ELSE file.path)
  BY DEF decode, defaults
<1>4. file.kind = "toml" =>
        file.path \in {files[x].path : x \in {y \in DOMAIN files : files[y].kind = "toml"}}
  BY <1>1
<1> HIDE DEF file, path
<1>5. CASE args[p].db # Unset
  BY <1>1, <1>5 DEF DBPath, IfGiven, DBPaths, file
<1>6. CASE args[p].db = Unset /\ env.db # Unset
  BY <1>1, <1>2, <1>6 DEF DBPath, IfGiven, DBPaths, file
<1>7. CASE args[p].db = Unset /\ env.db = Unset /\ decode(file).path # Unset
  <2>1. DBPath(args[p].db, Setting(p), env.db) = file.path /\ file.kind = "toml" /\ file.path # Unset
    BY <1>1, <1>2, <1>3, <1>7 DEF DBPath, IfGiven, file
  <2> QED
    BY <1>1, <1>4, <2>1 DEF DBPaths
<1>8. CASE args[p].db = Unset /\ env.db = Unset /\ decode(file).path = Unset
  BY <1>2, <1>8, ConfigDefaults DEF DBPath, IfGiven, DBPaths, file
<1> QED
  BY <1>5, <1>6, <1>7, <1>8

LEMMA OpenedPath ==
  ASSUME Types, Configured, NEW p \in Process, pc[p] \in Loaded
  PROVE  at[p] \in DBPaths
BY NamedIsPath DEF Configured

\* A process that has begun a migration has come to the version after those
\* it has applied.
LEMMA CurrentIsNext ==
  ASSUME MigrateInv, NEW p \in Process, pc[p] = "tx"
  PROVE  \E n \in 0 .. (Len(Script) - 1) :
           applied[p] = 1 .. n /\ Current(p) = n + 1 /\ n < Binary[p]
<1>1. PICK n \in 0 .. Len(Script) : applied[p] = 1 .. n
  BY DEF MigrateInv, Memory, HasRead, Prefix
<1>2. Binary[p] \in 1 .. Len(Script) /\ Len(Script) \in Nat
  BY Versions, MigrateConstants
<1>3. Pending(p) = (n + 1) .. Binary[p]
  BY <1>1, <1>2, Versions DEF Pending
<1>4. n < Binary[p]
  <2>1. Pending(p) # {}
    BY DEF MigrateInv, Memory
  <2> QED
    BY <1>2, <1>3, <2>1
<1>5. n + 1 \in Pending(p) /\ \A u \in Pending(p) : n + 1 <= u
  BY <1>2, <1>3, <1>4
<1>6. ASSUME NEW v \in Pending(p), \A u \in Pending(p) : v <= u PROVE v = n + 1
  BY <1>2, <1>3, <1>5, <1>6
<1>7. Current(p) = n + 1
  BY <1>5, <1>6 DEF Current
<1> QED
  BY <1>1, <1>2, <1>4, <1>7

\* The statements of a version, as splitSQL returns them.
LEMMA StatementsOfVersion ==
  ASSUME NEW v \in Version
  PROVE  /\ InTurn(Statements[v])
         /\ \A j \in Nat : InSome(Statements[v], j)
                             <=> j \in DOMAIN Script[v] /\ Script[v][j] \in {"text", "end"}
<1>1. Script[v] \in Seq(Line)
  BY MigrateConstants DEF Version, Line
<1>2. Statements[v] = splitSQL(Script[v]) /\ DOMAIN Script[v] = 1 .. Len(Script[v])
  BY <1>1 DEF Statements
<1> QED
  BY <1>1, <1>2, SplitSQLIsWhole DEF IsSQL

\* Lines of SQL followed by later ones.
LEMMA ConcatInOrder ==
  ASSUME NEW s \in Lines, NEW t \in Lines, InOrder(s), InOrder(t),
         \A x \in Range(s), y \in Range(t) : Earlier(x, y)
  PROVE  /\ s \o t \in Lines /\ InOrder(s \o t)
         /\ Range(s \o t) = Range(s) \cup Range(t)
<1> DEFINE st == s \o t
<1>1. /\ st \in Lines
      /\ Len(s) \in Nat /\ Len(t) \in Nat
      /\ DOMAIN s = 1 .. Len(s) /\ DOMAIN t = 1 .. Len(t)
      /\ DOMAIN st = 1 .. (Len(s) + Len(t))
      /\ \A j \in DOMAIN s : st[j] = s[j]
      /\ \A j \in DOMAIN t : st[j + Len(s)] = t[j]
  <2> DEFINE X == Nat \X Nat
  <2>1. s \in Seq(X) /\ t \in Seq(X)
    BY DEF Lines
  <2> HIDE DEF X
  <2>2. /\ st \in Seq(X) /\ Len(st) = Len(s) + Len(t)
        /\ Len(s) \in Nat /\ Len(t) \in Nat
        /\ DOMAIN s = 1 .. Len(s) /\ DOMAIN t = 1 .. Len(t) /\ DOMAIN st = 1 .. Len(st)
    BY <2>1
  <2>3. \A j \in DOMAIN s : st[j] = s[j]
    BY <2>1, <2>2
  <2>4. \A j \in DOMAIN t : st[j + Len(s)] = t[j]
    BY <2>1, <2>2
  <2> QED
    BY <2>2, <2>3, <2>4 DEF Lines, X
<1> HIDE DEF st
<1>2. \A j \in DOMAIN st : \/ j \in DOMAIN s /\ st[j] = s[j]
                           \/ j - Len(s) \in DOMAIN t /\ st[j] = t[j - Len(s)]
  BY <1>1
<1>3. InOrder(st)
  <2> SUFFICES ASSUME NEW j \in DOMAIN st, NEW k \in DOMAIN st, j < k
               PROVE  Earlier(st[j], st[k])
    BY DEF InOrder
  <2>1. CASE k \in DOMAIN s
    <3>1. j \in DOMAIN s
      BY <1>1, <2>1
    <3> QED
      BY <1>1, <2>1, <3>1 DEF InOrder
  <2>2. CASE j \in DOMAIN s /\ k \notin DOMAIN s
    <3>1. st[j] \in Range(s) /\ st[k] \in Range(t)
      BY <1>1, <1>2, <2>2 DEF Range
    <3> QED
      BY <3>1
  <2>3. CASE j \notin DOMAIN s
    <3>1. /\ j - Len(s) \in DOMAIN t /\ k - Len(s) \in DOMAIN t /\ j - Len(s) < k - Len(s)
          /\ st[j] = t[j - Len(s)] /\ st[k] = t[k - Len(s)]
      BY <1>1, <1>2, <2>3
    <3> QED
      BY <3>1 DEF InOrder
  <2> QED
    BY <2>1, <2>2, <2>3
<1>4. Range(st) = Range(s) \cup Range(t)
  <2>1. Range(st) \subseteq Range(s) \cup Range(t)
    BY <1>2 DEF Range
  <2>2. \A j \in DOMAIN t : j + Len(s) \in DOMAIN st
    BY <1>1
  <2>3. Range(s) \subseteq Range(st) /\ Range(t) \subseteq Range(st)
    BY <1>1, <2>2 DEF Range
  <2> QED
    BY <2>1, <2>3
<1> QED
  BY <1>1, <1>3, <1>4 DEF st

\* The lines of the next statement come after all that was executed.
LEMMA NextLines ==
  ASSUME MigrateInv, NEW p \in Process, pc[p] = "tx", ~AllExecuted(p)
  PROVE  /\ written[p] \o NextStatement(p) \in Lines
         /\ InOrder(written[p] \o NextStatement(p))
         /\ Range(written[p] \o NextStatement(p)) = Executed(Current(p), local[p] + 1)
         /\ local[p] + 1 <= Len(Statements[Current(p)])
<1> DEFINE v == Current(p)
           stmts == Statements[v]
           n == local[p]
           stmt == stmts[n + 1]
           next == NextStatement(p)
<1>1. v \in Version /\ v \in Nat
  BY CurrentIsNext, Versions
<1>2. InTurn(stmts)
  BY <1>1, StatementsOfVersion
<1>3. n \in Nat /\ n <= Len(stmts) /\ n # Len(stmts)
  BY DEF MigrateInv, Transactions, Types, AllExecuted
<1>4. /\ n + 1 \in DOMAIN stmts /\ n + 1 <= Len(stmts)
      /\ \A k \in 1 .. n : k \in DOMAIN stmts /\ k < n + 1
      /\ stmt \in Seq(Nat) /\ Increasing(stmt)
  BY <1>2, <1>3 DEF InTurn
<1>5. /\ next \in Lines
      /\ DOMAIN next = DOMAIN stmt
      /\ \A j \in DOMAIN stmt : stmt[j] \in Nat /\ next[j] = <<v, stmt[j]>>
  <2>1. next = [j \in DOMAIN stmt |-> <<v, stmt[j]>>]
    BY DEF NextStatement, LinesOf
  <2>2. Len(stmt) \in Nat /\ DOMAIN stmt = 1 .. Len(stmt) /\ \A j \in DOMAIN stmt : stmt[j] \in Nat
    BY <1>4
  <2> HIDE DEF next, stmt, v
  <2>3. next \in [1 .. Len(stmt) -> Nat \X Nat]
    BY <1>1, <2>1, <2>2
  <2> QED
    BY <2>1, <2>2, <2>3 DEF Lines
<1>6. written[p] \in Lines /\ InOrder(written[p]) /\ Range(written[p]) = Executed(v, n)
  BY DEF MigrateInv, Transactions, Types
<1>7. InOrder(next)
  <2> HIDE DEF next, stmt, v
  <2>1. ASSUME NEW j \in DOMAIN stmt, NEW k \in DOMAIN stmt, j < k
        PROVE  Earlier(next[j], next[k])
    BY <1>4, <1>5, <2>1 DEF Increasing, Earlier
  <2> QED
    BY <1>5, <2>1 DEF InOrder
<1>8. Range(next) = {<<v, j>> : j \in {i \in Nat : In(stmt, i)}}
  <2> HIDE DEF next, stmt, v
  <2>1. \A y \in Range(next) : \E j \in Nat : In(stmt, j) /\ y = <<v, j>>
    BY <1>5 DEF Range, In
  <2>2. \A j \in Nat : In(stmt, j) => <<v, j>> \in Range(next)
    BY <1>5 DEF Range, In
  <2> QED
    BY <2>1, <2>2
<1>9. \A x \in Range(written[p]), y \in Range(next) : Earlier(x, y)
  <2> SUFFICES ASSUME NEW i \in Nat, NEW j \in Nat, NEW k \in 1 .. n,
                      In(stmts[k], i), In(stmt, j)
               PROVE  Earlier(<<v, i>>, <<v, j>>)
    BY <1>6, <1>8 DEF Executed
  <2>1. i < j
    BY <1>2, <1>4 DEF InTurn, In
  <2> QED
    BY <2>1 DEF Earlier
<1>10. Executed(v, n + 1) = Executed(v, n) \cup Range(next)
  <2>1. \A k \in 1 .. (n + 1) : k \in 1 .. n \/ k = n + 1
    BY <1>3
  <2>2. \A k \in 1 .. n : k \in 1 .. (n + 1)
    BY <1>3
  <2>3. n + 1 \in 1 .. (n + 1)
    BY <1>3
  <2>4. \A i \in Nat : (\E k \in 1 .. (n + 1) : In(stmts[k], i))
                         <=> (\E k \in 1 .. n : In(stmts[k], i)) \/ In(stmt, i)
    BY <2>1, <2>2, <2>3
  <2> QED
    BY <1>8, <2>4 DEF Executed
<1> HIDE DEF next, v, n
<1>11. /\ written[p] \o next \in Lines /\ InOrder(written[p] \o next)
       /\ Range(written[p] \o next) = Range(written[p]) \cup Range(next)
  BY <1>5, <1>6, <1>7, <1>9, ConcatInOrder
<1> QED
  BY <1>4, <1>6, <1>10, <1>11 DEF next, v, n

\* At the end of the script all its lines of SQL have been executed.
LEMMA WholeScript ==
  ASSUME MigrateInv, NEW p \in Process, pc[p] = "tx", AllExecuted(p)
  PROVE  Range(written[p]) = SQLOf(Current(p))
<1> DEFINE v == Current(p)
<1>1. v \in Version
  BY CurrentIsNext, Versions
<1>2. /\ Statements[v] \in Seq(Seq(Nat))
      /\ \A j \in Nat : InSome(Statements[v], j)
                          <=> j \in DOMAIN Script[v] /\ Script[v][j] \in {"text", "end"}
  BY <1>1, StatementsOfVersion DEF InTurn
<1>3. Range(written[p]) = Executed(v, Len(Statements[v]))
  BY DEF MigrateInv, Transactions, AllExecuted
<1>4. DOMAIN Statements[v] = 1 .. Len(Statements[v])
  BY <1>2
<1>5. DOMAIN Script[v] \subseteq Nat
  BY <1>1, MigrateConstants DEF Version
<1> HIDE DEF v
<1>6. Executed(v, Len(Statements[v])) = SQLOf(v)
  BY <1>2, <1>4, <1>5 DEF Executed, SQLOf, InSome
<1> QED
  BY <1>3, <1>6 DEF v

LEMMA InitHolds == Init => MigrateInv
<1> SUFFICES ASSUME Init PROVE MigrateInv
  OBVIOUS
<1>1. Types
  <2>1. <<>> \in Lines
    BY DEF Lines
  <2>2. db \in [DBPaths -> Database]
    BY <2>1 DEF Init, Database, EmptyDB
  <2> QED
    BY <2>1, <2>2, MigrateConstants DEF Init, Types
<1>2. Configured /\ Memory
  BY DEF Init, Configured, Memory, Loaded, HasTable, HasRead
<1>3. Prefix({})
  BY Versions DEF Prefix
<1>4. Databases
  BY <1>3 DEF Init, Databases, EmptyDB
<1>5. Transactions
  BY DEF Init, Transactions
<1>6. Schema
  <2>1. 1 .. 0 = {} /\ 0 \in 0 .. Len(Script)
    BY Versions
  <2>2. SQLUpTo(0) = {} /\ Range(<<>>) = {} /\ InOrder(<<>>)
    BY <2>1 DEF SQLUpTo, Range, InOrder
  <2>3. ASSUME NEW d \in DBPaths
        PROVE  db[d].recorded = 1 .. 0 /\ Range(db[d].lines) = SQLUpTo(0) /\ InOrder(db[d].lines)
    BY <2>1, <2>2 DEF Init, EmptyDB
  <2> QED
    BY <2>1, <2>3 DEF Schema
<1> QED
  BY <1>1, <1>2, <1>4, <1>5, <1>6 DEF MigrateInv

\* A step of p leaves what the other processes remember alone.
LEMMA OthersKeep ==
  ASSUME MigrateInv, NEW p \in Process, Progress(p) \/ Fault(p) \/ Close(p)
  PROVE  /\ UNCHANGED settings
         /\ \A q \in Process \ {p} :
              /\ pc'[q] = pc[q] /\ cfg'[q] = cfg[q] /\ at'[q] = at[q]
              /\ applied'[q] = applied[q] /\ local'[q] = local[q] /\ written'[q] = written[q]
<1> USE DEF MigrateInv, Types
<1>1. CASE LoadConfigFails(p) \/ LoadConfig(p) \/ EnsureTable(p)
  BY <1>1 DEF LoadConfigFails, LoadConfig, EnsureTable
<1>2. CASE ReadApplied(p) \/ BeginMigration(p) \/ Opened(p)
  BY <1>2 DEF ReadApplied, BeginMigration, Opened
<1>3. CASE Exec(p) \/ Record(p)
  BY <1>3 DEF Exec, Record
<1>4. CASE FailOnOther(p) \/ Fault(p) \/ Close(p)
  BY <1>4 DEF FailOnOther, Fault, Close, Exit
<1> QED
  BY <1>1, <1>2, <1>3, <1>4 DEF Progress

\* Databases only gain: the table, and the version p has come to with what its
\* transaction has written, as p has seen no conflict.
Gains(p) ==
  \A d \in DBPaths :
    \/ db'[d] = db[d]
    \/ /\ db'[d].table /\ db'[d].recorded = db[d].recorded /\ db'[d].lines = db[d].lines
    \/ /\ Record(p) /\ pc[p] = "tx" /\ at[p] = d
       /\ db'[d].table = db[d].table
       /\ db'[d].lines = db[d].lines \o written[p]
       /\ Current(p) \notin db[d].recorded
       /\ db'[d].recorded = db[d].recorded \cup {Current(p)}

LEMMA StepGains ==
  ASSUME MigrateInv, NEW p \in Process, Progress(p) \/ Fault(p) \/ Close(p)
  PROVE  Gains(p) /\ db' \in [DBPaths -> Database]
<1>1. db \in [DBPaths -> Database]
  BY DEF MigrateInv, Types
<1>2. CASE db' = db
  BY <1>1, <1>2 DEF Gains
<1>3. CASE EnsureTable(p)
  <2>1. db' = [db EXCEPT ![at[p]].table = TRUE]
    BY <1>3 DEF EnsureTable
  <2>2. db' \in [DBPaths -> Database]
    BY <1>1, <2>1 DEF Database
  <2> QED
    BY <1>1, <2>1, <2>2 DEF Gains, Database
<1>4. CASE Record(p)
  <2> DEFINE lines == db[at[p]].lines \o written[p]
             now == [db[at[p]] EXCEPT !.lines = lines,
                                      !.recorded = db[at[p]].recorded \cup {Current(p)}]
  <2>1. db' = [db EXCEPT ![at[p]] = now]
    BY <1>4, Zenon DEF Record
  <2>2. pc[p] = "tx" /\ Current(p) \notin db[at[p]].recorded
    BY <1>4 DEF Record, Conflicts
  <2>3. Current(p) \in Version /\ at[p] \in DBPaths
    BY <2>2, CurrentIsNext, OpenedPath, Versions DEF MigrateInv, Loaded
  <2>4. lines \in Lines
    BY <1>1, <2>3 DEF MigrateInv, Types, Database, Lines
  <2>5. db[at[p]] \in Database
    BY <1>1, <2>3
  <2> HIDE DEF lines
  <2>6. /\ now \in Database
        /\ now.table = db[at[p]].table /\ now.lines = lines
        /\ now.recorded = db[at[p]].recorded \cup {Current(p)}
    BY <2>3, <2>4, <2>5 DEF Database
  <2> HIDE DEF now
  <2>7. db' \in [DBPaths -> Database]
    BY <1>1, <2>1, <2>6
  <2>8. db'[at[p]] = now /\ \A d \in DBPaths : d # at[p] => db'[d] = db[d]
    BY <1>1, <2>1, <2>3
  <2>9. Gains(p)
    <3> SUFFICES ASSUME NEW d \in DBPaths, d = at[p]
                 PROVE  /\ Record(p) /\ pc[p] = "tx"
                        /\ db'[d].table = db[d].table
                        /\ db'[d].lines = db[d].lines \o written[p]
                        /\ Current(p) \notin db[d].recorded
                        /\ db'[d].recorded = db[d].recorded \cup {Current(p)}
      BY <2>8 DEF Gains
    <3> QED
      BY <1>4, <2>2, <2>6, <2>8 DEF lines
  <2> QED
    BY <2>7, <2>9
<1> QED
  BY <1>2, <1>3, <1>4
     DEF Progress, LoadConfigFails, LoadConfig, ReadApplied, BeginMigration, Exec, Opened,
         FailOnOther, Fault, Close, Exit

LEMMA StepTypes ==
  ASSUME MigrateInv, NEW p \in Process, Progress(p) \/ Fault(p) \/ Close(p)
  PROVE  Types'
<1> USE DEF MigrateInv, Types
<1>1. UNCHANGED settings /\ db' \in [DBPaths -> Database]
  BY OthersKeep, StepGains
<1>2. CASE LoadConfigFails(p) \/ LoadConfig(p) \/ EnsureTable(p)
  BY <1>1, <1>2 DEF LoadConfigFails, LoadConfig, EnsureTable, settings, Loaded
<1>3. CASE ReadApplied(p)
  <2>1. db[at[p]].recorded \in SUBSET Version
    BY <1>3, OpenedPath DEF ReadApplied, Database, Loaded
  <2> QED
    BY <1>1, <1>3, <2>1 DEF ReadApplied, settings, Loaded
<1>4. CASE BeginMigration(p) \/ Opened(p)
  BY <1>1, <1>4 DEF BeginMigration, Opened, settings, Loaded
<1>5. CASE Exec(p)
  <2>1. written[p] \o NextStatement(p) \in Lines
    BY <1>5, NextLines DEF Exec
  <2>2. written' \in [Process -> Lines]
    BY <1>5, <2>1 DEF Exec
  <2>3. local' \in [Process -> Nat]
    <3>1. local' = [local EXCEPT ![p] = local[p] + 1] /\ local[p] + 1 \in Nat
      BY <1>5 DEF Exec
    <3> QED
      BY <3>1
  <2>4. lock' \in [DBPaths -> Process \cup {None}]
    BY <1>5 DEF Exec
  <2> QED
    BY <1>1, <1>5, <2>2, <2>3, <2>4 DEF Exec, settings, Loaded
<1> DEFINE NothingWritten == <<>> \in Lines
<1>6. NothingWritten
  BY DEF Lines
<1>7. CASE Record(p)
  <2>1. Current(p) \in Version
    BY <1>7, CurrentIsNext, Versions DEF Record
  <2> QED
    BY <1>1, <1>6, <1>7, <2>1 DEF Record, settings, Loaded
<1>8. CASE Exit(p) /\ faults' \in 0 .. MaxFaults
  BY <1>1, <1>6, <1>8 DEF Exit, settings
<1>9. CASE FailOnOther(p) \/ Fault(p) \/ Close(p)
  BY <1>8, <1>9, MigrateConstants DEF FailOnOther, Fault, Close
<1> QED
  BY <1>2, <1>3, <1>4, <1>5, <1>7, <1>9 DEF Progress

LEMMA StepConfigured ==
  ASSUME MigrateInv, NEW p \in Process, Progress(p) \/ Fault(p) \/ Close(p)
  PROVE  Configured'
<1> SUFFICES ASSUME NEW q \in Process, pc'[q] \in Loaded
             PROVE  /\ Loads(Setting(q))'
                    /\ cfg'[q] = Load(Setting(q), env.db)'
                    /\ at'[q] = DBPath(args[q].db, Setting(q), env.db)'
  BY DEF Configured
<1> USE DEF MigrateInv, Types
<1>1. /\ files' = files /\ env' = env /\ args' = args
      /\ q # p => pc'[q] = pc[q] /\ cfg'[q] = cfg[q] /\ at'[q] = at[q]
  BY OthersKeep DEF settings
<1>2. CASE pc[q] \in Loaded /\ cfg'[q] = cfg[q] /\ at'[q] = at[q]
  BY <1>1, <1>2 DEF Configured, Setting
<1>3. CASE LoadConfig(p) /\ q = p
  BY <1>1, <1>3 DEF LoadConfig, Setting
<1>4. CASE q = p /\ ~LoadConfig(p)
  BY <1>2, <1>4
     DEF Progress, LoadConfigFails, EnsureTable, ReadApplied, BeginMigration, Exec, Record,
         Opened, FailOnOther, Fault, Close, Exit, Starting, Loaded
<1> QED
  BY <1>1, <1>2, <1>3, <1>4

LEMMA PrefixGrows ==
  ASSUME NEW n \in 0 .. (Len(Script) - 1), NEW m \in 0 .. Len(Script), n <= m,
         n + 1 \notin 1 .. m
  PROVE  (1 .. m) \cup {n + 1} = 1 .. (m + 1) /\ m + 1 \in 0 .. Len(Script)
BY Versions

LEMMA StepDatabases ==
  ASSUME MigrateInv, NEW p \in Process, Progress(p) \/ Fault(p) \/ Close(p)
  PROVE  Databases'
<1> SUFFICES ASSUME NEW d \in DBPaths
             PROVE  /\ Prefix(db'[d].recorded)
                    /\ db'[d].recorded # {} => db'[d].table
                    /\ lock'[d] # None => pc'[lock'[d]] = "tx" /\ at'[lock'[d]] = d
  BY DEF Databases, Prefix
<1> USE DEF MigrateInv
<1>1. Prefix(db'[d].recorded) /\ (db'[d].recorded # {} => db'[d].table)
  <2>1. CASE db'[d] = db[d] \/ (db'[d].table /\ db'[d].recorded = db[d].recorded)
    BY <2>1 DEF Databases
  <2>2. CASE /\ pc[p] = "tx" /\ at[p] = d
             /\ db'[d].table = db[d].table
             /\ Current(p) \notin db[d].recorded
             /\ db'[d].recorded = db[d].recorded \cup {Current(p)}
    <3>1. PICK n \in 0 .. (Len(Script) - 1) : applied[p] = 1 .. n /\ Current(p) = n + 1
      BY <2>2, CurrentIsNext
    <3>2. PICK m \in 0 .. Len(Script) : db[d].recorded = 1 .. m
      BY DEF Databases, Prefix
    <3>3. n <= m
      <4>1. 1 .. n \subseteq 1 .. m
        BY <2>2, <3>1, <3>2 DEF Memory, HasRead
      <4>2. n = 0 \/ n \in 1 .. n
        BY Versions
      <4> QED
        BY <4>1, <4>2, Versions
    <3>4. db'[d].recorded = 1 .. (m + 1) /\ m + 1 \in 0 .. Len(Script)
      BY <2>2, <3>1, <3>2, <3>3, PrefixGrows
    <3>5. db[d].table
      BY <2>2 DEF Memory, HasTable, Loaded
    <3> QED
      BY <2>2, <3>4, <3>5 DEF Prefix
  <2> QED
    BY <2>1, <2>2, StepGains DEF Gains
<1>2. lock'[d] # None => pc'[lock'[d]] = "tx" /\ at'[lock'[d]] = d
  <2> USE DEF Types
  <2>1. lock[d] # None => lock[d] \in Process /\ pc[lock[d]] = "tx" /\ at[lock[d]] = d
    BY DEF Databases
  <2>2. \A q \in Process \ {p} : pc'[q] = pc[q] /\ at'[q] = at[q]
    BY OthersKeep
  <2>3. CASE lock' = lock /\ pc[p] # "tx"
    BY <2>1, <2>2, <2>3
  <2>4. CASE Exec(p)
    BY <2>1, <2>2, <2>4, MigrateConstants DEF Exec
  <2>5. CASE Record(p)
    BY <2>1, <2>2, <2>5, MigrateConstants DEF Record
  <2>6. CASE Exit(p)
    BY <2>1, <2>2, <2>6 DEF Exit
  <2> QED
    BY <2>3, <2>4, <2>5, <2>6
       DEF Progress, LoadConfigFails, LoadConfig, EnsureTable, ReadApplied, BeginMigration,
           Opened, FailOnOther, Fault, Close
<1> QED
  BY <1>1, <1>2

LEMMA StepMemory ==
  ASSUME MigrateInv, NEW p \in Process, Progress(p) \/ Fault(p) \/ Close(p)
  PROVE  Memory'
<1> SUFFICES ASSUME NEW q \in Process
             PROVE  /\ pc'[q] \in HasTable => db'[at'[q]].table
                    /\ pc'[q] \in HasRead =>
                         Prefix(applied'[q]) /\ applied'[q] \subseteq db'[at'[q]].recorded
                    /\ pc'[q] = "tx" => Pending(q)' # {}
                    /\ pc'[q] = "open" => Pending(q)' = {}
  BY DEF Memory, Prefix
<1> USE DEF MigrateInv
<1>1. \A d \in DBPaths : /\ db[d].table => db'[d].table
                         /\ db[d].recorded \subseteq db'[d].recorded
  <2>1. Gains(p)
    BY StepGains
  <2> QED
    BY <2>1 DEF Gains
<1>2. CASE pc'[q] = pc[q] /\ at'[q] = at[q] /\ applied'[q] = applied[q]
  BY <1>1, <1>2, OpenedPath DEF Memory, HasTable, HasRead, Loaded, Pending
<1>3. CASE q # p
  BY <1>2, <1>3, OthersKeep
<1>4. CASE q = p /\ pc'[p] \in {"down", "refused", "ensure"}
  BY <1>4 DEF HasTable, HasRead, Loaded
<1>5. CASE q = p /\ EnsureTable(p)
  <2>1. at[p] \in DBPaths /\ pc'[p] = "read" /\ at' = at
    BY <1>5, OpenedPath DEF EnsureTable, Loaded, Types
  <2>2. db'[at[p]].table
    BY <1>5, <2>1 DEF EnsureTable, Types, Database
  <2> QED
    BY <1>5, <2>1, <2>2 DEF HasRead
<1>6. CASE q = p /\ ReadApplied(p)
  <2>1. /\ at[p] \in DBPaths /\ pc'[p] = "next" /\ at' = at /\ db' = db
        /\ applied'[p] = db[at[p]].recorded /\ pc[p] = "read"
    BY <1>6, OpenedPath DEF ReadApplied, Loaded, Types
  <2> QED
    BY <1>6, <2>1 DEF HasTable, HasRead, Loaded, Memory, Databases
<1>7. CASE q = p /\ (BeginMigration(p) \/ Opened(p))
  <2>1. /\ pc[p] = "next" /\ at' = at /\ db' = db /\ applied' = applied
        /\ pc'[p] = "tx" => Pending(p) # {}
        /\ pc'[p] = "open" => Pending(p) = {}
        /\ pc'[p] \in {"tx", "open"}
    BY <1>7 DEF BeginMigration, Opened, Types
  <2> QED
    BY <1>7, <2>1 DEF HasTable, HasRead, Loaded, Memory, Pending
<1>8. CASE q = p /\ Exec(p)
  BY <1>2, <1>8 DEF Exec
<1>9. CASE q = p /\ Record(p)
  <2>1. /\ pc[p] = "tx" /\ pc'[p] = "next" /\ at' = at /\ at[p] \in DBPaths
        /\ applied'[p] = applied[p] \cup {Current(p)}
    BY <1>9, OpenedPath DEF Record, Loaded, Types
  <2>2. db'[at[p]].recorded = db[at[p]].recorded \cup {Current(p)}
    <3>1. db' = [db EXCEPT ![at[p]].lines = db[at[p]].lines \o written[p],
                           ![at[p]].recorded = db[at[p]].recorded \cup {Current(p)}]
      BY <1>9, Zenon DEF Record
    <3> QED
      BY <2>1, <3>1 DEF Types, Database
  <2>3. PICK n \in 0 .. (Len(Script) - 1) : applied[p] = 1 .. n /\ Current(p) = n + 1
    BY <2>1, CurrentIsNext
  <2>4. Prefix(applied'[p])
    BY <2>1, <2>3, PrefixGrows DEF Prefix
  <2>5. applied[p] \subseteq db[at[p]].recorded /\ db[at[p]].table
    BY <2>1 DEF Memory, HasRead, HasTable, Loaded
  <2> QED
    BY <1>1, <1>9, <2>1, <2>2, <2>4, <2>5
<1>10. CASE Exit(p) \/ LoadConfigFails(p) \/ LoadConfig(p)
  BY <1>3, <1>4, <1>10 DEF Exit, LoadConfigFails, LoadConfig, Types
<1> QED
  BY <1>3, <1>5, <1>6, <1>7, <1>8, <1>9, <1>10 DEF Progress, FailOnOther, Fault, Close

\* A process keeps its transaction, or another step of it ends or extends it.
LEMMA StepTransactions ==
  ASSUME MigrateInv, NEW p \in Process, Progress(p) \/ Fault(p) \/ Close(p)
  PROVE  Transactions'
<1> DEFINE Transaction(q) ==
             /\ pc[q] # "tx" => local[q] = 0 /\ written[q] = <<>>
             /\ pc[q] = "tx" => /\ local[q] <= Len(Statements[Current(q)])
                                /\ InOrder(written[q])
                                /\ Range(written[q]) = Executed(Current(q), local[q])
<1> SUFFICES ASSUME NEW q \in Process PROVE Transaction(q)'
  BY DEF Transactions
<1> USE DEF MigrateInv, Types
<1>1. applied'[q] = applied[q] => Current(q)' = Current(q)
  BY DEF Current, Pending
<1>2. Transaction(q)
  BY DEF Transactions
<1>3. CASE pc'[q] = pc[q] /\ applied'[q] = applied[q] /\ local'[q] = local[q] /\ written'[q] = written[q]
  <2>1. Executed(Current(q), local[q])' = Executed(Current(q), local[q])
    BY <1>1, <1>3 DEF Executed
  <2>2. InOrder(written[q])' = InOrder(written[q]) /\ Range(written[q])' = Range(written[q])
    BY <1>3 DEF InOrder, Range
  <2> QED
    BY <1>1, <1>2, <1>3, <2>1, <2>2
<1>4. CASE q # p
  BY <1>3, <1>4, OthersKeep
<1>5. CASE /\ pc[q] # "tx" /\ pc'[q] # "tx"
           /\ local'[q] = local[q] /\ written'[q] = written[q]
  BY <1>2, <1>5
<1>6. CASE pc'[q] # "tx" /\ local'[q] = 0 /\ written'[q] = <<>>
  BY <1>6
<1>7. CASE q = p /\ BeginMigration(p)
  <2>1. /\ pc[p] = "next" /\ pc'[p] = "tx" /\ local'[p] = 0 /\ written'[p] = <<>>
        /\ applied'[p] = applied[p] /\ Pending(p) # {}
    BY <1>2, <1>7 DEF BeginMigration
  <2>3. Current(p) \in Version
    <3>1. Prefix(applied[p])
      BY <2>1 DEF Memory, HasRead
    <3>2. PICK v \in Pending(p) : \A u \in Pending(p) : v <= u
      <4>1. Pending(p) \subseteq Nat
        BY Versions DEF Pending
      <4> QED
        BY <2>1, <4>1, LeastNatural
    <3>3. Current(p) \in Pending(p)
      BY <3>2 DEF Current
    <3> QED
      BY <3>3 DEF Pending
  <2>4. InTurn(Statements[Current(p)])
    BY <2>3, StatementsOfVersion
  <2>5. 0 <= Len(Statements[Current(p)])
    BY <2>4 DEF InTurn
  <2>6. Executed(Current(p), 0) = {} /\ Range(<<>>) = {} /\ InOrder(<<>>)
    BY DEF Executed, Range, InOrder
  <2> QED
    BY <1>1, <1>7, <2>1, <2>5, <2>6
<1>8. CASE q = p /\ Exec(p)
  <2>1. /\ pc[p] = "tx" /\ ~AllExecuted(p) /\ pc'[p] = "tx" /\ applied'[p] = applied[p]
        /\ local'[p] = local[p] + 1 /\ written'[p] = written[p] \o NextStatement(p)
    BY <1>8 DEF Exec
  <2> QED
    BY <1>1, <1>8, <2>1, NextLines
<1>9. CASE q = p /\ Record(p)
  BY <1>6, <1>9 DEF Record
<1>10. CASE q = p /\ (FailOnOther(p) \/ Fault(p) \/ Close(p))
  BY <1>6, <1>10 DEF FailOnOther, Fault, Close, Exit
<1>11. CASE q = p /\ (LoadConfigFails(p) \/ LoadConfig(p) \/ EnsureTable(p) \/ ReadApplied(p) \/ Opened(p))
  BY <1>5, <1>11 DEF LoadConfigFails, LoadConfig, EnsureTable, ReadApplied, Opened
<1> QED
  BY <1>4, <1>7, <1>8, <1>9, <1>10, <1>11 DEF Progress

\* Committing a version adds its whole script to those of the versions before.
LEMMA StepSchema ==
  ASSUME MigrateInv, NEW p \in Process, Progress(p) \/ Fault(p) \/ Close(p)
  PROVE  Schema'
<1> SUFFICES ASSUME NEW d \in DBPaths
             PROVE  \E n \in 0 .. Len(Script) :
                      /\ db'[d].recorded = 1 .. n
                      /\ Range(db'[d].lines) = SQLUpTo(n)
                      /\ InOrder(db'[d].lines)
  BY DEF Schema
<1> USE DEF MigrateInv
<1>1. PICK m \in 0 .. Len(Script) :
        db[d].recorded = 1 .. m /\ Range(db[d].lines) = SQLUpTo(m) /\ InOrder(db[d].lines)
  BY DEF Schema
<1>2. CASE db'[d].recorded = db[d].recorded /\ db'[d].lines = db[d].lines
  BY <1>1, <1>2
<1>3. CASE /\ Record(p) /\ pc[p] = "tx" /\ at[p] = d
           /\ db'[d].lines = db[d].lines \o written[p]
           /\ Current(p) \notin db[d].recorded
           /\ db'[d].recorded = db[d].recorded \cup {Current(p)}
  <2>1. PICK n \in 0 .. (Len(Script) - 1) : applied[p] = 1 .. n /\ Current(p) = n + 1
    BY <1>3, CurrentIsNext
  <2>2. applied[p] \subseteq 1 .. m
    BY <1>1, <1>3 DEF Memory, HasRead
  <2>3. n <= m /\ n + 1 \notin 1 .. m
    <3>1. n = 0 \/ n \in 1 .. n
      BY Versions
    <3> QED
      BY <1>1, <1>3, <2>1, <2>2, <3>1, Versions
  <2>4. n = m /\ Current(p) = m + 1
    BY <2>1, <2>3, Versions
  <2>5. db'[d].recorded = 1 .. (m + 1) /\ m + 1 \in 0 .. Len(Script)
    BY <1>1, <1>3, <2>1, <2>3, <2>4, PrefixGrows
  <2>6. Range(written[p]) = SQLOf(m + 1) /\ InOrder(written[p])
    BY <1>3, <2>4, WholeScript DEF Record, Transactions
  <2>7. db[d].lines \in Lines /\ written[p] \in Lines
    BY DEF Types, Database
  <2>8. \A x \in SQLUpTo(m), y \in SQLOf(m + 1) : Earlier(x, y)
    BY Versions DEF SQLUpTo, SQLOf, Earlier
  <2>9. SQLUpTo(m + 1) = SQLUpTo(m) \cup SQLOf(m + 1)
    <3>1. \A v : v \in 1 .. (m + 1) <=> v \in 1 .. m \/ v = m + 1
      BY Versions
    <3>2. \A x : x \in SQLUpTo(m + 1) <=> x \in SQLUpTo(m) \/ x \in SQLOf(m + 1)
      BY <3>1, Zenon DEF SQLUpTo
    <3> QED
      BY <3>2
  <2>10. /\ InOrder(db[d].lines \o written[p])
         /\ Range(db[d].lines \o written[p]) = SQLUpTo(m + 1)
    <3> DEFINE old == db[d].lines
               new == written[p]
    <3>1. /\ old \in Lines /\ new \in Lines /\ InOrder(old) /\ InOrder(new)
          /\ Range(old) = SQLUpTo(m) /\ Range(new) = SQLOf(m + 1)
      BY <1>1, <2>6, <2>7
    <3> HIDE DEF old, new
    <3>2. \A x \in Range(old), y \in Range(new) : Earlier(x, y)
      BY <2>8, <3>1
    <3>3. InOrder(old \o new) /\ Range(old \o new) = Range(old) \cup Range(new)
      BY <3>1, <3>2, ConcatInOrder
    <3> QED
      BY <2>9, <3>1, <3>3 DEF old, new
  <2> QED
    BY <1>3, <2>5, <2>10
<1> QED
  BY <1>2, <1>3, StepGains DEF Gains

\* The inductive invariant.
THEOREM MigrateInvariant == Spec => []MigrateInv
<1>1. MigrateInv /\ [Next]_vars => MigrateInv'
  <2>1. ASSUME MigrateInv, UNCHANGED vars PROVE MigrateInv'
    <3>1. /\ UNCHANGED <<files, env, args, pc, cfg, at, applied, local, written, db, lock, faults>>
      BY <2>1 DEF vars, settings
    <3>2. \A p \in Process : Current(p)' = Current(p) /\ Pending(p)' = Pending(p)
      BY <3>1 DEF Current, Pending
    <3>3. Types' /\ Configured' /\ Databases' /\ Memory'
      BY <2>1, <3>1, <3>2 DEF MigrateInv, Types, Configured, Databases, Memory, Setting
    <3>4. Transactions' /\ Schema'
      BY <2>1, <3>1, <3>2 DEF MigrateInv, Transactions, Schema
    <3> QED
      BY <3>3, <3>4 DEF MigrateInv
  <2>2. ASSUME MigrateInv, NEW p \in Process, Progress(p) \/ Fault(p) \/ Close(p)
        PROVE  MigrateInv'
    BY <2>2, StepTypes, StepConfigured, StepDatabases, StepMemory,
       StepTransactions, StepSchema DEF MigrateInv
  <2> QED
    BY <2>1, <2>2 DEF Next
<1> QED
  BY <1>1, InitHolds, PTL DEF Spec

\* Types, and a transaction that has written holds the lock of its database.
THEOREM MigrateTypeCorrect == Spec => []TypeOK
<1>1. MigrateInv => TypeOK
  <2> SUFFICES ASSUME MigrateInv PROVE TypeOK
    OBVIOUS
  <2> USE DEF MigrateInv
  <2>1. \A d \in DBPaths : db[d].recorded \subseteq Version
    BY DEF Types, Database
  <2>2. \A d \in DBPaths :
          /\ db[d].recorded # {} => db[d].table
          /\ lock[d] # None => pc[lock[d]] = "tx" /\ at[lock[d]] = d
    BY DEF Databases
  <2> QED
    BY <2>1, <2>2 DEF Types, Loaded, TypeOK
<1> QED
  BY <1>1, MigrateInvariant, PTL

\* Whatever processes race, die and are started again: the versions recorded
\* on a database are the first ones, and all the SQL of their files, and no
\* other, has been executed on it once and in order.
THEOREM SchemaIsWhole == Spec => []SchemaIsPrefix
<1>1. MigrateInv => SchemaIsPrefix
  <2> SUFFICES ASSUME MigrateInv, NEW d \in DBPaths
               PROVE  \E n \in {0} \cup Version :
                        /\ db[d].recorded = {v \in Version : v <= n}
                        /\ Range(db[d].lines) = SQLUpTo(n)
                        /\ InOrder(db[d].lines)
    BY DEF SchemaIsPrefix
  <2>1. PICK n \in 0 .. Len(Script) :
          db[d].recorded = 1 .. n /\ Range(db[d].lines) = SQLUpTo(n) /\ InOrder(db[d].lines)
    BY DEF MigrateInv, Schema
  <2>2. n \in {0} \cup Version
    BY Versions
  <2>3. 1 .. n = {v \in Version : v <= n}
    BY Versions
  <2> QED
    BY <2>1, <2>2, <2>3
<1> QED
  BY <1>1, MigrateInvariant, PTL

\* DBPath is the first of the four places a path may come from.
LEMMA DBPathIsNamed ==
  ASSUME NEW p \in Process, Loads(Setting(p)), Setting(p).kind \in {"absent", "toml"}
  PROVE  Names(p, DBPath(args[p].db, Setting(p), env.db))
<1> DEFINE file == Setting(p)
           inFile == IF file.kind = "toml" THEN file.path ELSE Unset
           d == DBPath(args[p].db, file, env.db)
<1>1. /\ decode(file).path = inFile
      /\ Load(file, env.db).path = IfGiven(env.db, IfGiven(decode(file).path, DefaultDBPath))
  BY DEF decode, defaults, Load
<1>2. d = IfGiven(args[p].db, IfGiven(env.db, IfGiven(inFile, DefaultDBPath)))
  BY <1>1 DEF DBPath
<1> DEFINE given == <<args[p].db, env.db, inFile, DefaultDBPath>>
           First(i) == given[i] = d /\ d # Unset /\ \A j \in 1 .. (i - 1) : given[j] = Unset
<1>3. SUFFICES \E i \in 1 .. 4 : First(i)
  BY DEF Names
<1>4. /\ given[1] = args[p].db /\ given[2] = env.db
      /\ given[3] = inFile /\ given[4] = DefaultDBPath
  OBVIOUS
<1> HIDE DEF file, inFile, d, given
<1>5. CASE args[p].db # Unset
  <2>1. First(1)
    BY <1>2, <1>4, <1>5 DEF IfGiven
  <2> QED
    BY <2>1
<1>6. CASE args[p].db = Unset /\ env.db # Unset
  <2>1. First(2)
    BY <1>2, <1>4, <1>6 DEF IfGiven
  <2> QED
    BY <2>1
<1>7. CASE args[p].db = Unset /\ env.db = Unset /\ inFile # Unset
  <2>1. \A j \in 1 .. 2 : j = 1 \/ j = 2
    OBVIOUS
  <2>2. First(3)
    BY <1>2, <1>4, <1>7, <2>1 DEF IfGiven
  <2> QED
    BY <2>2
<1>8. CASE args[p].db = Unset /\ env.db = Unset /\ inFile = Unset
  <2>1. \A j \in 1 .. 3 : j = 1 \/ j = 2 \/ j = 3
    OBVIOUS
  <2>2. First(4)
    BY <1>2, <1>4, <1>8, <2>1, ConfigDefaults DEF IfGiven
  <2> QED
    BY <2>2
<1> QED
  BY <1>5, <1>6, <1>7, <1>8

\* What can be loaded has valid limits.
LEMMA LoadedIsValid ==
  ASSUME NEW file, NEW envDB, Loads(file)
  PROVE  LET c == Load(file, envDB)
         IN  /\ c.global >= 1
             /\ \A q \in DOMAIN c.queues : QueueLimit(c, q) >= 0
             /\ \A y \in DOMAIN c.types : TaskTypeLimit(c, y) >= 0
<1>1. /\ Load(file, envDB).global = decode(file).global
      /\ Load(file, envDB).queues = decode(file).queues
      /\ Load(file, envDB).types = decode(file).types
  BY DEF Load, decode, defaults
<1>2. validate(decode(file))
  BY DEF Loads
<1> QED
  BY <1>1, <1>2 DEF validate, QueueLimit, TaskTypeLimit

\* An open store is the database the settings name, has every version its
\* program knows, and is used with limits that mean something.
THEOREM OpenIsReady == Spec => []OpenMeansReady
<1>1. MigrateInv => OpenMeansReady
  <2> SUFFICES ASSUME MigrateInv, NEW p \in Process, pc[p] = "open"
               PROVE  /\ Names(p, at[p])
                      /\ {v \in Version : v <= Binary[p]} \subseteq db[at[p]].recorded
                      /\ cfg[p].global >= 1
                      /\ \A q \in DOMAIN cfg[p].queues : QueueLimit(cfg[p], q) >= 0
                      /\ \A y \in DOMAIN cfg[p].types : TaskTypeLimit(cfg[p], y) >= 0
    BY DEF OpenMeansReady
  <2>1. /\ Loads(Setting(p)) /\ cfg[p] = Load(Setting(p), env.db)
        /\ at[p] = DBPath(args[p].db, Setting(p), env.db)
    BY DEF MigrateInv, Configured, Loaded
  <2>2. Setting(p).kind \in {"absent", "toml"}
    BY <2>1, ConfigFilesExist DEF MigrateInv, Types, Setting, Loads
  <2>3. {v \in Version : v <= Binary[p]} \subseteq db[at[p]].recorded
    BY DEF MigrateInv, Memory, HasRead, Pending
  <2> QED
    BY <2>1, <2>2, <2>3, DBPathIsNamed, LoadedIsValid
<1> QED
  BY <1>1, MigrateInvariant, PTL

=============================================================================
