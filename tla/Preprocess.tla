----------------------------- MODULE Preprocess -----------------------------
(***************************************************************************)
(* queryengine.PreprocessQuery: how a statement is parsed, checked and     *)
(* rewritten before it reaches DuckDB.                                     *)
(*                                                                         *)
(* Each recursive walker of sqlwalk is a phase with a worklist: todo holds *)
(* the nodes it has still to visit, and one step visits one of them.  The  *)
(* walkers go through protobuf fields in the order of Message.Range, which *)
(* is undefined, so any node of the worklist may be next.                  *)
(***************************************************************************)
EXTENDS SqlAst, AccessPolicy, FiniteSets

CONSTANTS Databases,   \* config.go: catalog name -> type of the source
          Source,      \* catalog name -> its path, URI or spreadsheet
          SheetName,   \* catalog name -> the sheet its configuration names, or ""
          Statements,  \* the trees a query may parse to
          Validators   \* <<>>: no validator; <<p>>: NewPolicyValidator(p)

AttachedTypes == {"postgresql", "mysql", "sqlite", "duckdb"}
FunctionTypes == {"xlsx", "gsheet"}
RenamedTypes  == {"file", "s3"}

ASSUME DatabasesAssumption ==
  /\ \A c \in DOMAIN Databases : Databases[c] \in AttachedTypes \cup FunctionTypes \cup RenamedTypes
  /\ DOMAIN Source = DOMAIN Databases /\ DOMAIN SheetName = DOMAIN Databases
ASSUME StatementsAssumption == \A t \in Statements : WellFormed(t)

VARIABLES statement,  \* input: the tree the query parses to
          validator,  \* input
          ast,        \* the tree, mutated in place by the rewriting walkers
          pc,         \* the phase
          todo,       \* the worklist of the phase
          cteNames,   \* the CTE names collected so far by Extract
          refs,       \* the RangeVars collected by Extract
          accesses,   \* what extractAccesses has collected: <<node, op>>
          renames,    \* the keys of the renames map: tables of file and s3 catalogs
          functions,  \* the keys of funcReplacements: tables of sheet catalogs
          prefixes,   \* colRefRenames: <<old qualifier, new qualifier>> pairs
          error       \* "" or why the query is refused

input == <<statement, validator>>
plan  == <<renames, functions, prefixes>>
vars  == <<input, ast, pc, todo, cteNames, refs, accesses, plan, error>>

Phases == {"parse", "extract", "access", "plan", "replace", "rename", "colref", "deparse", "done"}
Errors == {"", "parse", "unqualified", "denied", "catalog", "deparse"}

Init == /\ statement \in Statements
        /\ validator \in Validators
        /\ ast = statement
        /\ pc = "parse" /\ todo = {} /\ error = ""
        /\ cteNames = {} /\ refs = {} /\ accesses = {}
        /\ renames = {} /\ functions = {} /\ prefixes = {}

\* Return an error: the query never reaches the engine.
Refuse(why) == pc' = "done" /\ error' = why /\ todo' = {}

\* Enter a phase with its worklist.
Enter(phase, nodes) == pc' = phase /\ todo' = nodes /\ UNCHANGED error

\* Visit node n: it leaves the worklist and next joins it.
Visit(n, next) == todo' = (todo \ {n}) \cup next /\ UNCHANGED <<pc, error>>

Parse ==
  /\ pc = "parse"
  /\ \/ Enter("extract", Roots(ast))
     \/ Refuse("parse")
  /\ UNCHANGED <<input, ast, cteNames, refs, accesses, plan>>

-----------------------------------------------------------------------------
(* sqlwalk.Extract: every RangeVar, wrapped in a Node or held directly.    *)

\* Mutant of ExtractNode: RangeVars held directly by their statement are missed.
ExtractNode_WrappedOnly ==
  /\ pc = "extract"
  /\ \E n \in todo :
       /\ Visit(n, Children(ast, n))
       /\ refs' = refs \cup (IF IsRangeVar(ast[n]) /\ ~IsDirect(ast[n]) THEN {n} ELSE {})
       /\ cteNames' = cteNames \cup (IF ast[n].kind = "cte" THEN {ast[n].table.name} ELSE {})
  /\ UNCHANGED <<input, ast, accesses, plan>>

ExtractNode ==
  /\ pc = "extract"
  /\ \E n \in todo :
       /\ Visit(n, Children(ast, n))
       /\ refs' = refs \cup (IF IsRangeVar(ast[n]) THEN {n} ELSE {})
       /\ cteNames' = cteNames \cup (IF ast[n].kind = "cte" THEN {ast[n].table.name} ELSE {})
  /\ UNCHANGED <<input, ast, accesses, plan>>

Qualified(table) == table.catalog # "" /\ table.schema # "" /\ table.name # ""

\* The CTE references are filtered out, then PreprocessQuery demands 3-part names.
CheckQualified ==
  /\ pc = "extract" /\ todo = {}
  /\ refs' = {n \in refs : ~NamesCte(ast[n].table, cteNames)}
  /\ IF \E n \in refs' : ~Qualified(ast[n].table) THEN Refuse("unqualified")
     ELSE IF validator = <<>> THEN Enter("plan", refs')
     ELSE Enter("access", {<<"top", n>> : n \in Roots(ast)})
  /\ UNCHANGED <<input, ast, cteNames, accesses, plan>>

-----------------------------------------------------------------------------
(* sqlwalk.Validate: extractAccesses, in two modes.  "top" is walkTopLevel  *)
(* on a root statement, "reads" is walkAllReadsNode below it.              *)

WriteOp == [insert |-> "INSERT", update |-> "UPDATE", delete |-> "DELETE"]

\* The fields each mode descends into; every field when the kind is not listed.
TopSlots ==
  [insert |-> {"select", "with"}, update |-> {"from", "where", "with"},
   delete |-> {"using", "where", "with"}, merge |-> {"source", "with", "when"},
   truncate |-> {}, alter |-> {}, index |-> {}, drop |-> {}]
ReadSlots == [insert |-> {"select"}, update |-> {"from"}, delete |-> {"using"}]

SelectSlots(n) ==
  IF ChildrenIn(ast, n, {"larg", "rarg"}) # {}
    THEN {"larg", "rarg"} ELSE {"from", "where", "with", "target", "having"}

Walked(mode, n) ==
  LET kind == ast[n].kind IN
  CASE kind = "select"                              -> ChildrenIn(ast, n, SelectSlots(n))
    [] mode = "top" /\ kind \in DOMAIN TopSlots     -> ChildrenIn(ast, n, TopSlots[kind])
    [] mode = "reads" /\ kind \in DOMAIN ReadSlots  -> ChildrenIn(ast, n, ReadSlots[kind])
    [] kind = "rangevar"                            -> {}
    [] OTHER                                        -> Children(ast, n)

Relations(n, slot) == {m \in ChildrenIn(ast, n, {slot}) : IsRangeVar(ast[m])}

\* Mutant of MergeOps: a MERGE only reads its target.
MergeOps_ReadOnly(n) == {"SELECT"}

\* The operations a MERGE performs on its target: one per kind of WHEN clause,
\* and the read of the join condition.
MergeOps(n) ==
  {"SELECT"} \cup ({ast[m].cmd : m \in ChildrenIn(ast, n, {"when"})}
                     \cap {"INSERT", "UPDATE", "DELETE"})

DropOps(cmd) == CASE cmd = "table" -> {"DROP TABLE"}
                  [] cmd = "index" -> {"DROP INDEX"}
                  [] OTHER         -> {}

\* The accesses recorded by the visit of n.
Accessed(mode, n) ==
  LET kind == ast[n].kind IN
  CASE kind = "rangevar"       -> {<<n, "SELECT">>}
    [] kind \in DOMAIN WriteOp -> Relations(n, "relation") \X {WriteOp[kind]}
    [] mode = "top" /\ kind = "merge"    -> Relations(n, "relation") \X MergeOps(n)
    [] mode = "top" /\ kind = "truncate" -> Relations(n, "relations") \X {"TRUNCATE"}
    [] mode = "top" /\ kind = "alter"    -> Relations(n, "relation") \X {"ALTER TABLE"}
    [] mode = "top" /\ kind = "index"    -> Relations(n, "relation") \X {"CREATE INDEX"}
    [] mode = "top" /\ kind = "drop"     ->
         ChildrenIn(ast, n, {"objects"}) \X DropOps(ast[n].cmd)
    [] OTHER -> {}

AccessNode ==
  /\ pc = "access"
  /\ \E mode \in {"top", "reads"}, n \in Nodes(ast) :
       /\ <<mode, n>> \in todo
       /\ Visit(<<mode, n>>, {"reads"} \X Walked(mode, n))
       /\ accesses' = accesses \cup Accessed(mode, n)
  /\ UNCHANGED <<input, ast, cteNames, refs, plan>>

\* Mutant of Asked: CTE references are not filtered out.
Asked_Unfiltered == accesses

\* What Validate asks the policy: the accesses that do not name a CTE.
Asked == {a \in accesses : ~NamesCte(ast[a[1]].table, CteNames(ast))}

Granted(a) ==
  LET t == ast[a[1]].table
  IN Permits(validator[1], [catalog |-> t.catalog, schema |-> t.schema, name |-> t.name,
                            op |-> a[2]])

CheckPolicy ==
  /\ pc = "access" /\ todo = {}
  /\ IF \E a \in Asked : ~Granted(a) THEN Refuse("denied") ELSE Enter("plan", refs)
  /\ UNCHANGED <<input, ast, cteNames, refs, accesses, plan>>

-----------------------------------------------------------------------------
(* The rewriting plan.                                                     *)

\* Mutants of PlanRef: an unknown catalog is skipped; the extension of a file is
\* not looked at, and spreadsheets are renamed like other files.
PlanRef_SkipsUnknown ==
  /\ pc = "plan"
  /\ \E n \in todo :
       LET t == ast[n].table
           type == IF t.catalog \in DOMAIN Databases THEN Databases[t.catalog] ELSE "" IN
       /\ Visit(n, {})
       /\ functions' = functions \cup (IF type \in FunctionTypes THEN {t} ELSE {})
       /\ renames' = renames \cup (IF type \in RenamedTypes THEN {t} ELSE {})
  /\ UNCHANGED <<input, ast, cteNames, refs, accesses, prefixes>>
PlanRef_AnyFile ==
  /\ pc = "plan"
  /\ \E n \in todo :
       LET t == ast[n].table IN
       /\ Visit(n, {})
       /\ functions' = functions
       /\ renames' = renames \cup
            (IF Databases[t.catalog] \in RenamedTypes \cup FunctionTypes THEN {t} ELSE {})
  /\ UNCHANGED <<input, ast, cteNames, refs, accesses, prefixes>>

PlanRef ==
  /\ pc = "plan"
  /\ \E n \in todo :
       LET t == ast[n].table IN
       IF t.catalog \notin DOMAIN Databases
         THEN Refuse("catalog") /\ UNCHANGED <<renames, functions>>
         ELSE /\ Visit(n, {})
              /\ functions' = functions \cup
                   (IF Databases[t.catalog] \in FunctionTypes THEN {t} ELSE {})
              /\ renames' = renames \cup
                   (IF Databases[t.catalog] \in RenamedTypes THEN {t} ELSE {})
  /\ UNCHANGED <<input, ast, cteNames, refs, accesses, prefixes>>

\* Mutant of EnterRewrite: a statement is given one kind of rewriting or the other.
EnterRewrite_EitherOr(after) ==
  IF after = "plan" /\ functions # {} THEN Enter("replace", Roots(ast))
  ELSE IF after = "plan" /\ renames # {} THEN Enter("rename", Roots(ast))
  ELSE Enter("deparse", {})

\* A rewriting walker runs only if there is something for it to do.
EnterRewrite(after) ==
  IF after = "plan" /\ functions # {} THEN Enter("replace", Roots(ast))
  ELSE IF after \in {"plan", "replace"} /\ renames # {} THEN Enter("rename", Roots(ast))
  ELSE IF after = "rename" /\ prefixes # {} THEN Enter("colref", Roots(ast))
  ELSE Enter("deparse", {})

PhaseDone ==
  /\ pc \in {"plan", "replace", "rename", "colref"} /\ todo = {}
  /\ EnterRewrite(pc)
  /\ UNCHANGED <<input, ast, cteNames, refs, accesses, plan>>

-----------------------------------------------------------------------------
(* ReplaceTablesWithFunctions: only a RangeVar wrapped in a Node can become *)
(* a RangeFunction.                                                        *)

Replaceable(n) ==
  /\ IsRangeVar(ast[n]) /\ ~IsDirect(ast[n])
  /\ ~NamesCte(ast[n].table, CteNames(ast))
  /\ ast[n].table \in functions

\* A Google sheet may be named in the configuration; for a file it is the table.
SheetOf(table) ==
  IF Databases[table.catalog] = "gsheet" /\ SheetName[table.catalog] # ""
    THEN SheetName[table.catalog] ELSE table.name

FunctionCall(table) == [catalog |-> "", schema |-> Source[table.catalog], name |-> SheetOf(table)]

ReplaceNode ==
  /\ pc = "replace"
  /\ \E n \in todo :
       IF Replaceable(n)
         THEN /\ ast' = [ast EXCEPT ![n].kind = "function",
                                    ![n].table = FunctionCall(ast[n].table)]
              /\ Visit(n, {})
         ELSE Visit(n, Children(ast, n)) /\ UNCHANGED ast
  /\ UNCHANGED <<input, cteNames, refs, accesses, plan>>

-----------------------------------------------------------------------------
(* RenameTables: the tables, then the column references that name them.    *)

NewName(table) == [catalog |-> "", schema |-> "", name |-> Source[table.catalog]]

\* Mutant of Renamed: the catalog is not part of the key.
Renamed_AnyCatalog(n) ==
  /\ IsRangeVar(ast[n])
  /\ ~NamesCte(ast[n].table, CteNames(ast))
  /\ \E t \in renames : t.schema = ast[n].table.schema /\ t.name = ast[n].table.name

Renamed(n) ==
  /\ IsRangeVar(ast[n])
  /\ ~NamesCte(ast[n].table, CteNames(ast))
  /\ ast[n].table \in renames

\* colRefRenames is keyed by schema and table, the catalog is not part of it.
Prefix(table) == <<table.schema, table.name>>

\* Mutant of RenameNode: the prefixes of aliased tables are recorded too.
RenameNode_AliasIgnored ==
  /\ pc = "rename"
  /\ \E n \in todo :
       /\ Visit(n, Children(ast, n))
       /\ IF Renamed(n)
            THEN /\ ast' = [ast EXCEPT ![n].table = NewName(@)]
                 /\ prefixes' = prefixes \cup
                      {<<Prefix(ast[n].table), Prefix(NewName(ast[n].table))>>}
            ELSE UNCHANGED <<ast, prefixes>>
  /\ UNCHANGED <<input, cteNames, refs, accesses, renames, functions>>

RenameNode ==
  /\ pc = "rename"
  /\ \E n \in todo :
       LET old == ast[n].table IN
       /\ Visit(n, Children(ast, n))
       /\ IF Renamed(n)
            THEN /\ ast' = [ast EXCEPT ![n].table = NewName(old)]
                 /\ prefixes' = IF ast[n].aliased THEN prefixes
                                ELSE {p \in prefixes : p[1] # Prefix(old)}
                                       \cup {<<Prefix(old), Prefix(NewName(old))>>}
            ELSE UNCHANGED <<ast, prefixes>>
  /\ UNCHANGED <<input, cteNames, refs, accesses, renames, functions>>

\* applyColumnRef on a qualifier of two parts or more; a single part is only
\* looked up for tables without a schema, which are never renamed here.
NewQualifiers(q) ==
  LET hits == {p \in prefixes : Len(q) >= 2 /\ p[1] = <<q[1], q[2]>>}
  IN IF hits = {} THEN {q}
     ELSE {[q EXCEPT ![1] = p[2][1], ![2] = p[2][2]] : p \in hits}

ColumnRefNode ==
  /\ pc = "colref"
  /\ \E n \in todo :
       IF ast[n].kind = "colref"
         THEN /\ \E q \in NewQualifiers(ast[n].qualifier) : ast' = [ast EXCEPT ![n].qualifier = q]
              /\ Visit(n, {})
         ELSE Visit(n, Children(ast, n)) /\ UNCHANGED ast
  /\ UNCHANGED <<input, cteNames, refs, accesses, plan>>

-----------------------------------------------------------------------------
\* The rewritten statement is printed, or pg_query cannot print it.
Deparse ==
  /\ pc = "deparse"
  /\ \/ Enter("done", {})
     \/ Refuse("deparse")
  /\ UNCHANGED <<input, ast, cteNames, refs, accesses, plan>>

Next == \/ Parse \/ ExtractNode \/ CheckQualified \/ AccessNode \/ CheckPolicy
        \/ PlanRef \/ PhaseDone \/ ReplaceNode \/ RenameNode \/ ColumnRefNode \/ Deparse

Spec == Init /\ [][Next]_vars

-----------------------------------------------------------------------------
(* Properties.                                                             *)

TypeOK ==
  /\ IsTree(statement) /\ validator \in Validators
  /\ pc \in Phases /\ error \in Errors
  /\ Nodes(ast) = Nodes(statement)
  /\ todo \subseteq IF pc = "access" THEN {"top", "reads"} \X Nodes(ast) ELSE Nodes(ast)
  /\ refs \subseteq Nodes(ast)
  /\ cteNames \subseteq CteNames(statement)
  /\ accesses \subseteq Nodes(ast) \X OpTypes
  /\ \A t \in renames   : Databases[t.catalog] \in RenamedTypes
  /\ \A t \in functions : Databases[t.catalog] \in FunctionTypes

\* The statement has been handed over to the engine.
Ready == pc = "done" /\ error = ""

\* The table references of a statement: its RangeVars, less those that name a CTE.
TableRefs == {n \in RangeVars(statement) :
                ~NamesCte(statement[n].table, CteNames(statement))}

\* Extract's walk, and its filter, miss no table reference of the statement and
\* invent none, whatever the statement and the order of the walk (extract.go:20-90).
ExtractExact == pc \notin {"parse", "extract"} /\ error # "parse" => refs = TableRefs

Resolved(n) == Qualified(statement[n].table) /\ statement[n].table.catalog \in DOMAIN Databases

\* The objects of the DROP TABLE statements: lists of names, which are no RangeVars.
DroppedTables == {n \in Nodes(statement) :
                    /\ statement[n].slot = "objects" /\ statement[n].parent \in Roots(statement)
                    /\ statement[statement[n].parent].kind = "drop"
                    /\ statement[statement[n].parent].cmd = "table"}

\* The tables in a field of node n, less those that share a CTE's name.
Targets(n, slot) ==
  {m \in Nodes(statement) : /\ statement[m].parent = n /\ statement[m].slot = slot
                            /\ ~NamesCte(statement[m].table, CteNames(statement))}

\* The writes of the statements the validator tells apart, by their operation.
ClassifiedWrites(n) ==
  LET node == statement[n] IN
  CASE node.kind \in DOMAIN WriteOp -> Targets(n, "relation") \X {WriteOp[node.kind]}
    [] node.kind = "merge"    -> Targets(n, "relation") \X
         {statement[m].cmd : m \in {w \in Nodes(statement) :
            /\ statement[w].parent = n /\ statement[w].slot = "when"
            /\ statement[w].cmd \in {"INSERT", "UPDATE", "DELETE"}}}
    [] node.kind = "truncate" -> Targets(n, "relations") \X {"TRUNCATE"}
    [] node.kind = "alter"    -> Targets(n, "relation") \X {"ALTER TABLE"}
    [] node.kind = "index"    -> Targets(n, "relation") \X {"CREATE INDEX"}
    [] node.kind = "drop"     -> Targets(n, "objects") \X DropOps(node.cmd)
    [] OTHER -> {}

\* The writes it has no operation for: CREATE TABLE, CREATE TABLE AS and CREATE VIEW,
\* the INTO of a SELECT, DROP VIEW.
UnclassifiedWrites(n) ==
  LET node == statement[n] IN
  CASE node.kind \in {"create", "into"} -> Targets(n, "relation") \X {"CREATE"}
    [] node.kind = "drop" /\ node.cmd = "view" -> Targets(n, "objects") \X {"DROP VIEW"}
    [] OTHER -> {}

\* The tables a statement node writes, and how.
Writes(n) == ClassifiedWrites(n) \cup UnclassifiedWrites(n)

PolicyPermits(a) ==
  LET t == statement[a[1]].table
  IN Permits(validator[1], [catalog |-> t.catalog, schema |-> t.schema, name |-> t.name,
                            op |-> a[2]])

\* The statements nested in the WITH clause of a plain top-level statement.
InRootWith ==
  {n \in Nodes(statement) :
     LET cte == statement[n].parent IN
     /\ cte # 0 /\ statement[cte].kind = "cte" /\ statement[cte].slot = "with"
     /\ statement[cte].parent \in Roots(statement)
     /\ \A m \in Nodes(statement) :
          statement[m].parent \in Roots(statement) => statement[m].slot \notin {"larg", "rarg"}}

\* A table that reaches the engine is a 3-part name in a configured catalog, or it
\* has an unqualified name that some CTE of the parse shares (EveryTableResolved),
\* or it is dropped, which the policy, if there is one, must grant (preprocess.go:33-58).
UnresolvedOnlyIfExempt ==
  Ready => \A n \in RangeVars(statement) \cup DroppedTables :
    \/ Resolved(n)
    \/ NamesCte(statement[n].table, CteNames(statement))
    \/ n \in DroppedTables /\ (validator # <<>> => PolicyPermits(<<n, "DROP TABLE">>))

\* A statement of a kind the validator classifies is only handed over if the policy
\* grants each of its writes, at the top level (walkTopLevel: INSERT, UPDATE, DELETE,
\* each WHEN of a MERGE, TRUNCATE, ALTER TABLE, CREATE INDEX, DROP TABLE and DROP INDEX)
\* or, for INSERT, UPDATE and DELETE, in a WITH.  It says nothing of the statements
\* that are not classified: see ReadOnlyDeniesDdl.
ClassifiedWritesPermitted ==
  Ready /\ validator # <<>> =>
    /\ \A n \in Roots(statement) : \A a \in ClassifiedWrites(n) : PolicyPermits(a)
    /\ \A n \in InRootWith : statement[n].kind \in DOMAIN WriteOp =>
         \A a \in ClassifiedWrites(n) : PolicyPermits(a)

\* A denial always has a reason: some table of the statement that is no CTE, read
\* or written in a way the policy refuses.
DenialHasReason ==
  error = "denied" =>
    \/ \E n \in TableRefs : ~PolicyPermits(<<n, "SELECT">>)
    \/ \E n \in Nodes(statement) : \E a \in ClassifiedWrites(n) : ~PolicyPermits(a)

TypeOf(n) == Databases[statement[n].table.catalog]

\* Every reference to a file, an object store or a sheet that can be replaced has
\* been, by its own source: a statement may mix renamed and replaced tables.
SourcesRewritten ==
  Ready => \A n \in TableRefs :
    /\ TypeOf(n) \in RenamedTypes => ast[n].table = NewName(statement[n].table)
    /\ TypeOf(n) \in FunctionTypes /\ ~IsDirect(statement[n]) =>
         ast[n].kind = "function" /\ ast[n].table = FunctionCall(statement[n].table)

\* Attached tables, CTE references and everything that is no table are handed
\* over as they were written.
OthersUntouched ==
  Ready => \A n \in Nodes(ast) :
    (n \in TableRefs => TypeOf(n) \in AttachedTypes) /\ ast[n].kind # "colref"
      => ast[n] = statement[n]

\* The tables that are renamed and that column references must follow.
RenamedRefs == {m \in TableRefs : TypeOf(m) \in RenamedTypes /\ ~statement[m].aliased}

\* Those a column reference names by their schema, and those it names by their name
\* alone or in full.
Named(n) ==
  {m \in RenamedRefs :
     LET q == statement[n].qualifier
     IN Len(q) >= 2 /\ Prefix(statement[m].table) = <<q[1], q[2]>>}
NamedOtherwise(n) ==
  {m \in RenamedRefs :
     LET t == statement[m].table
     IN statement[n].qualifier \in {<<t.name>>, <<t.catalog, t.schema, t.name>>}}

\* A schema-qualified column reference follows the unaliased table it names through
\* the renaming, and one that names no such table, in any way, is left alone.  A
\* reference by the table's name alone, tbl.col, is not among them: the prefix is recorded
\* with its schema (rename.go:97), so that such a one is left as it is.
ColumnRefsFollowSchema ==
  Ready => \A n \in Nodes(ast) : ast[n].kind = "colref" =>
    /\ Named(n) # {} => \E m \in Named(n) :
         ast[n].qualifier[1] = "" /\ ast[n].qualifier[2] = Source[statement[m].table.catalog]
    /\ Named(n) = {} /\ NamedOtherwise(n) = {} => ast[n] = statement[n]

-----------------------------------------------------------------------------
(* What comments of the code say, and it does not do.                      *)

DdlOps == {"ALTER TABLE", "CREATE INDEX", "DROP INDEX", "DROP TABLE", "CREATE", "DROP VIEW"}

\* queryengine/policy.go:29 "allowing SELECT and denying INSERT/UPDATE/DELETE/TRUNCATE/DDL".
\* Refuted: the target of a CREATE is taken for a table that is read, that of a SELECT
\* INTO is not looked at, nor is any DROP but those of tables and indexes.
ReadOnlyDeniesDdl ==
  Ready /\ validator # <<>> =>
    LET policy == validator[1] IN
    policy = ReadOnlyPolicy([i \in DOMAIN policy |-> policy[i].catalog]) =>
      \A n \in Nodes(statement) : \A a \in Writes(n) : a[2] \notin DdlOps

\* validate.go:141 "returns every table access with its operation type".  Refuted:
\* walkSelectStmt does not descend into ORDER BY, GROUP BY or the WITH of a set
\* operation, nor walkTopLevel into SET lists and RETURNING, nor walkMergeStmt
\* into the join condition.
EveryTableAccessed ==
  Ready /\ validator # <<>> => \A n \in TableRefs : \E op \in OpTypes : <<n, op>> \in accesses

\* The ancestors of a node, itself included.
Ancestors(n) ==
  LET up[m \in 0..n] == IF m = 0 THEN {} ELSE {m} \cup up[statement[m].parent] IN up[n]

\* An unqualified RangeVar that is not in the scope of a CTE of its name, or that
\* is the target of a write, is a real table.
IsRealTable(n) ==
  /\ IsRangeVar(statement[n])
  /\ IsDirect(statement[n]) \/
     ~\E c \in Nodes(statement) :
         /\ statement[c].kind = "cte" /\ statement[c].parent \in Ancestors(n)
         /\ NamesCte(statement[n].table, {statement[c].table.name})

RealTablesResolved == Ready => \A n \in Nodes(statement) : IsRealTable(n) => Resolved(n)
DroppedTablesResolved == Ready => \A n \in DroppedTables : Resolved(n)

\* preprocess.go:18 "validates that all table references are fully qualified 3-part
\* names (catalog.schema.table) matching a configured database".  Refuted, in both
\* parts: the check is of what Extract returns, which leaves out the names of all the
\* CTEs of the parse in every scope, and the objects of a DROP, which are no RangeVars.
EveryTableResolved == RealTablesResolved /\ DroppedTablesResolved
=============================================================================
