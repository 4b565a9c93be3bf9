---------------------------- MODULE MCPreprocess ----------------------------
(***************************************************************************)
(* Preprocess on statements built from a head (the kind of statement and   *)
(* its target) and a fragment put in one of the head's fields: every field *)
(* of every kind of statement, with a table, a sub-select reaching a table *)
(* through every field, a set operation or a CTE in it.                    *)
(***************************************************************************)
EXTENDS Preprocess

T(c, s, n) == [catalog |-> c, schema |-> s, name |-> n]
PG   == T("pg", "public", "t")     \* attached
CSV  == T("csv", "default", "t")   \* renamed
CSV2 == T("s3", "default", "t")    \* renamed, same schema and name
PGD  == T("pg", "default", "t")    \* attached, named as CSV is but for its catalog
GS   == T("gs", "default", "t")    \* replaced by a function call
ZZ   == T("zz", "public", "t")     \* not configured
HALF == T("", "public", "t")       \* not fully qualified
W    == T("", "", "w")             \* a CTE reference where a CTE w is defined

MCDatabases == [pg |-> "postgresql", csv |-> "file", s3 |-> "s3", gs |-> "gsheet", xl |-> "xlsx"]
MCSource    == [pg |-> "dsn", csv |-> "p1", s3 |-> "u1", gs |-> "id", xl |-> "p2"]
MCSheetName == [pg |-> "", csv |-> "", s3 |-> "", gs |-> "tab", xl |-> "tab"]

N(kind, parent, slot) ==
  [kind |-> kind, parent |-> parent, slot |-> slot, table |-> NoTable,
   aliased |-> FALSE, qualifier |-> <<>>, cmd |-> ""]
Rv(parent, slot, table) == [N("rangevar", parent, slot) EXCEPT !.table = table]
Alias(node) == [node EXCEPT !.aliased = TRUE]
Col(parent, slot, q) == [N("colref", parent, slot) EXCEPT !.qualifier = q]
Cte(parent) == [N("cte", parent, "with") EXCEPT !.table = W]
When(parent, cmd) == [N("when", parent, "when") EXCEPT !.cmd = cmd]

\* The statement kinds, with the fields a fragment is put in.
FieldsOf ==
  [select |-> {"from", "where", "target", "having", "sort", "group", "with"},
   insert |-> {"select", "with", "returning"},
   update |-> {"from", "where", "target", "with", "returning"},
   delete |-> {"using", "where", "with"},
   merge  |-> {"source", "join", "with"},
   index  |-> {"where"}, alter |-> {"cmds"},
   other  |-> {"query"}]

StatementHead(kind, target) ==
  CASE kind = "select" -> <<N("select", 0, "")>>
    [] kind = "merge"  -> <<N("merge", 0, ""), Rv(1, "relation", target), When(1, "UPDATE"),
                            When(1, "NOTHING")>>
    [] OTHER -> <<N(kind, 0, ""), Rv(1, "relation", target)>>

\* Put a fragment, whose roots have parent 0, in a field of node 1 of a head.
Attach(head, slot, fragment) ==
  head \o [i \in DOMAIN fragment |->
             [fragment[i] EXCEPT !.parent = IF @ = 0 THEN 1 ELSE @ + Len(head),
                                 !.slot = IF fragment[i].parent = 0 THEN slot ELSE @]]

SubSelect(field, table) ==
  IF field = "from" THEN <<N("select", 0, ""), Rv(1, "from", table)>>
  ELSE <<N("select", 0, ""), N("select", 1, field), Rv(2, "from", table)>>
SetOperation(table) ==
  <<N("select", 0, ""), N("select", 1, "larg"), Rv(2, "from", PG),
    N("select", 1, "rarg"), Rv(4, "from", table)>>
CteOver(kind, table) ==
  <<Cte(0), N(kind, 1, "ctequery"), Rv(2, IF kind = "select" THEN "from" ELSE "relation", table)>>

Fragments(slot, tables) ==
  IF slot = "with"
    THEN {CteOver(k, t) : k \in {"select", "insert", "update", "delete"}, t \in tables}
    ELSE {SubSelect(f, t) : f \in {"from", "where", "target", "having"}, t \in tables}
         \cup {SetOperation(t) : t \in tables}
         \cup (IF slot \in {"from", "using", "source"} THEN {<<Rv(0, "", t)>> : t \in tables} ELSE {})

Composed(targets, tables) ==
  UNION {UNION {{Attach(StatementHead(k, t), s, f) : t \in targets, f \in Fragments(s, tables)} :
                  s \in FieldsOf[k]} : k \in DOMAIN FieldsOf}

\* Statements on several tables: mixed rewritings, aliases, column references,
\* CTEs and their scopes, set operations, several statements, TRUNCATE and DROP.
Sel == N("select", 0, "")
From(t) == Rv(1, "from", t)
Object(t) == [N("objname", 1, "objects") EXCEPT !.table = t]
Drop(type) == [N("drop", 0, "") EXCEPT !.cmd = type]
XL == T("xl", "default", "sheet1")

ColumnRefs ==
  {<<Sel, From(CSV), From(PG), Col(1, "target", q)>> :
     q \in {<<>>, <<"t">>, <<"default", "t">>, <<"public", "t">>, <<"csv", "default", "t">>}}
  \cup {<<Sel, Alias(From(CSV)), From(GS), Col(1, "where", <<"default", "t">>)>>,
        <<Sel, From(CSV), Alias(From(CSV2)), Col(1, "sort", <<"default", "t">>)>>,
        <<Sel, From(CSV), Col(1, "target", <<"t">>)>>, <<Sel, Alias(From(CSV)), Col(1, "target", <<"t">>)>>,
        <<Sel, From(CSV), From(CSV2), Col(1, "target", <<"default", "t">>)>>}

OuterW ==    \* the outer w is no CTE: the one of that name is local to the sub-select
  <<Sel, From(W), N("select", 1, "where"), [Cte(3) EXCEPT !.slot = "with"],
    N("select", 4, "ctequery"), Rv(5, "from", PG), Rv(3, "from", W)>>
WithSetOperation(t) ==
  <<Sel, Cte(1), N("select", 2, "ctequery"), Rv(3, "from", t), N("select", 1, "larg"),
    Rv(5, "from", W), N("select", 1, "rarg"), Rv(7, "from", PG)>>

\* CREATE TABLE AS and CREATE VIEW, SELECT INTO.
Creations(target, table) ==
  {<<N("create", 0, ""), Rv(1, "relation", target), N("select", 1, "query"), Rv(3, "from", table)>>,
   <<Sel, From(table), N("into", 1, "into"), Rv(3, "relation", target)>>}

Curated ==
  ColumnRefs
  \cup UNION {Creations(target, table) : target \in {PG, CSV, HALF, W}, table \in {PG, GS, ZZ}}
  \cup {<<Sel, From(CSV), From(GS), From(XL), From(PG)>>,
        <<Sel, From(CSV), From(PGD), Col(1, "target", <<"public", "t">>)>>,
        <<Sel, Cte(1), N("select", 2, "ctequery"), Rv(3, "from", CSV), From(W)>>,
        <<Sel, Cte(1), N("select", 2, "ctequery"), Rv(3, "from", GS), From(W), Col(1, "target", <<"w">>)>>,
        WithSetOperation(CSV), WithSetOperation(ZZ), OuterW,
        <<Sel, From(PG), N("delete", 0, ""), Rv(3, "relation", PG)>>,
        <<N("truncate", 0, ""), Rv(1, "relations", PG), Rv(1, "relations", CSV)>>,
        <<N("merge", 0, ""), Rv(1, "relation", PG), When(1, "INSERT"), When(1, "DELETE"),
          Rv(1, "source", CSV)>>}
  \cup {<<Drop(type), Object(t)>> : type \in {"table", "index", "view"}, t \in {PG, W, HALF}}

MCStatements == Composed({PG, CSV, GS}, {PG, CSV, GS, ZZ, HALF, W}) \cup Curated

-----------------------------------------------------------------------------
\* No validator, the read-only policy of the CLI and of the MCP server, and a
\* policy that grants some writes.
ReadOnly == ReadOnlyPolicy(<<"pg", "csv", "s3", "gs", "xl">>)
Mixed == <<[catalog |-> "pg", base |-> "read_write", management |-> <<>>, schemas |-> <<>>],
           [catalog |-> "csv", base |-> "none", management |-> <<>>, schemas |-> <<>>],
           [catalog |-> "gs", base |-> "append", management |-> <<>>, schemas |-> <<>>]>>
MCValidators == {<<>>, <<ReadOnly>>, <<Mixed>>}
=============================================================================
