------------------------------- MODULE SqlAst -------------------------------
(***************************************************************************)
(* Parsed SQL statements as plydb sees them: the pg_query protobuf tree,   *)
(* reduced to the nodes the walkers of sqlwalk tell apart.                 *)
(*                                                                         *)
(* A tree is a sequence of nodes numbered so that a parent comes before    *)
(* its children; parent = 0 marks a top-level statement.  A node has       *)
(*   kind      the statement or expression it is; "create" is a CREATE of  *)
(*             a table or a view, "into" the INTO of a SELECT, "other" any *)
(*             message the walkers only descend through (joins, sublinks)  *)
(*   slot      the field of its parent that holds it                       *)
(*   table     the name of a "rangevar" or a DROP object, of the CTE of a  *)
(*             "cte", the source and sheet of a "function"                 *)
(*   aliased   whether a "rangevar" has an alias                           *)
(*   qualifier the fields of a "colref" before its column                  *)
(*   cmd       the command of a MERGE "when", the object type of a "drop"  *)
(***************************************************************************)
EXTENDS Naturals, Sequences

NoTable == [catalog |-> "", schema |-> "", name |-> ""]

\* The fields that hold a RangeVar directly rather than a Node wrapping one
\* (InsertStmt.relation, UpdateStmt.relation, IntoClause.rel, ...).
IsDirect(node) == node.slot = "relation"

IsRangeVar(node) == node.kind = "rangevar"

Nodes(tree) == DOMAIN tree
Roots(tree) == {n \in Nodes(tree) : tree[n].parent = 0}
Children(tree, n) == {m \in Nodes(tree) : tree[m].parent = n}
ChildrenIn(tree, n, slots) == {m \in Children(tree, n) : tree[m].slot \in slots}

IsTree(tree) == \A n \in Nodes(tree) : tree[n].parent \in 0..(n - 1)

Tables == [catalog : STRING, schema : STRING, name : STRING]
TreeNodes == [kind : STRING, parent : Nat, slot : STRING, table : Tables, aliased : BOOLEAN,
              qualifier : Seq(STRING), cmd : STRING]

\* What pg_query returns: the walkers rely on the message types of its fields.
WellFormed(tree) ==
  /\ tree \in Seq(TreeNodes) /\ IsTree(tree)
  /\ \A n \in Nodes(tree), m \in Nodes(tree) : tree[m].parent = n =>
       /\ tree[n].kind \notin {"rangevar", "colref"}                 \* the leaves
       /\ tree[m].slot = "with" => tree[n].kind \notin {"truncate", "alter", "index", "drop"}
  /\ \A n \in Nodes(tree) : tree[n].slot \in {"relation", "relations"} => IsRangeVar(tree[n])

\* collectCTENames: the names of all the CTEs of the parse, in any scope.
CteNames(tree) == {tree[n].table.name : n \in {m \in Nodes(tree) : tree[m].kind = "cte"}}

\* An unqualified name matching a CTE, the test every walker makes.
NamesCte(table, cteNames) ==
  table.catalog = "" /\ table.schema = "" /\ table.name \in cteNames

RangeVars(tree) == {n \in Nodes(tree) : IsRangeVar(tree[n])}
=============================================================================
