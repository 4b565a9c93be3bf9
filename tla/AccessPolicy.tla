---------------------------- MODULE AccessPolicy ----------------------------
(***************************************************************************)
(* sqlwalk/policy.go: the access policy, what ParsePolicy accepts, how     *)
(* resolve indexes it, and which operations it allows on a table.          *)
(*                                                                         *)
(* A policy is the sequence of its catalog permissions.  An optional JSON  *)
(* object (Management) is a sequence of at most one element.  The name     *)
(* lists of an override are sets: their order has no effect.               *)
(***************************************************************************)
EXTENDS Naturals, Sequences

OpTypes == {"SELECT", "INSERT", "UPDATE", "DELETE", "TRUNCATE",
            "ALTER TABLE", "CREATE INDEX", "DROP INDEX", "DROP TABLE"}

\* The operations that have an action string; the DDL operations have none.
Actions == {"SELECT", "INSERT", "UPDATE", "DELETE", "TRUNCATE"}

AccessLevel == [none |-> 0, read |-> 1, append |-> 2, read_write |-> 3, full_dml |-> 4]

\* parseAccessLevel: an unknown name is an error, which resolve ignores.
KnownLevel(s) == s \in DOMAIN AccessLevel
LevelOf(s) == IF KnownLevel(s) THEN AccessLevel[s] ELSE AccessLevel.none

-----------------------------------------------------------------------------
(* The shape of a document, whatever its strings say.                      *)

Managements == {<<>>} \cup {<<m>> : m \in [ddl : BOOLEAN, index : BOOLEAN, drop : BOOLEAN]}

SchemaOverrides ==
  [read_only : SUBSET STRING, read_write : SUBSET STRING, append : SUBSET STRING,
   denied : SUBSET STRING, granular : Seq([tables : SUBSET STRING, actions : SUBSET STRING])]

SchemaPermissions ==
  [schema : STRING, base : STRING, all_tables : BOOLEAN,
   management : Managements, overrides : SchemaOverrides]

CatalogPermissions ==
  [catalog : STRING, base : STRING, management : Managements, schemas : Seq(SchemaPermissions)]

Policies == Seq(CatalogPermissions)

-----------------------------------------------------------------------------
(* ParsePolicy.                                                            *)

Unique(seq, field) == \A i, j \in DOMAIN seq : seq[i][field] = seq[j][field] => i = j

\* Mutant of ParsePolicyAccepts: a schema listed twice is not rejected.
ParsePolicyAccepts_Duplicates(policy) ==
  /\ Unique(policy, "catalog")
  /\ \A i \in DOMAIN policy : KnownLevel(policy[i].base)

ParsePolicyAccepts(policy) ==
  /\ Unique(policy, "catalog")
  /\ \A i \in DOMAIN policy :
       LET cp == policy[i] IN
       /\ KnownLevel(cp.base)
       /\ Unique(cp.schemas, "schema")
       /\ \A j \in DOMAIN cp.schemas :
            LET sp == cp.schemas[j] IN sp.base = "" \/ KnownLevel(sp.base)

-----------------------------------------------------------------------------
(* resolve.                                                                *)

\* SchemaManagement's zero value.
NoManagement == [ddl |-> FALSE, index |-> FALSE, drop |-> FALSE]

\* tablePermission: a DML level, or (granular) a set of actions, plus DDL flags.
Permission(level, management) ==
  [level |-> level, granular |-> FALSE, actions |-> {}, management |-> management]
GranularPermission(actions, management) ==
  [level |-> AccessLevel.none, granular |-> TRUE, actions |-> actions,
   management |-> management]
Nothing == Permission(AccessLevel.none, NoManagement)

\* Mutant of EffectiveManagement: the schema's flags are merged into the catalog's.
EffectiveManagement_Merged(cp, sp) ==
  LET of(p) == IF p.management # <<>> THEN p.management[1] ELSE NoManagement
  IN [flag \in DOMAIN NoManagement |-> of(cp)[flag] \/ of(sp)[flag]]

CatalogManagement(cp) == IF cp.management # <<>> THEN cp.management[1] ELSE NoManagement

EffectiveManagement(cp, sp) ==
  IF sp.management # <<>> THEN sp.management[1] ELSE CatalogManagement(cp)

EffectiveBase(cp, sp) == LevelOf(IF sp.base # "" THEN sp.base ELSE cp.base)

\* Mutant of OverrideSteps: denied is assigned first, and append overwrites it.
OverrideSteps_DeniedFirst(cp, sp) ==
  LET ov == sp.overrides
      m  == EffectiveManagement(cp, sp)
  IN << [tables |-> ov.denied,     grants |-> Nothing],
        [tables |-> ov.append,     grants |-> Permission(AccessLevel.append, m)] >>

\* The assignments to rs.tables, in program order; each overwrites the earlier ones.
OverrideSteps(cp, sp) ==
  LET ov == sp.overrides
      m  == EffectiveManagement(cp, sp)
  IN << [tables |-> ov.read_only,  grants |-> Permission(AccessLevel.read, m)],
        [tables |-> ov.read_write, grants |-> Permission(AccessLevel.read_write, m)],
        [tables |-> ov.append,     grants |-> Permission(AccessLevel.append, m)],
        [tables |-> ov.denied,     grants |-> Nothing] >>
     \o [g \in DOMAIN ov.granular |->
           [tables |-> ov.granular[g].tables,
            grants |-> GranularPermission(ov.granular[g].actions, m)]]

-----------------------------------------------------------------------------
(* lookup and allows.                                                      *)

\* The greatest index of a set of indices (a later assignment to a map wins).
Latest(indices) == CHOOSE i \in indices : \A j \in indices : j <= i

\* In a listed schema: the table's last override, or the schema's defaults when
\* all_tables is set, or nothing.
InSchema(cp, sp, table) ==
  LET steps  == OverrideSteps(cp, sp)
      naming == {k \in DOMAIN steps : table \in steps[k].tables}
  IN IF naming # {} THEN steps[Latest(naming)].grants
     ELSE IF sp.all_tables THEN Permission(EffectiveBase(cp, sp), EffectiveManagement(cp, sp))
     ELSE Nothing

\* An unlisted schema has the catalog's defaults.
InCatalog(cp, schema, table) ==
  LET schemas == {j \in DOMAIN cp.schemas : cp.schemas[j].schema = schema}
  IN IF schemas = {} THEN Permission(LevelOf(cp.base), CatalogManagement(cp))
     ELSE InSchema(cp, cp.schemas[Latest(schemas)], table)

\* An absent catalog has nothing.
Lookup(policy, catalog, schema, table) ==
  LET catalogs == {i \in DOMAIN policy : policy[i].catalog = catalog}
  IN IF catalogs = {} THEN Nothing
     ELSE InCatalog(policy[Latest(catalogs)], schema, table)

\* The level a DML operation needs.
LevelNeeded == [SELECT |-> AccessLevel.read,       INSERT |-> AccessLevel.append,
                UPDATE |-> AccessLevel.read_write, DELETE |-> AccessLevel.read_write,
                TRUNCATE |-> AccessLevel.full_dml]

\* Mutant of Allows: INSERT is tested for the append level itself.
Allows_ExactAppend(perm, op) ==
  \/ op = "SELECT" /\ perm.level >= AccessLevel.read
  \/ op = "INSERT" /\ perm.level = AccessLevel.append
  \/ op \in {"UPDATE", "DELETE"} /\ perm.level >= AccessLevel.read_write

Allows(perm, op) ==
  \/ op = "ALTER TABLE" /\ perm.management.ddl
  \/ op \in {"CREATE INDEX", "DROP INDEX"} /\ perm.management.index
  \/ op \in {"DROP TABLE", "TRUNCATE"} /\ perm.management.drop
  \/ op \in Actions /\ perm.granular /\ op \in perm.actions
  \/ op \in Actions /\ ~perm.granular /\ perm.level >= LevelNeeded[op]

\* lookup and allows together: may the policy's holder do op on the table?
Permits(policy, access) ==
  Allows(Lookup(policy, access.catalog, access.schema, access.name), access.op)

\* queryengine.ReadOnlyPolicy: base_access "read" for every configured catalog.
ReadOnlyPolicy(catalogs) ==
  [i \in DOMAIN catalogs |->
     [catalog |-> catalogs[i], base |-> "read", management |-> <<>>, schemas |-> <<>>]]
=============================================================================
