------------------------- MODULE MCPolicyValidation -------------------------
(***************************************************************************)
(* PolicyValidation on documents with one catalog and up to two schemas:   *)
(* every way a level, a management object and a table override can be      *)
(* present, absent, inherited, contradictory or malformed.                 *)
(***************************************************************************)
EXTENDS PolicyValidation

AllFlags == [ddl |-> TRUE, index |-> TRUE, drop |-> TRUE]
DropOnly == [ddl |-> FALSE, index |-> FALSE, drop |-> TRUE]

NoOverrides == [read_only |-> {}, read_write |-> {}, append |-> {}, denied |-> {},
                granular |-> <<>>]
Granular(tables, actions) == [tables |-> tables, actions |-> actions]

Overrides ==
  {NoOverrides,
   [NoOverrides EXCEPT !.read_only = {"t"}],
   [NoOverrides EXCEPT !.read_write = {"t"}, !.append = {"t"}],
   [NoOverrides EXCEPT !.append = {"t"}, !.denied = {"t"}],
   [NoOverrides EXCEPT !.denied = {"t"}, !.granular = <<Granular({"t"}, {"SELECT"})>>],
   [NoOverrides EXCEPT !.granular = <<Granular({"t"}, {"SELECT"}), Granular({"t"}, {"INSERT"})>>]}

SchemaEntries(names, bases, overrides) ==
  [schema : names, base : bases, all_tables : BOOLEAN,
   management : {<<>>, <<DropOnly>>}, overrides : overrides]

SchemaLists ==
  {<<>>}
  \cup {<<s>> : s \in SchemaEntries({"s1"}, {"", "append", "full_dml", "bogus"}, Overrides)}
  \cup {<<s1, s2>> : s1 \in SchemaEntries({"s1"}, {"", "read"}, {NoOverrides}),
                     s2 \in SchemaEntries({"s1", "s2"}, {"append"}, Overrides)}

MCDocuments ==
  {<<[catalog |-> "a", base |-> b, management |-> m, schemas |-> list]>> :
     b \in {"none", "read", "read_write"}, m \in {<<>>, <<AllFlags>>}, list \in SchemaLists}
  \cup {<<[catalog |-> "a", base |-> b, management |-> <<>>, schemas |-> <<>>],
          [catalog |-> c, base |-> "read", management |-> <<AllFlags>>, schemas |-> <<>>]>> :
     b \in {"none", "append", "bogus"}, c \in {"a", "b"}}

MCProbes == [catalog : {"a", "b"}, schema : {"s1", "s2"}, name : {"t", "u"}, op : OpTypes]

On(t, o) == [catalog |-> "a", schema |-> "s1", name |-> t, op |-> o]
MCAccessLists ==
  {<<>>, <<On("t", "SELECT"), On("u", "INSERT")>>,
   <<On("u", "SELECT"), On("t", "UPDATE"), On("t", "DROP TABLE")>>,
   <<On("t", "TRUNCATE"), On("t", "SELECT"), On("u", "ALTER TABLE")>>}
=============================================================================
