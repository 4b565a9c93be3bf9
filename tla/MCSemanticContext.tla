------------------------- MODULE MCSemanticContext -------------------------
(***************************************************************************)
(* One or two sources with tables of one name in two schemas and in two    *)
(* catalogs, tables and columns with and without a comment, a file without *)
(* columns; and up to three overlay files that set, leave out or repeat    *)
(* things, name what does not exist, or are not one readable model.        *)
(***************************************************************************)
EXTENDS SemanticContext, FiniteSets, TLC

Column(schema, table, name, comment) ==
  [table |-> <<schema, table>>, name |-> <<name>>, comment |-> comment]
Source(name, type, description, cols, texts) ==
  [name |-> <<name>>, type |-> type, description |-> description,
   columns |-> cols, comments |-> texts]
None == [t \in {} |-> ""]

S == <<"s">>
S2 == <<"s2">>
T == <<"t">>
U == <<"u">>

Shop(name, type) ==
  Source(name, type, "",
         <<Column(S, T, "x", "an x"), Column(S, T, "y", ""), Column(S, U, "x", "u's x"),
           Column(S2, T, "x", "")>>,
         <<S, T>> :> "a table" @@ <<S2, T>> :> "another")
Store(name, type) ==
  Source(name, type, "", <<Column(S, T, "x", ""), Column(S, T, "y", "a y")>>, <<S, U>> :> "gone")
Csv(name, cols) == Source(name, "file", "a file", cols, None)
Lite(name) == Source(name, "sqlite", "", <<Column(S, T, "x", "")>>, None)

MCSourceMaps ==
  {<<Shop("c", "postgresql"), Store("d", "postgresql")>>, <<Shop("c", "mysql"), Lite("e")>>,
   <<Csv("f", <<>>), Store("c", "mysql")>>,
   <<Lite("c"), Csv("f", <<Column(<<"default">>, <<"f">>, "x", "")>>)>>,
   <<>>}

\* What CommentsAreTrue and LaterFileWins need.
ASSUME Undotted

-----------------------------------------------------------------------------
Attrs(text) == [description |-> text]
Field(name, text) == [name |-> <<name>>, attrs |-> Attrs(text)]
Dataset(table, text, key, items) ==
  [name |-> <<"c", "s", table>>,
   attrs |-> [description |-> text, primary_key |-> key], fields |-> items]
File(text, dss, rels, mets) ==
  [ok |-> TRUE,
   models |-> <<[attrs |-> Attrs(text), datasets |-> dss, relationships |-> rels,
                 metrics |-> mets]>>]
Rel(name, from, to) ==
  [name |-> name, from |-> <<"c", "s", from>>, to |-> <<"c", "s", to>>]
Metric(name, text) == [name |-> name, text |-> text]

\* Enriches, twice for one table, and defines a metric twice.
Rich == File("", <<Dataset("t", "t1", "x", <<Field("x", "x1"), Field("z", "z1")>>),
                   Dataset("t", "", "", <<Field("x", "x2")>>),
                   Dataset("v", "v1", "x", <<Field("x", "x1")>>)>>,
             <<Rel("r", "t", "u"), Rel("q", "t", "v")>>,
             <<Metric("m", "1"), Metric("n", "1"), Metric("m", "2")>>)
\* Sets other things, and the same ones to other values.
Other == File("other", <<Dataset("u", "", "", <<Field("x", "ux")>>),
                         Dataset("t", "t2", "", <<Field("y", "y2")>>)>>,
              <<Rel("p", "u", "t")>>, <<Metric("n", "2"), Metric("k", "1")>>)
\* Defines again what Rich defines, and a key on a column that does not exist.
Again == File("", <<Dataset("u", "u3", "ghost", <<>>)>>, <<Rel("r", "u", "t")>>, <<>>)

Good == {Rich, Other, Again}
Bad  == {[ok |-> FALSE, models |-> <<>>], [ok |-> TRUE, models |-> <<>>],
         [ok |-> TRUE, models |-> Rich.models \o Other.models]}

MCConfigFiles == {<<>>} \cup {<<f>> : f \in Good \cup Bad} \cup {<<f, g>> : f, g \in Good}
MCFlagFiles == {<<>>} \cup {<<f>> : f \in Good}
=============================================================================
