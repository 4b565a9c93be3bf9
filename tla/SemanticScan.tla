---------------------------- MODULE SemanticScan ----------------------------
(***************************************************************************)
(* AutoScanProvider.Provide (semanticcontext/scanner.go) and the scanner   *)
(* of each type of source: the columns of a catalog are read through a     *)
(* cursor that may fail, and grouped by table; PostgreSQL and MySQL then   *)
(* have their comments fetched on a best-effort basis.                     *)
(*                                                                         *)
(* An identifier is a sequence of parts, <<"a", "b">> for one written a.b, *)
(* so that names joined by dots are concatenations.  What a source holds   *)
(* does not change during a scan.  Sources are numbered in the order of    *)
(* their keys.  A source:                                                  *)
(*   name         the key as an identifier, its catalog                    *)
(*   type         as in Config                                             *)
(*   description  metadata.description                                     *)
(*   columns      its columns in the order of the query, each with its     *)
(*                table <<schema, name>>, its name and its comment; for a  *)
(*                file, a bucket or a sheet the table is <<default, key>>  *)
(*   comments     the comments of its tables, a function of the tables     *)
(* Expressions and data types are carried along and left out.              *)
(***************************************************************************)
EXTENDS Naturals, Sequences, SequencesExt, Functions

CONSTANT SourceMaps  \* the databases of the configurations

VARIABLES sources,         \* input
          todo,            \* the keys not scanned yet
          read,            \* how many columns of the current source have been read
          ordered,         \* its tables in the order of their first column
          grouped,         \* the columns of each
          columnComments,  \* what fetchPgColumnComments has read, by joined name
          tableComments,   \* what fetch...TableComments has read
          unread,          \* the rows the comment query still has to deliver
          datasets,        \* the datasets so far
          pc

source == <<todo, read, ordered, grouped>>
comments == <<columnComments, tableComments, unread>>
vars == <<sources, source, comments, datasets, pc>>

Nothing == [n \in {} |-> ""]

Init == /\ sources \in SourceMaps
        /\ todo = DOMAIN sources
        /\ read = 0 /\ ordered = <<>> /\ grouped = [t \in {} |-> <<>>]
        /\ columnComments = Nothing /\ tableComments = Nothing /\ unread = {}
        /\ datasets = <<>>
        /\ pc = "next"

Key == CHOOSE k \in todo : \A j \in todo : k <= j
Current == sources[Key]

\* One object described by DESCRIBE, or a catalog of tables.
Described == {"file", "s3", "gsheet"}

\* map[key] = value.
Put(map, key, value) == [k \in DOMAIN map \cup {key} |-> IF k = key THEN value ELSE map[k]]

\* The columns of a table so far, none if it is not in the map.
GroupOf(table) == IF table \in DOMAIN grouped THEN grouped[table] ELSE <<>>

\* Mutant of Group: every column lists its table.
Group_NoLookup(column) ==
  /\ ordered' = Append(ordered, column.table)
  /\ grouped' = Put(grouped, column.table, Append(GroupOf(column.table), column))

Group(column) ==
  /\ ordered' = IF column.table \in DOMAIN grouped
                  THEN ordered ELSE Append(ordered, column.table)
  /\ grouped' = Put(grouped, column.table, Append(GroupOf(column.table), column))

\* Mutant of StartScan: the comments of the previous catalog are kept.
StartScan_KeepsComments(tables) ==
  /\ pc = "next" /\ pc' = "columns"
  /\ read' = 0 /\ ordered' = tables /\ grouped' = [t \in Range(tables) |-> <<>>]
  /\ UNCHANGED <<sources, todo, comments, datasets>>

\* The scanner of the next source is called, and its first query succeeds.
StartScan(tables) ==
  /\ pc = "next" /\ pc' = "columns"
  /\ read' = 0 /\ ordered' = tables /\ grouped' = [t \in Range(tables) |-> <<>>]
  /\ columnComments' = Nothing /\ tableComments' = Nothing /\ unread' = {}
  /\ UNCHANGED <<sources, todo, datasets>>

ScanCatalog   == todo # {} /\ Current.type \notin Described /\ StartScan(<<>>)
\* A file, a bucket or a sheet is one table, whether or not it has columns.
ScanDescribed == /\ todo # {} /\ Current.type \in Described
                 /\ StartScan(<<<<<<"default">>, Current.name>>>>)

Read(column) ==
  /\ pc = "columns" /\ read < Len(Current.columns)
  /\ read' = read + 1
  /\ Group(column)
  /\ UNCHANGED <<sources, todo, comments, datasets, pc>>

NextColumn == Current.columns[read + 1]

\* Only MySQL's query returns the comment with the column.
ReadColumn      == Current.type # "mysql" /\ Read([NextColumn EXCEPT !.comment = ""])
ReadWithComment == Current.type = "mysql" /\ Read(NextColumn)

\* The rows of fetchPgColumnComments and of the table comments, with the names joined.
ColumnRows == {[name |-> c.table[1] \o c.table[2] \o c.name, text |-> c.comment] :
                 c \in {d \in Range(Current.columns) : d.comment # ""}}
TableRows  == {[name |-> t[1] \o t[2], text |-> Current.comments[t]] :
                 t \in DOMAIN Current.comments}

\* The cursor ends, without an error.
ColumnsEnd(place, rows) ==
  /\ pc = "columns" /\ read = Len(Current.columns)
  /\ pc' = place /\ unread' = rows
  /\ UNCHANGED <<sources, source, columnComments, tableComments, datasets>>

EndPostgres == Current.type = "postgresql" /\ ColumnsEnd("columnComments", ColumnRows)
EndMySQL    == Current.type = "mysql" /\ ColumnsEnd("tableComments", TableRows)
EndOther    == Current.type \notin {"postgresql", "mysql"} /\ ColumnsEnd("build", {})

\* Mutant of ColumnsFail: rows.Err is not looked at.
ColumnsFail_Unnoticed ==
  /\ pc \in {"next", "columns"} /\ todo # {}
  /\ pc' = IF pc = "next" THEN "failed" ELSE "build"
  /\ UNCHANGED <<sources, source, comments, datasets>>

\* The query, the scan of a row or the cursor fails: no model is returned.
ColumnsFail ==
  /\ pc \in {"next", "columns"} /\ todo # {}
  /\ pc' = "failed" /\ datasets' = <<>>
  /\ UNCHANGED <<sources, source, comments>>

\* Comment rows come in any order; one with the name of an earlier row replaces it.
ReadComment(row) ==
  /\ unread' = unread \ {row}
  /\ \/ /\ pc = "columnComments"
        /\ columnComments' = Put(columnComments, row.name, row.text)
        /\ UNCHANGED tableComments
     \/ /\ pc = "tableComments"
        /\ tableComments' = Put(tableComments, row.name, row.text)
        /\ UNCHANGED columnComments
  /\ UNCHANGED <<sources, source, datasets, pc>>

\* All rows are read, or the query, a row or the cursor fails: what has been read
\* is used.
CommentsEnd ==
  /\ \/ pc = "columnComments" /\ pc' = "tableComments" /\ unread' = TableRows
     \/ pc = "tableComments" /\ pc' = "build" /\ unread' = {}
  /\ UNCHANGED <<sources, source, columnComments, tableComments, datasets>>

Comment(map, name, default) == IF name \in DOMAIN map THEN map[name] ELSE default

\* columnsToDataset, with the comments applied to the columns.
DatasetOf(table) ==
  LET joined == table[1] \o table[2]
  IN [name        |-> Current.name \o joined,
      description |-> IF Current.type \in Described THEN Current.description
                      ELSE Comment(tableComments, joined, ""),
      fields      |-> [i \in DOMAIN grouped[table] |->
                        LET c == grouped[table][i]
                        IN [name |-> c.name,
                            description |-> Comment(columnComments, joined \o c.name, c.comment)]]]

BuildDatasets ==
  /\ pc = "build"
  /\ datasets' = datasets \o [i \in DOMAIN ordered |-> DatasetOf(ordered[i])]
  /\ todo' = todo \ {Key}
  /\ pc' = "next"
  /\ UNCHANGED <<sources, read, ordered, grouped, comments>>

ReturnModel ==
  /\ pc = "next" /\ todo = {}
  /\ pc' = "done"
  /\ UNCHANGED <<sources, source, comments, datasets>>

Next == \/ ScanCatalog \/ ScanDescribed
        \/ /\ pc = "columns"
           /\ ReadColumn \/ ReadWithComment \/ EndPostgres \/ EndMySQL \/ EndOther
        \/ ColumnsFail
        \/ \E row \in unread : ReadComment(row)
        \/ CommentsEnd \/ BuildDatasets \/ ReturnModel

Spec == Init /\ [][Next]_vars

-----------------------------------------------------------------------------
(* Properties.                                                             *)

TablesOf(k) == {c.table : c \in Range(sources[k].columns)}

\* While a source is read, ordered lists the tables that are grouped, once each,
\* and the groups hold the columns read so far.
TypeOK ==
  /\ sources \in SourceMaps
  /\ todo \subseteq DOMAIN sources
  /\ pc \in {"next", "columns", "columnComments", "tableComments", "build", "done", "failed"}
  /\ pc \in {"columns", "columnComments", "tableComments", "build"} =>
       /\ read \in 0..Len(Current.columns)
       /\ IsInjective(ordered) /\ Range(ordered) = DOMAIN grouped

\* The tables of a source, in order, each with its columns: what a scan should find.
ExpectedTables(k) ==
  LET columns == sources[k].columns
  IN IF sources[k].type \in Described THEN <<<<<<"default">>, sources[k].name>>>>
     ELSE FlattenSeq([i \in DOMAIN columns |->
            IF \E j \in 1..i - 1 : columns[j].table = columns[i].table
              THEN <<>> ELSE <<columns[i].table>>])

ExpectedFields(k, table) ==
  LET columns == sources[k].columns
  IN FlattenSeq([i \in DOMAIN columns |->
       IF columns[i].table = table THEN <<columns[i].name>> ELSE <<>>])

Expected(k) == [i \in DOMAIN ExpectedTables(k) |->
                  [source |-> k, table |-> ExpectedTables(k)[i],
                   fields |-> ExpectedFields(k, ExpectedTables(k)[i])]]

ExpectedAll == FlattenSeq([k \in DOMAIN sources |-> Expected(k)])

\* A description in the model is a comment of that very table or column, never that
\* of another one or of another catalog, however far the comment queries got.
CommentsAreTrue ==
  pc = "done" =>
    \A i \in DOMAIN datasets :
      LET e == ExpectedAll[i]
          s == sources[e.source]
      IN /\ \/ datasets[i].description = ""
            \/ s.type \in Described /\ datasets[i].description = s.description
            \/ e.table \in DOMAIN s.comments /\ datasets[i].description = s.comments[e.table]
         /\ \A f \in Range(datasets[i].fields) :
              \/ f.description = ""
              \/ \E c \in Range(s.columns) :
                   c.table = e.table /\ c.name = f.name /\ c.comment = f.description
=============================================================================
