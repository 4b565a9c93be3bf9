-------------------------- MODULE SemanticContext --------------------------
(***************************************************************************)
(* The semantic model a command prints (RunScanContext) or the MCP server  *)
(* hands out (RunMCP): the scan of the sources, then the overlays of the   *)
(* configuration and of the flags.  The file names are known before the    *)
(* scan and the files are read after it, so their contents are chosen then.*)
(***************************************************************************)
EXTENDS Naturals, Sequences, Functions

CONSTANTS SourceMaps, ConfigFiles, FlagFiles, Unset

Listed(s) == s \in Seq(Range(s))
Identifier == Seq(STRING)

\* Keys are those of a map.  A source lists a column of a table once, and one that is
\* described has one table, of its own name.
ASSUME SourcesAssumption ==
  \A s \in SourceMaps :
    /\ Listed(s)
    /\ \A j, k \in DOMAIN s : s[j].name = s[k].name => j = k
    /\ \A k \in DOMAIN s :
         LET columns == s[k].columns
         IN /\ Listed(columns) /\ s[k].name \in Identifier
            /\ DOMAIN s[k].comments \subseteq Identifier \X Identifier
            /\ \A i \in DOMAIN columns :
                 /\ columns[i] \in [table : Identifier \X Identifier, name : Identifier,
                                     comment : STRING]
                 /\ s[k].type \in {"file", "s3", "gsheet"} =>
                      columns[i].table = <<<<"default">>, s[k].name>>
            /\ \A i, j \in DOMAIN columns :
                 columns[i].table = columns[j].table /\ columns[i].name = columns[j].name => i = j

\* What a file holds is lists, of anything.
ASSUME FilesAssumption ==
  \A fs \in ConfigFiles \cup FlagFiles :
    /\ Listed(fs)
    /\ \A i \in DOMAIN fs :
         /\ Listed(fs[i].models)
         /\ \A j \in DOMAIN fs[i].models :
              LET over == fs[i].models[j]
              IN /\ Listed(over.datasets) /\ Listed(over.relationships) /\ Listed(over.metrics)
                 /\ \A d \in DOMAIN over.datasets : Listed(over.datasets[d].fields)

\* No identifier of a catalog has a dot in it: different things have different names.
Undotted ==
  \A s \in SourceMaps : \A k \in DOMAIN s :
    /\ Len(s[k].name) = 1
    /\ \A c \in Range(s[k].columns) :
         Len(c.table[1]) = 1 /\ Len(c.table[2]) = 1 /\ Len(c.name) = 1
    /\ \A t \in DOMAIN s[k].comments : Len(t[1]) = 1 /\ Len(t[2]) = 1

VARIABLES sources, todo, read, ordered, grouped, columnComments, tableComments, unread,
          datasets, scanning,
          scanned, files, heap, model, applied, layering

scanVars    == <<sources, todo, read, ordered, grouped, columnComments, tableComments, unread,
                 datasets, scanning>>
overlayVars == <<scanned, files, heap, model, applied, layering>>
vars        == <<scanVars, overlayVars>>

Scan    == INSTANCE SemanticScan WITH pc <- scanning
Overlay == INSTANCE SemanticOverlay WITH pc <- layering

Init == Scan!Init /\ Overlay!Init

\* The scan's result as a model: it sets descriptions only.
ScannedModel ==
  [attrs    |-> [description |-> Unset],
   datasets |->
     [i \in DOMAIN datasets |->
       [name   |-> datasets[i].name,
        attrs  |-> [description |-> datasets[i].description, primary_key |-> Unset],
        fields |-> [f \in DOMAIN datasets[i].fields |->
                     [name  |-> datasets[i].fields[f].name,
                      attrs |-> [description |-> datasets[i].fields[f].description]]]]],
   relationships |-> <<>>, metrics |-> <<>>]

ScanStep == Scan!Next /\ UNCHANGED overlayVars

\* An error of the scan ends the command: there is nothing to put overlays on.
StartOverlays == /\ scanning = "done"
                 /\ Overlay!Provide(ScannedModel)
                 /\ UNCHANGED scanVars

OverlayStep == Overlay!Next /\ UNCHANGED scanVars

Next == ScanStep \/ StartOverlays \/ OverlayStep

Spec == Init /\ [][Next]_vars

-----------------------------------------------------------------------------
\* The types of both components.
TypeOK == Scan!TypeOK /\ Overlay!TypeOK

\* A description the scan finds is a comment of that very table or column, of that
\* very catalog (semanticcontext/scanner_pg.go:54-66).
CommentsAreTrue == Scan!CommentsAreTrue

\* Each attribute of the model has the value of the last layer that sets it
\* (semanticcontext/overlay.go:21, cmd/semanticcontext.go:40).
LaterFileWins == Overlay!LaterFileWins

\* There is one metric of each name, that of the last layer that defines it
\* (semanticcontext/overlay.go:168-183).
MetricsAreLatest == Overlay!MetricsAreLatest

\* An array that models share is never written (semanticcontext/overlay.go:58).
ArraysKeepTheirItems == Overlay!ArraysKeepTheirItems

\* End to end: a model that reaches the user lists exactly the tables and columns of
\* the catalogs, in order, and relates no others.  No file may add, drop or reorder
\* one (specs/semantic_context_layering.md:25), and a cursor that ends early is never
\* taken for a short catalog (semanticcontext/scanner_pg.go:46).
ModelMatchesCatalog ==
  layering = "done" =>
    LET expected == Scan!ExpectedAll
        found    == Overlay!Datasets
    IN /\ Len(found) = Len(expected)
       /\ \A i \in DOMAIN found :
            LET e == expected[i] IN
            /\ found[i].name = sources[e.source].name \o (e.table[1] \o e.table[2])
            /\ [f \in DOMAIN found[i].fields |-> found[i].fields[f].name] = e.fields
       /\ \A r \in Range(Overlay!Relationships) :
            {r.from, r.to} \subseteq {found[i].name : i \in DOMAIN found}
=============================================================================
