--------------------------- MODULE SemanticOverlay ---------------------------
(***************************************************************************)
(* The overlays of the semantic model: OverlayProvider.Provide and         *)
(* applyOverlay (semanticcontext/overlay.go), as RunMCP and RunScanContext *)
(* call them, with the files of the configuration and those of the flags.  *)
(*                                                                         *)
(* Slices are references: heap holds the arrays, and a model or a dataset  *)
(* holds the index of an array in it.  What an overlay may set on a model, *)
(* a dataset or a field (its description, ai_context, keys, dimension ...) *)
(* is a function from attributes to values, Unset if it is empty.          *)
(*   model    [attrs, datasets, relationships, metrics], the last three    *)
(*            references                                                   *)
(*   dataset  [name, attrs, fields], fields a reference                    *)
(*   field    [name, attrs]                                                *)
(*   file     [ok, models]: whether it can be read and parsed, and its     *)
(*            semantic models, like a model with the arrays in place of    *)
(*            references                                                   *)
(***************************************************************************)
EXTENDS Naturals, Sequences, SequencesExt, FiniteSetsExt

CONSTANTS ConfigFiles, \* the values of semantic_context.overlays
          FlagFiles,   \* the values of --semantic-context-overlay
          Unset

VARIABLES scanned,  \* input: the model that is enriched
          files,    \* input: the overlays of the configuration and of the flags
          heap, model,
          applied,  \* how many files have been applied
          pc

input == <<scanned, files>>
vars  == <<input, heap, model, applied, pc>>

\* Mutant of AllOverlays: the flags first.
AllOverlays_FlagsFirst(fs) == fs.flags \o fs.config

\* allOverlays.
AllOverlays(fs) == fs.config \o fs.flags

\* A model and the arrays it refers to.
Stored(m) ==
  LET n == Len(m.datasets)
  IN [heap  |-> [i \in 1..n |-> m.datasets[i].fields]
                  \o <<[i \in 1..n |-> [m.datasets[i] EXCEPT !.fields = i]],
                       m.relationships, m.metrics>>,
      model |-> [m EXCEPT !.datasets = n + 1, !.relationships = n + 2, !.metrics = n + 3]]

NoModel == [attrs |-> [a \in {} |-> Unset],
            datasets |-> <<>>, relationships |-> <<>>, metrics |-> <<>>]

Init == /\ scanned = NoModel /\ files = [config |-> <<>>, flags |-> <<>>]
        /\ heap = Stored(NoModel).heap /\ model = Stored(NoModel).model
        /\ applied = 0
        /\ pc = "waiting"

\* Provide is called with a model and the files of both kinds.
Provide(base) ==
  /\ pc = "waiting" /\ pc' = "applying"
  /\ scanned' = base /\ files' \in [config : ConfigFiles, flags : FlagFiles]
  /\ heap' = Stored(base).heap /\ model' = Stored(base).model
  /\ UNCHANGED applied

-----------------------------------------------------------------------------
(* applyOverlay.                                                           *)

\* Only what the overlay sets is replaced.
Merge(base, over) == [a \in DOMAIN base |-> IF over[a] # Unset THEN over[a] ELSE base[a]]

Names(items) == {items[i].name : i \in DOMAIN items}

\* The index Go's map has for a name: that of the last item that has it.
IndexOf(items, name) == Max({i \in DOMAIN items : items[i].name = name})

MergeField(fields, over) ==
  IF over.name \in Names(fields)
    THEN [fields EXCEPT ![IndexOf(fields, over.name)].attrs = Merge(@, over.attrs)]
    ELSE fields

MergeFields(fields, overs) ==
  LET merged[i \in 0..Len(overs)] ==
        IF i = 0 THEN fields ELSE MergeField(merged[i - 1], overs[i])
  IN merged[Len(overs)]

\* Mutant of MergeDataset: the fields are merged in the base's array.
MergeDataset_InPlace(acc, over) ==
  IF over.name \notin Names(acc.datasets) THEN acc
  ELSE LET i  == IndexOf(acc.datasets, over.name)
           ds == acc.datasets[i]
       IN [heap     |-> [acc.heap EXCEPT ![ds.fields] = MergeFields(@, over.fields)],
           datasets |-> [acc.datasets EXCEPT ![i].attrs = Merge(@, over.attrs)]]

\* A dataset the base has is enriched, with a new array of fields; another one is
\* ignored.  acc holds the heap and the copy of the datasets.
MergeDataset(acc, over) ==
  IF over.name \notin Names(acc.datasets) THEN acc
  ELSE LET i  == IndexOf(acc.datasets, over.name)
           ds == acc.datasets[i]
       IN [heap     |-> Append(acc.heap, MergeFields(acc.heap[ds.fields], over.fields)),
           datasets |-> [acc.datasets EXCEPT ![i] =
                           [name   |-> ds.name,
                            attrs  |-> Merge(ds.attrs, over.attrs),
                            fields |-> Len(acc.heap) + 1]]]

MergeDatasets(acc, overs) ==
  LET merged[i \in 0..Len(overs)] ==
        IF i = 0 THEN acc ELSE MergeDataset(merged[i - 1], overs[i])
  IN merged[Len(overs)]

Related(rel, names) == rel.from \in names /\ rel.to \in names

\* Mutant of PutMetric: the index is not kept up to date with what is appended.
PutMetric_Append(metrics, metric) == Append(metrics, metric)

\* A metric of the same name is replaced, with all it has.
PutMetric(metrics, metric) ==
  IF metric.name \in Names(metrics)
    THEN [metrics EXCEPT ![IndexOf(metrics, metric.name)] = metric]
    ELSE Append(metrics, metric)

PutMetrics(metrics, overs) ==
  LET put[i \in 0..Len(overs)] == IF i = 0 THEN metrics ELSE PutMetric(put[i - 1], overs[i])
  IN put[Len(overs)]

\* A relationship of datasets of the base is appended.
Added(rels, names) ==
  FlattenSeq([i \in DOMAIN rels |-> IF Related(rels[i], names) THEN <<rels[i]>> ELSE <<>>])

ApplyOverlay(over) ==
  LET datasets == heap[model.datasets]
      merged   == MergeDatasets([heap |-> heap, datasets |-> datasets], over.datasets)
      added    == Added(over.relationships, Names(datasets))
      metrics  == PutMetrics(heap[model.metrics], over.metrics)
      n        == Len(merged.heap)
  IN /\ heap' = merged.heap \o <<merged.datasets, heap[model.relationships] \o added, metrics>>
     /\ model' = [attrs |-> Merge(model.attrs, over.attrs),
                  datasets |-> n + 1, relationships |-> n + 2, metrics |-> n + 3]

-----------------------------------------------------------------------------
NextFile == AllOverlays(files)[applied + 1]
Applying == pc = "applying" /\ applied < Len(AllOverlays(files))

\* A file that cannot be read or parsed, or that has not exactly one model, ends
\* the command without a model.
RejectFile == /\ Applying
              /\ ~NextFile.ok \/ Len(NextFile.models) # 1
              /\ pc' = "failed"
              /\ UNCHANGED <<input, heap, model, applied>>

ApplyFile == /\ Applying
             /\ NextFile.ok /\ Len(NextFile.models) = 1
             /\ ApplyOverlay(NextFile.models[1])
             /\ applied' = applied + 1
             /\ UNCHANGED <<input, pc>>

ReturnModel == /\ pc = "applying" /\ applied = Len(AllOverlays(files))
               /\ pc' = "done"
               /\ UNCHANGED <<input, heap, model, applied>>

\* What follows Provide.
Next == RejectFile \/ ApplyFile \/ ReturnModel

-----------------------------------------------------------------------------
(* Properties.                                                             *)

\* A model with its arrays in place.
Datasets == [i \in DOMAIN heap[model.datasets] |->
               [heap[model.datasets][i] EXCEPT !.fields = heap[@]]]
Relationships == heap[model.relationships]
Metrics == heap[model.metrics]

\* Every reference stays within the heap, and no two datasets share their fields.
TypeOK ==
  /\ pc \in {"waiting", "applying", "done", "failed"}
  /\ pc # "waiting" => files \in [config : ConfigFiles, flags : FlagFiles]
  /\ applied \in 0..Len(AllOverlays(files))
  /\ {model.datasets, model.relationships, model.metrics} \subseteq DOMAIN heap
  /\ LET refs == [i \in DOMAIN heap[model.datasets] |-> heap[model.datasets][i].fields]
     IN Range(refs) \subseteq DOMAIN heap /\ IsInjective(refs)

\* The overlay models, those of the flags after those of the configuration.
Layers == FlattenSeq([i \in DOMAIN (files.config \o files.flags) |->
                        (files.config \o files.flags)[i].models])

ItemsNamed(items, name) ==
  FlattenSeq([i \in DOMAIN items |-> IF items[i].name = name THEN <<items[i]>> ELSE <<>>])
LayersOfDataset(name) ==
  FlattenSeq([i \in DOMAIN Layers |-> ItemsNamed(Layers[i].datasets, name)])
LayersOfField(name, field) ==
  LET dss == LayersOfDataset(name)
  IN FlattenSeq([i \in DOMAIN dss |-> ItemsNamed(dss[i].fields, field)])

\* The last of some layers that sets an attribute, the base if none does.
LastSet(base, layers, a) ==
  LET setters == {i \in DOMAIN layers : layers[i].attrs[a] # Unset}
  IN IF setters = {} THEN base.attrs[a] ELSE layers[Max(setters)].attrs[a]

\* A model that is returned has, for each attribute of it, of its datasets and of
\* their fields, the value of the last layer that sets it, whatever other layers set
\* or leave out: flags come after the configuration, files in order (overlay.go:21).
LaterFileWins ==
  pc = "done" =>
    /\ \A a \in DOMAIN model.attrs : model.attrs[a] = LastSet(scanned, Layers, a)
    /\ \A i \in DOMAIN Datasets :
         LET ds == Datasets[i]
             base == scanned.datasets[i]
         IN /\ \A a \in DOMAIN ds.attrs :
                 ds.attrs[a] = LastSet(base, LayersOfDataset(ds.name), a)
            /\ \A f \in DOMAIN ds.fields : \A a \in DOMAIN ds.fields[f].attrs :
                 ds.fields[f].attrs[a] =
                   LastSet(base.fields[f], LayersOfField(ds.name, ds.fields[f].name), a)

\* There is one metric of each name, that of the last layer that defines it.
MetricsAreLatest ==
  pc = "done" =>
    LET all == FlattenSeq([i \in DOMAIN Layers |-> Layers[i].metrics])
    IN /\ Names(Metrics) = Names(all)
       /\ \A i \in DOMAIN Metrics :
            /\ Metrics[i] = Last(ItemsNamed(all, Metrics[i].name))
            /\ \A j \in DOMAIN Metrics : Metrics[i].name = Metrics[j].name => i = j

\* applyOverlay "does not modify base or overlay in place" (overlay.go:58): an array
\* once made keeps what it holds, whoever else refers to it.
ArraysKeepTheirItems ==
  [][pc = "applying" => \A a \in DOMAIN heap : heap'[a] = heap[a]]_vars
=============================================================================
