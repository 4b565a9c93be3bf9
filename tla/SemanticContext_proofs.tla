----------------------- MODULE SemanticContext_proofs -----------------------
(***************************************************************************)
(* For catalogs and overlay files of any size: the model that reaches the  *)
(* user lists what the catalogs have, describes it truly, and each of its  *)
(* attributes and metrics is that of the last file that sets it.           *)
(***************************************************************************)
EXTENDS SemanticContext, SegmentLemmas

-----------------------------------------------------------------------------
(* The invariant of the scan.                                              *)

Count      == Len(sources)
Columns(k) == sources[k].columns
Described(k) == sources[k].type \in Scan!Described
Name       == Seq(STRING \cup {"default"})  \* the provers do not see that "default" is a string
Table      == Name \X Name
DefaultTable(k) == <<<<"default">>, sources[k].name>>
NameOf(k, t) == sources[k].name \o (t[1] \o t[2])
Distinct(items) == \A i, j \in DOMAIN items : items[i].name = items[j].name => i = j
NamesIn(items) == [i \in DOMAIN items |-> items[i].name]

\* What the i-th column adds to the tables, and to the fields of one.
TablePieces(k) ==
  [i \in DOMAIN Columns(k) |->
     IF \E j \in 1..i - 1 : Columns(k)[j].table = Columns(k)[i].table
       THEN <<>> ELSE <<Columns(k)[i].table>>]
FieldPieces(k, t) ==
  [i \in DOMAIN Columns(k) |->
     IF Columns(k)[i].table = t THEN <<Columns(k)[i].name>> ELSE <<>>]

TablesUpTo(k, n) == IF Described(k) THEN <<DefaultTable(k)>> ELSE Segment(TablePieces(k), 0, n)
TableSet(k, n)   == IF Described(k) THEN {DefaultTable(k)} ELSE {Columns(k)[j].table : j \in 1..n}

\* The item is one of the first n columns, with its comment or none.
IsColumn(k, n, t, item) ==
  \E j \in 1..n : /\ Columns(k)[j].table = t /\ Columns(k)[j].name = item.name
                  /\ item.comment \in {"", Columns(k)[j].comment}

\* The items are those of the first n columns that are in table t.
GroupIs(k, n, t, items) ==
  /\ Listed(items) /\ Distinct(items)
  /\ NamesIn(items) = Segment(FieldPieces(k, t), 0, n)
  /\ \A i \in DOMAIN items : IsColumn(k, n, t, items[i])

TablesAre(k, n, tables) ==
  /\ tables = TablesUpTo(k, n)
  /\ Listed(tables) /\ IsInjective(tables) /\ Range(tables) = TableSet(k, n)

GroupIn(groups, t) == IF t \in DOMAIN groups THEN groups[t] ELSE <<>>

Grouped(k) ==
  /\ read \in 0..Len(Columns(k))
  /\ TablesAre(k, read, ordered) /\ DOMAIN grouped = Range(ordered)
  /\ \A t \in TableSet(k, Len(Columns(k))) : GroupIs(k, read, t, GroupIn(grouped, t))

ColumnRows(k) == {[name |-> c.table[1] \o c.table[2] \o c.name, text |-> c.comment] :
                    c \in {d \in Range(Columns(k)) : d.comment # ""}}
TableRows(k)  == {[name |-> t[1] \o t[2], text |-> sources[k].comments[t]] :
                    t \in DOMAIN sources[k].comments}
CommentsIn(map, rows) == \A n \in DOMAIN map : \E r \in rows : r.name = n /\ r.text = map[n]

CommentsRead(k) ==
  /\ CommentsIn(columnComments, ColumnRows(k)) /\ CommentsIn(tableComments, TableRows(k))
  /\ scanning = "columnComments" => unread \subseteq ColumnRows(k)
  /\ scanning = "tableComments" => unread \subseteq TableRows(k)

\* The description of a dataset, and those of its fields.
TrueDescription(k, table, text) ==
  \/ text = ""
  \/ Described(k) /\ text = sources[k].description
  \/ table \in DOMAIN sources[k].comments /\ text = sources[k].comments[table]

TrueField(k, table, field) ==
  \/ field.description = ""
  \/ \E c \in Range(Columns(k)) :
       c.table = table /\ c.name = field.name /\ c.comment = field.description

\* A dataset is what e expects.
IsFor(d, e) ==
  /\ e.source \in 1..Count /\ e.table \in Table
  /\ d.name = NameOf(e.source, e.table)
  /\ Listed(d.fields) /\ NamesIn(d.fields) = e.fields /\ Distinct(d.fields)
  /\ Undotted => /\ TrueDescription(e.source, e.table, d.description)
                 /\ \A f \in DOMAIN d.fields : TrueField(e.source, e.table, d.fields[f])

ExpectedOf == [k \in DOMAIN sources |-> Scan!Expected(k)]

\* The datasets ds are those of the first n sources.
Found(n, ds) ==
  LET e == Segment(ExpectedOf, 0, n)
  IN /\ Listed(ds) /\ Len(ds) = Len(e)
     /\ \A i \in DOMAIN ds : e[i].source <= n /\ IsFor(ds[i], e[i])
     /\ Undotted => Distinct(ds)

Reading == scanning \in {"columns", "columnComments", "tableComments", "build"}

Scanning(k) ==
  /\ todo = k..Count
  /\ scanning # "failed" => Found(k - 1, datasets)
  /\ Reading => /\ k <= Count /\ Grouped(k) /\ CommentsRead(k)
                /\ scanning # "columns" => read = Len(Columns(k))

ScanInv ==
  /\ sources \in SourceMaps
  /\ scanning \in {"next", "columns", "columnComments", "tableComments", "build", "done", "failed"}
  /\ \E k \in 1..Count + 1 : Scanning(k) /\ (scanning = "done" => k = Count + 1)

-----------------------------------------------------------------------------
(* The invariant of the overlays.                                          *)

\* What the files hold.
AllFiles   == UNION {Range(fs) : fs \in ConfigFiles \cup FlagFiles}
AllLayers  == UNION {Range(f.models) : f \in AllFiles}
AllItems   == UNION {Range(l.datasets) : l \in AllLayers}
AllFields  == UNION {Range(d.fields) : d \in AllItems}
AllRels    == UNION {Range(l.relationships) : l \in AllLayers}
AllMetrics == UNION {Range(l.metrics) : l \in AllLayers}

Applied == Overlay!AllOverlays(files)
LayersUpTo(n) == Segment([i \in DOMAIN Applied |-> Applied[i].models], 0, n)
MetricsIn(layers) == FlattenSeq([i \in DOMAIN layers |-> layers[i].metrics])
DatasetLayers(layers, name) ==
  FlattenSeq([i \in DOMAIN layers |-> Overlay!ItemsNamed(layers[i].datasets, name)])
FieldLayers(items, name) ==
  FlattenSeq([i \in DOMAIN items |-> Overlay!ItemsNamed(items[i].fields, name)])

\* What an attribute is after some layers.
Value(v, layers, a) ==
  LET setters == {i \in DOMAIN layers : layers[i].attrs[a] # Unset}
  IN IF setters = {} THEN v ELSE layers[Overlay!Max(setters)].attrs[a]

\* attrs is what the layers make of base.
Layered(base, attrs, layers) ==
  attrs = [a \in DOMAIN base |-> Value(base[a], layers, a)]

\* A list of fields, with their attributes; an array of datasets that share no fields.
IsFunction(f) == f = [x \in DOMAIN f |-> f[x]]
IsFields(fields) ==
  /\ Listed(fields)
  /\ \A f \in DOMAIN fields :
       /\ fields[f] = [name |-> fields[f].name, attrs |-> fields[f].attrs]
       /\ IsFunction(fields[f].attrs)
ItemsOK(h, items) ==
  /\ Listed(items)
  /\ \A i \in DOMAIN items :
       /\ items[i] = [name |-> items[i].name, attrs |-> items[i].attrs, fields |-> items[i].fields]
       /\ IsFunction(items[i].attrs)
       /\ items[i].fields \in DOMAIN h /\ IsFields(h[items[i].fields])
  /\ \A i, j \in DOMAIN items : items[i].fields = items[j].fields => i = j

HeapIs(h, m) ==
  /\ Listed(h)
  /\ {m.datasets, m.relationships, m.metrics} \subseteq DOMAIN h
  /\ ItemsOK(h, h[m.datasets])
  /\ Listed(h[m.relationships])

\* Datasets with their fields in place.
View(h, items) ==
  [i \in DOMAIN items |->
     [name |-> items[i].name, attrs |-> items[i].attrs, fields |-> h[items[i].fields]]]

\* Items are those of base, with fields of the same names.
SameShape(base, items) ==
  /\ NamesIn(items) = NamesIn(base)
  /\ \A i \in DOMAIN base : NamesIn(items[i].fields) = NamesIn(base[i].fields)

\* All names of a model are distinct.
DistinctNames(base) == Distinct(base) /\ \A i \in DOMAIN base : Distinct(base[i].fields)

\* A dataset and its fields are what the layers of the dataset make of base.
Enriches(base, item, layers) ==
  /\ Layered(base.attrs, item.attrs, layers)
  /\ \A f \in DOMAIN base.fields :
       Layered(base.fields[f].attrs, item.fields[f].attrs,
               FieldLayers(layers, base.fields[f].name))

Enriched(base, items, layers) ==
  \A i \in DOMAIN base : Enriches(base[i], items[i], DatasetLayers(layers, base[i].name))

\* One metric of each name, the last.
LatestOf(metrics, all) ==
  /\ Listed(metrics) /\ Distinct(metrics) /\ Overlay!Names(metrics) = Overlay!Names(all)
  /\ \A i \in DOMAIN metrics : metrics[i] = Overlay!Last(Overlay!ItemsNamed(all, metrics[i].name))

\* Model m, with its arrays in h, is what the layers make of base.
Overlaid(base, h, m, layers) ==
  LET items == View(h, h[m.datasets])
  IN /\ Layered(base.attrs, m.attrs, layers)
     /\ SameShape(base.datasets, items)
     /\ DistinctNames(base.datasets) => Enriched(base.datasets, items, layers)
     /\ \A r \in Range(h[m.relationships]) : {r.from, r.to} \subseteq Overlay!Names(base.datasets)
     /\ LatestOf(h[m.metrics], MetricsIn(layers))

OverlayInv ==
  /\ layering \in {"waiting", "applying", "done", "failed"}
  /\ layering = "waiting" => files = [config |-> <<>>, flags |-> <<>>] /\ applied = 0
  /\ layering # "waiting" =>
       /\ scanning = "done" /\ scanned = ScannedModel
       /\ files \in [config : ConfigFiles, flags : FlagFiles]
       /\ Overlaid(scanned, heap, model, LayersUpTo(applied))
  /\ layering = "done" => applied = Len(Applied)
  /\ applied \in 0..Len(Applied)
  /\ HeapIs(heap, model)

Inv == ScanInv /\ OverlayInv

-----------------------------------------------------------------------------
(* Lists.                                                                  *)

LEMMA OverlayFlattens == \A s : Overlay!FlattenSeq(s) = FlattenSeq(s)
BY DEF Overlay!FlattenSeq, FlattenSeq

LEMMA ScanFlattens == \A s : Scan!FlattenSeq(s) = FlattenSeq(s)
BY DEF Scan!FlattenSeq, FlattenSeq

LEMMA IsListed ==
  ASSUME NEW S, NEW s \in Seq(S)
  PROVE  /\ Listed(s) /\ Len(s) \in Nat /\ DOMAIN s = 1..Len(s)
         /\ \A i \in 1..Len(s) : s[i] \in S
<1>1. Len(s) \in Nat /\ DOMAIN s = 1..Len(s) /\ \A i \in 1..Len(s) : s[i] \in S
  BY LenProperties, ElementOfSeq
<1>2. \A i \in 1..Len(s) : s[i] \in Range(s)
  BY <1>1 DEF Range
<1>3. s \in Seq(Range(s))
  BY <1>2, Retype
<1> QED
  BY <1>1, <1>3 DEF Listed

LEMMA ListedIs ==
  ASSUME NEW s, Listed(s)
  PROVE  /\ Len(s) \in Nat /\ DOMAIN s = 1..Len(s) /\ s = [i \in 1..Len(s) |-> s[i]]
         /\ Range(s) = {s[i] : i \in 1..Len(s)}
<1>1. s \in Seq(Range(s))
  BY DEF Listed
<1>2. Len(s) \in Nat /\ DOMAIN s = 1..Len(s)
  BY <1>1, IsListed
<1>3. s = [i \in 1..Len(s) |-> s[i]]
  BY <1>1, LenProperties
<1> QED
  BY <1>2, <1>3 DEF Range

LEMMA ListedIn ==
  ASSUME NEW s, Listed(s), NEW T, \A i \in 1..Len(s) : s[i] \in T
  PROVE  s \in Seq(T)
BY Retype DEF Listed

\* A function on 1..n is a list.
LEMMA FunctionListed ==
  ASSUME NEW n \in Nat, NEW f, f = [i \in 1..n |-> f[i]]
  PROVE  Listed(f) /\ Len(f) = n /\ DOMAIN f = 1..n
<1>1. f \in [1..n -> Range(f)]
  BY DEF Range
<1>2. f \in Seq(Range(f)) /\ Len(f) = n
  BY <1>1, IsSeqOf
<1> QED
  BY <1>2 DEF Listed

\* Two lists with the same items are the same.
LEMMA SameList ==
  ASSUME NEW s, NEW t, Listed(s), Listed(t), Len(s) = Len(t),
         \A i \in 1..Len(s) : s[i] = t[i]
  PROVE  s = t
BY ListedIs

LEMMA ConcatListed ==
  ASSUME NEW s, NEW t, Listed(s), Listed(t)
  PROVE  /\ Listed(s \o t) /\ Len(s \o t) = Len(s) + Len(t)
         /\ \A i \in 1..Len(s) : (s \o t)[i] = s[i]
         /\ \A i \in 1..Len(t) : (s \o t)[Len(s) + i] = t[i]
         /\ \A i \in DOMAIN (s \o t) :
              i \in DOMAIN s \/ (i - Len(s) \in DOMAIN t /\ i = Len(s) + (i - Len(s)) /\ i > Len(s))
<1> DEFINE T == Range(s) \cup Range(t)
<1>1. Len(s) \in Nat /\ Len(t) \in Nat /\ DOMAIN s = 1..Len(s) /\ DOMAIN t = 1..Len(t)
  BY ListedIs
<1>2. s \in Seq(T) /\ t \in Seq(T)
  <2>1. (\A i \in 1..Len(s) : s[i] \in T) /\ (\A i \in 1..Len(t) : t[i] \in T)
    BY <1>1 DEF Range
  <2> HIDE DEF T
  <2> QED
    BY <2>1, ListedIn
<1> HIDE DEF T
<1>3. /\ s \o t \in Seq(T) /\ Len(s \o t) = Len(s) + Len(t)
      /\ \A i \in 1..Len(s) + Len(t) :
           (s \o t)[i] = IF i <= Len(s) THEN s[i] ELSE t[i - Len(s)]
  BY <1>2, ConcatProperties
<1>4. Listed(s \o t) /\ DOMAIN (s \o t) = 1..Len(s) + Len(t)
  BY <1>3, IsListed
<1>5. \A i \in 1..Len(s) : (s \o t)[i] = s[i]
  BY <1>1, <1>3
<1>6. ASSUME NEW i \in 1..Len(t) PROVE (s \o t)[Len(s) + i] = t[i]
  <2>1. /\ Len(s) + i \in 1..Len(s) + Len(t) /\ ~(Len(s) + i <= Len(s))
        /\ (Len(s) + i) - Len(s) = i
    BY <1>1
  <2> QED
    BY <1>3, <2>1
<1>7. ASSUME NEW i \in 1..Len(s) + Len(t)
      PROVE  i \in 1..Len(s) \/ (i - Len(s) \in 1..Len(t) /\ i = Len(s) + (i - Len(s)) /\ i > Len(s))
  BY <1>1
<1> QED
  BY <1>1, <1>3, <1>4, <1>5, <1>6, <1>7

\* Concatenation is associative.
LEMMA ConcatThree ==
  ASSUME NEW s, NEW t, NEW u, Listed(s), Listed(t), Listed(u)
  PROVE  \A x, y : x = s \o t /\ y = t \o u => x \o u = s \o y
<1> DEFINE T == Range(s) \cup Range(t) \cup Range(u)
<1>1. Len(s) \in Nat /\ Len(t) \in Nat /\ Len(u) \in Nat
  BY ListedIs
<1>2. /\ \A i \in 1..Len(s) : s[i] \in T
      /\ \A i \in 1..Len(t) : t[i] \in T
      /\ \A i \in 1..Len(u) : u[i] \in T
  BY ListedIs
<1> HIDE DEF T
<1>3. s \in Seq(T) /\ t \in Seq(T) /\ u \in Seq(T)
  BY <1>2, ListedIn
<1> QED
  BY <1>3, ConcatIsAssociative

LEMMA OneListed ==
  ASSUME NEW x
  PROVE  Listed(<<x>>) /\ Len(<<x>>) = 1 /\ <<x>>[1] = x
<1>1. <<x>> \in Seq({x})
  OBVIOUS
<1> QED
  BY <1>1, IsListed

LEMMA EmptyListed == Listed(<<>>) /\ Len(<<>>) = 0 /\ DOMAIN (<<>>) = {}
<1>1. <<>> \in Seq({}) /\ Len(<<>>) = 0
  OBVIOUS
<1>2. 1..0 = {}
  OBVIOUS
<1> QED
  BY <1>1, <1>2, IsListed

LEMMA ConcatEmpty ==
  ASSUME NEW s, Listed(s)
  PROVE  s \o <<>> = s /\ <<>> \o s = s
BY ConcatEmptySeq DEF Listed

\* The first k items of a list.
Prefix(s, k) == [i \in 1..k |-> s[i]]

LEMMA PrefixIs ==
  ASSUME NEW s, Listed(s)
  PROVE  /\ Prefix(s, 0) = <<>> /\ Prefix(s, Len(s)) = s
         /\ \A k \in 0..Len(s) : Listed(Prefix(s, k)) /\ Len(Prefix(s, k)) = k
         /\ \A k \in 1..Len(s) : Prefix(s, k) = Prefix(s, k - 1) \o <<s[k]>>
<1>1. Len(s) \in Nat
  BY ListedIs
<1>2. Prefix(s, 0) = <<>>
  <2>1. 1..0 = {}
    OBVIOUS
  <2> QED
    BY <2>1 DEF Prefix
<1>3. Prefix(s, Len(s)) = s
  BY ListedIs DEF Prefix
<1>4. ASSUME NEW k \in 0..Len(s) PROVE Listed(Prefix(s, k)) /\ Len(Prefix(s, k)) = k
  BY <1>1, FunctionListed DEF Prefix
<1>5. ASSUME NEW k \in 1..Len(s) PROVE Prefix(s, k) = Prefix(s, k - 1) \o <<s[k]>>
  <2>1. k \in 0..Len(s) /\ k - 1 \in 0..Len(s) /\ (k - 1) + 1 = k
    BY <1>1
  <2>2. PICK p, q, z : p = Prefix(s, k) /\ q = Prefix(s, k - 1) /\ z = <<s[k]>>
    OBVIOUS
  <2>3. Listed(p) /\ Len(p) = k /\ Listed(q) /\ Len(q) = k - 1
    BY <1>4, <2>1, <2>2
  <2>4. Listed(z) /\ Len(z) = 1 /\ z[1] = s[k]
    BY <2>2, OneListed
  <2>5. /\ Listed(q \o z) /\ Len(q \o z) = k
        /\ \A i \in 1..k - 1 : (q \o z)[i] = q[i]
        /\ (q \o z)[k] = z[1]
    <3>1. /\ Listed(q \o z) /\ Len(q \o z) = Len(q) + Len(z)
          /\ \A i \in 1..Len(q) : (q \o z)[i] = q[i]
          /\ \A i \in 1..Len(z) : (q \o z)[Len(q) + i] = z[i]
      <4>1. Listed(q) /\ Listed(z)
        BY <2>3, <2>4
      <4> QED
        BY <4>1, ConcatListed
    <3>2. 1 \in 1..1
      OBVIOUS
    <3> QED
      BY <2>1, <2>3, <2>4, <3>1, <3>2
  <2>6. (\A i \in 1..k - 1 : q[i] = s[i]) /\ (\A i \in 1..k : p[i] = s[i])
    BY <2>2 DEF Prefix
  <2>7. ASSUME NEW i \in 1..k PROVE (q \o z)[i] = p[i]
    <3>1. i = k \/ i \in 1..k - 1
      BY <1>1
    <3> QED
      BY <2>4, <2>5, <2>6, <3>1
  <2>8. q \o z = p
    BY <2>3, <2>5, <2>7, SameList
  <2> QED
    BY <2>2, <2>8
<1> QED
  BY <1>2, <1>3, <1>4, <1>5

LEMMA PrefixType ==
  ASSUME NEW s, Listed(s), NEW k \in 1..Len(s)
  PROVE  Prefix(s, k - 1) \in Seq(Range(s)) /\ <<s[k]>> \in Seq(Range(s))
<1>1. Len(s) \in Nat /\ DOMAIN s = 1..Len(s)
  BY ListedIs
<1>2. k - 1 \in Nat /\ k - 1 \in 0..Len(s) /\ \A i \in 1..k - 1 : i \in 1..Len(s)
  BY <1>1
<1>3. \A i \in 1..Len(s) : s[i] \in Range(s)
  BY <1>1 DEF Range
<1>4. Prefix(s, k - 1) \in [1..k - 1 -> Range(s)]
  BY <1>2, <1>3 DEF Prefix
<1>5. Prefix(s, k - 1) \in Seq(Range(s))
  BY <1>2, <1>4, IsSeqOf
<1> QED
  BY <1>3, <1>5, OneOrTwo

LEMMA IsConcat ==
  ASSUME NEW p, NEW q, NEW r, Listed(p), Listed(q), Listed(r), Len(r) = Len(p) + Len(q),
         \A i \in 1..Len(p) : r[i] = p[i], \A i \in 1..Len(q) : r[Len(p) + i] = q[i]
  PROVE  r = p \o q
<1> DEFINE z == p \o q
<1>1. /\ Listed(z) /\ Len(z) = Len(p) + Len(q)
      /\ \A i \in 1..Len(p) : z[i] = p[i]
      /\ \A i \in 1..Len(q) : z[Len(p) + i] = q[i]
  BY ConcatListed
<1> HIDE DEF z
<1>2. Len(p) \in Nat /\ Len(q) \in Nat
  BY ListedIs
<1>3. ASSUME NEW i \in 1..Len(r) PROVE r[i] = z[i]
  <2>1. CASE i <= Len(p)
    <3>1. i \in 1..Len(p)
      BY <1>2, <2>1
    <3> QED
      BY <1>1, <3>1
  <2>2. CASE ~(i <= Len(p))
    <3>1. PICK j \in 1..Len(q) : i = Len(p) + j
      <4>1. i - Len(p) \in 1..Len(q) /\ i = Len(p) + (i - Len(p))
        BY <1>2, <2>2
      <4> QED
        BY <4>1
    <3> QED
      BY <1>1, <3>1
  <2> QED
    BY <2>1, <2>2
<1>4. r = z
  BY <1>1, <1>3, SameList
<1> QED
  BY <1>4 DEF z

LEMMA MaxIs ==
  ASSUME NEW n \in Nat, NEW S, S \subseteq 1..n, S # {}
  PROVE  Overlay!Max(S) \in S /\ \A i \in S : i <= Overlay!Max(S)
<1> DEFINE Above == {m \in Nat : \A i \in S : i <= m}
<1>1. Above \subseteq Nat /\ n \in Above
  BY DEF Above
<1> HIDE DEF Above
<1>2. PICK m \in Above : m \in Nat /\ \A k \in Above : m <= k
  BY <1>1, LeastNat
<1>3. \A i \in S : i <= m
  BY <1>2 DEF Above
<1>4. m \in S
  <2> SUFFICES ASSUME m \notin S PROVE FALSE
    OBVIOUS
  <2>1. \A i \in S : i <= m - 1 /\ m - 1 \in Nat
    BY <1>2, <1>3
  <2>2. m - 1 \in Above
    BY <2>1 DEF Above
  <2> QED
    BY <1>2, <2>2
<1>5. \E x \in S : \A y \in S : x >= y
  BY <1>3, <1>4
<1>6. Overlay!Max(S) \in S /\ \A y \in S : Overlay!Max(S) >= y
  BY <1>5 DEF Overlay!Max
<1>7. \A i \in S : i \in Nat
  OBVIOUS
<1> QED
  BY <1>6, <1>7

-----------------------------------------------------------------------------
(* Items and their names.                                                  *)

LEMMA IndexIs ==
  ASSUME NEW items, Listed(items), NEW name, name \in Overlay!Names(items)
  PROVE  LET i == Overlay!IndexOf(items, name)
         IN /\ i \in DOMAIN items /\ items[i].name = name
            /\ Distinct(items) => \A j \in DOMAIN items : items[j].name = name => j = i
<1> DEFINE S == {i \in DOMAIN items : items[i].name = name}
<1>1. Len(items) \in Nat /\ S \subseteq 1..Len(items) /\ S # {}
  BY ListedIs DEF Overlay!Names
<1>2. Overlay!Max(S) \in S
  <2> HIDE DEF S
  <2> QED
    BY <1>1, MaxIs
<1>3. Overlay!IndexOf(items, name) \in S
  BY <1>2 DEF Overlay!IndexOf
<1> QED
  BY <1>3 DEF Distinct

\* What an item adds to the items of a name.
Named(item, name) == IF item.name = name THEN <<item>> ELSE <<>>
NamedPieces(items, name) == [i \in DOMAIN items |-> Named(items[i], name)]

LEMMA NamedPiecesIs ==
  ASSUME NEW T, NEW x \in Seq(T), NEW name
  PROVE  /\ NamedPieces(x, name) \in Seq(Seq(T)) /\ Len(NamedPieces(x, name)) = Len(x)
         /\ \A i \in 1..Len(x) : NamedPieces(x, name)[i] = Named(x[i], name)
         /\ Overlay!ItemsNamed(x, name) = FlattenSeq(NamedPieces(x, name))
<1>1. Len(x) \in Nat /\ DOMAIN x = 1..Len(x) /\ \A i \in 1..Len(x) : x[i] \in T
  BY IsListed
<1>2. ASSUME NEW i \in 1..Len(x) PROVE Named(x[i], name) \in Seq(T)
  <2>1. <<x[i]>> \in Seq(T) /\ <<>> \in Seq(T)
    BY <1>1, OneOrTwo
  <2> QED
    BY <2>1, Zenon DEF Named
<1>3. NamedPieces(x, name) \in [1..Len(x) -> Seq(T)]
  BY <1>1, <1>2 DEF NamedPieces
<1>4. NamedPieces(x, name) \in Seq(Seq(T)) /\ Len(NamedPieces(x, name)) = Len(x)
  BY <1>1, <1>3, IsSeqOf
<1>5. \A i \in 1..Len(x) : NamedPieces(x, name)[i] = Named(x[i], name)
  BY <1>1 DEF NamedPieces
<1>6. Overlay!ItemsNamed(x, name) = FlattenSeq(NamedPieces(x, name))
  BY OverlayFlattens, Zenon DEF Overlay!ItemsNamed, NamedPieces, Named
<1> QED
  BY <1>4, <1>5, <1>6

LEMMA ItemsNamedType ==
  ASSUME NEW T, NEW x \in Seq(T), NEW name
  PROVE  Overlay!ItemsNamed(x, name) \in Seq(T)
<1>1. FlattenSeq(NamedPieces(x, name)) \in Seq(T)
  BY NamedPiecesIs, FlattenType
<1> QED
  BY <1>1, NamedPiecesIs

LEMMA ItemsNamedConcat ==
  ASSUME NEW T, NEW x \in Seq(T), NEW y \in Seq(T), NEW name
  PROVE  Overlay!ItemsNamed(x \o y, name) =
           Overlay!ItemsNamed(x, name) \o Overlay!ItemsNamed(y, name)
<1>1. PICK z : z = x \o y
  OBVIOUS
<1>2. z \in Seq(T)
  BY <1>1, ConcatProperties
<1>3. PICK p, q, r : /\ p = NamedPieces(x, name) /\ q = NamedPieces(y, name)
                     /\ r = NamedPieces(z, name)
  OBVIOUS
<1>4. /\ p \in Seq(Seq(T)) /\ Len(p) = Len(x) /\ \A i \in 1..Len(x) : p[i] = Named(x[i], name)
      /\ q \in Seq(Seq(T)) /\ Len(q) = Len(y) /\ \A i \in 1..Len(y) : q[i] = Named(y[i], name)
      /\ r \in Seq(Seq(T)) /\ Len(r) = Len(z) /\ \A i \in 1..Len(z) : r[i] = Named(z[i], name)
  BY <1>2, <1>3, NamedPiecesIs
<1>5. /\ Listed(x) /\ Listed(y) /\ Listed(p) /\ Listed(q) /\ Listed(r)
  BY <1>4, IsListed
<1>6. /\ Len(z) = Len(x) + Len(y) /\ Len(x) \in Nat /\ Len(y) \in Nat
      /\ \A i \in 1..Len(x) : z[i] = x[i]
      /\ \A i \in 1..Len(y) : z[Len(x) + i] = y[i]
  BY <1>1, <1>5, ConcatListed, ListedIs
<1>7. \A i \in 1..Len(p) : r[i] = p[i]
  BY <1>4, <1>6
<1>8. ASSUME NEW i \in 1..Len(q) PROVE r[Len(p) + i] = q[i]
  <2>1. Len(x) + i \in 1..Len(z)
    BY <1>4, <1>6
  <2> QED
    BY <1>4, <1>6, <2>1
<1>9. r = p \o q
  <2>1. Len(r) = Len(p) + Len(q)
    BY <1>4, <1>6
  <2> QED
    BY <1>5, <1>7, <1>8, <2>1, IsConcat
<1>10. FlattenSeq(p \o q) = FlattenSeq(p) \o FlattenSeq(q)
  BY <1>4, FlattenConcat
<1>11. /\ Overlay!ItemsNamed(x, name) = FlattenSeq(p) /\ Overlay!ItemsNamed(y, name) = FlattenSeq(q)
       /\ Overlay!ItemsNamed(z, name) = FlattenSeq(r)
  BY <1>2, <1>3, NamedPiecesIs
<1> QED
  BY <1>1, <1>9, <1>10, <1>11, Zenon

LEMMA ItemsNamedOne ==
  ASSUME NEW item, NEW name
  PROVE  /\ Overlay!ItemsNamed(<<item>>, name) = Named(item, name)
         /\ Overlay!ItemsNamed(<<>>, name) = <<>>
<1>1. NamedPieces(<<item>>, name) = <<Named(item, name)>> /\ NamedPieces(<<>>, name) = <<>>
  BY DEF NamedPieces
<1>2. <<item>> \in Seq({item}) /\ <<>> \in Seq({item})
  OBVIOUS
<1>3. /\ Overlay!ItemsNamed(<<item>>, name) = FlattenSeq(NamedPieces(<<item>>, name))
      /\ Overlay!ItemsNamed(<<>>, name) = FlattenSeq(NamedPieces(<<>>, name))
  BY <1>2, NamedPiecesIs
<1> QED
  BY <1>1, <1>3, FlattenOne, FlattenNone, Zenon

-----------------------------------------------------------------------------
(* The loops of applyOverlay, one step at a time.                          *)

\* The values of m are those of the loop of MergeFields.
FieldSteps(m, first, overs, n) ==
  /\ m = [i \in 0..n |-> m[i]] /\ m[0] = first
  /\ \A i \in 1..n : m[i] = Overlay!MergeField(m[i - 1], overs[i])

LEMMA FieldLoop ==
  ASSUME NEW first, NEW overs, Len(overs) \in Nat
  PROVE  \E m : /\ FieldSteps(m, first, overs, Len(overs))
                /\ Overlay!MergeFields(first, overs) = m[Len(overs)]
<1> DEFINE L == Len(overs)
           Good == {n \in 0..L : \E m : FieldSteps(m, first, overs, n)}
           Eq(h) == h = [i \in 0..L |-> IF i = 0 THEN first
                                        ELSE Overlay!MergeField(h[i - 1], overs[i])]
           merged == CHOOSE h : Eq(h)
<1>1. 0 \in Good
  <2>1. FieldSteps([i \in 0..0 |-> first], first, overs, 0)
    BY DEF FieldSteps
  <2>2. \E m : FieldSteps(m, first, overs, 0)
    BY <2>1, Zenon
  <2> QED
    BY <2>2
<1>2. ASSUME NEW n \in 1..L, n - 1 \in Good PROVE n \in Good
  <2>1. PICK m : FieldSteps(m, first, overs, n - 1)
    BY <1>2
  <2> DEFINE g == [i \in 0..n |-> IF i = n THEN Overlay!MergeField(m[n - 1], overs[n]) ELSE m[i]]
  <2>2. g[0] = first /\ g[n] = Overlay!MergeField(m[n - 1], overs[n])
    BY <2>1 DEF FieldSteps
  <2>3. \A i \in 0..n - 1 : g[i] = m[i]
    OBVIOUS
  <2>4. ASSUME NEW i \in 1..n PROVE g[i] = Overlay!MergeField(g[i - 1], overs[i])
    <3>1. i - 1 \in 0..n - 1
      OBVIOUS
    <3>2. g[i - 1] = m[i - 1]
      BY <2>3, <3>1
    <3>3. CASE i = n
      BY <2>2, <3>2, <3>3
    <3>4. CASE i # n
      <4>1. i \in 1..n - 1 /\ i \in 0..n - 1
        BY <3>4
      <4> QED
        BY <2>1, <2>3, <3>2, <4>1 DEF FieldSteps
    <3> QED
      BY <3>3, <3>4
  <2>5. g = [i \in 0..n |-> g[i]]
    OBVIOUS
  <2> HIDE DEF g
  <2>6. FieldSteps(g, first, overs, n)
    BY <2>2, <2>4, <2>5 DEF FieldSteps
  <2>7. \E h : FieldSteps(h, first, overs, n)
    BY <2>6, Zenon
  <2> QED
    BY <2>7
<1>3. L \in Good
  <2> HIDE DEF Good
  <2>1. \A i \in 0..L : i \in Good
    BY <1>1, <1>2, Loop
  <2> QED
    BY <2>1
<1>4. PICK m : FieldSteps(m, first, overs, L)
  BY <1>3
<1>5. Eq(m)
  <2>1. ASSUME NEW i \in 0..L
        PROVE  m[i] = IF i = 0 THEN first ELSE Overlay!MergeField(m[i - 1], overs[i])
    <3>1. i = 0 \/ i \in 1..L
      OBVIOUS
    <3> QED
      BY <1>4, <3>1 DEF FieldSteps
  <2> QED
    BY <1>4, <2>1 DEF FieldSteps
<1>6. Eq(merged)
  BY <1>5
<1>7. Overlay!MergeFields(first, overs) = merged[L]
  BY DEF Overlay!MergeFields
<1> HIDE DEF merged
<1>8. FieldSteps(merged, first, overs, L)
  BY <1>6 DEF FieldSteps
<1> QED
  BY <1>7, <1>8

\* The values of m are those of the loop of MergeDatasets.
DatasetSteps(m, first, overs, n) ==
  /\ m = [i \in 0..n |-> m[i]] /\ m[0] = first
  /\ \A i \in 1..n : m[i] = Overlay!MergeDataset(m[i - 1], overs[i])

LEMMA DatasetLoop ==
  ASSUME NEW first, NEW overs, Len(overs) \in Nat
  PROVE  \E m : /\ DatasetSteps(m, first, overs, Len(overs))
                /\ Overlay!MergeDatasets(first, overs) = m[Len(overs)]
<1> DEFINE L == Len(overs)
           Good == {n \in 0..L : \E m : DatasetSteps(m, first, overs, n)}
           Eq(h) == h = [i \in 0..L |-> IF i = 0 THEN first
                                        ELSE Overlay!MergeDataset(h[i - 1], overs[i])]
           merged == CHOOSE h : Eq(h)
<1>1. 0 \in Good
  <2>1. DatasetSteps([i \in 0..0 |-> first], first, overs, 0)
    BY DEF DatasetSteps
  <2>2. \E m : DatasetSteps(m, first, overs, 0)
    BY <2>1, Zenon
  <2> QED
    BY <2>2
<1>2. ASSUME NEW n \in 1..L, n - 1 \in Good PROVE n \in Good
  <2>1. PICK m : DatasetSteps(m, first, overs, n - 1)
    BY <1>2
  <2> DEFINE g == [i \in 0..n |-> IF i = n THEN Overlay!MergeDataset(m[n - 1], overs[n]) ELSE m[i]]
  <2>2. g[0] = first /\ g[n] = Overlay!MergeDataset(m[n - 1], overs[n])
    BY <2>1 DEF DatasetSteps
  <2>3. \A i \in 0..n - 1 : g[i] = m[i]
    OBVIOUS
  <2>4. ASSUME NEW i \in 1..n PROVE g[i] = Overlay!MergeDataset(g[i - 1], overs[i])
    <3>1. i - 1 \in 0..n - 1
      OBVIOUS
    <3>2. g[i - 1] = m[i - 1]
      BY <2>3, <3>1
    <3>3. CASE i = n
      BY <2>2, <3>2, <3>3
    <3>4. CASE i # n
      <4>1. i \in 1..n - 1 /\ i \in 0..n - 1
        BY <3>4
      <4> QED
        BY <2>1, <2>3, <3>2, <4>1 DEF DatasetSteps
    <3> QED
      BY <3>3, <3>4
  <2>5. g = [i \in 0..n |-> g[i]]
    OBVIOUS
  <2> HIDE DEF g
  <2>6. DatasetSteps(g, first, overs, n)
    BY <2>2, <2>4, <2>5 DEF DatasetSteps
  <2>7. \E h : DatasetSteps(h, first, overs, n)
    BY <2>6, Zenon
  <2> QED
    BY <2>7
<1>3. L \in Good
  <2> HIDE DEF Good
  <2>1. \A i \in 0..L : i \in Good
    BY <1>1, <1>2, Loop
  <2> QED
    BY <2>1
<1>4. PICK m : DatasetSteps(m, first, overs, L)
  BY <1>3
<1>5. Eq(m)
  <2>1. ASSUME NEW i \in 0..L
        PROVE  m[i] = IF i = 0 THEN first ELSE Overlay!MergeDataset(m[i - 1], overs[i])
    <3>1. i = 0 \/ i \in 1..L
      OBVIOUS
    <3> QED
      BY <1>4, <3>1 DEF DatasetSteps
  <2> QED
    BY <1>4, <2>1 DEF DatasetSteps
<1>6. Eq(merged)
  BY <1>5
<1>7. Overlay!MergeDatasets(first, overs) = merged[L]
  BY DEF Overlay!MergeDatasets
<1> HIDE DEF merged
<1>8. DatasetSteps(merged, first, overs, L)
  BY <1>6 DEF DatasetSteps
<1> QED
  BY <1>7, <1>8

\* The values of m are those of the loop of PutMetrics.
MetricSteps(m, first, overs, n) ==
  /\ m = [i \in 0..n |-> m[i]] /\ m[0] = first
  /\ \A i \in 1..n : m[i] = Overlay!PutMetric(m[i - 1], overs[i])

LEMMA MetricLoop ==
  ASSUME NEW first, NEW overs, Len(overs) \in Nat
  PROVE  \E m : /\ MetricSteps(m, first, overs, Len(overs))
                /\ Overlay!PutMetrics(first, overs) = m[Len(overs)]
<1> DEFINE L == Len(overs)
           Good == {n \in 0..L : \E m : MetricSteps(m, first, overs, n)}
           Eq(h) == h = [i \in 0..L |-> IF i = 0 THEN first
                                        ELSE Overlay!PutMetric(h[i - 1], overs[i])]
           merged == CHOOSE h : Eq(h)
<1>1. 0 \in Good
  <2>1. MetricSteps([i \in 0..0 |-> first], first, overs, 0)
    BY DEF MetricSteps
  <2>2. \E m : MetricSteps(m, first, overs, 0)
    BY <2>1, Zenon
  <2> QED
    BY <2>2
<1>2. ASSUME NEW n \in 1..L, n - 1 \in Good PROVE n \in Good
  <2>1. PICK m : MetricSteps(m, first, overs, n - 1)
    BY <1>2
  <2> DEFINE g == [i \in 0..n |-> IF i = n THEN Overlay!PutMetric(m[n - 1], overs[n]) ELSE m[i]]
  <2>2. g[0] = first /\ g[n] = Overlay!PutMetric(m[n - 1], overs[n])
    BY <2>1 DEF MetricSteps
  <2>3. \A i \in 0..n - 1 : g[i] = m[i]
    OBVIOUS
  <2>4. ASSUME NEW i \in 1..n PROVE g[i] = Overlay!PutMetric(g[i - 1], overs[i])
    <3>1. i - 1 \in 0..n - 1
      OBVIOUS
    <3>2. g[i - 1] = m[i - 1]
      BY <2>3, <3>1
    <3>3. CASE i = n
      BY <2>2, <3>2, <3>3
    <3>4. CASE i # n
      <4>1. i \in 1..n - 1 /\ i \in 0..n - 1
        BY <3>4
      <4> QED
        BY <2>1, <2>3, <3>2, <4>1 DEF MetricSteps
    <3> QED
      BY <3>3, <3>4
  <2>5. g = [i \in 0..n |-> g[i]]
    OBVIOUS
  <2> HIDE DEF g
  <2>6. MetricSteps(g, first, overs, n)
    BY <2>2, <2>4, <2>5 DEF MetricSteps
  <2>7. \E h : MetricSteps(h, first, overs, n)
    BY <2>6, Zenon
  <2> QED
    BY <2>7
<1>3. L \in Good
  <2> HIDE DEF Good
  <2>1. \A i \in 0..L : i \in Good
    BY <1>1, <1>2, Loop
  <2> QED
    BY <2>1
<1>4. PICK m : MetricSteps(m, first, overs, L)
  BY <1>3
<1>5. Eq(m)
  <2>1. ASSUME NEW i \in 0..L
        PROVE  m[i] = IF i = 0 THEN first ELSE Overlay!PutMetric(m[i - 1], overs[i])
    <3>1. i = 0 \/ i \in 1..L
      OBVIOUS
    <3> QED
      BY <1>4, <3>1 DEF MetricSteps
  <2> QED
    BY <1>4, <2>1 DEF MetricSteps
<1>6. Eq(merged)
  BY <1>5
<1>7. Overlay!PutMetrics(first, overs) = merged[L]
  BY DEF Overlay!PutMetrics
<1> HIDE DEF merged
<1>8. MetricSteps(merged, first, overs, L)
  BY <1>6 DEF MetricSteps
<1> QED
  BY <1>7, <1>8

-----------------------------------------------------------------------------
(* Attributes and layers.                                                  *)

Setters(layers, a) == {i \in DOMAIN layers : layers[i].attrs[a] # Unset}

LEMMA ValueConcat ==
  ASSUME NEW x, NEW y, Listed(x), Listed(y), NEW v, NEW a
  PROVE  Value(v, x \o y, a) = Value(Value(v, x, a), y, a)
<1>1. PICK z : z = x \o y
  OBVIOUS
<1>2. /\ Listed(z) /\ Len(z) = Len(x) + Len(y)
      /\ \A i \in 1..Len(x) : z[i] = x[i]
      /\ \A i \in 1..Len(y) : z[Len(x) + i] = y[i]
  BY <1>1, ConcatListed
<1>3. /\ Len(x) \in Nat /\ Len(y) \in Nat /\ Len(z) \in Nat
      /\ DOMAIN x = 1..Len(x) /\ DOMAIN y = 1..Len(y) /\ DOMAIN z = 1..Len(z)
  BY <1>2, ListedIs
<1>4. PICK sx, sy, sz : sx = Setters(x, a) /\ sy = Setters(y, a) /\ sz = Setters(z, a)
  OBVIOUS
<1>5. sx \subseteq 1..Len(x) /\ sy \subseteq 1..Len(y) /\ sz \subseteq 1..Len(z)
  BY <1>3, <1>4 DEF Setters
<1>6. /\ \A i \in 1..Len(x) : i \in sz <=> i \in sx
      /\ \A i \in 1..Len(y) : Len(x) + i \in sz <=> i \in sy
  <2>1. ASSUME NEW i \in 1..Len(x) PROVE i \in sz <=> i \in sx
    BY <1>2, <1>3, <1>4 DEF Setters
  <2>2. ASSUME NEW i \in 1..Len(y) PROVE Len(x) + i \in sz <=> i \in sy
    <3>1. Len(x) + i \in 1..Len(z)
      BY <1>2, <1>3
    <3> QED
      BY <1>2, <1>3, <1>4, <3>1 DEF Setters
  <2> QED
    BY <2>1, <2>2
<1>7. /\ \A w : Value(w, x, a) = IF sx = {} THEN w ELSE x[Overlay!Max(sx)].attrs[a]
      /\ \A w : Value(w, y, a) = IF sy = {} THEN w ELSE y[Overlay!Max(sy)].attrs[a]
      /\ Value(v, z, a) = IF sz = {} THEN v ELSE z[Overlay!Max(sz)].attrs[a]
  BY <1>4 DEF Value, Setters
<1>8. CASE sy = {}
  <2>1. sz = sx
    <3>1. ASSUME NEW i \in sz PROVE i \in sx
      <4>1. i \in 1..Len(x) \/ (i - Len(x) \in 1..Len(y) /\ i = Len(x) + (i - Len(x)))
        BY <1>2, <1>3, <1>5
      <4> QED
        BY <1>6, <1>8, <4>1
    <3> QED
      BY <1>5, <1>6, <3>1
  <2>2. Value(Value(v, x, a), y, a) = Value(v, x, a)
    BY <1>7, <1>8
  <2>3. CASE sx = {}
    BY <1>1, <1>7, <2>1, <2>2, <2>3
  <2>4. CASE sx # {}
    <3>1. Overlay!Max(sx) \in 1..Len(x)
      BY <1>3, <1>5, <2>4, MaxIs
    <3>2. z[Overlay!Max(sx)] = x[Overlay!Max(sx)]
      BY <1>2, <3>1
    <3>3. Value(v, z, a) = z[Overlay!Max(sx)].attrs[a] /\ Value(v, x, a) = x[Overlay!Max(sx)].attrs[a]
      BY <1>7, <2>1, <2>4
    <3> QED
      BY <1>1, <2>2, <3>2, <3>3
  <2> QED
    BY <2>3, <2>4
<1>9. CASE sy # {}
  <2>1. PICK j \in sy : j = Overlay!Max(sy) /\ \A i \in sy : i <= j
    BY <1>3, <1>5, <1>9, MaxIs
  <2>2. Len(x) + j \in sz
    BY <1>5, <1>6, <2>1
  <2>3. PICK m \in sz : m = Overlay!Max(sz) /\ \A i \in sz : i <= m
    BY <1>3, <1>5, <2>2, MaxIs
  <2>4. m = Len(x) + j
    <3>1. Len(x) + j <= m /\ m \in 1..Len(z) /\ j \in 1..Len(y)
      BY <1>5, <2>1, <2>2, <2>3
    <3>2. m - Len(x) \in 1..Len(y) /\ m = Len(x) + (m - Len(x))
      BY <1>2, <1>3, <3>1
    <3>3. m - Len(x) \in sy
      BY <1>6, <2>3, <3>2
    <3>4. m - Len(x) <= j
      BY <2>1, <3>3
    <3> QED
      BY <1>3, <3>1, <3>4
  <2>5. z[Len(x) + j] = y[j]
    BY <1>2, <1>5, <2>1
  <2>6. Value(v, z, a) = z[m].attrs[a] /\ \A w : Value(w, y, a) = y[j].attrs[a]
    BY <1>7, <1>9, <2>1, <2>3
  <2> QED
    BY <1>1, <2>4, <2>5, <2>6
<1> QED
  BY <1>8, <1>9

LEMMA ValueOne ==
  ASSUME NEW v, NEW a, NEW over
  PROVE  /\ Value(v, <<>>, a) = v
         /\ Value(v, <<over>>, a) = IF over.attrs[a] # Unset THEN over.attrs[a] ELSE v
<1>1. Setters(<<>>, a) = {}
  BY EmptyListed DEF Setters
<1>2. Value(v, <<>>, a) = v
  BY <1>1 DEF Value, Setters
<1>3. PICK s : s = <<over>>
  OBVIOUS
<1>4. DOMAIN s = 1..1 /\ s[1] = over
  BY <1>3
<1>5. CASE over.attrs[a] # Unset
  <2>1. Setters(s, a) \subseteq 1..1 /\ 1 \in Setters(s, a)
    BY <1>4, <1>5 DEF Setters
  <2>2. Overlay!Max(Setters(s, a)) = 1
    <3>1. Overlay!Max(Setters(s, a)) \in 1..1
      BY <2>1, MaxIs
    <3> QED
      BY <3>1
  <2>3. Value(v, s, a) = s[1].attrs[a]
    BY <2>1, <2>2 DEF Value, Setters
  <2> QED
    BY <1>2, <1>3, <1>4, <1>5, <2>3
<1>6. CASE over.attrs[a] = Unset
  <2>1. Setters(s, a) = {}
    BY <1>4, <1>6 DEF Setters
  <2>2. Value(v, s, a) = v
    BY <2>1 DEF Value, Setters
  <2> QED
    BY <1>2, <1>3, <1>6, <2>2
<1> QED
  BY <1>5, <1>6

LEMMA LayeredNone ==
  ASSUME NEW base, IsFunction(base)
  PROVE  Layered(base, base, <<>>)
BY ValueOne DEF Layered, IsFunction

LEMMA LayeredMerge ==
  ASSUME NEW base, NEW over
  PROVE  Layered(base, Overlay!Merge(base, over.attrs), <<over>>)
BY ValueOne DEF Layered, Overlay!Merge

LEMMA LayeredFunction ==
  ASSUME NEW base, NEW attrs, NEW layers, Layered(base, attrs, layers)
  PROVE  IsFunction(attrs) /\ DOMAIN attrs = DOMAIN base
BY DEF Layered, IsFunction

\* Layers upon layers.
LEMMA LayeredTwice ==
  ASSUME NEW x, NEW y, Listed(x), Listed(y), NEW b, NEW c, NEW d,
         Layered(b, c, x), Layered(c, d, y)
  PROVE  Layered(b, d, x \o y)
<1>1. DOMAIN c = DOMAIN b /\ \A a \in DOMAIN b : c[a] = Value(b[a], x, a)
  BY DEF Layered
<1>2. d = [a \in DOMAIN b |-> Value(c[a], y, a)]
  BY <1>1 DEF Layered
<1>3. ASSUME NEW a \in DOMAIN b PROVE Value(c[a], y, a) = Value(b[a], x \o y, a)
  <2>1. Value(b[a], x \o y, a) = Value(Value(b[a], x, a), y, a)
    BY ValueConcat
  <2> QED
    BY <1>1, <2>1, Zenon
<1>4. d = [a \in DOMAIN b |-> Value(b[a], x \o y, a)]
  BY <1>2, <1>3, Zenon
<1> QED
  BY <1>4 DEF Layered

-----------------------------------------------------------------------------
(* Merging fields.                                                         *)

LEMMA SameNames ==
  ASSUME NEW s, NEW t, NamesIn(t) = NamesIn(s)
  PROVE  /\ DOMAIN t = DOMAIN s /\ \A i \in DOMAIN s : t[i].name = s[i].name
         /\ Distinct(s) = Distinct(t) /\ Overlay!Names(s) = Overlay!Names(t)
<1>1. DOMAIN t = DOMAIN s /\ \A i \in DOMAIN s : t[i].name = s[i].name
  BY DEF NamesIn
<1>2. Distinct(s) = Distinct(t)
  BY <1>1 DEF Distinct
<1> QED
  BY <1>1, <1>2 DEF Overlay!Names

LEMMA NamesSame ==
  ASSUME NEW s, NEW t, DOMAIN t = DOMAIN s, \A i \in DOMAIN s : t[i].name = s[i].name
  PROVE  NamesIn(t) = NamesIn(s)
BY DEF NamesIn

\* fields g are what layers overs make of fields f.
FieldsMerged(f, g, overs) ==
  /\ IsFields(g) /\ NamesIn(g) = NamesIn(f)
  /\ Distinct(f) =>
       \A i \in DOMAIN f : Layered(f[i].attrs, g[i].attrs, Overlay!ItemsNamed(overs, f[i].name))

LEMMA FieldsMergedNone ==
  ASSUME NEW f, IsFields(f)
  PROVE  FieldsMerged(f, f, <<>>)
<1>1. ASSUME NEW i \in DOMAIN f
      PROVE  Layered(f[i].attrs, f[i].attrs, Overlay!ItemsNamed(<<>>, f[i].name))
  <2>1. Overlay!ItemsNamed(<<>>, f[i].name) = <<>>
    BY ItemsNamedOne
  <2>2. IsFunction(f[i].attrs)
    BY DEF IsFields
  <2> QED
    BY <2>1, <2>2, LayeredNone, Zenon
<1> QED
  BY <1>1 DEF FieldsMerged

LEMMA FieldsMergedTwice ==
  ASSUME NEW T, NEW x \in Seq(T), NEW y \in Seq(T), NEW f, NEW g, NEW h,
         FieldsMerged(f, g, x), FieldsMerged(g, h, y)
  PROVE  FieldsMerged(f, h, x \o y)
<1>1. /\ DOMAIN g = DOMAIN f /\ \A i \in DOMAIN f : g[i].name = f[i].name
      /\ Distinct(f) = Distinct(g)
  BY SameNames DEF FieldsMerged
<1>2. IsFields(h) /\ NamesIn(h) = NamesIn(f)
  BY DEF FieldsMerged
<1>3. ASSUME Distinct(f), NEW i \in DOMAIN f
      PROVE  Layered(f[i].attrs, h[i].attrs, Overlay!ItemsNamed(x \o y, f[i].name))
  <2>1. Layered(f[i].attrs, g[i].attrs, Overlay!ItemsNamed(x, f[i].name))
    BY <1>3 DEF FieldsMerged
  <2>2. Layered(g[i].attrs, h[i].attrs, Overlay!ItemsNamed(y, f[i].name))
    <3>1. Layered(g[i].attrs, h[i].attrs, Overlay!ItemsNamed(y, g[i].name))
      BY <1>1, <1>3 DEF FieldsMerged
    <3> QED
      BY <1>1, <3>1
  <2>3. /\ Listed(Overlay!ItemsNamed(x, f[i].name)) /\ Listed(Overlay!ItemsNamed(y, f[i].name))
    BY ItemsNamedType, IsListed
  <2>4. Overlay!ItemsNamed(x \o y, f[i].name) =
          Overlay!ItemsNamed(x, f[i].name) \o Overlay!ItemsNamed(y, f[i].name)
    BY ItemsNamedConcat
  <2>5. Layered(f[i].attrs, h[i].attrs,
                Overlay!ItemsNamed(x, f[i].name) \o Overlay!ItemsNamed(y, f[i].name))
    BY <2>1, <2>2, <2>3, LayeredTwice
  <2> QED
    BY <2>4, <2>5, Zenon
<1> QED
  BY <1>2, <1>3 DEF FieldsMerged

LEMMA FieldsMergedOne ==
  ASSUME NEW f, IsFields(f), NEW over
  PROVE  FieldsMerged(f, Overlay!MergeField(f, over), <<over>>)
<1>0. Listed(f) /\ Len(f) \in Nat /\ DOMAIN f = 1..Len(f)
  BY ListedIs DEF IsFields
<1>1. CASE over.name \notin Overlay!Names(f)
  <2>1. Overlay!MergeField(f, over) = f
    BY <1>1 DEF Overlay!MergeField
  <2>2. ASSUME NEW i \in DOMAIN f
        PROVE  Layered(f[i].attrs, f[i].attrs, Overlay!ItemsNamed(<<over>>, f[i].name))
    <3>1. over.name # f[i].name
      BY <1>1 DEF Overlay!Names
    <3>2. Overlay!ItemsNamed(<<over>>, f[i].name) = <<>>
      BY <3>1, ItemsNamedOne DEF Named
    <3>3. IsFunction(f[i].attrs)
      BY DEF IsFields
    <3> QED
      BY <3>2, <3>3, LayeredNone, Zenon
  <2>3. FieldsMerged(f, f, <<over>>)
    BY <2>2 DEF FieldsMerged
  <2> QED
    BY <2>1, <2>3
<1>2. CASE over.name \in Overlay!Names(f)
  <2>1. PICK k : k = Overlay!IndexOf(f, over.name)
    OBVIOUS
  <2>2. /\ k \in DOMAIN f /\ f[k].name = over.name
        /\ Distinct(f) => \A i \in DOMAIN f : f[i].name = over.name => i = k
    BY <1>0, <1>2, <2>1, IndexIs
  <2>3. PICK attrs : attrs = Overlay!Merge(f[k].attrs, over.attrs)
    OBVIOUS
  <2>4. Layered(f[k].attrs, attrs, <<over>>) /\ IsFunction(attrs)
    BY <2>3, LayeredMerge, LayeredFunction
  <2>5. PICK g : g = Overlay!MergeField(f, over)
    OBVIOUS
  <2>6. g = [f EXCEPT ![k].attrs = attrs]
    BY <1>2, <2>1, <2>3, <2>5 DEF Overlay!MergeField
  <2>7. f[k] = [name |-> f[k].name, attrs |-> f[k].attrs]
    BY <2>2 DEF IsFields
  <2>8. /\ DOMAIN g = DOMAIN f /\ g = [i \in DOMAIN f |-> g[i]]
        /\ \A i \in DOMAIN f : i # k => g[i] = f[i]
        /\ g[k] = [name |-> f[k].name, attrs |-> attrs]
    <3>1. g = [f EXCEPT ![k] = [f[k] EXCEPT !.attrs = attrs]]
      BY <2>6
    <3>2. [f[k] EXCEPT !.attrs = attrs] = [name |-> f[k].name, attrs |-> attrs]
      BY <2>7
    <3> QED
      BY <2>2, <3>1, <3>2
  <2>9. \A i \in DOMAIN f : g[i].name = f[i].name
    BY <2>8
  <2>10. IsFields(g) /\ NamesIn(g) = NamesIn(f)
    <3>1. Listed(g)
      BY <1>0, <2>8, FunctionListed
    <3>2. ASSUME NEW i \in DOMAIN f
          PROVE  g[i] = [name |-> g[i].name, attrs |-> g[i].attrs] /\ IsFunction(g[i].attrs)
      <4>1. CASE i = k
        BY <2>4, <2>8, <4>1
      <4>2. CASE i # k
        BY <2>8, <4>2 DEF IsFields
      <4> QED
        BY <4>1, <4>2
    <3> QED
      BY <2>8, <2>9, <3>1, <3>2, NamesSame DEF IsFields
  <2>11. ASSUME Distinct(f), NEW i \in DOMAIN f
         PROVE  Layered(f[i].attrs, g[i].attrs, Overlay!ItemsNamed(<<over>>, f[i].name))
    <3>1. CASE i = k
      <4>1. Overlay!ItemsNamed(<<over>>, f[i].name) = <<over>>
        BY <2>2, <3>1, ItemsNamedOne DEF Named
      <4>2. g[i].attrs = attrs /\ f[i].attrs = f[k].attrs
        BY <2>8, <3>1
      <4> QED
        BY <2>4, <4>1, <4>2, Zenon
    <3>2. CASE i # k
      <4>1. over.name # f[i].name
        BY <2>2, <2>11, <3>2
      <4>2. Overlay!ItemsNamed(<<over>>, f[i].name) = <<>>
        BY <4>1, ItemsNamedOne DEF Named
      <4>3. IsFunction(f[i].attrs) /\ g[i].attrs = f[i].attrs
        BY <2>8, <3>2 DEF IsFields
      <4> QED
        BY <4>2, <4>3, LayeredNone, Zenon
    <3> QED
      BY <3>1, <3>2
  <2>12. FieldsMerged(f, g, <<over>>)
    BY <2>10, <2>11 DEF FieldsMerged
  <2> QED
    BY <2>5, <2>12
<1> QED
  BY <1>1, <1>2

LEMMA FieldsMergedAll ==
  ASSUME NEW f, IsFields(f), NEW overs, Listed(overs)
  PROVE  FieldsMerged(f, Overlay!MergeFields(f, overs), overs)
<1>1. Len(overs) \in Nat
  BY ListedIs
<1>2. PICK m : /\ FieldSteps(m, f, overs, Len(overs))
               /\ Overlay!MergeFields(f, overs) = m[Len(overs)]
  BY <1>1, FieldLoop
<1> DEFINE Good == {k \in 0..Len(overs) : FieldsMerged(f, m[k], Prefix(overs, k))}
<1>3. 0 \in Good
  <2>1. m[0] = f /\ Prefix(overs, 0) = <<>>
    BY <1>2, PrefixIs DEF FieldSteps
  <2>2. FieldsMerged(f, m[0], Prefix(overs, 0))
    BY <2>1, FieldsMergedNone, Zenon
  <2> QED
    BY <1>1, <2>2
<1>4. ASSUME NEW k \in 1..Len(overs), k - 1 \in Good PROVE k \in Good
  <2>1. FieldsMerged(f, m[k - 1], Prefix(overs, k - 1))
    BY <1>4
  <2>2. m[k] = Overlay!MergeField(m[k - 1], overs[k])
    BY <1>2 DEF FieldSteps
  <2>3. FieldsMerged(m[k - 1], m[k], <<overs[k]>>)
    <3>1. IsFields(m[k - 1])
      BY <2>1 DEF FieldsMerged
    <3>2. FieldsMerged(m[k - 1], Overlay!MergeField(m[k - 1], overs[k]), <<overs[k]>>)
      BY <3>1, FieldsMergedOne
    <3> QED
      BY <2>2, <3>2, Zenon
  <2>4. Prefix(overs, k - 1) \in Seq(Range(overs)) /\ <<overs[k]>> \in Seq(Range(overs))
    BY PrefixType
  <2>5. Prefix(overs, k) = Prefix(overs, k - 1) \o <<overs[k]>>
    BY PrefixIs
  <2>6. FieldsMerged(f, m[k], Prefix(overs, k - 1) \o <<overs[k]>>)
    BY <2>1, <2>3, <2>4, FieldsMergedTwice
  <2>7. FieldsMerged(f, m[k], Prefix(overs, k))
    BY <2>5, <2>6, Zenon
  <2> QED
    BY <1>1, <2>7
<1>5. Len(overs) \in Good
  <2> HIDE DEF Good
  <2>1. \A k \in 0..Len(overs) : k \in Good
    BY <1>1, <1>3, <1>4, Loop
  <2> QED
    BY <1>1, <2>1
<1>6. FieldsMerged(f, m[Len(overs)], Prefix(overs, Len(overs)))
  BY <1>5
<1> QED
  BY <1>2, <1>6, PrefixIs, Zenon

-----------------------------------------------------------------------------
(* Layers of a dataset and of a field.                                     *)

\* What is flattened item by item is flattened part by part.
LEMMA PiecesConcat ==
  ASSUME NEW U, NEW p \in Seq(Seq(U)), NEW q \in Seq(Seq(U)), NEW r \in Seq(Seq(U)),
         Len(r) = Len(p) + Len(q), \A i \in 1..Len(p) : r[i] = p[i],
         \A i \in 1..Len(q) : r[Len(p) + i] = q[i]
  PROVE  FlattenSeq(r) = FlattenSeq(p) \o FlattenSeq(q)
<1>1. Listed(p) /\ Listed(q) /\ Listed(r)
  BY IsListed
<1>2. r = p \o q
  BY <1>1, IsConcat
<1> QED
  BY <1>2, FlattenConcat

FieldLayerPieces(items, name) ==
  [i \in DOMAIN items |-> Overlay!ItemsNamed(items[i].fields, name)]

LEMMA FieldLayerPiecesAre ==
  ASSUME NEW T, NEW U, \A d \in T : d.fields \in Seq(U), NEW x \in Seq(T), NEW name
  PROVE  /\ FieldLayerPieces(x, name) \in Seq(Seq(U))
         /\ Len(FieldLayerPieces(x, name)) = Len(x)
         /\ \A i \in 1..Len(x) :
              FieldLayerPieces(x, name)[i] = Overlay!ItemsNamed(x[i].fields, name)
         /\ FieldLayers(x, name) = FlattenSeq(FieldLayerPieces(x, name))
<1>1. Len(x) \in Nat /\ DOMAIN x = 1..Len(x) /\ \A i \in 1..Len(x) : x[i] \in T
  BY IsListed
<1>2. ASSUME NEW i \in 1..Len(x) PROVE Overlay!ItemsNamed(x[i].fields, name) \in Seq(U)
  <2>1. x[i].fields \in Seq(U)
    BY <1>1
  <2> QED
    BY <2>1, ItemsNamedType
<1>3. FieldLayerPieces(x, name) \in [1..Len(x) -> Seq(U)]
  BY <1>1, <1>2 DEF FieldLayerPieces
<1>4. FieldLayerPieces(x, name) \in Seq(Seq(U)) /\ Len(FieldLayerPieces(x, name)) = Len(x)
  BY <1>1, <1>3, IsSeqOf
<1>5. \A i \in 1..Len(x) :
        FieldLayerPieces(x, name)[i] = Overlay!ItemsNamed(x[i].fields, name)
  BY <1>1 DEF FieldLayerPieces
<1>6. FieldLayers(x, name) = FlattenSeq(FieldLayerPieces(x, name))
  BY DEF FieldLayers, FieldLayerPieces
<1> QED
  BY <1>4, <1>5, <1>6

LEMMA FieldLayersType ==
  ASSUME NEW T, NEW U, \A d \in T : d.fields \in Seq(U), NEW x \in Seq(T), NEW name
  PROVE  FieldLayers(x, name) \in Seq(U)
<1>1. FieldLayerPieces(x, name) \in Seq(Seq(U))
  BY FieldLayerPiecesAre
<1>2. FlattenSeq(FieldLayerPieces(x, name)) \in Seq(U)
  BY <1>1, FlattenType
<1> QED
  BY <1>2, FieldLayerPiecesAre

LEMMA FieldLayersConcat ==
  ASSUME NEW T, NEW U, \A d \in T : d.fields \in Seq(U),
         NEW x \in Seq(T), NEW y \in Seq(T), NEW name
  PROVE  FieldLayers(x \o y, name) = FieldLayers(x, name) \o FieldLayers(y, name)
<1>1. PICK z : z = x \o y
  OBVIOUS
<1>2. z \in Seq(T) /\ Listed(x) /\ Listed(y)
  BY <1>1, ConcatProperties, IsListed
<1>3. /\ Len(z) = Len(x) + Len(y) /\ Len(x) \in Nat /\ Len(y) \in Nat
      /\ \A i \in 1..Len(x) : z[i] = x[i]
      /\ \A i \in 1..Len(y) : z[Len(x) + i] = y[i]
  BY <1>1, <1>2, ConcatListed, ListedIs
<1>4. PICK p, q, r : /\ p = FieldLayerPieces(x, name) /\ q = FieldLayerPieces(y, name)
                     /\ r = FieldLayerPieces(z, name)
  OBVIOUS
<1>5. /\ p \in Seq(Seq(U)) /\ Len(p) = Len(x)
      /\ \A i \in 1..Len(x) : p[i] = Overlay!ItemsNamed(x[i].fields, name)
      /\ FieldLayers(x, name) = FlattenSeq(p)
  BY <1>4, FieldLayerPiecesAre
<1>6. /\ q \in Seq(Seq(U)) /\ Len(q) = Len(y)
      /\ \A i \in 1..Len(y) : q[i] = Overlay!ItemsNamed(y[i].fields, name)
      /\ FieldLayers(y, name) = FlattenSeq(q)
  BY <1>4, FieldLayerPiecesAre
<1>7. /\ r \in Seq(Seq(U)) /\ Len(r) = Len(z)
      /\ \A i \in 1..Len(z) : r[i] = Overlay!ItemsNamed(z[i].fields, name)
      /\ FieldLayers(z, name) = FlattenSeq(r)
  BY <1>2, <1>4, FieldLayerPiecesAre
<1>8. \A i \in 1..Len(p) : r[i] = p[i]
  BY <1>3, <1>5, <1>7
<1>9. ASSUME NEW i \in 1..Len(q) PROVE r[Len(p) + i] = q[i]
  <2>1. Len(x) + i \in 1..Len(z)
    BY <1>3, <1>6
  <2> QED
    BY <1>3, <1>5, <1>6, <1>7, <2>1
<1>10. Len(r) = Len(p) + Len(q)
  BY <1>3, <1>5, <1>6, <1>7
<1>11. FlattenSeq(r) = FlattenSeq(p) \o FlattenSeq(q)
  BY <1>5, <1>6, <1>7, <1>8, <1>9, <1>10, PiecesConcat
<1> QED
  BY <1>1, <1>5, <1>6, <1>7, <1>11, Zenon

LEMMA FieldLayersOne ==
  ASSUME NEW item, NEW name
  PROVE  /\ FieldLayers(<<>>, name) = <<>>
         /\ FieldLayers(<<item>>, name) = Overlay!ItemsNamed(item.fields, name)
<1>1. /\ FieldLayerPieces(<<>>, name) = <<>>
      /\ FieldLayerPieces(<<item>>, name) = <<Overlay!ItemsNamed(item.fields, name)>>
  BY DEF FieldLayerPieces
<1>2. /\ FieldLayers(<<>>, name) = FlattenSeq(FieldLayerPieces(<<>>, name))
      /\ FieldLayers(<<item>>, name) = FlattenSeq(FieldLayerPieces(<<item>>, name))
  BY DEF FieldLayers, FieldLayerPieces
<1> QED
  BY <1>1, <1>2, FlattenOne, FlattenNone, Zenon

\* A dataset with its fields in place.
IsDataset(d) == IsFunction(d.attrs) /\ IsFields(d.fields)

LEMMA EnrichesNone ==
  ASSUME NEW d, IsDataset(d)
  PROVE  Enriches(d, d, <<>>)
<1>1. Layered(d.attrs, d.attrs, <<>>)
  BY LayeredNone DEF IsDataset
<1>2. ASSUME NEW f \in DOMAIN d.fields
      PROVE  Layered(d.fields[f].attrs, d.fields[f].attrs, FieldLayers(<<>>, d.fields[f].name))
  <2>1. FieldLayers(<<>>, d.fields[f].name) = <<>>
    BY FieldLayersOne
  <2>2. IsFunction(d.fields[f].attrs)
    BY DEF IsDataset, IsFields
  <2> QED
    BY <2>1, <2>2, LayeredNone, Zenon
<1> QED
  BY <1>1, <1>2 DEF Enriches

LEMMA EnrichesTwice ==
  ASSUME NEW T, NEW U, \A d \in T : d.fields \in Seq(U),
         NEW x \in Seq(T), NEW y \in Seq(T), NEW b, NEW c, NEW d,
         NamesIn(c.fields) = NamesIn(b.fields), Enriches(b, c, x), Enriches(c, d, y)
  PROVE  Enriches(b, d, x \o y)
<1>1. Listed(x) /\ Listed(y)
  BY IsListed
<1>2. Layered(b.attrs, d.attrs, x \o y)
  BY <1>1, LayeredTwice DEF Enriches
<1>3. ASSUME NEW f \in DOMAIN b.fields
      PROVE  Layered(b.fields[f].attrs, d.fields[f].attrs,
                     FieldLayers(x \o y, b.fields[f].name))
  <2>1. f \in DOMAIN c.fields /\ c.fields[f].name = b.fields[f].name
    BY SameNames
  <2>2. PICK name : name = b.fields[f].name
    OBVIOUS
  <2>3. Layered(b.fields[f].attrs, c.fields[f].attrs, FieldLayers(x, name))
    BY <2>2 DEF Enriches
  <2>4. Layered(c.fields[f].attrs, d.fields[f].attrs, FieldLayers(y, name))
    BY <2>1, <2>2 DEF Enriches
  <2>5. Listed(FieldLayers(x, name)) /\ Listed(FieldLayers(y, name))
    <3>1. FieldLayers(x, name) \in Seq(U) /\ FieldLayers(y, name) \in Seq(U)
      BY FieldLayersType
    <3> QED
      BY <3>1, IsListed
  <2>6. Layered(b.fields[f].attrs, d.fields[f].attrs,
                FieldLayers(x, name) \o FieldLayers(y, name))
    BY <2>3, <2>4, <2>5, LayeredTwice
  <2>7. FieldLayers(x \o y, name) = FieldLayers(x, name) \o FieldLayers(y, name)
    BY FieldLayersConcat
  <2> QED
    BY <2>2, <2>6, <2>7, Zenon
<1> QED
  BY <1>2, <1>3 DEF Enriches

-----------------------------------------------------------------------------
(* Merging datasets.                                                       *)

LEMMA AppendIs ==
  ASSUME NEW s, Listed(s), NEW x
  PROVE  /\ Listed(Append(s, x)) /\ Len(Append(s, x)) = Len(s) + 1
         /\ \A i \in 1..Len(s) : Append(s, x)[i] = s[i]
         /\ Append(s, x)[Len(s) + 1] = x
<1> DEFINE T == Range(s) \cup {x}
<1>1. Len(s) \in Nat /\ \A i \in 1..Len(s) : s[i] \in T
  BY ListedIs
<1>2. x \in T
  OBVIOUS
<1> HIDE DEF T
<1>3. s \in Seq(T)
  BY <1>1, ListedIn
<1>4. /\ Append(s, x) \in Seq(T) /\ Len(Append(s, x)) = Len(s) + 1
      /\ \A i \in 1..Len(s) : Append(s, x)[i] = s[i]
      /\ Append(s, x)[Len(s) + 1] = x
  BY <1>2, <1>3, AppendProperties
<1> QED
  BY <1>4, IsListed

LEMMA ViewIs ==
  ASSUME NEW h, NEW items, ItemsOK(h, items)
  PROVE  LET w == View(h, items)
         IN /\ DOMAIN w = DOMAIN items
            /\ \A i \in DOMAIN items : /\ w[i].name = items[i].name /\ w[i].attrs = items[i].attrs
                                       /\ w[i].fields = h[items[i].fields] /\ IsDataset(w[i])
            /\ NamesIn(w) = NamesIn(items)
BY DEF View, ItemsOK, IsDataset, NamesIn

\* A heap keeps its arrays.
Grown(h, g) == Listed(g) /\ Len(h) <= Len(g) /\ \A a \in 1..Len(h) : g[a] = h[a]

LEMMA GrownTwice ==
  ASSUME NEW f, NEW g, NEW h, Listed(f), Grown(f, g), Grown(g, h)
  PROVE  Grown(f, h)
<1>1. Len(f) \in Nat /\ Len(g) \in Nat /\ Len(h) \in Nat
  BY ListedIs DEF Grown
<1>2. Listed(h) /\ Len(f) <= Len(h)
  BY <1>1 DEF Grown
<1>3. ASSUME NEW a \in 1..Len(f) PROVE h[a] = f[a]
  <2>1. a \in 1..Len(g)
    BY <1>1 DEF Grown
  <2> QED
    BY <2>1 DEF Grown
<1> QED
  BY <1>2, <1>3 DEF Grown

\* Datasets es with fields in g are what layers overs make of ds with fields in h.
DatasetsMerged(h, ds, g, es, overs) ==
  /\ Grown(h, g) /\ ItemsOK(g, es)
  /\ SameShape(View(h, ds), View(g, es))
  /\ DistinctNames(View(h, ds)) =>
       \A i \in DOMAIN ds :
         Enriches(View(h, ds)[i], View(g, es)[i], Overlay!ItemsNamed(overs, ds[i].name))

LEMMA SameShapeIs ==
  ASSUME NEW x, NEW y, SameShape(x, y)
  PROVE  /\ DOMAIN y = DOMAIN x /\ \A i \in DOMAIN x : y[i].name = x[i].name
         /\ DistinctNames(x) => DistinctNames(y)
<1>1. DOMAIN y = DOMAIN x /\ (\A i \in DOMAIN x : y[i].name = x[i].name) /\ Distinct(x) = Distinct(y)
  BY SameNames DEF SameShape
<1>2. \A i \in DOMAIN x : Distinct(x[i].fields) = Distinct(y[i].fields)
  BY SameNames DEF SameShape
<1> QED
  BY <1>1, <1>2 DEF DistinctNames

LEMMA SameShapeTwice ==
  ASSUME NEW x, NEW y, NEW z, SameShape(x, y), SameShape(y, z)
  PROVE  SameShape(x, z)
<1>1. DOMAIN y = DOMAIN x
  BY SameShapeIs
<1> QED
  BY <1>1 DEF SameShape

LEMMA DatasetsMergedNone ==
  ASSUME NEW h, NEW ds, Listed(h), ItemsOK(h, ds)
  PROVE  DatasetsMerged(h, ds, h, ds, <<>>)
<1>1. Grown(h, h)
  BY ListedIs DEF Grown
<1>2. SameShape(View(h, ds), View(h, ds))
  BY DEF SameShape
<1>3. ASSUME NEW i \in DOMAIN ds
      PROVE  Enriches(View(h, ds)[i], View(h, ds)[i], Overlay!ItemsNamed(<<>>, ds[i].name))
  <2>1. IsDataset(View(h, ds)[i])
    BY ViewIs
  <2>2. Overlay!ItemsNamed(<<>>, ds[i].name) = <<>>
    BY ItemsNamedOne
  <2> QED
    BY <2>1, <2>2, EnrichesNone, Zenon
<1> QED
  BY <1>1, <1>2, <1>3 DEF DatasetsMerged

LEMMA DatasetsMergedTwice ==
  ASSUME NEW T, NEW U, \A d \in T : d.fields \in Seq(U), NEW x \in Seq(T), NEW y \in Seq(T),
         NEW f, NEW ds, NEW g, NEW es, NEW h, NEW fs, Listed(f), ItemsOK(f, ds),
         DatasetsMerged(f, ds, g, es, x), DatasetsMerged(g, es, h, fs, y)
  PROVE  DatasetsMerged(f, ds, h, fs, x \o y)
<1>1. Grown(f, h) /\ ItemsOK(g, es) /\ ItemsOK(h, fs)
  BY GrownTwice DEF DatasetsMerged
<1>2. PICK u, v, w : u = View(f, ds) /\ v = View(g, es) /\ w = View(h, fs)
  OBVIOUS
<1>3. SameShape(u, v) /\ SameShape(v, w)
  BY <1>2 DEF DatasetsMerged
<1>4. SameShape(u, w)
  BY <1>3, SameShapeTwice
<1>5. ASSUME DistinctNames(u), NEW i \in DOMAIN ds
      PROVE  Enriches(u[i], w[i], Overlay!ItemsNamed(x \o y, ds[i].name))
  <2>1. /\ DistinctNames(v) /\ i \in DOMAIN u /\ i \in DOMAIN v /\ v[i].name = u[i].name
    BY <1>2, <1>3, <1>5, ViewIs, SameShapeIs
  <2>2. i \in DOMAIN es /\ es[i].name = ds[i].name
    BY <1>1, <1>2, <2>1, ViewIs
  <2>3. NamesIn(v[i].fields) = NamesIn(u[i].fields)
    BY <1>3, <2>1 DEF SameShape
  <2>4. PICK name : name = ds[i].name
    OBVIOUS
  <2>5. Enriches(u[i], v[i], Overlay!ItemsNamed(x, name))
    BY <1>2, <1>5, <2>4 DEF DatasetsMerged
  <2>6. Enriches(v[i], w[i], Overlay!ItemsNamed(y, name))
    BY <1>2, <2>1, <2>2, <2>4 DEF DatasetsMerged
  <2>7. Overlay!ItemsNamed(x, name) \in Seq(T) /\ Overlay!ItemsNamed(y, name) \in Seq(T)
    BY ItemsNamedType
  <2>8. Enriches(u[i], w[i], Overlay!ItemsNamed(x, name) \o Overlay!ItemsNamed(y, name))
    BY <2>3, <2>5, <2>6, <2>7, EnrichesTwice
  <2>9. Overlay!ItemsNamed(x \o y, name) =
          Overlay!ItemsNamed(x, name) \o Overlay!ItemsNamed(y, name)
    BY ItemsNamedConcat
  <2> QED
    BY <2>4, <2>8, <2>9, Zenon
<1> QED
  BY <1>1, <1>2, <1>4, <1>5 DEF DatasetsMerged

LEMMA DatasetsMergedOne ==
  ASSUME NEW acc, NEW h, NEW ds, acc.heap = h, acc.datasets = ds,
         Listed(h), ItemsOK(h, ds), NEW over, Listed(over.fields)
  PROVE  LET r == Overlay!MergeDataset(acc, over)
         IN DatasetsMerged(h, ds, r.heap, r.datasets, <<over>>)
<1>0. Listed(ds) /\ Len(ds) \in Nat /\ DOMAIN ds = 1..Len(ds) /\ Len(h) \in Nat /\ DOMAIN h = 1..Len(h)
  BY ListedIs DEF ItemsOK
<1>3. CASE over.name \notin Overlay!Names(ds)
  <2>1. Overlay!MergeDataset(acc, over) = acc
    BY <1>3 DEF Overlay!MergeDataset
  <2>2. DatasetsMerged(h, ds, h, ds, <<>>)
    BY DatasetsMergedNone
  <2>3. ASSUME NEW i \in DOMAIN ds
        PROVE  Overlay!ItemsNamed(<<over>>, ds[i].name) = Overlay!ItemsNamed(<<>>, ds[i].name)
    <3>1. over.name # ds[i].name
      BY <1>3 DEF Overlay!Names
    <3> QED
      BY <3>1, ItemsNamedOne DEF Named
  <2>4. DatasetsMerged(h, ds, h, ds, <<over>>)
    BY <2>2, <2>3 DEF DatasetsMerged
  <2> QED
    BY <2>1, <2>4
<1>4. CASE over.name \in Overlay!Names(ds)
  <2>1. PICK k : k = Overlay!IndexOf(ds, over.name)
    OBVIOUS
  <2>2. /\ k \in DOMAIN ds /\ ds[k].name = over.name
        /\ Distinct(ds) => \A i \in DOMAIN ds : ds[i].name = over.name => i = k
    BY <1>0, <1>4, <2>1, IndexIs
  <2>3. PICK attrs, fields : /\ attrs = Overlay!Merge(ds[k].attrs, over.attrs)
                             /\ fields = Overlay!MergeFields(h[ds[k].fields], over.fields)
    OBVIOUS
  <2>4. Layered(ds[k].attrs, attrs, <<over>>) /\ IsFunction(attrs)
    BY <2>3, LayeredMerge, LayeredFunction
  <2>5. FieldsMerged(h[ds[k].fields], fields, over.fields)
    <3>1. IsFields(h[ds[k].fields])
      BY <2>2 DEF ItemsOK
    <3> QED
      BY <2>3, <3>1, FieldsMergedAll
  <2>6. PICK g, new : g = Append(h, fields)
                      /\ new = [name |-> ds[k].name, attrs |-> attrs, fields |-> Len(h) + 1]
    OBVIOUS
  <2>7. PICK es : es = [ds EXCEPT ![k] = new]
    OBVIOUS
  <2>8. Overlay!MergeDataset(acc, over) = [heap |-> g, datasets |-> es]
    BY <1>4, <2>1, <2>3, <2>6, <2>7, Zenon DEF Overlay!MergeDataset
  <2>9. /\ Listed(g) /\ Len(g) = Len(h) + 1 /\ g[Len(h) + 1] = fields
        /\ \A i \in 1..Len(h) : g[i] = h[i]
    BY <2>6, AppendIs
  <2>10. DOMAIN g = 1..Len(h) + 1 /\ Len(h) + 1 \in DOMAIN g /\ Len(h) + 1 \notin DOMAIN h
         /\ \A i \in DOMAIN h : i \in DOMAIN g /\ g[i] = h[i]
    BY <1>0, <2>9, ListedIs
  <2>11. Grown(h, g)
    BY <1>0, <2>9 DEF Grown
  <2>12. /\ DOMAIN es = DOMAIN ds /\ es[k] = new /\ \A i \in DOMAIN ds : i # k => es[i] = ds[i]
         /\ Listed(es)
    <3>1. es = [i \in 1..Len(ds) |-> es[i]]
      BY <1>0, <2>7
    <3>2. Listed(es)
      BY <1>0, <3>1, FunctionListed
    <3> QED
      BY <2>2, <2>7, <3>2
  <2>13. /\ new = [name |-> new.name, attrs |-> new.attrs, fields |-> new.fields]
         /\ new.name = ds[k].name /\ new.attrs = attrs /\ new.fields = Len(h) + 1
    BY <2>6
  <2>14. ItemsOK(g, es)
    <3>1. ASSUME NEW i \in DOMAIN es
          PROVE  /\ es[i] = [name |-> es[i].name, attrs |-> es[i].attrs, fields |-> es[i].fields]
                 /\ IsFunction(es[i].attrs)
                 /\ es[i].fields \in DOMAIN g /\ IsFields(g[es[i].fields])
      <4>1. CASE i = k
        BY <2>4, <2>5, <2>9, <2>10, <2>12, <2>13, <4>1 DEF FieldsMerged
      <4>2. CASE i # k
        <5>1. i \in DOMAIN ds /\ es[i] = ds[i]
          BY <2>12, <4>2
        <5>2. /\ ds[i] = [name |-> ds[i].name, attrs |-> ds[i].attrs, fields |-> ds[i].fields]
              /\ IsFunction(ds[i].attrs)
              /\ ds[i].fields \in DOMAIN h /\ IsFields(h[ds[i].fields])
          BY <5>1 DEF ItemsOK
        <5> QED
          BY <2>10, <5>1, <5>2
      <4> QED
        BY <4>1, <4>2
    <3>2. ASSUME NEW i \in DOMAIN es, NEW j \in DOMAIN es, es[i].fields = es[j].fields
          PROVE  i = j
      <4>1. ASSUME NEW n \in DOMAIN ds, n # k PROVE es[n].fields \in DOMAIN h /\ es[n].fields # Len(h) + 1
        BY <2>10, <2>12, <4>1 DEF ItemsOK
      <4>2. CASE i # k /\ j # k
        BY <2>12, <3>2, <4>2 DEF ItemsOK
      <4>3. CASE i = k \/ j = k
        BY <2>12, <2>13, <3>2, <4>1, <4>3
      <4> QED
        BY <4>2, <4>3
    <3> QED
      BY <2>12, <3>1, <3>2 DEF ItemsOK
  <2>15. PICK v, w : v = View(h, ds) /\ w = View(g, es)
    OBVIOUS
  <2>16. /\ DOMAIN v = DOMAIN ds
         /\ \A i \in DOMAIN ds : /\ v[i].name = ds[i].name /\ v[i].attrs = ds[i].attrs
                                 /\ v[i].fields = h[ds[i].fields] /\ IsDataset(v[i])
         /\ NamesIn(v) = NamesIn(ds)
    BY <2>15, ViewIs
  <2>17. /\ DOMAIN w = DOMAIN ds
         /\ \A i \in DOMAIN ds : /\ w[i].name = es[i].name /\ w[i].attrs = es[i].attrs
                                 /\ w[i].fields = g[es[i].fields]
    BY <2>12, <2>14, <2>15, ViewIs
  <2>18. ASSUME NEW i \in DOMAIN ds, i # k PROVE w[i] = v[i]
    <3>1. g[ds[i].fields] = h[ds[i].fields] /\ es[i] = ds[i]
      BY <2>10, <2>12, <2>18 DEF ItemsOK
    <3> QED
      BY <2>12, <2>15, <3>1 DEF View
  <2>19. w[k].name = v[k].name /\ w[k].attrs = attrs /\ w[k].fields = fields
    BY <2>2, <2>9, <2>12, <2>13, <2>16, <2>17
  <2>20. SameShape(v, w)
    <3>1. \A i \in DOMAIN v : w[i].name = v[i].name
      BY <2>16, <2>18, <2>19
    <3>2. \A i \in DOMAIN v : NamesIn(w[i].fields) = NamesIn(v[i].fields)
      BY <2>2, <2>5, <2>16, <2>18, <2>19 DEF FieldsMerged
    <3> QED
      BY <2>16, <2>17, <3>1, <3>2, NamesSame DEF SameShape
  <2>21. ASSUME DistinctNames(v), NEW i \in DOMAIN ds
         PROVE  Enriches(v[i], w[i], Overlay!ItemsNamed(<<over>>, ds[i].name))
    <3>1. CASE i = k
      <4>1. Overlay!ItemsNamed(<<over>>, ds[i].name) = <<over>>
        BY <2>2, <3>1, ItemsNamedOne DEF Named
      <4>2. Distinct(h[ds[k].fields])
        BY <2>2, <2>16, <2>21 DEF DistinctNames
      <4>3. ASSUME NEW f \in DOMAIN v[k].fields
            PROVE  Layered(v[k].fields[f].attrs, w[k].fields[f].attrs,
                           FieldLayers(<<over>>, v[k].fields[f].name))
        <5>1. v[k].fields = h[ds[k].fields] /\ w[k].fields = fields
          BY <2>2, <2>16, <2>19
        <5>2. FieldLayers(<<over>>, v[k].fields[f].name) =
                Overlay!ItemsNamed(over.fields, v[k].fields[f].name)
          BY FieldLayersOne
        <5>3. Layered(v[k].fields[f].attrs, w[k].fields[f].attrs,
                      Overlay!ItemsNamed(over.fields, v[k].fields[f].name))
          BY <2>5, <4>2, <5>1 DEF FieldsMerged
        <5> QED
          BY <5>2, <5>3, Zenon
      <4>4. Layered(v[k].attrs, w[k].attrs, <<over>>)
        BY <2>2, <2>4, <2>16, <2>19
      <4>5. Enriches(v[k], w[k], <<over>>)
        BY <4>3, <4>4 DEF Enriches
      <4> QED
        BY <3>1, <4>1, <4>5, Zenon
    <3>2. CASE i # k
      <4>1. over.name # ds[i].name
        <5>1. Distinct(ds)
          BY <2>16, <2>21, SameNames DEF DistinctNames
        <5> QED
          BY <2>2, <3>2, <5>1
      <4>2. Overlay!ItemsNamed(<<over>>, ds[i].name) = <<>>
        BY <4>1, ItemsNamedOne DEF Named
      <4>3. w[i] = v[i] /\ IsDataset(v[i])
        BY <2>16, <2>18, <3>2
      <4> QED
        BY <4>2, <4>3, EnrichesNone, Zenon
    <3> QED
      BY <3>1, <3>2
  <2>22. DatasetsMerged(h, ds, g, es, <<over>>)
    BY <2>11, <2>14, <2>15, <2>20, <2>21 DEF DatasetsMerged
  <2>23. LET r == [heap |-> g, datasets |-> es] IN r.heap = g /\ r.datasets = es
    OBVIOUS
  <2> QED
    BY <2>8, <2>22, <2>23, Zenon
<1> QED
  BY <1>3, <1>4

LEMMA DatasetsMergedAll ==
  ASSUME NEW T, NEW U, \A d \in T : d.fields \in Seq(U), NEW overs \in Seq(T),
         NEW h, NEW ds, Listed(h), ItemsOK(h, ds)
  PROVE  LET r == Overlay!MergeDatasets([heap |-> h, datasets |-> ds], overs)
         IN DatasetsMerged(h, ds, r.heap, r.datasets, overs)
<1>1. Listed(overs) /\ Len(overs) \in Nat /\ \A i \in 1..Len(overs) : overs[i] \in T
  BY IsListed
<1>2. PICK first : first = [heap |-> h, datasets |-> ds]
  OBVIOUS
<1>3. PICK m : /\ DatasetSteps(m, first, overs, Len(overs))
               /\ Overlay!MergeDatasets(first, overs) = m[Len(overs)]
  BY <1>1, DatasetLoop
<1> DEFINE Good == {k \in 0..Len(overs) :
                      DatasetsMerged(h, ds, m[k].heap, m[k].datasets, Prefix(overs, k))}
<1>4. 0 \in Good
  <2>1. m[0] = first /\ Prefix(overs, 0) = <<>>
    BY <1>1, <1>3, PrefixIs DEF DatasetSteps
  <2>2. m[0].heap = h /\ m[0].datasets = ds
    BY <1>2, <2>1
  <2>3. DatasetsMerged(h, ds, m[0].heap, m[0].datasets, Prefix(overs, 0))
    BY <2>1, <2>2, DatasetsMergedNone, Zenon
  <2> QED
    BY <1>1, <2>3
<1>5. ASSUME NEW k \in 1..Len(overs), k - 1 \in Good PROVE k \in Good
  <2>1. PICK g, es : g = m[k - 1].heap /\ es = m[k - 1].datasets
    OBVIOUS
  <2>2. DatasetsMerged(h, ds, g, es, Prefix(overs, k - 1))
    BY <1>5, <2>1
  <2>3. m[k] = Overlay!MergeDataset(m[k - 1], overs[k])
    BY <1>3 DEF DatasetSteps
  <2>4. DatasetsMerged(g, es, m[k].heap, m[k].datasets, <<overs[k]>>)
    <3>1. Listed(g) /\ ItemsOK(g, es)
      BY <2>2 DEF DatasetsMerged, Grown
    <3>2. Listed(overs[k].fields)
      <4>1. overs[k].fields \in Seq(U)
        BY <1>1
      <4> QED
        BY <4>1, IsListed
    <3>3. LET r == Overlay!MergeDataset(m[k - 1], overs[k])
          IN DatasetsMerged(g, es, r.heap, r.datasets, <<overs[k]>>)
      BY <2>1, <3>1, <3>2, DatasetsMergedOne
    <3> QED
      BY <2>3, <3>3, Zenon
  <2>5. Prefix(overs, k - 1) \in Seq(T) /\ <<overs[k]>> \in Seq(T)
    <3>1. Prefix(overs, k - 1) \in Seq(Range(overs)) /\ <<overs[k]>> \in Seq(Range(overs))
      BY <1>1, PrefixType
    <3>2. Range(overs) \subseteq T
      BY <1>1, ListedIs
    <3>3. Seq(Range(overs)) \subseteq Seq(T)
      <4>1. ASSUME NEW s \in Seq(Range(overs)) PROVE s \in Seq(T)
        <5>1. \A i \in 1..Len(s) : s[i] \in T
          BY <3>2, ElementOfSeq
        <5> QED
          BY <5>1, Retype
      <4> QED
        BY <4>1
    <3> QED
      BY <3>1, <3>3
  <2>6. Prefix(overs, k) = Prefix(overs, k - 1) \o <<overs[k]>>
    BY <1>1, PrefixIs
  <2>7. DatasetsMerged(h, ds, m[k].heap, m[k].datasets, Prefix(overs, k - 1) \o <<overs[k]>>)
    BY <2>2, <2>4, <2>5, DatasetsMergedTwice
  <2>8. DatasetsMerged(h, ds, m[k].heap, m[k].datasets, Prefix(overs, k))
    BY <2>6, <2>7, Zenon
  <2> QED
    BY <1>1, <2>8
<1>6. Len(overs) \in Good
  <2> HIDE DEF Good
  <2>1. \A k \in 0..Len(overs) : k \in Good
    BY <1>1, <1>4, <1>5, Loop
  <2> QED
    BY <1>1, <2>1
<1>7. DatasetsMerged(h, ds, m[Len(overs)].heap, m[Len(overs)].datasets, Prefix(overs, Len(overs)))
  BY <1>6
<1> QED
  BY <1>1, <1>2, <1>3, <1>7, PrefixIs, Zenon

-----------------------------------------------------------------------------
(* Metrics.                                                                *)

LEMMA NamesWithOne ==
  ASSUME NEW s, Listed(s), NEW item
  PROVE  Overlay!Names(s \o <<item>>) = Overlay!Names(s) \cup {item.name}
<1>1. PICK t : t = <<item>>
  OBVIOUS
<1>2. Listed(t) /\ Len(t) = 1 /\ t[1] = item
  BY <1>1, OneListed
<1>3. /\ Listed(s \o t) /\ Len(s \o t) = Len(s) + 1
      /\ \A i \in 1..Len(s) : (s \o t)[i] = s[i]
      /\ (s \o t)[Len(s) + 1] = item
  <2>1. /\ Listed(s \o t) /\ Len(s \o t) = Len(s) + Len(t)
        /\ \A i \in 1..Len(s) : (s \o t)[i] = s[i]
        /\ \A i \in 1..Len(t) : (s \o t)[Len(s) + i] = t[i]
    <3>1. Listed(t)
      BY <1>2
    <3> QED
      BY <3>1, ConcatListed
  <2>2. 1 \in 1..Len(t)
    BY <1>2
  <2> QED
    BY <1>2, <2>1, <2>2
<1>4. PICK z : z = s \o t
  OBVIOUS
<1>5. /\ DOMAIN s = 1..Len(s) /\ DOMAIN z = 1..Len(s) + 1 /\ Len(s) \in Nat
      /\ \A i \in 1..Len(s) : z[i] = s[i]
      /\ z[Len(s) + 1] = item
  BY <1>3, <1>4, ListedIs
<1>6. Overlay!Names(z) = Overlay!Names(s) \cup {item.name}
  <2>1. \A i \in 1..Len(s) + 1 : i \in 1..Len(s) \/ i = Len(s) + 1
    BY <1>5
  <2> QED
    BY <1>5, <2>1 DEF Overlay!Names
<1> QED
  BY <1>1, <1>4, <1>6

LEMMA LastIs ==
  ASSUME NEW s, Listed(s), NEW item
  PROVE  Overlay!Last(s \o <<item>>) = item
<1>1. PICK t : t = <<item>>
  OBVIOUS
<1>2. Listed(t) /\ Len(t) = 1 /\ t[1] = item
  BY <1>1, OneListed
<1>3. PICK z : z = s \o t
  OBVIOUS
<1>4. /\ Len(z) = Len(s) + Len(t)
      /\ \A i \in 1..Len(t) : z[Len(s) + i] = t[i]
  <2>1. Listed(t)
    BY <1>2
  <2> QED
    BY <1>3, <2>1, ConcatListed
<1>5. z[Len(z)] = item
  <2>1. 1 \in 1..Len(t)
    BY <1>2
  <2> QED
    BY <1>2, <1>4, <2>1
<1> QED
  BY <1>1, <1>3, <1>5, Zenon DEF Overlay!Last

LEMMA LatestOne ==
  ASSUME NEW ms, NEW all, Listed(all), LatestOf(ms, all), NEW m
  PROVE  LatestOf(Overlay!PutMetric(ms, m), all \o <<m>>)
<1> Listed(ms)
  BY DEF LatestOf
<1>1. PICK more : more = all \o <<m>>
  OBVIOUS
<1>2. Overlay!Names(more) = Overlay!Names(ms) \cup {m.name}
  BY <1>1, NamesWithOne DEF LatestOf
<1>3. /\ Overlay!Last(Overlay!ItemsNamed(more, m.name)) = m
      /\ \A name : name # m.name =>
           Overlay!ItemsNamed(more, name) = Overlay!ItemsNamed(all, name)
  <2> DEFINE T == Range(all) \cup {m}
  <2>1. all \in Seq(T) /\ <<m>> \in Seq(T)
    <3>1. \A i \in 1..Len(all) : all[i] \in T
      BY ListedIs
    <3>2. m \in T
      OBVIOUS
    <3> HIDE DEF T
    <3> QED
      BY <3>1, <3>2, ListedIn, OneOrTwo
  <2> HIDE DEF T
  <2>2. ASSUME NEW name
        PROVE  /\ Overlay!ItemsNamed(more, name) =
                    Overlay!ItemsNamed(all, name) \o Overlay!ItemsNamed(<<m>>, name)
               /\ Overlay!ItemsNamed(all, name) \in Seq(T)
    <3>1. PICK x, o : x = all /\ o = <<m>>
      OBVIOUS
    <3>2. x \in Seq(T) /\ o \in Seq(T)
      BY <2>1, <3>1
    <3>3. Overlay!ItemsNamed(x \o o, name) =
            Overlay!ItemsNamed(x, name) \o Overlay!ItemsNamed(o, name)
      BY <3>2, ItemsNamedConcat
    <3>4. Overlay!ItemsNamed(all, name) \in Seq(T)
      BY <2>1, ItemsNamedType
    <3> QED
      BY <1>1, <3>1, <3>3, <3>4, Zenon
  <2>3. Overlay!ItemsNamed(more, m.name) = Overlay!ItemsNamed(all, m.name) \o <<m>>
    <3>1. Overlay!ItemsNamed(<<m>>, m.name) = <<m>>
      BY ItemsNamedOne DEF Named
    <3> QED
      BY <2>2, <3>1, Zenon
  <2>4. Overlay!Last(Overlay!ItemsNamed(more, m.name)) = m
    <3>1. Listed(Overlay!ItemsNamed(all, m.name))
      BY <2>2, IsListed
    <3> QED
      BY <2>3, <3>1, LastIs, Zenon
  <2>5. ASSUME NEW name, name # m.name
        PROVE  Overlay!ItemsNamed(more, name) = Overlay!ItemsNamed(all, name)
    <3>1. Overlay!ItemsNamed(<<m>>, name) = <<>>
      BY <2>5, ItemsNamedOne DEF Named
    <3>2. Listed(Overlay!ItemsNamed(all, name))
      BY <2>2, IsListed
    <3>3. Overlay!ItemsNamed(all, name) \o <<>> = Overlay!ItemsNamed(all, name)
      BY <3>2, ConcatEmpty
    <3> QED
      BY <2>2, <3>1, <3>3, Zenon
  <2> QED
    BY <2>4, <2>5
<1>4. PICK new : new = Overlay!PutMetric(ms, m)
  OBVIOUS
<1>5. Len(ms) \in Nat /\ DOMAIN ms = 1..Len(ms)
  BY ListedIs
<1>6. /\ Distinct(ms)
      /\ \A i \in DOMAIN ms : ms[i] = Overlay!Last(Overlay!ItemsNamed(all, ms[i].name))
  BY DEF LatestOf
<1>7. CASE m.name \in Overlay!Names(ms)
  <2>1. PICK k : k = Overlay!IndexOf(ms, m.name)
    OBVIOUS
  <2>2. /\ k \in DOMAIN ms /\ ms[k].name = m.name
        /\ \A i \in DOMAIN ms : ms[i].name = m.name => i = k
    BY <1>6, <1>7, <2>1, IndexIs
  <2>3. new = [ms EXCEPT ![k] = m]
    BY <1>4, <1>7, <2>1 DEF Overlay!PutMetric
  <2>4. /\ DOMAIN new = DOMAIN ms /\ new[k] = m /\ \A i \in DOMAIN ms : i # k => new[i] = ms[i]
        /\ new = [i \in 1..Len(ms) |-> new[i]]
    BY <1>5, <2>2, <2>3
  <2>5. Listed(new)
    BY <1>5, <2>4, FunctionListed
  <2>6. \A i \in DOMAIN ms : new[i].name = ms[i].name
    BY <2>2, <2>4
  <2>7. Overlay!Names(new) = Overlay!Names(ms) /\ Distinct(new)
    <3>1. NamesIn(new) = NamesIn(ms)
      BY <2>4, <2>6 DEF NamesIn
    <3> QED
      BY <1>6, <3>1, SameNames
  <2>8. Overlay!Names(new) = Overlay!Names(more)
    BY <1>2, <1>7, <2>7
  <2>9. ASSUME NEW i \in DOMAIN new
        PROVE  new[i] = Overlay!Last(Overlay!ItemsNamed(more, new[i].name))
    <3>1. CASE i = k
      BY <1>3, <2>4, <3>1
    <3>2. CASE i # k
      BY <1>3, <1>6, <2>2, <2>4, <3>2
    <3> QED
      BY <3>1, <3>2
  <2> QED
    BY <1>1, <1>4, <2>5, <2>7, <2>8, <2>9 DEF LatestOf
<1>8. CASE m.name \notin Overlay!Names(ms)
  <2>1. new = Append(ms, m)
    BY <1>4, <1>8 DEF Overlay!PutMetric
  <2>2. /\ Listed(new) /\ Len(new) = Len(ms) + 1
        /\ \A i \in 1..Len(ms) : new[i] = ms[i]
        /\ new[Len(ms) + 1] = m
    BY <2>1, AppendIs
  <2>3. DOMAIN new = 1..Len(ms) + 1 /\ \A i \in DOMAIN new : i \in DOMAIN ms \/ i = Len(ms) + 1
    BY <1>5, <2>2, ListedIs
  <2>4. \A i \in DOMAIN ms : ms[i].name # m.name /\ i \in DOMAIN new /\ new[i] = ms[i]
    BY <1>5, <1>8, <2>2, <2>3 DEF Overlay!Names
  <2>5. Overlay!Names(new) = Overlay!Names(ms) \cup {m.name}
    <3>1. Len(ms) + 1 \in DOMAIN new
      BY <1>5, <2>3
    <3> QED
      BY <2>2, <2>3, <2>4, <3>1 DEF Overlay!Names
  <2>6. Distinct(new)
    BY <1>6, <2>2, <2>3, <2>4 DEF Distinct
  <2>7. ASSUME NEW i \in DOMAIN new
        PROVE  new[i] = Overlay!Last(Overlay!ItemsNamed(more, new[i].name))
    <3>1. CASE i = Len(ms) + 1
      BY <1>3, <2>2, <3>1
    <3>2. CASE i # Len(ms) + 1
      BY <1>3, <1>6, <2>3, <2>4, <3>2
    <3> QED
      BY <3>1, <3>2
  <2> QED
    BY <1>1, <1>2, <1>4, <2>2, <2>5, <2>6, <2>7 DEF LatestOf
<1> QED
  BY <1>7, <1>8

LEMMA LatestAll ==
  ASSUME NEW ms, NEW all, Listed(all), LatestOf(ms, all), NEW overs, Listed(overs)
  PROVE  LatestOf(Overlay!PutMetrics(ms, overs), all \o overs)
<1>1. Len(overs) \in Nat
  BY ListedIs
<1>2. PICK m : /\ MetricSteps(m, ms, overs, Len(overs))
               /\ Overlay!PutMetrics(ms, overs) = m[Len(overs)]
  BY <1>1, MetricLoop
<1> DEFINE Good == {k \in 0..Len(overs) :
                      LatestOf(m[k], all \o Prefix(overs, k))}
<1>3. 0 \in Good
  <2>1. m[0] = ms /\ Prefix(overs, 0) = <<>>
    BY <1>2, PrefixIs DEF MetricSteps
  <2>2. all \o <<>> = all
    BY ConcatEmpty
  <2>3. LatestOf(m[0], all \o Prefix(overs, 0))
    BY <2>1, <2>2, Zenon
  <2> QED
    BY <1>1, <2>3
<1>4. ASSUME NEW k \in 1..Len(overs), k - 1 \in Good PROVE k \in Good
  <2>1. LatestOf(m[k - 1], all \o Prefix(overs, k - 1))
    BY <1>4
  <2>2. m[k] = Overlay!PutMetric(m[k - 1], overs[k])
    BY <1>2 DEF MetricSteps
  <2>3. PICK p, o : p = Prefix(overs, k - 1) /\ o = <<overs[k]>>
    OBVIOUS
  <2>4. Listed(p) /\ Listed(o)
    <3>1. k - 1 \in 0..Len(overs)
      BY <1>1
    <3> QED
      BY <2>3, <3>1, PrefixIs, OneListed
  <2>5. Listed(all \o p)
    BY <2>4, ConcatListed
  <2>6. LatestOf(m[k], (all \o p) \o o)
    BY <2>1, <2>2, <2>3, <2>5, LatestOne
  <2>7. \A x, y : x = all \o p /\ y = p \o o => x \o o = all \o y
    BY <2>4, ConcatThree
  <2>8. p \o o = Prefix(overs, k)
    BY <2>3, PrefixIs
  <2>9. LatestOf(m[k], all \o Prefix(overs, k))
    BY <2>6, <2>7, <2>8, Zenon
  <2> QED
    BY <1>1, <2>9
<1>5. Len(overs) \in Good
  <2> HIDE DEF Good
  <2>1. \A k \in 0..Len(overs) : k \in Good
    BY <1>1, <1>3, <1>4, Loop
  <2> QED
    BY <1>1, <2>1
<1>6. LatestOf(m[Len(overs)], all \o Prefix(overs, Len(overs)))
  BY <1>5
<1>7. Prefix(overs, Len(overs)) = overs
  BY PrefixIs
<1> QED
  BY <1>2, <1>6, <1>7, Zenon

-----------------------------------------------------------------------------
(* What the files hold.                                                    *)

LEMMA LayerTypes ==
  /\ \A fs \in ConfigFiles \cup FlagFiles : fs \in Seq(AllFiles)
  /\ \A f \in AllFiles : f.models \in Seq(AllLayers)
  /\ \A l \in AllLayers : /\ l.datasets \in Seq(AllItems) /\ l.metrics \in Seq(AllMetrics)
                          /\ l.relationships \in Seq(AllRels)
  /\ \A d \in AllItems : d.fields \in Seq(AllFields)
<1>1. ASSUME NEW fs \in ConfigFiles \cup FlagFiles PROVE fs \in Seq(AllFiles)
  <2>1. Listed(fs)
    BY FilesAssumption
  <2>2. \A i \in 1..Len(fs) : fs[i] \in AllFiles
    BY <2>1, ListedIs DEF AllFiles
  <2> QED
    BY <2>1, <2>2, ListedIn
<1>2. ASSUME NEW f \in AllFiles PROVE f.models \in Seq(AllLayers)
  <2>1. Listed(f.models)
    BY FilesAssumption DEF AllFiles, Range
  <2>2. \A i \in 1..Len(f.models) : f.models[i] \in AllLayers
    BY <2>1, ListedIs DEF AllLayers
  <2> QED
    BY <2>1, <2>2, ListedIn
<1>3. ASSUME NEW l \in AllLayers
      PROVE  /\ Listed(l.datasets) /\ Listed(l.relationships) /\ Listed(l.metrics)
             /\ \A d \in Range(l.datasets) : Listed(d.fields)
  <2>1. PICK f \in AllFiles : l \in Range(f.models)
    BY DEF AllLayers
  <2>2. PICK fs \in ConfigFiles \cup FlagFiles : f \in Range(fs)
    BY <2>1 DEF AllFiles
  <2>3. PICK i \in DOMAIN fs : fs[i] = f
    BY <2>2 DEF Range
  <2>4. PICK j \in DOMAIN f.models : f.models[j] = l
    BY <2>1 DEF Range
  <2>5. /\ Listed(l.datasets) /\ Listed(l.relationships) /\ Listed(l.metrics)
        /\ \A d \in DOMAIN l.datasets : Listed(l.datasets[d].fields)
    BY <2>3, <2>4, FilesAssumption
  <2> QED
    BY <2>5 DEF Range
<1>4. ASSUME NEW l \in AllLayers PROVE l.datasets \in Seq(AllItems)
  <2>1. \A i \in 1..Len(l.datasets) : l.datasets[i] \in AllItems
    BY <1>3, ListedIs DEF AllItems
  <2> QED
    BY <1>3, <2>1, ListedIn
<1>5. ASSUME NEW l \in AllLayers PROVE l.metrics \in Seq(AllMetrics)
  <2>1. \A i \in 1..Len(l.metrics) : l.metrics[i] \in AllMetrics
    BY <1>3, ListedIs DEF AllMetrics
  <2> QED
    BY <1>3, <2>1, ListedIn
<1>6. ASSUME NEW l \in AllLayers PROVE l.relationships \in Seq(AllRels)
  <2>1. \A i \in 1..Len(l.relationships) : l.relationships[i] \in AllRels
    BY <1>3, ListedIs DEF AllRels
  <2> QED
    BY <1>3, <2>1, ListedIn
<1>7. ASSUME NEW d \in AllItems PROVE d.fields \in Seq(AllFields)
  <2>1. Listed(d.fields)
    BY <1>3 DEF AllItems
  <2>2. \A i \in 1..Len(d.fields) : d.fields[i] \in AllFields
    BY <2>1, ListedIs DEF AllFields
  <2> QED
    BY <2>1, <2>2, ListedIn
<1> QED
  BY <1>1, <1>2, <1>4, <1>5, <1>6, <1>7

\* One layer more, for the metrics and for the layers of a dataset.
MetricPieces(layers) == [i \in DOMAIN layers |-> layers[i].metrics]
DatasetPieces(layers, name) ==
  [i \in DOMAIN layers |-> Overlay!ItemsNamed(layers[i].datasets, name)]

LEMMA LayerPieces ==
  ASSUME NEW x \in Seq(AllLayers), NEW name
  PROVE  /\ MetricPieces(x) \in Seq(Seq(AllMetrics)) /\ Len(MetricPieces(x)) = Len(x)
         /\ \A i \in 1..Len(x) : MetricPieces(x)[i] = x[i].metrics
         /\ DatasetPieces(x, name) \in Seq(Seq(AllItems)) /\ Len(DatasetPieces(x, name)) = Len(x)
         /\ \A i \in 1..Len(x) :
              DatasetPieces(x, name)[i] = Overlay!ItemsNamed(x[i].datasets, name)
         /\ MetricsIn(x) = FlattenSeq(MetricPieces(x))
         /\ DatasetLayers(x, name) = FlattenSeq(DatasetPieces(x, name))
<1>1. Len(x) \in Nat /\ DOMAIN x = 1..Len(x) /\ \A i \in 1..Len(x) : x[i] \in AllLayers
  BY IsListed
<1>2. ASSUME NEW i \in 1..Len(x)
      PROVE  /\ x[i].metrics \in Seq(AllMetrics)
             /\ Overlay!ItemsNamed(x[i].datasets, name) \in Seq(AllItems)
  <2>1. x[i].metrics \in Seq(AllMetrics) /\ x[i].datasets \in Seq(AllItems)
    BY <1>1, LayerTypes
  <2> QED
    BY <2>1, ItemsNamedType
<1>3. /\ MetricPieces(x) \in [1..Len(x) -> Seq(AllMetrics)]
      /\ DatasetPieces(x, name) \in [1..Len(x) -> Seq(AllItems)]
  BY <1>1, <1>2 DEF MetricPieces, DatasetPieces
<1>4. MetricPieces(x) \in Seq(Seq(AllMetrics)) /\ Len(MetricPieces(x)) = Len(x)
  BY <1>1, <1>3, IsSeqOf
<1>5. DatasetPieces(x, name) \in Seq(Seq(AllItems)) /\ Len(DatasetPieces(x, name)) = Len(x)
  BY <1>1, <1>3, IsSeqOf
<1>6. \A i \in 1..Len(x) :
        /\ MetricPieces(x)[i] = x[i].metrics
        /\ DatasetPieces(x, name)[i] = Overlay!ItemsNamed(x[i].datasets, name)
  BY <1>1 DEF MetricPieces, DatasetPieces
<1>7. MetricsIn(x) = FlattenSeq(MetricPieces(x))
  BY DEF MetricsIn, MetricPieces
<1>8. DatasetLayers(x, name) = FlattenSeq(DatasetPieces(x, name))
  BY DEF DatasetLayers, DatasetPieces
<1> QED
  BY <1>4, <1>5, <1>6, <1>7, <1>8

LEMMA LayerTyped ==
  ASSUME NEW x \in Seq(AllLayers), NEW name
  PROVE  MetricsIn(x) \in Seq(AllMetrics) /\ DatasetLayers(x, name) \in Seq(AllItems)
<1>1. /\ FlattenSeq(MetricPieces(x)) \in Seq(AllMetrics)
      /\ FlattenSeq(DatasetPieces(x, name)) \in Seq(AllItems)
  BY LayerPieces, FlattenType
<1> QED
  BY <1>1, LayerPieces

LEMMA LayersConcat ==
  ASSUME NEW x \in Seq(AllLayers), NEW y \in Seq(AllLayers), NEW name
  PROVE  /\ MetricsIn(x \o y) = MetricsIn(x) \o MetricsIn(y)
         /\ DatasetLayers(x \o y, name) = DatasetLayers(x, name) \o DatasetLayers(y, name)
<1>1. PICK z : z = x \o y
  OBVIOUS
<1>2. z \in Seq(AllLayers) /\ Listed(x) /\ Listed(y)
  BY <1>1, ConcatProperties, IsListed
<1>3. /\ Len(z) = Len(x) + Len(y) /\ Len(x) \in Nat /\ Len(y) \in Nat
      /\ \A i \in 1..Len(x) : z[i] = x[i]
      /\ \A i \in 1..Len(y) : z[Len(x) + i] = y[i]
  BY <1>1, <1>2, ConcatListed, ListedIs
<1>4. /\ \A i \in 1..Len(x) : i \in 1..Len(z)
      /\ \A i \in 1..Len(y) : Len(x) + i \in 1..Len(z)
  BY <1>3
<1>5. MetricsIn(z) = MetricsIn(x) \o MetricsIn(y)
  <2>1. PICK p, q, r : p = MetricPieces(x) /\ q = MetricPieces(y) /\ r = MetricPieces(z)
    OBVIOUS
  <2>2. /\ p \in Seq(Seq(AllMetrics)) /\ Len(p) = Len(x)
        /\ \A i \in 1..Len(x) : p[i] = x[i].metrics
        /\ MetricsIn(x) = FlattenSeq(p)
    BY <2>1, LayerPieces
  <2>3. /\ q \in Seq(Seq(AllMetrics)) /\ Len(q) = Len(y)
        /\ \A i \in 1..Len(y) : q[i] = y[i].metrics
        /\ MetricsIn(y) = FlattenSeq(q)
    BY <2>1, LayerPieces
  <2>4. /\ r \in Seq(Seq(AllMetrics)) /\ Len(r) = Len(z)
        /\ \A i \in 1..Len(z) : r[i] = z[i].metrics
        /\ MetricsIn(z) = FlattenSeq(r)
    BY <1>2, <2>1, LayerPieces
  <2>5. Len(r) = Len(p) + Len(q)
    BY <1>3, <2>2, <2>3, <2>4
  <2>6. ASSUME NEW i \in 1..Len(p) PROVE r[i] = p[i]
    BY <1>3, <1>4, <2>2, <2>4
  <2>7. ASSUME NEW i \in 1..Len(q) PROVE r[Len(p) + i] = q[i]
    <3>1. PICK j : j = Len(x) + i
      OBVIOUS
    <3>2. i \in 1..Len(y) /\ q[i] = y[i].metrics
      BY <2>3, Zenon
    <3>3. j \in 1..Len(z) /\ z[j] = y[i]
      BY <1>3, <1>4, <3>1, <3>2, Zenon
    <3>4. r[j] = z[j].metrics
      BY <2>4, <3>3, Zenon
    <3> QED
      BY <2>2, <3>1, <3>2, <3>3, <3>4, Zenon
  <2>8. FlattenSeq(r) = FlattenSeq(p) \o FlattenSeq(q)
    BY <2>2, <2>3, <2>4, <2>5, <2>6, <2>7, PiecesConcat
  <2> QED
    BY <2>2, <2>3, <2>4, <2>8, Zenon
<1>6. DatasetLayers(z, name) = DatasetLayers(x, name) \o DatasetLayers(y, name)
  <2>1. PICK p, q, r : /\ p = DatasetPieces(x, name) /\ q = DatasetPieces(y, name)
                       /\ r = DatasetPieces(z, name)
    OBVIOUS
  <2>2. /\ p \in Seq(Seq(AllItems)) /\ Len(p) = Len(x)
        /\ \A i \in 1..Len(x) : p[i] = Overlay!ItemsNamed(x[i].datasets, name)
        /\ DatasetLayers(x, name) = FlattenSeq(p)
    BY <2>1, LayerPieces
  <2>3. /\ q \in Seq(Seq(AllItems)) /\ Len(q) = Len(y)
        /\ \A i \in 1..Len(y) : q[i] = Overlay!ItemsNamed(y[i].datasets, name)
        /\ DatasetLayers(y, name) = FlattenSeq(q)
    BY <2>1, LayerPieces
  <2>4. /\ r \in Seq(Seq(AllItems)) /\ Len(r) = Len(z)
        /\ \A i \in 1..Len(z) : r[i] = Overlay!ItemsNamed(z[i].datasets, name)
        /\ DatasetLayers(z, name) = FlattenSeq(r)
    BY <1>2, <2>1, LayerPieces
  <2>5. Len(r) = Len(p) + Len(q)
    BY <1>3, <2>2, <2>3, <2>4
  <2>6. ASSUME NEW i \in 1..Len(p) PROVE r[i] = p[i]
    BY <1>3, <1>4, <2>2, <2>4
  <2>7. ASSUME NEW i \in 1..Len(q) PROVE r[Len(p) + i] = q[i]
    <3>1. PICK j : j = Len(x) + i
      OBVIOUS
    <3>2. i \in 1..Len(y) /\ q[i] = Overlay!ItemsNamed(y[i].datasets, name)
      BY <2>3, Zenon
    <3>3. j \in 1..Len(z) /\ z[j] = y[i]
      BY <1>3, <1>4, <3>1, <3>2, Zenon
    <3>4. r[j] = Overlay!ItemsNamed(z[j].datasets, name)
      BY <2>4, <3>3, Zenon
    <3> QED
      BY <2>2, <3>1, <3>2, <3>3, <3>4, Zenon
  <2>8. FlattenSeq(r) = FlattenSeq(p) \o FlattenSeq(q)
    BY <2>2, <2>3, <2>4, <2>5, <2>6, <2>7, PiecesConcat
  <2> QED
    BY <2>2, <2>3, <2>4, <2>8, Zenon
<1> QED
  BY <1>1, <1>5, <1>6, Zenon

LEMMA OneLayerMore ==
  ASSUME NEW x \in Seq(AllLayers), NEW over \in AllLayers, NEW name
  PROVE  /\ MetricsIn(x \o <<over>>) = MetricsIn(x) \o over.metrics
         /\ DatasetLayers(x \o <<over>>, name) =
              DatasetLayers(x, name) \o Overlay!ItemsNamed(over.datasets, name)
<1>1. PICK o : o = <<over>>
  OBVIOUS
<1>2. o \in Seq(AllLayers)
  BY <1>1, OneOrTwo
<1>3. /\ MetricPieces(o) = <<over.metrics>>
      /\ DatasetPieces(o, name) = <<Overlay!ItemsNamed(over.datasets, name)>>
  BY <1>1 DEF MetricPieces, DatasetPieces
<1>4. /\ MetricsIn(o) = over.metrics
      /\ DatasetLayers(o, name) = Overlay!ItemsNamed(over.datasets, name)
  <2>1. MetricsIn(o) = FlattenSeq(MetricPieces(o))
    BY DEF MetricsIn, MetricPieces
  <2>2. DatasetLayers(o, name) = FlattenSeq(DatasetPieces(o, name))
    BY DEF DatasetLayers, DatasetPieces
  <2> QED
    BY <1>3, <2>1, <2>2, FlattenOne, Zenon
<1>5. /\ MetricsIn(x \o o) = MetricsIn(x) \o MetricsIn(o)
      /\ DatasetLayers(x \o o, name) = DatasetLayers(x, name) \o DatasetLayers(o, name)
  BY <1>2, LayersConcat
<1> QED
  BY <1>1, <1>4, <1>5, Zenon

LEMMA NoLayers ==
  ASSUME NEW name
  PROVE  MetricsIn(<<>>) = <<>> /\ DatasetLayers(<<>>, name) = <<>>
<1>1. MetricPieces(<<>>) = <<>> /\ DatasetPieces(<<>>, name) = <<>>
  BY DEF MetricPieces, DatasetPieces
<1>2. MetricsIn(<<>>) = FlattenSeq(MetricPieces(<<>>))
  BY DEF MetricsIn, MetricPieces
<1>3. DatasetLayers(<<>>, name) = FlattenSeq(DatasetPieces(<<>>, name))
  BY DEF DatasetLayers, DatasetPieces
<1> QED
  BY <1>1, <1>2, <1>3, FlattenNone, Zenon

-----------------------------------------------------------------------------
(* One overlay more.                                                       *)

LEMMA ThreeListed ==
  ASSUME NEW a, NEW b, NEW c
  PROVE  LET t == <<a, b, c>>
         IN Listed(t) /\ Len(t) = 3 /\ t[1] = a /\ t[2] = b /\ t[3] = c
<1>1. <<a, b, c>> \in Seq({a, b, c})
  OBVIOUS
<1> QED
  BY <1>1, IsListed

\* Three arrays are stored behind those of a heap.
ThreeMore(h, g, a, b, c) ==
  /\ Grown(h, g) /\ Listed(g) /\ DOMAIN g = 1..Len(h) + 3 /\ DOMAIN h = 1..Len(h)
  /\ Len(h) \in Nat
  /\ g[Len(h) + 1] = a /\ g[Len(h) + 2] = b /\ g[Len(h) + 3] = c

LEMMA StoreThree ==
  ASSUME NEW h, Listed(h), NEW a, NEW b, NEW c
  PROVE  \A g : g = h \o <<a, b, c>> => ThreeMore(h, g, a, b, c)
<1>1. PICK t : t = <<a, b, c>>
  OBVIOUS
<1>2. Listed(t) /\ Len(t) = 3 /\ t[1] = a /\ t[2] = b /\ t[3] = c
  BY <1>1, ThreeListed
<1>3. Listed(t)
  BY <1>2
<1>4. /\ Listed(h \o t) /\ Len(h \o t) = Len(h) + Len(t)
      /\ \A i \in 1..Len(h) : (h \o t)[i] = h[i]
      /\ \A i \in 1..Len(t) : (h \o t)[Len(h) + i] = t[i]
  BY <1>3, ConcatListed
<1>5. ASSUME NEW g, g = h \o t PROVE ThreeMore(h, g, a, b, c)
  <2>1. /\ Listed(g) /\ Len(g) = Len(h) + Len(t)
        /\ \A i \in 1..Len(h) : g[i] = h[i]
        /\ \A i \in 1..Len(t) : g[Len(h) + i] = t[i]
    BY <1>4, <1>5, Zenon
  <2>2. Len(h) \in Nat /\ DOMAIN h = 1..Len(h) /\ DOMAIN g = 1..Len(g)
    BY <2>1, ListedIs
  <2>3. 1 \in 1..Len(t) /\ 2 \in 1..Len(t) /\ 3 \in 1..Len(t)
    BY <1>2
  <2>4. Len(g) = Len(h) + 3
    BY <1>2, <2>1
  <2>5. Grown(h, g)
    BY <2>1, <2>2, <2>4 DEF Grown
  <2>6. g[Len(h) + 1] = a /\ g[Len(h) + 2] = b /\ g[Len(h) + 3] = c
    BY <1>2, <2>1, <2>3
  <2> QED
    BY <2>1, <2>2, <2>4, <2>5, <2>6 DEF ThreeMore
<1> QED
  BY <1>1, <1>5, Zenon

\* Datasets stay what they are when the heap grows.
LEMMA ItemsKept ==
  ASSUME NEW h, NEW g, NEW items, Listed(h), Grown(h, g), ItemsOK(h, items)
  PROVE  ItemsOK(g, items) /\ View(g, items) = View(h, items)
<1>1. \A i \in DOMAIN h : i \in DOMAIN g /\ g[i] = h[i]
  <2>1. DOMAIN h = 1..Len(h) /\ DOMAIN g = 1..Len(g) /\ Len(h) \in Nat /\ Len(g) \in Nat
    BY ListedIs DEF Grown
  <2> QED
    BY <2>1 DEF Grown
<1>2. \A i \in DOMAIN items : items[i].fields \in DOMAIN g /\ g[items[i].fields] = h[items[i].fields]
  BY <1>1 DEF ItemsOK
<1> QED
  BY <1>2 DEF ItemsOK, View

LEMMA AddedAre ==
  ASSUME NEW rels, Listed(rels), NEW names
  PROVE  /\ Listed(Overlay!Added(rels, names))
         /\ \A r \in Range(Overlay!Added(rels, names)) : r.from \in names /\ r.to \in names
<1> DEFINE T == {r \in Range(rels) : r.from \in names /\ r.to \in names}
           p == [i \in DOMAIN rels |->
                   IF Overlay!Related(rels[i], names) THEN <<rels[i]>> ELSE <<>>]
<1>1. Len(rels) \in Nat /\ DOMAIN rels = 1..Len(rels)
  BY ListedIs
<1>2. ASSUME NEW i \in 1..Len(rels) PROVE p[i] \in Seq(T)
  <2>1. CASE Overlay!Related(rels[i], names)
    <3>1. rels[i] \in T
      BY <1>1, <2>1 DEF Overlay!Related, Range
    <3>2. <<rels[i]>> \in Seq(T)
      BY <3>1, OneOrTwo
    <3> QED
      BY <1>1, <2>1, <3>2
  <2>2. CASE ~Overlay!Related(rels[i], names)
    BY <1>1, <2>2
  <2> QED
    BY <2>1, <2>2
<1>3. p \in [1..Len(rels) -> Seq(T)]
  BY <1>1, <1>2
<1>4. p \in Seq(Seq(T))
  <2> HIDE DEF p, T
  <2> QED
    BY <1>1, <1>3, IsSeqOf
<1>5. FlattenSeq(p) = Overlay!Added(rels, names)
  BY OverlayFlattens, Zenon DEF Overlay!Added
<1>6. FlattenSeq(p) \in Seq(T)
  <2> HIDE DEF p, T
  <2> QED
    BY <1>4, FlattenType
<1>7. Overlay!Added(rels, names) \in Seq(T)
  BY <1>5, <1>6, Zenon
<1>8. Listed(Overlay!Added(rels, names)) /\ Range(Overlay!Added(rels, names)) \subseteq T
  <2> HIDE DEF T
  <2> QED
    BY <1>7, IsListed, ListedIs
<1> QED
  BY <1>8

LEMMA ConcatRange ==
  ASSUME NEW s, NEW t, Listed(s), Listed(t)
  PROVE  Range(s \o t) \subseteq Range(s) \cup Range(t)
<1>1. PICK z : z = s \o t
  OBVIOUS
<1>2. /\ Len(z) = Len(s) + Len(t) /\ Listed(z)
      /\ \A i \in 1..Len(s) : z[i] = s[i]
      /\ \A i \in 1..Len(t) : z[Len(s) + i] = t[i]
      /\ \A i \in DOMAIN z :
           i \in DOMAIN s \/ (i - Len(s) \in DOMAIN t /\ i = Len(s) + (i - Len(s)) /\ i > Len(s))
  BY <1>1, ConcatListed
<1>3. DOMAIN s = 1..Len(s) /\ DOMAIN t = 1..Len(t)
  BY ListedIs
<1>4. ASSUME NEW i \in DOMAIN z PROVE z[i] \in Range(s) \cup Range(t)
  <2>1. CASE i \in DOMAIN s
    BY <1>2, <1>3, <2>1 DEF Range
  <2>2. CASE i - Len(s) \in DOMAIN t /\ i = Len(s) + (i - Len(s))
    <3>1. PICK j \in DOMAIN t : i = Len(s) + j
      BY <2>2
    <3>2. z[i] = t[j]
      BY <1>2, <1>3, <3>1
    <3> QED
      BY <3>2 DEF Range
  <2> QED
    BY <1>2, <2>1, <2>2
<1>5. Range(z) \subseteq Range(s) \cup Range(t)
  BY <1>4 DEF Range
<1> QED
  BY <1>1, <1>5

\* What applyOverlay makes of model m in h: model n in g.
Applies(h, m, over, g, n) ==
  LET items   == h[m.datasets]
      merged  == Overlay!MergeDatasets([heap |-> h, datasets |-> items], over.datasets)
      added   == Overlay!Added(over.relationships, Overlay!Names(items))
      metrics == Overlay!PutMetrics(h[m.metrics], over.metrics)
      k       == Len(merged.heap)
  IN /\ g = merged.heap \o <<merged.datasets, h[m.relationships] \o added, metrics>>
     /\ n = [attrs |-> Overlay!Merge(m.attrs, over.attrs),
             datasets |-> k + 1, relationships |-> k + 2, metrics |-> k + 3]

LEMMA OverlayOnce ==
  ASSUME NEW h, NEW m, HeapIs(h, m), NEW over \in AllLayers, NEW g, NEW n,
         Applies(h, m, over, g, n)
  PROVE  /\ HeapIs(g, n) /\ Grown(h, g)
         /\ \A base, layers : layers \in Seq(AllLayers) /\ Overlaid(base, h, m, layers) =>
                                Overlaid(base, g, n, layers \o <<over>>)
<1>1. PICK items : items = h[m.datasets]
  OBVIOUS
<1>2. PICK merged : merged = Overlay!MergeDatasets([heap |-> h, datasets |-> items], over.datasets)
  OBVIOUS
<1>3. PICK i, es : i = merged.heap /\ es = merged.datasets
  OBVIOUS
<1>4. PICK rels, metrics :
        /\ rels = h[m.relationships] \o Overlay!Added(over.relationships, Overlay!Names(items))
        /\ metrics = Overlay!PutMetrics(h[m.metrics], over.metrics)
  OBVIOUS
<1>5. /\ g = i \o <<es, rels, metrics>>
      /\ n = [attrs |-> Overlay!Merge(m.attrs, over.attrs), datasets |-> Len(i) + 1,
              relationships |-> Len(i) + 2, metrics |-> Len(i) + 3]
  BY <1>1, <1>2, <1>3, <1>4, Zenon DEF Applies
<1>6. /\ Listed(h) /\ ItemsOK(h, items) /\ Listed(h[m.relationships])
  BY <1>1 DEF HeapIs
<1>7. /\ over.datasets \in Seq(AllItems) /\ \A d \in AllItems : d.fields \in Seq(AllFields)
      /\ Listed(over.metrics) /\ Listed(over.relationships)
  BY LayerTypes, IsListed
<1>8. DatasetsMerged(h, items, i, es, over.datasets)
  BY <1>2, <1>3, <1>6, <1>7, DatasetsMergedAll
<1>9. Grown(h, i) /\ Listed(i) /\ ItemsOK(i, es)
  BY <1>8 DEF DatasetsMerged, Grown
<1>10. /\ Grown(i, g) /\ Listed(g) /\ DOMAIN g = 1..Len(i) + 3 /\ Len(i) \in Nat
       /\ g[Len(i) + 1] = es /\ g[Len(i) + 2] = rels /\ g[Len(i) + 3] = metrics
  <2>1. g = i \o <<es, rels, metrics>>
    BY <1>5
  <2>2. Listed(i)
    BY <1>9
  <2>3. \A z : z = i \o <<es, rels, metrics>> => ThreeMore(i, z, es, rels, metrics)
    BY <2>2, StoreThree
  <2> QED
    BY <2>1, <2>3, Zenon DEF ThreeMore
<1>11. /\ n.attrs = Overlay!Merge(m.attrs, over.attrs)
       /\ g[n.datasets] = es /\ g[n.relationships] = rels /\ g[n.metrics] = metrics
       /\ {n.datasets, n.relationships, n.metrics} \subseteq DOMAIN g
  BY <1>5, <1>10
<1>12. Grown(h, g)
  BY <1>6, <1>9, <1>10, GrownTwice
<1>13. ItemsOK(g, es) /\ View(g, es) = View(i, es)
  BY <1>9, <1>10, ItemsKept
<1>14. /\ Listed(rels)
       /\ \A r \in Range(rels) : r \in Range(h[m.relationships])
                                 \/ (r.from \in Overlay!Names(items) /\ r.to \in Overlay!Names(items))
  <2>1. PICK old, new : /\ old = h[m.relationships]
                        /\ new = Overlay!Added(over.relationships, Overlay!Names(items))
    OBVIOUS
  <2>2. /\ Listed(new)
        /\ \A r \in Range(new) : r.from \in Overlay!Names(items) /\ r.to \in Overlay!Names(items)
    BY <1>7, <2>1, AddedAre
  <2>3. Listed(old) /\ rels = old \o new
    BY <1>4, <1>6, <2>1
  <2>4. Listed(new)
    BY <2>2
  <2>5. Listed(old \o new) /\ Range(old \o new) \subseteq Range(old) \cup Range(new)
    BY <2>3, <2>4, ConcatListed, ConcatRange
  <2> QED
    BY <2>1, <2>2, <2>3, <2>5
<1>15. ASSUME NEW all, Listed(all), LatestOf(h[m.metrics], all)
       PROVE  LatestOf(metrics, all \o over.metrics)
  BY <1>4, <1>7, <1>15, LatestAll
<1>16. HeapIs(g, n)
  BY <1>10, <1>11, <1>13, <1>14 DEF HeapIs
<1>17. ASSUME NEW base, NEW layers \in Seq(AllLayers), Overlaid(base, h, m, layers)
       PROVE  Overlaid(base, g, n, layers \o <<over>>)
  <2>1. PICK u, v, more : u = View(h, items) /\ v = View(g, es) /\ more = layers \o <<over>>
    OBVIOUS
  <2>2. /\ Layered(base.attrs, m.attrs, layers) /\ SameShape(base.datasets, u)
        /\ DistinctNames(base.datasets) => Enriched(base.datasets, u, layers)
        /\ \A r \in Range(h[m.relationships]) : {r.from, r.to} \subseteq Overlay!Names(base.datasets)
        /\ LatestOf(h[m.metrics], MetricsIn(layers))
    BY <1>1, <1>17, <2>1, Zenon DEF Overlaid
  <2>3. Layered(base.attrs, n.attrs, more)
    <3>1. Layered(m.attrs, n.attrs, <<over>>)
      BY <1>11, LayeredMerge
    <3>2. Listed(layers) /\ Listed(<<over>>)
      BY IsListed, OneListed
    <3> QED
      BY <2>1, <2>2, <3>1, <3>2, LayeredTwice
  <2>4. SameShape(u, v)
    BY <1>8, <1>13, <2>1 DEF DatasetsMerged
  <2>5. SameShape(base.datasets, v)
    BY <2>2, <2>4, SameShapeTwice
  <2>6. Overlay!Names(items) = Overlay!Names(base.datasets)
    <3>1. NamesIn(u) = NamesIn(items) /\ NamesIn(u) = NamesIn(base.datasets)
      BY <1>6, <2>1, <2>2, ViewIs DEF SameShape
    <3> QED
      BY <3>1, SameNames
  <2>7. ASSUME DistinctNames(base.datasets) PROVE Enriched(base.datasets, v, more)
    <3>1. Enriched(base.datasets, u, layers)
      BY <2>2, <2>7
    <3>2. DistinctNames(u) /\ DOMAIN u = DOMAIN base.datasets
      BY <2>2, <2>7, SameShapeIs
    <3>3. DOMAIN u = DOMAIN items
      BY <1>6, <2>1, ViewIs
    <3>4. ASSUME NEW k \in DOMAIN base.datasets
          PROVE  Enriches(base.datasets[k], v[k], DatasetLayers(more, base.datasets[k].name))
      <4>1. PICK b, name : b = base.datasets[k] /\ name = b.name
        OBVIOUS
      <4>2. Enriches(b, u[k], DatasetLayers(layers, name))
        BY <3>1, <4>1 DEF Enriched
      <4>3. items[k].name = name
        <5>1. u[k].name = items[k].name /\ u[k].name = b.name
          BY <1>6, <2>1, <2>2, <3>2, <3>3, <4>1, ViewIs, SameShapeIs
        <5> QED
          BY <4>1, <5>1
      <4>4. Enriches(u[k], v[k], Overlay!ItemsNamed(over.datasets, name))
        <5>1. k \in DOMAIN items
          BY <3>2, <3>3
        <5>2. Enriches(View(h, items)[k], View(i, es)[k],
                       Overlay!ItemsNamed(over.datasets, items[k].name))
          BY <1>8, <2>1, <3>2, <5>1 DEF DatasetsMerged
        <5> QED
          BY <1>13, <2>1, <4>3, <5>2, Zenon
      <4>5. NamesIn(u[k].fields) = NamesIn(b.fields)
        BY <2>2, <4>1 DEF SameShape
      <4>6. /\ DatasetLayers(layers, name) \in Seq(AllItems)
            /\ Overlay!ItemsNamed(over.datasets, name) \in Seq(AllItems)
        BY <1>7, LayerTyped, ItemsNamedType
      <4>7. Enriches(b, v[k], DatasetLayers(layers, name) \o Overlay!ItemsNamed(over.datasets, name))
        BY <1>7, <4>2, <4>4, <4>5, <4>6, EnrichesTwice
      <4>8. DatasetLayers(more, name) =
              DatasetLayers(layers, name) \o Overlay!ItemsNamed(over.datasets, name)
        BY <2>1, OneLayerMore
      <4> QED
        BY <4>1, <4>7, <4>8, Zenon
    <3> QED
      BY <3>4 DEF Enriched
  <2>8. \A r \in Range(rels) : {r.from, r.to} \subseteq Overlay!Names(base.datasets)
    BY <1>14, <2>2, <2>6
  <2>9. LatestOf(metrics, MetricsIn(more))
    <3>1. MetricsIn(layers) \in Seq(AllMetrics)
      BY LayerTyped
    <3>2. Listed(MetricsIn(layers))
      BY <3>1, IsListed
    <3>3. LatestOf(metrics, MetricsIn(layers) \o over.metrics)
      BY <1>15, <2>2, <3>2
    <3>4. MetricsIn(more) = MetricsIn(layers) \o over.metrics
      BY <2>1, OneLayerMore
    <3> QED
      BY <3>3, <3>4, Zenon
  <2> QED
    BY <1>11, <2>1, <2>3, <2>5, <2>7, <2>8, <2>9, Zenon DEF Overlaid
<1> QED
  BY <1>12, <1>16, <1>17

-----------------------------------------------------------------------------
(* The overlays keep their invariant.                                      *)

\* A model before any overlay: lists of datasets and fields, and nothing else.
IsBase(m) ==
  /\ m = [attrs |-> m.attrs, datasets |-> m.datasets, relationships |-> <<>>, metrics |-> <<>>]
  /\ IsFunction(m.attrs)
  /\ Listed(m.datasets)
  /\ \A i \in DOMAIN m.datasets :
       /\ m.datasets[i] = [name |-> m.datasets[i].name, attrs |-> m.datasets[i].attrs,
                           fields |-> m.datasets[i].fields]
       /\ IsDataset(m.datasets[i])

LEMMA NoMetrics == LatestOf(<<>>, <<>>)
<1>1. Listed(<<>>) /\ DOMAIN (<<>>) = {}
  BY EmptyListed
<1> QED
  BY <1>1 DEF LatestOf, Distinct

LEMMA SetFields ==
  ASSUME NEW d, NEW f, d = [name |-> d.name, attrs |-> d.attrs, fields |-> d.fields]
  PROVE  LET e == [d EXCEPT !.fields = f]
         IN /\ e = [name |-> d.name, attrs |-> d.attrs, fields |-> f]
            /\ e.name = d.name /\ e.attrs = d.attrs /\ e.fields = f
OBVIOUS

\* What is stored is the model.
LEMMA StoredIs ==
  ASSUME NEW m, IsBase(m)
  PROVE  /\ HeapIs(Overlay!Stored(m).heap, Overlay!Stored(m).model)
         /\ Overlaid(m, Overlay!Stored(m).heap, Overlay!Stored(m).model, <<>>)
<1>1. PICK ds, n : ds = m.datasets /\ n = Len(ds)
  OBVIOUS
<1>2. /\ Listed(ds) /\ n \in Nat /\ DOMAIN ds = 1..n /\ ds = [i \in 1..n |-> ds[i]]
  <2>1. Listed(ds)
    BY <1>1 DEF IsBase
  <2> QED
    BY <1>1, <2>1, ListedIs
<1>3. PICK h, items : /\ h = [i \in 1..n |-> ds[i].fields]
                      /\ items = [i \in 1..n |-> [ds[i] EXCEPT !.fields = i]]
  OBVIOUS
<1>4. PICK g, k : g = Overlay!Stored(m).heap /\ k = Overlay!Stored(m).model
  OBVIOUS
<1>5. \A i \in 1..n :
        /\ ds[i] = [name |-> ds[i].name, attrs |-> ds[i].attrs, fields |-> ds[i].fields]
        /\ IsDataset(ds[i])
  BY <1>1, <1>2 DEF IsBase
<1>6. ASSUME NEW i \in 1..n
      PROVE  /\ items[i] = [name |-> ds[i].name, attrs |-> ds[i].attrs, fields |-> i]
             /\ items[i].name = ds[i].name /\ items[i].attrs = ds[i].attrs /\ items[i].fields = i
  <2>1. items[i] = [ds[i] EXCEPT !.fields = i]
    BY <1>3
  <2>2. ds[i] = [name |-> ds[i].name, attrs |-> ds[i].attrs, fields |-> ds[i].fields]
    BY <1>5
  <2> QED
    BY <2>1, <2>2, SetFields, Zenon
<1>7. Listed(h) /\ Len(h) = n /\ DOMAIN h = 1..n /\ \A i \in 1..n : h[i] = ds[i].fields
  <2>1. h = [i \in 1..n |-> h[i]]
    BY <1>3
  <2>2. Listed(h) /\ Len(h) = n /\ DOMAIN h = 1..n
    BY <1>2, <2>1, FunctionListed
  <2> QED
    BY <1>3, <2>2
<1>8. Listed(items) /\ Len(items) = n /\ DOMAIN items = 1..n
  <2>1. items = [i \in 1..n |-> items[i]]
    BY <1>3
  <2> QED
    BY <1>2, <2>1, FunctionListed
<1>9. ItemsOK(h, items)
  <2>1. ASSUME NEW i \in 1..n
        PROVE  /\ items[i] = [name |-> items[i].name, attrs |-> items[i].attrs,
                              fields |-> items[i].fields]
               /\ IsFunction(items[i].attrs)
               /\ items[i].fields = i /\ IsFields(h[i])
    <3>1. IsFunction(ds[i].attrs) /\ IsFields(ds[i].fields)
      BY <1>5 DEF IsDataset
    <3>2. items[i].attrs = ds[i].attrs /\ items[i].name = ds[i].name /\ items[i].fields = i
      BY <1>6
    <3> QED
      BY <1>6, <1>7, <3>1, <3>2
  <2> QED
    BY <1>7, <1>8, <2>1 DEF ItemsOK
<1>10. View(h, items) = ds
  <2>1. View(h, items) = [i \in 1..n |-> [name |-> items[i].name, attrs |-> items[i].attrs,
                                          fields |-> h[items[i].fields]]]
    BY <1>8 DEF View
  <2>2. ASSUME NEW i \in 1..n
        PROVE  [name |-> items[i].name, attrs |-> items[i].attrs, fields |-> h[items[i].fields]]
                 = ds[i]
    <3>1. items[i].name = ds[i].name /\ items[i].attrs = ds[i].attrs /\ items[i].fields = i
      BY <1>6
    <3>2. h[items[i].fields] = ds[i].fields
      BY <1>7, <3>1
    <3> QED
      BY <1>5, <3>1, <3>2, Zenon
  <2> QED
    BY <1>2, <2>1, <2>2
<1>11. /\ g = h \o <<items, <<>>, <<>>>>
       /\ k = [m EXCEPT !.datasets = n + 1, !.relationships = n + 2, !.metrics = n + 3]
  <2>1. m.relationships = <<>> /\ m.metrics = <<>>
    BY DEF IsBase
  <2> QED
    BY <1>1, <1>3, <1>4, <2>1 DEF Overlay!Stored
<1>12. k.attrs = m.attrs /\ k.datasets = n + 1 /\ k.relationships = n + 2 /\ k.metrics = n + 3
  BY <1>11 DEF IsBase
<1>13. ThreeMore(h, g, items, <<>>, <<>>)
  <2>1. \A z : z = h \o <<items, <<>>, <<>>>> => ThreeMore(h, z, items, <<>>, <<>>)
    BY <1>7, StoreThree
  <2> QED
    BY <1>11, <2>1, Zenon
<1>14. /\ Grown(h, g) /\ Listed(g) /\ DOMAIN g = 1..n + 3
       /\ g[k.datasets] = items /\ g[k.relationships] = <<>> /\ g[k.metrics] = <<>>
       /\ {k.datasets, k.relationships, k.metrics} \subseteq DOMAIN g
  BY <1>2, <1>7, <1>12, <1>13 DEF ThreeMore
<1>15. ItemsOK(g, items) /\ View(g, items) = ds
  BY <1>7, <1>9, <1>10, <1>14, ItemsKept
<1>16. HeapIs(g, k)
  BY <1>14, <1>15, EmptyListed DEF HeapIs
<1>17. Overlaid(m, g, k, <<>>)
  <2>1. Layered(m.attrs, k.attrs, <<>>)
    BY <1>12, LayeredNone DEF IsBase
  <2>2. View(g, g[k.datasets]) = m.datasets
    BY <1>1, <1>14, <1>15
  <2>3. SameShape(m.datasets, m.datasets)
    BY DEF SameShape
  <2>4. Enriched(m.datasets, m.datasets, <<>>)
    BY EnrichesNone, NoLayers DEF Enriched, IsBase
  <2>5. \A r \in Range(g[k.relationships]) : {r.from, r.to} \subseteq Overlay!Names(m.datasets)
    <3>1. Range(<<>>) = {}
      BY EmptyListed DEF Range
    <3> QED
      BY <1>14, <3>1
  <2>6. LatestOf(g[k.metrics], MetricsIn(<<>>))
    BY <1>14, NoMetrics, NoLayers
  <2> QED
    BY <2>1, <2>2, <2>3, <2>4, <2>5, <2>6, Zenon DEF Overlaid
<1> QED
  BY <1>4, <1>16, <1>17

LEMMA NoModelIsBase == IsBase(Overlay!NoModel)
<1>1. Listed(<<>>) /\ DOMAIN (<<>>) = {}
  BY EmptyListed
<1> QED
  BY <1>1 DEF IsBase, Overlay!NoModel, IsFunction

\* The layers of the files applied so far.
LEMMA LayersAre ==
  ASSUME files \in [config : ConfigFiles, flags : FlagFiles]
  PROVE  /\ Applied \in Seq(AllFiles) /\ Len(Applied) \in Nat
         /\ \A n \in 0..Len(Applied) : LayersUpTo(n) \in Seq(AllLayers)
         /\ LayersUpTo(0) = <<>>
         /\ \A n \in 0..Len(Applied) :
              n < Len(Applied) => /\ Applied[n + 1] \in AllFiles
                                  /\ LayersUpTo(n + 1) = LayersUpTo(n) \o Applied[n + 1].models
         /\ LayersUpTo(Len(Applied)) = Overlay!Layers
<1>1. files.config \in Seq(AllFiles) /\ files.flags \in Seq(AllFiles)
  BY LayerTypes
<1>2. Applied = files.config \o files.flags
  BY DEF Applied, Overlay!AllOverlays
<1>3. PICK all : all = Applied
  OBVIOUS
<1>4. all \in Seq(AllFiles)
  BY <1>1, <1>2, <1>3, ConcatProperties
<1>5. Len(all) \in Nat /\ DOMAIN all = 1..Len(all) /\ \A i \in 1..Len(all) : all[i] \in AllFiles
  BY <1>4, IsListed
<1>6. PICK p : p = [i \in DOMAIN all |-> all[i].models]
  OBVIOUS
<1>7. p \in Seq(Seq(AllLayers)) /\ Len(p) = Len(all)
  <2>1. p \in [1..Len(all) -> Seq(AllLayers)]
    BY <1>5, <1>6, LayerTypes
  <2> QED
    BY <1>5, <2>1, IsSeqOf
<1>8. \A n : LayersUpTo(n) = Segment(p, 0, n)
  BY <1>3, <1>6 DEF LayersUpTo
<1>9. \A n \in 0..Len(all) : Segment(p, 0, n) \in Seq(AllLayers)
  <2>1. \A n \in 0..Len(all) : 0 \in 0..n /\ n \in 0..Len(p)
    BY <1>5, <1>7
  <2> QED
    BY <1>7, <2>1, SegmentType
<1>10. Segment(p, 0, 0) = <<>>
  BY SegmentEmpty
<1>11. ASSUME NEW n \in 0..Len(all), n < Len(all)
       PROVE  all[n + 1] \in AllFiles /\ Segment(p, 0, n + 1) = Segment(p, 0, n) \o all[n + 1].models
  <2>1. n + 1 \in 1..Len(all) /\ 0 \in 0..n /\ n \in 0..Len(p) /\ n < Len(p)
    BY <1>5, <1>7, <1>11
  <2>2. Segment(p, 0, n + 1) = Segment(p, 0, n) \o p[n + 1]
    BY <1>7, <2>1, SegmentLast
  <2>3. p[n + 1] = all[n + 1].models /\ all[n + 1] \in AllFiles
    BY <1>5, <1>6, <2>1
  <2> QED
    BY <2>2, <2>3, Zenon
<1>12. Segment(p, 0, Len(all)) = Overlay!Layers
  <2>1. Segment(p, 0, Len(p)) = FlattenSeq(p)
    BY <1>7, WholeSegment
  <2>2. Overlay!Layers = FlattenSeq(p)
    BY <1>2, <1>3, <1>6, OverlayFlattens, Zenon DEF Overlay!Layers
  <2> QED
    BY <1>7, <2>1, <2>2
<1> QED
  BY <1>3, <1>4, <1>5, <1>8, <1>9, <1>10, <1>11, <1>12

\* The overlay at hand is applied.
LEMMA OneFileMore ==
  ASSUME OverlayInv, Overlay!ApplyFile
  PROVE  /\ HeapIs(heap', model') /\ Grown(heap, heap') /\ applied' \in 0..Len(Applied)
         /\ Overlaid(scanned, heap', model', LayersUpTo(applied + 1))
<1>1. /\ layering = "applying" /\ applied < Len(Applied) /\ applied' = applied + 1
      /\ Len(Overlay!NextFile.models) = 1 /\ Overlay!NextFile = Applied[applied + 1]
      /\ Overlay!ApplyOverlay(Overlay!NextFile.models[1])
  BY DEF Overlay!ApplyFile, Overlay!Applying, Overlay!NextFile, Applied
<1>2. /\ files \in [config : ConfigFiles, flags : FlagFiles]
      /\ Overlaid(scanned, heap, model, LayersUpTo(applied))
      /\ applied \in 0..Len(Applied) /\ HeapIs(heap, model)
  BY <1>1 DEF OverlayInv
<1>3. /\ Len(Applied) \in Nat /\ LayersUpTo(applied) \in Seq(AllLayers)
      /\ Applied[applied + 1] \in AllFiles
      /\ LayersUpTo(applied + 1) = LayersUpTo(applied) \o Applied[applied + 1].models
  BY <1>1, <1>2, LayersAre
<1>4. PICK models, over : models = Applied[applied + 1].models /\ over = models[1]
  OBVIOUS
<1>5. models \in Seq(AllLayers) /\ Len(models) = 1
  BY <1>1, <1>3, <1>4, LayerTypes
<1>6. over \in AllLayers /\ models = <<over>>
  BY <1>4, <1>5
<1>7. Applies(heap, model, over, heap', model')
  <2>1. Overlay!ApplyOverlay(over)
    BY <1>1, <1>4
  <2> QED
    BY <2>1, Zenon DEF Overlay!ApplyOverlay, Applies
<1>8. /\ HeapIs(heap', model') /\ Grown(heap, heap')
      /\ Overlaid(scanned, heap', model', LayersUpTo(applied) \o <<over>>)
  BY <1>2, <1>3, <1>6, <1>7, OverlayOnce
<1>9. LayersUpTo(applied + 1) = LayersUpTo(applied) \o <<over>>
  BY <1>3, <1>4, <1>6, Zenon
<1>10. Overlaid(scanned, heap', model', LayersUpTo(applied + 1))
  BY <1>8, <1>9, Zenon
<1>11. applied' \in 0..Len(Applied)
  BY <1>1, <1>2, <1>3
<1> QED
  BY <1>8, <1>10, <1>11

\* With the same files and the same scan, what is said of them is the same.
LEMMA SameFiles ==
  ASSUME UNCHANGED files
  PROVE  Applied' = Applied /\ \A n : LayersUpTo(n)' = LayersUpTo(n)
BY DEF Applied, LayersUpTo

LEMMA OverlayStarts ==
  ASSUME OverlayInv, IsBase(ScannedModel), StartOverlays
  PROVE  OverlayInv'
<1>1. /\ layering = "waiting" /\ layering' = "applying" /\ scanned' = ScannedModel
      /\ files' \in [config : ConfigFiles, flags : FlagFiles] /\ applied' = applied
      /\ heap' = Overlay!Stored(ScannedModel).heap /\ model' = Overlay!Stored(ScannedModel).model
      /\ scanning = "done" /\ UNCHANGED scanVars
  BY DEF StartOverlays, Overlay!Provide
<1>2. applied' = 0 /\ scanning' = "done" /\ scanned' = ScannedModel'
  BY <1>1 DEF OverlayInv, scanVars, ScannedModel
<1>3. HeapIs(heap', model') /\ Overlaid(scanned', heap', model', <<>>)
  BY <1>1, StoredIs
<1>4. (files \in [config : ConfigFiles, flags : FlagFiles] =>
         Len(Applied) \in Nat /\ LayersUpTo(0) = <<>>)'
  BY LayersAre, PTL
<1> QED
  BY <1>1, <1>2, <1>3, <1>4 DEF OverlayInv

LEMMA OverlayStays ==
  ASSUME OverlayInv, OverlayStep
  PROVE  OverlayInv'
<1>1. UNCHANGED scanVars
  BY DEF OverlayStep
<1>2. scanning' = scanning /\ ScannedModel' = ScannedModel
  BY <1>1 DEF scanVars, ScannedModel
<1>3. CASE Overlay!RejectFile
  <2>1. UNCHANGED <<scanned, files, heap, model, applied>> /\ layering = "applying" /\ layering' = "failed"
    BY <1>3 DEF Overlay!RejectFile, Overlay!input, Overlay!Applying
  <2> QED
    BY <1>2, <2>1, SameFiles DEF OverlayInv
<1>4. CASE Overlay!ReturnModel
  <2>1. /\ UNCHANGED <<scanned, files, heap, model, applied>>
        /\ layering = "applying" /\ layering' = "done" /\ applied = Len(Applied)
    BY <1>4 DEF Overlay!ReturnModel, Overlay!input, Applied
  <2> QED
    BY <1>2, <2>1, SameFiles DEF OverlayInv
<1>5. CASE Overlay!ApplyFile
  <2>1. /\ UNCHANGED <<scanned, files, layering>> /\ layering = "applying"
        /\ applied' = applied + 1
    BY <1>5 DEF Overlay!ApplyFile, Overlay!input, Overlay!Applying
  <2>2. /\ HeapIs(heap', model') /\ applied' \in 0..Len(Applied)
        /\ Overlaid(scanned, heap', model', LayersUpTo(applied + 1))
    BY <1>5, OneFileMore
  <2> QED
    BY <1>2, <2>1, <2>2, SameFiles DEF OverlayInv
<1> QED
  BY <1>3, <1>4, <1>5 DEF OverlayStep, Overlay!Next

\* A scan that goes on has no overlays yet.
LEMMA OverlayWaits ==
  ASSUME OverlayInv, ScanStep
  PROVE  OverlayInv'
<1>1. UNCHANGED overlayVars /\ scanning # "done"
  BY DEF ScanStep, Scan!Next, Scan!ScanCatalog, Scan!ScanDescribed, Scan!StartScan,
     Scan!ReadColumn, Scan!ReadWithComment, Scan!EndPostgres, Scan!EndMySQL, Scan!EndOther,
     Scan!ColumnsFail, Scan!ReadComment, Scan!CommentsEnd, Scan!BuildDatasets, Scan!ReturnModel
<1>2. layering = "waiting" /\ UNCHANGED <<scanned, files, heap, model, applied, layering>>
  BY <1>1 DEF OverlayInv, overlayVars
<1> QED
  BY <1>2, SameFiles DEF OverlayInv

LEMMA OverlaySame ==
  ASSUME OverlayInv, UNCHANGED vars
  PROVE  OverlayInv'
<1>1. /\ UNCHANGED <<scanned, files, heap, model, applied, layering>>
      /\ scanning' = scanning /\ ScannedModel' = ScannedModel
  BY DEF vars, scanVars, overlayVars, ScannedModel
<1> QED
  BY <1>1, SameFiles DEF OverlayInv

LEMMA OverlayInit ==
  ASSUME Init
  PROVE  OverlayInv
<1>1. /\ layering = "waiting" /\ files = [config |-> <<>>, flags |-> <<>>] /\ applied = 0
      /\ heap = Overlay!Stored(Overlay!NoModel).heap /\ model = Overlay!Stored(Overlay!NoModel).model
  BY DEF Init, Overlay!Init
<1>2. Len(Applied) = 0
  <2>1. Applied = <<>> \o <<>>
    BY <1>1 DEF Applied, Overlay!AllOverlays
  <2> QED
    BY <2>1, EmptyTwice, EmptyListed
<1>3. HeapIs(heap, model)
  BY <1>1, NoModelIsBase, StoredIs
<1> QED
  BY <1>1, <1>2, <1>3 DEF OverlayInv

-----------------------------------------------------------------------------
(* The catalogs.                                                           *)

LEMMA IdentifierIsName ==
  ASSUME NEW x \in Identifier
  PROVE  x \in Name
<1>1. x \in Seq(STRING)
  BY DEF Identifier
<1>2. \A i \in 1..Len(x) : x[i] \in STRING \cup {"default"}
  BY <1>1, IsListed
<1> QED
  BY <1>1, <1>2, Retype DEF Name

LEMMA SourcesAre ==
  ASSUME sources \in SourceMaps
  PROVE  /\ Listed(sources) /\ Count \in Nat /\ DOMAIN sources = 1..Count
         /\ \A j, k \in 1..Count : sources[j].name = sources[k].name => j = k
         /\ \A k \in 1..Count : sources[k].name \in Name
<1>1. Listed(sources)
  BY SourcesAssumption
<1>2. Count \in Nat /\ DOMAIN sources = 1..Count
  BY <1>1, ListedIs DEF Count
<1>3. \A k \in 1..Count : sources[k].name \in Name
  BY <1>2, SourcesAssumption, IdentifierIsName
<1> QED
  BY <1>1, <1>2, <1>3, SourcesAssumption

LEMMA ColumnsAre ==
  ASSUME sources \in SourceMaps, NEW k \in 1..Count
  PROVE  /\ Listed(Columns(k)) /\ Len(Columns(k)) \in Nat /\ DOMAIN Columns(k) = 1..Len(Columns(k))
         /\ \A i \in 1..Len(Columns(k)) :
              /\ Columns(k)[i] \in [table : Table, name : Name, comment : STRING]
              /\ Columns(k)[i].table \in Table /\ Columns(k)[i].name \in Name
              /\ Described(k) => Columns(k)[i].table = DefaultTable(k)
         /\ \A i, j \in 1..Len(Columns(k)) :
              Columns(k)[i].table = Columns(k)[j].table /\ Columns(k)[i].name = Columns(k)[j].name => i = j
         /\ DefaultTable(k) \in Table
<1>1. k \in DOMAIN sources /\ sources[k].name \in Name
  BY SourcesAre
<1>2. Listed(Columns(k))
  BY <1>1, SourcesAssumption DEF Columns
<1>3. Len(Columns(k)) \in Nat /\ DOMAIN Columns(k) = 1..Len(Columns(k))
  BY <1>2, ListedIs
<1>4. \A i \in DOMAIN Columns(k) :
        /\ Columns(k)[i] \in [table : Identifier \X Identifier, name : Identifier, comment : STRING]
        /\ Described(k) => Columns(k)[i].table = DefaultTable(k)
  BY <1>1, SourcesAssumption, Zenon DEF Columns, DefaultTable, Described, Scan!Described
<1>5. ASSUME NEW i \in DOMAIN Columns(k)
      PROVE  /\ Columns(k)[i] \in [table : Table, name : Name, comment : STRING]
             /\ Columns(k)[i].table \in Table /\ Columns(k)[i].name \in Name
  <2>1. PICK c : c = Columns(k)[i]
    OBVIOUS
  <2>2. c \in [table : Identifier \X Identifier, name : Identifier, comment : STRING]
    BY <1>4, <2>1
  <2>3. c.table \in Table /\ c.name \in Name
    BY <2>2, IdentifierIsName DEF Table
  <2>4. c \in [table : Table, name : Name, comment : STRING]
    BY <2>2, <2>3
  <2> QED
    BY <2>1, <2>3, <2>4
<1>6. \A i, j \in DOMAIN Columns(k) :
        Columns(k)[i].table = Columns(k)[j].table /\ Columns(k)[i].name = Columns(k)[j].name => i = j
  BY <1>1, SourcesAssumption, Zenon DEF Columns
<1>7. DefaultTable(k) \in Table
  <2>1. <<"default">> \in Name
    BY OneOrTwo DEF Name
  <2> QED
    BY <1>1, <2>1 DEF DefaultTable, Table
<1> QED
  BY <1>2, <1>3, <1>4, <1>5, <1>6, <1>7

LEMMA PiecesAre ==
  ASSUME sources \in SourceMaps, NEW k \in 1..Count, NEW t
  PROVE  /\ TablePieces(k) \in Seq(Seq(Table)) /\ Len(TablePieces(k)) = Len(Columns(k))
         /\ \A i \in 1..Len(Columns(k)) :
              TablePieces(k)[i] = IF \E j \in 1..i - 1 : Columns(k)[j].table = Columns(k)[i].table
                                    THEN <<>> ELSE <<Columns(k)[i].table>>
         /\ FieldPieces(k, t) \in Seq(Seq(Name)) /\ Len(FieldPieces(k, t)) = Len(Columns(k))
         /\ \A i \in 1..Len(Columns(k)) :
              FieldPieces(k, t)[i] = IF Columns(k)[i].table = t THEN <<Columns(k)[i].name>> ELSE <<>>
<1>1. PICK cs : cs = Columns(k)
  OBVIOUS
<1>2. /\ Len(cs) \in Nat /\ DOMAIN cs = 1..Len(cs)
      /\ \A i \in 1..Len(cs) : cs[i].table \in Table /\ cs[i].name \in Name
  BY <1>1, ColumnsAre
<1>3. \A i \in 1..Len(cs) :
        <<cs[i].table>> \in Seq(Table) /\ <<cs[i].name>> \in Seq(Name)
        /\ <<>> \in Seq(Table) /\ <<>> \in Seq(Name)
  BY <1>2, OneOrTwo
<1>4. PICK p, q : p = TablePieces(k) /\ q = FieldPieces(k, t)
  OBVIOUS
<1>5. /\ p = [i \in 1..Len(cs) |-> IF \E j \in 1..i - 1 : cs[j].table = cs[i].table
                                    THEN <<>> ELSE <<cs[i].table>>]
      /\ q = [i \in 1..Len(cs) |-> IF cs[i].table = t THEN <<cs[i].name>> ELSE <<>>]
  BY <1>1, <1>2, <1>4, Zenon DEF TablePieces, FieldPieces
<1>6. p \in [1..Len(cs) -> Seq(Table)]
  BY <1>3, <1>5
<1>7. q \in [1..Len(cs) -> Seq(Name)]
  BY <1>3, <1>5
<1>8. p \in Seq(Seq(Table)) /\ Len(p) = Len(cs)
  BY <1>2, <1>6, IsSeqOf
<1>9. q \in Seq(Seq(Name)) /\ Len(q) = Len(cs)
  BY <1>2, <1>7, IsSeqOf
<1>10. /\ \A i \in 1..Len(cs) :
            p[i] = IF \E j \in 1..i - 1 : cs[j].table = cs[i].table THEN <<>> ELSE <<cs[i].table>>
       /\ \A i \in 1..Len(cs) : q[i] = IF cs[i].table = t THEN <<cs[i].name>> ELSE <<>>
  BY <1>5, Zenon
<1> QED
  BY <1>1, <1>4, <1>8, <1>9, <1>10, Zenon

LEMMA FieldPieceIs ==
  ASSUME sources \in SourceMaps, NEW k \in 1..Count, NEW t, NEW i \in 1..Len(Columns(k))
  PROVE  /\ Columns(k)[i].table = t => FieldPieces(k, t)[i] = <<Columns(k)[i].name>>
         /\ Columns(k)[i].table # t => FieldPieces(k, t)[i] = <<>>
<1>1. i \in DOMAIN Columns(k)
  BY ColumnsAre
<1>2. CASE Columns(k)[i].table = t
  BY <1>1, <1>2 DEF FieldPieces
<1>3. CASE Columns(k)[i].table # t
  BY <1>1, <1>3 DEF FieldPieces
<1> QED
  BY <1>2, <1>3

LEMMA AppendConcat ==
  ASSUME NEW s, Listed(s), NEW x
  PROVE  Append(s, x) = s \o <<x>>
<1>1. PICK r, q : r = Append(s, x) /\ q = <<x>>
  OBVIOUS
<1>2. Listed(r) /\ Len(r) = Len(s) + 1 /\ (\A i \in 1..Len(s) : r[i] = s[i]) /\ r[Len(s) + 1] = x
  BY <1>1, AppendIs
<1>3. Listed(q) /\ Len(q) = 1 /\ q[1] = x
  BY <1>1, OneListed
<1>4. r = s \o q
  <2>1. Len(r) = Len(s) + Len(q)
    BY <1>2, <1>3
  <2>2. \A i \in 1..Len(q) : r[Len(s) + i] = q[i]
    BY <1>2, <1>3
  <2>3. Listed(r) /\ Listed(q)
    BY <1>2, <1>3
  <2> QED
    BY <1>2, <2>1, <2>2, <2>3, IsConcat
<1> QED
  BY <1>1, <1>4, Zenon

LEMMA NamesAppend ==
  ASSUME NEW items, Listed(items), NEW c
  PROVE  /\ Listed(NamesIn(items)) /\ Len(NamesIn(items)) = Len(items)
         /\ NamesIn(Append(items, c)) = NamesIn(items) \o <<c.name>>
<1>1. PICK s, p, q, r : /\ s = Append(items, c) /\ p = NamesIn(items) /\ q = <<c.name>>
                        /\ r = NamesIn(Append(items, c))
  OBVIOUS
<1>2. /\ Listed(s) /\ Len(s) = Len(items) + 1 /\ s[Len(items) + 1] = c
      /\ \A i \in 1..Len(items) : s[i] = items[i]
  BY <1>1, AppendIs
<1>3. /\ Len(items) \in Nat /\ DOMAIN items = 1..Len(items) /\ DOMAIN s = 1..Len(s)
  BY <1>2, ListedIs
<1>4. p = [i \in 1..Len(items) |-> items[i].name] /\ r = [i \in 1..Len(s) |-> s[i].name]
  BY <1>1, <1>3 DEF NamesIn
<1>5. Listed(p) /\ Len(p) = Len(items)
  <2>1. p = [i \in 1..Len(items) |-> p[i]]
    BY <1>4
  <2> QED
    BY <1>3, <2>1, FunctionListed
<1>6. Listed(r) /\ Len(r) = Len(s)
  <2>1. r = [i \in 1..Len(s) |-> r[i]] /\ Len(s) \in Nat
    BY <1>2, <1>3, <1>4
  <2> QED
    BY <2>1, FunctionListed
<1>7. Listed(q) /\ Len(q) = 1 /\ q[1] = c.name
  BY <1>1, OneListed
<1>8. Len(r) = Len(p) + Len(q) /\ Len(p) \in Nat
  BY <1>2, <1>3, <1>5, <1>6, <1>7
<1>9. \A i \in 1..Len(p) : r[i] = p[i]
  BY <1>2, <1>3, <1>4, <1>5
<1>10. \A i \in 1..Len(q) : r[Len(p) + i] = q[i]
  BY <1>2, <1>3, <1>4, <1>5, <1>7
<1>11. Listed(p) /\ Listed(q) /\ Listed(r)
  BY <1>5, <1>6, <1>7
<1>12. r = p \o q
  BY <1>8, <1>9, <1>10, <1>11, IsConcat
<1> QED
  BY <1>1, <1>5, <1>12, Zenon

LEMMA OneStep ==
  ASSUME NEW l \in Nat, NEW n \in 0..l, n < l
  PROVE  /\ n \in Nat /\ n + 1 \in Nat /\ n + 1 \in 0..l /\ n + 1 \in 1..l /\ n + 1 \in 1..n + 1
         /\ 0 \in 0..n /\ (n + 1) - 1 = n /\ l \in 0..l
         /\ \A j \in 1..n : j \in 1..n + 1 /\ j \in 1..l /\ j # n + 1
         /\ \A j \in 1..n + 1 : j \in 1..n \/ j = n + 1
OBVIOUS

LEMMA UpToNext == \A l \in Nat : \A i \in 1..l + 1 : i = l + 1 \/ i \in 1..l
OBVIOUS

\* One column more, for the group of a table.
LEMMA GroupOneMore ==
  ASSUME sources \in SourceMaps, NEW k \in 1..Count,
         NEW n \in 0..Len(Columns(k)), n < Len(Columns(k)),
         NEW t, NEW items, GroupIs(k, n, t, items), NEW c,
         c.table = Columns(k)[n + 1].table, c.name = Columns(k)[n + 1].name,
         c.comment \in {"", Columns(k)[n + 1].comment}
  PROVE  /\ c.table = t => GroupIs(k, n + 1, t, Append(items, c))
         /\ c.table # t => GroupIs(k, n + 1, t, items)
<1>1. PICK cs : cs = Columns(k)
  OBVIOUS
<1>2. /\ Len(cs) \in Nat
      /\ \A i, j \in 1..Len(cs) : cs[i].table = cs[j].table /\ cs[i].name = cs[j].name => i = j
  BY <1>1, ColumnsAre
<1>3. /\ n \in 0..Len(cs) /\ n < Len(cs) /\ n + 1 \in 1..Len(cs) /\ n \in Nat
      /\ \A j \in 1..n : j \in 1..n + 1 /\ j \in 1..Len(cs) /\ j # n + 1
      /\ n + 1 \in 1..n + 1 /\ 0 \in 0..n
  <2>1. n \in 0..Len(cs) /\ n < Len(cs)
    BY <1>1, Zenon
  <2> QED
    BY <1>2, <2>1, OneStep
<1>4. /\ Listed(items) /\ Distinct(items) /\ NamesIn(items) = Segment(FieldPieces(k, t), 0, n)
      /\ \A i \in DOMAIN items : IsColumn(k, n, t, items[i])
  BY DEF GroupIs
<1>5. /\ Segment(FieldPieces(k, t), 0, n) \in Seq(Name)
      /\ Segment(FieldPieces(k, t), 0, n + 1)
           = Segment(FieldPieces(k, t), 0, n) \o FieldPieces(k, t)[n + 1]
      /\ cs[n + 1].table = t => FieldPieces(k, t)[n + 1] = <<cs[n + 1].name>>
      /\ cs[n + 1].table # t => FieldPieces(k, t)[n + 1] = <<>>
  <2>1. FieldPieces(k, t) \in Seq(Seq(Name)) /\ Len(FieldPieces(k, t)) = Len(cs)
    BY <1>1, PiecesAre
  <2>2. 0 \in 0..n
    BY <1>3
  <2>3. /\ cs[n + 1].table = t => FieldPieces(k, t)[n + 1] = <<cs[n + 1].name>>
        /\ cs[n + 1].table # t => FieldPieces(k, t)[n + 1] = <<>>
    <3>1. n + 1 \in 1..Len(Columns(k))
      BY <1>1, <1>3, Zenon
    <3> QED
      BY <1>1, <3>1, FieldPieceIs, Zenon
  <2> QED
    BY <1>3, <2>1, <2>2, <2>3, SegmentLast
<1>6. \A i \in DOMAIN items : IsColumn(k, n + 1, t, items[i])
  BY <1>3, <1>4 DEF IsColumn
<1>7. ASSUME c.table # t PROVE GroupIs(k, n + 1, t, items)
  <2>1. FieldPieces(k, t)[n + 1] = <<>>
    BY <1>1, <1>5, <1>7
  <2>2. Segment(FieldPieces(k, t), 0, n) \o <<>> = Segment(FieldPieces(k, t), 0, n)
    BY <1>5, ConcatEmptySeq
  <2>3. NamesIn(items) = Segment(FieldPieces(k, t), 0, n + 1)
    BY <1>4, <1>5, <2>1, <2>2, Zenon
  <2> QED
    BY <1>4, <1>6, <2>3 DEF GroupIs
<1>8. ASSUME c.table = t PROVE GroupIs(k, n + 1, t, Append(items, c))
  <2>1. PICK s : s = Append(items, c)
    OBVIOUS
  <2>2. /\ Listed(s) /\ Len(s) = Len(items) + 1 /\ s[Len(items) + 1] = c
        /\ \A i \in 1..Len(items) : s[i] = items[i]
    BY <1>4, <2>1, AppendIs
  <2>3. Len(items) \in Nat /\ DOMAIN items = 1..Len(items) /\ DOMAIN s = 1..Len(items) + 1
    BY <1>4, <2>2, ListedIs
  <2>4. \A i \in DOMAIN s : i = Len(items) + 1 \/ i \in DOMAIN items
    BY <2>3, UpToNext, Zenon
  <2>5. FieldPieces(k, t)[n + 1] = <<c.name>>
    BY <1>1, <1>5, <1>8
  <2>6. NamesIn(s) = Segment(FieldPieces(k, t), 0, n + 1)
    <3>1. NamesIn(Append(items, c)) = NamesIn(items) \o <<c.name>>
      BY <1>4, NamesAppend
    <3> QED
      BY <1>4, <1>5, <2>1, <2>5, <3>1, Zenon
  <2>7. IsColumn(k, n + 1, t, c)
    BY <1>3, <1>8 DEF IsColumn
  <2>8. \A i \in DOMAIN s : IsColumn(k, n + 1, t, s[i])
    BY <1>6, <2>2, <2>3, <2>4, <2>7
  <2>9. ASSUME NEW i \in DOMAIN items PROVE items[i].name # c.name
    <3>1. PICK j \in 1..n : cs[j].table = t /\ cs[j].name = items[i].name
      BY <1>1, <1>4 DEF IsColumn
    <3> QED
      BY <1>1, <1>2, <1>3, <1>8, <3>1
  <2>10. Distinct(s)
    <3>1. \A i \in DOMAIN items : s[i] = items[i]
      BY <2>2, <2>3
    <3>2. \A i \in DOMAIN s : s[i].name = c.name => i = Len(items) + 1
      BY <2>4, <2>9, <3>1, Zenon
    <3>3. \A i, j \in DOMAIN items : s[i].name = s[j].name => i = j
      BY <1>4, <3>1, Zenon DEF Distinct
    <3>4. s[Len(items) + 1].name = c.name
      BY <2>2
    <3> QED
      BY <2>4, <3>2, <3>3, <3>4, Zenon DEF Distinct
  <2> QED
    BY <2>1, <2>2, <2>6, <2>8, <2>10 DEF GroupIs
<1> QED
  BY <1>7, <1>8

\* One column more, for the tables.
LEMMA TablesOneMore ==
  ASSUME sources \in SourceMaps, NEW k \in 1..Count,
         NEW n \in 0..Len(Columns(k)), n < Len(Columns(k)),
         NEW tables, TablesAre(k, n, tables), NEW t, t = Columns(k)[n + 1].table
  PROVE  /\ TablesAre(k, n + 1, IF t \in Range(tables) THEN tables ELSE Append(tables, t))
         /\ TableSet(k, n + 1) = TableSet(k, n) \cup {t}
<1>1. PICK cs : cs = Columns(k)
  OBVIOUS
<1>2. /\ Len(cs) \in Nat /\ \A i \in 1..Len(cs) : Described(k) => cs[i].table = DefaultTable(k)
  BY <1>1, ColumnsAre
<1>3. /\ n \in 0..Len(cs) /\ n < Len(cs) /\ n + 1 \in 1..Len(cs) /\ n \in Nat /\ 0 \in 0..n
      /\ \A j : j \in 1..n + 1 <=> j \in 1..n \/ j = n + 1
      /\ (n + 1) - 1 = n /\ t = cs[n + 1].table
  <2>1. n \in 0..Len(cs) /\ n < Len(cs) /\ t = cs[n + 1].table
    BY <1>1, Zenon
  <2>2. /\ n + 1 \in 1..Len(cs) /\ n \in Nat /\ 0 \in 0..n /\ (n + 1) - 1 = n
        /\ \A j \in 1..n : j \in 1..n + 1
        /\ \A j \in 1..n + 1 : j \in 1..n \/ j = n + 1
        /\ n + 1 \in 1..n + 1
    BY <1>2, <2>1, OneStep
  <2> QED
    BY <2>1, <2>2, Zenon
<1>4. /\ tables = TablesUpTo(k, n) /\ Listed(tables) /\ IsInjective(tables)
      /\ Range(tables) = TableSet(k, n)
  BY DEF TablesAre
<1>5. TableSet(k, n + 1) = TableSet(k, n) \cup {t}
  <2>1. CASE Described(k)
    BY <1>2, <1>3, <2>1 DEF TableSet
  <2>2. CASE ~Described(k)
    BY <1>1, <1>3, <2>2 DEF TableSet
  <2> QED
    BY <2>1, <2>2
<1>6. CASE Described(k)
  <2>1. t \in Range(tables) /\ TablesUpTo(k, n + 1) = TablesUpTo(k, n)
    BY <1>2, <1>3, <1>4, <1>6 DEF TableSet, TablesUpTo
  <2>2. TableSet(k, n + 1) = TableSet(k, n)
    BY <1>4, <1>5, <2>1
  <2>3. TablesAre(k, n + 1, tables)
    BY <1>4, <2>1, <2>2 DEF TablesAre
  <2> QED
    BY <1>5, <2>1, <2>3
<1>7. CASE ~Described(k)
  <2>1. /\ tables = Segment(TablePieces(k), 0, n)
        /\ TablesUpTo(k, n + 1) = Segment(TablePieces(k), 0, n + 1)
    BY <1>4, <1>7 DEF TablesUpTo
  <2>2. /\ Segment(TablePieces(k), 0, n) \in Seq(Table)
        /\ Segment(TablePieces(k), 0, n + 1)
             = Segment(TablePieces(k), 0, n) \o TablePieces(k)[n + 1]
    <3>1. TablePieces(k) \in Seq(Seq(Table)) /\ Len(TablePieces(k)) = Len(cs)
      BY <1>1, PiecesAre
    <3>2. 0 \in 0..n
      BY <1>3
    <3> QED
      BY <1>3, <3>1, <3>2, SegmentLast
  <2>3. TablePieces(k)[n + 1] = IF \E j \in 1..n : cs[j].table = t THEN <<>> ELSE <<t>>
    <3>1. n + 1 \in 1..Len(Columns(k))
      BY <1>1, <1>3, Zenon
    <3>2. TablePieces(k)[n + 1] =
            IF \E j \in 1..(n + 1) - 1 : Columns(k)[j].table = Columns(k)[n + 1].table
              THEN <<>> ELSE <<Columns(k)[n + 1].table>>
      BY <3>1, PiecesAre, Zenon
    <3> QED
      BY <1>1, <1>3, <3>2, Zenon
  <2>4. t \in Range(tables) <=> \E j \in 1..n : cs[j].table = t
    BY <1>1, <1>4, <1>7 DEF TableSet
  <2>5. CASE t \in Range(tables)
    <3>1. TablePieces(k)[n + 1] = <<>>
      BY <2>3, <2>4, <2>5
    <3>2. Segment(TablePieces(k), 0, n) \o <<>> = Segment(TablePieces(k), 0, n)
      BY <2>2, ConcatEmptySeq
    <3>3. tables = TablesUpTo(k, n + 1)
      BY <2>1, <2>2, <3>1, <3>2, Zenon
    <3>4. TableSet(k, n + 1) = Range(tables)
      BY <1>4, <1>5, <2>5
    <3> QED
      BY <1>4, <1>5, <2>5, <3>3, <3>4 DEF TablesAre
  <2>6. CASE t \notin Range(tables)
    <3>1. PICK s : s = Append(tables, t)
      OBVIOUS
    <3>2. /\ Listed(s) /\ Len(s) = Len(tables) + 1 /\ s[Len(tables) + 1] = t
          /\ \A i \in 1..Len(tables) : s[i] = tables[i]
      BY <1>4, <3>1, AppendIs
    <3>3. TablePieces(k)[n + 1] = <<t>>
      BY <2>3, <2>4, <2>6
    <3>4. Append(tables, t) = tables \o <<t>>
      BY <1>4, AppendConcat
    <3>5. s = TablesUpTo(k, n + 1)
      BY <2>1, <2>2, <3>1, <3>3, <3>4, Zenon
    <3>6. /\ Len(tables) \in Nat /\ DOMAIN tables = 1..Len(tables)
          /\ DOMAIN s = 1..Len(tables) + 1
      BY <1>4, <3>2, ListedIs
    <3>7. /\ \A i \in DOMAIN s : i = Len(tables) + 1 \/ i \in DOMAIN tables
          /\ DOMAIN tables \subseteq DOMAIN s /\ Len(tables) + 1 \in DOMAIN s
          /\ \A i \in DOMAIN tables : s[i] = tables[i]
      BY <3>2, <3>6
    <3>8. IsInjective(s)
      <4>1. \A i \in DOMAIN tables : tables[i] # t
        BY <2>6 DEF Range
      <4> QED
        BY <1>4, <3>2, <3>7, <4>1 DEF IsInjective
    <3>9. Range(s) = Range(tables) \cup {t}
      <4>1. \A i \in DOMAIN s : s[i] \in Range(tables) \cup {t}
        BY <3>2, <3>7 DEF Range
      <4>2. \A x \in Range(tables) \cup {t} : \E i \in DOMAIN s : s[i] = x
        BY <3>2, <3>7 DEF Range
      <4> QED
        BY <4>1, <4>2 DEF Range
    <3>10. TablesAre(k, n + 1, s)
      BY <1>4, <1>5, <3>2, <3>5, <3>8, <3>9 DEF TablesAre
    <3> QED
      BY <1>5, <2>6, <3>1, <3>10
  <2> QED
    BY <2>5, <2>6
<1> QED
  BY <1>6, <1>7

-----------------------------------------------------------------------------
(* The scan keeps its invariant.                                           *)

LEMMA SameSources ==
  ASSUME UNCHANGED sources
  PROVE  /\ Count' = Count
         /\ \A k : /\ Columns(k)' = Columns(k) /\ Described(k)' = Described(k)
                   /\ ColumnRows(k)' = ColumnRows(k) /\ TableRows(k)' = TableRows(k)
         /\ \A k, n, x : /\ TableSet(k, n)' = TableSet(k, n)
                         /\ TablesAre(k, n, x)' = TablesAre(k, n, x)
         /\ \A k, n, t, x : GroupIs(k, n, t, x)' = GroupIs(k, n, t, x)
         /\ \A n, x : Found(n, x)' = Found(n, x)
<1>1. Count' = Count
  BY DEF Count
<1>2. ASSUME NEW k
      PROVE  /\ Columns(k)' = Columns(k) /\ Described(k)' = Described(k)
             /\ ColumnRows(k)' = ColumnRows(k) /\ TableRows(k)' = TableRows(k)
  BY DEF Columns, Described, ColumnRows, TableRows
<1>3. ASSUME NEW k, NEW n, NEW x
      PROVE  TableSet(k, n)' = TableSet(k, n) /\ TablesAre(k, n, x)' = TablesAre(k, n, x)
  BY DEF TablesAre, TablesUpTo, TableSet, TablePieces, DefaultTable, Columns, Described
<1>4. ASSUME NEW k, NEW n, NEW t, NEW x PROVE GroupIs(k, n, t, x)' = GroupIs(k, n, t, x)
  BY DEF GroupIs, FieldPieces, IsColumn, Columns
<1>5. ASSUME NEW n, NEW x PROVE Found(n, x)' = Found(n, x)
  BY DEF Found, IsFor, ExpectedOf, NameOf, TrueDescription, TrueField, Count, Columns, Described,
     Scan!Expected, Scan!ExpectedTables, Scan!ExpectedFields
<1> QED
  BY <1>1, <1>2, <1>3, <1>4, <1>5

LEMMA KeyIs ==
  ASSUME sources \in SourceMaps, NEW k \in 1..Count, todo = k..Count
  PROVE  Scan!Key = k /\ Scan!Current = sources[k] /\ todo # {}
<1>1. Count \in Nat
  BY SourcesAre
<1>2. k \in todo /\ \A j \in todo : k <= j
  BY <1>1
<1>3. \A i \in todo : (\A j \in todo : i <= j) => i = k
  BY <1>1
<1>4. Scan!Key = k
  BY <1>2, <1>3 DEF Scan!Key
<1> QED
  BY <1>2, <1>4 DEF Scan!Current

\* The invariant of the scan before and after a step.
LEMMA ScanInvIs ==
  ASSUME ScanInv
  PROVE  \E k \in 1..Count + 1 : /\ Scanning(k) /\ (scanning = "done" => k = Count + 1)
                                 /\ k <= Count => k \in 1..Count
                                 /\ todo # {} => k \in 1..Count
                                 /\ todo = {} => k = Count + 1
<1>1. Count \in Nat
  BY SourcesAre DEF ScanInv
<1>2. PICK k \in 1..Count + 1 : Scanning(k) /\ (scanning = "done" => k = Count + 1)
  BY DEF ScanInv
<1>3. todo = k..Count
  BY <1>2 DEF Scanning
<1>4. (k <= Count => k \in 1..Count) /\ (k..Count # {} => k <= Count) /\ (k..Count = {} => k = Count + 1)
  BY <1>1
<1> QED
  BY <1>2, <1>3, <1>4

LEMMA ScanInvWith ==
  ASSUME NEW k \in 1..Count + 1, ScanInv, UNCHANGED <<sources, todo>>, Scanning(k)',
         scanning' \in {"next", "columns", "columnComments", "tableComments", "build", "failed"}
  PROVE  ScanInv'
<1>1. Count' = Count /\ sources' \in SourceMaps
  BY SameSources DEF ScanInv
<1> QED
  BY <1>1 DEF ScanInv

LEMMA NoGroup ==
  ASSUME NEW k, NEW t
  PROVE  GroupIs(k, 0, t, <<>>)
<1>1. Listed(<<>>) /\ DOMAIN (<<>>) = {}
  BY EmptyListed
<1>2. Segment(FieldPieces(k, t), 0, 0) = <<>>
  BY SegmentEmpty
<1>3. NamesIn(<<>>) = <<>>
  BY <1>1 DEF NamesIn
<1> QED
  BY <1>1, <1>2, <1>3 DEF GroupIs, Distinct

LEMMA NoTable ==
  ASSUME NEW k
  PROVE  TablesAre(k, 0, IF Described(k) THEN <<DefaultTable(k)>> ELSE <<>>)
<1>1. CASE Described(k)
  <2>1. PICK x : x = <<DefaultTable(k)>>
    OBVIOUS
  <2>2. Listed(x) /\ Len(x) = 1 /\ x[1] = DefaultTable(k)
    BY <2>1, OneListed
  <2>3. DOMAIN x = {1}
    BY <2>2, ListedIs
  <2>4. IsInjective(x) /\ Range(x) = {DefaultTable(k)}
    BY <2>2, <2>3 DEF IsInjective, Range
  <2> QED
    BY <1>1, <2>1, <2>2, <2>4 DEF TablesAre, TablesUpTo, TableSet
<1>2. CASE ~Described(k)
  <2>1. Segment(TablePieces(k), 0, 0) = <<>>
    BY SegmentEmpty
  <2>2. Listed(<<>>) /\ DOMAIN (<<>>) = {}
    BY EmptyListed
  <2>3. IsInjective(<<>>) /\ Range(<<>>) = {}
    BY <2>2 DEF IsInjective, Range
  <2>4. TableSet(k, 0) = {}
    BY <1>2 DEF TableSet
  <2> QED
    BY <1>2, <2>1, <2>2, <2>3, <2>4 DEF TablesAre, TablesUpTo
<1> QED
  BY <1>1, <1>2

LEMMA ScanStarts ==
  ASSUME ScanInv, Scan!ScanCatalog \/ Scan!ScanDescribed
  PROVE  ScanInv'
<1>1. PICK k \in 1..Count + 1 : Scanning(k) /\ (todo # {} => k \in 1..Count)
  BY ScanInvIs
<1>2. k \in 1..Count /\ sources \in SourceMaps /\ todo = k..Count /\ scanning = "next"
  BY <1>1 DEF ScanInv, Scanning, Scan!ScanCatalog, Scan!ScanDescribed, Scan!StartScan
<1>3. Scan!Current = sources[k]
  BY <1>2, KeyIs
<1>4. PICK tables : /\ tables = IF Described(k) THEN <<DefaultTable(k)>> ELSE <<>>
                    /\ Scan!StartScan(tables)
  BY <1>3 DEF Scan!ScanCatalog, Scan!ScanDescribed, Described, DefaultTable
<1>5. /\ scanning' = "columns" /\ read' = 0 /\ ordered' = tables
      /\ grouped' = [t \in Range(tables) |-> <<>>]
      /\ columnComments' = Scan!Nothing /\ tableComments' = Scan!Nothing
      /\ UNCHANGED <<sources, todo, datasets>>
  BY <1>4 DEF Scan!StartScan, Scan!Range, Range
<1>6. TablesAre(k, 0, tables)
  BY <1>4, NoTable
<1>7. DOMAIN grouped' = Range(tables) /\ \A t : GroupIn(grouped', t) = <<>>
  BY <1>5 DEF GroupIn
<1>8. 0 \in 0..Len(Columns(k)) /\ k <= Count /\ Count \in Nat
  BY <1>2, ColumnsAre, SourcesAre
<1>9. Grouped(k)'
  BY <1>5, <1>6, <1>7, <1>8, NoGroup, SameSources DEF Grouped
<1>10. CommentsRead(k)'
  BY <1>5 DEF CommentsRead, CommentsIn, Scan!Nothing
<1>11. Found(k - 1, datasets)'
  BY <1>1, <1>2, <1>5, SameSources DEF Scanning
<1>12. Count' = Count
  BY <1>5, SameSources
<1>13. Scanning(k)'
  BY <1>2, <1>5, <1>8, <1>9, <1>10, <1>11, <1>12 DEF Scanning
<1> QED
  BY <1>5, <1>13, ScanInvWith

\* What a table's group becomes.
GroupPut(groups, t, items, g) ==
  /\ DOMAIN g = DOMAIN groups \cup {t} /\ GroupIn(g, t) = items
  /\ \A u : u # t => GroupIn(g, u) = GroupIn(groups, u)

LEMMA PutGroup ==
  ASSUME NEW groups, NEW t, NEW items, NEW g, g = Scan!Put(groups, t, items)
  PROVE  GroupPut(groups, t, items, g)
<1>1. g = [x \in DOMAIN groups \cup {t} |-> IF x = t THEN items ELSE groups[x]]
  BY DEF Scan!Put
<1>2. DOMAIN g = DOMAIN groups \cup {t} /\ g[t] = items
  BY <1>1
<1>3. \A u \in DOMAIN groups : u # t => g[u] = groups[u]
  BY <1>1
<1> QED
  BY <1>2, <1>3 DEF GroupIn, GroupPut

LEMMA KeyBounds ==
  ASSUME sources \in SourceMaps, NEW k \in 1..Count
  PROVE  /\ k \in Nat /\ Count \in Nat /\ k \in 1..Count + 1 /\ k + 1 \in 1..Count + 1
         /\ k - 1 \in 0..Count /\ k - 1 < Count /\ (k - 1) + 1 = k /\ (k + 1) - 1 = k
         /\ 0 \in 0..k - 1 /\ k \in 0..Count
         /\ (k..Count) \ {k} = (k + 1)..Count
<1>1. Count \in Nat
  BY SourcesAre
<1> QED
  BY <1>1

\* The column that is read next, with its comment or none.
IsNext(k, n, c) ==
  /\ c.table = Columns(k)[n + 1].table /\ c.name = Columns(k)[n + 1].name
  /\ c.comment \in {"", Columns(k)[n + 1].comment}

LEMMA ColumnReads ==
  ASSUME ScanInv, NEW k \in 1..Count, Scanning(k), NEW c, Scan!Read(c), IsNext(k, read, c)
  PROVE  ScanInv'
<1>1. PICK n, t, l : n = read /\ t = c.table /\ l = Len(Columns(k))
  OBVIOUS
<1>2. /\ sources \in SourceMaps /\ todo = k..Count /\ Found(k - 1, datasets)
      /\ scanning = "columns" /\ scanning' = "columns" /\ Grouped(k) /\ CommentsRead(k)
      /\ UNCHANGED <<sources, todo, columnComments, tableComments, unread, datasets>>
      /\ k <= Count /\ Scan!Group(c) /\ read < Len(Scan!Current.columns) /\ read' = read + 1
  BY DEF ScanInv, Scanning, Reading, Scan!Read, Scan!comments
<1>3. read < Len(Columns(k)) /\ Count' = Count
  BY <1>2, KeyIs, SameSources DEF Columns
<1>4. l \in Nat /\ n \in 0..l /\ n < l /\ l \in 0..l /\ n + 1 \in 0..l /\ n + 1 \in 1..l
  <2>1. l \in Nat /\ n \in 0..l /\ n < l
    BY <1>1, <1>2, <1>3, ColumnsAre DEF Grouped
  <2> QED
    BY <2>1, OneStep
<1>5. /\ TablesAre(k, n, ordered) /\ DOMAIN grouped = Range(ordered)
      /\ \A u \in TableSet(k, l) : GroupIs(k, n, u, GroupIn(grouped, u))
  BY <1>1, <1>2 DEF Grouped
<1>6. /\ ordered' = IF t \in DOMAIN grouped THEN ordered ELSE Append(ordered, t)
      /\ grouped' = Scan!Put(grouped, t, Append(GroupIn(grouped, t), c))
  BY <1>1, <1>2 DEF Scan!Group, Scan!GroupOf, GroupIn
<1>7. TablesAre(k, n + 1, ordered') /\ TableSet(k, n + 1) = TableSet(k, n) \cup {t}
  <2>1. PICK tables, more : tables = ordered /\ more = ordered'
    OBVIOUS
  <2>2. /\ n \in 0..Len(Columns(k)) /\ n < Len(Columns(k)) /\ t = Columns(k)[n + 1].table
        /\ TablesAre(k, n, tables)
    BY <1>1, <1>4, <1>5, <2>1, Zenon DEF IsNext
  <2>a. sources \in SourceMaps
    BY <1>2
  <2>3. /\ TablesAre(k, n + 1, IF t \in Range(tables) THEN tables ELSE Append(tables, t))
        /\ TableSet(k, n + 1) = TableSet(k, n) \cup {t}
    BY <2>2, <2>a, TablesOneMore
  <2>4. more = IF t \in Range(tables) THEN tables ELSE Append(tables, t)
    BY <1>5, <1>6, <2>1, Zenon
  <2> QED
    BY <2>1, <2>3, <2>4, Zenon
<1>8. /\ DOMAIN grouped' = DOMAIN grouped \cup {t}
      /\ GroupIn(grouped', t) = Append(GroupIn(grouped, t), c)
      /\ \A u : u # t => GroupIn(grouped', u) = GroupIn(grouped, u)
  <2>1. PICK groups, g, items : /\ groups = grouped /\ g = grouped'
                                /\ items = Append(GroupIn(grouped, t), c)
    OBVIOUS
  <2>2. g = Scan!Put(groups, t, items)
    BY <1>6, <2>1, Zenon
  <2>3. GroupPut(groups, t, items, g)
    BY <2>2, PutGroup, Zenon
  <2> QED
    BY <2>1, <2>3, Zenon DEF GroupPut
<1>9. DOMAIN grouped' = Range(ordered')
  BY <1>5, <1>7, <1>8 DEF TablesAre
<1>10. ASSUME NEW u \in TableSet(k, l) PROVE GroupIs(k, n + 1, u, GroupIn(grouped', u))
  <2>1. PICK items : items = GroupIn(grouped, u)
    OBVIOUS
  <2>2. GroupIs(k, n, u, items)
    BY <1>5, <2>1
  <2>3. /\ c.table = Columns(k)[n + 1].table /\ c.name = Columns(k)[n + 1].name
        /\ c.comment \in {"", Columns(k)[n + 1].comment}
        /\ n \in 0..Len(Columns(k)) /\ n < Len(Columns(k))
    BY <1>1, <1>4, Zenon DEF IsNext
  <2>4. /\ c.table = u => GroupIs(k, n + 1, u, Append(items, c))
        /\ c.table # u => GroupIs(k, n + 1, u, items)
    BY <1>2, <2>2, <2>3, GroupOneMore, Zenon
  <2> QED
    BY <1>1, <1>8, <2>1, <2>4, Zenon
<1>11. Grouped(k)'
  <2>1. /\ read' = n + 1 /\ Len(Columns(k)') = l
        /\ \A u, x : GroupIs(k, n + 1, u, x)' = GroupIs(k, n + 1, u, x)
        /\ \A x : TablesAre(k, n + 1, x)' = TablesAre(k, n + 1, x)
        /\ TableSet(k, l)' = TableSet(k, l)
    BY <1>1, <1>2, SameSources
  <2> QED
    BY <1>4, <1>7, <1>9, <1>10, <2>1 DEF Grouped
<1>12. CommentsRead(k)'
  BY <1>2, SameSources DEF CommentsRead
<1>13. Found(k - 1, datasets)'
  BY <1>2, SameSources
<1>14. Scanning(k)'
  BY <1>2, <1>3, <1>11, <1>12, <1>13 DEF Scanning
<1>15. k \in 1..Count + 1
  BY <1>2, KeyBounds
<1> QED
  BY <1>2, <1>14, <1>15, ScanInvWith

LEMMA WithoutComment ==
  ASSUME NEW d \in [table : Table, name : Name, comment : STRING]
  PROVE  LET c == [d EXCEPT !.comment = ""]
         IN c.table = d.table /\ c.name = d.name /\ c.comment = ""
OBVIOUS

LEMMA ScanReads ==
  ASSUME ScanInv, Scan!ReadColumn \/ Scan!ReadWithComment
  PROVE  ScanInv'
<1>1. PICK k \in 1..Count + 1 : Scanning(k) /\ (k <= Count => k \in 1..Count)
  BY ScanInvIs
<1>2. scanning = "columns" /\ read < Len(Scan!Current.columns)
  BY DEF Scan!ReadColumn, Scan!ReadWithComment, Scan!Read
<1>3. k \in 1..Count /\ todo = k..Count /\ sources \in SourceMaps
  BY <1>1, <1>2 DEF Scanning, Reading, ScanInv
<1>4. Scan!Current.columns = Columns(k)
  BY <1>3, KeyIs DEF Columns
<1>5. read + 1 \in 1..Len(Columns(k))
  <2>1. read \in 0..Len(Columns(k)) /\ Len(Columns(k)) \in Nat
    BY <1>1, <1>2, <1>3, ColumnsAre DEF Scanning, Reading, Grouped
  <2> QED
    BY <1>2, <1>4, <2>1, OneStep
<1>6. PICK d : d = Columns(k)[read + 1]
  OBVIOUS
<1>7. d \in [table : Table, name : Name, comment : STRING]
  BY <1>3, <1>5, <1>6, ColumnsAre
<1>8. Scan!Read([d EXCEPT !.comment = ""]) \/ Scan!Read(d)
  BY <1>4, <1>6 DEF Scan!ReadColumn, Scan!ReadWithComment, Scan!NextColumn
<1>9. PICK c : /\ Scan!Read(c) /\ c.table = d.table /\ c.name = d.name
               /\ c.comment \in {"", d.comment}
  <2>1. CASE Scan!Read([d EXCEPT !.comment = ""])
    <3>1. PICK c : c = [d EXCEPT !.comment = ""]
      OBVIOUS
    <3>2. c.table = d.table /\ c.name = d.name /\ c.comment = ""
      BY <1>7, <3>1, WithoutComment
    <3> QED
      BY <2>1, <3>1, <3>2
  <2>2. CASE Scan!Read(d)
    BY <2>2
  <2> QED
    BY <1>8, <2>1, <2>2
<1> QED
  BY <1>1, <1>3, <1>6, <1>9, ColumnReads DEF IsNext

\* The columns are all read, or the scan fails, or comments are read.
LEMMA ScanGoesOn ==
  ASSUME ScanInv,
         \/ Scan!EndPostgres \/ Scan!EndMySQL \/ Scan!EndOther
         \/ Scan!CommentsEnd \/ \E row \in unread : Scan!ReadComment(row)
  PROVE  ScanInv'
<1>1. PICK k \in 1..Count + 1 : Scanning(k) /\ (k <= Count => k \in 1..Count)
  BY ScanInvIs
<1>2. /\ scanning \in {"columns", "columnComments", "tableComments"}
      /\ scanning' \in {"columnComments", "tableComments", "build"}
      /\ UNCHANGED <<sources, todo, read, ordered, grouped, datasets>>
      /\ scanning = "columns" => read = Len(Scan!Current.columns)
  BY DEF Scan!EndPostgres, Scan!EndMySQL, Scan!EndOther, Scan!ColumnsEnd, Scan!CommentsEnd,
     Scan!ReadComment, Scan!source
<1>3. /\ k \in 1..Count /\ todo = k..Count /\ sources \in SourceMaps /\ k <= Count
      /\ Grouped(k) /\ CommentsRead(k) /\ Found(k - 1, datasets)
      /\ scanning # "columns" => read = Len(Columns(k))
  BY <1>1, <1>2 DEF Scanning, Reading, ScanInv
<1>4. Scan!Current = sources[k]
  BY <1>3, KeyIs
<1>5. read' = Len(Columns(k))
  BY <1>2, <1>3, <1>4 DEF Columns
<1>6. Scan!ColumnRows = ColumnRows(k) /\ Scan!TableRows = TableRows(k)
  BY <1>4 DEF Scan!ColumnRows, ColumnRows, Scan!TableRows, TableRows, Columns, Scan!Range, Range
<1>7. CommentsRead(k)'
  <2>1. ColumnRows(k)' = ColumnRows(k) /\ TableRows(k)' = TableRows(k)
    BY <1>2, SameSources
  <2>2. CASE Scan!EndPostgres \/ Scan!EndMySQL \/ Scan!EndOther \/ Scan!CommentsEnd
    BY <1>3, <1>6, <2>1, <2>2 DEF CommentsRead, Scan!EndPostgres, Scan!EndMySQL, Scan!EndOther,
       Scan!ColumnsEnd, Scan!CommentsEnd
  <2>3. CASE \E row \in unread : Scan!ReadComment(row)
    <3>1. PICK row \in unread : Scan!ReadComment(row)
      BY <2>3
    <3>2. ASSUME NEW map, NEW rows, CommentsIn(map, rows), row \in rows
          PROVE  CommentsIn(Scan!Put(map, row.name, row.text), rows)
      <4>1. PICK put : put = Scan!Put(map, row.name, row.text)
        OBVIOUS
      <4>2. put = [n \in DOMAIN map \cup {row.name} |-> IF n = row.name THEN row.text ELSE map[n]]
        BY <4>1 DEF Scan!Put
      <4>3. CommentsIn(put, rows)
        BY <3>2, <4>2 DEF CommentsIn
      <4> QED
        BY <4>1, <4>3
    <3>3. unread' \subseteq unread /\ scanning' = scanning
      BY <3>1 DEF Scan!ReadComment
    <3>4. CASE scanning = "columnComments"
      <4>1. /\ columnComments' = Scan!Put(columnComments, row.name, row.text)
            /\ tableComments' = tableComments
        BY <3>1, <3>4 DEF Scan!ReadComment
      <4>2. row \in ColumnRows(k)
        BY <1>3, <3>1, <3>4 DEF CommentsRead
      <4>3. CommentsIn(columnComments', ColumnRows(k))
        BY <1>3, <3>2, <4>1, <4>2 DEF CommentsRead
      <4> QED
        BY <1>3, <2>1, <3>3, <3>4, <4>1, <4>3 DEF CommentsRead
    <3>5. CASE scanning = "tableComments"
      <4>1. /\ tableComments' = Scan!Put(tableComments, row.name, row.text)
            /\ columnComments' = columnComments
        BY <3>1, <3>5 DEF Scan!ReadComment
      <4>2. row \in TableRows(k)
        BY <1>3, <3>1, <3>5 DEF CommentsRead
      <4>3. CommentsIn(tableComments', TableRows(k))
        BY <1>3, <3>2, <4>1, <4>2 DEF CommentsRead
      <4> QED
        BY <1>3, <2>1, <3>3, <3>5, <4>1, <4>3 DEF CommentsRead
    <3> QED
      BY <3>1, <3>4, <3>5 DEF Scan!ReadComment
  <2> QED
    BY <2>2, <2>3
<1>8. Grouped(k)'
  BY <1>2, <1>3, SameSources DEF Grouped
<1>9. Found(k - 1, datasets)' /\ Count' = Count /\ Columns(k)' = Columns(k)
  BY <1>2, <1>3, SameSources
<1>10. Scanning(k)'
  BY <1>2, <1>3, <1>5, <1>7, <1>8, <1>9 DEF Scanning
<1> QED
  BY <1>2, <1>10, ScanInvWith

LEMMA ScanFails ==
  ASSUME ScanInv, Scan!ColumnsFail
  PROVE  ScanInv'
<1>1. PICK k \in 1..Count + 1 : Scanning(k)
  BY ScanInvIs
<1>2. scanning' = "failed" /\ UNCHANGED <<sources, todo>>
  BY DEF Scan!ColumnsFail, Scan!source
<1>3. Scanning(k)'
  BY <1>1, <1>2, SameSources DEF Scanning, Reading
<1> QED
  BY <1>2, <1>3, ScanInvWith

LEMMA ScanReturns ==
  ASSUME ScanInv, Scan!ReturnModel
  PROVE  ScanInv'
<1>1. PICK k \in 1..Count + 1 : Scanning(k) /\ (todo = {} => k = Count + 1)
  BY ScanInvIs
<1>2. /\ scanning = "next" /\ scanning' = "done" /\ todo = {}
      /\ UNCHANGED <<sources, todo, datasets>>
  BY DEF Scan!ReturnModel, Scan!source
<1>3. Count' = Count /\ Found(k - 1, datasets)'
  BY <1>1, <1>2, SameSources DEF Scanning
<1>4. Scanning(k)' /\ k = Count + 1
  BY <1>1, <1>2, <1>3 DEF Scanning, Reading
<1> QED
  BY <1>2, <1>3, <1>4 DEF ScanInv

-----------------------------------------------------------------------------
(* Names that are joined, and what a scan should find.                     *)

Joins(z, x, y) == z = x \o y

LEMMA SameParts ==
  ASSUME NEW T, NEW a \in Seq(T), NEW b \in Seq(T), NEW c \in Seq(T), NEW d \in Seq(T),
         Len(a) = Len(c), a # <<>>, NEW z, Joins(z, a, b), Joins(z, c, d)
  PROVE  a = c /\ b = d
<1>1. c # <<>>
  <2>1. Len(a) # 0 /\ Len(<<>>) = 0
    BY EmptySeq, EmptyListed
  <2> QED
    BY <2>1
<1>2. Split(z, a, b) /\ Split(z, c, d)
  BY <1>1, TakeFirst DEF Joins
<1>3. SubSeq(z, 1, Len(a)) = a /\ SubSeq(z, 1, Len(c)) = c
  BY <1>2 DEF Split
<1>4. SubSeq(z, Len(a) + 1, Len(z)) = b /\ SubSeq(z, Len(c) + 1, Len(z)) = d
  BY <1>2 DEF Split
<1> QED
  BY <1>3, <1>4, Zenon

\* A name without dots.
Plain(x) == x \in Name /\ Len(x) = 1

LEMMA JoinedTwo ==
  ASSUME NEW a, NEW c, Plain(a), Plain(c), NEW b \in Name, NEW d \in Name,
         NEW z, Joins(z, a, b), Joins(z, c, d)
  PROVE  a = c /\ b = d
<1>1. a # <<>> /\ Len(a) = Len(c)
  BY NotEmpty DEF Plain
<1>2. a \in Seq(STRING \cup {"default"}) /\ b \in Seq(STRING \cup {"default"})
      /\ c \in Seq(STRING \cup {"default"}) /\ d \in Seq(STRING \cup {"default"})
  BY DEF Plain, Name
<1>3. PICK T : T = STRING \cup {"default"}
  OBVIOUS
<1>4. a \in Seq(T) /\ b \in Seq(T) /\ c \in Seq(T) /\ d \in Seq(T)
  BY <1>2, <1>3, Zenon
<1> QED
  BY <1>1, <1>4, SameParts

LEMMA TwoNames ==
  ASSUME NEW a \in Name, NEW b \in Name
  PROVE  a \o b \in Name /\ Len(a \o b) = Len(a) + Len(b)
BY ConcatProperties DEF Name

\* The full name of a column, schema.table.column.
FullName(z, a, b, c) ==
  Plain(a) /\ Plain(b) /\ Plain(c) /\ \E x : Joins(x, a, b) /\ Joins(z, x, c)

LEMMA JoinedThree ==
  ASSUME NEW z, NEW a, NEW b, NEW c, NEW d, NEW e, NEW f,
         FullName(z, a, b, c), FullName(z, d, e, f)
  PROVE  a = d /\ b = e /\ c = f
<1>1. PICK x, y : Joins(x, a, b) /\ Joins(z, x, c) /\ Joins(y, d, e) /\ Joins(z, y, f)
  BY DEF FullName
<1>2. Plain(a) /\ Plain(b) /\ Plain(c) /\ Plain(d) /\ Plain(e) /\ Plain(f)
  BY DEF FullName
<1>3. x \in Name /\ Len(x) = 2 /\ y \in Name /\ Len(y) = 2
  <2>1. a \in Name /\ b \in Name /\ d \in Name /\ e \in Name
    BY <1>2 DEF Plain
  <2>2. Len(a) = 1 /\ Len(b) = 1 /\ Len(d) = 1 /\ Len(e) = 1
    BY <1>2 DEF Plain
  <2>3. /\ a \o b \in Name /\ Len(a \o b) = Len(a) + Len(b)
        /\ d \o e \in Name /\ Len(d \o e) = Len(d) + Len(e)
    BY <2>1, TwoNames, Zenon
  <2>4. Len(x) = 1 + 1 /\ Len(y) = 1 + 1 /\ x \in Name /\ y \in Name
    BY <1>1, <2>2, <2>3, Zenon DEF Joins
  <2> QED
    BY <2>4
<1>4. x = y /\ c = f
  <2>1. x # <<>> /\ Len(x) = Len(y)
    BY <1>3, NotEmpty
  <2>2. PICK T : T = STRING \cup {"default"}
    OBVIOUS
  <2>3. x \in Seq(T) /\ y \in Seq(T) /\ c \in Seq(T) /\ f \in Seq(T)
    BY <1>2, <1>3, <2>2, Zenon DEF Plain, Name
  <2> QED
    BY <1>1, <2>1, <2>3, SameParts
<1>5. b \in Name /\ e \in Name /\ Joins(x, d, e)
  BY <1>1, <1>2, <1>4, Zenon DEF Plain
<1> QED
  BY <1>1, <1>2, <1>4, <1>5, JoinedTwo

LEMMA UndottedIs ==
  ASSUME Undotted, sources \in SourceMaps, NEW k \in 1..Count
  PROVE  /\ Plain(sources[k].name)
         /\ \A i \in 1..Len(Columns(k)) : /\ Plain(Columns(k)[i].table[1])
                                          /\ Plain(Columns(k)[i].table[2])
                                          /\ Plain(Columns(k)[i].name)
         /\ \A t \in DOMAIN sources[k].comments : t \in Table /\ Plain(t[1]) /\ Plain(t[2])
         /\ \A t \in TableSet(k, Len(Columns(k))) : t \in Table /\ Plain(t[1]) /\ Plain(t[2])
<1>1. k \in DOMAIN sources /\ sources[k].name \in Name
  BY SourcesAre
<1>2. DOMAIN Columns(k) = 1..Len(Columns(k)) /\ DefaultTable(k) \in Table
  BY ColumnsAre
<1>3. Plain(sources[k].name)
  BY <1>1 DEF Undotted, Plain
<1>4. ASSUME NEW i \in 1..Len(Columns(k))
      PROVE  /\ Columns(k)[i].table \in Table
             /\ Plain(Columns(k)[i].table[1]) /\ Plain(Columns(k)[i].table[2])
             /\ Plain(Columns(k)[i].name)
  <2>1. PICK c : c = Columns(k)[i]
    OBVIOUS
  <2>2. c.table \in Table /\ c.name \in Name
    BY <2>1, ColumnsAre
  <2>3. c \in Range(sources[k].columns)
    BY <1>2, <2>1 DEF Columns, Range
  <2>4. Len(c.table[1]) = 1 /\ Len(c.table[2]) = 1 /\ Len(c.name) = 1
    BY <1>1, <2>3 DEF Undotted
  <2>5. c.table[1] \in Name /\ c.table[2] \in Name
    BY <2>2 DEF Table
  <2> QED
    BY <2>1, <2>2, <2>4, <2>5 DEF Plain
<1>5. ASSUME NEW t \in DOMAIN sources[k].comments PROVE t \in Table /\ Plain(t[1]) /\ Plain(t[2])
  <2>1. t \in Identifier \X Identifier
    BY <1>1, SourcesAssumption
  <2>2. t[1] \in Name /\ t[2] \in Name /\ t \in Table
    BY <2>1, IdentifierIsName DEF Table
  <2>3. Len(t[1]) = 1 /\ Len(t[2]) = 1
    BY <1>1 DEF Undotted
  <2> QED
    BY <2>2, <2>3 DEF Plain
<1>6. ASSUME NEW t \in TableSet(k, Len(Columns(k))) PROVE t \in Table /\ Plain(t[1]) /\ Plain(t[2])
  <2>1. CASE Described(k)
    <3>1. t = <<<<"default">>, sources[k].name>>
      BY <2>1 DEF TableSet, DefaultTable
    <3>2. t \in Table
      BY <1>2, <2>1 DEF TableSet
    <3>3. t[1] = <<"default">> /\ t[2] = sources[k].name
      BY <3>1
    <3>4. t[1] \in Name /\ Len(t[1]) = 1
      BY <3>2, <3>3, OneListed DEF Table
    <3> QED
      BY <1>3, <3>2, <3>3, <3>4 DEF Plain
  <2>2. CASE ~Described(k)
    <3>1. PICK j \in 1..Len(Columns(k)) : t = Columns(k)[j].table
      BY <2>2 DEF TableSet
    <3> QED
      BY <1>4, <3>1
  <2> QED
    BY <2>1, <2>2
<1> QED
  BY <1>3, <1>4, <1>5, <1>6

\* What a source should give is what its columns do.
LEMMA ExpectedIs ==
  ASSUME sources \in SourceMaps, NEW k \in 1..Count
  PROVE  /\ Scan!ExpectedTables(k) = TablesUpTo(k, Len(Columns(k)))
         /\ \A t : Scan!ExpectedFields(k, t) = Segment(FieldPieces(k, t), 0, Len(Columns(k)))
         /\ Listed(Scan!ExpectedTables(k))
<1>1. TablePieces(k) \in Seq(Seq(Table)) /\ Len(TablePieces(k)) = Len(Columns(k))
  BY PiecesAre
<1>2. Segment(TablePieces(k), 0, Len(Columns(k))) = FlattenSeq(TablePieces(k))
      /\ FlattenSeq(TablePieces(k)) \in Seq(Table)
  <2>1. Segment(TablePieces(k), 0, Len(TablePieces(k))) = FlattenSeq(TablePieces(k))
        /\ FlattenSeq(TablePieces(k)) \in Seq(Table)
    BY <1>1, WholeSegment, FlattenType
  <2> QED
    BY <1>1, <2>1, Zenon
<1>3. Scan!ExpectedTables(k) = IF Described(k) THEN <<DefaultTable(k)>> ELSE FlattenSeq(TablePieces(k))
  BY ScanFlattens, Zenon DEF Scan!ExpectedTables, Described, DefaultTable, TablePieces, Columns
<1>4. Listed(Scan!ExpectedTables(k))
  <2>1. CASE Described(k)
    BY <1>3, <2>1, OneListed
  <2>2. CASE ~Described(k)
    BY <1>2, <1>3, <2>2, IsListed
  <2> QED
    BY <2>1, <2>2
<1>5. ASSUME NEW t
      PROVE  Scan!ExpectedFields(k, t) = Segment(FieldPieces(k, t), 0, Len(Columns(k)))
  <2>1. FieldPieces(k, t) \in Seq(Seq(Name)) /\ Len(FieldPieces(k, t)) = Len(Columns(k))
    BY PiecesAre
  <2>2. Segment(FieldPieces(k, t), 0, Len(FieldPieces(k, t))) = FlattenSeq(FieldPieces(k, t))
    BY <2>1, WholeSegment
  <2>3. Scan!ExpectedFields(k, t) = FlattenSeq(FieldPieces(k, t))
    BY ScanFlattens, Zenon DEF Scan!ExpectedFields, FieldPieces, Columns
  <2> QED
    BY <2>1, <2>2, <2>3, Zenon
<1> QED
  BY <1>2, <1>3, <1>4, <1>5, Zenon DEF TablesUpTo

AllExpected == UNION {Range(Scan!Expected(k)) : k \in 1..Count}

LEMMA ExpectedAre ==
  ASSUME sources \in SourceMaps
  PROVE  /\ ExpectedOf \in Seq(Seq(AllExpected)) /\ Len(ExpectedOf) = Count
         /\ \A k \in 1..Count : ExpectedOf[k] = Scan!Expected(k) /\ Listed(Scan!Expected(k))
         /\ Segment(ExpectedOf, 0, Count) = Scan!ExpectedAll
<1>1. Count \in Nat /\ DOMAIN sources = 1..Count
  BY SourcesAre
<1>2. ExpectedOf = [k \in 1..Count |-> Scan!Expected(k)]
  BY <1>1 DEF ExpectedOf
<1>3. ASSUME NEW k \in 1..Count
      PROVE  Listed(Scan!Expected(k)) /\ Scan!Expected(k) \in Seq(AllExpected)
  <2>1. PICK e, ts : e = Scan!Expected(k) /\ ts = Scan!ExpectedTables(k)
    OBVIOUS
  <2>2. Len(ts) \in Nat /\ DOMAIN ts = 1..Len(ts)
    BY <2>1, ExpectedIs, ListedIs
  <2>3. e = [i \in 1..Len(ts) |-> e[i]]
    BY <2>1, <2>2 DEF Scan!Expected
  <2>4. Listed(e)
    BY <2>2, <2>3, FunctionListed
  <2>5. \A i \in 1..Len(e) : e[i] \in AllExpected
    BY <2>1, <2>4, ListedIs DEF AllExpected
  <2>6. e \in Seq(AllExpected)
    BY <2>4, <2>5, ListedIn
  <2> QED
    BY <2>1, <2>4, <2>6
<1>4. ExpectedOf \in [1..Count -> Seq(AllExpected)]
  BY <1>2, <1>3
<1>5. ExpectedOf \in Seq(Seq(AllExpected)) /\ Len(ExpectedOf) = Count
  BY <1>1, <1>4, IsSeqOf
<1>6. Segment(ExpectedOf, 0, Count) = Scan!ExpectedAll
  <2>1. Segment(ExpectedOf, 0, Len(ExpectedOf)) = FlattenSeq(ExpectedOf)
    BY <1>5, WholeSegment
  <2>2. Scan!ExpectedAll = FlattenSeq(ExpectedOf)
    BY ScanFlattens, Zenon DEF Scan!ExpectedAll, ExpectedOf
  <2> QED
    BY <1>5, <2>1, <2>2, Zenon
<1> QED
  BY <1>2, <1>3, <1>5, <1>6

-----------------------------------------------------------------------------
(* The datasets of one source more.                                        *)

LEMMA SameTable ==
  ASSUME NEW t \in Table, NEW u \in Table, t[1] = u[1], t[2] = u[2]
  PROVE  t = u
BY DEF Table

LEMMA DescriptionIsTrue ==
  ASSUME Undotted, sources \in SourceMaps, NEW k \in 1..Count,
         NEW t \in TableSet(k, Len(Columns(k))),
         NEW map, CommentsIn(map, TableRows(k)), NEW joined, Joins(joined, t[1], t[2]),
         NEW text, text = IF Described(k) THEN sources[k].description
                          ELSE Scan!Comment(map, joined, "")
  PROVE  TrueDescription(k, t, text)
<1>1. t \in Table /\ Plain(t[1]) /\ Plain(t[2])
  BY UndottedIs
<1>2. CASE Described(k)
  BY <1>2 DEF TrueDescription
<1>3. CASE ~Described(k) /\ joined \notin DOMAIN map
  BY <1>3 DEF TrueDescription, Scan!Comment
<1>4. CASE ~Described(k) /\ joined \in DOMAIN map
  <2>1. text = map[joined]
    BY <1>4 DEF Scan!Comment
  <2>2. PICK r \in TableRows(k) : r.name = joined /\ r.text = map[joined]
    BY <1>4 DEF CommentsIn
  <2>3. PICK u \in DOMAIN sources[k].comments :
          r = [name |-> u[1] \o u[2], text |-> sources[k].comments[u]]
    BY <2>2 DEF TableRows
  <2>4. Joins(joined, u[1], u[2]) /\ text = sources[k].comments[u]
    BY <2>1, <2>2, <2>3 DEF Joins
  <2>5. u \in Table /\ Plain(u[1]) /\ Plain(u[2])
    BY UndottedIs
  <2>6. t[1] = u[1] /\ t[2] = u[2]
    <3>1. PICK a, b, c, d : a = t[1] /\ b = t[2] /\ c = u[1] /\ d = u[2]
      OBVIOUS
    <3>2. Plain(a) /\ Plain(c) /\ b \in Name /\ d \in Name
      BY <1>1, <2>5, <3>1, Zenon DEF Plain
    <3>3. Joins(joined, a, b) /\ Joins(joined, c, d)
      BY <2>4, <3>1, Zenon
    <3>4. a = c /\ b = d
      BY <3>2, <3>3, JoinedTwo
    <3> QED
      BY <3>1, <3>4, Zenon
  <2>7. t = u
    BY <1>1, <2>5, <2>6, SameTable
  <2> QED
    BY <2>4, <2>7 DEF TrueDescription
<1> QED
  BY <1>2, <1>3, <1>4

LEMMA FieldIsTrue ==
  ASSUME Undotted, sources \in SourceMaps, NEW k \in 1..Count,
         NEW t \in TableSet(k, Len(Columns(k))),
         NEW map, CommentsIn(map, ColumnRows(k)),
         NEW item, IsColumn(k, Len(Columns(k)), t, item),
         NEW joined, Joins(joined, t[1], t[2]), NEW full, Joins(full, joined, item.name),
         NEW field, field.name = item.name,
         field.description = Scan!Comment(map, full, item.comment)
  PROVE  TrueField(k, t, field)
<1>1. t \in Table /\ Plain(t[1]) /\ Plain(t[2])
  BY UndottedIs
<1>2. PICK j \in 1..Len(Columns(k)) :
        /\ Columns(k)[j].table = t /\ Columns(k)[j].name = item.name
        /\ item.comment \in {"", Columns(k)[j].comment}
  BY DEF IsColumn
<1>3. DOMAIN Columns(k) = 1..Len(Columns(k))
  BY ColumnsAre
<1>4. Plain(item.name)
  BY <1>2, UndottedIs
<1>5. CASE full \notin DOMAIN map
  <2>1. field.description = item.comment
    BY <1>5 DEF Scan!Comment
  <2>2. Columns(k)[j] \in Range(Columns(k))
    BY <1>3 DEF Range
  <2> QED
    BY <1>2, <2>1, <2>2 DEF TrueField
<1>6. CASE full \in DOMAIN map
  <2>1. field.description = map[full]
    BY <1>6 DEF Scan!Comment
  <2>2. PICK r \in ColumnRows(k) : r.name = full /\ r.text = map[full]
    BY <1>6 DEF CommentsIn
  <2>3. PICK c \in Range(Columns(k)) :
          r = [name |-> c.table[1] \o c.table[2] \o c.name, text |-> c.comment]
    BY <2>2 DEF ColumnRows
  <2>4. PICK y : Joins(y, c.table[1], c.table[2])
    BY DEF Joins
  <2>5. Joins(full, y, c.name) /\ field.description = c.comment
    BY <2>1, <2>2, <2>3, <2>4 DEF Joins
  <2>6. PICK i \in 1..Len(Columns(k)) : c = Columns(k)[i]
    BY <1>3 DEF Range
  <2>7. Plain(c.table[1]) /\ Plain(c.table[2]) /\ Plain(c.name) /\ c.table \in Table
    BY <2>6, UndottedIs, ColumnsAre
  <2>8. t[1] = c.table[1] /\ t[2] = c.table[2] /\ item.name = c.name
    <3>1. PICK a, b, n : a = t[1] /\ b = t[2] /\ n = item.name
      OBVIOUS
    <3>2. PICK f, g, m : f = c.table[1] /\ g = c.table[2] /\ m = c.name
      OBVIOUS
    <3>3. Plain(a) /\ Plain(b) /\ Plain(n) /\ Plain(f) /\ Plain(g) /\ Plain(m)
      BY <1>1, <1>4, <2>7, <3>1, <3>2, Zenon
    <3>4. FullName(full, a, b, n) /\ FullName(full, f, g, m)
      <4>1. Joins(joined, a, b) /\ Joins(y, f, g) /\ Joins(full, joined, n) /\ Joins(full, y, m)
        BY <2>4, <2>5, <3>1, <3>2, Zenon
      <4> QED
        BY <3>3, <4>1, Zenon DEF FullName
    <3>5. a = f /\ b = g /\ n = m
      BY <3>4, JoinedThree
    <3> QED
      BY <3>1, <3>2, <3>5, Zenon
  <2>9. t = c.table
    BY <1>1, <2>7, <2>8, SameTable
  <2> QED
    BY <2>5, <2>8, <2>9 DEF TrueField
<1> QED
  BY <1>5, <1>6

LEMMA TablesTyped ==
  ASSUME sources \in SourceMaps, NEW k \in 1..Count, NEW t \in TableSet(k, Len(Columns(k)))
  PROVE  t \in Table
<1>1. DefaultTable(k) \in Table /\ \A i \in 1..Len(Columns(k)) : Columns(k)[i].table \in Table
  BY ColumnsAre
<1> QED
  BY <1>1 DEF TableSet

\* The dataset of a table is what is expected of it.
LEMMA DatasetIsFor ==
  ASSUME sources \in SourceMaps, NEW k \in 1..Count, todo = k..Count,
         NEW t \in TableSet(k, Len(Columns(k))), t \in DOMAIN grouped,
         GroupIs(k, Len(Columns(k)), t, grouped[t]), CommentsRead(k), NEW e,
         e = [source |-> k, table |-> t, fields |-> Scan!ExpectedFields(k, t)]
  PROVE  IsFor(Scan!DatasetOf(t), e)
<1>1. PICK items : items = grouped[t]
  OBVIOUS
<1>2. PICK joined : Joins(joined, t[1], t[2])
  BY DEF Joins
<1>3. PICK d : d = Scan!DatasetOf(t)
  OBVIOUS
<1>4. PICK fields : fields = [i \in DOMAIN items |->
                                [name |-> items[i].name,
                                 description |-> Scan!Comment(columnComments, joined \o items[i].name,
                                                              items[i].comment)]]
  OBVIOUS
<1>5. PICK text : text = IF Described(k) THEN sources[k].description
                         ELSE Scan!Comment(tableComments, joined, "")
  OBVIOUS
<1>6. Scan!Current = sources[k]
  BY KeyIs
<1>7. d = [name |-> sources[k].name \o joined, description |-> text, fields |-> fields]
  <2>1. joined = t[1] \o t[2]
    BY <1>2 DEF Joins
  <2> QED
    BY <1>1, <1>3, <1>4, <1>5, <1>6, <2>1, Zenon DEF Scan!DatasetOf, Described
<1>8. d.name = sources[k].name \o joined /\ d.description = text /\ d.fields = fields
  BY <1>7
<1>9. /\ Listed(items) /\ Distinct(items) /\ NamesIn(items) = Scan!ExpectedFields(k, t)
      /\ \A i \in DOMAIN items : IsColumn(k, Len(Columns(k)), t, items[i])
  BY <1>1, ExpectedIs DEF GroupIs
<1>10. DOMAIN fields = DOMAIN items /\ \A i \in DOMAIN items : fields[i].name = items[i].name
  BY <1>4
<1>11. Listed(fields)
  <2>1. Len(items) \in Nat /\ DOMAIN items = 1..Len(items)
    BY <1>9, ListedIs
  <2>2. fields = [i \in 1..Len(items) |-> fields[i]]
    BY <1>4, <2>1
  <2> QED
    BY <2>1, <2>2, FunctionListed
<1>12. NamesIn(fields) = NamesIn(items)
  BY <1>10, NamesSame
<1>13. Distinct(fields)
  BY <1>9, <1>12, SameNames
<1>14. /\ e.source = k /\ e.table = t /\ e.fields = Scan!ExpectedFields(k, t)
       /\ t \in Table
  BY TablesTyped
<1>15. ASSUME Undotted PROVE TrueDescription(k, t, text)
  BY <1>2, <1>5, <1>15, DescriptionIsTrue DEF CommentsRead
<1>16. ASSUME Undotted, NEW i \in DOMAIN fields PROVE TrueField(k, t, fields[i])
  <2>1. PICK item, field, full : /\ item = items[i] /\ field = fields[i]
                                 /\ Joins(full, joined, item.name)
    BY DEF Joins
  <2>2. /\ field.name = item.name
        /\ field.description = Scan!Comment(columnComments, full, item.comment)
    BY <1>4, <1>10, <2>1 DEF Joins
  <2>3. IsColumn(k, Len(Columns(k)), t, item) /\ CommentsIn(columnComments, ColumnRows(k))
    BY <1>9, <1>10, <2>1 DEF CommentsRead
  <2>4. TrueField(k, t, field)
    BY <1>2, <1>16, <2>1, <2>2, <2>3, FieldIsTrue
  <2> QED
    BY <2>1, <2>4
<1>17. d.name = NameOf(k, t)
  BY <1>2, <1>8, Zenon DEF NameOf, Joins
<1>18. IsFor(d, e)
  BY <1>8, <1>9, <1>11, <1>12, <1>13, <1>14, <1>15, <1>16, <1>17, Zenon DEF IsFor
<1> QED
  BY <1>3, <1>18

\* Different tables have different datasets.
LEMMA NamesDiffer ==
  ASSUME Undotted, sources \in SourceMaps, NEW j \in 1..Count, NEW k \in 1..Count,
         NEW t \in Table, NEW u \in Table, NameOf(j, t) = NameOf(k, u)
  PROVE  j = k /\ t[1] \o t[2] = u[1] \o u[2]
<1>1. PICK a, b, c, d, z : /\ a = sources[j].name /\ b = t[1] \o t[2]
                           /\ c = sources[k].name /\ d = u[1] \o u[2] /\ z = NameOf(j, t)
  OBVIOUS
<1>2. Plain(a) /\ Plain(c)
  BY <1>1, UndottedIs
<1>3. b \in Name /\ d \in Name
  <2>1. t[1] \in Name /\ t[2] \in Name /\ u[1] \in Name /\ u[2] \in Name
    BY DEF Table
  <2> QED
    BY <1>1, <2>1, TwoNames, Zenon
<1>4. Joins(z, a, b) /\ Joins(z, c, d)
  BY <1>1, Zenon DEF Joins, NameOf
<1>5. a = c /\ b = d
  BY <1>2, <1>3, <1>4, JoinedTwo
<1>6. j = k
  BY <1>1, <1>5, SourcesAre
<1> QED
  BY <1>1, <1>5, <1>6, Zenon

LEMMA TablesDiffer ==
  ASSUME Undotted, sources \in SourceMaps, NEW k \in 1..Count,
         NEW t \in TableSet(k, Len(Columns(k))), NEW u \in TableSet(k, Len(Columns(k))),
         NameOf(k, t) = NameOf(k, u)
  PROVE  t = u
<1>1. t \in Table /\ Plain(t[1]) /\ Plain(t[2]) /\ u \in Table /\ Plain(u[1]) /\ Plain(u[2])
  BY UndottedIs
<1>2. t[1] \o t[2] = u[1] \o u[2]
  BY <1>1, NamesDiffer
<1>3. PICK a, b, c, d : a = t[1] /\ b = t[2] /\ c = u[1] /\ d = u[2]
  OBVIOUS
<1>4. Plain(a) /\ Plain(c) /\ b \in Name /\ d \in Name
  BY <1>1, <1>3, Zenon DEF Plain
<1>5. PICK z : Joins(z, a, b) /\ Joins(z, c, d)
  BY <1>2, <1>3, Zenon DEF Joins
<1>6. a = c /\ b = d
  BY <1>4, <1>5, JoinedTwo
<1> QED
  BY <1>1, <1>3, <1>6, SameTable

LEMMA DistinctConcat ==
  ASSUME NEW s, NEW t, Listed(s), Listed(t), Distinct(s), Distinct(t),
         \A i \in 1..Len(s) : \A j \in 1..Len(t) : s[i].name # t[j].name
  PROVE  Distinct(s \o t)
<1>1. PICK z : z = s \o t
  OBVIOUS
<1>2. /\ Listed(z) /\ Len(z) = Len(s) + Len(t)
      /\ \A i \in 1..Len(s) : z[i] = s[i]
      /\ \A i \in 1..Len(t) : z[Len(s) + i] = t[i]
  BY <1>1, ConcatListed
<1>3. /\ DOMAIN s = 1..Len(s) /\ DOMAIN t = 1..Len(t) /\ DOMAIN z = 1..Len(s) + Len(t)
      /\ Len(s) \in Nat /\ Len(t) \in Nat
  BY <1>2, ListedIs
<1>4. \A i \in DOMAIN z : i \in 1..Len(s) \/ \E j \in 1..Len(t) : i = Len(s) + j
  <2>1. ASSUME NEW i \in DOMAIN z, i \notin 1..Len(s)
        PROVE  i - Len(s) \in 1..Len(t) /\ i = Len(s) + (i - Len(s))
    BY <1>3, <2>1
  <2> QED
    BY <2>1
<1>5. ASSUME NEW i \in 1..Len(s), NEW j \in 1..Len(s), z[i].name = z[j].name PROVE i = j
  <2>1. s[i].name = s[j].name
    BY <1>2, <1>5
  <2> QED
    BY <1>3, <2>1 DEF Distinct
<1>6. ASSUME NEW i \in 1..Len(t), NEW j \in 1..Len(t), z[Len(s) + i].name = z[Len(s) + j].name
      PROVE  i = j
  <2>1. t[i].name = t[j].name
    BY <1>2, <1>6
  <2> QED
    BY <1>3, <2>1 DEF Distinct
<1>7. ASSUME NEW i \in 1..Len(s), NEW j \in 1..Len(t) PROVE z[i].name # z[Len(s) + j].name
  <2>1. z[i] = s[i] /\ z[Len(s) + j] = t[j]
    BY <1>2
  <2> QED
    BY <2>1
<1>8. Distinct(z)
  <2>1. ASSUME NEW i \in DOMAIN z, NEW j \in DOMAIN z, z[i].name = z[j].name PROVE i = j
    <3>1. CASE i \in 1..Len(s)
      <4>1. j \in 1..Len(s)
        BY <1>4, <1>7, <2>1, <3>1
      <4> QED
        BY <1>5, <2>1, <3>1, <4>1
    <3>2. CASE i \notin 1..Len(s)
      <4>1. PICK m \in 1..Len(t) : i = Len(s) + m
        BY <1>4, <3>2
      <4>2. j \notin 1..Len(s)
        BY <1>7, <2>1, <4>1
      <4>3. PICK p \in 1..Len(t) : j = Len(s) + p
        BY <1>4, <4>2
      <4>4. m = p
        BY <1>6, <2>1, <4>1, <4>3
      <4> QED
        BY <4>1, <4>3, <4>4
    <3> QED
      BY <3>1, <3>2
  <2> QED
    BY <2>1 DEF Distinct
<1> QED
  BY <1>1, <1>8

LEMMA FoundOneMore ==
  ASSUME sources \in SourceMaps, NEW k \in 1..Count, NEW ds, Found(k - 1, ds),
         NEW more, Listed(more), Len(more) = Len(Scan!Expected(k)),
         \A i \in 1..Len(more) : /\ Scan!Expected(k)[i].source = k
                                 /\ IsFor(more[i], Scan!Expected(k)[i]),
         Undotted => Distinct(more)
  PROVE  Found(k, ds \o more)
<1>1. PICK x, e, f, all : /\ x = Scan!Expected(k) /\ e = Segment(ExpectedOf, 0, k - 1)
                          /\ f = Segment(ExpectedOf, 0, k) /\ all = ds \o more
  OBVIOUS
<1>2. /\ Listed(ds) /\ Len(ds) = Len(e)
      /\ \A i \in DOMAIN ds : e[i].source <= k - 1 /\ IsFor(ds[i], e[i])
      /\ Undotted => Distinct(ds)
  BY <1>1 DEF Found
<1>3. Listed(e) /\ Listed(x) /\ f = e \o x
  <2>1. /\ ExpectedOf \in Seq(Seq(AllExpected)) /\ Len(ExpectedOf) = Count
        /\ ExpectedOf[k] = x /\ Listed(x)
    BY <1>1, ExpectedAre
  <2>2. k - 1 \in 0..Len(ExpectedOf) /\ k - 1 < Len(ExpectedOf) /\ 0 \in 0..k - 1 /\ (k - 1) + 1 = k
    BY <2>1, KeyBounds
  <2>3. /\ e \in Seq(AllExpected)
        /\ Segment(ExpectedOf, 0, (k - 1) + 1)
             = Segment(ExpectedOf, 0, k - 1) \o ExpectedOf[(k - 1) + 1]
    BY <1>1, <2>1, <2>2, SegmentLast
  <2>4. f = e \o x
    BY <1>1, <2>1, <2>2, <2>3, Zenon
  <2>5. Listed(e)
    BY <2>3, IsListed
  <2> QED
    BY <2>1, <2>4, <2>5
<1>4. /\ Listed(all) /\ Len(all) = Len(ds) + Len(more)
      /\ \A i \in 1..Len(ds) : all[i] = ds[i]
      /\ \A i \in 1..Len(more) : all[Len(ds) + i] = more[i]
  <2>1. Listed(ds)
    BY <1>2
  <2>2. /\ Listed(ds \o more) /\ Len(ds \o more) = Len(ds) + Len(more)
        /\ \A i \in 1..Len(ds) : (ds \o more)[i] = ds[i]
        /\ \A i \in 1..Len(more) : (ds \o more)[Len(ds) + i] = more[i]
    BY <2>1, ConcatListed
  <2> QED
    BY <1>1, <2>2, Zenon
<1>5. /\ Listed(f) /\ Len(f) = Len(e) + Len(x)
      /\ \A i \in 1..Len(e) : f[i] = e[i]
      /\ \A i \in 1..Len(x) : f[Len(e) + i] = x[i]
  <2>1. Listed(e) /\ Listed(x)
    BY <1>3
  <2>2. /\ Listed(e \o x) /\ Len(e \o x) = Len(e) + Len(x)
        /\ \A i \in 1..Len(e) : (e \o x)[i] = e[i]
        /\ \A i \in 1..Len(x) : (e \o x)[Len(e) + i] = x[i]
    BY <2>1, ConcatListed
  <2> QED
    BY <1>3, <2>2, Zenon
<1>6. /\ DOMAIN ds = 1..Len(ds) /\ DOMAIN more = 1..Len(more) /\ DOMAIN all = 1..Len(ds) + Len(more)
      /\ Len(ds) \in Nat /\ Len(more) \in Nat
  BY <1>2, <1>4, ListedIs
<1>7. \A i \in DOMAIN all : i \in 1..Len(ds) \/ \E j \in 1..Len(more) : i = Len(ds) + j
  <2>1. ASSUME NEW i \in DOMAIN all, i \notin 1..Len(ds)
        PROVE  i - Len(ds) \in 1..Len(more) /\ i = Len(ds) + (i - Len(ds))
    BY <1>6, <2>1
  <2> QED
    BY <2>1
<1>8. /\ \A i \in 1..Len(ds) : f[i] = e[i] /\ all[i] = ds[i]
      /\ \A j \in 1..Len(more) : f[Len(ds) + j] = x[j] /\ all[Len(ds) + j] = more[j]
      /\ \A j \in 1..Len(more) : x[j].source = k /\ IsFor(more[j], x[j])
      /\ Len(all) = Len(f)
  <2>1. Len(more) = Len(x) /\ Len(ds) = Len(e)
    BY <1>1, <1>2, Zenon
  <2>2. \A j \in 1..Len(more) : x[j].source = k /\ IsFor(more[j], x[j])
    BY <1>1, Zenon
  <2> QED
    BY <1>4, <1>5, <2>1, <2>2, Zenon
<1>9. k - 1 <= k /\ k \in Nat
  BY KeyBounds
<1>10. ASSUME NEW i \in DOMAIN all PROVE f[i].source <= k /\ IsFor(all[i], f[i])
  <2>1. CASE i \in 1..Len(ds)
    <3>1. f[i] = e[i] /\ all[i] = ds[i] /\ e[i].source <= k - 1 /\ IsFor(ds[i], e[i])
      BY <1>2, <1>6, <1>8, <2>1, Zenon
    <3>2. e[i].source \in 1..Count /\ Count \in Nat
      BY <3>1, SourcesAre DEF IsFor
    <3> QED
      BY <1>9, <3>1, <3>2
  <2>2. CASE \E j \in 1..Len(more) : i = Len(ds) + j
    <3>1. PICK j \in 1..Len(more) : i = Len(ds) + j
      BY <2>2
    <3>2. f[i] = x[j] /\ all[i] = more[j]
      BY <1>8, <3>1
    <3>3. x[j].source = k /\ IsFor(more[j], x[j])
      BY <1>8
    <3>4. f[i].source = k /\ IsFor(all[i], f[i])
      BY <3>2, <3>3, Zenon
    <3>5. k <= k
      BY <1>9
    <3> QED
      BY <3>4, <3>5
  <2> QED
    BY <1>7, <2>1, <2>2
<1>11. ASSUME Undotted PROVE Distinct(all)
  <2>1. Distinct(ds) /\ Distinct(more)
    BY <1>2, <1>11
  <2>2. ASSUME NEW i \in 1..Len(ds), NEW j \in 1..Len(more) PROVE ds[i].name # more[j].name
    <3>1. /\ e[i].source <= k - 1 /\ e[i].source \in 1..Count /\ e[i].table \in Table
          /\ ds[i].name = NameOf(e[i].source, e[i].table)
      BY <1>2, <1>6 DEF IsFor
    <3>2. x[j].source = k /\ x[j].table \in Table /\ more[j].name = NameOf(k, x[j].table)
      BY <1>8 DEF IsFor
    <3>3. e[i].source # k
      BY <1>9, <3>1, SourcesAre
    <3>4. PICK a, b, c : a = e[i].source /\ b = e[i].table /\ c = x[j].table
      OBVIOUS
    <3>5. a \in 1..Count /\ b \in Table /\ c \in Table /\ a # k
      BY <3>1, <3>2, <3>3, <3>4, Zenon
    <3>6. NameOf(a, b) # NameOf(k, c)
      BY <1>11, <3>5, NamesDiffer
    <3>7. ds[i].name = NameOf(a, b) /\ more[j].name = NameOf(k, c)
      BY <3>1, <3>2, <3>4, Zenon
    <3> QED
      BY <3>6, <3>7, Zenon
  <2>3. Listed(ds)
    BY <1>2
  <2>4. Distinct(ds \o more)
    BY <2>1, <2>2, <2>3, DistinctConcat
  <2> QED
    BY <1>1, <2>4, Zenon
<1>12. Found(k, all)
  BY <1>1, <1>4, <1>8, <1>10, <1>11, Zenon DEF Found
<1> QED
  BY <1>1, <1>12

LEMMA ScanBuilds ==
  ASSUME ScanInv, Scan!BuildDatasets
  PROVE  ScanInv'
<1>1. PICK k \in 1..Count + 1 : Scanning(k) /\ (k <= Count => k \in 1..Count)
  BY ScanInvIs
<1>2. /\ scanning = "build" /\ scanning' = "next" /\ UNCHANGED sources
      /\ todo' = todo \ {Scan!Key}
      /\ datasets' = datasets \o [i \in DOMAIN ordered |-> Scan!DatasetOf(ordered[i])]
  BY DEF Scan!BuildDatasets
<1>3. /\ k \in 1..Count /\ todo = k..Count /\ sources \in SourceMaps
      /\ Grouped(k) /\ CommentsRead(k) /\ Found(k - 1, datasets) /\ read = Len(Columns(k))
  BY <1>1, <1>2 DEF Scanning, Reading, ScanInv
<1>4. PICK tables, more, ds, x : /\ tables = ordered /\ ds = datasets /\ x = Scan!Expected(k)
                                 /\ more = [i \in DOMAIN tables |-> Scan!DatasetOf(tables[i])]
  OBVIOUS
<1>5. /\ tables = Scan!ExpectedTables(k) /\ Listed(tables) /\ IsInjective(tables)
      /\ DOMAIN grouped = TableSet(k, Len(Columns(k)))
      /\ \A i \in DOMAIN tables : tables[i] \in TableSet(k, Len(Columns(k)))
      /\ \A t \in TableSet(k, Len(Columns(k))) : GroupIs(k, Len(Columns(k)), t, grouped[t])
  <2>1. /\ TablesAre(k, Len(Columns(k)), tables) /\ DOMAIN grouped = Range(tables)
        /\ \A t \in TableSet(k, Len(Columns(k))) :
             GroupIs(k, Len(Columns(k)), t, GroupIn(grouped, t))
    BY <1>3, <1>4, Zenon DEF Grouped
  <2>2. /\ tables = TablesUpTo(k, Len(Columns(k))) /\ Listed(tables) /\ IsInjective(tables)
        /\ Range(tables) = TableSet(k, Len(Columns(k)))
    BY <2>1 DEF TablesAre
  <2>3. \A i \in DOMAIN tables : tables[i] \in Range(tables)
    BY DEF Range
  <2>4. \A t \in TableSet(k, Len(Columns(k))) : GroupIn(grouped, t) = grouped[t]
    BY <2>1, <2>2 DEF GroupIn
  <2> QED
    BY <1>3, <2>1, <2>2, <2>3, <2>4, ExpectedIs
<1>6. Len(tables) \in Nat /\ DOMAIN tables = 1..Len(tables)
  BY <1>5, ListedIs
<1>7. Listed(more) /\ Len(more) = Len(tables) /\ DOMAIN more = 1..Len(tables)
  <2>1. more = [i \in 1..Len(tables) |-> more[i]]
    BY <1>4, <1>6
  <2> QED
    BY <1>6, <2>1, FunctionListed
<1>8. x = [i \in 1..Len(tables) |-> [source |-> k, table |-> tables[i],
                                     fields |-> Scan!ExpectedFields(k, tables[i])]]
  BY <1>4, <1>5, <1>6 DEF Scan!Expected
<1>9. Len(x) = Len(tables)
  <2>1. x = [i \in 1..Len(tables) |-> x[i]]
    BY <1>8
  <2> QED
    BY <1>6, <2>1, FunctionListed
<1>10. ASSUME NEW i \in 1..Len(tables) PROVE x[i].source = k /\ IsFor(more[i], x[i])
  <2>1. PICK t : t = tables[i]
    OBVIOUS
  <2>2. x[i] = [source |-> k, table |-> t, fields |-> Scan!ExpectedFields(k, t)]
    BY <1>8, <2>1
  <2>3. more[i] = Scan!DatasetOf(t)
    BY <1>4, <1>6, <2>1
  <2>4. t \in TableSet(k, Len(Columns(k)))
    BY <1>5, <1>6, <2>1
  <2>5. t \in DOMAIN grouped /\ GroupIs(k, Len(Columns(k)), t, grouped[t])
    BY <1>5, <2>4
  <2>6. IsFor(Scan!DatasetOf(t), x[i])
    BY <1>3, <2>2, <2>4, <2>5, DatasetIsFor
  <2> QED
    BY <2>2, <2>3, <2>6
<1>11. ASSUME Undotted PROVE Distinct(more)
  <2>1. ASSUME NEW i \in 1..Len(tables), NEW j \in 1..Len(tables), more[i].name = more[j].name
        PROVE  i = j
    <3>1. x[i].table = tables[i] /\ x[j].table = tables[j] /\ x[i].source = k /\ x[j].source = k
      BY <1>8
    <3>2. NameOf(k, tables[i]) = NameOf(k, tables[j])
      BY <1>10, <2>1, <3>1 DEF IsFor
    <3>3. tables[i] \in TableSet(k, Len(Columns(k))) /\ tables[j] \in TableSet(k, Len(Columns(k)))
      BY <1>5, <1>6
    <3>4. tables[i] = tables[j]
      BY <1>3, <1>11, <3>2, <3>3, TablesDiffer
    <3> QED
      BY <1>5, <1>6, <3>4 DEF IsInjective
  <2> QED
    BY <1>7, <2>1 DEF Distinct
<1>12. Found(k, ds \o more)
  <2>1. Found(k - 1, ds)
    BY <1>3, <1>4
  <2>2. Len(more) = Len(Scan!Expected(k))
    BY <1>4, <1>7, <1>9
  <2>3. \A i \in 1..Len(more) : Scan!Expected(k)[i].source = k /\ IsFor(more[i], Scan!Expected(k)[i])
    BY <1>4, <1>7, <1>10
  <2> QED
    BY <1>3, <1>7, <1>11, <2>1, <2>2, <2>3, FoundOneMore
<1>13. Found(k, datasets')
  BY <1>2, <1>4, <1>12, Zenon
<1>14. todo' = (k + 1)..Count /\ k + 1 \in 1..Count + 1 /\ (k + 1) - 1 = k
  BY <1>2, <1>3, KeyIs, KeyBounds
<1>15. Count' = Count /\ Found((k + 1) - 1, datasets)'
  BY <1>2, <1>13, <1>14, SameSources
<1>16. Scanning(k + 1)'
  BY <1>2, <1>14, <1>15 DEF Scanning, Reading
<1> QED
  BY <1>2, <1>3, <1>14, <1>15, <1>16 DEF ScanInv

LEMMA FoundNone == Found(0, <<>>)
<1>1. Segment(ExpectedOf, 0, 0) = <<>>
  BY SegmentEmpty
<1>2. Listed(<<>>) /\ Len(<<>>) = 0 /\ DOMAIN (<<>>) = {}
  BY EmptyListed
<1> QED
  BY <1>1, <1>2 DEF Found, Distinct

LEMMA ScanInit ==
  ASSUME Init
  PROVE  ScanInv
<1>1. /\ sources \in SourceMaps /\ todo = DOMAIN sources /\ scanning = "next"
      /\ datasets = <<>>
  BY DEF Init, Scan!Init
<1>2. Count \in Nat /\ todo = 1..Count
  BY <1>1, SourcesAre
<1>3. Found(1 - 1, datasets)
  <2>1. 1 - 1 = 0
    OBVIOUS
  <2> QED
    BY <1>1, <2>1, FoundNone, Zenon
<1>4. Scanning(1) /\ 1 \in 1..Count + 1
  BY <1>1, <1>2, <1>3 DEF Scanning, Reading
<1> QED
  BY <1>1, <1>4 DEF ScanInv

LEMMA ScanStays ==
  ASSUME ScanInv, Scan!Next
  PROVE  ScanInv'
<1>1. CASE Scan!ScanCatalog \/ Scan!ScanDescribed
  BY <1>1, ScanStarts
<1>2. CASE Scan!ReadColumn \/ Scan!ReadWithComment
  BY <1>2, ScanReads
<1>3. CASE \/ Scan!EndPostgres \/ Scan!EndMySQL \/ Scan!EndOther
           \/ Scan!CommentsEnd \/ \E row \in unread : Scan!ReadComment(row)
  BY <1>3, ScanGoesOn
<1>4. CASE Scan!ColumnsFail
  BY <1>4, ScanFails
<1>5. CASE Scan!BuildDatasets
  BY <1>5, ScanBuilds
<1>6. CASE Scan!ReturnModel
  BY <1>6, ScanReturns
<1> QED
  BY <1>1, <1>2, <1>3, <1>4, <1>5, <1>6, Zenon DEF Scan!Next

LEMMA ScanSame ==
  ASSUME ScanInv, UNCHANGED scanVars
  PROVE  ScanInv'
<1>1. /\ UNCHANGED <<sources, todo, read, ordered, grouped, datasets, scanning>>
      /\ UNCHANGED <<columnComments, tableComments, unread>>
  BY DEF scanVars
<1>2. PICK k \in 1..Count + 1 : Scanning(k) /\ (scanning = "done" => k = Count + 1)
  BY DEF ScanInv
<1>3. Grouped(k)' = Grouped(k)
  BY <1>1, SameSources DEF Grouped
<1>4. CommentsRead(k)' = CommentsRead(k)
  BY <1>1, SameSources DEF CommentsRead
<1>5. Scanning(k)'
  BY <1>1, <1>2, <1>3, <1>4, SameSources DEF Scanning, Reading
<1>6. Count' = Count
  BY <1>1, SameSources
<1> QED
  BY <1>1, <1>2, <1>5, <1>6 DEF ScanInv

\* What the scan has found is a model without overlays.
LEMMA FoundAll ==
  ASSUME ScanInv, scanning = "done"
  PROVE  sources \in SourceMaps /\ Found(Count, datasets)
<1>1. PICK k \in 1..Count + 1 : Scanning(k) /\ k = Count + 1
  BY DEF ScanInv
<1>2. (Count + 1) - 1 = Count /\ sources \in SourceMaps
  BY SourcesAre DEF ScanInv
<1> QED
  BY <1>1, <1>2 DEF Scanning

\* A field and a dataset of the scan's model.
FieldItem(field) == [name |-> field.name, attrs |-> [description |-> field.description]]
DatasetItem(d) ==
  [name   |-> d.name,
   attrs  |-> [description |-> d.description, primary_key |-> Unset],
   fields |-> [f \in DOMAIN d.fields |-> FieldItem(d.fields[f])]]

LEMMA ScannedItems ==
  ASSUME ScanInv, scanning = "done"
  PROVE  /\ Listed(ScannedModel.datasets) /\ Len(ScannedModel.datasets) = Len(datasets)
         /\ DOMAIN datasets = 1..Len(datasets)
         /\ DOMAIN ScannedModel.datasets = 1..Len(datasets)
         /\ \A i \in 1..Len(datasets) :
              ScannedModel.datasets[i] = DatasetItem(datasets[i]) /\ Listed(datasets[i].fields)
<1>1. Listed(datasets) /\ \A i \in DOMAIN datasets : Listed(datasets[i].fields)
  BY FoundAll DEF Found, IsFor
<1>2. Len(datasets) \in Nat /\ DOMAIN datasets = 1..Len(datasets)
  BY <1>1, ListedIs
<1>3. PICK ds : ds = ScannedModel.datasets
  OBVIOUS
<1>4. ds = [i \in 1..Len(datasets) |-> DatasetItem(datasets[i])]
  BY <1>2, <1>3 DEF ScannedModel, DatasetItem, FieldItem
<1>5. ds = [i \in 1..Len(datasets) |-> ds[i]]
  BY <1>4
<1>6. Listed(ds) /\ Len(ds) = Len(datasets) /\ DOMAIN ds = 1..Len(datasets)
  BY <1>2, <1>5, FunctionListed
<1> QED
  BY <1>1, <1>2, <1>3, <1>4, <1>6

\* The items have the names and the descriptions of what the scan found.
LEMMA FieldItemIs ==
  ASSUME NEW field
  PROVE  LET f == FieldItem(field)
         IN /\ f = [name |-> f.name, attrs |-> f.attrs]
            /\ f.name = field.name /\ IsFunction(f.attrs)
BY DEF FieldItem, IsFunction

LEMMA DatasetItemIs ==
  ASSUME NEW d, Listed(d.fields)
  PROVE  LET e == DatasetItem(d)
         IN /\ e = [name |-> e.name, attrs |-> e.attrs, fields |-> e.fields]
            /\ e.name = d.name /\ NamesIn(e.fields) = NamesIn(d.fields)
            /\ IsDataset(e)
<1>1. Len(d.fields) \in Nat /\ DOMAIN d.fields = 1..Len(d.fields)
  BY ListedIs
<1>2. PICK e, fs : e = DatasetItem(d) /\ fs = e.fields
  OBVIOUS
<1>3. /\ e = [name |-> e.name, attrs |-> e.attrs, fields |-> e.fields]
      /\ e.name = d.name /\ IsFunction(e.attrs)
  BY <1>2 DEF DatasetItem, IsFunction
<1>4. fs = [f \in 1..Len(d.fields) |-> FieldItem(d.fields[f])]
  BY <1>1, <1>2 DEF DatasetItem
<1>5. fs = [f \in 1..Len(d.fields) |-> fs[f]]
  BY <1>4
<1>6. Listed(fs) /\ DOMAIN fs = 1..Len(d.fields)
  BY <1>1, <1>5, FunctionListed
<1>7. ASSUME NEW f \in 1..Len(d.fields)
      PROVE  /\ fs[f] = [name |-> fs[f].name, attrs |-> fs[f].attrs]
             /\ fs[f].name = d.fields[f].name /\ IsFunction(fs[f].attrs)
  <2>1. fs[f] = FieldItem(d.fields[f])
    BY <1>4
  <2> QED
    BY <2>1, FieldItemIs
<1>8. NamesIn(fs) = NamesIn(d.fields)
  BY <1>1, <1>6, <1>7 DEF NamesIn
<1>9. IsFields(fs)
  BY <1>6, <1>7 DEF IsFields
<1> QED
  BY <1>2, <1>3, <1>8, <1>9 DEF IsDataset

LEMMA ScannedModelIsBase ==
  ASSUME ScanInv, scanning = "done"
  PROVE  IsBase(ScannedModel)
<1>1. PICK m : m = ScannedModel
  OBVIOUS
<1>2. /\ m = [attrs |-> m.attrs, datasets |-> m.datasets, relationships |-> <<>>, metrics |-> <<>>]
      /\ IsFunction(m.attrs)
  BY <1>1 DEF ScannedModel, IsFunction
<1>3. Listed(m.datasets) /\ DOMAIN m.datasets = 1..Len(datasets)
  BY <1>1, ScannedItems
<1>4. ASSUME NEW i \in 1..Len(datasets)
      PROVE  /\ m.datasets[i] = [name |-> m.datasets[i].name, attrs |-> m.datasets[i].attrs,
                                 fields |-> m.datasets[i].fields]
             /\ IsDataset(m.datasets[i])
  <2>1. m.datasets[i] = DatasetItem(datasets[i]) /\ Listed(datasets[i].fields)
    BY <1>1, ScannedItems
  <2> QED
    BY <2>1, DatasetItemIs
<1> QED
  BY <1>1, <1>2, <1>3, <1>4 DEF IsBase

\* Init and every step establish the invariant.
LEMMA Inductive ==
  ASSUME Inv, [Next]_vars
  PROVE  Inv'
<1>1. CASE ScanStep
  BY <1>1, ScanStays, OverlayWaits DEF Inv, ScanStep
<1>2. CASE StartOverlays
  <2>1. UNCHANGED scanVars /\ scanning = "done"
    BY <1>2 DEF StartOverlays
  <2> QED
    BY <1>2, <2>1, ScanSame, ScannedModelIsBase, OverlayStarts DEF Inv
<1>3. CASE OverlayStep
  <2>1. UNCHANGED scanVars
    BY <1>3 DEF OverlayStep
  <2> QED
    BY <1>3, <2>1, ScanSame, OverlayStays DEF Inv
<1>4. CASE UNCHANGED vars
  <2>1. UNCHANGED scanVars
    BY <1>4 DEF vars
  <2> QED
    BY <1>4, <2>1, ScanSame, OverlaySame DEF Inv
<1> QED
  BY <1>1, <1>2, <1>3, <1>4 DEF Next

\* The invariant holds throughout, for all catalogs and files (semanticcontext/scanner.go,
\* semanticcontext/overlay.go).
THEOREM Invariance == Spec => []Inv
<1>1. Init => Inv
  BY ScanInit, OverlayInit DEF Inv
<1>2. Inv /\ [Next]_vars => Inv'
  BY Inductive
<1> QED
  BY <1>1, <1>2, PTL DEF Spec

-----------------------------------------------------------------------------
(* What the invariant says of the properties.                              *)

LEMMA ScanTyped ==
  ASSUME ScanInv
  PROVE  Scan!TypeOK
<1>1. PICK k \in 1..Count + 1 : Scanning(k) /\ (k <= Count => k \in 1..Count)
  BY ScanInvIs
<1>2. sources \in SourceMaps /\ DOMAIN sources = 1..Count /\ todo = k..Count /\ Count \in Nat
  BY <1>1, SourcesAre DEF ScanInv, Scanning
<1>3. todo \subseteq DOMAIN sources
  BY <1>2
<1>4. ASSUME Reading
      PROVE  /\ read \in 0..Len(Scan!Current.columns)
             /\ Scan!IsInjective(ordered) /\ Scan!Range(ordered) = DOMAIN grouped
  <2>1. k \in 1..Count /\ Grouped(k)
    BY <1>1, <1>4 DEF Scanning
  <2>2. Scan!Current = sources[k]
    BY <1>2, <2>1, KeyIs
  <2> QED
    BY <2>1, <2>2 DEF Grouped, TablesAre, Columns, Scan!IsInjective, IsInjective, Scan!Range, Range
<1> QED
  BY <1>2, <1>3, <1>4 DEF ScanInv, Scan!TypeOK, Reading

LEMMA OverlayTyped ==
  ASSUME OverlayInv
  PROVE  Overlay!TypeOK
<1>1. /\ applied \in 0..Len(Overlay!AllOverlays(files)) /\ HeapIs(heap, model)
      /\ layering \in {"waiting", "applying", "done", "failed"}
      /\ layering # "waiting" => files \in [config : ConfigFiles, flags : FlagFiles]
  BY DEF OverlayInv, Applied
<1>2. PICK items, refs : /\ items = heap[model.datasets]
                         /\ refs = [i \in DOMAIN items |-> items[i].fields]
  OBVIOUS
<1>3. ItemsOK(heap, items)
  BY <1>1, <1>2 DEF HeapIs
<1>4. \A i \in DOMAIN items : items[i].fields \in DOMAIN heap
  BY <1>3 DEF ItemsOK
<1>5. \A i, j \in DOMAIN items : items[i].fields = items[j].fields => i = j
  BY <1>3 DEF ItemsOK
<1>6. Overlay!Range(refs) \subseteq DOMAIN heap /\ Overlay!IsInjective(refs)
  BY <1>2, <1>4, <1>5 DEF Overlay!Range, Overlay!IsInjective
<1>7. {model.datasets, model.relationships, model.metrics} \subseteq DOMAIN heap
  BY <1>1 DEF HeapIs
<1> QED
  BY <1>1, <1>2, <1>6, <1>7 DEF Overlay!TypeOK

\* The datasets of the model, with their fields in place.
LEMMA DatasetsAre ==
  ASSUME OverlayInv
  PROVE  Overlay!Datasets = View(heap, heap[model.datasets])
<1>1. PICK items, h : items = heap[model.datasets] /\ h = heap
  OBVIOUS
<1>2. ItemsOK(h, items)
  BY <1>1 DEF OverlayInv, HeapIs
<1>3. ASSUME NEW i \in DOMAIN items
      PROVE  [items[i] EXCEPT !.fields = h[@]]
               = [name |-> items[i].name, attrs |-> items[i].attrs, fields |-> h[items[i].fields]]
  <2>1. items[i] = [name |-> items[i].name, attrs |-> items[i].attrs, fields |-> items[i].fields]
    BY <1>2 DEF ItemsOK
  <2>2. [items[i] EXCEPT !.fields = h[@]] = [items[i] EXCEPT !.fields = h[items[i].fields]]
    BY <2>1
  <2>3. PICK d, f : d = items[i] /\ f = h[items[i].fields]
    OBVIOUS
  <2>4. d = [name |-> d.name, attrs |-> d.attrs, fields |-> d.fields]
    BY <2>1, <2>3
  <2>5. [d EXCEPT !.fields = f] = [name |-> d.name, attrs |-> d.attrs, fields |-> f]
    BY <2>4, SetFields
  <2> QED
    BY <2>2, <2>3, <2>5, Zenon
<1>4. Overlay!Datasets = [i \in DOMAIN items |-> [items[i] EXCEPT !.fields = h[@]]]
  BY <1>1, Zenon DEF Overlay!Datasets
<1>5. View(h, items)
        = [i \in DOMAIN items |-> [name |-> items[i].name, attrs |-> items[i].attrs,
                                   fields |-> h[items[i].fields]]]
  BY Zenon DEF View
<1>6. [i \in DOMAIN items |-> [items[i] EXCEPT !.fields = h[@]]]
        = [i \in DOMAIN items |-> [name |-> items[i].name, attrs |-> items[i].attrs,
                                   fields |-> h[items[i].fields]]]
  BY <1>3
<1> QED
  BY <1>1, <1>4, <1>5, <1>6, Zenon

\* A model that is returned is what all layers make of the one that was scanned.
LEMMA AllApplied ==
  ASSUME OverlayInv, layering = "done"
  PROVE  /\ scanning = "done" /\ scanned = ScannedModel
         /\ Overlaid(scanned, heap, model, Overlay!Layers)
<1>1. /\ files \in [config : ConfigFiles, flags : FlagFiles] /\ applied = Len(Applied)
      /\ Overlaid(scanned, heap, model, LayersUpTo(applied))
      /\ scanning = "done" /\ scanned = ScannedModel
  BY DEF OverlayInv
<1>2. LayersUpTo(applied) = Overlay!Layers
  BY <1>1, LayersAre
<1> QED
  BY <1>1, <1>2, Zenon

LEMMA MetricsInv ==
  ASSUME Inv
  PROVE  MetricsAreLatest
<1> SUFFICES ASSUME layering = "done" PROVE MetricsAreLatest
  BY DEF MetricsAreLatest, Overlay!MetricsAreLatest
<1>1. LatestOf(heap[model.metrics], MetricsIn(Overlay!Layers))
  BY AllApplied DEF Inv, Overlaid
<1>2. Overlay!FlattenSeq([i \in DOMAIN Overlay!Layers |-> Overlay!Layers[i].metrics])
        = MetricsIn(Overlay!Layers)
  BY OverlayFlattens, Zenon DEF MetricsIn
<1>3. LatestOf(Overlay!Metrics,
               Overlay!FlattenSeq([i \in DOMAIN Overlay!Layers |-> Overlay!Layers[i].metrics]))
  BY <1>1, <1>2, Zenon DEF Overlay!Metrics
<1> QED
  BY <1>3, Zenon DEF MetricsAreLatest, Overlay!MetricsAreLatest, LatestOf, Distinct

\* The scan's datasets and those of the model it gives.
LEMMA ScannedNames ==
  ASSUME ScanInv, scanning = "done"
  PROVE  /\ DOMAIN ScannedModel.datasets = DOMAIN datasets
         /\ \A i \in DOMAIN datasets :
              /\ ScannedModel.datasets[i].name = datasets[i].name
              /\ NamesIn(ScannedModel.datasets[i].fields) = NamesIn(datasets[i].fields)
<1>1. ASSUME NEW i \in 1..Len(datasets)
      PROVE  /\ ScannedModel.datasets[i].name = datasets[i].name
             /\ NamesIn(ScannedModel.datasets[i].fields) = NamesIn(datasets[i].fields)
  <2>1. PICK d : d = datasets[i]
    OBVIOUS
  <2>2. ScannedModel.datasets[i] = DatasetItem(d) /\ Listed(d.fields)
    BY <2>1, ScannedItems
  <2>3. DatasetItem(d).name = d.name /\ NamesIn(DatasetItem(d).fields) = NamesIn(d.fields)
    BY <2>2, DatasetItemIs
  <2> QED
    BY <2>1, <2>2, <2>3, Zenon
<1> QED
  BY <1>1, ScannedItems

LEMMA ScannedDistinct ==
  ASSUME ScanInv, scanning = "done", Undotted
  PROVE  DistinctNames(ScannedModel.datasets)
<1>1. Distinct(datasets) /\ \A i \in DOMAIN datasets : Distinct(datasets[i].fields)
  BY FoundAll DEF Found, IsFor
<1>2. PICK ms, ds : ms = ScannedModel.datasets /\ ds = datasets
  OBVIOUS
<1>3. /\ DOMAIN ms = DOMAIN ds
      /\ \A i \in DOMAIN ds : ms[i].name = ds[i].name /\ NamesIn(ms[i].fields) = NamesIn(ds[i].fields)
  BY <1>2, ScannedNames
<1>4. Distinct(ms)
  BY <1>1, <1>2, <1>3 DEF Distinct
<1>5. \A i \in DOMAIN ds : Distinct(ms[i].fields)
  BY <1>1, <1>2, <1>3, SameNames
<1> QED
  BY <1>2, <1>3, <1>4, <1>5 DEF DistinctNames

\* The model lists what the catalogs have.
LEMMA CatalogInv ==
  ASSUME Inv
  PROVE  ModelMatchesCatalog
<1> SUFFICES ASSUME layering = "done" PROVE ModelMatchesCatalog
  BY DEF ModelMatchesCatalog
<1>1. /\ scanning = "done" /\ Overlaid(ScannedModel, heap, model, Overlay!Layers)
      /\ sources \in SourceMaps /\ Found(Count, datasets)
  BY AllApplied, FoundAll DEF Inv
<1>2. PICK ms, ds, e, w :
        /\ ms = ScannedModel.datasets /\ ds = datasets /\ e = Scan!ExpectedAll
        /\ w = View(heap, heap[model.datasets])
  OBVIOUS
<1>3. /\ Len(ds) = Len(e) /\ DOMAIN ds = 1..Len(ds) /\ Len(ds) \in Nat
      /\ \A i \in 1..Len(ds) : IsFor(ds[i], e[i])
  <2>1. e = Segment(ExpectedOf, 0, Count)
    BY <1>1, <1>2, ExpectedAre
  <2>2. Listed(ds) /\ Len(ds) = Len(e) /\ \A i \in DOMAIN ds : IsFor(ds[i], e[i])
    BY <1>1, <1>2, <2>1 DEF Found
  <2> QED
    BY <2>2, ListedIs
<1>4. /\ DOMAIN ms = DOMAIN ds
      /\ \A i \in DOMAIN ds : ms[i].name = ds[i].name /\ NamesIn(ms[i].fields) = NamesIn(ds[i].fields)
  BY <1>1, <1>2, ScannedNames DEF Inv
<1>5. SameShape(ms, w)
  BY <1>1, <1>2 DEF Overlaid
<1>6. DOMAIN w = 1..Len(ds) /\ \A i \in 1..Len(ds) : w[i].name = ds[i].name
  BY <1>3, <1>4, <1>5, SameShapeIs
<1>7. \A i \in 1..Len(ds) : NamesIn(w[i].fields) = NamesIn(ds[i].fields)
  BY <1>3, <1>4, <1>5 DEF SameShape
<1>8. Len(w) = Len(e)
  <2>1. w = [i \in 1..Len(ds) |-> w[i]]
    BY <1>2, <1>6 DEF View
  <2> QED
    BY <1>3, <2>1, FunctionListed
<1>9. ASSUME NEW i \in 1..Len(ds)
      PROVE  /\ w[i].name = sources[e[i].source].name \o (e[i].table[1] \o e[i].table[2])
             /\ NamesIn(w[i].fields) = e[i].fields
  <2>1. ds[i].name = NameOf(e[i].source, e[i].table) /\ NamesIn(ds[i].fields) = e[i].fields
    BY <1>3 DEF IsFor
  <2> QED
    BY <1>6, <1>7, <2>1, Zenon DEF NameOf
<1>10. \A r \in Range(heap[model.relationships]) :
         {r.from, r.to} \subseteq {w[i].name : i \in DOMAIN w}
  <2>1. \A r \in Range(heap[model.relationships]) : {r.from, r.to} \subseteq Overlay!Names(ms)
    BY <1>1, <1>2 DEF Overlaid
  <2>2. Overlay!Names(ms) = {w[i].name : i \in DOMAIN w}
    BY <1>3, <1>4, <1>6 DEF Overlay!Names
  <2> QED
    BY <2>1, <2>2, Zenon
<1>11. Overlay!Datasets = w
  BY <1>2, DatasetsAre DEF Inv
<1>12. ASSUME NEW i \in DOMAIN Overlay!Datasets
       PROVE  LET d == Overlay!Datasets[i]
                  x == Scan!ExpectedAll[i]
              IN /\ d.name = sources[x.source].name \o (x.table[1] \o x.table[2])
                 /\ NamesIn(d.fields) = x.fields
  BY <1>2, <1>6, <1>9, <1>11, Zenon
<1>13. \A r \in Range(Overlay!Relationships) :
         {r.from, r.to} \subseteq {Overlay!Datasets[i].name : i \in DOMAIN Overlay!Datasets}
  BY <1>10, <1>11, Zenon DEF Overlay!Relationships
<1>14. Len(Overlay!Datasets) = Len(Scan!ExpectedAll)
  BY <1>2, <1>8, <1>11, Zenon
<1> QED
  BY <1>12, <1>13, <1>14, Zenon DEF ModelMatchesCatalog, NamesIn

\* Descriptions are the comments of the catalogs.
LEMMA CommentsInv ==
  ASSUME Inv, Undotted
  PROVE  CommentsAreTrue
<1> SUFFICES ASSUME scanning = "done" PROVE CommentsAreTrue
  BY DEF CommentsAreTrue, Scan!CommentsAreTrue
<1>1. sources \in SourceMaps /\ Found(Count, datasets)
  BY FoundAll DEF Inv
<1>2. PICK ds, all : ds = datasets /\ all = Scan!ExpectedAll
  OBVIOUS
<1>3. \A i \in DOMAIN ds : IsFor(ds[i], all[i])
  <2>1. all = Segment(ExpectedOf, 0, Count)
    BY <1>1, <1>2, ExpectedAre
  <2> QED
    BY <1>1, <1>2, <2>1 DEF Found
<1>4. ASSUME NEW i \in DOMAIN datasets
      PROVE  LET e == Scan!ExpectedAll[i]
                 s == sources[e.source]
             IN /\ \/ datasets[i].description = ""
                   \/ s.type \in Scan!Described /\ datasets[i].description = s.description
                   \/ e.table \in DOMAIN s.comments /\ datasets[i].description = s.comments[e.table]
                /\ \A f \in Scan!Range(datasets[i].fields) :
                     \/ f.description = ""
                     \/ \E c \in Scan!Range(s.columns) :
                          c.table = e.table /\ c.name = f.name /\ c.comment = f.description
  <2>1. /\ TrueDescription(all[i].source, all[i].table, ds[i].description)
        /\ \A f \in DOMAIN ds[i].fields : TrueField(all[i].source, all[i].table, ds[i].fields[f])
    BY <1>2, <1>3 DEF IsFor
  <2>2. \A f \in Scan!Range(ds[i].fields) : TrueField(all[i].source, all[i].table, f)
    BY <2>1 DEF Scan!Range
  <2>3. \A x : Scan!Range(x) = Range(x)
    BY DEF Scan!Range, Range
  <2> QED
    BY <1>2, <2>1, <2>2, <2>3 DEF TrueDescription, TrueField, Described, Columns
<1> QED
  BY <1>4, Zenon DEF CommentsAreTrue, Scan!CommentsAreTrue

\* Attributes are those of the last files that set them.
LEMMA OverlayLayers ==
  ASSUME NEW name, NEW field
  PROVE  /\ Overlay!LayersOfDataset(name) = DatasetLayers(Overlay!Layers, name)
         /\ Overlay!LayersOfField(name, field)
              = FieldLayers(DatasetLayers(Overlay!Layers, name), field)
<1>1. Overlay!LayersOfDataset(name) = DatasetLayers(Overlay!Layers, name)
  BY OverlayFlattens, Zenon DEF Overlay!LayersOfDataset, DatasetLayers
<1>2. Overlay!LayersOfField(name, field) = FieldLayers(Overlay!LayersOfDataset(name), field)
  BY OverlayFlattens, Zenon DEF Overlay!LayersOfField, FieldLayers
<1> QED
  BY <1>1, <1>2, Zenon

LEMMA LayeredIsLastSet ==
  ASSUME NEW base, NEW attrs, NEW layers, Layered(base.attrs, attrs, layers)
  PROVE  \A a \in DOMAIN attrs : attrs[a] = Overlay!LastSet(base, layers, a)
BY Zenon DEF Layered, Overlay!LastSet, Value

LEMMA LayersInv ==
  ASSUME Inv, Undotted
  PROVE  LaterFileWins
<1> SUFFICES ASSUME layering = "done" PROVE LaterFileWins
  BY DEF LaterFileWins, Overlay!LaterFileWins
<1>1. /\ scanning = "done" /\ scanned = ScannedModel
      /\ Overlaid(scanned, heap, model, Overlay!Layers)
  BY AllApplied DEF Inv
<1>2. DistinctNames(scanned.datasets)
  BY <1>1, ScannedDistinct DEF Inv
<1>3. PICK w, bs, layers :
        /\ w = View(heap, heap[model.datasets]) /\ bs = scanned.datasets /\ layers = Overlay!Layers
  OBVIOUS
<1>4. /\ Layered(scanned.attrs, model.attrs, layers) /\ SameShape(bs, w)
      /\ Enriched(bs, w, layers)
  BY <1>1, <1>2, <1>3, Zenon DEF Overlaid
<1>5. \A a \in DOMAIN model.attrs : model.attrs[a] = Overlay!LastSet(scanned, layers, a)
  BY <1>4, LayeredIsLastSet
<1>6. ASSUME NEW i \in DOMAIN w
      PROVE  /\ \A a \in DOMAIN w[i].attrs :
                  w[i].attrs[a] = Overlay!LastSet(bs[i], Overlay!LayersOfDataset(w[i].name), a)
             /\ \A f \in DOMAIN w[i].fields : \A a \in DOMAIN w[i].fields[f].attrs :
                  w[i].fields[f].attrs[a] =
                    Overlay!LastSet(bs[i].fields[f],
                                    Overlay!LayersOfField(w[i].name, w[i].fields[f].name), a)
  <2>1. PICK b, d, ls : b = bs[i] /\ d = w[i] /\ ls = DatasetLayers(layers, d.name)
    OBVIOUS
  <2>2. i \in DOMAIN bs /\ d.name = b.name
    BY <1>4, <2>1, SameShapeIs
  <2>3. Enriches(b, d, ls)
    BY <1>4, <2>1, <2>2, Zenon DEF Enriched
  <2>4. NamesIn(d.fields) = NamesIn(b.fields)
    BY <1>4, <2>1, <2>2 DEF SameShape
  <2>5. Overlay!LayersOfDataset(d.name) = ls
    BY <1>3, <2>1, OverlayLayers, Zenon
  <2>6. \A a \in DOMAIN d.attrs : d.attrs[a] = Overlay!LastSet(b, ls, a)
    BY <2>3, LayeredIsLastSet DEF Enriches
  <2>7. ASSUME NEW f \in DOMAIN d.fields, NEW a \in DOMAIN d.fields[f].attrs
        PROVE  d.fields[f].attrs[a] =
                 Overlay!LastSet(b.fields[f], Overlay!LayersOfField(d.name, d.fields[f].name), a)
    <3>1. f \in DOMAIN b.fields /\ d.fields[f].name = b.fields[f].name
      BY <2>4, <2>7, SameNames
    <3>2. PICK fl : fl = FieldLayers(ls, d.fields[f].name)
      OBVIOUS
    <3>3. Layered(b.fields[f].attrs, d.fields[f].attrs, fl)
      BY <2>3, <3>1, <3>2, Zenon DEF Enriches
    <3>4. d.fields[f].attrs[a] = Overlay!LastSet(b.fields[f], fl, a)
      BY <2>7, <3>3, LayeredIsLastSet
    <3>5. Overlay!LayersOfField(d.name, d.fields[f].name) = fl
      BY <1>3, <2>1, <3>2, OverlayLayers, Zenon
    <3> QED
      BY <3>4, <3>5, Zenon
  <2> QED
    BY <2>1, <2>5, <2>6, <2>7, Zenon
<1>7. Overlay!Datasets = w
  BY <1>3, DatasetsAre DEF Inv
<1>8. ASSUME NEW i \in DOMAIN Overlay!Datasets
      PROVE  LET d == Overlay!Datasets[i]
                 b == scanned.datasets[i]
             IN /\ \A a \in DOMAIN d.attrs :
                     d.attrs[a] = Overlay!LastSet(b, Overlay!LayersOfDataset(d.name), a)
                /\ \A f \in DOMAIN d.fields : \A a \in DOMAIN d.fields[f].attrs :
                     d.fields[f].attrs[a] =
                       Overlay!LastSet(b.fields[f],
                                       Overlay!LayersOfField(d.name, d.fields[f].name), a)
  BY <1>3, <1>6, <1>7, Zenon
<1>9. \A a \in DOMAIN model.attrs :
        model.attrs[a] = Overlay!LastSet(scanned, Overlay!Layers, a)
  BY <1>3, <1>5, Zenon
<1> QED
  BY <1>8, <1>9, Zenon DEF LaterFileWins, Overlay!LaterFileWins

-----------------------------------------------------------------------------
(* The theorems.                                                           *)

\* While a catalog is read its tables are listed once each, and the arrays that a model
\* refers to exist, those of the fields once each (semanticcontext/scanner_pg.go:32,
\* semanticcontext/overlay.go:58).
THEOREM Typing == Spec => []TypeOK
<1>1. Inv => TypeOK
  BY ScanTyped, OverlayTyped DEF Inv, TypeOK
<1> QED
  BY <1>1, Invariance, PTL

\* Applying a file writes no array that is there: neither the scan's model nor that of
\* an earlier file changes (semanticcontext/overlay.go:58).
THEOREM ArraysAreKept == Spec => ArraysKeepTheirItems
<1>1. ASSUME Inv, [Next]_vars
      PROVE  [layering = "applying" => \A a \in DOMAIN heap : heap'[a] = heap[a]]_Overlay!vars
  <2>1. SUFFICES ASSUME layering = "applying", ~UNCHANGED Overlay!vars
                 PROVE  \A a \in DOMAIN heap : heap'[a] = heap[a]
    OBVIOUS
  <2>2. ~UNCHANGED overlayVars
    BY <2>1 DEF overlayVars, Overlay!vars, Overlay!input
  <2>3. Overlay!Next
    BY <1>1, <2>1, <2>2 DEF Next, ScanStep, StartOverlays, Overlay!Provide, OverlayStep, vars
  <2>4. CASE Overlay!ApplyFile
    <3>1. Grown(heap, heap') /\ Listed(heap)
      BY <1>1, <2>4, OneFileMore DEF Inv, OverlayInv, HeapIs
    <3> QED
      BY <3>1, ListedIs DEF Grown
  <2>5. CASE Overlay!RejectFile \/ Overlay!ReturnModel
    BY <2>5 DEF Overlay!RejectFile, Overlay!ReturnModel
  <2> QED
    BY <2>3, <2>4, <2>5 DEF Overlay!Next
<1> QED
  BY <1>1, Invariance, PTL DEF Spec, ArraysKeepTheirItems, Overlay!ArraysKeepTheirItems

\* A model that is returned lists the tables and columns of all catalogs, in order and
\* no others, whatever the files say (specs/semantic_context_layering.md:25).
THEOREM CatalogIsListed == Spec => []ModelMatchesCatalog
BY CatalogInv, Invariance, PTL

\* A model that is returned has one metric of each name, the last that a file defines
\* (semanticcontext/overlay.go:168-183).
THEOREM LastMetricCounts == Spec => []MetricsAreLatest
BY MetricsInv, Invariance, PTL

\* With identifiers that have no dots, a description is the comment of that very table or
\* column, however far the comment queries got (semanticcontext/scanner_pg.go:54-66).
THEOREM DescriptionsAreTrue == Undotted => (Spec => []CommentsAreTrue)
<1> SUFFICES ASSUME Undotted PROVE Spec => []CommentsAreTrue
  OBVIOUS
<1>1. Inv => CommentsAreTrue
  BY CommentsInv
<1> QED
  BY <1>1, Invariance, PTL

\* With identifiers that have no dots, each attribute of the model, of its datasets and
\* of their fields is that of the last file that sets it (semanticcontext/overlay.go:21,
\* cmd/semanticcontext.go:40).
THEOREM LastFileWins == Undotted => (Spec => []LaterFileWins)
<1> SUFFICES ASSUME Undotted PROVE Spec => []LaterFileWins
  OBVIOUS
<1>1. Inv => LaterFileWins
  BY LayersInv
<1> QED
  BY <1>1, Invariance, PTL
=============================================================================
