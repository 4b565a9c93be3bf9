# PlyDB: TLA+ models and proofs

PlyDB answers SQL queries over a set of configured sources (PostgreSQL, MySQL,
SQLite, DuckDB, local files, S3 objects, Google sheets) through one in-memory
DuckDB.  A query is parsed, checked against an access policy, rewritten and run;
its rows are returned as JSON within limits, by the command line or by an MCP
server.  This directory holds the specifications of these steps, the TLC
configurations that check them, and proofs checked by TLAPS.

`PROJECT.json` is the index: components, runs, the lines of code each definition
models, findings, hazards and theorems.

## The system

| Component | State | Operations | Talks to |
|---|---|---|---|
| Access policy (`sqlwalk/policy.go`, `queryengine/policy.go`) | the policy document; the resolved maps catalog, schema, table | ParsePolicy, resolve, lookup, allows, ReadOnlyPolicy | called by Validate |
| Policy validation (`sqlwalk/validate.go`) | the accesses collected, the violations | extractAccesses and its walkers, Validate in fail-fast or collecting mode | reads the tree, asks the policy |
| Table extraction (`sqlwalk/extract.go`, `lineage.go`) | the references and CTE names collected | Extract | reads the tree |
| Rewriting (`sqlwalk/replace.go`, `rename.go`) | the tree, changed in place; recorded column prefixes | ReplaceTablesWithFunctions, RenameTables | one after the other, on one tree |
| Preprocessing (`queryengine/preprocess.go`) | the two rewriting plans | PreprocessQuery | calls all of the above |
| Query engine (`queryengine/engine.go`, `connection.go`) | the DuckDB handle, what is attached, secrets | New, Query, Close, AuthGSheet | the sources, the environment |
| Configuration (`queryengine/config.go`) | credentials and databases, two maps | ParseConfig | read by everything |
| Result building (`queryresult/result.go`) | the cursor, the rows kept, the search bounds | BuildQueryResult, truncateToFit | reads a cursor that may fail |
| MCP server (`cmd/mcp.go`, `mcpserver/handler.go`) | requests in flight, stdin and its pipe, contexts, SIGINT | the stdin feeder, the query handler, the shutdown | SDK, client, engine |
| Semantic context (`semanticcontext/`) | the model built so far | scans per source type, overlays | queries the engine, reads files |
| Command line (`main.go`, `cmd/`) | none beyond flags | dispatch, reorderArgs | the above |

What is hard in it, and where:

* **Concurrency and shutdown.** The MCP server runs a goroutine per request, a
  feeder for stdin, a goroutine that waits for SIGINT; all share one engine.
  Stdin may end before a reply is written; a timeout may meet an answer; SIGINT
  may come at any point.
* **Failure in the middle.** A cursor may fail after part of the rows were read, of
  a result or of a catalog; the comment queries of a scan are best effort.  The boot
  of the engine may fail after part of the sources were attached.
* **Processes.** Every command is a process; they share the Google secret on disk,
  which one may replace, or leave half made, while another boots.
* **Order.** The walkers range over protobuf messages, whose order is not
  specified, and over Go maps.  Policy overrides are written to one map, list
  after list.  Two walkers change one tree.
* **Scope and shape of SQL.** Tables occur wrapped in a Node or directly in a
  statement, in fields listed by hand in each walker; CTE names have scopes.
* **Boundaries.** The row limit, the character limit and a binary search.

What makes each part correct:

* result building: a success is complete up to the row limit, is the longest
  prefix that fits, and says so when rows are missing; it always terminates;
* policy: raising a level never takes a grant away; denial wins; a schema
  replaces its catalog's settings; the listing order is without effect;
* validation: the verdict is exact, in both modes;
* preprocessing: a table reaches the engine resolved, unless a CTE shares its name or
  a DROP names it; a write that the validator classifies is permitted; every rewritable
  reference is rewritten by its own source, nothing else changes, whatever the order of
  the walk;
* configuration: the verdict depends on the document only, not on the order of its
  maps;
* boot: an engine that is returned serves every source, a boot that fails leaves
  nothing open, a completed sign-in reaches every later boot, only a sheet that needs
  it makes a boot wait for a user, and `auth` refuses exactly where none does;
* semantic context: every table and column of the catalogs, once, whatever fails or
  is laid over it; no comment of another table; the last file that sets a value wins;
* command line: wherever the flags are written, what was meant runs, or nothing;
* server: each request is answered once unless the operator interrupts, a refused
  query is never answered with data, no cursor outlives its handler, SIGINT ends
  the process.

## Modules

| Module | Models | Extends |
|---|---|---|
| `ResultLimits` | BuildQueryResult, truncateToFit, a failing cursor | |
| `ResultLimits_proofs` | theorems about ResultLimits | ResultLimits, TLAPS |
| `AccessPolicy` | the policy as operators (no state) | |
| `PolicyValidation` | ParsePolicy then Validate, as a machine | AccessPolicy |
| `PolicyValidation_proofs` | theorems about the policy and Validate | PolicyValidation, TLAPS |
| `SqlAst` | the parse tree, as far as the walkers tell nodes apart | |
| `Preprocess` | PreprocessQuery with every walker as a phase | SqlAst, AccessPolicy |
| `Preprocess_proofs` | theorems about PreprocessQuery and its walkers | Preprocess, TLAPS |
| `QueryService` | abstract: what the server promises its client | |
| `McpServer` | transports, feeder, tool handlers, shutdown | INSTANCE of QueryService |
| `McpServer_proofs` | theorems about McpServer | McpServer, TLAPS |
| `Config` | the configuration and what is asked of its parts (no state) | |
| `ConfigParse` | ParseConfig's two loops, in any order | Config |
| `EngineService` | abstract: what booting promises a command | |
| `EngineBoot` | New, Close and the auth command, as processes | Config, INSTANCE of EngineService |
| `Startup` | commands from their configuration to their engine | ConfigParse, INSTANCE of EngineBoot |
| `Startup_proofs` | theorems about ParseConfig, the boot and both | Startup, TLAPS |
| `SemanticScan` | AutoScanProvider and the scanners | |
| `SemanticOverlay` | OverlayProvider and applyOverlay | |
| `SemanticContext` | the scan, then the overlays | INSTANCE of both |
| `SemanticContext_proofs` | theorems about the semantic model | SemanticContext, SegmentLemmas |
| `CliArgs` | reorderArgs, flag parsing, resolveConfigData | |
| `CliArgs_proofs` | theorems about CliArgs | CliArgs, SegmentLemmas |
| `SegmentLemmas` | lemmas about concatenations and loops | TLAPS |
| `MC*` | the constants of the runs | the module they check |

An operator named `Op_Suffix` just before `Op` is a plausible bug in the code that
`Op` models; no specification uses it.  `PROJECT.json` pairs each property with
the one that violates it.

### ResultLimits

`pc` is where BuildQueryResult is: `columns`, the row loop (`next`, `scan`), `err`
(the test of rows.Err), `encode`, `search` (truncateToFit) and `done`.  A row's
content only matters through lengths: `body[k]` is the length of the JSON with the
first `k` rows, any monotone function; the fields `truncated` and `message` are
accounted for by `NoteLen`.  `badRow` is the first row that json.Marshal rejects (a
NaN), if any.  `CursorFails` is the environment: the context ends or the driver
reports an error, at any time while the cursor is open.

### AccessPolicy, PolicyValidation

A policy is a sequence of catalog permissions; `resolve`'s map assignments are
`OverrideSteps`, in program order, and `Lookup` takes the last one that names the
table, as a map does.  `PolicyValidation` chooses a document, accepts it or not
(`ParsePolicy`), then runs the loop of `Validate` in either mode.  The properties
about policies are stated for accepted documents, over all `Probes`.  `Policies` and
`Accesses` are the Go types: the shape that json.Unmarshal gives a document and that
extractAccesses gives a list, whatever the strings in them say.

### SqlAst, Preprocess

A tree is a sequence of nodes numbered parent first.  A recursive walker is a phase
with a worklist (`todo`): one step visits one node of it, so every order in which
protobuf's Range may deliver the fields is a behaviour.  The phases follow
PreprocessQuery: `extract`, the 3-part test, `access` (only with a validator: the
walkers of validate.go, in a top-level and a reading mode), the policy's verdict,
`plan`, `replace`, `rename`, `colref`, `deparse`.  The two rewriting walkers change
`ast` in place; `statement` keeps the original for the properties.  A walker of
Preprocess may also fail to parse or to deparse.

File sources are of three kinds here: attached (PostgreSQL, MySQL, SQLite, DuckDB),
renamed (files and S3) and replaced by a function call (`.xlsx` files and sheets).

`WellFormed` is what the walkers rely on pg_query for: parents come before their
children, a RangeVar and a column reference are leaves, the fields that hold a table
by its type hold one, and TRUNCATE, ALTER, CREATE INDEX and DROP have no WITH.

The kind `create` stands for CREATE TABLE, CREATE TABLE AS and CREATE VIEW (the new
table is its `relation`, the query its field), `into` for the IntoClause of a SELECT
INTO; `cmd` is the type of object a DROP removes.  COPY, GRANT, COMMENT and the like
are not told apart from other statements without an operation: they are read, field by
field, like `create`.

### McpServer, QueryService

`stage[r]` follows a request: unsent, sent (in stdin or the pipe), accepted (its
handler runs), query, build, replying, answered or dropped.  `AnswerContext` is the
other tool, get_semantic_context, which returns a text made before the server runs.  `FeederCopies`,
`FeederSeesEof` and `FeederClosesPipe` are the goroutine of mcp.go:75-80; the pipe
is unbuffered.  `Check` is the handler up to PreprocessQuery's verdict (abstracted
to the request's `kind`), `QuerySucceeds`/`QueryFails` and
`BuildSucceeds`/`BuildFails` the rest of it; `Reply` closes the rows as the
deferred call does.  `SendReply` is the SDK's write, which is refused once the read
side of the transport is closed.  On http RunMCP starts in `binding`: `Listen` binds
the address, or `ListenFails` and os.Exit skips engine.Close; that a bound listener
breaks later is left out.  `RunFails`, `RunReturns`, `HttpServerClose`,
`ListenReturns`, `CloseEngine` and `Exit` are the ways RunMCP ends: on stdio with
an error os.Exit skips the deferred engine.Close, on http the engine is closed
while handlers may still run, and then their queries fail.

`QueryService` has three steps, ask, answer and interrupt, and one fairness
condition: while nobody interrupts, a pending request is answered.  McpServer
implements it under a refinement mapping that hides all of the server's state but
the answer (`ServiceSpec`).

### Config, ConfigParse

`unread` holds the keys that the current loop of ParseConfig has not visited; as Go
ranges over a map in any order, `CheckCredential` and `CheckSource` take any of
them.  `s3Profile`, `sheetProfile` and `sheetSeen` are the variables the second loop
carries.  A field is blank or not; `Padding` has the strings TrimSpace changes, as
one check trims a profile and another does not.  `Acceptable` in `Config` is what
the verdict should be, without loops.

### EngineBoot, EngineService, Startup

Each process runs one command after another: one that needs an engine (`New`), or
`auth`.  `pc[p]` follows the statements of New (`extensions`, `s3`, `gsheet`, `oauth`,
`attach`, `validate`), `todo[p]` the keys its loop has left, in sorted order.
`session[p]` is its in-memory DuckDB: the extensions loaded, the one S3 region and
profile, the way sheets are authorised, what is attached.  `disk` is all that
outlives a process: the persisted secret, as the number of the sign-in that made it.
`StatementFails` fails any statement; `Exit` ends a process at any point; a sign-in
that is aborted may leave a secret that does not work (`AbortSignIn`, what
engine.go:199-201 warns of).

`EngineService` knows four things of a process: its phase, the sources it serves and
whether it holds a database.  `Served` maps a session to the sources a query could
read through it, under their own credentials, so the refinement is where ParseConfig
matters: one S3 profile and one sheet profile serve all the sources only because
ParseConfig rejects documents with two.  `Startup` composes the two: the document is
parsed in every order, and commands run with what is accepted.

### SemanticScan, SemanticOverlay, SemanticContext

The scan reads the columns of a source one by one (`ReadColumn`), groups them by
table in the order of their first column, reads the comments of PostgreSQL and MySQL
(`ReadComment`, in any order) and builds the datasets.  `ColumnsFail` may occur at
any row and ends the scan; `CommentsEnd` may occur at any row and does not.  A comment
query that breaks off is used as far as it got, a cursor never.  An identifier is a sequence of parts, so that joining names by dots is concatenation.

The overlay keeps Go's slices as references into `heap`: `applyOverlay` promises not
to modify its inputs, and a write through a shared array would do so unseen.
Descriptions, keys and the like are attributes that a layer sets or leaves unset.
`SemanticContext` hands the scan's result over, as RunScanContext and RunMCP do.

### CliArgs

An invocation is what the user means; a token sequence is a way to write it, with
the query before, between or behind the flags.  `Reorder` is one iteration of
reorderArgs, `ParseFlag` the flag package, which is external, and
`ResolveConfigData` the choice of the configuration.

## Runs

| Run | Instance | Shows |
|---|---|---|
| `result_limits` | MaxRows 4, sources of 0 to 6 rows, MaxChars 8 with headers of 1 to 9 bytes and rows of 1 or 2 | the outcome properties and termination |
| `policy` | up to two catalogs and two schemas, every kind of override, absent, inherited and malformed fields | the policy's algebra, the verdict of both modes |
| `preprocess` | 1775 statements: each statement kind, each of its fields, each fragment in it, and hand-written mixtures; no policy, the read-only policy, a mixed one | what reaches the engine |
| `mcp_server` | two requests, both transports, every kind of request | the refinement, cursors, liveness |
| `startup` | 12 documents that are booted by two processes with two sign-ins, and some 900 that are only parsed, with up to three sources | the verdict, the refinement, the shared secret, liveness |
| `semantic_context` | one or two sources, up to two files of the configuration and one of the flags | what a model holds after failures and overlays |
| `cli_args` | every command with up to three flags, the query anywhere | what is meant is what runs |

The bounds are enough for the cases that matter.  In `result_limits` the source is
shorter than, equal to and longer than the row limit, and the character limit falls
inside the header, between any two rows, or after the last.  In `policy` two
entries are the fewest that can be duplicates, or name one table twice.  In
`preprocess` a fragment is deep enough for each walker to go through the statement,
its field, a nested statement and its field.  In `mcp_server` two requests are the
fewest that share the pipe, the engine and the shutdown.  In `startup` three sources are the
fewest with one between two that disagree, and two processes with two sign-ins the
fewest where one finds, replaces or spoils what the other made.  In
`semantic_context` the sources hold tables of one name in two schemas and in two
catalogs, and three layers are the fewest where the last word is neither the first
nor the nearest.  Runs whose specification stops at a result have CHECK_DEADLOCK
FALSE.

Five runs show where a comment or a document says more than the code does; the
property is named in the run and the line quoted in `findings`:

| Run | The code |
|---|---|
| `policy_denied` | a granular override reopens a denied table |
| `preprocess_accesses` | fields no access walker descends into (ORDER BY, GROUP BY, SET, RETURNING, a set operation's WITH, a MERGE condition) |
| `preprocess_resolution` | CTE names are global, so a table of that name elsewhere is not extracted; the objects of a DROP are no table references: neither need be qualified or configured |
| `preprocess_ddl` | CREATE TABLE, CREATE TABLE AS, CREATE VIEW, SELECT INTO and DROP VIEW have no operation, so ReadOnlyPolicy does not deny them |
| `startup_regions` | one S3 region is set for the session, that of any S3 source |

TLC stops at the first counterexample of `preprocess_resolution`; its conjuncts
`RealTablesResolved` and `DroppedTablesResolved` are refuted each on its own as well.

The models hold further such places; the passing properties say what the code does
commit to instead:

* A result whose columns alone exceed the character limit is returned over it, with
  no rows and flagged as truncated (result.go:115; mcpserver/README.md:118):
  `LongestPrefix` and `TruncationReported` let that one case through.
* A column reference by a renamed table alone, `tbl.col`, keeps the old name, as the
  prefix is recorded with the schema (rename.go:97; the comment at rename.go:22 names
  `tbl.col` among those that are updated): `ColumnRefsFollowSchema` excepts it.
* A sheet's profile with blanks around it is validated trimmed and looked up as
  written, so the boot falls back to a browser sign-in (config.go:203, engine.go:175;
  specs/config_schema.md:90): `ProfileOk`, `KeyFileOf`.  `AuthMatchesBoot` holds all the
  same, as `auth` looks it up as the boot does.
* A write target that is a sheet is not replaced (replace.go:133; replace.go:18 says
  every RangeVar): `SourcesRewritten` excepts direct targets.
* `sheet_name` of an `.xlsx` file is not used by queries (preprocess.go:74;
  specs/config_schema.md:74): `FunctionCall`.
* The reference configuration of specs/config_schema.md:189 has two sheets with
  different profiles, which ParseConfig rejects (config.go:160): `ProfilesAgree`.
* No key of `databases` is checked (specs/config_schema.md:41).
* Names joined by dots may coincide when an identifier holds a dot (scanner.go:90);
  the instance has none (`Undotted`).
* Relationships of one name are kept side by side, and the columns of an overlay's
  keys are not looked up (overlay.go:163, :113; specs/semantic_context_layering.md:25).
* A query that starts with a `--` comment is taken for a flag (common.go:30): `Valid`
  excepts it.

The passing properties beside those runs say no more than the code keeps:

* `UnresolvedOnlyIfExempt` is about all RangeVars and the objects of DROP TABLE.  What
  is not a 3-part name in a configured catalog has an unqualified name that a CTE of
  the parse shares, or is dropped; with a policy, `DROP TABLE` must then be granted for
  the name as it is written.
* `ClassifiedWritesPermitted` is about the statements walkTopLevel has an operation for
  (INSERT, UPDATE, DELETE, MERGE, TRUNCATE, ALTER TABLE, CREATE INDEX, DROP TABLE, DROP
  INDEX), at the top level and, for the first three, in the WITH of a plain statement.
  A write elsewhere is not classified, for the reason `preprocess_accesses` shows; nor
  are the statements of `preprocess_ddl`, whose targets are `UnclassifiedWrites`.
* `ColumnRefsFollowSchema` demands that a reference by schema and table follows, that
  one which names no renamed table stays, and nothing of one by the table alone.

### Fairness

`ResultLimits` is a sequential function: weak fairness on its steps.  The cursor
owes nothing.  In `McpServer` the goroutines of the process are scheduled (weak
fairness for the feeder, the SDK's read, each handler's check and reply, and the
shutdown), timers fire (`ContextEnds`), and a query whose context has ended returns,
because the driver interrupts it (`Interrupted`).  A query that runs owes nothing:
it is the 55 s timeout that makes every request end.  The client is not fair.

In `Startup` a statement of the boot returns, with or without an error: weak fairness
of each process's own steps.  The user who is asked to sign in owes nothing, and no
process has to start, end or fail.

## Proofs

`ResultLimits_proofs` proves, for every MaxRows and MaxChars, every number of rows
and every monotone encoding, the safety properties of the run.  The properties
alone are not inductive: that the prefix is the longest one follows from where the
search stands (`SearchBrackets`), which follows from what the row loop has collected
(`LoopInv`).  Their conjunction `Inv` is inductive (`NextInv`, one step per
action).  The search rests on three lemmas: `FitsMonotone` (a shorter candidate of
one that fits, fits), `NoteGrows` (a result that fits with the longer message fits
with the shorter one, so the search never starts from a result that fits) and
`MiddleBetween` (the probe is strictly above lo and at most hi).  The assumptions
are those of the module: the limits are naturals, MaxRows is positive, an encoding
with more rows is not shorter, and the messages are longer than nothing.

`McpServer_proofs` proves, for every set of requests, that no cursor outlives its
handler (`CursorsAreReleased`), that no request on its way through stdin is lost or
handled twice (`RequestsAreKept`), and that every step of the server is a step of
`QueryService` or one its client does not see (`ImplementsService`: the safety half
of `ServiceSpec`).  It assumes nothing of `Requests`, not even that it is finite.
The inductive invariant `Inv` adds two facts to the properties of the run.
`PassedOnce` (no request is twice in stdin, nor in stdin and in the pipe) is needed
for `NoRequestLost`: without it the copy that stays behind would outlive the
request's acceptance.  `AnswersReady` (a handler that is done has an answer, and a
request to refuse is never past Check) is what makes SendReply a step `Answer` of
the service.  One lemma per group of actions shows that it is kept (`SendInv`,
`FeederInv`, `ReadsInv`, `QuietInv`, `HandlerInv`), and one per group shows what the
client sees of it (`SendRefines`, `ReplyRefines`, `InterruptRefines`, and
`QuietRefines`, `ReadsRefine`, `HandlerRefines` for the hidden steps).

`Startup_proofs` proves of `ConfigParse`, for documents of any size and any profiles, that the
verdict of ParseConfig depends on the document only (`OrderDoesNotMatter`): it is
`Acceptable`, whatever the order of the two loops.  The verdict alone is not
inductive; `Inv` adds what has been visited so far is valid (`VisitedAreOk`) and that
the remembered profile is that of every source visited, and of at least one
(`ProfilesRemembered`).  The empty string stands for "no profile yet" of S3, and is a
legal profile of a sheet: the proof is where the assumption on `Padding` is needed,
that a trimmed string is not trimmed further, and `""` not at all, so that a valid S3
profile is never `""`.

It proves the same of the whole startup, and of the boots that follow, for any set of documents, environments and processes and any number of sign-ins:

* an accepted configuration is acceptable in whatever order it was parsed
  (`ParsedInAnyOrder`): a step of an engine is a stutter of the parser, so the
  invariant of the parser holds of the composition;
* an engine started after a completed sign-in has the secret of that sign-in or of a
  later one (`SignInIsSeen`);
* booting implements `EngineService` (`NewImplementsService`, the whole of
  `ServiceSpec`, which states no fairness).

The properties are not inductive.  `BootInv` adds, for each process, what the session
has configured by the place New has reached (`Configured`), where the loop over the
sources is (`Looping`: what is active or still to do is every source, and what is
active and needs it is attached), that a session closed is as it was before it was
opened (`Shape`), and that a secret in use is at least as new as the start of the
command (`Recent`); `Disk` says that what is persisted is at least as new as the last
completed sign-in.  `Configured` holds only of an acceptable configuration: one S3
source and one sheet speak for all because ParseConfig asks for one profile of each
kind.  That is why the proof is about `Startup`, with the parser's invariant, and not
about `EngineBoot` alone.  A lemma per operation (`LoadKeeps`, `S3Keeps`, ...) shows
that it leaves its own process in order; `OnlyInv` that the others are not disturbed;
`Moves`, that no step skips a phase of the service, and `ReadyServesAll` make each
step one of the service.  The proof assumes of the documents that keys are naturals
(`KeysAssumption`), so that the loop over the sorted keys has a next one.

`Startup_proofs` also proves that `auth` agrees with the boots (`AuthAgreesWithBoot`):
where it refuses, no boot asks for a sign-in or uses one, and where it does not, no
boot uses a key file and every engine that is returned uses a sign-in.
`auth` looks at all the sheets, the boot at the first of a map: `Asks` says that a
process that waits for a user, or whose session is authorised by one, has a sheet
without a key file, and that a process that was refused, or uses a key file, has none.
The second direction rests on ParseConfig: with one profile for all sheets, the first
sheet's key file is that of all (`KeyedSheets`), and `Configured` says that an engine
that is returned uses what its sheets ask for (`NeededIsUsed`).  `StartupTypeCorrect` needs `Pending` (a key is
to do or done, not both) and `MaxLogins` a natural (`LoginsAssumption`).

`PolicyValidation_proofs` proves, for policies of any length, with any number of
overrides, and accesses of any number:

* the verdict of both modes is exact (`ExactVerdict`).  `Reported` says what has been
  reported after each access, in each mode, and `Stages` what is known when Validate
  has returned; neither the verdict nor the types are inductive without them;
* what the parts of a policy may do to each other (`AnyOrder`, `RaisingIsMonotone`,
  `SchemaIsCutOff`, `DeniedIsClosed`).  The machine adds little here, the operators all:
  the document is the parsed one (`Invariance`), and lemmas show that an accepted
  policy, whose names are unique, is a function from names to permissions
  (`LookupFinds`, `LookupMisses`, and the same inside a catalog), so that positions in
  the lists do not matter, and that the last override naming a table exists and is
  what lookup finds.

The assumptions are the shapes (`DocumentsAssumption`, `AccessesAssumption`,
`ProbesAssumption`); nothing is assumed of what the strings say.

`Preprocess_proofs` proves all eight properties of the run `preprocess`, for statements of any
size and shape, any configuration and any policy.  The walkers visit nodes in any
order, so each has an invariant about the set of nodes it has seen:

* `Covers(seen, todo)` is common to all: a node waits or was seen, never both, and
  was reached from its parent.  `WalkEnds` draws the consequence, that a walk whose
  worklist is empty has seen every node: the least node missed would have a parent
  that was seen.  The walk of the accesses is in two modes and need not see
  all (`AccessCovers`, over pairs of node and mode).
* `ExtractInv`: what Extract has collected is that of the nodes seen, so at the end
  `ExtractExact`.  `Shape` says that the rewriting changes the nodes' contents, not the
  tree.
* `AccessInv`: each access has a reason in the tree (`Justified`), and each write
  target of what was seen, in a statement of a kind that is classified, is among them
  (`AccessesOf`), so that fail-fast validation finds the one the policy refuses.
  `ClassifiedPermitted` claims this much and no more, and `UnresolvedIsExempt` uses it
  for the one exit from name resolution that a policy guards, DROP TABLE.
* `PlanInv`: each reference of the plan's loop is dealt with (`InPlan`), and what the plans hold
  are qualified names of their kinds of source (`Known`), so that no table is in both
  plans.
* `TreeInv`: each node is what it was or as `Rewritten` says, by the walkers that have
  seen it; `Recorded` says the same of the column prefixes.  The walkers work on the
  tree the earlier ones changed: `TreeIsKept` shows that what a later walker tests
  (parents, slots, CTE names) is as the parser left it.

It assumes `WellFormed` statements and a type for each configured catalog.  The
properties about the rewriting hold because a replaced table is never in the other
plan and no replaced or renamed name is a CTE: the names of CTEs are not qualified.

`CliArgs_proofs` proves both properties of the command line, for any number of flags
and any place of the query.  A command line is a concatenation of pieces, one per
flag, so `Segment(s, m, n)` (the pieces behind the m-th up to the n-th) is what the
invariant speaks in: while reorderArgs runs, m flags are sorted and the query, written
behind the n-th, is still to come (`BeforeQuery`) or was met (`BehindQuery`); while
the flags are parsed, m of them have been read, each flag holds the values of the
first m, and what is left is `Rest(m, n)` (`Parsing`).  A query that starts with a dash
stays among the flags, and `AtQuery` shows that it ends the command there.  It assumes that an invocation has a query only for `query`, that a value
which starts with a dash is written behind an `=` (`InvocationsAssumption`;
reorderArgs takes any other dash for a flag), and that no flag's name, which is
without its dashes, starts with one (`DashedAssumption`).

`SemanticContext_proofs` proves all six properties of the semantic model, for any
number of sources, tables, columns and comments, and of files, layers and metrics.

* The scan.  `Scanning(k)` says that k is the source at hand: the datasets so far are
  those of the sources before it (`Found`), and while it is read the tables and groups
  are those of the first `read` columns (`Grouped`), and what the comment queries have
  delivered are rows of this very source (`CommentsRead`).  `IsFor` ties a dataset to
  the entry of `ExpectedAll` it stands for.  `ModelMatchesCatalog` and
  `CommentsAreTrue` speak of a finished scan only, so this is what carries them there.
* The overlays.  `Overlaid(base, h, m, layers)` says that the model m, with its arrays
  in the heap h, is what the layers applied so far make of the scanned model: names in
  their places (`SameShape`), each attribute that of the last layer that sets it
  (`Enriched`), one metric of each name, the last (`LatestOf`).  `HeapIs` says that no
  two datasets share their fields, without which enriching one would change another.
  applyOverlay loops over datasets, over the fields of each, and over metrics.  A lemma
  about one turn (`FieldsMergedOne`, `DatasetsMergedOne`, `LatestOne`), one that adds a
  turn (`FieldsMergedTwice`, `DatasetsMergedTwice`) and `Loop` give each loop
  (`FieldsMergedAll`, `DatasetsMergedAll`, `LatestAll`), and `OverlayOnce` the operation.  `ValueConcat` is the step the loops rest on: the last
  of x followed by y that sets an attribute is that of y, or else that of x.
* `Grown`, what a call does to the heap, is the action property
  `ArraysKeepTheirItems`.

`TypeOK`, `ModelMatchesCatalog`, `MetricsAreLatest` and `ArraysKeepTheirItems` hold
for all catalogs and files of the assumed shapes.  `CommentsAreTrue` and
`LaterFileWins` are proved when no identifier has a dot in it (`Undotted`, which the
instance satisfies): the code joins names by dots and looks comments and datasets up by the
joined name, so that with dots one table may get the comment of another, or an overlay
may set the wrong one of two (scanner.go:90).  `NamesDiffer` and `JoinedThree` are where
it is used.  What is assumed of every input: the keys of a configuration are
distinct, a source lists a column of a table once, a file, a bucket or a sheet has one
table, named by its key (`SourcesAssumption`), and what a file holds is lists, of
anything (`FilesAssumption`).

`SegmentLemmas` holds what both of these need: `Segment(s, m, n)` is the concatenation
of some of a sequence of sequences.  What `FlattenSeq` computes is shown by the least
index at which it would compute something else (`LeastNat`, `FlattensExist`,
`FlattenSeqIs`), from which segments are joined, extended at the end and taken apart at
the front (`SegmentJoin`, `SegmentLast`, `SegmentFirst`).  `Loop` is induction over the
turns of a loop, as a fact about a set of numbers.

`McpServer_proofs` and `ResultLimits_proofs` also state their types (`TypeCorrect`).

Every safety property and action property of a passing run is a theorem, and so are
the refinement of `EngineService` and the safety half of that of `QueryService`.  Only
model-checked: termination and the other liveness properties (`Terminates`,
`AnsweredAfterEof`, `ShutdownCompletes`, `UnattendedBootSettles`; fairness is out of
the prover's reach), and the fairness part of the server's refinement.

## Not modelled

* `main.go`'s dispatch, `help`, `version` and `license`, which only print, and the
  exit of `mcp` on an unknown transport.
* The text of messages, the JSON and YAML conversions, the values of result cells,
  expressions and data types of fields.
* On the command line the bare `-` and `--`, and an `=` inside a query that starts
  with a dash.
* The installers, the Makefile, the skill's documents and its third-party validator.

The parser, DuckDB and its extensions, database/sql, the flag package, the MCP SDK,
the client and the user who signs in appear only as the code uses them.

## Plan

Done: ResultLimits, AccessPolicy and PolicyValidation, SqlAst and Preprocess,
McpServer and QueryService, Config and ConfigParse, EngineBoot and EngineService,
Startup, SemanticScan, SemanticOverlay, SemanticContext, CliArgs; proofs of every
safety property of the runs.

What would come next: the semantic context of identifiers with dots, once the code
quotes the parts of a name, and the fields of `preprocess_accesses`, once the walkers
enter them.
