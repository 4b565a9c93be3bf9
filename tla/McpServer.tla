----------------------------- MODULE McpServer -----------------------------
(***************************************************************************)
(* The MCP server: RunMCP's two transports (cmd/mcp.go) and the handlers   *)
(* of the query tool and of get_semantic_context (mcpserver/handler.go),   *)
(* run by one goroutine per request against the shared query engine.       *)
(*                                                                         *)
(* stdio: requests go from stdin through an io.Pipe, filled by a feeder    *)
(* goroutine that keeps the pipe open after the end of stdin.  http: each  *)
(* request comes on a connection of its own.  The SDK's dispatch and       *)
(* replies, the engine's query and the client are external.                *)
(***************************************************************************)
EXTENDS Sequences

CONSTANT Requests

VARIABLES
  transport,    \* input: stdio or http
  kind,         \* input, of each request: empty, refused or valid SQL, or a call of
                \* get_semantic_context
  stage,        \* of each request: where it is
  answer,       \* of each request: what the handler has to say, or none
  expired,      \* the requests whose context has ended (timeout or cancelled)
  openRows,     \* the requests that hold an open *sql.Rows
  stdin,        \* the requests written to stdin that the feeder has not read
  stdinClosed,  \* the client has closed stdin
  feeder,       \* the feeder goroutine: copy, wait or closed
  pipe,         \* the request being passed through the unbuffered io.Pipe
  interrupted,  \* SIGINT: signal.NotifyContext's ctx is done
  accepting,    \* the read side of the transport is open
  main,         \* RunMCP: binding (http), serving, returned (its defers are left), exited
  engineOpen    \* the engine has not been closed

input  == <<transport, kind>>
stdio  == <<stdin, stdinClosed, feeder, pipe>>
server == <<interrupted, accepting, main, engineOpen>>
calls  == <<stage, answer, expired, openRows>>
vars   == <<input, stdio, server, calls>>

Kinds == {"empty", "refused", "valid", "context"}

Init == /\ transport \in {"stdio", "http"}
        /\ kind \in [Requests -> Kinds]
        /\ stage = [r \in Requests |-> "unsent"]
        /\ answer = [r \in Requests |-> "none"]
        /\ expired = {} /\ openRows = {}
        /\ stdin = <<>> /\ stdinClosed = FALSE /\ feeder = "copy" /\ pipe = {}
        /\ interrupted = FALSE /\ engineOpen = TRUE
        /\ IF transport = "stdio" THEN main = "serving" /\ accepting = TRUE
                                  ELSE main = "binding" /\ accepting = FALSE

\* Goroutines run until the process exits.
Running == main # "exited"

-----------------------------------------------------------------------------
(* The client.                                                             *)

Send(r) ==
  /\ Running /\ stage[r] = "unsent" /\ ~stdinClosed
  /\ IF transport = "stdio"
       THEN stdin' = Append(stdin, r) /\ stage' = [stage EXCEPT ![r] = "sent"]
       ELSE accepting /\ stage' = [stage EXCEPT ![r] = "accepted"] /\ UNCHANGED stdin
  /\ UNCHANGED <<input, stdinClosed, feeder, pipe, server, answer, expired, openRows>>

CloseStdin ==
  /\ transport = "stdio" /\ ~stdinClosed
  /\ stdinClosed' = TRUE
  /\ UNCHANGED <<input, stdin, feeder, pipe, server, calls>>

Interrupt ==
  /\ Running /\ ~interrupted
  /\ interrupted' = TRUE
  /\ UNCHANGED <<input, stdio, accepting, main, engineOpen, calls>>

-----------------------------------------------------------------------------
(* The feeder goroutine of the stdio transport.                            *)

Feeding == transport = "stdio" /\ Running

\* Mutants of FeederCopies: the pipe takes a request before the last one is read,
\* beside it or in its place.
FeederCopies_Buffered ==
  /\ Feeding /\ feeder = "copy" /\ stdin # <<>>
  /\ pipe' = pipe \cup {Head(stdin)} /\ stdin' = Tail(stdin)
  /\ UNCHANGED <<input, stdinClosed, feeder, server, calls>>
FeederCopies_Overwrites ==
  /\ Feeding /\ feeder = "copy" /\ stdin # <<>>
  /\ pipe' = {Head(stdin)} /\ stdin' = Tail(stdin)
  /\ UNCHANGED <<input, stdinClosed, feeder, server, calls>>

\* io.Copy moves one request; the write blocks until the pipe is read.
FeederCopies ==
  /\ Feeding /\ feeder = "copy" /\ stdin # <<>> /\ pipe = {}
  /\ pipe' = {Head(stdin)} /\ stdin' = Tail(stdin)
  /\ UNCHANGED <<input, stdinClosed, feeder, server, calls>>

\* io.Copy returns at the end of stdin; the goroutine waits for ctx.Done.
FeederSeesEof ==
  /\ Feeding /\ feeder = "copy" /\ stdinClosed /\ stdin = <<>> /\ pipe = {}
  /\ feeder' = "wait"
  /\ UNCHANGED <<input, stdin, stdinClosed, pipe, server, calls>>

\* Mutant of FeederClosesPipe: the write end is closed as soon as stdin ends.
FeederClosesPipe_AtEof ==
  /\ Feeding /\ feeder = "wait"
  /\ feeder' = "closed" /\ accepting' = FALSE
  /\ UNCHANGED <<input, stdin, stdinClosed, pipe, interrupted, main, engineOpen, calls>>

\* pw.Close: the server reads EOF, and the SDK rejects every write from then on.
FeederClosesPipe ==
  /\ Feeding /\ feeder = "wait" /\ interrupted
  /\ feeder' = "closed" /\ accepting' = FALSE
  /\ UNCHANGED <<input, stdin, stdinClosed, pipe, interrupted, main, engineOpen, calls>>

\* The SDK reads a request from the pipe and starts its handler.
ServerReads ==
  /\ Feeding /\ main = "serving" /\ pipe # {}
  /\ pipe' = {}
  /\ stage' = [r \in Requests |-> IF r \in pipe THEN "accepted" ELSE stage[r]]
  /\ UNCHANGED <<input, stdin, stdinClosed, feeder, server, answer, expired, openRows>>

-----------------------------------------------------------------------------
(* makeQueryHandler.                                                       *)

\* Mutant of Reply: the deferred rows.Close is missing.
Reply_KeepsRows(r, a) ==
  /\ stage' = [stage EXCEPT ![r] = "replying"]
  /\ answer' = [answer EXCEPT ![r] = a]
  /\ UNCHANGED openRows

\* The handler is done with r; its defers close the rows it has opened.
Reply(r, a) ==
  /\ stage' = [stage EXCEPT ![r] = "replying"]
  /\ answer' = [answer EXCEPT ![r] = a]
  /\ openRows' = openRows \ {r}

\* Mutant of Check: PreprocessQuery's error is not returned.
Check_IgnoresRefusal(r) ==
  /\ Running /\ stage[r] = "accepted" /\ kind[r] # "context"
  /\ IF kind[r] = "empty"
       THEN Reply(r, "error")
       ELSE stage' = [stage EXCEPT ![r] = "query"] /\ UNCHANGED <<answer, openRows>>
  /\ UNCHANGED <<input, stdio, server, expired>>

\* The empty SQL and PreprocessQuery's refusals never reach the engine.
Check(r) ==
  /\ Running /\ stage[r] = "accepted" /\ kind[r] # "context"
  /\ IF kind[r] # "valid"
       THEN Reply(r, "error")
       ELSE stage' = [stage EXCEPT ![r] = "query"] /\ UNCHANGED <<answer, openRows>>
  /\ UNCHANGED <<input, stdio, server, expired>>

\* The YAML was made when the server was built: no engine, no context, no failure.
AnswerContext(r) ==
  /\ Running /\ stage[r] = "accepted" /\ kind[r] = "context"
  /\ Reply(r, "result")
  /\ UNCHANGED <<input, stdio, server, expired>>

\* engine.Query returns rows.
QuerySucceeds(r) ==
  /\ Running /\ stage[r] = "query" /\ engineOpen
  /\ stage' = [stage EXCEPT ![r] = "build"]
  /\ openRows' = openRows \cup {r}
  /\ UNCHANGED <<input, stdio, server, answer, expired>>

\* engine.Query fails: the database refuses the query, or is closed, or the context ended.
QueryFails(r) ==
  /\ Running /\ stage[r] = "query"
  /\ Reply(r, "error")
  /\ UNCHANGED <<input, stdio, server, expired>>

\* BuildQueryResult and MarshalResult succeed.
BuildSucceeds(r) ==
  /\ Running /\ stage[r] = "build"
  /\ Reply(r, "result")
  /\ UNCHANGED <<input, stdio, server, expired>>

\* BuildQueryResult fails (see ResultLimits): the cursor failed or the context ended.
BuildFails(r) ==
  /\ Running /\ stage[r] = "build"
  /\ Reply(r, "error")
  /\ UNCHANGED <<input, stdio, server, expired>>

\* The 55 s timeout of the query, or the end of the request's context.
ContextEnds(r) ==
  /\ Running /\ stage[r] \in {"query", "build"} /\ r \notin expired
  /\ expired' = expired \cup {r}
  /\ UNCHANGED <<input, stdio, server, stage, answer, openRows>>

\* The SDK writes the reply, or has to drop it.
SendReply(r) ==
  /\ Running /\ stage[r] = "replying"
  /\ stage' = [stage EXCEPT ![r] = IF accepting THEN "answered" ELSE "dropped"]
  /\ UNCHANGED <<input, stdio, server, answer, expired, openRows>>

-----------------------------------------------------------------------------
(* The listener of the http transport.                                     *)

\* ListenAndServe binds the address.
Listen ==
  /\ main = "binding"
  /\ main' = "serving" /\ accepting' = TRUE
  /\ UNCHANGED <<input, stdio, interrupted, engineOpen, calls>>

\* The address cannot be bound; os.Exit skips engine.Close.
ListenFails ==
  /\ main = "binding"
  /\ main' = "exited"
  /\ UNCHANGED <<input, stdio, interrupted, accepting, engineOpen, calls>>

-----------------------------------------------------------------------------
(* The end of RunMCP.                                                      *)

\* Mutant of RunFails: server.Run is not given ctx, only the end of its input stops it.
RunFails_Detached ==
  /\ transport = "stdio" /\ main = "serving" /\ interrupted /\ feeder = "closed"
  /\ main' = "exited"
  /\ UNCHANGED <<input, stdio, interrupted, accepting, engineOpen, calls>>

\* stdio: server.Run returns ctx's error; os.Exit skips engine.Close.
RunFails ==
  /\ transport = "stdio" /\ main = "serving" /\ interrupted
  /\ main' = "exited"
  /\ UNCHANGED <<input, stdio, interrupted, accepting, engineOpen, calls>>

\* stdio: server.Run returns because its peer is gone.
RunReturns ==
  /\ transport = "stdio" /\ main = "serving" /\ ~accepting
  /\ main' = "returned"
  /\ UNCHANGED <<input, stdio, interrupted, accepting, engineOpen, calls>>

\* http: the goroutine that waits for ctx closes the listener and its connections.
HttpServerClose ==
  /\ transport = "http" /\ Running /\ interrupted /\ accepting
  /\ accepting' = FALSE
  /\ UNCHANGED <<input, stdio, interrupted, main, engineOpen, calls>>

\* http: ListenAndServe returns ErrServerClosed at once, handlers or not; or the server
\* was closed before it listened.
ListenReturns ==
  /\ transport = "http"
  /\ \/ main = "serving" /\ ~accepting
     \/ main = "binding" /\ interrupted
  /\ main' = "returned"
  /\ UNCHANGED <<input, stdio, interrupted, accepting, engineOpen, calls>>

\* The deferred engine.Close, then the end of the process.
CloseEngine ==
  /\ main = "returned" /\ engineOpen
  /\ engineOpen' = FALSE
  /\ UNCHANGED <<input, stdio, interrupted, accepting, main, calls>>
Exit ==
  /\ main = "returned" /\ ~engineOpen
  /\ main' = "exited"
  /\ UNCHANGED <<input, stdio, interrupted, accepting, engineOpen, calls>>

-----------------------------------------------------------------------------
Client == CloseStdin \/ Interrupt \/ \E r \in Requests : Send(r)

Feeder == FeederCopies \/ FeederSeesEof \/ FeederClosesPipe

Engine(r) == QuerySucceeds(r) \/ QueryFails(r) \/ BuildSucceeds(r) \/ BuildFails(r)

Shutdown == RunFails \/ RunReturns \/ HttpServerClose \/ ListenReturns \/ CloseEngine \/ Exit

Next == \/ Client \/ Feeder \/ ServerReads \/ Listen \/ ListenFails \/ Shutdown
        \/ \E r \in Requests : Check(r) \/ AnswerContext(r) \/ Engine(r) \/ ContextEnds(r) \/ SendReply(r)

\* A query ends when its context does: the driver interrupts it.
Interrupted(r) == r \in expired /\ (QueryFails(r) \/ BuildFails(r))

\* The goroutines of the process are scheduled, timers fire and an interrupted
\* query returns.  The client owes nothing, and neither does a running query.
Fairness ==
  /\ WF_vars(Feeder) /\ WF_vars(ServerReads) /\ WF_vars(Shutdown)
  /\ \A r \in Requests : /\ WF_vars(Check(r)) /\ WF_vars(AnswerContext(r))
                         /\ WF_vars(SendReply(r))
                         /\ WF_vars(ContextEnds(r)) /\ WF_vars(Interrupted(r))

Spec == Init /\ [][Next]_vars
FairSpec == Spec /\ Fairness

-----------------------------------------------------------------------------
(* Properties.                                                             *)

Stages == {"unsent", "sent", "accepted", "query", "build", "replying", "answered", "dropped"}

TypeOK ==
  /\ transport \in {"stdio", "http"} /\ kind \in [Requests -> Kinds]
  /\ stage \in [Requests -> Stages] /\ answer \in [Requests -> {"none", "result", "error"}]
  /\ expired \subseteq Requests /\ openRows \subseteq Requests
  /\ stdin \in Seq(Requests) /\ stdinClosed \in BOOLEAN
  /\ feeder \in {"copy", "wait", "closed"} /\ pipe \in {{}} \cup {{r} : r \in Requests}
  /\ interrupted \in BOOLEAN /\ accepting \in BOOLEAN /\ engineOpen \in BOOLEAN
  /\ main \in {"binding", "serving", "returned", "exited"}

\* What the client sees of a request: a reply that is dropped never comes.
Seen(r) == CASE stage[r] = "unsent"   -> "idle"
             [] stage[r] = "answered" -> answer[r]
             [] OTHER                 -> "pending"

\* The server implements the service: see QueryService.
Service == INSTANCE QueryService WITH
  status  <- [r \in Requests |-> Seen(r)],
  refused <- {r \in Requests : kind[r] \in {"empty", "refused"}}
ServiceSpec == Service!Spec

\* A request that was sent is answered even if stdin is closed right behind it,
\* as long as nobody interrupts the server: what the pipe is for (mcp.go:65-73).
AnsweredAfterEof ==
  \A r \in Requests : stage[r] = "sent" ~> stage[r] = "answered" \/ interrupted

\* Rows are open exactly while their result is being built: no path out of the
\* handler, nor two of them at once, leaves a cursor on the shared engine.
RowsReleased == \A r \in Requests : r \in openRows <=> stage[r] = "build"

\* Each request is in one place: on its way through stdin and the pipe, or with
\* a handler, never lost nor handled twice.
NoRequestLost ==
  \A r \in Requests :
    stage[r] = "sent" <=> \/ r \in pipe
                          \/ \E i \in DOMAIN stdin : stdin[i] = r

\* What NoRequestLost rests on: no request is twice in stdin, nor in stdin and the pipe.
PassedOnce ==
  /\ \A i, j \in DOMAIN stdin : stdin[i] = stdin[j] => i = j
  /\ \A i \in DOMAIN stdin : stdin[i] \notin pipe

\* What ServiceSpec rests on: a handler that is done has something to say, and a
\* query that is refused never gets past Check.
AnswersReady ==
  \A r \in Requests :
    /\ stage[r] \in {"replying", "answered", "dropped"} => answer[r] # "none"
    /\ kind[r] \in {"empty", "refused"} =>
         stage[r] \notin {"query", "build"} /\ answer[r] # "result"

Inv == TypeOK /\ RowsReleased /\ NoRequestLost /\ PassedOnce /\ AnswersReady

\* SIGINT ends the process, whatever the queries are doing.
ShutdownCompletes == interrupted ~> main = "exited"
=============================================================================
