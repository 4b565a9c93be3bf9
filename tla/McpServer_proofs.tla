-------------------------- MODULE McpServer_proofs --------------------------
(***************************************************************************)
(* For every number of requests: no request is lost or handled twice, no   *)
(* cursor outlives its handler, and every step of the server is a step of  *)
(* QueryService or hidden from its client.                                 *)
(***************************************************************************)
EXTENDS McpServer, Naturals, SequenceTheorems, TLAPS

LEMMA InitInv == Init => Inv
<1> SUFFICES ASSUME Init PROVE Inv
  OBVIOUS
<1>1. TypeOK
  BY EmptySeq DEF Init, TypeOK, Stages
<1>2. RowsReleased
  BY DEF Init, RowsReleased
<1>3. NoRequestLost /\ PassedOnce
  BY DEF Init, NoRequestLost, PassedOnce
<1>4. AnswersReady
  BY DEF Init, AnswersReady
<1> QED
  BY <1>1, <1>2, <1>3, <1>4 DEF Inv

\* The actions, one disjunct each.
LEMMA Cases ==
  ASSUME Next
  PROVE  \/ CloseStdin \/ Interrupt \/ FeederCopies \/ FeederSeesEof \/ FeederClosesPipe
         \/ ServerReads \/ Listen \/ ListenFails \/ RunFails \/ RunReturns
         \/ HttpServerClose \/ ListenReturns \/ CloseEngine \/ Exit
         \/ \E r \in Requests : \/ Send(r) \/ Check(r) \/ AnswerContext(r)
                                \/ QuerySucceeds(r) \/ QueryFails(r)
                                \/ BuildSucceeds(r) \/ BuildFails(r) \/ ContextEnds(r)
                                \/ SendReply(r)
BY DEF Next, Client, Feeder, Shutdown, Engine

-----------------------------------------------------------------------------
(* The steps that move a request or shut the server down.                  *)

\* Send, on either transport.
LEMMA SendInv ==
  ASSUME Inv, NEW r \in Requests, Send(r)
  PROVE  Inv'
<1> USE DEF Inv
<1>1. CASE transport = "stdio"
  <2>1. stdin' = Append(stdin, r) /\ stage' = [stage EXCEPT ![r] = "sent"]
    BY <1>1 DEF Send
  <2>2. stdin \in Seq(Requests) /\ stdin' \in Seq(Requests)
    BY <2>1, AppendProperties DEF TypeOK
  <2>3. /\ DOMAIN stdin = 1..Len(stdin) /\ DOMAIN stdin' = 1..(Len(stdin) + 1)
        /\ \A i \in DOMAIN stdin : stdin'[i] = stdin[i]
        /\ stdin'[Len(stdin) + 1] = r
        /\ Len(stdin) \in Nat
    BY <2>1, <2>2, AppendProperties, LenProperties
  <2>4. TypeOK'
    BY <2>1, <2>2 DEF Send, TypeOK, Stages, input, server
  <2>5. r \notin pipe /\ \A i \in DOMAIN stdin : stdin[i] # r
    BY DEF NoRequestLost, Send
  <2>6. NoRequestLost'
    <3> SUFFICES ASSUME NEW q \in Requests
                 PROVE  stage'[q] = "sent" <=> \/ q \in pipe'
                                               \/ \E i \in DOMAIN stdin' : stdin'[i] = q
      BY DEF NoRequestLost
    <3>1. CASE q = r
      BY <3>1, <2>1, <2>3 DEF TypeOK
    <3>2. CASE q # r
      <4>1. stage'[q] = stage[q] /\ pipe' = pipe
        BY <3>2, <2>1 DEF Send, TypeOK
      <4>2. (\E i \in DOMAIN stdin' : stdin'[i] = q) <=> \E i \in DOMAIN stdin : stdin[i] = q
        BY <3>2, <2>3
      <4> QED
        BY <4>1, <4>2 DEF NoRequestLost
    <3> QED
      BY <3>1, <3>2
  <2>7. PassedOnce'
    BY <2>3, <2>5 DEF PassedOnce, Send
  <2>8. RowsReleased' /\ AnswersReady'
    BY <2>1 DEF RowsReleased, AnswersReady, Send, TypeOK, input
  <2> QED
    BY <2>4, <2>6, <2>7, <2>8
<1>2. CASE transport # "stdio"
  <2>1. stage' = [stage EXCEPT ![r] = "accepted"] /\ stdin' = stdin
    BY <1>2 DEF Send
  <2>2. TypeOK'
    BY <2>1 DEF Send, TypeOK, Stages, input, server
  <2>3. NoRequestLost' /\ PassedOnce' /\ RowsReleased' /\ AnswersReady'
    BY <2>1 DEF Send, NoRequestLost, PassedOnce, RowsReleased, AnswersReady, TypeOK, input
  <2> QED
    BY <2>2, <2>3
<1> QED
  BY <1>1, <1>2

\* A request goes from stdin to the pipe.
LEMMA FeederInv ==
  ASSUME Inv, FeederCopies
  PROVE  Inv'
<1> USE DEF Inv
<1>1. stdin \in Seq(Requests) /\ stdin # <<>> /\ pipe = {}
      /\ pipe' = {Head(stdin)} /\ stdin' = Tail(stdin)
  BY DEF FeederCopies, TypeOK
<1>2. /\ Head(stdin) \in Requests /\ stdin' \in Seq(Requests)
      /\ Len(stdin) \in Nat \ {0} /\ Head(stdin) = stdin[1]
      /\ DOMAIN stdin = 1..Len(stdin) /\ DOMAIN stdin' = 1..(Len(stdin) - 1)
      /\ \A i \in DOMAIN stdin' : stdin'[i] = stdin[i + 1]
  <2>1. /\ Head(stdin) \in Requests /\ Tail(stdin) \in Seq(Requests)
        /\ Len(Tail(stdin)) = Len(stdin) - 1
        /\ \A i \in 1..Len(Tail(stdin)) : Tail(stdin)[i] = stdin[i + 1]
    BY <1>1, HeadTailProperties
  <2>2. Len(stdin) \in Nat \ {0} /\ DOMAIN stdin = 1..Len(stdin)
        /\ DOMAIN Tail(stdin) = 1..Len(Tail(stdin))
    BY <1>1, <2>1, EmptySeq, LenProperties
  <2> QED
    BY <1>1, <2>1, <2>2
<1>3. TypeOK'
  BY <1>1, <1>2 DEF FeederCopies, TypeOK, input, server, calls
<1>4. NoRequestLost'
  <2> SUFFICES ASSUME NEW q \in Requests
               PROVE  stage'[q] = "sent" <=> \/ q \in pipe'
                                             \/ \E i \in DOMAIN stdin' : stdin'[i] = q
    BY DEF NoRequestLost
  <2>1. stage' = stage
    BY DEF FeederCopies, calls
  <2>2. (\E i \in DOMAIN stdin : stdin[i] = q)
          <=> q = Head(stdin) \/ \E i \in DOMAIN stdin' : stdin'[i] = q
    <3>1. ASSUME NEW i \in DOMAIN stdin, i # 1
          PROVE  i - 1 \in DOMAIN stdin' /\ stdin'[i - 1] = stdin[i]
      BY <3>1, <1>2
    <3>2. ASSUME NEW i \in DOMAIN stdin'
          PROVE  i + 1 \in DOMAIN stdin /\ stdin'[i] = stdin[i + 1]
      BY <3>2, <1>2
    <3>3. 1 \in DOMAIN stdin
      BY <1>2
    <3> QED
      BY <3>1, <3>2, <3>3, <1>2
  <2> QED
    BY <1>1, <2>1, <2>2 DEF NoRequestLost
<1>5. PassedOnce'
  BY <1>1, <1>2 DEF PassedOnce
<1>6. RowsReleased' /\ AnswersReady'
  BY DEF FeederCopies, RowsReleased, AnswersReady, calls, input
<1> QED
  BY <1>3, <1>4, <1>5, <1>6

\* The SDK takes the request out of the pipe: it is in no other place.
LEMMA ReadsInv ==
  ASSUME Inv, ServerReads
  PROVE  Inv'
<1> USE DEF Inv
<1>1. /\ pipe' = {} /\ stdin' = stdin
      /\ stage' = [r \in Requests |-> IF r \in pipe THEN "accepted" ELSE stage[r]]
  BY DEF ServerReads
<1>2. TypeOK'
  BY <1>1 DEF ServerReads, TypeOK, Stages, input, server
<1>3. NoRequestLost' /\ PassedOnce'
  BY <1>1 DEF NoRequestLost, PassedOnce
<1>4. \A r \in pipe \cap Requests : stage[r] = "sent"
  BY DEF NoRequestLost
<1>5. RowsReleased'
  BY <1>1, <1>4 DEF ServerReads, RowsReleased
<1>6. AnswersReady'
  BY <1>1, <1>4 DEF ServerReads, AnswersReady, input
<1> QED
  BY <1>2, <1>3, <1>5, <1>6

\* The steps that touch no request, nor its way through stdin.
LEMMA QuietInv ==
  ASSUME Inv,
         \/ CloseStdin \/ Interrupt \/ FeederSeesEof \/ FeederClosesPipe \/ Listen
         \/ ListenFails \/ RunFails \/ RunReturns \/ HttpServerClose \/ ListenReturns
         \/ CloseEngine \/ Exit
  PROVE  Inv'
<1> USE DEF Inv
<1>1. stdin' = stdin /\ pipe' = pipe /\ UNCHANGED <<input, calls>>
  BY DEF CloseStdin, Interrupt, FeederSeesEof, FeederClosesPipe, Listen, ListenFails, RunFails,
         RunReturns, HttpServerClose, ListenReturns, CloseEngine, Exit, stdio
<1>2. /\ stdinClosed' \in BOOLEAN /\ feeder' \in {"copy", "wait", "closed"}
      /\ interrupted' \in BOOLEAN /\ accepting' \in BOOLEAN /\ engineOpen' \in BOOLEAN
      /\ main' \in {"binding", "serving", "returned", "exited"}
  BY DEF CloseStdin, Interrupt, FeederSeesEof, FeederClosesPipe, Listen, ListenFails, RunFails,
         RunReturns, HttpServerClose, ListenReturns, CloseEngine, Exit, stdio, server, TypeOK
<1>3. TypeOK'
  BY <1>1, <1>2 DEF TypeOK, input, calls
<1>4. NoRequestLost' /\ PassedOnce' /\ RowsReleased' /\ AnswersReady'
  BY <1>1 DEF NoRequestLost, PassedOnce, RowsReleased, AnswersReady, input, calls
<1> QED
  BY <1>3, <1>4

-----------------------------------------------------------------------------
(* The steps of a handler.                                                 *)

\* A handler never touches stdin, the pipe or the server, only its own request.
LEMMA HandlerFrame ==
  ASSUME NEW r \in Requests,
         \/ Check(r) \/ AnswerContext(r) \/ QuerySucceeds(r) \/ QueryFails(r)
         \/ BuildSucceeds(r) \/ BuildFails(r) \/ ContextEnds(r) \/ SendReply(r)
  PROVE  UNCHANGED <<input, stdio, server>>
BY DEF Check, AnswerContext, QuerySucceeds, QueryFails, BuildSucceeds, BuildFails, ContextEnds,
       SendReply, Reply

LEMMA HandlerInv ==
  ASSUME Inv, NEW r \in Requests,
         \/ Check(r) \/ AnswerContext(r) \/ QuerySucceeds(r) \/ QueryFails(r)
         \/ BuildSucceeds(r) \/ BuildFails(r) \/ ContextEnds(r) \/ SendReply(r)
  PROVE  Inv'
<1> USE DEF Inv
<1>1. UNCHANGED <<input, stdio, server>>
  BY HandlerFrame
<1>2. /\ stage' \in [Requests -> Stages] /\ answer' \in [Requests -> {"none", "result", "error"}]
      /\ expired' \subseteq Requests /\ openRows' \subseteq Requests
  BY DEF Check, AnswerContext, QuerySucceeds, QueryFails, BuildSucceeds, BuildFails, ContextEnds,
         SendReply, Reply, TypeOK, Stages
<1>3. TypeOK'
  BY <1>1, <1>2 DEF TypeOK, input, stdio, server
<1>4. /\ stage[r] # "sent" /\ stage'[r] # "sent"
      /\ \A q \in Requests \ {r} : stage'[q] = stage[q]
  BY DEF Check, AnswerContext, QuerySucceeds, QueryFails, BuildSucceeds, BuildFails, ContextEnds,
         SendReply, Reply, TypeOK
<1>5. NoRequestLost' /\ PassedOnce'
  BY <1>1, <1>4 DEF NoRequestLost, PassedOnce, stdio
<1>6. RowsReleased'
  BY DEF Check, AnswerContext, QuerySucceeds, QueryFails, BuildSucceeds, BuildFails, ContextEnds,
         SendReply, Reply, RowsReleased, TypeOK
<1>7. AnswersReady'
  BY <1>1 DEF Check, AnswerContext, QuerySucceeds, QueryFails, BuildSucceeds,
     BuildFails, ContextEnds, SendReply, Reply, AnswersReady, TypeOK, input
<1> QED
  BY <1>3, <1>5, <1>6, <1>7

LEMMA StutterInv ==
  ASSUME Inv, UNCHANGED vars
  PROVE  Inv'
BY DEF Inv, vars, input, stdio, server, calls, TypeOK, RowsReleased, NoRequestLost,
       PassedOnce, AnswersReady

LEMMA NextInv == Inv /\ [Next]_vars => Inv'
BY Cases, SendInv, FeederInv, ReadsInv, QuietInv, HandlerInv, StutterInv

\* The server keeps its invariant, whatever the number of requests.
THEOREM Invariance == Spec => []Inv
<1>1. Init => Inv
  BY InitInv
<1>2. Inv /\ [Next]_vars => Inv'
  BY NextInv
<1> QED
  BY <1>1, <1>2, PTL DEF Spec

\* Every request and every part of the server is in one of its states (TypeOK).
THEOREM TypeCorrect == Spec => []TypeOK
BY Invariance, PTL DEF Inv

\* Rows are open exactly while a handler builds its result (handler.go:82-91).
THEOREM CursorsAreReleased == Spec => []RowsReleased
BY Invariance, PTL DEF Inv

\* A request sent to stdin is in stdin or in the pipe until its handler has it,
\* and in one of them only (mcp.go:74-89).
THEOREM RequestsAreKept == Spec => [](NoRequestLost /\ PassedOnce)
BY Invariance, PTL DEF Inv

-----------------------------------------------------------------------------
(* The server implements the service.                                      *)

LEMMA InitRefines == Init => Service!Init
BY DEF Init, Service!Init, Seen

\* Steps that change nothing the client sees.
LEMMA HiddenRefines ==
  ASSUME \A r \in Requests : Seen(r)' = Seen(r), kind' = kind, interrupted' = interrupted
  PROVE  UNCHANGED Service!vars
BY DEF Service!vars

LEMMA SendRefines ==
  ASSUME Inv, NEW r \in Requests, Send(r)
  PROVE  Service!Ask(r)
<1>1. stage[r] = "unsent" /\ stage'[r] \in {"sent", "accepted"}
      /\ \A q \in Requests \ {r} : stage'[q] = stage[q]
  BY DEF Inv, TypeOK, Send
<1>2. UNCHANGED <<kind, answer, interrupted>>
  BY DEF Send, input, server
<1> QED
  BY <1>1, <1>2 DEF Service!Ask, Seen

LEMMA ReplyRefines ==
  ASSUME Inv, NEW r \in Requests, SendReply(r), accepting
  PROVE  Service!Answer(r)
<1>1. stage[r] = "replying" /\ stage'[r] = "answered"
      /\ \A q \in Requests \ {r} : stage'[q] = stage[q]
  BY DEF Inv, TypeOK, SendReply
<1>2. UNCHANGED <<kind, answer, interrupted>>
  BY DEF SendReply, input, server
<1>3. answer[r] \in {"result", "error"} /\ (kind[r] \in {"empty", "refused"} => answer[r] = "error")
  BY <1>1 DEF Inv, TypeOK, AnswersReady
<1> QED
  BY <1>1, <1>2, <1>3 DEF Service!Answer, Seen

\* The server's own steps and a handler's move a request from one pending stage to another.
LEMMA QuietRefines ==
  ASSUME \/ CloseStdin \/ FeederCopies \/ FeederSeesEof \/ FeederClosesPipe \/ Listen
         \/ ListenFails \/ RunFails \/ RunReturns \/ HttpServerClose \/ ListenReturns
         \/ CloseEngine \/ Exit
  PROVE  UNCHANGED Service!vars
<1>1. UNCHANGED <<input, calls, interrupted>>
  BY DEF CloseStdin, FeederCopies, FeederSeesEof, FeederClosesPipe, Listen, ListenFails, RunFails,
         RunReturns, HttpServerClose, ListenReturns, CloseEngine, Exit, stdio, server
<1> QED
  BY <1>1, HiddenRefines DEF input, calls, Seen

LEMMA ReadsRefine ==
  ASSUME Inv, ServerReads
  PROVE  UNCHANGED Service!vars
<1>1. \A r \in pipe \cap Requests : stage[r] = "sent"
  BY DEF Inv, NoRequestLost
<1>2. \A r \in Requests : Seen(r)' = Seen(r)
  BY <1>1 DEF ServerReads, Seen
<1> QED
  BY <1>2, HiddenRefines DEF ServerReads, input, server

LEMMA HandlerRefines ==
  ASSUME Inv, NEW r \in Requests,
         \/ Check(r) \/ AnswerContext(r) \/ QuerySucceeds(r) \/ QueryFails(r)
         \/ BuildSucceeds(r) \/ BuildFails(r) \/ ContextEnds(r) \/ (SendReply(r) /\ ~accepting)
  PROVE  UNCHANGED Service!vars
<1>1. UNCHANGED <<input, stdio, server>>
  BY HandlerFrame
<1>2. /\ stage[r] \notin {"unsent", "answered"} /\ stage'[r] \notin {"unsent", "answered"}
      /\ \A q \in Requests \ {r} : stage'[q] = stage[q] /\ answer'[q] = answer[q]
  BY DEF Check, AnswerContext, QuerySucceeds, QueryFails, BuildSucceeds, BuildFails, ContextEnds,
         SendReply, Reply, Inv, TypeOK
<1>3. \A q \in Requests : Seen(q)' = Seen(q)
  BY <1>2 DEF Seen
<1> QED
  BY <1>1, <1>3, HiddenRefines DEF input, server

LEMMA InterruptRefines ==
  ASSUME Interrupt
  PROVE  Service!Interrupt
BY DEF Interrupt, Service!Interrupt, input, calls, Seen

LEMMA StepRefines == Inv /\ [Next]_vars => [Service!Next]_(Service!vars)
<1> SUFFICES ASSUME Inv, [Next]_vars
             PROVE  Service!Next \/ UNCHANGED Service!vars
  OBVIOUS
<1>1. CASE UNCHANGED vars
  BY <1>1, HiddenRefines DEF vars, input, server, calls, Seen
<1>2. CASE Interrupt
  BY <1>2, InterruptRefines DEF Service!Next
<1>3. ASSUME NEW r \in Requests, Send(r)
      PROVE  Service!Next
  BY <1>3, SendRefines DEF Service!Next
<1>4. ASSUME NEW r \in Requests, SendReply(r), accepting
      PROVE  Service!Next
  BY <1>4, ReplyRefines DEF Service!Next
<1> QED
  BY <1>1, <1>2, <1>3, <1>4, Cases, QuietRefines, ReadsRefine, HandlerRefines

\* Whatever the number of requests, the client never sees a step that
\* QueryService does not allow: no second answer, no answer to a request it has
\* not sent, no result for one that PreprocessQuery refuses (handler.go:52-104).
THEOREM ImplementsService == Spec => Service!Init /\ [][Service!Next]_(Service!vars)
<1>1. Init => Service!Init
  BY InitRefines
<1>2. Inv /\ [Next]_vars => [Service!Next]_(Service!vars)
  BY StepRefines
<1> QED
  BY <1>1, <1>2, Invariance, PTL DEF Spec
=============================================================================
