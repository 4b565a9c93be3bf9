---------------------------- MODULE QueryService ----------------------------
(***************************************************************************)
(* What the MCP server promises its client: every query it is sent is      *)
(* answered once, with a result or an error, unless the operator           *)
(* interrupts the server first; a query that is refused before it reaches  *)
(* the engine is never answered with a result.                             *)
(***************************************************************************)
CONSTANT Requests

VARIABLES status,       \* of each request: idle, pending, result or error
          refused,      \* input: the requests that must be refused
          interrupted   \* the operator has asked for the end

vars == <<status, refused, interrupted>>

Init == /\ status = [r \in Requests |-> "idle"]
        /\ refused \in SUBSET Requests
        /\ interrupted = FALSE

Ask(r) == /\ status[r] = "idle"
          /\ status' = [status EXCEPT ![r] = "pending"]
          /\ UNCHANGED <<refused, interrupted>>

Answer(r) == /\ status[r] = "pending"
             /\ \E answer \in IF r \in refused THEN {"error"} ELSE {"result", "error"} :
                  status' = [status EXCEPT ![r] = answer]
             /\ UNCHANGED <<refused, interrupted>>

Interrupt == /\ ~interrupted
             /\ interrupted' = TRUE
             /\ UNCHANGED <<status, refused>>

Next == Interrupt \/ \E r \in Requests : Ask(r) \/ Answer(r)

\* An interrupted service may leave its clients without an answer.
Spec == /\ Init /\ [][Next]_vars
        /\ \A r \in Requests : WF_vars(~interrupted /\ Answer(r))
=============================================================================
