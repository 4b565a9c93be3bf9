---------------------------- MODULE EngineService ----------------------------
(***************************************************************************)
(* What booting promises a command: an engine that serves every configured *)
(* source, or no engine and no open database.                              *)
(***************************************************************************)
CONSTANT Processes

VARIABLES catalogs,  \* input: the configured sources
          phase,     \* of each process: none, booting or ready
          served,    \* of each process: the sources a query can read
          held       \* the processes that hold an open DuckDB

vars == <<catalogs, phase, served, held>>

Init == /\ phase = [p \in Processes |-> "none"]
        /\ served = [p \in Processes |-> {}]
        /\ held = {}

Enter(p, ph, sources) == /\ phase' = [phase EXCEPT ![p] = ph]
                         /\ served' = [served EXCEPT ![p] = sources]
                         /\ UNCHANGED catalogs

Begin(p)   == phase[p] = "none" /\ Enter(p, "booting", {}) /\ held' = held \cup {p}
Deliver(p) == phase[p] = "booting" /\ Enter(p, "ready", catalogs) /\ held' = held
End(p)     == phase[p] # "none" /\ Enter(p, "none", {}) /\ held' = held \ {p}

Next == \E p \in Processes : Begin(p) \/ Deliver(p) \/ End(p)

Spec == Init /\ [][Next]_vars
=============================================================================
