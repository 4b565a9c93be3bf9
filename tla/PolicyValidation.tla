-------------------------- MODULE PolicyValidation --------------------------
(***************************************************************************)
(* sqlwalk.Validate on a policy read by ParsePolicy: the loop that checks  *)
(* a statement's accesses against the policy one by one, in fail-fast or   *)
(* collecting mode.                                                        *)
(***************************************************************************)
EXTENDS AccessPolicy, SequencesExt

CONSTANTS Documents,    \* policy documents, acceptable or not
          AccessLists,  \* what extractAccesses may return: sequences of accesses
          Probes        \* the accesses the properties about policies ask about

Accesses == [catalog : STRING, schema : STRING, name : STRING, op : OpTypes]

\* json.Unmarshal fills in the type Policy; extractAccesses returns []TableAccess.
ASSUME DocumentsAssumption == \A document \in Documents : document \in Policies
ASSUME AccessesAssumption == \A list \in AccessLists : list \in Seq(Accesses)
ASSUME ProbesAssumption == \A a \in Probes : a \in Accesses

VARIABLES policy,      \* input: the document, then the parsed policy
          failFast,    \* input: the FailFast option
          accesses,    \* input: the accesses not looked at yet come after position
          position,    \* how many accesses the loop has looked at
          violations,  \* the violations found so far
          pc

vars == <<policy, failFast, accesses, position, violations, pc>>

Init == /\ policy \in Documents
        /\ failFast \in BOOLEAN
        /\ accesses \in AccessLists
        /\ position = 0
        /\ violations = <<>>
        /\ pc = "parse"

ParsePolicy ==
  /\ pc = "parse"
  /\ pc' = IF ParsePolicyAccepts(policy) THEN "validate" ELSE "rejected"
  /\ UNCHANGED <<policy, failFast, accesses, position, violations>>

\* Mutants of CheckAccess: a violation replaces the ones found before; the loop
\* variable is advanced twice.
CheckAccess_Overwrites ==
  /\ pc = "validate" /\ position < Len(accesses)
  /\ violations' = IF Permits(policy, accesses[position + 1])
                     THEN violations ELSE <<accesses[position + 1]>>
  /\ position' = position + 1
  /\ UNCHANGED <<policy, failFast, accesses, pc>>
CheckAccess_Twice ==
  /\ pc = "validate" /\ position < Len(accesses)
  /\ position' = position + 2
  /\ UNCHANGED <<policy, failFast, accesses, violations, pc>>

\* One iteration of Validate's loop.
CheckAccess ==
  /\ pc = "validate" /\ position < Len(accesses)
  /\ LET a == accesses[position + 1] IN
       IF Permits(policy, a)
         THEN UNCHANGED <<violations, pc>>
         ELSE /\ violations' = Append(violations, a)
              /\ pc' = IF failFast THEN "done" ELSE pc
  /\ position' = position + 1
  /\ UNCHANGED <<policy, failFast, accesses>>

ReturnViolations ==
  /\ pc = "validate" /\ position = Len(accesses)
  /\ pc' = "done"
  /\ UNCHANGED <<policy, failFast, accesses, position, violations>>

Next == ParsePolicy \/ CheckAccess \/ ReturnViolations

Spec == Init /\ [][Next]_vars

-----------------------------------------------------------------------------
TypeOK == /\ policy \in Documents /\ failFast \in BOOLEAN /\ accesses \in AccessLists
          /\ position \in 0..Len(accesses)
          /\ ToSet(violations) \subseteq ToSet(accesses)
          /\ pc \in {"parse", "rejected", "validate", "done"}

\* How many of the first n accesses the policy refuses.
Refusals(n) == Cardinality({j \in 1..n : ~Permits(policy, accesses[j])})

\* The verdict is the same in both modes: Validate reports no violation exactly
\* when every access is permitted, the collecting mode reports all of them in
\* order, and fail-fast the first (validate.go:125-138).
VerdictIsExact ==
  pc = "done" =>
    /\ Len(violations) = IF failFast /\ Refusals(Len(accesses)) > 0
                            THEN 1 ELSE Refusals(Len(accesses))
    /\ \A i \in 1..Len(accesses) :
         ~Permits(policy, accesses[i]) /\ Refusals(i) <= Len(violations) =>
           violations[Refusals(i)] = accesses[i]

\* The properties of a policy are stated where Validate has finished with it.
Accepted == pc = "done"

\* ParsePolicy's rejection of duplicates is what makes a policy a set of
\* permissions: the order in which catalogs and schemas are listed is without
\* effect, although resolve stores them in maps where the last one wins.
OrderIrrelevant ==
  LET reordered == [i \in DOMAIN Reverse(policy) |->
                      [Reverse(policy)[i] EXCEPT !.schemas = Reverse(@)]]
  IN Accepted => \A a \in Probes : Permits(policy, a) <=> Permits(reordered, a)

\* policy.go:12 "higher levels include all lower privileges": raising a catalog's
\* base access never withdraws a permission, through any schema that inherits it.
RaisingBaseKeepsGrants ==
  Accepted =>
    \A i \in DOMAIN policy, level \in DOMAIN AccessLevel :
      LevelOf(policy[i].base) <= LevelOf(level) =>
        LET raised == [policy EXCEPT ![i].base = level]
        IN \A a \in Probes : Permits(policy, a) => Permits(raised, a)

\* policy.go:147 "denied means REVOKE ALL": a denied table is closed to every
\* operation, DDL included, whatever its schema grants and whatever shorthand
\* override names it too.  (A granular override is the exception: DeniedIsFinal.)
DeniedBeatsShorthands ==
  Accepted =>
    \A i \in DOMAIN policy : \A j \in DOMAIN policy[i].schemas :
      LET sp == policy[i].schemas[j]
          granular == UNION {sp.overrides.granular[g].tables : g \in DOMAIN sp.overrides.granular}
      IN \A a \in Probes :
           a.catalog = policy[i].catalog /\ a.schema = sp.schema
           /\ a.name \in sp.overrides.denied \ granular => ~Permits(policy, a)

\* A schema that sets its own base access and management is cut off from its
\* catalog: whatever the catalog says, the schema's tables keep their grants
\* (policy.go:167-179, full replacement and not a merge).
SchemaReplacesCatalog ==
  Accepted =>
    \A i \in DOMAIN policy : \A j \in DOMAIN policy[i].schemas :
      LET sp == policy[i].schemas[j]
          stripped == [policy EXCEPT ![i].base = "none", ![i].management = <<>>]
      IN sp.base # "" /\ sp.management # <<>> =>
           \A a \in Probes : a.catalog = policy[i].catalog /\ a.schema = sp.schema =>
             (Permits(policy, a) <=> Permits(stripped, a))

\* specs/table_access_policy.md:146 "Tables in the denied array must receive an
\* explicit REVOKE ALL PRIVILEGES".  Refuted: resolve assigns granular overrides
\* after denied ones, so a table listed in both keeps its granular actions.
DeniedIsFinal ==
  Accepted =>
    \A i \in DOMAIN policy : \A j \in DOMAIN policy[i].schemas :
      \A a \in Probes :
        a.catalog = policy[i].catalog /\ a.schema = policy[i].schemas[j].schema
        /\ a.name \in policy[i].schemas[j].overrides.denied => ~Permits(policy, a)
=============================================================================
