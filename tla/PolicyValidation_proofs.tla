----------------------- MODULE PolicyValidation_proofs -----------------------
(***************************************************************************)
(* For every set of documents, accesses and probes: what Validate reports, *)
(* and what the parts of a policy may and may not do to each other.        *)
(***************************************************************************)
EXTENDS PolicyValidation, FiniteSetTheorems, SequenceTheorems, TLAPS

-----------------------------------------------------------------------------
(* A policy is a set of permissions.                                       *)

LEMMA LatestOnly ==
  ASSUME NEW m \in Nat
  PROVE  Latest({m}) = m
BY DEF Latest

LEMMA CatalogsUnique ==
  ASSUME NEW p, Unique(p, "catalog"), NEW i \in DOMAIN p
  PROVE  {k \in DOMAIN p : p[k].catalog = p[i].catalog} = {i}
BY DEF Unique

LEMMA SchemasUnique ==
  ASSUME NEW p, Unique(p, "schema"), NEW i \in DOMAIN p
  PROVE  {k \in DOMAIN p : p[k].schema = p[i].schema} = {i}
BY DEF Unique

\* What lookup finds, without the indices of the maps.
LEMMA LookupFinds ==
  ASSUME NEW p, DOMAIN p \subseteq Nat, Unique(p, "catalog"), NEW i \in DOMAIN p, NEW s, NEW t
  PROVE  Lookup(p, p[i].catalog, s, t) = InCatalog(p[i], s, t)
BY CatalogsUnique, LatestOnly DEF Lookup

LEMMA LookupMisses ==
  ASSUME NEW p, NEW c, \A i \in DOMAIN p : p[i].catalog # c, NEW s, NEW t
  PROVE  Lookup(p, c, s, t) = Nothing
BY DEF Lookup

LEMMA InCatalogFinds ==
  ASSUME NEW cp, DOMAIN cp.schemas \subseteq Nat, Unique(cp.schemas, "schema"),
         NEW j \in DOMAIN cp.schemas, NEW t
  PROVE  InCatalog(cp, cp.schemas[j].schema, t) = InSchema(cp, cp.schemas[j], t)
BY SchemasUnique, LatestOnly DEF InCatalog

LEMMA InCatalogMisses ==
  ASSUME NEW cp, NEW s, \A j \in DOMAIN cp.schemas : cp.schemas[j].schema # s, NEW t
  PROVE  InCatalog(cp, s, t) = Permission(LevelOf(cp.base), CatalogManagement(cp))
BY DEF InCatalog

\* A catalog acts on a listed schema's tables only through what they inherit.
LEMMA InSchemaInherits ==
  ASSUME NEW cp, NEW cq, NEW sp, NEW t,
         EffectiveManagement(cp, sp) = EffectiveManagement(cq, sp),
         EffectiveBase(cp, sp) = EffectiveBase(cq, sp)
  PROVE  InSchema(cp, sp, t) = InSchema(cq, sp, t)
<1>1. OverrideSteps(cp, sp) = OverrideSteps(cq, sp)
  BY DEF OverrideSteps
<1> QED
  BY <1>1 DEF InSchema

\* A permission grants at least as much at a higher level.
LEMMA HigherLevelsInclude ==
  ASSUME NEW low \in 0..4, NEW high \in 0..4, low <= high, NEW m, NEW op,
         Allows(Permission(low, m), op)
  PROVE  Allows(Permission(high, m), op)
<1> DEFINE p == Permission(low, m)
           q == Permission(high, m)
<1>1. /\ p.management = m /\ p.granular = FALSE /\ p.level = low
      /\ q.management = m /\ q.granular = FALSE /\ q.level = high
  BY DEF Permission
<1>2. ASSUME op \in Actions PROVE LevelNeeded[op] \in Nat
  BY <1>2 DEF LevelNeeded, Actions, AccessLevel
<1> HIDE DEF p, q
<1>3. CASE op \in Actions /\ ~p.granular /\ p.level >= LevelNeeded[op]
  <2>1. q.level >= LevelNeeded[op]
    BY <1>1, <1>2, <1>3
  <2> QED
    BY <1>1, <1>3, <2>1 DEF Allows, q
<1>4. CASE op = "ALTER TABLE" /\ p.management.ddl
  BY <1>1, <1>4 DEF Allows, q
<1>5. CASE op \in {"CREATE INDEX", "DROP INDEX"} /\ p.management.index
  BY <1>1, <1>5 DEF Allows, q
<1>6. CASE op \in {"DROP TABLE", "TRUNCATE"} /\ p.management.drop
  BY <1>1, <1>6 DEF Allows, q
<1>7. Allows(p, op)
  BY DEF p
<1> QED
  BY <1>1, <1>3, <1>4, <1>5, <1>6, <1>7 DEF Allows

LEMMA LevelType ==
  ASSUME NEW s
  PROVE  LevelOf(s) \in 0..4
BY DEF LevelOf, KnownLevel, AccessLevel

-----------------------------------------------------------------------------
(* Reordering.                                                             *)

LEMMA ReverseProperties ==
  ASSUME NEW S, NEW s \in Seq(S)
  PROVE  /\ Reverse(s) \in Seq(S)
         /\ DOMAIN Reverse(s) = DOMAIN s
         /\ \A i \in DOMAIN s : /\ Len(s) - i + 1 \in DOMAIN s
                                /\ Reverse(s)[i] = s[Len(s) - i + 1]
                                /\ Reverse(s)[Len(s) - i + 1] = s[i]
<1>1. Reverse(s) = [i \in 1..Len(s) |-> s[(Len(s) - i) + 1]]
  BY DEF Reverse
<1>2. Len(s) \in Nat /\ DOMAIN s = 1..Len(s)
  BY LenProperties
<1>3. \A i \in 1..Len(s) : s[(Len(s) - i) + 1] \in S
  BY <1>2, ElementOfSeq
<1>4. Reverse(s) \in [1..Len(s) -> S]
  BY <1>1, <1>3
<1>5. Reverse(s) \in Seq(S)
  BY <1>2, <1>4, SeqDef
<1> QED
  BY <1>1, <1>2, <1>5

LEMMA ReverseUnique ==
  ASSUME NEW S, NEW s \in Seq(S), Unique(s, "schema")
  PROVE  Unique(Reverse(s), "schema")
<1> SUFFICES ASSUME NEW i \in DOMAIN s, NEW j \in DOMAIN s,
                    Reverse(s)[i].schema = Reverse(s)[j].schema
             PROVE  i = j
  BY ReverseProperties DEF Unique
<1>1. Len(s) - i + 1 = Len(s) - j + 1
  BY ReverseProperties DEF Unique
<1>2. Len(s) \in Nat /\ i \in Nat /\ j \in Nat
  BY LenProperties
<1> QED
  BY <1>1, <1>2

-----------------------------------------------------------------------------
(* The loop.                                                               *)

\* What the loop has reported is what it has refused so far, in order.
Reported ==
  /\ violations \in Seq(Accesses)
  /\ Len(violations) = Refusals(position)
  /\ \A i \in 1..position :
       ~Permits(policy, accesses[i]) => violations[Refusals(i)] = accesses[i]

\* A statement is only looked at under a policy that ParsePolicy accepts, and
\* fail-fast leaves the loop with the first violation.
Stages ==
  /\ pc \in {"parse", "rejected"} => position = 0
  /\ pc \in {"validate", "done"} => ParsePolicyAccepts(policy)
  /\ pc = "validate" /\ failFast => Len(violations) = 0
  /\ pc = "done" => position = Len(accesses) \/ failFast
  /\ failFast => Len(violations) <= 1
  /\ pc = "done" /\ position # Len(accesses) => Len(violations) = 1

Inv == TypeOK /\ Reported /\ Stages

LEMMA RefusalsType ==
  ASSUME NEW n \in Nat
  PROVE  /\ Refusals(n) \in Nat
         /\ IsFiniteSet({j \in 1..n : ~Permits(policy, accesses[j])})
<1>1. IsFiniteSet(1..n)
  BY FS_Interval
<1>2. IsFiniteSet({j \in 1..n : ~Permits(policy, accesses[j])})
  BY <1>1, FS_Subset
<1> QED
  BY <1>2, FS_CardinalityType DEF Refusals

LEMMA RefusalsStep ==
  ASSUME NEW n \in Nat
  PROVE  Refusals(n + 1) = IF Permits(policy, accesses[n + 1]) THEN Refusals(n)
                                                              ELSE Refusals(n) + 1
<1> DEFINE R(k) == {j \in 1..k : ~Permits(policy, accesses[j])}
<1>1. IsFiniteSet(R(n))
  BY RefusalsType
<1>2. CASE Permits(policy, accesses[n + 1])
  <2>1. \A j \in 1..n + 1 : j \in 1..n \/ j = n + 1
    OBVIOUS
  <2>2. 1..n \subseteq 1..n + 1
    OBVIOUS
  <2>3. R(n + 1) = R(n)
    BY <1>2, <2>1, <2>2
  <2> QED
    BY <1>2, <2>3 DEF Refusals
<1>3. CASE ~Permits(policy, accesses[n + 1])
  <2>1. \A j \in 1..n + 1 : j \in 1..n \/ j = n + 1
    OBVIOUS
  <2>2. 1..n \subseteq 1..n + 1 /\ n + 1 \in 1..n + 1 /\ n + 1 \notin 1..n
    OBVIOUS
  <2>3. R(n + 1) = R(n) \cup {n + 1}
    BY <1>3, <2>1, <2>2
  <2>4. n + 1 \notin R(n)
    BY <2>2
  <2>5. Cardinality(R(n) \cup {n + 1}) = Cardinality(R(n)) + 1
    BY <1>1, <2>4, FS_AddElement
  <2> QED
    BY <1>3, <2>3, <2>5 DEF Refusals
<1> QED
  BY <1>2, <1>3

LEMMA RefusalsMonotone ==
  ASSUME NEW m \in Nat, NEW n \in Nat, m <= n
  PROVE  Refusals(m) <= Refusals(n)
<1>1. 1..m \subseteq 1..n
  OBVIOUS
<1>2. {j \in 1..m : ~Permits(policy, accesses[j])}
        \subseteq {j \in 1..n : ~Permits(policy, accesses[j])}
  BY <1>1
<1> QED
  BY <1>2, RefusalsType, FS_Subset DEF Refusals

LEMMA NothingRefusedYet == Refusals(0) = 0
BY FS_EmptySet DEF Refusals

\* The i-th access is counted once it has been refused.
LEMMA RefusalIsCounted ==
  ASSUME NEW i \in Nat \ {0}, ~Permits(policy, accesses[i])
  PROVE  Refusals(i) \in Nat \ {0} /\ Refusals(i) = Refusals(i - 1) + 1
<1>1. i - 1 \in Nat /\ (i - 1) + 1 = i
  OBVIOUS
<1>2. Refusals((i - 1) + 1) = Refusals(i - 1) + 1
  BY <1>1, RefusalsStep
<1>3. Refusals(i) = Refusals(i - 1) + 1
  BY <1>1, <1>2
<1>4. Refusals(i - 1) \in Nat
  BY <1>1, RefusalsType
<1> QED
  BY <1>3, <1>4

LEMMA AccessesType ==
  ASSUME Inv
  PROVE  /\ accesses \in Seq(Accesses) /\ Len(accesses) \in Nat /\ DOMAIN accesses = 1..Len(accesses)
         /\ position \in Nat /\ position <= Len(accesses)
         /\ policy \in Policies
<1>1. accesses \in Seq(Accesses)
  BY AccessesAssumption DEF Inv, TypeOK
<1> QED
  BY <1>1, LenProperties, DocumentsAssumption DEF Inv, TypeOK

LEMMA InitInv == Init => Inv
<1> SUFFICES ASSUME Init PROVE Inv
  OBVIOUS
<1>1. accesses \in Seq(Accesses) /\ Len(accesses) \in Nat
  BY AccessesAssumption, LenProperties DEF Init
<1>2. violations \in Seq(Accesses) /\ Len(violations) = 0 /\ ToSet(violations) = {}
  BY EmptySeq DEF Init, ToSet
<1>3. TypeOK
  BY <1>1, <1>2 DEF Init, TypeOK
<1>4. \A i \in 1..position : FALSE
  BY DEF Init
<1> QED
  BY <1>2, <1>3, <1>4, NothingRefusedYet DEF Init, Inv, Reported, Stages

LEMMA NextInv ==
  ASSUME Inv, [Next]_vars
  PROVE  Inv'
<1> USE DEF Inv
<1>1. policy' = policy /\ failFast' = failFast /\ accesses' = accesses
  BY DEF Next, ParsePolicy, CheckAccess, ReturnViolations, vars
<1>2. \A n : Refusals(n)' = Refusals(n)
  BY <1>1 DEF Refusals
<1>3. CASE ParsePolicy
  <2>1. TypeOK' /\ Reported'
    BY <1>1, <1>2, <1>3 DEF ParsePolicy, TypeOK, Reported
  <2>2. position = 0 /\ Len(violations) = 0
    BY <1>3, NothingRefusedYet DEF ParsePolicy, Reported, Stages
  <2>3. Stages'
    BY <1>1, <1>3, <2>2 DEF ParsePolicy, Stages
  <2> QED
    BY <2>1, <2>3
<1>4. CASE CheckAccess
  <2> DEFINE a == accesses[position + 1]
  <2>1. /\ position + 1 \in 1..Len(accesses) /\ a \in Accesses /\ a \in ToSet(accesses)
        /\ position' = position + 1
    BY <1>4, AccessesType, ElementOfSeq DEF CheckAccess, ToSet
  <2>2. CASE Permits(policy, a)
    <3>1. violations' = violations /\ pc' = pc
      BY <1>4, <2>2 DEF CheckAccess
    <3>2. Refusals(position') = Refusals(position)
      BY <2>1, <2>2, AccessesType, RefusalsStep
    <3>3. \A i \in 1..position' : i \in 1..position \/ i = position + 1
      BY <2>1, AccessesType
    <3>4. TypeOK'
      BY <1>1, <2>1, <3>1 DEF TypeOK
    <3> QED
      BY <1>1, <1>2, <1>4, <2>1, <2>2, <3>1, <3>2, <3>3, <3>4 DEF CheckAccess, Reported, Stages
  <2>3. CASE ~Permits(policy, a)
    <3>1. /\ violations' = Append(violations, a)
          /\ pc' = IF failFast THEN "done" ELSE pc
      BY <1>4, <2>3 DEF CheckAccess
    <3>2. Refusals(position') = Refusals(position) + 1
      BY <2>1, <2>3, AccessesType, RefusalsStep
    <3>3. /\ violations' \in Seq(Accesses) /\ Len(violations') = Len(violations) + 1
          /\ \A k \in 1..Len(violations) : violations'[k] = violations[k]
          /\ violations'[Len(violations) + 1] = a
      BY <2>1, <3>1, AppendProperties DEF Reported
    <3>4. TypeOK'
      <4>1. DOMAIN violations = 1..Len(violations) /\ DOMAIN violations' = 1..Len(violations) + 1
            /\ Len(violations) \in Nat
        BY <3>3, LenProperties DEF Reported
      <4>2. ToSet(violations') = ToSet(violations) \cup {a}
        BY <3>3, <4>1 DEF ToSet
      <4>3. ToSet(violations)' \subseteq ToSet(accesses)
        BY <2>1, <4>2 DEF TypeOK, ToSet
      <4> QED
        BY <1>1, <1>4, <2>1, <3>1, <4>3 DEF TypeOK, CheckAccess
    <3>5. ASSUME NEW i \in 1..position', ~Permits(policy, accesses[i])
          PROVE  violations'[Refusals(i)] = accesses[i]
      <4>1. CASE i = position + 1
        BY <2>1, <3>2, <3>3, <4>1 DEF Reported
      <4>2. CASE i \in 1..position
        <5>1. Refusals(i) \in 1..Len(violations)
          BY <3>5, <4>2, AccessesType, RefusalIsCounted, RefusalsMonotone, RefusalsType
             DEF Reported
        <5> QED
          BY <3>3, <3>5, <4>2, <5>1 DEF Reported
      <4> QED
        BY <2>1, <4>1, <4>2, AccessesType
    <3>6. pc = "validate" /\ Len(violations) \in Nat
      BY <1>4, LenProperties DEF CheckAccess, Reported
    <3>7. Reported'
      BY <1>1, <1>2, <3>2, <3>3, <3>5 DEF Reported
    <3>8. CASE failFast
      <4>1. Len(violations') = 1 /\ pc' = "done"
        BY <3>1, <3>3, <3>6, <3>8 DEF Stages
      <4> QED
        BY <1>1, <3>4, <3>6, <3>7, <3>8, <4>1 DEF Stages
    <3>9. CASE ~failFast
      <4>1. pc' = "validate"
        BY <3>1, <3>6, <3>9
      <4> QED
        BY <1>1, <3>4, <3>6, <3>7, <3>9, <4>1 DEF Stages
    <3> QED
      BY <3>8, <3>9
  <2> QED
    BY <2>2, <2>3
<1>5. CASE ReturnViolations
  BY <1>1, <1>2, <1>5 DEF ReturnViolations, TypeOK, Reported, Stages
<1>6. CASE UNCHANGED vars
  BY <1>2, <1>6 DEF vars, TypeOK, Reported, Stages
<1> QED
  BY <1>3, <1>4, <1>5, <1>6 DEF Next

THEOREM Invariance == Spec => []Inv
BY InitInv, NextInv, PTL DEF Spec

\* The variables keep their types: no step of the loop runs past the accesses.
THEOREM TypeCorrect == Spec => []TypeOK
<1>1. Inv => TypeOK
  BY DEF Inv
<1> QED
  BY <1>1, Invariance, PTL

\* Both modes of Validate report exactly what the policy refuses (VerdictIsExact).
THEOREM ExactVerdict == Spec => []VerdictIsExact
<1>1. Inv => VerdictIsExact
  <2> SUFFICES ASSUME Inv, pc = "done" PROVE VerdictIsExact
    BY DEF VerdictIsExact
  <2>1. /\ Refusals(position) \in Nat /\ Refusals(Len(accesses)) \in Nat
        /\ Refusals(position) <= Refusals(Len(accesses))
        /\ Len(violations) = Refusals(position)
    BY AccessesType, RefusalsType, RefusalsMonotone DEF Inv, Reported
  <2>2. Len(violations) = IF failFast /\ Refusals(Len(accesses)) > 0
                            THEN 1 ELSE Refusals(Len(accesses))
    BY <2>1 DEF Inv, Stages
  <2>3. ASSUME NEW i \in 1..Len(accesses), ~Permits(policy, accesses[i]),
               Refusals(i) <= Len(violations)
        PROVE  violations[Refusals(i)] = accesses[i]
    <3>1. i \in Nat \ {0} /\ i - 1 \in Nat
      BY AccessesType
    <3>2. Refusals(i) = Refusals(i - 1) + 1 /\ Refusals(i - 1) \in Nat
      BY <2>3, <3>1, RefusalIsCounted, RefusalsType
    <3>3. position <= i - 1 => Refusals(position) <= Refusals(i - 1)
      BY <3>1, AccessesType, RefusalsMonotone
    <3>4. i \in 1..position
      BY <2>1, <2>3, <3>1, <3>2, <3>3, AccessesType DEF Inv, Stages
    <3> QED
      BY <2>3, <3>4 DEF Inv, Reported
  <2> QED
    BY <2>2, <2>3 DEF VerdictIsExact
<1> QED
  BY <1>1, Invariance, PTL

-----------------------------------------------------------------------------
(* The properties of policies.                                             *)

LEMMA AcceptedPolicy ==
  ASSUME Inv, Accepted
  PROVE  /\ policy \in Policies /\ DOMAIN policy \subseteq Nat /\ Unique(policy, "catalog")
         /\ \A i \in DOMAIN policy :
              /\ policy[i] \in CatalogPermissions
              /\ DOMAIN policy[i].schemas \subseteq Nat
              /\ Unique(policy[i].schemas, "schema")
<1>1. policy \in Policies
  BY DocumentsAssumption DEF Inv, TypeOK
<1>2. ParsePolicyAccepts(policy)
  BY DEF Inv, Stages, Accepted
<1>3. \A i \in DOMAIN policy : policy[i] \in CatalogPermissions
  BY <1>1, LenProperties, ElementOfSeq DEF Policies
<1>4. \A i \in DOMAIN policy : DOMAIN policy[i].schemas \subseteq Nat
  BY <1>3, LenProperties DEF CatalogPermissions
<1>5. DOMAIN policy \subseteq Nat
  BY <1>1, LenProperties DEF Policies
<1> QED
  BY <1>1, <1>2, <1>3, <1>4, <1>5 DEF ParsePolicyAccepts

\* The order of a catalog's schemas is without effect.
LEMMA SchemasReversed ==
  ASSUME NEW cp \in CatalogPermissions, Unique(cp.schemas, "schema"), NEW s, NEW t
  PROVE  LET cq == [cp EXCEPT !.schemas = Reverse(@)]
         IN /\ cq \in CatalogPermissions /\ cq.catalog = cp.catalog
            /\ InCatalog(cq, s, t) = InCatalog(cp, s, t)
<1> DEFINE cq == [cp EXCEPT !.schemas = Reverse(@)]
           n  == Len(cp.schemas)
<1>1. cp.schemas \in Seq(SchemaPermissions)
  BY DEF CatalogPermissions
<1>2. cq \in CatalogPermissions
  BY <1>1, ReverseProperties DEF CatalogPermissions
<1>3. /\ cq.catalog = cp.catalog /\ cq.base = cp.base /\ cq.management = cp.management
      /\ cq.schemas = Reverse(cp.schemas)
  BY DEF CatalogPermissions
<1>4. /\ Unique(cq.schemas, "schema") /\ DOMAIN cq.schemas \subseteq Nat
      /\ DOMAIN cp.schemas \subseteq Nat
  BY <1>1, <1>3, ReverseUnique, ReverseProperties, LenProperties
<1> HIDE DEF cq
<1>5. ASSUME NEW sp, NEW u PROVE InSchema(cq, sp, u) = InSchema(cp, sp, u)
  <2>1. EffectiveManagement(cq, sp) = EffectiveManagement(cp, sp)
    BY <1>3 DEF EffectiveManagement, CatalogManagement
  <2>2. EffectiveBase(cq, sp) = EffectiveBase(cp, sp)
    BY <1>3 DEF EffectiveBase
  <2> QED
    BY <2>1, <2>2, InSchemaInherits
<1>6. CASE \E j \in DOMAIN cp.schemas : cp.schemas[j].schema = s
  <2>1. PICK j \in DOMAIN cp.schemas : cp.schemas[j].schema = s
    BY <1>6
  <2>2. /\ n - j + 1 \in DOMAIN cq.schemas /\ cq.schemas[n - j + 1] = cp.schemas[j]
    BY <1>1, <1>3, ReverseProperties
  <2>3. InCatalog(cp, s, t) = InSchema(cp, cp.schemas[j], t)
    BY <1>4, <2>1, InCatalogFinds
  <2>4. InCatalog(cq, s, t) = InSchema(cq, cp.schemas[j], t)
    BY <1>2, <1>4, <2>1, <2>2, InCatalogFinds
  <2> QED
    BY <1>2, <1>3, <1>5, <2>3, <2>4 DEF cq
<1>7. CASE ~\E j \in DOMAIN cp.schemas : cp.schemas[j].schema = s
  <2>1. ASSUME NEW j \in DOMAIN cq.schemas PROVE cq.schemas[j].schema # s
    <3>1. j \in DOMAIN cp.schemas
      BY <1>1, <1>3, ReverseProperties
    <3>2. n - j + 1 \in DOMAIN cp.schemas /\ cq.schemas[j] = cp.schemas[n - j + 1]
      BY <1>1, <1>3, <3>1, ReverseProperties
    <3> QED
      BY <1>7, <3>2
  <2>2. InCatalog(cq, s, t) = InCatalog(cp, s, t)
    BY <1>3, <1>7, <2>1, InCatalogMisses DEF CatalogManagement
  <2> QED
    BY <1>2, <1>3, <2>2 DEF cq
<1> QED
  BY <1>6, <1>7

\* Listing catalogs and schemas in another order changes nothing (OrderIrrelevant).
THEOREM AnyOrder == Spec => []OrderIrrelevant
<1>1. ASSUME Inv, Accepted, NEW a \in Probes
      PROVE  LET reordered == [i \in DOMAIN Reverse(policy) |->
                                 [Reverse(policy)[i] EXCEPT !.schemas = Reverse(@)]]
             IN Permits(policy, a) <=> Permits(reordered, a)
  <2> DEFINE q == [i \in DOMAIN Reverse(policy) |->
                     [Reverse(policy)[i] EXCEPT !.schemas = Reverse(@)]]
             n == Len(policy)
  <2>1. policy \in Seq(CatalogPermissions) /\ n \in Nat /\ DOMAIN policy = 1..n
    BY <1>1, AcceptedPolicy, LenProperties DEF Policies
  <2>2. /\ DOMAIN q = DOMAIN policy
        /\ \A i \in DOMAIN policy :
             /\ n - i + 1 \in DOMAIN policy
             /\ q[n - i + 1] = [policy[i] EXCEPT !.schemas = Reverse(@)]
             /\ q[i] = [policy[n - i + 1] EXCEPT !.schemas = Reverse(@)]
    BY <2>1, ReverseProperties
  <2> HIDE DEF q
  <2>3. ASSUME NEW i \in DOMAIN policy
        PROVE  /\ q[i] \in CatalogPermissions
               /\ q[i].catalog = policy[n - i + 1].catalog
    <3>1. /\ policy[n - i + 1] \in CatalogPermissions
          /\ Unique(policy[n - i + 1].schemas, "schema")
          /\ q[i] = [policy[n - i + 1] EXCEPT !.schemas = Reverse(@)]
      BY <1>1, <2>2, AcceptedPolicy
    <3> QED
      BY <3>1, SchemasReversed
  <2>4. Unique(q, "catalog")
    <3> SUFFICES ASSUME NEW i \in DOMAIN policy, NEW j \in DOMAIN policy,
                        q[i].catalog = q[j].catalog
                 PROVE  i = j
      BY <2>2 DEF Unique
    <3>1. policy[n - i + 1].catalog = policy[n - j + 1].catalog
      BY <2>3
    <3>2. n - i + 1 = n - j + 1
      BY <1>1, <2>2, <3>1, AcceptedPolicy DEF Unique
    <3> QED
      BY <2>1, <3>2
  <2>5. CASE \E i \in DOMAIN policy : policy[i].catalog = a.catalog
    <3>1. PICK i \in DOMAIN policy : policy[i].catalog = a.catalog
      BY <2>5
    <3>2. /\ n - i + 1 \in DOMAIN q /\ q[n - i + 1].catalog = a.catalog
          /\ InCatalog(q[n - i + 1], a.schema, a.name) = InCatalog(policy[i], a.schema, a.name)
      <4>1. /\ policy[i] \in CatalogPermissions /\ Unique(policy[i].schemas, "schema")
            /\ n - i + 1 \in DOMAIN q
            /\ q[n - i + 1] = [policy[i] EXCEPT !.schemas = Reverse(@)]
        BY <1>1, <2>2, AcceptedPolicy
      <4> QED
        BY <3>1, <4>1, SchemasReversed
    <3>3. Lookup(policy, a.catalog, a.schema, a.name) = InCatalog(policy[i], a.schema, a.name)
      BY <1>1, <3>1, AcceptedPolicy, LookupFinds
    <3>4. Lookup(q, a.catalog, a.schema, a.name) = InCatalog(q[n - i + 1], a.schema, a.name)
      BY <2>1, <2>2, <2>4, <3>2, LookupFinds
    <3> QED
      BY <3>2, <3>3, <3>4 DEF Permits, q
  <2>6. CASE ~\E i \in DOMAIN policy : policy[i].catalog = a.catalog
    <3>1. ASSUME NEW i \in DOMAIN q PROVE q[i].catalog # a.catalog
      <4>1. i \in DOMAIN policy /\ n - i + 1 \in DOMAIN policy
        BY <2>2
      <4>2. q[i].catalog = policy[n - i + 1].catalog
        BY <2>3, <4>1
      <4> QED
        BY <2>6, <4>1, <4>2
    <3> QED
      BY <2>6, <3>1, LookupMisses DEF Permits, q
  <2> QED
    BY <2>5, <2>6
<1>2. Inv => OrderIrrelevant
  BY <1>1 DEF OrderIrrelevant
<1> QED
  BY <1>2, Invariance, PTL

\* A change to one catalog is invisible in the others.
LEMMA OneCatalogChanged ==
  ASSUME NEW p, DOMAIN p \subseteq Nat, Unique(p, "catalog"), NEW i \in DOMAIN p,
         NEW q, DOMAIN q = DOMAIN p, q[i].catalog = p[i].catalog,
         \A k \in DOMAIN p \ {i} : q[k] = p[k], NEW c, NEW s, NEW t
  PROVE  IF c = p[i].catalog
           THEN Lookup(p, c, s, t) = InCatalog(p[i], s, t) /\ Lookup(q, c, s, t) = InCatalog(q[i], s, t)
           ELSE Lookup(p, c, s, t) = Lookup(q, c, s, t)
<1>1. \A k \in DOMAIN p : q[k].catalog = p[k].catalog
  OBVIOUS
<1>2. Unique(q, "catalog")
  BY <1>1 DEF Unique
<1>3. CASE c = p[i].catalog
  BY <1>2, <1>3, LookupFinds
<1>4. CASE c # p[i].catalog /\ \E k \in DOMAIN p : p[k].catalog = c
  <2>1. PICK k \in DOMAIN p : p[k].catalog = c
    BY <1>4
  <2>2. k # i /\ q[k] = p[k] /\ q[k].catalog = c
    BY <1>4, <2>1
  <2>3. Lookup(p, c, s, t) = InCatalog(p[k], s, t)
    BY <2>1, LookupFinds
  <2>4. Lookup(q, c, s, t) = InCatalog(q[k], s, t)
    BY <1>2, <2>1, <2>2, LookupFinds
  <2> QED
    BY <1>4, <2>2, <2>3, <2>4
<1>5. CASE c # p[i].catalog /\ ~\E k \in DOMAIN p : p[k].catalog = c
  <2>1. Lookup(p, c, s, t) = Nothing
    BY <1>5, LookupMisses
  <2>2. Lookup(q, c, s, t) = Nothing
    BY <1>1, <1>5, LookupMisses
  <2> QED
    BY <1>5, <2>1, <2>2
<1> QED
  BY <1>3, <1>4, <1>5

\* In one catalog, a higher base access grants at least as much.
LEMMA HigherBaseInCatalog ==
  ASSUME NEW cp, DOMAIN cp.schemas \subseteq Nat, Unique(cp.schemas, "schema"),
         NEW cq, cq.management = cp.management, cq.schemas = cp.schemas,
         LevelOf(cp.base) <= LevelOf(cq.base), NEW s, NEW t, NEW op,
         Allows(InCatalog(cp, s, t), op)
  PROVE  Allows(InCatalog(cq, s, t), op)
<1>1. CatalogManagement(cq) = CatalogManagement(cp)
  BY DEF CatalogManagement
<1>2. CASE \E j \in DOMAIN cp.schemas : cp.schemas[j].schema = s
  <2>1. PICK j \in DOMAIN cp.schemas : cp.schemas[j].schema = s
    BY <1>2
  <2> DEFINE sp     == cp.schemas[j]
             steps  == OverrideSteps(cp, sp)
             naming == {k \in DOMAIN steps : t \in steps[k].tables}
  <2>2. InCatalog(cp, s, t) = InSchema(cp, sp, t) /\ InCatalog(cq, s, t) = InSchema(cq, sp, t)
    BY <2>1, InCatalogFinds
  <2>3. EffectiveManagement(cq, sp) = EffectiveManagement(cp, sp)
    BY <1>1 DEF EffectiveManagement
  <2>4. OverrideSteps(cq, sp) = steps
    BY <2>3 DEF OverrideSteps
  <2>5. EffectiveBase(cp, sp) \in 0..4 /\ EffectiveBase(cq, sp) \in 0..4
    BY LevelType DEF EffectiveBase
  <2>6. EffectiveBase(cp, sp) <= EffectiveBase(cq, sp)
    <3>1. CASE sp.base # ""
      <4>1. EffectiveBase(cp, sp) = EffectiveBase(cq, sp)
        BY <3>1 DEF EffectiveBase
      <4> QED
        BY <2>5, <4>1
    <3>2. CASE sp.base = ""
      BY <3>2 DEF EffectiveBase
    <3> QED
      BY <3>1, <3>2
  <2>7. CASE naming # {}
    BY <2>2, <2>4, <2>7 DEF InSchema
  <2>8. CASE naming = {} /\ sp.all_tables
    <3>1. /\ InSchema(cp, sp, t) = Permission(EffectiveBase(cp, sp), EffectiveManagement(cp, sp))
          /\ InSchema(cq, sp, t) = Permission(EffectiveBase(cq, sp), EffectiveManagement(cp, sp))
      BY <2>3, <2>4, <2>8 DEF InSchema
    <3> QED
      BY <2>2, <2>5, <2>6, <3>1, HigherLevelsInclude
  <2>9. CASE naming = {} /\ ~sp.all_tables
    BY <2>2, <2>4, <2>9 DEF InSchema
  <2> QED
    BY <2>7, <2>8, <2>9
<1>3. CASE ~\E j \in DOMAIN cp.schemas : cp.schemas[j].schema = s
  <2>1. InCatalog(cp, s, t) = Permission(LevelOf(cp.base), CatalogManagement(cp))
    BY <1>3, InCatalogMisses
  <2>2. InCatalog(cq, s, t) = Permission(LevelOf(cq.base), CatalogManagement(cp))
    BY <1>1, <1>3, InCatalogMisses
  <2> QED
    BY <2>1, <2>2, LevelType, HigherLevelsInclude
<1> QED
  BY <1>2, <1>3

LEMMA ChangedPolicy ==
  ASSUME NEW p \in Policies, NEW i \in DOMAIN p, NEW cq
  PROVE  /\ DOMAIN [p EXCEPT ![i] = cq] = DOMAIN p
         /\ [p EXCEPT ![i] = cq][i] = cq
         /\ \A k \in DOMAIN p \ {i} : [p EXCEPT ![i] = cq][k] = p[k]
OBVIOUS

\* Raising a catalog's base access withdraws nothing (RaisingBaseKeepsGrants).
THEOREM RaisingIsMonotone == Spec => []RaisingBaseKeepsGrants
<1>1. ASSUME Inv, Accepted, NEW i \in DOMAIN policy, NEW level \in DOMAIN AccessLevel,
             LevelOf(policy[i].base) <= LevelOf(level), NEW a \in Probes, Permits(policy, a)
      PROVE  Permits([policy EXCEPT ![i].base = level], a)
  <2> DEFINE cq == [policy[i] EXCEPT !.base = level]
             q  == [policy EXCEPT ![i] = cq]
  <2>1. /\ policy[i] \in CatalogPermissions
        /\ DOMAIN policy[i].schemas \subseteq Nat /\ Unique(policy[i].schemas, "schema")
    BY <1>1, AcceptedPolicy
  <2>2. /\ cq.catalog = policy[i].catalog /\ cq.base = level
        /\ cq.management = policy[i].management /\ cq.schemas = policy[i].schemas
    BY <2>1 DEF CatalogPermissions
  <2>3. q = [policy EXCEPT ![i].base = level]
    OBVIOUS
  <2> HIDE DEF cq
  <2>4. /\ DOMAIN q = DOMAIN policy /\ q[i] = cq
        /\ \A k \in DOMAIN policy \ {i} : q[k] = policy[k]
    BY <1>1, AcceptedPolicy, ChangedPolicy
  <2> HIDE DEF q
  <2>5. IF a.catalog = policy[i].catalog
          THEN /\ Lookup(policy, a.catalog, a.schema, a.name) = InCatalog(policy[i], a.schema, a.name)
               /\ Lookup(q, a.catalog, a.schema, a.name) = InCatalog(cq, a.schema, a.name)
          ELSE Lookup(policy, a.catalog, a.schema, a.name) = Lookup(q, a.catalog, a.schema, a.name)
    BY <1>1, <2>2, <2>4, AcceptedPolicy, OneCatalogChanged
  <2>6. Permits(q, a)
    BY <1>1, <2>1, <2>2, <2>5, HigherBaseInCatalog DEF Permits
  <2> QED
    BY <2>3, <2>6
<1>2. Inv => RaisingBaseKeepsGrants
  BY <1>1 DEF RaisingBaseKeepsGrants
<1> QED
  BY <1>2, Invariance, PTL

\* A schema with a base access and management of its own does not depend on its
\* catalog's (SchemaReplacesCatalog).
THEOREM SchemaIsCutOff == Spec => []SchemaReplacesCatalog
<1>1. ASSUME Inv, Accepted, NEW i \in DOMAIN policy, NEW j \in DOMAIN policy[i].schemas,
             policy[i].schemas[j].base # "", policy[i].schemas[j].management # <<>>,
             NEW a \in Probes, a.catalog = policy[i].catalog,
             a.schema = policy[i].schemas[j].schema
      PROVE  Permits(policy, a) <=>
               Permits([policy EXCEPT ![i].base = "none", ![i].management = <<>>], a)
  <2> DEFINE cp == policy[i]
             cq == [policy[i] EXCEPT !.base = "none", !.management = <<>>]
             sp == policy[i].schemas[j]
             q  == [policy EXCEPT ![i] = cq]
  <2>1. /\ cp \in CatalogPermissions
        /\ DOMAIN cp.schemas \subseteq Nat /\ Unique(cp.schemas, "schema")
    BY <1>1, AcceptedPolicy
  <2>2. cq.catalog = cp.catalog /\ cq.schemas = cp.schemas
    BY <2>1 DEF CatalogPermissions
  <2>3. q = [policy EXCEPT ![i].base = "none", ![i].management = <<>>]
    BY <1>1, AcceptedPolicy
  <2> HIDE DEF cq
  <2>4. /\ DOMAIN q = DOMAIN policy /\ q[i] = cq
        /\ \A k \in DOMAIN policy \ {i} : q[k] = policy[k]
    BY <1>1, AcceptedPolicy, ChangedPolicy
  <2> HIDE DEF q
  <2>5. IF a.catalog = policy[i].catalog
          THEN /\ Lookup(policy, a.catalog, a.schema, a.name) = InCatalog(policy[i], a.schema, a.name)
               /\ Lookup(q, a.catalog, a.schema, a.name) = InCatalog(cq, a.schema, a.name)
          ELSE Lookup(policy, a.catalog, a.schema, a.name) = Lookup(q, a.catalog, a.schema, a.name)
    <3>1. DOMAIN policy \subseteq Nat /\ Unique(policy, "catalog") /\ q[i].catalog = policy[i].catalog
      BY <1>1, <2>2, <2>4, AcceptedPolicy
    <3> QED
      BY <2>4, <3>1, OneCatalogChanged
  <2>6. /\ InCatalog(cp, a.schema, a.name) = InSchema(cp, sp, a.name)
        /\ InCatalog(cq, a.schema, a.name) = InSchema(cq, sp, a.name)
    <3>1. /\ Unique(cq.schemas, "schema") /\ j \in DOMAIN cq.schemas
          /\ cq.schemas[j] = sp /\ sp.schema = a.schema
      BY <1>1, <2>1, <2>2
    <3>2. InCatalog(cp, sp.schema, a.name) = InSchema(cp, sp, a.name)
      BY <2>1, InCatalogFinds
    <3>3. InCatalog(cq, sp.schema, a.name) = InSchema(cq, sp, a.name)
      BY <2>1, <2>2, <3>1, InCatalogFinds
    <3> QED
      BY <3>1, <3>2, <3>3
  <2>7. /\ EffectiveManagement(cp, sp) = EffectiveManagement(cq, sp)
        /\ EffectiveBase(cp, sp) = EffectiveBase(cq, sp)
    BY <1>1 DEF EffectiveManagement, EffectiveBase
  <2>8. InSchema(cp, sp, a.name) = InSchema(cq, sp, a.name)
    BY <2>7, InSchemaInherits
  <2> QED
    BY <1>1, <2>3, <2>5, <2>6, <2>8 DEF Permits
<1>2. Inv => SchemaReplacesCatalog
  BY <1>1 DEF SchemaReplacesCatalog
<1> QED
  BY <1>2, Invariance, PTL

\* When a table is denied and no granular override names it, its last override
\* is the denial.
LEMMA DenialIsLast ==
  ASSUME NEW cp, NEW sp \in SchemaPermissions, NEW t \in sp.overrides.denied,
         \A g \in DOMAIN sp.overrides.granular : t \notin sp.overrides.granular[g].tables
  PROVE  InSchema(cp, sp, t) = Nothing
<1> DEFINE m      == EffectiveManagement(cp, sp)
           ov     == sp.overrides
           first  == << [tables |-> ov.read_only,  grants |-> Permission(AccessLevel.read, m)],
                        [tables |-> ov.read_write, grants |-> Permission(AccessLevel.read_write, m)],
                        [tables |-> ov.append,     grants |-> Permission(AccessLevel.append, m)],
                        [tables |-> ov.denied,     grants |-> Nothing] >>
           second == [g \in DOMAIN ov.granular |->
                        [tables |-> ov.granular[g].tables,
                         grants |-> GranularPermission(ov.granular[g].actions, m)]]
           n      == Len(ov.granular)
           steps  == OverrideSteps(cp, sp)
           naming == {k \in DOMAIN steps : t \in steps[k].tables}
           S      == {first[k] : k \in 1..4} \cup {second[g] : g \in DOMAIN ov.granular}
<1>1. steps = first \o second
  BY DEF OverrideSteps
<1>2. ov.granular \in Seq([tables : SUBSET STRING, actions : SUBSET STRING])
  BY DEF SchemaPermissions, SchemaOverrides
<1>3. n \in Nat /\ DOMAIN ov.granular = 1..n
  BY <1>2, LenProperties
<1>4. /\ first \in Seq(S) /\ Len(first) = 4
      /\ first[4] = [tables |-> ov.denied, grants |-> Nothing]
  OBVIOUS
<1>5. /\ second \in [1..n -> S]
      /\ \A g \in 1..n : second[g].tables = ov.granular[g].tables
  BY <1>3
<1> HIDE DEF first, second, S, steps, n
<1>6. second \in Seq(S) /\ Len(second) = n
  <2>1. second \in Seq(S)
    BY <1>3, <1>5, SeqDef
  <2>2. DOMAIN second = 1..n
    BY <1>5
  <2> QED
    BY <1>3, <2>1, <2>2, LenProperties
<1>7. /\ steps \in Seq(S) /\ Len(steps) = 4 + n
      /\ \A k \in 1..4 + n : steps[k] = IF k <= 4 THEN first[k] ELSE second[k - 4]
  <2>1. /\ first \o second \in Seq(S)
        /\ Len(first \o second) = Len(first) + Len(second)
        /\ \A k \in 1..Len(first) + Len(second) :
             (first \o second)[k] = IF k <= Len(first) THEN first[k] ELSE second[k - Len(first)]
    BY <1>4, <1>6, ConcatProperties
  <2> QED
    BY <1>1, <1>4, <1>6, <2>1
<1>8. DOMAIN steps = 1..4 + n
  BY <1>7, LenProperties
<1>9. 4 \in naming /\ steps[4].grants = Nothing
  <2>1. 4 \in 1..4 + n /\ steps[4] = first[4]
    BY <1>3, <1>7
  <2> QED
    BY <1>4, <1>8, <2>1
<1>10. ASSUME NEW k \in naming PROVE k \in Nat /\ k <= 4
  <2>1. k \in 1..4 + n /\ t \in steps[k].tables
    BY <1>8
  <2>2. ASSUME k > 4 PROVE FALSE
    <3>1. k - 4 \in 1..n /\ ~(k <= 4)
      BY <1>3, <2>1, <2>2
    <3>2. steps[k] = second[k - 4]
      BY <1>7, <2>1, <3>1
    <3>3. steps[k].tables = ov.granular[k - 4].tables
      BY <1>5, <3>1, <3>2
    <3> QED
      BY <1>3, <2>1, <3>1, <3>3
  <2> QED
    BY <1>3, <2>1, <2>2
<1> HIDE DEF naming
<1>11. Latest(naming) = 4
  BY <1>9, <1>10 DEF Latest
<1> QED
  BY <1>9, <1>11 DEF InSchema, naming, steps

LEMMA NothingIsNothing ==
  ASSUME NEW op \in OpTypes
  PROVE  ~Allows(Nothing, op)
<1>1. /\ Nothing.level = 0 /\ Nothing.granular = FALSE
      /\ ~Nothing.management.ddl /\ ~Nothing.management.index /\ ~Nothing.management.drop
  BY DEF Nothing, Permission, NoManagement, AccessLevel
<1>2. ASSUME op \in Actions PROVE LevelNeeded[op] \in Nat /\ LevelNeeded[op] > 0
  BY <1>2 DEF LevelNeeded, Actions, AccessLevel
<1>3. ~(op \in Actions /\ ~Nothing.granular /\ Nothing.level >= LevelNeeded[op])
  BY <1>1, <1>2
<1>4. ~(op \in Actions /\ Nothing.granular /\ op \in Nothing.actions)
  BY <1>1
<1> QED
  BY <1>1, <1>3, <1>4, Zenon DEF Allows

\* A denied table is closed, unless a granular override names it (DeniedBeatsShorthands).
THEOREM DeniedIsClosed == Spec => []DeniedBeatsShorthands
<1>1. ASSUME Inv, Accepted, NEW i \in DOMAIN policy, NEW j \in DOMAIN policy[i].schemas,
             NEW a \in Probes, a.catalog = policy[i].catalog,
             a.schema = policy[i].schemas[j].schema,
             a.name \in policy[i].schemas[j].overrides.denied,
             \A g \in DOMAIN policy[i].schemas[j].overrides.granular :
               a.name \notin policy[i].schemas[j].overrides.granular[g].tables
      PROVE  ~Permits(policy, a)
  <2> DEFINE sp == policy[i].schemas[j]
  <2>1. /\ policy[i] \in CatalogPermissions
        /\ DOMAIN policy[i].schemas \subseteq Nat /\ Unique(policy[i].schemas, "schema")
    BY <1>1, AcceptedPolicy
  <2>2. sp \in SchemaPermissions
    <3>1. policy[i].schemas \in Seq(SchemaPermissions)
      BY <2>1 DEF CatalogPermissions
    <3> QED
      BY <3>1, LenProperties, ElementOfSeq
  <2>3. Lookup(policy, a.catalog, a.schema, a.name) = InCatalog(policy[i], a.schema, a.name)
    BY <1>1, AcceptedPolicy, LookupFinds
  <2>4. InCatalog(policy[i], a.schema, a.name) = InSchema(policy[i], sp, a.name)
    BY <1>1, <2>1, InCatalogFinds
  <2>5. InSchema(policy[i], sp, a.name) = Nothing
    BY <1>1, <2>2, DenialIsLast
  <2>6. a.op \in OpTypes
    BY ProbesAssumption DEF Accesses
  <2>7. ~Allows(Nothing, a.op)
    BY <2>6, NothingIsNothing
  <2> QED
    BY <2>3, <2>4, <2>5, <2>7 DEF Permits
<1>2. Inv => DeniedBeatsShorthands
  <2> SUFFICES ASSUME Inv, Accepted, NEW i \in DOMAIN policy, NEW j \in DOMAIN policy[i].schemas,
                      NEW a \in Probes, a.catalog = policy[i].catalog,
                      a.schema = policy[i].schemas[j].schema,
                      a.name \in policy[i].schemas[j].overrides.denied
                        \ UNION {policy[i].schemas[j].overrides.granular[g].tables :
                                   g \in DOMAIN policy[i].schemas[j].overrides.granular}
               PROVE  ~Permits(policy, a)
    BY DEF DeniedBeatsShorthands
  <2> QED
    BY <1>1
<1> QED
  BY <1>2, Invariance, PTL
=============================================================================
