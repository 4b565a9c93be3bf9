-------------------------- MODULE Preprocess_proofs --------------------------
(***************************************************************************)
(* For every well-formed statement, every configuration and every policy:  *)
(* what PreprocessQuery hands over to the engine, whatever the order in    *)
(* which the walkers visit the fields of a message.                        *)
(***************************************************************************)
EXTENDS Preprocess, FiniteSetTheorems, SequenceTheorems, WellFoundedInduction, TLAPS

-----------------------------------------------------------------------------
(* A walk, as the set of the nodes visited so far and the worklist: a node *)
(* is visited once, after its parent.                                      *)

Covers(seen, work) ==
  /\ seen \subseteq Nodes(statement) /\ work \subseteq Nodes(statement)
  /\ Roots(statement) \subseteq seen \cup work
  /\ \A n \in seen : Children(statement, n) \subseteq seen \cup work
  /\ seen \cap work = {}
  /\ \A n \in seen \cup work : statement[n].parent \in seen \cup {0}

LEMMA TreeFacts ==
  ASSUME WellFormed(statement)
  PROVE  /\ Nodes(statement) \subseteq Nat
         /\ \A n \in Nodes(statement) : /\ statement[n] \in TreeNodes
                                        /\ statement[n].parent \in 0..(n - 1)
         /\ \A n \in Nodes(statement) : statement[n].parent # 0 => statement[n].parent \in Nodes(statement)
<1>1. statement \in Seq(TreeNodes) /\ IsTree(statement)
  BY DEF WellFormed
<1>2. Len(statement) \in Nat /\ Nodes(statement) = 1..Len(statement)
  BY <1>1, LenProperties DEF Nodes
<1>3. \A n \in Nodes(statement) : statement[n] \in TreeNodes /\ statement[n].parent \in 0..(n - 1)
  BY <1>1, <1>2, ElementOfSeq DEF IsTree
<1>4. \A n \in Nodes(statement) : statement[n].parent # 0 => statement[n].parent \in Nodes(statement)
  BY <1>2, <1>3
<1> QED
  BY <1>2, <1>3, <1>4

LEMMA WalkStarts == Covers({}, Roots(statement))
BY DEF Covers, Roots

LEMMA WalkSteps ==
  ASSUME WellFormed(statement), NEW seen, NEW work, Covers(seen, work),
         NEW n \in Nodes(statement), n \in work
  PROVE  Covers(seen \cup {n}, (work \ {n}) \cup Children(statement, n))
<1> DEFINE kids == Children(statement, n)
<1>1. n \in Nat /\ \A m \in kids : m \in Nodes(statement) /\ m \in Nat /\ n \in 0..(m - 1)
  BY TreeFacts DEF Children
<1>2. n \notin kids
  BY <1>1
<1>3. n # 0
  BY TreeFacts
<1>4. kids \cap seen = {}
  BY <1>3 DEF Covers, Children
<1> QED
  BY <1>2, <1>4 DEF Covers, Children

\* A leaf is left where it is.
LEMMA LeafSteps ==
  ASSUME WellFormed(statement), NEW seen, NEW work, Covers(seen, work),
         NEW n \in Nodes(statement), n \in work, statement[n].kind \in {"rangevar", "colref"}
  PROVE  Covers(seen \cup {n}, (work \ {n}) \cup {})
<1>1. Children(statement, n) = {}
  BY DEF WellFormed, Children
<1> QED
  BY <1>1, WalkSteps

\* A walk that has nothing left has visited everything: the first node it missed
\* would be a root or the child of a node it visited.
LEMMA WalkEnds ==
  ASSUME WellFormed(statement), NEW seen, Covers(seen, {})
  PROVE  seen = Nodes(statement)
<1> DEFINE Missed == Nodes(statement) \ seen
           Less   == {ss \in Nat \X Nat : ss[1] < ss[2]}
<1> SUFFICES ASSUME Missed # {} PROVE FALSE
  BY DEF Covers
<1>1. Missed \subseteq Nat
  BY TreeFacts
<1>2. IsWellFoundedOn(Less, Nat)
  BY NatLessThanWellFounded DEF OpToRel
<1>3. PICK n \in Missed : \A m \in Missed : ~(<<m, n>> \in Less)
  BY <1>1, <1>2, WFMin
<1>4. n \in Nodes(statement) /\ n \in Nat /\ n \notin seen /\ statement[n].parent \in 0..(n - 1)
  BY TreeFacts
<1>5. CASE statement[n].parent = 0
  <2>1. n \in Roots(statement)
    BY <1>4, <1>5 DEF Roots
  <2> QED
    BY <1>4, <2>1 DEF Covers
<1>6. CASE statement[n].parent # 0
  <2> DEFINE m == statement[n].parent
  <2>1. m \in Nodes(statement) /\ m \in Nat /\ m < n
    BY <1>4, <1>6, TreeFacts
  <2>2. m \in seen
    BY <1>3, <1>4, <2>1
  <2>3. n \in Children(statement, m)
    BY <1>4 DEF Children
  <2> QED
    BY <1>4, <2>2, <2>3 DEF Covers
<1> QED
  BY <1>5, <1>6

-----------------------------------------------------------------------------
(* Extract.                                                                *)

Shape ==
  /\ statement \in Statements /\ validator \in Validators
  /\ pc \in Phases /\ error \in Errors /\ (error # "" => pc = "done")
  /\ Nodes(ast) = Nodes(statement)
  /\ pc \in {"parse", "extract", "access", "plan"} => ast = statement

\* What Extract has collected is what there is to collect in the visited nodes.
Collected(seen) ==
  /\ refs = {n \in seen : IsRangeVar(statement[n])}
  /\ cteNames = {statement[n].table.name : n \in {m \in seen : statement[m].kind = "cte"}}

Extracting ==
  /\ pc = "parse" \/ error = "parse" => refs = {} /\ cteNames = {}
  /\ pc = "extract" =>
       \E seen \in SUBSET Nodes(statement) : Covers(seen, todo) /\ Collected(seen)
  /\ cteNames \subseteq CteNames(statement)

ExtractInv == Shape /\ Extracting /\ ExtractExact

LEMMA StatementFacts ==
  ASSUME Shape
  PROVE  WellFormed(statement)
BY StatementsAssumption DEF Shape

LEMMA InitExtract == Init => ExtractInv
BY DEF Init, ExtractInv, Shape, Extracting, ExtractExact, Phases, Errors

\* The inputs are never written.
LEMMA InputKept ==
  ASSUME [Next]_vars
  PROVE  statement' = statement /\ validator' = validator
BY DEF Next, vars, input, Parse, ExtractNode, CheckQualified, AccessNode, CheckPolicy, PlanRef,
       PhaseDone, ReplaceNode, RenameNode, ColumnRefNode, Deparse

\* So what is defined from the statement alone stays as it is.
LEMMA StatementKept ==
  ASSUME statement' = statement
  PROVE  /\ TableRefs' = TableRefs
         /\ \A n : TypeOf(n)' = TypeOf(n)
         /\ \A seen, work : Covers(seen, work)' <=> Covers(seen, work)
BY DEF TableRefs, TypeOf, Covers

LEMMA ExtractNodeKeeps ==
  ASSUME ExtractInv, ExtractNode
  PROVE  ExtractInv'
<1>1. statement' = statement /\ validator' = validator /\ ast' = ast /\ ast = statement
  BY DEF ExtractInv, Shape, ExtractNode, input
<1>2. pc = "extract" /\ pc' = "extract" /\ error' = error
  BY DEF ExtractNode, Visit
<1>3. Shape' /\ ExtractExact'
  BY <1>1, <1>2 DEF ExtractInv, Shape, ExtractExact
<1>4. PICK seen \in SUBSET Nodes(statement) : Covers(seen, todo) /\ Collected(seen)
  BY <1>2 DEF ExtractInv, Extracting
<1>5. PICK n \in todo :
        /\ todo' = (todo \ {n}) \cup Children(statement, n)
        /\ refs' = refs \cup (IF IsRangeVar(statement[n]) THEN {n} ELSE {})
        /\ cteNames' = cteNames \cup
             (IF statement[n].kind = "cte" THEN {statement[n].table.name} ELSE {})
  BY <1>1 DEF ExtractNode, Visit
<1>6. n \in Nodes(statement)
  BY <1>4 DEF Covers
<1> DEFINE next == seen \cup {n}
<1>7. Covers(next, todo') /\ next \in SUBSET Nodes(statement)
  BY <1>4, <1>5, <1>6, WalkSteps, StatementFacts DEF ExtractInv
<1>8. refs' = {m \in next : IsRangeVar(statement[m])}
  BY <1>4, <1>5 DEF Collected
<1>9. cteNames' = {statement[m].table.name : m \in {k \in next : statement[k].kind = "cte"}}
  BY <1>4, <1>5 DEF Collected
<1>10. cteNames' \subseteq CteNames(statement)
  BY <1>7, <1>9 DEF CteNames
<1>11. Covers(next, todo)' /\ Collected(next)'
  BY <1>1, <1>7, <1>8, <1>9 DEF Covers, Collected
<1>12. error # "parse"
  BY <1>2 DEF ExtractInv, Shape
<1> QED
  BY <1>1, <1>2, <1>3, <1>7, <1>10, <1>11, <1>12 DEF ExtractInv, Extracting

LEMMA CheckQualifiedKeeps ==
  ASSUME ExtractInv, CheckQualified
  PROVE  ExtractInv' /\ refs' = TableRefs
<1>1. statement' = statement /\ validator' = validator /\ ast' = ast /\ ast = statement
      /\ cteNames' = cteNames
  BY DEF ExtractInv, Shape, CheckQualified, input
<1>2. pc = "extract" /\ todo = {} /\ error = ""
  BY DEF CheckQualified, ExtractInv, Shape
<1>3. pc' \in {"done", "plan", "access"} /\ error' \in {"", "unqualified"}
      /\ (error' # "" => pc' = "done")
  BY <1>2 DEF CheckQualified, Refuse, Enter
<1>4. PICK seen \in SUBSET Nodes(statement) : Covers(seen, {}) /\ Collected(seen)
  BY <1>2 DEF ExtractInv, Extracting
<1>5. seen = Nodes(statement)
  BY <1>4, StatementFacts, WalkEnds DEF ExtractInv
<1>6. cteNames = CteNames(statement)
  BY <1>4, <1>5 DEF Collected, CteNames
<1>7. refs' = TableRefs
  BY <1>1, <1>4, <1>5, <1>6 DEF CheckQualified, Collected, TableRefs, RangeVars
<1>8. ExtractExact'
  BY <1>1, <1>7, StatementKept DEF ExtractExact
<1>9. Shape'
  BY <1>1, <1>3 DEF ExtractInv, Shape, Phases, Errors
<1>10. Extracting'
  BY <1>1, <1>3 DEF ExtractInv, Extracting
<1> QED
  BY <1>7, <1>8, <1>9, <1>10 DEF ExtractInv

LEMMA ParseKeeps ==
  ASSUME ExtractInv, Parse
  PROVE  ExtractInv'
<1>1. statement' = statement /\ validator' = validator /\ ast' = ast /\ ast = statement
      /\ cteNames' = {} /\ refs' = {}
  BY DEF ExtractInv, Shape, Parse, Extracting, input
<1>2. \/ pc' = "extract" /\ todo' = Roots(statement) /\ error' = error
      \/ pc' = "done" /\ error' = "parse"
  BY <1>1 DEF Parse, Enter, Refuse
<1>3. error = ""
  BY DEF Parse, ExtractInv, Shape
<1>4. Shape' /\ ExtractExact'
  BY <1>1, <1>2, <1>3 DEF ExtractInv, Shape, Phases, Errors, ExtractExact
<1>5. Covers({}, Roots(statement))'
  BY <1>1, WalkStarts, StatementKept
<1>6. Collected({})'
  BY <1>1 DEF Collected
<1>7. Extracting'
  BY <1>1, <1>2, <1>3, <1>5, <1>6 DEF Extracting
<1> QED
  BY <1>4, <1>7 DEF ExtractInv

\* After Extract nothing it found is written again.
LEMMA LaterKeeps ==
  ASSUME ExtractInv, pc \notin {"parse", "extract"}, [Next]_vars
  PROVE  ExtractInv' /\ refs' = refs
<1>1. statement' = statement /\ validator' = validator
  BY InputKept
<1>2. refs' = refs /\ cteNames' = cteNames
  BY DEF Next, vars, Parse, ExtractNode, CheckQualified, AccessNode, CheckPolicy, PlanRef,
         PhaseDone, ReplaceNode, RenameNode, ColumnRefNode, Deparse, plan
<1>3. \/ pc' = pc /\ error' = error
      \/ /\ pc' \in Phases \ {"parse", "extract"} /\ error' \in Errors \ {"parse"}
         /\ (error' # "" => pc' = "done") /\ error = ""
  <2> USE DEF ExtractInv, Shape, Refuse, Enter, Visit, Phases, Errors
  <2>1. CASE AccessNode \/ ReplaceNode \/ RenameNode \/ ColumnRefNode \/ UNCHANGED vars
    BY <2>1 DEF AccessNode, ReplaceNode, RenameNode, ColumnRefNode, vars
  <2>2. CASE CheckPolicy
    BY <2>2 DEF CheckPolicy
  <2>3. CASE PlanRef
    BY <2>3 DEF PlanRef
  <2>4. CASE PhaseDone
    BY <2>4 DEF PhaseDone, EnterRewrite
  <2>5. CASE Deparse
    BY <2>5 DEF Deparse
  <2> QED
    BY <2>1, <2>2, <2>3, <2>4, <2>5 DEF Next, Parse, ExtractNode, CheckQualified
<1>4. Nodes(ast') = Nodes(ast)
  BY DEF Next, vars, Parse, ExtractNode, CheckQualified, AccessNode, CheckPolicy, PlanRef,
         PhaseDone, ReplaceNode, RenameNode, ColumnRefNode, Deparse, Nodes
<1>5. pc' \in {"parse", "extract", "access", "plan"} => pc \in {"access", "plan"} /\ ast' = ast
  BY DEF Next, vars, Parse, ExtractNode, CheckQualified, AccessNode, CheckPolicy, PlanRef,
         PhaseDone, ReplaceNode, RenameNode, ColumnRefNode, Deparse, Refuse, Enter, Visit,
         EnterRewrite
<1>6. Shape'
  BY <1>1, <1>3, <1>4, <1>5 DEF ExtractInv, Shape
<1>7. pc' \notin {"parse", "extract"} /\ (error' = "parse" => error = "parse")
  BY <1>3
<1>8. Extracting'
  BY <1>1, <1>2, <1>7 DEF ExtractInv, Extracting
<1>9. ExtractExact'
  <2>1. error' # "parse" => error # "parse"
    BY <1>3
  <2> QED
    BY <1>1, <1>2, <1>7, <2>1, StatementKept DEF ExtractInv, ExtractExact
<1> QED
  BY <1>2, <1>6, <1>8, <1>9 DEF ExtractInv

LEMMA ExtractNext ==
  ASSUME ExtractInv, [Next]_vars
  PROVE  ExtractInv'
<1>1. CASE pc \notin {"parse", "extract"}
  BY <1>1, LaterKeeps
<1>2. CASE UNCHANGED vars
  <2>1. /\ statement' = statement /\ validator' = validator /\ ast' = ast /\ pc' = pc /\ error' = error
        /\ todo' = todo /\ refs' = refs /\ cteNames' = cteNames
    BY <1>2 DEF vars, input
  <2>2. Shape' /\ ExtractExact'
    BY <2>1, StatementKept DEF ExtractInv, Shape, ExtractExact
  <2>3. \A seen : Covers(seen, todo)' /\ Collected(seen)' <=> Covers(seen, todo) /\ Collected(seen)
    BY <2>1 DEF Covers, Collected
  <2>4. Extracting'
    BY <2>1, <2>3 DEF ExtractInv, Extracting
  <2> QED
    BY <2>2, <2>4 DEF ExtractInv
<1>3. CASE Parse
  BY <1>3, ParseKeeps
<1>4. CASE ExtractNode
  BY <1>4, ExtractNodeKeeps
<1>5. CASE CheckQualified
  BY <1>5, CheckQualifiedKeeps
<1>6. pc \in {"parse", "extract"} /\ Next => Parse \/ ExtractNode \/ CheckQualified
  BY DEF Next, AccessNode, CheckPolicy, PlanRef, PhaseDone, ReplaceNode, RenameNode,
         ColumnRefNode, Deparse
<1> QED
  BY <1>1, <1>2, <1>3, <1>4, <1>5, <1>6

LEMMA ExtractInvariance == Spec => []ExtractInv
BY InitExtract, ExtractNext, PTL DEF Spec

\* Extract finds every table reference of any statement and nothing else (ExtractExact).
THEOREM ExtractIsExact == Spec => []ExtractExact
<1>1. ExtractInv => ExtractExact
  BY DEF ExtractInv
<1> QED
  BY <1>1, ExtractInvariance, PTL

-----------------------------------------------------------------------------
(* Validate.                                                               *)

\* What the accesses recorded so far have to do with the statement.
Justified(a) ==
  /\ a \in Nodes(statement) \X OpTypes
  /\ ~NamesCte(statement[a[1]].table, CteNames(statement)) =>
       \/ a[1] \in TableRefs /\ a[2] = "SELECT"
       \/ \E n \in Nodes(statement) : a \in ClassifiedWrites(n)

Modes == {"top", "reads"}

AccessCovers(seen, work) ==
  /\ \A n \in Roots(statement) : <<"top", n>> \in seen \cup work
  /\ \A mode \in Modes, n \in Nodes(statement) : <<mode, n>> \in seen =>
       \A m \in Walked(mode, n) : <<"reads", m>> \in seen \cup work

AccessesOf(seen) ==
  \A mode \in Modes, n \in Nodes(statement) :
    <<mode, n>> \in seen => Accessed(mode, n) \subseteq accesses

\* The part of ClassifiedWritesPermitted that holds from CheckPolicy on.
WritesGranted ==
  /\ \A n \in Roots(statement) : \A a \in ClassifiedWrites(n) : PolicyPermits(a)
  /\ \A n \in InRootWith : statement[n].kind \in DOMAIN WriteOp =>
       \A a \in ClassifiedWrites(n) : PolicyPermits(a)

AccessInv ==
  /\ \A a \in accesses : Justified(a)
  /\ pc = "access" => /\ todo \subseteq Modes \X Nodes(statement)
                      /\ \E seen : AccessCovers(seen, todo) /\ AccessesOf(seen)
  /\ pc \notin {"parse", "extract", "access"} /\ error = "" /\ validator # <<>> => WritesGranted
  /\ DenialHasReason

LEMMA AccessedIsJustified ==
  ASSUME ast = statement, NEW mode \in Modes, NEW n \in Nodes(statement), NEW a \in Accessed(mode, n)
  PROVE  Justified(a)
<1> DEFINE kind == statement[n].kind
           Target(slot) == {m \in Nodes(statement) : /\ statement[m].parent = n
                                                     /\ statement[m].slot = slot}
<1>1. CASE kind = "rangevar"
  <2>1. a = <<n, "SELECT">>
    BY <1>1 DEF Accessed, WriteOp
  <2> QED
    BY <1>1, <2>1 DEF Justified, TableRefs, RangeVars, IsRangeVar, OpTypes
<1>2. \A slot : Relations(n, slot) \subseteq Target(slot)
  BY DEF Relations, ChildrenIn, Children
<1>3. CASE kind \in DOMAIN WriteOp
  <2>1. a \in Target("relation") \X {WriteOp[kind]}
    BY <1>2, <1>3 DEF Accessed, WriteOp
  <2>2. WriteOp[kind] \in OpTypes
    <3>1. kind \in {"insert", "update", "delete"}
      BY <1>3 DEF WriteOp
    <3>2. WriteOp["insert"] = "INSERT" /\ WriteOp["update"] = "UPDATE" /\ WriteOp["delete"] = "DELETE"
      BY DEF WriteOp
    <3> QED
      BY <3>1, <3>2 DEF OpTypes
  <2>3. ASSUME ~NamesCte(statement[a[1]].table, CteNames(statement)) PROVE a \in ClassifiedWrites(n)
    BY <1>3, <2>1, <2>3 DEF ClassifiedWrites, Targets, WriteOp
  <2> QED
    BY <2>1, <2>2, <2>3 DEF Justified
<1>4. CASE mode = "top" /\ kind = "merge"
  <2>1. a \in Relations(n, "relation") \X MergeOps(n)
    BY <1>4 DEF Accessed, WriteOp
  <2>2. PICK m \in Relations(n, "relation"), op \in MergeOps(n) : a = <<m, op>>
    BY <2>1
  <2>3. m \in Target("relation") /\ IsRangeVar(statement[m])
    BY <1>2, <2>2 DEF Relations
  <2>4. MergeOps(n) \subseteq OpTypes
    BY DEF MergeOps, OpTypes
  <2>5. CASE op = "SELECT"
    BY <2>2, <2>3, <2>4, <2>5 DEF Justified, TableRefs, RangeVars
  <2>6. CASE op # "SELECT"
    <3>1. PICK w \in Nodes(statement) :
            /\ statement[w].parent = n /\ statement[w].slot = "when" /\ op = statement[w].cmd
            /\ statement[w].cmd \in {"INSERT", "UPDATE", "DELETE"}
      BY <2>2, <2>6 DEF MergeOps, ChildrenIn, Children
    <3>2. ASSUME ~NamesCte(statement[m].table, CteNames(statement)) PROVE a \in ClassifiedWrites(n)
      BY <1>4, <2>2, <2>3, <3>1, <3>2 DEF ClassifiedWrites, Targets, WriteOp
    <3> QED
      BY <2>2, <2>3, <2>4, <3>2 DEF Justified
  <2> QED
    BY <2>5, <2>6
<1>5. CASE mode = "top" /\ kind = "truncate"
  <2>1. a \in Target("relations") \X {"TRUNCATE"}
    BY <1>2, <1>5 DEF Accessed, WriteOp
  <2>2. ASSUME ~NamesCte(statement[a[1]].table, CteNames(statement)) PROVE a \in ClassifiedWrites(n)
    BY <1>5, <2>1, <2>2 DEF ClassifiedWrites, Targets, WriteOp
  <2> QED
    BY <2>1, <2>2 DEF Justified, OpTypes
<1>6. CASE mode = "top" /\ kind = "alter"
  <2>1. a \in Target("relation") \X {"ALTER TABLE"}
    BY <1>2, <1>6 DEF Accessed, WriteOp
  <2>2. ASSUME ~NamesCte(statement[a[1]].table, CteNames(statement)) PROVE a \in ClassifiedWrites(n)
    BY <1>6, <2>1, <2>2 DEF ClassifiedWrites, Targets, WriteOp
  <2> QED
    BY <2>1, <2>2 DEF Justified, OpTypes
<1>7. CASE mode = "top" /\ kind = "index"
  <2>1. a \in Target("relation") \X {"CREATE INDEX"}
    BY <1>2, <1>7 DEF Accessed, WriteOp
  <2>2. ASSUME ~NamesCte(statement[a[1]].table, CteNames(statement)) PROVE a \in ClassifiedWrites(n)
    BY <1>7, <2>1, <2>2 DEF ClassifiedWrites, Targets, WriteOp
  <2> QED
    BY <2>1, <2>2 DEF Justified, OpTypes
<1>8. CASE mode = "top" /\ kind = "drop"
  <2>1. a \in Target("objects") \X DropOps(statement[n].cmd)
    BY <1>8 DEF Accessed, WriteOp, ChildrenIn, Children
  <2>2. DropOps(statement[n].cmd) \subseteq OpTypes
    BY DEF DropOps, OpTypes
  <2>3. ASSUME ~NamesCte(statement[a[1]].table, CteNames(statement)) PROVE a \in ClassifiedWrites(n)
    BY <1>8, <2>1, <2>3 DEF ClassifiedWrites, Targets, WriteOp
  <2> QED
    BY <2>1, <2>2, <2>3 DEF Justified
<1> QED
  BY <1>1, <1>3, <1>4, <1>5, <1>6, <1>7, <1>8 DEF Accessed

\* The visit of a statement records its writes: at the top level those of every
\* kind, below it those of INSERT, UPDATE and DELETE.
LEMMA WritesAreAccessed ==
  ASSUME ast = statement, WellFormed(statement), NEW mode \in Modes, NEW n \in Nodes(statement),
         mode = "top" \/ statement[n].kind \in DOMAIN WriteOp, NEW a \in ClassifiedWrites(n)
  PROVE  a \in Accessed(mode, n) /\ ~NamesCte(statement[a[1]].table, CteNames(statement))
<1> DEFINE kind == statement[n].kind
           Target(slot) ==
             {m \in Nodes(statement) :
                /\ statement[m].parent = n /\ statement[m].slot = slot
                /\ ~NamesCte(statement[m].table, CteNames(statement))}
<1>1. Target("relation") \subseteq Relations(n, "relation")
      /\ Target("relations") \subseteq Relations(n, "relations")
      /\ Target("objects") \subseteq ChildrenIn(ast, n, {"objects"})
  BY DEF WellFormed, Relations, ChildrenIn, Children
<1>2. CASE kind \in DOMAIN WriteOp
  <2>1. a \in Target("relation") \X {WriteOp[kind]}
    BY <1>2 DEF ClassifiedWrites, Targets, WriteOp
  <2> QED
    BY <1>1, <1>2, <2>1 DEF Accessed, WriteOp
<1>3. CASE kind = "merge"
  <2>1. PICK w \in Nodes(statement) :
          /\ a \in Target("relation") \X {statement[w].cmd}
          /\ statement[w].parent = n /\ statement[w].slot = "when"
          /\ statement[w].cmd \in {"INSERT", "UPDATE", "DELETE"}
    BY <1>3 DEF ClassifiedWrites, Targets, WriteOp
  <2>2. statement[w].cmd \in MergeOps(n)
    BY <2>1 DEF MergeOps, ChildrenIn, Children
  <2>3. a \in Relations(n, "relation") \X MergeOps(n)
    BY <1>1, <2>1, <2>2
  <2> QED
    BY <1>3, <2>1, <2>3 DEF Accessed, WriteOp
<1>4. CASE kind = "truncate"
  <2>1. a \in Target("relations") \X {"TRUNCATE"}
    BY <1>4 DEF ClassifiedWrites, Targets, WriteOp
  <2> QED
    BY <1>1, <1>4, <2>1 DEF Accessed, WriteOp
<1>5. CASE kind = "alter"
  <2>1. a \in Target("relation") \X {"ALTER TABLE"}
    BY <1>5 DEF ClassifiedWrites, Targets, WriteOp
  <2> QED
    BY <1>1, <1>5, <2>1 DEF Accessed, WriteOp
<1>6. CASE kind = "index"
  <2>1. a \in Target("relation") \X {"CREATE INDEX"}
    BY <1>6 DEF ClassifiedWrites, Targets, WriteOp
  <2> QED
    BY <1>1, <1>6, <2>1 DEF Accessed, WriteOp
<1>7. CASE kind = "drop"
  <2>1. a \in Target("objects") \X DropOps(statement[n].cmd)
    BY <1>7 DEF ClassifiedWrites, Targets, WriteOp
  <2> QED
    BY <1>1, <1>7, <2>1 DEF Accessed, WriteOp
<1> QED
  BY <1>2, <1>3, <1>4, <1>5, <1>6, <1>7 DEF ClassifiedWrites, Targets

\* The walk of a plain root statement reaches what its WITH clause nests.
LEMMA RootWithIsWalked ==
  ASSUME ast = statement, WellFormed(statement), NEW seen, AccessCovers(seen, {}),
         NEW n \in InRootWith
  PROVE  <<"reads", n>> \in seen
<1> DEFINE cte  == statement[n].parent
           root == statement[cte].parent
<1>1. n \in Nodes(statement) /\ cte # 0 /\ statement[cte].kind = "cte" /\ statement[cte].slot = "with"
      /\ root \in Roots(statement)
  BY DEF InRootWith
<1>2. \A m \in Nodes(statement) : statement[m].parent = root => statement[m].slot \notin {"larg", "rarg"}
  BY <1>1 DEF InRootWith
<1>3. cte \in Nodes(statement) /\ root \in Nodes(statement)
  BY <1>1, TreeFacts DEF Roots
<1>4. cte \in Children(ast, root) /\ n \in Children(ast, cte)
  BY <1>1, <1>3 DEF Children
<1>5. statement[root].kind \notin {"rangevar", "colref", "truncate", "alter", "index", "drop"}
  BY <1>1, <1>3 DEF WellFormed
<1>6. cte \in Walked("top", root)
  <2>1. CASE statement[root].kind = "select"
    <3>1. "with" \in SelectSlots(root)
      BY <1>2 DEF SelectSlots, ChildrenIn, Children
    <3>2. Walked("top", root) = ChildrenIn(ast, root, SelectSlots(root))
      BY <2>1 DEF Walked, TopSlots
    <3> QED
      BY <1>1, <1>4, <3>1, <3>2 DEF ChildrenIn
  <2>2. CASE statement[root].kind \in DOMAIN TopSlots
    <3>1. statement[root].kind \in {"insert", "update", "delete", "merge"}
      BY <1>5, <2>2 DEF TopSlots
    <3>2. "with" \in TopSlots[statement[root].kind]
      BY <3>1 DEF TopSlots
    <3>3. Walked("top", root) = ChildrenIn(ast, root, TopSlots[statement[root].kind])
      BY <2>2, <3>1 DEF Walked
    <3> QED
      BY <1>1, <1>4, <3>2, <3>3 DEF ChildrenIn
  <2>3. CASE statement[root].kind \notin {"select"} \cup DOMAIN TopSlots
    BY <1>4, <1>5, <2>3 DEF Walked
  <2> QED
    BY <2>1, <2>2, <2>3
<1>7. <<"reads", cte>> \in seen
  <2>1. <<"top", root>> \in seen
    BY <1>1 DEF AccessCovers
  <2> QED
    BY <1>3, <1>6, <2>1 DEF AccessCovers, Modes
<1>8. n \in Walked("reads", cte)
  BY <1>1, <1>4 DEF Walked, ReadSlots
<1> QED
  BY <1>3, <1>7, <1>8 DEF AccessCovers, Modes

\* What is said of the statement and of the policy does not change.
LEMMA PolicyKept ==
  ASSUME statement' = statement, validator' = validator
  PROVE  /\ \A n : ClassifiedWrites(n)' = ClassifiedWrites(n)
         /\ \A a : Justified(a)' <=> Justified(a)
         /\ \A a : PolicyPermits(a)' <=> PolicyPermits(a)
         /\ WritesGranted' <=> WritesGranted
         /\ error' # "denied" \/ error = "denied" => (DenialHasReason => DenialHasReason')
<1>1. \A n : ClassifiedWrites(n)' = ClassifiedWrites(n)
  BY DEF ClassifiedWrites, Targets
<1>2. TableRefs' = TableRefs /\ InRootWith' = InRootWith
  BY DEF TableRefs, InRootWith
<1>3. \A a : PolicyPermits(a)' <=> PolicyPermits(a)
  BY DEF PolicyPermits
<1>4. \A a : Justified(a)' <=> Justified(a)
  BY <1>1, <1>2 DEF Justified
<1>5. WritesGranted' <=> WritesGranted
  BY <1>1, <1>2, <1>3 DEF WritesGranted
<1>6. error' # "denied" \/ error = "denied" => (DenialHasReason => DenialHasReason')
  BY <1>1, <1>2, <1>3 DEF DenialHasReason
<1> QED
  BY <1>1, <1>3, <1>4, <1>5, <1>6

LEMMA AccessNodeKeeps ==
  ASSUME ExtractInv, AccessInv, AccessNode
  PROVE  AccessInv'
<1>1. statement' = statement /\ validator' = validator /\ ast' = ast /\ ast = statement
      /\ pc = "access" /\ pc' = "access" /\ error' = error
  BY DEF AccessNode, Visit, ExtractInv, Shape, input
<1>2. PICK mode \in Modes, n \in Nodes(statement) :
        /\ <<mode, n>> \in todo
        /\ todo' = (todo \ {<<mode, n>>}) \cup ({"reads"} \X Walked(mode, n))
        /\ accesses' = accesses \cup Accessed(mode, n)
  BY <1>1 DEF AccessNode, Visit, Modes
<1>3. \A a \in accesses' : Justified(a)
  BY <1>1, <1>2, AccessedIsJustified DEF AccessInv
<1>4. PICK seen : AccessCovers(seen, todo) /\ AccessesOf(seen)
  BY <1>1 DEF AccessInv
<1> DEFINE next == seen \cup {<<mode, n>>}
<1>5. \A k \in Modes, m \in Nodes(statement) :
        Walked(k, m) \subseteq Nodes(statement) /\ Walked(k, m)' = Walked(k, m)
        /\ Accessed(k, m)' = Accessed(k, m)
  <2> TAKE k \in Modes, m \in Nodes(statement)
  <2>1. Walked(k, m) \subseteq Nodes(statement)
    BY <1>1 DEF Walked, ChildrenIn, Children
  <2>2. Walked(k, m)' = Walked(k, m)
    BY <1>1 DEF Walked, SelectSlots
  <2>3. Accessed(k, m)' = Accessed(k, m)
    BY <1>1 DEF Accessed, Relations, MergeOps
  <2> QED
    BY <2>1, <2>2, <2>3
<1>6. todo' \subseteq Modes \X Nodes(statement)
  BY <1>1, <1>2, <1>5 DEF AccessInv, Modes
<1>7. AccessCovers(next, todo')
  <2>1. \A m \in Roots(statement) : <<"top", m>> \in next \cup todo'
    BY <1>2, <1>4 DEF AccessCovers
  <2>2. ASSUME NEW k \in Modes, NEW m \in Nodes(statement), <<k, m>> \in next, NEW w \in Walked(k, m)
        PROVE  <<"reads", w>> \in next \cup todo'
    BY <1>2, <1>4, <2>2 DEF AccessCovers
  <2> QED
    BY <2>1, <2>2 DEF AccessCovers
<1>8. AccessCovers(next, todo)' /\ AccessesOf(next)'
  <2>1. AccessCovers(next, todo)'
    BY <1>1, <1>5, <1>7 DEF AccessCovers
  <2>2. ASSUME NEW k \in Modes, NEW m \in Nodes(statement), <<k, m>> \in next
        PROVE  Accessed(k, m) \subseteq accesses'
    BY <1>2, <1>4, <2>2 DEF AccessesOf
  <2> QED
    BY <1>1, <1>5, <2>1, <2>2 DEF AccessesOf
<1>9. DenialHasReason'
  BY <1>1, PolicyKept DEF AccessInv
<1>10. \A a \in accesses' : Justified(a)'
  BY <1>1, <1>3, PolicyKept
<1> QED
  BY <1>1, <1>6, <1>8, <1>9, <1>10 DEF AccessInv

LEMMA CheckPolicyKeeps ==
  ASSUME ExtractInv, AccessInv, CheckPolicy
  PROVE  AccessInv'
<1>1. statement' = statement /\ validator' = validator /\ ast = statement /\ accesses' = accesses
      /\ pc = "access" /\ todo = {} /\ error = ""
  BY DEF CheckPolicy, ExtractInv, Shape, input
<1>2. \A a : Granted(a) <=> PolicyPermits(a)
  BY <1>1 DEF Granted, PolicyPermits
<1>3. Asked = {a \in accesses : ~NamesCte(statement[a[1]].table, CteNames(statement))}
  BY <1>1 DEF Asked
<1>4. CASE \E a \in Asked : ~Granted(a)
  <2>1. pc' = "done" /\ error' = "denied"
    BY <1>4 DEF CheckPolicy, Refuse
  <2>2. PICK a \in accesses : /\ ~NamesCte(statement[a[1]].table, CteNames(statement))
                              /\ ~PolicyPermits(a)
    BY <1>2, <1>3, <1>4
  <2>3. Justified(a)
    BY DEF AccessInv
  <2>4. \/ \E n \in TableRefs : ~PolicyPermits(<<n, "SELECT">>)
        \/ \E n \in Nodes(statement) : \E b \in ClassifiedWrites(n) : ~PolicyPermits(b)
    <3>1. CASE a[1] \in TableRefs /\ a[2] = "SELECT"
      <4>1. a = <<a[1], "SELECT">>
        BY <2>3, <3>1 DEF Justified
      <4> QED
        BY <2>2, <3>1, <4>1
    <3>2. CASE \E n \in Nodes(statement) : a \in ClassifiedWrites(n)
      BY <2>2, <3>2
    <3> QED
      BY <2>2, <2>3, <3>1, <3>2 DEF Justified
  <2>5. DenialHasReason'
    <3>1. TableRefs' = TableRefs
      BY <1>1 DEF TableRefs
    <3>2. (\A n : ClassifiedWrites(n)' = ClassifiedWrites(n)) /\ (\A b : PolicyPermits(b)' <=> PolicyPermits(b))
      BY <1>1, PolicyKept
    <3> QED
      BY <1>1, <2>4, <3>1, <3>2 DEF DenialHasReason
  <2> QED
    BY <1>1, <2>1, <2>5, PolicyKept DEF AccessInv
<1>5. CASE \A a \in Asked : Granted(a)
  <2>1. pc' = "plan" /\ error' = ""
    BY <1>1, <1>5 DEF CheckPolicy, Enter
  <2>2. PICK seen : AccessCovers(seen, {}) /\ AccessesOf(seen)
    BY <1>1 DEF AccessInv
  <2>3. ASSUME NEW mode \in Modes, NEW n \in Nodes(statement), <<mode, n>> \in seen,
               mode = "top" \/ statement[n].kind \in DOMAIN WriteOp, NEW a \in ClassifiedWrites(n)
        PROVE  PolicyPermits(a)
    <3>1. a \in Accessed(mode, n) /\ ~NamesCte(statement[a[1]].table, CteNames(statement))
      BY <1>1, <2>3, StatementFacts, WritesAreAccessed DEF ExtractInv
    <3>2. a \in Asked
      BY <1>3, <2>2, <2>3, <3>1 DEF AccessesOf
    <3> QED
      BY <1>2, <1>5, <3>2
  <2>4. ASSUME NEW n \in Roots(statement), NEW a \in ClassifiedWrites(n) PROVE PolicyPermits(a)
    <3>1. <<"top", n>> \in seen /\ n \in Nodes(statement)
      BY <2>2 DEF AccessCovers, Roots
    <3> QED
      BY <2>3, <3>1 DEF Modes
  <2>5. ASSUME NEW n \in InRootWith, statement[n].kind \in DOMAIN WriteOp, NEW a \in ClassifiedWrites(n)
        PROVE  PolicyPermits(a)
    <3>1. <<"reads", n>> \in seen
      BY <1>1, <2>2, StatementFacts, RootWithIsWalked DEF ExtractInv
    <3>2. n \in Nodes(statement)
      BY DEF InRootWith
    <3> QED
      BY <2>3, <2>5, <3>1, <3>2 DEF Modes
  <2>6. WritesGranted
    BY <2>4, <2>5 DEF WritesGranted
  <2> QED
    BY <1>1, <2>1, <2>6, PolicyKept DEF AccessInv
<1> QED
  BY <1>4, <1>5

LEMMA AccessNext ==
  ASSUME ExtractInv, AccessInv, [Next]_vars
  PROVE  AccessInv'
<1>1. statement' = statement /\ validator' = validator
  BY InputKept
<1>2. CASE AccessNode
  BY <1>2, AccessNodeKeeps
<1>3. CASE CheckPolicy
  BY <1>3, CheckPolicyKeeps
<1>4. CASE CheckQualified
  <2>1. accesses' = accesses /\ error' # "denied" /\ pc = "extract" /\ ast = statement /\ ast' = ast
        /\ (validator # <<>> => pc' # "plan")
    BY <1>4 DEF CheckQualified, Refuse, Enter, ExtractInv, Shape
  <2>2. pc' \in {"access", "plan", "done"} /\ (pc' = "done" => error' # "")
    BY <1>4 DEF CheckQualified, Refuse, Enter
  <2>3. ASSUME pc' = "access"
        PROVE  /\ todo' \subseteq Modes \X Nodes(statement)
               /\ \E seen : AccessCovers(seen, todo)' /\ AccessesOf(seen)'
    <3>1. todo' = {<<"top", n>> : n \in Roots(statement)}
      BY <1>4, <2>1, <2>3 DEF CheckQualified, Refuse, Enter
    <3>2. todo' \subseteq Modes \X Nodes(statement)
      BY <3>1 DEF Modes, Roots
    <3>3. AccessCovers({}, todo)' /\ AccessesOf({})'
      BY <1>1, <3>1 DEF AccessCovers, AccessesOf
    <3> QED
      BY <3>2, <3>3
  <2> QED
    BY <1>1, <2>1, <2>2, <2>3, PolicyKept DEF AccessInv
<1>5. CASE Parse \/ ExtractNode
  <2>1. accesses' = accesses /\ error' # "denied" /\ pc' \in {"extract", "done"}
        /\ (pc' = "done" => error' # "")
    BY <1>5 DEF Parse, ExtractNode, Refuse, Enter, Visit, ExtractInv, Shape
  <2> QED
    BY <1>1, <2>1, PolicyKept DEF AccessInv
<1>6. CASE PlanRef \/ PhaseDone \/ ReplaceNode \/ RenameNode \/ ColumnRefNode \/ Deparse
  <2>1. accesses' = accesses /\ error' # "denied" /\ pc \notin {"parse", "extract", "access"}
        /\ pc' \notin {"parse", "extract", "access"} /\ error = ""
    BY <1>6 DEF PlanRef, PhaseDone, ReplaceNode, RenameNode, ColumnRefNode, Deparse,
                Refuse, Enter, EnterRewrite, Visit, ExtractInv, Shape
  <2> QED
    BY <1>1, <2>1, PolicyKept DEF AccessInv
<1>7. CASE UNCHANGED vars
  <2>1. /\ ast' = ast /\ pc' = pc /\ error' = error /\ todo' = todo /\ accesses' = accesses
    BY <1>7 DEF vars
  <2>2. \A seen : AccessCovers(seen, todo)' <=> AccessCovers(seen, todo)
    BY <1>1, <2>1 DEF AccessCovers, Walked, SelectSlots
  <2>3. \A seen : AccessesOf(seen)' <=> AccessesOf(seen)
    BY <1>1, <2>1 DEF AccessesOf, Accessed, Relations, MergeOps
  <2> QED
    BY <1>1, <2>1, <2>2, <2>3, PolicyKept DEF AccessInv
<1> QED
  BY <1>2, <1>3, <1>4, <1>5, <1>6, <1>7 DEF Next

LEMMA InitAccess == Init => AccessInv
BY DEF Init, AccessInv, DenialHasReason

LEMMA AccessInvariance == Spec => [](ExtractInv /\ AccessInv)
BY InitExtract, InitAccess, ExtractNext, AccessNext, PTL DEF Spec

\* Whatever the policy, the writes the validator classifies are granted in a statement
\* that reaches the engine; the statements it does not classify, such as CREATE TABLE AS,
\* SELECT INTO and DROP VIEW, are not covered (ClassifiedWritesPermitted).
THEOREM ClassifiedPermitted == Spec => []ClassifiedWritesPermitted
<1>1. AccessInv => ClassifiedWritesPermitted
  BY DEF AccessInv, ClassifiedWritesPermitted, WritesGranted, Ready
<1> QED
  BY <1>1, AccessInvariance, PTL

\* No query is denied without a table access that the policy refuses (DenialHasReason).
THEOREM DenialIsJustified == Spec => []DenialHasReason
<1>1. AccessInv => DenialHasReason
  BY DEF AccessInv
<1> QED
  BY <1>1, AccessInvariance, PTL

-----------------------------------------------------------------------------
(* The rewriting plan.                                                     *)

\* The plan has an entry for reference n, if its source needs one.
InPlan(n) ==
  /\ statement[n].table.catalog \in DOMAIN Databases
  /\ TypeOf(n) \in FunctionTypes => statement[n].table \in functions
  /\ TypeOf(n) \in RenamedTypes  => statement[n].table \in renames

\* A table of the plan is one of the statement, in a source of one of the types.
Known(t, types) ==
  t.catalog \in DOMAIN Databases /\ Databases[t.catalog] \in types /\ Qualified(t)

Rewriting == pc \in {"replace", "rename", "colref", "deparse"} \/ Ready

PlanInv ==
  /\ pc \in {"access", "plan"} \/ Rewriting => \A n \in refs : Qualified(statement[n].table)
  /\ pc = "plan" => todo \subseteq refs /\ \A n \in refs \ todo : InPlan(n)
  /\ Rewriting => \A n \in refs : InPlan(n)
  /\ \A t \in functions : Known(t, FunctionTypes)
  /\ \A t \in renames   : Known(t, RenamedTypes)

LEMMA PlanRefKeeps ==
  ASSUME ExtractInv, PlanInv, PlanRef
  PROVE  PlanInv'
<1>1. statement' = statement /\ ast = statement /\ pc = "plan" /\ refs' = refs /\ error = ""
      /\ \A n : TypeOf(n)' = TypeOf(n)
  BY StatementKept DEF PlanRef, ExtractInv, Shape, input
<1>2. PICK n \in todo :
        LET t == statement[n].table IN
        IF t.catalog \notin DOMAIN Databases
          THEN Refuse("catalog") /\ UNCHANGED <<renames, functions>>
          ELSE /\ Visit(n, {})
               /\ functions' = functions \cup
                    (IF Databases[t.catalog] \in FunctionTypes THEN {t} ELSE {})
               /\ renames' = renames \cup
                    (IF Databases[t.catalog] \in RenamedTypes THEN {t} ELSE {})
  BY <1>1 DEF PlanRef
<1> DEFINE t == statement[n].table
<1>3. n \in refs /\ Qualified(t)
  BY <1>1 DEF PlanInv
<1>4. CASE t.catalog \notin DOMAIN Databases
  <2>1. pc' = "done" /\ error' = "catalog" /\ renames' = renames /\ functions' = functions
    BY <1>2, <1>4 DEF Refuse
  <2> QED
    BY <2>1 DEF PlanInv, Known, Rewriting, Ready
<1>5. CASE t.catalog \in DOMAIN Databases
  <2>1. /\ pc' = "plan" /\ error' = "" /\ todo' = todo \ {n}
        /\ functions' = functions \cup (IF TypeOf(n) \in FunctionTypes THEN {t} ELSE {})
        /\ renames' = renames \cup (IF TypeOf(n) \in RenamedTypes THEN {t} ELSE {})
    BY <1>1, <1>2, <1>5 DEF Visit, TypeOf
  <2>2. ASSUME NEW m \in refs', m \notin todo' PROVE InPlan(m)'
    <3>1. CASE m = n
      BY <1>1, <1>5, <2>1, <3>1 DEF InPlan, TypeOf
    <3>2. CASE m # n
      BY <1>1, <2>1, <2>2, <3>2 DEF InPlan, TypeOf, PlanInv
    <3> QED
      BY <3>1, <3>2
  <2>3. \A s \in functions' : Known(s, FunctionTypes)
    BY <1>3, <1>5, <2>1 DEF PlanInv, Known, TypeOf
  <2>4. \A s \in renames' : Known(s, RenamedTypes)
    BY <1>3, <1>5, <2>1 DEF PlanInv, Known, TypeOf
  <2>5. todo' \subseteq refs' /\ (\A m \in refs' : Qualified(statement'[m].table)) /\ ~Rewriting'
    BY <1>1, <2>1 DEF PlanInv, Rewriting, Ready
  <2> QED
    BY <2>2, <2>3, <2>4, <2>5 DEF PlanInv, Known
<1> QED
  BY <1>4, <1>5

LEMMA PlanNext ==
  ASSUME ExtractInv, PlanInv, [Next]_vars
  PROVE  PlanInv'
<1>1. statement' = statement /\ \A n : TypeOf(n)' = TypeOf(n)
  BY InputKept, StatementKept
<1>2. CASE PlanRef
  BY <1>2, PlanRefKeeps
<1> SUFFICES ASSUME ~PlanRef PROVE PlanInv'
  BY <1>2
<1>3. functions' = functions /\ renames' = renames
  BY DEF Next, vars, Parse, ExtractNode, CheckQualified, AccessNode, CheckPolicy, PhaseDone,
         ReplaceNode, RenameNode, ColumnRefNode, Deparse, plan
<1>4. (\A t \in functions' : Known(t, FunctionTypes)') /\ (\A t \in renames' : Known(t, RenamedTypes)')
  BY <1>3 DEF PlanInv, Known
<1>5. \A n : InPlan(n)' <=> InPlan(n)
  BY <1>1, <1>3 DEF InPlan
<1>6. CASE Parse \/ ExtractNode
  <2>1. pc' \in {"extract", "done"} /\ (pc' = "done" => error' # "")
    BY <1>6 DEF Parse, ExtractNode, Refuse, Enter, Visit
  <2> QED
    BY <1>4, <2>1 DEF PlanInv, Rewriting, Ready
<1>7. CASE CheckQualified
  <2>1. ast = statement /\ pc' \in {"access", "plan", "done"}
        /\ (pc' = "done" => error' # "") /\ (pc' = "plan" => todo' = refs')
        /\ (pc' # "done" => \A n \in refs' : Qualified(statement[n].table))
    BY <1>7 DEF CheckQualified, Refuse, Enter, ExtractInv, Shape
  <2> QED
    BY <1>1, <1>4, <2>1 DEF PlanInv, Rewriting, Ready
<1>8. CASE AccessNode \/ CheckPolicy
  <2>1. pc = "access" /\ refs' = refs /\ pc' \in {"access", "plan", "done"}
        /\ (pc' = "done" => error' # "") /\ (pc' = "plan" => todo' = refs')
    BY <1>8 DEF AccessNode, CheckPolicy, Refuse, Enter, Visit
  <2> QED
    BY <1>1, <1>4, <2>1 DEF PlanInv, Rewriting, Ready
<1>9. CASE PhaseDone \/ ReplaceNode \/ RenameNode \/ ColumnRefNode \/ Deparse
  <2>1. refs' = refs /\ pc' # "plan" /\ pc' # "access"
        /\ ((pc = "plan" /\ todo = {}) \/ pc \in {"replace", "rename", "colref", "deparse"})
    BY <1>9 DEF PhaseDone, ReplaceNode, RenameNode, ColumnRefNode, Deparse, EnterRewrite,
                Refuse, Enter, Visit
  <2> QED
    BY <1>1, <1>4, <1>5, <2>1 DEF PlanInv, Rewriting
<1>10. CASE UNCHANGED vars
  <2>1. refs' = refs /\ pc' = pc /\ todo' = todo /\ error' = error
    BY <1>10 DEF vars
  <2> QED
    BY <1>1, <1>4, <1>5, <2>1 DEF PlanInv, Rewriting, Ready
<1> QED
  BY <1>6, <1>7, <1>8, <1>9, <1>10 DEF Next

LEMMA InitPlan == Init => PlanInv
BY DEF Init, PlanInv, Rewriting, Ready

LEMMA PlanInvariance == Spec => [](ExtractInv /\ PlanInv)
BY InitExtract, InitPlan, ExtractNext, PlanNext, PTL DEF Spec

\* The tables that reach the engine unresolved are dropped, with the policy's grant, or
\* have the name of a CTE; all others are 3-part names in a configured catalog
\* (UnresolvedOnlyIfExempt).
THEOREM UnresolvedIsExempt == Spec => []UnresolvedOnlyIfExempt
<1>1. ExtractInv /\ AccessInv /\ PlanInv => UnresolvedOnlyIfExempt
  <2> SUFFICES ASSUME ExtractInv, AccessInv, PlanInv, Ready,
                      NEW n \in RangeVars(statement) \cup DroppedTables,
                      ~NamesCte(statement[n].table, CteNames(statement))
               PROVE  \/ Resolved(n)
                      \/ n \in DroppedTables /\ (validator # <<>> => PolicyPermits(<<n, "DROP TABLE">>))
    BY DEF UnresolvedOnlyIfExempt
  <2>1. CASE n \in RangeVars(statement)
    <3>1. n \in TableRefs
      BY <2>1 DEF TableRefs
    <3> QED
      BY <3>1 DEF ExtractInv, ExtractExact, PlanInv, InPlan, Resolved, Rewriting, Ready
  <2>2. CASE n \in DroppedTables /\ validator # <<>>
    <3> DEFINE drop == statement[n].parent
    <3>1. n \in Nodes(statement) /\ drop \in Roots(statement) /\ statement[n].slot = "objects"
          /\ statement[drop].kind = "drop" /\ statement[drop].cmd = "table"
      BY <2>2 DEF DroppedTables
    <3>2. n \in Targets(drop, "objects")
      BY <3>1 DEF Targets
    <3>3. ClassifiedWrites(drop) = Targets(drop, "objects") \X {"DROP TABLE"}
      BY <3>1 DEF ClassifiedWrites, WriteOp, DropOps
    <3>4. <<n, "DROP TABLE">> \in ClassifiedWrites(drop)
      BY <3>2, <3>3
    <3>5. WritesGranted
      BY <2>2 DEF AccessInv, Ready
    <3> QED
      BY <2>2, <3>1, <3>4, <3>5 DEF WritesGranted
  <2> QED
    BY <2>1, <2>2
<1> QED
  BY <1>1, ExtractInvariance, AccessInvariance, PlanInvariance, PTL

-----------------------------------------------------------------------------
(* The rewritten tree.                                                     *)

ToReplace(n) == /\ n \in TableRefs /\ ~IsDirect(statement[n])
                /\ statement[n].table \in functions
ToRename(n)  == n \in TableRefs /\ statement[n].table \in renames

\* How node n is handed on, once the walks that may rewrite it have visited it.
Rewritten(n, replaced, renamed, followed) ==
  IF n \in replaced /\ ToReplace(n)
    THEN ast[n] = [statement[n] EXCEPT !.kind = "function", !.table = FunctionCall(@)]
  ELSE IF n \in renamed /\ ToRename(n)
    THEN ast[n] = [statement[n] EXCEPT !.table = NewName(@)]
  ELSE IF n \in followed /\ statement[n].kind = "colref"
    THEN \E q \in NewQualifiers(statement[n].qualifier) :
           ast[n] = [statement[n] EXCEPT !.qualifier = q]
  ELSE ast[n] = statement[n]

TreeIs(replaced, renamed, followed) ==
  \A n \in Nodes(statement) : Rewritten(n, replaced, renamed, followed)

\* The recorded prefixes are those of the unaliased renamed tables visited so far;
\* of several with the same prefix, one.
Records(p, m) ==
  /\ ToRename(m) /\ ~statement[m].aliased
  /\ p = <<Prefix(statement[m].table), Prefix(NewName(statement[m].table))>>
Recorded(seen) ==
  /\ \A p \in prefixes : \E m \in TableRefs : Records(p, m)
  /\ \A m \in seen : ToRename(m) /\ ~statement[m].aliased =>
       \E p \in prefixes : p[1] = Prefix(statement[m].table)

Finished == pc = "deparse" \/ Ready

TreeInv ==
  /\ pc \in {"parse", "extract", "access", "plan", "replace"} => prefixes = {}
  /\ pc = "replace" => \E seen : Covers(seen, todo) /\ TreeIs(seen, {}, {})
  /\ pc = "rename"  => \E seen : /\ Covers(seen, todo) /\ Recorded(seen)
                                 /\ TreeIs(Nodes(statement), seen, {})
  /\ pc = "colref"  => \E seen : /\ Covers(seen, todo) /\ Recorded(Nodes(statement))
                                 /\ TreeIs(Nodes(statement), Nodes(statement), seen)
  /\ Finished => /\ Recorded(Nodes(statement))
                 /\ TreeIs(Nodes(statement), Nodes(statement), Nodes(statement))

\* The rewriting moves no node, and touches no CTE.
LEMMA TreeIsKept ==
  ASSUME Shape, NEW replaced, NEW renamed, NEW followed, TreeIs(replaced, renamed, followed)
  PROVE  /\ \A n \in Nodes(statement) : /\ ast[n].slot = statement[n].slot
                                        /\ ast[n].kind = "colref" <=> statement[n].kind = "colref"
         /\ Roots(ast) = Roots(statement)
         /\ \A n : Children(ast, n) = Children(statement, n)
         /\ CteNames(ast) = CteNames(statement)
<1>1. ASSUME NEW n \in Nodes(statement)
      PROVE  /\ ast[n].parent = statement[n].parent /\ ast[n].slot = statement[n].slot
             /\ ast[n].kind = "colref" <=> statement[n].kind = "colref"
             /\ ast[n].kind = "cte" <=> statement[n].kind = "cte"
             /\ statement[n].kind = "cte" => ast[n].table = statement[n].table
  <2>1. statement[n] \in TreeNodes
    BY StatementFacts, TreeFacts
  <2>2. Rewritten(n, replaced, renamed, followed)
    BY DEF TreeIs
  <2>3. ToReplace(n) \/ ToRename(n) => statement[n].kind = "rangevar"
    BY DEF ToReplace, ToRename, TableRefs, RangeVars, IsRangeVar
  <2> QED
    BY <2>1, <2>2, <2>3 DEF Rewritten, TreeNodes
<1>2. Nodes(ast) = Nodes(statement)
  BY DEF Shape
<1>3. Roots(ast) = Roots(statement) /\ \A n : Children(ast, n) = Children(statement, n)
  BY <1>1, <1>2 DEF Roots, Children
<1>4. CteNames(ast) = CteNames(statement)
  BY <1>1, <1>2 DEF CteNames
<1> QED
  BY <1>1, <1>3, <1>4

\* Entering a phase: what is left out has nothing to do in it.
LEMMA NothingToDo ==
  ASSUME Shape, NEW replaced, NEW renamed, NEW followed, NEW all,
         TreeIs(replaced, renamed, followed)
  PROVE  /\ functions = {} => TreeIs(all, renamed, followed)
         /\ renames = {} => TreeIs(replaced, all, followed)
         /\ prefixes = {} => TreeIs(replaced, renamed, all)
<1>1. functions = {} => TreeIs(all, renamed, followed)
  BY DEF TreeIs, Rewritten, ToReplace
<1>2. renames = {} => TreeIs(replaced, all, followed)
  BY DEF TreeIs, Rewritten, ToRename
<1>3. ASSUME prefixes = {}, NEW n \in Nodes(statement) PROVE Rewritten(n, replaced, renamed, all)
  <2>1. \A q : NewQualifiers(q) = {q}
    BY <1>3 DEF NewQualifiers
  <2>2. statement[n] \in TreeNodes
    BY StatementFacts, TreeFacts
  <2>3. [statement[n] EXCEPT !.qualifier = statement[n].qualifier] = statement[n]
    BY <2>2 DEF TreeNodes
  <2> QED
    BY <2>1, <2>3 DEF TreeIs, Rewritten
<1> QED
  BY <1>1, <1>2, <1>3 DEF TreeIs

LEMMA PlansAreDisjoint ==
  ASSUME PlanInv
  PROVE  /\ functions \cap renames = {}
         /\ \A t \in functions \cup renames : t.catalog # ""
BY DEF PlanInv, Known, Qualified, FunctionTypes, RenamedTypes

LEMMA ReplaceNodeKeeps ==
  ASSUME ExtractInv, PlanInv, TreeInv, ReplaceNode
  PROVE  TreeInv'
<1>1. statement' = statement /\ pc = "replace" /\ pc' = "replace" /\ UNCHANGED plan
  BY DEF ReplaceNode, Visit, input
<1>2. PICK seen : Covers(seen, todo) /\ TreeIs(seen, {}, {})
  BY <1>1 DEF TreeInv
<1>3. PICK n \in todo :
        IF Replaceable(n)
          THEN /\ ast' = [ast EXCEPT ![n].kind = "function",
                                     ![n].table = FunctionCall(ast[n].table)]
               /\ Visit(n, {})
          ELSE Visit(n, Children(ast, n)) /\ UNCHANGED ast
  BY DEF ReplaceNode
<1>4. n \in Nodes(statement) /\ n \notin seen /\ Nodes(ast) = Nodes(statement)
  BY <1>2 DEF Covers, ExtractInv, Shape
<1>5. ast[n] = statement[n]
  BY <1>2, <1>4 DEF TreeIs, Rewritten
<1>6. Replaceable(n) <=> ToReplace(n)
  BY <1>2, <1>4, <1>5, TreeIsKept DEF ExtractInv, Replaceable, ToReplace, TableRefs, RangeVars
<1>7. \A m \in Nodes(statement) : /\ (m # n => ast'[m] = ast[m])
                                  /\ (ToReplace(m)' <=> ToReplace(m)) /\ (ToRename(m)' <=> ToRename(m))
  BY <1>1, <1>3, <1>4, StatementKept DEF Nodes, ToReplace, ToRename, plan
<1>8. Covers(seen \cup {n}, todo') /\ Rewritten(n, seen \cup {n}, {}, {})'
  <2>1. CASE Replaceable(n)
    <3>1. ast'[n] = [statement[n] EXCEPT !.kind = "function",
                                         !.table = FunctionCall(statement[n].table)]
      BY <1>3, <1>4, <1>5, <2>1 DEF Nodes
    <3>2. todo' = (todo \ {n}) \cup {} /\ statement[n].kind = "rangevar"
      BY <1>3, <1>5, <2>1 DEF Visit, Replaceable, IsRangeVar
    <3>3. Covers(seen \cup {n}, todo')
      BY <1>2, <1>4, <3>2, LeafSteps, StatementFacts DEF ExtractInv
    <3> QED
      BY <1>1, <1>4, <1>6, <1>7, <2>1, <3>1, <3>3 DEF Rewritten, FunctionCall, SheetOf
  <2>2. CASE ~Replaceable(n)
    <3>1. ast' = ast /\ todo' = (todo \ {n}) \cup Children(statement, n)
      BY <1>2, <1>3, <2>2, TreeIsKept DEF ExtractInv, Visit
    <3>2. Covers(seen \cup {n}, todo')
      BY <1>2, <1>4, <3>1, WalkSteps, StatementFacts DEF ExtractInv
    <3> QED
      BY <1>1, <1>4, <1>5, <1>6, <1>7, <2>2, <3>1, <3>2 DEF Rewritten
  <2> QED
    BY <2>1, <2>2
<1>9. TreeIs(seen \cup {n}, {}, {})'
  <2>1. ASSUME NEW m \in Nodes(statement), m # n PROVE Rewritten(m, seen \cup {n}, {}, {})'
    BY <1>1, <1>2, <1>7, <2>1 DEF TreeIs, Rewritten, FunctionCall, SheetOf
  <2> QED
    BY <1>1, <1>8, <2>1 DEF TreeIs
<1>10. Covers(seen \cup {n}, todo)'
  BY <1>1, <1>8, StatementKept
<1> QED
  BY <1>1, <1>9, <1>10 DEF TreeInv, Finished, Ready, plan

LEMMA RenameNodeKeeps ==
  ASSUME ExtractInv, PlanInv, TreeInv, RenameNode
  PROVE  TreeInv'
<1> DEFINE all == Nodes(statement)
<1>1. statement' = statement /\ pc = "rename" /\ pc' = "rename" /\ renames' = renames
      /\ functions' = functions
  BY DEF RenameNode, Visit, input
<1>2. PICK seen : Covers(seen, todo) /\ Recorded(seen) /\ TreeIs(all, seen, {})
  BY <1>1 DEF TreeInv
<1>3. PICK n \in todo :
        LET old == ast[n].table IN
        /\ Visit(n, Children(ast, n))
        /\ IF Renamed(n)
             THEN /\ ast' = [ast EXCEPT ![n].table = NewName(old)]
                  /\ prefixes' = IF ast[n].aliased THEN prefixes
                                 ELSE {p \in prefixes : p[1] # Prefix(old)}
                                        \cup {<<Prefix(old), Prefix(NewName(old))>>}
             ELSE UNCHANGED <<ast, prefixes>>
  BY DEF RenameNode
<1> DEFINE next == seen \cup {n}
           table == statement[n].table
<1>4. n \in all /\ n \notin seen /\ Nodes(ast) = all
  BY <1>2 DEF Covers, ExtractInv, Shape
<1>5. ASSUME ~ToReplace(n) PROVE ast[n] = statement[n]
  BY <1>2, <1>4, <1>5 DEF TreeIs, Rewritten
<1>6. ASSUME ToReplace(n) PROVE ~Renamed(n) /\ ~ToRename(n)
  <2>1. ast[n] = [statement[n] EXCEPT !.kind = "function", !.table = FunctionCall(statement[n].table)]
    BY <1>2, <1>4, <1>6 DEF TreeIs, Rewritten
  <2>2. statement[n] \in TreeNodes
    BY <1>4, StatementFacts, TreeFacts DEF ExtractInv
  <2>3. ast[n].kind = "function"
    BY <2>1, <2>2 DEF TreeNodes
  <2> QED
    BY <1>6, <2>3, PlansAreDisjoint DEF Renamed, IsRangeVar, ToReplace, ToRename
<1>7. Renamed(n) <=> ToRename(n)
  <2>1. CASE ToReplace(n)
    BY <1>6, <2>1
  <2>2. CASE ~ToReplace(n)
    BY <1>2, <1>4, <1>5, <2>2, TreeIsKept DEF ExtractInv, Renamed, ToRename, TableRefs, RangeVars
  <2> QED
    BY <2>1, <2>2
<1>8. \A m \in all : /\ (m # n => ast'[m] = ast[m])
                     /\ (ToReplace(m)' <=> ToReplace(m)) /\ (ToRename(m)' <=> ToRename(m))
  BY <1>1, <1>3, <1>4, StatementKept DEF Nodes, ToReplace, ToRename
<1>9. Covers(next, todo')
  <2>1. todo' = (todo \ {n}) \cup Children(statement, n)
    BY <1>2, <1>3, TreeIsKept DEF ExtractInv, Visit
  <2> QED
    BY <1>2, <1>4, <2>1, WalkSteps, StatementFacts DEF ExtractInv
<1>10. Rewritten(n, all, next, {})'
  <2>1. CASE Renamed(n)
    <3>1. ast'[n] = [statement[n] EXCEPT !.table = NewName(statement[n].table)]
      BY <1>3, <1>4, <1>5, <1>6, <2>1 DEF Nodes
    <3> QED
      BY <1>1, <1>4, <1>6, <1>7, <1>8, <2>1, <3>1 DEF Rewritten, NewName
  <2>2. CASE ~Renamed(n)
    <3>1. Rewritten(n, all, seen, {}) /\ ast' = ast
      BY <1>2, <1>3, <1>4, <2>2 DEF TreeIs
    <3> QED
      BY <1>1, <1>4, <1>7, <1>8, <2>2, <3>1 DEF Rewritten, FunctionCall, SheetOf
  <2> QED
    BY <2>1, <2>2
<1>11. TreeIs(all, next, {})'
  <2>1. ASSUME NEW m \in all, m # n PROVE Rewritten(m, all, next, {})'
    <3>1. Rewritten(m, all, seen, {})
      BY <1>2 DEF TreeIs
    <3> QED
      BY <1>1, <1>8, <2>1, <3>1 DEF Rewritten, FunctionCall, SheetOf, NewName
  <2> QED
    BY <1>1, <1>10, <2>1 DEF TreeIs
<1>12. Recorded(next)'
  <2>1. TableRefs' = TableRefs /\ \A p, m : m \in TableRefs => (Records(p, m)' <=> Records(p, m))
    BY <1>1, StatementKept DEF Records, ToRename, Prefix, NewName
  <2>2. ASSUME NEW p \in prefixes' PROVE \E m \in TableRefs : Records(p, m)
    <3>1. CASE p \in prefixes
      BY <1>2, <3>1 DEF Recorded
    <3>2. CASE p \notin prefixes
      <4>1. Renamed(n) /\ ~ToReplace(n)
        BY <1>3, <1>6, <3>2
      <4>2. ast[n] = statement[n]
        BY <1>5, <4>1
      <4>3. p = <<Prefix(table), Prefix(NewName(table))>> /\ ~statement[n].aliased
        BY <1>3, <3>2, <4>1, <4>2
      <4> QED
        BY <1>7, <4>1, <4>3 DEF Records, ToRename
    <3> QED
      BY <3>1, <3>2
  <2>3. ASSUME NEW m \in next, ToRename(m), ~statement[m].aliased
        PROVE  \E p \in prefixes' : p[1] = Prefix(statement[m].table)
    <3>1. CASE m = n
      <4>1. Renamed(n) /\ ast[n] = statement[n]
        BY <1>5, <1>6, <1>7, <2>3, <3>1
      <4>2. <<Prefix(table), Prefix(NewName(table))>> \in prefixes'
        BY <1>3, <2>3, <3>1, <4>1
      <4> QED
        BY <3>1, <4>2
    <3>2. CASE m # n
      <4>1. PICK p \in prefixes : p[1] = Prefix(statement[m].table)
        BY <1>2, <2>3, <3>2 DEF Recorded
      <4>2. CASE p \in prefixes'
        BY <4>1, <4>2
      <4>3. CASE p \notin prefixes'
        <5>1. p[1] = Prefix(ast[n].table)
              /\ <<Prefix(ast[n].table), Prefix(NewName(ast[n].table))>> \in prefixes'
          BY <1>3, <4>3
        <5> QED
          BY <4>1, <5>1
      <4> QED
        BY <4>2, <4>3
    <3> QED
      BY <3>1, <3>2
  <2>4. next \subseteq all
    BY <1>2, <1>4 DEF Covers
  <2> QED
    BY <1>1, <1>8, <2>1, <2>2, <2>3, <2>4 DEF Recorded, Prefix
<1>13. Covers(next, todo)'
  BY <1>1, <1>9, StatementKept
<1> QED
  BY <1>1, <1>11, <1>12, <1>13 DEF TreeInv, Finished, Ready

LEMMA ColumnRefNodeKeeps ==
  ASSUME ExtractInv, PlanInv, TreeInv, ColumnRefNode
  PROVE  TreeInv'
<1> DEFINE all == Nodes(statement)
<1>1. statement' = statement /\ pc = "colref" /\ pc' = "colref" /\ renames' = renames
      /\ functions' = functions /\ prefixes' = prefixes
  BY DEF ColumnRefNode, Visit, input, plan
<1>2. PICK seen : Covers(seen, todo) /\ Recorded(all) /\ TreeIs(all, all, seen)
  BY <1>1 DEF TreeInv
<1>3. PICK n \in todo :
        IF ast[n].kind = "colref"
          THEN /\ \E q \in NewQualifiers(ast[n].qualifier) : ast' = [ast EXCEPT ![n].qualifier = q]
               /\ Visit(n, {})
          ELSE Visit(n, Children(ast, n)) /\ UNCHANGED ast
  BY DEF ColumnRefNode
<1> DEFINE next == seen \cup {n}
<1>4. n \in all /\ n \notin seen /\ Nodes(ast) = all
  BY <1>2 DEF Covers, ExtractInv, Shape
<1>5. ast[n].kind = "colref" <=> statement[n].kind = "colref"
  BY <1>2, <1>4, TreeIsKept DEF ExtractInv
<1>6. \A m \in all : /\ (m # n => ast'[m] = ast[m])
                     /\ (ToReplace(m)' <=> ToReplace(m)) /\ (ToRename(m)' <=> ToRename(m))
  BY <1>1, <1>3, <1>4, StatementKept DEF Nodes, ToReplace, ToRename
<1>7. \A q : NewQualifiers(q)' = NewQualifiers(q)
  BY <1>1 DEF NewQualifiers
<1>8. Rewritten(n, all, all, seen)
  BY <1>2, <1>4 DEF TreeIs
<1>9. Covers(next, todo') /\ Rewritten(n, all, all, next)'
  <2>1. CASE statement[n].kind = "colref"
    <3>1. ~ToReplace(n) /\ ~ToRename(n)
      BY <2>1 DEF ToReplace, ToRename, TableRefs, RangeVars, IsRangeVar
    <3>2. ast[n] = statement[n]
      BY <1>4, <1>8, <3>1 DEF Rewritten
    <3>3. \E q \in NewQualifiers(statement[n].qualifier) :
            ast'[n] = [statement[n] EXCEPT !.qualifier = q]
      BY <1>3, <1>4, <1>5, <2>1, <3>2 DEF Nodes
    <3>4. Covers(next, todo')
      <4>1. todo' = (todo \ {n}) \cup {}
        BY <1>3, <1>5, <2>1 DEF Visit
      <4> QED
        BY <1>2, <1>4, <2>1, <4>1, LeafSteps, StatementFacts DEF ExtractInv
    <3>5. Rewritten(n, all, all, next)'
      BY <1>1, <1>4, <1>6, <1>7, <2>1, <3>1, <3>3 DEF Rewritten
    <3> QED
      BY <3>4, <3>5
  <2>2. CASE statement[n].kind # "colref"
    <3>1. ast' = ast /\ todo' = (todo \ {n}) \cup Children(statement, n)
      BY <1>2, <1>3, <1>5, <2>2, TreeIsKept DEF ExtractInv, Visit
    <3>2. Covers(next, todo')
      BY <1>2, <1>4, <3>1, WalkSteps, StatementFacts DEF ExtractInv
    <3>3. Rewritten(n, all, all, next)'
      BY <1>1, <1>4, <1>6, <1>8, <2>2, <3>1 DEF Rewritten, FunctionCall, SheetOf, NewName
    <3> QED
      BY <3>2, <3>3
  <2> QED
    BY <2>1, <2>2
<1>10. TreeIs(all, all, next)'
  <2>1. ASSUME NEW m \in all, m # n PROVE Rewritten(m, all, all, next)'
    <3>1. Rewritten(m, all, all, seen)
      BY <1>2 DEF TreeIs
    <3> QED
      BY <1>1, <1>6, <1>7, <2>1, <3>1 DEF Rewritten, FunctionCall, SheetOf, NewName
  <2> QED
    BY <1>1, <1>9, <2>1 DEF TreeIs
<1>11. Recorded(all)'
  BY <1>1, <1>2, <1>6, StatementKept DEF Recorded, Records, ToRename, Prefix, NewName
<1>12. Covers(next, todo)'
  BY <1>1, <1>9, StatementKept
<1> QED
  BY <1>1, <1>10, <1>11, <1>12 DEF TreeInv, Finished, Ready

\* A step that leaves the tree and the plan alone leaves what is said of them.
LEMMA TreeUnchanged ==
  ASSUME statement' = statement, ast' = ast, UNCHANGED plan
  PROVE  /\ \A replaced, renamed, followed :
              TreeIs(replaced, renamed, followed)' <=> TreeIs(replaced, renamed, followed)
         /\ \A seen : Recorded(seen)' <=> Recorded(seen)
<1>1. functions' = functions /\ renames' = renames /\ prefixes' = prefixes
  BY DEF plan
<1>2. \A n : (ToReplace(n)' <=> ToReplace(n)) /\ (ToRename(n)' <=> ToRename(n))
  BY <1>1, StatementKept DEF ToReplace, ToRename
<1>3. \A q : NewQualifiers(q)' = NewQualifiers(q)
  BY <1>1 DEF NewQualifiers
<1>4. ASSUME NEW n, NEW replaced, NEW renamed, NEW followed
      PROVE  Rewritten(n, replaced, renamed, followed)' <=> Rewritten(n, replaced, renamed, followed)
  BY <1>2, <1>3 DEF Rewritten, FunctionCall, SheetOf, NewName
<1>5. \A replaced, renamed, followed :
        TreeIs(replaced, renamed, followed)' <=> TreeIs(replaced, renamed, followed)
  BY <1>4 DEF TreeIs
<1>6. \A seen : Recorded(seen)' <=> Recorded(seen)
  BY <1>1, <1>2, StatementKept DEF Recorded, Records, Prefix, NewName
<1> QED
  BY <1>5, <1>6

\* Each walk starts where the one before it, or the plan, has left the tree.
LEMMA PhaseDoneKeeps ==
  ASSUME ExtractInv, PlanInv, TreeInv, PhaseDone
  PROVE  TreeInv'
<1> DEFINE all == Nodes(statement)
<1>1. statement' = statement /\ ast' = ast /\ todo = {} /\ UNCHANGED plan /\ EnterRewrite(pc)
      /\ pc \in {"plan", "replace", "rename", "colref"} /\ Nodes(statement)' = all
  BY DEF PhaseDone, input
<1>2. Shape /\ WellFormed(statement)
  BY StatementFacts DEF ExtractInv
<1>3. /\ \A a, b, c : TreeIs(a, b, c)' <=> TreeIs(a, b, c)
      /\ \A s : Recorded(s)' <=> Recorded(s)
  BY <1>1, TreeUnchanged
<1>4. pc = "plan" => TreeIs({}, {}, {}) /\ prefixes = {}
  BY <1>2 DEF TreeInv, Shape, TreeIs, Rewritten
<1>5. pc = "replace" => TreeIs(all, {}, {}) /\ prefixes = {}
  BY <1>1, <1>2, WalkEnds DEF TreeInv
<1>6. pc = "rename" => TreeIs(all, all, {}) /\ Recorded(all)
  BY <1>1, <1>2, WalkEnds DEF TreeInv
<1>7. pc = "colref" => TreeIs(all, all, all) /\ Recorded(all)
  BY <1>1, <1>2, WalkEnds DEF TreeInv
<1>8. Covers({}, Roots(ast))'
  <2>1. Roots(ast) = Roots(statement)
    BY <1>1, <1>2, <1>4, <1>5, <1>6, <1>7, TreeIsKept
  <2> QED
    BY <1>1, <2>1, WalkStarts, StatementKept
<1>9. prefixes' = prefixes
  BY <1>1 DEF plan
<1>10. CASE pc' = "replace"
  <2>1. pc = "plan" /\ todo' = Roots(ast)
    BY <1>1, <1>10 DEF EnterRewrite, Enter
  <2>2. TreeIs({}, {}, {})' /\ Covers({}, todo)' /\ prefixes' = {}
    BY <1>1, <1>3, <1>4, <1>8, <1>9, <2>1
  <2> QED
    BY <1>10, <2>2 DEF TreeInv, Finished, Ready
<1>11. CASE pc' = "rename"
  <2>1. todo' = Roots(ast) /\ ((pc = "plan" /\ functions = {}) \/ pc = "replace")
    BY <1>1, <1>11 DEF EnterRewrite, Enter
  <2>2. TreeIs(all, {}, {}) /\ prefixes = {}
    BY <1>2, <1>4, <1>5, <2>1, NothingToDo
  <2>3. Recorded({})
    BY <2>2 DEF Recorded
  <2>4. TreeIs(all, {}, {})' /\ Covers({}, todo)' /\ Recorded({})'
    BY <1>1, <1>3, <1>8, <2>1, <2>2, <2>3
  <2> QED
    BY <1>11, <2>4 DEF TreeInv, Finished, Ready
<1>12. CASE pc' = "colref"
  <2>1. pc = "rename" /\ todo' = Roots(ast)
    BY <1>1, <1>12 DEF EnterRewrite, Enter
  <2>2. TreeIs(all, all, {})' /\ Covers({}, todo)' /\ Recorded(all)'
    BY <1>1, <1>3, <1>6, <1>8, <2>1
  <2> QED
    BY <1>12, <2>2 DEF TreeInv, Finished, Ready
<1>13. CASE pc' = "deparse"
  <2>1. \/ pc = "plan" /\ functions = {} /\ renames = {}
        \/ pc = "replace" /\ renames = {}
        \/ pc = "rename" /\ prefixes = {}
        \/ pc = "colref"
    BY <1>1, <1>13 DEF EnterRewrite, Enter
  <2>2. TreeIs(all, all, all) /\ Recorded(all)
    <3>1. CASE pc = "plan"
      <4>1. functions = {} /\ renames = {} /\ prefixes = {} /\ TreeIs({}, {}, {})
        BY <1>4, <2>1, <3>1
      <4>2. TreeIs(all, {}, {})
        BY <1>2, <4>1, NothingToDo
      <4>3. TreeIs(all, all, {})
        BY <1>2, <4>1, <4>2, NothingToDo
      <4>4. TreeIs(all, all, all)
        BY <1>2, <4>1, <4>3, NothingToDo
      <4> QED
        BY <4>1, <4>4 DEF Recorded, ToRename
    <3>2. CASE pc = "replace"
      <4>1. renames = {} /\ prefixes = {} /\ TreeIs(all, {}, {})
        BY <1>5, <2>1, <3>2
      <4>2. TreeIs(all, all, {})
        BY <1>2, <4>1, NothingToDo
      <4>3. TreeIs(all, all, all)
        BY <1>2, <4>1, <4>2, NothingToDo
      <4> QED
        BY <4>1, <4>3 DEF Recorded, ToRename
    <3>3. CASE pc = "rename"
      BY <1>2, <1>6, <2>1, <3>3, NothingToDo
    <3>4. CASE pc = "colref"
      BY <1>7, <3>4
    <3> QED
      BY <2>1, <3>1, <3>2, <3>3, <3>4
  <2>3. TreeIs(all, all, all)' /\ Recorded(all)'
    BY <1>1, <1>3, <2>2
  <2> QED
    BY <1>13, <2>3 DEF TreeInv
<1> QED
  BY <1>1, <1>10, <1>11, <1>12, <1>13 DEF EnterRewrite, Enter

LEMMA TreeNext ==
  ASSUME ExtractInv, PlanInv, TreeInv, [Next]_vars
  PROVE  TreeInv'
<1>1. statement' = statement
  BY InputKept
<1>2. CASE ReplaceNode
  BY <1>2, ReplaceNodeKeeps
<1>3. CASE RenameNode
  BY <1>3, RenameNodeKeeps
<1>4. CASE ColumnRefNode
  BY <1>4, ColumnRefNodeKeeps
<1>5. CASE PhaseDone
  BY <1>5, PhaseDoneKeeps
<1>6. CASE Parse \/ ExtractNode \/ CheckQualified \/ AccessNode \/ CheckPolicy \/ PlanRef
  <2>1. /\ prefixes' = prefixes /\ pc \in {"parse", "extract", "access", "plan"}
        /\ pc' \in {"extract", "access", "plan", "done"} /\ (pc' = "done" => error' # "")
    BY <1>6 DEF Parse, ExtractNode, CheckQualified, AccessNode, CheckPolicy, PlanRef,
                Refuse, Enter, Visit, plan
  <2> QED
    BY <2>1 DEF TreeInv, Finished, Ready
<1>7. CASE Deparse
  <2>1. pc = "deparse" /\ pc' = "done" /\ ast' = ast /\ UNCHANGED plan
    BY <1>7 DEF Deparse, Refuse, Enter
  <2> QED
    BY <1>1, <2>1, TreeUnchanged DEF TreeInv, Finished
<1>8. CASE UNCHANGED vars
  <2>1. pc' = pc /\ error' = error /\ todo' = todo /\ ast' = ast /\ UNCHANGED plan
        /\ prefixes' = prefixes
    BY <1>8 DEF vars, plan
  <2>2. \A seen : Covers(seen, todo)' <=> Covers(seen, todo)
    BY <1>1, <2>1 DEF Covers
  <2>3. /\ \A a, b, c : TreeIs(a, b, c)' <=> TreeIs(a, b, c)
        /\ \A s : Recorded(s)' <=> Recorded(s)
    BY <1>1, <2>1, TreeUnchanged
  <2> QED
    BY <1>1, <2>1, <2>2, <2>3 DEF TreeInv, Finished, Ready
<1> QED
  BY <1>2, <1>3, <1>4, <1>5, <1>6, <1>7, <1>8 DEF Next

LEMMA InitTree == Init => TreeInv
BY DEF Init, TreeInv, Finished, Ready

RewriteInv == ExtractInv /\ PlanInv /\ TreeInv

LEMMA RewriteInvariance == Spec => []RewriteInv
<1>1. Init => RewriteInv
  BY InitExtract, InitPlan, InitTree DEF RewriteInv
<1>2. RewriteInv /\ [Next]_vars => RewriteInv'
  BY ExtractNext, PlanNext, TreeNext DEF RewriteInv
<1> QED
  BY <1>1, <1>2, PTL DEF Spec

\* What is known of a statement that is handed over, node by node.
LEMMA HandedOver ==
  ASSUME RewriteInv, Ready
  PROVE  /\ \A n \in TableRefs : InPlan(n)
         /\ \A n \in Nodes(statement) :
              Rewritten(n, Nodes(statement), Nodes(statement), Nodes(statement))
         /\ Recorded(Nodes(statement))
         /\ \A n \in Nodes(statement) : /\ statement[n] \in TreeNodes
                                        /\ n \in TableRefs => statement[n].kind = "rangevar"
<1>1. refs = TableRefs
  BY DEF RewriteInv, ExtractInv, ExtractExact, Ready
<1>2. \A n \in TableRefs : InPlan(n)
  BY <1>1 DEF RewriteInv, PlanInv, Rewriting
<1>3. TreeIs(Nodes(statement), Nodes(statement), Nodes(statement)) /\ Recorded(Nodes(statement))
  BY DEF RewriteInv, TreeInv, Finished
<1>4. \A n \in Nodes(statement) : statement[n] \in TreeNodes
  BY StatementFacts, TreeFacts DEF RewriteInv, ExtractInv
<1> QED
  BY <1>2, <1>3, <1>4 DEF TreeIs, TableRefs, RangeVars, IsRangeVar

\* Every table of a file, an object store or a sheet is replaced by its own source (SourcesRewritten).
THEOREM EverySourceRewritten == Spec => []SourcesRewritten
<1>1. RewriteInv => SourcesRewritten
  <2> SUFFICES ASSUME RewriteInv, Ready, NEW n \in TableRefs
               PROVE  /\ TypeOf(n) \in RenamedTypes => ast[n].table = NewName(statement[n].table)
                      /\ TypeOf(n) \in FunctionTypes /\ ~IsDirect(statement[n]) =>
                           /\ ast[n].kind = "function"
                           /\ ast[n].table = FunctionCall(statement[n].table)
    BY DEF SourcesRewritten
  <2>1. n \in Nodes(statement)
    BY DEF TableRefs, RangeVars
  <2>2. Rewritten(n, Nodes(statement), Nodes(statement), Nodes(statement)) /\ InPlan(n)
        /\ statement[n] \in TreeNodes
    BY <2>1, HandedOver
  <2>3. CASE TypeOf(n) \in RenamedTypes
    <3>1. ToRename(n) /\ ~ToReplace(n)
      BY <2>2, <2>3, PlansAreDisjoint DEF RewriteInv, InPlan, ToRename, ToReplace
    <3>2. ast[n] = [statement[n] EXCEPT !.table = NewName(statement[n].table)]
      BY <2>1, <2>2, <3>1 DEF Rewritten
    <3> QED
      BY <2>2, <2>3, <3>2 DEF TreeNodes, RenamedTypes, FunctionTypes
  <2>4. CASE TypeOf(n) \in FunctionTypes /\ ~IsDirect(statement[n])
    <3>1. ToReplace(n)
      BY <2>2, <2>4 DEF InPlan, ToReplace
    <3>2. ast[n] = [statement[n] EXCEPT !.kind = "function",
                                        !.table = FunctionCall(statement[n].table)]
      BY <2>1, <2>2, <3>1 DEF Rewritten
    <3> QED
      BY <2>2, <2>4, <3>2 DEF TreeNodes, RenamedTypes, FunctionTypes
  <2> QED
    BY <2>3, <2>4
<1> QED
  BY <1>1, RewriteInvariance, PTL

\* Attached tables, CTE references and all that is no table are left alone (OthersUntouched).
THEOREM NothingElseTouched == Spec => []OthersUntouched
<1>1. RewriteInv => OthersUntouched
  <2> SUFFICES ASSUME RewriteInv, Ready, NEW n \in Nodes(ast), ast[n].kind # "colref",
                      n \in TableRefs => TypeOf(n) \in AttachedTypes
               PROVE  ast[n] = statement[n]
    BY DEF OthersUntouched
  <2>1. n \in Nodes(statement)
    BY DEF RewriteInv, ExtractInv, Shape
  <2>2. Rewritten(n, Nodes(statement), Nodes(statement), Nodes(statement)) /\ statement[n] \in TreeNodes
    BY <2>1, HandedOver
  <2>3. ~ToReplace(n) /\ ~ToRename(n)
    BY DEF RewriteInv, PlanInv, Known, ToReplace, ToRename, TypeOf, AttachedTypes, FunctionTypes,
           RenamedTypes
  <2>4. statement[n].kind # "colref"
    BY <2>1, <2>2, <2>3 DEF Rewritten, TreeNodes
  <2> QED
    BY <2>1, <2>2, <2>3, <2>4 DEF Rewritten
<1> QED
  BY <1>1, RewriteInvariance, PTL

\* The provers do not see through a pair that is itself an application.
LEMMA PairParts ==
  ASSUME NEW pair, NEW a, NEW b, pair = <<a, b>>
  PROVE  pair[1] = a /\ pair[2] = b
OBVIOUS

\* Schema-qualified column references follow the renamed tables they name; those that
\* name no renamed table, in any way, are left alone.  Nothing is claimed of references
\* by the name of the table alone, or in full (ColumnRefsFollowSchema).
THEOREM ColumnRefsFollow == Spec => []ColumnRefsFollowSchema
<1>1. RewriteInv => ColumnRefsFollowSchema
  <2> SUFFICES ASSUME RewriteInv, Ready, NEW n \in Nodes(ast), ast[n].kind = "colref"
               PROVE  IF Named(n) = {} THEN ast[n] = statement[n]
                      ELSE \E m \in Named(n) :
                             /\ ast[n].qualifier[1] = ""
                             /\ ast[n].qualifier[2] = Source[statement[m].table.catalog]
    BY DEF ColumnRefsFollowSchema
  <2> DEFINE q    == statement[n].qualifier
             hits == {p \in prefixes : Len(q) >= 2 /\ p[1] = <<q[1], q[2]>>}
  <2>1. n \in Nodes(statement)
    BY DEF RewriteInv, ExtractInv, Shape
  <2>2. Rewritten(n, Nodes(statement), Nodes(statement), Nodes(statement)) /\ statement[n] \in TreeNodes
        /\ Recorded(Nodes(statement))
    BY <2>1, HandedOver
  <2>3. statement[n].kind = "colref"
    BY <2>1, <2>2, HandedOver, TreeIsKept DEF RewriteInv, ExtractInv, TreeIs
  <2>4. ~ToReplace(n) /\ ~ToRename(n)
    BY <2>3 DEF ToReplace, ToRename, TableRefs, RangeVars, IsRangeVar
  <2>5. PICK new \in NewQualifiers(q) : ast[n] = [statement[n] EXCEPT !.qualifier = new]
    BY <2>1, <2>2, <2>3, <2>4 DEF Rewritten
  \* A recorded prefix that fits is that of a table the reference names.
  <2>6. ASSUME NEW p \in hits
        PROVE  \E m \in Named(n) : p[2] = <<"", Source[statement[m].table.catalog]>>
    <3>1. PICK m \in TableRefs : Records(p, m)
      BY <2>2 DEF Recorded
    <3>2. TypeOf(m) \in RenamedTypes
      BY <3>1 DEF RewriteInv, PlanInv, Known, Records, ToRename, TypeOf
    <3>3. m \in Named(n)
      BY <3>1, <3>2 DEF Named, RenamedRefs, Records
    <3> QED
      BY <3>1, <3>3 DEF Records, NewName, Prefix
  \* A table the reference names has left a prefix that fits.
  <2>7. ASSUME NEW m \in Named(n) PROVE hits # {}
    <3>1. m \in TableRefs /\ TypeOf(m) \in RenamedTypes /\ ~statement[m].aliased
          /\ Len(q) >= 2 /\ Prefix(statement[m].table) = <<q[1], q[2]>>
      BY DEF Named, RenamedRefs
    <3>2. m \in Nodes(statement) /\ ToRename(m)
      BY <3>1, HandedOver DEF InPlan, ToRename, TableRefs, RangeVars
    <3> QED
      BY <2>2, <3>1, <3>2 DEF Recorded
  <2>8. CASE Named(n) = {}
    <3>1. new = q
      BY <2>6, <2>8 DEF NewQualifiers
    <3>2. [statement[n] EXCEPT !.qualifier = q] = statement[n]
      BY <2>2 DEF TreeNodes
    <3> QED
      BY <2>5, <2>8, <3>1, <3>2
  <2>9. CASE Named(n) # {}
    <3>1. PICK p \in hits : new = [q EXCEPT ![1] = p[2][1], ![2] = p[2][2]]
      BY <2>7, <2>9 DEF NewQualifiers
    <3>2. q \in Seq(STRING) /\ Len(q) >= 2
      BY <2>2 DEF TreeNodes
    <3>3. 1 \in DOMAIN q /\ 2 \in DOMAIN q
      BY <3>2
    <3>4. PICK m \in Named(n) : p[2] = <<"", Source[statement[m].table.catalog]>>
      BY <2>6
    <3> DEFINE source == Source[statement[m].table.catalog]
               first  == p[2][1]
               second == p[2][2]
    <3>5. new[1] = "" /\ new[2] = source
      <4>1. first = "" /\ second = source
        <5>1. p[2] = <<"", source>>
          BY <3>4
        <5> HIDE DEF source
        <5> QED
          BY <5>1, PairParts
      <4>2. new = [q EXCEPT ![1] = first, ![2] = second]
        BY <3>1
      <4> HIDE DEF first, second
      <4>3. new[1] = first /\ new[2] = second
        BY <3>3, <4>2
      <4> QED
        BY <4>1, <4>3
    <3>6. ast[n].qualifier = new
      BY <2>2, <2>5 DEF TreeNodes
    <3> QED
      BY <2>9, <3>5, <3>6
  <2> QED
    BY <2>8, <2>9
<1> QED
  BY <1>1, RewriteInvariance, PTL

-----------------------------------------------------------------------------
(* Types.                                                                  *)

Idle == pc \in {"parse", "deparse", "done"} => todo = {}

LEMMA IdleNext ==
  ASSUME Idle, [Next]_vars
  PROVE  Idle'
BY DEF Idle, Next, vars, Parse, ExtractNode, CheckQualified, AccessNode, CheckPolicy, PlanRef,
       PhaseDone, ReplaceNode, RenameNode, ColumnRefNode, Deparse, Refuse, Enter, Visit, EnterRewrite

\* Every worklist and every collection holds nodes and tables of the statement (TypeOK).
THEOREM TypeCorrect == Spec => []TypeOK
<1>1. RewriteInv /\ AccessInv /\ Idle => TypeOK
  <2> SUFFICES ASSUME RewriteInv, AccessInv, Idle PROVE TypeOK
    OBVIOUS
  <2> USE DEF RewriteInv
  <2>1. IsTree(statement) /\ validator \in Validators /\ pc \in Phases /\ error \in Errors
        /\ Nodes(ast) = Nodes(statement)
    BY StatementFacts DEF ExtractInv, Shape, WellFormed
  <2>2. refs \subseteq Nodes(ast)
    <3>1. CASE pc = "extract"
      BY <2>1, <3>1 DEF ExtractInv, Extracting, Collected
    <3>2. CASE pc = "parse" \/ error = "parse"
      BY <3>2 DEF ExtractInv, Extracting
    <3>3. CASE pc \notin {"parse", "extract"} /\ error # "parse"
      BY <2>1, <3>3 DEF ExtractInv, ExtractExact, TableRefs, RangeVars
    <3> QED
      BY <3>1, <3>2, <3>3
  <2>3. todo \subseteq IF pc = "access" THEN {"top", "reads"} \X Nodes(ast) ELSE Nodes(ast)
    <3>1. CASE pc = "access"
      BY <2>1, <3>1 DEF AccessInv, Modes
    <3>2. CASE pc = "plan"
      BY <2>2, <3>2 DEF PlanInv
    <3>3. CASE pc = "extract"
      BY <2>1, <3>3 DEF ExtractInv, Extracting, Covers
    <3>4. CASE pc \in {"replace", "rename", "colref"}
      BY <2>1, <3>4 DEF TreeInv, Covers
    <3>5. CASE pc \in {"parse", "deparse", "done"}
      BY <3>5 DEF Idle
    <3> QED
      BY <2>1, <3>1, <3>2, <3>3, <3>4, <3>5 DEF Phases
  <2>4. cteNames \subseteq CteNames(statement)
    BY DEF ExtractInv, Extracting
  <2>5. accesses \subseteq Nodes(ast) \X OpTypes
    BY <2>1 DEF AccessInv, Justified
  <2>6. (\A t \in renames : Databases[t.catalog] \in RenamedTypes)
        /\ (\A t \in functions : Databases[t.catalog] \in FunctionTypes)
    BY DEF PlanInv, Known
  <2> QED
    BY <2>1, <2>2, <2>3, <2>4, <2>5, <2>6 DEF TypeOK
<1>2. Spec => []Idle
  <2>1. Init => Idle
    BY DEF Init, Idle
  <2> QED
    BY <2>1, IdleNext, PTL DEF Spec
<1> QED
  BY <1>1, <1>2, RewriteInvariance, AccessInvariance, PTL
=============================================================================
