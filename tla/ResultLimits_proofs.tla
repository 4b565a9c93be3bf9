------------------------ MODULE ResultLimits_proofs ------------------------
(***************************************************************************)
(* For every value of the limits, every number of rows and every monotone  *)
(* encoding: a successful result accounts for all the rows of the query,   *)
(* is the longest prefix that fits, and tells whether rows are missing.    *)
(***************************************************************************)
EXTENDS ResultLimits, TLAPS

LEMMA BodyFacts ==
  ASSUME TypeOK
  PROVE  /\ MaxRows \in Nat /\ MaxRows # 0 /\ MaxChars \in Nat
         /\ source \in Nat /\ badRow \in Nat /\ badRow # 0
         /\ \A k \in 0..MaxRows : body[k] \in Nat
         /\ \A i, j \in 0..MaxRows : i <= j => body[i] <= body[j]
BY LimitsAssumption, SourceAssumption, BodyAssumption DEF TypeOK

LEMMA NoteLens ==
  /\ NoteLen("none") = 1 /\ NoteLen("rows") = RowNote /\ NoteLen("fit") = FitNote
  /\ RowNote \in Nat /\ FitNote \in Nat /\ 1 < RowNote /\ RowNote < FitNote
BY NoteAssumption DEF NoteLen

\* A candidate shorter than one that fits, fits: what makes the binary search
\* of truncateToFit (result.go:98-113) correct.
LEMMA FitsMonotone ==
  ASSUME TypeOK, NEW i \in 0..MaxRows, NEW j \in 0..MaxRows, i <= j, Fits(j, "fit")
  PROVE  Fits(i, "fit")
<1>1. body[i] <= body[j] /\ body[i] \in Nat /\ body[j] \in Nat /\ MaxChars \in Nat
  BY BodyFacts
<1>2. i < badRow
  BY BodyFacts DEF Fits, Encodable
<1> QED
  BY <1>1, <1>2, NoteLens DEF Fits, Encodable

\* The message of a truncated candidate is longer than what it replaces.
LEMMA NoteGrows ==
  ASSUME TypeOK, NEW k \in 0..MaxRows, Fits(k, "fit")
  PROVE  Fits(k, LoopNote)
<1>1. body[k] \in Nat /\ MaxChars \in Nat
  BY BodyFacts
<1>2. body[k] + FitNote <= MaxChars /\ Encodable(k)
  BY NoteLens DEF Fits
<1>3. LoopNote \in {"none", "rows"}
  BY DEF LoopNote
<1>4. NoteLen(LoopNote) \in Nat /\ NoteLen(LoopNote) < FitNote
  BY <1>3, NoteLens
<1> QED
  BY <1>1, <1>2, <1>4, NoteLens DEF Fits

LEMMA MiddleBetween ==
  ASSUME TypeOK, lo < hi
  PROVE  Middle \in 0..MaxRows /\ lo < Middle /\ Middle <= hi
BY LimitsAssumption DEF TypeOK, Middle

-----------------------------------------------------------------------------
LEMMA InitInv == Init => Inv
<1> SUFFICES ASSUME Init PROVE Inv
  OBVIOUS
<1>1. TypeOK
  <2>1. result \in [status : {"pending", "ok", "error"}, rowCount : 0..MaxRows,
                   truncated : BOOLEAN, note : Notes]
    BY LimitsAssumption DEF Init, Pending, Notes
  <2>2. 0 \in 0..MaxRows /\ 0 <= source
    BY LimitsAssumption, SourceAssumption DEF Init
  <2> QED
    BY <2>1, <2>2 DEF Init, TypeOK
<1>2. LoopInv
  BY DEF Init, LoopInv
<1>3. SearchBrackets /\ result.status # "ok"
  BY DEF Init, SearchBrackets, Pending
<1> QED
  BY <1>1, <1>2, <1>3 DEF Inv, NoPartialSuccess, LongestPrefix, TruncationReported

\* Steps that neither start nor continue a search, and return no success.
LEMMA QuietStep ==
  ASSUME TypeOK', LoopInv', pc' # "search", result'.status # "ok"
  PROVE  Inv'
BY DEF Inv, SearchBrackets, NoPartialSuccess, LongestPrefix, TruncationReported

LEMMA ResultStatuses ==
  /\ Pending.status # "ok" /\ Failure.status # "ok"
  /\ \A n, t, note : Success(n, t, note).status = "ok"
BY DEF Pending, Failure, Success

-----------------------------------------------------------------------------
(* The invariant is inductive: one step per action.                        *)

LEMMA NextInv == Inv /\ [Next]_vars => Inv'
<1> SUFFICES ASSUME Inv, [Next]_vars PROVE Inv'
  OBVIOUS
<1> USE DEF input, search, Return
<1>t. TypeOK /\ LoopInv /\ SearchBrackets
  BY DEF Inv
<1>r. Failure \in [status : {"pending", "ok", "error"}, rowCount : 0..MaxRows,
                   truncated : BOOLEAN, note : Notes]
  BY LimitsAssumption DEF Failure, Notes
<1>1. CASE CursorFails
  <2>1. TypeOK'
    BY <1>1, <1>t DEF CursorFails, TypeOK
  <2>2. LoopInv' /\ result.status # "ok"
    BY <1>1, <1>t, ResultStatuses DEF CursorFails, LoopInv, Collected
  <2>3. SearchBrackets'
    BY <1>1, <1>t DEF CursorFails, SearchBrackets, Fits, Encodable, LoopNote, Collected
  <2> QED
    BY <1>1, <2>1, <2>2, <2>3
       DEF CursorFails, Inv, NoPartialSuccess, LongestPrefix, TruncationReported
<1>2. CASE ReadColumns
  <2>1. TypeOK'
    BY <1>2, <1>t, <1>r DEF ReadColumns, TypeOK
  <2>2. LoopInv'
    BY <1>2, <1>t DEF ReadColumns, LoopInv, Collected
  <2>3. pc' # "search" /\ result'.status # "ok"
    BY <1>2, <1>t, ResultStatuses DEF ReadColumns, LoopInv
  <2> QED
    BY <2>1, <2>2, <2>3, QuietStep
<1>3. CASE NextRow
  <2>1. TypeOK'
    BY <1>3, <1>t DEF NextRow, TypeOK
  <2>2. LoopInv' /\ pc' # "search" /\ result'.status # "ok"
    BY <1>3, <1>t, ResultStatuses DEF NextRow, LoopInv, Collected
  <2> QED
    BY <2>1, <2>2, QuietStep
<1>4. CASE StopAtMaxRows
  <2>1. TypeOK'
    BY <1>4, <1>t DEF StopAtMaxRows, TypeOK
  <2>2. kept = MaxRows /\ source > MaxRows
    BY <1>4, <1>t, BodyFacts DEF StopAtMaxRows, TypeOK
  <2>3. LoopInv' /\ pc' # "search" /\ result'.status # "ok"
    BY <1>4, <1>t, <2>2, ResultStatuses DEF StopAtMaxRows, LoopInv, Collected
  <2> QED
    BY <2>1, <2>3, QuietStep
<1>5. CASE EndOfRows
  <2>1. TypeOK'
    BY <1>5, <1>t DEF EndOfRows, TypeOK
  <2>2. cursor = "open" => kept = source /\ ~(source > MaxRows)
    BY <1>5, <1>t, BodyFacts DEF EndOfRows, TypeOK
  <2>3. LoopInv' /\ pc' # "search" /\ result'.status # "ok"
    BY <1>5, <1>t, <2>2, ResultStatuses DEF EndOfRows, LoopInv, Collected, TypeOK
  <2> QED
    BY <2>1, <2>3, QuietStep
<1>6. CASE ScanRow
  <2>1. TypeOK'
    BY <1>6, <1>t, <1>r, BodyFacts DEF ScanRow, TypeOK, LoopInv
  <2>2. LoopInv' /\ pc' # "search" /\ result'.status # "ok"
    BY <1>6, <1>t, ResultStatuses DEF ScanRow, LoopInv, Collected
  <2> QED
    BY <2>1, <2>2, QuietStep
<1>7. CASE CheckErr
  <2>1. TypeOK'
    BY <1>7, <1>t, <1>r DEF CheckErr, TypeOK
  <2>2. LoopInv' /\ pc' # "search" /\ result'.status # "ok"
    BY <1>7, <1>t, ResultStatuses DEF CheckErr, LoopInv, Collected
  <2> QED
    BY <2>1, <2>2, QuietStep
<1>8. CASE Encode
  <2>0. pc = "encode" /\ kept = Collected /\ truncated = (source > MaxRows)
        /\ kept \in 0..MaxRows /\ LoopNote = FullNote
    BY <1>8, <1>t DEF Encode, LoopInv, TypeOK, LoopNote, FullNote
  <2>1. CASE ~Encodable(kept) /\ Return(Failure) /\ UNCHANGED <<lo, hi>>
    <3>1. TypeOK'
      BY <1>8, <1>t, <1>r, <2>1 DEF Encode, TypeOK
    <3>2. LoopInv' /\ pc' # "search" /\ result'.status # "ok"
      BY <1>8, <1>t, <2>1, ResultStatuses DEF Encode, LoopInv, Collected
    <3> QED
      BY <3>1, <3>2, QuietStep
  <2>2. CASE /\ Fits(kept, LoopNote)
             /\ Return(Success(kept, truncated, LoopNote)) /\ UNCHANGED <<lo, hi>>
    <3>1. result' = [status |-> "ok", rowCount |-> kept, truncated |-> truncated,
                     note |-> LoopNote] /\ pc' = "done"
      BY <2>2 DEF Success
    <3>2. LoopNote \in Notes /\ truncated \in BOOLEAN
      BY <1>t DEF LoopNote, Notes, TypeOK
    <3>3. TypeOK'
      BY <1>8, <1>t, <2>2, <3>1, <3>2 DEF Encode, TypeOK
    <3>4. UNCHANGED <<source, body, badRow, kept, cursor>>
      BY <1>8 DEF Encode
    <3>5. LoopInv' /\ SearchBrackets'
      BY <1>t, <3>1, <3>4 DEF LoopInv, SearchBrackets, Collected
    <3>6. LongestPrefix'
      BY <2>0, <2>2, <3>1, <3>4 DEF LongestPrefix, Collected, FullNote, Fits, Encodable
    <3>7. NoPartialSuccess'
      BY <2>0, <3>4 DEF NoPartialSuccess, Collected
    <3>8. TruncationReported'
      <4>1. source \in Nat /\ MaxRows \in Nat /\ truncated \in BOOLEAN
        BY <1>t, BodyFacts DEF TypeOK
      <4>2. result'.rowCount = kept /\ result'.truncated = truncated
        BY <3>1
      <4>3. (kept < source) = (source > MaxRows)
        BY <2>0, <4>1 DEF Collected
      <4>4. (kept < source) = truncated
        BY <2>0, <4>3, Zenon
      <4> QED
        BY <3>4, <4>2, <4>4 DEF TruncationReported
    <3> QED
      BY <3>3, <3>5, <3>6, <3>7, <3>8 DEF Inv
  <2>3. CASE /\ Encodable(kept) /\ ~Fits(kept, LoopNote)
             /\ lo' = 0 /\ hi' = kept
             /\ pc' = "search" /\ UNCHANGED result
    <3>1. TypeOK'
      BY <1>8, <1>t, <2>0, <2>3, LimitsAssumption DEF Encode, TypeOK
    <3>2. UNCHANGED <<source, body, badRow, kept, cursor, truncated>>
      BY <1>8 DEF Encode
    <3>3. LoopInv' /\ result'.status # "ok"
      BY <1>t, <2>0, <2>3, <3>2, ResultStatuses DEF LoopInv, Collected
    <3>4. SearchBrackets'
      BY <2>0, <2>3, <3>2 DEF SearchBrackets, Collected, Fits, Encodable, LoopNote
    <3> QED
      BY <3>1, <3>3, <3>4 DEF Inv, NoPartialSuccess, LongestPrefix, TruncationReported
  <2> QED
    BY <1>8, <2>1, <2>2, <2>3 DEF Encode
<1>9. CASE Probe
  <2>0. /\ pc = "search" /\ lo < hi
        /\ UNCHANGED <<pc, source, body, badRow, kept, cursor, truncated, result>>
    BY <1>9 DEF Probe
  <2>1. Middle \in 0..MaxRows /\ lo < Middle /\ Middle <= hi /\ lo \in Nat /\ hi \in Nat
        /\ kept \in 0..MaxRows /\ hi <= kept
    BY <1>t, <2>0, MiddleBetween, LimitsAssumption DEF TypeOK, SearchBrackets
  <2>2. TypeOK'
    BY <1>9, <1>t, <2>0, <2>1, LimitsAssumption DEF Probe, TypeOK
  <2>3. LoopInv' /\ result'.status # "ok"
    BY <1>t, <2>0, ResultStatuses DEF LoopInv, Collected
  <2>4. \A k \in 1..lo' : Fits(k, "fit")
    <3>1. CASE Fits(Middle, "fit")
      <4>1. \A k \in 1..Middle : Fits(k, "fit")
        BY <1>t, <2>1, <3>1, FitsMonotone, LimitsAssumption
      <4> QED
        BY <1>9, <3>1, <4>1 DEF Probe
    <3>2. CASE ~Fits(Middle, "fit")
      BY <1>9, <1>t, <2>0, <3>2 DEF Probe, SearchBrackets
    <3> QED
      BY <3>1, <3>2
  <2>5. \A k \in (hi' + 1)..kept : ~Fits(k, "fit")
    <3>1. CASE Fits(Middle, "fit")
      BY <1>9, <1>t, <2>0, <3>1 DEF Probe, SearchBrackets
    <3>2. CASE ~Fits(Middle, "fit")
      <4>1. \A k \in Middle..kept : ~Fits(k, "fit")
        BY <1>t, <2>1, <3>2, FitsMonotone, LimitsAssumption
      <4>2. hi' + 1 = Middle
        BY <1>9, <2>1, <3>2 DEF Probe
      <4> QED
        BY <4>1, <4>2
    <3> QED
      BY <3>1, <3>2
  <2>6. lo' <= hi' /\ hi' <= kept
    BY <1>9, <2>1 DEF Probe
  <2>7. SearchBrackets'
    BY <1>t, <2>0, <2>4, <2>5, <2>6
       DEF SearchBrackets, Collected, Fits, Encodable, LoopNote
  <2> QED
    BY <2>2, <2>3, <2>7 DEF Inv, NoPartialSuccess, LongestPrefix, TruncationReported
<1>10. CASE FinishSearch
  <2>0. /\ pc = "search" /\ pc' = "done" /\ lo = hi /\ lo \in 0..MaxRows /\ lo <= kept
        /\ UNCHANGED <<source, body, badRow, kept, cursor, truncated, lo, hi>>
    BY <1>10, <1>t, LimitsAssumption DEF FinishSearch, SearchBrackets, TypeOK
  <2>1. result' = [status |-> "ok", rowCount |-> lo, truncated |-> TRUE, note |-> "fit"]
    BY <1>10 DEF FinishSearch, Success
  <2>2. TypeOK'
    <3>1. result' \in [status : {"pending", "ok", "error"}, rowCount : 0..MaxRows,
                       truncated : BOOLEAN, note : Notes]
      BY <2>0, <2>1 DEF Notes
    <3> QED
      BY <1>t, <2>0, <3>1 DEF TypeOK
  <2>3. LoopInv' /\ SearchBrackets'
    BY <1>t, <2>0 DEF LoopInv, SearchBrackets, Collected
  <2>4. kept = Collected /\ truncated = (source > MaxRows) /\ ~Fits(kept, LoopNote)
        /\ kept \in 0..MaxRows /\ LoopNote = FullNote
    BY <1>t, <2>0 DEF SearchBrackets, TypeOK, LoopNote, FullNote
  <2>5. NoPartialSuccess'
    BY <2>0, <2>4 DEF NoPartialSuccess, Collected
  <2>6. LongestPrefix'
    <3>1. \A k \in 1..kept : k <= lo <=> Fits(k, "fit")
      BY <1>t, <2>0, <2>4, LimitsAssumption DEF SearchBrackets
    <3>2. ~Fits(Collected, FullNote)
      BY <2>4
    <3> QED
      BY <2>0, <2>1, <2>4, <3>1, <3>2 DEF LongestPrefix, Collected, FullNote, Fits, Encodable
  <2>7. TruncationReported'
    <3>1. kept # 0 => lo < kept
      BY <1>t, <2>0, <2>4, NoteGrows, LimitsAssumption DEF SearchBrackets
    <3>2. source \in Nat /\ MaxRows \in Nat /\ MaxRows # 0
      BY <1>t, BodyFacts
    <3> QED
      BY <2>0, <2>1, <2>4, <3>1, <3>2 DEF TruncationReported, Collected
  <2> QED
    BY <2>2, <2>3, <2>5, <2>6, <2>7 DEF Inv
<1>11. CASE UNCHANGED vars
  BY <1>11 DEF vars, Inv, TypeOK, LoopInv, SearchBrackets, NoPartialSuccess, LongestPrefix,
     TruncationReported, Collected, FullNote, Fits, Encodable, LoopNote
<1> QED
  BY <1>1, <1>2, <1>3, <1>4, <1>5, <1>6, <1>7, <1>8, <1>9, <1>10, <1>11 DEF Next, Build

\* BuildQueryResult keeps its invariant for every value of the limits.
THEOREM Invariance == Spec => []Inv
<1>1. Init => Inv
  BY InitInv
<1>2. Inv /\ [Next]_vars => Inv'
  BY NextInv
<1> QED
  BY <1>1, <1>2, PTL DEF Spec

\* The variables of BuildQueryResult keep their types.
THEOREM TypeCorrect == Spec => []TypeOK
BY Invariance, PTL DEF Inv

\* A success accounts for every row of the query, up to MaxRows (result.go:54-70).
THEOREM SuccessIsComplete == Spec => []NoPartialSuccess
BY Invariance, PTL DEF Inv

\* The binary search of truncateToFit returns the longest prefix that fits.
THEOREM ResultIsLongestPrefix == Spec => []LongestPrefix
BY Invariance, PTL DEF Inv

\* The truncated flag of a success tells whether rows are missing.
THEOREM FlagIsTruthful == Spec => []TruncationReported
BY Invariance, PTL DEF Inv

\* The binary search never loses the answer: it stays between lo and hi.
THEOREM SearchIsBracketed == Spec => []SearchBrackets
BY Invariance, PTL DEF Inv
=============================================================================
