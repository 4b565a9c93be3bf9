---------------------------- MODULE ResultLimits ----------------------------
(***************************************************************************)
(* queryresult.BuildQueryResult: the loop that turns a database cursor     *)
(* into the structured result of a query, with its two limits (MaxRows and *)
(* MaxChars), the binary search of truncateToFit, and the ways a cursor    *)
(* can fail while it is being read.                                        *)
(*                                                                         *)
(* A row's content is abstracted to what the limits see: body[k] is the    *)
(* number of bytes of the JSON encoding of a result with its first k rows, *)
(* without its "message" and "truncated" fields, and NoteLen the number of *)
(* bytes these two take.                                                   *)
(***************************************************************************)
EXTENDS Naturals

CONSTANTS MaxRows,       \* result.go:13
          MaxChars,      \* result.go:14
          SourceSizes,   \* the numbers of rows a query may have
          Bodies,        \* the functions body considered
          RowNote,       \* bytes of  Results truncated to N rows
          FitNote        \* bytes of  Results truncated to N rows to fit ...

ASSUME LimitsAssumption == MaxRows \in Nat \ {0} /\ MaxChars \in Nat
ASSUME SourceAssumption == SourceSizes \subseteq Nat
\* More rows never make the encoding shorter.
ASSUME BodyAssumption ==
          \A b \in Bodies : /\ b \in [0..MaxRows -> Nat]
                            /\ \A i, j \in 0..MaxRows : i <= j => b[i] <= b[j]
\* "false" is one byte longer than "true", and the notes grow.
ASSUME NoteAssumption == RowNote \in Nat /\ FitNote \in Nat /\ 1 < RowNote /\ RowNote < FitNote

VARIABLES pc,        \* where BuildQueryResult is
          source,    \* input: how many rows the query has
          body,      \* input: the encoded sizes
          badRow,    \* input: first row json.Marshal rejects (a NaN); source + 1 if none
          cursor,    \* the *sql.Rows: open, eof, or failed
          kept,      \* len(allRows)
          truncated, \* the local flag of the row loop
          lo, hi,    \* the binary search
          result     \* what BuildQueryResult returns

input == <<source, body, badRow>>
search == <<lo, hi>>
vars == <<pc, input, cursor, kept, truncated, search, result>>

Notes == {"none", "rows", "fit"}
NoteLen(note) == CASE note = "none" -> 1
                   [] note = "rows" -> RowNote
                   [] note = "fit"  -> FitNote

Pending == [status |-> "pending", rowCount |-> 0, truncated |-> FALSE, note |-> "none"]
Failure == [status |-> "error", rowCount |-> 0, truncated |-> FALSE, note |-> "none"]
Success(n, t, note) == [status |-> "ok", rowCount |-> n, truncated |-> t, note |-> note]

\* json.Marshal of a result with its first n rows succeeds.
Encodable(n) == n < badRow
\* ... and the encoding respects the character limit.
Fits(n, note) == Encodable(n) /\ body[n] + NoteLen(note) <= MaxChars

Init == /\ source \in SourceSizes
        /\ body \in Bodies
        /\ badRow \in 1..(source + 1)
        /\ pc = "columns"
        /\ cursor = "open"
        /\ kept = 0
        /\ truncated = FALSE
        /\ lo = 0 /\ hi = 0
        /\ result = Pending

Return(r) == pc' = "done" /\ result' = r

-----------------------------------------------------------------------------
(* The cursor (database/sql, external).                                    *)

\* The query's context ends, or the driver reports an error: the cursor is
\* closed under the loop that reads it.
CursorFails ==
  /\ cursor = "open" /\ pc # "done"
  /\ cursor' = "failed"
  /\ UNCHANGED <<pc, input, kept, truncated, search, result>>

-----------------------------------------------------------------------------
(* BuildQueryResult.                                                       *)

\* rows.Columns and rows.ColumnTypes fail on a closed cursor.
ReadColumns ==
  /\ pc = "columns"
  /\ IF cursor = "failed"
       THEN Return(Failure)
       ELSE pc' = "next" /\ UNCHANGED result
  /\ UNCHANGED <<input, cursor, kept, truncated, search>>

\* Mutant of NextRow: the limit is not tested, so it never stops the loop.
NextRow_Unbounded ==
  /\ pc = "next" /\ cursor = "open" /\ kept < source
  /\ pc' = "scan"
  /\ UNCHANGED <<input, cursor, kept, truncated, search, result>>

\* rows.Next returns TRUE and there is room for one more row.
NextRow ==
  /\ pc = "next" /\ cursor = "open" /\ kept < source
  /\ kept < MaxRows
  /\ pc' = "scan"
  /\ UNCHANGED <<input, cursor, kept, truncated, search, result>>

\* rows.Next returns TRUE but MaxRows rows are already kept.
StopAtMaxRows ==
  /\ pc = "next" /\ cursor = "open" /\ kept < source
  /\ kept >= MaxRows
  /\ truncated' = TRUE
  /\ pc' = "err"
  /\ UNCHANGED <<input, cursor, kept, search, result>>

\* rows.Next returns FALSE: the rows are exhausted or the cursor has failed.
EndOfRows ==
  /\ pc = "next"
  /\ cursor = "open" => kept = source
  /\ cursor' = IF cursor = "open" THEN "eof" ELSE cursor
  /\ pc' = "err"
  /\ UNCHANGED <<input, kept, truncated, search, result>>

\* rows.Scan fails on a cursor closed since rows.Next; otherwise the row is kept.
ScanRow ==
  /\ pc = "scan"
  /\ IF cursor = "failed"
       THEN Return(Failure) /\ UNCHANGED kept
       ELSE /\ kept' = kept + 1
            /\ pc' = "next" /\ UNCHANGED result
  /\ UNCHANGED <<input, cursor, truncated, search>>

\* Mutant of CheckErr: rows.Err is not consulted.
CheckErr_Forgotten ==
  /\ pc = "err" /\ pc' = "encode"
  /\ UNCHANGED <<input, cursor, kept, truncated, search, result>>

\* rows.Err after the loop.
CheckErr ==
  /\ pc = "err"
  /\ IF cursor = "failed"
       THEN Return(Failure)
       ELSE pc' = "encode" /\ UNCHANGED result
  /\ UNCHANGED <<input, cursor, kept, truncated, search>>

LoopNote == IF truncated THEN "rows" ELSE "none"

\* The first json.Marshal, and the decision to search.
Encode ==
  /\ pc = "encode"
  /\ \/ /\ ~Encodable(kept)
        /\ Return(Failure) /\ UNCHANGED search
     \/ /\ Fits(kept, LoopNote)
        /\ Return(Success(kept, truncated, LoopNote)) /\ UNCHANGED search
     \/ /\ Encodable(kept) /\ ~Fits(kept, LoopNote)
        /\ lo' = 0 /\ hi' = kept
        /\ pc' = "search" /\ UNCHANGED result
  /\ UNCHANGED <<input, cursor, kept, truncated>>

-----------------------------------------------------------------------------
(* truncateToFit.                                                          *)

Middle == (lo + hi + 1) \div 2

\* Mutant of Probe: the candidate is measured without its message.
Probe_WithoutMessage ==
  /\ pc = "search" /\ lo < hi
  /\ IF Fits(Middle, "none")
       THEN lo' = Middle /\ UNCHANGED hi
       ELSE hi' = Middle - 1 /\ UNCHANGED lo
  /\ UNCHANGED <<pc, input, cursor, kept, truncated, result>>

\* Mutant of Probe: a candidate that does not fit stays in the range.
Probe_KeepsUpper ==
  /\ pc = "search" /\ lo < hi
  /\ IF Fits(Middle, "fit")
       THEN lo' = Middle /\ UNCHANGED hi
       ELSE hi' = Middle /\ UNCHANGED lo
  /\ UNCHANGED <<pc, input, cursor, kept, truncated, result>>

\* One iteration of the search: encode a candidate with Middle rows.
Probe ==
  /\ pc = "search" /\ lo < hi
  /\ IF Fits(Middle, "fit")
       THEN lo' = Middle /\ UNCHANGED hi
       ELSE hi' = Middle - 1 /\ UNCHANGED lo
  /\ UNCHANGED <<pc, input, cursor, kept, truncated, result>>

\* Mutant of FinishSearch: the flag of the row loop is returned unchanged.
FinishSearch_KeepsFlag ==
  /\ pc = "search" /\ ~(lo < hi)
  /\ Return(Success(lo, truncated, "fit"))
  /\ UNCHANGED <<input, cursor, kept, truncated, search>>

FinishSearch ==
  /\ pc = "search" /\ ~(lo < hi)
  /\ Return(Success(lo, TRUE, "fit"))
  /\ UNCHANGED <<input, cursor, kept, truncated, search>>

Build == \/ ReadColumns \/ NextRow \/ StopAtMaxRows \/ EndOfRows \/ ScanRow
         \/ CheckErr \/ Encode \/ Probe \/ FinishSearch

Next == CursorFails \/ Build

Spec == Init /\ [][Next]_vars

\* BuildQueryResult is a sequential function: while it has a step it takes it.
FairSpec == Spec /\ WF_vars(Build)

-----------------------------------------------------------------------------
(* Properties.                                                             *)

TypeOK == /\ pc \in {"columns", "next", "scan", "err", "encode", "search", "done"}
          /\ source \in SourceSizes /\ body \in Bodies /\ badRow \in 1..(source + 1)
          /\ cursor \in {"open", "eof", "failed"}
          /\ kept \in 0..MaxRows /\ kept <= source
          /\ truncated \in BOOLEAN
          /\ lo \in 0..MaxRows /\ hi \in 0..MaxRows
          /\ result \in [status : {"pending", "ok", "error"}, rowCount : 0..MaxRows,
                         truncated : BOOLEAN, note : Notes]

\* The rows a query that is read to its end, or to the limit, contributes.
Collected == IF source > MaxRows THEN MaxRows ELSE source
FullNote  == IF source > MaxRows THEN "rows" ELSE "none"

\* A cursor that fails half-way (timeout, cancelled request, driver error) is
\* never reported as a success with the rows read so far: a success has seen
\* every row up to the limit.
NoPartialSuccess == result.status = "ok" => kept = Collected

\* The result is the longest prefix that respects the character limit:
\* everything collected if that fits, otherwise exactly the rows for which a
\* truncated encoding fits.  The binary search must not stop short nor overshoot.
\* When the columns alone are over the limit that is no row, and the result is
\* returned over it.
LongestPrefix ==
  result.status = "ok" =>
    IF Fits(Collected, FullNote)
      THEN result.rowCount = Collected
      ELSE \A k \in 1..Collected : k <= result.rowCount <=> Fits(k, "fit")

\* The "truncated" flag tells the reader the truth: it is set exactly when rows
\* of the query are missing (or, with no row at all, the header alone is over
\* the limit).
TruncationReported ==
  result.status = "ok" =>
    /\ result.rowCount < source => result.truncated
    /\ result.truncated => result.rowCount < source \/ source = 0

\* While truncateToFit searches, the answer is between lo and hi: every shorter
\* candidate is known to fit, every longer one not to, and the full encoding is
\* over the limit.
SearchBrackets ==
  pc = "search" => /\ lo <= hi /\ hi <= kept
                   /\ kept = Collected /\ truncated = (source > MaxRows)
                   /\ Encodable(kept) /\ ~Fits(kept, LoopNote)
                   /\ \A k \in 1..lo : Fits(k, "fit")
                   /\ \A k \in (hi + 1)..kept : ~Fits(k, "fit")

\* Where the row loop stands, step by step: what the three properties above rest on.
LoopInv ==
  /\ pc \in {"columns", "next", "scan"} => ~truncated
  /\ pc = "scan" => kept < source /\ kept < MaxRows
  /\ cursor = "eof" => pc \notin {"columns", "next", "scan"}
  /\ pc = "err" /\ cursor # "failed" => kept = Collected /\ truncated = (source > MaxRows)
  /\ pc = "encode" => kept = Collected /\ truncated = (source > MaxRows)
  /\ pc # "done" => result = Pending

Inv == TypeOK /\ LoopInv /\ SearchBrackets /\ NoPartialSuccess /\ LongestPrefix /\ TruncationReported

\* Building a result always ends, whatever happens to the cursor.
Terminates == <>(pc = "done")
=============================================================================
