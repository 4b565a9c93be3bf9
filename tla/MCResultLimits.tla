--------------------------- MODULE MCResultLimits ---------------------------
(* ResultLimits on results of at most four rows: sources shorter than, equal *)
(* to and longer than MaxRows, with encodings that cross MaxChars anywhere.  *)
EXTENDS ResultLimits

MCSourceSizes == 0..6

\* A header of 1..9 bytes and rows of 1 or 2: the limit of 8 falls in the header,
\* between any two rows, or after the last one.
MCBodies == {b \in [0..MaxRows -> 0..17] :
               /\ b[0] \in {1, 3, 5, 9}
               /\ \A k \in 1..MaxRows : b[k] - b[k - 1] \in {1, 2}}
=============================================================================
