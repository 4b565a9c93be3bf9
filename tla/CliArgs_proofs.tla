--------------------------- MODULE CliArgs_proofs ---------------------------
(***************************************************************************)
(* For command lines of any length: no token is lost, and what runs is     *)
(* what was meant, wherever the query and the flags are written.           *)
(***************************************************************************)
EXTENDS CliArgs, SegmentLemmas

-----------------------------------------------------------------------------
(* The tokens of an invocation.                                            *)

Token == {Word(text) : text \in STRING} \cup {Flag(name) : name \in STRING}
           \cup {Assigned(name, value) : name \in STRING, value \in STRING}

FlagSeq   == [i \in DOMAIN given.flags |-> FlagTokens(given.flags[i])]
ValueSeq(name) == [i \in DOMAIN given.flags |->
                     IF given.flags[i].name = name THEN <<given.flags[i].value>> ELSE <<>>]
Count        == Len(given.flags)
Behind(m, n) == Segment(FlagSeq, m, n)
Query        == IF given.sql = "" THEN <<>> ELSE <<Word(given.sql)>>

LEMMA TokenTypes ==
  ASSUME NEW name \in STRING, NEW value \in STRING
  PROVE  Word(name) \in Token /\ Flag(name) \in Token /\ Assigned(name, value) \in Token
BY DEF Token

LEMMA InvocationFacts ==
  ASSUME given \in Invocations
  PROVE  /\ given.command \in Commands /\ given.sql \in STRING
         /\ given.sql # "" => given.command = "query"
         /\ Count \in Nat /\ DOMAIN given.flags = 1..Count
         /\ \A i \in 1..Count : /\ given.flags[i].name \in STRING /\ given.flags[i].value \in STRING
                                /\ given.flags[i].assigned \in BOOLEAN
                                /\ ~given.flags[i].assigned => given.flags[i].value \notin Dashed
<1> DEFINE F == [name : STRING, value : STRING, assigned : BOOLEAN]
<1>1. /\ given.command \in Commands /\ given.sql \in STRING /\ given.flags \in Seq(F)
      /\ given.sql # "" => given.command = "query"
      /\ \A i \in DOMAIN given.flags : given.flags[i].assigned \/ given.flags[i].value \notin Dashed
  BY InvocationsAssumption
<1>2. Count \in Nat /\ DOMAIN given.flags = 1..Count
  BY <1>1, LenProperties DEF Count
<1> HIDE DEF F
<1>3. \A i \in 1..Count : given.flags[i] \in F
  BY <1>1, <1>2, ElementOfSeq DEF Count
<1> QED
  BY <1>1, <1>2, <1>3 DEF F

LEMMA SequencesOfFlags ==
  ASSUME given \in Invocations
  PROVE  /\ FlagSeq \in Seq(Seq(Token)) /\ Len(FlagSeq) = Count
         /\ \A name : ValueSeq(name) \in Seq(Seq(STRING)) /\ Len(ValueSeq(name)) = Count
         /\ Query \in Seq(Token)
<1>1. ASSUME NEW i \in 1..Count PROVE FlagTokens(given.flags[i]) \in Seq(Token)
  <2>1. PICK a, b : a = given.flags[i].name /\ b = given.flags[i].value
    OBVIOUS
  <2>2. a \in STRING /\ b \in STRING
    BY <2>1, InvocationFacts
  <2>3. <<Assigned(a, b)>> \in Seq(Token) /\ <<Flag(a), Word(b)>> \in Seq(Token)
    BY <2>2, TokenTypes, OneOrTwo
  <2> QED
    BY <2>1, <2>3, Zenon DEF FlagTokens
<1>2. ASSUME NEW i \in 1..Count, NEW name
      PROVE  (IF given.flags[i].name = name THEN <<given.flags[i].value>> ELSE <<>>) \in Seq(STRING)
  <2>1. given.flags[i].value \in STRING
    BY InvocationFacts
  <2>2. <<given.flags[i].value>> \in Seq(STRING) /\ <<>> \in Seq(STRING)
    BY <2>1, OneOrTwo
  <2> QED
    BY <2>2, Zenon
<1>3. FlagSeq \in [1..Count -> Seq(Token)]
  BY <1>1, InvocationFacts DEF FlagSeq
<1>4. \A name : ValueSeq(name) \in [1..Count -> Seq(STRING)]
  BY <1>2, InvocationFacts DEF ValueSeq
<1>5. Query \in Seq(Token)
  <2>1. given.sql \in STRING
    BY InvocationFacts
  <2>2. <<Word(given.sql)>> \in Seq(Token) /\ <<>> \in Seq(Token)
    BY <2>1, TokenTypes, OneOrTwo
  <2> QED
    BY <2>2, Zenon DEF Query
<1>6. FlagSeq \in Seq(Seq(Token)) /\ Len(FlagSeq) = Count
  BY <1>3, InvocationFacts, IsSeqOf
<1>7. ASSUME NEW name PROVE ValueSeq(name) \in Seq(Seq(STRING)) /\ Len(ValueSeq(name)) = Count
  BY <1>4, InvocationFacts, IsSeqOf
<1> QED
  BY <1>5, <1>6, <1>7

\* What the tokens of one flag are.
LEMMA FlagTokensAre ==
  ASSUME given \in Invocations, NEW i \in 1..Count
  PROVE  LET f == given.flags[i]
             x == FlagTokens(f)
         IN /\ FlagSeq[i] = x /\ x \in Seq(Token)
            /\ f.assigned => /\ Len(x) = 1 /\ x[1].kind = "assigned"
                             /\ x[1].name = f.name /\ x[1].value = f.value
            /\ ~f.assigned => /\ Len(x) = 2 /\ x[1].kind = "flag" /\ x[1].name = f.name
                              /\ x[2].kind = "word" /\ x[2].name = f.value
<1>1. FlagSeq[i] = FlagTokens(given.flags[i])
  BY InvocationFacts DEF FlagSeq
<1>2. FlagSeq[i] \in Seq(Token)
  BY SequencesOfFlags, ElementOfSeq
<1> QED
  BY <1>1, <1>2, InvocationFacts DEF FlagTokens, Flag, Word, Assigned

-----------------------------------------------------------------------------
(* Where the command line is.                                              *)

\* The query is written behind the n-th flag; the first m flags have been read.
Rest(m, n) == Behind(m, n) \o (Query \o Behind(n, Count))

\* reorderArgs has not met the query yet.
BeforeQuery(m, n) ==
  m <= n /\ rest = Rest(m, n) /\ flags = Behind(0, m) /\ positional = <<>>

\* It has; a query that starts with a dash went with the flags.
BehindQuery(m, n) ==
  /\ n <= m /\ rest = Behind(m, Count)
  /\ \/ given.sql \notin Dashed /\ flags = Behind(0, m) /\ positional = Query
     \/ /\ given.sql \in Dashed /\ positional = <<>>
        /\ flags = (Behind(0, n) \o Query) \o Behind(n, m)

Sorting(m, n) == BeforeQuery(m, n) \/ BehindQuery(m, n)

Parsing(m, n) ==
  /\ m <= n /\ rest = Rest(m, n) /\ (n = Count \/ given.sql \in Dashed)
  /\ \A i \in 1..m : given.flags[i].name \in FlagsOf(given.command)
  /\ \A f \in DOMAIN values : values[f] = Segment(ValueSeq(f), 0, m)

Parsed ==
  /\ given.sql \notin Dashed /\ Sql = given.sql /\ ((given.command = "query") = (given.sql # ""))
  /\ \A i \in 1..Count : given.flags[i].name \in FlagsOf(given.command)
  /\ \A f \in DOMAIN values : values[f] = Given(f)

Inv ==
  /\ TypeOK
  /\ pc = "reorder" => /\ values = [f \in FlagsOf(given.command) |-> <<>>]
                       /\ \E m, n \in 0..Count : Sorting(m, n)
  /\ pc = "parse" => \E m, n \in 0..Count : Parsing(m, n)
  /\ pc \in {"resolve", "run"} => Parsed
  /\ pc = "run" => Valid
  /\ pc = "exit" => ~Valid

LEMMA BehindIs ==
  ASSUME given \in Invocations, NEW n \in 0..Count, NEW m \in 0..n
  PROVE  /\ Behind(m, n) \in Seq(Token)
         /\ Behind(n, n) = <<>>
         /\ m # n => /\ Behind(m, n) = FlagSeq[m + 1] \o Behind(m + 1, n)
                     /\ FlagSeq[m + 1] \in Seq(Token) /\ Behind(m + 1, n) \in Seq(Token)
         /\ n < Count => Behind(m, n + 1) = Behind(m, n) \o FlagSeq[n + 1]
<1>0. Count \in Nat
  BY InvocationFacts
<1>1. Count \in Nat /\ FlagSeq \in Seq(Seq(Token)) /\ Len(FlagSeq) = Count /\ n \in Nat
  BY <1>0, SequencesOfFlags
<1>2. Behind(m, n) \in Seq(Token)
  BY <1>1, SegmentType DEF Behind
<1>3. Behind(n, n) = <<>>
  BY <1>1, SegmentEmpty DEF Behind
<1>4. m # n => /\ Behind(m, n) = FlagSeq[m + 1] \o Behind(m + 1, n)
               /\ FlagSeq[m + 1] \in Seq(Token) /\ Behind(m + 1, n) \in Seq(Token)
  BY <1>1, SegmentFirst DEF Behind
<1>5. n < Count => Behind(m, n + 1) = Behind(m, n) \o FlagSeq[n + 1]
  BY <1>1, SegmentLast DEF Behind
<1> QED
  BY <1>2, <1>3, <1>4, <1>5

LEMMA RestIs ==
  ASSUME given \in Invocations, NEW n \in 0..Count, NEW m \in 0..n
  PROVE  /\ Rest(m, n) \in Seq(Token)
         /\ Rest(n, n) = Query \o Behind(n, Count)
         /\ m # n => /\ Rest(m, n) = FlagSeq[m + 1] \o Rest(m + 1, n)
                     /\ FlagSeq[m + 1] \in Seq(Token) /\ Rest(m + 1, n) \in Seq(Token)
<1>a. Count \in Nat
  BY InvocationFacts
<1>0. Count \in Nat /\ Count \in 0..Count /\ n \in 0..Count /\ n \in Nat /\ n \in 0..n
  BY <1>a
<1>1. Behind(n, Count) \in Seq(Token) /\ Query \in Seq(Token)
  BY <1>0, BehindIs, SequencesOfFlags
<1>2. PICK y \in Seq(Token) : y = Query \o Behind(n, Count)
  BY <1>1, ConcatProperties
<1>3. ASSUME NEW k \in 0..n PROVE Rest(k, n) = Behind(k, n) \o y /\ Rest(k, n) \in Seq(Token)
  <2>1. Behind(k, n) \in Seq(Token)
    BY BehindIs
  <2>2. Rest(k, n) = Behind(k, n) \o y
    BY <1>2, Zenon DEF Rest
  <2> QED
    BY <2>1, <2>2, ConcatProperties
<1>4. Rest(n, n) = y
  <2>1. Behind(n, n) = <<>>
    BY <1>0, BehindIs
  <2>2. <<>> \o y = y
    BY ConcatEmptySeq
  <2> QED
    BY <1>0, <1>3, <2>1, <2>2, Zenon
<1>5. ASSUME m # n
      PROVE  /\ Rest(m, n) = FlagSeq[m + 1] \o Rest(m + 1, n)
             /\ FlagSeq[m + 1] \in Seq(Token) /\ Rest(m + 1, n) \in Seq(Token)
  <2>1. m + 1 \in 0..n /\ m \in 0..n
    BY <1>0, <1>5
  <2>2. /\ Behind(m, n) = FlagSeq[m + 1] \o Behind(m + 1, n)
        /\ FlagSeq[m + 1] \in Seq(Token) /\ Behind(m + 1, n) \in Seq(Token)
    BY <1>5, BehindIs
  <2>3. PICK x \in Seq(Token), z \in Seq(Token) : x = FlagSeq[m + 1] /\ z = Behind(m + 1, n)
    BY <2>2
  <2>4. PICK u, v : u = x \o z /\ v = z \o y
    OBVIOUS
  <2>5. u \o y = x \o v
    BY <2>4, ConcatIsAssociative
  <2> QED
    BY <1>3, <2>1, <2>2, <2>3, <2>4, <2>5, Zenon
<1> QED
  BY <1>2, <1>3, <1>4, <1>5, Zenon

-----------------------------------------------------------------------------
(* Sorting.                                                                *)

\* One iteration moves the first tokens of the rest, and nothing else.
LEMMA ReorderFirst ==
  ASSUME Reorder, NEW x \in Seq(Token), NEW y \in Seq(Token), x # <<>>, rest = x \o y,
         Len(x) = IF TakesNext THEN 2 ELSE 1
  PROVE  /\ rest' = y /\ UNCHANGED <<given, values, pc>>
         /\ x[1].kind = "word" => positional' = positional \o x /\ flags' = flags
         /\ x[1].kind # "word" => flags' = flags \o x /\ positional' = positional
<1>1. Split(rest, x, y)
  BY TakeFirst
<1>2. /\ Head(rest) = x[1] /\ SubSeq(rest, 1, Len(x)) = x
      /\ SubSeq(rest, Len(x) + 1, Len(rest)) = y
  BY <1>1, Zenon DEF Split
<1> QED
  BY <1>2 DEF Reorder

\* The rest is what is taken and what is left.
LEMMA Taken ==
  ASSUME rest \in Seq(Token), rest # <<>>
  PROVE  \E x, y \in Seq(Token) :
           /\ x # <<>> /\ rest = x \o y /\ Len(x) = IF TakesNext THEN 2 ELSE 1
           /\ x[1] = Head(rest) /\ (TakesNext => x[2] = rest[2])
<1>1. Len(rest) \in Nat /\ Len(rest) >= 1 /\ Head(rest) = rest[1]
  BY LenProperties, EmptySeq, HeadTailProperties
<1> DEFINE k == IF TakesNext THEN 2 ELSE 1
           x == SubSeq(rest, 1, k)
           y == SubSeq(rest, k + 1, Len(rest))
<1>2. k \in 1..Len(rest) /\ (TakesNext => k = 2) /\ (~TakesNext => k = 1)
  BY <1>1 DEF TakesNext
<1> HIDE DEF k
<1>3. x \in Seq(Token) /\ Len(x) = k /\ \A i \in 1..k : x[i] = rest[i]
  BY <1>1, <1>2, SubSeqProperties
<1>4. y \in Seq(Token) /\ Len(y) = Len(rest) - k /\ \A i \in 1..Len(rest) - k : y[i] = rest[k + i]
  BY <1>1, <1>2, SubSeqProperties
<1> HIDE DEF x, y
<1>5. x \o y = rest
  <2>1. /\ x \o y \in Seq(Token) /\ Len(x \o y) = Len(x) + Len(y)
        /\ \A i \in 1..Len(x) + Len(y) : (x \o y)[i] = IF i <= Len(x) THEN x[i] ELSE y[i - Len(x)]
    BY <1>3, <1>4, ConcatProperties
  <2>2. Len(x \o y) = Len(rest)
    BY <1>1, <1>2, <1>3, <1>4, <2>1
  <2>3. \A i \in 1..Len(rest) : (x \o y)[i] = rest[i]
    BY <1>1, <1>2, <1>3, <1>4, <2>1
  <2> QED
    BY <2>1, <2>2, <2>3, SeqEqual
<1>6. x # <<>> /\ x[1] = Head(rest) /\ (TakesNext => x[2] = rest[2])
  BY <1>1, <1>2, <1>3, EmptySeq
<1>7. Len(x) = IF TakesNext THEN 2 ELSE 1
  BY <1>3 DEF k
<1> QED
  BY <1>3, <1>4, <1>5, <1>6, <1>7

\* A word among the flags is behind a flag.
Paired(s) == \A i \in DOMAIN s : s[i].kind = "word" => i > 1 /\ s[i - 1].kind = "flag"

LEMMA SortingKeepsTokens ==
  ASSUME Reorder, rest \in Seq(Token), flags \in Seq(Token), positional \in Seq(Token),
         Paired(flags), \A i \in DOMAIN positional : positional[i].kind = "word"
  PROVE  /\ Len(rest') + Len(flags') + Len(positional') = Len(rest) + Len(flags) + Len(positional)
         /\ flags' \in Seq(Token) /\ positional' \in Seq(Token)
         /\ Paired(flags)'
         /\ \A i \in DOMAIN positional' : positional'[i].kind = "word"
<1>1. PICK x \in Seq(Token), y \in Seq(Token) :
         /\ x # <<>> /\ rest = x \o y /\ Len(x) = IF TakesNext THEN 2 ELSE 1
         /\ x[1] = Head(rest) /\ (TakesNext => x[2] = rest[2])
  BY Taken DEF Reorder
<1>2. /\ rest' = y
      /\ x[1].kind = "word" => positional' = positional \o x /\ flags' = flags
      /\ x[1].kind # "word" => flags' = flags \o x /\ positional' = positional
  BY <1>1, ReorderFirst
<1>3. /\ Len(x) \in Nat /\ Len(y) \in Nat /\ Len(flags) \in Nat /\ Len(positional) \in Nat
      /\ Len(rest) = Len(x) + Len(y)
  BY <1>1, LenProperties, ConcatProperties
<1>4. TakesNext => x[1].kind = "flag"
  BY <1>1 DEF TakesNext
<1>5. CASE x[1].kind = "word"
  <2>1. Len(x) = 1
    BY <1>1, <1>4, <1>5
  <2> DEFINE p == positional \o x
  <2>a. /\ p \in Seq(Token) /\ Len(p) = Len(positional) + Len(x)
        /\ \A i \in 1..Len(positional) + Len(x) :
             p[i] = IF i <= Len(positional) THEN positional[i] ELSE x[i - Len(positional)]
    BY ConcatProperties
  <2> HIDE DEF p
  <2>2. /\ p \in Seq(Token) /\ Len(p) = Len(positional) + 1
        /\ \A i \in 1..Len(positional) + 1 :
             p[i] = IF i <= Len(positional) THEN positional[i] ELSE x[i - Len(positional)]
    BY <2>1, <2>a
  <2> USE DEF p
  <2>3. positional' = p /\ flags' = flags
    BY <1>2, <1>5
  <2> HIDE DEF p
  <2>4. \A i \in DOMAIN p : p[i].kind = "word"
    <3>1. DOMAIN p = 1..Len(positional) + 1 /\ DOMAIN positional = 1..Len(positional)
      BY <2>2, LenProperties
    <3>2. ASSUME NEW i \in 1..Len(positional) + 1 PROVE p[i].kind = "word"
      <4>1. CASE i <= Len(positional)
        BY <1>3, <2>2, <3>1, <4>1
      <4>2. CASE ~(i <= Len(positional))
        <5>1. i - Len(positional) = 1
          BY <1>3, <4>2
        <5> QED
          BY <1>5, <2>2, <4>2, <5>1
      <4> QED
        BY <4>1, <4>2
    <3> QED
      BY <3>1, <3>2
  <2>5. Paired(flags)'
    BY <2>3 DEF Paired
  <2>6. \A i \in DOMAIN positional' : positional'[i].kind = "word"
    BY <2>3, <2>4
  <2>7. Len(rest') = Len(y) /\ Len(flags') = Len(flags) /\ Len(positional') = Len(positional) + 1
    BY <1>2, <2>2, <2>3
  <2>8. Len(rest') + Len(flags') + Len(positional') = Len(rest) + Len(flags) + Len(positional)
    BY <1>3, <2>1, <2>7
  <2>9. flags' \in Seq(Token) /\ positional' \in Seq(Token)
    BY <2>2, <2>3
  <2> QED
    BY <2>5, <2>6, <2>8, <2>9
<1>6. CASE x[1].kind # "word"
  <2> DEFINE f == flags \o x
  <2>2. /\ f \in Seq(Token) /\ Len(f) = Len(flags) + Len(x)
        /\ \A i \in 1..Len(flags) + Len(x) : f[i] = IF i <= Len(flags) THEN flags[i]
                                                   ELSE x[i - Len(flags)]
    BY <1>3, ConcatProperties
  <2>3. flags' = f /\ positional' = positional
    BY <1>2, <1>6
  <2> HIDE DEF f
  <2>4. Paired(f)
    <3>1. DOMAIN f = 1..Len(flags) + Len(x) /\ DOMAIN flags = 1..Len(flags)
      BY <2>2, LenProperties
    <3>2. ASSUME NEW i \in 1..Len(flags) + Len(x), f[i].kind = "word"
          PROVE  i > 1 /\ f[i - 1].kind = "flag"
      <4>1. CASE i <= Len(flags)
        <5>1. i \in DOMAIN flags /\ f[i] = flags[i]
          BY <1>3, <2>2, <3>1, <4>1
        <5>2. i > 1 /\ flags[i - 1].kind = "flag"
          BY <3>2, <5>1 DEF Paired
        <5>a. i - 1 \in 1..Len(flags) + Len(x) /\ i - 1 <= Len(flags)
          BY <1>3, <4>1, <5>2
        <5>3. f[i - 1] = flags[i - 1]
          BY <2>2, <5>a
        <5> QED
          BY <5>2, <5>3
      <4>2. CASE ~(i <= Len(flags))
        <5>1. f[i] = x[i - Len(flags)]
          BY <2>2, <4>2
        <5>a. (Len(x) = 1 \/ Len(x) = 2) /\ (Len(x) = 2 => TakesNext)
          BY <1>1
        <5>2. i - Len(flags) = 1 \/ (i - Len(flags) = 2 /\ Len(x) = 2)
          <6>1. CASE Len(x) = 1
            BY <1>3, <4>2, <6>1
          <6>2. CASE Len(x) = 2
            BY <1>3, <4>2, <6>2
          <6> QED
            BY <5>a, <6>1, <6>2
        <5>3. i - Len(flags) # 1
          <6> SUFFICES ASSUME i - Len(flags) = 1 PROVE FALSE
            OBVIOUS
          <6>1. f[i] = x[1]
            BY <5>1
          <6> QED
            BY <1>6, <3>2, <6>1
        <5>4. i - Len(flags) = 2 /\ TakesNext
          BY <5>2, <5>3, <5>a
        <5>5. i > 1 /\ i - 1 \in 1..Len(flags) + Len(x) /\ ~(i - 1 <= Len(flags)) /\ (i - 1) - Len(flags) = 1
          BY <1>3, <5>4
        <5>6. f[i - 1] = x[1]
          BY <2>2, <5>5
        <5> QED
          BY <1>4, <5>4, <5>5, <5>6
      <4> QED
        BY <4>1, <4>2
    <3> QED
      BY <3>1, <3>2 DEF Paired
  <2>5. Paired(flags)'
    BY <2>3, <2>4 DEF Paired
  <2>6. \A i \in DOMAIN positional' : positional'[i].kind = "word"
    BY <2>3
  <2>7. Len(rest') = Len(y) /\ Len(flags') = Len(flags) + Len(x) /\ Len(positional') = Len(positional)
    BY <1>2, <2>2, <2>3
  <2>8. Len(rest') + Len(flags') + Len(positional') = Len(rest) + Len(flags) + Len(positional)
    BY <1>3, <2>7
  <2>9. flags' \in Seq(Token) /\ positional' \in Seq(Token)
    BY <2>2, <2>3
  <2> QED
    BY <2>5, <2>6, <2>8, <2>9
<1> QED
  BY <1>5, <1>6

\* The tokens of a flag are sorted in one iteration.
LEMMA FlagIsSorted ==
  ASSUME given \in Invocations, Reorder, NEW i \in 1..Count, NEW y \in Seq(Token),
         rest = FlagSeq[i] \o y
  PROVE  rest' = y /\ flags' = flags \o FlagSeq[i] /\ UNCHANGED <<given, positional, values, pc>>
<1>1. PICK x : x = FlagSeq[i]
  OBVIOUS
<1>2. /\ x \in Seq(Token) /\ x # <<>> /\ x[1].kind # "word"
      /\ \/ x[1].kind = "assigned" /\ Len(x) = 1
         \/ x[1].kind = "flag" /\ Len(x) = 2 /\ x[2].kind = "word"
  <2>1. FlagSeq[i] = FlagTokens(given.flags[i]) /\ FlagTokens(given.flags[i]) \in Seq(Token)
    BY FlagTokensAre
  <2>2. x = FlagTokens(given.flags[i])
    BY <1>1, <2>1
  <2>3. /\ given.flags[i].assigned => Len(x) = 1 /\ x[1].kind = "assigned"
        /\ ~given.flags[i].assigned => Len(x) = 2 /\ x[1].kind = "flag" /\ x[2].kind = "word"
    BY <2>2, FlagTokensAre
  <2>4. x \in Seq(Token)
    BY <1>1, <2>1
  <2>5. Len(x) = 1 \/ Len(x) = 2
    BY <2>3
  <2>6. x # <<>>
    BY <2>5, NotEmpty
  <2> QED
    BY <2>3, <2>4, <2>6
<1>3. Split(rest, x, y)
  BY <1>1, <1>2, TakeFirst
<1>4. Head(rest) = x[1] /\ Len(rest) = Len(x) + Len(y) /\ Len(y) \in Nat /\ (Len(x) > 1 => rest[2] = x[2])
  BY <1>3, Zenon DEF Split
<1>5. Len(x) = IF TakesNext THEN 2 ELSE 1
  BY <1>2, <1>4 DEF TakesNext
<1> QED
  BY <1>1, <1>2, <1>5, ReorderFirst

\* What does not change with the invocation.
LEMMA InvocationKept ==
  ASSUME UNCHANGED given
  PROVE  /\ Count' = Count /\ Query' = Query
         /\ \A a, b : Behind(a, b)' = Behind(a, b) /\ Rest(a, b)' = Rest(a, b)
         /\ \A name : ValueSeq(name)' = ValueSeq(name) /\ Given(name)' = Given(name)
BY DEF Count, Query, Behind, Rest, FlagSeq, ValueSeq, Given

\* The first token behind the query is a flag's.
LEMMA BehindStarts ==
  ASSUME given \in Invocations, NEW n \in 0..Count, n # Count
  PROVE  Behind(n, Count) # <<>> /\ Behind(n, Count)[1].kind # "word"
<1>a. Count \in Nat
  BY InvocationFacts
<1>0. Count \in 0..Count /\ n \in 0..Count /\ n + 1 \in 1..Count
  BY <1>a
<1>1. /\ Behind(n, Count) = FlagSeq[n + 1] \o Behind(n + 1, Count)
      /\ FlagSeq[n + 1] \in Seq(Token) /\ Behind(n + 1, Count) \in Seq(Token)
  BY <1>0, BehindIs
<1>2. PICK x : x = FlagSeq[n + 1]
  OBVIOUS
<1>3. x \in Seq(Token) /\ x # <<>> /\ x[1].kind # "word"
  <2>1. FlagSeq[n + 1] = FlagTokens(given.flags[n + 1])
    BY <1>0, FlagTokensAre
  <2>2. x = FlagTokens(given.flags[n + 1])
    BY <1>2, <2>1
  <2>3. (Len(x) = 1 \/ Len(x) = 2) /\ x[1].kind # "word"
    BY <1>0, <2>2, FlagTokensAre
  <2>4. x # <<>>
    BY <2>3, EmptySeq
  <2> QED
    BY <1>1, <1>2, <2>3, <2>4
<1>4. Split(Behind(n, Count), x, Behind(n + 1, Count))
  BY <1>1, <1>2, <1>3, TakeFirst
<1>5. Behind(n, Count) # <<>> /\ Behind(n, Count)[1] = x[1]
  BY <1>4, Zenon DEF Split
<1> QED
  BY <1>3, <1>5, Zenon

LEMMA QueryIs ==
  ASSUME given \in Invocations
  PROVE  /\ given.sql = "" => Query = <<>> /\ given.sql \notin Dashed
         /\ given.sql # "" => /\ Query = <<Word(given.sql)>> /\ Query # <<>> /\ Len(Query) = 1
                              /\ Query[1].name = given.sql
                              /\ Query[1].kind = IF given.sql \in Dashed THEN "flag" ELSE "word"
BY DashedAssumption DEF Query, Word

LEMMA OneToken ==
  ASSUME Len(rest) = 1 + 0
  PROVE  ~TakesNext
BY DEF TakesNext

\* The query is sorted in one iteration.
LEMMA QueryIsSorted ==
  ASSUME given \in Invocations, Reorder, NEW n \in 0..Count, given.sql # "",
         rest = Query \o Behind(n, Count)
  PROVE  /\ rest' = Behind(n, Count) /\ UNCHANGED <<given, values, pc>>
         /\ given.sql \notin Dashed => positional' = positional \o Query /\ flags' = flags
         /\ given.sql \in Dashed => flags' = flags \o Query /\ positional' = positional
<1>a. Count \in Nat
  BY InvocationFacts
<1>0. Count \in 0..Count
  BY <1>a, Bounds
<1>1. PICK x \in Seq(Token), y \in Seq(Token) : x = Query /\ y = Behind(n, Count)
  BY <1>0, SequencesOfFlags, BehindIs
<1>2. /\ x # <<>> /\ Len(x) = 1 /\ x[1].kind = IF given.sql \in Dashed THEN "flag" ELSE "word"
      /\ rest = x \o y
  BY <1>1, QueryIs, Zenon
<1>3. Split(rest, x, y)
  BY <1>2, TakeFirst
<1>4. /\ Head(rest) = x[1] /\ Len(rest) = Len(x) + Len(y) /\ Len(y) \in Nat
      /\ (Len(x) = 1 /\ y # <<>> => rest[2] = y[1])
  BY <1>3, Zenon DEF Split
<1>5. ~TakesNext
  <2>1. CASE n = Count
    <3>1. Len(y) = 0
      <4>1. Behind(Count, Count) = <<>>
        BY <1>0, BehindIs
      <4>2. y = <<>>
        BY <1>1, <2>1, <4>1, Zenon
      <4> QED
        BY <4>2, EmptySeq
    <3>2. Len(rest) = 1 + 0
      BY <1>2, <1>4, <3>1, Zenon
    <3> QED
      BY <3>2, OneToken
  <2>2. CASE n # Count
    <3>1. y # <<>> /\ y[1].kind # "word"
      BY <1>1, <2>2, BehindStarts, Zenon
    <3> QED
      BY <1>2, <1>4, <3>1 DEF TakesNext
  <2> QED
    BY <2>1, <2>2
<1>6. Len(x) = IF TakesNext THEN 2 ELSE 1
  BY <1>2, <1>5
<1>7. /\ rest' = y /\ UNCHANGED <<given, values, pc>>
      /\ x[1].kind = "word" => positional' = positional \o x /\ flags' = flags
      /\ x[1].kind # "word" => flags' = flags \o x /\ positional' = positional
  BY <1>2, <1>6, ReorderFirst
<1> QED
  BY <1>1, <1>2, <1>7

\* Between two flags, no query is a query that has been sorted.
LEMMA NoQuery ==
  ASSUME given \in Invocations, NEW n \in 0..Count, BeforeQuery(n, n), given.sql = ""
  PROVE  BehindQuery(n, n)
<1>a. Count \in Nat
  BY InvocationFacts
<1>0. n <= n /\ Count \in 0..Count /\ n \in 0..n
  BY <1>a, Bounds
<1>1. Query = <<>> /\ given.sql \notin Dashed
  BY QueryIs
<1>2. Behind(n, Count) \in Seq(Token)
  BY <1>0, BehindIs
<1>3. <<>> \o Behind(n, Count) = Behind(n, Count)
  BY <1>2, ConcatEmptySeq
<1>4. Rest(n, n) = Query \o Behind(n, Count)
  BY <1>0, RestIs
<1>5. rest = Behind(n, Count) /\ flags = Behind(0, n) /\ positional = Query
  BY <1>1, <1>3, <1>4, Zenon DEF BeforeQuery
<1> QED
  BY <1>0, <1>1, <1>5, Zenon DEF BehindQuery

LEMMA BeforeQueryStep ==
  ASSUME given \in Invocations, Reorder, NEW n \in 0..Count, NEW m \in 0..n,
         BeforeQuery(m, n), m # n
  PROVE  m + 1 \in 0..n /\ BeforeQuery(m + 1, n)'
<1>a. Count \in Nat
  BY InvocationFacts
<1>0. /\ m + 1 \in 0..n /\ m + 1 \in 1..Count /\ m + 1 <= n
      /\ m \in 0..Count /\ 0 \in 0..m /\ m < Count
  BY <1>a
<1>1. /\ Rest(m, n) = FlagSeq[m + 1] \o Rest(m + 1, n)
      /\ Rest(m + 1, n) \in Seq(Token)
  BY RestIs
<1>2. rest = FlagSeq[m + 1] \o Rest(m + 1, n) /\ flags = Behind(0, m) /\ positional = <<>>
  BY <1>1, Zenon DEF BeforeQuery
<1>3. /\ rest' = Rest(m + 1, n) /\ flags' = flags \o FlagSeq[m + 1]
      /\ UNCHANGED <<given, positional, values, pc>>
  BY <1>0, <1>1, <1>2, FlagIsSorted
<1>4. Behind(0, m + 1) = Behind(0, m) \o FlagSeq[m + 1]
  BY <1>0, BehindIs
<1>5. /\ rest' = Rest(m + 1, n)' /\ flags' = Behind(0, m + 1)' /\ positional' = <<>>
  BY <1>2, <1>3, <1>4, InvocationKept, Zenon
<1> QED
  BY <1>0, <1>5 DEF BeforeQuery

LEMMA QueryStep ==
  ASSUME given \in Invocations, Reorder, NEW n \in 0..Count, BeforeQuery(n, n), given.sql # ""
  PROVE  BehindQuery(n, n)'
<1>a. Count \in Nat
  BY InvocationFacts
<1>0. n <= n /\ n \in 0..n /\ 0 \in 0..n
  BY <1>a, Bounds
<1>1. rest = Query \o Behind(n, Count) /\ flags = Behind(0, n) /\ positional = <<>>
  <2>1. Rest(n, n) = Query \o Behind(n, Count)
    BY <1>0, RestIs
  <2> QED
    BY <2>1, Zenon DEF BeforeQuery
<1>2. /\ rest' = Behind(n, Count) /\ UNCHANGED <<given, values, pc>>
      /\ given.sql \notin Dashed => positional' = positional \o Query /\ flags' = flags
      /\ given.sql \in Dashed => flags' = flags \o Query /\ positional' = positional
  BY <1>1, QueryIsSorted
<1>3. Query \in Seq(Token) /\ Behind(0, n) \in Seq(Token) /\ Behind(n, n) = <<>>
  BY <1>0, BehindIs, SequencesOfFlags
<1>4. <<>> \o Query = Query
  BY <1>3, ConcatEmptySeq
<1>5. Behind(0, n) \o Query = (Behind(0, n) \o Query) \o Behind(n, n)
  <2>1. PICK x \in Seq(Token) : x = Behind(0, n) \o Query
    BY <1>3, ConcatProperties
  <2>2. x \o <<>> = x
    BY <2>1, ConcatEmptySeq
  <2> QED
    BY <1>3, <2>1, <2>2, Zenon
<1>6. rest' = Behind(n, Count)' /\ given' = given
  BY <1>2, InvocationKept, Zenon
<1>7. CASE given.sql \notin Dashed
  <2>1. positional' = Query' /\ flags' = Behind(0, n)'
    BY <1>1, <1>2, <1>4, <1>7, InvocationKept, Zenon
  <2> QED
    BY <1>0, <1>6, <1>7, <2>1, Zenon DEF BehindQuery
<1>8. CASE given.sql \in Dashed
  <2>1. positional' = <<>> /\ flags' = (Behind(0, n) \o Query) \o Behind(n, n)
    BY <1>1, <1>2, <1>5, <1>8, Zenon
  <2>2. flags' = (Behind(0, n)' \o Query') \o Behind(n, n)'
    BY <1>2, <2>1, InvocationKept, Zenon
  <2> QED
    BY <1>0, <1>6, <1>8, <2>1, <2>2, Zenon DEF BehindQuery
<1> QED
  BY <1>7, <1>8

LEMMA BehindQueryStep ==
  ASSUME given \in Invocations, Reorder, NEW m \in 0..Count, NEW n \in 0..m, BehindQuery(m, n)
  PROVE  m + 1 \in 0..Count /\ BehindQuery(m + 1, n)'
<1>a. Count \in Nat
  BY InvocationFacts
<1>b. Count \in 0..Count /\ n \in 0..Count
  BY <1>a
<1>c. m # Count
  <2> SUFFICES ASSUME m = Count PROVE FALSE
    OBVIOUS
  <2>1. Behind(Count, Count) = <<>>
    BY <1>b, BehindIs
  <2>2. rest = <<>>
    BY <2>1, Zenon DEF BehindQuery
  <2> QED
    BY <2>2, Zenon DEF Reorder
<1>0. m + 1 \in 0..Count /\ m + 1 \in 1..Count /\ m < Count /\ 0 \in 0..m /\ n <= m + 1
  BY <1>a, <1>c
<1>1. /\ Behind(m, Count) = FlagSeq[m + 1] \o Behind(m + 1, Count)
      /\ Behind(m + 1, Count) \in Seq(Token) /\ FlagSeq[m + 1] \in Seq(Token)
  BY <1>b, <1>c, BehindIs
<1>2. /\ rest' = Behind(m + 1, Count) /\ flags' = flags \o FlagSeq[m + 1]
      /\ UNCHANGED <<given, positional, values, pc>>
  <2>1. rest = FlagSeq[m + 1] \o Behind(m + 1, Count)
    BY <1>1, Zenon DEF BehindQuery
  <2> QED
    BY <1>0, <1>1, <2>1, FlagIsSorted
<1>3. /\ Behind(0, m + 1) = Behind(0, m) \o FlagSeq[m + 1]
      /\ Behind(n, m + 1) = Behind(n, m) \o FlagSeq[m + 1]
  BY <1>0, BehindIs
<1>4. rest' = Behind(m + 1, Count)' /\ given' = given
  BY <1>2, InvocationKept, Zenon
<1>5. CASE given.sql \notin Dashed
  <2>1. flags = Behind(0, m) /\ positional = Query
    BY <1>5, Zenon DEF BehindQuery
  <2>2. positional' = Query' /\ flags' = Behind(0, m + 1)'
    BY <1>2, <1>3, <2>1, InvocationKept, Zenon
  <2> QED
    BY <1>0, <1>4, <1>5, <2>2, Zenon DEF BehindQuery
<1>6. CASE given.sql \in Dashed
  <2>1. flags = (Behind(0, n) \o Query) \o Behind(n, m) /\ positional = <<>>
    BY <1>6, Zenon DEF BehindQuery
  <2>2. PICK x \in Seq(Token) : x = Behind(0, n) \o Query
    <3>1. 0 \in 0..n
      BY <1>a, <1>b, Bounds
    <3>2. Behind(0, n) \in Seq(Token) /\ Query \in Seq(Token)
      BY <1>b, <3>1, BehindIs, SequencesOfFlags
    <3> QED
      BY <3>2, ConcatProperties
  <2>3. PICK y \in Seq(Token), z \in Seq(Token) : y = Behind(n, m) /\ z = FlagSeq[m + 1]
    BY <1>1, BehindIs
  <2>4. PICK u, v : u = x \o y /\ v = y \o z
    OBVIOUS
  <2>5. u \o z = x \o v
    BY <2>4, ConcatIsAssociative
  <2>6. flags' = (Behind(0, n) \o Query) \o Behind(n, m + 1)
    BY <1>2, <1>3, <2>1, <2>2, <2>3, <2>4, <2>5, Zenon
  <2>7. flags' = (Behind(0, n)' \o Query') \o Behind(n, m + 1)' /\ positional' = <<>>
    BY <1>2, <2>1, <2>6, InvocationKept, Zenon
  <2> QED
    BY <1>0, <1>4, <1>6, <2>7, Zenon DEF BehindQuery
<1> QED
  BY <1>0, <1>5, <1>6

\* The tokens of a flag, by what the flag is.
LEMMA FlagStarts ==
  ASSUME given \in Invocations, NEW i \in 1..Count, NEW x, x = FlagSeq[i]
  PROVE  /\ x \in Seq(Token) /\ x # <<>> /\ x[1].name = given.flags[i].name
         /\ given.flags[i].assigned => /\ Len(x) = 1 /\ x[1].kind = "assigned"
                                       /\ x[1].value = given.flags[i].value
         /\ ~given.flags[i].assigned => /\ Len(x) = 2 /\ x[1].kind = "flag"
                                        /\ x[2].name = given.flags[i].value
<1>1. FlagSeq[i] = FlagTokens(given.flags[i]) /\ FlagTokens(given.flags[i]) \in Seq(Token)
  BY FlagTokensAre
<1>2. x = FlagTokens(given.flags[i]) /\ x \in Seq(Token)
  BY <1>1
<1>3. /\ given.flags[i].assigned => /\ Len(x) = 1 /\ x[1].kind = "assigned"
                                    /\ x[1].name = given.flags[i].name
                                    /\ x[1].value = given.flags[i].value
      /\ ~given.flags[i].assigned => /\ Len(x) = 2 /\ x[1].kind = "flag"
                                     /\ x[1].name = given.flags[i].name
                                     /\ x[2].name = given.flags[i].value
  BY <1>2, FlagTokensAre
<1>4. Len(x) = 1 \/ Len(x) = 2
  BY <1>3
<1>5. x # <<>>
  BY <1>4, NotEmpty
<1> QED
  BY <1>2, <1>3, <1>5

\* Where a flag is read, it comes first.
LEMMA RestStarts ==
  ASSUME given \in Invocations, NEW n \in 0..Count, NEW m \in 0..n, m # n, rest = Rest(m, n)
  PROVE  Split(rest, FlagSeq[m + 1], Rest(m + 1, n))
<1>a. Count \in Nat
  BY InvocationFacts
<1>0. m + 1 \in 1..Count
  BY <1>a
<1>1. PICK x, y \in Seq(Token) : x = FlagSeq[m + 1] /\ y = Rest(m + 1, n)
  BY RestIs
<1>2. x # <<>> /\ x \in Seq(Token)
  BY <1>0, <1>1, FlagStarts
<1>3. rest = x \o y
  BY <1>1, RestIs, Zenon
<1>4. Split(rest, x, y)
  BY <1>2, <1>3, TakeFirst
<1> QED
  BY <1>1, <1>4, Zenon

\* And where the query is read, it does.
LEMMA QueryStarts ==
  ASSUME given \in Invocations, NEW n \in 0..Count, rest = Rest(n, n), given.sql # ""
  PROVE  Split(rest, Query, Behind(n, Count))
<1>a. Count \in Nat
  BY InvocationFacts
<1>0. n \in 0..n /\ Count \in 0..Count
  BY <1>a, Bounds
<1>1. PICK x \in Seq(Token), y \in Seq(Token) : x = Query /\ y = Behind(n, Count)
  BY <1>0, SequencesOfFlags, BehindIs
<1>2. x # <<>>
  BY <1>1, QueryIs
<1>3. rest = x \o y
  BY <1>0, <1>1, RestIs, Zenon
<1>4. Split(rest, x, y)
  BY <1>2, <1>3, TakeFirst
<1> QED
  BY <1>1, <1>4, Zenon

\* Behind sorting, the flags come first; a query that starts with a dash is where
\* it was.
LEMMA SortedIs ==
  ASSUME given \in Invocations, rest = <<>>, NEW m \in 0..Count, NEW n \in 0..m,
         BehindQuery(m, n)
  PROVE  \E k \in 0..Count : /\ Reordered = Rest(0, k)
                             /\ k = Count \/ given.sql \in Dashed
<1>a. Count \in Nat
  BY InvocationFacts
<1>0. Count \in 0..Count /\ n \in 0..Count /\ 0 \in 0..Count /\ 0 \in 0..n
  BY <1>a
<1>1. m = Count
  <2> SUFFICES ASSUME m # Count PROVE FALSE
    OBVIOUS
  <2>1. rest = Behind(m, Count)
    BY Zenon DEF BehindQuery
  <2> QED
    BY <2>1, BehindStarts, Zenon
<1>2. Query \in Seq(Token) /\ Behind(0, Count) \in Seq(Token) /\ Behind(Count, Count) = <<>>
  BY <1>0, SequencesOfFlags, BehindIs
<1>3. CASE given.sql \notin Dashed
  <2>1. flags = Behind(0, Count) /\ positional = Query
    BY <1>1, <1>3, Zenon DEF BehindQuery
  <2>2. Query \o <<>> = Query
    BY <1>2, ConcatEmptySeq
  <2>3. Reordered = Rest(0, Count)
    BY <1>2, <2>1, <2>2, Zenon DEF Reordered, Rest
  <2> QED
    BY <1>0, <2>3
<1>4. CASE given.sql \in Dashed
  <2>1. flags = (Behind(0, n) \o Query) \o Behind(n, Count) /\ positional = <<>>
    BY <1>1, <1>4, Zenon DEF BehindQuery
  <2>2. PICK x, y, z \in Seq(Token) : x = Behind(0, n) /\ y = Query /\ z = Behind(n, Count)
    BY <1>0, <1>2, BehindIs
  <2>3. x \in Seq(Token) /\ y \in Seq(Token)
    BY <1>0, <1>2, <2>2, BehindIs
  <2>4. PICK u, v : u = x \o y /\ v = y \o z
    OBVIOUS
  <2>5. u \o z = x \o v
    BY <2>2, <2>3, <2>4, ConcatIsAssociative
  <2>6. flags = Rest(0, n)
    BY <2>1, <2>2, <2>4, <2>5, Zenon DEF Rest
  <2>7. Rest(0, n) \in Seq(Token)
    BY <1>0, RestIs
  <2>8. Rest(0, n) \o <<>> = Rest(0, n)
    BY <2>7, ConcatEmptySeq
  <2>9. Reordered = Rest(0, n)
    BY <2>1, <2>6, <2>8, Zenon DEF Reordered
  <2> QED
    BY <1>0, <1>4, <2>9
<1> QED
  BY <1>3, <1>4

LEMMA EndSorting ==
  ASSUME given \in Invocations, rest = <<>>, NEW m \in 0..Count, NEW n \in 0..Count,
         Sorting(m, n)
  PROVE  \E k \in 0..Count : /\ Reordered = Rest(0, k)
                             /\ k = Count \/ given.sql \in Dashed
<1>a. Count \in Nat
  BY InvocationFacts
<1>0. (m <= n => m \in 0..n) /\ (n <= m => n \in 0..m) /\ n \in 0..n
  BY <1>a
<1>1. CASE BeforeQuery(m, n)
  <2>0. m \in 0..n /\ rest = Rest(m, n)
    BY <1>0, <1>1 DEF BeforeQuery
  <2>1. m = n
    BY <2>0, RestStarts, Zenon DEF Split
  <2>2. given.sql = ""
    BY <2>0, <2>1, QueryStarts, Zenon DEF Split
  <2>3. BehindQuery(n, n)
    BY <1>1, <2>1, <2>2, NoQuery
  <2> QED
    BY <1>0, <2>3, SortedIs
<1>2. CASE BehindQuery(m, n)
  <2>1. n \in 0..m
    BY <1>0, <1>2 DEF BehindQuery
  <2> QED
    BY <1>2, <2>1, SortedIs
<1> QED
  BY <1>1, <1>2 DEF Sorting

-----------------------------------------------------------------------------
(* Parsing.                                                                *)

\* What ParseFlag does with the tokens of a flag.
LEMMA FlagIsParsed ==
  ASSUME given \in Invocations, DOMAIN values = FlagsOf(given.command), ParseFlag,
         NEW n \in 0..Count, NEW m \in 0..n, m # n, rest = Rest(m, n),
         NEW f, f = given.flags[m + 1]
  PROVE  /\ f.name \in FlagsOf(given.command) =>
              /\ rest' = Rest(m + 1, n) /\ UNCHANGED <<given, flags, positional, pc>>
              /\ values' = [values EXCEPT ![f.name] = Append(@, f.value)]
         /\ f.name \notin FlagsOf(given.command) => pc' = "exit" /\ given' = given
<1>a. Count \in Nat
  BY InvocationFacts
<1>0. m + 1 \in 1..Count
  BY <1>a
<1>1. PICK x, y : x = FlagSeq[m + 1] /\ y = Rest(m + 1, n)
  OBVIOUS
<1>2. /\ x \in Seq(Token) /\ x[1].name = f.name
      /\ f.assigned => Len(x) = 1 /\ x[1].kind = "assigned" /\ x[1].value = f.value
      /\ ~f.assigned => Len(x) = 2 /\ x[1].kind = "flag" /\ x[2].name = f.value
  BY <1>0, <1>1, FlagStarts
<1>3. Split(rest, x, y)
  BY <1>1, RestStarts, Zenon
<1>4. /\ Head(rest) = x[1] /\ Len(rest) = Len(x) + Len(y) /\ Len(y) \in Nat
      /\ Len(x) > 1 => rest[2] = x[2]
      /\ SubSeq(rest, Len(x) + 1, Len(rest)) = y
  BY <1>3, Zenon DEF Split
<1> DEFINE flag  == Head(rest)
           taken == IF flag.kind = "assigned" THEN 1 ELSE 2
           value == IF flag.kind = "assigned" THEN flag.value ELSE rest[2].name
<1>5. taken = Len(x) /\ value = f.value /\ flag.name = f.name
  <2>1. CASE f.assigned
    BY <1>2, <1>4, <2>1
  <2>2. CASE ~f.assigned
    <3>1. Len(x) = 2 /\ rest[2] = x[2]
      BY <1>2, <1>4, <2>2
    <3> QED
      BY <1>2, <1>4, <2>2, <3>1
  <2> QED
    BY <2>1, <2>2
<1>6. taken <= Len(rest)
  <2>1. Len(x) \in Nat
    BY <1>2, LenProperties
  <2>2. Len(x) <= Len(x) + Len(y)
    BY <1>4, <2>1
  <2> QED
    BY <1>4, <1>5, <2>2, Zenon
<1>7. IF flag.name \in DOMAIN values /\ taken <= Len(rest)
        THEN /\ values' = [values EXCEPT ![flag.name] = Append(@, value)]
             /\ rest' = SubSeq(rest, taken + 1, Len(rest))
             /\ UNCHANGED <<given, flags, positional, pc>>
        ELSE pc' = "exit" /\ given' = given
  BY DEF ParseFlag, Exit
<1>8. SubSeq(rest, taken + 1, Len(rest)) = y
  BY <1>4, <1>5, Zenon
<1> HIDE DEF taken, value, flag
<1>9. CASE f.name \in FlagsOf(given.command)
  <2>1. /\ values' = [values EXCEPT ![flag.name] = Append(@, value)]
        /\ rest' = SubSeq(rest, taken + 1, Len(rest))
        /\ UNCHANGED <<given, flags, positional, pc>>
    BY <1>5, <1>6, <1>7, <1>9, Zenon
  <2> QED
    BY <1>1, <1>5, <1>8, <1>9, <2>1, Zenon
<1>10. CASE f.name \notin FlagsOf(given.command)
  BY <1>5, <1>7, <1>10, Zenon
<1> QED
  BY <1>9, <1>10

\* The value of one more flag.
LEMMA ValueOfNext ==
  ASSUME given \in Invocations, NEW m \in 0..Count, m < Count, NEW name
  PROVE  LET f == given.flags[m + 1]
         IN Segment(ValueSeq(name), 0, m + 1) =
              IF f.name = name THEN Append(Segment(ValueSeq(name), 0, m), f.value)
              ELSE Segment(ValueSeq(name), 0, m)
<1>a. Count \in Nat
  BY InvocationFacts
<1>0. m + 1 \in 1..Count /\ 0 \in 0..m
  BY <1>a
<1>1. ValueSeq(name) \in Seq(Seq(STRING)) /\ Len(ValueSeq(name)) = Count
  BY SequencesOfFlags
<1>2. PICK s : s = ValueSeq(name)
  OBVIOUS
<1>3. s \in Seq(Seq(STRING)) /\ Len(s) = Count
  BY <1>1, <1>2, Zenon
<1>4. Segment(s, 0, m) \in Seq(STRING) /\ Segment(s, 0, m + 1) = Segment(s, 0, m) \o s[m + 1]
  BY <1>0, <1>3, SegmentLast
<1>5. PICK x \in Seq(STRING) : x = Segment(s, 0, m)
  BY <1>4
<1>6. PICK f, v : f = given.flags[m + 1] /\ v = f.value
  OBVIOUS
<1>7. s[m + 1] = IF f.name = name THEN <<v>> ELSE <<>>
  <2>1. m + 1 \in DOMAIN given.flags
    BY <1>0, InvocationFacts
  <2>2. ValueSeq(name)[m + 1] = IF f.name = name THEN <<v>> ELSE <<>>
    BY <1>6, <2>1 DEF ValueSeq
  <2> QED
    BY <1>2, <2>2, Zenon
<1>8. v \in STRING
  BY <1>0, <1>6, InvocationFacts
<1>9. x \o <<v>> = Append(x, v) /\ x \o <<>> = x
  BY <1>8, AppendIsConcat, ConcatEmptySeq
<1>10. CASE f.name = name
  BY <1>2, <1>4, <1>5, <1>6, <1>7, <1>9, <1>10, Zenon
<1>11. CASE f.name # name
  BY <1>2, <1>4, <1>5, <1>6, <1>7, <1>9, <1>11, Zenon
<1> QED
  BY <1>10, <1>11

\* A flag that is read goes to its values; one that is not known ends the command.
LEMMA ParsingStep ==
  ASSUME given \in Invocations, DOMAIN values = FlagsOf(given.command), ParseFlag,
         NEW n \in 0..Count, NEW m \in 0..n, m # n, Parsing(m, n)
  PROVE  \/ /\ m + 1 \in 0..n /\ Parsing(m + 1, n)' /\ UNCHANGED <<given, flags, positional, pc>>
            /\ DOMAIN values' = DOMAIN values
         \/ pc' = "exit" /\ given' = given /\ ~Valid
<1>a. Count \in Nat
  BY InvocationFacts
<1>0. m + 1 \in 0..n /\ m + 1 <= n /\ m < Count /\ m \in 0..Count /\ m + 1 \in 1..Count
  BY <1>a
<1>1. PICK f : f = given.flags[m + 1]
  OBVIOUS
<1>2. rest = Rest(m, n) /\ (n = Count \/ given.sql \in Dashed)
  BY DEF Parsing
<1>3. /\ f.name \in FlagsOf(given.command) =>
           /\ rest' = Rest(m + 1, n) /\ UNCHANGED <<given, flags, positional, pc>>
           /\ values' = [values EXCEPT ![f.name] = Append(@, f.value)]
      /\ f.name \notin FlagsOf(given.command) => pc' = "exit" /\ given' = given
  BY <1>1, <1>2, FlagIsParsed
<1>4. CASE f.name \notin FlagsOf(given.command)
  <2>1. ~Valid
    <3>1. m + 1 \in DOMAIN given.flags
      BY <1>0, InvocationFacts
    <3> QED
      BY <1>1, <1>4, <3>1 DEF Valid
  <2> QED
    BY <1>3, <1>4, <2>1
<1>5. CASE f.name \in FlagsOf(given.command)
  <2>1. /\ rest' = Rest(m + 1, n) /\ UNCHANGED <<given, flags, positional, pc>>
        /\ values' = [values EXCEPT ![f.name] = Append(@, f.value)]
    BY <1>3, <1>5
  <2>2. rest' = Rest(m + 1, n)' /\ Count' = Count
    BY <2>1, InvocationKept, Zenon
  <2>3. ASSUME NEW i \in 1..m + 1 PROVE given.flags[i].name \in FlagsOf(given.command)
    <3>1. CASE i = m + 1
      BY <1>1, <1>5, <3>1
    <3>2. CASE i # m + 1
      <4>1. i \in 1..m
        BY <1>0, <3>2
      <4> QED
        BY <4>1 DEF Parsing
    <3> QED
      BY <3>1, <3>2
  <2>4. DOMAIN values' = DOMAIN values
    BY <2>1
  <2>5. ASSUME NEW g \in DOMAIN values PROVE values'[g] = Segment(ValueSeq(g), 0, m + 1)
    <3>1. values[g] = Segment(ValueSeq(g), 0, m)
      BY DEF Parsing
    <3>2. Segment(ValueSeq(g), 0, m + 1) =
            IF f.name = g THEN Append(Segment(ValueSeq(g), 0, m), f.value)
            ELSE Segment(ValueSeq(g), 0, m)
      BY <1>0, <1>1, ValueOfNext
    <3>3. values'[g] = IF f.name = g THEN Append(values[g], f.value) ELSE values[g]
      BY <2>1
    <3>4. CASE f.name = g
      BY <3>1, <3>2, <3>3, <3>4, Zenon
    <3>5. CASE f.name # g
      BY <3>1, <3>2, <3>3, <3>5, Zenon
    <3> QED
      BY <3>4, <3>5
  <2>6. ASSUME NEW g \in DOMAIN values' PROVE values'[g] = Segment(ValueSeq(g)', 0, m + 1)
    <3>1. ValueSeq(g)' = ValueSeq(g)
      BY <2>1, InvocationKept, Zenon
    <3> QED
      BY <2>4, <2>5, <3>1, Zenon
  <2>7. Parsing(m + 1, n)'
    <3>1. m + 1 <= n /\ rest' = Rest(m + 1, n)' /\ (n = Count' \/ given'.sql \in Dashed)
      BY <1>0, <1>2, <2>1, <2>2
    <3>2. \A i \in 1..m + 1 : given'.flags[i].name \in FlagsOf(given'.command)
      BY <2>1, <2>3
    <3> QED
      BY <2>6, <3>1, <3>2 DEF Parsing, Segment
  <2> QED
    BY <1>0, <2>1, <2>4, <2>7
<1> QED
  BY <1>4, <1>5

\* All flags in front of the query have been read: the query is a word, or it ends
\* the command.
LEMMA AtQuery ==
  ASSUME given \in Invocations, NEW n \in 0..Count, Parsing(n, n)
  PROVE  /\ rest = <<>> => given.sql = "" /\ n = Count
         /\ rest # <<>> /\ Head(rest).kind # "word" =>
              given.sql \in Dashed /\ Head(rest).name = given.sql /\ Head(rest).kind = "flag"
         /\ rest # <<>> /\ Head(rest).kind = "word" =>
              given.sql # "" /\ given.sql \notin Dashed /\ Head(rest).name = given.sql /\ n = Count
<1>0. rest = Rest(n, n) /\ (n = Count \/ given.sql \in Dashed)
  BY DEF Parsing
<1>1. CASE given.sql = ""
  <2>a. Count \in Nat
    BY InvocationFacts
  <2>b. n \in 0..n
    BY <2>a, Bounds
  <2>1. n = Count /\ Query = <<>>
    BY <1>0, <1>1, QueryIs
  <2>2. Rest(n, n) = Query \o Behind(n, Count) /\ Behind(n, n) = <<>>
    BY <2>b, RestIs, BehindIs
  <2>3. rest = <<>> \o <<>>
    BY <1>0, <2>1, <2>2, Zenon
  <2>4. <<>> \o <<>> = <<>>
    BY EmptyTwice
  <2> QED
    BY <1>1, <2>1, <2>3, <2>4, Zenon
<1>2. CASE given.sql # ""
  <2>1. Split(rest, Query, Behind(n, Count))
    BY <1>0, <1>2, QueryStarts
  <2>2. rest # <<>> /\ Head(rest) = Query[1]
    BY <2>1, Zenon DEF Split
  <2>3. Query[1].name = given.sql /\ Query[1].kind = IF given.sql \in Dashed THEN "flag" ELSE "word"
    BY <1>2, QueryIs
  <2>4. "flag" # "word"
    OBVIOUS
  <2> QED
    BY <1>0, <1>2, <2>2, <2>3, <2>4, Zenon
<1> QED
  BY <1>1, <1>2

LEMMA QueryIsParsed ==
  ASSUME given \in Invocations, DOMAIN values = FlagsOf(given.command), ParseFlag,
         NEW n \in 0..Count, Parsing(n, n)
  PROVE  pc' = "exit" /\ given' = given /\ ~Valid
<1>1. given.sql \in Dashed /\ Head(rest).name = given.sql
  BY AtQuery DEF ParseFlag
<1>2. Head(rest).name \notin DOMAIN values
  BY <1>1, InvocationFacts, DashedAssumption
<1> QED
  BY <1>1, <1>2 DEF ParseFlag, Exit, Valid

\* A flag is not where parsing stops.
LEMMA StopsAtQuery ==
  ASSUME given \in Invocations, EndParse, NEW n \in 0..Count, NEW m \in 0..n, Parsing(m, n)
  PROVE  m = n
<1> SUFFICES ASSUME m # n PROVE FALSE
  OBVIOUS
<1>a. Count \in Nat
  BY InvocationFacts
<1>0. m + 1 \in 1..Count
  BY <1>a
<1>1. rest = Rest(m, n)
  BY DEF Parsing
<1>2. PICK x : x = FlagSeq[m + 1]
  OBVIOUS
<1>3. x[1].kind = "assigned" \/ x[1].kind = "flag"
  <2>1. given.flags[m + 1].assigned => x[1].kind = "assigned"
    BY <1>0, <1>2, FlagStarts
  <2>2. ~given.flags[m + 1].assigned => x[1].kind = "flag"
    BY <1>0, <1>2, FlagStarts
  <2> QED
    BY <2>1, <2>2
<1>4. rest # <<>> /\ Head(rest) = x[1]
  BY <1>1, <1>2, RestStarts, Zenon DEF Split
<1> QED
  BY <1>3, <1>4 DEF EndParse

LEMMA ParsingEnds ==
  ASSUME given \in Invocations, EndParse, NEW n \in 0..Count, Parsing(n, n)
  PROVE  \/ pc' = "exit" /\ given' = given /\ ~Valid
         \/ pc' = "resolve" /\ UNCHANGED <<given, rest, flags, positional, values>> /\ Parsed
<1>1. CASE given.command = "query" /\ rest = <<>>
  <2>1. pc' = "exit" /\ given' = given
    BY <1>1 DEF EndParse, Exit
  <2>2. given.sql = ""
    BY <1>1, AtQuery
  <2> QED
    BY <1>1, <2>1, <2>2 DEF Valid
<1>2. CASE ~(given.command = "query" /\ rest = <<>>)
  <2>1. pc' = "resolve" /\ UNCHANGED <<given, rest, flags, positional, values>>
    BY <1>2 DEF EndParse
  <2>2. /\ n = Count /\ given.sql \notin Dashed /\ Sql = given.sql
        /\ (given.command = "query") = (given.sql # "")
    <3>1. CASE rest = <<>>
      BY <1>2, <3>1, AtQuery, QueryIs, InvocationFacts DEF Sql
    <3>2. CASE rest # <<>>
      <4>1. Head(rest).kind = "word"
        BY <3>2 DEF EndParse
      <4> QED
        BY <3>2, <4>1, AtQuery, InvocationFacts DEF Sql
    <3> QED
      BY <3>1, <3>2
  <2>3. \A i \in 1..Count : given.flags[i].name \in FlagsOf(given.command)
    BY <2>2 DEF Parsing
  <2>4. ASSUME NEW f \in DOMAIN values PROVE values[f] = Given(f)
    <3>1. values[f] = Segment(ValueSeq(f), 0, Count)
      BY <2>2 DEF Parsing
    <3>2. PICK s : s = ValueSeq(f)
      OBVIOUS
    <3>3. s \in Seq(Seq(STRING)) /\ Len(s) = Count
      BY <3>2, SequencesOfFlags, Zenon
    <3>4. Segment(s, 0, Count) = FlattenSeq(s)
      BY <3>3, WholeSegment
    <3>5. Given(f) = FlattenSeq(ValueSeq(f))
      BY DEF Given, ValueSeq
    <3> QED
      BY <3>1, <3>2, <3>4, <3>5, Zenon
  <2>5. Parsed
    BY <2>2, <2>3, <2>4 DEF Parsed
  <2> QED
    BY <2>1, <2>5
<1> QED
  BY <1>1, <1>2

\* The configuration is found exactly if the invocation names one.
LEMMA ConfigIsFound ==
  ASSUME given \in Invocations, DOMAIN values = FlagsOf(given.command), Parsed
  PROVE  (\E f, g \in {"config", "config-env-var"} :
            f # g /\ Held(f) \in Sources /\ Held(g) = "") = Valid
<1>1. ASSUME NEW f \in {"config", "config-env-var"} PROVE Held(f) = LastGiven(f)
  <2>1. f \in DOMAIN values
    BY DEF FlagsOf
  <2>2. values[f] = Given(f)
    BY <2>1 DEF Parsed
  <2> QED
    BY <2>2, Zenon DEF Held, LastGiven
<1>2. DOMAIN given.flags = 1..Count
  BY InvocationFacts
<1>3. (\E f, g \in {"config", "config-env-var"} :
         f # g /\ LastGiven(f) \in Sources /\ LastGiven(g) = "") = Valid
  BY <1>2 DEF Parsed, Valid
<1>4. \A f, g \in {"config", "config-env-var"} :
        (f # g /\ Held(f) \in Sources /\ Held(g) = "")
          = (f # g /\ LastGiven(f) \in Sources /\ LastGiven(g) = "")
  BY <1>1, Zenon
<1> QED
  BY <1>3, <1>4, Zenon

-----------------------------------------------------------------------------
(* The command line as it is written.                                      *)

LEMMA WrittenIs ==
  ASSUME given \in Invocations, NEW n \in 0..Count
  PROVE  Written(given, n) = Rest(0, n)
<1>a. Count \in Nat
  BY InvocationFacts
<1>0. Count \in 0..Count /\ 0 \in 0..n /\ DOMAIN given.flags = 1..Count
  BY <1>a, Bounds, InvocationFacts
<1>1. FlattenSeq([i \in 1..n |-> FlagTokens(given.flags[i])]) = Behind(0, n)
  <2>1. [i \in 1..n |-> FlagTokens(given.flags[i])] = [i \in 1..n - 0 |-> FlagSeq[0 + i]]
    <3>1. n - 0 = n
      BY <1>a
    <3>2. \A i \in 1..n : 0 + i = i /\ i \in 1..Count
      BY <1>a
    <3>3. \A i \in 1..n : FlagSeq[0 + i] = FlagTokens(given.flags[i])
      BY <1>0, <3>2 DEF FlagSeq
    <3> QED
      BY <3>1, <3>3
  <2> QED
    BY <2>1, Zenon DEF Behind, Segment
<1>2. FlattenSeq([i \in 1..Count - n |-> FlagTokens(given.flags[n + i])]) = Behind(n, Count)
  <2>1. [i \in 1..Count - n |-> FlagTokens(given.flags[n + i])]
          = [i \in 1..Count - n |-> FlagSeq[n + i]]
    <3>1. \A i \in 1..Count - n : n + i \in 1..Count
      BY <1>a
    <3>2. \A i \in 1..Count - n : FlagSeq[n + i] = FlagTokens(given.flags[n + i])
      BY <1>0, <3>1 DEF FlagSeq
    <3> QED
      BY <3>2
  <2> QED
    BY <2>1, Zenon DEF Behind, Segment
<1>3. (IF given.sql = "" THEN <<>> ELSE <<Word(given.sql)>>) = Query
  BY DEF Query
<1>4. Written(given, n) = (Behind(0, n) \o Query) \o Behind(n, Count)
  <2>1. Written(given, n) = (FlattenSeq([i \in 1..n |-> FlagTokens(given.flags[i])])
            \o (IF given.sql = "" THEN <<>> ELSE <<Word(given.sql)>>))
            \o FlattenSeq([i \in 1..Count - n |-> FlagTokens(given.flags[n + i])])
    BY DEF Written, Count
  <2> QED
    BY <1>1, <1>2, <1>3, <2>1, Zenon
<1>5. PICK x \in Seq(Token), y \in Seq(Token), z \in Seq(Token) :
        x = Behind(0, n) /\ y = Query /\ z = Behind(n, Count)
  BY <1>0, BehindIs, SequencesOfFlags
<1>6. PICK u, v : u = x \o y /\ v = y \o z
  OBVIOUS
<1>7. u \o z = x \o v
  BY <1>6, ConcatIsAssociative
<1> QED
  BY <1>4, <1>5, <1>6, <1>7, Zenon DEF Rest

\* Without a query, it does not matter where it is written.
LEMMA WithoutQuery ==
  ASSUME given \in Invocations, NEW n \in 0..Count, given.sql = ""
  PROVE  Rest(0, n) = Rest(0, Count)
<1>a. Count \in Nat
  BY InvocationFacts
<1>0. Count \in 0..Count /\ 0 \in 0..n /\ 0 \in 0..Count /\ Count \in n..Count
  BY <1>a, Bounds
<1>1. Query = <<>> /\ Behind(Count, Count) = <<>>
  BY <1>0, QueryIs, BehindIs
<1>2. Behind(n, Count) \in Seq(Token) /\ Behind(0, Count) \in Seq(Token)
  BY <1>0, BehindIs
<1>3. <<>> \o Behind(n, Count) = Behind(n, Count) /\ Behind(0, Count) \o <<>> = Behind(0, Count)
  BY <1>2, ConcatEmptySeq
<1>4. <<>> \o <<>> = <<>>
  BY EmptyTwice
<1>5. Behind(0, n) \o Behind(n, Count) = Behind(0, Count)
  <2>1. FlagSeq \in Seq(Seq(Token)) /\ Len(FlagSeq) = Count
    BY SequencesOfFlags
  <2>2. 0 \in 0..Len(FlagSeq) /\ n \in 0..Len(FlagSeq) /\ Count \in n..Len(FlagSeq)
    BY <1>0, <2>1
  <2> QED
    BY <2>1, <2>2, SegmentJoin DEF Behind
<1> QED
  BY <1>1, <1>3, <1>4, <1>5, Zenon DEF Rest

-----------------------------------------------------------------------------
(* The invariant.                                                          *)

LEMMA SortingTypes ==
  ASSUME given \in Invocations, NEW m \in 0..Count, NEW n \in 0..Count, Sorting(m, n)
  PROVE  rest \in Seq(Token) /\ flags \in Seq(Token) /\ positional \in Seq(Token)
<1>a. Count \in Nat
  BY InvocationFacts
<1>0. /\ Count \in 0..Count /\ (m <= n => m \in 0..n) /\ (n <= m => n \in 0..m)
      /\ 0 \in 0..m /\ 0 \in 0..n
  BY <1>a, Bounds
<1>1. /\ Query \in Seq(Token) /\ <<>> \in Seq(Token) /\ Behind(0, m) \in Seq(Token)
      /\ Behind(m, Count) \in Seq(Token) /\ Behind(0, n) \in Seq(Token)
  BY <1>0, SequencesOfFlags, BehindIs
<1>2. CASE BeforeQuery(m, n)
  <2>1. m \in 0..n
    BY <1>0, <1>2 DEF BeforeQuery
  <2>2. Rest(m, n) \in Seq(Token)
    BY <2>1, RestIs
  <2> QED
    BY <1>1, <1>2, <2>2, Zenon DEF BeforeQuery
<1>3. CASE BehindQuery(m, n)
  <2>1. n \in 0..m
    BY <1>0, <1>3 DEF BehindQuery
  <2>2. Behind(n, m) \in Seq(Token)
    BY <2>1, BehindIs
  <2>3. (Behind(0, n) \o Query) \o Behind(n, m) \in Seq(Token)
    BY <1>1, <2>2, ConcatProperties
  <2> QED
    BY <1>1, <1>3, <2>3, Zenon DEF BehindQuery
<1> QED
  BY <1>2, <1>3 DEF Sorting

\* What is said of the tokens while they are sorted.
Total == Len(FlattenSeq([i \in DOMAIN given.flags |-> FlagTokens(given.flags[i])]))
           + (IF given.sql = "" THEN 0 ELSE 1)
SortedOK == /\ Len(rest) + Len(flags) + Len(positional) = Total
            /\ \A i \in DOMAIN positional : positional[i].kind = "word"
            /\ Paired(flags)

LEMMA TypeOKIs ==
  TypeOK = /\ given \in Invocations
           /\ pc \in {"reorder", "parse", "resolve", "run", "exit"}
           /\ DOMAIN values = FlagsOf(given.command)
           /\ pc = "reorder" => SortedOK
BY Zenon DEF TypeOK, SortedOK, Total, Paired

LEMMA ReorderKeepsInv ==
  ASSUME Inv, Reorder
  PROVE  Inv'
<1>1. /\ given \in Invocations /\ pc = "reorder" /\ DOMAIN values = FlagsOf(given.command)
      /\ SortedOK /\ values = [f \in FlagsOf(given.command) |-> <<>>]
  BY TypeOKIs DEF Inv, Reorder
<1>2. PICK m \in 0..Count, n \in 0..Count : Sorting(m, n)
  BY <1>1 DEF Inv
<1>a. Count \in Nat
  BY <1>1, InvocationFacts
<1>b. n \in 0..n /\ (m <= n => m \in 0..n) /\ (n <= m => n \in 0..m)
  BY <1>a, Bounds
<1>3. UNCHANGED <<given, values, pc>>
  BY DEF Reorder
<1>4. \E k \in 0..Count : Sorting(k, n)'
  <2>1. CASE BeforeQuery(m, n) /\ m # n
    <3>1. m \in 0..n
      BY <1>b, <2>1 DEF BeforeQuery
    <3>2. m + 1 \in 0..n /\ BeforeQuery(m + 1, n)'
      BY <1>1, <2>1, <3>1, BeforeQueryStep
    <3>3. m + 1 \in 0..Count
      BY <1>a, <3>2
    <3> QED
      BY <3>2, <3>3 DEF Sorting
  <2>2. CASE BeforeQuery(m, n) /\ m = n /\ given.sql # ""
    <3>1. BehindQuery(n, n)'
      BY <1>1, <2>2, QueryStep
    <3> QED
      BY <3>1 DEF Sorting
  <2>3. CASE BeforeQuery(m, n) /\ m = n /\ given.sql = ""
    <3>1. BehindQuery(n, n)
      BY <1>1, <2>3, NoQuery
    <3>2. n + 1 \in 0..Count /\ BehindQuery(n + 1, n)'
      BY <1>1, <1>b, <3>1, BehindQueryStep
    <3> QED
      BY <3>2 DEF Sorting
  <2>4. CASE BehindQuery(m, n)
    <3>1. n \in 0..m
      BY <1>b, <2>4 DEF BehindQuery
    <3>2. m + 1 \in 0..Count /\ BehindQuery(m + 1, n)'
      BY <1>1, <2>4, <3>1, BehindQueryStep
    <3> QED
      BY <3>2 DEF Sorting
  <2> QED
    BY <1>2, <2>1, <2>2, <2>3, <2>4 DEF Sorting
<1>5. SortedOK'
  <2>1. rest \in Seq(Token) /\ flags \in Seq(Token) /\ positional \in Seq(Token)
    BY <1>1, <1>2, SortingTypes
  <2>2. /\ Len(rest') + Len(flags') + Len(positional') = Len(rest) + Len(flags) + Len(positional)
        /\ Paired(flags)'
        /\ \A i \in DOMAIN positional' : positional'[i].kind = "word"
    BY <1>1, <2>1, SortingKeepsTokens DEF SortedOK
  <2>3. Total' = Total
    BY <1>3 DEF Total
  <2> QED
    BY <1>1, <2>2, <2>3, Zenon DEF SortedOK
<1>6. TypeOK'
  <2>1. /\ given' \in Invocations /\ pc' = "reorder" /\ DOMAIN values' = FlagsOf(given'.command)
    BY <1>1, <1>3
  <2> QED
    BY <1>5, <2>1 DEF TypeOK, SortedOK, Total, Paired
<1>7. Count' = Count
  BY <1>3, InvocationKept
<1>8. \E k, l \in 0..Count' : Sorting(k, l)'
  BY <1>4, <1>7
<1> QED
  BY <1>1, <1>3, <1>6, <1>8 DEF Inv

LEMMA EndReorderKeepsInv ==
  ASSUME Inv, EndReorder
  PROVE  Inv'
<1>1. /\ given \in Invocations /\ pc = "reorder" /\ DOMAIN values = FlagsOf(given.command)
      /\ values = [f \in FlagsOf(given.command) |-> <<>>]
  BY TypeOKIs DEF Inv, EndReorder
<1>2. PICK m \in 0..Count, n \in 0..Count : Sorting(m, n)
  BY <1>1 DEF Inv
<1>3. /\ rest = <<>> /\ rest' = Reordered /\ pc' = "parse"
      /\ UNCHANGED <<given, flags, positional, values>>
  BY DEF EndReorder
<1>4. PICK k \in 0..Count : /\ Reordered = Rest(0, k)
                            /\ k = Count \/ given.sql \in Dashed
  BY <1>1, <1>2, <1>3, EndSorting
<1>a. Count \in Nat
  BY <1>1, InvocationFacts
<1>5. 0 \in 0..Count /\ 0 <= k /\ 1..0 = {} /\ Count' = Count
  BY <1>a, <1>3, InvocationKept
<1>6. rest' = Rest(0, k)' /\ (k = Count' \/ given'.sql \in Dashed)
  BY <1>3, <1>4, <1>5, InvocationKept, Zenon
<1>7. ASSUME NEW f \in DOMAIN values' PROVE values'[f] = Segment(ValueSeq(f)', 0, 0)
  <2>1. values'[f] = <<>>
    BY <1>1, <1>3
  <2>2. Segment(ValueSeq(f)', 0, 0) = <<>>
    BY SegmentEmpty
  <2> QED
    BY <2>1, <2>2
<1>8. Parsing(0, k)'
  BY <1>5, <1>6, <1>7, Zenon DEF Parsing, Segment
<1>9. TypeOK'
  BY <1>1, <1>3 DEF TypeOK
<1> QED
  BY <1>3, <1>4, <1>5, <1>8, <1>9 DEF Inv

LEMMA ParseFlagKeepsInv ==
  ASSUME Inv, ParseFlag
  PROVE  Inv'
<1>1. given \in Invocations /\ pc = "parse" /\ DOMAIN values = FlagsOf(given.command)
  BY DEF Inv, TypeOK, ParseFlag
<1>2. PICK m \in 0..Count, n \in 0..Count : Parsing(m, n)
  BY <1>1 DEF Inv
<1>a. Count \in Nat
  BY <1>1, InvocationFacts
<1>3. m \in 0..n
  BY <1>2, <1>a DEF Parsing
<1>4. CASE pc' = "exit" /\ given' = given /\ ~Valid
  <2>1. DOMAIN values' = DOMAIN values
    BY DEF ParseFlag, Exit
  <2>2. TypeOK'
    BY <1>1, <1>4, <2>1 DEF TypeOK
  <2>3. ~Valid'
    BY <1>4 DEF Valid, LastGiven, Given
  <2> QED
    BY <1>4, <2>2, <2>3 DEF Inv
<1>5. CASE m = n
  <2>1. Parsing(n, n)
    BY <1>2, <1>5
  <2> QED
    BY <1>1, <1>4, <2>1, QueryIsParsed
<1>6. CASE /\ m + 1 \in 0..n /\ Parsing(m + 1, n)' /\ UNCHANGED <<given, flags, positional, pc>>
           /\ DOMAIN values' = DOMAIN values
  <2>1. Count' = Count
    BY <1>6, InvocationKept
  <2>2. m + 1 \in 0..Count
    BY <1>a, <1>6
  <2>3. \E k, l \in 0..Count' : Parsing(k, l)'
    BY <1>6, <2>1, <2>2
  <2>4. TypeOK'
    BY <1>1, <1>6 DEF TypeOK
  <2> QED
    BY <1>1, <1>6, <2>3, <2>4 DEF Inv
<1> QED
  BY <1>1, <1>2, <1>3, <1>4, <1>5, <1>6, ParsingStep

LEMMA EndParseKeepsInv ==
  ASSUME Inv, EndParse
  PROVE  Inv'
<1>1. given \in Invocations /\ pc = "parse" /\ DOMAIN values = FlagsOf(given.command)
  BY DEF Inv, TypeOK, EndParse
<1>2. PICK m \in 0..Count, n \in 0..Count : Parsing(m, n)
  BY <1>1 DEF Inv
<1>a. Count \in Nat
  BY <1>1, InvocationFacts
<1>3. m \in 0..n
  BY <1>2, <1>a DEF Parsing
<1>4. m = n
  BY <1>1, <1>2, <1>3, StopsAtQuery
<1>5. Parsing(n, n)
  BY <1>2, <1>4
<1>6. UNCHANGED <<given, rest, values>> /\ pc' \in {"resolve", "exit"}
  BY DEF EndParse, Exit
<1>7. TypeOK'
  BY <1>1, <1>6 DEF TypeOK
<1>8. CASE pc' = "exit" /\ given' = given /\ ~Valid
  <2>1. ~Valid'
    BY <1>8 DEF Valid, LastGiven, Given
  <2> QED
    BY <1>7, <1>8, <2>1 DEF Inv
<1>9. CASE pc' = "resolve" /\ UNCHANGED <<given, rest, flags, positional, values>> /\ Parsed
  <2>1. Parsed'
    BY <1>9 DEF Parsed, Sql, Given, Count
  <2> QED
    BY <1>7, <1>9, <2>1 DEF Inv
<1> QED
  BY <1>1, <1>5, <1>8, <1>9, ParsingEnds

LEMMA ResolveKeepsInv ==
  ASSUME Inv, ResolveConfigData
  PROVE  Inv'
<1>1. given \in Invocations /\ pc = "resolve" /\ DOMAIN values = FlagsOf(given.command) /\ Parsed
  BY DEF Inv, TypeOK, ResolveConfigData
<1>2. UNCHANGED <<given, rest, flags, positional, values>> /\ pc' \in {"run", "exit"}
  BY DEF ResolveConfigData, Exit
<1>3. pc' = "run" => Valid
  BY <1>1, ConfigIsFound DEF ResolveConfigData, Exit
<1>4. pc' = "exit" => ~Valid
  BY <1>1, ConfigIsFound DEF ResolveConfigData, Exit
<1>5. Valid' = Valid /\ Parsed'
  <2>1. Valid' = Valid
    BY <1>2 DEF Valid, LastGiven, Given
  <2>2. Parsed'
    BY <1>1, <1>2 DEF Parsed, Sql, Given, Count
  <2> QED
    BY <2>1, <2>2
<1>6. TypeOK'
  BY <1>1, <1>2 DEF TypeOK
<1> QED
  BY <1>2, <1>3, <1>4, <1>5, <1>6 DEF Inv

LEMMA InitHolds ==
  ASSUME Init
  PROVE  Inv
<1>1. /\ given \in Invocations /\ flags = <<>> /\ positional = <<>>
      /\ values = [f \in FlagsOf(given.command) |-> <<>>]
      /\ pc = IF given.command = "semantic-context" THEN "parse" ELSE "reorder"
  BY DEF Init
<1>a. Count \in Nat
  BY <1>1, InvocationFacts
<1>2. PICK n \in 0..Count : rest = Written(given, n)
  BY DEF Init, Count
<1>3. rest = Rest(0, n)
  BY <1>1, <1>2, WrittenIs
<1>4. 0 \in 0..n /\ 0 \in 0..Count /\ 0 <= n /\ 0 <= Count /\ 0 \in 0..0 /\ 1..0 = {} /\ Count \in 0..Count
  BY <1>a
<1>5. Behind(0, 0) = <<>>
  BY <1>1, <1>4, BehindIs
<1>6. CASE pc = "reorder"
  <2>1. BeforeQuery(0, n)
    BY <1>1, <1>3, <1>4, <1>5, Zenon DEF BeforeQuery
  <2>2. Sorting(0, n)
    BY <2>1 DEF Sorting
  <2>3. Len(rest) = Total
    <3>1. PICK x \in Seq(Token), y \in Seq(Token), z \in Seq(Token) :
            x = Behind(0, n) /\ y = Query /\ z = Behind(n, Count)
      BY <1>1, <1>4, BehindIs, SequencesOfFlags
    <3>2. rest = x \o (y \o z)
      BY <1>3, <3>1, Zenon DEF Rest
    <3>3. Len(rest) = Len(x) + (Len(y) + Len(z))
      BY <3>2, ConcatProperties
    <3>4. Len(Behind(0, Count)) = Len(x) + Len(z)
      <4>1. FlagSeq \in Seq(Seq(Token)) /\ Len(FlagSeq) = Count
        BY <1>1, SequencesOfFlags
      <4>2. 0 \in 0..Len(FlagSeq) /\ n \in 0..Len(FlagSeq) /\ Count \in n..Len(FlagSeq)
        BY <1>a, <4>1
      <4>3. Behind(0, n) \o Behind(n, Count) = Behind(0, Count)
        BY <4>1, <4>2, SegmentJoin DEF Behind
      <4>4. x \o z = Behind(0, Count)
        BY <3>1, <4>3, Zenon
      <4>5. Len(x \o z) = Len(x) + Len(z)
        BY ConcatProperties
      <4> QED
        BY <4>4, <4>5, Zenon
    <3>5. Len(y) = IF given.sql = "" THEN 0 ELSE 1
      BY <1>1, <3>1, QueryIs, EmptySeq
    <3>6. Behind(0, Count) = FlattenSeq(FlagSeq)
      <4>1. FlagSeq \in Seq(Seq(Token)) /\ Len(FlagSeq) = Count
        BY <1>1, SequencesOfFlags
      <4>2. PICK s : s = FlagSeq
        OBVIOUS
      <4>3. s \in Seq(Seq(Token)) /\ Len(s) = Count
        BY <4>1, <4>2, Zenon
      <4>4. Segment(s, 0, Count) = FlattenSeq(s)
        BY <4>3, WholeSegment
      <4> QED
        BY <4>2, <4>4, Zenon DEF Behind
    <3>7. Len(x) \in Nat /\ Len(y) \in Nat /\ Len(z) \in Nat
      BY LenProperties
    <3>8. Total = Len(Behind(0, Count)) + Len(y)
      BY <3>5, <3>6, Zenon DEF Total, FlagSeq
    <3>9. Len(x) + (Len(y) + Len(z)) = (Len(x) + Len(z)) + Len(y)
      BY <3>7
    <3> QED
      BY <3>3, <3>4, <3>8, <3>9, Zenon
  <2>4. SortedOK
    <3>1. Len(rest) \in Nat /\ Len(flags) = 0 /\ Len(positional) = 0
      <4>1. rest \in Seq(Token)
        BY <1>1, <1>3, <1>4, RestIs
      <4> QED
        BY <1>1, <4>1, LenProperties, EmptySeq
    <3>2. Len(rest) + Len(flags) + Len(positional) = Total
      BY <2>3, <3>1
    <3>3. Paired(flags) /\ \A i \in DOMAIN positional : positional[i].kind = "word"
      BY <1>1 DEF Paired
    <3> QED
      BY <3>2, <3>3 DEF SortedOK
  <2>5. TypeOK
    BY <1>1, <1>6, <2>4, TypeOKIs
  <2> QED
    BY <1>1, <1>4, <1>6, <2>2, <2>5 DEF Inv
<1>7. CASE pc = "parse"
  <2>1. given.command = "semantic-context"
    BY <1>1, <1>7
  <2>2. given.sql = ""
    BY <1>1, <2>1, InvocationFacts
  <2>3. rest = Rest(0, Count)
    BY <1>1, <1>3, <2>2, WithoutQuery, Zenon
  <2>4. ASSUME NEW f \in DOMAIN values PROVE values[f] = Segment(ValueSeq(f), 0, 0)
    <3>1. values[f] = <<>>
      BY <1>1
    <3>2. Segment(ValueSeq(f), 0, 0) = <<>>
      BY SegmentEmpty
    <3> QED
      BY <3>1, <3>2
  <2>5. Parsing(0, Count)
    BY <1>4, <2>3, <2>4 DEF Parsing
  <2>6. TypeOK
    BY <1>1, <1>7 DEF TypeOK
  <2> QED
    BY <1>4, <1>7, <2>5, <2>6 DEF Inv
<1> QED
  BY <1>1, <1>6, <1>7

LEMMA InvHolds == Spec => []Inv
<1>1. Init => Inv
  BY InitHolds
<1>2. Inv /\ [Next]_vars => Inv'
  <2> SUFFICES ASSUME Inv, [Next]_vars PROVE Inv'
    OBVIOUS
  <2>1. CASE Reorder
    BY <2>1, ReorderKeepsInv
  <2>2. CASE EndReorder
    BY <2>2, EndReorderKeepsInv
  <2>3. CASE ParseFlag
    BY <2>3, ParseFlagKeepsInv
  <2>4. CASE EndParse
    BY <2>4, EndParseKeepsInv
  <2>5. CASE ResolveConfigData
    BY <2>5, ResolveKeepsInv
  <2>6. CASE UNCHANGED vars
    <3>1. UNCHANGED <<given, rest, flags, positional, values, pc>>
      BY <2>6 DEF vars
    <3>2. TypeOK'
      BY <3>1 DEF Inv, TypeOK
    <3>3. Parsed' = Parsed /\ Valid' = Valid
      <4>1. Parsed' = Parsed
        BY <3>1 DEF Parsed, Sql, Given, Count
      <4>2. Valid' = Valid
        BY <3>1 DEF Valid, LastGiven, Given
      <4> QED
        BY <4>1, <4>2
    <3>4. Count' = Count
      BY <3>1, InvocationKept
    <3>5. ASSUME NEW m, NEW n, Sorting(m, n) PROVE Sorting(m, n)'
      BY <3>1, <3>5 DEF Sorting, BeforeQuery, BehindQuery, Rest, Behind, Query, Count, FlagSeq
    <3>6. ASSUME NEW m, NEW n, Parsing(m, n) PROVE Parsing(m, n)'
      BY <3>1, <3>6 DEF Parsing, Rest, Behind, Query, Count, FlagSeq, ValueSeq
    <3>7. pc = "reorder" => \E m, n \in 0..Count' : Sorting(m, n)'
      BY <3>4, <3>5 DEF Inv
    <3>8. pc = "parse" => \E m, n \in 0..Count' : Parsing(m, n)'
      BY <3>4, <3>6 DEF Inv
    <3> QED
      BY <3>1, <3>2, <3>3, <3>7, <3>8 DEF Inv
  <2> QED
    BY <2>1, <2>2, <2>3, <2>4, <2>5, <2>6 DEF Next
<1> QED
  BY <1>1, <1>2, PTL DEF Spec

-----------------------------------------------------------------------------
(* Theorems.                                                               *)

\* Sorting the arguments loses none of them and makes none up, and a word that
\* stands among the flags stands behind its flag (reorderArgs).
THEOREM TypeCorrect == Spec => []TypeOK
<1>1. Inv => TypeOK
  BY DEF Inv
<1> QED
  BY <1>1, InvHolds, PTL

\* Wherever the query is written among the flags, a command that runs has the query,
\* the flags and the configuration that were meant, and one that exits could not
\* have run.
THEOREM WhatRunsIsMeant == Spec => []ReadAsWritten
<1>1. Inv => ReadAsWritten
  BY DEF Inv, ReadAsWritten, Parsed
<1> QED
  BY <1>1, InvHolds, PTL
=============================================================================
