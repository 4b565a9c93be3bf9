-------------------------- MODULE SegmentLemmas --------------------------
(***************************************************************************)
(* What the proofs share: FlattenSeq computed one sequence at a time, the  *)
(* concatenation of a segment of the sequences, and taking a concatenation *)
(* apart.                                                                  *)
(***************************************************************************)
EXTENDS Naturals, Sequences, SequencesExt, SequenceTheorems, WellFoundedInduction, TLAPS

-----------------------------------------------------------------------------
(* FlattenSeq, one sequence at a time.                                     *)

\* The concatenations of the first sequences of s.
Flattens(s, f, n, T) ==
  /\ f \in [0..n -> Seq(T)] /\ f[0] = <<>>
  /\ \A i \in 1..n : f[i] = f[i - 1] \o s[i]

LEMMA LeastNat ==
  ASSUME NEW M, M \subseteq Nat, M # {}
  PROVE  \E n \in M : n \in Nat /\ \A m \in M : n <= m
<1> DEFINE Less == {ss \in Nat \X Nat : ss[1] < ss[2]}
<1>1. IsWellFoundedOn(Less, Nat)
  BY NatLessThanWellFounded DEF OpToRel
<1>2. PICK n \in M : \A m \in M : ~(<<m, n>> \in Less)
  BY <1>1, WFMin
<1>3. n \in Nat /\ \A m \in M : m \in Nat /\ ~(m < n)
  BY <1>2
<1>4. \A m \in M : n <= m
  BY <1>3
<1> QED
  BY <1>3, <1>4

LEMMA FlattensExist ==
  ASSUME NEW T, NEW s \in Seq(Seq(T))
  PROVE  \E f : Flattens(s, f, Len(s), T)
<1> DEFINE L == Len(s)
           Missing == {n \in 0..L : ~\E f : Flattens(s, f, n, T)}
<1>0. L \in Nat /\ \A i \in 1..L : s[i] \in Seq(T)
  BY LenProperties, ElementOfSeq
<1> SUFFICES ASSUME Missing # {} PROVE FALSE
  BY <1>0
<1>a. Missing \subseteq Nat
  BY <1>0
<1> HIDE DEF Missing
<1>1. PICK n \in Missing : n \in Nat /\ \A m \in Missing : n <= m
  BY LeastNat, <1>a
<1> USE DEF Missing
<1>2. CASE n = 0
  <2>1. Flattens(s, [i \in 0..0 |-> <<>>], 0, T)
    BY DEF Flattens
  <2> QED
    BY <1>2, <2>1
<1>3. CASE n # 0
  <2>1. n \in 0..L /\ n - 1 \in 0..L /\ ~(n <= n - 1)
    BY <1>0, <1>1, <1>3
  <2>a. n - 1 \notin Missing
    BY <1>1, <2>1
  <2>2. PICK f : Flattens(s, f, n - 1, T)
    BY <2>1, <2>a
  <2> DEFINE g == [i \in 0..n |-> IF i = n THEN f[n - 1] \o s[n] ELSE f[i]]
  <2>3. f[n - 1] \o s[n] \in Seq(T)
    BY <1>0, <1>1, <1>3, <2>2, ConcatProperties DEF Flattens
  <2>4. g \in [0..n -> Seq(T)] /\ g[0] = <<>>
    BY <1>1, <1>3, <2>2, <2>3 DEF Flattens
  <2>5. \A i \in 1..n : g[i] = g[i - 1] \o s[i]
    <3>1. ASSUME NEW i \in 1..n PROVE g[i] = g[i - 1] \o s[i]
      <4>1. i \in 0..n /\ i - 1 \in 0..n /\ i - 1 # n
        BY <1>1
      <4>2. g[i - 1] = f[i - 1]
        BY <4>1
      <4>3. CASE i = n
        BY <4>1, <4>2, <4>3
      <4>4. CASE i # n
        <5>1. i \in 1..n - 1 /\ i \in 0..n
          BY <1>1, <4>4
        <5>2. f[i] = f[i - 1] \o s[i]
          BY <2>2, <5>1, Zenon DEF Flattens
        <5>3. g[i] = f[i]
          BY <4>4, <5>1
        <5> QED
          BY <4>2, <5>2, <5>3, Zenon
      <4> QED
        BY <4>3, <4>4
    <3> QED
      BY <3>1
  <2>6. Flattens(s, g, n, T)
    BY <2>4, <2>5 DEF Flattens
  <2> QED
    BY <2>6
<1> QED
  BY <1>2, <1>3

\* FlattenSeq is the last of them.
LEMMA FlattenSeqIs ==
  ASSUME NEW T, NEW s \in Seq(Seq(T)), NEW f, Flattens(s, f, Len(s), T)
  PROVE  FlattenSeq(s) = f[Len(s)]
<1> DEFINE L == Len(s)
           Eq(h) == h = [i \in 1..L |-> IF i = 1 THEN s[i] ELSE h[i - 1] \o s[i]]
           flatten == CHOOSE h : Eq(h)
<1>0. L \in Nat /\ \A i \in 1..L : s[i] \in Seq(T)
  BY LenProperties, ElementOfSeq
<1>a. \A i \in 0..L : f[i] \in Seq(T)
  BY DEF Flattens
<1>b. L # 0 => f[1] = s[1]
  <2> SUFFICES ASSUME L # 0 PROVE f[1] = s[1]
    OBVIOUS
  <2>1. 1 \in 1..L /\ 1 - 1 = 0 /\ s[1] \in Seq(T)
    BY <1>0
  <2>2. f[1] = f[1 - 1] \o s[1] /\ f[0] = <<>>
    BY <2>1, Zenon DEF Flattens
  <2>3. f[1] = <<>> \o s[1]
    BY <2>1, <2>2, Zenon
  <2> QED
    BY <2>1, <2>3, ConcatEmptySeq
<1>1. CASE L = 0
  BY <1>1, EmptySeq DEF FlattenSeq, Flattens
<1>2. CASE L # 0
  <2>1. Eq([i \in 1..L |-> f[i]])
    <3>1. ASSUME NEW i \in 1..L
          PROVE  f[i] = IF i = 1 THEN s[i] ELSE f[i - 1] \o s[i]
      BY <1>0, <1>2, <1>b, Zenon DEF Flattens
    <3>2. ASSUME NEW i \in 1..L PROVE i = 1 \/ i - 1 \in 1..L
      BY <1>0
    <3> QED
      BY <3>1, <3>2
  <2>2. Eq(flatten)
    BY <2>1
  <2> HIDE DEF flatten
  <2>3. \A i \in 1..L : flatten[i] = f[i]
    <3> DEFINE Bad == {i \in 1..L : flatten[i] # f[i]}
    <3> SUFFICES ASSUME Bad # {} PROVE FALSE
      OBVIOUS
    <3>0. Bad \subseteq Nat
      BY <1>0
    <3> HIDE DEF Bad
    <3>1. PICK n \in Bad : n \in Nat /\ \A m \in Bad : n <= m
      BY LeastNat, <3>0
    <3> USE DEF Bad
    <3>a. n = 1 \/ (n - 1 \in 1..L /\ ~(n <= n - 1))
      BY <1>0, <3>1
    <3>2. n = 1 \/ (n - 1 \in 1..L /\ n - 1 \notin Bad)
      BY <3>1, <3>a
    <3>4. flatten[n] = IF n = 1 THEN s[n] ELSE flatten[n - 1] \o s[n]
      BY <2>2
    <3> QED
      <4>1. CASE n = 1
        BY <1>2, <1>b, <3>1, <3>4, <4>1
      <4>2. CASE n # 1
        <5>1. n \in 1..L /\ flatten[n - 1] = f[n - 1] /\ flatten[n] # f[n]
          BY <3>1, <3>2, <4>2
        <5>2. f[n] = f[n - 1] \o s[n]
          BY <5>1, Zenon DEF Flattens
        <5>3. flatten[n] = f[n - 1] \o s[n]
          BY <3>4, <4>2, <5>1, Zenon
        <5> QED
          BY <5>1, <5>2, <5>3, Zenon
      <4> QED
        BY <4>1, <4>2
  <2>4. FlattenSeq(s) = flatten[L]
    BY <1>2 DEF FlattenSeq, flatten
  <2> QED
    BY <1>0, <1>2, <2>3, <2>4
<1> QED
  BY <1>1, <1>2

\* The concatenation of the sequences of s behind the m-th, up to the n-th.
Segment(s, m, n) == FlattenSeq([i \in 1..n - m |-> s[m + i]])

LEMMA SegmentIsSeq ==
  ASSUME NEW T, NEW s \in Seq(Seq(T)), NEW n \in 0..Len(s), NEW m \in 0..n
  PROVE  /\ [i \in 1..n - m |-> s[m + i]] \in Seq(Seq(T))
         /\ Len([i \in 1..n - m |-> s[m + i]]) = n - m
<1>1. Len(s) \in Nat /\ \A i \in 1..Len(s) : s[i] \in Seq(T)
  BY LenProperties, ElementOfSeq
<1>2. n - m \in Nat /\ \A i \in 1..n - m : m + i \in 1..Len(s)
  BY <1>1
<1>3. [i \in 1..n - m |-> s[m + i]] \in [1..n - m -> Seq(T)]
  BY <1>1, <1>2
<1> QED
  BY <1>2, <1>3, SeqDef, LenProperties

LEMMA SegmentEmpty ==
  ASSUME NEW s, NEW n \in Nat
  PROVE  Segment(s, n, n) = <<>>
<1>1. n - n = 0 /\ 1..0 = {}
  OBVIOUS
<1>2. [i \in 1..n - n |-> s[n + i]] = <<>>
  BY <1>1
<1> QED
  BY <1>2 DEF Segment, FlattenSeq

LEMMA SegmentLast ==
  ASSUME NEW T, NEW s \in Seq(Seq(T)), NEW n \in 0..Len(s), n < Len(s), NEW m \in 0..n
  PROVE  /\ Segment(s, m, n) \in Seq(T)
         /\ Segment(s, m, n + 1) = Segment(s, m, n) \o s[n + 1]
<1> DEFINE short == [i \in 1..n - m |-> s[m + i]]
           long  == [i \in 1..(n + 1) - m |-> s[m + i]]
<1>1. Len(s) \in Nat /\ n + 1 \in 0..Len(s) /\ m \in 0..n + 1 /\ n \in 0..Len(s)
  BY LenProperties
<1>2. /\ short \in Seq(Seq(T)) /\ Len(short) = n - m
      /\ long \in Seq(Seq(T)) /\ Len(long) = (n + 1) - m
  BY <1>1, SegmentIsSeq
<1>3. PICK f : Flattens(long, f, (n + 1) - m, T)
  BY <1>2, FlattensExist
<1>4. n - m \in Nat /\ (n + 1) - m = (n - m) + 1 /\ ((n - m) + 1) - 1 = n - m /\ m + ((n - m) + 1) = n + 1
  BY <1>1
<1>a. Segment(s, m, n) = FlattenSeq(short) /\ Segment(s, m, n + 1) = FlattenSeq(long)
  BY DEF Segment
<1>5. \A i \in 1..n - m : long[i] = short[i] /\ i \in 1..(n + 1) - m
  BY <1>4
<1>6. long[(n - m) + 1] = s[n + 1] /\ (n - m) + 1 \in 1..(n + 1) - m
  BY <1>4
<1> HIDE DEF short, long
<1>7. Flattens(short, [i \in 0..n - m |-> f[i]], n - m, T)
  <2> DEFINE g == [i \in 0..n - m |-> f[i]]
  <2>1. g \in [0..n - m -> Seq(T)] /\ g[0] = <<>>
    BY <1>3, <1>4 DEF Flattens
  <2>2. ASSUME NEW i \in 1..n - m PROVE g[i] = g[i - 1] \o short[i]
    <3>1. i \in 0..n - m /\ i - 1 \in 0..n - m /\ i \in 1..(n + 1) - m /\ long[i] = short[i]
      BY <1>4, <1>5
    <3>2. f[i] = f[i - 1] \o long[i]
      BY <1>3, <3>1, Zenon DEF Flattens
    <3>3. g[i] = f[i] /\ g[i - 1] = f[i - 1]
      BY <3>1
    <3> QED
      BY <3>1, <3>2, <3>3, Zenon
  <2> HIDE DEF g
  <2> QED
    BY <2>1, <2>2, Zenon DEF Flattens, g
<1>8. FlattenSeq(short) = f[n - m]
  <2> DEFINE g == [i \in 0..n - m |-> f[i]]
  <2>1. g[n - m] = f[n - m]
    BY <1>4
  <2>2. Flattens(short, g, Len(short), T)
    BY <1>2, <1>7
  <2> HIDE DEF g
  <2> QED
    BY <1>2, <2>1, <2>2, FlattenSeqIs
<1>9. FlattenSeq(long) = f[(n + 1) - m]
  BY <1>2, <1>3, FlattenSeqIs
<1>10. f[n - m] \in Seq(T)
  BY <1>3, <1>4 DEF Flattens
<1>11. f[(n - m) + 1] = f[((n - m) + 1) - 1] \o long[(n - m) + 1]
  BY <1>3, <1>6, Zenon DEF Flattens
<1> QED
  BY <1>4, <1>6, <1>8, <1>9, <1>10, <1>11, <1>a, Zenon

LEMMA SegmentType ==
  ASSUME NEW T, NEW s \in Seq(Seq(T)), NEW n \in 0..Len(s), NEW m \in 0..n
  PROVE  Segment(s, m, n) \in Seq(T)
<1> DEFINE seg == [i \in 1..n - m |-> s[m + i]]
<1>1. seg \in Seq(Seq(T)) /\ Len(seg) = n - m /\ n - m \in Nat
  BY SegmentIsSeq, LenProperties
<1>2. Segment(s, m, n) = FlattenSeq(seg)
  BY DEF Segment
<1> HIDE DEF seg
<1>3. PICK f : Flattens(seg, f, Len(seg), T)
  BY <1>1, FlattensExist
<1>4. FlattenSeq(seg) = f[Len(seg)]
  BY <1>1, <1>3, FlattenSeqIs
<1> QED
  BY <1>1, <1>2, <1>3, <1>4 DEF Flattens

\* Concatenation is associative.
LEMMA ConcatIsAssociative ==
  ASSUME NEW T, NEW x \in Seq(T), NEW y \in Seq(T), NEW z \in Seq(T)
  PROVE  \A u, v : u = x \o y /\ v = y \o z => u \o z = x \o v
<1>1. (x \o y) \o z = x \o (y \o z)
  BY SMTT(30)
<1> QED
  BY <1>1, Zenon

\* Two adjacent segments make one.
LEMMA SegmentJoin ==
  ASSUME NEW T, NEW s \in Seq(Seq(T)), NEW a \in 0..Len(s), NEW b \in a..Len(s), NEW c \in b..Len(s)
  PROVE  Segment(s, a, b) \o Segment(s, b, c) = Segment(s, a, c)
<1> DEFINE Bad == {n \in b..Len(s) : Segment(s, a, b) \o Segment(s, b, n) # Segment(s, a, n)}
<1>0. Len(s) \in Nat /\ a \in Nat /\ b \in Nat /\ a \in 0..b /\ b \in 0..Len(s)
  BY LenProperties
<1> SUFFICES ASSUME Bad # {} PROVE FALSE
  OBVIOUS
<1>a. Bad \subseteq Nat
  BY <1>0
<1> HIDE DEF Bad
<1>1. PICK n \in Bad : n \in Nat /\ \A m \in Bad : n <= m
  BY <1>a, LeastNat
<1>b. /\ n \in b..Len(s) /\ Segment(s, a, b) \o Segment(s, b, n) # Segment(s, a, n)
      /\ \A m \in b..Len(s) : ~(n <= m) => Segment(s, a, b) \o Segment(s, b, m) = Segment(s, a, m)
  BY <1>1 DEF Bad
<1>2. Segment(s, a, b) \in Seq(T)
  BY <1>0, SegmentType
<1>3. CASE n = b
  <2>1. Segment(s, b, b) = <<>>
    BY <1>0, SegmentEmpty
  <2>2. Segment(s, a, b) \o <<>> = Segment(s, a, b)
    BY <1>2, ConcatEmptySeq
  <2>3. Segment(s, a, b) \o Segment(s, b, n) # Segment(s, a, n)
    BY <1>b
  <2> QED
    BY <1>3, <2>1, <2>2, <2>3, Zenon
<1>4. CASE n # b
  <2> DEFINE k == n - 1
  <2>1. /\ k \in 0..Len(s) /\ k < Len(s) /\ a \in 0..k /\ b \in 0..k /\ k \in b..Len(s)
        /\ k + 1 = n /\ ~(n <= k) /\ n \in 1..Len(s)
    BY <1>0, <1>1, <1>b, <1>4
  <2>2. Segment(s, a, b) \o Segment(s, b, k) = Segment(s, a, k)
    BY <1>b, <2>1
  <2> HIDE DEF k
  <2>3. /\ Segment(s, a, k + 1) = Segment(s, a, k) \o s[k + 1]
        /\ Segment(s, b, k + 1) = Segment(s, b, k) \o s[k + 1] /\ Segment(s, b, k) \in Seq(T)
    BY <2>1, SegmentLast
  <2>4. s[n] \in Seq(T)
    BY <2>1, ElementOfSeq
  <2>5. Segment(s, a, b) \o Segment(s, b, n) # Segment(s, a, n)
    BY <1>b
  <2>6. /\ Segment(s, a, n) = Segment(s, a, k) \o s[n]
        /\ Segment(s, b, n) = Segment(s, b, k) \o s[n]
    BY <2>1, <2>3, Zenon
  <2>7. Segment(s, a, b) \o Segment(s, b, n) = Segment(s, a, n)
    <3>1. PICK x \in Seq(T) : x = Segment(s, a, b)
      BY <1>2
    <3>2. PICK y \in Seq(T) : y = Segment(s, b, k)
      BY <2>3
    <3>3. PICK z \in Seq(T) : z = s[n]
      BY <2>4
    <3>4. PICK u, v : u = x \o y /\ v = y \o z
      OBVIOUS
    <3>5. u \o z = x \o v
      BY <3>4, ConcatIsAssociative
    <3> QED
      BY <2>2, <2>6, <3>1, <3>2, <3>3, <3>4, <3>5, Zenon
  <2> QED
    BY <2>5, <2>7
<1> QED
  BY <1>3, <1>4

\* A segment begins with its first sequence.
LEMMA SegmentFirst ==
  ASSUME NEW T, NEW s \in Seq(Seq(T)), NEW n \in 0..Len(s), NEW m \in 0..n, m # n
  PROVE  /\ Segment(s, m, n) = s[m + 1] \o Segment(s, m + 1, n)
         /\ s[m + 1] \in Seq(T) /\ Segment(s, m + 1, n) \in Seq(T)
<1>1. /\ Len(s) \in Nat /\ m \in 0..Len(s) /\ m < Len(s) /\ m \in 0..m /\ m \in Nat
      /\ m + 1 \in m..Len(s) /\ n \in m + 1..Len(s) /\ m + 1 \in 0..n /\ m + 1 \in 1..Len(s)
  BY LenProperties
<1>2. Segment(s, m, m + 1) = Segment(s, m, m) \o s[m + 1] /\ Segment(s, m, m) = <<>>
  BY <1>1, SegmentLast, SegmentEmpty
<1>3. s[m + 1] \in Seq(T)
  BY <1>1, ElementOfSeq
<1>4. Segment(s, m, m + 1) = s[m + 1]
  <2>1. <<>> \o s[m + 1] = s[m + 1]
    BY <1>3, ConcatEmptySeq
  <2> QED
    BY <1>2, <2>1, Zenon
<1>5. Segment(s, m, m + 1) \o Segment(s, m + 1, n) = Segment(s, m, n)
  BY <1>1, SegmentJoin
<1>6. Segment(s, m + 1, n) \in Seq(T)
  BY <1>1, SegmentType
<1> QED
  BY <1>3, <1>4, <1>5, <1>6, Zenon

\* All of s is a segment of it.
LEMMA WholeSegment ==
  ASSUME NEW T, NEW s \in Seq(Seq(T))
  PROVE  Segment(s, 0, Len(s)) = FlattenSeq(s)
<1>1. Len(s) \in Nat /\ s = [i \in 1..Len(s) |-> s[i]]
  BY LenProperties, SeqDef
<1>2. [i \in 1..Len(s) - 0 |-> s[0 + i]] = [i \in 1..Len(s) |-> s[i]]
  BY <1>1
<1> QED
  BY <1>1, <1>2 DEF Segment

LEMMA OneOrTwo ==
  ASSUME NEW T, NEW x \in T, NEW y \in T
  PROVE  <<x>> \in Seq(T) /\ <<x, y>> \in Seq(T) /\ <<>> \in Seq(T)
OBVIOUS

LEMMA IsSeqOf ==
  ASSUME NEW S, NEW n \in Nat, NEW f \in [1..n -> S]
  PROVE  f \in Seq(S) /\ Len(f) = n
<1>1. f \in Seq(S)
  BY SeqDef
<1> QED
  BY <1>1, LenProperties

\* Taking the first of two sequences off their concatenation.
Split(z, x, y) ==
  /\ z # <<>> /\ Len(z) = Len(x) + Len(y) /\ Len(x) >= 1 /\ Len(y) \in Nat
  /\ Head(z) = x[1] /\ z[1] = x[1]
  /\ Len(x) > 1 => z[2] = x[2]
  /\ Len(x) = 1 /\ y # <<>> => z[2] = y[1]
  /\ SubSeq(z, 1, Len(x)) = x
  /\ SubSeq(z, Len(x) + 1, Len(z)) = y

LEMMA TakeFirst ==
  ASSUME NEW T, NEW x \in Seq(T), NEW y \in Seq(T), x # <<>>, NEW z, z = x \o y
  PROVE  Split(z, x, y)
<1>1. /\ z \in Seq(T) /\ Len(z) = Len(x) + Len(y) /\ Len(x) \in Nat /\ Len(y) \in Nat
      /\ \A i \in 1..Len(x) + Len(y) : z[i] = IF i <= Len(x) THEN x[i] ELSE y[i - Len(x)]
  BY ConcatProperties, LenProperties
<1>2. Len(x) >= 1 /\ (y # <<>> => Len(y) >= 1)
  BY <1>1, EmptySeq
<1>3. z # <<>>
  BY <1>1, <1>2
<1>4. Head(z) = z[1]
  BY <1>1, <1>3, HeadTailProperties
<1>5. z[1] = x[1] /\ (Len(x) > 1 => z[2] = x[2])
  BY <1>1, <1>2
<1>6. Len(x) = 1 /\ y # <<>> => z[2] = y[1]
  BY <1>1, <1>2
<1>7. SubSeq(z, 1, Len(x)) = x
  <2>1. /\ SubSeq(z, 1, Len(x)) \in Seq(T) /\ Len(SubSeq(z, 1, Len(x))) = Len(x)
        /\ \A i \in 1..Len(x) : SubSeq(z, 1, Len(x))[i] = z[i]
    BY <1>1, <1>2, SubSeqProperties
  <2> QED
    BY <1>1, <2>1, SeqEqual
<1>8. SubSeq(z, Len(x) + 1, Len(z)) = y
  <2> DEFINE w == SubSeq(z, Len(x) + 1, Len(z))
  <2>1. CASE y = <<>>
    BY <1>1, <2>1
  <2>2. CASE y # <<>>
    <3>1. /\ w \in Seq(T) /\ Len(w) = Len(y)
          /\ \A i \in 1..Len(y) : w[i] = z[Len(x) + i]
      BY <1>1, <1>2, <2>2, SubSeqProperties
    <3> HIDE DEF w
    <3>2. \A i \in 1..Len(y) : w[i] = y[i]
      BY <1>1, <3>1
    <3> QED
      BY <3>1, <3>2, SeqEqual DEF w
  <2> QED
    BY <2>1, <2>2
<1> QED
  BY <1>1, <1>2, <1>3, <1>4, <1>5, <1>6, <1>7, <1>8 DEF Split

LEMMA NotEmpty ==
  ASSUME NEW x, Len(x) = 1 \/ Len(x) = 2
  PROVE  x # <<>>
OBVIOUS

LEMMA Bounds ==
  ASSUME NEW k \in Nat, NEW i \in 0..k
  PROVE  k \in 0..k /\ k \in i..k /\ i <= i /\ i \in 0..i /\ 0 \in 0..i /\ 0 \in 0..k /\ i \in Nat
OBVIOUS

LEMMA EmptyTwice == <<>> \o <<>> = <<>>
OBVIOUS

\* What holds at first and from step to step holds throughout a loop.
LEMMA Loop ==
  ASSUME NEW n \in Nat, NEW Good, 0 \in Good, \A i \in 1..n : i - 1 \in Good => i \in Good
  PROVE  \A i \in 0..n : i \in Good
<1> DEFINE Bad == {i \in 0..n : i \notin Good}
<1> SUFFICES ASSUME Bad # {} PROVE FALSE
  OBVIOUS
<1>1. Bad \subseteq Nat
  OBVIOUS
<1> HIDE DEF Bad
<1>2. PICK k \in Bad : k \in Nat /\ \A m \in Bad : k <= m
  BY <1>1, LeastNat
<1>3. k \in 0..n /\ k \notin Good
  BY <1>2 DEF Bad
<1>4. k \in 1..n /\ k - 1 \in 0..n /\ ~(k <= k - 1)
  BY <1>2, <1>3
<1>5. k - 1 \in Good
  BY <1>2, <1>4 DEF Bad
<1> QED
  BY <1>3, <1>4, <1>5

\* A sequence of things that are in T is one of T.
LEMMA Retype ==
  ASSUME NEW S, NEW T, NEW s \in Seq(S), \A i \in 1..Len(s) : s[i] \in T
  PROVE  s \in Seq(T)
<1>1. Len(s) \in Nat /\ s \in [1..Len(s) -> S]
  BY LenProperties
<1>2. s \in [1..Len(s) -> T]
  BY <1>1
<1> QED
  BY <1>1, <1>2, IsSeqOf

LEMMA FlattenType ==
  ASSUME NEW T, NEW s \in Seq(Seq(T))
  PROVE  FlattenSeq(s) \in Seq(T)
<1>1. Len(s) \in Nat
  BY LenProperties
<1>2. Len(s) \in 0..Len(s) /\ 0 \in 0..Len(s)
  BY <1>1
<1>3. Segment(s, 0, Len(s)) \in Seq(T)
  BY <1>2, SegmentType
<1> QED
  BY <1>3, WholeSegment

LEMMA FlattenOne ==
  ASSUME NEW x
  PROVE  FlattenSeq(<<x>>) = x
<1> DEFINE Eq(h) == h = [i \in 1..1 |-> IF i = 1 THEN <<x>>[i] ELSE h[i - 1] \o <<x>>[i]]
           flatten == CHOOSE h : Eq(h)
<1>1. Eq([i \in 1..1 |-> x])
  OBVIOUS
<1>2. Eq(flatten)
  BY <1>1
<1>3. flatten[1] = x
  BY <1>2
<1>4. FlattenSeq(<<x>>) = flatten[1]
  BY DEF FlattenSeq
<1> QED
  BY <1>3, <1>4

LEMMA FlattenNone == FlattenSeq(<<>>) = <<>>
BY DEF FlattenSeq

\* Flattening what is in two parts, part by part.
LEMMA FlattenConcat ==
  ASSUME NEW T, NEW s \in Seq(Seq(T)), NEW t \in Seq(Seq(T))
  PROVE  /\ FlattenSeq(s \o t) = FlattenSeq(s) \o FlattenSeq(t)
         /\ s \o t \in Seq(Seq(T)) /\ FlattenSeq(s) \in Seq(T) /\ FlattenSeq(t) \in Seq(T)
<1>1. PICK z : z = s \o t
  OBVIOUS
<1>2. /\ z \in Seq(Seq(T)) /\ Len(z) = Len(s) + Len(t) /\ Len(s) \in Nat /\ Len(t) \in Nat
      /\ \A i \in 1..Len(s) + Len(t) : z[i] = IF i <= Len(s) THEN s[i] ELSE t[i - Len(s)]
  BY <1>1, ConcatProperties, LenProperties
<1>3. /\ 0 \in 0..Len(z) /\ Len(s) \in 0..Len(z) /\ Len(z) \in Len(s)..Len(z)
  BY <1>2
<1>4. Segment(z, 0, Len(s)) \o Segment(z, Len(s), Len(z)) = Segment(z, 0, Len(z))
  BY <1>2, <1>3, SegmentJoin
<1>5. Segment(z, 0, Len(z)) = FlattenSeq(z)
  BY <1>2, WholeSegment
<1>6. [i \in 1..Len(s) - 0 |-> z[0 + i]] = s
  <2>1. s = [i \in 1..Len(s) |-> s[i]]
    BY LenProperties
  <2>2. Len(s) - 0 = Len(s) /\ \A i \in 1..Len(s) : z[0 + i] = s[i]
    BY <1>2
  <2> QED
    BY <2>1, <2>2
<1>7. [i \in 1..Len(z) - Len(s) |-> z[Len(s) + i]] = t
  <2>1. t = [i \in 1..Len(t) |-> t[i]]
    BY LenProperties
  <2>2. Len(z) - Len(s) = Len(t)
    BY <1>2
  <2>3. ASSUME NEW i \in 1..Len(t) PROVE z[Len(s) + i] = t[i]
    <3>1. /\ Len(s) + i \in 1..Len(s) + Len(t) /\ ~(Len(s) + i <= Len(s))
          /\ (Len(s) + i) - Len(s) = i
      BY <1>2
    <3> QED
      BY <1>2, <3>1
  <2> QED
    BY <2>1, <2>2, <2>3
<1>8. Segment(z, 0, Len(s)) = FlattenSeq(s) /\ Segment(z, Len(s), Len(z)) = FlattenSeq(t)
  BY <1>6, <1>7 DEF Segment
<1> QED
  BY <1>1, <1>2, <1>4, <1>5, <1>8, FlattenType, Zenon
=============================================================================
