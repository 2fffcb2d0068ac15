-------------------------- MODULE ContainerLogProofs -------------------------
(***************************************************************************)
(* The log of a container has all that it wrote, for any streams, a buffer *)
(* of any size and output of any length.                                   *)
(***************************************************************************)
EXTENDS ContainerLog, Integers, SequenceTheorems, FiniteSetTheorems,
        WellFoundedInduction, TLAPS

(* Every set of numbers that is not empty has a least one. *)
LEMMA LeastNatural ==
  ASSUME NEW T \in SUBSET Nat, T # {}
  PROVE  \E x \in T : \A y \in T : x <= y
<1> DEFINE Less == {ss \in Nat \X Nat : ss[1] < ss[2]}
<1>1. IsWellFoundedOn(Less, Nat)
  BY NatLessThanWellFounded DEF OpToRel
<1> HIDE DEF Less
<1>2. PICK x \in T : \A y \in T : ~(<<y, x>> \in Less)
  BY <1>1, WFMin
<1>3. \A y \in T : ~(y < x)
  BY <1>2 DEF Less
<1> QED  BY <1>3

(* A sequence that is not empty has a first end. *)
LEMMA FirstEndFacts ==
  ASSUME NEW items \in Seq(Items), items # <<>>
  PROVE  /\ FirstEnd(items) \in RecordEnds(items) /\ FirstEnd(items) \in 1 .. Len(items)
         /\ \A j \in RecordEnds(items) : FirstEnd(items) <= j
<1>1. Len(items) \in RecordEnds(items)
  BY EmptySeq, LenProperties DEF RecordEnds
<1>2. RecordEnds(items) \in SUBSET Nat /\ RecordEnds(items) \subseteq 1 .. Len(items)
  BY DEF RecordEnds
<1>3. \E i \in RecordEnds(items) : \A j \in RecordEnds(items) : i <= j
  BY <1>1, <1>2, LeastNatural
<1>4. FirstEnd(items) \in RecordEnds(items) /\ \A j \in RecordEnds(items) : FirstEnd(items) <= j
  BY <1>3, Zenon DEF FirstEnd
<1> QED  BY <1>2, <1>4

(* It is the only one. *)
LEMMA FirstEndIs ==
  ASSUME NEW items \in Seq(Items), NEW n \in RecordEnds(items), \A j \in RecordEnds(items) : n <= j
  PROVE  FirstEnd(items) = n
<1>1. items # <<>>
  BY DEF RecordEnds
<1>2. FirstEnd(items) \in RecordEnds(items) /\ \A j \in RecordEnds(items) : FirstEnd(items) <= j
  BY <1>1, FirstEndFacts
<1>3. FirstEnd(items) \in Nat /\ n \in Nat
  BY <1>2 DEF RecordEnds
<1> QED  BY <1>2, <1>3

(* What is left after the first record is shorter. *)
LEMMA RestFacts ==
  ASSUME NEW items \in Seq(Items), items # <<>>
  PROVE  /\ FirstRecord(items) \in Seq(Items) /\ OtherItems(items) \in Seq(Items)
         /\ Len(OtherItems(items)) < Len(items)
<1> DEFINE n == FirstEnd(items)
<1>1. n \in 1 .. Len(items) /\ Len(items) \in Nat
  BY FirstEndFacts, LenProperties
<1> HIDE DEF n
<1>2. /\ SubSeq(items, n + 1, Len(items)) \in Seq(Items)
      /\ Len(SubSeq(items, n + 1, Len(items))) < Len(items)
  BY <1>1
<1>3. SubSeq(items, 1, n - 1) \in Seq(Items) /\ SubSeq(items, 1, n) \in Seq(Items)
  BY <1>1
<1> QED  BY <1>2, <1>3 DEF FirstRecord, OtherItems, n

-----------------------------------------------------------------------------
(* The equation of RecordsOf: there are solutions for the sequences up to any *)
(* length, any two of them agree where both are defined, and so they make up  *)
(* one for all sequences.                                                     *)
Upto(n) == {items \in Seq(Items) : Len(items) <= n}
RecordsFrom(f, items) == IF items = <<>> THEN <<>> ELSE <<FirstRecord(items)>> \o f[OtherItems(items)]
Solves(f, D) == f = [items \in D |-> RecordsFrom(f, items)]

LEMMA StepSame ==
  ASSUME NEW f, NEW g, NEW items \in Seq(Items),
         items # <<>> => f[OtherItems(items)] = g[OtherItems(items)]
  PROVE  RecordsFrom(f, items) = RecordsFrom(g, items)
BY DEF RecordsFrom

LEMMA Shorter ==
  ASSUME NEW n \in Nat, NEW items \in Upto(n), items # <<>>
  PROVE  n # 0 /\ OtherItems(items) \in Upto(n - 1) /\ OtherItems(items) \in Upto(n)
<1>1. items \in Seq(Items) /\ Len(items) <= n /\ Len(items) \in Nat
  BY LenProperties DEF Upto
<1>2. OtherItems(items) \in Seq(Items) /\ Len(OtherItems(items)) < Len(items) /\ Len(OtherItems(items)) \in Nat
  BY <1>1, RestFacts, LenProperties
<1> QED  BY <1>1, <1>2 DEF Upto

LEMMA SolutionExists == \A n \in Nat : \E f : Solves(f, Upto(n))
<1> DEFINE T == {n \in Nat : ~\E f : Solves(f, Upto(n))}
<1> SUFFICES ASSUME T # {} PROVE FALSE
  OBVIOUS
<1>1. PICK n \in T : \A m \in T : n <= m
  BY LeastNatural, Zenon
<1>2. n \in Nat /\ ~\E f : Solves(f, Upto(n))
  OBVIOUS
<1>3. n # 0 => \E g : Solves(g, Upto(n - 1))
  <2> SUFFICES ASSUME n # 0, n - 1 \in T PROVE FALSE
    BY <1>2
  <2> QED  BY <1>1, <1>2
<1>4. PICK g : n # 0 => Solves(g, Upto(n - 1))
  BY <1>3
<1> DEFINE f == [items \in Upto(n) |-> RecordsFrom(g, items)]
<1>5. ASSUME NEW items \in Upto(n) PROVE RecordsFrom(g, items) = RecordsFrom(f, items)
  <2>1. ASSUME items # <<>> PROVE g[OtherItems(items)] = f[OtherItems(items)]
    <3>1. n # 0 /\ OtherItems(items) \in Upto(n - 1) /\ OtherItems(items) \in Upto(n)
      BY <1>2, <2>1, Shorter
    <3>2. f[OtherItems(items)] = RecordsFrom(g, OtherItems(items))
      BY <3>1
    <3>3. g = [b \in Upto(n - 1) |-> RecordsFrom(g, b)]
      BY <1>4, <3>1 DEF Solves
    <3>4. g[OtherItems(items)] = RecordsFrom(g, OtherItems(items))
      BY <3>1, <3>3, Zenon
    <3> QED  BY <3>2, <3>4
  <2> HIDE DEF f
  <2> QED  BY <2>1, StepSame DEF Upto
<1>6. f = [items \in Upto(n) |-> RecordsFrom(f, items)]
  BY <1>5, Zenon
<1> HIDE DEF f
<1> QED  BY <1>2, <1>6 DEF Solves

LEMMA SolutionsAgree ==
  ASSUME NEW m \in Nat, NEW n \in Nat, NEW f, NEW g, Solves(f, Upto(m)), Solves(g, Upto(n))
  PROVE  \A items \in Upto(m) \cap Upto(n) : f[items] = g[items]
<1> DEFINE T == {k \in Nat : \E items \in Upto(m) \cap Upto(n) : Len(items) = k /\ f[items] # g[items]}
<1> SUFFICES ASSUME T # {} PROVE FALSE
  <2>1. \A items \in Upto(m) : Len(items) \in Nat
    BY LenProperties DEF Upto
  <2> QED  BY <2>1
<1>1. PICK k \in T : \A j \in T : k <= j
  BY LeastNatural, Zenon
<1>2. PICK items \in Upto(m) \cap Upto(n) : Len(items) = k /\ f[items] # g[items]
  BY <1>1
<1>3. items \in Seq(Items) /\ k \in Nat
  BY <1>2 DEF Upto
<1>4. f = [b \in Upto(m) |-> RecordsFrom(f, b)] /\ g = [b \in Upto(n) |-> RecordsFrom(g, b)]
  BY DEF Solves
<1>5. f[items] = RecordsFrom(f, items) /\ g[items] = RecordsFrom(g, items)
  BY <1>2, <1>4, Zenon
<1>6. items # <<>> /\ f[OtherItems(items)] # g[OtherItems(items)]
  BY <1>2, <1>3, <1>5, StepSame
<1>7. OtherItems(items) \in Upto(m) \cap Upto(n)
  BY <1>2, <1>6, Shorter
<1>8. Len(OtherItems(items)) < k /\ Len(OtherItems(items)) \in Nat
  BY <1>2, <1>3, <1>6, RestFacts, LenProperties
<1>9. Len(OtherItems(items)) \in T
  BY <1>6, <1>7, <1>8, Zenon
<1> QED  BY <1>1, <1>3, <1>8, <1>9

LEMMA RecordsEquation ==
  \A items \in Seq(Items) : RecordsOf[items] = RecordsFrom(RecordsOf, items)
<1> DEFINE S(n) == CHOOSE f : Solves(f, Upto(n))
           F == [items \in Seq(Items) |-> S(Len(items))[items]]
<1>1. \A n \in Nat : Solves(S(n), Upto(n))
  BY SolutionExists, Zenon
<1> HIDE DEF S
<1>2. ASSUME NEW items \in Seq(Items) PROVE F[items] = RecordsFrom(F, items)
  <2> DEFINE n == Len(items)
  <2>1. n \in Nat /\ items \in Upto(n)
    BY LenProperties DEF Upto
  <2>2. S(n) = [b \in Upto(n) |-> RecordsFrom(S(n), b)]
    BY <1>1, <2>1, Zenon DEF Solves
  <2>3. F[items] = RecordsFrom(S(n), items)
    BY <2>1, <2>2, Zenon
  <2>4. ASSUME items # <<>> PROVE S(n)[OtherItems(items)] = F[OtherItems(items)]
    <3> DEFINE b == OtherItems(items)
    <3>1. b \in Seq(Items) /\ Len(b) \in Nat /\ b \in Upto(Len(b)) /\ b \in Upto(n)
      BY <2>1, <2>4, RestFacts, LenProperties DEF Upto
    <3> HIDE DEF b
    <3>2. S(n)[b] = S(Len(b))[b]
      BY <1>1, <2>1, <3>1, SolutionsAgree
    <3> QED  BY <3>1, <3>2 DEF b
  <2> HIDE DEF F
  <2> QED  BY <2>3, <2>4, StepSame
<1>3. F = [items \in Seq(Items) |-> RecordsFrom(F, items)]
  BY <1>2, Zenon
<1> HIDE DEF F
<1>4. \E f : f = [items \in Seq(Items) |-> RecordsFrom(f, items)]
  BY <1>3
<1>5. RecordsOf = CHOOSE f : f = [items \in Seq(Items) |-> RecordsFrom(f, items)]
  BY Zenon DEF RecordsOf, RecordsFrom
<1>6. RecordsOf = [items \in Seq(Items) |-> RecordsFrom(RecordsOf, items)]
  BY <1>4, <1>5, Zenon
<1> QED  BY <1>6, Zenon

LEMMA RecordsUnfold ==
  /\ RecordsOf[<<>>] = <<>>
  /\ \A items \in Seq(Items) : items # <<>> =>
       RecordsOf[items] = <<FirstRecord(items)>> \o RecordsOf[OtherItems(items)]
<1>1. <<>> \in Seq(Items)
  OBVIOUS
<1>2. RecordsOf[<<>>] = RecordsFrom(RecordsOf, <<>>)
  BY <1>1, RecordsEquation, Zenon
<1>3. RecordsFrom(RecordsOf, <<>>) = <<>>
  BY Zenon DEF RecordsFrom
<1>4. ASSUME NEW items \in Seq(Items), items # <<>>
      PROVE  RecordsOf[items] = <<FirstRecord(items)>> \o RecordsOf[OtherItems(items)]
  <2>1. RecordsOf[items] = RecordsFrom(RecordsOf, items)
    BY <1>4, RecordsEquation, Zenon
  <2>2. RecordsFrom(RecordsOf, items) = <<FirstRecord(items)>> \o RecordsOf[OtherItems(items)]
    BY <1>4, Zenon DEF RecordsFrom
  <2> QED  BY <2>1, <2>2, Zenon
<1> QED  BY <1>2, <1>3, <1>4, Zenon

(* By the least length. *)
LEMMA RecordsType == \A items \in Seq(Items) : RecordsOf[items] \in Seq(Seq(Items))
<1> DEFINE T == {k \in Nat : \E items \in Seq(Items) : Len(items) = k /\ RecordsOf[items] \notin Seq(Seq(Items))}
<1> SUFFICES ASSUME T # {} PROVE FALSE
  BY LenProperties
<1>1. PICK k \in T : \A j \in T : k <= j
  BY LeastNatural, Zenon
<1>2. PICK items \in Seq(Items) : Len(items) = k /\ RecordsOf[items] \notin Seq(Seq(Items))
  BY <1>1
<1>3. items # <<>>
  BY <1>2, RecordsUnfold
<1> DEFINE other == OtherItems(items)
<1>4. other \in Seq(Items) /\ Len(other) < k /\ Len(other) \in Nat /\ k \in Nat /\ FirstRecord(items) \in Seq(Items)
  BY <1>2, <1>3, RestFacts, LenProperties
<1>5. RecordsOf[items] = <<FirstRecord(items)>> \o RecordsOf[other]
  BY <1>3, RecordsUnfold, Zenon
<1> HIDE DEF other
<1>6. RecordsOf[other] \notin Seq(Seq(Items))
  <2> DEFINE one == <<FirstRecord(items)>>  some == RecordsOf[other]
  <2>1. one \in Seq(Seq(Items))
    BY <1>4
  <2> HIDE DEF one, some
  <2>2. some \in Seq(Seq(Items)) => one \o some \in Seq(Seq(Items))
    BY <2>1, ConcatProperties
  <2> QED  BY <1>2, <1>5, <2>2 DEF one, some
<1>7. Len(other) \in T
  BY <1>4, <1>6, Zenon
<1> QED  BY <1>1, <1>4, <1>7

-----------------------------------------------------------------------------
(* What ReadLine takes from the buffer is one record of RecordsOf. *)
LEMMA TakenFacts ==
  ASSUME NEW items \in Seq(Items), items # <<>>
  PROVE  /\ Taken(items) \in 1 .. Len(items)
         /\ \A i \in 1 .. Taken(items) - 1 : ~Stops(items[i])
         /\ HasStop(items) <=> Stops(items[Taken(items)])
         /\ ~HasStop(items) => Taken(items) = Len(items)
<1>1. Len(items) \in Nat /\ Len(items) # 0
  BY EmptySeq, LenProperties
<1>2. CASE ~HasStop(items)
  <2>1. Taken(items) = Len(items)
    BY <1>2, Zenon DEF Taken
  <2>2. \A i \in 1 .. Len(items) : ~Stops(items[i])
    BY <1>2, Zenon DEF HasStop
  <2> QED  BY <1>1, <1>2, <2>1, <2>2
<1>3. CASE HasStop(items)
  <2> DEFINE T == {i \in 1 .. Len(items) : Stops(items[i])}
             P(i) == Stops(items[i]) /\ ~HasStop(SubSeq(items, 1, i - 1))
  <2>1. T # {} /\ T \in SUBSET Nat
    BY <1>3 DEF HasStop
  <2>2. PICK k \in T : \A j \in T : k <= j
    BY <2>1, LeastNatural, Zenon
  <2>3. ASSUME NEW i \in 1 .. Len(items)
        PROVE  ~HasStop(SubSeq(items, 1, i - 1)) <=> \A j \in 1 .. i - 1 : ~Stops(items[j])
    <3> DEFINE c == SubSeq(items, 1, i - 1)
    <3>1. Len(c) = i - 1 /\ \A j \in 1 .. i - 1 : c[j] = items[j]
      BY <1>1, <2>3
    <3> HIDE DEF c
    <3>2. ~HasStop(c) <=> \A j \in 1 .. i - 1 : ~Stops(items[j])
      BY <3>1 DEF HasStop
    <3> QED  BY <3>2 DEF c
  <2>4. k \in 1 .. Len(items) /\ Stops(items[k]) /\ \A j \in 1 .. k - 1 : ~Stops(items[j])
    BY <1>1, <2>2
  <2>5. k \in 1 .. Len(items) /\ P(k)
    BY <2>3, <2>4
  <2>6. Taken(items) = CHOOSE i \in 1 .. Len(items) : P(i)
    BY <1>3, Zenon DEF Taken
  <2> HIDE DEF P
  <2>7. Taken(items) \in 1 .. Len(items) /\ P(Taken(items))
    BY <2>5, <2>6, Zenon
  <2>8. Stops(items[Taken(items)]) /\ ~HasStop(SubSeq(items, 1, Taken(items) - 1))
    BY <2>7, Zenon DEF P
  <2> QED  BY <1>3, <2>3, <2>7, <2>8
<1> QED  BY <1>2, <1>3

(* Whatever comes after them, or nothing at all. *)
LEMMA OneRecord ==
  ASSUME NEW items \in Seq(Items), items # <<>>, Len(items) <= BufSize,
         NEW all \in Seq(Items), Taken(items) <= Len(all),
         \A i \in 1 .. Taken(items) : all[i] = items[i],
         HasStop(items) \/ Len(items) = BufSize \/ Len(all) = Taken(items)
  PROVE  /\ Line(items) \in Seq(Items)
         /\ RecordsOf[all] = <<Line(items)>> \o RecordsOf[SubSeq(all, Taken(items) + 1, Len(all))]
<1> DEFINE n == Taken(items)
<1>1. /\ n \in 1 .. Len(items) /\ \A i \in 1 .. n - 1 : ~Stops(items[i])
      /\ HasStop(items) <=> Stops(items[n])
      /\ ~HasStop(items) => n = Len(items)
  BY TakenFacts, Zenon
<1>2. Len(all) \in Nat /\ Len(items) \in Nat /\ BufSize \in Nat
  BY LenProperties, LogAssumption
<1>3. n <= Len(all) /\ \A i \in 1 .. n : all[i] = items[i]
  OBVIOUS
<1>4. HasStop(items) \/ Len(items) = BufSize \/ Len(all) = n
  OBVIOUS
<1> HIDE DEF n
<1>5. n \in RecordEnds(all)
  BY <1>1, <1>2, <1>3, <1>4 DEF RecordEnds
<1>6. ASSUME NEW j \in RecordEnds(all) PROVE n <= j
  <2> SUFFICES ASSUME j < n PROVE FALSE
    BY <1>1, <1>2 DEF RecordEnds
  <2>1. j \in 1 .. Len(all) /\ (Stops(all[j]) \/ j = BufSize \/ j = Len(all))
    BY <1>6 DEF RecordEnds
  <2>2. j \in 1 .. n - 1 /\ ~Stops(all[j])
    BY <1>1, <1>2, <1>3, <2>1
  <2> QED  BY <1>1, <1>2, <1>3, <2>1, <2>2
<1>7. FirstEnd(all) = n
  BY <1>5, <1>6, FirstEndIs
<1>8. all # <<>>
  BY <1>1, <1>2, <1>3, EmptySeq
<1>9. OtherItems(all) = SubSeq(all, n + 1, Len(all))
  BY <1>7, Zenon DEF OtherItems
<1>10. FirstRecord(all) = Line(items) /\ Line(items) \in Seq(Items)
  <2> DEFINE k == IF HasStop(items) THEN n - 1 ELSE n
  <2>1. (Stops(all[n])) <=> HasStop(items)
    BY <1>1, <1>3
  <2>2. FirstRecord(all) = SubSeq(all, 1, k)
    BY <1>7, <2>1 DEF FirstRecord
  <2>3. Line(items) = SubSeq(items, 1, k)
    BY DEF Line, n
  <2>4. k \in 0 .. n
    BY <1>1, <1>2
  <2> HIDE DEF k
  <2>5. SubSeq(items, 1, k) = SubSeq(all, 1, k)
    BY <1>1, <1>2, <1>3, <2>4
  <2>6. SubSeq(items, 1, k) \in Seq(Items)
    BY <1>1, <1>2, <2>4
  <2> QED  BY <2>2, <2>3, <2>5, <2>6
<1>11. RecordsOf[all] = <<FirstRecord(all)>> \o RecordsOf[OtherItems(all)]
  BY <1>8, RecordsUnfold, Zenon
<1> QED  BY <1>9, <1>10, <1>11, Zenon DEF n

-----------------------------------------------------------------------------
(* The records of a stream in a log. *)
LEMMA OfFacts ==
  ASSUME NEW s, NEW records, NEW n \in Nat
  PROVE  IsFiniteSet(Of(s, records, n)) /\ Of(s, records, n) \subseteq 1 .. n
<1>1. IsFiniteSet(1 .. n)
  BY FS_Interval
<1> QED  BY <1>1, FS_Subset DEF Of

(* A record of a stream adds its line; one of another stream adds none. *)
LEMMA HasAppend ==
  ASSUME NEW R, NEW records \in Seq(R), NEW r \in R, NEW L, NEW lines \in Seq(L), r.line \in L,
         NEW s, Has(records, s, lines)
  PROVE  /\ r.stream = s => Has(Append(records, r), s, Append(lines, r.line))
         /\ r.stream # s => Has(Append(records, r), s, lines)
<1> DEFINE longer == Append(records, r)  n == Len(records)
<1>1. /\ n \in Nat /\ Len(longer) = n + 1
      /\ \A i \in 1 .. n : longer[i] = records[i]
      /\ longer[n + 1] = r
  BY AppendProperties, LenProperties
<1> HIDE DEF longer, n
<1>2. ASSUME NEW i \in 1 .. n PROVE Of(s, longer, i) = Of(s, records, i)
  BY <1>1 DEF Of
<1>3. Of(s, longer, n) = Of(s, records, n)
  BY <1>1 DEF Of
<1>4. Of(s, longer, n + 1) = Of(s, records, n) \cup IF r.stream = s THEN {n + 1} ELSE {}
  BY <1>1 DEF Of
<1>5. /\ Len(lines) = Cardinality(Of(s, records, n))
      /\ \A i \in Of(s, records, n) : records[i].line = lines[Cardinality(Of(s, records, i))]
  BY DEF Has, n
<1>6. IsFiniteSet(Of(s, records, n)) /\ Of(s, records, n) \subseteq 1 .. n
  BY <1>1, OfFacts
<1>7. CASE r.stream # s
  <2>1. Of(s, longer, Len(longer)) = Of(s, records, n)
    BY <1>1, <1>4, <1>7
  <2>2. ASSUME NEW i \in Of(s, records, n) PROVE longer[i].line = lines[Cardinality(Of(s, longer, i))]
    <3>1. i \in 1 .. n
      BY <1>6
    <3>2. longer[i] = records[i] /\ Of(s, longer, i) = Of(s, records, i)
      BY <1>1, <1>2, <3>1
    <3> QED  BY <1>5, <3>2
  <2>3. Has(longer, s, lines)
    BY <1>5, <2>1, <2>2, Zenon DEF Has
  <2> QED  BY <1>7, <2>3 DEF longer
<1>8. CASE r.stream = s
  <2> DEFINE more == Append(lines, r.line)  k == Len(lines)
  <2>1. /\ k \in Nat /\ Len(more) = k + 1 /\ more[k + 1] = r.line
        /\ \A i \in 1 .. k : more[i] = lines[i]
    BY AppendProperties, LenProperties
  <2>2. k = Cardinality(Of(s, records, n))
    BY <1>5
  <2> HIDE DEF more, k
  <2>3. Of(s, longer, n + 1) = Of(s, records, n) \cup {n + 1} /\ n + 1 \notin Of(s, records, n)
    BY <1>1, <1>4, <1>6, <1>8
  <2>4. Cardinality(Of(s, longer, n + 1)) = k + 1
    BY <1>6, <2>2, <2>3, FS_AddElement
  <2>5. ASSUME NEW i \in Of(s, longer, n + 1)
        PROVE  longer[i].line = more[Cardinality(Of(s, longer, i))]
    <3>1. CASE i = n + 1
      BY <1>1, <2>1, <2>4, <3>1
    <3>2. CASE i # n + 1
      <4>1. i \in Of(s, records, n) /\ i \in 1 .. n
        BY <1>6, <2>3, <2>5, <3>2
      <4>2. longer[i] = records[i] /\ Of(s, longer, i) = Of(s, records, i)
        BY <1>1, <1>2, <4>1
      <4> DEFINE c == Cardinality(Of(s, records, i))
      <4>3. Of(s, records, i) \subseteq Of(s, records, n) /\ i \in Of(s, records, i)
        BY <1>1, <4>1 DEF Of
      <4>4. c <= k /\ IsFiniteSet(Of(s, records, i))
        BY <1>6, <2>2, <4>3, FS_Subset
      <4>5. c \in Nat /\ c # 0
        BY <4>3, <4>4, FS_CardinalityType, FS_EmptySet
      <4> HIDE DEF c
      <4>6. c \in 1 .. k
        BY <2>1, <4>4, <4>5
      <4>7. records[i].line = lines[c]
        BY <1>5, <4>1 DEF c
      <4>8. more[c] = lines[c]
        BY <2>1, <4>6
      <4> QED  BY <4>2, <4>7, <4>8 DEF c
    <3> QED  BY <3>1, <3>2
  <2>6. Has(longer, s, more)
    BY <1>1, <2>1, <2>4, <2>5 DEF Has
  <2> QED  BY <1>8, <2>6 DEF longer, more
<1> QED  BY <1>7, <1>8

-----------------------------------------------------------------------------
(* Input that ends with a record: what comes later does not change its own. *)
Whole(items) ==
  \A more \in Seq(Items) : RecordsOf[items \o more] = RecordsOf[items] \o RecordsOf[more]

LEMMA EmptyWhole == Whole(<<>>)
<1> SUFFICES ASSUME NEW more \in Seq(Items)
             PROVE  RecordsOf[<<>> \o more] = RecordsOf[<<>>] \o RecordsOf[more]
  BY DEF Whole
<1>1. <<>> \o more = more
  BY ConcatEmptySeq
<1>2. <<>> \o RecordsOf[more] = RecordsOf[more]
  BY RecordsType, ConcatEmptySeq
<1> QED  BY <1>1, <1>2, RecordsUnfold

Associates(a, b, c) == (a \o b) \o c = a \o (b \o c)

LEMMA Reassociate ==
  ASSUME NEW S, NEW a \in Seq(S), NEW b \in Seq(S), NEW c \in Seq(S)
  PROVE  Associates(a, b, c)
BY DEF Associates

LEMMA ConcatFront ==
  ASSUME NEW S, NEW a \in Seq(S), NEW b \in Seq(S)
  PROVE  /\ a \o b \in Seq(S) /\ Len(a \o b) = Len(a) + Len(b)
         /\ \A i \in 1 .. Len(a) : (a \o b)[i] = a[i]
         /\ SubSeq(a \o b, Len(a) + 1, Len(a \o b)) = b
OBVIOUS

(* The line that ReadLine takes, after bytes that end with a record. *)
LEMMA NextRecord ==
  ASSUME NEW t \in Seq(Items), Whole(t),
         NEW items \in Seq(Items), items # <<>>, Len(items) <= BufSize
  PROVE  LET c == SubSeq(items, 1, Taken(items)) IN
         /\ c \in Seq(Items) /\ Line(items) \in Seq(Items)
         /\ RecordsOf[t \o c] = Append(RecordsOf[t], Line(items))
         /\ HasStop(items) \/ Len(items) = BufSize => Whole(t \o c)
<1> DEFINE n == Taken(items)  c == SubSeq(items, 1, n)  lines == RecordsOf[t]  line == Line(items)
<1>1. n \in 1 .. Len(items) /\ Len(items) \in Nat
  BY TakenFacts, LenProperties, Zenon
<1> HIDE DEF n
<1>2. c \in Seq(Items) /\ Len(c) = n /\ \A i \in 1 .. n : c[i] = items[i]
  BY <1>1
<1> HIDE DEF c
<1>3. ASSUME NEW more \in Seq(Items), HasStop(items) \/ Len(items) = BufSize \/ more = <<>>
      PROVE  /\ line \in Seq(Items)
             /\ RecordsOf[c \o more] = <<line>> \o RecordsOf[more]
  <2> DEFINE all == c \o more
  <2>1. /\ all \in Seq(Items) /\ Len(all) = n + Len(more) /\ Len(more) \in Nat
        /\ \A i \in 1 .. n : all[i] = c[i]
    BY <1>2, ConcatFront, LenProperties, Zenon
  <2>2. SubSeq(all, n + 1, Len(all)) = more
    BY <1>2, ConcatFront, Zenon
  <2> HIDE DEF all
  <2>3. \A i \in 1 .. n : all[i] = items[i]
    BY <1>2, <2>1
  <2>4. n <= Len(all)
    BY <1>1, <2>1
  <2>5. HasStop(items) \/ Len(items) = BufSize \/ Len(all) = n
    <3>1. more = <<>> => Len(more) = 0
      BY EmptySeq
    <3> QED  BY <1>1, <1>3, <2>1, <3>1
  <2>6. line \in Seq(Items) /\ RecordsOf[all] = <<line>> \o RecordsOf[SubSeq(all, n + 1, Len(all))]
    BY <2>1, <2>3, <2>4, <2>5, OneRecord DEF n
  <2> QED  BY <2>2, <2>6 DEF all
<1> HIDE DEF line
<1>4. line \in Seq(Items) /\ RecordsOf[c] = <<line>>
  <2>1. <<>> \in Seq(Items) /\ c \o <<>> = c
    BY <1>2, ConcatEmptySeq
  <2>2. line \in Seq(Items) /\ RecordsOf[c \o <<>>] = <<line>> \o RecordsOf[<<>>]
    BY <1>3, <2>1
  <2>3. <<line>> \o <<>> = <<line>>
    BY <2>2
  <2> QED  BY <2>1, <2>2, <2>3, RecordsUnfold
<1>5. lines \in Seq(Seq(Items))
  BY RecordsType
<1>6. RecordsOf[t \o c] = lines \o <<line>>
  BY <1>2, <1>4, Zenon DEF Whole
<1> HIDE DEF lines
<1>7. lines \o <<line>> = Append(lines, line)
  BY <1>4, <1>5
<1> DEFINE tc == t \o c
<1>8. ASSUME HasStop(items) \/ Len(items) = BufSize, NEW more \in Seq(Items)
      PROVE  RecordsOf[tc \o more] = RecordsOf[tc] \o RecordsOf[more]
  <2> DEFINE one == <<line>>  both == lines \o one
             others == RecordsOf[more]  ahead == c \o more  rest == one \o others
  <2>1. ahead \in Seq(Items)
    BY <1>2, ConcatFront, Zenon
  <2>2. RecordsOf[tc] = both
    BY <1>6
  <2>3. RecordsOf[ahead] = rest
    BY <1>3, <1>8 DEF line
  <2>4. RecordsOf[t \o ahead] = lines \o RecordsOf[ahead]
    BY <2>1, Zenon DEF Whole, lines
  <2>5. others \in Seq(Seq(Items)) /\ one \in Seq(Seq(Items))
    BY <1>4, RecordsType
  <2>6. Associates(t, c, more) /\ Associates(lines, one, others)
    <3> HIDE DEF one, others
    <3>1. Associates(t, c, more)
      BY <1>2, Reassociate, Zenon
    <3>2. Associates(lines, one, others)
      BY <1>5, <2>5, Reassociate, Zenon
    <3> QED  BY <3>1, <3>2
  <2>7. tc \o more = t \o ahead
    BY <2>6, Zenon DEF Associates
  <2>8. both \o others = lines \o rest
    BY <2>6, Zenon DEF Associates
  <2> HIDE DEF tc, one, both, others, ahead, rest
  <2> QED  BY <2>2, <2>3, <2>4, <2>7, <2>8, Zenon DEF others
<1>9. HasStop(items) \/ Len(items) = BufSize => Whole(t \o c)
  BY <1>8, Zenon DEF Whole
<1> QED  BY <1>2, <1>4, <1>6, <1>7, <1>9 DEF lines, line, c, n

-----------------------------------------------------------------------------
(* The input of a stream is in its records, its buffer and its pipe, in this *)
(* order.                                                                    *)
Ordered(w, p, b) ==
  LET k == Len(w) - Len(p) - Len(b) IN
  /\ k \in Nat
  /\ \A i \in 1 .. Len(b) : b[i] = w[k + i]
  /\ \A i \in 1 .. Len(p) : p[i] = w[k + Len(b) + i]

Front(w, p, b) == SubSeq(w, 1, Len(w) - Len(p) - Len(b))

LEMMA FrontFacts ==
  ASSUME NEW w \in Seq(Items), NEW p \in Seq(Items), NEW b \in Seq(Items), Ordered(w, p, b)
  PROVE  Front(w, p, b) \in Seq(Items) /\ (p = <<>> /\ b = <<>> => Front(w, p, b) = w)
<1>1. Len(w) - Len(p) - Len(b) \in Nat
  BY DEF Ordered
<1>2. Len(w) \in Nat /\ Len(p) \in Nat /\ Len(b) \in Nat
  BY LenProperties
<1>3. Front(w, p, b) \in Seq(Items)
  BY <1>1, <1>2 DEF Front
<1>4. ASSUME p = <<>>, b = <<>> PROVE Front(w, p, b) = w
  <2>1. Len(w) - Len(p) - Len(b) = Len(w)
    BY <1>2, <1>4
  <2> QED  BY <2>1 DEF Front
<1> QED  BY <1>3, <1>4

LEMMA Prefix ==
  ASSUME NEW w \in Seq(Items), NEW k \in 0 .. Len(w)
  PROVE  /\ SubSeq(w, 1, k) \in Seq(Items) /\ Len(SubSeq(w, 1, k)) = k
         /\ \A i \in 1 .. k : SubSeq(w, 1, k)[i] = w[i]
OBVIOUS

(* The container writes a byte. *)
LEMMA OrderedWrite ==
  ASSUME NEW w \in Seq(Items), NEW p \in Seq(Items), NEW b \in Seq(Items), Ordered(w, p, b),
         NEW x \in Items
  PROVE  /\ Ordered(Append(w, x), Append(p, x), b)
         /\ Front(Append(w, x), Append(p, x), b) = Front(w, p, b)
<1> DEFINE v == Append(w, x)  q == Append(p, x)  k == Len(w) - Len(p) - Len(b)
<1>1. /\ k \in Nat /\ \A i \in 1 .. Len(b) : b[i] = w[k + i]
      /\ \A i \in 1 .. Len(p) : p[i] = w[k + Len(b) + i]
  BY DEF Ordered
<1>2. Len(w) \in Nat /\ Len(p) \in Nat /\ Len(b) \in Nat /\ k = Len(w) - Len(p) - Len(b)
  BY LenProperties
<1> HIDE DEF k
<1>3. /\ Len(v) = Len(w) + 1 /\ \A i \in 1 .. Len(w) : v[i] = w[i]
      /\ v[Len(w) + 1] = x /\ v \in Seq(Items)
  BY AppendProperties
<1>4. /\ Len(q) = Len(p) + 1 /\ \A i \in 1 .. Len(p) : q[i] = p[i]
      /\ q[Len(p) + 1] = x
  BY AppendProperties
<1> HIDE DEF v, q
<1>5. Len(v) - Len(q) - Len(b) = k
  BY <1>2, <1>3, <1>4
<1>6. ASSUME NEW i \in 1 .. Len(b) PROVE b[i] = v[k + i]
  <2>1. k + i \in 1 .. Len(w)
    BY <1>1, <1>2
  <2> QED  BY <1>1, <1>3, <2>1
<1>7. ASSUME NEW i \in 1 .. Len(q) PROVE q[i] = v[k + Len(b) + i]
  <2>1. CASE i \in 1 .. Len(p)
    <3>1. k + Len(b) + i \in 1 .. Len(w)
      BY <1>1, <1>2, <2>1
    <3> QED  BY <1>1, <1>3, <1>4, <2>1, <3>1
  <2>2. CASE i = Len(p) + 1
    <3>1. k + Len(b) + i = Len(w) + 1
      BY <1>2, <2>2
    <3> QED  BY <1>3, <1>4, <2>2, <3>1
  <2> QED  BY <1>2, <1>4, <2>1, <2>2
<1>8. Ordered(v, q, b)
  BY <1>1, <1>5, <1>6, <1>7 DEF Ordered
<1>9. SubSeq(v, 1, k) = SubSeq(w, 1, k)
  BY <1>1, <1>2, <1>3
<1> QED  BY <1>2, <1>5, <1>8, <1>9 DEF Front, v, q

(* The logger reads n bytes. *)
LEMMA OrderedFill ==
  ASSUME NEW w \in Seq(Items), NEW p \in Seq(Items), NEW b \in Seq(Items), Ordered(w, p, b),
         NEW n \in 0 .. Len(p)
  PROVE  LET q == SubSeq(p, n + 1, Len(p))  c == b \o SubSeq(p, 1, n) IN
         /\ q \in Seq(Items) /\ c \in Seq(Items) /\ Len(c) = Len(b) + n
         /\ Ordered(w, q, c) /\ Front(w, q, c) = Front(w, p, b)
<1> DEFINE q == SubSeq(p, n + 1, Len(p))  r == SubSeq(p, 1, n)  c == b \o r
           k == Len(w) - Len(p) - Len(b)
<1>1. /\ k \in Nat /\ \A i \in 1 .. Len(b) : b[i] = w[k + i]
      /\ \A i \in 1 .. Len(p) : p[i] = w[k + Len(b) + i]
  BY DEF Ordered
<1>2. Len(w) \in Nat /\ Len(p) \in Nat /\ Len(b) \in Nat /\ k = Len(w) - Len(p) - Len(b)
  BY LenProperties
<1> HIDE DEF k
<1>3. q \in Seq(Items) /\ Len(q) = Len(p) - n /\ \A i \in 1 .. Len(p) - n : q[i] = p[n + i]
  BY <1>2
<1>4. r \in Seq(Items) /\ Len(r) = n /\ \A i \in 1 .. n : r[i] = p[i]
  BY <1>2
<1> HIDE DEF q, r
<1>5. /\ c \in Seq(Items) /\ Len(c) = Len(b) + n
      /\ \A i \in 1 .. Len(b) + n : c[i] = IF i <= Len(b) THEN b[i] ELSE r[i - Len(b)]
  BY <1>4, ConcatProperties
<1> HIDE DEF c
<1>6. Len(w) - Len(q) - Len(c) = k
  BY <1>2, <1>3, <1>5
<1>7. ASSUME NEW i \in 1 .. Len(c) PROVE c[i] = w[k + i]
  <2>1. CASE i <= Len(b)
    BY <1>1, <1>2, <1>5, <2>1
  <2>2. CASE ~(i <= Len(b))
    <3> DEFINE j == i - Len(b)
    <3>1. j \in 1 .. n /\ j \in 1 .. Len(p) /\ k + Len(b) + j = k + i
      BY <1>1, <1>2, <1>5, <2>2
    <3>2. c[i] = r[j]
      BY <1>5, <2>2
    <3> HIDE DEF j
    <3> QED  BY <1>1, <1>4, <3>1, <3>2
  <2> QED  BY <2>1, <2>2
<1>8. ASSUME NEW i \in 1 .. Len(q) PROVE q[i] = w[k + Len(c) + i]
  <2>1. n + i \in 1 .. Len(p) /\ k + Len(b) + (n + i) = k + Len(c) + i
    BY <1>1, <1>2, <1>3, <1>5
  <2> QED  BY <1>1, <1>3, <2>1
<1>9. Ordered(w, q, c)
  BY <1>1, <1>6, <1>7, <1>8 DEF Ordered
<1>10. Front(w, q, c) = Front(w, p, b)
  BY <1>2, <1>6 DEF Front
<1> QED  BY <1>3, <1>5, <1>9, <1>10 DEF q, r, c

(* A read fails: the error comes before what is in the pipe. *)
LEMMA OrderedFail ==
  ASSUME NEW w \in Seq(Items), NEW p \in Seq(Items), NEW b \in Seq(Items), Ordered(w, p, b)
  PROVE  LET v == Append(SubSeq(w, 1, Len(w) - Len(p)), "err") \o p  c == Append(b, "err") IN
         /\ c \in Seq(Items) /\ v \in Seq(Items) /\ Len(c) = Len(b) + 1
         /\ Ordered(v, p, c) /\ Front(v, p, c) = Front(w, p, b)
<1> DEFINE m == Len(w) - Len(p)  f == SubSeq(w, 1, m)  g == Append(f, "err")  v == g \o p
           c == Append(b, "err")  k == Len(w) - Len(p) - Len(b)
<1>1. /\ k \in Nat /\ \A i \in 1 .. Len(b) : b[i] = w[k + i]
      /\ \A i \in 1 .. Len(p) : p[i] = w[k + Len(b) + i]
  BY DEF Ordered
<1>2. Len(w) \in Nat /\ Len(p) \in Nat /\ Len(b) \in Nat /\ k = Len(w) - Len(p) - Len(b)
  BY LenProperties
<1>3. m = k + Len(b) /\ m \in 0 .. Len(w) /\ m \in Nat
  BY <1>1, <1>2
<1> HIDE DEF k, m
<1>4. f \in Seq(Items) /\ Len(f) = m /\ \A i \in 1 .. m : f[i] = w[i]
  BY <1>3, Prefix, Zenon
<1> HIDE DEF f
<1>5. "err" \in Items
  BY DEF Items
<1>6. /\ g \in Seq(Items) /\ Len(g) = m + 1 /\ g[m + 1] = "err"
      /\ \A i \in 1 .. m : g[i] = w[i]
  BY <1>4, <1>5, AppendProperties
<1>7. /\ c \in Seq(Items) /\ Len(c) = Len(b) + 1 /\ c[Len(b) + 1] = "err"
      /\ \A i \in 1 .. Len(b) : c[i] = b[i]
  BY <1>5, AppendProperties
<1> HIDE DEF g, c
<1>8. /\ v \in Seq(Items) /\ Len(v) = m + 1 + Len(p)
      /\ \A i \in 1 .. m + 1 + Len(p) : v[i] = IF i <= m + 1 THEN g[i] ELSE p[i - (m + 1)]
  <2>1. /\ v \in Seq(Items) /\ Len(v) = Len(g) + Len(p)
        /\ \A i \in 1 .. Len(g) + Len(p) : v[i] = IF i <= Len(g) THEN g[i] ELSE p[i - Len(g)]
    BY <1>6, ConcatProperties, Zenon
  <2> HIDE DEF v
  <2> QED  BY <1>6, <2>1, Zenon
<1> HIDE DEF v
<1>9. Len(v) - Len(p) - Len(c) = k
  BY <1>1, <1>2, <1>3, <1>7, <1>8
<1>10. ASSUME NEW i \in 1 .. m PROVE v[i] = w[i]
  <2>1. i \in 1 .. m + 1 + Len(p) /\ i <= m + 1
    BY <1>2, <1>3
  <2>2. v[i] = g[i]
    BY <1>8, <2>1
  <2> QED  BY <1>6, <2>2
<1>11. ASSUME NEW i \in 1 .. Len(c) PROVE c[i] = v[k + i]
  <2>1. CASE i \in 1 .. Len(b)
    <3>1. k + i \in 1 .. m
      BY <1>1, <1>2, <1>3, <2>1
    <3>2. v[k + i] = w[k + i]
      BY <1>10, <3>1
    <3> QED  BY <1>1, <1>7, <2>1, <3>2
  <2>2. CASE i = Len(b) + 1
    <3>1. k + i = m + 1 /\ m + 1 \in 1 .. m + 1 + Len(p) /\ m + 1 <= m + 1
      BY <1>1, <1>2, <1>3, <2>2
    <3>2. v[m + 1] = g[m + 1]
      BY <1>8, <3>1
    <3> QED  BY <1>6, <1>7, <2>2, <3>1, <3>2
  <2> QED  BY <1>2, <1>7, <2>1, <2>2
<1>12. ASSUME NEW i \in 1 .. Len(p) PROVE p[i] = v[k + Len(c) + i]
  <2> DEFINE j == m + 1 + i
  <2>1. /\ j = k + Len(c) + i /\ j \in 1 .. m + 1 + Len(p)
        /\ ~(j <= m + 1) /\ j - (m + 1) = i
    BY <1>1, <1>2, <1>3, <1>7
  <2> HIDE DEF j
  <2>2. v[j] = p[j - (m + 1)]
    BY <1>8, <2>1
  <2> QED  BY <2>1, <2>2
<1>13. Ordered(v, p, c)
  BY <1>1, <1>9, <1>11, <1>12 DEF Ordered
<1>14. SubSeq(v, 1, k) = SubSeq(w, 1, k)
  <2>1. /\ k \in 0 .. Len(w) /\ k \in 0 .. Len(v) /\ 1 .. k \subseteq 1 .. m
    BY <1>1, <1>2, <1>3, <1>8
  <2> DEFINE x == SubSeq(v, 1, k)  y == SubSeq(w, 1, k)
  <2>2. /\ x \in Seq(Items) /\ Len(x) = k /\ \A i \in 1 .. k : x[i] = v[i]
        /\ y \in Seq(Items) /\ Len(y) = k /\ \A i \in 1 .. k : y[i] = w[i]
    BY <1>8, <2>1, Prefix, Zenon
  <2> HIDE DEF x, y
  <2>3. \A i \in 1 .. k : x[i] = y[i]
    BY <1>10, <2>1, <2>2, Zenon
  <2>4. x = y
    BY <2>2, <2>3, SeqEqual
  <2> QED  BY <2>4 DEF x, y
<1>15. Front(v, p, c) = Front(w, p, b)
  BY <1>2, <1>9, <1>14 DEF Front
<1> QED  BY <1>7, <1>8, <1>13, <1>15 DEF v, c, g, f, m

(* The logger takes n bytes from its buffer. *)
LEMMA OrderedTake ==
  ASSUME NEW w \in Seq(Items), NEW p \in Seq(Items), NEW b \in Seq(Items), Ordered(w, p, b),
         NEW n \in 1 .. Len(b)
  PROVE  LET c == SubSeq(b, n + 1, Len(b)) IN
         /\ c \in Seq(Items) /\ Len(c) = Len(b) - n
         /\ Ordered(w, p, c) /\ Front(w, p, c) = Front(w, p, b) \o SubSeq(b, 1, n)
<1> DEFINE c == SubSeq(b, n + 1, Len(b))  r == SubSeq(b, 1, n)
           k == Len(w) - Len(p) - Len(b)
<1>1. /\ k \in Nat /\ \A i \in 1 .. Len(b) : b[i] = w[k + i]
      /\ \A i \in 1 .. Len(p) : p[i] = w[k + Len(b) + i]
  BY DEF Ordered
<1>2. Len(w) \in Nat /\ Len(p) \in Nat /\ Len(b) \in Nat /\ k = Len(w) - Len(p) - Len(b)
  BY LenProperties
<1> HIDE DEF k
<1>3. c \in Seq(Items) /\ Len(c) = Len(b) - n /\ \A i \in 1 .. Len(b) - n : c[i] = b[n + i]
  BY <1>2
<1>4. r \in Seq(Items) /\ Len(r) = n /\ \A i \in 1 .. n : r[i] = b[i]
  BY <1>2
<1> HIDE DEF c, r
<1>5. Len(w) - Len(p) - Len(c) = k + n
  BY <1>2, <1>3
<1>6. ASSUME NEW i \in 1 .. Len(c) PROVE c[i] = w[k + n + i]
  <2>1. n + i \in 1 .. Len(b) /\ k + (n + i) = k + n + i
    BY <1>1, <1>2, <1>3
  <2> QED  BY <1>1, <1>3, <2>1
<1>7. ASSUME NEW i \in 1 .. Len(p) PROVE p[i] = w[k + n + Len(c) + i]
  <2>1. k + Len(b) + i = k + n + Len(c) + i
    BY <1>1, <1>2, <1>3
  <2> QED  BY <1>1, <2>1
<1>8. Ordered(w, p, c)
  <2> DEFINE m == k + n
  <2>1. m \in Nat /\ m = Len(w) - Len(p) - Len(c)
    BY <1>1, <1>2, <1>5
  <2>2. \A i \in 1 .. Len(c) : c[i] = w[m + i]
    BY <1>6
  <2>3. \A i \in 1 .. Len(p) : p[i] = w[m + Len(c) + i]
    BY <1>7
  <2> HIDE DEF m
  <2> QED  BY <2>1, <2>2, <2>3 DEF Ordered
<1>9. SubSeq(w, 1, k + n) = SubSeq(w, 1, k) \o r
  <2> DEFINE f == SubSeq(w, 1, k)  g == SubSeq(w, 1, k + n)
  <2>1. f \in Seq(Items) /\ Len(f) = k /\ \A i \in 1 .. k : f[i] = w[i]
    <3>1. k \in 0 .. Len(w)
      BY <1>1, <1>2
    <3> QED  BY <3>1, Prefix, Zenon
  <2>2. g \in Seq(Items) /\ Len(g) = k + n /\ \A i \in 1 .. k + n : g[i] = w[i]
    <3>1. k + n \in 0 .. Len(w)
      BY <1>1, <1>2
    <3> QED  BY <3>1, Prefix, Zenon
  <2> HIDE DEF f, g
  <2> DEFINE h == f \o r
  <2>3. /\ h \in Seq(Items) /\ Len(h) = k + n
        /\ \A i \in 1 .. k + n : h[i] = IF i <= k THEN f[i] ELSE r[i - k]
    <3>1. /\ h \in Seq(Items) /\ Len(h) = Len(f) + Len(r)
          /\ \A i \in 1 .. Len(f) + Len(r) : h[i] = IF i <= Len(f) THEN f[i] ELSE r[i - Len(f)]
      BY <1>4, <2>1, ConcatProperties, Zenon
    <3> QED  BY <1>4, <2>1, <3>1, Zenon
  <2> HIDE DEF h
  <2>4. ASSUME NEW i \in 1 .. k + n PROVE g[i] = h[i]
    <3>1. CASE i <= k
      <4>1. i \in 1 .. k
        BY <1>1, <3>1
      <4>2. h[i] = f[i]
        BY <2>3, <3>1, Zenon
      <4> QED  BY <2>1, <2>2, <4>1, <4>2, Zenon
    <3>2. CASE ~(i <= k)
      <4> DEFINE j == i - k
      <4>1. j \in 1 .. n /\ j \in 1 .. Len(b) /\ k + j = i
        BY <1>1, <1>2, <3>2
      <4>2. h[i] = r[j]
        BY <2>3, <3>2
      <4> HIDE DEF j
      <4> QED  BY <1>1, <1>4, <2>2, <4>1, <4>2
    <3> QED  BY <3>1, <3>2
  <2>5. g = h
    BY <2>2, <2>3, <2>4, SeqEqual
  <2> QED  BY <2>5 DEF f, g, h
<1>10. Front(w, p, c) = Front(w, p, b) \o r
  BY <1>2, <1>5, <1>9 DEF Front
<1> QED  BY <1>3, <1>8, <1>10 DEF c, r

-----------------------------------------------------------------------------
LogTypes ==
  /\ pipe \in [Streams -> Seq(Items)] /\ buf \in [Streams -> Seq(Items)]
  /\ input \in [Streams -> Seq(Items)]
  /\ log \in Seq([stream : Streams, line : Seq(Items)])

(* Nothing more will come. *)
Drained(s) == buf[s] = <<>> /\ pipe[s] = <<>> /\ s \in hungup

(* What has been taken ends with a record, so that the next one is what       *)
(* RecordsOf says; the last may be cut short, and then nothing follows it.    *)
StreamLogged(s) ==
  /\ Len(buf[s]) <= BufSize /\ Ordered(input[s], pipe[s], buf[s])
  /\ Whole(Logged(s)) \/ Drained(s)
  /\ s \in ended => Drained(s) \/ Failed(s)
  /\ s \notin gaps => Has(log, s, RecordsOf[Logged(s)])

LogInv == LogTypes /\ \A s \in Streams : StreamLogged(s)

LEMMA LoggedIs == \A s : Logged(s) = Front(input[s], pipe[s], buf[s])
BY DEF Logged, Passed, Front

LEMMA StreamTypes ==
  ASSUME LogTypes, NEW s \in Streams
  PROVE  input[s] \in Seq(Items) /\ pipe[s] \in Seq(Items) /\ buf[s] \in Seq(Items)
BY DEF LogTypes

(* What a step leaves alone. *)
LEMMA LogFrame ==
  ASSUME LogInv, NEW r \in Streams,
         input'[r] = input[r], pipe'[r] = pipe[r], buf'[r] = buf[r],
         r \in hungup => r \in hungup',
         r \in ended' => r \in ended, r \notin gaps' => r \notin gaps,
         \/ log' = log
         \/ \E e \in [stream : Streams, line : Seq(Items)] : e.stream # r /\ log' = Append(log, e)
  PROVE  StreamLogged(r)'
<1>1. StreamLogged(r) /\ LogTypes
  BY DEF LogInv
<1>2. Logged(r)' = Logged(r)
  BY DEF Logged, Passed
<1>3. (Drained(r) => Drained(r)') /\ (Failed(r) => Failed(r)')
  BY DEF Drained, Failed
<1>4. Len(buf'[r]) <= BufSize /\ Ordered(input'[r], pipe'[r], buf'[r])
  BY <1>1, Zenon DEF StreamLogged
<1>5. Whole(Logged(r)') \/ Drained(r)'
  BY <1>1, <1>2, <1>3, Zenon DEF StreamLogged
<1>6. r \in ended' => Drained(r)' \/ Failed(r)'
  BY <1>1, <1>3, Zenon DEF StreamLogged
<1>7. ASSUME r \notin gaps' PROVE Has(log', r, RecordsOf[Logged(r)'])
  <2> DEFINE lines == RecordsOf[Logged(r)]
  <2>1. Has(log, r, lines)
    BY <1>1, <1>7, Zenon DEF StreamLogged
  <2>2. CASE log' = log
    BY <1>2, <2>1, <2>2, Zenon
  <2>3. CASE \E e \in [stream : Streams, line : Seq(Items)] : e.stream # r /\ log' = Append(log, e)
    <3>1. PICK e \in [stream : Streams, line : Seq(Items)] : e.stream # r /\ log' = Append(log, e)
      BY <2>3
    <3>2. Logged(r) \in Seq(Items)
      BY <1>1, StreamTypes, FrontFacts, LoggedIs, Zenon DEF StreamLogged
    <3>3. lines \in Seq(Seq(Items)) /\ e.line \in Seq(Items)
      BY <3>2, RecordsType
    <3>4. log \in Seq([stream : Streams, line : Seq(Items)])
      BY <1>1 DEF LogTypes
    <3> DEFINE R == [stream : Streams, line : Seq(Items)]
    <3>5. log \in Seq(R) /\ e \in R
      BY <3>4
    <3> HIDE DEF lines, R
    <3>6. Has(Append(log, e), r, lines)
      BY <2>1, <3>1, <3>3, <3>5, HasAppend, Zenon
    <3> QED  BY <1>2, <3>1, <3>6, Zenon DEF lines
  <2> QED  BY <2>2, <2>3
<1> QED  BY <1>4, <1>5, <1>6, <1>7 DEF StreamLogged

LEMMA WritesLogged ==
  ASSUME LogInv, NEW s \in Streams, ContainerWrites(s)
  PROVE  LogInv'
<1>1. LogTypes /\ StreamLogged(s)
  BY DEF LogInv
<1>2. PICK x \in Items : /\ pipe' = [pipe EXCEPT ![s] = Append(@, x)]
                         /\ input' = [input EXCEPT ![s] = Append(@, x)]
  BY DEF ContainerWrites, Items
<1>3. s \notin hungup /\ UNCHANGED <<hungup, buf, ended, log, gaps, faults>>
  BY DEF ContainerWrites
<1>4. pipe'[s] = Append(pipe[s], x) /\ input'[s] = Append(input[s], x)
  BY <1>1, <1>2 DEF LogTypes
<1>5. \A r \in Streams : r # s => pipe'[r] = pipe[r] /\ input'[r] = input[r]
  BY <1>1, <1>2 DEF LogTypes
<1>6. LogTypes'
  <2>1. Append(pipe[s], x) \in Seq(Items) /\ Append(input[s], x) \in Seq(Items)
    BY <1>1, StreamTypes
  <2> QED  BY <1>1, <1>2, <1>3, <2>1 DEF LogTypes
<1>7. StreamLogged(s)'
  <2>1. Ordered(input[s], pipe[s], buf[s]) /\ Len(buf[s]) <= BufSize
    BY <1>1 DEF StreamLogged
  <2>2. Ordered(input'[s], pipe'[s], buf'[s]) /\ Front(input'[s], pipe'[s], buf'[s]) = Front(input[s], pipe[s], buf[s])
    <3>1. input[s] \in Seq(Items) /\ pipe[s] \in Seq(Items) /\ buf[s] \in Seq(Items)
      BY <1>1, StreamTypes
    <3>2. /\ Ordered(Append(input[s], x), Append(pipe[s], x), buf[s])
          /\ Front(Append(input[s], x), Append(pipe[s], x), buf[s]) = Front(input[s], pipe[s], buf[s])
      BY <2>1, <3>1, OrderedWrite, Zenon
    <3>3. buf'[s] = buf[s]
      BY <1>3
    <3> QED  BY <1>4, <3>2, <3>3, Zenon
  <2>3. Logged(s)' = Logged(s)
    BY <2>2 DEF Logged, Passed, Front
  <2>4. ~Drained(s) /\ (Failed(s) => Failed(s)')
    BY <1>3 DEF Drained, Failed
  <2> QED  BY <1>1, <1>3, <2>1, <2>2, <2>3, <2>4 DEF StreamLogged
<1>8. ASSUME NEW r \in Streams, r # s PROVE StreamLogged(r)'
  BY <1>3, <1>5, <1>8, LogFrame
<1> QED  BY <1>6, <1>7, <1>8 DEF LogInv

LEMMA ClosesLogged ==
  ASSUME LogInv, NEW s \in Streams, ContainerCloses(s)
  PROVE  LogInv'
<1>1. hungup' = hungup \cup {s} /\ UNCHANGED <<pipe, buf, ended, log, input, gaps, faults>>
  BY DEF ContainerCloses
<1>2. LogTypes'
  BY <1>1 DEF LogInv, LogTypes
<1>3. ASSUME NEW r \in Streams PROVE StreamLogged(r)'
  BY <1>1, LogFrame
<1> QED  BY <1>2, <1>3 DEF LogInv

LEMMA LeastFacts ==
  ASSUME NEW x \in Nat, NEW y \in Nat, NEW z \in Nat, y <= z
  PROVE  Least(x, z - y) \in 0 .. x /\ y + Least(x, z - y) <= z
BY DEF Least

LEMMA FillLogged ==
  ASSUME LogInv, NEW s \in Streams, FillBuffer(s)
  PROVE  LogInv'
<1>1. LogTypes /\ StreamLogged(s)
  BY DEF LogInv
<1>2. s \notin ended /\ ~LineReady(s) /\ ~Failed(s) /\ pipe[s] # <<>> /\ UNCHANGED <<hungup, ended, log, gaps>>
  BY DEF FillBuffer
<1>3. input[s] \in Seq(Items) /\ pipe[s] \in Seq(Items) /\ buf[s] \in Seq(Items)
  BY <1>1, StreamTypes
<1>4. CASE /\ buf' = [buf EXCEPT ![s] = Append(@, "err")]
           /\ input' = [input EXCEPT ![s] = Append(SubSeq(@, 1, Len(@) - Len(pipe[s])), "err") \o pipe[s]]
           /\ pipe' = pipe
  <2> DEFINE c == Append(buf[s], "err")
             v == Append(SubSeq(input[s], 1, Len(input[s]) - Len(pipe[s])), "err") \o pipe[s]
  <2>1. buf' = [buf EXCEPT ![s] = c] /\ input' = [input EXCEPT ![s] = v] /\ pipe' = pipe
    BY <1>4
  <2>2. Len(buf[s]) \in Nat /\ BufSize \in Nat
    BY <1>3, LogAssumption, LenProperties
  <2>3. Len(buf[s]) <= BufSize /\ Ordered(input[s], pipe[s], buf[s])
    BY <1>1 DEF StreamLogged
  <2>4. Len(buf[s]) # BufSize
    BY <1>2 DEF LineReady
  <2>5. /\ c \in Seq(Items) /\ v \in Seq(Items) /\ Len(c) = Len(buf[s]) + 1
        /\ Ordered(v, pipe[s], c) /\ Front(v, pipe[s], c) = Front(input[s], pipe[s], buf[s])
    BY <1>3, <2>3, OrderedFail, Zenon
  <2> HIDE DEF c, v
  <2>6. buf'[s] = c /\ input'[s] = v /\ pipe'[s] = pipe[s]
    BY <1>1, <2>1 DEF LogTypes
  <2>7. \A r \in Streams : r # s => buf'[r] = buf[r] /\ input'[r] = input[r]
    BY <1>1, <2>1 DEF LogTypes
  <2>8. LogTypes'
    BY <1>1, <1>2, <2>1, <2>5 DEF LogTypes
  <2>9. StreamLogged(s)'
    <3>1. Len(buf'[s]) <= BufSize /\ Ordered(input'[s], pipe'[s], buf'[s])
      BY <2>2, <2>3, <2>4, <2>5, <2>6
    <3>2. Logged(s)' = Logged(s)
      BY <2>5, <2>6 DEF Logged, Passed, Front
    <3>3. ~Drained(s)
      BY <1>2 DEF Drained
    <3>4. Whole(Logged(s)')
      BY <1>1, <3>2, <3>3, Zenon DEF StreamLogged
    <3>5. s \notin gaps' => Has(log', s, RecordsOf[Logged(s)'])
      BY <1>1, <1>2, <3>2 DEF StreamLogged
    <3> QED  BY <1>2, <3>1, <3>4, <3>5 DEF StreamLogged
  <2>10. ASSUME NEW r \in Streams, r # s PROVE StreamLogged(r)'
    BY <1>2, <2>1, <2>7, <2>10, LogFrame
  <2> QED  BY <2>8, <2>9, <2>10 DEF LogInv
<1>5. CASE LET n == Least(Len(pipe[s]), BufSize - Len(buf[s])) IN
           /\ buf' = [buf EXCEPT ![s] = @ \o SubSeq(pipe[s], 1, n)]
           /\ pipe' = [pipe EXCEPT ![s] = SubSeq(@, n + 1, Len(@))]
           /\ UNCHANGED <<input, faults>>
  <2> DEFINE n == Least(Len(pipe[s]), BufSize - Len(buf[s]))
             q == SubSeq(pipe[s], n + 1, Len(pipe[s]))  c == buf[s] \o SubSeq(pipe[s], 1, n)
  <2>1. buf' = [buf EXCEPT ![s] = c] /\ pipe' = [pipe EXCEPT ![s] = q] /\ input' = input
    BY <1>5
  <2>2. Len(pipe[s]) \in Nat /\ Len(buf[s]) \in Nat /\ BufSize \in Nat
    BY <1>3, LogAssumption, LenProperties
  <2>3. Len(buf[s]) <= BufSize /\ Ordered(input[s], pipe[s], buf[s])
    BY <1>1 DEF StreamLogged
  <2>4. n \in 0 .. Len(pipe[s]) /\ Len(buf[s]) + n <= BufSize
    BY <2>2, <2>3, LeastFacts, Zenon
  <2> HIDE DEF n
  <2>5. /\ q \in Seq(Items) /\ c \in Seq(Items) /\ Len(c) = Len(buf[s]) + n
        /\ Ordered(input[s], q, c) /\ Front(input[s], q, c) = Front(input[s], pipe[s], buf[s])
    BY <1>3, <2>3, <2>4, OrderedFill, Zenon
  <2> HIDE DEF q, c
  <2>6. buf'[s] = c /\ pipe'[s] = q /\ input'[s] = input[s]
    BY <1>1, <2>1 DEF LogTypes
  <2>7. \A r \in Streams : r # s => buf'[r] = buf[r] /\ pipe'[r] = pipe[r]
    BY <1>1, <2>1 DEF LogTypes
  <2>8. LogTypes'
    BY <1>1, <1>2, <2>1, <2>5 DEF LogTypes
  <2>9. StreamLogged(s)'
    <3>1. Len(buf'[s]) <= BufSize /\ Ordered(input'[s], pipe'[s], buf'[s])
      BY <2>4, <2>5, <2>6
    <3>2. Logged(s)' = Logged(s)
      BY <2>5, <2>6 DEF Logged, Passed, Front
    <3>3. ~Drained(s)
      BY <1>2 DEF Drained
    <3>4. Whole(Logged(s)')
      BY <1>1, <3>2, <3>3, Zenon DEF StreamLogged
    <3>5. s \notin gaps' => Has(log', s, RecordsOf[Logged(s)'])
      BY <1>1, <1>2, <3>2 DEF StreamLogged
    <3> QED  BY <1>2, <3>1, <3>4, <3>5 DEF StreamLogged
  <2>10. ASSUME NEW r \in Streams, r # s PROVE StreamLogged(r)'
    BY <1>2, <2>1, <2>7, <2>10, LogFrame
  <2> QED  BY <2>8, <2>9, <2>10 DEF LogInv
<1> QED  BY <1>4, <1>5 DEF FillBuffer

LEMMA RecordLogged ==
  ASSUME LogInv, NEW s \in Streams, WriteRecord(s)
  PROVE  LogInv'
<1> DEFINE b == buf[s]  n == Taken(b)  c == SubSeq(b, n + 1, Len(b))  chunk == SubSeq(b, 1, n)
           e == [stream |-> s, line |-> Line(b)]  t == Logged(s)
<1>1. LogTypes /\ StreamLogged(s)
  BY DEF LogInv
<1>2. /\ s \notin ended /\ LineReady(s) /\ buf' = [buf EXCEPT ![s] = c]
      /\ UNCHANGED <<pipe, hungup, ended, input>>
  BY DEF WriteRecord
<1>3. (log' = Append(log, e) /\ gaps' = gaps) \/ (log' = log /\ gaps' = gaps \cup {s})
  BY DEF WriteRecord
<1>4. input[s] \in Seq(Items) /\ pipe[s] \in Seq(Items) /\ b \in Seq(Items)
  BY <1>1, StreamTypes
<1>5. b # <<>> /\ Len(b) <= BufSize /\ Ordered(input[s], pipe[s], b)
  <2>1. Len(<<>>) = 0 /\ BufSize # 0
    BY LogAssumption
  <2>2. b = <<>> => ~HasStop(b)
    BY DEF HasStop
  <2>3. b # <<>>
    BY <1>2, <2>1, <2>2 DEF LineReady
  <2> QED  BY <1>1, <2>3 DEF StreamLogged
<1>6. Whole(t)
  BY <1>1, <1>5 DEF StreamLogged, Drained
<1>7. t = Front(input[s], pipe[s], b) /\ t \in Seq(Items)
  BY <1>4, <1>5, LoggedIs, FrontFacts, Zenon
<1>8. n \in 1 .. Len(b)
  BY <1>4, <1>5, TakenFacts, Zenon
<1>9. /\ chunk \in Seq(Items) /\ Line(b) \in Seq(Items)
      /\ RecordsOf[t \o chunk] = Append(RecordsOf[t], Line(b))
      /\ HasStop(b) \/ Len(b) = BufSize => Whole(t \o chunk)
  BY <1>4, <1>5, <1>6, <1>7, NextRecord, Zenon
<1>10. /\ c \in Seq(Items) /\ Len(c) = Len(b) - n
       /\ Ordered(input[s], pipe[s], c)
       /\ Front(input[s], pipe[s], c) = Front(input[s], pipe[s], b) \o chunk
  BY <1>4, <1>5, <1>8, OrderedTake, Zenon
<1>11. ~HasStop(b) => n = Len(b)
  BY <1>4, <1>5, TakenFacts, Zenon
<1>12. ~HasStop(b) /\ Len(b) # BufSize => pipe[s] = <<>> /\ s \in hungup
  BY <1>2 DEF LineReady, AtEnd
<1>13. e \in [stream : Streams, line : Seq(Items)] /\ e.stream = s /\ e.line = Line(b)
  BY <1>9
<1>14. t = Logged(s) /\ b = buf[s]
  OBVIOUS
<1> HIDE DEF b, n, c, chunk, e, t
<1>15. buf'[s] = c /\ pipe'[s] = pipe[s] /\ input'[s] = input[s]
  BY <1>1, <1>2 DEF LogTypes
<1>16. LogTypes'
  <2>1. log' \in Seq([stream : Streams, line : Seq(Items)])
    <3> DEFINE R == [stream : Streams, line : Seq(Items)]
    <3>1. log \in Seq(R) /\ e \in R
      BY <1>1, <1>13 DEF LogTypes
    <3> HIDE DEF R
    <3>2. Append(log, e) \in Seq(R)
      BY <3>1
    <3> QED  BY <1>3, <3>1, <3>2 DEF R
  <2> QED  BY <1>1, <1>2, <1>10, <2>1 DEF LogTypes
<1>17. StreamLogged(s)'
  <2>1. Len(buf'[s]) <= BufSize /\ Ordered(input'[s], pipe'[s], buf'[s])
    <3>1. Len(b) \in Nat /\ BufSize \in Nat
      BY <1>4, LogAssumption, LenProperties
    <3>2. Len(c) <= BufSize
      BY <1>5, <1>8, <1>10, <3>1
    <3> QED  BY <1>10, <1>15, <3>2
  <2>2. Logged(s)' = t \o chunk
    <3>1. Logged(s)' = Front(input'[s], pipe'[s], buf'[s])
      BY DEF Logged, Passed, Front
    <3> QED  BY <1>7, <1>10, <1>15, <3>1, Zenon
  <2>3. Whole(Logged(s)') \/ Drained(s)'
    <3>1. CASE HasStop(b) \/ Len(b) = BufSize
      BY <1>9, <2>2, <3>1, Zenon
    <3>2. CASE ~HasStop(b) /\ Len(b) # BufSize
      <4>1. pipe[s] = <<>> /\ s \in hungup /\ n = Len(b)
        BY <1>11, <1>12, <3>2
      <4>2. pipe'[s] = <<>> /\ s \in hungup'
        BY <1>2, <4>1
      <4>3. Len(b) \in Nat
        BY <1>4, LenProperties
      <4>4. c = <<>>
        BY <1>10, <4>1, <4>3, EmptySeq
      <4> QED  BY <1>15, <4>2, <4>4 DEF Drained
    <3> QED  BY <3>1, <3>2
  <2>4. ASSUME s \notin gaps' PROVE Has(log', s, RecordsOf[Logged(s)'])
    <3> DEFINE lines == RecordsOf[t]  R == [stream : Streams, line : Seq(Items)]
    <3>1. s \notin gaps /\ log' = Append(log, e)
      BY <1>3, <2>4
    <3>2. Has(log, s, lines)
      BY <1>1, <1>14, <3>1, Zenon DEF StreamLogged
    <3>3. lines \in Seq(Seq(Items)) /\ e.line \in Seq(Items)
      BY <1>7, <1>9, <1>13, RecordsType
    <3>4. log \in Seq(R) /\ e \in R
      BY <1>1, <1>13 DEF LogTypes
    <3>5. RecordsOf[Logged(s)'] = Append(lines, e.line)
      BY <1>9, <1>13, <2>2
    <3> HIDE DEF lines, R
    <3>6. Has(Append(log, e), s, Append(lines, e.line))
      BY <1>13, <3>2, <3>3, <3>4, HasAppend, Zenon
    <3> QED  BY <3>1, <3>5, <3>6, Zenon
  <2> QED  BY <1>2, <2>1, <2>3, <2>4 DEF StreamLogged
<1>18. ASSUME NEW r \in Streams, r # s PROVE StreamLogged(r)'
  <2>1. buf'[r] = buf[r]
    BY <1>1, <1>2, <1>18 DEF LogTypes
  <2>2. log' = log \/ \E d \in [stream : Streams, line : Seq(Items)] : d.stream # r /\ log' = Append(log, d)
    BY <1>3, <1>13, <1>18, Zenon
  <2>3. r \notin gaps' => r \notin gaps
    BY <1>3
  <2> QED  BY <1>2, <2>1, <2>2, <2>3, LogFrame
<1> QED  BY <1>16, <1>17, <1>18 DEF LogInv

LEMMA ReturnsLogged ==
  ASSUME LogInv, NEW s \in Streams, LoggerReturns(s)
  PROVE  LogInv'
<1>1. /\ ~LineReady(s) /\ AtEnd(s) /\ ended' = ended \cup {s}
      /\ UNCHANGED <<pipe, hungup, buf, log, input, gaps, faults>>
  BY DEF LoggerReturns
<1>2. LogTypes'
  BY <1>1 DEF LogInv, LogTypes
<1>3. StreamLogged(s)'
  <2>1. Drained(s) \/ Failed(s)
    BY <1>1 DEF Drained, LineReady, AtEnd
  <2>2. /\ Logged(s)' = Logged(s)
        /\ Drained(s)' <=> Drained(s)
        /\ Failed(s)' <=> Failed(s)
    BY <1>1 DEF Drained, Failed, Logged, Passed
  <2> QED  BY <1>1, <2>1, <2>2 DEF LogInv, StreamLogged
<1>4. ASSUME NEW r \in Streams, r # s PROVE StreamLogged(r)'
  BY <1>1, <1>4, LogFrame
<1> QED  BY <1>2, <1>3, <1>4 DEF LogInv

LEMMA LogInitially == LogInit => LogInv
<1> SUFFICES ASSUME LogInit PROVE LogInv
  OBVIOUS
<1>1. LogTypes
  BY DEF LogInit, LogTypes
<1>2. ASSUME NEW s \in Streams PROVE StreamLogged(s)
  <2>1. input[s] = <<>> /\ pipe[s] = <<>> /\ buf[s] = <<>> /\ ended = {} /\ log = <<>>
    BY DEF LogInit
  <2>2. Len(<<>>) = 0
    OBVIOUS
  <2>3. Len(buf[s]) <= BufSize /\ Ordered(input[s], pipe[s], buf[s])
    BY <2>1, <2>2, LogAssumption DEF Ordered
  <2>4. Logged(s) = <<>>
    BY <1>1, <2>1, <2>3, StreamTypes, FrontFacts, LoggedIs
  <2>5. Has(log, s, <<>>)
    <3>1. Of(s, log, Len(log)) = {}
      BY <2>1 DEF Of
    <3>2. Cardinality({}) = 0
      BY FS_EmptySet
    <3> QED  BY <2>2, <3>1, <3>2 DEF Has
  <2> QED  BY <2>1, <2>3, <2>4, <2>5, EmptyWhole, RecordsUnfold DEF StreamLogged
<1> QED  BY <1>1, <1>2 DEF LogInv

LEMMA LogInvSays == LogInv => LogComplete
<1> SUFFICES ASSUME LogInv, NEW s \in Streams
             PROVE  /\ s \notin gaps => Has(log, s, RecordsOf[Logged(s)])
                    /\ s \in ended => Logged(s) = input[s] \/ Failed(s)
  BY DEF LogComplete
<1>1. LogTypes /\ StreamLogged(s)
  BY DEF LogInv
<1>2. ASSUME s \in ended, ~Failed(s) PROVE Logged(s) = input[s]
  <2>1. buf[s] = <<>> /\ pipe[s] = <<>>
    BY <1>1, <1>2 DEF StreamLogged, Drained
  <2> QED  BY <1>1, <2>1, StreamTypes, FrontFacts, LoggedIs, Zenon DEF StreamLogged
<1> QED  BY <1>1, <1>2 DEF StreamLogged

(* LogComplete of ContainerLog, for all streams, buffers of any size, and any *)
(* output: the log has the lines of each stream in order, whole and once,     *)
(* whatever the reads return and however the two loggers take turns, up to    *)
(* the first write that fails (redirectLogs, logger.go:97-115).               *)
THEOREM LogsComplete == LogSpec => []LogComplete
<1>1. LogInv /\ [LogNext]_logVars => LogInv'
  <2> SUFFICES ASSUME LogInv, [LogNext]_logVars PROVE LogInv'
    OBVIOUS
  <2>1. CASE UNCHANGED logVars
    <3>1. LogTypes'
      BY <2>1 DEF LogInv, LogTypes, logVars
    <3>2. ASSUME NEW r \in Streams PROVE StreamLogged(r)'
      BY <2>1, LogFrame DEF logVars
    <3> QED  BY <3>1, <3>2 DEF LogInv
  <2>2. ASSUME NEW s \in Streams, ContainerWrites(s) \/ ContainerCloses(s) \/ LoggerStep(s)
        PROVE  LogInv'
    BY <2>2, WritesLogged, ClosesLogged, FillLogged, RecordLogged, ReturnsLogged DEF LoggerStep
  <2> QED  BY <2>1, <2>2 DEF LogNext
<1> QED  BY <1>1, LogInitially, LogInvSays, PTL DEF LogSpec
==============================================================================
