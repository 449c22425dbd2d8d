-------------------------- MODULE GpkgAppendProofs --------------------------
(***************************************************************************)
(* What any sequence of appends to one GeoPackage guarantees, for files of *)
(* every size.                                                             *)
(***************************************************************************)
EXTENDS GpkgAppend, FiniteSetTheorems, FunctionTheorems, WellFoundedInduction, TLAPS

TP == INSTANCE TileMergeProofs WITH Pyramids <- {}
PP == INSTANCE MetadataMergeProofs WITH Sides <- {}, RowMaps <- {}

-----------------------------------------------------------------------------
(* Every non-empty set of numbers has a least one: what the inductions     *)
(* below rest on.                                                          *)
Below == {p \in Nat \X Nat : p[1] < p[2]}

(* The numbers are well founded.                                           *)
LEMMA BelowWellFounded == IsWellFoundedOn(Below, Nat)
<1>1. Below = OpToRel(<, Nat)
  BY DEF Below, OpToRel
<1> QED BY <1>1, NatLessThanWellFounded

(* Every non-empty set of numbers has a least one.                         *)
LEMMA LeastNumber ==
  ASSUME NEW T, T \subseteq Nat, T # {}
  PROVE  \E x \in T : \A y \in T : x <= y
<1>1. PICK x \in T : \A y \in T : ~ (<<y, x>> \in Below)
  BY WFMin, BelowWellFounded
<1>2. \A y \in T : <<y, x>> \in Nat \X Nat
  BY <1>1
<1>3. \A y \in T : ~ (y < x)
  BY <1>1, <1>2 DEF Below
<1> QED BY <1>1, <1>3

(* Sorting by id permutes the records and puts them in order.              *)
LEMMA SortedRecords ==
  ASSUME NEW records \in Seq(Pair!Record), IdsDistinct(records)
  PROVE  /\ InIdOrder(records) \in Seq(Pair!Record)
         /\ Pair!Ascending(InIdOrder(records))
         /\ \A k \in DOMAIN InIdOrder(records) :
              \E i \in DOMAIN records : InIdOrder(records)[k] = records[i]
         /\ \A i \in DOMAIN records :
              \E k \in DOMAIN InIdOrder(records) : InIdOrder(records)[k] = records[i]
<1> DEFINE D == DOMAIN records
           smaller(i) == {j \in D : records[j].id < records[i].id}
           before == [i \in D |-> Cardinality(smaller(i))]
           index == [k \in D |-> CHOOSE i \in D : Cardinality(smaller(i)) = k - 1]
<1>1. /\ D = 1..Len(records) /\ Len(records) \in Nat
      /\ \A i \in D : records[i] \in Pair!Record
  OBVIOUS
<1>2. IsFiniteSet(D) /\ Cardinality(D) = Len(records)
  BY <1>1, FS_Interval
<1>3. \A i \in D : records[i].id \in Nat
  BY <1>1 DEF Pair!Record, Pair!Ids
<1>4. ASSUME NEW i \in D
      PROVE  IsFiniteSet(smaller(i)) /\ before[i] \in Nat /\ before[i] < Len(records)
  <2>1. smaller(i) \in SUBSET (D \ {i})
    BY <1>3
  <2>2. IsFiniteSet(D \ {i}) /\ Cardinality(D \ {i}) = Len(records) - 1
    BY <1>2, FS_RemoveElement
  <2>3. IsFiniteSet(smaller(i)) /\ Cardinality(smaller(i)) <= Len(records) - 1
    BY <2>1, <2>2, FS_Subset
  <2>4. Cardinality(smaller(i)) \in Nat
    BY <2>3, FS_CardinalityType
  <2>5. before[i] = Cardinality(smaller(i))
    OBVIOUS
  <2> HIDE DEF smaller, before
  <2> QED BY <1>1, <2>3, <2>4, <2>5
<1>5. ASSUME NEW i \in D, NEW j \in D, records[i].id < records[j].id
      PROVE  before[i] < before[j]
  <2>1. smaller(i) \in SUBSET smaller(j)
    BY <1>3, <1>5
  <2>2. i \in smaller(j) /\ i \notin smaller(i)
    BY <1>3, <1>5
  <2>3. before[i] = Cardinality(smaller(i)) /\ before[j] = Cardinality(smaller(j))
    OBVIOUS
  <2>4. IsFiniteSet(smaller(j)) /\ before[i] \in Nat /\ before[j] \in Nat
    BY <1>4
  <2> HIDE DEF smaller, before
  <2>5. /\ before[i] <= before[j]
        /\ before[j] = before[i] => smaller(j) = smaller(i)
    BY <2>1, <2>3, <2>4, FS_Subset
  <2> QED BY <2>2, <2>4, <2>5
<1>6. InIdOrder(records) = [k \in D |-> records[index[k]]]
  BY DEF InIdOrder
<1>7. \A i \in D : before[i] \in Nat /\ before[i] < Len(records)
  BY <1>4
<1>8. \A i, j \in D : records[i].id < records[j].id => before[i] < before[j]
  BY <1>5
<1>9. \A i \in D : before[i] = Cardinality(smaller(i))
  OBVIOUS
<1>10. D = DOMAIN records
  OBVIOUS
<1> HIDE DEF before, smaller, D
<1>11. ASSUME NEW i \in D, NEW j \in D, before[i] = before[j] PROVE i = j
  <2>1. ~ (records[i].id < records[j].id) /\ ~ (records[j].id < records[i].id)
    BY <1>7, <1>8, <1>11
  <2> QED BY <1>3, <2>1 DEF IdsDistinct, D
<1> DEFINE rank == [i \in D |-> before[i] + 1]
<1>12. rank \in Injection(D, D)
  <2>1. rank \in [D -> D]
    BY <1>1, <1>7
  <2>2. \A i, j \in D : rank[i] = rank[j] => i = j
    BY <1>7, <1>11
  <2> QED BY <2>1, <2>2 DEF Injection, IsInjective
<1>13. ASSUME NEW k \in D PROVE index[k] \in D /\ before[index[k]] = k - 1
  <2>1. rank \in Surjection(D, D)
    BY <1>2, <1>12, FS_Injection
  <2>2. PICK i \in D : rank[i] = k
    BY <2>1 DEF Surjection
  <2>3. Cardinality(smaller(i)) = k - 1
    BY <1>1, <1>7, <1>9, <2>2
  <2>4. index[k] \in D /\ Cardinality(smaller(index[k])) = k - 1
    BY <2>3
  <2> QED BY <1>9, <2>4
<1>14. \A k \in D : index[k] \in D /\ before[index[k]] = k - 1
  BY <1>13
<1> HIDE DEF index
<1>15. InIdOrder(records) \in Seq(Pair!Record) /\ DOMAIN InIdOrder(records) = D
  <2>1. InIdOrder(records) \in [1..Len(records) -> Pair!Record]
    BY <1>1, <1>6, <1>14
  <2> QED BY <1>1, <2>1
<1>16. Pair!Ascending(InIdOrder(records))
  <2>1. ASSUME NEW k \in D, NEW l \in D, k < l
        PROVE  records[index[k]].id < records[index[l]].id
    <3>1. /\ index[k] \in D /\ index[l] \in D
          /\ before[index[k]] < before[index[l]]
      BY <1>1, <1>14, <2>1
    <3>2. ~ (records[index[l]].id < records[index[k]].id)
      BY <1>7, <1>8, <3>1
    <3>3. index[k] # index[l]
      BY <1>7, <3>1
    <3> QED BY <1>3, <3>1, <3>2, <3>3 DEF IdsDistinct, D
  <2> QED BY <1>6, <1>15, <2>1 DEF Pair!Ascending
<1>17. ASSUME NEW i \in D PROVE \E k \in D : index[k] = i
  <2> DEFINE k == before[i] + 1
  <2>1. k \in D /\ k - 1 = before[i]
    BY <1>1, <1>7
  <2> HIDE DEF k
  <2>2. index[k] \in D /\ before[index[k]] = before[i]
    BY <1>14, <2>1
  <2> QED BY <1>11, <2>1, <2>2
<1> HIDE DEF rank
<1>18. \A k \in D : InIdOrder(records)[k] = records[index[k]]
  BY <1>6
<1>19. ASSUME NEW k \in DOMAIN InIdOrder(records)
       PROVE  \E i \in DOMAIN records : InIdOrder(records)[k] = records[i]
  BY <1>14, <1>15, <1>18, <1>10
<1>20. ASSUME NEW i \in DOMAIN records
       PROVE  \E k \in DOMAIN InIdOrder(records) : InIdOrder(records)[k] = records[i]
  <2>1. PICK k \in D : index[k] = i
    BY <1>17, <1>10
  <2> QED BY <1>15, <1>18, <2>1
<1> QED BY <1>15, <1>16, <1>19, <1>20

-----------------------------------------------------------------------------
(* A loop that pushes the images of the numbers to keep: f[n] is what it    *)
(* has after the first n.                                                  *)
Loop(f, last1, keep, image) ==
  f = [n \in 0..last1 |-> IF n = 0 THEN <<>>
                          ELSE IF n \in keep THEN Append(f[n - 1], image[n])
                          ELSE f[n - 1]]

(* The loop is defined for every number of rounds.                         *)
LEMMA LoopExists ==
  ASSUME NEW m \in Nat, NEW keep, NEW image
  PROVE  \E f : Loop(f, m, keep, image)
<1> DEFINE Undefined == {n \in Nat : ~ \E f : Loop(f, n, keep, image)}
<1>1. SUFFICES ASSUME Undefined # {} PROVE FALSE
  OBVIOUS
<1>2. PICK x \in Undefined : \A y \in Undefined : x <= y
  BY <1>1, LeastNumber
<1>3. x # 0
  <2>1. Loop([n \in 0..0 |-> <<>>], 0, keep, image)
    BY DEF Loop
  <2> QED BY <2>1
<1>4. PICK g : Loop(g, x - 1, keep, image)
  <2>1. x - 1 \in Nat /\ ~ (x <= x - 1)
    BY <1>3
  <2>2. x - 1 \notin Undefined
    BY <1>2, <2>1
  <2> QED BY <2>1, <2>2
<1> DEFINE f == [n \in 0..x |-> IF n = x THEN IF x \in keep THEN Append(g[x - 1], image[x])
                                              ELSE g[x - 1]
                                ELSE g[n]]
<1>5. Loop(f, x, keep, image)
  <2>1. x \in Nat /\ x - 1 \in 0..(x - 1) /\ x # 0
    BY <1>3
  <2>2. /\ \A n \in 0..(x - 1) : n \in 0..x /\ n # x /\ f[n] = g[n]
        /\ f[x] = IF x \in keep THEN Append(f[x - 1], image[x]) ELSE f[x - 1]
        /\ f = [n \in 0..x |-> f[n]]
    BY <2>1
  <2> HIDE DEF f
  <2>3. ASSUME NEW n \in 0..(x - 1)
        PROVE  f[n] = IF n = 0 THEN <<>>
                      ELSE IF n \in keep THEN Append(f[n - 1], image[n]) ELSE f[n - 1]
    <3>1. g[n] = IF n = 0 THEN <<>>
                 ELSE IF n \in keep THEN Append(g[n - 1], image[n]) ELSE g[n - 1]
      BY <1>4 DEF Loop
    <3>2. n # 0 => n - 1 \in 0..(x - 1)
      BY <2>1
    <3> QED BY <2>2, <3>1, <3>2
  <2>4. \A n \in 0..x : n = x \/ n \in 0..(x - 1)
    BY <2>1
  <2>5. \A n \in 0..x : f[n] = IF n = 0 THEN <<>>
                      ELSE IF n \in keep THEN Append(f[n - 1], image[n]) ELSE f[n - 1]
    BY <2>1, <2>2, <2>3, <2>4
  <2> QED BY <2>2, <2>5 DEF Loop
<1> QED BY <1>2, <1>5

(* A normalised reference is a reference.                                  *)
LEMMA NormalisedIsReference ==
  ASSUME NEW r \in Pair!Reference, NEW docs
  PROVE  Normalised(r, docs) \in Pair!Reference
BY DEF Normalised, Pair!Reference

(* What a loop has pushed begins with the images of the first p numbers;    *)
(* what stands behind those is the image of a later one.                   *)
Prefixed(s, T, m, keep, image, p) ==
  /\ s \in Seq(T) /\ p <= Len(s)
  /\ Len(s) <= m
  /\ \A n \in 1..p : s[n] = image[n]
  /\ \A i \in DOMAIN s : i > p => \E n \in 1..m : n > p /\ n \in keep /\ s[i] = image[n]

(* That is what it pushes when the first p numbers are to be kept.         *)
LEMMA LoopPrefix ==
  ASSUME NEW m \in Nat, NEW keep, NEW T, NEW image \in [1..m -> T],
         NEW f, Loop(f, m, keep, image), NEW p \in 0..m, \A n \in 1..p : n \in keep
  PROVE  Prefixed(f[m], T, m, keep, image, p)
<1> DEFINE Holds(x) ==
             /\ f[x] \in Seq(T) /\ Len(f[x]) <= x
             /\ x <= p => Len(f[x]) = x
             /\ x > p => p <= Len(f[x])
             /\ \A i \in DOMAIN f[x] : i <= p => f[x][i] = image[i]
             /\ \A i \in DOMAIN f[x] : i > p =>
                  \E n \in 1..x : n > p /\ n \in keep /\ f[x][i] = image[n]
           Bad == {x \in 0..m : ~ Holds(x)}
<1>1. Holds(m)
  <2>1. SUFFICES ASSUME Bad # {} PROVE FALSE
    BY DEF Bad
  <2>2. PICK x \in Bad : \A y \in Bad : x <= y
    <3>1. Bad \subseteq Nat
      OBVIOUS
    <3> HIDE DEF Bad
    <3> QED BY <2>1, <3>1, LeastNumber
  <2>3. ASSUME x = 0 PROVE FALSE
    <3>1. f[0] = <<>>
      BY DEF Loop
    <3>2. Holds(0)
      BY <3>1
    <3> HIDE DEF Holds
    <3> QED BY <2>2, <2>3, <3>2
  <2>4. /\ x \in 0..m /\ x # 0 /\ x \in 1..m /\ x - 1 \in 0..m /\ ~ (x <= x - 1)
        /\ 1..x = 1..(x - 1) \cup {x} /\ x \in Nat /\ p \in Nat
    <3>1. x \in 0..m /\ x # 0
      BY <2>3
    <3> QED BY <3>1
  <2>5. Holds(x - 1)
    <3>1. x - 1 \notin Bad
      BY <2>2, <2>4
    <3> QED BY <2>4, <3>1
  <2>6. f[x] = IF x \in keep THEN Append(f[x - 1], image[x]) ELSE f[x - 1]
    BY <2>4 DEF Loop
  <2> DEFINE s == f[x - 1]
  <2>7. /\ s \in Seq(T) /\ Len(s) \in Nat /\ Len(s) <= x - 1
        /\ x - 1 <= p => Len(s) = x - 1
        /\ x - 1 > p => p <= Len(s)
        /\ \A i \in DOMAIN s : i <= p => s[i] = image[i]
        /\ \A i \in DOMAIN s : i > p =>
             \E n \in 1..(x - 1) : n > p /\ n \in keep /\ s[i] = image[n]
        /\ DOMAIN s = 1..Len(s)
    BY <2>5
  <2>8. f[x] = IF x \in keep THEN Append(s, image[x]) ELSE s
    BY <2>6
  <2> HIDE DEF s
  <2>9. Holds(x)
    <3>1. CASE x \notin keep
      <4>1. f[x] = s /\ x > p
        BY <2>4, <2>8, <3>1
      <4>2. /\ Len(s) <= x /\ ~ (x <= p)
            /\ p <= Len(s)
        BY <2>4, <2>7, <4>1
      <4>3. \A i \in DOMAIN s : i > p => \E n \in 1..x : n > p /\ n \in keep /\ s[i] = image[n]
        BY <2>4, <2>7
      <4> QED BY <2>7, <4>1, <4>2, <4>3
    <3>2. CASE x \in keep
      <4>1. image[x] \in T /\ f[x] = Append(s, image[x])
        BY <2>4, <2>8, <3>2
      <4>2. /\ f[x] \in Seq(T) /\ Len(f[x]) = Len(s) + 1 /\ DOMAIN f[x] = DOMAIN s \cup {Len(s) + 1}
            /\ f[x][Len(s) + 1] = image[x] /\ \A i \in DOMAIN s : f[x][i] = s[i]
        BY <2>7, <4>1
      <4>3. /\ Len(f[x]) <= x
            /\ x <= p => Len(f[x]) = x
            /\ x > p => p <= Len(f[x])
            /\ Len(s) + 1 <= p => x = Len(s) + 1
            /\ Len(s) + 1 > p => x > p
        BY <2>4, <2>7, <4>2
      <4>4. ASSUME NEW i \in DOMAIN f[x], i <= p PROVE f[x][i] = image[i]
        BY <2>7, <4>2, <4>3, <4>4
      <4>5. ASSUME NEW i \in DOMAIN f[x], i > p
            PROVE  \E n \in 1..x : n > p /\ n \in keep /\ f[x][i] = image[n]
        <5>1. CASE i \in DOMAIN s
          <6>1. PICK n \in 1..(x - 1) : n > p /\ n \in keep /\ s[i] = image[n]
            BY <2>7, <4>5, <5>1
          <6> QED BY <2>4, <4>2, <5>1, <6>1
        <5>2. CASE i = Len(s) + 1
          BY <2>4, <3>2, <4>2, <4>3, <4>5, <5>2
        <5> QED BY <4>2, <4>5, <5>1, <5>2
      <4> QED BY <4>2, <4>3, <4>4, <4>5
    <3> QED BY <3>1, <3>2
  <2> HIDE DEF Holds
  <2> QED BY <2>2, <2>9 DEF Bad
<1>2. /\ f[m] \in Seq(T) /\ Len(f[m]) \in Nat /\ DOMAIN f[m] = 1..Len(f[m])
      /\ Len(f[m]) <= m /\ p <= Len(f[m])
  BY <1>1
<1>3. \A n \in 1..p : n \in DOMAIN f[m] /\ n <= p
  <2>1. p \in Nat
    OBVIOUS
  <2> QED BY <1>2, <2>1
<1> HIDE DEF Bad
<1> QED BY <1>1, <1>2, <1>3 DEF Prefixed

-----------------------------------------------------------------------------
(* retained_references runs over the references of a pair once: the numbers *)
(* of those that are valid against the tables being written, and what each *)
(* is written as.                                                          *)
ToKeep(md, layers, k) ==
  {n \in 1..Len(md.refs) : Retainable(md.refs[n], Pair!IdsOf(md.records), layers, k)}

AsWritten(md) == [n \in 1..Len(md.refs) |-> Normalised(md.refs[n], Pair!IdsOf(md.records))]

LEMMA RetainedIsLoop ==
  ASSUME NEW md \in Pair!Metadata, NEW layers, NEW k
  PROVE  /\ md.refs \in Seq(Pair!Reference) /\ Len(md.refs) \in Nat
         /\ DOMAIN md.refs = 1..Len(md.refs)
         /\ Loop(Retained(md, layers, k), Len(md.refs), ToKeep(md, layers, k), AsWritten(md))
         /\ AsWritten(md) \in [1..Len(md.refs) -> Pair!Reference]
<1> DEFINE docs == Pair!IdsOf(md.records)
           m == Len(md.refs)
           keep == {n \in 1..m : Retainable(md.refs[n], docs, layers, k)}
           image == [n \in 1..m |-> Normalised(md.refs[n], docs)]
           kept == Retained(md, layers, k)
<1>1. /\ md.refs \in Seq(Pair!Reference) /\ m \in Nat /\ DOMAIN md.refs = 1..m
      /\ \A n \in 1..m : md.refs[n] \in Pair!Reference
  BY DEF Pair!Metadata
<1>2. \E f : Loop(f, m, keep, image)
  BY <1>1, LoopExists
<1>3. kept = CHOOSE f : f = [n \in 0..m |->
                 IF n = 0 THEN <<>>
                 ELSE IF Retainable(md.refs[n], docs, layers, k)
                      THEN Append(f[n - 1], Normalised(md.refs[n], docs))
                      ELSE f[n - 1]]
  BY DEF Retained
<1>4. ASSUME NEW f
      PROVE  Loop(f, m, keep, image) <=>
               f = [n \in 0..m |->
                 IF n = 0 THEN <<>>
                 ELSE IF Retainable(md.refs[n], docs, layers, k)
                      THEN Append(f[n - 1], Normalised(md.refs[n], docs))
                      ELSE f[n - 1]]
  <2>1. \A n \in 0..m : n # 0 => n \in 1..m
    BY <1>1
  <2>2. \A n \in 1..m : image[n] = Normalised(md.refs[n], docs)
    OBVIOUS
  <2>3. \A n \in 1..m : n \in keep <=> Retainable(md.refs[n], docs, layers, k)
    OBVIOUS
  <2> HIDE DEF keep, image, m, docs
  <2> QED BY <2>1, <2>2, <2>3 DEF Loop
<1>5. Loop(kept, m, keep, image)
  BY <1>2, <1>3, <1>4
<1>6. image \in [1..m -> Pair!Reference]
  BY <1>1, NormalisedIsReference
<1> QED BY <1>1, <1>5, <1>6 DEF ToKeep, AsWritten

(* retained_references keeps the references that are valid against the     *)
(* tables being written, normalised, and no others.                        *)
LEMMA RetainedMembers ==
  ASSUME NEW md \in Pair!Metadata, NEW layers, NEW k
  PROVE  LET kept == RetainedReferences(md, layers, k)
             docs == Pair!IdsOf(md.records)
         IN  /\ kept \in Seq(Pair!Reference)
             /\ \A i \in DOMAIN kept : \E n \in DOMAIN md.refs :
                  /\ Retainable(md.refs[n], docs, layers, k)
                  /\ kept[i] = Normalised(md.refs[n], docs)
             /\ \A n \in DOMAIN md.refs : Retainable(md.refs[n], docs, layers, k) =>
                  \E i \in DOMAIN kept : kept[i] = Normalised(md.refs[n], docs)
<1> DEFINE docs == Pair!IdsOf(md.records)
           m == Len(md.refs)
           keep == {n \in 1..m : Retainable(md.refs[n], docs, layers, k)}
           image == [n \in 1..m |-> Normalised(md.refs[n], docs)]
           kept == Retained(md, layers, k)
<1>1. /\ md.refs \in Seq(Pair!Reference) /\ m \in Nat /\ DOMAIN md.refs = 1..m
      /\ \A n \in 1..m : md.refs[n] \in Pair!Reference
  BY DEF Pair!Metadata
<1>5. Loop(kept, m, keep, image)
  BY RetainedIsLoop DEF ToKeep, AsWritten
<1>6. image \in [1..m -> Pair!Reference]
  BY <1>1, NormalisedIsReference
<1>7. /\ \A n \in 1..m : image[n] = Normalised(md.refs[n], docs)
      /\ \A n \in 1..m : n \in keep <=> Retainable(md.refs[n], docs, layers, k)
  OBVIOUS
<1>8. RetainedReferences(md, layers, k) = kept[m]
  BY DEF RetainedReferences
<1> HIDE DEF keep, image, kept, m, docs
<1>9. /\ kept[m] \in Seq(Pair!Reference)
      /\ \A i \in DOMAIN kept[m] : \E n \in 1..m : n \in keep /\ kept[m][i] = image[n]
      /\ \A n \in 1..m : n \in keep => \E i \in DOMAIN kept[m] : kept[m][i] = image[n]
  <2> DEFINE Holds(x) ==
               /\ kept[x] \in Seq(Pair!Reference)
               /\ \A i \in DOMAIN kept[x] : \E n \in 1..x : n \in keep /\ kept[x][i] = image[n]
               /\ \A n \in 1..x : n \in keep => \E i \in DOMAIN kept[x] : kept[x][i] = image[n]
             Bad == {x \in 0..m : ~ Holds(x)}
  <2>1. SUFFICES ASSUME Bad # {} PROVE FALSE
    <3>1. m \in 0..m
      BY <1>1
    <3> QED BY <2>1, <3>1
  <2>2. PICK x \in Bad : \A y \in Bad : x <= y
    <3>1. Bad \subseteq Nat
      OBVIOUS
    <3> HIDE DEF Bad
    <3> QED BY <2>1, <3>1, LeastNumber
  <2>3. ASSUME x = 0 PROVE FALSE
    <3>1. kept[0] = <<>>
      BY <1>1, <1>5 DEF Loop
    <3>2. Holds(0)
      BY <3>1
    <3> HIDE DEF Holds
    <3> QED BY <2>2, <2>3, <3>2
  <2>4. /\ x \in 0..m /\ x # 0 /\ x \in 1..m /\ x - 1 \in 0..m /\ ~ (x <= x - 1)
        /\ 1..x = 1..(x - 1) \cup {x}
    <3>1. x \in 0..m /\ x # 0
      BY <2>3
    <3> QED BY <1>1, <3>1
  <2>5. Holds(x - 1)
    <3>1. x - 1 \notin Bad
      BY <2>2, <2>4
    <3> QED BY <2>4, <3>1
  <2>6. kept[x] = IF x \in keep THEN Append(kept[x - 1], image[x]) ELSE kept[x - 1]
    BY <1>5, <2>4 DEF Loop
  <2>7. Holds(x)
    <3>1. CASE x \notin keep
      BY <2>4, <2>5, <2>6, <3>1
    <3>2. CASE x \in keep
      <4> DEFINE s == kept[x - 1]
      <4>1. s \in Seq(Pair!Reference) /\ image[x] \in Pair!Reference /\ kept[x] = Append(s, image[x])
        BY <1>6, <2>4, <2>5, <2>6, <3>2
      <4>2. /\ \A i \in DOMAIN s : \E n \in 1..(x - 1) : n \in keep /\ s[i] = image[n]
            /\ \A n \in 1..(x - 1) : n \in keep => \E i \in DOMAIN s : s[i] = image[n]
        BY <2>5
      <4> HIDE DEF s
      <4>3. /\ kept[x] \in Seq(Pair!Reference)
            /\ DOMAIN kept[x] = DOMAIN s \cup {Len(s) + 1}
            /\ kept[x][Len(s) + 1] = image[x]
            /\ \A i \in DOMAIN s : kept[x][i] = s[i]
        BY <4>1
      <4>4. ASSUME NEW i \in DOMAIN kept[x]
            PROVE  \E n \in 1..x : n \in keep /\ kept[x][i] = image[n]
        <5>1. CASE i \in DOMAIN s
          <6>1. PICK n \in 1..(x - 1) : n \in keep /\ s[i] = image[n]
            BY <4>2, <5>1
          <6> QED BY <2>4, <4>3, <5>1, <6>1
        <5>2. CASE i = Len(s) + 1
          BY <2>4, <3>2, <4>3, <5>2
        <5> QED BY <4>3, <5>1, <5>2
      <4>5. \A n \in 1..x : n \in keep => \E i \in DOMAIN kept[x] : kept[x][i] = image[n]
        BY <2>4, <4>2, <4>3
      <4> QED BY <4>3, <4>4, <4>5
    <3> QED BY <3>1, <3>2
  <2> QED BY <2>2, <2>7
<1>10. /\ \A i \in DOMAIN kept[m] : \E n \in DOMAIN md.refs :
            /\ Retainable(md.refs[n], docs, layers, k)
            /\ kept[m][i] = Normalised(md.refs[n], docs)
       /\ \A n \in DOMAIN md.refs : Retainable(md.refs[n], docs, layers, k) =>
            \E i \in DOMAIN kept[m] : kept[m][i] = Normalised(md.refs[n], docs)
  BY <1>1, <1>7, <1>9
<1> QED BY <1>8, <1>9, <1>10 DEF docs

(* When the first p are as they are to be written, they stay the first p.  *)
LEMMA RetainedPrefix ==
  ASSUME NEW md \in Pair!Metadata, NEW layers, NEW k, NEW docs, docs = Pair!IdsOf(md.records),
         NEW kept, kept = RetainedReferences(md, layers, k), NEW p \in 0..Len(md.refs),
         \A n \in 1..p : /\ Retainable(md.refs[n], docs, layers, k)
                         /\ Normalised(md.refs[n], docs) = md.refs[n]
  PROVE  /\ kept \in Seq(Pair!Reference) /\ p <= Len(kept) /\ Len(kept) <= Len(md.refs)
         /\ \A n \in 1..p : kept[n] = md.refs[n]
         /\ \A i \in DOMAIN kept : i > p =>
              \E n \in DOMAIN md.refs : n > p /\ kept[i] = Normalised(md.refs[n], docs)
<1> DEFINE m == Len(md.refs)
           f == Retained(md, layers, k)
           keep == ToKeep(md, layers, k)
           image == AsWritten(md)
<1>1. /\ m \in Nat /\ DOMAIN md.refs = 1..m /\ Loop(f, m, keep, image)
      /\ image \in [1..m -> Pair!Reference]
  BY RetainedIsLoop
<1>2. /\ kept = f[m] /\ \A n \in 1..p : n \in 1..m
      /\ \A n \in 1..m : image[n] = Normalised(md.refs[n], docs)
  BY <1>1 DEF RetainedReferences, AsWritten
<1>3. \A n \in 1..p : n \in keep /\ image[n] = md.refs[n]
  BY <1>2 DEF ToKeep
<1> HIDE DEF f, keep, image, m
<1>4. p \in 0..m
  BY DEF m
<1>5. /\ f[m] \in Seq(Pair!Reference) /\ p <= Len(f[m]) /\ Len(f[m]) <= m
      /\ \A n \in 1..p : f[m][n] = image[n]
      /\ \A i \in DOMAIN f[m] : i > p => \E n \in 1..m : n > p /\ n \in keep /\ f[m][i] = image[n]
  <2>1. PICK T : T = Pair!Reference
    OBVIOUS
  <2>2. m \in Nat /\ Loop(f, m, keep, image) /\ image \in [1..m -> T] /\ p \in 0..m
    BY <1>1, <1>4, <2>1
  <2>3. \A n \in 1..p : n \in keep
    BY <1>3
  <2>4. Prefixed(f[m], T, m, keep, image, p)
    BY <2>2, <2>3, LoopPrefix
  <2> QED BY <2>1, <2>4 DEF Prefixed
<1>6. m = Len(md.refs)
  BY DEF m
<1>7. ASSUME NEW i \in DOMAIN kept, i > p
      PROVE  \E n \in DOMAIN md.refs : n > p /\ kept[i] = Normalised(md.refs[n], docs)
  <2>1. PICK n \in 1..m : n > p /\ f[m][i] = image[n]
    BY <1>2, <1>5, <1>7
  <2> QED BY <1>1, <1>2, <2>1
<1>8. \A n \in 1..p : kept[n] = md.refs[n]
  BY <1>2, <1>3, <1>5
<1>9. kept \in Seq(Pair!Reference) /\ p <= Len(kept) /\ Len(kept) <= Len(md.refs)
  BY <1>2, <1>5, <1>6
<1> QED BY <1>7, <1>8, <1>9

-----------------------------------------------------------------------------
(* The contents this run has to unite, and what the union says of one      *)
(* pyramid.                                                                *)
Old == Box(file)
New == Box(input)

UnionAt(b, s, n) ==
  IF n \notin DOMAIN s.pyramids THEN b.pyramids[n]
  ELSE IF n \notin DOMAIN b.pyramids THEN s.pyramids[n]
  ELSE Abs!MergedPyramid(b.pyramids[n], s.pyramids[n])

DifferAt(b, s, n) ==
  \/ b.pyramids[n].scheme # s.pyramids[n].scheme
  \/ b.pyramids[n].scheme \notin Mergeable
  \/ Abs!Overlap(b.pyramids[n], s.pyramids[n])

(* What the write will put back is well formed.                            *)
WellFormed(k) ==
  /\ k = [pyramids |-> k.pyramids, tables |-> k.tables, metadata |-> k.metadata]
  /\ NamesTo(k.pyramids, Tiled) /\ NamesTo(k.tables, Table) /\ TilesKeyed(k)
  /\ k.metadata \in Pair!Metadata \cup {None}
  /\ k.metadata # None => IdsDistinct(k.metadata.records)

(* Every record and reference of one pair is in the other.                 *)
Keeps(md, old) ==
  old # None =>
    /\ md # None
    /\ \A i \in DOMAIN old.records : \E j \in DOMAIN md.records : md.records[j] = old.records[i]
    /\ \A i \in DOMAIN old.refs : \E j \in DOMAIN md.refs : md.refs[j] = old.refs[i]

(* The pyramids of these names have been merged, and the others have not.  *)
PyramidsTo(k, b, s, visited) ==
  /\ DOMAIN k.pyramids = DOMAIN b.pyramids \cup visited
  /\ \A n \in DOMAIN k.pyramids :
       PyramidBox(k.pyramids[n]) = IF n \in visited THEN UnionAt(b, s, n) ELSE b.pyramids[n]
  /\ \A n \in visited \cap DOMAIN b.pyramids : ~ DifferAt(b, s, n)

TablesMerged(k, b, s) ==
  /\ k.tables = Abs!Over(b.tables, s.tables)
  /\ DOMAIN b.tables \cap DOMAIN s.tables = {}
  /\ DOMAIN k.pyramids \cap DOMAIN k.tables = {}

(* What is ready to be written is the union but for the layers.            *)
United(k, b, s) ==
  /\ PyramidsTo(k, b, s, DOMAIN s.pyramids)
  /\ TablesMerged(k, b, s)
  /\ PP!DocsOf(k.metadata) = b.docs \cup s.docs

-----------------------------------------------------------------------------
FileOK == file # Absent => IsContainer(file) /\ Keyed(file)

RunOK ==
  /\ stage \in {"idle", "reconcile", "pyramids", "tiles", "metadata", "build"}
  /\ stage # "idle" => /\ last = "none" /\ WellFormed(carried)
                       /\ input \in Sources /\ chosen \in Choices(input)
  /\ stage \notin {"idle", "build"} => file # Absent

Reconciling == stage = "reconcile" => carried = Carried(file)

Visiting ==
  stage \in {"pyramids", "tiles"} =>
    /\ unvisited \subseteq DOMAIN New.pyramids
    /\ PyramidsTo(carried, Old, New, DOMAIN New.pyramids \ unvisited)
    /\ carried.tables = Old.tables /\ carried.metadata = ReadMetadata(file)
    /\ DOMAIN New.pyramids \cap DOMAIN Old.tables = {}
    /\ DOMAIN New.tables \cap DOMAIN Old.pyramids = {}
    /\ PP!MapsSound

Tiling ==
  stage = "tiles" =>
    /\ merging \in unvisited \cap DOMAIN carried.pyramids
    /\ held = carried.pyramids[merging].body
    /\ from = input.pyramids[merging].body
    /\ TP!IInv

Pairing ==
  stage = "metadata" =>
    /\ PyramidsTo(carried, Old, New, DOMAIN New.pyramids) /\ TablesMerged(carried, Old, New)
    /\ dest = ReadMetadata(file) /\ source = ReadMetadata(input)
    /\ PP!IInv /\ PP!Followed /\ PP!DocsFollowed

Building ==
  stage = "build" =>
    /\ United(carried, Old, New)
    /\ file # Absent => Keeps(carried.metadata, file.metadata)

IInv == /\ FileOK /\ RunOK /\ Reconciling /\ Visiting /\ Tiling /\ Pairing /\ Building
        /\ RefusedOnlyOnConflict /\ WrittenReferencesResolve

-----------------------------------------------------------------------------
(* The instances the proofs reason with are the ones the module merges by. *)
LEMMA SameTiles ==
  /\ Tiles!Pyramid = TP!Pyramid
  /\ \A tiles : /\ Tiles!RowidsAscend(tiles) <=> TP!RowidsAscend(tiles)
                /\ Tiles!KeysDistinct(tiles) <=> TP!KeysDistinct(tiles)
                /\ Tiles!Contents(tiles) = TP!Contents(tiles)
  /\ Tiles!Next <=> TP!Next
<1>1. Tiles!Pyramid = TP!Pyramid
  BY DEF Tiles!Pyramid, TP!Pyramid, Tiles!Tile, TP!Tile, Tiles!Bound, TP!Bound
<1>2. \A tiles : /\ Tiles!RowidsAscend(tiles) <=> TP!RowidsAscend(tiles)
                 /\ Tiles!KeysDistinct(tiles) <=> TP!KeysDistinct(tiles)
                 /\ Tiles!Contents(tiles) = TP!Contents(tiles)
  BY DEF Tiles!RowidsAscend, TP!RowidsAscend, Tiles!KeysDistinct, TP!KeysDistinct,
         Tiles!Contents, TP!Contents
<1>3. Tiles!Next <=> TP!Next
  <2> USE DEF Tiles!SchemeRefused, TP!SchemeRefused, Tiles!Visiting, TP!Visiting,
         Tiles!This, TP!This, Tiles!WithEntry, TP!WithEntry, Tiles!FirstAt, TP!FirstAt,
         Tiles!NoneAt, TP!NoneAt
  <2>1. Tiles!RefuseScheme <=> TP!RefuseScheme
    BY DEF Tiles!RefuseScheme, TP!RefuseScheme
  <2>2. Tiles!Begin <=> TP!Begin
    BY DEF Tiles!Begin, TP!Begin, Tiles!Highest, TP!Highest, Tiles!Rowids, TP!Rowids
  <2>3. Tiles!KeepHeld <=> TP!KeepHeld
    BY DEF Tiles!KeepHeld, TP!KeepHeld
  <2>4. Tiles!RefuseOverlap <=> TP!RefuseOverlap
    BY DEF Tiles!RefuseOverlap, TP!RefuseOverlap
  <2>5. Tiles!Reissue <=> TP!Reissue
    BY DEF Tiles!Reissue, TP!Reissue
  <2>6. Tiles!Finish <=> TP!Finish
    BY DEF Tiles!Finish, TP!Finish, Tiles!RecomputedMark, TP!RecomputedMark,
           Tiles!UnionLow, TP!UnionLow, Tiles!UnionHigh, TP!UnionHigh,
           Tiles!Highest, TP!Highest, Tiles!Rowids, TP!Rowids
  <2> QED BY <2>1, <2>2, <2>3, <2>4, <2>5, <2>6 DEF Tiles!Next, TP!Next
<1> QED BY <1>1, <1>2, <1>3

(* The same of the merge of the pair.                                      *)
LEMMA SamePair ==
  /\ Pair!Metadata = PP!Metadata /\ Pair!Record = PP!Record /\ Pair!Reference = PP!Reference
  /\ \A records : /\ Pair!Ascending(records) <=> PP!Ascending(records)
                  /\ Pair!IdsOf(records) = PP!IdsOf(records)
                  /\ IdsDistinct(records) <=> PP!IdsDistinct(records)
  /\ Pair!Next <=> PP!Next
<1> USE DEF Pair!Ids, PP!Ids, Pair!Record, PP!Record, Pair!Reference, PP!Reference
<1>1. /\ Pair!Metadata = PP!Metadata /\ Pair!Record = PP!Record
      /\ Pair!Reference = PP!Reference
  BY DEF Pair!Metadata, PP!Metadata
<1>2. \A records : /\ Pair!Ascending(records) <=> PP!Ascending(records)
                   /\ Pair!IdsOf(records) = PP!IdsOf(records)
                   /\ IdsDistinct(records) <=> PP!IdsDistinct(records)
  BY DEF Pair!Ascending, PP!Ascending, Pair!IdsOf, PP!IdsOf, IdsDistinct, PP!IdsDistinct
<1>3. Pair!Next <=> PP!Next
  <2> USE DEF Pair!inputs, PP!inputs, Pair!VisitingRecord, PP!VisitingRecord,
         Pair!ThisRecord, PP!ThisRecord, Pair!WithEntry, PP!WithEntry,
         Pair!VisitingReference, PP!VisitingReference, Pair!ThisReference, PP!ThisReference,
         Pair!Stated, PP!Stated, Pair!SameReference, PP!SameReference,
         Pair!Mapped, PP!Mapped, Pair!MappedRow, PP!MappedRow, Pair!Lookup, PP!Lookup
  <2>1. Pair!OneSide <=> PP!OneSide
    BY DEF Pair!OneSide, PP!OneSide
  <2>2. Pair!BothSides <=> PP!BothSides
    BY DEF Pair!BothSides, PP!BothSides
  <2>3. Pair!ShareRecord <=> PP!ShareRecord
    BY DEF Pair!ShareRecord, PP!ShareRecord, Pair!FirstWith, PP!FirstWith
  <2>4. Pair!AddRecord <=> PP!AddRecord
    BY DEF Pair!AddRecord, PP!AddRecord, Pair!NoneWith, PP!NoneWith, Pair!IdFor, PP!IdFor,
           Pair!IdsOf, PP!IdsOf, Pair!Larger, PP!Larger, Pair!HighestId, PP!HighestId
  <2>5. Pair!RecordsDone <=> PP!RecordsDone
    BY DEF Pair!RecordsDone, PP!RecordsDone
  <2>6. Pair!ShareReference <=> PP!ShareReference
    BY DEF Pair!ShareReference, PP!ShareReference
  <2>7. Pair!AddReference <=> PP!AddReference
    BY DEF Pair!AddReference, PP!AddReference
  <2>8. Pair!ReferencesDone <=> PP!ReferencesDone
    BY DEF Pair!ReferencesDone, PP!ReferencesDone
  <2> QED BY <2>1, <2>2, <2>3, <2>4, <2>5, <2>6, <2>7, <2>8 DEF Pair!Next, PP!Next
<1> QED BY <1>1, <1>2, <1>3

-----------------------------------------------------------------------------
(* A container is not the absent file.                                     *)
LEMMA ContainerIsPresent == ASSUME NEW c, IsContainer(c) PROVE c # Absent
<1>1. c = [layers |-> c.layers, pyramids |-> c.pyramids, tables |-> c.tables,
           metadata |-> c.metadata]
  BY DEF IsContainer
<1>2. "layers" \in DOMAIN c
  BY <1>1
<1>3. "layers" \notin DOMAIN Absent
  BY DEF Absent
<1> QED BY <1>2, <1>3

(* The pair of a container as the merge reads it: sorted, and the same.    *)
LEMMA ReadPair ==
  ASSUME NEW c, IsContainer(c), Keyed(c)
  PROVE  /\ ReadMetadata(c) \in Pair!Metadata \cup {None}
         /\ ReadMetadata(c) # None => /\ Pair!Ascending(ReadMetadata(c).records)
                                      /\ IdsDistinct(ReadMetadata(c).records)
         /\ PP!DocsOf(ReadMetadata(c)) = PP!DocsOf(c.metadata)
         /\ Keeps(ReadMetadata(c), c.metadata)
<1>1. CASE c.metadata = None
  BY <1>1 DEF ReadMetadata, PP!DocsOf, Keeps
<1>2. CASE c.metadata # None
  <2> DEFINE old == c.metadata
             md == ReadMetadata(c)
  <2>1. old \in Pair!Metadata /\ IdsDistinct(old.records) /\ old # None
    BY <1>2 DEF IsContainer, Keyed
  <2>2. old.records \in Seq(Pair!Record) /\ old.refs \in Seq(Pair!Reference)
    BY <2>1 DEF Pair!Metadata
  <2>3. md = [old EXCEPT !.records = InIdOrder(old.records)]
    BY <1>2 DEF ReadMetadata
  <2> HIDE DEF md, old
  <2> DEFINE sorted == InIdOrder(old.records)
  <2>4. /\ sorted \in Seq(Pair!Record) /\ Pair!Ascending(sorted)
        /\ \A k \in DOMAIN sorted : \E i \in DOMAIN old.records : sorted[k] = old.records[i]
        /\ \A i \in DOMAIN old.records : \E k \in DOMAIN sorted : sorted[k] = old.records[i]
    BY <2>1, <2>2, SortedRecords
  <2> HIDE DEF sorted
  <2>5. md \in Pair!Metadata /\ md.records = sorted /\ md.refs = old.refs
    BY <2>1, <2>3, <2>4 DEF Pair!Metadata, sorted
  <2>6. md # None
    BY <2>5, ConstantsAssumption
  <2>7. IdsDistinct(sorted)
    <3>1. PP!IdsDistinct(sorted)
      BY <2>4, SamePair, PP!AscendingIds, ConstantsAssumption
    <3> QED BY <3>1, SamePair
  <2>8. PP!DocsOf(md) = PP!DocsOf(old)
    <3>1. {sorted[i].doc : i \in DOMAIN sorted} = {old.records[i].doc : i \in DOMAIN old.records}
      BY <2>4
    <3> QED BY <2>1, <2>5, <2>6, <3>1 DEF PP!DocsOf
  <2>9. Keeps(md, old)
    BY <2>4, <2>5, <2>6 DEF Keeps
  <2> QED BY <2>4, <2>5, <2>7, <2>8, <2>9 DEF md, old
<1> QED BY <1>1, <1>2

(* carry::read of a container is well formed.                              *)
LEMMA ReadContent ==
  ASSUME NEW c, IsContainer(c), Keyed(c)
  PROVE  /\ WellFormed(Carried(c))
         /\ DOMAIN ReadPyramids(c) = DOMAIN c.pyramids
         /\ \A n \in DOMAIN c.pyramids : ReadPyramids(c)[n].body = c.pyramids[n].body
         /\ NamesTo(ReadLayers(c), Layer) /\ DOMAIN ReadLayers(c) = DOMAIN c.layers
<1>1. NamesTo(c.layers, Layer) /\ NamesTo(c.pyramids, Tiled) /\ NamesTo(c.tables, Table)
  BY DEF IsContainer
<1>2. ASSUME NEW n \in DOMAIN c.pyramids
      PROVE  ReadPyramids(c)[n] \in Tiled /\ ReadPyramids(c)[n].body = c.pyramids[n].body
  <2>1. c.pyramids[n] \in Tiled
    BY <1>1 DEF NamesTo
  <2> QED BY <2>1 DEF ReadPyramids, Tiled, Idents
<1>3. ASSUME NEW n \in DOMAIN c.layers
      PROVE  ReadLayers(c)[n] \in Layer
  <2>1. c.layers[n] \in Layer /\ n \in Names
    BY <1>1 DEF NamesTo
  <2> QED BY <2>1 DEF ReadLayers, Layer, Idents
<1>4. DOMAIN ReadPyramids(c) = DOMAIN c.pyramids /\ DOMAIN ReadLayers(c) = DOMAIN c.layers
  BY DEF ReadPyramids, ReadLayers
<1>5. NamesTo(ReadPyramids(c), Tiled)
  <2>1. ReadPyramids(c) = [n \in DOMAIN c.pyramids |-> ReadPyramids(c)[n]]
    BY DEF ReadPyramids
  <2> QED BY <1>1, <1>2, <1>4, <2>1 DEF NamesTo
<1>6. NamesTo(ReadLayers(c), Layer)
  <2>1. ReadLayers(c) = [n \in DOMAIN c.layers |-> ReadLayers(c)[n]]
    BY DEF ReadLayers
  <2> QED BY <1>1, <1>3, <1>4, <2>1 DEF NamesTo
<1>7. /\ Carried(c) = [pyramids |-> ReadPyramids(c), tables |-> c.tables,
                       metadata |-> ReadMetadata(c)]
      /\ Carried(c).pyramids = ReadPyramids(c) /\ Carried(c).tables = c.tables
      /\ Carried(c).metadata = ReadMetadata(c)
  BY DEF Carried
<1>8. TilesKeyed(Carried(c))
  BY <1>2, <1>4, <1>7 DEF TilesKeyed, Keyed
<1> QED BY <1>1, <1>2, <1>4, <1>5, <1>6, <1>7, <1>8, ReadPair DEF WellFormed

(* What a container says, part by part.                                    *)
LEMMA BoxParts ==
  ASSUME NEW c, IsContainer(c), Keyed(c)
  PROVE  /\ Box(c) = [layers |-> Box(c).layers, pyramids |-> Box(c).pyramids,
                      tables |-> Box(c).tables, docs |-> Box(c).docs]
         /\ Box(c).layers = ReadLayers(c) /\ Box(c).tables = c.tables
         /\ Box(c).docs = PP!DocsOf(ReadMetadata(c))
         /\ DOMAIN Box(c).pyramids = DOMAIN c.pyramids
         /\ Box(c).pyramids = [n \in DOMAIN c.pyramids |-> PyramidBox(ReadPyramids(c)[n])]
<1>1. Box(c) = BoxOf(c, ReadLayers(c), ReadPyramids(c))
  BY ContainerIsPresent DEF Box
<1>2. DOMAIN ReadPyramids(c) = DOMAIN c.pyramids
  BY ReadContent
<1>3. PP!DocsOf(c.metadata) = PP!DocsOf(ReadMetadata(c))
  BY ReadPair
<1>4. BoxOf(c, ReadLayers(c), ReadPyramids(c)).docs = PP!DocsOf(c.metadata)
  BY DEF BoxOf, PP!DocsOf
<1> QED BY <1>1, <1>2, <1>3, <1>4 DEF BoxOf

(* The absent file says nothing.                                           *)
LEMMA BoxOfAbsent ==
  /\ Box(Absent).layers = <<>> /\ Box(Absent).pyramids = <<>> /\ Box(Absent).tables = <<>>
  /\ Box(Absent).docs = {} /\ DOMAIN Box(Absent).pyramids = {} /\ DOMAIN Box(Absent).tables = {}
  /\ DOMAIN Box(Absent).layers = {}
BY DEF Box, Nothing

(* Every pyramid and layer of a content has an identifier.                 *)
LEMMA BoxIdents ==
  ASSUME NEW c, IsContainer(c), Keyed(c)
  PROVE  /\ \A n \in DOMAIN Box(c).layers : Box(c).layers[n].ident # None
         /\ \A n \in DOMAIN Box(c).pyramids : Box(c).pyramids[n].ident # None
<1>1. NamesTo(c.layers, Layer) /\ NamesTo(c.pyramids, Tiled)
  BY DEF IsContainer
<1>2. ASSUME NEW n \in DOMAIN c.layers PROVE ReadLayers(c)[n].ident # None
  <2>1. c.layers[n] \in Layer /\ n # None
    BY <1>1, ConstantsAssumption DEF NamesTo
  <2> QED BY <2>1 DEF ReadLayers, Layer
<1>3. ASSUME NEW n \in DOMAIN c.pyramids PROVE ReadPyramids(c)[n].ident # None
  <2>1. c.pyramids[n] \in Tiled /\ Blank # None
    BY <1>1, ConstantsAssumption DEF NamesTo
  <2> QED BY <2>1 DEF ReadPyramids, Tiled
<1>4. /\ DOMAIN ReadLayers(c) = DOMAIN c.layers /\ Box(c).layers = ReadLayers(c)
      /\ Box(c).pyramids = [n \in DOMAIN c.pyramids |-> PyramidBox(ReadPyramids(c)[n])]
  BY ReadContent, BoxParts
<1>5. \A p : PyramidBox(p).ident = p.ident
  BY DEF PyramidBox
<1>6. \A n \in DOMAIN Box(c).layers : Box(c).layers[n].ident # None
  BY <1>2, <1>4
<1>7. \A n \in DOMAIN Box(c).pyramids : Box(c).pyramids[n].ident # None
  BY <1>3, <1>4, <1>5
<1> QED BY <1>6, <1>7

(* Beside a destination that carries nothing, the source is the union ...  *)
LEMMA SourceAlone ==
  ASSUME NEW b, NEW c, IsContainer(c), Keyed(c),
         DOMAIN b.pyramids = {}, DOMAIN b.tables = {}, b.docs = {}
  PROVE  United(Carried(c), b, Box(c))
<1> DEFINE k == Carried(c)
           s == Box(c)
<1>1. /\ k.pyramids = ReadPyramids(c) /\ k.tables = c.tables /\ k.metadata = ReadMetadata(c)
      /\ DOMAIN ReadPyramids(c) = DOMAIN c.pyramids
  BY ReadContent DEF Carried
<1>2. /\ s.tables = c.tables /\ DOMAIN s.pyramids = DOMAIN c.pyramids
      /\ s.docs = PP!DocsOf(ReadMetadata(c))
      /\ \A n \in DOMAIN c.pyramids : s.pyramids[n] = PyramidBox(ReadPyramids(c)[n])
  BY BoxParts
<1>3. /\ c.tables = [n \in DOMAIN c.tables |-> c.tables[n]]
      /\ DOMAIN c.pyramids \cap DOMAIN c.tables = {}
  BY DEF IsContainer, NamesTo, Keyed, NamesApart
<1> HIDE DEF k, s
<1>4. PyramidsTo(k, b, s, DOMAIN s.pyramids)
  BY <1>1, <1>2 DEF PyramidsTo, UnionAt
<1>5. Abs!Over(b.tables, s.tables) = [n \in DOMAIN c.tables |-> c.tables[n]]
  BY <1>2 DEF Abs!Over
<1>6. TablesMerged(k, b, s)
  BY <1>1, <1>2, <1>3, <1>5 DEF TablesMerged
<1> QED BY <1>1, <1>2, <1>4, <1>6 DEF United, k, s

(* ... and beside a source that carries nothing, the destination is.       *)
LEMMA DestinationAlone ==
  ASSUME NEW c, NEW s, IsContainer(c), Keyed(c),
         DOMAIN s.pyramids = {}, DOMAIN s.tables = {}, s.docs = {}
  PROVE  United(Carried(c), Box(c), s)
<1> DEFINE k == Carried(c)
           b == Box(c)
<1>1. /\ k.pyramids = ReadPyramids(c) /\ k.tables = c.tables /\ k.metadata = ReadMetadata(c)
      /\ DOMAIN ReadPyramids(c) = DOMAIN c.pyramids
  BY ReadContent DEF Carried
<1>2. /\ b.tables = c.tables /\ DOMAIN b.pyramids = DOMAIN c.pyramids
      /\ b.docs = PP!DocsOf(ReadMetadata(c))
      /\ \A n \in DOMAIN c.pyramids : b.pyramids[n] = PyramidBox(ReadPyramids(c)[n])
  BY BoxParts
<1>3. /\ c.tables = [n \in DOMAIN c.tables |-> c.tables[n]]
      /\ DOMAIN c.pyramids \cap DOMAIN c.tables = {}
  BY DEF IsContainer, NamesTo, Keyed, NamesApart
<1> HIDE DEF k, b
<1>4. PyramidsTo(k, b, s, DOMAIN s.pyramids)
  BY <1>1, <1>2 DEF PyramidsTo
<1>5. Abs!Over(b.tables, s.tables) = [n \in DOMAIN c.tables |-> c.tables[n]]
  BY <1>2 DEF Abs!Over
<1>6. TablesMerged(k, b, s)
  BY <1>1, <1>2, <1>3, <1>5 DEF TablesMerged
<1> QED BY <1>1, <1>2, <1>4, <1>6 DEF United, k, b

(* What a reading without content comes from says nothing.                 *)
LEMMA EmptyReading ==
  ASSUME NEW c, IsContainer(c), Keyed(c), IsEmpty(Carried(c))
  PROVE  /\ DOMAIN Box(c).pyramids = {} /\ DOMAIN Box(c).tables = {} /\ Box(c).docs = {}
         /\ c.metadata = None
<1>1. ReadPyramids(c) = <<>> /\ c.tables = <<>> /\ ReadMetadata(c) = None
  BY DEF IsEmpty, Carried
<1>2. DOMAIN c.pyramids = {} /\ DOMAIN c.tables = {}
  BY <1>1, ReadContent
<1>3. PP!DocsOf(ReadMetadata(c)) = {}
  BY <1>1 DEF PP!DocsOf
<1>4. c.metadata = None
  BY <1>1, ReadPair DEF Keeps
<1> QED BY <1>2, <1>3, <1>4, BoxParts

-----------------------------------------------------------------------------
(* No run has started, and the file is what was there.                     *)
LEMMA InitIInv == Init => IInv
<1> SUFFICES ASSUME Init PROVE IInv
  OBVIOUS
<1>1. FileOK
  BY SourcesAssumption DEF Init, FileOK
<1>2. stage = "idle" /\ last = "none"
  BY DEF Init
<1> QED BY <1>1, <1>2
        DEF IInv, RunOK, Reconciling, Visiting, Tiling, Pairing, Building,
            RefusedOnlyOnConflict, WrittenReferencesResolve

(* What a run knows of the two containers it reads.                        *)
LEMMA RunFacts ==
  ASSUME IInv, stage # "idle"
  PROVE  /\ IsContainer(input) /\ Keyed(input) /\ WellFormed(carried) /\ last = "none"
         /\ DOMAIN New.pyramids = DOMAIN input.pyramids /\ New.tables = input.tables
         /\ stage # "build" => /\ IsContainer(file) /\ Keyed(file) /\ file # Absent
                               /\ DOMAIN Old.pyramids = DOMAIN file.pyramids
                               /\ Old.tables = file.tables
<1>1. /\ IsContainer(input) /\ Keyed(input) /\ WellFormed(carried) /\ last = "none"
      /\ stage # "build" => IsContainer(file) /\ Keyed(file) /\ file # Absent
  BY SourcesAssumption DEF IInv, RunOK, FileOK
<1> QED BY <1>1, BoxParts DEF Old, New

(* A run that begins reads the source, and the destination if there is one.*)
LEMMA StartKeeps == IInv /\ Start => IInv'
<1> SUFFICES ASSUME IInv, Start PROVE IInv'
  OBVIOUS
<1>1. /\ stage = "idle" /\ file' = file /\ last' = "none"
      /\ input' \in Sources /\ chosen' \in Choices(input')
      /\ carried' = Carried(IF file = Absent THEN input' ELSE file)
      /\ stage' = IF file = Absent THEN "build" ELSE "reconcile"
  BY DEF Start, fileVars
<1>2. IsContainer(input') /\ Keyed(input')
  BY <1>1, SourcesAssumption
<1>3. file # Absent => IsContainer(file) /\ Keyed(file)
  BY DEF IInv, FileOK
<1>4. FileOK'
  BY <1>1, <1>3 DEF FileOK
<1>5. RunOK'
  <2>1. WellFormed(carried')
    BY <1>1, <1>2, <1>3, ReadContent
  <2> QED BY <1>1, <2>1 DEF RunOK
<1>6. Reconciling'
  BY <1>1 DEF Reconciling
<1>7. Building'
  <2>1. CASE file = Absent
    <3>1. United(Carried(input'), Box(file'), Box(input'))
      BY <1>1, <1>2, <2>1, SourceAlone, BoxOfAbsent
    <3> QED BY <1>1, <2>1, <3>1 DEF Building, Old, New
  <2>2. CASE file # Absent
    BY <1>1, <2>2 DEF Building
  <2> QED BY <2>1, <2>2
<1>8. Visiting' /\ Tiling' /\ Pairing'
  BY <1>1 DEF Visiting, Tiling, Pairing
<1>9. RefusedOnlyOnConflict' /\ WrittenReferencesResolve'
  BY <1>1 DEF RefusedOnlyOnConflict, WrittenReferencesResolve
<1> QED BY <1>4, <1>5, <1>6, <1>7, <1>8, <1>9 DEF IInv

(* One side carries nothing, and the other is the union.                   *)
LEMMA EmptySideKeeps == IInv /\ EmptySide => IInv'
<1> SUFFICES ASSUME IInv, EmptySide PROVE IInv'
  OBVIOUS
<1>1. /\ stage = "reconcile" /\ stage' = "build" /\ UNCHANGED <<file, input, chosen, last>>
      /\ IsEmpty(carried) \/ IsEmpty(Carried(input))
      /\ carried' = IF IsEmpty(carried) THEN Carried(input) ELSE carried
  BY DEF EmptySide, fileVars, runVars
<1>2. /\ carried = Carried(file) /\ IsContainer(file) /\ Keyed(file)
      /\ IsContainer(input) /\ Keyed(input) /\ last = "none"
  BY <1>1, RunFacts DEF IInv, Reconciling
<1>3. /\ WellFormed(carried') /\ United(carried', Old, New)
      /\ Keeps(carried'.metadata, file.metadata)
  <2>1. CASE IsEmpty(carried)
    <3>1. United(Carried(input), Old, New) /\ file.metadata = None
      BY <1>2, <2>1, EmptyReading, SourceAlone DEF Old, New
    <3> QED BY <1>1, <1>2, <2>1, <3>1, ReadContent DEF Keeps
  <2>2. CASE IsEmpty(Carried(input)) /\ ~ IsEmpty(carried)
    <3>1. United(Carried(file), Old, New)
      BY <1>2, <2>2, EmptyReading, DestinationAlone DEF Old, New
    <3>2. Keeps(Carried(file).metadata, file.metadata)
      BY <1>2, ReadPair DEF Carried
    <3> QED BY <1>1, <1>2, <2>2, <3>1, <3>2, ReadContent
  <2> QED BY <1>1, <2>1, <2>2
<1>4. FileOK' /\ RunOK'
  BY <1>1, <1>2, <1>3 DEF IInv, FileOK, RunOK
<1>5. Building'
  BY <1>1, <1>3 DEF Building, Old, New
<1>6. Reconciling' /\ Visiting' /\ Tiling' /\ Pairing'
  BY <1>1 DEF Reconciling, Visiting, Tiling, Pairing
<1>7. RefusedOnlyOnConflict' /\ WrittenReferencesResolve'
  BY <1>1, <1>2 DEF RefusedOnlyOnConflict, WrittenReferencesResolve
<1> QED BY <1>4, <1>5, <1>6, <1>7 DEF IInv

-----------------------------------------------------------------------------
(* A refusal leaves the file alone; what remains to show is the conflict.  *)
LEMMA RefuseKeeps ==
  ASSUME IInv, Refuse, Abs!Conflict(Old, New, chosen)
  PROVE  IInv'
<1>1. stage' = "idle" /\ last' = "refused" /\ UNCHANGED <<file, input, chosen>>
  BY DEF Refuse, fileVars, runVars
<1>2. FileOK' /\ RunOK'
  BY <1>1 DEF IInv, FileOK, RunOK
<1>3. Reconciling' /\ Visiting' /\ Tiling' /\ Pairing' /\ Building'
  BY <1>1 DEF Reconciling, Visiting, Tiling, Pairing, Building
<1>4. RefusedOnlyOnConflict' /\ WrittenReferencesResolve'
  BY <1>1 DEF RefusedOnlyOnConflict, WrittenReferencesResolve, Old, New
<1> QED BY <1>2, <1>3, <1>4 DEF IInv

(* One name, a pyramid on one side and a table on the other.               *)
LEMMA RefuseCrossKindKeeps == IInv /\ RefuseCrossKind => IInv'
<1> SUFFICES ASSUME IInv, RefuseCrossKind PROVE IInv'
  OBVIOUS
<1>1. stage = "reconcile" /\ CrossKind /\ Refuse
  BY DEF RefuseCrossKind, BothCarry
<1>2. /\ carried.tables = Old.tables /\ DOMAIN carried.pyramids = DOMAIN Old.pyramids
      /\ DOMAIN New.pyramids = DOMAIN input.pyramids /\ New.tables = input.tables
  BY <1>1, RunFacts, ReadContent DEF IInv, Reconciling, Carried
<1>3. \/ DOMAIN New.pyramids \cap DOMAIN Old.tables # {}
      \/ DOMAIN New.tables \cap DOMAIN Old.pyramids # {}
  BY <1>1, <1>2 DEF CrossKind
<1> DEFINE u == Abs!Union(Old, New, chosen)
<1>4. DOMAIN u.pyramids \cap DOMAIN u.tables # {}
  <2>1. /\ DOMAIN u.pyramids = DOMAIN Old.pyramids \cup DOMAIN New.pyramids
        /\ DOMAIN u.tables = DOMAIN Old.tables \cup DOMAIN New.tables
    BY DEF Abs!Union, Abs!Over
  <2> HIDE DEF u
  <2> QED BY <1>3, <2>1
<1>5. Abs!Conflict(Old, New, chosen)
  BY <1>4 DEF Abs!Conflict, Abs!NamesClash
<1> QED BY <1>1, <1>5, RefuseKeeps

(* merge_tiles refuses only where the two pyramids have no union.          *)
LEMMA RefuseTilesKeeps == IInv /\ RefuseTiles => IInv'
<1> SUFFICES ASSUME IInv, RefuseTiles PROVE IInv'
  OBVIOUS
<1>1. stage = "tiles" /\ outcome = "refused" /\ Refuse
  BY DEF RefuseTiles
<1> DEFINE n == merging
<1>2. /\ n \in unvisited /\ n \in DOMAIN carried.pyramids /\ TP!IInv
      /\ held = carried.pyramids[n].body /\ from = input.pyramids[n].body
      /\ unvisited \subseteq DOMAIN New.pyramids
      /\ PyramidsTo(carried, Old, New, DOMAIN New.pyramids \ unvisited)
  BY <1>1 DEF IInv, Tiling, Visiting
<1>3. TP!Conflict
  BY <1>1, <1>2, TP!RefusalIsExact, ConstantsAssumption DEF TP!RefusedExactlyOnConflict
<1>4. /\ n \in DOMAIN New.pyramids /\ n \in DOMAIN Old.pyramids
      /\ PyramidBox(carried.pyramids[n]) = Old.pyramids[n]
  BY <1>2 DEF PyramidsTo
<1>5. New.pyramids[n] = PyramidBox(ReadPyramids(input)[n]) /\ ReadPyramids(input)[n].body = from
  BY <1>1, <1>2, <1>4, RunFacts, ReadContent, BoxParts DEF New
<1>6. /\ Old.pyramids[n].scheme = held.scheme /\ New.pyramids[n].scheme = from.scheme
      /\ Old.pyramids[n].tiles = TP!Contents(held.tiles)
      /\ New.pyramids[n].tiles = TP!Contents(from.tiles)
  BY <1>2, <1>4, <1>5, SameTiles DEF PyramidBox
<1>7. DifferAt(Old, New, n)
  BY <1>3, <1>6 DEF TP!Conflict, DifferAt, Abs!Overlap
<1>8. Abs!Conflict(Old, New, chosen)
  BY <1>4, <1>7 DEF Abs!Conflict, Abs!PyramidsDiffer, DifferAt
<1> QED BY <1>1, <1>8, RefuseKeeps

(* One name, a user table on both sides.                                   *)
LEMMA RefuseTablesKeeps == IInv /\ RefuseTables => IInv'
<1> SUFFICES ASSUME IInv, RefuseTables PROVE IInv'
  OBVIOUS
<1>1. stage = "pyramids" /\ SharedTables # {} /\ Refuse
  BY DEF RefuseTables, PyramidsDone
<1>2. carried.tables = Old.tables /\ New.tables = input.tables
  BY <1>1, RunFacts DEF IInv, Visiting
<1>3. DOMAIN Old.tables \cap DOMAIN New.tables # {}
  BY <1>1, <1>2 DEF SharedTables
<1>4. Abs!Conflict(Old, New, chosen)
  BY <1>3 DEF Abs!Conflict, Abs!NamesClash
<1> QED BY <1>1, <1>4, RefuseKeeps

-----------------------------------------------------------------------------
(* Neither side names the other's tables: no pyramid has been visited yet. *)
LEMMA BeginPyramidsKeeps == IInv /\ BeginPyramids => IInv'
<1> SUFFICES ASSUME IInv, BeginPyramids PROVE IInv'
  OBVIOUS
<1>1. /\ stage = "reconcile" /\ stage' = "pyramids" /\ ~ CrossKind
      /\ unvisited' = DOMAIN input.pyramids /\ rowids' = <<>>
      /\ UNCHANGED <<file, input, chosen, last, carried>>
  BY DEF BeginPyramids, BothCarry, fileVars, runVars
<1>2. /\ carried = Carried(file) /\ IsContainer(file) /\ Keyed(file) /\ last = "none"
      /\ DOMAIN New.pyramids = DOMAIN input.pyramids /\ New.tables = input.tables
      /\ DOMAIN Old.pyramids = DOMAIN file.pyramids /\ Old.tables = file.tables
  BY <1>1, RunFacts DEF IInv, Reconciling
<1>3. /\ carried.tables = Old.tables /\ carried.metadata = ReadMetadata(file)
      /\ carried.pyramids = ReadPyramids(file)
      /\ DOMAIN carried.pyramids = DOMAIN Old.pyramids
  BY <1>2, ReadContent DEF Carried
<1>4. PyramidsTo(carried, Old, New, DOMAIN New.pyramids \ unvisited')
  <2>1. DOMAIN New.pyramids \ unvisited' = {}
    BY <1>1, <1>2
  <2>2. \A n \in DOMAIN Old.pyramids : Old.pyramids[n] = PyramidBox(carried.pyramids[n])
    <3>1. Old.pyramids = [n \in DOMAIN file.pyramids |-> PyramidBox(ReadPyramids(file)[n])]
      BY <1>2, BoxParts DEF Old
    <3> QED BY <1>2, <1>3, <3>1
  <2> QED BY <1>3, <2>1, <2>2 DEF PyramidsTo
<1>5. PP!MapsSound'
  BY <1>1 DEF PP!MapsSound
<1>6. Visiting'
  BY <1>1, <1>2, <1>3, <1>4, <1>5 DEF Visiting, CrossKind, Old, New
<1>7. FileOK' /\ RunOK'
  BY <1>1 DEF IInv, FileOK, RunOK
<1>8. Reconciling' /\ Tiling' /\ Pairing' /\ Building'
  BY <1>1 DEF Reconciling, Tiling, Pairing, Building
<1>9. RefusedOnlyOnConflict' /\ WrittenReferencesResolve'
  BY <1>1, <1>2 DEF RefusedOnlyOnConflict, WrittenReferencesResolve
<1> QED BY <1>6, <1>7, <1>8, <1>9 DEF IInv

(* One more pyramid, in the hands of the write: it is well formed again.   *)
Put(k, n, p) == [k EXCEPT !.pyramids = With(k.pyramids, n, p)]

(* It differs from what there was in that pyramid only.                    *)
LEMMA PutKeeps ==
  ASSUME NEW k, WellFormed(k), NEW n \in Names, NEW p \in Tiled,
         Tiles!RowidsAscend(p.body.tiles), Tiles!KeysDistinct(p.body.tiles)
  PROVE  /\ WellFormed(Put(k, n, p)) /\ Put(k, n, p).tables = k.tables
         /\ Put(k, n, p).metadata = k.metadata
         /\ DOMAIN Put(k, n, p).pyramids = DOMAIN k.pyramids \cup {n}
         /\ Put(k, n, p).pyramids[n] = p
         /\ \A x \in DOMAIN k.pyramids : x # n => Put(k, n, p).pyramids[x] = k.pyramids[x]
<1> DEFINE kk == Put(k, n, p)
<1>1. /\ k = [pyramids |-> k.pyramids, tables |-> k.tables, metadata |-> k.metadata]
      /\ NamesTo(k.pyramids, Tiled) /\ TilesKeyed(k)
  BY DEF WellFormed
<1>2. /\ kk = [pyramids |-> kk.pyramids, tables |-> kk.tables, metadata |-> kk.metadata]
      /\ kk.tables = k.tables /\ kk.metadata = k.metadata
      /\ kk.pyramids = With(k.pyramids, n, p)
  BY <1>1 DEF Put
<1> HIDE DEF kk
<1>3. /\ DOMAIN kk.pyramids = DOMAIN k.pyramids \cup {n} /\ kk.pyramids[n] = p
      /\ \A x \in DOMAIN k.pyramids : x # n => kk.pyramids[x] = k.pyramids[x]
      /\ kk.pyramids = [x \in DOMAIN kk.pyramids |-> kk.pyramids[x]]
  BY <1>2 DEF With
<1>4. NamesTo(kk.pyramids, Tiled)
  <2>1. \A x \in DOMAIN kk.pyramids : x \in Names /\ kk.pyramids[x] \in Tiled
    BY <1>1, <1>3 DEF NamesTo
  <2> QED BY <1>3, <2>1 DEF NamesTo
<1>5. TilesKeyed(kk)
  BY <1>1, <1>3 DEF TilesKeyed
<1>6. WellFormed(kk)
  BY <1>1, <1>2, <1>4, <1>5 DEF WellFormed
<1> QED BY <1>2, <1>3, <1>6 DEF kk

(* A pyramid only the source has is the union's of that name.              *)
LEMMA AddPyramidKeeps == IInv /\ AddPyramid => IInv'
<1> SUFFICES ASSUME IInv, AddPyramid PROVE IInv'
  OBVIOUS
<1>1. /\ stage = "pyramids" /\ stage' = stage
      /\ UNCHANGED <<file, input, chosen, last, rowids>>
  BY DEF AddPyramid, fileVars, runVars, pairVars
<1>2. PICK n \in unvisited \ DOMAIN carried.pyramids :
        /\ carried' = [carried EXCEPT !.pyramids = With(carried.pyramids, n, ReadPyramids(input)[n])]
        /\ unvisited' = unvisited \ {n}
  BY DEF AddPyramid
<1> DEFINE p == ReadPyramids(input)[n]
           done == DOMAIN New.pyramids \ unvisited
<1>3. /\ IsContainer(input) /\ Keyed(input) /\ WellFormed(carried) /\ last = "none"
      /\ DOMAIN New.pyramids = DOMAIN input.pyramids
  BY <1>1, RunFacts
<1>4. Visiting /\ unvisited \subseteq DOMAIN New.pyramids /\ PyramidsTo(carried, Old, New, done)
  BY <1>1 DEF IInv, Visiting
<1>5. /\ n \in DOMAIN input.pyramids /\ n \in Names /\ p \in Tiled
      /\ Tiles!RowidsAscend(p.body.tiles) /\ Tiles!KeysDistinct(p.body.tiles)
      /\ New.pyramids[n] = PyramidBox(p)
  <2>1. n \in DOMAIN input.pyramids
    BY <1>2, <1>3, <1>4
  <2>2. /\ DOMAIN ReadPyramids(input) = DOMAIN input.pyramids
        /\ WellFormed(Carried(input)) /\ Carried(input).pyramids = ReadPyramids(input)
    BY <1>3, ReadContent DEF Carried
  <2> QED BY <1>3, <2>1, <2>2, BoxParts DEF WellFormed, NamesTo, TilesKeyed, New
<1> HIDE DEF p
<1>6. /\ WellFormed(carried') /\ carried'.tables = carried.tables
      /\ carried'.metadata = carried.metadata
      /\ DOMAIN carried'.pyramids = DOMAIN carried.pyramids \cup {n} /\ carried'.pyramids[n] = p
      /\ \A x \in DOMAIN carried.pyramids : x # n => carried'.pyramids[x] = carried.pyramids[x]
  <2>1. carried' = Put(carried, n, p)
    BY <1>2 DEF Put, p
  <2> QED BY <1>3, <1>5, <2>1, PutKeeps
<1>7. DOMAIN New.pyramids \ unvisited' = done \cup {n}
  BY <1>2, <1>4
<1> HIDE DEF done
<1>8. PyramidsTo(carried', Old, New, done \cup {n})
  <2>1. n \notin DOMAIN Old.pyramids /\ DOMAIN carried'.pyramids = DOMAIN Old.pyramids \cup done \cup {n}
    BY <1>2, <1>4, <1>6 DEF PyramidsTo
  <2>2. UnionAt(Old, New, n) = PyramidBox(p)
    BY <1>3, <1>5, <2>1 DEF UnionAt
  <2>3. ASSUME NEW x \in DOMAIN carried'.pyramids
        PROVE  PyramidBox(carried'.pyramids[x])
                 = IF x \in done \cup {n} THEN UnionAt(Old, New, x) ELSE Old.pyramids[x]
    <3>1. CASE x = n
      BY <1>6, <2>2, <3>1
    <3>2. CASE x # n
      BY <1>4, <1>6, <3>2 DEF PyramidsTo
    <3> QED BY <3>1, <3>2
  <2>4. \A x \in (done \cup {n}) \cap DOMAIN Old.pyramids : ~ DifferAt(Old, New, x)
    BY <1>4, <2>1 DEF PyramidsTo
  <2> QED BY <2>1, <2>3, <2>4 DEF PyramidsTo
<1>9. PP!MapsSound'
  BY <1>1, <1>4 DEF Visiting, PP!MapsSound
<1>10. unvisited' \subseteq DOMAIN New.pyramids
  BY <1>2, <1>4
<1>11. Visiting'
  BY <1>1, <1>4, <1>6, <1>7, <1>8, <1>9, <1>10 DEF Visiting, Old, New
<1>12. FileOK' /\ RunOK'
  BY <1>1, <1>6 DEF IInv, FileOK, RunOK
<1>13. Reconciling' /\ Tiling' /\ Pairing' /\ Building'
  BY <1>1 DEF Reconciling, Tiling, Pairing, Building
<1>14. RefusedOnlyOnConflict' /\ WrittenReferencesResolve'
  BY <1>1, <1>3 DEF RefusedOnlyOnConflict, WrittenReferencesResolve
<1> QED BY <1>11, <1>12, <1>13, <1>14 DEF IInv

(* merge_tiles is called on two well-formed pyramids.                      *)
LEMMA BeginTilesKeeps == IInv /\ BeginTiles => IInv'
<1> SUFFICES ASSUME IInv, BeginTiles PROVE IInv'
  OBVIOUS
<1>1. /\ stage = "pyramids" /\ stage' = "tiles" /\ todo' = 0 /\ next' = 0 /\ rowid' = <<>>
      /\ outcome' = "checking"
      /\ UNCHANGED <<file, input, chosen, last, carried, unvisited, rowids>>
  BY DEF BeginTiles, fileVars, runVars, pairVars
<1>2. PICK n \in unvisited \cap DOMAIN carried.pyramids :
        /\ merging' = n
        /\ into' = carried.pyramids[n].body
        /\ held' = carried.pyramids[n].body
        /\ from' = input.pyramids[n].body
  BY DEF BeginTiles
<1>3. /\ IsContainer(input) /\ Keyed(input) /\ WellFormed(carried) /\ last = "none"
      /\ DOMAIN New.pyramids = DOMAIN input.pyramids
  BY <1>1, RunFacts
<1>4. Visiting /\ unvisited \subseteq DOMAIN New.pyramids
  BY <1>1 DEF IInv, Visiting
<1>5. /\ into' \in TP!Pyramid /\ TP!RowidsAscend(into'.tiles) /\ TP!KeysDistinct(into'.tiles)
      /\ from' \in TP!Pyramid /\ TP!RowidsAscend(from'.tiles) /\ TP!KeysDistinct(from'.tiles)
  <2>1. n \in DOMAIN input.pyramids /\ n \in DOMAIN carried.pyramids
    BY <1>2, <1>3, <1>4
  <2>2. input.pyramids[n] \in Tiled /\ carried.pyramids[n] \in Tiled
    BY <1>3, <2>1 DEF IsContainer, WellFormed, NamesTo
  <2>3. into' \in Tiles!Pyramid /\ from' \in Tiles!Pyramid
    BY <1>2, <2>2 DEF Tiled
  <2>4. /\ Tiles!RowidsAscend(into'.tiles) /\ Tiles!KeysDistinct(into'.tiles)
        /\ Tiles!RowidsAscend(from'.tiles) /\ Tiles!KeysDistinct(from'.tiles)
    BY <1>2, <1>3, <2>1 DEF Keyed, TilesKeyed, WellFormed
  <2> QED BY <2>3, <2>4, SameTiles
<1>6. TP!IInv'
  <2>1. /\ into'.tiles \in Seq(TP!Tile) /\ from'.tiles \in Seq(TP!Tile)
    BY <1>5 DEF TP!Pyramid
  <2>2. TP!TypeOK'
    BY <1>1, <1>2, <1>5, <2>1 DEF TP!TypeOK
  <2>3. TP!Rows'
    BY <1>2, <1>5 DEF TP!Rows
  <2>4. TP!Prefix' /\ TP!Extras' /\ TP!Placed'
    BY <1>1, <1>2, <2>1 DEF TP!Prefix, TP!Extras, TP!Placed
  <2>5. TP!Phases'
    BY <1>1, <1>2 DEF TP!Phases
  <2> QED BY <2>2, <2>3, <2>4, <2>5 DEF TP!IInv
<1>7. Tiling'
  BY <1>1, <1>2, <1>6 DEF Tiling
<1>8. PP!MapsSound'
  BY <1>1, <1>4 DEF Visiting, PP!MapsSound
<1>9. Visiting'
  BY <1>1, <1>4, <1>8 DEF Visiting, Old, New
<1>10. FileOK' /\ RunOK'
  BY <1>1 DEF IInv, FileOK, RunOK
<1>11. Reconciling' /\ Pairing' /\ Building'
  BY <1>1 DEF Reconciling, Pairing, Building
<1>12. RefusedOnlyOnConflict' /\ WrittenReferencesResolve'
  BY <1>1, <1>3 DEF RefusedOnlyOnConflict, WrittenReferencesResolve
<1> QED BY <1>7, <1>9, <1>10, <1>11, <1>12 DEF IInv

(* The call goes on under its own invariant.                               *)
LEMMA MergeTilesKeeps == IInv /\ MergeTiles => IInv'
<1> SUFFICES ASSUME IInv, MergeTiles PROVE IInv'
  OBVIOUS
<1>1. /\ stage = "tiles" /\ stage' = stage /\ Tiles!Next
      /\ UNCHANGED <<file, input, chosen, last, carried, unvisited, merging, rowids>>
  BY DEF MergeTiles, fileVars, runVars, pairVars
<1>2. TP!IInv /\ TP!Next
  BY <1>1, SameTiles DEF IInv, Tiling
<1>3. TP!IInv'
  BY <1>2, TP!StepKeeps, ConstantsAssumption
<1>4. held' = held /\ from' = from
  BY <1>2 DEF TP!Next, TP!RefuseScheme, TP!Begin, TP!KeepHeld, TP!RefuseOverlap, TP!Reissue,
              TP!Finish
<1>5. Tiling'
  BY <1>1, <1>3, <1>4 DEF IInv, Tiling
<1>6. Visiting'
  BY <1>1 DEF IInv, Visiting, Old, New, PP!MapsSound
<1>7. FileOK' /\ RunOK'
  BY <1>1 DEF IInv, FileOK, RunOK
<1>8. Reconciling' /\ Pairing' /\ Building'
  BY <1>1 DEF Reconciling, Pairing, Building
<1>9. RefusedOnlyOnConflict' /\ WrittenReferencesResolve'
  BY <1>1, RunFacts DEF RefusedOnlyOnConflict, WrittenReferencesResolve
<1> QED BY <1>5, <1>6, <1>7, <1>8, <1>9 DEF IInv

(* The merged pyramid is the union of the two, and its rowid map is sound. *)
LEMMA EndTilesKeeps == IInv /\ EndTiles => IInv'
<1> SUFFICES ASSUME IInv, EndTiles PROVE IInv'
  OBVIOUS
<1> DEFINE n == merging
           done == DOMAIN New.pyramids \ unvisited
           was == carried.pyramids[n]
           p == [was EXCEPT !.body = into]
<1>1. /\ stage = "tiles" /\ outcome = "merged" /\ stage' = "pyramids"
      /\ carried' = [carried EXCEPT !.pyramids[n].body = into]
      /\ rowids' = With(rowids, n, rowid)
      /\ unvisited' = unvisited \ {n}
      /\ UNCHANGED <<file, input, chosen, last>>
  BY DEF EndTiles, fileVars, runVars
<1>2. /\ IsContainer(input) /\ Keyed(input) /\ WellFormed(carried) /\ last = "none"
      /\ DOMAIN New.pyramids = DOMAIN input.pyramids
  BY <1>1, RunFacts
<1>3. /\ n \in unvisited /\ n \in DOMAIN carried.pyramids
      /\ held = was.body /\ from = input.pyramids[n].body /\ TP!IInv
      /\ unvisited \subseteq DOMAIN New.pyramids /\ PyramidsTo(carried, Old, New, done)
      /\ Visiting /\ PP!MapsSound
  BY <1>1 DEF IInv, Tiling, Visiting
<1>4. /\ into \in Tiles!Pyramid /\ Tiles!RowidsAscend(into.tiles) /\ Tiles!KeysDistinct(into.tiles)
      /\ into.scheme = held.scheme
      /\ Tiles!Contents(into.tiles) = Tiles!Contents(held.tiles) \cup Tiles!Contents(from.tiles)
      /\ ~ TP!Conflict
  <2>1. /\ into \in TP!Pyramid /\ TP!RowidsAscend(into.tiles) /\ TP!KeysDistinct(into.tiles)
        /\ into.scheme = held.scheme
    BY <1>3 DEF TP!IInv, TP!TypeOK, TP!Rows, TP!Phases
  <2>2. TP!Contents(into.tiles) = TP!Contents(held.tiles) \cup TP!Contents(from.tiles)
    BY <1>1, <1>3, TP!FinishedIsUnion, ConstantsAssumption DEF TP!MergeIsUnion
  <2>3. ~ TP!Conflict
    BY <1>1, <1>3, TP!RefusalIsExact, ConstantsAssumption DEF TP!RefusedExactlyOnConflict
  <2> QED BY <2>1, <2>2, <2>3, SameTiles
<1>5. /\ n \in Names /\ was \in Tiled /\ p \in Tiled /\ p.ident = was.ident /\ p.body = into
      /\ carried' = Put(carried, n, p)
  <2>1. n \in Names /\ was \in Tiled
    BY <1>2, <1>3 DEF WellFormed, NamesTo
  <2>2. p \in Tiled /\ p.ident = was.ident /\ p.body = into
    BY <1>4, <2>1 DEF Tiled
  <2>3. /\ carried = [pyramids |-> carried.pyramids, tables |-> carried.tables,
                      metadata |-> carried.metadata]
        /\ carried.pyramids = [x \in DOMAIN carried.pyramids |-> carried.pyramids[x]]
    BY <1>2 DEF WellFormed, NamesTo
  <2>4. With(carried.pyramids, n, p) = [carried.pyramids EXCEPT ![n] = p]
    BY <1>3, <2>3 DEF With
  <2>5. carried' = [carried EXCEPT !.pyramids = [carried.pyramids EXCEPT ![n] = p]]
    BY <1>1, <1>3, <2>3
  <2> QED BY <2>1, <2>2, <2>4, <2>5 DEF Put
<1> HIDE DEF p
<1>6. /\ WellFormed(carried') /\ carried'.tables = carried.tables
      /\ carried'.metadata = carried.metadata
      /\ DOMAIN carried'.pyramids = DOMAIN carried.pyramids \cup {n} /\ carried'.pyramids[n] = p
      /\ \A x \in DOMAIN carried.pyramids : x # n => carried'.pyramids[x] = carried.pyramids[x]
  BY <1>2, <1>4, <1>5, PutKeeps
<1>7. DOMAIN New.pyramids \ unvisited' = done \cup {n} /\ n \notin done
  BY <1>1, <1>3
<1> HIDE DEF done
<1>8. /\ n \in DOMAIN Old.pyramids /\ n \in DOMAIN New.pyramids
      /\ Old.pyramids[n] = PyramidBox(was)
  BY <1>3, <1>7 DEF PyramidsTo
<1>9. New.pyramids[n] = PyramidBox(ReadPyramids(input)[n]) /\ ReadPyramids(input)[n].body = from
  <2>1. New.pyramids = [x \in DOMAIN input.pyramids |-> PyramidBox(ReadPyramids(input)[x])]
    BY <1>2, BoxParts DEF New
  <2> QED BY <1>2, <1>3, <1>8, <2>1, ReadContent
<1> DEFINE h == Tiles!Contents(held.tiles)
           f == Tiles!Contents(from.tiles)
<1>10. /\ Old.pyramids[n] = [ident |-> was.ident, scheme |-> held.scheme, tiles |-> h]
       /\ New.pyramids[n].scheme = from.scheme /\ New.pyramids[n].tiles = f
       /\ PyramidBox(p) = [ident |-> was.ident, scheme |-> held.scheme, tiles |-> h \cup f]
  <2>1. Old.pyramids[n] = [ident |-> was.ident, scheme |-> held.scheme, tiles |-> h]
    BY <1>3, <1>8 DEF PyramidBox
  <2>2. New.pyramids[n].scheme = from.scheme /\ New.pyramids[n].tiles = f
    BY <1>9 DEF PyramidBox
  <2>3. PyramidBox(p) = [ident |-> p.ident, scheme |-> into.scheme,
                         tiles |-> Tiles!Contents(into.tiles)]
    BY <1>5 DEF PyramidBox
  <2> QED BY <1>4, <1>5, <2>1, <2>2, <2>3
<1> HIDE DEF h, f
<1>11. PyramidBox(p) = UnionAt(Old, New, n)
  <2>1. UnionAt(Old, New, n) = Abs!MergedPyramid(Old.pyramids[n], New.pyramids[n])
    BY <1>8 DEF UnionAt
  <2>2. \A i, s, t, q : Abs!MergedPyramid([ident |-> i, scheme |-> s, tiles |-> t], q)
                          = [ident |-> i, scheme |-> s, tiles |-> t \cup q.tiles]
    BY DEF Abs!MergedPyramid
  <2>3. Abs!MergedPyramid(Old.pyramids[n], New.pyramids[n])
          = [ident |-> was.ident, scheme |-> held.scheme, tiles |-> h \cup New.pyramids[n].tiles]
    BY <1>10, <2>2
  <2> QED BY <1>10, <2>1, <2>3
<1>12. ~ DifferAt(Old, New, n)
  BY <1>4, <1>10, SameTiles DEF TP!Conflict, DifferAt, Abs!Overlap, h, f
<1>13. PyramidsTo(carried', Old, New, done \cup {n})
  <2>1. DOMAIN carried'.pyramids = DOMAIN Old.pyramids \cup (done \cup {n})
    BY <1>3, <1>6, <1>8 DEF PyramidsTo
  <2>2. ASSUME NEW x \in DOMAIN carried'.pyramids
        PROVE  PyramidBox(carried'.pyramids[x])
                 = IF x \in done \cup {n} THEN UnionAt(Old, New, x) ELSE Old.pyramids[x]
    <3>1. CASE x = n
      BY <1>6, <1>11, <3>1
    <3>2. CASE x # n
      BY <1>3, <1>6, <3>2 DEF PyramidsTo
    <3> QED BY <3>1, <3>2
  <2>3. \A x \in (done \cup {n}) \cap DOMAIN Old.pyramids : ~ DifferAt(Old, New, x)
    BY <1>3, <1>12 DEF PyramidsTo
  <2> QED BY <2>1, <2>2, <2>3 DEF PyramidsTo
<1>14. PP!MapsSound'
  <2>1. DOMAIN rowid \subseteq PP!Ids /\ \A r \in DOMAIN rowid : rowid[r] \in PP!Ids
    <3>1. /\ from.tiles \in Seq(TP!Tile) /\ into.tiles \in Seq(TP!Tile)
          /\ todo \in Nat /\ todo <= Len(from.tiles) /\ TP!Placed
      BY <1>3 DEF TP!IInv, TP!TypeOK, TP!Pyramid
    <3>2. /\ \A i \in 1..todo : from.tiles[i] \in TP!Tile
          /\ \A j \in DOMAIN into.tiles : into.tiles[j] \in TP!Tile
      BY <3>1
    <3>3. DOMAIN rowid \subseteq PP!Ids
      BY <3>1, <3>2 DEF TP!Placed, TP!Tile, PP!Ids
    <3>4. ASSUME NEW i \in 1..todo PROVE rowid[from.tiles[i].id] \in PP!Ids
      BY <3>1, <3>2 DEF TP!Placed, TP!Tile, PP!Ids
    <3> QED BY <3>1, <3>3, <3>4 DEF TP!Placed
  <2>2. DOMAIN rowids' = DOMAIN rowids \cup {n}
        /\ \A x \in DOMAIN rowids' : rowids'[x] = IF x = n THEN rowid ELSE rowids[x]
    BY <1>1 DEF With
  <2> QED BY <1>3, <2>1, <2>2 DEF PP!MapsSound
<1>15. unvisited' \subseteq DOMAIN New.pyramids
  BY <1>1, <1>3
<1>16. Visiting'
  BY <1>1, <1>3, <1>6, <1>7, <1>13, <1>14, <1>15 DEF Visiting, Old, New
<1>17. FileOK' /\ RunOK'
  BY <1>1, <1>6 DEF IInv, FileOK, RunOK
<1>18. Reconciling' /\ Tiling' /\ Pairing' /\ Building'
  BY <1>1 DEF Reconciling, Tiling, Pairing, Building
<1>19. RefusedOnlyOnConflict' /\ WrittenReferencesResolve'
  BY <1>1, <1>2 DEF RefusedOnlyOnConflict, WrittenReferencesResolve
<1> QED BY <1>16, <1>17, <1>18, <1>19 DEF IInv

-----------------------------------------------------------------------------
(* The tables of both sides, none under a name of another kind; the merge   *)
(* of the pair is called on two sorted readings.                           *)
LEMMA MergeTablesKeeps == IInv /\ MergeTables => IInv'
<1> SUFFICES ASSUME IInv, MergeTables PROVE IInv'
  OBVIOUS
<1>1. /\ stage = "pyramids" /\ stage' = "metadata" /\ unvisited = {} /\ SharedTables = {}
      /\ carried' = [carried EXCEPT !.tables = Over(carried.tables, input.tables)]
      /\ dest' = carried.metadata /\ source' = ReadMetadata(input)
      /\ merged' = None /\ ids' = <<>> /\ seen' = 0 /\ phase' = "start"
      /\ UNCHANGED <<file, input, chosen, last, rowids>>
  BY DEF MergeTables, PyramidsDone, fileVars, runVars
<1>2. /\ IsContainer(input) /\ Keyed(input) /\ WellFormed(carried) /\ last = "none"
      /\ DOMAIN New.pyramids = DOMAIN input.pyramids /\ New.tables = input.tables
      /\ IsContainer(file) /\ Keyed(file)
      /\ DOMAIN Old.pyramids = DOMAIN file.pyramids /\ Old.tables = file.tables
  BY <1>1, RunFacts
<1>3. /\ PyramidsTo(carried, Old, New, DOMAIN New.pyramids)
      /\ carried.tables = Old.tables /\ carried.metadata = ReadMetadata(file)
      /\ DOMAIN New.pyramids \cap DOMAIN Old.tables = {}
      /\ DOMAIN New.tables \cap DOMAIN Old.pyramids = {}
      /\ PP!MapsSound
  <2>1. DOMAIN New.pyramids \ unvisited = DOMAIN New.pyramids
    BY <1>1
  <2> QED BY <1>1, <2>1 DEF IInv, Visiting
<1>4. /\ carried' = [pyramids |-> carried'.pyramids, tables |-> carried'.tables,
                     metadata |-> carried'.metadata]
      /\ carried'.pyramids = carried.pyramids /\ carried'.metadata = carried.metadata
      /\ carried'.tables = Over(Old.tables, New.tables)
  BY <1>1, <1>2, <1>3 DEF WellFormed
<1>5. /\ DOMAIN carried'.tables = DOMAIN Old.tables \cup DOMAIN New.tables
      /\ carried'.tables = [n \in DOMAIN carried'.tables |-> carried'.tables[n]]
      /\ \A n \in DOMAIN carried'.tables :
           carried'.tables[n] = IF n \in DOMAIN New.tables THEN New.tables[n] ELSE Old.tables[n]
      /\ carried'.tables = Abs!Over(Old.tables, New.tables)
  BY <1>4 DEF Over, Abs!Over
<1>6. WellFormed(carried')
  <2>1. NamesTo(Old.tables, Table) /\ NamesTo(New.tables, Table)
    BY <1>2 DEF IsContainer
  <2>2. \A n \in DOMAIN carried'.tables : n \in Names /\ carried'.tables[n] \in Table
    BY <1>5, <2>1 DEF NamesTo
  <2>3. NamesTo(carried'.tables, Table)
    BY <1>5, <2>2 DEF NamesTo
  <2> QED BY <1>2, <1>4, <2>3 DEF WellFormed, TilesKeyed
<1>7. TablesMerged(carried', Old, New)
  <2>1. DOMAIN Old.tables \cap DOMAIN New.tables = {}
    BY <1>1, <1>2, <1>3 DEF SharedTables
  <2>2. /\ DOMAIN Old.pyramids \cap DOMAIN Old.tables = {}
        /\ DOMAIN New.pyramids \cap DOMAIN New.tables = {}
    BY <1>2 DEF Keyed, NamesApart
  <2>3. DOMAIN carried'.pyramids = DOMAIN Old.pyramids \cup DOMAIN New.pyramids
    BY <1>3, <1>4 DEF PyramidsTo
  <2>4. DOMAIN carried'.pyramids \cap DOMAIN carried'.tables = {}
    BY <1>3, <1>5, <2>2, <2>3
  <2> QED BY <1>5, <2>1, <2>4 DEF TablesMerged
<1>8. PyramidsTo(carried', Old, New, DOMAIN New.pyramids)
  BY <1>3, <1>4 DEF PyramidsTo
<1>9. PP!IInv' /\ PP!Followed' /\ PP!DocsFollowed'
  <2>1. /\ dest' = ReadMetadata(file) /\ dest' \in PP!Metadata \cup {None}
        /\ source' = ReadMetadata(input) /\ source' \in PP!Metadata \cup {None}
        /\ dest' # None => PP!Ascending(dest'.records)
        /\ source' # None => PP!Ascending(source'.records)
    BY <1>1, <1>2, <1>3, ReadPair, SamePair
  <2>2. PP!TypeOK'
    BY <1>1, <2>1 DEF PP!TypeOK, PP!Merging
  <2>3. PP!Sorted' /\ PP!MapsSound'
    BY <1>1, <1>3, <2>1 DEF PP!Sorted, PP!MapsSound
  <2>4. PP!Built' /\ PP!MapFaithful' /\ PP!Start' /\ PP!OneSided'
    BY <1>1 DEF PP!Built, PP!MapFaithful, PP!Start, PP!OneSided, PP!Merging
  <2>5. PP!Followed' /\ PP!DocsFollowed'
    BY <1>1 DEF PP!Followed, PP!RecordsKept, PP!MapComplete, PP!RefsFollowed, PP!DocsFollowed,
                PP!Both, PP!Merging
  <2> QED BY <2>2, <2>3, <2>4, <2>5 DEF PP!IInv
<1>10. Pairing'
  BY <1>1, <1>3, <1>7, <1>8, <1>9 DEF Pairing, Old, New
<1>11. FileOK' /\ RunOK'
  BY <1>1, <1>6 DEF IInv, FileOK, RunOK
<1>12. Reconciling' /\ Visiting' /\ Tiling' /\ Building'
  BY <1>1 DEF Reconciling, Visiting, Tiling, Building
<1>13. RefusedOnlyOnConflict' /\ WrittenReferencesResolve'
  BY <1>1, <1>2 DEF RefusedOnlyOnConflict, WrittenReferencesResolve
<1> QED BY <1>10, <1>11, <1>12, <1>13 DEF IInv

(* A step of merge_metadata keeps the component's own invariant.           *)
LEMMA MergePairKeeps == IInv /\ MergePair => IInv'
<1> SUFFICES ASSUME IInv, MergePair PROVE IInv'
  OBVIOUS
<1>1. /\ stage = "metadata" /\ stage' = stage /\ Pair!Next
      /\ UNCHANGED <<file, input, chosen, last, carried>>
  BY DEF MergePair, fileVars, runVars
<1>2. PP!IInv /\ PP!Followed /\ PP!DocsFollowed /\ PP!Next
  BY <1>1, SamePair DEF IInv, Pairing
<1>3. None \notin PP!Metadata
  BY SamePair, ConstantsAssumption
<1>4. PP!IInv'
  BY <1>2, <1>3, PP!StepKeeps, ConstantsAssumption
<1>5. PP!Followed' /\ PP!DocsFollowed'
  BY <1>2, <1>3, PP!FollowedKeeps, PP!DocsFollowedKeeps, ConstantsAssumption
<1>6. dest' = dest /\ source' = source
  BY <1>2, <1>3, PP!SidesStand, ConstantsAssumption DEF PP!inputs
<1>7. Pairing'
  BY <1>1, <1>4, <1>5, <1>6 DEF IInv, Pairing, Old, New
<1>8. FileOK' /\ RunOK'
  BY <1>1 DEF IInv, FileOK, RunOK
<1>9. Reconciling' /\ Visiting' /\ Tiling' /\ Building'
  BY <1>1 DEF Reconciling, Visiting, Tiling, Building
<1>10. RefusedOnlyOnConflict' /\ WrittenReferencesResolve'
  BY <1>1, RunFacts DEF RefusedOnlyOnConflict, WrittenReferencesResolve
<1> QED BY <1>7, <1>8, <1>9, <1>10 DEF IInv

(* What the merge of the pair hands back keeps what the file stated.       *)
LEMMA EndPairKeeps == IInv /\ EndPair => IInv'
<1> SUFFICES ASSUME IInv, EndPair PROVE IInv'
  OBVIOUS
<1>1. /\ stage = "metadata" /\ stage' = "build" /\ phase = "done"
      /\ carried' = [carried EXCEPT !.metadata = merged]
      /\ UNCHANGED <<file, input, chosen, last>>
  BY DEF EndPair, fileVars, runVars
<1>2. /\ IsContainer(input) /\ Keyed(input) /\ WellFormed(carried) /\ last = "none"
      /\ IsContainer(file) /\ Keyed(file)
  BY <1>1, RunFacts
<1>3. /\ PyramidsTo(carried, Old, New, DOMAIN New.pyramids) /\ TablesMerged(carried, Old, New)
      /\ dest = ReadMetadata(file) /\ source = ReadMetadata(input)
      /\ PP!IInv /\ PP!Followed /\ PP!DocsFollowed
  BY <1>1 DEF IInv, Pairing
<1>4. /\ carried' = [pyramids |-> carried'.pyramids, tables |-> carried'.tables,
                     metadata |-> carried'.metadata]
      /\ carried'.pyramids = carried.pyramids /\ carried'.tables = carried.tables
      /\ carried'.metadata = merged
  BY <1>1, <1>2 DEF WellFormed
<1>5. None \notin PP!Metadata
  BY SamePair, ConstantsAssumption
<1>6. /\ merged \in PP!Metadata \cup {None}
      /\ merged # None => PP!IdsDistinct(merged.records)
      /\ PP!DocsOf(merged) = PP!DocsOf(dest) \cup PP!DocsOf(source)
      /\ dest # None =>
           /\ merged # None
           /\ \A i \in DOMAIN dest.records :
                i \in DOMAIN merged.records /\ merged.records[i] = dest.records[i]
           /\ PP!Members(dest.refs) \subseteq PP!Members(merged.refs)
  BY <1>1, <1>3, <1>5, PP!MergedPair, ConstantsAssumption
<1>7. WellFormed(carried')
  BY <1>2, <1>4, <1>6, SamePair DEF WellFormed, TilesKeyed
<1>8. United(carried', Old, New)
  <2>1. PP!DocsOf(merged) = Old.docs \cup New.docs
    BY <1>2, <1>3, <1>6, BoxParts DEF Old, New
  <2> QED BY <1>3, <1>4, <2>1 DEF United, PyramidsTo, TablesMerged
<1>9. Keeps(merged, file.metadata)
  <2>1. Keeps(dest, file.metadata)
    BY <1>2, <1>3, ReadPair
  <2>2. SUFFICES ASSUME file.metadata # None
                 PROVE  Keeps(merged, file.metadata)
    BY DEF Keeps
  <2>3. dest # None /\ merged # None
    BY <1>6, <2>1, <2>2 DEF Keeps
  <2>4. ASSUME NEW i \in DOMAIN file.metadata.records
        PROVE  \E j \in DOMAIN merged.records : merged.records[j] = file.metadata.records[i]
    BY <1>6, <2>1, <2>2, <2>3 DEF Keeps
  <2>5. ASSUME NEW i \in DOMAIN file.metadata.refs
        PROVE  \E j \in DOMAIN merged.refs : merged.refs[j] = file.metadata.refs[i]
    <3>1. file.metadata.refs[i] \in PP!Members(dest.refs)
      BY <2>1, <2>2 DEF Keeps, PP!Members
    <3>2. file.metadata.refs[i] \in PP!Members(merged.refs)
      BY <1>6, <2>3, <3>1
    <3> QED BY <3>2 DEF PP!Members
  <2> QED BY <2>3, <2>4, <2>5 DEF Keeps
<1>10. Building'
  BY <1>1, <1>4, <1>8, <1>9 DEF Building, Old, New
<1>11. FileOK' /\ RunOK'
  BY <1>1, <1>7 DEF IInv, FileOK, RunOK
<1>12. Reconciling' /\ Visiting' /\ Tiling' /\ Pairing'
  BY <1>1 DEF Reconciling, Visiting, Tiling, Pairing
<1>13. RefusedOnlyOnConflict' /\ WrittenReferencesResolve'
  BY <1>1, <1>2 DEF RefusedOnlyOnConflict, WrittenReferencesResolve
<1> QED BY <1>10, <1>11, <1>12, <1>13 DEF IInv

-----------------------------------------------------------------------------
(* The rows of gpkg_contents clash exactly when the entries of the content *)
(* do: a table that is not registered has no identifier to clash with.     *)
LEMMA RowsAreEntries ==
  ASSUME NEW k, NEW u, u.tables = k.tables, DOMAIN u.pyramids = DOMAIN k.pyramids,
         \A n \in DOMAIN k.pyramids : u.pyramids[n].ident = k.pyramids[n].ident,
         \A n \in DOMAIN k.tables : k.tables[n] \in Table
  PROVE  (\E x, y \in ContentsRows(u.layers, k) : x # y /\ x[3] = y[3] /\ x[3] # None)
           <=> Abs!IdentifiersClash(u)
<1> DEFINE rows == ContentsRows(u.layers, k)
           entries == Abs!Entries(u)
           tag == [t \in {"features", "tiles", "attributes"} |->
                     IF t = "features" THEN "layer" ELSE IF t = "tiles" THEN "pyramid" ELSE "table"]
           entry(x) == <<tag[x[1]], x[2], x[3]>>
<1>1. ASSUME NEW x \in rows PROVE entry(x) \in entries
  <2>1. CASE \E n \in DOMAIN u.layers : x = <<"features", n, u.layers[n].ident>>
    BY <2>1 DEF Abs!Entries
  <2>2. CASE \E n \in DOMAIN k.pyramids : x = <<"tiles", n, k.pyramids[n].ident>>
    BY <2>2 DEF Abs!Entries
  <2>3. CASE \E n \in DOMAIN k.tables : x = <<"attributes", n, k.tables[n].ident>>
    BY <2>3 DEF Abs!Entries
  <2> QED BY <2>1, <2>2, <2>3 DEF ContentsRows
<1>2. ASSUME NEW x \in rows, NEW y \in rows, entry(x) = entry(y) PROVE x = y
  <2>1. ASSUME NEW z \in rows
        PROVE  /\ z = <<z[1], z[2], z[3]>> /\ z[1] \in {"features", "tiles", "attributes"}
    BY DEF ContentsRows
  <2>2. tag[x[1]] = tag[y[1]] /\ x[2] = y[2] /\ x[3] = y[3]
    BY <1>2
  <2>3. x[1] = y[1]
    BY <2>1, <2>2
  <2> HIDE DEF rows
  <2> QED BY <2>1, <2>2, <2>3
<1>3. ASSUME NEW e \in entries, e[3] # None PROVE \E x \in rows : entry(x) = e
  <2>1. CASE \E n \in DOMAIN u.layers : e = <<"layer", n, u.layers[n].ident>>
    <3>1. PICK n \in DOMAIN u.layers : e = <<"layer", n, u.layers[n].ident>>
      BY <2>1
    <3>2. <<"features", n, u.layers[n].ident>> \in rows
      BY DEF ContentsRows
    <3>3. entry(<<"features", n, u.layers[n].ident>>) = e
      BY <3>1
    <3> QED BY <3>2, <3>3
  <2>2. CASE \E n \in DOMAIN u.pyramids : e = <<"pyramid", n, u.pyramids[n].ident>>
    <3>1. PICK n \in DOMAIN u.pyramids : e = <<"pyramid", n, u.pyramids[n].ident>>
      BY <2>2
    <3>2. <<"tiles", n, k.pyramids[n].ident>> \in rows
      BY DEF ContentsRows
    <3>3. entry(<<"tiles", n, k.pyramids[n].ident>>) = e
      BY <3>1
    <3> QED BY <3>2, <3>3
  <2>3. CASE \E n \in DOMAIN u.tables : e = <<"table", n, u.tables[n].ident>>
    <3>1. PICK n \in DOMAIN u.tables : e = <<"table", n, u.tables[n].ident>>
      BY <2>3
    <3>2. k.tables[n].registered
      BY <1>3, <3>1 DEF Table
    <3>3. <<"attributes", n, k.tables[n].ident>> \in rows
      BY <3>1, <3>2 DEF ContentsRows
    <3>4. entry(<<"attributes", n, k.tables[n].ident>>) = e
      BY <3>1
    <3> QED BY <3>3, <3>4
  <2> QED BY <2>1, <2>2, <2>3 DEF Abs!Entries
<1>4. \A x : entry(x)[3] = x[3]
  OBVIOUS
<1>5. /\ \A x \in rows : entry(x) \in entries
      /\ \A x, y \in rows : entry(x) = entry(y) => x = y
      /\ \A e \in entries : e[3] # None => \E x \in rows : entry(x) = e
  BY <1>1, <1>2, <1>3
<1> HIDE DEF rows, entries, entry, tag
<1>6. ASSUME NEW x \in rows, NEW y \in rows, x # y, x[3] = y[3], x[3] # None
      PROVE  \E d, e \in entries : d # e /\ d[3] = e[3] /\ d[3] # None
  BY <1>4, <1>5, <1>6
<1>7. ASSUME NEW d \in entries, NEW e \in entries, d # e, d[3] = e[3], d[3] # None
      PROVE  \E x, y \in rows : x # y /\ x[3] = y[3] /\ x[3] # None
  <2>1. PICK x \in rows : entry(x) = d
    BY <1>5, <1>7
  <2>2. PICK y \in rows : entry(y) = e
    BY <1>5, <1>7
  <2> QED BY <1>4, <1>7, <2>1, <2>2
<1> QED BY <1>6, <1>7 DEF Abs!IdentifiersClash, rows, entries

(* What build is given is the union, and it refuses when there is none.    *)
LEMMA BuildIsUnion ==
  ASSUME IInv, stage = "build"
  PROVE  /\ Abs!Union(Old, New, chosen)
              = [layers   |-> Layers,
                 pyramids |-> [n \in DOMAIN carried.pyramids |-> PyramidBox(carried.pyramids[n])],
                 tables   |-> carried.tables,
                 docs     |-> PP!DocsOf(carried.metadata)]
         /\ Abs!Conflict(Old, New, chosen) <=> NameTaken \/ IdentifierTaken
         /\ NamesTo(Layers, Layer) /\ WellFormed(carried)
         /\ \A n \in DOMAIN Layers : Layers[n].ident # None
         /\ \A n \in DOMAIN carried.pyramids : carried.pyramids[n].ident # None
         /\ DOMAIN carried.pyramids \cap DOMAIN carried.tables = {}
<1> DEFINE u == Abs!Union(Old, New, chosen)
<1>1. /\ IsContainer(input) /\ Keyed(input) /\ WellFormed(carried)
      /\ file # Absent => IsContainer(file) /\ Keyed(file)
      /\ United(carried, Old, New) /\ chosen \subseteq DOMAIN input.layers
  BY RunFacts DEF IInv, RunOK, FileOK, Building, Choices
<1>2. /\ New.layers = ReadLayers(input) /\ DOMAIN New.layers = DOMAIN input.layers
      /\ NamesTo(New.layers, Layer)
      /\ \A n \in DOMAIN New.layers : New.layers[n].ident # None
      /\ \A n \in DOMAIN New.pyramids : New.pyramids[n].ident # None
  BY <1>1, ReadContent, BoxParts, BoxIdents DEF New
<1>3. /\ Old.layers = IF file = Absent THEN <<>> ELSE ReadLayers(file)
      /\ NamesTo(Old.layers, Layer)
      /\ \A n \in DOMAIN Old.layers : Old.layers[n].ident # None
      /\ \A n \in DOMAIN Old.pyramids :
           /\ Old.pyramids[n].ident # None
           /\ Old.pyramids[n] = [ident |-> Old.pyramids[n].ident,
                                 scheme |-> Old.pyramids[n].scheme,
                                 tiles |-> Old.pyramids[n].tiles]
  <2>1. CASE file = Absent
    <3>1. NamesTo(<<>>, Layer)
      BY DEF NamesTo
    <3> QED BY <2>1, <3>1, BoxOfAbsent DEF Old
  <2>2. CASE file # Absent
    <3>1. Old.pyramids = [n \in DOMAIN file.pyramids |-> PyramidBox(ReadPyramids(file)[n])]
      BY <1>1, <2>2, BoxParts DEF Old
    <3> QED BY <1>1, <2>2, <3>1, ReadContent, BoxParts, BoxIdents DEF Old, PyramidBox
  <2> QED BY <2>1, <2>2
<1>4. u = [layers   |-> Abs!Over(Old.layers, Abs!Chosen(New.layers, chosen)),
           pyramids |-> [n \in DOMAIN Old.pyramids \cup DOMAIN New.pyramids |->
                           UnionAt(Old, New, n)],
           tables   |-> Abs!Over(Old.tables, New.tables),
           docs     |-> Old.docs \cup New.docs]
  BY DEF Abs!Union, UnionAt
<1> HIDE DEF u
<1>5. Layers = Abs!Over(Old.layers, Abs!Chosen(New.layers, chosen))
  <2> DEFINE new == [n \in chosen |-> New.layers[n]]
  <2>1. new = Abs!Chosen(New.layers, chosen) /\ new = Chosen(ReadLayers(input), chosen)
    BY <1>2 DEF Abs!Chosen, Chosen
  <2>2. CASE file = Absent
    <3>1. Layers = new
      BY <2>1, <2>2 DEF Layers
    <3>2. Abs!Over(<<>>, new) = new
      BY DEF Abs!Over
    <3> QED BY <1>3, <2>1, <2>2, <3>1, <3>2
  <2>3. CASE file # Absent
    <3>1. Layers = Over(ReadLayers(file), new)
      BY <2>1, <2>3 DEF Layers
    <3>2. Over(ReadLayers(file), new) = Abs!Over(ReadLayers(file), new)
      BY DEF Over, Abs!Over
    <3> QED BY <1>3, <2>1, <2>3, <3>1, <3>2
  <2> QED BY <2>2, <2>3
<1>6. /\ NamesTo(Layers, Layer)
      /\ \A n \in DOMAIN Layers : Layers[n].ident # None
  <2>1. /\ Layers = [n \in DOMAIN Layers |-> Layers[n]]
        /\ DOMAIN Layers = DOMAIN Old.layers \cup chosen
        /\ \A n \in DOMAIN Layers :
             Layers[n] = IF n \in chosen THEN New.layers[n] ELSE Old.layers[n]
    BY <1>5 DEF Abs!Over, Abs!Chosen
  <2>2. \A n \in DOMAIN Layers : n \in Names /\ Layers[n] \in Layer /\ Layers[n].ident # None
    BY <1>1, <1>2, <1>3, <2>1 DEF NamesTo
  <2> QED BY <2>1, <2>2 DEF NamesTo
<1>7. /\ PyramidsTo(carried, Old, New, DOMAIN New.pyramids) /\ TablesMerged(carried, Old, New)
      /\ PP!DocsOf(carried.metadata) = Old.docs \cup New.docs
  BY <1>1 DEF United
<1>8. /\ DOMAIN carried.pyramids = DOMAIN Old.pyramids \cup DOMAIN New.pyramids
      /\ \A n \in DOMAIN carried.pyramids :
           PyramidBox(carried.pyramids[n]) = UnionAt(Old, New, n)
  BY <1>7 DEF PyramidsTo, UnionAt
<1>9. u = [layers   |-> Layers,
           pyramids |-> [n \in DOMAIN carried.pyramids |-> PyramidBox(carried.pyramids[n])],
           tables   |-> carried.tables,
           docs     |-> PP!DocsOf(carried.metadata)]
  BY <1>4, <1>5, <1>7, <1>8 DEF TablesMerged
<1>10. \A n \in DOMAIN carried.pyramids : carried.pyramids[n].ident # None
  <2>1. ASSUME NEW n \in DOMAIN carried.pyramids
        PROVE  UnionAt(Old, New, n).ident # None
    <3>1. CASE n \in DOMAIN Old.pyramids
      <4>1. \A p, q : p = [ident |-> p.ident, scheme |-> p.scheme, tiles |-> p.tiles] =>
                        Abs!MergedPyramid(p, q).ident = p.ident
        BY DEF Abs!MergedPyramid
      <4>2. Abs!MergedPyramid(Old.pyramids[n], New.pyramids[n]).ident = Old.pyramids[n].ident
        BY <1>3, <3>1, <4>1
      <4> QED BY <1>3, <3>1, <4>2 DEF UnionAt
    <3>2. CASE n \notin DOMAIN Old.pyramids
      BY <1>2, <1>8, <3>2 DEF UnionAt
    <3> QED BY <3>1, <3>2
  <2>2. \A n \in DOMAIN carried.pyramids :
          PyramidBox(carried.pyramids[n]).ident = carried.pyramids[n].ident
    BY DEF PyramidBox
  <2> QED BY <1>8, <2>1, <2>2
<1>11. DOMAIN carried.pyramids \cap DOMAIN carried.tables = {}
  BY <1>7 DEF TablesMerged
<1>12. ~ Abs!PyramidsDiffer(Old, New)
  BY <1>7 DEF Abs!PyramidsDiffer, PyramidsTo, DifferAt
<1>13. Abs!NamesClash(Old, New, u) <=> NameTaken
  <2>1. DOMAIN Old.tables \cap DOMAIN New.tables = {}
    BY <1>7 DEF TablesMerged
  <2> QED BY <1>9, <1>11, <2>1 DEF Abs!NamesClash, NameTaken
<1>14. Abs!IdentifiersClash(u) <=> IdentifierTaken
  <2>1. /\ u.layers = Layers /\ u.tables = carried.tables
        /\ DOMAIN u.pyramids = DOMAIN carried.pyramids
        /\ \A n \in DOMAIN carried.pyramids : u.pyramids[n].ident = carried.pyramids[n].ident
    BY <1>9 DEF PyramidBox
  <2>2. \A n \in DOMAIN carried.tables : carried.tables[n] \in Table
    BY <1>1 DEF WellFormed, NamesTo
  <2> QED BY <2>1, <2>2, RowsAreEntries DEF IdentifierTaken
<1>15. Abs!Conflict(Old, New, chosen) <=> NameTaken \/ IdentifierTaken
  BY <1>12, <1>13, <1>14 DEF Abs!Conflict, u
<1> QED BY <1>1, <1>6, <1>9, <1>10, <1>11, <1>15 DEF u

(* A table name or an identifier that two tables would share.              *)
LEMMA RefuseBuildKeeps == IInv /\ RefuseBuild => IInv'
BY BuildIsUnion, RefuseKeeps DEF RefuseBuild

-----------------------------------------------------------------------------
(* A reference that is kept resolves where it was judged to.               *)
LEMMA KeptResolves ==
  ASSUME NEW r \in Pair!Reference, NEW docs, NEW layers, NEW k,
         Retainable(r, docs, layers, k)
  PROVE  /\ Normalised(r, docs).file \in docs
         /\ Normalised(r, docs).parent = None \/
              (/\ Normalised(r, docs).parent \in docs
               /\ Normalised(r, docs).parent # Normalised(r, docs).file)
         /\ Normalised(r, docs).scope # "geopackage" =>
              Locates(Normalised(r, docs), layers, k)
<1> DEFINE w == Normalised(r, docs)
<1>1. /\ w.file = r.file /\ w.scope = r.scope
      /\ w.table = IF r.scope = "geopackage" THEN None ELSE r.table
      /\ w.column = IF WantsColumn(r.scope) THEN r.column ELSE None
      /\ w.row = IF WantsRow(r.scope) THEN r.row ELSE None
      /\ w.parent = IF r.parent \in docs \ {r.file} THEN r.parent ELSE None
  BY DEF Normalised, Pair!Reference
<1> HIDE DEF w
<1>2. w.scope # "geopackage" => Locates(w, layers, k)
  BY <1>1 DEF Retainable, Locates
<1> QED BY <1>1, <1>2 DEF Retainable, w

(* The pair that is written has the records and the references kept.       *)
LEMMA WrittenPair ==
  ASSUME NEW md \in Pair!Metadata \cup {None}, NEW layers, NEW k
  PROVE  /\ WrittenMetadata(md, layers, k) \in Pair!Metadata \cup {None}
         /\ WrittenMetadata(md, layers, k) = None <=> md = None
         /\ md # None => /\ WrittenMetadata(md, layers, k).records = md.records
                         /\ WrittenMetadata(md, layers, k).refs = RetainedReferences(md, layers, k)
         /\ PP!DocsOf(WrittenMetadata(md, layers, k)) = PP!DocsOf(md)
<1>1. CASE md = None
  BY <1>1 DEF WrittenMetadata, PP!DocsOf
<1>2. CASE md # None
  <2> DEFINE w == WrittenMetadata(md, layers, k)
  <2>1. w = [md EXCEPT !.refs = RetainedReferences(md, layers, k)] /\ md \in Pair!Metadata
    BY <1>2 DEF WrittenMetadata
  <2>2. RetainedReferences(md, layers, k) \in Seq(Pair!Reference)
    BY <2>1, RetainedMembers
  <2> HIDE DEF w
  <2>3. /\ w \in Pair!Metadata /\ w.records = md.records
        /\ w.refs = RetainedReferences(md, layers, k)
    BY <2>1, <2>2 DEF Pair!Metadata
  <2>4. w # None
    BY <2>3, ConstantsAssumption
  <2>5. PP!DocsOf(w) = PP!DocsOf(md)
    BY <1>2, <2>3, <2>4 DEF PP!DocsOf
  <2> QED BY <1>2, <2>3, <2>4, <2>5 DEF w
<1> QED BY <1>1, <1>2

(* A file whose tables all have identifiers reads back as it was written.  *)
LEMMA ReadsBack ==
  ASSUME NEW c, IsContainer(c), Keyed(c),
         \A n \in DOMAIN c.layers : c.layers[n].ident # None,
         \A n \in DOMAIN c.pyramids : c.pyramids[n].ident # None
  PROVE  Box(c) = [layers   |-> c.layers,
                   pyramids |-> [n \in DOMAIN c.pyramids |-> PyramidBox(c.pyramids[n])],
                   tables   |-> c.tables,
                   docs     |-> PP!DocsOf(c.metadata)]
<1>1. NamesTo(c.layers, Layer) /\ NamesTo(c.pyramids, Tiled)
  BY DEF IsContainer
<1>2. ReadLayers(c) = c.layers
  <2>1. \A n \in DOMAIN c.layers :
          [c.layers[n] EXCEPT !.ident = IF @ = None THEN n ELSE @] = c.layers[n]
    BY <1>1 DEF NamesTo, Layer
  <2>2. c.layers = [n \in DOMAIN c.layers |-> c.layers[n]]
    BY <1>1 DEF NamesTo
  <2> QED BY <2>1, <2>2 DEF ReadLayers
<1>3. ReadPyramids(c) = c.pyramids
  <2>1. \A n \in DOMAIN c.pyramids :
          [c.pyramids[n] EXCEPT !.ident = IF @ = None THEN Blank ELSE @] = c.pyramids[n]
    BY <1>1 DEF NamesTo, Tiled
  <2>2. c.pyramids = [n \in DOMAIN c.pyramids |-> c.pyramids[n]]
    BY <1>1 DEF NamesTo
  <2> QED BY <2>1, <2>2 DEF ReadPyramids
<1>4. Box(c) = BoxOf(c, c.layers, c.pyramids)
  BY <1>2, <1>3, ContainerIsPresent DEF Box
<1> QED BY <1>4 DEF BoxOf, PP!DocsOf

(* A write puts back the union, in a file that reads back.                 *)
LEMMA WriteIsUnion ==
  ASSUME IInv, Write
  PROVE  /\ IsContainer(file') /\ Keyed(file')
         /\ Box(file') = Abs!Union(Old, New, chosen)
         /\ ~ Abs!Conflict(Old, New, chosen)
         /\ input \in Sources /\ chosen \in Choices(input)
         /\ file'.layers = Layers /\ file'.pyramids = carried.pyramids
         /\ file'.tables = carried.tables
         /\ file'.metadata = WrittenMetadata(carried.metadata, Layers, carried)
<1>1. /\ stage = "build" /\ ~ NameTaken /\ ~ IdentifierTaken
      /\ file' = [layers |-> Layers, pyramids |-> carried.pyramids, tables |-> carried.tables,
                  metadata |-> WrittenMetadata(carried.metadata, Layers, carried)]
  BY DEF Write
<1>2. /\ file'.layers = Layers /\ file'.pyramids = carried.pyramids
      /\ file'.tables = carried.tables
      /\ file'.metadata = WrittenMetadata(carried.metadata, Layers, carried)
      /\ file' = [layers |-> file'.layers, pyramids |-> file'.pyramids,
                  tables |-> file'.tables, metadata |-> file'.metadata]
  BY <1>1
<1>3. /\ NamesTo(Layers, Layer) /\ WellFormed(carried)
      /\ \A n \in DOMAIN Layers : Layers[n].ident # None
      /\ \A n \in DOMAIN carried.pyramids : carried.pyramids[n].ident # None
      /\ DOMAIN carried.pyramids \cap DOMAIN carried.tables = {}
      /\ ~ Abs!Conflict(Old, New, chosen)
  BY <1>1, BuildIsUnion
<1>4. /\ file'.metadata \in Pair!Metadata \cup {None}
      /\ file'.metadata # None => IdsDistinct(file'.metadata.records)
      /\ PP!DocsOf(file'.metadata) = PP!DocsOf(carried.metadata)
  BY <1>2, <1>3, WrittenPair DEF WellFormed
<1>5. IsContainer(file')
  BY <1>2, <1>3, <1>4 DEF IsContainer, WellFormed
<1>6. Keyed(file')
  <2>1. NamesApart(file')
    BY <1>1, <1>2, <1>3 DEF NamesApart, NameTaken
  <2>2. IdentifiersApart(file')
    <3>1. ContentsRows(file'.layers, file') = ContentsRows(Layers, carried)
      BY <1>2 DEF ContentsRows
    <3> QED BY <1>1, <3>1 DEF IdentifiersApart, IdentifierTaken
  <2>3. TilesKeyed(file')
    BY <1>2, <1>3 DEF WellFormed, TilesKeyed
  <2> QED BY <1>4, <2>1, <2>2, <2>3 DEF Keyed
<1>7. Box(file') = [layers   |-> file'.layers,
                    pyramids |-> [n \in DOMAIN file'.pyramids |-> PyramidBox(file'.pyramids[n])],
                    tables   |-> file'.tables,
                    docs     |-> PP!DocsOf(file'.metadata)]
  BY <1>2, <1>3, <1>5, <1>6, ReadsBack
<1>8. Box(file') = Abs!Union(Old, New, chosen)
  BY <1>1, <1>2, <1>4, <1>7, BuildIsUnion
<1>9. input \in Sources /\ chosen \in Choices(input)
  BY <1>1 DEF IInv, RunOK
<1> QED BY <1>2, <1>3, <1>5, <1>6, <1>8, <1>9

(* The file that is written keeps the keys SQLite holds it to.             *)
LEMMA WriteKeeps == IInv /\ Write => IInv'
<1> SUFFICES ASSUME IInv, Write PROVE IInv'
  OBVIOUS
<1>1. /\ stage = "build" /\ stage' = "idle" /\ last' = "written"
  BY DEF Write
<1>2. /\ IsContainer(file') /\ Keyed(file')
      /\ file'.layers = Layers /\ file'.pyramids = carried.pyramids
      /\ file'.tables = carried.tables
      /\ file'.metadata = WrittenMetadata(carried.metadata, Layers, carried)
  BY WriteIsUnion
<1>3. carried.metadata \in Pair!Metadata \cup {None}
  BY <1>1, RunFacts DEF WellFormed
<1>4. WrittenReferencesResolve'
  <2> DEFINE md == carried.metadata
             kept == RetainedReferences(md, Layers, carried)
             docs == Pair!IdsOf(md.records)
  <2>1. SUFFICES ASSUME file'.metadata # None, NEW i \in DOMAIN file'.metadata.refs
                 PROVE  LET r == file'.metadata.refs[i]
                            ds == Pair!IdsOf(file'.metadata.records)
                        IN  /\ r.file \in ds
                            /\ r.parent = None \/ (r.parent \in ds /\ r.parent # r.file)
                            /\ r.scope # "geopackage" => Locates(r, file'.layers, file')
    BY DEF WrittenReferencesResolve
  <2>2. /\ md \in Pair!Metadata /\ file'.metadata.refs = kept
        /\ Pair!IdsOf(file'.metadata.records) = docs
    BY <1>2, <1>3, <2>1, WrittenPair
  <2>3. PICK n \in DOMAIN md.refs : /\ Retainable(md.refs[n], docs, Layers, carried)
                                    /\ kept[i] = Normalised(md.refs[n], docs)
    BY <2>1, <2>2, RetainedMembers
  <2>4. md.refs[n] \in Pair!Reference
    BY <2>2 DEF Pair!Metadata
  <2> HIDE DEF kept, docs, md
  <2>5. \A r : Locates(r, Layers, carried) => Locates(r, file'.layers, file')
    BY <1>2 DEF Locates
  <2> QED BY <2>2, <2>3, <2>4, <2>5, KeptResolves
<1>5. FileOK' /\ RunOK'
  BY <1>1, <1>2 DEF FileOK, RunOK
<1>6. Reconciling' /\ Visiting' /\ Tiling' /\ Pairing' /\ Building'
  BY <1>1 DEF Reconciling, Visiting, Tiling, Pairing, Building
<1>7. RefusedOnlyOnConflict'
  BY <1>1 DEF RefusedOnlyOnConflict
<1> QED BY <1>4, <1>5, <1>6, <1>7 DEF IInv

(* Nothing happens.                                                        *)
LEMMA StutterKeeps == IInv /\ UNCHANGED vars => IInv'
<1> SUFFICES ASSUME IInv, UNCHANGED vars PROVE IInv'
  OBVIOUS
<1>1. /\ UNCHANGED <<file, input, chosen, carried, unvisited, merging, stage, last>>
      /\ UNCHANGED TP!vars /\ UNCHANGED PP!vars
  BY DEF vars, fileVars, runVars, tileVars, pairVars, TP!vars, PP!vars
<1>2. None \notin PP!Metadata
  BY SamePair, ConstantsAssumption
<1>3. FileOK' /\ RunOK' /\ Reconciling' /\ Building'
  BY <1>1 DEF IInv, FileOK, RunOK, Reconciling, Building, Old, New
<1>4. PP!MapsSound => PP!MapsSound'
  BY <1>1 DEF PP!MapsSound, PP!vars
<1>5. Visiting'
  BY <1>1, <1>4 DEF IInv, Visiting, Old, New
<1>6. TP!IInv => TP!IInv'
  BY <1>1, TP!StepKeeps, ConstantsAssumption
<1>7. Tiling'
  BY <1>1, <1>6 DEF IInv, Tiling, TP!vars
<1>8. PP!IInv => PP!IInv'
  BY <1>1, <1>2, PP!StepKeeps, ConstantsAssumption
<1>9. PP!IInv /\ PP!Followed /\ PP!DocsFollowed => PP!Followed' /\ PP!DocsFollowed'
  BY <1>1, <1>2, PP!FollowedKeeps, PP!DocsFollowedKeeps, ConstantsAssumption
<1>10. Pairing'
  BY <1>1, <1>8, <1>9 DEF IInv, Pairing, Old, New, PP!vars
<1>11. RefusedOnlyOnConflict' /\ WrittenReferencesResolve'
  BY <1>1 DEF IInv, RefusedOnlyOnConflict, WrittenReferencesResolve
<1> QED BY <1>3, <1>5, <1>7, <1>10, <1>11 DEF IInv

(* Every step of a run keeps the invariant.                                *)
LEMMA StepKeeps == IInv /\ [Next]_vars => IInv'
<1>1. IInv /\ Step => IInv'
  BY EmptySideKeeps, RefuseCrossKindKeeps, BeginPyramidsKeeps, AddPyramidKeeps,
     BeginTilesKeeps, MergeTilesKeeps, RefuseTilesKeeps, EndTilesKeeps, RefuseTablesKeeps,
     MergeTablesKeeps, MergePairKeeps, EndPairKeeps, RefuseBuildKeeps, WriteKeeps DEF Step
<1> QED BY <1>1, StartKeeps, StutterKeeps DEF Next

(* The invariant holds through any sequence of appends.                    *)
THEOREM Inductive == Spec => []IInv
BY InitIInv, StepKeeps, PTL DEF Spec

-----------------------------------------------------------------------------
(* Nothing but the write of a run touches out.gpkg.                        *)
LEMMA OnlyWriteChangesFile == [Next]_vars => file' = file \/ Write
BY DEF vars, Next, Step, Start, Refuse, EmptySide, RefuseCrossKind, BeginPyramids, AddPyramid,
       BeginTiles, MergeTiles, RefuseTiles, EndTiles, RefuseTables, MergeTables, MergePair,
       EndPair, RefuseBuild, fileVars

(* A run is refused only when the two containers have no union.            *)
THEOREM RefusedOnlyOnConflictAlways == Spec => []RefusedOnlyOnConflict
<1>1. IInv => RefusedOnlyOnConflict BY DEF IInv
<1> QED BY <1>1, Inductive, PTL

(* Every reference in a written file resolves in that file.                *)
THEOREM WrittenReferencesResolveAlways == Spec => []WrittenReferencesResolve
<1>1. IInv => WrittenReferencesResolve BY DEF IInv
<1> QED BY <1>1, Inductive, PTL

(* gpkg_contents keeps its keys through any sequence of appends.           *)
THEOREM RegistryKeysHoldAlways == Spec => []RegistryKeysHold
<1>1. ASSUME IInv PROVE RegistryKeysHold
  <2>1. SUFFICES ASSUME file # Absent PROVE RegistryKeysHold
    BY DEF RegistryKeysHold
  <2>2. IsContainer(file) /\ Keyed(file)
    BY <1>1, <2>1 DEF IInv, FileOK
  <2>3. ASSUME NEW x \in ContentsRows(file.layers, file), NEW y \in ContentsRows(file.layers, file),
               x # y
        PROVE  x[2] # y[2] /\ (x[3] = y[3] => x[3] = None)
    <3>1. x[3] = y[3] => x[3] = None
      BY <2>2, <2>3 DEF Keyed, IdentifiersApart
    <3>2. x[2] # y[2]
      BY <2>2, <2>3 DEF Keyed, NamesApart, ContentsRows
    <3> QED BY <3>1, <3>2
  <2> QED BY <2>2, <2>3 DEF RegistryKeysHold, Keyed, TilesKeyed, IdsDistinct
<1> QED BY <1>1, Inductive, PTL

-----------------------------------------------------------------------------
(* Records that stay, under distinct ids, keep what an id stands for.      *)
LEMMA DocsStand ==
  ASSUME NEW old, NEW now, NEW id,
         IdsDistinct(old), IdsDistinct(now), Pair!DocsAt(old, id) # {},
         \A i \in DOMAIN old : \E j \in DOMAIN now : now[j] = old[i]
  PROVE  Pair!DocsAt(now, id) = Pair!DocsAt(old, id)
<1>1. PICK i \in DOMAIN old : old[i].id = id
  BY DEF Pair!DocsAt
<1>2. PICK j \in DOMAIN now : now[j] = old[i]
  OBVIOUS
<1>3. Pair!DocsAt(old, id) = {old[i].doc}
  BY <1>1 DEF Pair!DocsAt, IdsDistinct
<1>4. Pair!DocsAt(now, id) = {now[j].doc}
  BY <1>1, <1>2 DEF Pair!DocsAt, IdsDistinct
<1> QED BY <1>2, <1>3, <1>4

(* An append takes nothing from what out.gpkg stated.                      *)
THEOREM NothingStatedIsLostAlways == Spec => NothingStatedIsLost
<1>1. ASSUME IInv, [Next]_vars, file # Absent, file' # file, file.metadata # None
      PROVE  LET docs == Pair!IdsOf(file'.metadata.records)
             IN  \A i \in DOMAIN file.metadata.refs :
                   LET r == file.metadata.refs[i]
                       was == Pair!DocsAt(file.metadata.records, r.file)
                   IN  Retainable(r, docs, file'.layers, file') =>
                         /\ \E j \in DOMAIN file'.metadata.refs :
                              file'.metadata.refs[j] = Normalised(r, docs)
                         /\ was # {} => Pair!DocsAt(file'.metadata.records, r.file) = was
  <2> DEFINE md == carried.metadata
             docs == Pair!IdsOf(file'.metadata.records)
             kept == RetainedReferences(md, Layers, carried)
  <2>1. Write
    BY <1>1, OnlyWriteChangesFile
  <2>2. /\ IsContainer(file') /\ Keyed(file')
        /\ file'.layers = Layers /\ file'.pyramids = carried.pyramids
        /\ file'.tables = carried.tables
        /\ file'.metadata = WrittenMetadata(carried.metadata, Layers, carried)
    BY <1>1, <2>1, WriteIsUnion
  <2>3. stage = "build"
    BY <2>1 DEF Write
  <2>4. /\ Keeps(md, file.metadata) /\ md \in Pair!Metadata \cup {None}
        /\ Keyed(file) /\ WellFormed(carried)
    BY <1>1, <2>3, RunFacts DEF IInv, Building, FileOK, WellFormed
  <2>5. md # None /\ md \in Pair!Metadata
    BY <1>1, <2>4 DEF Keeps
  <2>6. file'.metadata # None /\ file'.metadata.records = md.records /\ file'.metadata.refs = kept
    BY <2>2, <2>4, <2>5, WrittenPair
  <2>7. IdsDistinct(file.metadata.records) /\ IdsDistinct(md.records)
    BY <1>1, <2>4, <2>5 DEF Keyed, WellFormed
  <2>8. SUFFICES ASSUME NEW i \in DOMAIN file.metadata.refs,
                        Retainable(file.metadata.refs[i], docs, file'.layers, file')
                 PROVE  /\ \E j \in DOMAIN kept :
                             kept[j] = Normalised(file.metadata.refs[i], docs)
                        /\ Pair!DocsAt(file.metadata.records, file.metadata.refs[i].file) # {} =>
                             Pair!DocsAt(md.records, file.metadata.refs[i].file)
                               = Pair!DocsAt(file.metadata.records, file.metadata.refs[i].file)
    BY <2>6
  <2>9. PICK n \in DOMAIN md.refs : md.refs[n] = file.metadata.refs[i]
    BY <1>1, <2>4 DEF Keeps
  <2>10. Retainable(md.refs[n], Pair!IdsOf(md.records), Layers, carried)
    BY <2>2, <2>6, <2>8, <2>9 DEF Retainable, Locates
  <2>11. \E j \in DOMAIN kept : kept[j] = Normalised(md.refs[n], Pair!IdsOf(md.records))
    <3>1. \A m \in DOMAIN md.refs :
            Retainable(md.refs[m], Pair!IdsOf(md.records), Layers, carried) =>
              \E j \in DOMAIN RetainedReferences(md, Layers, carried) :
                RetainedReferences(md, Layers, carried)[j]
                  = Normalised(md.refs[m], Pair!IdsOf(md.records))
      <4> HIDE DEF md
      <4> QED BY <2>5, RetainedMembers
    <3> HIDE DEF md
    <3> QED BY <2>9, <2>10, <3>1
  <2>12. \A x \in DOMAIN file.metadata.records :
           \E j \in DOMAIN md.records : md.records[j] = file.metadata.records[x]
    BY <1>1, <2>4 DEF Keeps
  <2> HIDE DEF kept, md
  <2> QED BY <2>6, <2>7, <2>9, <2>11, <2>12, DocsStand
<1>2. IInv /\ [Next]_vars =>
        [(file # Absent /\ file' # file /\ file.metadata # None) =>
           LET docs == Pair!IdsOf(file'.metadata.records)
           IN  \A i \in DOMAIN file.metadata.refs :
                 LET r == file.metadata.refs[i]
                     was == Pair!DocsAt(file.metadata.records, r.file)
                 IN  Retainable(r, docs, file'.layers, file') =>
                       /\ \E j \in DOMAIN file'.metadata.refs :
                            file'.metadata.refs[j] = Normalised(r, docs)
                       /\ was # {} => Pair!DocsAt(file'.metadata.records, r.file) = was]_vars
  BY <1>1
<1> QED BY <1>2, Inductive, PTL DEF NothingStatedIsLost, Spec

-----------------------------------------------------------------------------
(* What is there at first is nothing or what a source says.                *)
LEMMA InitRefines == Init => Abs!Init
<1> SUFFICES ASSUME Init PROVE Abs!Init
  OBVIOUS
<1>1. CASE file = Absent
  BY <1>1 DEF Box, Nothing, Abs!Init, Abs!Empty
<1>2. CASE file \in Sources
  BY <1>2 DEF Abs!Init
<1> QED BY <1>1, <1>2 DEF Init

(* A write is one step of the union, and every other step is none.         *)
LEMMA StepRefines == IInv /\ [Next]_vars => [Abs!Append]_(Box(file))
<1> SUFFICES ASSUME IInv, [Next]_vars PROVE Abs!Append \/ Box(file)' = Box(file)
  OBVIOUS
<1>1. CASE file' = file
  BY <1>1
<1>2. CASE Write
  <2>1. /\ Box(file') = Abs!Union(Old, New, chosen) /\ ~ Abs!Conflict(Old, New, chosen)
        /\ input \in Sources /\ chosen \in Choices(input)
    BY <1>2, WriteIsUnion
  <2>2. New.layers = ReadLayers(input) /\ DOMAIN New.layers = DOMAIN input.layers
    BY <2>1, SourcesAssumption, BoxParts, ReadContent DEF New
  <2>3. New \in {Box(c) : c \in Sources} /\ chosen \in Abs!Choices(New)
    BY <2>1, <2>2 DEF New, Choices, Abs!Choices
  <2>4. Abs!Append
    BY <2>1, <2>3 DEF Abs!Append, Old
  <2> QED BY <2>4
<1> QED BY <1>1, <1>2, OnlyWriteChangesFile

(* Any sequence of runs is a sequence of unions of what the files say.     *)
THEOREM ImplementsUnionAlways == Spec => ImplementsUnion
<1>1. Spec => Abs!Init /\ [][Abs!Append]_(Box(file))
  BY InitRefines, StepRefines, Inductive, PTL DEF Spec
<1> QED BY <1>1 DEF ImplementsUnion, Abs!Spec

-----------------------------------------------------------------------------
(* The rows of one tile table.                                             *)
TilesAt(pyramids, n) == PP!Members(pyramids[n].body.tiles)

(* The lowest id of a document: the record iter().find returns, in a pair  *)
(* read in the order of its ids.                                           *)
LeastId(records, doc, id) ==
  /\ \E x \in records : x.doc = doc /\ x.id = id
  /\ \A x \in records : x.doc = doc => id <= x.id

IdLands(a, b, theirs, ours) ==
  IF \E x \in theirs : x.id = a
  THEN \E x \in theirs : x.id = a /\ LeastId(ours, x.doc, b)
  ELSE b = a

RowLands(r, row, theirs, ours) ==
  IF r.table \in DOMAIN theirs /\ \E t \in TilesAt(theirs, r.table) : t.id = r.row
  THEN \E t \in TilesAt(theirs, r.table), u \in TilesAt(ours, r.table) :
         t.id = r.row /\ u.key = t.key /\ u.id = row
  ELSE row = r.row

(* Where a merge puts the source's reference r: about the first record of  *)
(* its document, and on the row of its tile.                               *)
Lands(r, w, s, k) ==
  /\ w = [r EXCEPT !.row = w.row, !.file = w.file, !.parent = w.parent]
  /\ RowLands(r, w.row, s.pyramids, k.pyramids)
  /\ IdLands(r.file, w.file, RecordsOf(s), RecordsOf(k))
  /\ IdLands(r.parent, w.parent, RecordsOf(s), RecordsOf(k))
-----------------------------------------------------------------------------
RowsStand ==
  \A n \in DOMAIN file.pyramids :
    n \in DOMAIN carried.pyramids /\ TilesAt(file.pyramids, n) \subseteq TilesAt(carried.pyramids, n)

(* The rows of this pyramid of the source are in what is carried, where    *)
(* its rowid map says.                                                     *)
RowsPlaced(n) ==
  /\ n \in DOMAIN carried.pyramids
  /\ n \in DOMAIN rowids => DOMAIN rowids[n] = Tiles!Rowids(input.pyramids[n].body.tiles)
  /\ \A t \in TilesAt(input.pyramids, n) : \E u \in TilesAt(carried.pyramids, n) :
       u.key = t.key /\ u.id = IF n \in DOMAIN rowids THEN rowids[n][t.id] ELSE t.id

(* While pyramids and the pair are merged, the rows of both sides are       *)
(* carried: the destination's as they were, those of the source's pyramids *)
(* visited so far where the maps say.                                      *)
Rowed ==
  stage \in {"pyramids", "tiles", "metadata"} =>
    /\ RowsStand
    /\ DOMAIN rowids \subseteq DOMAIN input.pyramids \ unvisited
    /\ \A n \in DOMAIN input.pyramids \ unvisited : RowsPlaced(n)
    /\ stage = "metadata" => unvisited = {}

(* A new file is the source, copied.                                       *)
Copied == (stage = "build" /\ file = Absent) => carried = Carried(input)

(* What both sides stated is carried, and nothing else.                    *)
RefsLand ==
  input.metadata # None =>
    /\ carried.metadata # None
    /\ \A r \in RefsOf(input) : \E w \in RefsOf(carried) : Lands(r, w, input, carried)

OnlyTheirs ==
  file.metadata # None =>
    /\ \A x \in RecordsOf(carried) :
         x \in RecordsOf(file) \/ \A y \in RecordsOf(file) : y.doc # x.doc
    /\ \A w \in RefsOf(carried) :
         \/ w \in RefsOf(file)
         \/ input.metadata # None /\ \E r \in RefsOf(input) : Lands(r, w, input, carried)

(* The file's references are the first of what is carried, in their places; *)
(* behind them are no more than the source has, and each of them is new.   *)
RefsInOrder ==
  file.metadata # None =>
    /\ carried.metadata # None
    /\ \A i \in DOMAIN file.metadata.refs :
         /\ i \in DOMAIN carried.metadata.refs
         /\ carried.metadata.refs[i] = file.metadata.refs[i]
    /\ PP!NewRefsAfter(Len(file.metadata.refs), carried.metadata.refs)
    /\ Len(carried.metadata.refs)
         <= Len(file.metadata.refs) + (IF input.metadata = None THEN 0 ELSE Len(input.metadata.refs))

(* Ready to be written, the pair of two sides is the merge of the two.     *)
Landed ==
  (stage = "build" /\ file # Absent) =>
    /\ RowsStand /\ RefsInOrder
    /\ (input.metadata = None \/ file.metadata # None) => RefsLand /\ OnlyTheirs

(* What out.gpkg holds when it has taken these layers of this source in.   *)
DocIds(c) == Pair!IdsOf(c.metadata.records)

HoldsContent(s, names) ==
  /\ file # Absent
  /\ \A n \in DOMAIN file.layers : file.layers[n].ident # None
  /\ \A n \in names : n \in DOMAIN file.layers /\ file.layers[n] = ReadLayers(s)[n]
  /\ DOMAIN s.tables \subseteq DOMAIN file.tables
  /\ \A n \in DOMAIN s.pyramids :
       /\ n \in DOMAIN file.pyramids
       /\ Tiles!Contents(s.pyramids[n].body.tiles) \subseteq Tiles!Contents(file.pyramids[n].body.tiles)

(* Its documents are there, and each of its references that can be kept    *)
(* stands, normalised, where it lands; every reference there is one that   *)
(* the next write keeps as it is.                                          *)
HoldsPair(s) ==
  /\ s.metadata # None =>
       /\ file.metadata # None
       /\ \A x \in RecordsOf(s) : \E y \in RecordsOf(file) : y.doc = x.doc
       /\ \A r \in RefsOf(s) : \A w :
            Lands(r, w, s, file) /\ Retainable(w, DocIds(file), file.layers, file) =>
              Normalised(w, DocIds(file)) \in RefsOf(file)
  /\ file.metadata # None =>
       \A w \in RefsOf(file) :
         Retainable(w, DocIds(file), file.layers, file) /\ Normalised(w, DocIds(file)) = w

(* What the last write took in is there.                                   *)
Arrived == \A a \in absorbed : HoldsContent(a[1], a[2]) /\ HoldsPair(a[1])

PairLeast == stage = "metadata" => PP!MapLeast

(* What IInv does not say and an append of the same source needs: where    *)
(* each row, document and reference of the source has gone.                *)
Again == Rowed /\ Copied /\ PairLeast /\ Landed /\ Arrived

-----------------------------------------------------------------------------
(* An id lands in one place ...                                            *)
LEMMA IdLandsOnce ==
  ASSUME NEW theirs, NEW ours, NEW a, NEW b, NEW c,
         \A x, y \in theirs : x.id = y.id => x = y, \A x \in ours : x.id \in Nat,
         IdLands(a, b, theirs, ours), IdLands(a, c, theirs, ours)
  PROVE  b = c
<1>1. CASE \E x \in theirs : x.id = a
  <2>1. PICK x \in theirs : x.id = a /\ LeastId(ours, x.doc, b)
    BY <1>1 DEF IdLands
  <2>2. LeastId(ours, x.doc, c)
    BY <1>1, <2>1 DEF IdLands
  <2>3. b <= c /\ c <= b /\ b \in Nat /\ c \in Nat
    BY <2>1, <2>2 DEF LeastId
  <2> QED BY <2>3
<1>2. CASE ~ \E x \in theirs : x.id = a
  BY <1>2 DEF IdLands
<1> QED BY <1>1, <1>2

(* ... and so does a row.                                                  *)
LEMMA RowLandsOnce ==
  ASSUME NEW r, NEW theirs, NEW ours, NEW a, NEW b,
         r.table \in DOMAIN theirs =>
           /\ \A t, v \in TilesAt(theirs, r.table) : t.id = v.id => t = v
           /\ \A t, v \in TilesAt(ours, r.table) : t.key = v.key => t = v,
         RowLands(r, a, theirs, ours), RowLands(r, b, theirs, ours)
  PROVE  a = b
<1>1. CASE r.table \in DOMAIN theirs /\ \E t \in TilesAt(theirs, r.table) : t.id = r.row
  <2>1. PICK t \in TilesAt(theirs, r.table), u \in TilesAt(ours, r.table) :
          t.id = r.row /\ u.key = t.key /\ u.id = a
    BY <1>1 DEF RowLands
  <2>2. PICK v \in TilesAt(theirs, r.table), x \in TilesAt(ours, r.table) :
          v.id = r.row /\ x.key = v.key /\ x.id = b
    BY <1>1 DEF RowLands
  <2>3. t = v
    BY <1>1, <2>1, <2>2
  <2>4. u = x
    BY <1>1, <2>1, <2>2, <2>3
  <2> QED BY <2>1, <2>2, <2>4
<1>2. CASE ~ (r.table \in DOMAIN theirs /\ \E t \in TilesAt(theirs, r.table) : t.id = r.row)
  BY <1>2 DEF RowLands
<1> QED BY <1>1, <1>2

(* The rowids and the coordinates of one tile table are keys.              *)
LEMMA TilesAreKeyed ==
  ASSUME NEW c, NamesTo(c.pyramids, Tiled), TilesKeyed(c), NEW n \in DOMAIN c.pyramids
  PROVE  /\ \A t \in TilesAt(c.pyramids, n) : t \in Tiles!Tile
         /\ \A t, v \in TilesAt(c.pyramids, n) : t.id = v.id => t = v
         /\ \A t, v \in TilesAt(c.pyramids, n) : t.key = v.key => t = v
<1> DEFINE tiles == c.pyramids[n].body.tiles
<1>1. /\ tiles \in Seq(Tiles!Tile) /\ Tiles!RowidsAscend(tiles) /\ Tiles!KeysDistinct(tiles)
      /\ TilesAt(c.pyramids, n) = {tiles[i] : i \in DOMAIN tiles}
  BY DEF NamesTo, Tiled, Tiles!Pyramid, TilesKeyed, TilesAt, PP!Members
<1> HIDE DEF tiles
<1>2. \A i \in DOMAIN tiles : tiles[i] \in Tiles!Tile /\ tiles[i].id \in Nat /\ i \in Nat
  <2>1. \A i \in DOMAIN tiles : tiles[i] \in Tiles!Tile /\ i \in Nat
    BY <1>1
  <2> QED BY <2>1 DEF Tiles!Tile
<1>3. \A i, j \in DOMAIN tiles : tiles[i].id = tiles[j].id => i = j
  BY <1>1, <1>2 DEF Tiles!RowidsAscend
<1>4. \A i, j \in DOMAIN tiles : tiles[i].key = tiles[j].key => i = j
  BY <1>1 DEF Tiles!KeysDistinct
<1> QED BY <1>1, <1>2, <1>3, <1>4

(* And so are the ids of a pair.                                           *)
LEMMA RecordsAreKeyed ==
  ASSUME NEW c, c.metadata \in Pair!Metadata, IdsDistinct(c.metadata.records)
  PROVE  /\ \A x \in RecordsOf(c) : x \in Pair!Record /\ x.id \in Nat
         /\ \A x, y \in RecordsOf(c) : x.id = y.id => x = y
<1> DEFINE records == c.metadata.records
<1>1. records \in Seq(Pair!Record) /\ IdsDistinct(records)
  BY DEF Pair!Metadata
<1>2. \A i \in DOMAIN records : records[i] \in Pair!Record
  BY <1>1
<1>3. \A i \in DOMAIN records : records[i].id \in Nat
  BY <1>2 DEF Pair!Record, Pair!Ids
<1>4. RecordsOf(c) = {records[i] : i \in DOMAIN records}
  BY DEF RecordsOf
<1> HIDE DEF records
<1> QED BY <1>1, <1>2, <1>3, <1>4 DEF IdsDistinct

(* A reference lands in one place.                                         *)
LEMMA LandsOnce ==
  ASSUME NEW s, IsContainer(s), Keyed(s), s.metadata # None,
         NEW k, WellFormed(k), k.metadata # None, DOMAIN s.pyramids \subseteq DOMAIN k.pyramids,
         NEW r, NEW v, NEW w, Lands(r, v, s, k), Lands(r, w, s, k)
  PROVE  v = w
<1>1. /\ \A x, y \in RecordsOf(s) : x.id = y.id => x = y
      /\ \A x \in RecordsOf(k) : x.id \in Nat
  <2>1. s.metadata \in Pair!Metadata /\ IdsDistinct(s.metadata.records)
    BY DEF IsContainer, Keyed
  <2>2. k.metadata \in Pair!Metadata /\ IdsDistinct(k.metadata.records)
    BY DEF WellFormed
  <2> QED BY <2>1, <2>2, RecordsAreKeyed
<1>2. r.table \in DOMAIN s.pyramids =>
        /\ \A x, y \in TilesAt(s.pyramids, r.table) : x.id = y.id => x = y
        /\ \A x, y \in TilesAt(k.pyramids, r.table) : x.key = y.key => x = y
  BY TilesAreKeyed DEF IsContainer, Keyed, WellFormed
<1>3. v.file = w.file /\ v.parent = w.parent
  BY <1>1, IdLandsOnce DEF Lands
<1>4. v.row = w.row
  BY <1>2, RowLandsOnce DEF Lands
<1>5. /\ v = [r EXCEPT !.row = v.row, !.file = v.file, !.parent = v.parent]
      /\ w = [r EXCEPT !.row = w.row, !.file = w.file, !.parent = w.parent]
  BY DEF Lands
<1> QED BY <1>3, <1>4, <1>5

(* What a merge adds to a file that has the source's tiles and documents    *)
(* does not change where a reference lands.                                *)
LEMMA LandsAlike ==
  ASSUME NEW s, NEW k, NEW c, WellFormed(k), RecordsOf(k) = RecordsOf(c),
         \A n \in DOMAIN s.pyramids :
           /\ n \in DOMAIN k.pyramids
           /\ TilesAt(c.pyramids, n) \subseteq TilesAt(k.pyramids, n)
           /\ \A t \in TilesAt(s.pyramids, n) : \E u \in TilesAt(c.pyramids, n) : u.key = t.key,
         NEW r, NEW w, Lands(r, w, s, k)
  PROVE  Lands(r, w, s, c)
<1>1. RowLands(r, w.row, s.pyramids, k.pyramids)
  BY DEF Lands
<1>2. RowLands(r, w.row, s.pyramids, c.pyramids)
  <2>1. CASE r.table \in DOMAIN s.pyramids /\ \E t \in TilesAt(s.pyramids, r.table) : t.id = r.row
    <3>1. PICK t \in TilesAt(s.pyramids, r.table), u \in TilesAt(k.pyramids, r.table) :
            t.id = r.row /\ u.key = t.key /\ u.id = w.row
      BY <1>1, <2>1 DEF RowLands
    <3>2. PICK v \in TilesAt(c.pyramids, r.table) : v.key = t.key
      BY <2>1
    <3>3. v = u
      <4>1. \A x, y \in TilesAt(k.pyramids, r.table) : x.key = y.key => x = y
        BY <2>1, TilesAreKeyed DEF WellFormed
      <4> QED BY <2>1, <3>1, <3>2, <4>1
    <3> QED BY <2>1, <3>1, <3>2, <3>3 DEF RowLands
  <2>2. CASE ~ (r.table \in DOMAIN s.pyramids /\ \E t \in TilesAt(s.pyramids, r.table) : t.id = r.row)
    BY <1>1, <2>2 DEF RowLands
  <2> QED BY <2>1, <2>2
<1> QED BY <1>2 DEF Lands

(* The pair as the merge reads it, as sets.                                *)
LEMMA ReadSets ==
  ASSUME NEW c, IsContainer(c), Keyed(c)
  PROVE  /\ ReadMetadata(c) = None <=> c.metadata = None
         /\ c.metadata # None =>
              /\ PP!Members(ReadMetadata(c).records) = RecordsOf(c)
              /\ PP!Members(ReadMetadata(c).refs) = RefsOf(c)
              /\ ReadMetadata(c).refs = c.metadata.refs
<1>1. CASE c.metadata = None
  BY <1>1 DEF ReadMetadata
<1>2. CASE c.metadata # None
  <2>1. c.metadata \in Pair!Metadata /\ IdsDistinct(c.metadata.records)
    BY <1>2 DEF IsContainer, Keyed
  <2> DEFINE old == c.metadata
             sorted == InIdOrder(old.records)
  <2>2. /\ sorted \in Seq(Pair!Record)
        /\ \A k \in DOMAIN sorted : \E i \in DOMAIN old.records : sorted[k] = old.records[i]
        /\ \A i \in DOMAIN old.records : \E k \in DOMAIN sorted : sorted[k] = old.records[i]
    <3>1. old.records \in Seq(Pair!Record)
      BY <2>1 DEF Pair!Metadata
    <3> QED BY <2>1, <3>1, SortedRecords
  <2>3. ReadMetadata(c) = [old EXCEPT !.records = sorted]
    BY <1>2 DEF ReadMetadata
  <2> HIDE DEF sorted
  <2>4. ReadMetadata(c).records = sorted /\ ReadMetadata(c).refs = old.refs
    BY <2>1, <2>3 DEF Pair!Metadata
  <2>5. PP!Members(sorted) = RecordsOf(c)
    BY <2>2 DEF PP!Members, RecordsOf
  <2>6. ReadMetadata(c) # None
    BY <1>2, ReadPair DEF Keeps
  <2> QED BY <1>2, <2>4, <2>5, <2>6 DEF PP!Members, RefsOf
<1> QED BY <1>1, <1>2

(* What the run knows of the pair when its merge has ended.                *)
LEMMA PairSides ==
  ASSUME IInv, EndPair
  PROVE  /\ IsContainer(input) /\ Keyed(input) /\ IsContainer(file) /\ Keyed(file)
         /\ stage = "metadata" /\ phase = "done" /\ stage' = "build" /\ UNCHANGED <<file, input>>
         /\ dest = ReadMetadata(file) /\ source = ReadMetadata(input)
         /\ PP!IInv /\ PP!Followed
         /\ carried'.pyramids = carried.pyramids /\ carried'.metadata = merged
<1>1. /\ stage = "metadata" /\ phase = "done" /\ stage' = "build"
      /\ carried' = [carried EXCEPT !.metadata = merged]
      /\ UNCHANGED <<file, input>>
  BY DEF EndPair, fileVars, runVars
<1>2. /\ IsContainer(input) /\ Keyed(input) /\ IsContainer(file) /\ Keyed(file)
      /\ WellFormed(carried)
  BY <1>1, RunFacts
<1> QED BY <1>1, <1>2 DEF IInv, Pairing, WellFormed

(* The id map of a merged pair puts an id where it lands ...               *)
LEMMA LookupLands ==
  ASSUME IInv, PairLeast, EndPair, dest # None, source # None, NEW a
  PROVE  IdLands(a, PP!Lookup(ids, a), RecordsOf(input), RecordsOf(carried'))
<1>1. /\ phase = "done" /\ source = ReadMetadata(input) /\ PP!IInv /\ PP!Followed
      /\ PP!MapLeast /\ carried'.metadata = merged
      /\ PP!Members(source.records) = RecordsOf(input)
  BY PairSides, ReadSets DEF PairLeast
<1>2. None \notin PP!Metadata
  BY SamePair, ConstantsAssumption
<1>3. /\ DOMAIN ids = PP!IdsOf(source.records)
      /\ \A i \in DOMAIN source.records :
           /\ \E j \in DOMAIN merged.records :
                /\ merged.records[j].id = ids[source.records[i].id]
                /\ merged.records[j].doc = source.records[i].doc
           /\ \A j \in DOMAIN merged.records :
                merged.records[j].doc = source.records[i].doc =>
                  ids[source.records[i].id] <= merged.records[j].id
  BY <1>1, <1>2, PP!MergedSays, ConstantsAssumption
<1>4. RecordsOf(carried') = {merged.records[j] : j \in DOMAIN merged.records}
  BY <1>1 DEF RecordsOf
<1>5. CASE \E x \in RecordsOf(input) : x.id = a
  <2>1. PICK i \in DOMAIN source.records : source.records[i] \in RecordsOf(input) /\ source.records[i].id = a
    BY <1>1, <1>5 DEF PP!Members
  <2>2. PP!Lookup(ids, a) = ids[a]
    BY <1>3, <2>1 DEF PP!Lookup, PP!IdsOf
  <2>3. LeastId(RecordsOf(carried'), source.records[i].doc, ids[a])
    BY <1>3, <1>4, <2>1 DEF LeastId
  <2> QED BY <1>5, <2>1, <2>2, <2>3 DEF IdLands
<1>6. CASE ~ \E x \in RecordsOf(input) : x.id = a
  <2>1. a \notin DOMAIN ids
    BY <1>1, <1>3, <1>6 DEF PP!IdsOf, PP!Members
  <2> QED BY <1>6, <2>1 DEF IdLands, PP!Lookup
<1> QED BY <1>5, <1>6

(* ... and the rowid maps put a row where it lands.                        *)
LEMMA RowMapLands ==
  ASSUME IInv, Rowed, EndPair, NEW r
  PROVE  RowLands(r, PP!MappedRow(r, rowids), input.pyramids, carried'.pyramids)
<1>1. /\ IsContainer(input) /\ Keyed(input) /\ carried'.pyramids = carried.pyramids
      /\ stage = "metadata"
  BY PairSides
<1>2. /\ DOMAIN rowids \subseteq DOMAIN input.pyramids
      /\ \A n \in DOMAIN input.pyramids : RowsPlaced(n)
  BY <1>1 DEF Rowed
<1> DEFINE n == r.table
<1>3. CASE n \in DOMAIN input.pyramids /\ \E t \in TilesAt(input.pyramids, n) : t.id = r.row
  <2>1. PICK t \in TilesAt(input.pyramids, n) : t.id = r.row
    BY <1>3
  <2>2. n # None /\ r.row # None
    <3>1. t \in Tiles!Tile
      BY <1>1, <1>3, TilesAreKeyed DEF IsContainer, Keyed
    <3>2. n \in Names /\ t.id \in Int
      BY <1>1, <1>3, <3>1 DEF IsContainer, NamesTo, Tiles!Tile
    <3> QED BY <2>1, <3>2, ConstantsAssumption
  <2>3. PICK u \in TilesAt(carried.pyramids, n) :
          u.key = t.key /\ u.id = IF n \in DOMAIN rowids THEN rowids[n][t.id] ELSE t.id
    BY <1>2, <1>3 DEF RowsPlaced
  <2>4. n \in DOMAIN rowids => t.id \in DOMAIN rowids[n]
    BY <1>2, <1>3 DEF RowsPlaced, Tiles!Rowids, TilesAt, PP!Members
  <2>5. PP!MappedRow(r, rowids) = u.id
    BY <2>1, <2>2, <2>3, <2>4 DEF PP!MappedRow, PP!Lookup
  <2> QED BY <1>1, <1>3, <2>1, <2>3, <2>5 DEF RowLands
<1>4. CASE ~ (n \in DOMAIN input.pyramids /\ \E t \in TilesAt(input.pyramids, n) : t.id = r.row)
  <2>1. n \in DOMAIN rowids => r.row \notin DOMAIN rowids[n]
    BY <1>2, <1>4 DEF RowsPlaced, Tiles!Rowids, TilesAt, PP!Members
  <2>2. PP!MappedRow(r, rowids) = r.row
    BY <2>1 DEF PP!MappedRow, PP!Lookup
  <2> QED BY <1>4, <2>2 DEF RowLands
<1> QED BY <1>3, <1>4

(* Together: a reference of the source, mapped, is where it lands.         *)
LEMMA MappedLands ==
  ASSUME IInv, Rowed, PairLeast, EndPair, dest # None, source # None, NEW r \in RefsOf(input)
  PROVE  Lands(r, PP!Mapped(r, ids, rowids), input, carried')
<1> DEFINE w == PP!Mapped(r, ids, rowids)
<1>1. /\ IsContainer(input) /\ Keyed(input) /\ input.metadata # None
  BY PairSides, ReadSets
<1>2. input.metadata \in Pair!Metadata /\ IdsDistinct(input.metadata.records)
  BY <1>1 DEF IsContainer, Keyed
<1>3. r \in Pair!Reference
  BY <1>2 DEF RefsOf, Pair!Metadata
<1>4. /\ w.row = PP!MappedRow(r, rowids) /\ w.file = PP!Lookup(ids, r.file)
      /\ w.parent = IF r.parent = None THEN None ELSE PP!Lookup(ids, r.parent)
      /\ w = [r EXCEPT !.row = w.row, !.file = w.file, !.parent = w.parent]
  BY <1>3 DEF Pair!Reference, PP!Mapped
<1> HIDE DEF w
<1>5. RowLands(r, w.row, input.pyramids, carried'.pyramids)
  BY <1>4, RowMapLands
<1>6. IdLands(r.file, w.file, RecordsOf(input), RecordsOf(carried'))
  BY <1>4, LookupLands
<1>7. IdLands(r.parent, w.parent, RecordsOf(input), RecordsOf(carried'))
  <2>1. CASE r.parent = None
    <3>1. \A x \in RecordsOf(input) : x.id # None
      BY <1>2, RecordsAreKeyed, ConstantsAssumption
    <3> QED BY <1>4, <2>1, <3>1 DEF IdLands
  <2>2. CASE r.parent # None
    BY <1>4, <2>2, LookupLands
  <2> QED BY <2>1, <2>2
<1> QED BY <1>4, <1>5, <1>6, <1>7 DEF Lands, w

(* The tiles of what carry::read gives are the container's.                *)
LEMMA ReadTiles ==
  ASSUME NEW c, IsContainer(c), Keyed(c)
  PROVE  /\ DOMAIN Carried(c).pyramids = DOMAIN c.pyramids
         /\ \A n \in DOMAIN c.pyramids : TilesAt(Carried(c).pyramids, n) = TilesAt(c.pyramids, n)
         /\ Carried(c).metadata = ReadMetadata(c)
         /\ c.metadata # None => /\ Carried(c).metadata # None
                                 /\ RecordsOf(Carried(c)) = RecordsOf(c)
                                 /\ RefsOf(Carried(c)) = RefsOf(c)
<1>1. /\ Carried(c).pyramids = ReadPyramids(c) /\ Carried(c).metadata = ReadMetadata(c)
  BY DEF Carried
<1>2. c.metadata # None => /\ RecordsOf(Carried(c)) = RecordsOf(c)
                           /\ RefsOf(Carried(c)) = RefsOf(c)
  BY <1>1, ReadSets DEF RecordsOf, RefsOf, PP!Members
<1> QED BY <1>1, <1>2, ReadContent, ReadSets DEF TilesAt

-----------------------------------------------------------------------------
(* What out.gpkg holds changes with a write only.                          *)
LEMMA ArrivedStands ==
  ASSUME Arrived, UNCHANGED <<file, absorbed>>
  PROVE  Arrived'
BY DEF Arrived, HoldsContent, HoldsPair, DocIds

(* A run begins.                                                           *)
LEMMA StartAgain == IInv /\ Again /\ Start => Again'
<1> SUFFICES ASSUME IInv, Again, Start PROVE Again'
  OBVIOUS
<1>1. /\ file' = file /\ absorbed' = absorbed
      /\ carried' = Carried(IF file = Absent THEN input' ELSE file)
      /\ stage' = IF file = Absent THEN "build" ELSE "reconcile"
  BY DEF Start, fileVars
<1>2. Rowed' /\ PairLeast'
  BY <1>1 DEF Rowed, PairLeast
<1>3. Copied' /\ Landed'
  BY <1>1 DEF Copied, Landed
<1> QED BY <1>1, <1>2, <1>3, ArrivedStands DEF Again

(* A run is refused, or a step of a call within the run changes nothing    *)
(* the invariant speaks of.                                                *)
LEMMA RefuseAgain == IInv /\ Again /\ Refuse => Again'
<1> SUFFICES ASSUME IInv, Again, Refuse PROVE Again'
  OBVIOUS
<1>1. stage' = "idle" /\ file' = file /\ absorbed' = absorbed
  BY DEF Refuse, fileVars
<1> QED BY <1>1, ArrivedStands DEF Again, Rowed, PairLeast, Copied, Landed

(* One side carries nothing: what is carried is the other's.               *)
LEMMA EmptySideAgain == IInv /\ Again /\ EmptySide => Again'
<1> SUFFICES ASSUME IInv, Again, EmptySide PROVE Again'
  OBVIOUS
<1>1. /\ stage = "reconcile" /\ stage' = "build"
      /\ UNCHANGED <<file, absorbed, input>>
      /\ IsEmpty(carried) \/ IsEmpty(Carried(input))
      /\ carried' = IF IsEmpty(carried) THEN Carried(input) ELSE carried
  BY DEF EmptySide, fileVars, runVars
<1>2. /\ carried = Carried(file) /\ IsContainer(file) /\ Keyed(file) /\ file # Absent
      /\ IsContainer(input) /\ Keyed(input)
      /\ DOMAIN New.pyramids = DOMAIN input.pyramids /\ DOMAIN Old.pyramids = DOMAIN file.pyramids
  BY <1>1, RunFacts DEF IInv, Reconciling
<1>3. Landed'
  <2>1. CASE IsEmpty(carried)
    <3>1. DOMAIN file.pyramids = {} /\ file.metadata = None
      BY <1>2, <2>1, EmptyReading DEF Old
    <3> QED BY <1>1, <3>1 DEF Landed, RowsStand, RefsLand, OnlyTheirs, RefsInOrder
  <2>2. CASE ~ IsEmpty(carried)
    <3>1. input.metadata = None /\ carried' = Carried(file)
      BY <1>1, <1>2, <2>2, EmptyReading
    <3>2. RowsStand'
      BY <1>1, <1>2, <3>1, ReadTiles DEF RowsStand
    <3>3. RefsLand'
      BY <1>1, <3>1 DEF RefsLand
    <3>4. OnlyTheirs'
      BY <1>1, <1>2, <3>1, ReadTiles DEF OnlyTheirs
    <3>5. RefsInOrder'
      <4>1. ASSUME file.metadata # None
            PROVE  /\ carried'.metadata # None /\ carried'.metadata.refs = file.metadata.refs
                   /\ Len(file.metadata.refs) \in Nat
                   /\ DOMAIN file.metadata.refs = 1..Len(file.metadata.refs)
        <5>1. /\ carried'.metadata = ReadMetadata(file) /\ carried'.metadata # None
              /\ ReadMetadata(file).refs = file.metadata.refs
          BY <1>2, <3>1, <4>1, ReadTiles, ReadSets
        <5>2. file.metadata \in Pair!Metadata
          BY <1>2, <4>1 DEF IsContainer
        <5> QED BY <5>1, <5>2 DEF Pair!Metadata
      <4> QED BY <1>1, <3>1, <4>1 DEF RefsInOrder, PP!NewRefsAfter
    <3> QED BY <3>2, <3>3, <3>4, <3>5 DEF Landed
  <2> QED BY <2>1, <2>2
<1>4. Rowed' /\ PairLeast' /\ Copied'
  BY <1>1, <1>2 DEF Rowed, PairLeast, Copied
<1> QED BY <1>1, <1>3, <1>4, ArrivedStands DEF Again

(* No pyramid has been visited when merge_pyramids begins.                 *)
LEMMA BeginPyramidsAgain == IInv /\ Again /\ BeginPyramids => Again'
<1> SUFFICES ASSUME IInv, Again, BeginPyramids PROVE Again'
  OBVIOUS
<1>1. /\ stage = "reconcile" /\ stage' = "pyramids"
      /\ unvisited' = DOMAIN input.pyramids /\ rowids' = <<>>
      /\ UNCHANGED <<file, absorbed, input, carried>>
  BY DEF BeginPyramids, BothCarry, fileVars, runVars
<1>2. /\ carried = Carried(file) /\ IsContainer(file) /\ Keyed(file)
  BY <1>1, RunFacts DEF IInv, Reconciling
<1>3. RowsStand'
  BY <1>1, <1>2, ReadTiles DEF RowsStand
<1>4. Rowed'
  BY <1>1, <1>3 DEF Rowed
<1>5. PairLeast' /\ Copied' /\ Landed'
  BY <1>1 DEF PairLeast, Copied, Landed
<1> QED BY <1>1, <1>4, <1>5, ArrivedStands DEF Again

(* What is known of a pyramid stays while another one is put in place.     *)
LEMMA PlacedStands ==
  ASSUME NEW n, RowsPlaced(n), input' = input,
         n \in DOMAIN carried'.pyramids,
         n \in DOMAIN carried.pyramids => carried'.pyramids[n] = carried.pyramids[n],
         n \in DOMAIN rowids' <=> n \in DOMAIN rowids,
         n \in DOMAIN rowids => rowids'[n] = rowids[n]
  PROVE  RowsPlaced(n)'
BY DEF RowsPlaced, TilesAt

(* A pyramid only the source has is carried with its rows as they are.     *)
LEMMA AddPyramidAgain == IInv /\ Again /\ AddPyramid => Again'
<1> SUFFICES ASSUME IInv, Again, AddPyramid PROVE Again'
  OBVIOUS
<1>1. /\ stage = "pyramids" /\ stage' = stage
      /\ UNCHANGED <<file, absorbed, input, rowids>>
  BY DEF AddPyramid, fileVars, runVars, pairVars
<1>2. PICK n \in unvisited \ DOMAIN carried.pyramids :
        /\ carried' = [carried EXCEPT !.pyramids = With(carried.pyramids, n, ReadPyramids(input)[n])]
        /\ unvisited' = unvisited \ {n}
  BY DEF AddPyramid
<1> DEFINE p == ReadPyramids(input)[n]
<1>3. /\ IsContainer(input) /\ Keyed(input) /\ WellFormed(carried)
      /\ DOMAIN New.pyramids = DOMAIN input.pyramids /\ unvisited \subseteq DOMAIN New.pyramids
  BY <1>1, RunFacts DEF IInv, Visiting
<1>4. n \in DOMAIN input.pyramids
  BY <1>2, <1>3
<1>5. p.body = input.pyramids[n].body
  BY <1>3, <1>4, ReadContent
<1> HIDE DEF p
<1>6. /\ DOMAIN carried'.pyramids = DOMAIN carried.pyramids \cup {n} /\ carried'.pyramids[n] = p
      /\ \A x \in DOMAIN carried.pyramids : carried'.pyramids[x] = carried.pyramids[x]
  <2>1. carried'.pyramids = With(carried.pyramids, n, p)
    BY <1>2, <1>3 DEF WellFormed, p
  <2> QED BY <1>2, <2>1 DEF With
<1>7. RowsStand /\ DOMAIN rowids \subseteq DOMAIN input.pyramids \ unvisited
      /\ \A x \in DOMAIN input.pyramids \ unvisited : RowsPlaced(x)
  BY <1>1 DEF Again, Rowed
<1>8. RowsStand'
  BY <1>1, <1>6, <1>7 DEF RowsStand, TilesAt
<1>9. RowsPlaced(n)'
  <2>1. n \notin DOMAIN rowids'
    BY <1>1, <1>2, <1>7
  <2>2. TilesAt(carried'.pyramids, n) = TilesAt(input'.pyramids, n)
    BY <1>1, <1>5, <1>6 DEF TilesAt
  <2> QED BY <1>6, <2>1, <2>2 DEF RowsPlaced
<1>10. ASSUME NEW x \in DOMAIN input.pyramids \ unvisited PROVE RowsPlaced(x)'
  <2>1. x \in DOMAIN carried.pyramids
    BY <1>7 DEF RowsPlaced
  <2> QED BY <1>1, <1>6, <1>7, <2>1, PlacedStands
<1>11. Rowed'
  BY <1>1, <1>2, <1>7, <1>8, <1>9, <1>10 DEF Rowed
<1>12. PairLeast' /\ Copied' /\ Landed'
  BY <1>1 DEF PairLeast, Copied, Landed
<1> QED BY <1>1, <1>11, <1>12, ArrivedStands DEF Again

(* merge_tiles works on its own copy of the two pyramids.                  *)
LEMMA TilesAgain == IInv /\ Again /\ (BeginTiles \/ MergeTiles) => Again'
<1> SUFFICES ASSUME IInv, Again, BeginTiles \/ MergeTiles PROVE Again'
  OBVIOUS
<1>1. /\ stage \in {"pyramids", "tiles"} /\ stage' = "tiles"
      /\ UNCHANGED <<file, absorbed, input, carried, unvisited, rowids>>
  BY DEF BeginTiles, MergeTiles, fileVars, runVars, pairVars
<1>2. Rowed'
  BY <1>1 DEF Again, Rowed, RowsStand, RowsPlaced
<1>3. PairLeast' /\ Copied' /\ Landed'
  BY <1>1 DEF PairLeast, Copied, Landed
<1> QED BY <1>1, <1>2, <1>3, ArrivedStands DEF Again

(* A merged pyramid keeps the destination's rows and has the source's      *)
(* where the rowid map says.                                               *)
LEMMA EndTilesAgain == IInv /\ Again /\ EndTiles => Again'
<1> SUFFICES ASSUME IInv, Again, EndTiles PROVE Again'
  OBVIOUS
<1>0. PICK n : n = merging
  OBVIOUS
<1>1. /\ stage = "tiles" /\ outcome = "merged" /\ stage' = "pyramids"
      /\ carried' = [carried EXCEPT !.pyramids[n].body = into]
      /\ rowids' = With(rowids, n, rowid)
      /\ unvisited' = unvisited \ {n}
      /\ UNCHANGED <<file, absorbed, input>>
  BY <1>0 DEF EndTiles, fileVars, runVars
<1>2. /\ IsContainer(input) /\ WellFormed(carried)
      /\ DOMAIN New.pyramids = DOMAIN input.pyramids /\ unvisited \subseteq DOMAIN New.pyramids
      /\ n \in unvisited /\ n \in DOMAIN carried.pyramids /\ n \in DOMAIN input.pyramids
      /\ held = carried.pyramids[n].body /\ from = input.pyramids[n].body /\ TP!IInv
  BY <1>0, <1>1, RunFacts DEF IInv, Tiling, Visiting
<1>3. /\ DOMAIN carried'.pyramids = DOMAIN carried.pyramids
      /\ carried'.pyramids[n].body = into
      /\ \A x \in DOMAIN carried.pyramids : x # n => carried'.pyramids[x] = carried.pyramids[x]
  <2>1. /\ carried = [pyramids |-> carried.pyramids, tables |-> carried.tables,
                      metadata |-> carried.metadata]
        /\ carried.pyramids = [x \in DOMAIN carried.pyramids |-> carried.pyramids[x]]
        /\ carried.pyramids[n] \in Tiled
    BY <1>2 DEF WellFormed, NamesTo
  <2>2. carried'.pyramids = [carried.pyramids EXCEPT ![n] = [carried.pyramids[n] EXCEPT !.body = into]]
    BY <1>1, <1>2, <2>1
  <2>3. [carried.pyramids[n] EXCEPT !.body = into].body = into
    BY <2>1 DEF Tiled
  <2> QED BY <1>2, <2>1, <2>2, <2>3
<1>4. /\ RowsStand /\ DOMAIN rowids \subseteq DOMAIN input.pyramids \ unvisited
      /\ \A x \in DOMAIN input.pyramids \ unvisited : RowsPlaced(x)
  BY <1>1 DEF Again, Rowed
<1>5. /\ DOMAIN rowids' = DOMAIN rowids \cup {n} /\ rowids'[n] = rowid
      /\ \A x \in DOMAIN rowids : x # n => rowids'[x] = rowids[x]
  BY <1>1 DEF With
<1>6. /\ from.tiles \in Seq(TP!Tile) /\ todo = Len(from.tiles)
      /\ held.tiles \in Seq(TP!Tile) /\ into.tiles \in Seq(TP!Tile)
  BY <1>1, <1>2 DEF TP!IInv, TP!TypeOK, TP!Phases, TP!Pyramid
<1>7. /\ \A x \in DOMAIN carried.pyramids :
           TilesAt(carried.pyramids, x) \subseteq TilesAt(carried'.pyramids, x)
  <2>1. ASSUME NEW x \in DOMAIN carried.pyramids
        PROVE  TilesAt(carried.pyramids, x) \subseteq TilesAt(carried'.pyramids, x)
    <3>1. CASE x = n
      <4>1. PP!Members(held.tiles) \subseteq PP!Members(into.tiles)
        BY <1>2, <1>6 DEF TP!IInv, TP!Prefix, PP!Members
      <4> QED BY <1>2, <1>3, <3>1, <4>1 DEF TilesAt
    <3>2. CASE x # n
      BY <1>3, <3>2 DEF TilesAt
    <3> QED BY <3>1, <3>2
  <2> QED BY <2>1
<1>8. RowsStand'
  BY <1>1, <1>3, <1>4, <1>7 DEF RowsStand
<1>9. RowsPlaced(n)'
  <2>1. DOMAIN from.tiles = 1..todo
    BY <1>6
  <2>2. DOMAIN rowid = Tiles!Rowids(from.tiles)
    BY <1>2, <2>1 DEF TP!IInv, TP!Placed, Tiles!Rowids
  <2>3. \A t \in PP!Members(from.tiles) : \E u \in PP!Members(into.tiles) :
          u.key = t.key /\ u.id = rowid[t.id]
    <3>1. SUFFICES ASSUME NEW i \in 1..todo
                   PROVE  \E u \in PP!Members(into.tiles) :
                            u.key = from.tiles[i].key /\ u.id = rowid[from.tiles[i].id]
      BY <2>1 DEF PP!Members
    <3>2. PICK j \in DOMAIN into.tiles :
            into.tiles[j].id = rowid[from.tiles[i].id] /\ into.tiles[j].key = from.tiles[i].key
      BY <1>2 DEF TP!IInv, TP!Placed
    <3> QED BY <3>2 DEF PP!Members
  <2>4. /\ TilesAt(carried'.pyramids, n) = PP!Members(into.tiles)
        /\ TilesAt(input'.pyramids, n) = PP!Members(from.tiles)
    BY <1>1, <1>2, <1>3 DEF TilesAt
  <2> QED BY <1>1, <1>2, <1>3, <1>5, <2>2, <2>3, <2>4 DEF RowsPlaced
<1>10. ASSUME NEW x \in DOMAIN input.pyramids \ unvisited PROVE RowsPlaced(x)'
  <2>1. x \in DOMAIN carried.pyramids /\ x # n
    BY <1>2, <1>4 DEF RowsPlaced
  <2> QED BY <1>1, <1>3, <1>4, <1>5, <2>1, PlacedStands
<1>11. Rowed'
  BY <1>1, <1>2, <1>4, <1>5, <1>8, <1>9, <1>10 DEF Rowed
<1>12. PairLeast' /\ Copied' /\ Landed'
  BY <1>1 DEF PairLeast, Copied, Landed
<1> QED BY <1>1, <1>11, <1>12, ArrivedStands DEF Again

(* merge_tables leaves the pyramids as they are.                           *)
LEMMA MergeTablesAgain == IInv /\ Again /\ MergeTables => Again'
<1> SUFFICES ASSUME IInv, Again, MergeTables PROVE Again'
  OBVIOUS
<1>1. /\ stage = "pyramids" /\ stage' = "metadata" /\ unvisited = {} /\ unvisited' = unvisited
      /\ carried' = [carried EXCEPT !.tables = Over(carried.tables, input.tables)]
      /\ phase' = "start"
      /\ UNCHANGED <<file, absorbed, input, rowids>>
  BY DEF MergeTables, PyramidsDone, fileVars, runVars
<1>2. carried'.pyramids = carried.pyramids
  BY <1>1, RunFacts DEF WellFormed
<1>3. Rowed'
  BY <1>1, <1>2 DEF Again, Rowed, RowsStand, RowsPlaced
<1>4. PairLeast'
  BY <1>1 DEF PairLeast, PP!MapLeast, PP!Both, PP!Merging
<1>5. Copied' /\ Landed'
  BY <1>1 DEF Copied, Landed
<1> QED BY <1>1, <1>3, <1>4, <1>5, ArrivedStands DEF Again

(* A step of merge_metadata.                                               *)
LEMMA MergePairAgain == IInv /\ Again /\ MergePair => Again'
<1> SUFFICES ASSUME IInv, Again, MergePair PROVE Again'
  OBVIOUS
<1>1. /\ stage = "metadata" /\ stage' = stage /\ Pair!Next
      /\ UNCHANGED <<file, absorbed, input, carried, unvisited>>
  BY DEF MergePair, fileVars, runVars
<1>2. PP!IInv /\ PP!MapLeast /\ PP!Next
  BY <1>1, SamePair DEF IInv, Pairing, Again, PairLeast
<1>3. None \notin PP!Metadata
  BY SamePair, ConstantsAssumption
<1>4. PP!MapLeast' /\ rowids' = rowids
  BY <1>2, <1>3, PP!MapLeastKeeps, PP!SidesStand, ConstantsAssumption DEF PP!inputs
<1>5. Rowed'
  BY <1>1, <1>4 DEF Again, Rowed, RowsStand, RowsPlaced
<1>6. PairLeast' /\ Copied' /\ Landed'
  BY <1>1, <1>4 DEF PairLeast, Copied, Landed
<1> QED BY <1>1, <1>5, <1>6, ArrivedStands DEF Again

(* What merge_metadata hands back is what both sides stated.               *)
LEMMA EndPairAgain == IInv /\ Again /\ EndPair => Again'
<1> SUFFICES ASSUME IInv, Again, EndPair PROVE Again'
  OBVIOUS
<1>1. /\ IsContainer(input) /\ Keyed(input) /\ IsContainer(file) /\ Keyed(file)
      /\ stage = "metadata" /\ phase = "done" /\ stage' = "build" /\ UNCHANGED <<file, input>>
      /\ dest = ReadMetadata(file) /\ source = ReadMetadata(input)
      /\ PP!IInv /\ PP!Followed
      /\ carried'.pyramids = carried.pyramids /\ carried'.metadata = merged
      /\ file # Absent /\ absorbed' = absorbed
  BY PairSides, ContainerIsPresent DEF EndPair, fileVars
<1>2. /\ source = None <=> input.metadata = None
      /\ dest = None <=> file.metadata = None
      /\ source # None => /\ PP!Members(source.records) = RecordsOf(input)
                          /\ PP!Members(source.refs) = RefsOf(input)
      /\ dest # None => /\ PP!Members(dest.records) = RecordsOf(file)
                        /\ PP!Members(dest.refs) = RefsOf(file)
  BY <1>1, ReadSets
<1>3. RowsStand'
  BY <1>1 DEF Again, Rowed, RowsStand
<1>4. /\ RecordsOf(carried') = PP!Members(merged.records)
      /\ RefsOf(carried') = PP!Members(merged.refs)
  BY <1>1 DEF RecordsOf, RefsOf, PP!Members
<1>7. RefsInOrder'
  <2>1. SUFFICES ASSUME file.metadata # None PROVE RefsInOrder'
    BY <1>1 DEF RefsInOrder
  <2>2. None \notin PP!Metadata
    BY SamePair, ConstantsAssumption
  <2>3. /\ merged \in PP!Metadata
        /\ \A i \in DOMAIN dest.refs : i \in DOMAIN merged.refs /\ merged.refs[i] = dest.refs[i]
        /\ PP!NewRefsAfter(Len(dest.refs), merged.refs)
        /\ Len(merged.refs) <= Len(dest.refs) + (IF source = None THEN 0 ELSE Len(source.refs))
    BY <1>1, <1>2, <2>1, <2>2, PP!MergedRefs, ConstantsAssumption
  <2>4. dest.refs = file.metadata.refs /\ (source # None => source.refs = input.metadata.refs)
    BY <1>1, <1>2, <2>1, ReadSets
  <2>5. carried'.metadata = merged /\ merged # None
    BY <1>1, <2>2, <2>3
  <2> QED BY <1>1, <1>2, <2>3, <2>4, <2>5 DEF RefsInOrder
<1>5. Landed'
  <2>1. CASE source = None
    <3>1. merged = IF dest = None THEN source ELSE dest
      BY <1>1, <2>1 DEF PP!IInv, PP!OneSided
    <3>2. OnlyTheirs'
      BY <1>1, <1>2, <1>4, <3>1 DEF OnlyTheirs
    <3>3. RefsLand'
      BY <1>1, <1>2, <2>1 DEF RefsLand
    <3> QED BY <1>3, <1>7, <3>2, <3>3 DEF Landed
  <2>2. CASE source # None /\ dest = None
    BY <1>1, <1>2, <1>3, <1>7, <2>2 DEF Landed
  <2>3. CASE source # None /\ dest # None
    <3>1. None \notin PP!Metadata
      BY SamePair, ConstantsAssumption
    <3>2. /\ merged \in PP!Metadata
          /\ PP!Members(merged.refs) =
               PP!Members(dest.refs) \cup {PP!Mapped(r, ids, rowids) : r \in PP!Members(source.refs)}
          /\ \A j \in DOMAIN merged.records :
               \/ \E i \in DOMAIN dest.records : dest.records[i] = merged.records[j]
               \/ \A i \in DOMAIN dest.records : dest.records[i].doc # merged.records[j].doc
      BY <1>1, <2>3, <3>1, PP!MergedSays, ConstantsAssumption DEF Again, PairLeast
    <3>3. \A r \in RefsOf(input) : Lands(r, PP!Mapped(r, ids, rowids), input, carried')
      BY <2>3, MappedLands DEF Again
    <3>4. RefsLand'
      <4>1. merged # None
        BY <3>1, <3>2
      <4>2. \A r \in RefsOf(input) : PP!Mapped(r, ids, rowids) \in RefsOf(carried')
        BY <1>2, <1>4, <2>3, <3>2
      <4> QED BY <1>1, <3>3, <4>1, <4>2 DEF RefsLand
    <3>5. OnlyTheirs'
      <4>1. ASSUME NEW w \in RefsOf(carried')
            PROVE  w \in RefsOf(file) \/ \E r \in RefsOf(input) : Lands(r, w, input, carried')
        BY <1>2, <1>4, <2>3, <3>2, <3>3, <4>1
      <4>2. ASSUME NEW x \in RecordsOf(carried')
            PROVE  x \in RecordsOf(file) \/ \A y \in RecordsOf(file) : y.doc # x.doc
        BY <1>2, <1>4, <2>3, <3>2 DEF PP!Members
      <4> QED BY <1>1, <1>2, <2>3, <4>1, <4>2 DEF OnlyTheirs
    <3> QED BY <1>3, <1>7, <3>4, <3>5 DEF Landed
  <2> QED BY <2>1, <2>2, <2>3
<1>6. Rowed' /\ PairLeast' /\ Copied'
  BY <1>1 DEF Rowed, PairLeast, Copied
<1> QED BY <1>1, <1>5, <1>6, ArrivedStands DEF Again

-----------------------------------------------------------------------------
(* A reference as it is written is kept, and written the same, when it is  *)
(* judged again.                                                           *)
LEMMA NormalisedAgain ==
  ASSUME NEW r \in Pair!Reference, NEW docs, NEW layers, NEW k, Retainable(r, docs, layers, k)
  PROVE  /\ Retainable(Normalised(r, docs), docs, layers, k)
         /\ Normalised(Normalised(r, docs), docs) = Normalised(r, docs)
<1> DEFINE w == Normalised(r, docs)
<1>0. w \in Pair!Reference
  BY NormalisedIsReference
<1>1. /\ w.file = r.file /\ w.scope = r.scope
      /\ w.table = IF r.scope = "geopackage" THEN None ELSE r.table
      /\ w.column = IF WantsColumn(r.scope) THEN r.column ELSE None
      /\ w.row = IF WantsRow(r.scope) THEN r.row ELSE None
      /\ w.parent = IF r.parent \in docs \ {r.file} THEN r.parent ELSE None
  BY DEF Normalised, Pair!Reference
<1> HIDE DEF w
<1>2. Retainable(w, docs, layers, k)
  BY <1>1 DEF Retainable, Locates
<1>3. Normalised(w, docs) = w
  <2> DEFINE v == Normalised(w, docs)
  <2>0. v \in Pair!Reference
    BY <1>0, NormalisedIsReference
  <2>1. /\ v.file = w.file /\ v.scope = w.scope
        /\ v.table = IF w.scope = "geopackage" THEN None ELSE w.table
        /\ v.column = IF WantsColumn(w.scope) THEN w.column ELSE None
        /\ v.row = IF WantsRow(w.scope) THEN w.row ELSE None
        /\ v.parent = IF w.parent \in docs \ {w.file} THEN w.parent ELSE None
    BY <1>0 DEF Normalised, Pair!Reference
  <2> HIDE DEF v
  <2>2. /\ v.file = w.file /\ v.scope = w.scope /\ v.table = w.table /\ v.column = w.column
        /\ v.row = w.row /\ v.parent = w.parent
    BY <1>1, <2>1
  <2> QED BY <1>0, <2>0, <2>2 DEF Pair!Reference, v
<1> QED BY <1>2, <1>3 DEF w

(* The pair of a written file: the records carried, and the references     *)
(* that are kept.                                                          *)
LEMMA WrittenSets ==
  ASSUME IInv, Write, carried.metadata # None
  PROVE  /\ carried.metadata \in Pair!Metadata /\ file'.metadata # None
         /\ RecordsOf(file') = RecordsOf(carried) /\ DocIds(file') = DocIds(carried)
         /\ \A w : Retainable(w, DocIds(carried), Layers, carried)
                     <=> Retainable(w, DocIds(carried), file'.layers, file')
         /\ \A v \in RefsOf(file') : \E w \in RefsOf(carried) :
              /\ Retainable(w, DocIds(carried), Layers, carried)
              /\ v = Normalised(w, DocIds(carried))
         /\ \A w \in RefsOf(carried) : Retainable(w, DocIds(carried), Layers, carried) =>
              Normalised(w, DocIds(carried)) \in RefsOf(file')
<1> DEFINE md == carried.metadata
           kept == RetainedReferences(md, Layers, carried)
<1>1. /\ file'.layers = Layers /\ file'.pyramids = carried.pyramids
      /\ file'.tables = carried.tables
      /\ file'.metadata = WrittenMetadata(md, Layers, carried)
  BY WriteIsUnion
<1>2. md \in Pair!Metadata
  BY RunFacts DEF Write, WellFormed
<1>3. file'.metadata # None /\ file'.metadata.records = md.records /\ file'.metadata.refs = kept
  BY <1>1, <1>2, WrittenPair
<1>4. \A w : Retainable(w, DocIds(carried), Layers, carried)
               <=> Retainable(w, DocIds(carried), file'.layers, file')
  BY <1>1 DEF Retainable, Locates
<1> HIDE DEF md
<1>5. /\ \A i \in DOMAIN kept : \E n \in DOMAIN md.refs :
           /\ Retainable(md.refs[n], DocIds(carried), Layers, carried)
           /\ kept[i] = Normalised(md.refs[n], DocIds(carried))
      /\ \A n \in DOMAIN md.refs : Retainable(md.refs[n], DocIds(carried), Layers, carried) =>
           \E i \in DOMAIN kept : kept[i] = Normalised(md.refs[n], DocIds(carried))
  <2> DEFINE docs == Pair!IdsOf(md.records)
  <2>1. /\ \A i \in DOMAIN kept : \E n \in DOMAIN md.refs :
             /\ Retainable(md.refs[n], docs, Layers, carried)
             /\ kept[i] = Normalised(md.refs[n], docs)
        /\ \A n \in DOMAIN md.refs : Retainable(md.refs[n], docs, Layers, carried) =>
             \E i \in DOMAIN kept : kept[i] = Normalised(md.refs[n], docs)
    BY <1>2, RetainedMembers
  <2>2. docs = DocIds(carried)
    BY DEF DocIds, md
  <2> HIDE DEF kept, docs
  <2> QED BY <2>1, <2>2
<1>6. /\ RefsOf(file') = {kept[i] : i \in DOMAIN kept}
      /\ RefsOf(carried) = {md.refs[n] : n \in DOMAIN md.refs}
  BY <1>3 DEF RefsOf, md
<1>7. RecordsOf(file') = RecordsOf(carried) /\ DocIds(file') = DocIds(carried)
  BY <1>3 DEF RecordsOf, DocIds, md
<1> HIDE DEF kept
<1>8. \A v \in RefsOf(file') : \E w \in RefsOf(carried) :
        /\ Retainable(w, DocIds(carried), Layers, carried)
        /\ v = Normalised(w, DocIds(carried))
  BY <1>5, <1>6
<1>9. \A w \in RefsOf(carried) : Retainable(w, DocIds(carried), Layers, carried) =>
        Normalised(w, DocIds(carried)) \in RefsOf(file')
  BY <1>5, <1>6
<1> QED BY <1>2, <1>3, <1>4, <1>7, <1>8, <1>9 DEF md

(* What a write leaves of each pyramid, in one set of tiles.               *)
LEMMA WrittenTiles ==
  ASSUME IInv, Write
  PROVE  /\ DOMAIN file'.pyramids = DOMAIN Old.pyramids \cup DOMAIN input.pyramids
         /\ \A n \in DOMAIN file'.pyramids :
              Tiles!Contents(file'.pyramids[n].body.tiles)
                = (IF n \in DOMAIN Old.pyramids THEN Old.pyramids[n].tiles ELSE {})
                    \cup (IF n \in DOMAIN input.pyramids
                          THEN Tiles!Contents(input.pyramids[n].body.tiles) ELSE {})
<1>1. /\ stage = "build" /\ file'.pyramids = carried.pyramids
      /\ file # Absent => IsContainer(file) /\ Keyed(file)
  BY WriteIsUnion DEF Write, IInv, FileOK
<1>2. /\ IsContainer(input) /\ Keyed(input) /\ DOMAIN New.pyramids = DOMAIN input.pyramids
      /\ PyramidsTo(carried, Old, New, DOMAIN New.pyramids)
  BY <1>1, RunFacts DEF IInv, Building, United
<1>3. \A n \in DOMAIN input.pyramids :
        New.pyramids[n].tiles = Tiles!Contents(input.pyramids[n].body.tiles)
  <2>1. New.pyramids = [n \in DOMAIN input.pyramids |-> PyramidBox(ReadPyramids(input)[n])]
    BY <1>2, BoxParts DEF New
  <2> QED BY <1>2, <2>1, ReadContent DEF PyramidBox
<1>4. \A n \in DOMAIN Old.pyramids :
        Old.pyramids[n] = [ident |-> Old.pyramids[n].ident, scheme |-> Old.pyramids[n].scheme,
                           tiles |-> Old.pyramids[n].tiles]
  <2>1. CASE file = Absent
    BY <2>1, BoxOfAbsent DEF Old
  <2>2. CASE file # Absent
    <3>1. Old.pyramids = [n \in DOMAIN file.pyramids |-> PyramidBox(ReadPyramids(file)[n])]
      BY <1>1, <2>2, BoxParts DEF Old
    <3> QED BY <3>1 DEF PyramidBox
  <2> QED BY <2>1, <2>2
<1>5. \A p, q : p = [ident |-> p.ident, scheme |-> p.scheme, tiles |-> p.tiles] =>
                  Abs!MergedPyramid(p, q).tiles = p.tiles \cup q.tiles
  BY DEF Abs!MergedPyramid
<1>6. \A n \in DOMAIN carried.pyramids :
        Tiles!Contents(carried.pyramids[n].body.tiles) = UnionAt(Old, New, n).tiles
  <2>1. ASSUME NEW n \in DOMAIN carried.pyramids
        PROVE  PyramidBox(carried.pyramids[n]) = UnionAt(Old, New, n)
    BY <1>2 DEF PyramidsTo, UnionAt
  <2>2. \A p : PyramidBox(p).tiles = Tiles!Contents(p.body.tiles)
    BY DEF PyramidBox
  <2> QED BY <2>1, <2>2
<1>7. DOMAIN carried.pyramids = DOMAIN Old.pyramids \cup DOMAIN input.pyramids
  BY <1>2 DEF PyramidsTo
<1>8. ASSUME NEW n \in DOMAIN carried.pyramids
      PROVE  UnionAt(Old, New, n).tiles
               = (IF n \in DOMAIN Old.pyramids THEN Old.pyramids[n].tiles ELSE {})
                   \cup (IF n \in DOMAIN input.pyramids
                         THEN Tiles!Contents(input.pyramids[n].body.tiles) ELSE {})
  <2>1. CASE n \notin DOMAIN input.pyramids
    BY <1>2, <1>7, <2>1 DEF UnionAt
  <2>2. CASE n \in DOMAIN input.pyramids /\ n \notin DOMAIN Old.pyramids
    BY <1>2, <1>3, <2>2 DEF UnionAt
  <2>3. CASE n \in DOMAIN input.pyramids /\ n \in DOMAIN Old.pyramids
    <3>1. UnionAt(Old, New, n) = Abs!MergedPyramid(Old.pyramids[n], New.pyramids[n])
      BY <1>2, <2>3 DEF UnionAt
    <3>2. PICK p : p = Old.pyramids[n]
      OBVIOUS
    <3>3. PICK q : q = New.pyramids[n]
      OBVIOUS
    <3>4. p = [ident |-> p.ident, scheme |-> p.scheme, tiles |-> p.tiles]
      BY <1>4, <2>3, <3>2
    <3>5. Abs!MergedPyramid(p, q).tiles = p.tiles \cup q.tiles
      BY <1>5, <3>4
    <3>6. UnionAt(Old, New, n).tiles = Old.pyramids[n].tiles \cup New.pyramids[n].tiles
      BY <3>1, <3>2, <3>3, <3>5
    <3> QED BY <1>3, <2>3, <3>6
  <2> QED BY <2>1, <2>2, <2>3
<1> QED BY <1>1, <1>6, <1>7, <1>8

(* The documents of a pair, as its records have them.                      *)
LEMMA DocsOfRecords ==
  ASSUME NEW c
  PROVE  PP!DocsOf(c.metadata) = IF c.metadata = None THEN {} ELSE {x.doc : x \in RecordsOf(c)}
BY DEF PP!DocsOf, RecordsOf

(* What is carried when a run writes documents what either side did.       *)
LEMMA CarriedDocs ==
  ASSUME IInv, stage = "build", carried.metadata # None
  PROVE  /\ input.metadata # None =>
              \A x \in RecordsOf(input) : \E y \in RecordsOf(carried) : y.doc = x.doc
         /\ \A y \in RecordsOf(carried) :
              \/ file # Absent /\ file.metadata # None /\ \E x \in RecordsOf(file) : x.doc = y.doc
              \/ input.metadata # None /\ \E x \in RecordsOf(input) : x.doc = y.doc
<1>1. /\ IsContainer(input) /\ Keyed(input)
      /\ file # Absent => IsContainer(file) /\ Keyed(file)
      /\ PP!DocsOf(carried.metadata) = Old.docs \cup New.docs
  BY RunFacts DEF IInv, FileOK, Building, United
<1>2. /\ New.docs = PP!DocsOf(input.metadata)
      /\ file # Absent => Old.docs = PP!DocsOf(file.metadata)
      /\ file = Absent => Old.docs = {}
  BY <1>1, BoxParts, BoxOfAbsent, ReadPair DEF Old, New
<1>3. {y.doc : y \in RecordsOf(carried)} = Old.docs \cup New.docs
  BY <1>1, DocsOfRecords
<1>4. /\ New.docs = IF input.metadata = None THEN {} ELSE {x.doc : x \in RecordsOf(input)}
      /\ file # Absent =>
           Old.docs = IF file.metadata = None THEN {} ELSE {x.doc : x \in RecordsOf(file)}
  BY <1>2, DocsOfRecords
<1>5. ASSUME input.metadata # None, NEW x \in RecordsOf(input)
      PROVE  \E y \in RecordsOf(carried) : y.doc = x.doc
  <2>1. x.doc \in {y.doc : y \in RecordsOf(carried)}
    BY <1>3, <1>4, <1>5
  <2> QED BY <2>1
<1>6. ASSUME NEW y \in RecordsOf(carried)
      PROVE  \/ file # Absent /\ file.metadata # None /\ \E x \in RecordsOf(file) : x.doc = y.doc
             \/ input.metadata # None /\ \E x \in RecordsOf(input) : x.doc = y.doc
  <2>1. y.doc \in Old.docs \/ y.doc \in New.docs
    BY <1>3
  <2> QED BY <1>2, <1>4, <2>1
<1> QED BY <1>5, <1>6

(* A pair that is copied to a new file is where a merge would have put it, *)
(* when no two of its records are one document.                            *)
LEMMA CopyLands ==
  ASSUME NEW s, IsContainer(s), Keyed(s), s.metadata # None, DocsApart(s.metadata),
         NEW r \in RefsOf(s)
  PROVE  Lands(r, r, s, Carried(s))
<1>1. s.metadata \in Pair!Metadata /\ IdsDistinct(s.metadata.records)
  BY DEF IsContainer, Keyed
<1>2. r \in Pair!Reference
  BY <1>1 DEF RefsOf, Pair!Metadata
<1>3. r = [r EXCEPT !.row = r.row, !.file = r.file, !.parent = r.parent]
  BY <1>2 DEF Pair!Reference
<1>4. RowLands(r, r.row, s.pyramids, Carried(s).pyramids)
  BY ReadTiles DEF RowLands
<1>5. \A x, y \in RecordsOf(s) : x.doc = y.doc => x = y
  BY DEF DocsApart, RecordsOf
<1>6. \A x \in RecordsOf(s) : x.id \in Nat
  BY <1>1, RecordsAreKeyed
<1>7. \A a : IdLands(a, a, RecordsOf(s), RecordsOf(s))
  <2> SUFFICES ASSUME NEW x \in RecordsOf(s) PROVE LeastId(RecordsOf(s), x.doc, x.id)
    BY DEF IdLands
  <2>1. \A y \in RecordsOf(s) : y.doc = x.doc => x.id <= y.id
    BY <1>5, <1>6
  <2> QED BY <2>1 DEF LeastId
<1>8. RecordsOf(Carried(s)) = RecordsOf(s)
  BY ReadTiles
<1> QED BY <1>3, <1>4, <1>7, <1>8 DEF Lands

(* What is absorbed has all its references carried, where they land.       *)
LEMMA AbsorbedLands ==
  ASSUME IInv, Again, stage = "build", Absorbs
  PROVE  RefsLand
<1> SUFFICES ASSUME input.metadata # None PROVE RefsLand
  BY DEF RefsLand
<1>1. IsContainer(input) /\ Keyed(input)
  BY RunFacts
<1>2. CASE file # Absent
  BY <1>2 DEF Absorbs, Again, Landed
<1>3. CASE file = Absent
  <2>1. carried = Carried(input) /\ DocsApart(input.metadata)
    BY <1>3 DEF Absorbs, Again, Copied
  <2>2. carried.metadata # None /\ RefsOf(carried) = RefsOf(input)
    BY <1>1, <2>1, ReadTiles
  <2> QED BY <1>1, <2>1, <2>2, CopyLands DEF RefsLand
<1> QED BY <1>2, <1>3

(* The pyramids of the source are in what is carried.                      *)
LEMMA CarriedPyramids ==
  ASSUME IInv, stage = "build"
  PROVE  DOMAIN input.pyramids \subseteq DOMAIN carried.pyramids
BY RunFacts DEF IInv, Building, United, PyramidsTo

(* A write leaves a file that holds what it has taken in: its layers, its   *)
(* tables and its tiles ...                                                *)
LEMMA WriteHolds ==
  ASSUME IInv, Write, NEW s, NEW names, s = input, names = chosen
  PROVE  HoldsContent(s, names)'
<1>1. /\ stage = "build" /\ IsContainer(file')
      /\ file'.layers = Layers /\ file'.tables = carried.tables
  BY WriteIsUnion DEF Write
<1>2. file' # Absent
  BY <1>1, ContainerIsPresent
<1>3. \A n \in DOMAIN file'.layers : file'.layers[n].ident # None
  BY <1>1, BuildIsUnion
<1>4. \A n \in names : n \in DOMAIN file'.layers /\ file'.layers[n] = ReadLayers(s)[n]
  <2>1. Chosen(ReadLayers(s), names) = [n \in names |-> ReadLayers(s)[n]]
    BY DEF Chosen
  <2>2. CASE file = Absent
    <3>1. Layers = Chosen(ReadLayers(s), names)
      BY <2>2 DEF Layers
    <3> QED BY <1>1, <2>1, <3>1
  <2>3. CASE file # Absent
    <3>1. Layers = Over(ReadLayers(file), Chosen(ReadLayers(s), names))
      BY <2>3 DEF Layers
    <3> QED BY <1>1, <2>1, <3>1 DEF Over
  <2> QED BY <2>2, <2>3
<1>5. DOMAIN s.tables \subseteq DOMAIN file'.tables
  <2>1. carried.tables = Abs!Over(Old.tables, New.tables) /\ New.tables = s.tables
    BY <1>1, RunFacts DEF IInv, Building, United, TablesMerged
  <2> QED BY <1>1, <2>1 DEF Abs!Over
<1>6. \A n \in DOMAIN s.pyramids :
        /\ n \in DOMAIN file'.pyramids
        /\ Tiles!Contents(s.pyramids[n].body.tiles)
             \subseteq Tiles!Contents(file'.pyramids[n].body.tiles)
  BY WrittenTiles
<1> QED BY <1>2, <1>3, <1>4, <1>5, <1>6 DEF HoldsContent

(* ... and its documents and references.                                   *)
LEMMA WriteHoldsPair ==
  ASSUME IInv, Again, Write, Absorbs, NEW s, s = input
  PROVE  HoldsPair(s)'
<1>1. /\ stage = "build" /\ file'.pyramids = carried.pyramids
      /\ file'.metadata = WrittenMetadata(carried.metadata, Layers, carried)
      /\ IsContainer(s) /\ Keyed(s) /\ WellFormed(carried)
      /\ DOMAIN s.pyramids \subseteq DOMAIN carried.pyramids
  BY WriteIsUnion, RunFacts, CarriedPyramids DEF Write
<1>2. s.metadata # None =>
        /\ carried.metadata # None
        /\ \A r \in RefsOf(s) : \E w \in RefsOf(carried) : Lands(r, w, s, carried)
  BY <1>1, AbsorbedLands DEF RefsLand
<1>3. ASSUME s.metadata # None PROVE file'.metadata # None
  BY <1>2, <1>3, WrittenSets
<1>4. ASSUME s.metadata # None, NEW x \in RecordsOf(s)
      PROVE  \E y \in RecordsOf(file') : y.doc = x.doc
  BY <1>1, <1>2, <1>4, WrittenSets, CarriedDocs
<1>5. ASSUME s.metadata # None, NEW r \in RefsOf(s), NEW w,
             Lands(r, w, s, file'), Retainable(w, DocIds(file'), file'.layers, file')
      PROVE  Normalised(w, DocIds(file')) \in RefsOf(file')
  <2>1. PICK v \in RefsOf(carried) : Lands(r, v, s, carried)
    BY <1>2, <1>5
  <2>2. RecordsOf(file') = RecordsOf(carried) /\ DocIds(file') = DocIds(carried)
    BY <1>2, <1>5, WrittenSets
  <2>3. Lands(r, w, s, carried)
    BY <1>1, <1>5, <2>2 DEF Lands
  <2>4. v = w
    BY <1>1, <1>2, <1>5, <2>1, <2>3, LandsOnce
  <2> QED BY <1>2, <1>5, <2>1, <2>2, <2>4, WrittenSets
<1>6. ASSUME file'.metadata # None, NEW w \in RefsOf(file')
      PROVE  /\ Retainable(w, DocIds(file'), file'.layers, file')
             /\ Normalised(w, DocIds(file')) = w
  <2>1. carried.metadata # None
    BY <1>1, <1>6 DEF WrittenMetadata
  <2>2. PICK v \in RefsOf(carried) : /\ Retainable(v, DocIds(carried), Layers, carried)
                                     /\ w = Normalised(v, DocIds(carried))
    BY <1>6, <2>1, WrittenSets
  <2>3. v \in Pair!Reference
    <3>1. carried.metadata \in Pair!Metadata
      BY <2>1, WrittenSets
    <3> QED BY <3>1 DEF RefsOf, Pair!Metadata
  <2>4. /\ Retainable(w, DocIds(carried), Layers, carried)
        /\ Normalised(w, DocIds(carried)) = w
    BY <2>2, <2>3, NormalisedAgain
  <2> QED BY <2>1, <2>4, WrittenSets
<1> QED BY <1>3, <1>4, <1>5, <1>6 DEF HoldsPair

(* The write of a run.                                                     *)
LEMMA WriteAgain == IInv /\ Again /\ Write => Again'
<1> SUFFICES ASSUME IInv, Again, Write PROVE Again'
  OBVIOUS
<1>1. /\ stage' = "idle" /\ absorbed' = IF Absorbs THEN {<<input, chosen>>} ELSE {}
  BY DEF Write
<1>2. Arrived'
  <2> SUFFICES ASSUME NEW a \in absorbed' PROVE (HoldsContent(a[1], a[2]) /\ HoldsPair(a[1]))'
    BY DEF Arrived
  <2>1. Absorbs /\ a = <<input, chosen>>
    BY <1>1
  <2>2. PICK s, names : s = input /\ names = chosen
    OBVIOUS
  <2>3. HoldsContent(s, names)' /\ HoldsPair(s)'
    BY <2>1, <2>2, WriteHolds, WriteHoldsPair
  <2>4. a[1] = s /\ a[2] = names
    BY <2>1, <2>2
  <2> QED BY <2>3, <2>4
<1>3. Rowed' /\ PairLeast' /\ Copied' /\ Landed'
  BY <1>1 DEF Rowed, PairLeast, Copied, Landed
<1> QED BY <1>2, <1>3 DEF Again

(* Before the first run nothing has been taken in.                         *)
LEMMA InitAgain == Init => Again
BY DEF Init, Again, Rowed, PairLeast, Copied, Landed, Arrived

(* Nothing happens.                                                        *)
LEMMA StutterAgain == Again /\ UNCHANGED vars => Again'
<1> SUFFICES ASSUME Again, UNCHANGED vars PROVE Again'
  OBVIOUS
<1>1. UNCHANGED <<file, absorbed, input, chosen, carried, unvisited, stage, pairVars>>
  BY DEF vars, fileVars, runVars
<1>2. Rowed' /\ Copied' /\ Landed'
  <2>1. Rowed' /\ Copied' /\ (RowsStand => RowsStand') /\ (RefsLand /\ OnlyTheirs => (RefsLand /\ OnlyTheirs)')
    BY <1>1 DEF Again, Rowed, RowsStand, RowsPlaced, Copied, RefsLand, OnlyTheirs, pairVars
  <2>2. RefsInOrder => RefsInOrder'
    BY <1>1 DEF RefsInOrder, PP!NewRefsAfter
  <2> QED BY <1>1, <2>1, <2>2 DEF Again, Landed
<1>3. PairLeast'
  BY <1>1 DEF Again, PairLeast, PP!MapLeast, PP!Both, PP!Merging, PP!SeenRecords, pairVars
<1> QED BY <1>1, <1>2, <1>3, ArrivedStands DEF Again

(* Every step keeps what is known of the source's references.              *)
LEMMA AgainKeeps == IInv /\ Again /\ [Next]_vars => Again'
<1>1. IInv /\ Again /\ (RefuseCrossKind \/ RefuseTiles \/ RefuseTables \/ RefuseBuild) => Again'
  BY RefuseAgain DEF RefuseCrossKind, RefuseTiles, RefuseTables, RefuseBuild
<1>2. IInv /\ Again /\ Step => Again'
  BY <1>1, EmptySideAgain, BeginPyramidsAgain, AddPyramidAgain, TilesAgain, EndTilesAgain,
     MergeTablesAgain, MergePairAgain, EndPairAgain, WriteAgain DEF Step
<1> QED BY <1>2, StartAgain, StutterAgain DEF Next

-----------------------------------------------------------------------------
(* Only a write ends a run as written.                                     *)
LEMMA OnlyWriteEndsWritten ==
  ASSUME IInv, [Next]_vars, stage = "build", last' = "written"
  PROVE  Write
<1>1. last = "none"
  BY DEF IInv, RunOK
<1> QED BY <1>1 DEF Next, Step, vars, Start, Refuse, EmptySide, RefuseCrossKind, BothCarry,
        BeginPyramids, AddPyramid, BeginTiles, MergeTiles, RefuseTiles, EndTiles, RefuseTables,
        PyramidsDone, MergeTables, MergePair, EndPair, RefuseBuild

(* A source written again to the file that has it leaves its layers and     *)
(* tables ...                                                              *)
LEMMA SameTables ==
  ASSUME IInv, Write, HoldsContent(input, chosen)
  PROVE  file'.layers = file.layers /\ file'.tables = file.tables
<1>1. /\ stage = "build" /\ file # Absent /\ IsContainer(file) /\ Keyed(file) /\ IsContainer(input)
      /\ file'.layers = Layers /\ file'.tables = carried.tables
      /\ chosen \subseteq DOMAIN input.layers
  BY WriteIsUnion, RunFacts DEF Write, HoldsContent, IInv, FileOK, RunOK, Choices
<1>2. NamesTo(file.layers, Layer) /\ NamesTo(file.tables, Table)
  BY <1>1 DEF IsContainer
<1>3. ReadLayers(file) = file.layers
  <2>1. \A n \in DOMAIN file.layers :
          file.layers[n] \in Layer /\ file.layers[n].ident # None
    BY <1>2 DEF HoldsContent, NamesTo
  <2>2. \A n \in DOMAIN file.layers :
          [file.layers[n] EXCEPT !.ident = IF @ = None THEN n ELSE @] = file.layers[n]
    BY <2>1 DEF Layer
  <2>3. file.layers = [n \in DOMAIN file.layers |-> file.layers[n]]
    BY <1>2 DEF NamesTo
  <2> QED BY <2>2, <2>3 DEF ReadLayers
<1>4. Layers = file.layers
  <2>1. Layers = Over(file.layers, Chosen(ReadLayers(input), chosen))
    BY <1>1, <1>3 DEF Layers
  <2>2. \A n \in chosen : n \in DOMAIN file.layers /\ file.layers[n] = ReadLayers(input)[n]
    BY DEF HoldsContent
  <2>3. file.layers = [n \in DOMAIN file.layers |-> file.layers[n]]
    BY <1>2 DEF NamesTo
  <2>4. /\ DOMAIN Chosen(ReadLayers(input), chosen) = chosen
        /\ \A n \in chosen : Chosen(ReadLayers(input), chosen)[n] = ReadLayers(input)[n]
    BY DEF Chosen
  <2> QED BY <2>1, <2>2, <2>3, <2>4 DEF Over
<1>5. carried.tables = file.tables
  <2>1. /\ carried.tables = Abs!Over(file.tables, input.tables)
        /\ DOMAIN file.tables \cap DOMAIN input.tables = {}
    BY <1>1, RunFacts, BoxParts DEF IInv, Building, United, TablesMerged, Old
  <2>2. DOMAIN input.tables = {}
    BY <2>1 DEF HoldsContent
  <2>3. file.tables = [n \in DOMAIN file.tables |-> file.tables[n]]
    BY <1>2 DEF NamesTo
  <2> QED BY <2>1, <2>2, <2>3 DEF Abs!Over
<1> QED BY <1>1, <1>4, <1>5

(* ... its tiles ...                                                       *)
LEMMA SameTilesOf ==
  ASSUME IInv, Write, HoldsContent(input, chosen)
  PROVE  TilesOf(file') = TilesOf(file) /\ DOMAIN file'.pyramids = DOMAIN file.pyramids
<1>1. file # Absent /\ IsContainer(file) /\ Keyed(file)
  BY DEF HoldsContent, IInv, FileOK
<1>2. /\ DOMAIN Old.pyramids = DOMAIN file.pyramids
      /\ \A n \in DOMAIN file.pyramids :
           Old.pyramids[n].tiles = Tiles!Contents(file.pyramids[n].body.tiles)
  <2>1. Old.pyramids = [n \in DOMAIN file.pyramids |-> PyramidBox(ReadPyramids(file)[n])]
    BY <1>1, BoxParts DEF Old
  <2> QED BY <1>1, <2>1, ReadContent DEF PyramidBox
<1>3. DOMAIN input.pyramids \subseteq DOMAIN file.pyramids
  BY DEF HoldsContent
<1>4. DOMAIN file'.pyramids = DOMAIN file.pyramids
  BY <1>2, <1>3, WrittenTiles
<1>5. ASSUME NEW n \in DOMAIN file.pyramids
      PROVE  Tiles!Contents(file'.pyramids[n].body.tiles)
               = Tiles!Contents(file.pyramids[n].body.tiles)
  <2>1. Tiles!Contents(file'.pyramids[n].body.tiles)
          = Tiles!Contents(file.pyramids[n].body.tiles)
              \cup (IF n \in DOMAIN input.pyramids
                    THEN Tiles!Contents(input.pyramids[n].body.tiles) ELSE {})
    BY <1>2, <1>4, <1>5, WrittenTiles
  <2>2. n \in DOMAIN input.pyramids =>
          Tiles!Contents(input.pyramids[n].body.tiles)
            \subseteq Tiles!Contents(file.pyramids[n].body.tiles)
    BY DEF HoldsContent
  <2> QED BY <2>1, <2>2
<1> QED BY <1>4, <1>5 DEF TilesOf

(* ... its documents ...                                                   *)
LEMMA SameRecords ==
  ASSUME IInv, Again, Write, HoldsContent(input, chosen), HoldsPair(input), file.metadata # None
  PROVE  RecordsOf(carried) = RecordsOf(file) /\ carried.metadata # None /\ OnlyTheirs
<1>1. /\ stage = "build" /\ file # Absent /\ Keeps(carried.metadata, file.metadata)
  BY DEF Write, HoldsContent, IInv, Building
<1>2. carried.metadata # None /\ RecordsOf(file) \subseteq RecordsOf(carried)
  BY <1>1 DEF Keeps, RecordsOf
<1>3. OnlyTheirs
  BY <1>1 DEF Again, Landed
<1>4. ASSUME NEW y \in RecordsOf(carried) PROVE y \in RecordsOf(file)
  <2>1. \E x \in RecordsOf(file) : x.doc = y.doc
    <3>1. CASE \E x \in RecordsOf(file) : x.doc = y.doc
      BY <3>1
    <3>2. CASE input.metadata # None /\ \E x \in RecordsOf(input) : x.doc = y.doc
      BY <3>2 DEF HoldsPair
    <3> QED BY <1>1, <1>2, <3>1, <3>2, CarriedDocs
  <2> QED BY <1>3, <2>1 DEF OnlyTheirs
<1> QED BY <1>2, <1>3, <1>4

(* ... each reference is kept or dropped as it was ...                     *)
LEMMA JudgedAlike ==
  ASSUME IInv, Again, Write, HoldsContent(input, chosen), HoldsPair(input), file.metadata # None
  PROVE  /\ RecordsOf(file') = RecordsOf(file) /\ DocIds(carried) = DocIds(file)
         /\ \A w : Retainable(w, DocIds(carried), Layers, carried)
                     <=> Retainable(w, DocIds(file), file.layers, file)
<1>1. file'.layers = Layers /\ file'.pyramids = carried.pyramids /\ file'.tables = carried.tables
  BY WriteIsUnion
<1>2. RecordsOf(carried) = RecordsOf(file) /\ carried.metadata # None
  BY SameRecords
<1>3. /\ RecordsOf(file') = RecordsOf(file) /\ DocIds(carried) = DocIds(file)
  <2>1. \A c : DocIds(c) = {x.id : x \in RecordsOf(c)}
    BY DEF DocIds, Pair!IdsOf, RecordsOf
  <2> QED BY <1>2, <2>1, WrittenSets
<1>4. /\ Layers = file.layers /\ carried.tables = file.tables
      /\ DOMAIN carried.pyramids = DOMAIN file.pyramids
  BY <1>1, SameTables, SameTilesOf
<1> QED BY <1>3, <1>4 DEF Retainable, Locates

(* ... and the references, as a set, are the ones it had ...               *)
LEMMA SamePairWritten ==
  ASSUME IInv, Again, Write, HoldsContent(input, chosen), HoldsPair(input), file.metadata # None
  PROVE  RefsOf(file') = RefsOf(file) /\ RecordsOf(file') = RecordsOf(file)
<1>1. /\ stage = "build" /\ file # Absent /\ Keeps(carried.metadata, file.metadata)
      /\ WellFormed(carried) /\ file'.layers = Layers /\ file'.pyramids = carried.pyramids
      /\ file'.tables = carried.tables /\ RowsStand
  BY WriteIsUnion, RunFacts DEF Write, HoldsContent, IInv, Building, Again, Landed
<1>2. RecordsOf(carried) = RecordsOf(file) /\ carried.metadata # None /\ OnlyTheirs
  BY SameRecords
<1>3. RecordsOf(file') = RecordsOf(file) /\ DocIds(carried) = DocIds(file)
  BY JudgedAlike
<1>4. \A w : Retainable(w, DocIds(carried), Layers, carried)
               <=> Retainable(w, DocIds(file), file.layers, file)
  BY JudgedAlike
<1>5. ASSUME NEW v \in RefsOf(file') PROVE v \in RefsOf(file)
  <2>1. PICK w \in RefsOf(carried) : /\ Retainable(w, DocIds(carried), Layers, carried)
                                     /\ v = Normalised(w, DocIds(carried))
    BY <1>2, WrittenSets
  <2>2. Retainable(w, DocIds(file), file.layers, file) /\ v = Normalised(w, DocIds(file))
    BY <1>3, <1>4, <2>1
  <2>3. CASE w \in RefsOf(file)
    BY <2>2, <2>3 DEF HoldsPair
  <2>4. CASE input.metadata # None /\ \E r \in RefsOf(input) : Lands(r, w, input, carried)
    <3>1. PICK r \in RefsOf(input) : Lands(r, w, input, carried)
      BY <2>4
    <3>2. ASSUME NEW n \in DOMAIN input.pyramids
          PROVE  /\ n \in DOMAIN carried.pyramids
                 /\ TilesAt(file.pyramids, n) \subseteq TilesAt(carried.pyramids, n)
                 /\ \A t \in TilesAt(input.pyramids, n) :
                      \E u \in TilesAt(file.pyramids, n) : u.key = t.key
      <4> DEFINE theirs == input.pyramids[n].body.tiles
                 ours == file.pyramids[n].body.tiles
      <4>1. n \in DOMAIN file.pyramids /\ Tiles!Contents(theirs) \subseteq Tiles!Contents(ours)
        BY <3>2 DEF HoldsContent
      <4>2. ASSUME NEW i \in DOMAIN theirs
            PROVE  \E j \in DOMAIN ours : ours[j].key = theirs[i].key
        <5> HIDE DEF theirs, ours
        <5>1. <<theirs[i].key, theirs[i].blob>> \in Tiles!Contents(ours)
          BY <4>1, <4>2 DEF Tiles!Contents
        <5>2. PICK j \in DOMAIN ours :
                <<theirs[i].key, theirs[i].blob>> = <<ours[j].key, ours[j].blob>>
          BY <5>1 DEF Tiles!Contents
        <5> QED BY <5>2
      <4>3. \A t \in TilesAt(input.pyramids, n) :
              \E u \in TilesAt(file.pyramids, n) : u.key = t.key
        BY <4>2 DEF TilesAt, PP!Members
      <4> QED BY <1>1, <4>1, <4>3 DEF RowsStand
    <3>3. Lands(r, w, input, file)
      BY <1>1, <1>2, <3>1, <3>2, LandsAlike
    <3> QED BY <2>2, <2>4, <3>1, <3>3 DEF HoldsPair
  <2> QED BY <1>2, <2>1, <2>3, <2>4 DEF OnlyTheirs
<1>6. ASSUME NEW w \in RefsOf(file) PROVE w \in RefsOf(file')
  <2>1. w \in RefsOf(carried)
    BY <1>1, <1>6 DEF Keeps, RefsOf
  <2>2. Retainable(w, DocIds(file), file.layers, file) /\ Normalised(w, DocIds(file)) = w
    BY <1>6 DEF HoldsPair
  <2> QED BY <1>2, <1>3, <1>4, <2>1, <2>2, WrittenSets
<1> QED BY <1>3, <1>5, <1>6

(* ... of which a row more is a repeat.                                    *)
LEMMA RepeatsOnly ==
  ASSUME IInv, Again, Write, HoldsContent(input, chosen), HoldsPair(input), file.metadata # None
  PROVE  OnlyRepeatsAdded(file.metadata.refs, file'.metadata.refs,
                          Pair!IdsOf(file'.metadata.records))
<1> DEFINE md == carried.metadata
           was == file.metadata.refs
           now == file'.metadata.refs
           docs == Pair!IdsOf(md.records)
           p == Len(was)
<1>1. /\ stage = "build" /\ file # Absent /\ RefsInOrder /\ carried.metadata # None
      /\ IsContainer(file)
  BY DEF Write, HoldsContent, Again, Landed, RefsInOrder, IInv, FileOK
<1>2. /\ md \in Pair!Metadata /\ file'.metadata # None /\ file'.metadata.records = md.records
      /\ now = RetainedReferences(md, Layers, carried)
  <2>1. md \in Pair!Metadata /\ md # None
    BY <1>1, WrittenSets
  <2>2. file'.metadata = WrittenMetadata(md, Layers, carried)
    BY WriteIsUnion
  <2>3. PICK w : w = WrittenMetadata(md, Layers, carried)
    OBVIOUS
  <2> HIDE DEF md
  <2>4. w # None /\ w.records = md.records /\ w.refs = RetainedReferences(md, Layers, carried)
    BY <2>1, <2>3, WrittenPair
  <2> QED BY <2>1, <2>2, <2>3, <2>4
<1>3. /\ was \in Seq(Pair!Reference) /\ p \in Nat /\ DOMAIN was = 1..p
      /\ md.refs \in Seq(Pair!Reference) /\ Len(md.refs) \in Nat /\ DOMAIN md.refs = 1..Len(md.refs)
  <2>1. file.metadata \in Pair!Metadata
    BY <1>1 DEF IsContainer
  <2> QED BY <1>2, <2>1 DEF Pair!Metadata
<1>4. /\ \A i \in 1..p : i \in DOMAIN md.refs /\ md.refs[i] = was[i]
      /\ \A i, j \in DOMAIN md.refs : i < j /\ j > p => md.refs[i] # md.refs[j]
      /\ Len(md.refs) <= p + (IF input.metadata = None THEN 0 ELSE Len(input.metadata.refs))
  BY <1>1, <1>3 DEF RefsInOrder, PP!NewRefsAfter
<1>5. p \in 0..Len(md.refs)
  <2>1. CASE p = 0
    BY <1>3, <2>1
  <2>2. CASE p # 0
    <3>1. p \in 1..p
      BY <1>3, <2>2
    <3>2. p \in 1..Len(md.refs)
      BY <1>3, <1>4, <3>1
    <3> QED BY <1>3, <3>2
  <2> QED BY <2>1, <2>2
<1>6. docs = DocIds(carried) /\ docs = DocIds(file) /\ docs = Pair!IdsOf(file'.metadata.records)
  BY <1>2, JudgedAlike DEF DocIds
<1>7. ASSUME NEW n \in 1..p
      PROVE  /\ Retainable(md.refs[n], docs, Layers, carried)
             /\ Normalised(md.refs[n], docs) = md.refs[n]
  <2>1. md.refs[n] = was[n] /\ was[n] \in RefsOf(file)
    BY <1>3, <1>4 DEF RefsOf
  <2>2. /\ Retainable(was[n], DocIds(file), file.layers, file)
        /\ Normalised(was[n], DocIds(file)) = was[n]
    BY <2>1 DEF HoldsPair
  <2>3. Retainable(was[n], DocIds(carried), Layers, carried)
    BY <2>2, JudgedAlike
  <2> QED BY <1>6, <2>1, <2>2, <2>3
<1>8. \A w : w \in RefsOf(carried) <=> \E n \in DOMAIN md.refs : w = md.refs[n]
  BY DEF RefsOf
<1>9. \A j \in DOMAIN now : \E i \in DOMAIN was : now[j] = was[i]
  BY SamePairWritten DEF RefsOf
<1> HIDE DEF md, was, now, docs, p
<1>10. /\ now \in Seq(Pair!Reference) /\ p <= Len(now) /\ Len(now) <= Len(md.refs)
       /\ \A n \in 1..p : now[n] = md.refs[n]
       /\ \A i \in DOMAIN now : i > p =>
            \E n \in DOMAIN md.refs : n > p /\ now[i] = Normalised(md.refs[n], docs)
  BY <1>2, <1>5, <1>7, RetainedPrefix DEF docs
<1>11. ASSUME NEW j \in DOMAIN now, j > p
       PROVE  \E w \in RefsOf(carried) : w # now[j] /\ now[j] = Normalised(w, docs)
  <2>1. PICK n \in DOMAIN md.refs : n > p /\ now[j] = Normalised(md.refs[n], docs)
    BY <1>10, <1>11
  <2>2. PICK i \in DOMAIN was : now[j] = was[i]
    BY <1>9
  <2>3. i \in 1..p /\ i < n /\ i \in DOMAIN md.refs
    <3>1. n \in Nat
      BY <1>3, <2>1
    <3>2. i \in 1..p /\ i \in DOMAIN md.refs
      BY <1>3, <1>4, <2>2
    <3> QED BY <1>3, <2>1, <3>1, <3>2
  <2>4. md.refs[i] # md.refs[n]
    BY <1>4, <2>1, <2>3
  <2> QED BY <1>4, <1>8, <2>1, <2>2, <2>3, <2>4
<1>12. Len(now) <= p + (IF input.metadata = None THEN 0 ELSE Len(input.metadata.refs))
  <2>1. PICK extra : extra = (IF input.metadata = None THEN 0 ELSE Len(input.metadata.refs))
    OBVIOUS
  <2>2. extra \in Nat
    <3>1. input.metadata # None => input.metadata \in Pair!Metadata
      BY <1>1, RunFacts DEF IsContainer
    <3> QED BY <2>1, <3>1 DEF Pair!Metadata
  <2>3. \A a, b, c \in Nat : a <= b /\ b <= c => a <= c
    OBVIOUS
  <2>4. Len(now) \in Nat /\ p + extra \in Nat
    BY <1>3, <1>10, <2>2
  <2> QED BY <1>3, <1>4, <1>10, <2>1, <2>3, <2>4
<1>13. \A i \in DOMAIN was : now[i] = was[i]
  BY <1>3, <1>4, <1>10
<1> QED BY <1>6, <1>9, <1>10, <1>11, <1>12, <1>13 DEF OnlyRepeatsAdded, was, now, p

(* Appending a source again to the file it has been appended to, once its   *)
(* references went in as a merge maps them (Absorbs), is refused or leaves  *)
(* every layer, table, tile and document as it is; the references' rows     *)
(* stand, and a row more repeats one of them for a carried reference that   *)
(* had to be normalised.                                                   *)
THEOREM AppendAgainAddsOnlyRepeatsAlways == Spec => AppendAgainAddsOnlyRepeats
<1> DEFINE Repeat == stage = "build" /\ last' = "written" /\ <<input, chosen>> \in absorbed
           Stands ==
             /\ file'.layers = file.layers /\ file'.tables = file.tables
             /\ TilesOf(file') = TilesOf(file)
             /\ file.metadata # None =>
                  /\ RecordsOf(file') = RecordsOf(file)
                  /\ OnlyRepeatsAdded(file.metadata.refs, file'.metadata.refs,
                                      Pair!IdsOf(file'.metadata.records))
<1>1. ASSUME IInv, Again, [Next]_vars, Repeat
      PROVE  Stands
  <2>1. Write
    BY <1>1, OnlyWriteEndsWritten
  <2>2. HoldsContent(input, chosen) /\ HoldsPair(input)
    <3>1. PICK a \in absorbed : a = <<input, chosen>>
      BY <1>1
    <3>2. HoldsContent(a[1], a[2]) /\ HoldsPair(a[1]) /\ a[1] = input /\ a[2] = chosen
      BY <1>1, <3>1 DEF Again, Arrived
    <3> QED BY <3>2
  <2> QED BY <1>1, <2>1, <2>2, SameTables, SameTilesOf, JudgedAlike, RepeatsOnly
<1>2. Spec => [](IInv /\ Again)
  BY InitIInv, StepKeeps, InitAgain, AgainKeeps, PTL DEF Spec
<1>3. IInv /\ Again /\ [Next]_vars => [Repeat => Stands]_vars
  BY <1>1
<1> QED BY <1>2, <1>3, PTL DEF AppendAgainAddsOnlyRepeats, Spec
=============================================================================
